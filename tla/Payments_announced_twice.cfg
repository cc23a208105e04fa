\* Two reports of the same charge overlap.
CONSTANTS
    p1 = p1
    Payments = {p1}
    h1 = h1
    h2 = h2
    Handlers = {h1, h2}
    Amounts = {1}
    Charges = {1}
    PartialLimit = 0
    EnabledMethods = {"ONLINE"}
    AdminUpdates <- MCNoUpdates
    Verifiers = {"manual_verify"}
    EnvelopeIds = TRUE
    ReportsFailures = FALSE
    MaxAdmin = 0
    MaxFaults = 0
SYMMETRY MCSymmetry
SPECIFICATION Spec
INVARIANTS
    NoPhantomEvents
CHECK_DEADLOCK FALSE
