\* Two requests of one payment overlap: reports of Paystack, submissions, offline
\* payments, administrators' updates; one of them may be cut short.
CONSTANTS
    p1 = p1
    Payments = {p1}
    h1 = h1
    h2 = h2
    Handlers = {h1, h2}
    Amounts = {2}
    Charges = {1, 2}
    PartialLimit = 0
    EnabledMethods = {"ONLINE", "OFFLINE"}
    AdminUpdates <- MCFewUpdates
    Verifiers = {"manual_verify"}
    EnvelopeIds = TRUE
    ReportsFailures = FALSE
    MaxAdmin = 1
    MaxFaults = 1
SYMMETRY MCSymmetry
SPECIFICATION Spec
INVARIANTS
    TypeOK
    LedgerAgrees
    PaidIsBacked
    AnswersAreKept
    AnnouncedAsSettled
PROPERTIES
    ImplementsLedger
    MoneyKept
CHECK_DEADLOCK FALSE
