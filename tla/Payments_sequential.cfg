\* One request at a time: crashes and retries, redelivery, failed attempts and reversals
\* reported late and out of order, charges short of the sum and below the partial limit,
\* an administrator.
CONSTANTS
    p1 = p1
    Payments = {p1}
    h1 = h1
    Handlers = {h1}
    Amounts = {2, 3}
    Charges = {1, 2, 3}
    PartialLimit = 2
    EnabledMethods = {"ONLINE", "OFFLINE"}
    AdminUpdates <- MCFewUpdates
    Verifiers = {"manual_verify", "callback_redirect"}
    EnvelopeIds = TRUE
    ReportsFailures = TRUE
    MaxAdmin = 1
    MaxFaults = 1
SPECIFICATION FairSpec
INVARIANTS
    QuiescentAgreement
PROPERTIES
    ChargeIsRecorded
CHECK_DEADLOCK FALSE
