\* Three requests of any kind about one organization, one user and sessions.
CONSTANTS
    Orgs = {o1}
    Plans = {"free", "pro"}
    FirstPlan = "free"
    Users = {u1}
    OrgOf <- MCOrgOf
    OrgRequests = {q1, q2}
    Requests = {r1, r2}
    NoRequest = NoRequest
    Operators = {p1, p2}
    Codes = {1, 2}
    MaxRequests = 4
    MaxTime = 1
SPECIFICATION Spec
INVARIANTS
    TypeOK
    NoLostUpdate
    HistoryBalances
    AccountsHold
    ImpersonationHolds
SYMMETRY Symmetry
CHECK_DEADLOCK FALSE
