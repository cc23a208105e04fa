CONSTANTS
    Forms = {f1, f2}
    Slugs = {s1, s2}
    Targets = {1}
    Editors = {e1, e2}
    Visits = {v1, v2}
    Budgets <- MCBudgets
    MaxContact = 2
    Emails = {m1}
    NoEmail = NoEmail
    PortalRequests = {r1, r2}
SPECIFICATION Spec
INVARIANTS
    TypeOK
    SettledIsShown
    RevokedStaysRevoked
SYMMETRY Symmetry
CHECK_DEADLOCK FALSE
