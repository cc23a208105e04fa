CONSTANTS
    Clerks = {r1, r2}
    Budgets <- MCBudgets
    Templates = {t1, t2}
    NoTemplate = NoTemplate
    Names = {n1, n2}
    MaxJob = 2
    Payloads <- MCPayloads
    Sessions = {s1}
    Plans = {p1}
    Holders = {h1, h2}
    Parts = {i1, i2}
    Totals = {1, 2}
    Tenants = {tenant1}
    Entries = {e1, e2}
    MaxAudit = 2
    Orgs = {"o1", "o2"}
    Admins <- MCAdmins
    Offices <- MCOffices
    MaxBroadcast = 2
    Chunk = 2
    MaxCall = 3
    Persons = {"p"}
    Papers = {"s"}
    Limits = {1, 2}
    MaxDay = 2
    Contacts = {c1, c2}
    Users = {u1}
    MaxNotice = 2
    Readers = {q1}
    Forms = {f1, f2}
    Members = {m1}
    MaxRow = 2
    Units = {g1, g2}
    Nobody = Nobody
    DayOf <- MCDayOf
    MaxTodo = 3
    Firms = {"o1", "o2"}
    Invitees = {"a", "b"}
    MaxInvite = 4
    Bearers = {b1, b2}
    MaxToken = 3
    Tabs = {tab1, tab2}
    People = {a1, a2}
    NoOne = NoOne
SPECIFICATION MCSpec
INVARIANTS
    TypeOK
    ImportsHold
    BooksHold
    BroadcastsHold
    TrailHolds
    NoticesHold
    ReadersAreTold
    EnrolmentHolds
    BrowserHolds
PROPERTY
    TasksEndOnce
SYMMETRY Symmetry
CHECK_DEADLOCK FALSE
