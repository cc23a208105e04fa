\* Requests about groups and contacts, reminder passes and jobs of one organization.
CONSTANTS
    MaxDay = 3
    Budgets <- MCBudgets
    MaxGroups = 3
    Names = {"a", "b", "c"}
    FirstNames <- MCFirstNames
    Contacts = {c1, c2}
    FirstContacts <- MCFirstContacts
    Paths <- MCPaths
    DirRequests = {q1, q2}
    Policies <- MCPolicies
    FirstPolicy <- MCEveryone
    FirstDue = 2
    Runners = {scheduler, admin}
    Scheduler = scheduler
    MaxPayment = 2
    Batch = 2
    ExportJobs = {j1}
    MaxRun = 2
    Workers = {w1, w2}
SPECIFICATION FairSpec
INVARIANTS
    TypeOK
    DirectoryHolds
    CooldownHolds
    JobRowsHold
PROPERTY
    PassEnds
CHECK_DEADLOCK FALSE
