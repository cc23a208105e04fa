\* A contact in two of the groups a policy addresses.
CONSTANTS
    MaxDay = 3
    Budgets <- MCGroupsOnly
    MaxGroups = 3
    Names = {"a", "b", "c"}
    FirstNames <- MCFirstNames
    Contacts = {c1, c2}
    FirstContacts <- MCFirstContacts
    Paths <- MCPaths
    DirRequests = {q1, q2}
    Policies <- MCPolicies
    FirstPolicy <- MCEveryone
    FirstDue = 2
    Runners = {scheduler, admin}
    Scheduler = scheduler
    MaxPayment = 2
    Batch = 2
    ExportJobs = {j1}
    MaxRun = 2
    Workers = {w1, w2}
SPECIFICATION Spec
INVARIANT AmountIsOwed
CHECK_DEADLOCK FALSE
