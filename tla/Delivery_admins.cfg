\* Pings, retries by hand and edited endpoints overlap a pass of the worker.
CONSTANTS
    e1 = e1
    ev1 = ev1
    i1 = i1
    i2 = i2
    k1 = k1
    k2 = k2
    p1 = p1
    p2 = p2
    pg1 = pg1
    Endpoints = {e1}
    Events = {ev1}
    Pings = {pg1}
    Subscriptions <- MCLists
    Passes = {p1}
    Instances = {i1, i2}
    InstanceOf <- MCOneInstance
    Callers = {k1, k2}
    MaxAttempts = 2
    Batch = 1
    MayChange = TRUE
    MaxRequests = 2
    MaxFaults = 0
SPECIFICATION Spec
INVARIANTS
    TypeOK
    RowsAreTrue
CHECK_DEADLOCK FALSE
