\* One instance whose cron ticks while a pass is running; a page of one row; answers
\* are lost, saves fail, the instance dies.
CONSTANTS
    e1 = e1
    e2 = e2
    ev1 = ev1
    i1 = i1
    i2 = i2
    p1 = p1
    p2 = p2
    Endpoints = {e1, e2}
    Events = {ev1}
    Pings = {}
    Subscriptions <- MCEverything
    Passes = {p1, p2}
    Instances = {i1, i2}
    InstanceOf <- MCOneInstance
    Callers = {}
    MaxAttempts = 3
    Batch = 1
    MayChange = FALSE
    MaxRequests = 0
    MaxFaults = 2
SPECIFICATION FairSpec
INVARIANTS
    RepeatsArePaidFor
PROPERTIES
    ImplementsQueue
    DeliveryEnds
CHECK_DEADLOCK FALSE
