\* An endpoint is paused while its row is queued; the page holds one row.
CONSTANTS
    e1 = e1
    e2 = e2
    ev1 = ev1
    i1 = i1
    i2 = i2
    k1 = k1
    p1 = p1
    p2 = p2
    Endpoints = {e1, e2}
    Events = {ev1}
    Pings = {}
    Subscriptions <- MCEverything
    Passes = {p1}
    Instances = {i1, i2}
    InstanceOf <- MCOneInstance
    Callers = {k1}
    MaxAttempts = 2
    Batch = 1
    MayChange = TRUE
    MaxRequests = 1
    MaxFaults = 0
SPECIFICATION FairSpec
PROPERTIES
    DeliveryEnds
CHECK_DEADLOCK FALSE
