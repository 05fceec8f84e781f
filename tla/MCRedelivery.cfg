SPECIFICATION EventsSpec
CONSTANTS
    alice = alice
    r1 = r1
    e1 = e1
    c1 = c1
    c2 = c2
    Operators = {alice}
    Rules = {r1}
    Endpoints = {e1}
    Specs <- MCSpecs
    NoSpec <- MCNoSpec
    MayManage <- MCMayManage
    MaxUpdates = 2
    Services = {"s1", "s2"}
    Alerts <- MCAlerts
    Calls = {c1}
    MaxBatch = 1
    MaxEvents = 2
    MaxTime = 2
PROPERTY DeliveryIsIdempotent
