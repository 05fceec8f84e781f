SPECIFICATION RuntimeSpec
CONSTANTS
    alice = alice
    e1 = e1
    r1 = r1
    r2 = r2
    n1 = n1
    n2 = n2
    p1 = p1
    p2 = p2
    Operators = {alice}
    Rules = {r1}
    Endpoints = {e1}
    Publishers = {p1}
    Specs <- MCSpecs
    NoSpec <- MCNoSpec
    MayManage <- MCMayManage
    MaxUpdates = 2
    MaxPreviews = 2
INVARIANT AppliedRulesRun
