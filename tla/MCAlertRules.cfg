SPECIFICATION Spec
CONSTANTS
    alice = alice
    bob = bob
    e1 = e1
    e2 = e2
    r1 = r1
    r2 = r2
    Operators = {alice, bob}
    Rules = {r1, r2}
    Endpoints = {e1, e2}
    Specs <- MCSpecs
    NoSpec <- MCNoSpec
    MayManage <- MCMayManage
    MaxUpdates = 3
SYMMETRY RuleSymmetry
INVARIANTS
    DocumentIsHead
    LinearHistory
    ChangesAreAuthorised
    AppliedMarker
PROPERTY ImplementsHistory
