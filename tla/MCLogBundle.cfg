SPECIFICATION LogsSpec
CONSTANTS
    c1 = c1
    c2 = c2
    r1 = r1
    r2 = r2
    x1 = x1
    x2 = x2
    x3 = x3
    p1 = p1
    p2 = p2
    Idle = Idle
    NoBundle = NoBundle
    Gone = Gone
    TargetCallers = {"admin", "operator"}
    TenantAdmins = {"admin"}
    Places = {r1, r2}
    Tenants = {"t"}
    NoTenant = "own"
    MaxTargets = 2
    MachineCallers = {c1, c2}
    Addresses = {r1, r2}
    MachineIDs = {x1, x2}
    Foci = {"bundle", "targets", "machines"}
    Callers = {c1, c2}
    Routes = {r1, r2}
    Contents = {x1, x2, x3}
    Workload <- MCWorkload
    Tenanted = {x1, x2}
    Patches = {p1, p2}
    MaxSerial = 5
    MaxOverlapping = 3
    MaxFaults = 1
SYMMETRY BundleSymmetry
INVARIANTS
    BundlesAreSound
    AppliedRouteRuns
    EditsStay
    TargetsAreSound
    MachinesAreSound

\* The bounds end every behaviour.
CHECK_DEADLOCK FALSE
