SPECIFICATION KubernetesSpec
CONSTANTS
    c1 = c1
    c2 = c2
    v1 = v1
    v2 = v2
    ns = ns
    cm = cm
    x = x
    y = y
    w1 = w1
    w2 = w2
    n1 = n1
    r1 = r1
    NoHome = NoHome
    Gone = Gone
    Callers = {c1, c2}
    Objects = {ns, cm}
    Contents = {x, y}
    Manifests <- MCManifests
    Home <- MCHome
    MaxRevision = 2
    MaxCalls = 4
    OpCallers = {c1, c2}
    ObjectContents = {v1, v2, r1}
    Ruleless = {r1}
    NoObject = NoObject
    MaxUIDs = 2
    ReleaseCallers = {c1, c2}
    ManagedSources = {v1, v2}
    WriteURLs = {w1, w2}
    CollectorNamespaces = {n1}
    NoCollector = NoCollector
    NoRelease = NoRelease
    MaxReleases = 2
    SecretCallers = {c1, c2}
    MaxReadings = 4
    ServiceNames = {1, 2}
    WorkloadKeys = {1, 2}
    Pods = {v1, v2}
    ServiceSelectors <- MCSelectors
    WorkloadSpecs <- MCWorkloads
    PodLabels <- MCPodLabels
    VirtualServices <- MCVirtualServices
    Gateways = {"g"}
    AppKeys <- MCAppKeys
    EndpointCallers = {c1, c2}
    EndpointNames = {v1, v2}
    MaxEndpoints = 2
SYMMETRY MCSymmetry
INVARIANTS
    PreviewedIsOverwritten
    InventoryIsTrue
    RecordsAreBacked
    OperationsAreSound
    AppliedReleaseRuns
    CredentialsAreSound
    ViewIsSound
    EditsSurviveTests
\* A behaviour ends when its calls and the changes of the cluster are used up.
CHECK_DEADLOCK FALSE
