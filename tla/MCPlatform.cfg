CONSTANTS
    i1 = i1
    i2 = i2
    i3 = i3
    lower = lower
    upper = upper
    other = other
    full = full
    StoreIDs = {i1, i2, i3}
    StoreKeys = {lower, upper, other}
    Fold <- MCFold
    NoKey = NoKey
    Omitted = Omitted
    Filled = full
    GrantClusters = {"east", "west"}
    GrantNamespaces = {"a", "b"}
    MaxIDs = 2
    root = root
    u1 = u1
    g1 = g1
    c1 = c1
    c2 = c2
    Users = {root, u1}
    Groups = {g1}
    Super = {root}
    RolesByName <- MCRoles
    LegacyRoles <- MCLegacy
    ScopesByHand <- MCScopes
    GrantRequests <- MCRequests
    AccessCalls = {c1, c2}
    MaxRoles = 1
    v1 = v1
    v2 = v2
    Envs = {g1}
    Resources = {v1, v2}
    EnvCallers = {c1, c2}
    MaxBindings = 2
    NoIntegration = NoIntegration
    MaxIntegrations = 2
    MaxSources = 2
    OnboardCallers = {c1, c2}
    OnboardGroups = {i1, i2}
    Nothing = Nothing
    TemplateCallers = {c1, c2}
    TemplateNames = {"m", "n"}
    TemplateBodies <- MCBodies
    Substitutions <- MCSubstitutions
    NoTemplate = NoTemplate
    MaxTemplates = 2
    sv = sv
    nb = nb
    SourceCallers = {c1, c2}
    ConfigService = sv
    ConfigGroups = {i1, i2}
    Neighbours <- MCNeighbours
    ParserRules <- MCParserRules
    BaseDocuments <- MCBaseDocuments
    Absent = Absent
    CatalogCallers = {c1, c2}
    ServiceRequests <- MCServices
    NoCmdb = NoCmdb
    WorkloadLists <- MCWorkloads
    MaxServices = 2
    MaxTargets = 4
    PolicyCallers = {root, u1}
    PolicyScopes = {"s", "all"}
    EveryService = "all"
    MayManagePolicies <- MCPolicyManagers
    RuleServices = {"s"}
    ReceiptTTL = 0
    Second = 2
    MaxClock = 2
    PolicyRequests <- MCPolicyRequests
    MaxPolicies = 1
    MaxChanges = 3
    MaxReceipts = 1
    MaxEnabled = 1
SPECIFICATION PlatformSpec
SYMMETRY MCSymmetry
INVARIANTS
    StoresAgree
    GrantsAreSound
    NothingIsInherited
    SourcesFollowBindings
    ResultBelongsToGroup
    UnrecordedLeavesTemplates
    ParserFollowsService
    RenderingsAreSound
    CatalogIsSound
    PoliciesAreSound
CHECK_DEADLOCK FALSE
