SPECIFICATION FairDeliverySpec
CONSTANTS
    a = a
    b = b
    c = c
    a1 = a1
    a2 = a2
    b1 = b1
    c1 = c1
    c2 = c2
    p1 = p1
    p2 = p2
    m1 = m1
    m2 = m2
    g1 = g1
    g2 = g2
    h1 = h1
    h2 = h2
    h3 = h3
    NoHash = NoHash
    NoGroup = NoGroup
    NoConn = NoConn
    Agents = {a, b, c}
    Connections = {a1, a2, b1, c1, c2}
    Publishers = {p1, p2}
    Movers = {m1, m2}
    Groups = {g1, g2}
    Hashes = {h1, h2, h3}
    Rejected = {h2}
    Capable = {a, b, c}
    Owner <- MCOwner
    Declared <- MCDeclared
    Callers <- MCCallers
    Scenarios <- LivenessScenarios
    MaxWire = 1
    MaxVersions = 2
    MaxReports = 12
PROPERTIES
    PublishedIsApplied
    InstanceSettles
