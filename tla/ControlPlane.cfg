SPECIFICATION ControlPlaneSpec
CONSTANTS
    a1 = a1 a2 = a2 h1 = h1 h2 = h2 k1 = k1 k2 = k2 n1 = n1 n2 = n2 c1 = c1 c2 = c2
    u1 = u1 root = root g1 = g1 g2 = g2 p1 = p1 p2 = p2
    b1 = b1 b2 = b2 b3 = b3 b4 = b4 q1 = q1 q2 = q2
    s1 = s1 i1 = i1 i2 = i2 j1 = j1 m1 = m1
    x1 = x1 x2 = x2 w1 = w1 w2 = w2 e1 = e1 e2 = e2
    Nobody = Nobody
    Servers = {a1, a2}
    AgentHosts = {h1, h2}
    EnrolTokens = {k1, k2}
    ServerNames = {n1, n2}
    Streams = {c1, c2}
    IdName <- MCIdName
    ResultLimit = 1
    AccessBudgets <- MCAccessBudgets
    Blank = Blank
    Administrator = root
    EndUsers = {u1}
    Logins = {g1, g2}
    Passwords = {p1, p2}
    Bearers = {b1, b2, b3, b4}
    Requests = {q1, q2}
    MaxSessions = 1
    KDFWaiters = 1
    IdleTimeout = 2
    InviteLifetime = 1
    Seeds <- MCSeeds
    WebBudgets <- MCWebBudgets
    PoolServers = {s1} V4 = {i1, i2} V6 = {j1} Manual = {m1} NoAddress = NoAddress
    Routes <- MCRoutes
    FirstAddresses <- MCFirstAddresses
    PoolBudgets <- MCPoolBudgets
    Readers = {x1, x2} RuleIDs = {w1, w2} RuleSets = {e1, e2}
    Formats = {"clash"}
    RenderedEntries = 2 RenderedBytes = 2 RuleSetEntries = 1 RuleSetBytes = 1
    FetchSlots = 1
    FreshFound = 2 FreshMissing = 1 StaleFor = 3 CatalogTTL = 2
    ReadBudgets <- MCReadBudgets
INVARIANTS AccessIsCurrent SessionsAreCurrent PoolIsSound PublicReadsAreSound
PROPERTIES EnrolledHostsConnect SessionsSurviveRestart EveryRequestAnswered AddressesArrive
CHECK_DEADLOCK FALSE
