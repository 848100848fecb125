SPECIFICATION MasterStateSpec
CONSTANTS
    a1 = a1 a2 = a2 a3 = a3 m1 = m1 m2 = m2
    n1 = n1 n2 = n2 u1 = u1 u2 = u2 edge = edge relay = relay
    g1 = g1 g2 = g2 good = good bad = bad
    All = All Unrouted = Unrouted
    TreeAgents = {a1, a2, a3}
    Matches = {m1, m2}
    InitialTrees <- MCTrees
    MaxEntities = 14
    MaxEdits = 3
    Admin = Admin NoSnapshot = NoSnapshot
    StoreNodes = {n1, n2} StoreUsers = {u1, u2} StoreAgents = {edge, relay}
    Ports = {1} Shapes = {"shadowsocks", "anytls"}
    StoreBudgets <- MCStoreBudgets
    FirstStores <- MCFirstStores
    Grants = {g1, g2} Quotas = {0, 1} Terms = {0, 1}
    Period = 1 MaxBytes = 2
    BillBudgets <- MCBillBudgets
    FirstMembers <- MCFirstMembers
    Movers = {a1} Uploads = {good, bad} Unreadable = {bad}
    OwnData = own Mixed = mixed NoFile = missing
    MigrationBudgets <- MCMigrationBudgets
    MaxVersion = 2
    Limits <- ServedLimits
    Bounds <- ServedBounds
INVARIANTS MembersAreKept AccountsAreSound DataStaysWhole
PROPERTIES EditsAreSound AuthorityHasRevision RevocationReachesAgent MigrationCompletes RequestsAreServed
CHECK_DEADLOCK FALSE
