SPECIFICATION LivenessSpec
CONSTANTS
    entrance = entrance
    relay = relay
    none = none
    blank = blank
    direct = direct
    relayed = relayed
    noGraph = noGraph
    empty = empty
    noCfg = noCfg
    e1 = e1
    e2 = e2
    r2 = r2
    noTx = noTx
    Agents <- MCAgents
    NoAgent <- none
    Topologies <- MCTopologies
    InitialTopology <- blank
    NoTopology <- noGraph
    Cfgs <- MCCfgs
    Empty <- empty
    NoCfg <- noCfg
    Compile <- MCCompile
    Depth <- MCDepth
    Retire <- MCRetire
    NoTx <- noTx
    x1 = x1
    plain = plain
    y1 = y1
    y2 = y2
    Members = {x1}
    Graphs = {plain, relayed}
    Dialing = {relayed}
    Places = {y1, y2}
    Unknown = Unknown
    NoConf = NoConf
    PlaneBudgets <- MCPlaneBudgets
    Ids = {1, 2, 3, 4}
    Budgets <- LivenessBudgets
INVARIANTS
    ReportedRevocationHolds
PROPERTIES
    UsersConverge
    InterruptedIsRecoveredOnline
    EditSettles
CHECK_DEADLOCK FALSE
