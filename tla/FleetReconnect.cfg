SPECIFICATION FairSpec
CONSTANTS
    entrance = entrance
    relay = relay
    none = none
    blank = blank
    direct = direct
    relayed = relayed
    noGraph = noGraph
    empty = empty
    noCfg = noCfg
    e1 = e1
    e2 = e2
    r2 = r2
    noTx = noTx
    Agents <- MCAgents
    NoAgent <- none
    Topologies <- MCTopologies
    InitialTopology <- blank
    NoTopology <- noGraph
    Cfgs <- MCCfgs
    Empty <- empty
    NoCfg <- noCfg
    Compile <- MCCompile
    Depth <- MCDepth
    Retire <- MCRetire
    NoTx <- noTx
    Ids = {1, 2, 3, 4}
    Budgets <- BudgetsReconnect
PROPERTIES
    InterruptedIsRecovered
