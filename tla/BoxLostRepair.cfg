SPECIFICATION Spec
CONSTANTS
    S1 = S1
    S2 = S2
    Manual = Manual
    Off = Off
    U1 = U1
    U2 = U2
    NoConfig = NoConfig
    NoAuthority = NoAuthority
    NoProc = NoProc
    Disabled = Off
    Slots = {p1, p2}
    Shapes <- MCShapes
    Managed <- MCManaged
    Users <- MCUsers
    Deployments <- MCDeployments
    Authorities <- MCAuthorities
    Budgets <- LostRepairBudgets
INVARIANT AckedRevocationHolds
CHECK_DEADLOCK FALSE
