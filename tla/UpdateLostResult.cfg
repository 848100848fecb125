SPECIFICATION Spec
CONSTANTS
    MaxVersion = 2
    Limits <- NoFaults
    Bounds <- TwoRequests
INVARIANTS ResultSurvives
CHECK_DEADLOCK FALSE
