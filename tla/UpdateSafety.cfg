SPECIFICATION Spec
CONSTANTS
    MaxVersion = 2
    Limits <- SafetyLimits
    Bounds <- SafetyBounds
INVARIANTS TypeOK OneRequest AppliedIsInstalled AppliedIsRunning ComponentsPaired
PROPERTIES NoDowngrade
CHECK_DEADLOCK FALSE
