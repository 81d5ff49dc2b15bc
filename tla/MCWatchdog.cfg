CONSTANTS
    Warmup = 1
    Threshold = 2
    CheckInterval = 2
    Cooldown = 2
    WakeLag = 1
    MaxTime = 13
    MaxBeats = 2
    MaxInterrupts = 2
SPECIFICATION Spec
INVARIANTS HangIsReported
PROPERTIES HangIsApplicationTime GraceIsApplicationTime
CHECK_DEADLOCK FALSE
