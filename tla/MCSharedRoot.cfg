CONSTANTS
    Reports = {r1, r2, r3}
    Names = {a}
    Scanners = {}
    Legacy = {l1}
    Earlier = {r1}
    MaxCount = 2
    MaxBytes = 2
    Size <- MCSize
    Monitors = {m1, m2}
    Types = {t1}
    MaxEvents = 2
    Window = 2
    LastTick = 5
    Crashes = {c1, c2, c3}
    Sessions = {i1, i2}
    MaxSize = 1
    Overage = 6
    MaxLine = 3
    Callers = {p1, p2}
SPECIFICATION RootSpec
SYMMETRY RootSymmetry
INVARIANTS LiveReportKept RateCap PublishIsAllOrNothing
PROPERTIES RemovesOnlyExcess OnlyOldRecordsRotate
CHECK_DEADLOCK FALSE
