CONSTANTS
    Crashes = {c1}
    Sessions = {i1}
    MaxSize = 1
    Overage = 6
    MaxLine = 3
SPECIFICATION SessionSpec
PROPERTIES RecordedSessionIsClosed
CHECK_DEADLOCK FALSE
