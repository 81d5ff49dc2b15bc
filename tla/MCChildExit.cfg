CONSTANTS
    Signals = {"TERM"}
    Anr = "off"
    MaxExceptions = 0
    MaxSignals = 0
SPECIFICATION FairSpec
PROPERTIES ChildEndGetsThrough
CHECK_DEADLOCK FALSE
