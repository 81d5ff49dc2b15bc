CONSTANTS
    Signals = {"TERM", "USR1"}
    Anr = "off"
    MaxExceptions = 1
    MaxSignals = 2
SPECIFICATION FairSpec
PROPERTIES TerminationWins TriggersGetThrough
CHECK_DEADLOCK FALSE
