CONSTANTS
    MaxFaults = 2
    Threads = {t1, t2, t3}
    Faulting = {t1, t2}
    Forms <- MCForms
    MaxCaptured = 2
    Nobody = Nobody
SPECIFICATION MonitorSpec
INVARIANTS ExitIsHonest NoOrphan RightsAreBalanced
PROPERTIES NoSignalAfterReap MonitorExits ChildIsReleased EndIsContained FaultingThreadReleased
CHECK_DEADLOCK FALSE
