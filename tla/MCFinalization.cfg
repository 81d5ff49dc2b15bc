CONSTANTS
    QueueCapacity = 2
    MaxEvents = 4
SPECIFICATION FinalizerSpec
INVARIANTS FinalizedOnce CrashReportHasStatus SignalsOwnedGroup ResultIsTrue
PROPERTIES ExitIsBounded SupervisorReturns
CHECK_DEADLOCK FALSE
