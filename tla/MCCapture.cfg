SPECIFICATION WorkerSpec
CONSTANTS
    ResumeAttemptLimit = 3
    EnabledKinds <- MCEnabledKinds
    Collectors <- MCCollectors
    PersistRawShm = TRUE
INVARIANTS
    NoLiveInspection
    StuckTaskEscalated
    CancelledBeforeResume
    OneJobAtATime
    EvidenceKept
PROPERTIES
    CaptureReturns
    ImplementsContract
CHECK_DEADLOCK FALSE
