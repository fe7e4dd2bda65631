SPECIFICATION Spec
CONSTANTS
    MaxRetries = 2
    NoStatus = NoStatus
INVARIANTS
    AnsweredOnce
    CancellationRecorded
    NothingLeftOpen
PROPERTIES
    RetriesBounded
    CallsEnd
    DisconnectEnds
CHECK_DEADLOCK FALSE
