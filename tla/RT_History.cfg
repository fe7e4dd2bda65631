SPECIFICATION Spec
CONSTANTS
    Rec = {r1, r2, r3}
    Limits = {1, 2}
    Window = 2
    MaxPending = 2
    Concurrency = 1
    Polls = 2
    Retries = 1
    MaxFaults = 1
INVARIANTS
    PendingHasJob
    QueueDiscipline
    ClearedStaysGone
PROPERTIES
    SettledForGood
    PendingSettles
