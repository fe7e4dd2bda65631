SPECIFICATION Spec
CONSTANTS
    Rec = {r1, r2}
    Limits = {2}
    Window = 1
    MaxPending = 1
    Concurrency = 1
    Polls = 2
    Retries = 1
    MaxFaults = 0
PROPERTIES
    PendingSettles
