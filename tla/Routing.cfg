SPECIFICATION Spec
CONSTANTS
    p1 = p1
    p2 = p2
    p3 = p3
    Unset = Unset
    Provider <- MCProvider
    Mode <- MCMode
    GlobalPolicy <- MCGlobal
    ModelPolicy <- MCModel
    Override <- MCOverride
    Filter <- MCFilter
    Snapshot <- MCSnapshot
    Request <- MCRequest
    DefaultMode = "merge"
    DefaultPolicy <- MCDefaultPolicy
    MaxFaults = 1
INVARIANTS
    FilterIsHard
    ManagedIsExact
    PreviewIsSent
    StrictIsWithinPolicy
    SavedIsInForce
