SPECIFICATION Spec
CONSTANTS
    ApiKey = {k1, k2}
    NoKey = NoKey
    EnvKey = k1
    Put = {p1}
    MaxFaults = 1
    Models = models
    Slot = {models, endpoints}
    Data = {d1}
    Absent = Absent
    Background = bg
    Caller = {c1, c2, bg}
INVARIANTS
    RememberedSurvives
    ActiveIsVetted
    KnownStaysKnown
    BaseIsCurrent
PROPERTIES
    CallersAnswered
