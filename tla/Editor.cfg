SPECIFICATION Spec
CONSTANTS
    Unset = Unset
    PickedField = {"performance", "quantization"}
    NumberOf <- MCNumberOf
    Name = {"fp8"}
    Age = {60, 1800}
    Invalid = Invalid
    Odd = Odd
    Endpoints <- MCEndpoints
    Earlier <- MCEarlier
    MaxConditions = 1
    MaxEdits = 3
    MaxFaults = 1
INVARIANTS
    PreviewMatches
    SavedIsStored
PROPERTIES
    PreviewSettles
CHECK_DEADLOCK FALSE
