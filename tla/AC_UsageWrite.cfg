SPECIFICATION Spec
CONSTANTS
    Key = {k1}
    Model = {m1}
    Override = {}
    NoOverride = NoOverride
    Alias = {}
    Target = m1
    Absent = Absent
    Unset = Unset
    Passthrough = Passthrough
    Req = {r1}
    Edit = {}
    MaxFaults = 1
PROPERTIES
    FailedWriteKeepsServing
