SPECIFICATION Spec
CONSTANTS
    Key = {k1, k2}
    Model = {m1, m2}
    Override = {}
    NoOverride = NoOverride
    Alias = {a1}
    Target = m1
    Absent = Absent
    Unset = Unset
    Passthrough = Passthrough
    Req = {r1}
    Edit = {}
    MaxFaults = 0
INVARIANTS
    GrantsAreDesired
    RemovedFromKeys
PROPERTIES
    ImplementsGate
SYMMETRY KeySymmetry
