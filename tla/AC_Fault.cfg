SPECIFICATION Spec
CONSTANTS
    Key = {k1}
    Model = {m1, m2}
    Override = {o1}
    NoOverride = NoOverride
    Alias = {}
    Target = m1
    Absent = Absent
    Unset = Unset
    Passthrough = Passthrough
    Req = {r1}
    Edit = {e1}
    MaxFaults = 1
INVARIANTS
    DeletedStaysDeleted
    OverridesWithinGrant
    SecretRecoverable
    OverrideDurable
    MemoryWithinDisk
    FailsClosed
CONSTRAINT RequestsApartFromOverrides
