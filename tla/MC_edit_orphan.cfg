\* An edit that drops entities leaves them in Consul for good.
CONSTANTS
    Workers = {w1}
    Owner <- MCOwner
    Documents <- DocsDropping
    Undecodable = Undecodable
    NoName = ""
    FaultKinds = {}
    LookupsMayFail = FALSE
    MaxFaults = 0
    MaxEdits = 1
    PeriodTime = 1
SPECIFICATION Spec
INVARIANT NoOrphanedEntities
