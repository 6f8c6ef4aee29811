\* main.go registers two controllers for the ConsulACL kind: the same object
\* is reconciled by two workers at once, with no faults at all.
CONSTANTS
    Workers = {w1, w2}
    Owner <- MCOwner
    Documents <- DocsPlain
    Undecodable = Undecodable
    NoName = ""
    FaultKinds = {}
    LookupsMayFail = FALSE
    MaxFaults = 0
    MaxEdits = 0
    PeriodTime = 1
SPECIFICATION Spec
INVARIANT FinalizedCleanup
