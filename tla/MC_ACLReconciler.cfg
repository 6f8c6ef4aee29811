\* Single controller, edits that keep the entity set, every fault kind on
\* writes, reliable lookups: deletion order, cleanup and progress.
CONSTANTS
    Workers = {w1}
    Owner <- MCOwner
    Documents <- DocsSameEntities
    Undecodable = Undecodable
    NoName = ""
    FaultKinds = {"net", "server"}
    LookupsMayFail = FALSE
    MaxFaults = 2
    MaxEdits = 2
    PeriodTime = 1
SPECIFICATION Spec
INVARIANTS
    TypeOK
    FinalizedCleanup
    RoleLinksMatchStatus
PROPERTIES
    NoDanglingReferenceOnDelete
    DeletionCompletes
