\* A failed RoleReadByName/PolicyReadByName during deleteACL is taken as
\* "already deleted": the finalizer goes while the entity stays.
CONSTANTS
    Workers = {w1}
    Owner <- MCOwner
    Documents <- DocsPlain
    Undecodable = Undecodable
    NoName = ""
    FaultKinds = {}
    LookupsMayFail = TRUE
    MaxFaults = 1
    MaxEdits = 0
    PeriodTime = 1
SPECIFICATION Spec
INVARIANT FinalizedCleanup
