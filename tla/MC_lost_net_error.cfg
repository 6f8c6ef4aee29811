\* A net.Error on the first policy is overwritten by the second policy's
\* success: the cycle ends without requeue and the first policy is never
\* created.
CONSTANTS
    Workers = {w1}
    Owner <- MCOwner
    Documents <- DocsPlain
    Undecodable = Undecodable
    NoName = ""
    FaultKinds = {"net"}
    LookupsMayFail = FALSE
    MaxFaults = 1
    MaxEdits = 0
    PeriodTime = 1
SPECIFICATION Spec
PROPERTY TransportFailuresRetried
