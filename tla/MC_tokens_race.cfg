CONSTANTS
    p1 = p1
    p2 = p2
    ns = ns
    Pods <- MCPods
    Namespace = ns
    OtherDescs <- MCOtherDescs
    PendingLogins = FALSE
    MaxLogins = 3
SPECIFICATION Spec
INVARIANT
    AliveKeepsLatestToken
