CONSTANTS
    p1 = p1
    p2 = p2
    ns = ns
    Pods <- MCPods
    Namespace = ns
    OtherDescs <- MCOtherDescs
    PendingLogins = TRUE
    MaxLogins = 3
SPECIFICATION Spec
INVARIANTS
    TypeOK
    PickMatchesReference
    ObservedLivePodsKeepToken
PROPERTIES
    OnlyLoginTokensRevoked
