CONSTANTS
    r1 = r1
    r2 = r2
    k1 = k1
    k2 = k2
    ns1 = ns1
    ns2 = ns2
    noClaim = noClaim
    Requests <- MCRequests
    CRs <- MCCRs
    Namespaces <- MCNamespaces
    NoClaim = noClaim
    TokenKinds <- MCTokenKinds
    AllowConfigs <- MCAllowConfigs
    MaxOperatorWrites = 1
SPECIFICATION Spec
INVARIANT
    ResponseCodeMatchesBody
