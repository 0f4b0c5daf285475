SPECIFICATION Spec
CONSTANTS
    None = None
    e1 = e1
    e2 = e2
    Engine = {e1, e2}
    TrustedIssuers <- MCIssuers
    IssuerKeys <- MCIssuers
    AcceptedCapabilities <- MCCapabilities
    IssuerScopes <- MCScopes
    AcceptedPolicies <- MCDigests
    Requirements <- MCRequirements
    Bounds <- NoBounds
    MaxLeaseAge = 2
    MaxLeaseTtl = 2
    MaxStateAge = 0
    ClockSkew = 1
    AcceptedDigests <- MCDigests
    MaxRequestAge = 1
    Requests <- ReplayRequests
    States <- ReplayStates
    Assertions <- NoMessages
    Policies <- ReplayPolicies
    Caches = {"durable"}
    IssuerId = "issuer"
    MaxClock = 2
    MaxCalls = 3
VIEW FinalView
SYMMETRY EngineSymmetry
PROPERTIES
    AllowBringsLease
