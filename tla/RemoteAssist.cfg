SPECIFICATION DemoSpec
CONSTANTS
    None = None
    Engine = {"issuer"}
    TrustedIssuers <- MCIssuers
    IssuerKeys <- MCIssuers
    AcceptedCapabilities <- MCCapabilities
    IssuerScopes <- MCScopes
    AcceptedPolicies <- MCDigests
    Requirements <- NoMap
    Bounds <- NoMap
    MaxLeaseAge = 20
    MaxLeaseTtl = 20
    MaxStateAge = 1
    ClockSkew = 1
    AcceptedDigests <- MCDigests
    MaxRequestAge = 10
    Requests = {}
    States = {}
    Assertions = {}
    Policies = {}
    Caches = {"durable"}
    IssuerId = "rclp-issuer"
    MaxClock = 100
    MaxCalls = 2
    Pauses = {1, 2, 3, 11, 12, 20}
    MaxPauses = 2
INVARIANTS
    ReplayReconstructs
    LastCommandRefused
PROPERTIES
    VerdictsWhileFresh
