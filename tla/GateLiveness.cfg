SPECIFICATION FairSpec
CONSTANTS
    None = None
    g1 = g1
    g2 = g2
    Gate = {g1, g2}
    TrustedIssuers <- MCIssuers
    IssuerKeys <- MCIssuers
    AcceptedCapabilities <- MCCapabilities
    IssuerScopes <- MCScopes
    AcceptedPolicies <- MCPolicies
    Requirements <- MCRequirements
    Bounds <- MCBounds
    MaxLeaseAge = 2
    MaxLeaseTtl = 2
    MaxStateAge = 0
    ClockSkew = 1
    Commands <- RevokeCommands
    Leases <- RevokeLeases
    States <- ReplayStates
    Revocations <- OneRevocation
    LocalEdge = "edge"
    RevokerEdgeScopes <- MCRevokers
    MaxCommandAge = 0
    MaxRevocationAge = 1
    FallbackOverrides <- MCOverrides
    LegacyRows <- NoMessages
    SignerOutcomes = {TRUE, FALSE}
    MaxClock = 0
    MaxCalls = 2
PROPERTIES
    CallsEnd
    CommittedRevocationApplies
