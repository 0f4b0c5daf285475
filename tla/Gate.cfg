SPECIFICATION Spec
CONSTANTS
    None = None
    g1 = g1
    g2 = g2
    Gate = {g1, g2}
    TrustedIssuers <- MCIssuers
    IssuerKeys <- MCIssuers
    AcceptedCapabilities <- MCCapabilities
    IssuerScopes <- MCScopes
    AcceptedPolicies <- MCPolicies
    Requirements <- MCRequirements
    Bounds <- MCBounds
    MaxLeaseAge = 2
    MaxLeaseTtl = 2
    MaxStateAge = 0
    ClockSkew = 1
    Commands <- GateCommands
    Leases <- GateLeases
    States <- GateStates
    Revocations <- RevokeMessages
    LocalEdge = "edge"
    RevokerEdgeScopes <- MCRevokers
    MaxCommandAge = 0
    MaxRevocationAge = 1
    FallbackOverrides <- MCOverrides
    LegacyRows <- MCLegacyRows
    SignerOutcomes = {TRUE, FALSE}
    MaxClock = 2
    MaxCalls = 4
CONSTRAINT StudiesApart
VIEW AuthorityView
SYMMETRY GateSymmetry
INVARIANTS
    TypeOK
    SingleUse
    DenialIsFinal
    OneFallbackPerRevocation
    FallbackIsGrounded
PROPERTIES
    OnlyAuthenticConsumes
    LeaseNonceOnlyWithCommand
    ImplementsLedger
    RevocationSurvivesRestart
