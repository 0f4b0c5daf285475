SPECIFICATION Spec
CONSTANTS
    None = None
    TrustedIssuers <- MCIssuers
    IssuerKeys <- MCIssuers
    AcceptedCapabilities <- MCCapabilities
    IssuerScopes <- MCScopes
    AcceptedPolicies <- MCPolicies
    Requirements <- MCRequirements
    Bounds <- MCBounds
    MaxLeaseAge = 3
    MaxLeaseTtl = 3
    MaxStateAge = 1
    ClockSkew = 1
    LocalEdge = "edge"
    CommandAgent = "agent"
    MaxCommandAge = 1
    LeaseInputs <- MCLeases
    CommandInputs <- MCCommands
    StateInputs <- MCStates
    MaxNow = 5
CHECK_DEADLOCK FALSE
INVARIANTS
    AdmittedWithinPolicy
    AdmittedInsideGeofence
    AdmittedWhileCurrent
    EdgesAgree
PROPERTIES
    AdmissionIsOneInterval
