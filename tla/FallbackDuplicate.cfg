SPECIFICATION Spec
CONSTANTS
    None = None
    BrokenLine = BrokenLine
    AgentId = "agent"
    Releases <- MCReleases
    AcceptedTiers = {"production"}
    Tiers = {"production", "staging"}
    MaxAge = 1
    Skew = 1
    MaxClock = 5
    MaxAttestations = 1
    Edges = {"edge1", "edge2"}
    Keys = {"key1", "key2"}
    EdgeKeys <- MCEdgeKeys
    Triggers = {"revoked", "network"}
    MaxDeclared = 2
    MaxReceived = 2
    Contents <- MCContents
    Payloads <- MCPayloads
    Signers = {"auditor", "other"}
    TrustedSigners = {"auditor"}
    Forgeries <- MCForgeries
    Starts = {1, 2}
    MaxEvents = 27
    MaxTampered = 3
CHECK_DEADLOCK FALSE
INVARIANTS
    AcceptedOnce
