SPECIFICATION Spec
CONSTANTS
    v1 = v1
    v2 = v2
    v3 = v3
    Verifier = {v1, v2, v3}
    Commands <- SharedCommands
    Nonces <- MCNonces
    Singles <- MCSingles
    Malformed <- MCMalformed
    Faults = {"create", "write", "open_dir", "sync_dir", "remove", "crash"}
    MaxCalls = 3
CONSTRAINT FewerAfterFailure
SYMMETRY VerifierSymmetry
INVARIANTS
    MarkerLedger
    RejectedLeavesNothing
    SomebodyWins
PROPERTIES
    ImplementsLedger
