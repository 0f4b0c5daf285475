SPECIFICATION Spec
CONSTANTS
    v1 = v1
    v2 = v2
    v3 = v3
    Verifier = {v1, v2}
    Commands <- RetryCommands
    Nonces <- RetryNonces
    Singles <- NoKeys
    Malformed <- MCMalformed
    Faults = {}
    MaxCalls = 3
CHECK_DEADLOCK FALSE
SYMMETRY VerifierSymmetry
INVARIANTS
    RejectedOnlyIfConsumed
