---------------------------- MODULE CommandRules ----------------------------
(***************************************************************************)
(* What CommandGate.evaluate() asks of a command before it looks at any    *)
(* store: that it is authentic and current, and meant for this edge.       *)
(***************************************************************************)
EXTENDS LeaseRules

CONSTANTS
    LocalEdge,       \* local_edge_agent_id
    MaxCommandAge    \* max_command_age_seconds

command_time_violation(c, now) ==
    StampViolation(c.created_at, now, MaxCommandAge,
        [invalid |-> "COMMAND_TIMESTAMP_INVALID",
         early   |-> "COMMAND_NOT_YET_VALID",
         stale   |-> "COMMAND_STALE"])

command_static_violation(c) ==
    FirstViolation(Static(c, <<
        "PROTOCOL_VERSION_UNSUPPORTED",
        "COMMAND_ID_MISSING",
        "COMMAND_NONCE_MISSING",
        "COMMAND_AUTHENTICATED_AGENT_MISSING",
        "COMMAND_AUTHENTICATED_AGENT_MISMATCH",
        "COMMAND_AGENT_KEY_NOT_TRUSTED",
        "COMMAND_SIGNATURE_ALGORITHM_MISSING",
        "COMMAND_SIGNATURE_ALGORITHM_UNSUPPORTED",
        "COMMAND_SIGNATURE_MISSING",
        "COMMAND_SIGNED_MATERIAL_TOO_LARGE",
        "COMMAND_SIGNATURE_INVALID" >>))

command_auth_violation_TimeOnly(c, now) == command_time_violation(c, now)   \* mutant: no authentication

command_auth_violation(c, now) ==
    FirstViolation(<<Sub(command_static_violation(c)), Sub(command_time_violation(c, now))>>)

local_edge_context_mismatch(c, l) ==
    \/ c.ctx.edge # LocalEdge
    \/ l # None /\ l.ctx.edge # LocalEdge
=============================================================================
