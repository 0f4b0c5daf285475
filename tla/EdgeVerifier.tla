---------------------------- MODULE EdgeVerifier ----------------------------
(***************************************************************************)
(* The decision of the Rust edge verifier: verify() of verifier.rs up to   *)
(* the replay cache, which FileReplayCache models.  The verifier is a      *)
(* second implementation of the edge, with its own order of checks, its    *)
(* own reason codes and two fields that Python leases do not have:         *)
(* not_before and constraints.network_violation_action.                    *)
(*                                                                         *)
(* The constants are its trusted_context.  Messages and numbers are        *)
(* abstracted as in LeaseRules: the reason code of a check that reads the  *)
(* bytes of one message and key material only is in its set `defects`, and *)
(* a negative number stands for every malformed one.  A timestamp None, or *)
(* a missing local context, does not deserialize.  Sums of timestamps do   *)
(* not overflow: they are times in milliseconds of an i64.                 *)
(***************************************************************************)
EXTENDS Integers

CONSTANTS
    None,                  \* Option::None
    TrustedIssuers,        \* trusted_issuer_ids
    TrustedAgents,         \* trusted_command_agent_ids
    TrustedEdges,          \* trusted_state_edge_ids
    AcceptedCapabilities,  \* accepted_capabilities
    IssuerScopes,          \* issuer_capability_scopes: issuer -> capabilities
    AcceptedPolicies,      \* accepted_policies
    Policy,                \* policy_id and policy_digest of the verifier itself
    Requirements,          \* capability_constraint_requirements
    Bounds,                \* capability_constraint_bounds
    MaxLeaseAge,           \* max_lease_age_ms
    MaxLeaseTtl,           \* max_lease_ttl_ms
    MaxStateAge,           \* max_state_age_ms
    MaxCommandAge,         \* max_command_age_ms
    ClockSkew              \* CLOCK_SKEW_MS

Allow == "ALLOW"
Degrade == "DEGRADE_NETWORK_POLICY"
Malformed == "DENY_MALFORMED_INPUT"

\* The reason of the first check that is violated.
FirstViolation(checks) ==
    LET bad == {i \in DOMAIN checks : checks[i][1]}
    IN  IF bad = {} THEN Allow
        ELSE checks[CHOOSE i \in bad : \A j \in bad : i <= j][2]

Sub(reason) == <<reason # Allow, reason>>
Defect(m, reason) == <<reason \in m.defects, reason>>

finite_nonnegative(v) == v >= 0
option_malformed(v) == v # None /\ ~finite_nonnegative(v)

-----------------------------------------------------------------------------
(* The context and the form of the input.                                  *)

trusted_scope_malformed ==
    \/ {} \in {AcceptedCapabilities, AcceptedPolicies, TrustedIssuers, TrustedAgents, TrustedEdges}
    \/ {} \in {DOMAIN IssuerScopes, DOMAIN Requirements, DOMAIN Bounds}
    \/ \E i \in DOMAIN IssuerScopes : IssuerScopes[i] = {}
    \/ ~(AcceptedCapabilities \subseteq DOMAIN Requirements \cap DOMAIN Bounds)

limits_malformed(r) ==
    \/ \E v \in {r.max_latency, r.max_loss, r.min_uplink, r.max_speed} : option_malformed(v)
    \/ r.max_loss # None /\ r.max_loss > 100

numeric_fields_malformed(l, c, s, now) ==
    \/ \E t \in {now, l.issued_at, l.expires_at, c.created_at, s.observed_at, s.network.observed_at,
                 s.geofence.verified_at} : t = None \/ t < 0
    \/ option_malformed(l.not_before)
    \/ \E age \in {MaxLeaseTtl, MaxLeaseAge, MaxStateAge, MaxCommandAge} : age <= 0
    \/ \E v \in {s.network.latency, s.network.loss, s.network.uplink} : ~finite_nonnegative(v)
    \/ s.network.loss > 100
    \/ limits_malformed(l.constraints)
    \/ \E cap \in DOMAIN Bounds : limits_malformed(Bounds[cap])

policy_digest_violation(l) ==
    FirstViolation(<<
        <<None \in {l.policy, Policy}, "DENY_POLICY_DIGEST_REQUIRED">>,
        <<l.policy # Policy \/ Policy \notin AcceptedPolicies, "DENY_POLICY_DIGEST_NOT_ACCEPTED">> >>)

-----------------------------------------------------------------------------
(* The command and the local context.                                      *)

command_time_violation(c, now) ==
    FirstViolation(<<
        <<c.created_at > now + ClockSkew, "DENY_COMMAND_NOT_YET_VALID">>,
        <<now - c.created_at > MaxCommandAge + ClockSkew, "DENY_STALE_COMMAND">> >>)

command_auth_violation(c, now) ==
    FirstViolation(<<
        Defect(c, "DENY_COMMAND_AUTHENTICATED_AGENT_MISSING"),
        Defect(c, "DENY_COMMAND_AUTHENTICATED_AGENT_MISMATCH"),
        <<c.ctx.agent \notin TrustedAgents, "DENY_COMMAND_AGENT_KEY_NOT_TRUSTED">>,
        Defect(c, "DENY_COMMAND_SIGNATURE_MISSING"),
        Defect(c, "DENY_INVALID_COMMAND_SIGNATURE"),
        Sub(command_time_violation(c, now)) >>)

local_state_auth_violation(s) ==
    FirstViolation(<<
        Defect(s, "DENY_STATE_AUTHENTICATED_EDGE_MISSING"),
        Defect(s, "DENY_STATE_AUTHENTICATED_EDGE_MISMATCH"),
        <<s.edge \notin TrustedEdges, "DENY_STATE_KEY_NOT_TRUSTED">>,
        Defect(s, "DENY_STATE_SIGNATURE_MISSING"),
        Defect(s, "DENY_INVALID_STATE_SIGNATURE") >>)

local_state_time_violation(s, now) ==
    \E t \in {s.observed_at, s.network.observed_at, s.geofence.verified_at} :
        t > now + ClockSkew \/ now - t > MaxStateAge + ClockSkew

\* The speed that the payload asks for, or None.
command_payload_speed(p) ==
    CASE "max_speed_mps" \in DOMAIN p -> p["max_speed_mps"]
      [] "max_speed_mps" \notin DOMAIN p /\ "speed_mps" \in DOMAIN p -> p["speed_mps"]
      [] OTHER -> None

command_payload_violation(p) ==
    LET fields == {"max_speed_mps", "speed_mps"}
    IN  FirstViolation(<<
            <<DOMAIN p \ fields # {}, "DENY_COMMAND_CONSTRAINT">>,
            <<\E f \in DOMAIN p \cap fields : ~finite_nonnegative(p[f]), Malformed>>,
            <<DOMAIN p = fields /\ p["max_speed_mps"] # p["speed_mps"], "DENY_COMMAND_CONSTRAINT">> >>)

command_constraint_violation(l, c) ==
    LET speed == command_payload_speed(c.payload)
        max   == l.constraints.max_speed
    IN  FirstViolation(<<
            Sub(command_payload_violation(c.payload)),
            <<(max = None) # (speed = None), "DENY_COMMAND_CONSTRAINT">>,
            <<max # None /\ speed # None /\ speed > max, "DENY_COMMAND_CONSTRAINT">> >>)

-----------------------------------------------------------------------------
(* The lease.                                                              *)

capability_allowed_for_issuer(l) ==
    /\ l.ctx.capability \in AcceptedCapabilities
    /\ l.issuer \in DOMAIN IssuerScopes
    /\ l.ctx.capability \in IssuerScopes[l.issuer]

lease_time_violation(l, now) ==
    FirstViolation(<<
        <<l.not_before # None /\ now < l.not_before, "DENY_NOT_YET_VALID">>,
        <<now < l.issued_at, "DENY_NOT_YET_VALID">>,
        <<now >= l.expires_at, "DENY_EXPIRED_LEASE">>,
        <<l.expires_at <= l.issued_at, Malformed>>,
        <<l.expires_at - l.issued_at > MaxLeaseTtl, "DENY_TTL_TOO_LONG">>,
        <<now - l.issued_at > MaxLeaseAge + ClockSkew, "DENY_STALE_LEASE">> >>)

context_robot_matches(l, c, s) == c.ctx.robot = l.ctx.robot /\ s.robot = l.ctx.robot

context_agent_matches(l, c, s) ==
    c.ctx.agent = l.ctx.agent /\ c.ctx.edge = l.ctx.edge /\ s.edge = l.ctx.edge

required_constraints_missing(l) ==
    LET c == l.constraints
        require == Requirements[l.ctx.capability]
    IN  \/ l.ctx.capability \notin DOMAIN Requirements
        \/ require.geofence /\ c.geofence_id = None
        \/ require.network /\ None \in {c.max_latency, c.max_loss, c.min_uplink}
        \/ require.fallback /\ c.fallback = None
        \/ require.max_speed /\ c.max_speed = None

max_field_exceeds_policy(v, bound) == v # None /\ (bound = None \/ v > bound)
min_field_exceeds_policy(v, bound) == v # None /\ (bound = None \/ v < bound)
option_field_exceeds_policy(v, bound) == v # bound

lease_constraints_exceed_policy(l) ==
    LET c == l.constraints
        b == Bounds[l.ctx.capability]
    IN  \/ l.ctx.capability \notin DOMAIN Bounds
        \/ b.geofence_id # None /\ c.geofence_id # b.geofence_id
        \/ max_field_exceeds_policy(c.max_latency, b.max_latency)
        \/ max_field_exceeds_policy(c.max_loss, b.max_loss)
        \/ min_field_exceeds_policy(c.min_uplink, b.min_uplink)
        \/ max_field_exceeds_policy(c.max_speed, b.max_speed)
        \/ option_field_exceeds_policy(c.fallback, b.fallback)
        \/ c.network_violation_action \notin {None, b.network_violation_action}

geofence_violated(l, s) ==
    /\ l.constraints.geofence_id # None
    /\ ~s.geofence.inside \/ s.geofence.id # l.constraints.geofence_id

network_policy_violation_Profile(l, s) ==   \* mutant: the thresholds are compared only on a detached network
    IF s.network.profile \in {"unknown", "partition"} \/ ~s.network.attached
    THEN "DENY_NETWORK_POLICY" ELSE Allow

(* A detached network always denies.  Past a threshold of the lease the    *)
(* command is denied, or degraded where the lease says so.                 *)
network_policy_violation(l, s) ==
    LET c == l.constraints
        n == s.network
        hard_denial == n.profile \in {"unknown", "partition"} \/ ~n.attached
        threshold_denial == \/ c.max_latency # None /\ n.latency > c.max_latency
                            \/ c.max_loss # None /\ n.loss > c.max_loss
                            \/ c.min_uplink # None /\ n.uplink < c.min_uplink
    IN  CASE ~hard_denial /\ ~threshold_denial -> Allow
          [] (hard_denial \/ threshold_denial) /\ c.fallback = None -> Malformed
          [] ~hard_denial /\ threshold_denial /\ c.fallback # None /\ c.network_violation_action = "degrade" -> Degrade
          [] OTHER -> "DENY_NETWORK_POLICY"

-----------------------------------------------------------------------------
\* What makes verify() refuse its input as malformed before it looks at any key.
input_malformed(l, c, s, now) ==
    \/ s = None
    \/ Malformed \in l.defects \cup c.defects
    \/ l.policy = None \/ trusted_scope_malformed
    \/ numeric_fields_malformed(l, c, s, now)

(* A failed authentication of the command is reported as a policy mismatch *)
(* when there is one too.                                                  *)
untrusted_command(l, c, now) ==
    LET digest == policy_digest_violation(l)
        auth   == command_auth_violation(c, now)
    IN  <<auth # Allow, IF digest # Allow THEN digest ELSE auth>>

verification_checks(l, c, s, revoked, now) ==
    LET network == network_policy_violation(l, s)
    IN  <<
        <<"DENY_COMMAND_SIGNED_MATERIAL_TOO_LARGE" \in l.defects \cup c.defects \cup s.defects,
          "DENY_COMMAND_SIGNED_MATERIAL_TOO_LARGE">>,
        Defect(l, "DENY_UNKNOWN_ALGORITHM"),
        <<\E ids \in {TrustedIssuers, TrustedAgents, TrustedEdges} : \A id \in ids : ids # {id}, Malformed>>,
        untrusted_command(l, c, now),
        Sub(policy_digest_violation(l)),
        <<l.issuer \notin TrustedIssuers, "DENY_UNKNOWN_ISSUER">>,
        Defect(l, "DENY_INVALID_SIGNATURE"),
        <<~capability_allowed_for_issuer(l), "DENY_CAPABILITY_NOT_GRANTED">>,
        Sub(lease_time_violation(l, now)),
        <<l.lease_id \in revoked, "DENY_REVOKED_LEASE">>,
        <<~context_robot_matches(l, c, s), "DENY_ROBOT_MISMATCH">>,
        <<~context_agent_matches(l, c, s), "DENY_AGENT_MISMATCH">>,
        <<c.ctx.mission # l.ctx.mission \/ s.mission # l.ctx.mission, "DENY_MISSION_MISMATCH">>,
        <<c.ctx.capability # l.ctx.capability, "DENY_CAPABILITY_NOT_GRANTED">>,
        <<required_constraints_missing(l), Malformed>>,
        <<lease_constraints_exceed_policy(l), "DENY_LEASE_CONSTRAINTS_EXCEED_POLICY">>,
        Sub(local_state_auth_violation(s)),
        <<local_state_time_violation(s, now), "DENY_STALE_STATE">>,
        <<geofence_violated(l, s), "DENY_GEOFENCE_VIOLATION">>,
        <<network \notin {Allow, Degrade}, network>>,
        Sub(command_constraint_violation(l, c)),
        Sub(network) >>

(* verify(): the reason code of the decision when the replay cache         *)
(* consumes the command's keys, which it is asked to do last, for Allow    *)
(* and Degrade only.                                                       *)
verify(l, c, s, revoked, now) ==
    IF input_malformed(l, c, s, now) THEN Malformed
    ELSE FirstViolation(verification_checks(l, c, s, revoked, now))
=============================================================================
