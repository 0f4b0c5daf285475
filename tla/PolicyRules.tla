---------------------------- MODULE PolicyRules ----------------------------
(***************************************************************************)
(* The issuer's decision: rclp_core/policy.py.  May this request have the  *)
(* capability, given the robot's state, the control plane's state and the  *)
(* policy, and under which constraints?                                    *)
(*                                                                         *)
(* The ladders, the abstraction of the messages and the rules for robot    *)
(* state are those of LeaseRules.  The reason code of a failed check       *)
(* determines the decision (deny or degrade) and the safe alternative.     *)
(***************************************************************************)
EXTENDS LeaseRules

CONSTANTS
    AcceptedDigests,   \* accepted_policy_digests of the issuer
    MaxRequestAge      \* max_request_age_seconds

ASSUME RequestAgeAssumption == MaxRequestAge \in Nat

-----------------------------------------------------------------------------
(* The request, and what it comes with.                                    *)

request_time_violation(r, now) ==
    FirstViolation(<<
        <<r.created_at = None, "REQUEST_TIMESTAMP_INVALID">>,
        <<r.created_at # None /\ r.created_at > now + ClockSkew, "REQUEST_NOT_YET_VALID">>,
        <<r.created_at # None /\ now - r.created_at > MaxRequestAge, "REQUEST_STALE">> >>)

request_auth_violation_None(r) == Valid   \* mutant: the signature is not looked at

\* The checks of the request's signature, in order.
RequestChecks == <<
    "REQUEST_REQUIRED_FIELD_MISSING",
    "REQUEST_SIGNATURE_ALGORITHM_MISSING",
    "REQUEST_SIGNATURE_ALGORITHM_UNSUPPORTED",
    "REQUEST_AUTHENTICATED_AGENT_MISSING",
    "REQUEST_AUTHENTICATED_AGENT_MISMATCH",
    "REQUEST_SIGNATURE_MISSING",
    "AGENT_KEY_NOT_TRUSTED",
    "REQUEST_SIGNED_MATERIAL_TOO_LARGE",
    "REQUEST_SIGNATURE_INVALID" >>

request_auth_violation(r) == FirstViolation(Static(r, RequestChecks))

control_plane_auth_violation(a) ==
    FirstViolation(Static(a, <<
        "CONTROL_PLANE_REQUIRED_FIELD_MISSING",
        "CONTROL_PLANE_SIGNATURE_ALGORITHM_MISSING",
        "CONTROL_PLANE_SIGNATURE_ALGORITHM_UNSUPPORTED",
        "CONTROL_PLANE_AUTHENTICATED_EDGE_MISSING",
        "CONTROL_PLANE_AUTHENTICATED_EDGE_MISMATCH",
        "CONTROL_PLANE_SIGNATURE_MISSING",
        "CONTROL_PLANE_KEY_NOT_TRUSTED",
        "CONTROL_PLANE_SIGNED_MATERIAL_TOO_LARGE",
        "CONTROL_PLANE_SIGNATURE_INVALID" >>))

control_plane_time_violation(a, now) ==
    StampsViolation(a.stamps, now, MaxStateAge,
        [invalid |-> "CONTROL_PLANE_TIMESTAMP_INVALID",
         early   |-> "CONTROL_PLANE_NOT_YET_VALID",
         stale   |-> "CONTROL_PLANE_STATE_STALE"])

control_plane_unreachable(a, p) ==
    p.control_plane_must_be_reachable /\ (a.reachability \in {"unknown", "partitioned"} \/ ~a.reachable)

control_plane_violation(r, a, p, now) ==
    IF ~p.control_plane_required THEN Valid
    ELSE IF a = None THEN "CONTROL_PLANE_STATE_REQUIRED"
    ELSE FirstViolation(<<
            <<\/ a.robot # r.ctx.robot
              \/ a.edge # r.ctx.edge
              \/ a.mission # r.ctx.mission, "CONTROL_PLANE_STATE_MISMATCH">>,
            Sub(control_plane_auth_violation(a)),
            Sub(control_plane_time_violation(a, now)),
            <<control_plane_unreachable(a, p), "CONTROL_PLANE_UNREACHABLE">> >>)

(* What is checked before the request's nonce is consumed.  The cache is   *)
(* absent (None), volatile, or backed by a durable store.                  *)
request_violation(r, s, a, cache, now) ==
    FirstViolation(<<
        <<\E m \in {r, s} \cup ({a} \ {None}) : "PROTOCOL_VERSION_UNSUPPORTED" \in m.defects,
          "PROTOCOL_VERSION_UNSUPPORTED">>,
        Sub(request_time_violation(r, now)),
        Sub(request_auth_violation(r)),
        <<cache = None, "REQUEST_REPLAY_CACHE_REQUIRED">>,
        <<cache = "volatile", "REQUEST_REPLAY_STORE_DURABLE_REQUIRED">> >>)

-----------------------------------------------------------------------------
(* Network requirements.                                                   *)

network_requirements_malformed(n) ==
    \/ \E v \in {n.max_latency, n.max_loss, n.min_uplink, n.deny_latency, n.deny_loss, n.deny_uplink} :
          ~finite_nonnegative(v)
    \/ n.max_loss > 100 \/ n.deny_loss > 100
    \/ n.deny_latency < n.max_latency
    \/ n.deny_loss < n.max_loss
    \/ n.deny_uplink > n.min_uplink

\* Mutant: the degrade thresholds are looked at before the deny thresholds.
evaluate_network_requirements_DegradeFirst(q, n) ==
    FirstViolation(<<
        Sub(network_state_authority_violation(n)),
        <<n.latency > q.max_latency, "NETWORK_LATENCY_DEGRADED">>,
        <<n.loss > q.deny_loss, "NETWORK_PACKET_LOSS_TOO_HIGH">>,
        <<n.uplink < q.deny_uplink, "NETWORK_UPLINK_TOO_LOW">>,
        <<n.loss > q.max_loss, "NETWORK_PACKET_LOSS_DEGRADED">>,
        <<n.uplink < q.min_uplink, "NETWORK_UPLINK_DEGRADED">> >>)

\* Mutant: a degraded network is good enough.
evaluate_network_requirements_DenyOnly(q, n) ==
    FirstViolation(<<
        Sub(network_state_authority_violation(n)),
        <<n.latency > q.deny_latency, "NETWORK_LATENCY_TOO_HIGH">>,
        <<n.loss > q.deny_loss, "NETWORK_PACKET_LOSS_TOO_HIGH">>,
        <<n.uplink < q.deny_uplink, "NETWORK_UPLINK_TOO_LOW">> >>)

evaluate_network_requirements(q, n) ==
    FirstViolation(<<
        Sub(network_state_authority_violation(n)),
        <<n.latency > q.deny_latency, "NETWORK_LATENCY_TOO_HIGH">>,
        <<n.loss > q.deny_loss, "NETWORK_PACKET_LOSS_TOO_HIGH">>,
        <<n.uplink < q.deny_uplink, "NETWORK_UPLINK_TOO_LOW">>,
        <<n.latency > q.max_latency, "NETWORK_LATENCY_DEGRADED">>,
        <<n.loss > q.max_loss, "NETWORK_PACKET_LOSS_DEGRADED">>,
        <<n.uplink < q.min_uplink, "NETWORK_UPLINK_DEGRADED">> >>)

-----------------------------------------------------------------------------
(* Constraints of the lease.                                               *)

base_constraints_NoFallback(s, p) ==   \* mutant: fallback_on_degrade left at its default
    [geofence_id |-> s.geofence.id, max_latency |-> p.network.max_latency,
     max_loss |-> p.network.max_loss, min_uplink |-> p.network.min_uplink,
     fallback |-> "local_autonomy_only", fallback_set |-> FALSE, max_speed |-> p.max_speed]

\* The constraints of a lease granted without a request for narrower ones.
base_constraints(s, p) ==
    [geofence_id  |-> s.geofence.id,
     max_latency  |-> p.network.max_latency,
     max_loss     |-> p.network.max_loss,
     min_uplink   |-> p.network.min_uplink,
     fallback     |-> p.fallback.on_network_degrade,
     fallback_set |-> TRUE,
     max_speed    |-> p.max_speed]

\* What the edge is told to accept: policy_constraint_bounds.
policy_constraint_bounds(p) ==
    [geofence_id |-> IF p.geofence_required THEN p.geofence_id ELSE None,
     max_latency |-> p.network.max_latency,
     max_loss    |-> p.network.max_loss,
     min_uplink  |-> p.network.min_uplink,
     fallback    |-> p.fallback.on_network_degrade,
     max_speed   |-> p.max_speed]

maximum_constraint_too_broad(requested, allowed) ==
    requested # None /\ (allowed = None \/ requested > allowed)

\* Mutant: the direction is swapped.
minimum_constraint_too_broad_Swapped(requested, allowed) ==
    requested # None /\ (allowed = None \/ requested > allowed)

minimum_constraint_too_broad(requested, allowed) ==
    requested # None /\ (allowed = None \/ requested < allowed)

requested_constraint_violation(base, q) ==
    IF q = None THEN Valid
    ELSE FirstViolation(<<
            <<q.geofence_id # None /\ q.geofence_id # base.geofence_id, "REQUESTED_GEOFENCE_NOT_ALLOWED">>,
            <<\/ maximum_constraint_too_broad(q.max_latency, base.max_latency)
              \/ maximum_constraint_too_broad(q.max_loss, base.max_loss)
              \/ minimum_constraint_too_broad(q.min_uplink, base.min_uplink),
              "REQUESTED_CONSTRAINTS_TOO_BROAD">>,
            <<q.fallback_set /\ q.fallback # base.fallback, "REQUESTED_FALLBACK_CONFLICT">>,
            <<maximum_constraint_too_broad(q.max_speed, base.max_speed),
              "REQUESTED_CONSTRAINTS_TOO_BROAD">> >>)

\* The value a requested field leaves in the lease.
narrowed(requested, base) == IF requested = None THEN base ELSE requested

apply_requested_constraints(base, q) ==
    IF q = None THEN base
    ELSE [base EXCEPT
            !.geofence_id = narrowed(q.geofence_id, base.geofence_id),
            !.max_latency = narrowed(q.max_latency, base.max_latency),
            !.max_loss    = narrowed(q.max_loss, base.max_loss),
            !.min_uplink  = narrowed(q.min_uplink, base.min_uplink),
            !.max_speed   = narrowed(q.max_speed, base.max_speed),
            !.fallback    = IF q.fallback_set THEN q.fallback ELSE base.fallback]

-----------------------------------------------------------------------------
(* The decision on a request whose nonce has just been consumed.           *)

policy_checks(r, s, p, a, now) == <<
    <<AcceptedDigests = {}, "POLICY_DIGEST_REQUIRED">>,
    <<p.policy \notin AcceptedDigests, "POLICY_DIGEST_NOT_ACCEPTED">>,
    <<r.ctx.capability # p.capability, "CAPABILITY_NOT_COVERED_BY_POLICY">>,
    <<r.duration > p.lease_ttl, "REQUESTED_DURATION_TOO_LONG">>,
    <<r.ctx.agent \notin p.allowed_agents, "AGENT_NOT_ALLOWED">>,
    <<r.ctx.edge \notin p.allowed_edges, "EDGE_AGENT_NOT_ALLOWED">>,
    <<r.ctx.robot \notin p.allowed_robots, "ROBOT_NOT_ALLOWED">>,
    <<r.ctx.mission \notin p.allowed_missions, "MISSION_NOT_ALLOWED">>,
    <<s.robot # r.ctx.robot \/ s.edge # r.ctx.edge, "STATE_ASSERTION_MISMATCH">>,
    <<s.mission # r.ctx.mission, "MISSION_STATE_MISMATCH">>,
    <<p.human_operator_available /\ ~s.human_declared, "STATE_REQUIRED_FIELD_MISSING">>,
    Sub(state_auth_violation(s)),
    Sub(state_time_violation(s, now)),
    Sub(control_plane_violation(r, a, p, now)),
    <<network_requirements_malformed(p.network), "POLICY_NETWORK_REQUIREMENTS_MALFORMED">>,
    <<network_state_malformed(s.network), "NETWORK_STATE_MALFORMED">>,
    <<p.geofence_required /\ p.geofence_id = None, "POLICY_GEOFENCE_REQUIREMENTS_MALFORMED">>,
    <<p.geofence_required /\ (\/ s.geofence.id # p.geofence_id
                              \/ s.geofence.inside # p.geofence_allowed), "GEOFENCE_NOT_SATISFIED">>,
    <<p.human_operator_available /\ ~s.human_operator_available, "HUMAN_OPERATOR_NOT_AVAILABLE">>,
    Sub(evaluate_network_requirements(p.network, s.network)),
    Sub(requested_constraint_violation(base_constraints(s, p), r.requested)) >>

policy_violation(r, s, p, a, now) == FirstViolation(policy_checks(r, s, p, a, now))

DegradedReasons ==
    {"NETWORK_LATENCY_DEGRADED", "NETWORK_PACKET_LOSS_DEGRADED", "NETWORK_UPLINK_DEGRADED"}

\* Decision.ALLOW, DEGRADE or DENY.
decision_of(reason) ==
    CASE reason = Valid -> "allow"
      [] reason \in DegradedReasons -> "degrade"
      [] OTHER -> "deny"

safe_alternatives(reason, f) ==
    CASE reason = Valid -> {}
      [] reason \in {"CONTROL_PLANE_UNREACHABLE", "NETWORK_STATE_UNKNOWN", "NETWORK_DETACHED"} ->
            {f.on_disconnect}
      [] reason \in DegradedReasons \cup
            {"NETWORK_LATENCY_TOO_HIGH", "NETWORK_PACKET_LOSS_TOO_HIGH", "NETWORK_UPLINK_TOO_LOW"} ->
            {f.on_network_degrade}
      [] OTHER -> {f.on_deny}

granted_constraints(r, s, p) == apply_requested_constraints(base_constraints(s, p), r.requested)
=============================================================================
