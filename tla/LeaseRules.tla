----------------------------- MODULE LeaseRules -----------------------------
(***************************************************************************)
(* The stateless admission rules of RCLP: may this command be carried out  *)
(* under this lease, given this robot state, at this moment?               *)
(*                                                                         *)
(* Every rule of the source is an ordered ladder of checks that returns    *)
(* the reason code of the first check that fails.  Here a ladder is a      *)
(* sequence of <<violated, reason>> pairs read by FirstViolation, in the   *)
(* order of the source.                                                    *)
(*                                                                         *)
(* Data abstraction.  A check that reads only the bytes of one message and *)
(* static key material (protocol version, signature algorithm, size        *)
(* budget, signature, missing wire field) is a fixed property of the       *)
(* message: its reason code is in the message's set `defects`.  Every      *)
(* check that relates a message to the clock, to another message, to       *)
(* configured scopes and bounds or to mutable state is computed.  Numbers  *)
(* are integers; a negative number stands for every malformed one (NaN,    *)
(* infinite, Boolean, negative).  None is Python's None, and as a          *)
(* timestamp it stands for one without a time zone.                        *)
(***************************************************************************)
EXTENDS Integers, Sequences

CONSTANTS
    None,                  \* Python's None
    TrustedIssuers,        \* trusted_issuer_ids
    IssuerKeys,            \* issuers with a registered public key
    AcceptedCapabilities,  \* accepted_capabilities
    IssuerScopes,          \* issuer_capability_scopes: issuer -> capabilities
    AcceptedPolicies,      \* accepted (policy_id, policy_digest) pairs
    Requirements,          \* capability_constraint_requirements
    Bounds,                \* capability_constraint_bounds
    MaxLeaseAge,           \* max_lease_age_seconds
    MaxLeaseTtl,           \* max_lease_ttl_seconds
    MaxStateAge,           \* max_state_age_seconds
    ClockSkew              \* LEASE_, STATE_, COMMAND_, REVOCATION_CLOCK_SKEW_SECONDS

(* The durations are numbers, and every trusted issuer has a scope.        *)
ASSUME DurationsAssumption ==
    /\ MaxLeaseAge \in Nat
    /\ MaxLeaseTtl \in Nat
    /\ MaxStateAge \in Nat
    /\ ClockSkew \in Nat

ASSUME ScopesAssumption ==
    \A i \in TrustedIssuers : i \in DOMAIN IssuerScopes

-----------------------------------------------------------------------------
(* Ladders of checks.                                                      *)

Valid == "LEASE_VALID"   \* what a rule that finds nothing wrong returns

\* The reason of the first check that is violated, Valid when none is.
FirstViolation(checks) ==
    LET bad == {i \in DOMAIN checks : checks[i][1]}
    IN  IF bad = {} THEN Valid
        ELSE checks[CHOOSE i \in bad : \A j \in bad : i <= j][2]

\* A rule used as one check of a larger ladder.
Sub(reason) == <<reason # Valid, reason>>

\* The checks of one message that only read the message and key material.
Static(m, reasons) == [i \in DOMAIN reasons |-> <<reasons[i] \in m.defects, reasons[i]>>]

StampViolation_Wraps(t, now, max_age, r) ==   \* mutant: timedelta.seconds, which drops whole days
    FirstViolation(<<
        <<t = None, r.invalid>>,
        <<t # None /\ t > now + ClockSkew, r.early>>,
        <<t # None /\ (now - t) % 4 > max_age + ClockSkew, r.stale>> >>)

(* One timestamp against the clock: no time zone, too far ahead of it, or  *)
(* older than max_age plus the allowed skew.                               *)
StampViolation(t, now, max_age, r) ==
    FirstViolation(<<
        <<t = None, r.invalid>>,
        <<t # None /\ t > now + ClockSkew, r.early>>,
        <<t # None /\ now - t > max_age + ClockSkew, r.stale>> >>)

\* The timestamps of one message, in order: the first bad one decides.
StampsViolation(stamps, now, max_age, r) ==
    FirstViolation([k \in DOMAIN stamps |-> Sub(StampViolation(stamps[k], now, max_age, r))])

\* _finite_nonnegative_number
finite_nonnegative(v) == v >= 0

-----------------------------------------------------------------------------
(* Lease rules: leases.py and the lease half of conformance.py.            *)

is_expired_inclusive(l, at) == at > l.expires_at   \* mutant: off by one at expiry

is_expired(l, at) == at >= l.expires_at

lease_time_violation(l, at) ==
    IF l.issued_at = None \/ l.expires_at = None THEN "LEASE_TIMESTAMP_INVALID"
    ELSE FirstViolation(<<
        <<l.issued_at > at + ClockSkew, "LEASE_NOT_YET_VALID">>,
        <<is_expired(l, at), "LEASE_EXPIRED">>,
        <<l.expires_at <= l.issued_at, "LEASE_TIME_WINDOW_INVALID">>,
        <<l.expires_at - l.issued_at > MaxLeaseTtl, "LEASE_TTL_TOO_LONG">>,
        <<at - l.issued_at > MaxLeaseAge + ClockSkew, "LEASE_STALE">> >>)

lease_policy_provenance_violation(l) ==
    FirstViolation(<<
        <<AcceptedPolicies = {}, "POLICY_PROVENANCE_REQUIRED">>,
        <<l.policy = None, "LEASE_POLICY_PROVENANCE_REQUIRED">>,
        <<l.policy \notin AcceptedPolicies, "LEASE_POLICY_NOT_ACCEPTED">> >>)

capability_scope_violation(l) ==
    FirstViolation(<<
        <<AcceptedCapabilities = {}, "CAPABILITY_SCOPE_REQUIRED">>,
        <<l.ctx.capability \notin AcceptedCapabilities, "CAPABILITY_NOT_GRANTED">>,
        <<\/ l.issuer \notin DOMAIN IssuerScopes
          \/ l.ctx.capability \notin IssuerScopes[l.issuer], "CAPABILITY_NOT_GRANTED">> >>)

capability_constraints_missing(c, req) ==
    \/ req.geofence /\ c.geofence_id = None
    \/ req.network /\ None \in {c.max_latency, c.max_loss, c.min_uplink}
    \/ req.fallback /\ ~c.fallback_set
    \/ req.max_speed /\ c.max_speed = None

capability_constraint_requirement_violation(l) ==
    LET known == l.ctx.capability \in DOMAIN Requirements
    IN  FirstViolation(<<
            <<~known, "CAPABILITY_CONSTRAINT_REQUIREMENTS_REQUIRED">>,
            <<known /\ capability_constraints_missing(l.constraints, Requirements[l.ctx.capability]),
              "LEASE_CONSTRAINTS_MISSING">> >>)

lease_constraints_malformed(l) ==
    LET c == l.constraints
    IN  \/ \E v \in {c.max_latency, c.max_loss, c.min_uplink, c.max_speed} :
              v # None /\ ~finite_nonnegative(v)
        \/ c.max_loss # None /\ c.max_loss > 100

max_field_exceeds_policy(v, bound) == v # None /\ (bound = None \/ v > bound)

min_field_as_max(v, bound) == v # None /\ (bound = None \/ v > bound)   \* mutant: wrong direction

min_field_exceeds_policy(v, bound) == v # None /\ (bound = None \/ v < bound)

capability_constraints_exceed_bounds(c, b) ==
    \/ b.geofence_id # None /\ c.geofence_id # b.geofence_id
    \/ max_field_exceeds_policy(c.max_latency, b.max_latency)
    \/ max_field_exceeds_policy(c.max_loss, b.max_loss)
    \/ min_field_exceeds_policy(c.min_uplink, b.min_uplink)
    \/ max_field_exceeds_policy(c.max_speed, b.max_speed)
    \/ IF b.fallback = None THEN c.fallback_set ELSE c.fallback # b.fallback

capability_constraint_bound_violation(l) ==
    LET known == l.ctx.capability \in DOMAIN Bounds
    IN  FirstViolation(<<
            <<~known, "CAPABILITY_CONSTRAINT_BOUNDS_REQUIRED">>,
            <<known /\ capability_constraints_exceed_bounds(l.constraints, Bounds[l.ctx.capability]),
              "LEASE_CONSTRAINTS_EXCEED_POLICY">> >>)

(* The five authority fields agree: agent, edge, robot, mission, capability. *)
lease_matches_context(l, ctx) == l.ctx = ctx

-----------------------------------------------------------------------------
(* Robot state rules: state.py and the state half of conformance.py.       *)

state_auth_violation(s) ==
    FirstViolation(Static(s, <<
        "STATE_REQUIRED_FIELD_MISSING",
        "STATE_SIGNATURE_ALGORITHM_MISSING",
        "STATE_SIGNATURE_ALGORITHM_UNSUPPORTED",
        "STATE_AUTHENTICATED_EDGE_MISSING",
        "STATE_AUTHENTICATED_EDGE_MISMATCH",
        "STATE_SIGNATURE_MISSING",
        "EDGE_STATE_KEY_NOT_TRUSTED",
        "STATE_SIGNED_MATERIAL_TOO_LARGE",
        "STATE_SIGNATURE_INVALID" >>))

(* created_at, observed_at, network_state.observed_at and                  *)
(* geofence_state.verified_at, in this order.                              *)
state_time_violation(s, now) ==
    StampsViolation(s.stamps, now, MaxStateAge,
        [invalid |-> "STATE_TIMESTAMP_INVALID",
         early   |-> "STATE_NOT_YET_VALID",
         stale   |-> "STATE_STALE"])

network_state_authority_violation(n) ==
    FirstViolation(<<
        <<n.profile = "unknown", "NETWORK_STATE_UNKNOWN">>,
        <<n.profile = "partition", "NETWORK_DETACHED">>,
        <<~n.attached, "NETWORK_DETACHED">> >>)

network_state_malformed(n) ==
    \/ \E v \in {n.latency, n.loss, n.uplink} : ~finite_nonnegative(v)
    \/ n.loss > 100

lease_requires_current_state(l) ==
    \/ l.ctx.capability = "remote_assist"
    \/ \E v \in {l.constraints.max_latency, l.constraints.max_loss, l.constraints.min_uplink} :
          v # None
    \/ l.constraints.geofence_id # None

geofence_id_only(c, g) == c.geofence_id # None /\ g.id # c.geofence_id   \* mutant: inside flag ignored

geofence_violated(c, g) ==
    c.geofence_id # None /\ (~g.inside \/ g.id # c.geofence_id)

validate_lease_against_state(l, s) ==
    LET c == l.constraints
        n == s.network
    IN  FirstViolation(<<
            <<\/ s.robot # l.ctx.robot
              \/ s.edge # l.ctx.edge
              \/ s.mission # l.ctx.mission, "LEASE_STATE_MISMATCH">>,
            <<geofence_violated(c, s.geofence), "GEOFENCE_CONSTRAINT_VIOLATED">>,
            <<network_state_malformed(n), "NETWORK_STATE_MALFORMED">>,
            Sub(network_state_authority_violation(n)),
            <<c.max_latency # None /\ n.latency > c.max_latency, "NETWORK_LATENCY_TOO_HIGH">>,
            <<c.max_loss # None /\ n.loss > c.max_loss, "NETWORK_PACKET_LOSS_TOO_HIGH">>,
            <<c.min_uplink # None /\ n.uplink < c.min_uplink, "NETWORK_UPLINK_TOO_LOW">> >>)

\* What validate_lease_for_command asks of the state that came with the command.
current_state_violation(l, s, now) ==
    IF s = None
    THEN IF lease_requires_current_state(l) THEN "CURRENT_STATE_REQUIRED" ELSE Valid
    ELSE FirstViolation(<<
            Sub(state_auth_violation(s)),
            <<"PROTOCOL_VERSION_UNSUPPORTED" \in s.defects, "PROTOCOL_VERSION_UNSUPPORTED">>,
            Sub(state_time_violation(s, now)),
            Sub(validate_lease_against_state(l, s)) >>)
-----------------------------------------------------------------------------
(* Command payload and the whole rule: conformance.py.                     *)

SupportedSpeedFields == {"max_speed_mps", "speed_mps"}

validate_command_payload_against_constraints(l, p) ==
    LET max == l.constraints.max_speed
        raw == CASE "max_speed_mps" \in DOMAIN p -> p["max_speed_mps"]
                 [] "max_speed_mps" \notin DOMAIN p /\ "speed_mps" \in DOMAIN p -> p["speed_mps"]
                 [] OTHER -> None
    IN  IF max = None
        THEN IF DOMAIN p = {} THEN Valid ELSE "COMMAND_PAYLOAD_SCHEMA_VIOLATION"
        ELSE FirstViolation(<<
                <<DOMAIN p \ SupportedSpeedFields # {}, "COMMAND_PAYLOAD_SCHEMA_VIOLATION">>,
                <<~finite_nonnegative(max), "LEASE_CONSTRAINT_MALFORMED">>,
                <<SupportedSpeedFields \subseteq DOMAIN p /\ p["max_speed_mps"] # p["speed_mps"],
                  "COMMAND_SPEED_CONFLICT">>,
                <<raw = None, "COMMAND_SPEED_MISSING">>,
                <<raw # None /\ ~finite_nonnegative(raw), "COMMAND_SPEED_MALFORMED">>,
                <<raw # None /\ raw > max, "COMMAND_SPEED_TOO_HIGH">> >>)

\* Signature algorithm, size budget and signature of the lease.
lease_signature_violation(l) ==
    FirstViolation(Static(l, <<
        "LEASE_SIGNATURE_ALGORITHM_MISSING",
        "LEASE_SIGNATURE_ALGORITHM_UNSUPPORTED",
        "LEASE_SIGNED_MATERIAL_TOO_LARGE",
        "INVALID_SIGNATURE" >>))

(* The configured maps are dictionaries in every caller under src/, never  *)
(* None, so the *_REQUIRED answers for an absent map do not appear.        *)
admission_checks(l, c, s, revoked, now) == <<
    <<"PROTOCOL_VERSION_UNSUPPORTED" \in l.defects, "PROTOCOL_VERSION_UNSUPPORTED">>,
    <<l.issuer \notin TrustedIssuers, "ISSUER_NOT_TRUSTED">>,
    <<l.issuer \notin IssuerKeys, "ISSUER_KEY_NOT_TRUSTED">>,
    Sub(lease_signature_violation(l)),
    Sub(lease_policy_provenance_violation(l)),
    Sub(capability_scope_violation(l)),
    Sub(lease_time_violation(l, now)),
    Sub(capability_constraint_requirement_violation(l)),
    <<lease_constraints_malformed(l), "LEASE_CONSTRAINT_MALFORMED">>,
    Sub(capability_constraint_bound_violation(l)),
    <<~lease_matches_context(l, c.ctx), "LEASE_CONTEXT_MISMATCH">>,
    <<l.lease_id \in revoked, "LEASE_REVOKED">>,
    Sub(current_state_violation(l, s, now)),
    Sub(validate_command_payload_against_constraints(l, c.payload)) >>

validate_lease_for_command(l, c, s, revoked, now) ==
    IF l = None THEN "NO_LEASE"
    ELSE FirstViolation(admission_checks(l, c, s, revoked, now))
=============================================================================
