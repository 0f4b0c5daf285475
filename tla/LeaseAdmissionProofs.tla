------------------------ MODULE LeaseAdmissionProofs ------------------------
(***************************************************************************)
(* What an admission establishes, for every configuration of the edge and  *)
(* all messages, and that the two implementations of the edge agree.       *)
(***************************************************************************)
EXTENDS EdgeAgreement, LeaseRulesProofs

(* A lease without a requirement violation has the required constraints.   *)
LEMMA RequirementsMet ==
    ASSUME NEW l, capability_constraint_requirement_violation(l) = Valid
    PROVE  /\ l.ctx.capability \in DOMAIN Requirements
           /\ ~capability_constraints_missing(l.constraints, Requirements[l.ctx.capability])
<1> DEFINE known == l.ctx.capability \in DOMAIN Requirements
           missing == known /\ capability_constraints_missing(l.constraints, Requirements[l.ctx.capability])
           ladder == << <<~known, "CAPABILITY_CONSTRAINT_REQUIREMENTS_REQUIRED">>,
                        <<missing, "LEASE_CONSTRAINTS_MISSING">> >>
<1>1. FirstViolation(ladder) = Valid
    BY DEF capability_constraint_requirement_violation
<1> HIDE DEF missing, known
<1>2. DOMAIN ladder = 1..2 /\ \A i \in 1..2 : ladder[i][2] # Valid
    BY DEF Valid
<1>3. ladder[1][1] = ~known /\ ladder[2][1] = missing
    OBVIOUS
<1> HIDE DEF ladder
<1>4. ~ladder[1][1] /\ ~ladder[2][1]
    BY <1>1, <1>2, LadderClear
<1>5. known /\ ~missing
    BY <1>3, <1>4, Zenon DEF known
<1> QED
    BY <1>5, Zenon DEF known, missing

(* A lease without a bound violation is within the policy's bounds.        *)
LEMMA BoundsMet ==
    ASSUME NEW l, capability_constraint_bound_violation(l) = Valid
    PROVE  /\ l.ctx.capability \in DOMAIN Bounds
           /\ ~capability_constraints_exceed_bounds(l.constraints, Bounds[l.ctx.capability])
<1> DEFINE known == l.ctx.capability \in DOMAIN Bounds
           exceeds == known /\ capability_constraints_exceed_bounds(l.constraints, Bounds[l.ctx.capability])
           ladder == << <<~known, "CAPABILITY_CONSTRAINT_BOUNDS_REQUIRED">>,
                        <<exceeds, "LEASE_CONSTRAINTS_EXCEED_POLICY">> >>
<1>1. FirstViolation(ladder) = Valid
    BY DEF capability_constraint_bound_violation
<1> HIDE DEF exceeds, known
<1>2. DOMAIN ladder = 1..2 /\ \A i \in 1..2 : ladder[i][2] # Valid
    BY DEF Valid
<1>3. ladder[1][1] = ~known /\ ladder[2][1] = exceeds
    OBVIOUS
<1> HIDE DEF ladder
<1>4. ~ladder[1][1] /\ ~ladder[2][1]
    BY <1>1, <1>2, LadderClear
<1>5. known /\ ~exceeds
    BY <1>3, <1>4, Zenon DEF known
<1> QED
    BY <1>5, Zenon DEF known, exceeds

(* A lease without a time violation is in its window.                      *)
LEMMA WindowMet ==
    ASSUME NEW l, NEW at \in Int, lease_time_violation(l, at) = Valid,
           l.issued_at \in Number, l.expires_at \in Number, None \notin Int
    PROVE  /\ l.issued_at \in Int /\ l.expires_at \in Int
           /\ l.issued_at <= at + ClockSkew
           /\ at < l.expires_at
           /\ l.expires_at - l.issued_at <= MaxLeaseTtl
<1> DEFINE ladder == <<
        <<l.issued_at > at + ClockSkew, "LEASE_NOT_YET_VALID">>,
        <<is_expired(l, at), "LEASE_EXPIRED">>,
        <<l.expires_at <= l.issued_at, "LEASE_TIME_WINDOW_INVALID">>,
        <<l.expires_at - l.issued_at > MaxLeaseTtl, "LEASE_TTL_TOO_LONG">>,
        <<at - l.issued_at > MaxLeaseAge + ClockSkew, "LEASE_STALE">> >>
<1>1. /\ l.issued_at # None /\ l.expires_at # None
      /\ FirstViolation(ladder) = Valid
    BY Zenon DEF lease_time_violation, Valid
<1>2. l.issued_at \in Int /\ l.expires_at \in Int
    BY <1>1 DEF Number
<1>3. DOMAIN ladder = 1..5 /\ \A i \in 1..5 : ladder[i][2] # Valid
    BY DEF Valid
<1>4. /\ ladder[1][1] = (l.issued_at > at + ClockSkew)
      /\ ladder[2][1] = is_expired(l, at)
      /\ ladder[4][1] = (l.expires_at - l.issued_at > MaxLeaseTtl)
    OBVIOUS
<1> HIDE DEF ladder
<1>5. ~ladder[1][1] /\ ~ladder[2][1] /\ ~ladder[4][1]
    BY <1>1, <1>3, LadderClear
<1>6. /\ ~(l.issued_at > at + ClockSkew)
      /\ ~is_expired(l, at)
      /\ ~(l.expires_at - l.issued_at > MaxLeaseTtl)
    BY <1>4, <1>5, Zenon
<1> QED
    BY <1>2, <1>6, DurationsAssumption DEF is_expired
(* A timestamp without a violation is neither too early nor too old.       *)
LEMMA StampMet ==
    ASSUME NEW t \in Number, NEW at \in Int, NEW max_age \in Nat, NEW r, None \notin Int,
           r.invalid # Valid, r.early # Valid, r.stale # Valid,
           StampViolation(t, at, max_age, r) = Valid
    PROVE  t \in Int /\ t <= at + ClockSkew /\ at - t <= max_age + ClockSkew
<1> DEFINE ladder == <<
        <<t = None, r.invalid>>,
        <<t # None /\ t > at + ClockSkew, r.early>>,
        <<t # None /\ at - t > max_age + ClockSkew, r.stale>> >>
<1>1. FirstViolation(ladder) = Valid
    BY DEF StampViolation
<1>2. DOMAIN ladder = 1..3 /\ \A i \in 1..3 : ladder[i][2] # Valid
    OBVIOUS
<1>3. /\ ladder[1][1] = (t = None)
      /\ ladder[2][1] = (t # None /\ t > at + ClockSkew)
      /\ ladder[3][1] = (t # None /\ at - t > max_age + ClockSkew)
    OBVIOUS
<1> HIDE DEF ladder
<1>4. ~ladder[1][1] /\ ~ladder[2][1] /\ ~ladder[3][1]
    BY <1>1, <1>2, LadderClear
<1>5. t # None /\ ~(t > at + ClockSkew) /\ ~(at - t > max_age + ClockSkew)
    BY <1>3, <1>4, Zenon
<1> QED
    BY <1>5, DurationsAssumption DEF Number

(* A state without a time violation has only current timestamps.           *)
LEMMA StateStampsMet ==
    ASSUME NEW s, NEW at \in Int, None \notin Int, state_time_violation(s, at) = Valid,
           DOMAIN s.stamps = 1..4, \A k \in 1..4 : s.stamps[k] \in Number
    PROVE  \A k \in 1..4 : /\ s.stamps[k] \in Int
                           /\ s.stamps[k] <= at + ClockSkew
                           /\ at - s.stamps[k] <= MaxStateAge + ClockSkew
<1> DEFINE r == [invalid |-> "STATE_TIMESTAMP_INVALID",
                 early   |-> "STATE_NOT_YET_VALID",
                 stale   |-> "STATE_STALE"]
           ladder == [k \in DOMAIN s.stamps |-> Sub(StampViolation(s.stamps[k], at, MaxStateAge, r))]
<1>1. FirstViolation(ladder) = Valid
    BY DEF state_time_violation, StampsViolation
<1>2. DOMAIN ladder = 1..4 /\ \A k \in 1..4 : ladder[k] = Sub(StampViolation(s.stamps[k], at, MaxStateAge, r))
    OBVIOUS
<1>3. r.invalid # Valid /\ r.early # Valid /\ r.stale # Valid
    BY DEF Valid
<1> HIDE DEF ladder, r
<1>4. \A k \in 1..4 : ladder[k][1] => ladder[k][2] # Valid
    BY <1>2, SubClear
<1>5. \A k \in 1..4 : ~ladder[k][1]
    BY <1>1, <1>2, <1>4, LadderClear
<1>6. \A k \in 1..4 : StampViolation(s.stamps[k], at, MaxStateAge, r) = Valid
    BY <1>2, <1>5, SubHolds
<1> QED
    BY <1>3, <1>6, StampMet, DurationsAssumption

(* What the rule establishes of the state that came with a command.        *)
LEMMA StateMet ==
    ASSUME NEW l, NEW s, NEW at, current_state_violation(l, s, at) = Valid
    PROVE  /\ lease_requires_current_state(l) => s # None
           /\ s # None => /\ state_auth_violation(s) = Valid
                          /\ state_time_violation(s, at) = Valid
                          /\ validate_lease_against_state(l, s) = Valid
<1>1. CASE s = None
    BY <1>1 DEF current_state_violation, Valid
<1>2. CASE s # None
    <2> DEFINE ladder == <<
            Sub(state_auth_violation(s)),
            <<"PROTOCOL_VERSION_UNSUPPORTED" \in s.defects, "PROTOCOL_VERSION_UNSUPPORTED">>,
            Sub(state_time_violation(s, at)),
            Sub(validate_lease_against_state(l, s)) >>
    <2>1. FirstViolation(ladder) = Valid
        BY <1>2 DEF current_state_violation
    <2>2. DOMAIN ladder = 1..4
        OBVIOUS
    <2>3. \A i \in 1..4 : ladder[i][1] => ladder[i][2] # Valid
        BY SubClear DEF Valid
    <2>4. /\ ladder[1] = Sub(state_auth_violation(s))
          /\ ladder[3] = Sub(state_time_violation(s, at))
          /\ ladder[4] = Sub(validate_lease_against_state(l, s))
        OBVIOUS
    <2> HIDE DEF ladder
    <2>5. ~ladder[1][1] /\ ~ladder[3][1] /\ ~ladder[4][1]
        BY <2>1, <2>2, <2>3, LadderClear
    <2> QED
        BY <1>2, <2>4, <2>5, SubHolds
<1> QED
    BY <1>1, <1>2

(* A state without a violation is of this robot, inside the geofence and   *)
(* within the network constraints of the lease.                            *)
LEMMA ConstraintsMet ==
    ASSUME NEW l, NEW s, validate_lease_against_state(l, s) = Valid
    PROVE  /\ s.robot = l.ctx.robot
           /\ l.constraints.geofence_id # None =>
                 s.geofence.inside /\ s.geofence.id = l.constraints.geofence_id
           /\ l.constraints.max_latency # None => ~(s.network.latency > l.constraints.max_latency)
           /\ l.constraints.max_loss # None => ~(s.network.loss > l.constraints.max_loss)
           /\ l.constraints.min_uplink # None => ~(s.network.uplink < l.constraints.min_uplink)
<1> DEFINE c == l.constraints
           n == s.network
           other == \/ s.robot # l.ctx.robot
                    \/ s.edge # l.ctx.edge
                    \/ s.mission # l.ctx.mission
           slow == c.max_latency # None /\ n.latency > c.max_latency
           lossy == c.max_loss # None /\ n.loss > c.max_loss
           narrow == c.min_uplink # None /\ n.uplink < c.min_uplink
           ladder == <<
            <<other, "LEASE_STATE_MISMATCH">>,
            <<geofence_violated(c, s.geofence), "GEOFENCE_CONSTRAINT_VIOLATED">>,
            <<network_state_malformed(n), "NETWORK_STATE_MALFORMED">>,
            Sub(network_state_authority_violation(n)),
            <<slow, "NETWORK_LATENCY_TOO_HIGH">>,
            <<lossy, "NETWORK_PACKET_LOSS_TOO_HIGH">>,
            <<narrow, "NETWORK_UPLINK_TOO_LOW">> >>
<1>1. FirstViolation(ladder) = Valid
    BY DEF validate_lease_against_state
<1> HIDE DEF other, slow, lossy, narrow
<1>2. DOMAIN ladder = 1..7
    OBVIOUS
<1>3. \A i \in 1..7 : ladder[i][1] => ladder[i][2] # Valid
    BY SubClear DEF Valid
<1>4. /\ ladder[1][1] = other
      /\ ladder[2][1] = geofence_violated(c, s.geofence)
      /\ ladder[5][1] = slow
      /\ ladder[6][1] = lossy
      /\ ladder[7][1] = narrow
    OBVIOUS
<1> HIDE DEF ladder
<1>5. ~ladder[1][1] /\ ~ladder[2][1] /\ ~ladder[5][1] /\ ~ladder[6][1] /\ ~ladder[7][1]
    BY <1>1, <1>2, <1>3, LadderClear
<1>6. ~other /\ ~geofence_violated(c, s.geofence) /\ ~slow /\ ~lossy /\ ~narrow
    BY <1>4, <1>5, Zenon
<1> QED
    BY <1>6, Zenon DEF other, slow, lossy, narrow, geofence_violated
(* Every speed of a payload without a violation is within the lease's.     *)
LEMMA PayloadMet ==
    ASSUME NEW l, NEW p, l.constraints.max_speed \in Int, None \notin Int,
           \A f \in DOMAIN p : p[f] \in Int,
           validate_command_payload_against_constraints(l, p) = Valid
    PROVE  \A f \in DOMAIN p : p[f] >= 0 /\ p[f] <= l.constraints.max_speed
<1> DEFINE max == l.constraints.max_speed
           raw == CASE "max_speed_mps" \in DOMAIN p -> p["max_speed_mps"]
                    [] "max_speed_mps" \notin DOMAIN p /\ "speed_mps" \in DOMAIN p -> p["speed_mps"]
                    [] OTHER -> None
           unknown == DOMAIN p \ SupportedSpeedFields # {}
           conflict == SupportedSpeedFields \subseteq DOMAIN p /\ p["max_speed_mps"] # p["speed_mps"]
           negative == raw # None /\ ~finite_nonnegative(raw)
           fast == raw # None /\ raw > max
           ladder == <<
                <<unknown, "COMMAND_PAYLOAD_SCHEMA_VIOLATION">>,
                <<~finite_nonnegative(max), "LEASE_CONSTRAINT_MALFORMED">>,
                <<conflict, "COMMAND_SPEED_CONFLICT">>,
                <<raw = None, "COMMAND_SPEED_MISSING">>,
                <<negative, "COMMAND_SPEED_MALFORMED">>,
                <<fast, "COMMAND_SPEED_TOO_HIGH">> >>
<1>1. max # None
    OBVIOUS
<1>2. FirstViolation(ladder) = Valid
    BY <1>1, Zenon DEF validate_command_payload_against_constraints
<1> HIDE DEF unknown, conflict, negative, fast, raw
<1>3. DOMAIN ladder = 1..6 /\ \A i \in 1..6 : ladder[i][2] # Valid
    BY DEF Valid
<1>4. /\ ladder[1][1] = unknown
      /\ ladder[3][1] = conflict
      /\ ladder[4][1] = (raw = None)
      /\ ladder[5][1] = negative
      /\ ladder[6][1] = fast
    OBVIOUS
<1> HIDE DEF ladder
<1>5. ~ladder[1][1] /\ ~ladder[3][1] /\ ~ladder[4][1] /\ ~ladder[5][1] /\ ~ladder[6][1]
    BY <1>2, <1>3, LadderClear
<1>6. ~unknown /\ ~conflict /\ raw # None /\ ~negative /\ ~fast
    BY <1>4, <1>5, Zenon
<1>7. DOMAIN p \subseteq {"max_speed_mps", "speed_mps"}
    BY <1>6 DEF unknown, SupportedSpeedFields
<1>8. \A f \in DOMAIN p : p[f] = raw
    BY <1>6, <1>7 DEF conflict, raw, SupportedSpeedFields
<1>9. ASSUME NEW f \in DOMAIN p PROVE p[f] >= 0 /\ p[f] <= max
    <2>1. p[f] = raw /\ raw \in Int
        BY <1>8
    <2>2. raw >= 0 /\ ~(raw > max)
        BY <1>6 DEF negative, fast, finite_nonnegative
    <2> QED
        BY <2>1, <2>2
<1> QED
    BY <1>9

-----------------------------------------------------------------------------
(* The messages that are presented, and a clock that is a number.          *)
Presented ==
    /\ lease \in LeaseInputs
    /\ command \in CommandInputs
    /\ state \in StateInputs \cup {None}
    /\ now \in Nat

(* What is presented is always one of the inputs.                          *)
LEMMA PresentedHolds == Spec => []Presented
<1>1. Init => Presented
    BY DEF Init, Presented
<1>2. Presented /\ [Tick]_vars => Presented'
    BY DEF Presented, Tick, vars
<1> QED
    BY <1>1, <1>2, PTL DEF Spec

(* Admitted commands are within the policy in every state.                 *)
LEMMA PolicyStep == Presented => AdmittedWithinPolicy
<1> SUFFICES ASSUME Presented, Admitted PROVE AdmittedWithinPolicy
    BY DEF AdmittedWithinPolicy
<1> DEFINE cap == lease.ctx.capability
           c == lease.constraints
           b == Bounds[cap]
<1>1. /\ capability_constraint_requirement_violation(lease) = Valid
      /\ capability_constraint_bound_violation(lease) = Valid
      /\ current_state_violation(lease, state, now) = Valid
      /\ validate_command_payload_against_constraints(lease, command.payload) = Valid
    BY AdmissionFacts DEF Admitted, Verdict
<1>2. /\ ~capability_constraints_missing(c, Requirements[cap])
      /\ cap \in DOMAIN Bounds
      /\ ~capability_constraints_exceed_bounds(c, b)
    BY <1>1, RequirementsMet, BoundsMet
<1>3. /\ c.max_latency \in Number /\ c.max_loss \in Number
      /\ c.min_uplink \in Number /\ c.max_speed \in Number
      /\ None \notin Int
    BY InputsAssumption DEF Presented
<1>4. /\ b.max_latency \in Number /\ b.max_loss \in Number
      /\ b.min_uplink \in Number /\ b.max_speed \in Number
    BY <1>2, InputsAssumption
<1>5. /\ ~max_field_exceeds_policy(c.max_latency, b.max_latency)
      /\ ~max_field_exceeds_policy(c.max_loss, b.max_loss)
      /\ ~min_field_exceeds_policy(c.min_uplink, b.min_uplink)
      /\ ~max_field_exceeds_policy(c.max_speed, b.max_speed)
    BY <1>2, Zenon DEF capability_constraints_exceed_bounds
<1>6. ASSUME Requirements[cap].network
      PROVE  /\ state # None
             /\ state.network.latency <= b.max_latency
             /\ state.network.loss <= b.max_loss
             /\ state.network.uplink >= b.min_uplink
    <2>1. c.max_latency # None /\ c.max_loss # None /\ c.min_uplink # None
        BY <1>2, <1>6 DEF capability_constraints_missing
    <2>2. state # None
        BY <1>1, <2>1, StateMet DEF lease_requires_current_state
    <2>3. /\ state.network.latency \in Int
          /\ state.network.loss \in Int
          /\ state.network.uplink \in Int
        BY <2>2, InputsAssumption DEF Presented
    <2>4. validate_lease_against_state(lease, state) = Valid
        BY <1>1, <2>2, StateMet
    <2>5. /\ ~(state.network.latency > c.max_latency)
          /\ ~(state.network.loss > c.max_loss)
          /\ ~(state.network.uplink < c.min_uplink)
        BY <2>1, <2>4, ConstraintsMet
    <2>6. /\ b.max_latency \in Int /\ c.max_latency \in Int /\ ~(c.max_latency > b.max_latency)
          /\ b.max_loss \in Int /\ c.max_loss \in Int /\ ~(c.max_loss > b.max_loss)
          /\ b.min_uplink \in Int /\ c.min_uplink \in Int /\ ~(c.min_uplink < b.min_uplink)
        BY <1>3, <1>4, <1>5, <2>1 DEF max_field_exceeds_policy, min_field_exceeds_policy, Number
    <2> QED
        BY <2>2, <2>3, <2>5, <2>6
<1>7. ASSUME Requirements[cap].max_speed, NEW f \in DOMAIN command.payload
      PROVE  command.payload[f] >= 0 /\ command.payload[f] <= b.max_speed
    <2>1. c.max_speed # None
        BY <1>2, <1>7 DEF capability_constraints_missing
    <2>2. b.max_speed \in Int /\ c.max_speed \in Int /\ ~(c.max_speed > b.max_speed)
        BY <1>3, <1>4, <1>5, <2>1 DEF max_field_exceeds_policy, Number
    <2>3. \A k \in DOMAIN command.payload : command.payload[k] \in Int
        BY InputsAssumption DEF Presented
    <2>4. command.payload[f] >= 0 /\ command.payload[f] <= c.max_speed
        BY <1>1, <1>3, <2>2, <2>3, PayloadMet
    <2> QED
        BY <2>2, <2>3, <2>4
<1> QED
    BY <1>6, <1>7 DEF AdmittedWithinPolicy

(* A command is admitted only within the policy's bounds on the robot's    *)
(* network and on the commanded speed, for every configuration of the edge *)
(* and all messages.                                                       *)
THEOREM AdmittedWithinPolicyHolds == Spec => []AdmittedWithinPolicy
BY PresentedHolds, PolicyStep, PTL

(* Where the policy names a geofence, an admitted command comes with an    *)
(* authentic state that places its robot inside.                           *)
THEOREM AdmittedInsideGeofenceHolds == Spec => []AdmittedInsideGeofence
<1>1. Presented => AdmittedInsideGeofence
    <2> SUFFICES ASSUME Presented, Admitted, Bounds[lease.ctx.capability].geofence_id # None
                 PROVE  AdmittedInsideGeofence
        BY DEF AdmittedInsideGeofence
    <2> DEFINE b == Bounds[lease.ctx.capability]
    <2>1. /\ capability_constraint_bound_violation(lease) = Valid
          /\ current_state_violation(lease, state, now) = Valid
          /\ lease.ctx = command.ctx
        BY AdmissionFacts DEF Admitted, Verdict
    <2>2. lease.constraints.geofence_id = b.geofence_id
        BY <2>1, BoundsMet, Zenon DEF capability_constraints_exceed_bounds
    <2>3. state # None
        BY <2>1, <2>2, StateMet DEF lease_requires_current_state
    <2>4. state_auth_violation(state) = Valid /\ validate_lease_against_state(lease, state) = Valid
        BY <2>1, <2>3, StateMet
    <2>5. /\ state.robot = lease.ctx.robot
          /\ state.geofence.inside
          /\ state.geofence.id = lease.constraints.geofence_id
        BY <2>2, <2>4, ConstraintsMet, Zenon
    <2> QED
        BY <2>1, <2>2, <2>3, <2>4, <2>5, Zenon DEF AdmittedInsideGeofence
<1> QED
    BY <1>1, PresentedHolds, PTL

(* An admitted lease is unexpired and younger than the longest lifetime    *)
(* the edge accepts, and the state that came with it is fresh.             *)
THEOREM AdmittedWhileCurrentHolds == Spec => []AdmittedWhileCurrent
<1>1. Presented => AdmittedWhileCurrent
    <2> SUFFICES ASSUME Presented, Admitted PROVE AdmittedWhileCurrent
        BY DEF AdmittedWhileCurrent
    <2>1. /\ lease_time_violation(lease, now) = Valid
          /\ current_state_violation(lease, state, now) = Valid
        BY AdmissionFacts DEF Admitted, Verdict
    <2>2. /\ now \in Int /\ None \notin Int
          /\ lease.issued_at \in Number /\ lease.expires_at \in Number
        BY InputsAssumption DEF Presented
    <2>3. /\ lease.issued_at \in Int /\ lease.expires_at \in Int
          /\ lease.issued_at <= now + ClockSkew
          /\ now < lease.expires_at
          /\ lease.expires_at - lease.issued_at <= MaxLeaseTtl
        BY <2>1, <2>2, WindowMet
    <2>4. now - lease.issued_at < MaxLeaseTtl
        BY <2>2, <2>3, DurationsAssumption
    <2>5. ASSUME state # None
          PROVE  \A k \in DOMAIN state.stamps :
                     /\ state.stamps[k] <= now + ClockSkew
                     /\ now - state.stamps[k] <= MaxStateAge + ClockSkew
        <3>1. DOMAIN state.stamps = 1..4 /\ \A k \in 1..4 : state.stamps[k] \in Number
            BY <2>5, InputsAssumption DEF Presented
        <3>2. state_time_violation(state, now) = Valid
            BY <2>1, <2>5, StateMet
        <3> QED
            BY <2>2, <3>1, <3>2, StateStampsMet
    <2> QED
        BY <2>3, <2>4, <2>5 DEF AdmittedWhileCurrent
<1> QED
    BY <1>1, PresentedHolds, PTL
-----------------------------------------------------------------------------
(* Admission over time.                                                    *)

(* The time rule of a lease, as inequalities: no check is missing.         *)
LEMMA WindowExact ==
    ASSUME NEW l, NEW at \in Int, l.issued_at \in Int, l.expires_at \in Int, None \notin Int
    PROVE  lease_time_violation(l, at) = Valid
             <=> /\ l.issued_at <= at + ClockSkew /\ at < l.expires_at
                 /\ l.issued_at < l.expires_at /\ l.expires_at - l.issued_at <= MaxLeaseTtl
                 /\ at - l.issued_at <= MaxLeaseAge + ClockSkew
<1> DEFINE ladder == <<
        <<l.issued_at > at + ClockSkew, "LEASE_NOT_YET_VALID">>,
        <<is_expired(l, at), "LEASE_EXPIRED">>,
        <<l.expires_at <= l.issued_at, "LEASE_TIME_WINDOW_INVALID">>,
        <<l.expires_at - l.issued_at > MaxLeaseTtl, "LEASE_TTL_TOO_LONG">>,
        <<at - l.issued_at > MaxLeaseAge + ClockSkew, "LEASE_STALE">> >>
<1>1. lease_time_violation(l, at) = FirstViolation(ladder)
    <2>1. l.issued_at # None /\ l.expires_at # None
        OBVIOUS
    <2> QED
        BY <2>1, Zenon DEF lease_time_violation
<1>2. DOMAIN ladder = 1..5 /\ \A i \in 1..5 : ladder[i][2] # Valid
    BY DEF Valid
<1>3. /\ ladder[1][1] = (l.issued_at > at + ClockSkew)
      /\ ladder[2][1] = is_expired(l, at)
      /\ ladder[3][1] = (l.expires_at <= l.issued_at)
      /\ ladder[4][1] = (l.expires_at - l.issued_at > MaxLeaseTtl)
      /\ ladder[5][1] = (at - l.issued_at > MaxLeaseAge + ClockSkew)
    OBVIOUS
<1> HIDE DEF ladder
<1>4. FirstViolation(ladder) = Valid <=> \A i \in 1..5 : ~ladder[i][1]
    <2>1. DOMAIN ladder \subseteq Nat /\ 5 \in Nat
        BY <1>2
    <2>2. FirstViolation(ladder) = Valid => \A i \in DOMAIN ladder : ~ladder[i][1]
        BY <1>2, <2>1, LadderClear
    <2>3. (\A i \in 1..5 : ~ladder[i][1]) => FirstViolation(ladder) = Valid
        BY <1>2, <2>1, LadderPass
    <2> QED
        BY <1>2, <2>2, <2>3
<1>5. (\A i \in 1..5 : ~ladder[i][1])
        <=> ~ladder[1][1] /\ ~ladder[2][1] /\ ~ladder[3][1] /\ ~ladder[4][1] /\ ~ladder[5][1]
    OBVIOUS
<1>6. FirstViolation(ladder) = Valid
        <=> /\ ~(l.issued_at > at + ClockSkew) /\ ~is_expired(l, at)
            /\ ~(l.expires_at <= l.issued_at) /\ ~(l.expires_at - l.issued_at > MaxLeaseTtl)
            /\ ~(at - l.issued_at > MaxLeaseAge + ClockSkew)
    BY <1>3, <1>4, <1>5, Zenon
<1> QED
    BY <1>1, <1>6, DurationsAssumption DEF is_expired

(* The rule of one timestamp, as inequalities.                             *)
LEMMA StampPasses ==
    ASSUME NEW t \in Int, NEW at \in Int, NEW max_age \in Nat, NEW r, None \notin Int,
           t <= at + ClockSkew, at - t <= max_age + ClockSkew
    PROVE  StampViolation(t, at, max_age, r) = Valid
<1> DEFINE ladder == <<
        <<t = None, r.invalid>>,
        <<t # None /\ t > at + ClockSkew, r.early>>,
        <<t # None /\ at - t > max_age + ClockSkew, r.stale>> >>
<1>1. StampViolation(t, at, max_age, r) = FirstViolation(ladder)
    BY DEF StampViolation
<1>2. DOMAIN ladder = 1..3
    OBVIOUS
<1>3. /\ ladder[1][1] = (t = None)
      /\ ladder[2][1] = (t # None /\ t > at + ClockSkew)
      /\ ladder[3][1] = (t # None /\ at - t > max_age + ClockSkew)
    OBVIOUS
<1>4. t # None /\ ~(t > at + ClockSkew) /\ ~(at - t > max_age + ClockSkew)
    BY DurationsAssumption
<1> HIDE DEF ladder
<1>5. ~ladder[1][1] /\ ~ladder[2][1] /\ ~ladder[3][1]
    BY <1>3, <1>4, Zenon
<1>6. \A i \in 1..3 : ~ladder[i][1]
    BY <1>5
<1> QED
    BY <1>1, <1>2, <1>6, LadderPass

(* A state all of whose timestamps are current has no time violation.      *)
LEMMA StateStampsPass ==
    ASSUME NEW s, NEW at \in Int, None \notin Int, DOMAIN s.stamps = 1..4,
           \A k \in 1..4 : /\ s.stamps[k] \in Int
                           /\ s.stamps[k] <= at + ClockSkew
                           /\ at - s.stamps[k] <= MaxStateAge + ClockSkew
    PROVE  state_time_violation(s, at) = Valid
<1> DEFINE r == [invalid |-> "STATE_TIMESTAMP_INVALID",
                 early   |-> "STATE_NOT_YET_VALID",
                 stale   |-> "STATE_STALE"]
           ladder == [k \in DOMAIN s.stamps |-> Sub(StampViolation(s.stamps[k], at, MaxStateAge, r))]
<1>1. state_time_violation(s, at) = FirstViolation(ladder)
    BY DEF state_time_violation, StampsViolation
<1>2. DOMAIN ladder = 1..4 /\ \A k \in 1..4 : ladder[k] = Sub(StampViolation(s.stamps[k], at, MaxStateAge, r))
    OBVIOUS
<1> HIDE DEF ladder, r
<1>3. \A k \in 1..4 : StampViolation(s.stamps[k], at, MaxStateAge, r) = Valid
    BY StampPasses, DurationsAssumption
<1>4. \A k \in 1..4 : ~ladder[k][1]
    BY <1>2, <1>3, SubAnswer
<1> QED
    BY <1>1, <1>2, <1>4, LadderPass

(* The state that came with a command is in order between two times at     *)
(* which it is.                                                            *)
LEMMA StateBetween ==
    ASSUME NEW l, NEW s \in StateInputs \cup {None}, NEW a \in Int, NEW b \in Int, NEW c \in Int,
           a <= b, b <= c, current_state_violation(l, s, a) = Valid, current_state_violation(l, s, c) = Valid
    PROVE  current_state_violation(l, s, b) = Valid
<1>1. CASE s = None
    BY <1>1 DEF current_state_violation
<1>2. CASE s # None
    <2> DEFINE ladder(at) == <<
            Sub(state_auth_violation(s)),
            <<"PROTOCOL_VERSION_UNSUPPORTED" \in s.defects, "PROTOCOL_VERSION_UNSUPPORTED">>,
            Sub(state_time_violation(s, at)),
            Sub(validate_lease_against_state(l, s)) >>
    <2>1. /\ current_state_violation(l, s, a) = FirstViolation(ladder(a))
          /\ current_state_violation(l, s, b) = FirstViolation(ladder(b))
          /\ current_state_violation(l, s, c) = FirstViolation(ladder(c))
        BY <1>2, Zenon DEF current_state_violation
    <2>2. \A at : /\ DOMAIN ladder(at) = 1..4
                  /\ ladder(at)[1] = Sub(state_auth_violation(s))
                  /\ ladder(at)[2] = <<"PROTOCOL_VERSION_UNSUPPORTED" \in s.defects, "PROTOCOL_VERSION_UNSUPPORTED">>
                  /\ ladder(at)[3] = Sub(state_time_violation(s, at))
                  /\ ladder(at)[4] = Sub(validate_lease_against_state(l, s))
        OBVIOUS
    <2>3. \A at : \A i \in 1..4 : ladder(at)[i][1] => ladder(at)[i][2] # Valid
        BY <2>2, SubClear DEF Valid
    <2> HIDE DEF ladder
    <2>4. \A i \in 1..4 : ~ladder(a)[i][1] /\ ~ladder(c)[i][1]
        <3>1. \A at : FirstViolation(ladder(at)) = Valid => \A i \in 1..4 : ~ladder(at)[i][1]
            <4> TAKE at
            <4>1. DOMAIN ladder(at) = 1..4 /\ DOMAIN ladder(at) \subseteq Nat
                BY <2>2
            <4>2. \A i \in DOMAIN ladder(at) : ladder(at)[i][1] => ladder(at)[i][2] # Valid
                BY <2>3, <4>1
            <4> QED
                BY <4>1, <4>2, LadderClear
        <3> QED
            BY <2>1, <3>1
    <2>5. state_time_violation(s, a) = Valid /\ state_time_violation(s, c) = Valid
        BY <2>2, <2>4, SubHolds
    <2>6. /\ None \notin Int /\ DOMAIN s.stamps = 1..4 /\ \A k \in 1..4 : s.stamps[k] \in Number
        BY <1>2, InputsAssumption
    <2>7. \A k \in 1..4 : /\ s.stamps[k] \in Int /\ s.stamps[k] <= a + ClockSkew
                          /\ c - s.stamps[k] <= MaxStateAge + ClockSkew
        BY <2>5, <2>6, StateStampsMet
    <2>8. \A k \in 1..4 : /\ s.stamps[k] \in Int /\ s.stamps[k] <= b + ClockSkew
                          /\ b - s.stamps[k] <= MaxStateAge + ClockSkew
        BY <2>7, DurationsAssumption
    <2>9. state_time_violation(s, b) = Valid
        BY <2>6, <2>8, StateStampsPass
    <2>10. ~ladder(b)[3][1]
        BY <2>2, <2>9, SubAnswer
    <2>11. ladder(b)[1] = ladder(a)[1] /\ ladder(b)[2] = ladder(a)[2] /\ ladder(b)[4] = ladder(a)[4]
        BY <2>2
    <2>12. \A i \in 1..4 : ~ladder(b)[i][1]
        BY <2>4, <2>10, <2>11
    <2> QED
        BY <2>1, <2>2, <2>12, LadderPass
<1> QED
    BY <1>1, <1>2

(* What is admitted at two times is admitted between them.                 *)
LEMMA AdmittedBetween ==
    ASSUME Presented, NEW a \in Int, NEW b \in Int, NEW c \in Int, a <= b, b <= c,
           Verdict(a) = Valid, Verdict(c) = Valid
    PROVE  Verdict(b) = Valid
<1> DEFINE ladder(at) == admission_checks(lease, command, state, {}, at)
<1>1. /\ lease # None
      /\ \A i \in 1..14 : ~ladder(a)[i][1] /\ ~ladder(c)[i][1]
    BY AdmissionChecks DEF Verdict
<1>2. /\ lease_time_violation(lease, a) = Valid /\ lease_time_violation(lease, c) = Valid
      /\ current_state_violation(lease, state, a) = Valid /\ current_state_violation(lease, state, c) = Valid
    BY AdmissionFacts DEF Verdict
<1>3. lease_time_violation(lease, b) = Valid
    <2>1. None \notin Int /\ lease.issued_at \in Number /\ lease.expires_at \in Number
        BY InputsAssumption DEF Presented
    <2>2. lease.issued_at \in Int /\ lease.expires_at \in Int
        BY <1>2, <2>1, WindowMet
    <2> QED
        BY <1>2, <2>1, <2>2, WindowExact, DurationsAssumption
<1>4. current_state_violation(lease, state, b) = Valid
    BY <1>2, StateBetween DEF Presented
<1>5. \A at : /\ DOMAIN ladder(at) = 1..14
              /\ ladder(at)[7] = Sub(lease_time_violation(lease, at))
              /\ ladder(at)[13] = Sub(current_state_violation(lease, state, at))
    BY DEF admission_checks
<1>6. \A i \in (1..14) \ {7, 13} : ladder(b)[i] = ladder(a)[i]
    BY DEF admission_checks
<1> HIDE DEF ladder
<1>7. ~ladder(b)[7][1] /\ ~ladder(b)[13][1]
    BY <1>3, <1>4, <1>5, SubAnswer
<1>8. \A i \in 1..14 : ~ladder(b)[i][1]
    BY <1>1, <1>6, <1>7
<1>9. FirstViolation(ladder(b)) = Valid
    BY <1>5, <1>8, LadderPass
<1> QED
    BY <1>1, <1>9 DEF Verdict, validate_lease_for_command, ladder

(* The phase remembers the admissions so far.                              *)
PhaseTold ==
    /\ phase = "during" => Verdict(now) = Valid
    /\ phase = "after" => \E a, b \in Int : /\ a <= b /\ b <= now
                                            /\ Verdict(a) = Valid /\ Verdict(b) # Valid

(* The phase tells what was admitted so far, in every behaviour.           *)
LEMMA PhaseToldHolds == Spec => []PhaseTold
<1>1. Init => PhaseTold
    BY DEF Init, PhaseTold
<1>2. Presented /\ PhaseTold /\ [Tick]_vars => PhaseTold'
    <2> SUFFICES ASSUME Presented, PhaseTold, [Tick]_vars PROVE PhaseTold'
        OBVIOUS
    <2>1. CASE UNCHANGED vars
        BY <2>1 DEF vars, PhaseTold, Verdict
    <2>2. CASE Tick
        <3>1. now' = now + 1 /\ now \in Int /\ UNCHANGED <<lease, command, state>>
            BY <2>2 DEF Tick, Presented
        <3>2. \A at : Verdict(at)' = Verdict(at)
            BY <3>1 DEF Verdict
        <3>3. Verdict(now)' = Verdict(now + 1)
            BY <3>1 DEF Verdict
        <3>4. CASE Verdict(now + 1) = Valid
            <4>1. phase' = "during"
                BY <2>2, <3>4 DEF Tick
            <4> QED
                BY <3>3, <3>4, <4>1 DEF PhaseTold
        <3>5. CASE Verdict(now + 1) # Valid /\ phase = "during"
            <4>1. phase' = "after"
                BY <2>2, <3>5 DEF Tick
            <4>2. Verdict(now) = Valid /\ now + 1 \in Int /\ now <= now + 1
                BY <3>1, <3>5 DEF PhaseTold
            <4>3. \E a, b \in Int : /\ a <= b /\ b <= now'
                                    /\ Verdict(a)' = Valid /\ Verdict(b)' # Valid
                BY <3>1, <3>2, <3>5, <4>2
            <4> QED
                BY <4>1, <4>3 DEF PhaseTold
        <3>6. CASE Verdict(now + 1) # Valid /\ phase # "during"
            <4>1. phase' = phase
                BY <2>2, <3>6 DEF Tick
            <4>2. CASE phase = "after"
                <5>1. PICK a, b \in Int : /\ a <= b /\ b <= now /\ Verdict(a) = Valid /\ Verdict(b) # Valid
                    BY <4>2 DEF PhaseTold
                <5>2. b <= now'
                    BY <3>1, <5>1
                <5>3. \E x, y \in Int : /\ x <= y /\ y <= now'
                                        /\ Verdict(x)' = Valid /\ Verdict(y)' # Valid
                    BY <3>2, <5>1, <5>2
                <5> QED
                    BY <4>1, <4>2, <5>3 DEF PhaseTold
            <4>3. CASE phase # "after"
                BY <3>6, <4>1, <4>3 DEF PhaseTold
            <4> QED
                BY <4>2, <4>3
        <3> QED
            BY <3>4, <3>5, <3>6
    <2> QED
        BY <2>1, <2>2
<1> QED
    BY <1>1, <1>2, PresentedHolds, PTL DEF Spec

(* What has become inadmissible with time is never admitted again, for     *)
(* every lease, command and state, every skew and every age limit: all     *)
(* time checks of validate_lease_for_command describe one interval.        *)
THEOREM AdmissionIsOneIntervalHolds == Spec => AdmissionIsOneInterval
<1>1. ASSUME Presented, PhaseTold, [Tick]_vars PROVE [phase = "after" => phase' = "after"]_vars
    <2> SUFFICES ASSUME Tick, phase = "after" PROVE phase' = "after"
        BY <1>1 DEF vars
    <2>1. now \in Int /\ now + 1 \in Int /\ Presented
        BY <1>1 DEF Presented
    <2>2. PICK a, b \in Int : a <= b /\ b <= now /\ Verdict(a) = Valid /\ Verdict(b) # Valid
        BY <1>1 DEF PhaseTold
    <2>3. b <= now + 1
        BY <2>1, <2>2
    <2>4. Verdict(now + 1) # Valid
        BY <2>1, <2>2, <2>3, AdmittedBetween
    <2> QED
        BY <2>4 DEF Tick
<1> QED
    BY <1>1, PresentedHolds, PhaseToldHolds, PTL DEF Spec, AdmissionIsOneInterval

-----------------------------------------------------------------------------
(***************************************************************************)
(* The two edges side by side.  A lemma per rule says what each of the two *)
(* accepts; Acceptable is what they have in common; the last lemmas relate *)
(* it to the two verdicts.                                                 *)
(***************************************************************************)

(* The ladders of the Rust verifier answer like those of the gate: ALLOW,  *)
(* or the reason of a violated check before which none is.                 *)
LEMMA RustLadderAnswer ==
    ASSUME NEW checks, NEW n \in Nat, DOMAIN checks = 1..n
    PROVE  \/ /\ \A i \in 1..n : ~checks[i][1]
              /\ Rust!FirstViolation(checks) = Rust!Allow
           \/ \E i \in 1..n :
                 /\ checks[i][1]
                 /\ \A j \in 1..n : checks[j][1] => i <= j
                 /\ Rust!FirstViolation(checks) = checks[i][2]
<1> DEFINE bad == {i \in DOMAIN checks : checks[i][1]}
<1>1. CASE bad = {}
    BY <1>1 DEF Rust!FirstViolation
<1>2. CASE bad # {}
    <2> DEFINE first == CHOOSE i \in bad : \A j \in bad : i <= j
    <2>0. bad \in SUBSET Nat
        OBVIOUS
    <2>1. \E i \in bad : \A j \in bad : i <= j
        BY <1>2, <2>0, FirstPosition
    <2>2. first \in bad /\ \A j \in bad : first <= j
        BY <2>1
    <2>3. Rust!FirstViolation(checks) = checks[first][2]
        BY <1>2 DEF Rust!FirstViolation
    <2> QED
        BY <2>2, <2>3
<1> QED
    BY <1>1, <1>2

(* A rule none of whose checks has ALLOW or DEGRADE as its reason answers  *)
(* ALLOW exactly when nothing is violated, and never DEGRADE.              *)
LEMMA RustRule ==
    ASSUME NEW checks, NEW n \in Nat, DOMAIN checks = 1..n,
           \A i \in 1..n : checks[i][1] => checks[i][2] \notin {Rust!Allow, Rust!Degrade}
    PROVE  /\ Rust!FirstViolation(checks) # Rust!Degrade
           /\ Rust!FirstViolation(checks) = Rust!Allow <=> \A i \in 1..n : ~checks[i][1]
<1>1. Rust!Allow # Rust!Degrade
    BY DEF Rust!Allow, Rust!Degrade
<1> QED
    BY <1>1, RustLadderAnswer

(* A ladder that gives an answer which only its last check can give has no *)
(* other violated check.                                                   *)
LEMMA RustLadderLast ==
    ASSUME NEW checks, NEW n \in Nat, DOMAIN checks = 1..n, NEW R,
           Rust!FirstViolation(checks) \in R,
           \A i \in 1..n : i # n /\ checks[i][1] => checks[i][2] \notin R
    PROVE  \A i \in 1..n : i # n => ~checks[i][1]
<1>1. CASE \A i \in 1..n : ~checks[i][1]
    BY <1>1
<1>2. CASE \E i \in 1..n : checks[i][1]
    <2>1. PICK i \in 1..n : /\ checks[i][1]
                            /\ \A j \in 1..n : checks[j][1] => i <= j
                            /\ Rust!FirstViolation(checks) = checks[i][2]
        BY <1>2, RustLadderAnswer
    <2>2. i = n
        BY <2>1
    <2> QED
        BY <2>1, <2>2
<1> QED
    BY <1>1, <1>2

(* The same for the rules of the gate.                                     *)
LEMMA GateRule ==
    ASSUME NEW checks, NEW n \in Nat, DOMAIN checks = 1..n,
           \A i \in 1..n : checks[i][1] => checks[i][2] # Valid
    PROVE  FirstViolation(checks) = Valid <=> \A i \in 1..n : ~checks[i][1]
<1>1. DOMAIN checks \subseteq Nat
    OBVIOUS
<1> QED
    BY <1>1, LadderAnswer

-----------------------------------------------------------------------------
(* The rules of the Rust verifier, each by what it accepts.                *)

(* The digest rule accepts the leases of an accepted policy.               *)
LEMMA RustPolicyDigest ==
    ASSUME NEW l
    PROVE  /\ Rust!policy_digest_violation(l) # Rust!Degrade
           /\ Rust!policy_digest_violation(l) = Rust!Allow
                <=> l.policy # None /\ l.policy \in AcceptedPolicies
<1> DEFINE P == CHOOSE p \in AcceptedPolicies : TRUE
           c1 == None \in {l.policy, P}
           c2 == l.policy # P \/ P \notin AcceptedPolicies
           ladder == << <<c1, "DENY_POLICY_DIGEST_REQUIRED">>, <<c2, "DENY_POLICY_DIGEST_NOT_ACCEPTED">> >>
<1>1. Rust!policy_digest_violation(l) = Rust!FirstViolation(ladder)
    BY DEF Rust!policy_digest_violation
<1>2. ~c1 /\ ~c2 <=> l.policy # None /\ l.policy \in AcceptedPolicies
    BY ConfiguredAlikeAssumption
<1> HIDE DEF c1, c2
<1>3. DOMAIN ladder = 1..2 /\ ladder[1][1] = c1 /\ ladder[2][1] = c2
    OBVIOUS
<1>4. \A i \in 1..2 : ladder[i][2] \notin {Rust!Allow, Rust!Degrade}
    BY DEF Rust!Allow, Rust!Degrade
<1> HIDE DEF ladder
<1>5. (\A i \in 1..2 : ~ladder[i][1]) <=> ~c1 /\ ~c2
    BY <1>3
<1> QED
    BY <1>1, <1>2, <1>3, <1>4, <1>5, RustRule

(* The time rule of a command, as inequalities.                            *)
LEMMA RustCommandTime ==
    ASSUME NEW c, NEW at \in Int, c.created_at \in Int
    PROVE  /\ Rust!command_time_violation(c, at) # Rust!Degrade
           /\ Rust!command_time_violation(c, at) = Rust!Allow
                <=> c.created_at <= at + ClockSkew /\ at - c.created_at <= MaxCommandAge + ClockSkew
<1> DEFINE c1 == c.created_at > at + ClockSkew
           c2 == at - c.created_at > MaxCommandAge + ClockSkew
           ladder == << <<c1, "DENY_COMMAND_NOT_YET_VALID">>, <<c2, "DENY_STALE_COMMAND">> >>
<1>1. Rust!command_time_violation(c, at) = Rust!FirstViolation(ladder)
    BY DEF Rust!command_time_violation
<1>2. ~c1 /\ ~c2 <=> c.created_at <= at + ClockSkew /\ at - c.created_at <= MaxCommandAge + ClockSkew
    BY ConfiguredAlikeAssumption, DurationsAssumption
<1> HIDE DEF c1, c2
<1>3. DOMAIN ladder = 1..2 /\ ladder[1][1] = c1 /\ ladder[2][1] = c2
    OBVIOUS
<1>4. \A i \in 1..2 : ladder[i][2] \notin {Rust!Allow, Rust!Degrade}
    BY DEF Rust!Allow, Rust!Degrade
<1> HIDE DEF ladder
<1>5. (\A i \in 1..2 : ~ladder[i][1]) <=> ~c1 /\ ~c2
    BY <1>3
<1> QED
    BY <1>1, <1>2, <1>3, <1>4, <1>5, RustRule

(* The faults of a message's bytes, as the Rust verifier names them.       *)
LEMMA FaultNames ==
    ASSUME NEW m
    PROVE  /\ "DENY_UNKNOWN_ALGORITHM" \in Faults(m) <=> "LEASE_SIGNATURE_ALGORITHM_UNSUPPORTED" \in m.defects
           /\ "DENY_INVALID_SIGNATURE" \in Faults(m) <=> "INVALID_SIGNATURE" \in m.defects
           /\ "DENY_INVALID_COMMAND_SIGNATURE" \in Faults(m) <=> "COMMAND_SIGNATURE_INVALID" \in m.defects
           /\ "DENY_INVALID_STATE_SIGNATURE" \in Faults(m) <=> "STATE_SIGNATURE_INVALID" \in m.defects
           /\ Faults(m) \subseteq {"DENY_UNKNOWN_ALGORITHM", "DENY_INVALID_SIGNATURE",
                                   "DENY_INVALID_COMMAND_SIGNATURE", "DENY_INVALID_STATE_SIGNATURE"}
BY DEF Faults, SameFault

(* A command passes with a trusted agent, a good signature and in time.    *)
LEMMA RustCommandAuth ==
    ASSUME NEW c \in CommandInputs, NEW at \in Int, c.created_at \in Int
    PROVE  /\ Rust!command_auth_violation(EdgeCommand(c), at) # Rust!Degrade
           /\ Rust!command_auth_violation(EdgeCommand(c), at) = Rust!Allow
                <=> /\ c.ctx.agent = CommandAgent
                    /\ "COMMAND_SIGNATURE_INVALID" \notin c.defects
                    /\ c.created_at <= at + ClockSkew /\ at - c.created_at <= MaxCommandAge + ClockSkew
<1> DEFINE e == EdgeCommand(c)
           time == Rust!command_time_violation(e, at)
           late == time # Rust!Allow
           other == c.ctx.agent \notin {CommandAgent}
           d(reason) == reason \in e.defects
           ladder == <<
               <<d("DENY_COMMAND_AUTHENTICATED_AGENT_MISSING"), "DENY_COMMAND_AUTHENTICATED_AGENT_MISSING">>,
               <<d("DENY_COMMAND_AUTHENTICATED_AGENT_MISMATCH"), "DENY_COMMAND_AUTHENTICATED_AGENT_MISMATCH">>,
               <<other, "DENY_COMMAND_AGENT_KEY_NOT_TRUSTED">>,
               <<d("DENY_COMMAND_SIGNATURE_MISSING"), "DENY_COMMAND_SIGNATURE_MISSING">>,
               <<d("DENY_INVALID_COMMAND_SIGNATURE"), "DENY_INVALID_COMMAND_SIGNATURE">>,
               <<late, time>> >>
<1>1. e.ctx = c.ctx /\ e.created_at = c.created_at /\ e.defects = Faults(c)
    BY DEF EdgeCommand
<1> HIDE DEF e
<1>2. Rust!command_auth_violation(e, at) = Rust!FirstViolation(ladder)
    BY <1>1 DEF Rust!command_auth_violation, Rust!Defect, Rust!Sub
<1>3. /\ time # Rust!Degrade
      /\ time = Rust!Allow
           <=> c.created_at <= at + ClockSkew /\ at - c.created_at <= MaxCommandAge + ClockSkew
    BY <1>1, RustCommandTime
<1>4. /\ ~d("DENY_COMMAND_AUTHENTICATED_AGENT_MISSING") /\ ~d("DENY_COMMAND_AUTHENTICATED_AGENT_MISMATCH")
      /\ ~d("DENY_COMMAND_SIGNATURE_MISSING")
      /\ d("DENY_INVALID_COMMAND_SIGNATURE") <=> "COMMAND_SIGNATURE_INVALID" \in c.defects
    BY <1>1, FaultNames
<1>0. late => time \notin {Rust!Allow, Rust!Degrade}
    BY <1>3
<1> HIDE DEF time, other, d, late
<1>5. /\ DOMAIN ladder = 1..6
      /\ ladder[1][1] = d("DENY_COMMAND_AUTHENTICATED_AGENT_MISSING")
      /\ ladder[2][1] = d("DENY_COMMAND_AUTHENTICATED_AGENT_MISMATCH")
      /\ ladder[3][1] = other
      /\ ladder[4][1] = d("DENY_COMMAND_SIGNATURE_MISSING")
      /\ ladder[5][1] = d("DENY_INVALID_COMMAND_SIGNATURE")
      /\ ladder[6][1] = late
    OBVIOUS
<1>6. \A i \in 1..6 : ladder[i][1] => ladder[i][2] \notin {Rust!Allow, Rust!Degrade}
    BY <1>0 DEF Rust!Allow, Rust!Degrade
<1> HIDE DEF ladder
<1>7. (\A i \in 1..6 : ~ladder[i][1])
         <=> ~other /\ "COMMAND_SIGNATURE_INVALID" \notin c.defects /\ ~late
    BY <1>4, <1>5
<1>8. /\ Rust!command_auth_violation(e, at) # Rust!Degrade
      /\ Rust!command_auth_violation(e, at) = Rust!Allow
           <=> ~other /\ "COMMAND_SIGNATURE_INVALID" \notin c.defects /\ ~late
    BY <1>2, <1>5, <1>6, <1>7, RustRule
<1> QED
    BY <1>3, <1>8 DEF other, late, e

(* A local context passes with the edge's own key and a good signature.    *)
LEMMA RustStateAuth ==
    ASSUME NEW s \in StateInputs
    PROVE  /\ Rust!local_state_auth_violation(LocalContext(s)) # Rust!Degrade
           /\ Rust!local_state_auth_violation(LocalContext(s)) = Rust!Allow
                <=> s.edge = LocalEdge /\ "STATE_SIGNATURE_INVALID" \notin s.defects
<1> DEFINE e == LocalContext(s)
           other == s.edge \notin {LocalEdge}
           d(reason) == reason \in e.defects
           ladder == <<
               <<d("DENY_STATE_AUTHENTICATED_EDGE_MISSING"), "DENY_STATE_AUTHENTICATED_EDGE_MISSING">>,
               <<d("DENY_STATE_AUTHENTICATED_EDGE_MISMATCH"), "DENY_STATE_AUTHENTICATED_EDGE_MISMATCH">>,
               <<other, "DENY_STATE_KEY_NOT_TRUSTED">>,
               <<d("DENY_STATE_SIGNATURE_MISSING"), "DENY_STATE_SIGNATURE_MISSING">>,
               <<d("DENY_INVALID_STATE_SIGNATURE"), "DENY_INVALID_STATE_SIGNATURE">> >>
<1>1. e.edge = s.edge /\ e.defects = Faults(s)
    BY InputsAssumption DEF LocalContext
<1> HIDE DEF e
<1>2. Rust!local_state_auth_violation(e) = Rust!FirstViolation(ladder)
    BY <1>1 DEF Rust!local_state_auth_violation, Rust!Defect
<1>4. /\ ~d("DENY_STATE_AUTHENTICATED_EDGE_MISSING") /\ ~d("DENY_STATE_AUTHENTICATED_EDGE_MISMATCH")
      /\ ~d("DENY_STATE_SIGNATURE_MISSING")
      /\ d("DENY_INVALID_STATE_SIGNATURE") <=> "STATE_SIGNATURE_INVALID" \in s.defects
    BY <1>1, FaultNames
<1> HIDE DEF other, d
<1>5. /\ DOMAIN ladder = 1..5
      /\ ladder[1][1] = d("DENY_STATE_AUTHENTICATED_EDGE_MISSING")
      /\ ladder[2][1] = d("DENY_STATE_AUTHENTICATED_EDGE_MISMATCH")
      /\ ladder[3][1] = other
      /\ ladder[4][1] = d("DENY_STATE_SIGNATURE_MISSING")
      /\ ladder[5][1] = d("DENY_INVALID_STATE_SIGNATURE")
    OBVIOUS
<1>6. \A i \in 1..5 : ladder[i][1] => ladder[i][2] \notin {Rust!Allow, Rust!Degrade}
    BY DEF Rust!Allow, Rust!Degrade
<1> HIDE DEF ladder
<1>7. (\A i \in 1..5 : ~ladder[i][1]) <=> ~other /\ "STATE_SIGNATURE_INVALID" \notin s.defects
    BY <1>4, <1>5
<1>8. /\ Rust!local_state_auth_violation(e) # Rust!Degrade
      /\ Rust!local_state_auth_violation(e) = Rust!Allow
           <=> ~other /\ "STATE_SIGNATURE_INVALID" \notin s.defects
    BY <1>2, <1>5, <1>6, <1>7, RustRule
<1> QED
    BY <1>8 DEF other, e

(* The time rule of a lease, as inequalities: no skew ahead of the clock.  *)
LEMMA RustLeaseTime ==
    ASSUME NEW l, NEW at \in Int, l.issued_at \in Int, l.expires_at \in Int, l.not_before \in Number
    PROVE  /\ Rust!lease_time_violation(l, at) # Rust!Degrade
           /\ Rust!lease_time_violation(l, at) = Rust!Allow
                <=> /\ l.not_before # None => l.not_before <= at
                    /\ l.issued_at <= at /\ at < l.expires_at
                    /\ l.issued_at < l.expires_at /\ l.expires_at - l.issued_at <= MaxLeaseTtl
                    /\ at - l.issued_at <= MaxLeaseAge + ClockSkew
<1> DEFINE c1 == l.not_before # None /\ at < l.not_before
           c2 == at < l.issued_at
           c3 == at >= l.expires_at
           c4 == l.expires_at <= l.issued_at
           c5 == l.expires_at - l.issued_at > MaxLeaseTtl
           c6 == at - l.issued_at > MaxLeaseAge + ClockSkew
           ladder == << <<c1, "DENY_NOT_YET_VALID">>, <<c2, "DENY_NOT_YET_VALID">>,
                        <<c3, "DENY_EXPIRED_LEASE">>, <<c4, Rust!Malformed>>,
                        <<c5, "DENY_TTL_TOO_LONG">>, <<c6, "DENY_STALE_LEASE">> >>
<1>1. Rust!lease_time_violation(l, at) = Rust!FirstViolation(ladder)
    BY DEF Rust!lease_time_violation
<1>2. /\ ~c1 <=> (l.not_before # None => l.not_before <= at)
      /\ ~c2 <=> l.issued_at <= at
      /\ ~c3 <=> at < l.expires_at
      /\ ~c4 <=> l.issued_at < l.expires_at
      /\ ~c5 <=> l.expires_at - l.issued_at <= MaxLeaseTtl
      /\ ~c6 <=> at - l.issued_at <= MaxLeaseAge + ClockSkew
    BY DurationsAssumption DEF Number
<1> HIDE DEF c1, c2, c3, c4, c5, c6
<1>3. /\ DOMAIN ladder = 1..6
      /\ ladder[1][1] = c1 /\ ladder[2][1] = c2 /\ ladder[3][1] = c3
      /\ ladder[4][1] = c4 /\ ladder[5][1] = c5 /\ ladder[6][1] = c6
    OBVIOUS
<1>4. \A i \in 1..6 : ladder[i][2] \notin {Rust!Allow, Rust!Degrade}
    BY DEF Rust!Allow, Rust!Degrade, Rust!Malformed
<1> HIDE DEF ladder
<1>5. (\A i \in 1..6 : ~ladder[i][1]) <=> ~c1 /\ ~c2 /\ ~c3 /\ ~c4 /\ ~c5 /\ ~c6
    BY <1>3
<1>6. /\ Rust!lease_time_violation(l, at) # Rust!Degrade
      /\ Rust!lease_time_violation(l, at) = Rust!Allow <=> ~c1 /\ ~c2 /\ ~c3 /\ ~c4 /\ ~c5 /\ ~c6
    BY <1>1, <1>3, <1>4, <1>5, RustRule
<1> QED
    BY <1>2, <1>6

(* What both payload rules ask: only speed fields, non-negative and all    *)
(* the same, present exactly when the lease limits the speed, and then     *)
(* within its limit.                                                       *)
SpeedInOrder(max, p) ==
    /\ DOMAIN p \subseteq SupportedSpeedFields
    /\ \A f \in DOMAIN p : p[f] >= 0
    /\ \A f, g \in DOMAIN p : p[f] = p[g]
    /\ max = None <=> DOMAIN p = {}
    /\ max # None => \A f \in DOMAIN p : p[f] <= max

(* The form of a payload: speed fields only, non-negative, all the same.   *)
LEMMA RustPayload ==
    ASSUME NEW p, \A f \in DOMAIN p : p[f] \in Int
    PROVE  /\ Rust!command_payload_violation(p) # Rust!Degrade
           /\ Rust!command_payload_violation(p) = Rust!Allow
                <=> /\ DOMAIN p \subseteq SupportedSpeedFields
                    /\ \A f \in DOMAIN p : p[f] >= 0
                    /\ \A f, g \in DOMAIN p : p[f] = p[g]
<1> DEFINE F == {"max_speed_mps", "speed_mps"}
           c1 == DOMAIN p \ F # {}
           c2 == \E f \in DOMAIN p \cap F : ~Rust!finite_nonnegative(p[f])
           c3 == DOMAIN p = F /\ p["max_speed_mps"] # p["speed_mps"]
           ladder == << <<c1, "DENY_COMMAND_CONSTRAINT">>, <<c2, Rust!Malformed>>,
                        <<c3, "DENY_COMMAND_CONSTRAINT">> >>
<1>1. Rust!command_payload_violation(p) = Rust!FirstViolation(ladder)
    BY DEF Rust!command_payload_violation
<1>2. ~c1 <=> DOMAIN p \subseteq F
    OBVIOUS
<1>3. ~c1 /\ ~c2 <=> DOMAIN p \subseteq F /\ \A f \in DOMAIN p : p[f] >= 0
    BY DEF Rust!finite_nonnegative
<1>4. ASSUME DOMAIN p \subseteq F
      PROVE  ~c3 <=> \A f, g \in DOMAIN p : p[f] = p[g]
    <2>1. CASE DOMAIN p = F
        BY <2>1
    <2>2. CASE DOMAIN p # F
        <3>1. \A f, g \in DOMAIN p : f = g
            BY <1>4, <2>2
        <3> QED
            BY <2>2, <3>1
    <2> QED
        BY <2>1, <2>2
<1>5. ~c1 /\ ~c2 /\ ~c3 <=> /\ DOMAIN p \subseteq SupportedSpeedFields
                            /\ \A f \in DOMAIN p : p[f] >= 0
                            /\ \A f, g \in DOMAIN p : p[f] = p[g]
    <2> HIDE DEF c1, c2, c3
    <2> QED
        BY <1>2, <1>3, <1>4 DEF SupportedSpeedFields
<1> HIDE DEF c1, c2, c3
<1>6. DOMAIN ladder = 1..3 /\ ladder[1][1] = c1 /\ ladder[2][1] = c2 /\ ladder[3][1] = c3
    OBVIOUS
<1>7. \A i \in 1..3 : ladder[i][2] \notin {Rust!Allow, Rust!Degrade}
    BY DEF Rust!Allow, Rust!Degrade, Rust!Malformed
<1> HIDE DEF ladder
<1>8. (\A i \in 1..3 : ~ladder[i][1]) <=> ~c1 /\ ~c2 /\ ~c3
    BY <1>6
<1>9. /\ Rust!command_payload_violation(p) # Rust!Degrade
      /\ Rust!command_payload_violation(p) = Rust!Allow <=> ~c1 /\ ~c2 /\ ~c3
    BY <1>1, <1>6, <1>7, <1>8, RustRule
<1> QED
    BY <1>5, <1>9

(* The payload against the lease's limit.                                  *)
LEMMA RustSpeed ==
    ASSUME NEW l, NEW c, l.constraints.max_speed \in Number,
           \A f \in DOMAIN c.payload : c.payload[f] \in Int
    PROVE  /\ Rust!command_constraint_violation(l, c) # Rust!Degrade
           /\ Rust!command_constraint_violation(l, c) = Rust!Allow
                <=> SpeedInOrder(l.constraints.max_speed, c.payload)
<1> DEFINE p == c.payload
           max == l.constraints.max_speed
           form == Rust!command_payload_violation(p)
           speed == Rust!command_payload_speed(p)
           c1 == form # Rust!Allow
           c2 == (max = None) # (speed = None)
           c3 == max # None /\ speed # None /\ speed > max
           ladder == << <<c1, form>>, <<c2, "DENY_COMMAND_CONSTRAINT">>, <<c3, "DENY_COMMAND_CONSTRAINT">> >>
<1>1. Rust!command_constraint_violation(l, c) = Rust!FirstViolation(ladder)
    BY DEF Rust!command_constraint_violation, Rust!Sub
<1>2. /\ form # Rust!Degrade
      /\ ~c1 <=> /\ DOMAIN p \subseteq SupportedSpeedFields
                 /\ \A f \in DOMAIN p : p[f] >= 0
                 /\ \A f, g \in DOMAIN p : p[f] = p[g]
    BY RustPayload
<1>3. None \notin Int /\ max \in Int \cup {None}
    BY InputsAssumption DEF Number
<1> DEFINE raw == CASE "max_speed_mps" \in DOMAIN p -> p["max_speed_mps"]
                    [] "max_speed_mps" \notin DOMAIN p /\ "speed_mps" \in DOMAIN p -> p["speed_mps"]
                    [] OTHER -> None
<1>4. speed = raw
    BY DEF Rust!command_payload_speed
<1> HIDE DEF form, speed, c1, max, p
<1>5. /\ "max_speed_mps" \in DOMAIN p => raw = p["max_speed_mps"]
      /\ "max_speed_mps" \notin DOMAIN p /\ "speed_mps" \in DOMAIN p => raw = p["speed_mps"]
      /\ "max_speed_mps" \notin DOMAIN p /\ "speed_mps" \notin DOMAIN p => raw = None
    OBVIOUS
<1> HIDE DEF raw
<1>6. ASSUME ~c1 PROVE ~c2 /\ ~c3 <=> SpeedInOrder(max, p)
    <2>1. CASE DOMAIN p = {}
        <3>1. speed = None
            BY <1>4, <1>5, <2>1
        <3> QED
            BY <1>2, <1>3, <1>6, <2>1, <3>1 DEF SpeedInOrder
    <2>2. CASE DOMAIN p # {}
        <3>1. PICK f \in DOMAIN p : speed = p[f]
            BY <1>2, <1>4, <1>5, <1>6, <2>2 DEF SupportedSpeedFields
        <3>2. \A g \in DOMAIN p : p[g] = speed
            BY <1>2, <1>6, <3>1
        <3>3. speed \in Int /\ speed # None
            BY <1>3, <3>1 DEF p
        <3>4. ~c2 <=> max # None
            BY <3>3
        <3>5. max # None => (~c3 <=> speed <= max)
            BY <1>3, <3>3
        <3> HIDE DEF c2, c3
        <3> QED
            BY <1>2, <1>3, <1>6, <2>2, <3>1, <3>2, <3>4, <3>5 DEF SpeedInOrder
    <2> QED
        BY <2>1, <2>2
<1>7. c1 => ~SpeedInOrder(max, p)
    BY <1>2 DEF SpeedInOrder
<1>8. c1 => form \notin {Rust!Allow, Rust!Degrade}
    BY <1>2 DEF c1
<1> HIDE DEF c2, c3
<1>9. DOMAIN ladder = 1..3 /\ ladder[1][1] = c1 /\ ladder[2][1] = c2 /\ ladder[3][1] = c3
    OBVIOUS
<1>10. \A i \in 1..3 : ladder[i][1] => ladder[i][2] \notin {Rust!Allow, Rust!Degrade}
    BY <1>8 DEF Rust!Allow, Rust!Degrade
<1> HIDE DEF ladder
<1>11. (\A i \in 1..3 : ~ladder[i][1]) <=> ~c1 /\ ~c2 /\ ~c3
    BY <1>9
<1>12. /\ Rust!command_constraint_violation(l, c) # Rust!Degrade
       /\ Rust!command_constraint_violation(l, c) = Rust!Allow <=> ~c1 /\ ~c2 /\ ~c3
    BY <1>1, <1>9, <1>10, <1>11, RustRule
<1> QED
    BY <1>6, <1>7, <1>12 DEF max, p

(* The gate's payload rule asks for the same, of a lease whose limit is    *)
(* well formed.                                                            *)
LEMMA GateSpeed ==
    ASSUME NEW l, NEW p, l.constraints.max_speed \in Nat \cup {None},
           \A f \in DOMAIN p : p[f] \in Int
    PROVE  validate_command_payload_against_constraints(l, p) = Valid
             <=> SpeedInOrder(l.constraints.max_speed, p)
<1> DEFINE max == l.constraints.max_speed
           raw == CASE "max_speed_mps" \in DOMAIN p -> p["max_speed_mps"]
                    [] "max_speed_mps" \notin DOMAIN p /\ "speed_mps" \in DOMAIN p -> p["speed_mps"]
                    [] OTHER -> None
           c1 == DOMAIN p \ SupportedSpeedFields # {}
           c2 == ~finite_nonnegative(max)
           c3 == SupportedSpeedFields \subseteq DOMAIN p /\ p["max_speed_mps"] # p["speed_mps"]
           c4 == raw = None
           c5 == raw # None /\ ~finite_nonnegative(raw)
           c6 == raw # None /\ raw > max
           ladder == <<
               <<c1, "COMMAND_PAYLOAD_SCHEMA_VIOLATION">>, <<c2, "LEASE_CONSTRAINT_MALFORMED">>,
               <<c3, "COMMAND_SPEED_CONFLICT">>, <<c4, "COMMAND_SPEED_MISSING">>,
               <<c5, "COMMAND_SPEED_MALFORMED">>, <<c6, "COMMAND_SPEED_TOO_HIGH">> >>
<1>0. None \notin Int
    BY InputsAssumption
<1>1. CASE max = None
    <2>1. validate_command_payload_against_constraints(l, p) = Valid <=> DOMAIN p = {}
        BY <1>1 DEF validate_command_payload_against_constraints, Valid
    <2> QED
        BY <1>1, <2>1 DEF SpeedInOrder
<1>2. CASE max # None
    <2>1. validate_command_payload_against_constraints(l, p) = FirstViolation(ladder)
        BY <1>2 DEF validate_command_payload_against_constraints
    <2>2. /\ "max_speed_mps" \in DOMAIN p => raw = p["max_speed_mps"]
          /\ "max_speed_mps" \notin DOMAIN p /\ "speed_mps" \in DOMAIN p => raw = p["speed_mps"]
          /\ "max_speed_mps" \notin DOMAIN p /\ "speed_mps" \notin DOMAIN p => raw = None
        OBVIOUS
    <2> HIDE DEF raw, max
    <2>3. max \in Nat
        BY <1>2 DEF max
    <2>4. ~c2
        BY <2>3 DEF finite_nonnegative
    <2>6. ASSUME DOMAIN p \subseteq SupportedSpeedFields, DOMAIN p = {}
          PROVE  c4 /\ ~SpeedInOrder(max, p)
        BY <1>2, <2>2, <2>6 DEF SpeedInOrder
    <2>7. ASSUME DOMAIN p \subseteq SupportedSpeedFields, DOMAIN p # {}
          PROVE  ~c3 /\ ~c4 /\ ~c5 /\ ~c6 <=> SpeedInOrder(max, p)
        <3>1. PICK f \in DOMAIN p : raw = p[f]
            BY <2>2, <2>7 DEF SupportedSpeedFields
        <3>2. raw \in Int /\ raw # None
            BY <1>0, <3>1
        <3>3. ~c3 <=> \A g \in DOMAIN p : p[g] = raw
            <4>1. CASE DOMAIN p = SupportedSpeedFields
                BY <4>1, <3>1, <2>2 DEF SupportedSpeedFields
            <4>2. CASE DOMAIN p # SupportedSpeedFields
                <5>1. ~c3
                    BY <2>7, <4>2
                <5>2. \A g \in DOMAIN p : g = f
                    BY <2>7, <4>2 DEF SupportedSpeedFields
                <5> QED
                    BY <5>1, <5>2, <3>1
            <4> QED
                BY <4>1, <4>2
        <3>4. /\ ~c4
              /\ ~c5 <=> raw >= 0
              /\ ~c6 <=> raw <= max
            BY <2>3, <3>2 DEF finite_nonnegative
        <3> HIDE DEF c3, c4, c5, c6
        <3>5. ASSUME ~c3 PROVE ~c5 /\ ~c6 <=> SpeedInOrder(max, p)
            BY <1>2, <2>7, <3>1, <3>3, <3>4, <3>5 DEF SpeedInOrder
        <3>6. SpeedInOrder(max, p) => ~c3
            BY <3>1, <3>3 DEF SpeedInOrder
        <3> QED
            BY <3>4, <3>5, <3>6
    <2>8. ~c1 <=> DOMAIN p \subseteq SupportedSpeedFields
        OBVIOUS
    <2> HIDE DEF c1, c2, c3, c4, c5, c6
    <2>9. ~c1 /\ ~c2 /\ ~c3 /\ ~c4 /\ ~c5 /\ ~c6 <=> SpeedInOrder(max, p)
        BY <2>4, <2>6, <2>7, <2>8 DEF SpeedInOrder
    <2>10. /\ DOMAIN ladder = 1..6
           /\ ladder[1][1] = c1 /\ ladder[2][1] = c2 /\ ladder[3][1] = c3
           /\ ladder[4][1] = c4 /\ ladder[5][1] = c5 /\ ladder[6][1] = c6
        OBVIOUS
    <2>11. \A i \in 1..6 : ladder[i][2] # Valid
        BY DEF Valid
    <2> HIDE DEF ladder
    <2>12. (\A i \in 1..6 : ~ladder[i][1]) <=> ~c1 /\ ~c2 /\ ~c3 /\ ~c4 /\ ~c5 /\ ~c6
        BY <2>10
    <2>13. FirstViolation(ladder) = Valid <=> \A i \in 1..6 : ~ladder[i][1]
        BY <2>10, <2>11, GateRule
    <2> QED
        BY <2>1, <2>9, <2>12, <2>13 DEF max
<1> QED
    BY <1>1, <1>2

-----------------------------------------------------------------------------
(* The rules of the gate, each by what it accepts.                         *)

(* The checks of a message's bytes pass when it has none of the defects.   *)
LEMMA GateStatic ==
    ASSUME NEW m, NEW reasons, NEW n \in Nat, DOMAIN reasons = 1..n, \A i \in 1..n : reasons[i] # Valid
    PROVE  FirstViolation(Static(m, reasons)) = Valid <=> \A i \in 1..n : reasons[i] \notin m.defects
<1> DEFINE ladder == Static(m, reasons)
<1>1. DOMAIN ladder = 1..n
    BY DEF Static
<1>2. \A i \in 1..n : ladder[i] = <<reasons[i] \in m.defects, reasons[i]>>
    BY DEF Static
<1> HIDE DEF ladder
<1>3. ASSUME NEW i \in 1..n PROVE (ladder[i][1] <=> reasons[i] \in m.defects) /\ ladder[i][2] # Valid
    <2> DEFINE b == reasons[i] \in m.defects
    <2>1. ladder[i] = <<b, reasons[i]>>
        BY <1>2
    <2> HIDE DEF b
    <2>2. ladder[i][1] = b /\ ladder[i][2] = reasons[i]
        BY <2>1
    <2> QED
        BY <2>2 DEF b
<1>4. FirstViolation(ladder) = Valid <=> \A i \in 1..n : ~ladder[i][1]
    BY <1>1, <1>3, GateRule
<1> QED
    BY <1>3, <1>4 DEF ladder

(* The bytes of a command, of the faults that both know.                   *)
LEMMA GateCommandStatic ==
    ASSUME NEW c \in CommandInputs
    PROVE  command_static_violation(c) = Valid
             <=> c.ctx.agent = CommandAgent /\ "COMMAND_SIGNATURE_INVALID" \notin c.defects
<1> DEFINE reasons == <<
        "PROTOCOL_VERSION_UNSUPPORTED",
        "COMMAND_ID_MISSING",
        "COMMAND_NONCE_MISSING",
        "COMMAND_AUTHENTICATED_AGENT_MISSING",
        "COMMAND_AUTHENTICATED_AGENT_MISMATCH",
        "COMMAND_AGENT_KEY_NOT_TRUSTED",
        "COMMAND_SIGNATURE_ALGORITHM_MISSING",
        "COMMAND_SIGNATURE_ALGORITHM_UNSUPPORTED",
        "COMMAND_SIGNATURE_MISSING",
        "COMMAND_SIGNED_MATERIAL_TOO_LARGE",
        "COMMAND_SIGNATURE_INVALID" >>
<1>1. /\ DOMAIN reasons = 1..11
      /\ \A i \in 1..11 : reasons[i] # Valid
    BY DEF Valid
<1>2. \A i \in 1..11 : reasons[i] \in {"COMMAND_SIGNATURE_INVALID", "COMMAND_AGENT_KEY_NOT_TRUSTED"} => i \in {6, 11}
    OBVIOUS
<1>3. reasons[6] = "COMMAND_AGENT_KEY_NOT_TRUSTED" /\ reasons[11] = "COMMAND_SIGNATURE_INVALID"
    OBVIOUS
<1>4. command_static_violation(c) = FirstViolation(Static(c, reasons))
    BY DEF command_static_violation
<1> HIDE DEF reasons
<1>5. /\ c.defects \subseteq {"COMMAND_SIGNATURE_INVALID", "COMMAND_AGENT_KEY_NOT_TRUSTED"}
      /\ "COMMAND_AGENT_KEY_NOT_TRUSTED" \in c.defects <=> c.ctx.agent # CommandAgent
    BY SameMessagesAssumption
<1>6. FirstViolation(Static(c, reasons)) = Valid <=> \A i \in 1..11 : reasons[i] \notin c.defects
    BY <1>1, GateStatic
<1> QED
    BY <1>2, <1>3, <1>4, <1>5, <1>6

(* The bytes of a robot state, likewise.                                   *)
LEMMA GateStateAuth ==
    ASSUME NEW s \in StateInputs
    PROVE  state_auth_violation(s) = Valid
             <=> "EDGE_STATE_KEY_NOT_TRUSTED" \notin s.defects /\ "STATE_SIGNATURE_INVALID" \notin s.defects
<1> DEFINE reasons == <<
        "STATE_REQUIRED_FIELD_MISSING",
        "STATE_SIGNATURE_ALGORITHM_MISSING",
        "STATE_SIGNATURE_ALGORITHM_UNSUPPORTED",
        "STATE_AUTHENTICATED_EDGE_MISSING",
        "STATE_AUTHENTICATED_EDGE_MISMATCH",
        "STATE_SIGNATURE_MISSING",
        "EDGE_STATE_KEY_NOT_TRUSTED",
        "STATE_SIGNED_MATERIAL_TOO_LARGE",
        "STATE_SIGNATURE_INVALID" >>
<1>1. /\ DOMAIN reasons = 1..9
      /\ \A i \in 1..9 : reasons[i] # Valid
    BY DEF Valid
<1>2. \A i \in 1..9 : reasons[i] \in {"STATE_SIGNATURE_INVALID", "EDGE_STATE_KEY_NOT_TRUSTED"} => i \in {7, 9}
    OBVIOUS
<1>3. reasons[7] = "EDGE_STATE_KEY_NOT_TRUSTED" /\ reasons[9] = "STATE_SIGNATURE_INVALID"
    OBVIOUS
<1>4. state_auth_violation(s) = FirstViolation(Static(s, reasons))
    BY DEF state_auth_violation
<1> HIDE DEF reasons
<1>5. s.defects \subseteq {"STATE_SIGNATURE_INVALID", "EDGE_STATE_KEY_NOT_TRUSTED"}
    BY SameMessagesAssumption
<1>6. FirstViolation(Static(s, reasons)) = Valid <=> \A i \in 1..9 : reasons[i] \notin s.defects
    BY <1>1, GateStatic
<1> QED
    BY <1>2, <1>3, <1>4, <1>5, <1>6

(* The bytes of a lease, likewise.                                         *)
LEMMA GateLeaseSignature ==
    ASSUME NEW l \in LeaseInputs
    PROVE  lease_signature_violation(l) = Valid
             <=> /\ "LEASE_SIGNATURE_ALGORITHM_UNSUPPORTED" \notin l.defects
                 /\ "INVALID_SIGNATURE" \notin l.defects
<1> DEFINE reasons == <<
        "LEASE_SIGNATURE_ALGORITHM_MISSING",
        "LEASE_SIGNATURE_ALGORITHM_UNSUPPORTED",
        "LEASE_SIGNED_MATERIAL_TOO_LARGE",
        "INVALID_SIGNATURE" >>
<1>1. /\ DOMAIN reasons = 1..4
      /\ \A i \in 1..4 : reasons[i] # Valid
    BY DEF Valid
<1>2. \A i \in 1..4 : reasons[i] \in {"LEASE_SIGNATURE_ALGORITHM_UNSUPPORTED", "INVALID_SIGNATURE"} => i \in {2, 4}
    OBVIOUS
<1>3. reasons[2] = "LEASE_SIGNATURE_ALGORITHM_UNSUPPORTED" /\ reasons[4] = "INVALID_SIGNATURE"
    OBVIOUS
<1>4. lease_signature_violation(l) = FirstViolation(Static(l, reasons))
    BY DEF lease_signature_violation
<1> HIDE DEF reasons
<1>5. l.defects \subseteq {"LEASE_SIGNATURE_ALGORITHM_UNSUPPORTED", "INVALID_SIGNATURE"}
    BY SameMessagesAssumption
<1>6. FirstViolation(Static(l, reasons)) = Valid <=> \A i \in 1..4 : reasons[i] \notin l.defects
    BY <1>1, GateStatic
<1> QED
    BY <1>2, <1>3, <1>4, <1>5, <1>6

(* A command passes with a trusted agent, a good signature and in time.    *)
LEMMA GateCommandAuth ==
    ASSUME NEW c \in CommandInputs, NEW at \in Int
    PROVE  command_auth_violation(c, at) = Valid
             <=> /\ c.ctx.agent = CommandAgent
                 /\ "COMMAND_SIGNATURE_INVALID" \notin c.defects
                 /\ c.created_at \in Int
                 /\ c.created_at <= at + ClockSkew /\ at - c.created_at <= MaxCommandAge + ClockSkew
<1> DEFINE r == [invalid |-> "COMMAND_TIMESTAMP_INVALID",
                 early   |-> "COMMAND_NOT_YET_VALID",
                 stale   |-> "COMMAND_STALE"]
           static == command_static_violation(c)
           time == command_time_violation(c, at)
           ladder == <<Sub(static), Sub(time)>>
<1>1. command_auth_violation(c, at) = FirstViolation(ladder)
    BY DEF command_auth_violation
<1>2. /\ None \notin Int /\ c.created_at \in Number /\ MaxCommandAge \in Nat
      /\ r.invalid # Valid /\ r.early # Valid /\ r.stale # Valid
    BY InputsAssumption, SameMessagesAssumption, ConfiguredAlikeAssumption DEF Number, Valid
<1>3. time = StampViolation(c.created_at, at, MaxCommandAge, r)
    BY DEF command_time_violation
<1> HIDE DEF time, static, r
<1>4. time = Valid => /\ c.created_at \in Int
                      /\ c.created_at <= at + ClockSkew /\ at - c.created_at <= MaxCommandAge + ClockSkew
    BY <1>2, <1>3, StampMet
<1>5. /\ c.created_at \in Int
      /\ c.created_at <= at + ClockSkew /\ at - c.created_at <= MaxCommandAge + ClockSkew
      => time = Valid
    BY <1>2, <1>3, StampPasses
<1>6. DOMAIN ladder = 1..2 /\ ladder[1] = Sub(static) /\ ladder[2] = Sub(time)
    OBVIOUS
<1> HIDE DEF ladder
<1>7. \A i \in 1..2 : ladder[i][1] => ladder[i][2] # Valid
    BY <1>6, SubClear
<1>8. FirstViolation(ladder) = Valid <=> \A i \in 1..2 : ~ladder[i][1]
    BY <1>6, <1>7, GateRule
<1>9. (ladder[1][1] <=> static # Valid) /\ (ladder[2][1] <=> time # Valid)
    BY <1>6, SubAnswer
<1>10. FirstViolation(ladder) = Valid <=> static = Valid /\ time = Valid
    BY <1>8, <1>9
<1> QED
    BY <1>1, <1>4, <1>5, <1>10, GateCommandStatic DEF static

(* The provenance rule accepts the leases of an accepted policy.           *)
LEMMA GatePolicy ==
    ASSUME NEW l
    PROVE  lease_policy_provenance_violation(l) = Valid <=> l.policy # None /\ l.policy \in AcceptedPolicies
<1> DEFINE c1 == AcceptedPolicies = {}
           c2 == l.policy = None
           c3 == l.policy \notin AcceptedPolicies
           ladder == << <<c1, "POLICY_PROVENANCE_REQUIRED">>, <<c2, "LEASE_POLICY_PROVENANCE_REQUIRED">>,
                        <<c3, "LEASE_POLICY_NOT_ACCEPTED">> >>
<1>1. lease_policy_provenance_violation(l) = FirstViolation(ladder)
    BY DEF lease_policy_provenance_violation
<1>2. ~c1 /\ ~c2 /\ ~c3 <=> l.policy # None /\ l.policy \in AcceptedPolicies
    OBVIOUS
<1> HIDE DEF c1, c2, c3
<1>3. DOMAIN ladder = 1..3 /\ ladder[1][1] = c1 /\ ladder[2][1] = c2 /\ ladder[3][1] = c3
    OBVIOUS
<1>4. \A i \in 1..3 : ladder[i][2] # Valid
    BY DEF Valid
<1> HIDE DEF ladder
<1>5. (\A i \in 1..3 : ~ladder[i][1]) <=> ~c1 /\ ~c2 /\ ~c3
    BY <1>3
<1> QED
    BY <1>1, <1>2, <1>3, <1>4, <1>5, GateRule

(* The scope rule accepts what the Rust verifier's accepts.                *)
LEMMA GateScope ==
    ASSUME NEW l
    PROVE  capability_scope_violation(l) = Valid <=> Rust!capability_allowed_for_issuer(l)
<1> DEFINE c1 == AcceptedCapabilities = {}
           c2 == l.ctx.capability \notin AcceptedCapabilities
           c3 == \/ l.issuer \notin DOMAIN IssuerScopes
                 \/ l.ctx.capability \notin IssuerScopes[l.issuer]
           ladder == << <<c1, "CAPABILITY_SCOPE_REQUIRED">>, <<c2, "CAPABILITY_NOT_GRANTED">>,
                        <<c3, "CAPABILITY_NOT_GRANTED">> >>
<1>1. capability_scope_violation(l) = FirstViolation(ladder)
    BY DEF capability_scope_violation
<1>2. ~c1 /\ ~c2 /\ ~c3 <=> Rust!capability_allowed_for_issuer(l)
    BY DEF Rust!capability_allowed_for_issuer
<1> HIDE DEF c1, c2, c3
<1>3. DOMAIN ladder = 1..3 /\ ladder[1][1] = c1 /\ ladder[2][1] = c2 /\ ladder[3][1] = c3
    OBVIOUS
<1>4. \A i \in 1..3 : ladder[i][2] # Valid
    BY DEF Valid
<1> HIDE DEF ladder
<1>5. (\A i \in 1..3 : ~ladder[i][1]) <=> ~c1 /\ ~c2 /\ ~c3
    BY <1>3
<1> QED
    BY <1>1, <1>2, <1>3, <1>4, <1>5, GateRule

(* The requirement rule accepts a lease that has all that is required.     *)
LEMMA GateRequirements ==
    ASSUME NEW l, l.ctx.capability \in DOMAIN Requirements
    PROVE  capability_constraint_requirement_violation(l) = Valid
             <=> ~capability_constraints_missing(l.constraints, Requirements[l.ctx.capability])
<1> DEFINE c1 == ~(l.ctx.capability \in DOMAIN Requirements)
           c2 == /\ l.ctx.capability \in DOMAIN Requirements
                 /\ capability_constraints_missing(l.constraints, Requirements[l.ctx.capability])
           ladder == << <<c1, "CAPABILITY_CONSTRAINT_REQUIREMENTS_REQUIRED">>,
                        <<c2, "LEASE_CONSTRAINTS_MISSING">> >>
<1>1. capability_constraint_requirement_violation(l) = FirstViolation(ladder)
    BY DEF capability_constraint_requirement_violation
<1>2. ~c1 /\ ~c2 <=> ~capability_constraints_missing(l.constraints, Requirements[l.ctx.capability])
    OBVIOUS
<1> HIDE DEF c1, c2
<1>3. DOMAIN ladder = 1..2 /\ ladder[1][1] = c1 /\ ladder[2][1] = c2
    OBVIOUS
<1>4. \A i \in 1..2 : ladder[i][2] # Valid
    BY DEF Valid
<1> HIDE DEF ladder
<1>5. (\A i \in 1..2 : ~ladder[i][1]) <=> ~c1 /\ ~c2
    BY <1>3
<1> QED
    BY <1>1, <1>2, <1>3, <1>4, <1>5, GateRule

(* The bound rule accepts a lease within the bounds.                       *)
LEMMA GateBounds ==
    ASSUME NEW l, l.ctx.capability \in DOMAIN Bounds
    PROVE  capability_constraint_bound_violation(l) = Valid
             <=> ~capability_constraints_exceed_bounds(l.constraints, Bounds[l.ctx.capability])
<1> DEFINE c1 == ~(l.ctx.capability \in DOMAIN Bounds)
           c2 == /\ l.ctx.capability \in DOMAIN Bounds
                 /\ capability_constraints_exceed_bounds(l.constraints, Bounds[l.ctx.capability])
           ladder == << <<c1, "CAPABILITY_CONSTRAINT_BOUNDS_REQUIRED">>,
                        <<c2, "LEASE_CONSTRAINTS_EXCEED_POLICY">> >>
<1>1. capability_constraint_bound_violation(l) = FirstViolation(ladder)
    BY DEF capability_constraint_bound_violation
<1>2. ~c1 /\ ~c2 <=> ~capability_constraints_exceed_bounds(l.constraints, Bounds[l.ctx.capability])
    OBVIOUS
<1> HIDE DEF c1, c2
<1>3. DOMAIN ladder = 1..2 /\ ladder[1][1] = c1 /\ ladder[2][1] = c2
    OBVIOUS
<1>4. \A i \in 1..2 : ladder[i][2] # Valid
    BY DEF Valid
<1> HIDE DEF ladder
<1>5. (\A i \in 1..2 : ~ladder[i][1]) <=> ~c1 /\ ~c2
    BY <1>3
<1> QED
    BY <1>1, <1>2, <1>3, <1>4, <1>5, GateRule

-----------------------------------------------------------------------------
(* The robot state against the lease.                                      *)

(* The network is connected, and its measurements are well formed.         *)
Connected(n) ==
    /\ ~network_state_malformed(n)
    /\ n.profile \notin {"unknown", "partition"}
    /\ n.attached

(* The network is worse than a threshold of the lease.                     *)
OverThreshold(c, n) ==
    \/ c.max_latency # None /\ n.latency > c.max_latency
    \/ c.max_loss # None /\ n.loss > c.max_loss
    \/ c.min_uplink # None /\ n.uplink < c.min_uplink

(* The state is of the robot, edge and mission of the lease, inside its    *)
(* geofence, and connected.                                                *)
Placed(l, s) ==
    /\ s.robot = l.ctx.robot /\ s.edge = l.ctx.edge /\ s.mission = l.ctx.mission
    /\ ~geofence_violated(l.constraints, s.geofence)
    /\ Connected(s.network)

(* The authority rule of the network accepts one that is connected.        *)
LEMMA GateNetwork ==
    ASSUME NEW n
    PROVE  network_state_authority_violation(n) = Valid
             <=> n.profile \notin {"unknown", "partition"} /\ n.attached
<1> DEFINE c1 == n.profile = "unknown"
           c2 == n.profile = "partition"
           c3 == ~n.attached
           ladder == << <<c1, "NETWORK_STATE_UNKNOWN">>, <<c2, "NETWORK_DETACHED">>, <<c3, "NETWORK_DETACHED">> >>
<1>1. network_state_authority_violation(n) = FirstViolation(ladder)
    BY DEF network_state_authority_violation
<1>2. ~c1 /\ ~c2 /\ ~c3 <=> n.profile \notin {"unknown", "partition"} /\ n.attached
    BY Zenon
<1> HIDE DEF c1, c2, c3
<1>3. DOMAIN ladder = 1..3 /\ ladder[1][1] = c1 /\ ladder[2][1] = c2 /\ ladder[3][1] = c3
    OBVIOUS
<1>4. \A i \in 1..3 : ladder[i][2] # Valid
    BY DEF Valid
<1> HIDE DEF ladder
<1>5. (\A i \in 1..3 : ~ladder[i][1]) <=> ~c1 /\ ~c2 /\ ~c3
    BY <1>3
<1> QED
    BY <1>1, <1>2, <1>3, <1>4, <1>5, GateRule

(* The gate accepts a state that is placed and within the thresholds; of   *)
(* one that is placed it only ever says which threshold is passed.         *)
LEMMA GatePlaced ==
    ASSUME NEW l, NEW s
    PROVE  /\ validate_lease_against_state(l, s) = Valid
                <=> Placed(l, s) /\ ~OverThreshold(l.constraints, s.network)
           /\ Placed(l, s) /\ OverThreshold(l.constraints, s.network)
                => validate_lease_against_state(l, s) \in ThresholdReasons
<1> DEFINE c == l.constraints
           n == s.network
           authority == network_state_authority_violation(n)
           c1 == \/ s.robot # l.ctx.robot
                 \/ s.edge # l.ctx.edge
                 \/ s.mission # l.ctx.mission
           c2 == geofence_violated(c, s.geofence)
           c3 == network_state_malformed(n)
           c4 == authority # Valid
           c5 == c.max_latency # None /\ n.latency > c.max_latency
           c6 == c.max_loss # None /\ n.loss > c.max_loss
           c7 == c.min_uplink # None /\ n.uplink < c.min_uplink
           ladder == <<
               <<c1, "LEASE_STATE_MISMATCH">>, <<c2, "GEOFENCE_CONSTRAINT_VIOLATED">>,
               <<c3, "NETWORK_STATE_MALFORMED">>, <<c4, authority>>,
               <<c5, "NETWORK_LATENCY_TOO_HIGH">>, <<c6, "NETWORK_PACKET_LOSS_TOO_HIGH">>,
               <<c7, "NETWORK_UPLINK_TOO_LOW">> >>
<1>1. validate_lease_against_state(l, s) = FirstViolation(ladder)
    BY DEF validate_lease_against_state, Sub
<1>2. ~c4 <=> n.profile \notin {"unknown", "partition"} /\ n.attached
    BY GateNetwork
<1>3. /\ ~c1 /\ ~c2 /\ ~c3 /\ ~c4 <=> Placed(l, s)
      /\ c5 \/ c6 \/ c7 <=> OverThreshold(c, n)
    <2>1. ~c1 <=> s.robot = l.ctx.robot /\ s.edge = l.ctx.edge /\ s.mission = l.ctx.mission
        OBVIOUS
    <2> HIDE DEF c1, c4
    <2> QED
        BY <1>2, <2>1, Zenon DEF Placed, Connected, OverThreshold
<1>4. c4 => authority # Valid
    OBVIOUS
<1> HIDE DEF c1, c2, c3, c4, c5, c6, c7, authority
<1>5. /\ DOMAIN ladder = 1..7
      /\ ladder[1][1] = c1 /\ ladder[2][1] = c2 /\ ladder[3][1] = c3 /\ ladder[4][1] = c4
      /\ ladder[5][1] = c5 /\ ladder[6][1] = c6 /\ ladder[7][1] = c7
    OBVIOUS
<1>6. \A i \in 1..7 : ladder[i][1] => ladder[i][2] # Valid
    BY <1>4 DEF Valid
<1>7. \A i \in 5..7 : ladder[i][2] \in ThresholdReasons
    BY DEF ThresholdReasons
<1> HIDE DEF ladder
<1>8. (\A i \in 1..7 : ~ladder[i][1]) <=> ~c1 /\ ~c2 /\ ~c3 /\ ~c4 /\ ~c5 /\ ~c6 /\ ~c7
    BY <1>5
<1>9. FirstViolation(ladder) = Valid <=> \A i \in 1..7 : ~ladder[i][1]
    BY <1>5, <1>6, GateRule
<1>10. validate_lease_against_state(l, s) = Valid <=> Placed(l, s) /\ ~OverThreshold(c, n)
    BY <1>1, <1>3, <1>8, <1>9
<1>11. ASSUME Placed(l, s), OverThreshold(c, n) PROVE FirstViolation(ladder) \in ThresholdReasons
    <2>1. \E k \in 1..7 : ladder[k][1]
        BY <1>3, <1>5, <1>11
    <2>2. PICK i \in 1..7 : ladder[i][1] /\ FirstViolation(ladder) = ladder[i][2]
        BY <1>5, <2>1, LadderFirst
    <2>3. ~ladder[1][1] /\ ~ladder[2][1] /\ ~ladder[3][1] /\ ~ladder[4][1]
        BY <1>3, <1>5, <1>11
    <2>4. i \in 5..7
        BY <2>2, <2>3
    <2> QED
        BY <1>7, <2>2, <2>4
<1> QED
    BY <1>1, <1>10, <1>11

(* The envelope of a lease has the lease's own fields, and its fallback    *)
(* only when that is written out.                                          *)
LEMMA EnvelopeFields ==
    ASSUME NEW l
    PROVE  LET e == CapabilityLeaseEnvelope(l)
           IN  /\ e.lease_id = l.lease_id /\ e.issuer = l.issuer /\ e.ctx = l.ctx /\ e.policy = l.policy
               /\ e.issued_at = l.issued_at /\ e.expires_at = l.expires_at /\ e.not_before = l.not_before
               /\ e.defects = Faults(l)
               /\ e.constraints.geofence_id = l.constraints.geofence_id
               /\ e.constraints.max_latency = l.constraints.max_latency
               /\ e.constraints.max_loss = l.constraints.max_loss
               /\ e.constraints.min_uplink = l.constraints.min_uplink
               /\ e.constraints.max_speed = l.constraints.max_speed
               /\ e.constraints.network_violation_action = l.constraints.network_violation_action
               /\ e.constraints.fallback = IF l.constraints.fallback_set THEN l.constraints.fallback ELSE None
BY DEF CapabilityLeaseEnvelope

(* The local context has the state's own fields.                           *)
LEMMA ContextFields ==
    ASSUME NEW s \in StateInputs
    PROVE  LET e == LocalContext(s)
           IN  /\ e # None
               /\ e.robot = s.robot /\ e.edge = s.edge /\ e.mission = s.mission /\ e.defects = Faults(s)
               /\ e.observed_at = s.stamps[2]
               /\ e.network.observed_at = s.stamps[3]
               /\ e.network.profile = s.network.profile /\ e.network.attached = s.network.attached
               /\ e.network.latency = s.network.latency /\ e.network.loss = s.network.loss
               /\ e.network.uplink = s.network.uplink
               /\ e.geofence.verified_at = s.stamps[4]
               /\ e.geofence.id = s.geofence.id /\ e.geofence.inside = s.geofence.inside
<1>1. s # None /\ LocalContext(s) # None
    BY InputsAssumption, SameMessagesAssumption
<1> QED
    BY <1>1 DEF LocalContext

(* The Rust verifier allows a connected network within the thresholds, and *)
(* degrades only one that is connected but past a threshold.               *)
LEMMA RustNetwork ==
    ASSUME NEW l \in LeaseInputs, NEW s \in StateInputs
    PROVE  LET net == Rust!network_policy_violation(CapabilityLeaseEnvelope(l), LocalContext(s))
               up  == s.network.profile \notin {"unknown", "partition"} /\ s.network.attached
           IN  /\ net = Rust!Allow <=> up /\ ~OverThreshold(l.constraints, s.network)
               /\ net = Rust!Degrade => up /\ OverThreshold(l.constraints, s.network)
<1> DEFINE e == CapabilityLeaseEnvelope(l)
           x == LocalContext(s)
           net == Rust!network_policy_violation(e, x)
           up == s.network.profile \notin {"unknown", "partition"} /\ s.network.attached
           over == OverThreshold(l.constraints, s.network)
           hard == x.network.profile \in {"unknown", "partition"} \/ ~x.network.attached
           thr == \/ e.constraints.max_latency # None /\ x.network.latency > e.constraints.max_latency
                  \/ e.constraints.max_loss # None /\ x.network.loss > e.constraints.max_loss
                  \/ e.constraints.min_uplink # None /\ x.network.uplink < e.constraints.min_uplink
           none == e.constraints.fallback = None
           deg == e.constraints.network_violation_action = "degrade"
<1>1. hard <=> ~up
    BY ContextFields, Zenon
<1>2. thr <=> over
    BY ContextFields, EnvelopeFields DEF OverThreshold
<1>3. net = CASE ~hard /\ ~thr -> Rust!Allow
              [] (hard \/ thr) /\ none -> Rust!Malformed
              [] ~hard /\ thr /\ ~none /\ deg -> Rust!Degrade
              [] OTHER -> "DENY_NETWORK_POLICY"
    BY DEF Rust!network_policy_violation
<1> HIDE DEF hard, thr, none, deg, net, up, over
<1>4. /\ net = Rust!Allow <=> ~hard /\ ~thr
      /\ net = Rust!Degrade => ~hard /\ thr
    BY <1>3 DEF Rust!Allow, Rust!Malformed, Rust!Degrade
<1>5. /\ net = Rust!Allow <=> up /\ ~over
      /\ net = Rust!Degrade => up /\ over
    BY <1>1, <1>2, <1>4
<1> QED
    BY <1>5 DEF net, up, over, e, x

(* Both ask a lease for the same constraints.                              *)
LEMMA SameRequirements ==
    ASSUME NEW l \in LeaseInputs, l.ctx.capability \in DOMAIN Requirements
    PROVE  Rust!required_constraints_missing(CapabilityLeaseEnvelope(l))
             <=> capability_constraints_missing(l.constraints, Requirements[l.ctx.capability])
<1> DEFINE e == CapabilityLeaseEnvelope(l)
           require == Requirements[l.ctx.capability]
<1>1. /\ e.constraints.fallback = None <=> ~l.constraints.fallback_set
      /\ e.ctx = l.ctx
      /\ e.constraints.geofence_id = l.constraints.geofence_id
      /\ {e.constraints.max_latency, e.constraints.max_loss, e.constraints.min_uplink}
            = {l.constraints.max_latency, l.constraints.max_loss, l.constraints.min_uplink}
      /\ e.constraints.max_speed = l.constraints.max_speed
    BY EnvelopeFields, SameMessagesAssumption
<1> HIDE DEF e
<1>2. Rust!required_constraints_missing(e)
         <=> capability_constraints_missing(l.constraints, require)
    BY <1>1, Zenon DEF Rust!required_constraints_missing, capability_constraints_missing
<1> QED
    BY <1>2 DEF e

(* Both hold a lease against the same bounds, but the Rust verifier wants  *)
(* the fallback written out and knows one constraint more.                 *)
LEMMA SameBounds ==
    ASSUME NEW l \in LeaseInputs, l.ctx.capability \in DOMAIN Bounds
    PROVE  LET b == Bounds[l.ctx.capability]
           IN  ~Rust!lease_constraints_exceed_policy(CapabilityLeaseEnvelope(l))
                 <=> /\ ~capability_constraints_exceed_bounds(l.constraints, b)
                     /\ ~(b.fallback # None /\ ~l.constraints.fallback_set)
                     /\ l.constraints.network_violation_action \in {None, b.network_violation_action}
<1> DEFINE e == CapabilityLeaseEnvelope(l)
           b == Bounds[l.ctx.capability]
           c == l.constraints
           apart == \/ b.geofence_id # None /\ c.geofence_id # b.geofence_id
                    \/ max_field_exceeds_policy(c.max_latency, b.max_latency)
                    \/ max_field_exceeds_policy(c.max_loss, b.max_loss)
                    \/ min_field_exceeds_policy(c.min_uplink, b.min_uplink)
                    \/ max_field_exceeds_policy(c.max_speed, b.max_speed)
           back == IF b.fallback = None THEN c.fallback_set ELSE c.fallback # b.fallback
           action == c.network_violation_action \notin {None, b.network_violation_action}
<1>1. /\ e.ctx = l.ctx
      /\ e.constraints.geofence_id = c.geofence_id
      /\ e.constraints.max_latency = c.max_latency
      /\ e.constraints.max_loss = c.max_loss
      /\ e.constraints.min_uplink = c.min_uplink
      /\ e.constraints.max_speed = c.max_speed
      /\ e.constraints.network_violation_action = c.network_violation_action
    BY EnvelopeFields
<1>2. e.constraints.fallback # b.fallback <=> back \/ (b.fallback # None /\ ~c.fallback_set)
    BY EnvelopeFields, SameMessagesAssumption
<1> HIDE DEF e
<1>3. Rust!lease_constraints_exceed_policy(e) <=> apart \/ e.constraints.fallback # b.fallback \/ action
    BY <1>1, Zenon DEF Rust!lease_constraints_exceed_policy, Rust!max_field_exceeds_policy,
        Rust!min_field_exceeds_policy, Rust!option_field_exceeds_policy,
        max_field_exceeds_policy, min_field_exceeds_policy
<1>4. capability_constraints_exceed_bounds(c, b) <=> apart \/ back
    BY Zenon DEF capability_constraints_exceed_bounds
<1> HIDE DEF apart, back
<1>5. ~Rust!lease_constraints_exceed_policy(e)
         <=> /\ ~capability_constraints_exceed_bounds(c, b)
             /\ ~(b.fallback # None /\ ~c.fallback_set)
             /\ ~action
    BY <1>2, <1>3, <1>4
<1> QED
    BY <1>5 DEF e, action

-----------------------------------------------------------------------------
(* The form of the input.                                                  *)

(* The timestamps that the Rust verifier reads are there.                  *)
Timed(l, c, s) ==
    /\ l.issued_at \in Nat /\ l.expires_at \in Nat /\ c.created_at \in Nat
    /\ s.stamps[2] \in Nat /\ s.stamps[3] \in Nat /\ s.stamps[4] \in Nat

(* No limit of the configured bounds is malformed.                         *)
LEMMA BoundsWellFormed == \A cap \in DOMAIN Bounds : ~Rust!limits_malformed(Bounds[cap])
<1> SUFFICES ASSUME NEW cap \in DOMAIN Bounds PROVE ~Rust!limits_malformed(Bounds[cap])
    OBVIOUS
<1> DEFINE b == Bounds[cap]
<1>1. /\ \A v \in {b.max_latency, b.max_loss, b.min_uplink, b.max_speed} : v \in Nat \cup {None}
      /\ b.max_loss # None => b.max_loss <= 100
      /\ None \notin Int
    BY ConfiguredAlikeAssumption, InputsAssumption
<1> HIDE DEF b
<1>2. \A v \in {b.max_latency, b.max_loss, b.min_uplink, b.max_speed} : ~Rust!option_malformed(v)
    BY <1>1 DEF Rust!option_malformed, Rust!finite_nonnegative
<1>3. ~(b.max_loss # None /\ b.max_loss > 100)
    BY <1>1
<1>4. ~Rust!limits_malformed(b)
    BY <1>2, <1>3, Zenon DEF Rust!limits_malformed
<1> QED
    BY <1>4 DEF b

(* The limits of a lease are malformed for both or for neither.            *)
LEMMA SameLimits ==
    ASSUME NEW l
    PROVE  Rust!limits_malformed(CapabilityLeaseEnvelope(l).constraints) <=> lease_constraints_malformed(l)
<1> DEFINE e == CapabilityLeaseEnvelope(l).constraints
           c == l.constraints
<1>1. /\ e.max_latency = c.max_latency /\ e.max_loss = c.max_loss
      /\ e.min_uplink = c.min_uplink /\ e.max_speed = c.max_speed
    BY EnvelopeFields
<1> HIDE DEF e
<1>2. Rust!limits_malformed(e) <=> lease_constraints_malformed(l)
    BY <1>1 DEF Rust!limits_malformed, lease_constraints_malformed, Rust!option_malformed,
        Rust!finite_nonnegative, finite_nonnegative
<1> QED
    BY <1>2 DEF e

(* The timestamps are there, the limits and the network well formed.       *)
LEMMA RustNumbers ==
    ASSUME NEW l \in LeaseInputs, NEW c \in CommandInputs, NEW s \in StateInputs, NEW at \in Nat
    PROVE  ~Rust!numeric_fields_malformed(CapabilityLeaseEnvelope(l), EdgeCommand(c), LocalContext(s), at)
             <=> /\ Timed(l, c, s)
                 /\ ~lease_constraints_malformed(l)
                 /\ ~network_state_malformed(s.network)
<1> DEFINE e == CapabilityLeaseEnvelope(l)
           d == EdgeCommand(c)
           x == LocalContext(s)
           bad(t) == t = None \/ t < 0
           n1 == \E t \in {at, e.issued_at, e.expires_at, d.created_at, x.observed_at, x.network.observed_at,
                           x.geofence.verified_at} : bad(t)
           n2 == Rust!option_malformed(e.not_before)
           n3 == \E age \in {MaxLeaseTtl, MaxLeaseAge, MaxStateAge, MaxCommandAge} : age <= 0
           n4 == \/ \E v \in {x.network.latency, x.network.loss, x.network.uplink} : ~Rust!finite_nonnegative(v)
                 \/ x.network.loss > 100
           n5 == Rust!limits_malformed(e.constraints)
           n6 == \E cap \in DOMAIN Bounds : Rust!limits_malformed(Bounds[cap])
<1>1. Rust!numeric_fields_malformed(e, d, x, at) <=> n1 \/ n2 \/ n3 \/ n4 \/ n5 \/ n6
    BY Zenon DEF Rust!numeric_fields_malformed
<1>2. /\ None \notin Int
      /\ l.issued_at \in Nat \cup {None} /\ l.expires_at \in Nat \cup {None} /\ l.not_before \in Nat \cup {None}
      /\ c.created_at \in Nat \cup {None} /\ \A k \in 1..4 : s.stamps[k] \in Nat \cup {None}
    BY InputsAssumption, SameMessagesAssumption
<1>3. /\ e.issued_at = l.issued_at /\ e.expires_at = l.expires_at /\ e.not_before = l.not_before
      /\ d.created_at = c.created_at
      /\ x.observed_at = s.stamps[2] /\ x.network.observed_at = s.stamps[3]
      /\ x.geofence.verified_at = s.stamps[4]
      /\ x.network.latency = s.network.latency /\ x.network.loss = s.network.loss
      /\ x.network.uplink = s.network.uplink
    BY EnvelopeFields, ContextFields DEF EdgeCommand
<1>4. ~n1 <=> Timed(l, c, s)
    <2>1. \A t \in Nat \cup {None} : ~bad(t) <=> t \in Nat
        BY <1>2
    <2>2. s.stamps[2] \in Nat \cup {None} /\ s.stamps[3] \in Nat \cup {None} /\ s.stamps[4] \in Nat \cup {None}
        BY <1>2
    <2> HIDE DEF bad, e, d, x
    <2> QED
        BY <1>2, <1>3, <2>1, <2>2 DEF Timed
<1>5. ~n2
    BY <1>2, <1>3 DEF Rust!option_malformed, Rust!finite_nonnegative
<1>6. ~n3
    BY ConfiguredAlikeAssumption
<1>7. n4 <=> network_state_malformed(s.network)
    <2> HIDE DEF e, d, x
    <2> QED
        BY <1>3 DEF network_state_malformed, finite_nonnegative, Rust!finite_nonnegative
<1>8. n5 <=> lease_constraints_malformed(l)
    BY SameLimits
<1>9. ~n6
    BY BoundsWellFormed
<1> HIDE DEF n1, n2, n3, n4, n5, n6
<1>10. ~Rust!numeric_fields_malformed(e, d, x, at)
          <=> Timed(l, c, s) /\ ~lease_constraints_malformed(l) /\ ~network_state_malformed(s.network)
    BY <1>1, <1>4, <1>5, <1>6, <1>7, <1>8, <1>9
<1> QED
    BY <1>10 DEF e, d, x

(* A lease whose capability is in scope shows that no scope is empty.      *)
LEMMA RustScopes ==
    ASSUME NEW l, Rust!capability_allowed_for_issuer(l), l.issuer \in TrustedIssuers
    PROVE  ~Rust!trusted_scope_malformed
<1>1. /\ l.ctx.capability \in AcceptedCapabilities
      /\ l.issuer \in DOMAIN IssuerScopes
    BY DEF Rust!capability_allowed_for_issuer
<1>2. /\ AcceptedPolicies # {}
      /\ AcceptedCapabilities \subseteq DOMAIN Requirements \cap DOMAIN Bounds
      /\ \A i \in DOMAIN IssuerScopes : IssuerScopes[i] # {}
    BY ConfiguredAlikeAssumption
<1> QED
    BY <1>1, <1>2 DEF Rust!trusted_scope_malformed

-----------------------------------------------------------------------------
(* What makes messages acceptable to both, the thresholds of the network   *)
(* and the creation of the state aside.                                    *)

(* The signatures are good, and made with keys both know.                  *)
Authentic(l, c, s) ==
    /\ "LEASE_SIGNATURE_ALGORITHM_UNSUPPORTED" \notin l.defects
    /\ "INVALID_SIGNATURE" \notin l.defects
    /\ l.issuer \in TrustedIssuers
    /\ "COMMAND_SIGNATURE_INVALID" \notin c.defects
    /\ c.ctx.agent = CommandAgent
    /\ "STATE_SIGNATURE_INVALID" \notin s.defects
    /\ s.edge = LocalEdge

(* A timestamp is neither ahead of the clock nor too old, up to the skew.  *)
CurrentStamp(t, at, max_age) == t <= at + ClockSkew /\ at - t <= max_age + ClockSkew

(* The lease, the command and the state are current.                       *)
InTime(l, c, s, at) ==
    /\ l.not_before # None => l.not_before <= at
    /\ l.issued_at <= at /\ at < l.expires_at
    /\ l.issued_at < l.expires_at /\ l.expires_at - l.issued_at <= MaxLeaseTtl
    /\ at - l.issued_at <= MaxLeaseAge + ClockSkew
    /\ CurrentStamp(c.created_at, at, MaxCommandAge)
    /\ \A k \in 2..4 : CurrentStamp(s.stamps[k], at, MaxStateAge)

(* The lease is in the scope of its issuer and within the policy.          *)
InPolicy(l) ==
    LET b == Bounds[l.ctx.capability]
    IN  /\ l.policy # None /\ l.policy \in AcceptedPolicies
        /\ Rust!capability_allowed_for_issuer(l)
        /\ ~lease_constraints_malformed(l)
        /\ ~capability_constraints_missing(l.constraints, Requirements[l.ctx.capability])
        /\ ~capability_constraints_exceed_bounds(l.constraints, b)
        /\ ~(b.fallback # None /\ ~l.constraints.fallback_set)
        /\ l.constraints.network_violation_action \in {None, b.network_violation_action}

Acceptable(l, c, s, at) ==
    /\ Timed(l, c, s)
    /\ Authentic(l, c, s)
    /\ InTime(l, c, s, at)
    /\ InPolicy(l)
    /\ l.ctx = c.ctx
    /\ Placed(l, s)
    /\ SpeedInOrder(l.constraints.max_speed, c.payload)

(* Two contexts with the same five fields are the same.                    *)
LEMMA SameContext ==
    ASSUME NEW l \in LeaseInputs, NEW c \in CommandInputs
    PROVE  l.ctx = c.ctx
             <=> /\ l.ctx.agent = c.ctx.agent /\ l.ctx.edge = c.ctx.edge /\ l.ctx.robot = c.ctx.robot
                 /\ l.ctx.mission = c.ctx.mission /\ l.ctx.capability = c.ctx.capability
<1>1. IsContext(l.ctx) /\ IsContext(c.ctx)
    BY SameMessagesAssumption
<1> DEFINE a == l.ctx
           b == c.ctx
<1> HIDE DEF a, b
<1>2. a = b <=> /\ a.agent = b.agent /\ a.edge = b.edge /\ a.robot = b.robot
                /\ a.mission = b.mission /\ a.capability = b.capability
    BY <1>1, Zenon DEF IsContext, a, b
<1> QED
    BY <1>2 DEF a, b

(* The stamps that the local context carries are current.                  *)
LEMMA RustStateTime ==
    ASSUME NEW s \in StateInputs, NEW at \in Nat,
           s.stamps[2] \in Nat, s.stamps[3] \in Nat, s.stamps[4] \in Nat
    PROVE  ~Rust!local_state_time_violation(LocalContext(s), at)
             <=> \A k \in 2..4 : CurrentStamp(s.stamps[k], at, MaxStateAge)
<1> DEFINE x == LocalContext(s)
           old(t) == t > at + ClockSkew \/ at - t > MaxStateAge + ClockSkew
<1>1. /\ x.observed_at = s.stamps[2] /\ x.network.observed_at = s.stamps[3]
      /\ x.geofence.verified_at = s.stamps[4]
    BY ContextFields
<1> HIDE DEF x
<1>2. Rust!local_state_time_violation(x, at) <=> old(s.stamps[2]) \/ old(s.stamps[3]) \/ old(s.stamps[4])
    BY <1>1 DEF Rust!local_state_time_violation
<1>3. \A t \in Nat : ~old(t) <=> CurrentStamp(t, at, MaxStateAge)
    BY DurationsAssumption DEF CurrentStamp
<1> HIDE DEF old
<1>4. \A k \in 2..4 : k = 2 \/ k = 3 \/ k = 4
    OBVIOUS
<1>5. ~Rust!local_state_time_violation(x, at)
         <=> \A k \in 2..4 : CurrentStamp(s.stamps[k], at, MaxStateAge)
    BY <1>2, <1>3, <1>4
<1> QED
    BY <1>5 DEF x

(* The checks of verify() except the one of the network.                   *)
InOrder(e, d, x, at) ==
    /\ "DENY_COMMAND_SIGNED_MATERIAL_TOO_LARGE" \notin e.defects \cup d.defects \cup x.defects
    /\ "DENY_UNKNOWN_ALGORITHM" \notin e.defects
    /\ ~\E ids \in {TrustedIssuers, {CommandAgent}, {LocalEdge}} : \A id \in ids : ids # {id}
    /\ Rust!command_auth_violation(d, at) = Rust!Allow
    /\ Rust!policy_digest_violation(e) = Rust!Allow
    /\ e.issuer \in TrustedIssuers
    /\ "DENY_INVALID_SIGNATURE" \notin e.defects
    /\ Rust!capability_allowed_for_issuer(e)
    /\ Rust!lease_time_violation(e, at) = Rust!Allow
    /\ Rust!context_robot_matches(e, d, x)
    /\ Rust!context_agent_matches(e, d, x)
    /\ d.ctx.mission = e.ctx.mission /\ x.mission = e.ctx.mission
    /\ d.ctx.capability = e.ctx.capability
    /\ ~Rust!required_constraints_missing(e)
    /\ ~Rust!lease_constraints_exceed_policy(e)
    /\ Rust!local_state_auth_violation(x) = Rust!Allow
    /\ ~Rust!local_state_time_violation(x, at)
    /\ ~Rust!geofence_violated(e, x)
    /\ Rust!command_constraint_violation(e, d) = Rust!Allow

(* The ladder of verify(): it answers ALLOW or DEGRADE only with its       *)
(* network check, which decides once everything else is in order.          *)
LEMMA RustLadder ==
    ASSUME NEW e, NEW d, NEW x, NEW at,
           Rust!command_auth_violation(d, at) # Rust!Degrade,
           Rust!policy_digest_violation(e) # Rust!Degrade,
           Rust!lease_time_violation(e, at) # Rust!Degrade,
           Rust!local_state_auth_violation(x) # Rust!Degrade,
           Rust!command_constraint_violation(e, d) # Rust!Degrade
    PROVE  LET net == Rust!network_policy_violation(e, x)
               answer == Rust!FirstViolation(Rust!verification_checks(e, d, x, {}, at))
           IN  /\ answer \in {Rust!Allow, Rust!Degrade} => InOrder(e, d, x, at) /\ answer = net
               /\ InOrder(e, d, x, at) /\ net = Rust!Allow => answer = Rust!Allow
<1> DEFINE net == Rust!network_policy_violation(e, x)
           auth == Rust!command_auth_violation(d, at)
           digest == Rust!policy_digest_violation(e)
           ltime == Rust!lease_time_violation(e, at)
           sauth == Rust!local_state_auth_violation(x)
           speed == Rust!command_constraint_violation(e, d)
           r4 == IF digest # Rust!Allow THEN digest ELSE auth
           b1 == "DENY_COMMAND_SIGNED_MATERIAL_TOO_LARGE" \in e.defects \cup d.defects \cup x.defects
           b2 == "DENY_UNKNOWN_ALGORITHM" \in e.defects
           b3 == \E ids \in {TrustedIssuers, {CommandAgent}, {LocalEdge}} : \A id \in ids : ids # {id}
           b4 == auth # Rust!Allow
           b5 == digest # Rust!Allow
           b6 == e.issuer \notin TrustedIssuers
           b7 == "DENY_INVALID_SIGNATURE" \in e.defects
           b8 == ~Rust!capability_allowed_for_issuer(e)
           b9 == ltime # Rust!Allow
           b10 == e.lease_id \in {}
           b11 == ~Rust!context_robot_matches(e, d, x)
           b12 == ~Rust!context_agent_matches(e, d, x)
           b13 == d.ctx.mission # e.ctx.mission \/ x.mission # e.ctx.mission
           b14 == d.ctx.capability # e.ctx.capability
           b15 == Rust!required_constraints_missing(e)
           b16 == Rust!lease_constraints_exceed_policy(e)
           b17 == sauth # Rust!Allow
           b18 == Rust!local_state_time_violation(x, at)
           b19 == Rust!geofence_violated(e, x)
           b20 == net \notin {Rust!Allow, Rust!Degrade}
           b21 == speed # Rust!Allow
           b22 == net # Rust!Allow
           ladder == <<
               <<b1, "DENY_COMMAND_SIGNED_MATERIAL_TOO_LARGE">>,
               <<b2, "DENY_UNKNOWN_ALGORITHM">>,
               <<b3, Rust!Malformed>>,
               <<b4, r4>>,
               <<b5, digest>>,
               <<b6, "DENY_UNKNOWN_ISSUER">>,
               <<b7, "DENY_INVALID_SIGNATURE">>,
               <<b8, "DENY_CAPABILITY_NOT_GRANTED">>,
               <<b9, ltime>>,
               <<b10, "DENY_REVOKED_LEASE">>,
               <<b11, "DENY_ROBOT_MISMATCH">>,
               <<b12, "DENY_AGENT_MISMATCH">>,
               <<b13, "DENY_MISSION_MISMATCH">>,
               <<b14, "DENY_CAPABILITY_NOT_GRANTED">>,
               <<b15, Rust!Malformed>>,
               <<b16, "DENY_LEASE_CONSTRAINTS_EXCEED_POLICY">>,
               <<b17, sauth>>,
               <<b18, "DENY_STALE_STATE">>,
               <<b19, "DENY_GEOFENCE_VIOLATION">>,
               <<b20, net>>,
               <<b21, speed>>,
               <<b22, net>> >>
           inOrder == ~b1 /\ ~b2 /\ ~b3 /\ ~b4 /\ ~b5 /\ ~b6 /\ ~b7 /\ ~b8 /\ ~b9 /\ ~b11 /\ ~b12 /\ ~b13
                      /\ ~b14 /\ ~b15 /\ ~b16 /\ ~b17 /\ ~b18 /\ ~b19 /\ ~b21
<1>1. Rust!verification_checks(e, d, x, {}, at) = ladder
    BY Zenon DEF Rust!verification_checks, Rust!Sub, Rust!Defect, Rust!untrusted_command
<1>2. /\ b4 => r4 \notin {Rust!Allow, Rust!Degrade}
      /\ b5 => digest \notin {Rust!Allow, Rust!Degrade}
      /\ b9 => ltime \notin {Rust!Allow, Rust!Degrade}
      /\ b17 => sauth \notin {Rust!Allow, Rust!Degrade}
      /\ b20 => net \notin {Rust!Allow, Rust!Degrade}
      /\ b21 => speed \notin {Rust!Allow, Rust!Degrade}
      /\ ~b10
      /\ net = Rust!Allow => ~b20 /\ ~b22
    OBVIOUS
<1> DEFINE answer == Rust!FirstViolation(ladder)
<1> HIDE DEF net, auth, digest, ltime, sauth, speed, r4, b1, b2, b3, b4, b5, b6, b7, b8, b9, b10, b11, b12,
             b13, b14, b15, b16, b17, b18, b19, b20, b21, b22
<1>3. DOMAIN ladder = 1..22
    OBVIOUS
<1>4. /\ ladder[1][1] = b1 /\ ladder[2][1] = b2 /\ ladder[3][1] = b3 /\ ladder[4][1] = b4
      /\ ladder[5][1] = b5 /\ ladder[6][1] = b6 /\ ladder[7][1] = b7 /\ ladder[8][1] = b8
      /\ ladder[9][1] = b9 /\ ladder[10][1] = b10 /\ ladder[11][1] = b11 /\ ladder[12][1] = b12
      /\ ladder[13][1] = b13 /\ ladder[14][1] = b14 /\ ladder[15][1] = b15 /\ ladder[16][1] = b16
      /\ ladder[17][1] = b17 /\ ladder[18][1] = b18 /\ ladder[19][1] = b19 /\ ladder[20][1] = b20
      /\ ladder[21][1] = b21 /\ ladder[22][1] = b22
    OBVIOUS
<1>5. ladder[22][2] = net
    OBVIOUS
<1>6. \A i \in 1..21 : ladder[i][1] => ladder[i][2] \notin {Rust!Allow, Rust!Degrade}
    BY <1>2 DEF Rust!Allow, Rust!Degrade, Rust!Malformed
<1> HIDE DEF ladder
<1>7. ASSUME answer \in {Rust!Allow, Rust!Degrade} PROVE inOrder /\ answer = net
    <2>0. \A i \in 1..22 : i # 22 /\ ladder[i][1] => ladder[i][2] \notin {Rust!Allow, Rust!Degrade}
        BY <1>6
    <2>1. \A i \in 1..22 : i # 22 => ~ladder[i][1]
        BY <1>3, <1>7, <2>0, RustLadderLast
    <2>2. inOrder
        <3>1. /\ ~ladder[1][1] /\ ~ladder[2][1] /\ ~ladder[3][1] /\ ~ladder[4][1] /\ ~ladder[5][1]
              /\ ~ladder[6][1] /\ ~ladder[7][1] /\ ~ladder[8][1] /\ ~ladder[9][1] /\ ~ladder[11][1]
              /\ ~ladder[12][1] /\ ~ladder[13][1] /\ ~ladder[14][1] /\ ~ladder[15][1] /\ ~ladder[16][1]
              /\ ~ladder[17][1] /\ ~ladder[18][1] /\ ~ladder[19][1] /\ ~ladder[21][1]
            BY <2>1
        <3> QED
            BY <1>4, <3>1, Zenon
    <2>3. CASE b22
        <3>1. PICK i \in 1..22 : ladder[i][1] /\ answer = ladder[i][2]
            <4>1. 22 \in 1..22 /\ ladder[22][1]
                BY <1>4, <2>3
            <4> QED
                BY <1>3, <4>1, RustLadderAnswer
        <3>2. i = 22
            BY <2>1, <3>1
        <3> QED
            BY <1>5, <2>2, <3>1, <3>2
    <2>4. CASE ~b22
        <3>1. \A i \in 1..22 : ~ladder[i][1]
            BY <1>4, <2>1, <2>4
        <3>2. answer = Rust!Allow
            BY <1>3, <3>1, RustLadderAnswer
        <3>3. net = Rust!Allow
            BY <2>4 DEF b22
        <3> QED
            BY <2>2, <3>2, <3>3
    <2> QED
        BY <2>3, <2>4
<1>8. ASSUME inOrder, net = Rust!Allow PROVE answer = Rust!Allow
    <2>1. \A i \in 1..22 : ~ladder[i][1]
        BY <1>2, <1>4, <1>8
    <2> QED
        BY <1>3, <2>1, RustLadderAnswer
<1>9. inOrder <=> InOrder(e, d, x, at)
    BY Zenon DEF InOrder, b1, b2, b3, b4, b5, b6, b7, b8, b9, b11, b12, b13, b14, b15, b16, b17, b18, b19, b21,
        auth, digest, ltime, sauth, speed
<1> HIDE DEF inOrder, answer
<1>10. /\ answer \in {Rust!Allow, Rust!Degrade} => inOrder /\ answer = net
       /\ inOrder /\ net = Rust!Allow => answer = Rust!Allow
    BY <1>7, <1>8
<1> QED
    BY <1>1, <1>9, <1>10, Zenon DEF answer, net

(* Of a well-formed input the checks ask what makes it acceptable.         *)
LEMMA InOrderMeans ==
    ASSUME NEW l \in LeaseInputs, NEW c \in CommandInputs, NEW s \in StateInputs, NEW at \in Nat,
           Timed(l, c, s), ~lease_constraints_malformed(l), ~network_state_malformed(s.network)
    PROVE  /\ InOrder(CapabilityLeaseEnvelope(l), EdgeCommand(c), LocalContext(s), at)
           /\ s.network.profile \notin {"unknown", "partition"} /\ s.network.attached
           <=> Acceptable(l, c, s, at)
<1> DEFINE e == CapabilityLeaseEnvelope(l)
           d == EdgeCommand(c)
           x == LocalContext(s)
           up == s.network.profile \notin {"unknown", "partition"} /\ s.network.attached
           scope == Rust!capability_allowed_for_issuer(l)
           b == Bounds[l.ctx.capability]
           leaseTime == /\ l.not_before # None => l.not_before <= at
                        /\ l.issued_at <= at /\ at < l.expires_at
                        /\ l.issued_at < l.expires_at /\ l.expires_at - l.issued_at <= MaxLeaseTtl
                        /\ at - l.issued_at <= MaxLeaseAge + ClockSkew
           commandTime == CurrentStamp(c.created_at, at, MaxCommandAge)
           stateTime == \A k \in 2..4 : CurrentStamp(s.stamps[k], at, MaxStateAge)
           policy == l.policy # None /\ l.policy \in AcceptedPolicies
           bounds == /\ ~capability_constraints_exceed_bounds(l.constraints, b)
                     /\ ~(b.fallback # None /\ ~l.constraints.fallback_set)
                     /\ l.constraints.network_violation_action \in {None, b.network_violation_action}
           required == ~capability_constraints_missing(l.constraints, Requirements[l.ctx.capability])
           robots == /\ s.robot = l.ctx.robot /\ s.edge = l.ctx.edge /\ s.mission = l.ctx.mission
           fence == ~geofence_violated(l.constraints, s.geofence)
           speed == SpeedInOrder(l.constraints.max_speed, c.payload)
<1>1. /\ e.issuer = l.issuer /\ e.ctx = l.ctx /\ e.policy = l.policy /\ e.defects = Faults(l)
      /\ e.issued_at = l.issued_at /\ e.expires_at = l.expires_at /\ e.not_before = l.not_before
      /\ e.constraints.geofence_id = l.constraints.geofence_id
      /\ e.constraints.max_speed = l.constraints.max_speed
      /\ d.ctx = c.ctx /\ d.payload = c.payload /\ d.created_at = c.created_at /\ d.defects = Faults(c)
      /\ x.robot = s.robot /\ x.edge = s.edge /\ x.mission = s.mission /\ x.defects = Faults(s)
      /\ x.geofence.id = s.geofence.id /\ x.geofence.inside = s.geofence.inside
    BY EnvelopeFields, ContextFields DEF EdgeCommand
<1>2. /\ at \in Int /\ l.issued_at \in Int /\ l.expires_at \in Int /\ l.not_before \in Number
      /\ c.created_at \in Int /\ l.constraints.max_speed \in Number
      /\ \A f \in DOMAIN c.payload : c.payload[f] \in Int
    BY InputsAssumption, SameMessagesAssumption DEF Timed, Number
<1>3. /\ "DENY_COMMAND_SIGNED_MATERIAL_TOO_LARGE" \notin e.defects \cup d.defects \cup x.defects
      /\ "DENY_UNKNOWN_ALGORITHM" \notin e.defects
           <=> "LEASE_SIGNATURE_ALGORITHM_UNSUPPORTED" \notin l.defects
      /\ "DENY_INVALID_SIGNATURE" \notin e.defects <=> "INVALID_SIGNATURE" \notin l.defects
    BY <1>1, FaultNames
<1>4. ~\E ids \in {TrustedIssuers, {CommandAgent}, {LocalEdge}} : \A id \in ids : ids # {id}
    BY ConfiguredAlikeAssumption
<1>5. Rust!command_auth_violation(d, at) = Rust!Allow
        <=> c.ctx.agent = CommandAgent /\ "COMMAND_SIGNATURE_INVALID" \notin c.defects /\ commandTime
    BY <1>2, RustCommandAuth DEF CurrentStamp
<1>6. Rust!policy_digest_violation(e) = Rust!Allow <=> policy
    BY <1>1, RustPolicyDigest
<1>7. Rust!capability_allowed_for_issuer(e) <=> scope
    BY <1>1 DEF Rust!capability_allowed_for_issuer
<1>8. Rust!lease_time_violation(e, at) = Rust!Allow <=> leaseTime
    <2> HIDE DEF e
    <2>1. e.issued_at \in Int /\ e.expires_at \in Int /\ e.not_before \in Number /\ at \in Int
        BY <1>1, <1>2
    <2> QED
        BY <1>1, <2>1, RustLeaseTime
<1>9. Rust!local_state_auth_violation(x) = Rust!Allow
        <=> s.edge = LocalEdge /\ "STATE_SIGNATURE_INVALID" \notin s.defects
    BY RustStateAuth
<1>10. ~Rust!local_state_time_violation(x, at) <=> stateTime
    BY RustStateTime DEF Timed
<1>11. ~Rust!geofence_violated(e, x) <=> fence
    <2> HIDE DEF e, x
    <2> QED
        BY <1>1, Zenon DEF Rust!geofence_violated, geofence_violated
<1>12. Rust!command_constraint_violation(e, d) = Rust!Allow <=> speed
    <2> HIDE DEF e, d
    <2>1. /\ e.constraints.max_speed \in Number
          /\ \A f \in DOMAIN d.payload : d.payload[f] \in Int
        BY <1>1, <1>2
    <2>2. Rust!command_constraint_violation(e, d) = Rust!Allow
            <=> SpeedInOrder(e.constraints.max_speed, d.payload)
        BY <2>1, RustSpeed
    <2> QED
        BY <1>1, <2>2
<1>13. scope => /\ l.ctx.capability \in DOMAIN Requirements
                /\ l.ctx.capability \in DOMAIN Bounds
    BY ConfiguredAlikeAssumption DEF Rust!capability_allowed_for_issuer
<1>14. scope => (~Rust!required_constraints_missing(e) <=> required)
    BY <1>13, SameRequirements
<1>15. scope => (~Rust!lease_constraints_exceed_policy(e) <=> bounds)
    BY <1>13, SameBounds
<1> HIDE DEF e, d, x
<1>16. /\ Rust!context_robot_matches(e, d, x) /\ Rust!context_agent_matches(e, d, x)
       /\ d.ctx.mission = e.ctx.mission /\ x.mission = e.ctx.mission
       /\ d.ctx.capability = e.ctx.capability
       <=> robots /\ l.ctx = c.ctx
    <2>1. Rust!context_robot_matches(e, d, x) <=> c.ctx.robot = l.ctx.robot /\ s.robot = l.ctx.robot
        BY <1>1 DEF Rust!context_robot_matches
    <2>2. Rust!context_agent_matches(e, d, x)
            <=> c.ctx.agent = l.ctx.agent /\ c.ctx.edge = l.ctx.edge /\ s.edge = l.ctx.edge
        BY <1>1 DEF Rust!context_agent_matches
    <2> QED
        BY <1>1, <2>1, <2>2, SameContext
<1> DEFINE lhs == InOrder(e, d, x, at)
<1>17. lhs <=> /\ "LEASE_SIGNATURE_ALGORITHM_UNSUPPORTED" \notin l.defects
               /\ c.ctx.agent = CommandAgent /\ "COMMAND_SIGNATURE_INVALID" \notin c.defects /\ commandTime
               /\ policy
               /\ l.issuer \in TrustedIssuers
               /\ "INVALID_SIGNATURE" \notin l.defects
               /\ scope
               /\ leaseTime
               /\ robots /\ l.ctx = c.ctx
               /\ required /\ bounds
               /\ s.edge = LocalEdge /\ "STATE_SIGNATURE_INVALID" \notin s.defects
               /\ stateTime /\ fence /\ speed
    <2> HIDE DEF commandTime, policy, scope, leaseTime, required, bounds, stateTime, fence, speed
    <2>1. e.issuer = l.issuer
        BY <1>1
    <2>2. lhs <=> /\ "DENY_UNKNOWN_ALGORITHM" \notin e.defects
                  /\ Rust!command_auth_violation(d, at) = Rust!Allow
                  /\ Rust!policy_digest_violation(e) = Rust!Allow
                  /\ l.issuer \in TrustedIssuers
                  /\ "DENY_INVALID_SIGNATURE" \notin e.defects
                  /\ Rust!capability_allowed_for_issuer(e)
                  /\ Rust!lease_time_violation(e, at) = Rust!Allow
                  /\ robots /\ l.ctx = c.ctx
                  /\ ~Rust!required_constraints_missing(e)
                  /\ ~Rust!lease_constraints_exceed_policy(e)
                  /\ Rust!local_state_auth_violation(x) = Rust!Allow
                  /\ ~Rust!local_state_time_violation(x, at)
                  /\ ~Rust!geofence_violated(e, x)
                  /\ Rust!command_constraint_violation(e, d) = Rust!Allow
        <3> HIDE DEF robots
        <3> QED
            BY <1>3, <1>4, <1>16, <2>1, Zenon DEF InOrder
    <2> HIDE DEF lhs, robots
    <2> QED
        BY <1>3, <1>5, <1>6, <1>7, <1>8, <1>9, <1>10, <1>11, <1>12, <1>14, <1>15, <2>2
<1>18. Authentic(l, c, s) <=> /\ "LEASE_SIGNATURE_ALGORITHM_UNSUPPORTED" \notin l.defects
                              /\ "INVALID_SIGNATURE" \notin l.defects
                              /\ l.issuer \in TrustedIssuers
                              /\ "COMMAND_SIGNATURE_INVALID" \notin c.defects
                              /\ c.ctx.agent = CommandAgent
                              /\ "STATE_SIGNATURE_INVALID" \notin s.defects
                              /\ s.edge = LocalEdge
    BY Zenon DEF Authentic
<1>19. InTime(l, c, s, at) <=> leaseTime /\ commandTime /\ stateTime
    BY Zenon DEF InTime
<1>20. InPolicy(l) <=> policy /\ scope /\ required /\ bounds
    BY Zenon DEF InPolicy
<1>21. Placed(l, s) <=> robots /\ fence /\ up
    BY Zenon DEF Placed, Connected
<1> HIDE DEF lhs, commandTime, policy, scope, leaseTime, required, bounds, stateTime, fence, speed, robots, up
<1>22. Acceptable(l, c, s, at)
         <=> /\ Authentic(l, c, s) /\ InTime(l, c, s, at) /\ InPolicy(l) /\ l.ctx = c.ctx
             /\ Placed(l, s) /\ speed
    BY Zenon DEF Acceptable, speed
<1>23. lhs /\ up <=> Acceptable(l, c, s, at)
    BY <1>17, <1>18, <1>19, <1>20, <1>21, <1>22
<1> QED
    BY <1>23, Zenon DEF lhs, up, e, d, x

-----------------------------------------------------------------------------
(* The two verdicts.                                                       *)

(* verify() allows, or degrades, only what is acceptable, and tells the    *)
(* two apart by the thresholds of the network; what is acceptable and      *)
(* within the thresholds it allows.                                        *)
LEMMA RustVerdict ==
    ASSUME Presented
    PROVE  /\ rust_verdict \in {Rust!Allow, Rust!Degrade} =>
                /\ state # None
                /\ Acceptable(lease, command, state, now)
                /\ OverThreshold(lease.constraints, state.network) <=> rust_verdict = Rust!Degrade
           /\ /\ state # None
              /\ Acceptable(lease, command, state, now)
              /\ ~OverThreshold(lease.constraints, state.network)
              => rust_verdict = Rust!Allow
<1> DEFINE e == CapabilityLeaseEnvelope(lease)
           d == EdgeCommand(command)
           x == LocalContext(state)
           malformed == Rust!input_malformed(e, d, x, now)
           answer == Rust!FirstViolation(Rust!verification_checks(e, d, x, {}, now))
           net == Rust!network_policy_violation(e, x)
           up == state.network.profile \notin {"unknown", "partition"} /\ state.network.attached
           over == OverThreshold(lease.constraints, state.network)
           wellFormed == /\ Timed(lease, command, state)
                         /\ ~lease_constraints_malformed(lease)
                         /\ ~network_state_malformed(state.network)
<1>1. lease \in LeaseInputs /\ command \in CommandInputs /\ state \in StateInputs \cup {None} /\ now \in Nat
    BY DEF Presented
<1>2. rust_verdict = IF malformed THEN Rust!Malformed ELSE answer
    BY DEF rust_verdict, Rust!verify
<1>3. Rust!Malformed \notin {Rust!Allow, Rust!Degrade} /\ Rust!Allow # Rust!Degrade
    BY DEF Rust!Malformed, Rust!Allow, Rust!Degrade
<1>4. CASE state = None
    <2>1. x = None
        BY <1>4 DEF LocalContext
    <2>2. malformed
        BY <2>1, Zenon DEF Rust!input_malformed
    <2> QED
        BY <1>2, <1>3, <1>4, <2>2
<1>5. CASE state # None
    <2>1. state \in StateInputs
        BY <1>1, <1>5
    <2>2. ~malformed => wellFormed
        <3>1. ~malformed => ~Rust!numeric_fields_malformed(e, d, x, now)
            BY Zenon DEF Rust!input_malformed
        <3> QED
            BY <1>1, <2>1, <3>1, RustNumbers
    <2>3. ASSUME wellFormed
          PROVE  /\ answer \in {Rust!Allow, Rust!Degrade} => InOrder(e, d, x, now) /\ answer = net
                 /\ InOrder(e, d, x, now) /\ net = Rust!Allow => answer = Rust!Allow
        <3>1. /\ now \in Int /\ command.created_at \in Int
              /\ e.issued_at \in Int /\ e.expires_at \in Int /\ e.not_before \in Number
              /\ e.constraints.max_speed \in Number
              /\ \A f \in DOMAIN d.payload : d.payload[f] \in Int
            BY <1>1, <2>3, EnvelopeFields, InputsAssumption, SameMessagesAssumption DEF Timed, Number, EdgeCommand
        <3>2. Rust!command_auth_violation(d, now) # Rust!Degrade
            BY <1>1, <3>1, RustCommandAuth
        <3>3. Rust!local_state_auth_violation(x) # Rust!Degrade
            BY <2>1, RustStateAuth
        <3> HIDE DEF e, d, x
        <3>4. /\ Rust!policy_digest_violation(e) # Rust!Degrade
              /\ Rust!lease_time_violation(e, now) # Rust!Degrade
              /\ Rust!command_constraint_violation(e, d) # Rust!Degrade
            BY <3>1, RustPolicyDigest, RustLeaseTime, RustSpeed
        <3> QED
            BY <3>2, <3>3, <3>4, RustLadder
    <2>4. /\ net = Rust!Allow <=> up /\ ~over
          /\ net = Rust!Degrade => up /\ over
        BY <1>1, <2>1, RustNetwork
    <2>5. wellFormed => (InOrder(e, d, x, now) /\ up <=> Acceptable(lease, command, state, now))
        BY <1>1, <2>1, InOrderMeans
    <2>6. ASSUME Acceptable(lease, command, state, now) PROVE wellFormed /\ ~malformed
        <3>1. /\ wellFormed
              /\ lease.policy # None
              /\ Rust!capability_allowed_for_issuer(lease) /\ lease.issuer \in TrustedIssuers
            BY <2>6, Zenon DEF Acceptable, InPolicy, Placed, Connected, Authentic
        <3>2. ~Rust!trusted_scope_malformed
            BY <3>1, RustScopes
        <3>3. ~Rust!numeric_fields_malformed(e, d, x, now)
            BY <1>1, <2>1, <3>1, RustNumbers
        <3>4. x # None /\ e.policy # None /\ Rust!Malformed \notin e.defects \cup d.defects
            <4>1. /\ x # None /\ e.policy = lease.policy
                  /\ e.defects = Faults(lease) /\ d.defects = Faults(command)
                BY <2>1, ContextFields, EnvelopeFields DEF EdgeCommand
            <4>2. Rust!Malformed \notin Faults(lease) /\ Rust!Malformed \notin Faults(command)
                BY FaultNames DEF Rust!Malformed
            <4> QED
                BY <3>1, <4>1, <4>2
        <3>5. ~malformed
            BY <3>2, <3>3, <3>4, Zenon DEF Rust!input_malformed
        <3> QED
            BY <3>1, <3>5
    <2> HIDE DEF e, d, x, malformed, answer, net, up, over, wellFormed
    <2>7. rust_verdict \in {Rust!Allow, Rust!Degrade} =>
             Acceptable(lease, command, state, now) /\ (over <=> rust_verdict = Rust!Degrade)
        BY <1>2, <1>3, <2>2, <2>3, <2>4, <2>5
    <2>8. Acceptable(lease, command, state, now) /\ ~over => rust_verdict = Rust!Allow
        BY <1>2, <2>3, <2>4, <2>5, <2>6
    <2> QED
        BY <1>5, <2>7, <2>8 DEF over
<1> QED
    BY <1>4, <1>5

(* A limit that is not malformed is a natural number or absent.            *)
LEMMA SpeedLimit ==
    ASSUME NEW l \in LeaseInputs, ~lease_constraints_malformed(l)
    PROVE  l.constraints.max_speed \in Nat \cup {None}
<1> DEFINE v == l.constraints.max_speed
<1>1. v \in Int \cup {None}
    BY InputsAssumption DEF Number
<1>2. v # None => finite_nonnegative(v)
    BY DEF lease_constraints_malformed
<1> HIDE DEF v
<1>3. v \in Nat \cup {None}
    BY <1>1, <1>2 DEF finite_nonnegative
<1> QED
    BY <1>3 DEF v

(* Of acceptable messages whose state was created in time the gate only    *)
(* asks how the state stands to the lease.                                 *)
LEMMA GateDecides ==
    ASSUME Presented, state # None, Acceptable(lease, command, state, now), CreationCurrent
    PROVE  gate_verdict = validate_lease_against_state(lease, state)
<1> DEFINE placed == validate_lease_against_state(lease, state)
           auth == command_auth_violation(command, now)
           elsewhere == local_edge_context_mismatch(command, lease)
           current == current_state_violation(lease, state, now)
<1>1. /\ lease \in LeaseInputs /\ command \in CommandInputs /\ state \in StateInputs
      /\ now \in Nat /\ now \in Int /\ None \notin Int /\ lease # None
    BY InputsAssumption DEF Presented
<1>2. /\ Timed(lease, command, state) /\ Authentic(lease, command, state) /\ InTime(lease, command, state, now)
      /\ InPolicy(lease) /\ lease.ctx = command.ctx /\ Placed(lease, state)
      /\ SpeedInOrder(lease.constraints.max_speed, command.payload)
    BY Zenon DEF Acceptable
<1>3. auth = Valid
    <2>1. command.created_at \in Int
        BY <1>2 DEF Timed
    <2>2. /\ command.ctx.agent = CommandAgent /\ "COMMAND_SIGNATURE_INVALID" \notin command.defects
          /\ CurrentStamp(command.created_at, now, MaxCommandAge)
        BY <1>2, Zenon DEF Authentic, InTime
    <2> QED
        BY <1>1, <2>1, <2>2, GateCommandAuth DEF CurrentStamp
<1>4. ~elsewhere
    <2>1. state.edge = LocalEdge /\ state.edge = lease.ctx.edge
        BY <1>2, Zenon DEF Authentic, Placed
    <2> QED
        BY <1>2, <2>1 DEF local_edge_context_mismatch
<1>5. state_auth_violation(state) = Valid /\ "PROTOCOL_VERSION_UNSUPPORTED" \notin state.defects
    <2>1. /\ state.defects \subseteq {"STATE_SIGNATURE_INVALID", "EDGE_STATE_KEY_NOT_TRUSTED"}
          /\ "EDGE_STATE_KEY_NOT_TRUSTED" \in state.defects => state.edge # LocalEdge
        BY <1>1, SameMessagesAssumption
    <2>2. state.edge = LocalEdge /\ "STATE_SIGNATURE_INVALID" \notin state.defects
        BY <1>2, Zenon DEF Authentic
    <2> QED
        BY <1>1, <2>1, <2>2, GateStateAuth
<1>6. state_time_violation(state, now) = Valid
    <2>1. \A k \in 2..4 : state.stamps[k] \in Int /\ CurrentStamp(state.stamps[k], now, MaxStateAge)
        <3>1. state.stamps[2] \in Int /\ state.stamps[3] \in Int /\ state.stamps[4] \in Int
            BY <1>2 DEF Timed
        <3>2. \A k \in 2..4 : CurrentStamp(state.stamps[k], now, MaxStateAge)
            BY <1>2 DEF InTime
        <3> QED
            BY <3>1, <3>2
    <2>2. DOMAIN state.stamps = 1..4 /\ state.stamps[1] \in Number
        BY <1>1, InputsAssumption
    <2>3. state.stamps[1] \in Int /\ CurrentStamp(state.stamps[1], now, MaxStateAge)
        BY <2>2 DEF CreationCurrent, CurrentStamp, Number
    <2>4. \A k \in 1..4 : /\ state.stamps[k] \in Int
                          /\ state.stamps[k] <= now + ClockSkew
                          /\ now - state.stamps[k] <= MaxStateAge + ClockSkew
        <3>1. \A k \in 1..4 : k = 1 \/ k \in 2..4
            OBVIOUS
        <3> QED
            BY <2>1, <2>3, <3>1 DEF CurrentStamp
    <2> QED
        BY <1>1, <2>2, <2>4, StateStampsPass
<1>7. current = placed
    <2> DEFINE sauth == state_auth_violation(state)
               old == "PROTOCOL_VERSION_UNSUPPORTED" \in state.defects
               stime == state_time_violation(state, now)
               ladder == <<Sub(sauth), <<old, "PROTOCOL_VERSION_UNSUPPORTED">>, Sub(stime), Sub(placed)>>
    <2>1. current = FirstViolation(ladder)
        BY DEF current_state_violation
    <2>2. ~old /\ ~Sub(sauth)[1] /\ ~Sub(stime)[1]
        BY <1>5, <1>6 DEF Sub
    <2> HIDE DEF sauth, old, stime, placed
    <2>3. /\ DOMAIN ladder = 1..4
          /\ ladder[1] = Sub(sauth) /\ ladder[2][1] = old /\ ladder[3] = Sub(stime) /\ ladder[4] = Sub(placed)
        OBVIOUS
    <2> HIDE DEF ladder
    <2>4. \A i \in 1..4 : i # 4 => ~ladder[i][1]
        BY <2>2, <2>3
    <2>5. 4 \in Nat /\ 4 \in 1..4
        OBVIOUS
    <2> QED
        BY <2>1, <2>3, <2>4, <2>5, LadderOnly, Zenon
<1>8. Verdict(now) = current
    <2> DEFINE ladder == admission_checks(lease, command, state, {}, now)
    <2>1. Verdict(now) = FirstViolation(ladder)
        BY <1>1 DEF Verdict, validate_lease_for_command
    <2>2. "PROTOCOL_VERSION_UNSUPPORTED" \notin lease.defects
        BY <1>1, SameMessagesAssumption
    <2>3. /\ lease.issuer \in TrustedIssuers /\ lease.issuer \in IssuerKeys
          /\ lease_signature_violation(lease) = Valid
        BY <1>1, <1>2, GateLeaseSignature, ConfiguredAlikeAssumption DEF Authentic
    <2>4. /\ lease.policy # None /\ lease.policy \in AcceptedPolicies
          /\ Rust!capability_allowed_for_issuer(lease)
          /\ ~lease_constraints_malformed(lease)
          /\ ~capability_constraints_missing(lease.constraints, Requirements[lease.ctx.capability])
          /\ ~capability_constraints_exceed_bounds(lease.constraints, Bounds[lease.ctx.capability])
        BY <1>2, Zenon DEF InPolicy
    <2>5. lease.ctx.capability \in DOMAIN Requirements /\ lease.ctx.capability \in DOMAIN Bounds
        BY <2>4, ConfiguredAlikeAssumption DEF Rust!capability_allowed_for_issuer
    <2>6. /\ lease_policy_provenance_violation(lease) = Valid
          /\ capability_scope_violation(lease) = Valid
          /\ capability_constraint_requirement_violation(lease) = Valid
          /\ capability_constraint_bound_violation(lease) = Valid
        BY <2>4, <2>5, GatePolicy, GateScope, GateRequirements, GateBounds
    <2>7. lease_time_violation(lease, now) = Valid
        <3>1. lease.issued_at \in Nat /\ lease.expires_at \in Nat
            BY <1>2 DEF Timed
        <3>2. /\ lease.issued_at <= now /\ now < lease.expires_at
              /\ lease.issued_at < lease.expires_at /\ lease.expires_at - lease.issued_at <= MaxLeaseTtl
              /\ now - lease.issued_at <= MaxLeaseAge + ClockSkew
            BY <1>2, Zenon DEF InTime
        <3>3. lease.issued_at \in Int /\ lease.expires_at \in Int /\ lease.issued_at <= now + ClockSkew
            BY <1>1, <3>1, <3>2, DurationsAssumption
        <3> QED
            BY <1>1, <3>2, <3>3, WindowExact
    <2>8. validate_command_payload_against_constraints(lease, command.payload) = Valid
        <3>1. lease.constraints.max_speed \in Nat \cup {None}
            BY <1>1, <2>4, SpeedLimit
        <3>2. \A f \in DOMAIN command.payload : command.payload[f] \in Int
            BY <1>1, InputsAssumption
        <3> QED
            BY <1>2, <3>1, <3>2, GateSpeed
    <2>9. DOMAIN ladder = 1..14 /\ ladder[13] = Sub(current)
        BY DEF admission_checks
    <2>10. /\ ladder[1][1] = ("PROTOCOL_VERSION_UNSUPPORTED" \in lease.defects)
           /\ ladder[2][1] = (lease.issuer \notin TrustedIssuers)
           /\ ladder[3][1] = (lease.issuer \notin IssuerKeys)
           /\ ladder[4] = Sub(lease_signature_violation(lease))
           /\ ladder[5] = Sub(lease_policy_provenance_violation(lease))
           /\ ladder[6] = Sub(capability_scope_violation(lease))
           /\ ladder[7] = Sub(lease_time_violation(lease, now))
           /\ ladder[8] = Sub(capability_constraint_requirement_violation(lease))
           /\ ladder[9][1] = lease_constraints_malformed(lease)
           /\ ladder[10] = Sub(capability_constraint_bound_violation(lease))
           /\ ladder[11][1] = ~lease_matches_context(lease, command.ctx)
           /\ ladder[12][1] = (lease.lease_id \in {})
           /\ ladder[14] = Sub(validate_command_payload_against_constraints(lease, command.payload))
        BY DEF admission_checks
    <2> HIDE DEF ladder, current
    <2>11. ~Sub(Valid)[1]
        BY DEF Sub
    <2>12. /\ ~ladder[4][1] /\ ~ladder[5][1] /\ ~ladder[6][1] /\ ~ladder[7][1] /\ ~ladder[8][1]
           /\ ~ladder[10][1] /\ ~ladder[14][1]
        BY <2>3, <2>6, <2>7, <2>8, <2>10, <2>11
    <2>13. /\ ~ladder[1][1] /\ ~ladder[2][1] /\ ~ladder[3][1] /\ ~ladder[9][1] /\ ~ladder[11][1]
           /\ ~ladder[12][1]
        BY <1>2, <2>2, <2>3, <2>4, <2>10, Zenon DEF lease_matches_context
    <2>14. \A i \in 1..14 : i # 13 => ~ladder[i][1]
        BY <2>12, <2>13
    <2>15. 14 \in Nat /\ 13 \in 1..14
        OBVIOUS
    <2> QED
        BY <2>1, <2>9, <2>14, <2>15, LadderOnly, Zenon
<1>9. gate_verdict = Verdict(now)
    <2> DEFINE verdict == Verdict(now)
               ladder == <<Sub(auth), <<elsewhere, "EDGE_AGENT_MISMATCH">>, Sub(verdict)>>
    <2>1. gate_verdict = FirstViolation(ladder)
        BY DEF gate_verdict
    <2>2. ~elsewhere /\ ~Sub(auth)[1]
        BY <1>3, <1>4 DEF Sub
    <2> HIDE DEF auth, elsewhere, verdict
    <2>3. DOMAIN ladder = 1..3 /\ ladder[1] = Sub(auth) /\ ladder[2][1] = elsewhere /\ ladder[3] = Sub(verdict)
        OBVIOUS
    <2> HIDE DEF ladder
    <2>4. \A i \in 1..3 : i # 3 => ~ladder[i][1]
        BY <2>2, <2>3
    <2>5. 3 \in Nat /\ 3 \in 1..3
        OBVIOUS
    <2>6. FirstViolation(ladder) = verdict
        BY <2>3, <2>4, <2>5, LadderOnly, Zenon
    <2> QED
        BY <2>1, <2>6 DEF verdict
<1> QED
    BY <1>7, <1>8, <1>9

(* What the gate allows is acceptable and within the thresholds, unless it *)
(* lacks what only the Rust verifier insists on.                           *)
LEMMA GateMeans ==
    ASSUME Presented, gate_verdict = Valid, ~StricterInRust
    PROVE  /\ state # None
           /\ Acceptable(lease, command, state, now)
           /\ ~OverThreshold(lease.constraints, state.network)
<1>1. /\ lease \in LeaseInputs /\ command \in CommandInputs /\ state \in StateInputs /\ state # None
      /\ now \in Nat /\ now \in Int /\ None \notin Int /\ lease # None
    <2>1. state # None
        BY Zenon DEF StricterInRust
    <2> QED
        BY <2>1, InputsAssumption DEF Presented
<1>2. /\ command_auth_violation(command, now) = Valid
      /\ ~local_edge_context_mismatch(command, lease)
      /\ Verdict(now) = Valid
    <2> DEFINE auth == command_auth_violation(command, now)
               elsewhere == local_edge_context_mismatch(command, lease)
               verdict == Verdict(now)
               ladder == <<Sub(auth), <<elsewhere, "EDGE_AGENT_MISMATCH">>, Sub(verdict)>>
    <2>1. FirstViolation(ladder) = Valid
        BY DEF gate_verdict
    <2> HIDE DEF auth, elsewhere, verdict
    <2>2. DOMAIN ladder = 1..3 /\ ladder[1] = Sub(auth) /\ ladder[2][1] = elsewhere /\ ladder[3] = Sub(verdict)
        OBVIOUS
    <2>3. \A i \in 1..3 : ladder[i][1] => ladder[i][2] # Valid
        BY SubClear DEF Valid
    <2> HIDE DEF ladder
    <2>4. \A i \in 1..3 : ~ladder[i][1]
        BY <2>1, <2>2, <2>3, GateRule
    <2>5. ~Sub(auth)[1] /\ ~elsewhere /\ ~Sub(verdict)[1]
        BY <2>2, <2>4
    <2>6. auth = Valid /\ verdict = Valid
        BY <2>5, SubHolds
    <2> QED
        BY <2>5, <2>6 DEF auth, elsewhere, verdict
<1>3. /\ lease.issuer \in TrustedIssuers
      /\ lease_signature_violation(lease) = Valid
      /\ lease_time_violation(lease, now) = Valid
      /\ capability_constraint_requirement_violation(lease) = Valid
      /\ capability_constraint_bound_violation(lease) = Valid
      /\ lease.ctx = command.ctx
      /\ current_state_violation(lease, state, now) = Valid
      /\ validate_command_payload_against_constraints(lease, command.payload) = Valid
    BY <1>2, AdmissionFacts DEF Verdict
<1>4. /\ lease_policy_provenance_violation(lease) = Valid
      /\ capability_scope_violation(lease) = Valid
      /\ ~lease_constraints_malformed(lease)
    <2> DEFINE ladder == admission_checks(lease, command, state, {}, now)
    <2>1. \A i \in 1..14 : ~ladder[i][1]
        BY <1>2, AdmissionChecks DEF Verdict
    <2>2. /\ ladder[5] = Sub(lease_policy_provenance_violation(lease))
          /\ ladder[6] = Sub(capability_scope_violation(lease))
          /\ ladder[9][1] = lease_constraints_malformed(lease)
        BY DEF admission_checks
    <2> HIDE DEF ladder
    <2>3. ~ladder[5][1] /\ ~ladder[6][1] /\ ~ladder[9][1]
        BY <2>1
    <2>4. ~Sub(lease_policy_provenance_violation(lease))[1] /\ ~Sub(capability_scope_violation(lease))[1]
        BY <2>2, <2>3
    <2>5. ~lease_constraints_malformed(lease)
        BY <2>2, <2>3, Zenon
    <2> QED
        BY <2>4, <2>5, SubHolds
<1>5. /\ state_auth_violation(state) = Valid
      /\ state_time_violation(state, now) = Valid
      /\ validate_lease_against_state(lease, state) = Valid
    BY <1>1, <1>3, StateMet
<1>6. Placed(lease, state) /\ ~OverThreshold(lease.constraints, state.network)
    BY <1>5, GatePlaced
<1>7. /\ command.ctx.agent = CommandAgent
      /\ "COMMAND_SIGNATURE_INVALID" \notin command.defects
      /\ command.created_at \in Int
      /\ command.created_at <= now + ClockSkew /\ now - command.created_at <= MaxCommandAge + ClockSkew
    BY <1>1, <1>2, GateCommandAuth
<1>8. \A k \in 1..4 : /\ state.stamps[k] \in Int
                      /\ state.stamps[k] <= now + ClockSkew
                      /\ now - state.stamps[k] <= MaxStateAge + ClockSkew
    <2>1. DOMAIN state.stamps = 1..4 /\ \A k \in 1..4 : state.stamps[k] \in Number
        BY <1>1, InputsAssumption
    <2> QED
        BY <1>1, <1>5, <2>1, StateStampsMet
<1>9. lease.issued_at \in Int /\ lease.expires_at \in Int
    BY <1>1, <1>3, WindowMet, InputsAssumption
<1>10. Timed(lease, command, state)
    <2>1. /\ lease.issued_at \in Nat \cup {None} /\ lease.expires_at \in Nat \cup {None}
          /\ command.created_at \in Nat \cup {None} /\ \A k \in 1..4 : state.stamps[k] \in Nat \cup {None}
        BY <1>1, SameMessagesAssumption
    <2>2. \A t \in Nat \cup {None} : t \in Int => t \in Nat
        BY <1>1
    <2>3. /\ state.stamps[2] \in Nat \cup {None} /\ state.stamps[2] \in Int
          /\ state.stamps[3] \in Nat \cup {None} /\ state.stamps[3] \in Int
          /\ state.stamps[4] \in Nat \cup {None} /\ state.stamps[4] \in Int
        BY <1>8, <2>1
    <2> QED
        BY <1>7, <1>9, <2>1, <2>2, <2>3 DEF Timed
<1>11. Authentic(lease, command, state)
    <2>1. state.edge = LocalEdge
        BY <1>1, <1>2, <1>6, Zenon DEF local_edge_context_mismatch, Placed
    <2>2. "STATE_SIGNATURE_INVALID" \notin state.defects
        BY <1>1, <1>5, GateStateAuth
    <2>3. "LEASE_SIGNATURE_ALGORITHM_UNSUPPORTED" \notin lease.defects /\ "INVALID_SIGNATURE" \notin lease.defects
        BY <1>1, <1>3, GateLeaseSignature
    <2> QED
        BY <1>3, <1>7, <2>1, <2>2, <2>3, Zenon DEF Authentic
<1>12. InTime(lease, command, state, now)
    <2>1. /\ lease.issued_at <= now + ClockSkew /\ now < lease.expires_at
          /\ lease.issued_at < lease.expires_at /\ lease.expires_at - lease.issued_at <= MaxLeaseTtl
          /\ now - lease.issued_at <= MaxLeaseAge + ClockSkew
        BY <1>1, <1>3, <1>9, WindowExact
    <2>2. ~(now < lease.issued_at) /\ ~(lease.not_before # None /\ now < lease.not_before)
        BY Zenon DEF StricterInRust
    <2>3. lease.not_before \in Nat \cup {None}
        BY <1>1, SameMessagesAssumption
    <2>4. lease.issued_at <= now /\ (lease.not_before # None => lease.not_before <= now)
        BY <1>1, <1>9, <2>2, <2>3
    <2>5. CurrentStamp(command.created_at, now, MaxCommandAge)
        BY <1>7 DEF CurrentStamp
    <2>6. \A k \in 2..4 : CurrentStamp(state.stamps[k], now, MaxStateAge)
        BY <1>8 DEF CurrentStamp
    <2> QED
        BY <2>1, <2>4, <2>5, <2>6, Zenon DEF InTime
<1>13. InPolicy(lease)
    <2>1. /\ lease.policy # None /\ lease.policy \in AcceptedPolicies
          /\ Rust!capability_allowed_for_issuer(lease)
        BY <1>4, GatePolicy, GateScope
    <2>2. /\ ~capability_constraints_missing(lease.constraints, Requirements[lease.ctx.capability])
          /\ ~capability_constraints_exceed_bounds(lease.constraints, Bounds[lease.ctx.capability])
        BY <1>3, RequirementsMet, BoundsMet
    <2>3. /\ ~(Bounds[lease.ctx.capability].fallback # None /\ ~lease.constraints.fallback_set)
          /\ lease.constraints.network_violation_action
                \in {None, Bounds[lease.ctx.capability].network_violation_action}
        BY Zenon DEF StricterInRust
    <2> QED
        BY <1>4, <2>1, <2>2, <2>3, Zenon DEF InPolicy
<1>14. SpeedInOrder(lease.constraints.max_speed, command.payload)
    <2>1. lease.constraints.max_speed \in Nat \cup {None}
        BY <1>1, <1>4, SpeedLimit
    <2>2. \A f \in DOMAIN command.payload : command.payload[f] \in Int
        BY <1>1, InputsAssumption
    <2> QED
        BY <1>3, <2>1, <2>2, GateSpeed
<1> QED
    BY <1>1, <1>3, <1>6, <1>10, <1>11, <1>12, <1>13, <1>14, Zenon DEF Acceptable

(* The Rust verifier and the Python gate, configured alike and given the   *)
(* same messages, agree at every moment: for every configuration and every *)
(* lease, command and state, what verify() allows or degrades the gate     *)
(* allows or refuses for a network threshold, and what the gate allows     *)
(* verify() allows unless it lacks what only verify() insists on.          *)
THEOREM EdgesAgreeHolds == Spec => []EdgesAgree
<1>1. Presented => EdgesAgree
    <2> SUFFICES ASSUME Presented PROVE EdgesAgree
        OBVIOUS
    <2> DEFINE rust == rust_verdict
               gate == gate_verdict
               over == OverThreshold(lease.constraints, state.network)
               placed == validate_lease_against_state(lease, state)
    <2>1. Rust!Allow # Rust!Degrade
        BY DEF Rust!Allow, Rust!Degrade
    <2>2. ASSUME rust \in {Rust!Allow, Rust!Degrade}, CreationCurrent
          PROVE  /\ rust = Rust!Allow => gate = Valid
                 /\ rust = Rust!Degrade => gate \in ThresholdReasons
        <3>1. /\ state # None /\ Acceptable(lease, command, state, now)
              /\ over <=> rust = Rust!Degrade
            BY <2>2, RustVerdict
        <3>2. gate = placed
            BY <2>2, <3>1, GateDecides
        <3>3. Placed(lease, state)
            BY <3>1, Zenon DEF Acceptable
        <3>4. /\ placed = Valid <=> Placed(lease, state) /\ ~over
              /\ Placed(lease, state) /\ over => placed \in ThresholdReasons
            BY GatePlaced
        <3> HIDE DEF rust, gate, over, placed
        <3> QED
            BY <2>1, <3>1, <3>2, <3>3, <3>4
    <2>3. ASSUME gate = Valid PROVE rust = Rust!Allow \/ StricterInRust
        BY <2>3, GateMeans, RustVerdict
    <2> HIDE DEF rust, gate
    <2>4. /\ rust = Rust!Allow /\ CreationCurrent => gate = Valid
          /\ rust = Rust!Degrade /\ CreationCurrent => gate \in ThresholdReasons
          /\ gate = Valid => rust = Rust!Allow \/ StricterInRust
        BY <2>2, <2>3
    <2> QED
        BY <2>4, Zenon DEF EdgesAgree, rust, gate
<1> QED
    BY <1>1, PresentedHolds, PTL

=============================================================================
