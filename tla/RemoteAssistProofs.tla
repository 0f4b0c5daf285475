------------------------- MODULE RemoteAssistProofs -------------------------
(***************************************************************************)
(* The remote-assist scenario, for every age limit, clock skew, lifetime   *)
(* limit and set of pauses that ScenarioAssumption allows: what TLC checks *)
(* for pauses of a few lengths holds for all of them.                      *)
(*                                                                         *)
(* The invariant follows the script: the stage of main() fixes which       *)
(* messages exist, how many decisions there are, what the issuer and the   *)
(* gate can be working on and what must be in the shared log.  Time enters *)
(* it only where the code compares it: at the age of the imported network  *)
(* measurement, of a command and of the revocation, and at the expiry of   *)
(* the lease.                                                              *)
(***************************************************************************)
EXTENDS RemoteAssist, LeaseRulesProofs, SequenceTheorems

(* The messages of the script by the time at which they were made.         *)
RequestAt(nonce, t) ==
    [ctx |-> Ctx, nonce |-> nonce, created_at |-> t, duration |-> 20, requested |-> None,
     defects |-> {}]

StateAt(profile, t) ==
    [robot |-> Ctx.robot, edge |-> Ctx.edge, mission |-> Ctx.mission,
     stamps |-> <<t, t, ImportTime, t>>, network |-> PROFILES[profile],
     geofence |-> [id |-> "test-zone-a", inside |-> TRUE], human_declared |-> TRUE,
     human_operator_available |-> TRUE, defects |-> {}]

CommandAt(id, t) ==
    [command_id |-> id, command_nonce |-> id, ctx |-> Ctx, created_at |-> t, payload |-> << >>,
     defects |-> {}]

RevocationAt(t) ==
    [message_id |-> "revocation", lease_id |-> <<"lease", 1>>, revoked_by |-> Ctx.edge, edge |-> Ctx.edge,
     robot |-> Ctx.robot, mission |-> Ctx.mission, capability |-> Ctx.capability,
     reason_code |-> "NETWORK_PROFILE_REVOKE", created_at |-> t, revoked_at |-> t,
     defects |-> {}]

\* The row that the revocation leaves in the store and in memory.
RevokedRow ==
    [lease_id |-> <<"lease", 1>>, issuer |-> IssuerId, ctx |-> Ctx,
     reason_code |-> "NETWORK_PROFILE_REVOKE", revocation_id |-> "revocation"]

\* How far main() is; a message that has been made and not yet sent is no stage of its own.
Stage ==
    [setup |-> 0, request |-> 1, observe |-> 2, evaluate |-> 3, evaluating |-> 4, command |-> 5,
     commanding |-> 6, command_without_lease |-> 7, commanding_without_lease |-> 8, impair |-> 9,
     request_again |-> 10, reevaluate |-> 11, reevaluating |-> 12, revoke |-> 13, revoking |-> 14,
     last_command |-> 15, commanding_last |-> 16, done |-> 17,
     send_command |-> 5, send_without_lease |-> 7, send_revocation |-> 13, raised |-> 13,
     send_last_command |-> 15]

stage == Stage[pc]

\* The calls that the issuer and the gate are handling.
job == work["issuer"]
gcall == gate_call["gate"]

\* A sequence, over whatever its elements are.
IsSeq(s) == s \in Seq({s[i] : i \in DOMAIN s})

\* The profiles that the script can be run with.
Impaired == {"degraded_teleop", "uplink_bad", "partition"}

\* What the functions and the sequences of the state are defined on.
Shape ==
    /\ clock \in Nat
    /\ pc \in DOMAIN Stage
    /\ impaired \in Impaired
    /\ "issuer" \in DOMAIN up /\ "issuer" \in DOMAIN work
    /\ "gate" \in DOMAIN gate_up /\ "gate" \in DOMAIN gate_call
    /\ "gate" \in DOMAIN audit_log /\ "gate" \in DOMAIN revocations
    /\ <<"lease", 1>> \in DOMAIN revocations["gate"]
    /\ IsSeq(decisions) /\ IsSeq(issued) /\ IsSeq(log) /\ IsSeq(declared) /\ IsSeq(forwarded)

\* The request and the state that the script made last, by stage.
Messages ==
    /\ stage \in 2..10 => \E t \in 0..clock : request = RequestAt("first", t)
    /\ stage \in 11..17 => \E t \in 0..clock : request = RequestAt("second", t)
    /\ stage \in 3..9 => \E t \in 0..clock : state = StateAt("normal", t)
    /\ stage \in 10..17 => \E t \in 0..clock : state = StateAt(impaired, t)

\* An evaluation at the point p, which read the clock at n.
WorkAt(p, n) ==
    [pc |-> p, request |-> request, state |-> state, policy |-> policy, assertion |-> None, now |-> n]

\* The issuer evaluates what the script holds, with a clock reading not before it was made.
Working ==
    \/ job = IdleWork
    \/ /\ stage \in {4, 12}
       /\ \E p \in {"consume", "decide", "issue"}, n \in 0..clock :
             job = WorkAt(p, n) /\ request.created_at <= n /\ state.stamps[1] <= n

\* The number of decisions made so far.
Made ==
    CASE stage < 4 -> 0
      [] stage = 4 -> IF job.pc \in {"consume", "decide"} THEN 0 ELSE 1
      [] stage \in 5..11 -> 1
      [] stage = 12 -> IF job.pc \in {"consume", "decide"} THEN 1 ELSE 2
      [] stage > 12 -> 2

(* The decisions made so far, never allow on an impaired profile.  The     *)
(* first nonce is new.                                                     *)
Deciding ==
    /\ stage < 4 \/ (stage = 4 /\ job.pc = "consume") => nonces = {}
    /\ Len(decisions) = Made
    /\ Made >= 1 => /\ decisions[1].request.nonce = "first"
                    /\ decisions[1].decision \in {"allow", "degrade", "deny"}
    /\ Made = 2 => /\ decisions[2].request.nonce = "second"
                   /\ decisions[2].decision \in {"degrade", "deny"}

\* The first decision.
Allowed == decisions[1].decision = "allow"

(* A lease is issued after an allow on fresh measurements, once at most,   *)
(* and it is the one that the script holds.                                *)
Granting ==
    /\ job.pc = "issue" => stage = 4 /\ job.now <= Fresh /\ Allowed
    /\ stage < 4 \/ (stage = 4 /\ job.pc # "idle") => Len(issued) = 0
    /\ Len(issued) \in {0, 1}
    /\ Len(issued) = 1 => /\ Allowed
                          /\ \E t \in 0..clock : issued[1].lease = LeaseAt(t)
    /\ stage >= 5 => lease = None \/ (Allowed /\ \E t \in 0..clock : lease = LeaseAt(t))

\* The issuer's part of the invariant.
IssuerInv == Working /\ Deciding /\ Granting

\* The command that is with the gate, and the lease that was sent with it.
CommandId == [commanding |-> "cmd_valid_lease", commanding_without_lease |-> "cmd_no_lease",
              commanding_last |-> "cmd_after_revocation"]

LeaseSent == IF pc = "commanding_without_lease" THEN None ELSE lease

\* A call of evaluate() or of revoke() at the point p, with a message made at t.
CallAt(p, t, reason) ==
    [pc |-> p, command |-> CommandAt(CommandId[pc], t), lease |-> LeaseSent, state |-> state,
     revocation |-> None, reason |-> reason]

RevokeAt(p, t) ==
    [pc |-> p, command |-> None, lease |-> lease, state |-> None, revocation |-> RevocationAt(t),
     reason |-> Valid]

\* The gate handles what the script has sent; without a lease it gets no further than the first look.
Calling ==
    \/ gcall = G!IdleCall
    \/ /\ pc \in DOMAIN CommandId
       /\ \E p \in {"contains", "validate", "remember", "answer"}, t \in 0..clock :
             gcall = CallAt(p, t, gcall.reason) /\ (p = "contains" \/ LeaseSent # None)
    \/ /\ pc = "revoking"
       /\ lease # None
       /\ \E p \in {"record", "apply"}, t \in 0..clock : gcall = RevokeAt(p, t)

\* The rows of the replay store that the last command needs.
LastKeys == {<<Ctx.agent, "command_id", "cmd_after_revocation">>,
             <<Ctx.agent, "command_nonce", "cmd_after_revocation">>}

\* The gate knows that the lease is revoked.
Revoked == revocations["gate"][<<"lease", 1>>] = RevokedRow

(* What the gate enforces: the revocation is recorded once, in force and   *)
(* declared when the call has ended; the rows of the last command are      *)
(* free; the last verdict is a refusal; and only the first command was     *)
(* forwarded.                                                              *)
Enforcing ==
    /\ stage = 0 => revoked_leases = [i \in {<<"lease", 1>>} |-> None]
    /\ stage < 14 \/ gcall.pc = "record" => revocation_messages = {}
    /\ stage < 16 \/ (stage = 16 /\ gcall.pc \in {"contains", "validate", "remember"}) => LastKeys \cap replay_entries = {}
    /\ stage = 14 /\ gcall.pc = "idle" => revocation_fallback /\ Revoked
    /\ stage > 14 /\ lease # None => Revoked
    /\ stage = 16 /\ gcall.pc \in {"remember", "answer"} => gcall.reason \in {"LEASE_REVOKED", "LEASE_EXPIRED"}
    /\ \A i \in DOMAIN forwarded : forwarded[i].command.command_id = "cmd_valid_lease"

\* The refusal of the last command is in the log; one that came too late is audited as such.
LastRefused ==
    \/ \E i \in DOMAIN log :
          /\ log[i].event_type = "COMMAND_REJECTED"
          /\ log[i].ref = "cmd_after_revocation"
          /\ log[i].reason_code \in IF lease = None THEN {"NO_LEASE"} ELSE {"LEASE_REVOKED", "LEASE_EXPIRED"}
    \/ log[Len(log)] = G!AuditEvent("DIAGNOSTIC", "COMMAND_STALE", None) /\ Overdue(1)

\* The gate's part of the invariant.
GateInv ==
    /\ Calling
    /\ Enforcing
    /\ (stage = 16 /\ gcall.pc = "idle") \/ stage = 17 => LastRefused

\* The events that audit a decision.
DecisionTypes == {"CAPABILITY_ALLOWED", "CAPABILITY_DENIED", "CAPABILITY_DEGRADED"}

\* An event of one of the types, about ref, is in the log s; or before the position i of s.
Logged(s, types, ref) == \E i \in DOMAIN s : s[i].event_type \in types /\ s[i].ref = ref

Earlier(s, i, type, ref) == \E j \in 1..(i - 1) : s[j].event_type = type /\ s[j].ref = ref

\* The event i of s comes after the ones that README.md's "event chain" has before it.
InOrder(s, i, profile) ==
    /\ s[i].event_type \in DecisionTypes =>
           /\ Earlier(s, i, "CAPABILITY_REQUESTED", s[i].ref)
           /\ Earlier(s, i, "NETWORK_STATE_ASSERTED", IF s[i].ref = "first" THEN "normal" ELSE profile)
           /\ \A j \in DOMAIN s : s[j].event_type \in DecisionTypes /\ s[j].ref = s[i].ref => j = i
    /\ s[i].event_type \in {"COMMAND_ALLOWED", "LEASE_REVOKED"} =>
           Earlier(s, i, "CAPABILITY_ALLOWED", "first")
    /\ s[i].event_type = "FALLBACK_DECLARED" =>
           /\ i > 1
           /\ s[i - 1].event_type \in {"LEASE_REVOKED", "COMMAND_REJECTED"}
           /\ s[i - 1].reason_code = s[i].reason_code
    /\ s[i].event_type = "CAPABILITY_REQUESTED" => s[i].ref \in {"first", "second"}

\* Every event comes where it should.
Ordered(s, profile) == \A i \in DOMAIN s : InOrder(s, i, profile)

\* What main() has brought about so far is in the log s, and no decision is there too early.
RecordedIn(s) ==
    /\ stage >= 2 => Logged(s, {"CAPABILITY_REQUESTED"}, "first")
    /\ stage >= 3 => Logged(s, {"NETWORK_STATE_ASSERTED"}, "normal")
    /\ stage >= 10 => Logged(s, {"NETWORK_STATE_ASSERTED"}, impaired)
    /\ stage >= 11 => Logged(s, {"CAPABILITY_REQUESTED"}, "second")
    /\ stage >= 5 <=> Logged(s, DecisionTypes, "first")
    /\ Made = 2 <=> Logged(s, DecisionTypes, "second")
    /\ stage >= 5 /\ Allowed => Logged(s, {"CAPABILITY_ALLOWED"}, "first")

\* The shared log is in order and complete.
LogInv == Ordered(log, impaired) /\ RecordedIn(log)

\* What the calls of main(), the issuer, the gate and the log have in common.
CoreInv == Shape /\ Messages /\ IssuerInv /\ GateInv /\ LogInv

\* The places at which main() has made a command that nothing has replaced yet.
DraftId == [send_command |-> "cmd_valid_lease", send_without_lease |-> "cmd_no_lease",
            send_last_command |-> "cmd_after_revocation", commanding_last |-> "cmd_after_revocation",
            done |-> "cmd_after_revocation"]

(* The message that waits to be sent, however long ago it was made; only   *)
(* an overdue revocation makes the gate raise.                             *)
Drafted ==
    /\ pc \in DOMAIN DraftId => \E t \in 0..clock : message = CommandAt(DraftId[pc], t)
    /\ pc \in {"send_revocation", "raised"} =>
           lease # None /\ \E t \in 0..clock : message = RevocationAt(t)
    /\ pc = "raised" => Overdue(10)

\* The inductive invariant.
ScenarioInv == CoreInv /\ Drafted

-----------------------------------------------------------------------------
(* What the rules say about the messages of the script.                    *)

(* The stages are numbered in the order in which main() passes them.       *)
LEMMA StageOf ==
    /\ Stage["setup"] = 0 /\ Stage["request"] = 1 /\ Stage["observe"] = 2 /\ Stage["evaluate"] = 3
    /\ Stage["evaluating"] = 4 /\ Stage["command"] = 5 /\ Stage["commanding"] = 6
    /\ Stage["command_without_lease"] = 7 /\ Stage["commanding_without_lease"] = 8
    /\ Stage["impair"] = 9 /\ Stage["request_again"] = 10 /\ Stage["reevaluate"] = 11
    /\ Stage["reevaluating"] = 12 /\ Stage["revoke"] = 13 /\ Stage["revoking"] = 14
    /\ Stage["last_command"] = 15 /\ Stage["commanding_last"] = 16 /\ Stage["done"] = 17
    /\ Stage["send_command"] = 5 /\ Stage["send_without_lease"] = 7 /\ Stage["send_revocation"] = 13
    /\ Stage["raised"] = 13 /\ Stage["send_last_command"] = 15
BY DEF Stage

(* The places at which main() can be.                                      *)
LEMMA StageDomain ==
    DOMAIN Stage =
       {"setup", "request", "observe", "evaluate", "evaluating", "command", "commanding",
        "command_without_lease", "commanding_without_lease", "impair", "request_again", "reevaluate",
        "reevaluating", "revoke", "revoking", "last_command", "commanding_last", "done",
        "send_command", "send_without_lease", "send_revocation", "raised", "send_last_command"}
BY DEF Stage

(* The age limits are natural numbers.                                     *)
LEMMA Limits ==
    /\ MaxStateAge \in Nat /\ ClockSkew \in Nat /\ MaxRequestAge \in Nat
    /\ MaxLeaseAge \in Nat /\ MaxLeaseTtl \in Nat
    /\ Fresh \in Nat /\ Fresh <= MaxRequestAge
BY DurationsAssumption, RequestAgeAssumption, ScenarioAssumption DEF Fresh

(* A time that is past, and not too old, is accepted.                      *)
LEMMA StampPasses ==
    ASSUME NEW t \in Nat, NEW now \in Nat, NEW age \in Nat, NEW r, t <= now, now - t <= age + ClockSkew
    PROVE  StampViolation(t, now, age, r) = Valid
<1> DEFINE ladder == <<
        <<t = None, r.invalid>>,
        <<t # None /\ t > now + ClockSkew, r.early>>,
        <<t # None /\ now - t > age + ClockSkew, r.stale>> >>
<1>1. t # None /\ ~(t > now + ClockSkew) /\ ~(now - t > age + ClockSkew)
    BY NoneAssumption, Limits
<1>2. DOMAIN ladder = 1..3
    OBVIOUS
<1>3. ~ladder[1][1] /\ ~ladder[2][1] /\ ~ladder[3][1]
    BY <1>1
<1>4. FirstViolation(ladder) = StampViolation(t, now, age, r)
    BY DEF StampViolation
<1> HIDE DEF ladder
<1>5. \A i \in 1..3 : ~ladder[i][1]
    BY <1>3
<1> QED
    BY <1>2, <1>4, <1>5, LadderPass

(* A time that is too old is answered as such.                             *)
LEMMA StampStale ==
    ASSUME NEW t \in Nat, NEW now \in Nat, NEW age \in Nat, NEW r, t <= now, now - t > age + ClockSkew
    PROVE  StampViolation(t, now, age, r) = r.stale
<1> DEFINE ladder == <<
        <<t = None, r.invalid>>,
        <<t # None /\ t > now + ClockSkew, r.early>>,
        <<t # None /\ now - t > age + ClockSkew, r.stale>> >>
<1>1. t # None /\ ~(t > now + ClockSkew) /\ now - t > age + ClockSkew
    BY NoneAssumption, Limits
<1>2. DOMAIN ladder = 1..3
    OBVIOUS
<1>3. ~ladder[1][1] /\ ~ladder[2][1] /\ ladder[3][1] /\ ladder[3][2] = r.stale
    BY <1>1
<1>4. FirstViolation(ladder) = StampViolation(t, now, age, r)
    BY DEF StampViolation
<1> HIDE DEF ladder
<1>7. 3 \in Nat /\ 3 \in 1..3
    OBVIOUS
<1>5. PICK i \in 1..3 : ladder[i][1] /\ FirstViolation(ladder) = ladder[i][2]
    BY <1>2, <1>3, <1>7, LadderFirst
<1>6. i = 3
    BY <1>3, <1>5
<1> QED
    BY <1>3, <1>4, <1>5, <1>6

(* A state of the script is accepted until the profiles it was made from   *)
(* are too old.                                                            *)
LEMMA FreshState ==
    ASSUME NEW profile, NEW t \in Nat, NEW now \in Nat, t <= now, now <= Fresh
    PROVE  state_time_violation(StateAt(profile, t), now) = Valid
<1> DEFINE r == [invalid |-> "STATE_TIMESTAMP_INVALID", early |-> "STATE_NOT_YET_VALID",
                 stale |-> "STATE_STALE"]
           stamps == <<t, t, ImportTime, t>>
           ladder == [k \in DOMAIN stamps |-> Sub(StampViolation(stamps[k], now, MaxStateAge, r))]
<1> HIDE DEF r
<1>1. StampViolation(t, now, MaxStateAge, r) = Valid
    BY StampPasses, Limits DEF Fresh
<1>2. StampViolation(ImportTime, now, MaxStateAge, r) = Valid
    BY StampPasses, Limits DEF Fresh, ImportTime
<1>3. DOMAIN ladder = 1..4
    OBVIOUS
<1>4. ladder[1] = Sub(Valid) /\ ladder[2] = Sub(Valid) /\ ladder[3] = Sub(Valid) /\ ladder[4] = Sub(Valid)
    BY <1>1, <1>2
<1>5. FirstViolation(ladder) = state_time_violation(StateAt(profile, t), now)
    BY DEF state_time_violation, StampsViolation, StateAt, r
<1> HIDE DEF ladder
<1>6. \A i \in 1..4 : ~ladder[i][1]
    BY <1>4, SubAnswer
<1> QED
    BY <1>3, <1>5, <1>6, LadderPass

(* It is not accepted any longer than that, however new the state itself   *)
(* is.                                                                     *)
LEMMA StaleState ==
    ASSUME NEW profile, NEW t, NEW now \in Nat, state_time_violation(StateAt(profile, t), now) = Valid
    PROVE  now <= Fresh
<1> DEFINE r == [invalid |-> "STATE_TIMESTAMP_INVALID", early |-> "STATE_NOT_YET_VALID",
                 stale |-> "STATE_STALE"]
           stamps == <<t, t, ImportTime, t>>
           ladder == [k \in DOMAIN stamps |-> Sub(StampViolation(stamps[k], now, MaxStateAge, r))]
           none == ImportTime = None
           soon == ImportTime # None /\ ImportTime > now + ClockSkew
           late == ImportTime # None /\ now - ImportTime > MaxStateAge + ClockSkew
           ladder3 == <<<<none, r.invalid>>, <<soon, r.early>>, <<late, r.stale>>>>
<1>0. r.invalid # Valid /\ r.early # Valid /\ r.stale # Valid
    BY DEF Valid
<1>2. FirstViolation(ladder3) = StampViolation(ImportTime, now, MaxStateAge, r)
    BY DEF StampViolation
<1> HIDE DEF none, soon, late
<1>1. DOMAIN ladder3 = 1..3 /\ ladder3[3][1] = late /\ \A i \in 1..3 : ladder3[i][2] # Valid
    BY <1>0
<1>5. FirstViolation(ladder) = state_time_violation(StateAt(profile, t), now)
    BY DEF state_time_violation, StampsViolation, StateAt
<1>3. DOMAIN ladder = 1..4 /\ ladder[3] = Sub(StampViolation(ImportTime, now, MaxStateAge, r))
      /\ \A i \in 1..4 : ladder[i] = Sub(StampViolation(stamps[i], now, MaxStateAge, r))
    OBVIOUS
<1> HIDE DEF ladder, ladder3
<1>4. \A i \in 1..4 : ladder[i][1] => ladder[i][2] # Valid
    BY <1>3, SubClear
<1>6. ~ladder[3][1]
    BY <1>3, <1>4, <1>5, LadderClear
<1>7. FirstViolation(ladder3) = Valid
    BY <1>2, <1>3, <1>6, SubHolds
<1>8. ~ladder3[3][1]
    BY <1>1, <1>7, LadderClear
<1>9. ImportTime # None /\ ImportTime = 0
    BY NoneAssumption DEF ImportTime
<1>10. ~late
    BY <1>1, <1>8
<1> QED
    BY <1>9, <1>10, Limits DEF Fresh, late

(* A message without defects passes the checks that its defects stand for. *)
LEMMA StaticPasses ==
    ASSUME NEW m, m.defects = {}, NEW n \in Nat, NEW reasons, DOMAIN reasons = 1..n
    PROVE  FirstViolation(Static(m, reasons)) = Valid
<1> DEFINE ladder == Static(m, reasons)
<1>1. DOMAIN ladder = 1..n
    BY DEF Static
<1>2. \A i \in 1..n : ladder[i][1] = (reasons[i] \in m.defects)
    BY DEF Static
<1>3. \A i \in 1..n : ~(reasons[i] \in m.defects)
    OBVIOUS
<1>4. \A i \in 1..n : ~ladder[i][1]
    BY <1>2, <1>3, Zenon
<1> HIDE DEF ladder
<1> QED
    BY <1>1, <1>4, LadderPass DEF ladder

(* Every request of the script is authentic, and accepted until it is too  *)
(* old.                                                                    *)
LEMMA RequestPasses ==
    ASSUME NEW nonce, NEW profile, NEW t \in Nat, NEW u, NEW now \in Nat,
           t <= now, now - t <= MaxRequestAge
    PROVE  request_violation(RequestAt(nonce, t), StateAt(profile, u), None, "durable", now) = Valid
<1> DEFINE r == RequestAt(nonce, t)
           s == StateAt(profile, u)
           old == \E m \in {r, s} \cup ({None} \ {None}) : "PROTOCOL_VERSION_UNSUPPORTED" \in m.defects
           absent == "durable" = None
           light == "durable" = "volatile"
           ladder == <<
              <<old, "PROTOCOL_VERSION_UNSUPPORTED">>,
              Sub(request_time_violation(r, now)),
              Sub(request_auth_violation(r)),
              <<absent, "REQUEST_REPLAY_CACHE_REQUIRED">>,
              <<light, "REQUEST_REPLAY_STORE_DURABLE_REQUIRED">> >>
           nil == r.created_at = None
           early == r.created_at # None /\ r.created_at > now + ClockSkew
           late == r.created_at # None /\ now - r.created_at > MaxRequestAge
           times == << <<nil, "REQUEST_TIMESTAMP_INVALID">>, <<early, "REQUEST_NOT_YET_VALID">>,
                       <<late, "REQUEST_STALE">> >>
<1>1. r.created_at = t /\ r.defects = {} /\ s.defects = {}
    BY DEF RequestAt, StateAt
<1>2. FirstViolation(times) = request_time_violation(r, now)
    BY DEF request_time_violation
<1>3. ~nil /\ ~early /\ ~late
    BY <1>1, NoneAssumption, Limits
<1>4. FirstViolation(ladder) = request_violation(r, s, None, "durable", now)
    BY DEF request_violation
<1> HIDE DEF r, s
<1>5. ~old /\ ~absent /\ ~light
    <2>1. ~old
        BY <1>1
    <2>2. ~absent
        BY NoneAssumption
    <2>3. ~light
        OBVIOUS
    <2> QED
        BY <2>1, <2>2, <2>3
<1> HIDE DEF nil, early, late, old, absent, light
<1>6. DOMAIN times = 1..3 /\ \A i \in 1..3 : ~times[i][1]
    BY <1>3
<1>7. request_time_violation(r, now) = Valid
    BY <1>2, <1>6, LadderPass
<1>8. DOMAIN RequestChecks = 1..9
    BY DEF RequestChecks
<1>9. request_auth_violation(r) = Valid
    BY <1>1, <1>8, StaticPasses DEF request_auth_violation
<1>10. /\ DOMAIN ladder = 1..5
       /\ ladder[1][1] = old /\ ladder[2] = Sub(Valid) /\ ladder[3] = Sub(Valid)
       /\ ladder[4][1] = absent /\ ladder[5][1] = light
    BY <1>7, <1>9
<1> HIDE DEF ladder
<1>11. \A i \in 1..5 : ~ladder[i][1]
    BY <1>5, <1>10, SubAnswer
<1> QED
    BY <1>4, <1>10, <1>11, LadderPass DEF r, s

(* What the policy of the program holds.                                   *)
LEMMA PolicyFields ==
    /\ policy.policy = "remote-assist-authority-v0" /\ policy.capability = Ctx.capability
    /\ policy.lease_ttl = 20
    /\ policy.allowed_agents = {Ctx.agent} /\ policy.allowed_edges = {Ctx.edge}
    /\ policy.allowed_robots = {Ctx.robot} /\ policy.allowed_missions = {Ctx.mission}
    /\ policy.geofence_id = "test-zone-a" /\ policy.geofence_allowed = TRUE
    /\ policy.control_plane_required = FALSE
    /\ policy.max_speed = None
    /\ policy.network.max_latency = 80 /\ policy.network.max_loss = 1 /\ policy.network.min_uplink = 30
    /\ policy.network.deny_latency = 250 /\ policy.network.deny_loss = 10 /\ policy.network.deny_uplink = 8
BY DEF policy, Ctx

(* The profiles of the module network.                                     *)
LEMMA ProfileFields ==
    /\ PROFILES["normal"] = NetworkState("normal", TRUE, 45, 0, 80)
    /\ PROFILES["degraded_teleop"] = NetworkState("degraded_teleop", TRUE, 180, 4, 10)
    /\ PROFILES["uplink_bad"] = NetworkState("uplink_bad", TRUE, 70, 0, 6)
    /\ PROFILES["partition"] = NetworkState("partition", FALSE, 9999, 100, 0)
BY DEF PROFILES

(* The normal profile meets the policy's network requirements.             *)
LEMMA NormalNetwork == evaluate_network_requirements(policy.network, PROFILES["normal"]) = Valid
<1> DEFINE n == NetworkState("normal", TRUE, 45, 0, 80)
           q == policy.network
           unknown == n.profile = "unknown"
           partitioned == n.profile = "partition"
           detached == ~n.attached
           authority == << <<unknown, "NETWORK_STATE_UNKNOWN">>, <<partitioned, "NETWORK_DETACHED">>,
                           <<detached, "NETWORK_DETACHED">> >>
           b2 == n.latency > q.deny_latency
           b3 == n.loss > q.deny_loss
           b4 == n.uplink < q.deny_uplink
           b5 == n.latency > q.max_latency
           b6 == n.loss > q.max_loss
           b7 == n.uplink < q.min_uplink
           ladder == <<
        Sub(network_state_authority_violation(n)),
        <<b2, "NETWORK_LATENCY_TOO_HIGH">>,
        <<b3, "NETWORK_PACKET_LOSS_TOO_HIGH">>,
        <<b4, "NETWORK_UPLINK_TOO_LOW">>,
        <<b5, "NETWORK_LATENCY_DEGRADED">>,
        <<b6, "NETWORK_PACKET_LOSS_DEGRADED">>,
        <<b7, "NETWORK_UPLINK_DEGRADED">> >>
<1>1. n.profile = "normal" /\ n.attached = TRUE /\ n.latency = 45 /\ n.loss = 0 /\ n.uplink = 80
    BY DEF NetworkState
<1>2. FirstViolation(authority) = network_state_authority_violation(n)
    BY DEF network_state_authority_violation
<1>3. FirstViolation(ladder) = evaluate_network_requirements(q, n)
    BY DEF evaluate_network_requirements
<1>4. ~unknown /\ ~partitioned /\ ~detached
    BY <1>1
<1> HIDE DEF n
<1>5. ~b2 /\ ~b3 /\ ~b4 /\ ~b5 /\ ~b6 /\ ~b7
    BY <1>1, PolicyFields
<1> HIDE DEF unknown, partitioned, detached, b2, b3, b4, b5, b6, b7, q
<1>6. DOMAIN authority = 1..3 /\ \A i \in 1..3 : ~authority[i][1]
    BY <1>4
<1>7. network_state_authority_violation(n) = Valid
    BY <1>2, <1>6, LadderPass
<1>8. DOMAIN ladder = 1..7 /\ ladder[1] = Sub(Valid) /\ \A i \in 2..7 : ~ladder[i][1]
    BY <1>5, <1>7
<1> HIDE DEF ladder
<1>9. \A i \in 1..7 : ~ladder[i][1]
    BY <1>8, SubAnswer
<1>10. PROFILES["normal"] = n
    BY ProfileFields DEF n
<1> QED
    BY <1>3, <1>8, <1>9, <1>10, LadderPass DEF q

(* An allowed request had an acceptable state and network.                 *)
LEMMA CheckedPolicy ==
    ASSUME NEW r, NEW s, NEW now, policy_violation(r, s, policy, None, now) = Valid
    PROVE  /\ state_time_violation(s, now) = Valid
           /\ evaluate_network_requirements(policy.network, s.network) = Valid
<1> DEFINE ladder == policy_checks(r, s, policy, None, now)
<1>1. FirstViolation(ladder) = Valid
    BY Zenon DEF policy_violation
<1>2. DOMAIN ladder = 1..21
    BY DEF policy_checks
<1>3. \A i \in DOMAIN ladder : ladder[i][1] => ladder[i][2] # Valid
    BY <1>2, SubClear DEF policy_checks, Valid
<1>4. /\ ladder[13] = Sub(state_time_violation(s, now))
      /\ ladder[20] = Sub(evaluate_network_requirements(policy.network, s.network))
    BY DEF policy_checks
<1> HIDE DEF ladder
<1>5. ~ladder[13][1] /\ ~ladder[20][1]
    BY <1>1, <1>2, <1>3, LadderClear
<1> QED
    BY <1>4, <1>5, SubHolds

(* Every other profile breaks one of the requirements.                     *)
LEMMA ImpairedNetwork ==
    ASSUME NEW profile \in Impaired
    PROVE  evaluate_network_requirements(policy.network, PROFILES[profile]) # Valid
<1> DEFINE n == PROFILES[profile]
           q == policy.network
           b2 == n.latency > q.deny_latency
           b3 == n.loss > q.deny_loss
           b4 == n.uplink < q.deny_uplink
           b5 == n.latency > q.max_latency
           b6 == n.loss > q.max_loss
           b7 == n.uplink < q.min_uplink
           ladder == <<
        Sub(network_state_authority_violation(n)),
        <<b2, "NETWORK_LATENCY_TOO_HIGH">>,
        <<b3, "NETWORK_PACKET_LOSS_TOO_HIGH">>,
        <<b4, "NETWORK_UPLINK_TOO_LOW">>,
        <<b5, "NETWORK_LATENCY_DEGRADED">>,
        <<b6, "NETWORK_PACKET_LOSS_DEGRADED">>,
        <<b7, "NETWORK_UPLINK_DEGRADED">> >>
<1>1. n.uplink < q.min_uplink
    BY ProfileFields, PolicyFields DEF NetworkState, Impaired
<1>2. FirstViolation(ladder) = evaluate_network_requirements(q, n)
    BY DEF evaluate_network_requirements
<1>3. b7
    BY <1>1
<1> HIDE DEF b2, b3, b4, b5, b6, b7, n, q
<1>4. DOMAIN ladder = 1..7 /\ ladder[7][1] = b7
    OBVIOUS
<1>5. \A i \in 1..7 : ladder[i][1] => ladder[i][2] # Valid
    BY SubClear DEF Valid
<1> HIDE DEF ladder
<1>6. FirstViolation(ladder) # Valid
    <2>1. SUFFICES ASSUME FirstViolation(ladder) = Valid PROVE FALSE
        OBVIOUS
    <2>2. ~ladder[7][1]
        BY <1>4, <1>5, <2>1, LadderClear
    <2> QED
        BY <1>3, <1>4, <2>2
<1> QED
    BY <1>2, <1>6 DEF n, q

(* On an impaired profile nothing is allowed, whatever the time.           *)
LEMMA ImpairedRefused ==
    ASSUME NEW r, NEW profile \in Impaired, NEW t, NEW now
    PROVE  policy_violation(r, StateAt(profile, t), policy, None, now) # Valid
<1>1. StateAt(profile, t).network = PROFILES[profile]
    BY DEF StateAt
<1> QED
    BY <1>1, CheckedPolicy, ImpairedNetwork

(* What is allowed is allowed while the profiles are fresh.                *)
LEMMA GrantIsFresh ==
    ASSUME NEW r, NEW profile, NEW t, NEW now \in Nat,
           policy_violation(r, StateAt(profile, t), policy, None, now) = Valid
    PROVE  now <= Fresh
BY CheckedPolicy, StaleState

(* A decision is allow if and only if no reason was found against it.      *)
LEMMA DecisionOf ==
    ASSUME NEW reason
    PROVE  /\ decision_of(reason) \in {"allow", "degrade", "deny"}
           /\ decision_of(reason) = "allow" <=> reason = Valid
BY DEF decision_of, Valid, DegradedReasons

(* On the normal profile the request is allowed, as long as that profile   *)
(* is fresh.                                                               *)
LEMMA NormalAllowed ==
    ASSUME NEW nonce, NEW v, NEW t \in Nat, NEW now \in Nat, t <= now, now <= Fresh
    PROVE  policy_violation(RequestAt(nonce, v), StateAt("normal", t), policy, None, now) = Valid
<1> DEFINE r == RequestAt(nonce, v)
           s == StateAt("normal", t)
           ladder == policy_checks(r, s, policy, None, now)
<1>1. /\ r.ctx = Ctx /\ r.duration = 20 /\ r.requested = None
      /\ s.robot = Ctx.robot /\ s.edge = Ctx.edge /\ s.mission = Ctx.mission
      /\ s.human_declared = TRUE /\ s.human_operator_available = TRUE
      /\ s.geofence.id = "test-zone-a" /\ s.geofence.inside = TRUE
      /\ s.network = PROFILES["normal"] /\ s.defects = {}
    BY DEF RequestAt, StateAt
<1>2. state_time_violation(s, now) = Valid
    BY FreshState
<1> HIDE DEF r, s
<1> DEFINE b1 == AcceptedDigests = {}
           b2 == policy.policy \notin AcceptedDigests
           b3 == r.ctx.capability # policy.capability
           b4 == r.duration > policy.lease_ttl
           b5 == r.ctx.agent \notin policy.allowed_agents
           b6 == r.ctx.edge \notin policy.allowed_edges
           b7 == r.ctx.robot \notin policy.allowed_robots
           b8 == r.ctx.mission \notin policy.allowed_missions
           b9 == s.robot # r.ctx.robot \/ s.edge # r.ctx.edge
           b10 == s.mission # r.ctx.mission
           b11 == policy.human_operator_available /\ ~s.human_declared
           b15 == network_requirements_malformed(policy.network)
           b16 == network_state_malformed(s.network)
           b17 == policy.geofence_required /\ policy.geofence_id = None
           b18 == policy.geofence_required /\ (\/ s.geofence.id # policy.geofence_id
                              \/ s.geofence.inside # policy.geofence_allowed)
           b19 == policy.human_operator_available /\ ~s.human_operator_available
<1>3. DOMAIN ladder = 1..21
    BY DEF policy_checks
<1>4. /\ ladder[1][1] = b1 /\ ladder[2][1] = b2 /\ ladder[3][1] = b3 /\ ladder[4][1] = b4
      /\ ladder[5][1] = b5 /\ ladder[6][1] = b6 /\ ladder[7][1] = b7 /\ ladder[8][1] = b8
      /\ ladder[9][1] = b9 /\ ladder[10][1] = b10 /\ ladder[11][1] = b11
      /\ ladder[15][1] = b15 /\ ladder[16][1] = b16 /\ ladder[17][1] = b17
      /\ ladder[18][1] = b18 /\ ladder[19][1] = b19
    BY DEF policy_checks
<1>5. /\ ladder[12] = Sub(state_auth_violation(s))
      /\ ladder[13] = Sub(state_time_violation(s, now))
      /\ ladder[14] = Sub(control_plane_violation(r, None, policy, now))
      /\ ladder[20] = Sub(evaluate_network_requirements(policy.network, s.network))
      /\ ladder[21] = Sub(requested_constraint_violation(base_constraints(s, policy), r.requested))
    BY DEF policy_checks
<1>6. FirstViolation(ladder) = policy_violation(r, s, policy, None, now)
    BY DEF policy_violation
<1> HIDE DEF ladder
<1>7. ~b1 /\ ~b2
    BY ScenarioAssumption
<1>8. ~b3 /\ ~b5 /\ ~b6 /\ ~b7 /\ ~b8
    BY <1>1, PolicyFields
<1>9. ~b4
    BY <1>1, PolicyFields
<1>10. ~b9 /\ ~b10
    BY <1>1
<1>11. ~b11 /\ ~b19
    BY <1>1, Zenon
<1>12. ~b15
    BY PolicyFields DEF network_requirements_malformed, finite_nonnegative
<1>13. ~b16
    BY <1>1, ProfileFields DEF network_state_malformed, finite_nonnegative, NetworkState
<1>14. ~b17
    BY NoneAssumption
<1>15. ~b18
    BY <1>1, PolicyFields, Zenon
<1>16. state_auth_violation(s) = Valid
    <2> DEFINE reasons == <<
        "STATE_REQUIRED_FIELD_MISSING",
        "STATE_SIGNATURE_ALGORITHM_MISSING",
        "STATE_SIGNATURE_ALGORITHM_UNSUPPORTED",
        "STATE_AUTHENTICATED_EDGE_MISSING",
        "STATE_AUTHENTICATED_EDGE_MISMATCH",
        "STATE_SIGNATURE_MISSING",
        "EDGE_STATE_KEY_NOT_TRUSTED",
        "STATE_SIGNED_MATERIAL_TOO_LARGE",
        "STATE_SIGNATURE_INVALID" >>
    <2>1. DOMAIN reasons = 1..9
        OBVIOUS
    <2>2. state_auth_violation(s) = FirstViolation(Static(s, reasons))
        BY DEF state_auth_violation
    <2> HIDE DEF reasons
    <2> QED
        BY <1>1, <2>1, <2>2, StaticPasses
<1>17. control_plane_violation(r, None, policy, now) = Valid
    BY PolicyFields, Zenon DEF control_plane_violation
<1>18. evaluate_network_requirements(policy.network, s.network) = Valid
    BY <1>1, NormalNetwork
<1>19. requested_constraint_violation(base_constraints(s, policy), r.requested) = Valid
    BY <1>1, Zenon DEF requested_constraint_violation
<1>20. ladder[12] = Sub(Valid) /\ ladder[13] = Sub(Valid) /\ ladder[14] = Sub(Valid)
       /\ ladder[20] = Sub(Valid) /\ ladder[21] = Sub(Valid)
    BY <1>2, <1>5, <1>16, <1>17, <1>18, <1>19
<1>21. ~ladder[12][1] /\ ~ladder[13][1] /\ ~ladder[14][1] /\ ~ladder[20][1] /\ ~ladder[21][1]
    BY <1>20, SubAnswer
<1> HIDE DEF b1, b2, b3, b4, b5, b6, b7, b8, b9, b10, b11, b15, b16, b17, b18, b19
<1>22. \A i \in 1..21 : ~ladder[i][1]
    BY <1>4, <1>7, <1>8, <1>9, <1>10, <1>11, <1>12, <1>13, <1>14, <1>15, <1>21
<1> QED
    BY <1>3, <1>6, <1>22, LadderPass DEF r, s

(* The lease that issue_lease() signs for the script is LeaseAt(now).      *)
LEMMA LeaseIssued ==
    ASSUME NEW nonce, NEW profile, NEW v, NEW t, NEW p, NEW n, NEW now
    PROVE  issue_lease([pc |-> p, request |-> RequestAt(nonce, v), state |-> StateAt(profile, t),
                        policy |-> policy, assertion |-> None, now |-> n], 1, now) = LeaseAt(now)
BY DEF issue_lease, LeaseAt, granted_constraints, apply_requested_constraints, base_constraints,
       RequestAt, StateAt

(* The gate and the issuer read the rules of one module: the checks in     *)
(* order.                                                                  *)
LEMMA SameLadders ==
    /\ G!Valid = Valid
    /\ \A checks : G!FirstViolation(checks) = FirstViolation(checks)
    /\ \A reason : G!Sub(reason) = Sub(reason)
    /\ \A m, reasons : G!Static(m, reasons) = Static(m, reasons)
<1>1. G!Valid = Valid
    BY DEF G!Valid, Valid
<1>2. ASSUME NEW checks PROVE G!FirstViolation(checks) = FirstViolation(checks)
    BY DEF G!FirstViolation, FirstViolation, G!Valid, Valid
<1>3. ASSUME NEW reason PROVE G!Sub(reason) = Sub(reason)
    BY DEF G!Sub, Sub, G!Valid, Valid
<1>4. ASSUME NEW m, NEW reasons PROVE G!Static(m, reasons) = Static(m, reasons)
    BY DEF G!Static, Static
<1> QED
    BY <1>1, <1>2, <1>3, <1>4

(* The same for the rule about one timestamp.                              *)
LEMMA SameStamps ==
    ASSUME NEW t, NEW now, NEW age, NEW r
    PROVE  G!StampViolation(t, now, age, r) = StampViolation(t, now, age, r)
BY SameLadders DEF G!StampViolation, StampViolation

(* The same for the rule about several timestamps.                         *)
LEMMA SameStampsViolation ==
    ASSUME NEW stamps, NEW now, NEW age, NEW r
    PROVE  G!StampsViolation(stamps, now, age, r) = StampsViolation(stamps, now, age, r)
BY SameLadders, SameStamps DEF G!StampsViolation, StampsViolation

(* The same for the age of a state.                                        *)
LEMMA SameStateTime ==
    ASSUME NEW s, NEW now
    PROVE  G!state_time_violation(s, now) = state_time_violation(s, now)
BY SameStampsViolation DEF G!state_time_violation, state_time_violation

(* The same for the lifetime of a lease.                                   *)
LEMMA SameLeaseTime ==
    ASSUME NEW l, NEW now
    PROVE  G!lease_time_violation(l, now) = lease_time_violation(l, now)
BY SameLadders DEF G!lease_time_violation, lease_time_violation, G!is_expired, is_expired

(* The same for the scope, the signature and the constraints of a lease.   *)
LEMMA SameScope ==
    ASSUME NEW l
    PROVE  /\ G!capability_scope_violation(l) = capability_scope_violation(l)
           /\ G!lease_signature_violation(l) = lease_signature_violation(l)
           /\ G!lease_constraints_malformed(l) = lease_constraints_malformed(l)
<1>1. G!capability_scope_violation(l) = capability_scope_violation(l)
    BY SameLadders DEF G!capability_scope_violation, capability_scope_violation
<1>2. G!lease_signature_violation(l) = lease_signature_violation(l)
    BY SameLadders DEF G!lease_signature_violation, lease_signature_violation
<1>3. G!lease_constraints_malformed(l) = lease_constraints_malformed(l)
    BY DEF G!lease_constraints_malformed, lease_constraints_malformed, G!finite_nonnegative, finite_nonnegative
<1> QED
    BY <1>1, <1>2, <1>3

(* The fields of a lease of the script.                                    *)
LEMMA LeaseFields ==
    ASSUME NEW t
    PROVE  /\ LeaseAt(t).lease_id = <<"lease", 1>> /\ LeaseAt(t).nonce = <<"lease_nonce", 1>>
           /\ LeaseAt(t).issuer = IssuerId /\ LeaseAt(t).ctx = Ctx
           /\ LeaseAt(t).policy = policy.policy
           /\ LeaseAt(t).issued_at = t /\ LeaseAt(t).expires_at = t + 20
           /\ LeaseAt(t).defects = {} /\ LeaseAt(t).constraints = LeaseAt(0).constraints
<1>1. policy.lease_ttl = 20
    BY PolicyFields
<1> QED
    BY <1>1 DEF LeaseAt

(* The constraints of a lease of the script, which are the policy's own.   *)
LEMMA LeaseConstraints ==
    /\ LeaseAt(0).constraints.geofence_id = "test-zone-a"
    /\ LeaseAt(0).constraints.max_latency = 80
    /\ LeaseAt(0).constraints.max_loss = 1
    /\ LeaseAt(0).constraints.min_uplink = 30
    /\ LeaseAt(0).constraints.fallback = policy.fallback.on_network_degrade
    /\ LeaseAt(0).constraints.fallback_set = TRUE
    /\ LeaseAt(0).constraints.max_speed = None
BY PolicyFields DEF LeaseAt, base_constraints

(* A lease is not None.                                                    *)
LEMMA LeaseIsThere ==
    ASSUME NEW t \in Nat
    PROVE  LeaseAt(t) # None
<1> DEFINE S == [lease_id : {<<"lease", 1>>}, nonce : {<<"lease_nonce", 1>>}, issuer : {IssuerId},
                 ctx : {Ctx}, policy : {policy.policy}, issued_at : Nat, expires_at : Nat,
                 defects : {{}}, constraints : {LeaseAt(0).constraints}]
<1>1. t + policy.lease_ttl \in Nat
    BY PolicyFields
<1>2. LeaseAt(t) \in S
    BY <1>1 DEF LeaseAt
<1>3. None \notin S
    BY NoneAssumption
<1> QED
    BY <1>2, <1>3

(* A command of the script is authentic, and accepted until it is too old. *)
LEMMA CommandAnswer ==
    ASSUME NEW id, NEW t \in Nat, NEW now \in Nat, t <= now
    PROVE  G!command_auth_violation(CommandAt(id, t), now)
               = IF now - t <= 1 + ClockSkew THEN Valid ELSE "COMMAND_STALE"
<1> DEFINE m == CommandAt(id, t)
           v == IF now - t <= 1 + ClockSkew THEN Valid ELSE "COMMAND_STALE"
           rs == [invalid |-> "COMMAND_TIMESTAMP_INVALID", early |-> "COMMAND_NOT_YET_VALID",
                  stale |-> "COMMAND_STALE"]
           ladder == << Sub(Valid), Sub(v) >>
           reasons == <<
        "PROTOCOL_VERSION_UNSUPPORTED",
        "COMMAND_ID_MISSING",
        "COMMAND_NONCE_MISSING",
        "COMMAND_AUTHENTICATED_AGENT_MISSING",
        "COMMAND_AUTHENTICATED_AGENT_MISMATCH",
        "COMMAND_AGENT_KEY_NOT_TRUSTED",
        "COMMAND_SIGNATURE_ALGORITHM_MISSING",
        "COMMAND_SIGNATURE_ALGORITHM_UNSUPPORTED",
        "COMMAND_SIGNATURE_MISSING",
        "COMMAND_SIGNED_MATERIAL_TOO_LARGE",
        "COMMAND_SIGNATURE_INVALID" >>
<1>1. m.created_at = t /\ m.defects = {}
    BY DEF CommandAt
<1> HIDE DEF m
<1>2. DOMAIN reasons = 1..11
    OBVIOUS
<1>3. G!command_static_violation(m) = FirstViolation(Static(m, reasons))
    BY SameLadders DEF G!command_static_violation
<1> HIDE DEF reasons
<1>4. G!command_static_violation(m) = Valid
    BY <1>1, <1>2, <1>3, StaticPasses
<1>5. G!command_time_violation(m, now) = v
    <2>1. G!command_time_violation(m, now) = StampViolation(t, now, 1, rs)
        BY <1>1, SameStamps DEF G!command_time_violation
    <2>2. rs.stale = "COMMAND_STALE"
        OBVIOUS
    <2> HIDE DEF rs
    <2>3. CASE now - t <= 1 + ClockSkew
        <3>1. StampViolation(t, now, 1, rs) = Valid
            BY <2>3, StampPasses, Limits
        <3> QED
            BY <2>1, <2>3, <3>1
    <2>4. CASE ~(now - t <= 1 + ClockSkew)
        <3>1. now - t > 1 + ClockSkew
            BY <2>4, Limits
        <3>2. StampViolation(t, now, 1, rs) = "COMMAND_STALE"
            BY <2>2, <3>1, StampStale, Limits
        <3> QED
            BY <2>1, <2>4, <3>2
    <2> QED
        BY <2>3, <2>4
<1> HIDE DEF v
<1>6. G!command_auth_violation(m, now) = FirstViolation(ladder)
    BY <1>4, <1>5, SameLadders DEF G!command_auth_violation
<1>7. DOMAIN ladder = 1..2 /\ ladder[1] = Sub(Valid) /\ ladder[2] = Sub(v)
    OBVIOUS
<1> HIDE DEF ladder
<1>8. \A i \in 1..2 : i # 2 => ~ladder[i][1]
    BY <1>7, SubAnswer
<1>9. FirstViolation(ladder) = v
    <2>1. 2 \in Nat /\ 2 \in 1..2
        OBVIOUS
    <2> QED
        BY <1>7, <1>8, <2>1, LadderOnly
<1> QED
    BY <1>6, <1>9 DEF m, v

(* A command of the script is for the edge that the gate runs on.          *)
LEMMA CommandIsLocal ==
    ASSUME NEW id, NEW t, NEW l, l # None => l.ctx = Ctx
    PROVE  ~G!local_edge_context_mismatch(CommandAt(id, t), l)
BY DEF G!local_edge_context_mismatch, CommandAt

(* The revocation of the script is accepted until it is too old.           *)
LEMMA RevocationPasses ==
    ASSUME NEW u, NEW t \in Nat, NEW now \in Nat, t <= now, now - t <= 10 + ClockSkew
    PROVE  G!revocation_violation(RevocationAt(t), LeaseAt(u), now) = Valid
<1> DEFINE r == RevocationAt(t)
           l == LeaseAt(u)
           rs == [invalid |-> "REVOCATION_TIMESTAMP_INVALID", early |-> "REVOCATION_NOT_YET_VALID",
                  stale |-> "REVOCATION_STALE"]
           stamps == <<t, t>>
           ages == [k \in DOMAIN stamps |-> Sub(StampViolation(stamps[k], now, 10, rs))]
           back == r.created_at # None /\ r.revoked_at # None /\ r.revoked_at < r.created_at - ClockSkew
           times == << Sub(StampsViolation(stamps, now, 10, rs)), <<back, "REVOCATION_TIME_INCONSISTENT">> >>
           reasons == <<
            "REVOCATION_SIGNATURE_ALGORITHM_MISSING",
            "REVOCATION_SIGNATURE_ALGORITHM_UNSUPPORTED",
            "REVOCATION_SIGNATURE_MISSING",
            "REVOCATION_SIGNED_MATERIAL_TOO_LARGE",
            "REVOCATION_KEY_NOT_TRUSTED",
            "REVOCATION_SIGNATURE_INVALID" >>
           scopes == [e \in {Ctx.edge} |-> {Ctx.edge}]
           b1 == "PROTOCOL_VERSION_UNSUPPORTED" \in r.defects
           b2 == Ctx.edge # l.ctx.edge \/ Ctx.edge # r.edge
           b3 == r.revoked_by \notin DOMAIN scopes
           b5 == \/ r.revoked_by \notin DOMAIN scopes
                 \/ l.ctx.edge \notin scopes[r.revoked_by]
           b7 == l.lease_id # r.lease_id
           b8 == G!revocation_context_conflicts(r, l)
           ladder == <<
        <<b1, "PROTOCOL_VERSION_UNSUPPORTED">>,
        <<b2, "REVOCATION_EDGE_AGENT_MISMATCH">>,
        <<b3, "REVOCATION_ACTOR_NOT_TRUSTED">>,
        Sub(FirstViolation(Static(r, reasons))),
        <<b5, "REVOCATION_ACTOR_SCOPE_MISMATCH">>,
        Sub(G!revocation_time_violation(r, now)),
        <<b7, "REVOCATION_LEASE_MISMATCH">>,
        <<b8, "REVOCATION_CONTEXT_MISMATCH">> >>
<1>1. /\ r.created_at = t /\ r.revoked_at = t /\ r.defects = {} /\ r.edge = Ctx.edge
      /\ r.revoked_by = Ctx.edge /\ r.lease_id = <<"lease", 1>> /\ r.robot = Ctx.robot
      /\ r.mission = Ctx.mission /\ r.capability = Ctx.capability
    BY DEF RevocationAt
<1>2. l.ctx = Ctx /\ l.lease_id = <<"lease", 1>>
    BY LeaseFields
<1> HIDE DEF r, l
<1>3. FirstViolation(ladder) = G!revocation_violation(r, l, now)
    BY SameLadders DEF G!revocation_violation
<1>4. G!revocation_time_violation(r, now) = FirstViolation(times)
    BY <1>1, SameLadders, SameStampsViolation DEF G!revocation_time_violation
<1>5. ~back
    BY <1>1, Limits
<1>6. StampsViolation(stamps, now, 10, rs) = Valid
    <2> HIDE DEF rs
    <2>1. StampViolation(t, now, 10, rs) = Valid
        BY StampPasses, Limits
    <2>2. DOMAIN ages = 1..2 /\ ages[1] = Sub(Valid) /\ ages[2] = Sub(Valid)
        BY <2>1
    <2>3. FirstViolation(ages) = StampsViolation(stamps, now, 10, rs)
        BY DEF StampsViolation
    <2> HIDE DEF ages
    <2>4. \A i \in 1..2 : ~ages[i][1]
        BY <2>2, SubAnswer
    <2> QED
        BY <2>2, <2>3, <2>4, LadderPass
<1>7. G!revocation_time_violation(r, now) = Valid
    <2> HIDE DEF back
    <2>1. DOMAIN times = 1..2 /\ times[1] = Sub(Valid) /\ times[2][1] = back
        BY <1>6
    <2> HIDE DEF times
    <2>2. \A i \in 1..2 : ~times[i][1]
        BY <1>5, <2>1, SubAnswer
    <2> QED
        BY <1>4, <2>1, <2>2, LadderPass
<1>8. FirstViolation(Static(r, reasons)) = Valid
    <2>1. DOMAIN reasons = 1..6
        OBVIOUS
    <2> HIDE DEF reasons
    <2> QED
        BY <1>1, <2>1, StaticPasses
<1>9. ~b1 /\ ~b2 /\ ~b3 /\ ~b5 /\ ~b7 /\ ~b8
    BY <1>1, <1>2 DEF G!revocation_context_conflicts
<1> HIDE DEF b1, b2, b3, b5, b7, b8, reasons
<1>10. /\ DOMAIN ladder = 1..8
       /\ ladder[1][1] = b1 /\ ladder[2][1] = b2 /\ ladder[3][1] = b3 /\ ladder[4] = Sub(Valid)
       /\ ladder[5][1] = b5 /\ ladder[6] = Sub(Valid) /\ ladder[7][1] = b7 /\ ladder[8][1] = b8
    BY <1>7, <1>8
<1> HIDE DEF ladder
<1>11. \A i \in 1..8 : ~ladder[i][1]
    BY <1>9, <1>10, SubAnswer
<1> QED
    BY <1>3, <1>10, <1>11, LadderPass DEF r, l

(* A command that the gate finds valid comes while the profiles are fresh. *)
LEMMA FreshForwarded ==
    ASSUME NEW l, NEW m, NEW profile, NEW t, NEW revoked, NEW now \in Nat, l # None,
           l.ctx = Ctx,
           G!validate_lease_for_command(l, m, StateAt(profile, t), revoked, now) = Valid
    PROVE  now <= Fresh
<1> DEFINE s == StateAt(profile, t)
           ladder == G!admission_checks(l, m, s, revoked, now)
           b2 == "PROTOCOL_VERSION_UNSUPPORTED" \in s.defects
           states == << Sub(G!state_auth_violation(s)), <<b2, "PROTOCOL_VERSION_UNSUPPORTED">>,
                        Sub(G!state_time_violation(s, now)), Sub(G!validate_lease_against_state(l, s)) >>
<1> HIDE DEF s
<1>1. FirstViolation(ladder) = Valid
    BY SameLadders, Zenon DEF G!validate_lease_for_command, s
<1>2. DOMAIN ladder = 1..14 /\ ladder[13] = G!Sub(G!current_state_violation(l, s, now))
    BY DEF G!admission_checks
<1>3. \A i \in 1..14 : ladder[i][1] => ladder[i][2] # Valid
    BY SameLadders, SubClear DEF G!admission_checks, Valid
<1> HIDE DEF ladder
<1>4. ~ladder[13][1]
    BY <1>1, <1>2, <1>3, LadderClear
<1>5. G!current_state_violation(l, s, now) = Valid
    BY <1>2, <1>4, SameLadders, SubHolds
<1>6. FirstViolation(states) = Valid
    <2>1. G!lease_requires_current_state(l)
        BY DEF G!lease_requires_current_state, Ctx
    <2>2. "CURRENT_STATE_REQUIRED" # Valid
        BY DEF Valid
    <2>3. s # None
        BY <1>5, <2>1, <2>2, Zenon DEF G!current_state_violation
    <2> QED
        BY <1>5, <2>3, SameLadders, Zenon DEF G!current_state_violation
<1> HIDE DEF b2
<1>7. DOMAIN states = 1..4 /\ states[3] = Sub(G!state_time_violation(s, now))
      /\ \A i \in 1..4 : states[i][1] => states[i][2] # Valid
    BY SubClear DEF Valid
<1> HIDE DEF states
<1>8. ~states[3][1]
    BY <1>6, <1>7, LadderClear
<1>9. state_time_violation(s, now) = Valid
    BY <1>7, <1>8, SubHolds, SameStateTime
<1> QED
    BY <1>9, StaleState DEF s

(* A lease of the script is within its time, or has expired: it is never   *)
(* refused as too new, too old or too long.                                *)
LEMMA LeaseTime ==
    ASSUME NEW t \in Nat, NEW now \in Nat, t <= now
    PROVE  lease_time_violation(LeaseAt(t), now) \in {Valid, "LEASE_EXPIRED"}
<1> DEFINE l == LeaseAt(t)
           b1 == l.issued_at > now + ClockSkew
           b2 == is_expired(l, now)
           b3 == l.expires_at <= l.issued_at
           b4 == l.expires_at - l.issued_at > MaxLeaseTtl
           b5 == now - l.issued_at > MaxLeaseAge + ClockSkew
           ladder == <<
        <<b1, "LEASE_NOT_YET_VALID">>,
        <<b2, "LEASE_EXPIRED">>,
        <<b3, "LEASE_TIME_WINDOW_INVALID">>,
        <<b4, "LEASE_TTL_TOO_LONG">>,
        <<b5, "LEASE_STALE">> >>
<1>1. l.issued_at = t /\ l.expires_at = t + 20
    BY LeaseFields
<1> HIDE DEF l
<1>2. l.issued_at # None /\ l.expires_at # None
    BY <1>1, NoneAssumption
<1>3. lease_time_violation(l, now) = FirstViolation(ladder)
    BY <1>2, Zenon DEF lease_time_violation
<1>4. 20 <= MaxLeaseTtl /\ 20 <= MaxLeaseAge + ClockSkew
    BY ScenarioAssumption, PolicyFields
<1>5. ~b1 /\ ~b3 /\ ~b4
    BY <1>1, <1>4, Limits
<1>6. b5 => b2
    BY <1>1, <1>4, Limits DEF is_expired
<1> HIDE DEF b1, b2, b3, b4, b5
<1>7. /\ DOMAIN ladder = 1..5
      /\ ladder[1][1] = b1 /\ ladder[2][1] = b2 /\ ladder[3][1] = b3 /\ ladder[4][1] = b4
      /\ ladder[5][1] = b5 /\ ladder[2][2] = "LEASE_EXPIRED"
    OBVIOUS
<1> HIDE DEF ladder
<1>8. CASE b2
    <2>2. ladder[2][1] /\ ~ladder[1][1]
        BY <1>5, <1>7, <1>8, Zenon
    <2>1. PICK i \in 1..5 : /\ ladder[i][1]
                            /\ \A j \in 1..5 : ladder[j][1] => i <= j
                            /\ FirstViolation(ladder) = ladder[i][2]
        <3>1. \E k \in 1..5 : ladder[k][1]
            BY <2>2
        <3>2. DOMAIN ladder = 1..5
            BY <1>7
        <3> QED
            BY <3>1, <3>2, LadderFirst
    <2>3. i <= 2
        BY <2>1, <2>2
    <2>4. i # 1
        BY <2>1, <2>2
    <2>5. i = 2
        BY <2>3, <2>4
    <2> QED
        BY <1>3, <1>7, <2>1, <2>5 DEF l
<1>9. CASE ~b2
    <2>1. \A i \in 1..5 : ~ladder[i][1]
        BY <1>5, <1>6, <1>7, <1>9
    <2> QED
        BY <1>3, <1>7, <2>1, LadderPass DEF l
<1> QED
    BY <1>8, <1>9

(* Under a revoked lease every command is refused, as revoked or as        *)
(* expired.                                                                *)
LEMMA LastVerdict ==
    ASSUME NEW t \in Nat, NEW now \in Nat, t <= now, NEW id, NEW u, NEW s, NEW revoked,
           <<"lease", 1>> \in revoked
    PROVE  G!validate_lease_for_command(LeaseAt(t), CommandAt(id, u), s, revoked, now)
               \in {"LEASE_REVOKED", "LEASE_EXPIRED"}
<1> DEFINE l == LeaseAt(t)
           m == CommandAt(id, u)
           ladder == G!admission_checks(l, m, s, revoked, now)
           b1 == "PROTOCOL_VERSION_UNSUPPORTED" \in l.defects
           b2 == l.issuer \notin TrustedIssuers
           b3 == l.issuer \notin IssuerKeys
           b9 == lease_constraints_malformed(l)
           b11 == ~G!lease_matches_context(l, m.ctx)
           b12 == l.lease_id \in revoked
<1>1. /\ l.lease_id = <<"lease", 1>> /\ l.issuer = IssuerId /\ l.ctx = Ctx /\ l.policy = policy.policy
      /\ l.defects = {} /\ l.constraints = LeaseAt(0).constraints
    BY LeaseFields
<1>2. m.ctx = Ctx
    BY DEF CommandAt
<1>3. l # None
    BY LeaseIsThere
<1>4. lease_time_violation(l, now) \in {Valid, "LEASE_EXPIRED"}
    BY LeaseTime
<1> HIDE DEF l, m
<1>5. G!validate_lease_for_command(l, m, s, revoked, now) = FirstViolation(ladder)
    BY <1>3, SameLadders, Zenon DEF G!validate_lease_for_command
<1>6. /\ DOMAIN ladder = 1..14
      /\ ladder[1][1] = b1 /\ ladder[2][1] = b2 /\ ladder[3][1] = b3
      /\ ladder[9][1] = G!lease_constraints_malformed(l)
      /\ ladder[11][1] = b11 /\ ladder[12][1] = b12 /\ ladder[12][2] = "LEASE_REVOKED"
    BY DEF G!admission_checks
<1>7. /\ ladder[4] = G!Sub(G!lease_signature_violation(l))
      /\ ladder[5] = G!Sub(G!lease_policy_provenance_violation(l))
      /\ ladder[6] = G!Sub(G!capability_scope_violation(l))
      /\ ladder[7] = G!Sub(G!lease_time_violation(l, now))
      /\ ladder[8] = G!Sub(G!capability_constraint_requirement_violation(l))
      /\ ladder[10] = G!Sub(G!capability_constraint_bound_violation(l))
    BY DEF G!admission_checks
<1> HIDE DEF ladder
<1>8. ~b1 /\ ~b2 /\ ~b3
    BY <1>1, ScenarioAssumption
<1>9. ~b9
    BY <1>1, LeaseConstraints DEF lease_constraints_malformed, finite_nonnegative
<1>10. ~b11 /\ b12
    BY <1>1, <1>2 DEF G!lease_matches_context
<1>11. G!lease_signature_violation(l) = Valid
    <2> DEFINE reasons == <<
        "LEASE_SIGNATURE_ALGORITHM_MISSING",
        "LEASE_SIGNATURE_ALGORITHM_UNSUPPORTED",
        "LEASE_SIGNED_MATERIAL_TOO_LARGE",
        "INVALID_SIGNATURE" >>
    <2>1. DOMAIN reasons = 1..4
        OBVIOUS
    <2>2. lease_signature_violation(l) = FirstViolation(Static(l, reasons))
        BY DEF lease_signature_violation
    <2> HIDE DEF reasons
    <2> QED
        BY <1>1, <2>1, <2>2, StaticPasses, SameScope
<1>12. G!lease_policy_provenance_violation(l) = Valid
    <2> DEFINE p1 == {policy.policy} = {}
               p2 == l.policy = None
               p3 == l.policy \notin {policy.policy}
               steps == << <<p1, "POLICY_PROVENANCE_REQUIRED">>,
                           <<p2, "LEASE_POLICY_PROVENANCE_REQUIRED">>,
                           <<p3, "LEASE_POLICY_NOT_ACCEPTED">> >>
    <2>1. G!lease_policy_provenance_violation(l) = FirstViolation(steps)
        BY SameLadders DEF G!lease_policy_provenance_violation
    <2>2. ~p1 /\ ~p2 /\ ~p3
        BY <1>1, NoneAssumption
    <2> HIDE DEF p1, p2, p3
    <2>3. DOMAIN steps = 1..3 /\ \A i \in 1..3 : ~steps[i][1]
        BY <2>2
    <2> QED
        BY <2>1, <2>3, LadderPass
<1>13. G!capability_scope_violation(l) = Valid
    <2> DEFINE p1 == AcceptedCapabilities = {}
               p2 == l.ctx.capability \notin AcceptedCapabilities
               p3 == \/ l.issuer \notin DOMAIN IssuerScopes
                     \/ l.ctx.capability \notin IssuerScopes[l.issuer]
               steps == << <<p1, "CAPABILITY_SCOPE_REQUIRED">>,
                           <<p2, "CAPABILITY_NOT_GRANTED">>,
                           <<p3, "CAPABILITY_NOT_GRANTED">> >>
    <2>1. G!capability_scope_violation(l) = FirstViolation(steps)
        BY SameScope DEF capability_scope_violation
    <2>2. ~p1 /\ ~p2 /\ ~p3
        BY <1>1, ScenarioAssumption, ScopesAssumption
    <2> HIDE DEF p1, p2, p3
    <2>3. DOMAIN steps = 1..3 /\ \A i \in 1..3 : ~steps[i][1]
        BY <2>2
    <2> QED
        BY <2>1, <2>3, LadderPass
<1>14. G!capability_constraint_requirement_violation(l) = Valid
    <2> DEFINE q == [geofence |-> TRUE, network |-> TRUE, fallback |-> TRUE, max_speed |-> FALSE]
               required == [k \in {Ctx.capability} |-> q]
               known == l.ctx.capability \in DOMAIN required
               p1 == ~known
               p2 == known /\ G!capability_constraints_missing(l.constraints, required[l.ctx.capability])
               steps == << <<p1, "CAPABILITY_CONSTRAINT_REQUIREMENTS_REQUIRED">>,
                           <<p2, "LEASE_CONSTRAINTS_MISSING">> >>
    <2>1. G!capability_constraint_requirement_violation(l) = FirstViolation(steps)
        BY SameLadders DEF G!capability_constraint_requirement_violation
    <2>2. required[l.ctx.capability] = q /\ known
        BY <1>1
    <2>3. ~G!capability_constraints_missing(l.constraints, q)
        BY <1>1, LeaseConstraints, PolicyFields, NoneAssumption DEF G!capability_constraints_missing
    <2>4. ~p1 /\ ~p2
        BY <2>2, <2>3
    <2> HIDE DEF p1, p2
    <2>5. DOMAIN steps = 1..2 /\ \A i \in 1..2 : ~steps[i][1]
        BY <2>4
    <2> QED
        BY <2>1, <2>5, LadderPass
<1>15. G!capability_constraint_bound_violation(l) = Valid
    <2> DEFINE b == policy_constraint_bounds(policy)
               bounds == [k \in {Ctx.capability} |-> b]
               known == l.ctx.capability \in DOMAIN bounds
               p1 == ~known
               p2 == known /\ G!capability_constraints_exceed_bounds(l.constraints, bounds[l.ctx.capability])
               steps == << <<p1, "CAPABILITY_CONSTRAINT_BOUNDS_REQUIRED">>,
                           <<p2, "LEASE_CONSTRAINTS_EXCEED_POLICY">> >>
    <2>1. G!capability_constraint_bound_violation(l) = FirstViolation(steps)
        BY SameLadders DEF G!capability_constraint_bound_violation
    <2>2. bounds[l.ctx.capability] = b /\ known
        BY <1>1
    <2>3. /\ b.geofence_id \in {None, "test-zone-a"} /\ b.max_latency = 80 /\ b.max_loss = 1
          /\ b.min_uplink = 30 /\ b.fallback = policy.fallback.on_network_degrade
          /\ b.max_speed = None
        BY PolicyFields DEF policy_constraint_bounds
    <2> HIDE DEF b
    <2>4. ~G!capability_constraints_exceed_bounds(l.constraints, b)
        BY <1>1, <2>3, LeaseConstraints, NoneAssumption
           DEF G!capability_constraints_exceed_bounds, G!max_field_exceeds_policy, G!min_field_exceeds_policy
    <2>5. ~p1 /\ ~p2
        BY <2>2, <2>4
    <2> HIDE DEF p1, p2
    <2>6. DOMAIN steps = 1..2 /\ \A i \in 1..2 : ~steps[i][1]
        BY <2>5
    <2> QED
        BY <2>1, <2>6, LadderPass
<1>16. /\ ladder[4] = Sub(Valid) /\ ladder[5] = Sub(Valid) /\ ladder[6] = Sub(Valid)
       /\ ladder[7] = Sub(lease_time_violation(l, now))
       /\ ladder[8] = Sub(Valid) /\ ladder[10] = Sub(Valid)
    BY <1>7, <1>11, <1>12, <1>13, <1>14, <1>15, SameLadders, SameLeaseTime
<1>17. ~ladder[4][1] /\ ~ladder[5][1] /\ ~ladder[6][1] /\ ~ladder[8][1] /\ ~ladder[10][1]
    BY <1>16, SubAnswer
<1>18. ladder[7][1] => ladder[7][2] = "LEASE_EXPIRED"
    BY <1>4, <1>16, SubAnswer
<1>19. ~ladder[9][1]
    BY <1>6, <1>9, SameScope, Zenon
<1> HIDE DEF b1, b2, b3, b9, b11, b12
<1>21. /\ ladder[12][1]
       /\ ~ladder[1][1] /\ ~ladder[2][1] /\ ~ladder[3][1] /\ ~ladder[11][1]
    BY <1>6, <1>8, <1>10, Zenon
<1>20. PICK i \in 1..14 : /\ ladder[i][1]
                          /\ \A j \in 1..14 : ladder[j][1] => i <= j
                          /\ FirstViolation(ladder) = ladder[i][2]
    <2>1. \E k \in 1..14 : ladder[k][1]
        BY <1>21
    <2>2. DOMAIN ladder = 1..14
        BY <1>6
    <2> QED
        BY <2>1, <2>2, LadderFirst
<1>22. i <= 12
    BY <1>20, <1>21
<1>23. i \notin {1, 2, 3, 4, 5, 6, 8, 9, 10, 11}
    BY <1>17, <1>19, <1>20, <1>21
<1>24. i \in {7, 12}
    BY <1>22, <1>23
<1> QED
    BY <1>5, <1>6, <1>18, <1>20, <1>24 DEF l, m

-----------------------------------------------------------------------------
(* Sequences, and the shared log.                                          *)

(* A sequence over any set is a sequence over its own elements.            *)
LEMMA SeqOf ==
    ASSUME NEW U, NEW s \in Seq(U)
    PROVE  IsSeq(s)
BY DEF IsSeq

(* The domain of a sequence.                                               *)
LEMMA SeqLength ==
    ASSUME NEW s, IsSeq(s)
    PROVE  Len(s) \in Nat /\ DOMAIN s = 1..Len(s)
BY DEF IsSeq

(* What Append does to a sequence.                                         *)
LEMMA Appended ==
    ASSUME NEW s, IsSeq(s), NEW x
    PROVE  /\ IsSeq(Append(s, x))
           /\ Len(Append(s, x)) = Len(s) + 1
           /\ DOMAIN Append(s, x) = 1..(Len(s) + 1)
           /\ \A i \in 1..Len(s) : Append(s, x)[i] = s[i]
           /\ Append(s, x)[Len(s) + 1] = x
<1> DEFINE U == {s[i] : i \in DOMAIN s} \cup {x}
<1>1. s \in Seq({s[i] : i \in DOMAIN s})
    BY DEF IsSeq
<1>2. s \in Seq(U)
    <2>1. {s[i] : i \in DOMAIN s} \subseteq U
        OBVIOUS
    <2> HIDE DEF U
    <2> QED
        BY <1>1, <2>1
<1>3. x \in U
    OBVIOUS
<1> HIDE DEF U
<1>4. Append(s, x) \in Seq(U)
    BY <1>2, <1>3
<1>5. IsSeq(Append(s, x))
    BY <1>4, SeqOf
<1> QED
    BY <1>2, <1>3, <1>5

(* A sequence without elements is empty.                                   *)
LEMMA EmptyLength ==
    ASSUME NEW s, IsSeq(s), Len(s) = 0
    PROVE  s = << >>
BY DEF IsSeq

(* What a log holds after one more event.                                  *)
LEMMA LoggedGrows ==
    ASSUME NEW s, IsSeq(s), NEW e, NEW T, NEW ref
    PROVE  Logged(Append(s, e), T, ref) <=> Logged(s, T, ref) \/ (e.event_type \in T /\ e.ref = ref)
<1> DEFINE a == Append(s, e)
           n == Len(s)
<1>1. n \in Nat /\ DOMAIN s = 1..n
    BY SeqLength
<1>2. DOMAIN a = 1..(n + 1) /\ (\A i \in 1..n : a[i] = s[i]) /\ a[n + 1] = e
    BY Appended
<1> HIDE DEF a, n
<1>3. ASSUME Logged(a, T, ref) PROVE Logged(s, T, ref) \/ (e.event_type \in T /\ e.ref = ref)
    <2>1. PICK i \in 1..(n + 1) : a[i].event_type \in T /\ a[i].ref = ref
        BY <1>2, <1>3 DEF Logged
    <2>2. CASE i = n + 1
        BY <1>2, <2>1, <2>2
    <2>3. CASE i # n + 1
        <3>1. i \in 1..n
            BY <1>1, <2>3
        <3> QED
            BY <1>1, <1>2, <2>1, <3>1 DEF Logged
    <2> QED
        BY <2>2, <2>3
<1>4. ASSUME Logged(s, T, ref) PROVE Logged(a, T, ref)
    <2>1. PICK i \in 1..n : s[i].event_type \in T /\ s[i].ref = ref
        BY <1>1, <1>4 DEF Logged
    <2>2. i \in 1..(n + 1)
        BY <1>1
    <2> QED
        BY <1>2, <2>1, <2>2 DEF Logged
<1>5. ASSUME e.event_type \in T, e.ref = ref PROVE Logged(a, T, ref)
    <2>1. n + 1 \in 1..(n + 1)
        BY <1>1
    <2> QED
        BY <1>2, <1>5, <2>1 DEF Logged
<1> QED
    BY <1>3, <1>4, <1>5 DEF a

\* e may follow the events of s.
Follows(s, e, profile) ==
    /\ e.event_type \in DecisionTypes =>
           /\ Logged(s, {"CAPABILITY_REQUESTED"}, e.ref)
           /\ Logged(s, {"NETWORK_STATE_ASSERTED"}, IF e.ref = "first" THEN "normal" ELSE profile)
           /\ ~Logged(s, DecisionTypes, e.ref)
    /\ e.event_type \in {"COMMAND_ALLOWED", "LEASE_REVOKED"} => Logged(s, {"CAPABILITY_ALLOWED"}, "first")
    /\ e.event_type = "FALLBACK_DECLARED" =>
           /\ Len(s) >= 1
           /\ s[Len(s)].event_type \in {"LEASE_REVOKED", "COMMAND_REJECTED"}
           /\ s[Len(s)].reason_code = e.reason_code
    /\ e.event_type = "CAPABILITY_REQUESTED" => e.ref \in {"first", "second"}

(* What comes before an event stays there, and all that was logged comes   *)
(* before the next event.                                                  *)
LEMMA EarlierGrows ==
    ASSUME NEW s, IsSeq(s), NEW e, NEW type, NEW ref
    PROVE  /\ \A i \in DOMAIN s : Earlier(s, i, type, ref) => Earlier(Append(s, e), i, type, ref)
           /\ Logged(s, {type}, ref) => Earlier(Append(s, e), Len(s) + 1, type, ref)
<1> DEFINE a == Append(s, e)
           n == Len(s)
<1>1. n \in Nat /\ DOMAIN s = 1..n
    BY SeqLength
<1>2. \A i \in 1..n : a[i] = s[i]
    BY Appended
<1> HIDE DEF a, n
<1>3. ASSUME NEW i \in DOMAIN s, Earlier(s, i, type, ref) PROVE Earlier(a, i, type, ref)
    <2>1. PICK j \in 1..(i - 1) : s[j].event_type = type /\ s[j].ref = ref
        BY <1>3 DEF Earlier
    <2>2. j \in 1..n
        BY <1>1
    <2> QED
        BY <1>2, <2>1, <2>2 DEF Earlier
<1>4. ASSUME Logged(s, {type}, ref) PROVE Earlier(a, n + 1, type, ref)
    <2>1. PICK j \in 1..n : s[j].event_type = type /\ s[j].ref = ref
        BY <1>1, <1>4 DEF Logged
    <2>2. j \in 1..((n + 1) - 1)
        BY <1>1
    <2> QED
        BY <1>2, <2>1, <2>2 DEF Earlier
<1> QED
    BY <1>3, <1>4 DEF a, n

(* A log stays in order when the next event follows from what it holds.    *)
LEMMA OrderedGrows ==
    ASSUME NEW s, IsSeq(s), NEW e, NEW profile, Ordered(s, profile), Follows(s, e, profile)
    PROVE  Ordered(Append(s, e), profile)
<1> DEFINE a == Append(s, e)
           n == Len(s)
<1>1. n \in Nat /\ DOMAIN s = 1..n
    BY SeqLength
<1>2. DOMAIN a = 1..(n + 1) /\ (\A i \in 1..n : a[i] = s[i]) /\ a[n + 1] = e
    BY Appended
<1>3. \A type, ref : /\ \A i \in DOMAIN s : Earlier(s, i, type, ref) => Earlier(a, i, type, ref)
                     /\ Logged(s, {type}, ref) => Earlier(a, n + 1, type, ref)
    BY EarlierGrows
<1> HIDE DEF a
<1>4. ASSUME NEW i \in 1..n
      PROVE  InOrder(a, i, profile)
    <2>1. a[i] = s[i] /\ i \in DOMAIN s
        BY <1>1, <1>2
    <2>2. ASSUME a[i].event_type \in DecisionTypes
          PROVE  /\ Earlier(a, i, "CAPABILITY_REQUESTED", a[i].ref)
                 /\ Earlier(a, i, "NETWORK_STATE_ASSERTED", IF a[i].ref = "first" THEN "normal" ELSE profile)
        BY <1>3, <2>1, <2>2 DEF Ordered, InOrder
    <2>3. ASSUME a[i].event_type \in DecisionTypes, NEW j \in DOMAIN a,
                 a[j].event_type \in DecisionTypes, a[j].ref = a[i].ref
          PROVE  j = i
        <3>1. CASE j \in 1..n
            BY <1>1, <1>2, <2>1, <2>3, <3>1 DEF Ordered, InOrder
        <3>2. CASE j \notin 1..n
            <4>1. j = n + 1
                BY <1>1, <1>2, <3>2
            <4>2. e.event_type \in DecisionTypes /\ e.ref = s[i].ref
                BY <1>2, <2>1, <2>3, <4>1
            <4>3. ~Logged(s, DecisionTypes, e.ref)
                BY <4>2 DEF Follows
            <4> QED
                BY <2>1, <2>3, <4>2, <4>3 DEF Logged
        <3> QED
            BY <3>1, <3>2
    <2>4. a[i].event_type \in {"COMMAND_ALLOWED", "LEASE_REVOKED"} => Earlier(a, i, "CAPABILITY_ALLOWED", "first")
        BY <1>3, <2>1 DEF Ordered, InOrder
    <2>5. ASSUME a[i].event_type = "FALLBACK_DECLARED"
          PROVE  /\ i > 1
                 /\ a[i - 1].event_type \in {"LEASE_REVOKED", "COMMAND_REJECTED"}
                 /\ a[i - 1].reason_code = a[i].reason_code
        <3>1. /\ i > 1 /\ s[i - 1].event_type \in {"LEASE_REVOKED", "COMMAND_REJECTED"}
              /\ s[i - 1].reason_code = s[i].reason_code
            BY <2>1, <2>5 DEF Ordered, InOrder
        <3>2. a[i - 1] = s[i - 1]
            BY <1>1, <1>2, <3>1
        <3> QED
            BY <2>1, <3>1, <3>2
    <2>6. a[i].event_type = "CAPABILITY_REQUESTED" => a[i].ref \in {"first", "second"}
        BY <2>1 DEF Ordered, InOrder
    <2> QED
        BY <2>2, <2>3, <2>4, <2>5, <2>6 DEF InOrder
<1>5. ASSUME NEW i \in DOMAIN a, i \notin 1..n
      PROVE  InOrder(a, i, profile)
    <2>1. i = n + 1 /\ a[i] = e
        BY <1>1, <1>2, <1>5
    <2>2. ASSUME e.event_type \in DecisionTypes
          PROVE  /\ Earlier(a, i, "CAPABILITY_REQUESTED", e.ref)
                 /\ Earlier(a, i, "NETWORK_STATE_ASSERTED", IF e.ref = "first" THEN "normal" ELSE profile)
        BY <1>3, <2>1, <2>2 DEF Follows
    <2>3. ASSUME e.event_type \in DecisionTypes, NEW j \in DOMAIN a,
                 a[j].event_type \in DecisionTypes, a[j].ref = e.ref
          PROVE  j = i
        <3>1. ~Logged(s, DecisionTypes, e.ref)
            BY <2>3 DEF Follows
        <3>2. j \notin 1..n
            BY <1>1, <1>2, <2>3, <3>1 DEF Logged
        <3> QED
            BY <1>1, <1>2, <2>1, <3>2
    <2>4. e.event_type \in {"COMMAND_ALLOWED", "LEASE_REVOKED"} => Earlier(a, i, "CAPABILITY_ALLOWED", "first")
        BY <1>3, <2>1 DEF Follows
    <2>5. ASSUME e.event_type = "FALLBACK_DECLARED"
          PROVE  /\ i > 1
                 /\ a[i - 1].event_type \in {"LEASE_REVOKED", "COMMAND_REJECTED"}
                 /\ a[i - 1].reason_code = e.reason_code
        <3>1. /\ n >= 1 /\ s[n].event_type \in {"LEASE_REVOKED", "COMMAND_REJECTED"}
              /\ s[n].reason_code = e.reason_code
            BY <2>5 DEF Follows
        <3>2. i - 1 = n /\ n \in 1..n /\ i > 1
            BY <1>1, <2>1, <3>1
        <3>3. a[i - 1] = s[n]
            BY <1>2, <3>2
        <3> QED
            BY <3>1, <3>2, <3>3
    <2>6. e.event_type = "CAPABILITY_REQUESTED" => e.ref \in {"first", "second"}
        BY DEF Follows
    <2> QED
        BY <2>1, <2>2, <2>3, <2>4, <2>5, <2>6 DEF InOrder
<1>6. Ordered(a, profile)
    BY <1>2, <1>4, <1>5 DEF Ordered
<1> QED
    BY <1>6 DEF a

-----------------------------------------------------------------------------
(* The invariant, and the steps that leave the issuer and the gate alone.  *)

(* The stage is a number from 0 to 17.                                     *)
LEMMA StageType == Shape => stage \in 0..17
BY StageDomain, StageOf DEF Shape, stage

(* The shape holds initially.                                              *)
LEMMA InitShape == DemoInit => Shape
<1> SUFFICES ASSUME DemoInit PROVE Shape
    OBVIOUS
<1>1. /\ clock = 0 /\ up = [e \in Engine |-> FALSE] /\ work = [e \in Engine |-> IdleWork]
      /\ decisions = << >> /\ issued = << >>
    BY DEF DemoInit, Init
<1>2. /\ gate_up = [g \in {"gate"} |-> FALSE] /\ gate_call = [g \in {"gate"} |-> G!IdleCall]
      /\ audit_log = [g \in {"gate"} |-> << >>]
      /\ revocations = [g \in {"gate"} |-> [i \in G!LeaseIds |-> None]]
      /\ declared = << >> /\ forwarded = << >>
    BY DEF DemoInit, G!Init
<1>3. G!LeaseIds = {<<"lease", 1>>}
    BY LeaseFields DEF G!LeaseIds
<1>4. impaired \in Impaired /\ pc = "setup"
    BY DEF DemoInit, PROFILES, Impaired
<1>5. IsSeq(<< >>)
    BY DEF IsSeq
<1>6. revocations["gate"] = [i \in {<<"lease", 1>>} |-> None] /\ "gate" \in DOMAIN revocations
    BY <1>2, <1>3
<1>7. pc \in DOMAIN Stage
    BY <1>4, StageDomain
<1>8. "issuer" \in Engine
    BY ScenarioAssumption
<1> QED
    BY <1>1, <1>2, <1>4, <1>5, <1>6, <1>7, <1>8 DEF Shape, log

(* The invariant holds initially.                                          *)
LEMMA InitInv == DemoInit => CoreInv
<1> SUFFICES ASSUME DemoInit PROVE CoreInv
    OBVIOUS
<1>1. Shape
    BY InitShape
<1>2. stage = 0 /\ pc = "setup"
    BY StageOf DEF DemoInit, stage
<1>3. /\ job = IdleWork /\ Len(decisions) = 0 /\ Len(issued) = 0 /\ nonces = {}
    BY ScenarioAssumption DEF DemoInit, Init, job
<1>4. /\ gcall = G!IdleCall /\ replay_entries = {} /\ revocation_messages = {}
      /\ forwarded = << >> /\ log = << >>
    BY DEF DemoInit, G!Init, gcall, log
<1>5. revoked_leases = [i \in {<<"lease", 1>>} |-> None]
    <2>1. G!LeaseIds = {<<"lease", 1>>}
        BY LeaseFields DEF G!LeaseIds
    <2> QED
        BY <2>1 DEF DemoInit, G!Init
<1>6. Messages
    BY <1>2 DEF Messages
<1>7. Working
    BY <1>3 DEF Working
<1>8. Made = 0 /\ job.pc = "idle"
    BY <1>2, <1>3 DEF Made, IdleWork
<1>9. Deciding
    BY <1>2, <1>3, <1>8 DEF Deciding
<1>10. Granting
    BY <1>2, <1>3, <1>8 DEF Granting
<1>11. Calling
    BY <1>4 DEF Calling
<1>12. gcall.pc = "idle"
    BY <1>4 DEF G!IdleCall
<1>13. Enforcing
    BY <1>2, <1>4, <1>5, <1>12 DEF Enforcing
<1>14. Ordered(log, impaired)
    BY <1>4 DEF Ordered
<1>15. RecordedIn(log)
    BY <1>2, <1>4, <1>8 DEF RecordedIn, Logged
<1> QED
    BY <1>1, <1>2, <1>6, <1>7, <1>9, <1>10, <1>11, <1>13, <1>14, <1>15
       DEF CoreInv, IssuerInv, GateInv, LogInv

(* The clock goes on, and nothing that the issuer has done changes: the    *)
(* step is one of the gate, or of the script between two evaluations.      *)
LEMMA IssuerFrame ==
    ASSUME Shape, IssuerInv, clock' \in Nat, clock <= clock', stage' \in 0..17,
           UNCHANGED <<work, nonces, decisions, issued, lease>>,
           \/ stage' = stage /\ UNCHANGED <<request, state>>
           \/ /\ job = IdleWork
              /\ \/ stage < 4 /\ stage' < 4
                 \/ stage \in 5..11 /\ stage' \in 5..11
                 \/ stage \in 12..17 /\ stage' \in 13..17
    PROVE  IssuerInv' /\ Made' = Made /\ Allowed' = Allowed
<1>1. job' = job /\ stage \in 0..17 /\ clock \in Nat
    BY StageType DEF job, Shape
<1>2. job = IdleWork => job.pc = "idle"
    BY DEF IdleWork
<1>3. Made' = Made
    BY <1>1, <1>2 DEF Made
<1>4. Allowed' = Allowed
    BY DEF Allowed
<1>5. Working'
    BY <1>1 DEF IssuerInv, Working, WorkAt
<1>6. Deciding'
    BY <1>1, <1>2, <1>3, Limits DEF IssuerInv, Deciding
<1>7. Granting'
    BY <1>1, <1>2, <1>4 DEF IssuerInv, Granting
<1> QED
    BY <1>3, <1>4, <1>5, <1>6, <1>7 DEF IssuerInv

(* Nothing that the gate has done changes, and its log only grows.         *)
LEMMA GateFrame ==
    ASSUME Shape, GateInv, clock' \in Nat, clock <= clock', stage' \in 0..17,
           UNCHANGED <<gate_call, durable_vars, revocations, forwarded, declared>>,
           \/ stage' = stage /\ (stage \in {16, 17} /\ LastRefused => LastRefused') /\ UNCHANGED <<pc, state, lease>>
           \/ gcall = G!IdleCall /\ stage < 14 /\ stage' \in 1..13
           \/ gcall = G!IdleCall /\ stage = 15 /\ stage' = 15 /\ UNCHANGED lease
    PROVE  GateInv'
<1>1. gcall' = gcall /\ stage \in 0..17 /\ clock \in Nat
    BY StageType DEF gcall, Shape
<1>2. gcall = G!IdleCall => gcall.pc = "idle"
    BY DEF G!IdleCall
<1>3. Revoked' = Revoked /\ revocation_fallback' = revocation_fallback
    BY DEF Revoked, revocation_fallback
<1>4. Calling'
    <2>1. CASE gcall = G!IdleCall
        BY <1>1, <2>1 DEF Calling, G!IdleCall
    <2>2. CASE UNCHANGED <<pc, state, lease>>
        BY <1>1, <2>2 DEF GateInv, Calling, CallAt, RevokeAt, LeaseSent, G!IdleCall
    <2> QED
        BY <2>1, <2>2
<1>5. Enforcing'
    BY <1>1, <1>2, <1>3 DEF GateInv, Enforcing, durable_vars
<1> QED
    BY <1>1, <1>2, <1>4, <1>5 DEF GateInv

(* The log, and what the invariant says about it, are not disturbed by a   *)
(* step that logs nothing and passes no stage at which something must have *)
(* been logged.                                                            *)
LEMMA LogFrame ==
    ASSUME Shape, LogInv, UNCHANGED <<audit_log, impaired>>, stage' \in 0..17,
           Made' = Made, Allowed' = Allowed,
           \A k \in {2, 3, 5, 10, 11} : stage' >= k <=> stage >= k
    PROVE  LogInv'
<1>1. log' = log
    BY DEF log
<1>2. Ordered(log, impaired)'
    BY <1>1 DEF LogInv
<1>3. RecordedIn(log)'
    BY <1>1 DEF LogInv, RecordedIn
<1> QED
    BY <1>2, <1>3 DEF LogInv

(* A log keeps what it must hold when an event that is no decision is      *)
(* added.                                                                  *)
LEMMA RecordedGrows ==
    ASSUME NEW s, IsSeq(s), NEW e, e.event_type \notin DecisionTypes, RecordedIn(s)
    PROVE  RecordedIn(Append(s, e))
<1>1. \A T, ref : Logged(Append(s, e), T, ref) <=> Logged(s, T, ref) \/ (e.event_type \in T /\ e.ref = ref)
    BY LoggedGrows
<1> QED
    BY <1>1 DEF RecordedIn

(* An event that is no decision is logged, and the script is where it was. *)
LEMMA LogEvent ==
    ASSUME NEW s, IsSeq(s), Ordered(s, impaired), RecordedIn(s), NEW e,
           e.event_type \notin DecisionTypes, Follows(s, e, impaired)
    PROVE  Ordered(Append(s, e), impaired) /\ RecordedIn(Append(s, e)) /\ IsSeq(Append(s, e))
BY OrderedGrows, RecordedGrows, Appended

(* The same log is complete after a step of the gate, which does not move  *)
(* the script.                                                             *)
LEMMA RecordedStep ==
    ASSUME NEW s, RecordedIn(s), UNCHANGED impaired, stage' = stage, Made' = Made, Allowed' = Allowed,
           log' = s, Ordered(s, impaired)
    PROVE  LogInv'
<1>1. RecordedIn(log)'
    BY DEF RecordedIn
<1>2. Ordered(log, impaired)'
    OBVIOUS
<1> QED
    BY <1>1, <1>2 DEF LogInv

(* A message that came too late is too late from then on.                  *)
LEMMA StaysOverdue ==
    ASSUME NEW age \in Nat, clock \in Nat, clock' \in Nat, clock <= clock',
           message.created_at \in Nat, message'.created_at = message.created_at, Overdue(age)
    PROVE  Overdue(age)'
<1>1. clock - message.created_at > age + ClockSkew
    BY DEF Overdue
<1>2. clock' - message.created_at > age + ClockSkew
    BY <1>1, Limits
<1>3. clock' - message'.created_at > age + ClockSkew
    BY <1>2
<1> QED
    BY <1>3 DEF Overdue

(* A suspension of the process, of any length and at any point, preserves  *)
(* the invariant.                                                          *)
LEMMA PauseInv == CoreInv /\ Drafted /\ Pause => CoreInv'
<1> SUFFICES ASSUME CoreInv, Drafted, Pause PROVE CoreInv'
    OBVIOUS
<1>1. clock' \in Nat /\ clock <= clock'
    BY ScenarioAssumption DEF Pause, CoreInv, Shape
<1>2. /\ UNCHANGED <<work, nonces, decisions, issued, up>>
      /\ UNCHANGED <<gate_call, durable_vars, revocations, forwarded, declared, audit_log, gate_up>>
      /\ UNCHANGED <<pc, impaired, request, state, lease, message>>
    BY DEF Pause, engine_vars, gate_vars, gate_process, durable_vars, script_vars
<1>3. stage' = stage /\ stage \in 0..17 /\ log' = log
    BY <1>2, StageType DEF stage, CoreInv, log
<1>4. Shape'
    BY <1>1, <1>2, <1>3 DEF CoreInv, Shape
<1>5. Messages'
    BY <1>1, <1>2, <1>3 DEF CoreInv, Shape, Messages
<1>6. IssuerInv' /\ Made' = Made /\ Allowed' = Allowed
    BY <1>1, <1>2, <1>3, IssuerFrame DEF CoreInv
<1>7. ASSUME stage \in {16, 17}, LastRefused PROVE LastRefused'
    <2>1. pc \in {"commanding_last", "done"}
        BY <1>7, StageOf, StageDomain DEF stage, CoreInv, Shape
    <2>2. PICK t \in 0..clock : message = CommandAt("cmd_after_revocation", t)
        BY <2>1 DEF Drafted, DraftId
    <2>3. message.created_at = t /\ message'.created_at = t /\ t \in Nat /\ clock \in Nat
        BY <1>2, <2>2 DEF CommandAt, CoreInv, Shape
    <2>4. Overdue(1) => Overdue(1)'
        BY <1>1, <2>3, StaysOverdue
    <2> QED
        BY <1>2, <1>3, <1>7, <2>4 DEF LastRefused
<1>8. GateInv'
    BY <1>1, <1>2, <1>3, <1>7, GateFrame DEF CoreInv
<1>9. LogInv'
    BY <1>2, <1>3, <1>6, LogFrame DEF CoreInv
<1> QED
    BY <1>4, <1>5, <1>6, <1>8, <1>9 DEF CoreInv

(* So does a step that changes nothing.                                    *)
LEMMA StutterInv == CoreInv /\ UNCHANGED demo_vars => CoreInv'
<1> SUFFICES ASSUME CoreInv, UNCHANGED demo_vars PROVE CoreInv'
    OBVIOUS
<1>1. /\ UNCHANGED <<clock, work, nonces, decisions, issued, up>>
      /\ UNCHANGED <<gate_call, durable_vars, revocations, forwarded, declared, audit_log, gate_up>>
      /\ UNCHANGED <<pc, impaired, request, state, lease, message>>
    BY DEF demo_vars, engine_vars, gate_vars, gate_process, durable_vars, script_vars
<1>2. stage' = stage /\ stage \in 0..17 /\ log' = log /\ clock \in Nat
    BY <1>1, StageType DEF stage, CoreInv, log, Shape
<1>3. Shape'
    BY <1>1, <1>2 DEF CoreInv, Shape
<1>4. Messages'
    BY <1>1, <1>2 DEF CoreInv, Messages
<1>5. IssuerInv' /\ Made' = Made /\ Allowed' = Allowed
    BY <1>1, <1>2, IssuerFrame DEF CoreInv
<1>6. LastRefused' = LastRefused
    BY <1>1, <1>2 DEF LastRefused, Overdue
<1>7. GateInv'
    BY <1>1, <1>2, <1>6, GateFrame DEF CoreInv
<1>8. LogInv'
    BY <1>1, <1>2, <1>5, LogFrame DEF CoreInv
<1> QED
    BY <1>3, <1>4, <1>5, <1>7, <1>8 DEF CoreInv

(* An event of the script goes to the shared log.                          *)
LEMMA AuditGrows ==
    ASSUME Shape, NEW type, NEW ref, Audit(type, ref)
    PROVE  /\ log' = Append(log, [event_type |-> type, reason_code |-> None, ref |-> ref])
           /\ "gate" \in DOMAIN audit_log'
           /\ IsSeq(log')
           /\ UNCHANGED <<gate_calls, durable_vars, gate_process>>
<1>1. /\ audit_log' = [audit_log EXCEPT !["gate"] = Append(@, G!AuditEvent(type, None, ref))]
      /\ UNCHANGED <<gate_calls, durable_vars, gate_process>>
    BY DEF Audit
<1>2. "gate" \in DOMAIN audit_log /\ IsSeq(log)
    BY DEF Shape
<1>3. log' = Append(log, G!AuditEvent(type, None, ref))
    BY <1>1, <1>2 DEF log
<1>4. "gate" \in DOMAIN audit_log'
    BY <1>1, <1>2
<1>5. IsSeq(log')
    BY <1>2, <1>3, Appended
<1> QED
    BY <1>1, <1>3, <1>4, <1>5 DEF G!AuditEvent

(* The construction of the stores, the issuer and the gate preserves the   *)
(* invariant.                                                              *)
LEMMA SetupInv == CoreInv /\ Setup => CoreInv'
<1> SUFFICES ASSUME CoreInv, Setup PROVE CoreInv'
    OBVIOUS
<1>1. pc = "setup" /\ UNCHANGED <<impaired, request, state, lease, message>> /\ stage = 0
    BY StageOf DEF Setup, stage
<1>2. Shape /\ IssuerInv /\ GateInv /\ LogInv /\ clock \in Nat
    BY DEF CoreInv, Shape
<1>3. CASE Start("issuer") /\ UNCHANGED <<gate_vars, pc>>
    <2>1. /\ UNCHANGED <<clock, work, nonces, decisions, issued, pc>>
          /\ "issuer" \in DOMAIN up'
          /\ UNCHANGED <<gate_call, durable_vars, revocations, forwarded, declared, audit_log, gate_up>>
        BY <1>2, <1>3 DEF Start, gate_vars, gate_process, durable_vars, Shape
    <2>2. stage' = stage /\ log' = log
        BY <2>1 DEF stage, log
    <2>3. Shape'
        BY <1>1, <1>2, <2>1, <2>2 DEF Shape
    <2>4. Messages'
        BY <1>1, <2>2 DEF Messages
    <2>5. IssuerInv' /\ Made' = Made /\ Allowed' = Allowed
        BY <1>1, <1>2, <2>1, <2>2, IssuerFrame
    <2>6. LastRefused' = LastRefused
        BY <1>1, <2>1, <2>2 DEF LastRefused, Overdue
    <2>7. GateInv'
        BY <1>1, <1>2, <2>1, <2>2, <2>6, GateFrame
    <2>8. LogInv'
        BY <1>1, <1>2, <2>1, <2>2, <2>5, LogFrame
    <2> QED
        BY <2>3, <2>4, <2>5, <2>7, <2>8 DEF CoreInv
<1>4. CASE up["issuer"] /\ ~gate_up["gate"] /\ G!Start("gate") /\ UNCHANGED <<engine_vars, pc>>
    <2>1. /\ UNCHANGED <<clock, work, nonces, decisions, issued, pc, up>>
          /\ UNCHANGED <<gate_call, replay_entries, revoked_leases, forwarded, declared, audit_log>>
          /\ revocation_messages' = revocation_messages \cup G!migrated_ids
          /\ revocations' = [revocations EXCEPT !["gate"] = revoked_leases]
          /\ gate_up' = [gate_up EXCEPT !["gate"] = TRUE]
        BY <1>4 DEF G!Start, engine_vars, G!initial_revocations, G!load_all
    <2>2. stage' = stage /\ log' = log
        BY <2>1 DEF stage, log
    <2>3. revoked_leases = [i \in {<<"lease", 1>>} |-> None] /\ revocation_messages = {}
        BY <1>1, <1>2 DEF GateInv, Enforcing
    <2>4. G!migrated_ids = {}
        <3>1. G!LeaseIds = {<<"lease", 1>>}
            BY LeaseFields DEF G!LeaseIds
        <3>2. {j \in G!LeaseIds : revoked_leases[j] # None} = {}
            BY <2>3, <3>1
        <3> QED
            BY <3>2 DEF G!migrated_ids
    <2>5. "gate" \in DOMAIN revocations' /\ <<"lease", 1>> \in DOMAIN revocations'["gate"] /\ "gate" \in DOMAIN gate_up'
        BY <1>2, <2>1, <2>3 DEF Shape
    <2>6. Shape'
        BY <1>1, <1>2, <2>1, <2>2, <2>5 DEF Shape
    <2>7. Messages'
        BY <1>1, <2>2 DEF Messages
    <2>8. IssuerInv' /\ Made' = Made /\ Allowed' = Allowed
        BY <1>1, <1>2, <2>1, <2>2, IssuerFrame
    <2>9. gcall' = gcall /\ Calling'
        BY <1>1, <1>2, <2>1 DEF GateInv, Calling, CallAt, RevokeAt, LeaseSent, gcall, G!IdleCall
    <2>10. Enforcing'
        BY <1>1, <1>2, <2>1, <2>2, <2>3, <2>4, <2>9 DEF GateInv, Enforcing
    <2>11. GateInv'
        BY <1>1, <2>2, <2>9, <2>10 DEF GateInv
    <2>12. LogInv'
        BY <1>1, <1>2, <2>1, <2>2, <2>8, LogFrame
    <2> QED
        BY <2>6, <2>7, <2>8, <2>11, <2>12 DEF CoreInv
<1>5. CASE Audit("DEMO_SETUP", None) /\ pc' = "request" /\ UNCHANGED <<clock, engine_vars>>
    <2> DEFINE e == [event_type |-> "DEMO_SETUP", reason_code |-> None, ref |-> None]
    <2>1. /\ UNCHANGED <<clock, work, nonces, decisions, issued, up>>
          /\ UNCHANGED <<gate_call, durable_vars, revocations, forwarded, declared, gate_up>>
          /\ log' = Append(log, e) /\ "gate" \in DOMAIN audit_log' /\ IsSeq(log')
        BY <1>2, <1>5, AuditGrows DEF engine_vars, gate_process, durable_vars
    <2>2. stage' = 1 /\ pc' \in DOMAIN Stage
        BY <1>5, StageOf, StageDomain DEF stage
    <2>3. Shape'
        BY <1>1, <1>2, <2>1, <2>2 DEF Shape
    <2>4. Messages'
        BY <2>2 DEF Messages
    <2>5. job = IdleWork /\ gcall = G!IdleCall
        BY <1>1, <1>2 DEF IssuerInv, Working, GateInv, Calling, CommandId
    <2>6. IssuerInv' /\ Made' = Made /\ Allowed' = Allowed
        BY <1>1, <1>2, <2>1, <2>2, <2>5, IssuerFrame
    <2>7. GateInv'
        BY <1>1, <1>2, <2>1, <2>2, <2>5, GateFrame
    <2>8. e.event_type = "DEMO_SETUP"
        OBVIOUS
    <2> HIDE DEF e
    <2>9. Follows(log, e, impaired) /\ e.event_type \notin DecisionTypes
        BY <2>8 DEF Follows, DecisionTypes
    <2>10. Ordered(log', impaired) /\ RecordedIn(log')
        BY <1>2, <2>1, <2>9, LogEvent DEF LogInv, Shape
    <2>11. RecordedIn(log)'
        BY <1>1, <2>2, <2>6, <2>10 DEF RecordedIn
    <2>12. LogInv'
        BY <1>1, <2>10, <2>11 DEF LogInv
    <2> QED
        BY <2>3, <2>4, <2>6, <2>7, <2>12 DEF CoreInv
<1> QED
    BY <1>3, <1>4, <1>5 DEF Setup

(* Between the calls of the script the issuer and the gate are idle.       *)
LEMMA IdleBetween ==
    ASSUME CoreInv
    PROVE  /\ stage \notin {4, 12} => job = IdleWork
           /\ stage \notin {6, 8, 14, 16} => gcall = G!IdleCall
<1>1. stage \notin {4, 12} => job = IdleWork
    BY DEF CoreInv, IssuerInv, Working
<1>2. pc \in DOMAIN CommandId => stage \in {6, 8, 16}
    BY StageOf DEF CommandId, stage
<1>3. pc = "revoking" => stage = 14
    BY StageOf DEF stage
<1> QED
    BY <1>1, <1>2, <1>3 DEF CoreInv, GateInv, Calling

(* A call that is over has left nothing behind.                            *)
LEMMA IdleIs ==
    /\ Working /\ job.pc = "idle" => job = IdleWork
    /\ Calling /\ gcall.pc = "idle" => gcall = G!IdleCall
<1>1. Working /\ job.pc = "idle" => job = IdleWork
    BY DEF Working, WorkAt
<1>2. Calling /\ gcall.pc = "idle" => gcall = G!IdleCall
    BY DEF Calling, CallAt, RevokeAt
<1> QED
    BY <1>1, <1>2

(* Making and auditing a request preserves the invariant.                  *)
LEMMA MakeRequestInv ==
    ASSUME CoreInv, NEW from, NEW to, NEW nonce, MakeRequest(from, to, nonce),
           \/ from = "request" /\ to = "observe" /\ nonce = "first"
           \/ from = "request_again" /\ to = "reevaluate" /\ nonce = "second"
    PROVE  CoreInv'
<1> DEFINE e == [event_type |-> "CAPABILITY_REQUESTED", reason_code |-> None, ref |-> nonce]
<1>1. Shape /\ IssuerInv /\ GateInv /\ LogInv /\ Messages /\ clock \in Nat
    BY DEF CoreInv, Shape
<1>2. /\ UNCHANGED <<clock, work, nonces, decisions, issued, up, impaired, state, lease>>
      /\ UNCHANGED <<gate_call, durable_vars, revocations, forwarded, declared, gate_up>>
      /\ log' = Append(log, e) /\ "gate" \in DOMAIN audit_log' /\ IsSeq(log')
      /\ pc = from /\ pc' = to
    BY <1>1, AuditGrows DEF engine_vars, gate_process, durable_vars, MakeRequest
<1>3. request' = RequestAt(nonce, clock)
    BY DEF MakeRequest, make_request, RequestAt
<1>4. /\ \/ stage = 1 /\ stage' = 2 /\ nonce = "first"
         \/ stage = 10 /\ stage' = 11 /\ nonce = "second"
      /\ pc' \in DOMAIN Stage
    BY <1>2, StageOf, StageDomain DEF stage
<1>5. Shape'
    BY <1>1, <1>2, <1>4 DEF Shape
<1>6. Messages'
    <2>1. CASE stage = 1
        BY <1>2, <1>1, <1>3, <1>4, <2>1 DEF Messages
    <2>2. CASE stage = 10
        <3>1. PICK t \in 0..clock : state = StateAt(impaired, t)
            BY <1>1, <2>2 DEF Messages
        <3>2. stage' = 11 /\ nonce = "second" /\ clock \in 0..clock
            BY <1>1, <1>4, <2>2
        <3> QED
            BY <1>2, <1>3, <3>1, <3>2 DEF Messages
    <2> QED
        BY <1>4, <2>1, <2>2
<1>7. job = IdleWork /\ gcall = G!IdleCall
    BY <1>4, IdleBetween
<1>8. IssuerInv' /\ Made' = Made /\ Allowed' = Allowed
    BY <1>1, <1>2, <1>4, <1>7, IssuerFrame
<1>9. GateInv'
    BY <1>1, <1>2, <1>4, <1>7, GateFrame
<1>10. e.event_type = "CAPABILITY_REQUESTED" /\ e.ref = nonce
    OBVIOUS
<1> HIDE DEF e
<1>11. Follows(log, e, impaired) /\ e.event_type \notin DecisionTypes
    BY <1>4, <1>10 DEF Follows, DecisionTypes
<1>12. Ordered(log', impaired) /\ RecordedIn(log')
    BY <1>1, <1>2, <1>11, LogEvent DEF LogInv, Shape
<1>13. Logged(log', {"CAPABILITY_REQUESTED"}, nonce)
    BY <1>1, <1>2, <1>10, LoggedGrows DEF Shape
<1>14. RecordedIn(log)'
    BY <1>2, <1>4, <1>8, <1>12, <1>13 DEF RecordedIn
<1>15. LogInv'
    BY <1>2, <1>12, <1>14 DEF LogInv
<1> QED
    BY <1>5, <1>6, <1>8, <1>9, <1>15 DEF CoreInv

(* Making and auditing a state preserves the invariant.                    *)
LEMMA MakeStateInv ==
    ASSUME CoreInv, NEW from, NEW to, NEW profile, MakeState(from, to, profile),
           \/ from = "observe" /\ to = "evaluate" /\ profile = "normal"
           \/ from = "impair" /\ to = "request_again" /\ profile = impaired
    PROVE  CoreInv'
<1> DEFINE e == [event_type |-> "NETWORK_STATE_ASSERTED", reason_code |-> None, ref |-> profile]
<1>1. Shape /\ IssuerInv /\ GateInv /\ LogInv /\ Messages /\ clock \in Nat
    BY DEF CoreInv, Shape
<1>2. /\ UNCHANGED <<clock, work, nonces, decisions, issued, up, impaired, request, lease>>
      /\ UNCHANGED <<gate_call, durable_vars, revocations, forwarded, declared, gate_up>>
      /\ log' = Append(log, e) /\ "gate" \in DOMAIN audit_log' /\ IsSeq(log')
      /\ pc = from /\ pc' = to
    BY <1>1, AuditGrows DEF engine_vars, gate_process, durable_vars, MakeState
<1>3. state' = StateAt(profile, clock)
    BY DEF MakeState, make_state, StateAt, network_observed_at
<1>4. /\ \/ stage = 2 /\ stage' = 3 /\ profile = "normal"
         \/ stage = 9 /\ stage' = 10 /\ profile = impaired
      /\ pc' \in DOMAIN Stage
    BY <1>2, StageOf, StageDomain DEF stage
<1>5. Shape'
    BY <1>1, <1>2, <1>4 DEF Shape
<1>6. Messages'
    BY <1>1, <1>2, <1>3, <1>4 DEF Messages
<1>7. job = IdleWork /\ gcall = G!IdleCall
    BY <1>4, IdleBetween
<1>8. IssuerInv' /\ Made' = Made /\ Allowed' = Allowed
    BY <1>1, <1>2, <1>4, <1>7, IssuerFrame
<1>9. GateInv'
    BY <1>1, <1>2, <1>4, <1>7, GateFrame
<1>10. e.event_type = "NETWORK_STATE_ASSERTED" /\ e.ref = profile
    OBVIOUS
<1> HIDE DEF e
<1>11. Follows(log, e, impaired) /\ e.event_type \notin DecisionTypes
    BY <1>10 DEF Follows, DecisionTypes
<1>12. Ordered(log', impaired) /\ RecordedIn(log')
    BY <1>1, <1>2, <1>11, LogEvent DEF LogInv, Shape
<1>13. Logged(log', {"NETWORK_STATE_ASSERTED"}, profile)
    BY <1>1, <1>2, <1>10, LoggedGrows DEF Shape
<1>14. RecordedIn(log)'
    BY <1>2, <1>4, <1>8, <1>12, <1>13 DEF RecordedIn
<1>15. LogInv'
    BY <1>2, <1>12, <1>14 DEF LogInv
<1> QED
    BY <1>5, <1>6, <1>8, <1>9, <1>15 DEF CoreInv

(* The script goes on, and nothing else changes.                           *)
LEMMA GateAnsweredInv ==
    ASSUME CoreInv, NEW from, NEW to, GateAnswered(from, to),
           \/ from = "commanding" /\ to = "command_without_lease"
           \/ from = "commanding_without_lease" /\ to = "impair"
           \/ from = "commanding_last" /\ to = "done"
    PROVE  CoreInv'
<1>1. Shape /\ IssuerInv /\ GateInv /\ LogInv /\ Messages /\ clock \in Nat
    BY DEF CoreInv, Shape
<1>2. /\ UNCHANGED <<clock, work, nonces, decisions, issued, up, impaired, request, state, lease, message>>
      /\ UNCHANGED <<gate_call, durable_vars, revocations, forwarded, declared, gate_up, audit_log>>
      /\ pc = from /\ pc' = to /\ gcall.pc = "idle"
    BY DEF engine_vars, gate_vars, gate_process, durable_vars, GateAnswered, gcall
<1>3. /\ \/ stage = 6 /\ stage' = 7
         \/ stage = 8 /\ stage' = 9
         \/ stage = 16 /\ stage' = 17
      /\ pc' \in DOMAIN Stage
    BY <1>2, StageOf, StageDomain DEF stage
<1>4. log' = log /\ gcall' = gcall
    BY <1>2 DEF log, gcall
<1>5. Shape'
    BY <1>1, <1>2, <1>3, <1>4 DEF Shape
<1>6. Messages'
    BY <1>1, <1>2, <1>3 DEF Messages
<1>7. job = IdleWork
    BY <1>3, IdleBetween
<1>8. gcall = G!IdleCall
    BY <1>1, <1>2, IdleIs DEF GateInv
<1>9. IssuerInv' /\ Made' = Made /\ Allowed' = Allowed
    BY <1>1, <1>2, <1>3, <1>7, IssuerFrame
<1>10. GateInv'
    <2>1. CASE stage < 14
        BY <1>1, <1>2, <1>3, <1>8, <2>1, GateFrame
    <2>2. CASE stage = 16
        <3>1. Calling'
            BY <1>4, <1>8 DEF Calling, G!IdleCall
        <3>2. LastRefused
            BY <1>1, <1>2, <2>2 DEF GateInv
        <3>3. LastRefused'
            BY <1>2, <1>4, <3>2 DEF LastRefused, Overdue
        <3>4. Revoked' = Revoked /\ (lease # None => Revoked)
            BY <1>1, <1>2, <2>2 DEF GateInv, Enforcing, Revoked
        <3>5. Enforcing'
            BY <1>1, <1>2, <1>3, <1>4, <2>2, <3>4 DEF GateInv, Enforcing
        <3> QED
            BY <3>1, <3>3, <3>5 DEF GateInv
    <2> QED
        BY <1>3, <2>1, <2>2
<1>11. LogInv'
    BY <1>1, <1>2, <1>3, <1>9, LogFrame
<1> QED
    BY <1>5, <1>6, <1>9, <1>10, <1>11 DEF CoreInv

(* Taking the second decision preserves the invariant.                     *)
LEMMA RedecisionInv ==
    ASSUME CoreInv, Redecision
    PROVE  CoreInv'
<1>1. Shape /\ IssuerInv /\ GateInv /\ LogInv /\ Messages /\ clock \in Nat
    BY DEF CoreInv, Shape
<1>2. /\ UNCHANGED <<clock, work, nonces, decisions, issued, up, impaired, request, state, lease>>
      /\ UNCHANGED <<gate_call, durable_vars, revocations, forwarded, declared, gate_up, audit_log>>
      /\ pc = "reevaluating" /\ pc' = "revoke" /\ job.pc = "idle"
    BY DEF engine_vars, gate_vars, gate_process, durable_vars, Redecision, job
<1>3. stage = 12 /\ stage' = 13 /\ pc' \in DOMAIN Stage
    BY <1>2, StageOf, StageDomain DEF stage
<1>4. log' = log
    BY <1>2 DEF log
<1>5. Shape'
    BY <1>1, <1>2, <1>3, <1>4 DEF Shape
<1>6. Messages'
    BY <1>1, <1>2, <1>3 DEF Messages
<1>7. job = IdleWork
    BY <1>1, <1>2, IdleIs DEF IssuerInv
<1>8. gcall = G!IdleCall
    BY <1>3, IdleBetween
<1>9. IssuerInv' /\ Made' = Made /\ Allowed' = Allowed
    BY <1>1, <1>2, <1>3, <1>7, IssuerFrame
<1>10. GateInv'
    BY <1>1, <1>2, <1>3, <1>8, GateFrame
<1>11. LogInv'
    BY <1>1, <1>2, <1>3, <1>9, LogFrame
<1> QED
    BY <1>5, <1>6, <1>9, <1>10, <1>11 DEF CoreInv

(* The assertion on the revocation's fallback holds: the script goes on.   *)
LEMMA AssertedInv ==
    ASSUME CoreInv, Asserted
    PROVE  CoreInv'
<1>1. Shape /\ IssuerInv /\ GateInv /\ LogInv /\ Messages /\ clock \in Nat
    BY DEF CoreInv, Shape
<1>2. /\ UNCHANGED <<clock, work, nonces, decisions, issued, up, impaired, request, state, lease>>
      /\ UNCHANGED <<gate_call, durable_vars, revocations, forwarded, declared, gate_up, audit_log>>
      /\ pc = "revoking" /\ gcall.pc = "idle"
      /\ pc' = IF revocation_fallback THEN "last_command" ELSE "assertion failed"
    BY DEF engine_vars, gate_vars, gate_process, durable_vars, Asserted, gcall
<1>3. stage = 14 /\ revocation_fallback /\ Revoked
    <2>1. stage = 14
        BY <1>2, StageOf DEF stage
    <2> QED
        BY <1>1, <1>2, <2>1 DEF GateInv, Enforcing
<1>4. stage' = 15 /\ pc' \in DOMAIN Stage
    BY <1>2, <1>3, StageOf, StageDomain DEF stage
<1>5. log' = log /\ gcall' = gcall
    BY <1>2 DEF log, gcall
<1>6. Shape'
    BY <1>1, <1>2, <1>4, <1>5 DEF Shape
<1>7. Messages'
    BY <1>1, <1>2, <1>3, <1>4 DEF Messages
<1>8. job = IdleWork
    BY <1>3, IdleBetween
<1>9. gcall = G!IdleCall
    BY <1>1, <1>2, IdleIs DEF GateInv
<1>10. IssuerInv' /\ Made' = Made /\ Allowed' = Allowed
    BY <1>1, <1>2, <1>3, <1>4, <1>8, IssuerFrame
<1>11. Calling'
    BY <1>5, <1>9 DEF Calling, G!IdleCall
<1>12. Revoked'
    BY <1>2, <1>3 DEF Revoked
<1>13. Enforcing'
    BY <1>1, <1>2, <1>3, <1>4, <1>5, <1>12 DEF GateInv, Enforcing, durable_vars
<1>14. GateInv'
    <2>1. stage' # 16 /\ stage' # 17
        BY <1>4
    <2> QED
        BY <1>11, <1>13, <2>1 DEF GateInv
<1>15. LogInv'
    BY <1>1, <1>2, <1>3, <1>4, <1>10, LogFrame
<1> QED
    BY <1>6, <1>7, <1>10, <1>14, <1>15 DEF CoreInv

-----------------------------------------------------------------------------
(* The script calls the gate.                                              *)

(* A revocation is not None.                                               *)
LEMMA RevocationIsThere ==
    ASSUME NEW t \in Nat
    PROVE  RevocationAt(t) # None
<1> DEFINE S == [message_id : {"revocation"}, lease_id : {<<"lease", 1>>}, revoked_by : {Ctx.edge},
                 edge : {Ctx.edge}, robot : {Ctx.robot}, mission : {Ctx.mission},
                 capability : {Ctx.capability}, reason_code : {"NETWORK_PROFILE_REVOKE"},
                 created_at : Nat, revoked_at : Nat, defects : {{}}]
<1>1. RevocationAt(t) \in S
    BY DEF RevocationAt
<1>2. None \notin S
    BY NoneAssumption
<1> QED
    BY <1>1, <1>2

(* The lease that the script holds was issued on an allow.                 *)
LEMMA LeaseHeld ==
    ASSUME CoreInv, stage >= 5
    PROVE  \/ lease = None
           \/ /\ lease # None /\ lease.ctx = Ctx /\ Allowed
              /\ \E t \in 0..clock : lease = LeaseAt(t)
<1>1. lease = None \/ (Allowed /\ \E t \in 0..clock : lease = LeaseAt(t))
    BY DEF CoreInv, IssuerInv, Granting
<1>2. ASSUME NEW t \in 0..clock, lease = LeaseAt(t) PROVE lease # None /\ lease.ctx = Ctx
    <2>1. t \in Nat
        BY DEF CoreInv, Shape
    <2> QED
        BY <1>2, <2>1, LeaseIsThere, LeaseFields
<1> QED
    BY <1>1, <1>2

(* A message is made, and nothing else changes.                            *)
LEMMA MadeInv ==
    ASSUME CoreInv, stage \in {5, 7, 13, 15}, stage' = stage, pc' \in DOMAIN Stage,
           UNCHANGED <<clock, gate_vars, engine_vars, impaired, request, state, lease>>
    PROVE  CoreInv'
<1>1. Shape /\ IssuerInv /\ GateInv /\ LogInv /\ Messages /\ clock \in Nat
    BY DEF CoreInv, Shape
<1>2. /\ UNCHANGED <<clock, work, nonces, decisions, issued, up, impaired, request, state, lease>>
      /\ UNCHANGED <<gate_call, durable_vars, revocations, forwarded, declared, gate_up, audit_log>>
    BY DEF engine_vars, gate_vars, gate_process, durable_vars
<1>3. log' = log /\ stage \in 0..17
    BY <1>2 DEF log
<1>4. Shape'
    BY <1>1, <1>2, <1>3 DEF Shape
<1>5. Messages'
    BY <1>1, <1>2 DEF Messages
<1>6. gcall = G!IdleCall
    BY IdleBetween
<1>7. IssuerInv' /\ Made' = Made /\ Allowed' = Allowed
    BY <1>1, <1>2, <1>3, IssuerFrame
<1>8. GateInv'
    BY <1>1, <1>2, <1>3, <1>6, GateFrame
<1>9. LogInv'
    BY <1>1, <1>2, <1>3, <1>7, LogFrame
<1> QED
    BY <1>4, <1>5, <1>7, <1>8, <1>9 DEF CoreInv

(* Making a command preserves the invariant.                               *)
LEMMA MakeCommandInv ==
    ASSUME CoreInv, NEW from, NEW to, NEW id, MakeCommand(from, to, id),
           \/ from = "command" /\ to = "send_command"
           \/ from = "command_without_lease" /\ to = "send_without_lease"
           \/ from = "last_command" /\ to = "send_last_command"
    PROVE  CoreInv'
<1>1. stage \in {5, 7, 15} /\ stage' = stage /\ pc' \in DOMAIN Stage
    BY StageOf, StageDomain DEF MakeCommand, stage
<1>2. UNCHANGED <<clock, gate_vars, engine_vars, impaired, request, state, lease>>
    BY DEF MakeCommand
<1> QED
    BY <1>1, <1>2, MadeInv

(* Making the revocation, or having nothing to revoke, preserves it.       *)
LEMMA MakeRevocationInv ==
    ASSUME CoreInv, MakeRevocation(lease)
    PROVE  CoreInv'
<1>1. Shape /\ IssuerInv /\ GateInv /\ LogInv /\ Messages /\ clock \in Nat
    BY DEF CoreInv, Shape
<1>2. /\ pc = "revoke" /\ stage = 13
      /\ UNCHANGED <<clock, gate_vars, engine_vars, impaired, request, state, lease>>
    BY StageOf DEF stage, MakeRevocation
<1>3. job = IdleWork /\ gcall = G!IdleCall
    BY <1>2, IdleBetween
<1>4. CASE lease = None
    <2>1. pc' = "last_command"
        BY <1>4 DEF MakeRevocation
    <2>2. /\ UNCHANGED <<clock, work, nonces, decisions, issued, up, impaired, request, state, lease>>
          /\ UNCHANGED <<gate_call, durable_vars, revocations, forwarded, declared, gate_up, audit_log>>
          /\ log' = log /\ gcall' = gcall
        BY <1>2, <2>1 DEF engine_vars, gate_vars, gate_process, log, gcall
    <2>3. stage' = 15 /\ pc' \in DOMAIN Stage
        BY <2>1, StageOf, StageDomain DEF stage
    <2>4. Shape'
        BY <1>1, <2>2, <2>3 DEF Shape
    <2>5. Messages'
        BY <1>1, <1>2, <2>2, <2>3 DEF Messages
    <2>6. IssuerInv' /\ Made' = Made /\ Allowed' = Allowed
        BY <1>1, <1>2, <1>3, <2>2, <2>3, IssuerFrame
    <2>7. Calling'
        BY <1>3, <2>2 DEF Calling, G!IdleCall
    <2>8. gcall'.pc = "idle"
        BY <1>3, <2>2 DEF G!IdleCall
    <2>9. Enforcing'
        BY <1>1, <1>2, <1>4, <2>2, <2>3, <2>8 DEF GateInv, Enforcing, durable_vars
    <2>10. GateInv'
        <3>1. stage' # 16 /\ stage' # 17
            BY <2>3
        <3> QED
            BY <2>7, <2>9, <3>1 DEF GateInv
    <2>11. LogInv'
        BY <1>1, <1>2, <2>2, <2>3, <2>6, LogFrame
    <2> QED
        BY <2>4, <2>5, <2>6, <2>10, <2>11 DEF CoreInv
<1>5. CASE lease # None
    <2>1. pc' = "send_revocation"
        BY <1>5 DEF MakeRevocation
    <2>2. stage' = 13 /\ pc' \in DOMAIN Stage
        BY <2>1, StageOf, StageDomain DEF stage
    <2> QED
        BY <1>2, <2>2, MadeInv
<1> QED
    BY <1>4, <1>5

(* The gate refuses a message at the door: it came too late.               *)
LEMMA RefusedAtTheDoor ==
    ASSUME CoreInv, NEW type \in {"DIAGNOSTIC", "REVOCATION_REJECTED"}, NEW reason,
           G!AuditOnly("gate", G!AuditEvent(type, reason, None)),
           UNCHANGED <<clock, engine_vars, impaired, request, state, lease>>,
           UNCHANGED <<gate_call, durable_vars, gate_up, revocations, forwarded>>,
           pc' \in DOMAIN Stage,
           \/ stage = 5 /\ stage' = 6
           \/ stage = 7 /\ stage' = 8
           \/ stage = 13 /\ stage' = 13
           \/ stage = 15 /\ stage' = 16 /\ type = "DIAGNOSTIC" /\ reason = "COMMAND_STALE" /\ Overdue(1)'
    PROVE  CoreInv'
<1> DEFINE e == G!AuditEvent(type, reason, None)
<1>1. Shape /\ IssuerInv /\ GateInv /\ LogInv /\ Messages /\ clock \in Nat
    BY DEF CoreInv, Shape
<1>2. e.event_type = type
    BY DEF G!AuditEvent
<1> HIDE DEF e
<1>3. audit_log' = [audit_log EXCEPT !["gate"] = Append(@, e)] /\ UNCHANGED declared
    BY DEF G!AuditOnly, e
<1>4. log' = Append(log, e) /\ "gate" \in DOMAIN audit_log' /\ IsSeq(log)
    BY <1>1, <1>3 DEF Shape, log
<1>5. /\ UNCHANGED <<work, nonces, decisions, issued, up>> /\ gcall' = gcall
      /\ stage' \in 0..17
    BY DEF engine_vars, gcall
<1>6. job = IdleWork /\ gcall = G!IdleCall /\ gcall.pc = "idle"
    BY IdleBetween DEF G!IdleCall
<1>7. e.event_type \notin DecisionTypes /\ Follows(log, e, impaired)
    BY <1>2 DEF DecisionTypes, Follows
<1>8. IsSeq(log') /\ Ordered(log', impaired) /\ RecordedIn(log')
    <2>1. Ordered(log, impaired) /\ RecordedIn(log)
        BY <1>1 DEF LogInv
    <2>2. /\ IsSeq(Append(log, e)) /\ Ordered(Append(log, e), impaired)
          /\ RecordedIn(Append(log, e))
        BY ONLY <1>4, <1>7, <2>1, LogEvent
    <2> QED
        BY <1>4, <2>2
<1>9. Shape'
    BY <1>1, <1>3, <1>4, <1>5, <1>8 DEF Shape
<1>10. Messages'
    BY <1>1 DEF Messages
<1>11. IssuerInv' /\ Made' = Made /\ Allowed' = Allowed
    BY <1>1, <1>5, <1>6, IssuerFrame
<1>12. GateInv'
    <2>1. CASE stage < 14
        BY <1>1, <1>3, <1>5, <1>6, <2>1, GateFrame
    <2>2. CASE stage = 15
        <3>1. Calling'
            BY <1>5, <1>6 DEF Calling, G!IdleCall
        <3>2. LastRefused'
            <4>1. Len(log') = Len(log) + 1 /\ log'[Len(log) + 1] = e
                BY ONLY <1>4, Appended, Zenon
            <4>2. e = G!AuditEvent("DIAGNOSTIC", "COMMAND_STALE", None) /\ Overdue(1)'
                BY <2>2 DEF e
            <4> QED
                BY <4>1, <4>2 DEF LastRefused
        <3>3. Revoked' = Revoked /\ (lease # None => Revoked)
            BY <1>1, <2>2 DEF GateInv, Enforcing, Revoked
        <3>4. Enforcing'
            BY <1>1, <1>5, <1>6, <2>2, <3>3 DEF GateInv, Enforcing, durable_vars
        <3> QED
            BY <3>1, <3>2, <3>4 DEF GateInv
    <2> QED
        BY <2>1, <2>2
<1>13. RecordedIn(log)'
    BY <1>8, <1>11 DEF RecordedIn
<1>14. LogInv'
    BY <1>8, <1>13 DEF LogInv
<1> QED
    BY <1>9, <1>10, <1>11, <1>12, <1>14 DEF CoreInv

(* Calling the gate with a command preserves the invariant: the gate takes *)
(* it up, or refuses it because main() was suspended in between.           *)
LEMMA SendCommandInv ==
    ASSUME CoreInv, Drafted, NEW from, NEW to, NEW l, SendCommand(from, to, l),
           \/ from = "send_command" /\ to = "commanding" /\ l = lease
           \/ from = "send_without_lease" /\ to = "commanding_without_lease" /\ l = None
           \/ from = "send_last_command" /\ to = "commanding_last" /\ l = lease
    PROVE  CoreInv'
<1> DEFINE id == DraftId[from]
<1>1. Shape /\ IssuerInv /\ GateInv /\ LogInv /\ Messages /\ clock \in Nat
    BY DEF CoreInv, Shape
<1>2. /\ \/ stage = 5 /\ stage' = 6 /\ id = "cmd_valid_lease" /\ l = lease
         \/ stage = 7 /\ stage' = 8 /\ id = "cmd_no_lease" /\ l = None
         \/ stage = 15 /\ stage' = 16 /\ id = "cmd_after_revocation" /\ l = lease
      /\ pc = from /\ pc \in DOMAIN DraftId
      /\ pc' \in DOMAIN Stage /\ pc' \in DOMAIN CommandId /\ id = CommandId[pc']
      /\ pc' = "commanding_without_lease" <=> stage = 7
    BY StageOf, StageDomain DEF stage, SendCommand, CommandId, DraftId
<1>3. PICK t \in 0..clock : message = CommandAt(id, t)
    BY <1>2 DEF Drafted
<1> HIDE DEF id
<1> DEFINE m == CommandAt(id, t)
           new == [pc |-> "contains", command |-> m, lease |-> l, state |-> state,
                   revocation |-> None, reason |-> Valid]
<1>4. l # None => l.ctx = Ctx
    BY <1>2, LeaseHeld
<1>5. /\ G!command_auth_violation(m, clock) = IF clock - t <= 1 + ClockSkew THEN Valid ELSE "COMMAND_STALE"
      /\ ~G!local_edge_context_mismatch(m, l)
    BY <1>1, <1>4, CommandAnswer, CommandIsLocal
<1>20. m.created_at = t
    BY DEF CommandAt
<1> HIDE DEF m
<1>6. G!Evaluate("gate", m, l, state) /\ UNCHANGED <<engine_vars, impaired, request, state, lease, message>>
    BY <1>3 DEF SendCommand, m
<1>21. CASE ~(clock - t <= 1 + ClockSkew)
    <2>1. G!command_auth_violation(m, clock) = "COMMAND_STALE" /\ "COMMAND_STALE" # Valid
        BY <1>5, <1>21 DEF Valid
    <2>2. /\ G!AuditOnly("gate", G!AuditEvent("DIAGNOSTIC", "COMMAND_STALE", None))
          /\ UNCHANGED gate_call
          /\ UNCHANGED <<clock, durable_vars, gate_up, revocations, forwarded>>
        BY <1>6, <2>1, SameLadders DEF G!Evaluate, G!durable, durable_vars
    <2>3. Overdue(1)'
        BY <1>1, <1>3, <1>6, <1>20, <1>21, <2>2, Limits DEF Overdue, m
    <2> QED
        BY <1>2, <1>6, <2>2, <2>3, RefusedAtTheDoor
<1>22. CASE clock - t <= 1 + ClockSkew
    <2>7. /\ gate_call' = [gate_call EXCEPT !["gate"] = G!EvaluateCall(m, l, state)]
          /\ UNCHANGED <<audit_log, fallback_events, declared>>
          /\ UNCHANGED <<clock, durable_vars, gate_up, revocations, forwarded, denied, enforced>>
        BY <1>5, <1>6, <1>22, SameLadders DEF G!Evaluate, G!durable, durable_vars
    <2>8. /\ UNCHANGED <<clock, work, nonces, decisions, issued, up, impaired, request, state, lease>>
          /\ UNCHANGED <<durable_vars, revocations, forwarded, declared, gate_up, audit_log>>
          /\ log' = log
        BY <1>6, <2>7 DEF engine_vars, log
    <2>9. gcall' = new /\ "gate" \in DOMAIN gate_call'
        BY <1>1, <2>7, SameLadders DEF gcall, Shape, G!EvaluateCall
    <2>10. Shape'
        BY <1>1, <1>2, <2>8, <2>9 DEF Shape
    <2>11. Messages'
        BY <1>1, <1>2, <2>8 DEF Messages
    <2>12. job = IdleWork /\ gcall = G!IdleCall
        BY <1>2, IdleBetween
    <2>13. IssuerInv' /\ Made' = Made /\ Allowed' = Allowed
        BY <1>1, <1>2, <2>8, <2>12, IssuerFrame
    <2>14. Calling'
        <3>1. LeaseSent' = l
            BY <1>2, <2>8 DEF LeaseSent
        <3>2. gcall' = [pc |-> "contains", command |-> CommandAt(CommandId[pc'], t), lease |-> LeaseSent',
                        state |-> state', revocation |-> None, reason |-> gcall'.reason]
            <4>1. m = CommandAt(CommandId[pc'], t)
                BY <1>2 DEF m
            <4> QED
                BY <2>8, <2>9, <3>1, <4>1
        <3>3. gcall'.reason = Valid /\ t \in 0..clock'
            BY <1>1, <2>8, <2>9
        <3> QED
            BY <1>2, <3>2, <3>3 DEF Calling, CallAt, CommandAt
    <2>15. gcall'.pc = "contains"
        BY <2>9
    <2>16. Revoked' = Revoked
        BY <2>8 DEF Revoked
    <2>17. Enforcing'
        BY <1>1, <1>2, <2>8, <2>15, <2>16 DEF GateInv, Enforcing, durable_vars
    <2>18. GateInv'
        <3>1. stage' # 17 /\ gcall'.pc # "idle"
            BY <1>2, <2>15
        <3> QED
            BY <2>14, <2>17, <3>1 DEF GateInv
    <2>19. LogInv'
        BY <1>1, <1>2, <2>8, <2>13, LogFrame
    <2> QED
        BY <2>10, <2>11, <2>13, <2>18, <2>19 DEF CoreInv
<1> QED
    BY <1>21, <1>22

(* Calling the gate with the revocation preserves the invariant: the gate  *)
(* takes it up, or raises because main() was suspended in between.         *)
LEMMA SendRevocationInv ==
    ASSUME CoreInv, Drafted, SendRevocation(lease)
    PROVE  CoreInv'
<1>1. Shape /\ IssuerInv /\ GateInv /\ LogInv /\ Messages /\ clock \in Nat
    BY DEF CoreInv, Shape
<1>2. /\ pc = "send_revocation" /\ stage = 13
      /\ UNCHANGED <<engine_vars, impaired, request, state, lease>>
    BY StageOf DEF stage, SendRevocation
<1>3. job = IdleWork /\ gcall = G!IdleCall /\ gcall.pc = "idle"
    BY <1>2, IdleBetween DEF G!IdleCall
<1>4. PICK w \in 0..clock : lease # None /\ message = RevocationAt(w)
    BY <1>2 DEF Drafted
<1> DEFINE r == RevocationAt(w)
           v == G!revocation_violation(r, lease, clock)
           new == [pc |-> "record", command |-> None, lease |-> lease, state |-> None,
                   revocation |-> r, reason |-> Valid]
<1>5. lease # None /\ r # None
    BY <1>1, <1>4, RevocationIsThere
<1> HIDE DEF r
<1>6. /\ G!Revoke("gate", r, lease)
      /\ pc' = IF gcall'.pc = "idle" THEN "raised" ELSE "revoking"
    BY <1>4 DEF SendRevocation, gcall, r
<1> HIDE DEF v
<1>7. CASE v # Valid
    <2>1. /\ G!AuditOnly("gate", G!AuditEvent("REVOCATION_REJECTED", v, None))
          /\ UNCHANGED <<gate_call, clock, durable_vars, gate_up, revocations, forwarded>>
        BY <1>5, <1>6, <1>7, SameLadders DEF G!Revoke, G!durable, durable_vars, v
    <2>2. pc' = "raised"
        BY <1>3, <1>6, <2>1 DEF gcall
    <2>3. stage' = 13 /\ pc' \in DOMAIN Stage
        BY <2>2, StageOf, StageDomain DEF stage
    <2> QED
        BY <1>2, <2>1, <2>3, RefusedAtTheDoor
<1>8. CASE v = Valid
    <2>6. /\ gate_call' = [gate_call EXCEPT !["gate"] = G!RevokeCall(r, lease)]
          /\ UNCHANGED <<audit_log, fallback_events, declared>>
          /\ UNCHANGED <<clock, durable_vars, gate_up, revocations, forwarded, denied, enforced>>
        BY <1>5, <1>6, <1>8, SameLadders DEF G!Revoke, G!durable, durable_vars, v
    <2>7. /\ UNCHANGED <<clock, work, nonces, decisions, issued, up, impaired, request, state, lease>>
          /\ UNCHANGED <<durable_vars, revocations, forwarded, declared, gate_up, audit_log>>
          /\ log' = log
        BY <1>2, <2>6 DEF engine_vars, log
    <2>8. gcall' = new /\ "gate" \in DOMAIN gate_call'
        BY <1>1, <2>6, SameLadders DEF gcall, Shape, G!RevokeCall
    <2>9. stage' = 14 /\ pc' \in DOMAIN Stage /\ pc' = "revoking"
        BY <1>6, <2>8, StageOf, StageDomain DEF stage
    <2>10. Shape'
        BY <1>1, <2>7, <2>8, <2>9 DEF Shape
    <2>11. Messages'
        BY <1>1, <1>2, <2>7, <2>9 DEF Messages
    <2>12. IssuerInv' /\ Made' = Made /\ Allowed' = Allowed
        BY <1>1, <1>2, <1>3, <2>7, <2>9, IssuerFrame
    <2>13. Calling'
        <3>1. gcall' = RevokeAt("record", w)'
            BY <2>7, <2>8 DEF RevokeAt, r, RevocationAt
        <3>2. w \in 0..clock'
            BY <1>1, <2>7
        <3> QED
            BY <1>5, <2>7, <2>9, <3>1, <3>2 DEF Calling
    <2>14. gcall'.pc = "record"
        BY <2>8
    <2>15. Enforcing'
        BY <1>1, <1>2, <2>7, <2>9, <2>14 DEF GateInv, Enforcing, durable_vars
    <2>16. GateInv'
        <3>1. stage' # 16 /\ stage' # 17
            BY <2>9
        <3> QED
            BY <2>13, <2>15, <3>1 DEF GateInv
    <2>17. LogInv'
        BY <1>1, <1>2, <2>7, <2>9, <2>12, LogFrame
    <2> QED
        BY <2>10, <2>11, <2>12, <2>16, <2>17 DEF CoreInv
<1> QED
    BY <1>7, <1>8

-----------------------------------------------------------------------------
(* The issuer.                                                             *)

(* The issuer works, on a first or a second request, and the gate is idle. *)
LEMMA IssuerStep ==
    ASSUME CoreInv, pc' \in DOMAIN Stage,
           \/ stage \in {3, 4} /\ stage' \in {4, 5}
           \/ stage \in {11, 12} /\ stage' = 12,
           UNCHANGED <<clock, impaired, request, state, up, durable_vars, gate_process>>,
           "issuer" \in DOMAIN work', IsSeq(decisions)', IsSeq(issued)',
           "gate" \in DOMAIN audit_log', IsSeq(log)', IssuerInv', LogInv'
    PROVE  CoreInv'
<1>1. Shape /\ GateInv /\ Messages /\ clock \in Nat
    BY DEF CoreInv, Shape
<1>2. UNCHANGED <<gate_up, gate_call, revocations, forwarded, declared>>
    BY DEF gate_process
<1>3. Shape'
    BY <1>1, <1>2 DEF Shape
<1>4. Messages'
    BY <1>1 DEF Messages
<1>5. gcall = G!IdleCall
    BY IdleBetween
<1>6. GateInv'
    BY <1>1, <1>2, <1>5, GateFrame
<1> QED
    BY <1>3, <1>4, <1>6 DEF CoreInv

(* A step that leaves the decisions alone decides nothing.                 *)
LEMMA NothingDecided == ASSUME Shape, UNCHANGED decisions PROVE DecidesWhileFresh
<1>1. Len(decisions) \in Nat
    BY SeqLength DEF Shape
<1> QED
    BY <1>1 DEF DecidesWhileFresh

(* The call goes on without a decision.                                    *)
LEMMA Undecided ==
    ASSUME CoreInv, NEW p \in {"consume", "decide"}, NEW n \in 0..clock,
           "issuer" \in DOMAIN work', job' = WorkAt(p, n)', request.created_at <= n, state.stamps[1] <= n,
           pc' \in DOMAIN Stage,
           \/ stage = 3 /\ stage' = 4
           \/ stage = 11 /\ stage' = 12
           \/ stage \in {4, 12} /\ stage' = stage /\ job.pc \in {"consume", "decide"},
           p = "consume" => UNCHANGED nonces,
           stage = 4 => p = "decide",
           UNCHANGED <<clock, impaired, request, state, lease, up, durable_vars, gate_process>>,
           UNCHANGED <<decisions, issued, audit_log>>
    PROVE  CoreInv' /\ DecidesWhileFresh
<1>1. Shape /\ IssuerInv /\ LogInv /\ clock \in Nat
    BY DEF CoreInv, Shape
<1>2. job'.pc = p /\ log' = log
    BY DEF WorkAt, log
<1>3. Working'
    BY <1>1 DEF Working
<1>4. Made' = Made /\ Made \in {0, 1} /\ (Made = 0 <=> stage < 10)
    BY <1>2 DEF Made
<1>5. Deciding'
    <2>1. nonces = {} \/ stage # 3
        BY <1>1 DEF IssuerInv, Deciding
    <2>2. stage' < 4 \/ (stage' = 4 /\ job'.pc = "consume") => nonces' = {}
        BY <1>2, <2>1
    <2> QED
        BY <1>1, <1>4, <2>2 DEF IssuerInv, Deciding
<1>6. Granting'
    <2>1. job'.pc # "issue" /\ job'.pc # "idle"
        BY <1>2
    <2>2. job = IdleWork => job.pc = "idle"
        BY DEF IdleWork
    <2>3. stage = 4 => job.pc # "idle"
        OBVIOUS
    <2> QED
        BY <1>1, <2>1, <2>3 DEF IssuerInv, Granting, Allowed
<1>7. Allowed' = Allowed
    BY DEF Allowed
<1>8. LogInv'
    BY <1>1, <1>4, <1>7, LogFrame
<1>9. IsSeq(decisions)' /\ IsSeq(issued)' /\ IsSeq(log)' /\ "gate" \in DOMAIN audit_log'
    BY <1>1, <1>2 DEF Shape
<1>10. CoreInv'
    BY <1>3, <1>5, <1>6, <1>8, <1>9, IssuerStep DEF IssuerInv
<1>11. DecidesWhileFresh
    BY <1>1, NothingDecided
<1> QED
    BY <1>10, <1>11

(* The first request is decided; a lease is issued after an allow only.    *)
LEMMA FirstDecided ==
    ASSUME CoreInv, NEW d, decisions' = Append(decisions, d), d.request.nonce = "first",
           d.decision \in {"allow", "degrade", "deny"},
           d.decision = "allow" <=> evaluated_at - ImportTime <= Fresh,
           "issuer" \in DOMAIN work',
           \/ job' = IdleWork
           \/ \E n \in 0..clock : /\ job' = WorkAt("issue", n)'
                                  /\ request.created_at <= n /\ state.stamps[1] <= n
                                  /\ n <= Fresh /\ d.decision = "allow",
           pc' \in DOMAIN Stage, stage' = 4,
           stage = 3 \/ (stage = 4 /\ job.pc = "decide"),
           UNCHANGED <<clock, impaired, request, state, lease, up, durable_vars, gate_process>>,
           UNCHANGED <<issued, audit_log>>
    PROVE  CoreInv' /\ DecidesWhileFresh
<1>1. Shape /\ IssuerInv /\ LogInv /\ clock \in Nat
    BY DEF CoreInv, Shape
<1>2. log' = log /\ IdleWork.pc = "idle" /\ \A n : WorkAt("issue", n)'.pc = "issue" /\ WorkAt("issue", n)'.now = n
    BY DEF WorkAt, log, IdleWork
<1>3. job'.pc \in {"idle", "issue"}
    BY <1>2
<1>4. Made = 0 /\ Made' = 1
    BY <1>3 DEF Made
<1>5. IsSeq(decisions)' /\ Len(decisions') = 1 /\ decisions'[1] = d
    <2>1. IsSeq(decisions) /\ Len(decisions) = 0
        BY <1>1, <1>4 DEF IssuerInv, Deciding, Shape
    <2>2. /\ IsSeq(Append(decisions, d)) /\ Len(Append(decisions, d)) = Len(decisions) + 1
          /\ Append(decisions, d)[Len(decisions) + 1] = d
        BY ONLY <2>1, Appended, Zenon
    <2> QED
        BY <2>1, <2>2
<1>6. Working'
    BY <1>1 DEF Working
<1>7. Deciding'
    BY <1>3, <1>4, <1>5 DEF Deciding
<1>8. Granting'
    <2>1. Len(issued) = 0
        BY <1>1 DEF IssuerInv, Granting
    <2>2. Allowed' <=> d.decision = "allow"
        BY <1>5 DEF Allowed
    <2>3. job'.pc = "issue" => job'.now <= Fresh /\ d.decision = "allow"
        BY <1>2
    <2> QED
        BY <2>1, <2>2, <2>3 DEF Granting
<1>9. LogInv'
    <2>1. Ordered(log, impaired)'
        BY <1>1, <1>2 DEF LogInv
    <2>2. RecordedIn(log)'
        BY <1>1, <1>2, <1>4 DEF LogInv, RecordedIn
    <2> QED
        BY <2>1, <2>2 DEF LogInv
<1>10. IsSeq(issued)' /\ IsSeq(log)' /\ "gate" \in DOMAIN audit_log'
    BY <1>1, <1>2 DEF Shape
<1>11. CoreInv'
    BY <1>5, <1>6, <1>7, <1>8, <1>9, <1>10, IssuerStep DEF IssuerInv
<1>12. DecidesWhileFresh
    BY <1>5 DEF DecidesWhileFresh
<1> QED
    BY <1>11, <1>12

(* The event of a decision says what was decided, and on which request.    *)
LEMMA DecisionEventIs ==
    ASSUME NEW d, d.decision \in {"allow", "degrade", "deny"}
    PROVE  /\ DecisionEvent(d).event_type \in DecisionTypes
           /\ DecisionEvent(d).event_type = "CAPABILITY_ALLOWED" <=> d.decision = "allow"
           /\ DecisionEvent(d).ref = d.request.nonce
<1>1. /\ DecisionEvent(d).event_type = decision_event(d) /\ DecisionEvent(d).ref = d.request.nonce
    BY DEF DecisionEvent, G!AuditEvent
<1>2. CASE d.decision = "allow"
    BY <1>1, <1>2 DEF decision_event, DecisionTypes
<1>3. CASE d.decision = "deny"
    BY <1>1, <1>3 DEF decision_event, DecisionTypes
<1>4. CASE d.decision = "degrade"
    BY <1>1, <1>4 DEF decision_event, DecisionTypes
<1> QED
    BY <1>2, <1>3, <1>4

(* A decision is added to the shared log.                                  *)
LEMMA DecisionLogged ==
    ASSUME NEW s, IsSeq(s), NEW profile, Ordered(s, profile),
           NEW d, d.decision \in {"allow", "degrade", "deny"},
           Logged(s, {"CAPABILITY_REQUESTED"}, d.request.nonce),
           NEW p, p = IF d.request.nonce = "first" THEN "normal" ELSE profile,
           Logged(s, {"NETWORK_STATE_ASSERTED"}, p),
           ~Logged(s, DecisionTypes, d.request.nonce)
    PROVE  /\ IsSeq(Append(s, DecisionEvent(d)))
           /\ Ordered(Append(s, DecisionEvent(d)), profile)
<1> DEFINE e == DecisionEvent(d)
<1>1. e.event_type \in DecisionTypes /\ e.ref = d.request.nonce
    BY DecisionEventIs
<1> HIDE DEF e
<1>2. Follows(s, e, profile)
    BY <1>1 DEF Follows, DecisionTypes
<1>3. Ordered(Append(s, e), profile)
    BY <1>2, OrderedGrows
<1>4. IsSeq(Append(s, e))
    BY Appended
<1> QED
    BY <1>3, <1>4 DEF e

(* What a log holds after a decision.                                      *)
LEMMA DecisionKept ==
    ASSUME NEW s, IsSeq(s), NEW d, d.decision \in {"allow", "degrade", "deny"}, NEW T, NEW ref
    PROVE  Logged(Append(s, DecisionEvent(d)), T, ref) <=>
               Logged(s, T, ref) \/ (DecisionEvent(d).event_type \in T /\ d.request.nonce = ref)
<1>1. DecisionEvent(d).ref = d.request.nonce
    BY DecisionEventIs
<1> QED
    BY <1>1, LoggedGrows

(* The second request is decided, and no lease follows.                    *)
LEMMA SecondDecided ==
    ASSUME CoreInv, NEW d, decisions' = Append(decisions, d), d.request.nonce = "second",
           d.decision \in {"degrade", "deny"},
           audit_log' = [audit_log EXCEPT !["gate"] = Append(@, DecisionEvent(d))],
           "issuer" \in DOMAIN work', job' = IdleWork,
           pc' \in DOMAIN Stage, stage' = 12,
           stage = 11 \/ (stage = 12 /\ job.pc \in {"consume", "decide"}),
           UNCHANGED <<clock, impaired, request, state, lease, up, durable_vars, gate_process>>,
           UNCHANGED issued
    PROVE  CoreInv' /\ DecidesWhileFresh
<1>1. Shape /\ IssuerInv /\ LogInv /\ clock \in Nat
    BY DEF CoreInv, Shape
<1>2. job'.pc = "idle"
    BY DEF IdleWork
<1>3. Made = 1 /\ Made' = 2
    BY <1>2 DEF Made
<1>4. IsSeq(decisions)' /\ Len(decisions') = 2 /\ decisions'[1] = decisions[1] /\ decisions'[2] = d
    <2>1. IsSeq(decisions) /\ Len(decisions) = 1
        BY <1>1, <1>3 DEF IssuerInv, Deciding, Shape
    <2>2. /\ IsSeq(Append(decisions, d)) /\ Len(Append(decisions, d)) = Len(decisions) + 1
          /\ Append(decisions, d)[Len(decisions) + 1] = d
          /\ \A i \in 1..Len(decisions) : Append(decisions, d)[i] = decisions[i]
        BY ONLY <2>1, Appended, Zenon
    <2> QED
        BY <2>1, <2>2
<1>5. Allowed' = Allowed
    BY <1>4 DEF Allowed
<1>6. Working'
    BY DEF Working
<1>7. Deciding'
    BY <1>1, <1>2, <1>3, <1>4 DEF IssuerInv, Deciding
<1>8. Granting'
    BY <1>1, <1>2, <1>5 DEF IssuerInv, Granting
<1>9. /\ Logged(log, {"CAPABILITY_REQUESTED"}, "second") /\ Logged(log, {"NETWORK_STATE_ASSERTED"}, impaired)
      /\ ~Logged(log, DecisionTypes, "second")
    BY <1>1, <1>3 DEF LogInv, RecordedIn
<1>10. "gate" \in DOMAIN audit_log' /\ log' = Append(log, DecisionEvent(d)) /\ IsSeq(log) /\ Ordered(log, impaired)
    BY <1>1 DEF Shape, LogInv, log
<1>20. IsSeq(log') /\ Ordered(log, impaired)'
    <2>1. d.decision \in {"allow", "degrade", "deny"} /\ d.request.nonce # "first"
        OBVIOUS
    <2>2. /\ Logged(log, {"CAPABILITY_REQUESTED"}, d.request.nonce)
          /\ Logged(log, {"NETWORK_STATE_ASSERTED"}, impaired)
          /\ impaired = IF d.request.nonce = "first" THEN "normal" ELSE impaired
          /\ ~Logged(log, DecisionTypes, d.request.nonce)
        BY <1>9, <2>1
    <2>3. IsSeq(Append(log, DecisionEvent(d))) /\ Ordered(Append(log, DecisionEvent(d)), impaired)
        BY ONLY <1>10, <2>1, <2>2, DecisionLogged
    <2> QED
        BY <1>10, <2>3
<1>21. \A T, ref : Logged(log, T, ref)' <=>
             Logged(log, T, ref) \/ (DecisionEvent(d).event_type \in T /\ d.request.nonce = ref)
    BY <1>10, DecisionKept
<1>11. DecisionEvent(d).event_type \in DecisionTypes
    BY DecisionEventIs
<1>12. RecordedIn(log)'
    BY <1>1, <1>3, <1>5, <1>21, <1>11 DEF LogInv, RecordedIn
<1>13. LogInv'
    BY <1>20, <1>12 DEF LogInv
<1>14. IsSeq(issued)'
    BY <1>1 DEF Shape
<1>15. CoreInv'
    BY <1>4, <1>6, <1>7, <1>8, <1>10, <1>20, <1>13, <1>14, IssuerStep DEF IssuerInv
<1>16. DecidesWhileFresh
    BY <1>4 DEF DecidesWhileFresh
<1> QED
    BY <1>15, <1>16

(* The fields of the messages that the proofs read.                        *)
LEMMA MessageFields ==
    ASSUME NEW nonce, NEW profile, NEW t
    PROVE  /\ RequestAt(nonce, t).nonce = nonce /\ RequestAt(nonce, t).created_at = t
           /\ RequestAt(nonce, t).duration = 20
           /\ StateAt(profile, t).stamps[1] = t
BY DEF RequestAt, StateAt

(* What the issuer has in its hands is what the script holds.              *)
LEMMA AtWork ==
    ASSUME CoreInv, job.pc # "idle"
    PROVE  /\ stage \in {4, 12} /\ job.pc \in {"consume", "decide", "issue"}
           /\ \E n \in 0..clock : /\ job = WorkAt(job.pc, n)
                                  /\ request.created_at <= n /\ state.stamps[1] <= n
<1>1. IdleWork.pc = "idle" /\ \A p, n : WorkAt(p, n).pc = p
    BY DEF IdleWork, WorkAt
<1>2. Working
    BY DEF CoreInv, IssuerInv
<1> QED
    BY <1>1, <1>2 DEF Working

(* The call of evaluate_policy() on the normal profile: refused at once,   *)
(* because the script was suspended for too long, or on its way to the     *)
(* replay store.                                                           *)
LEMMA StartFirstInv ==
    ASSUME CoreInv, StartFirst
    PROVE  CoreInv' /\ DecidesWhileFresh
<1>1. Shape /\ IssuerInv /\ LogInv /\ Messages /\ clock \in Nat /\ "issuer" \in DOMAIN work
    BY DEF CoreInv, Shape
<1>2. /\ pc = "evaluate" /\ pc' = "evaluating" /\ EvaluatePolicy("issuer", request, state, policy, None, "durable")
      /\ UNCHANGED <<impaired, request, state, lease, durable_vars, gate_process, audit_log>>
    BY DEF StartFirst, StartEvaluation, gate_vars
<1>3. stage = 3 /\ stage' = 4 /\ pc' \in DOMAIN Stage
    BY <1>2, StageOf, StageDomain DEF stage
<1>4. PICK t \in 0..clock : request = RequestAt("first", t)
    BY <1>1, <1>3 DEF Messages
<1>5. PICK u \in 0..clock : state = StateAt("normal", u)
    BY <1>1, <1>3 DEF Messages
<1> DEFINE reason == request_violation(request, state, None, "durable", clock)
           d == Decided(request, policy, reason, FALSE)
<1>6. clock <= Fresh => reason = Valid
    <2>1. ASSUME clock <= Fresh PROVE reason = Valid
        <3>1. t \in Nat /\ t <= clock /\ clock - t <= MaxRequestAge
            BY <1>1, <2>1, Limits
        <3> QED
            BY <1>1, <1>4, <1>5, <3>1, RequestPasses
    <2> QED
        BY <2>1
<1>7. request.nonce = "first" /\ request.created_at = t /\ state.stamps[1] = u
    BY <1>4, <1>5, MessageFields
<1> HIDE DEF reason
<1>8. d.request.nonce = "first" /\ d.decision \in {"allow", "degrade", "deny"}
    <2>1. d.request = request /\ d.decision = decision_of(reason)
        BY DEF Decided
    <2>2. decision_of(reason) \in {"allow", "degrade", "deny"}
        BY DecisionOf
    <2> QED
        BY <1>7, <2>1, <2>2
<1> HIDE DEF d
<1>9. /\ UNCHANGED <<clock, nonces, up, issued>>
      /\ \/ reason # Valid /\ decisions' = Append(decisions, d) /\ UNCHANGED work
         \/ /\ reason = Valid /\ UNCHANGED decisions
            /\ work' = [work EXCEPT !["issuer"] = EvaluateWork(request, state, policy, None, clock)]
    BY <1>2 DEF EvaluatePolicy, d, reason
<1>10. CASE reason # Valid
    <2>1. job' = IdleWork /\ "issuer" \in DOMAIN work' /\ decisions' = Append(decisions, d)
        BY <1>1, <1>3, <1>9, <1>10, IdleBetween DEF job
    <2>2. d.decision = "allow" <=> evaluated_at - ImportTime <= Fresh
        <3>1. evaluated_at = clock
            BY <1>3, IdleBetween DEF evaluated_at, job, IdleWork
        <3>2. d.decision # "allow"
            BY <1>10, DecisionOf DEF d, Decided
        <3> QED
            BY <1>1, <1>6, <1>10, <3>1, <3>2, Limits DEF ImportTime
    <2> QED
        BY <1>2, <1>3, <1>8, <1>9, <2>1, <2>2, FirstDecided
<1>11. CASE reason = Valid
    <2>1. PICK n : n = clock
        OBVIOUS
    <2>2. "issuer" \in DOMAIN work' /\ job' = EvaluateWork(request, state, policy, None, n)
        BY <1>1, <1>9, <1>11, <2>1 DEF job
    <2>3. job' = WorkAt("consume", n)'
        BY <1>2, <2>2 DEF WorkAt, EvaluateWork
    <2>4. n \in 0..clock /\ request.created_at <= n /\ state.stamps[1] <= n
        BY <1>1, <1>7, <2>1
    <2> QED
        BY <1>2, <1>3, <1>9, <1>11, <2>2, <2>3, <2>4, Undecided
<1> QED
    BY <1>10, <1>11

(* The call of evaluate_policy() on the impaired profile, whose decision   *)
(* goes to the shared log.                                                 *)
LEMMA StartSecondInv ==
    ASSUME CoreInv, StartSecond
    PROVE  CoreInv' /\ DecidesWhileFresh
<1>1. Shape /\ IssuerInv /\ LogInv /\ Messages /\ clock \in Nat /\ "issuer" \in DOMAIN work /\ IsSeq(decisions)
    BY DEF CoreInv, Shape
<1>2. /\ pc = "reevaluate" /\ pc' = "reevaluating"
      /\ EvaluatePolicy("issuer", request, state, policy, None, "durable")
      /\ UNCHANGED <<impaired, request, state, lease, durable_vars, gate_process>>
      /\ audit_log' = IF Len(decisions') > Len(decisions)
                      THEN [audit_log EXCEPT !["gate"] = Append(@, DecisionEvent(decisions'[Len(decisions')]))]
                      ELSE audit_log
    BY DEF StartSecond, StartEvaluation
<1>3. stage = 11 /\ stage' = 12 /\ pc' \in DOMAIN Stage
    BY <1>2, StageOf, StageDomain DEF stage
<1>4. PICK t \in 0..clock : request = RequestAt("second", t)
    BY <1>1, <1>3 DEF Messages
<1>5. PICK u \in 0..clock : state = StateAt(impaired, u)
    BY <1>1, <1>3 DEF Messages
<1> DEFINE reason == request_violation(request, state, None, "durable", clock)
           d == Decided(request, policy, reason, FALSE)
<1>6. request.nonce = "second" /\ request.created_at = t /\ state.stamps[1] = u
    BY <1>4, <1>5, MessageFields
<1> HIDE DEF reason
<1>7. d.request.nonce = "second" /\ (reason # Valid => d.decision \in {"degrade", "deny"})
    <2>1. d.request = request /\ d.decision = decision_of(reason)
        BY DEF Decided
    <2>2. decision_of(reason) \in {"allow", "degrade", "deny"} /\ (decision_of(reason) = "allow" <=> reason = Valid)
        BY DecisionOf
    <2> QED
        BY <1>6, <2>1, <2>2
<1> HIDE DEF d
<1>8. /\ UNCHANGED <<clock, nonces, up, issued>>
      /\ \/ reason # Valid /\ decisions' = Append(decisions, d) /\ UNCHANGED work
         \/ /\ reason = Valid /\ UNCHANGED decisions
            /\ work' = [work EXCEPT !["issuer"] = EvaluateWork(request, state, policy, None, clock)]
    BY <1>2 DEF EvaluatePolicy, d, reason
<1>9. CASE reason # Valid
    <2>1. job' = IdleWork /\ "issuer" \in DOMAIN work' /\ decisions' = Append(decisions, d)
        BY <1>1, <1>3, <1>8, <1>9, IdleBetween DEF job
    <2>2. Len(Append(decisions, d)) = Len(decisions) + 1 /\ Append(decisions, d)[Len(decisions) + 1] = d
        BY ONLY <1>1, Appended, Zenon
    <2>3. Len(decisions') > Len(decisions) /\ decisions'[Len(decisions')] = d
        BY <1>1, <2>1, <2>2, SeqLength
    <2>4. audit_log' = [audit_log EXCEPT !["gate"] = Append(@, DecisionEvent(d))]
        BY <1>2, <2>3
    <2> QED
        BY <1>2, <1>3, <1>7, <1>8, <1>9, <2>1, <2>4, SecondDecided
<1>10. CASE reason = Valid
    <2>1. PICK n : n = clock
        OBVIOUS
    <2>2. "issuer" \in DOMAIN work' /\ job' = EvaluateWork(request, state, policy, None, n)
        BY <1>1, <1>8, <1>10, <2>1 DEF job
    <2>3. job' = WorkAt("consume", n)'
        BY <1>2, <2>2 DEF WorkAt, EvaluateWork
    <2>4. n \in 0..clock /\ request.created_at <= n /\ state.stamps[1] <= n
        BY <1>1, <1>6, <2>1
    <2>5. UNCHANGED <<decisions, audit_log>>
        BY <1>1, <1>2, <1>8, <1>10, SeqLength
    <2> QED
        BY <1>2, <1>3, <1>8, <1>10, <2>2, <2>3, <2>4, <2>5, Undecided
<1> QED
    BY <1>9, <1>10

(* Which log a decision goes to.                                           *)
LEMMA EvaluationLog ==
    ASSUME CoreInv, AuditDecision, stage \in {4, 12}
    PROVE  /\ stage = 4 \/ UNCHANGED decisions => UNCHANGED audit_log
           /\ \A d : stage = 12 /\ decisions' = Append(decisions, d) =>
                 audit_log' = [audit_log EXCEPT !["gate"] = Append(@, DecisionEvent(d))]
<1>1. /\ audit_log' = IF evaluation_log = "shared" /\ Len(decisions') > Len(decisions)
                      THEN [audit_log EXCEPT !["gate"] = Append(@, DecisionEvent(decisions'[Len(decisions')]))]
                      ELSE audit_log
    BY DEF AuditDecision
<1>2. IsSeq(decisions) /\ pc \in DOMAIN Stage
    BY DEF CoreInv, Shape
<1>3. pc = "evaluating" <=> stage = 4
    BY <1>2, StageOf, StageDomain DEF stage
<1>4. evaluation_log = "shared" <=> stage # 4
    BY <1>3 DEF evaluation_log
<1>5. Len(decisions) \in Nat
    BY <1>2, SeqLength
<1>6. stage = 4 \/ UNCHANGED decisions => UNCHANGED audit_log
    BY <1>1, <1>4, <1>5
<1>7. ASSUME NEW d, stage = 12, decisions' = Append(decisions, d)
      PROVE  audit_log' = [audit_log EXCEPT !["gate"] = Append(@, DecisionEvent(d))]
    <2>1. Len(Append(decisions, d)) = Len(decisions) + 1 /\ Append(decisions, d)[Len(decisions) + 1] = d
        BY ONLY <1>2, Appended, Zenon
    <2>2. Len(decisions') > Len(decisions) /\ decisions'[Len(decisions')] = d
        BY <1>5, <1>7, <2>1
    <2> QED
        BY <1>1, <1>4, <1>7, <2>2
<1> QED
    BY <1>6, <1>7

(* The nonce is consumed; the first one is always new.                     *)
LEMMA ConsumeInv ==
    ASSUME CoreInv, Consume("issuer"), AuditDecision, UNCHANGED script_vars
    PROVE  CoreInv' /\ DecidesWhileFresh
<1>1. Shape /\ IssuerInv /\ LogInv /\ Messages /\ clock \in Nat /\ "issuer" \in DOMAIN work
    BY DEF CoreInv, Shape
<1>2. /\ job.pc = "consume"
      /\ UNCHANGED <<clock, up, issued, pc, impaired, request, state, lease, durable_vars, gate_process>>
    BY DEF Consume, At, job, script_vars, AuditDecision
<1>3. PICK n \in 0..clock : job = WorkAt("consume", n) /\ request.created_at <= n /\ state.stamps[1] <= n
    BY <1>2, AtWork
<1>4. stage \in {4, 12} /\ stage' = stage /\ pc' \in DOMAIN Stage
    BY <1>1, <1>2, AtWork DEF stage, Shape
<1>5. job.request = request /\ job.policy = policy
    BY <1>3 DEF WorkAt
<1>6. CASE /\ has_seen(request) /\ Return("issuer")
           /\ decisions' = Append(decisions, Decided(request, policy, "REQUEST_REPLAYED", FALSE))
    <2> DEFINE d == Decided(request, policy, "REQUEST_REPLAYED", FALSE)
    <2>1. stage = 12
        BY <1>1, <1>2, <1>4, <1>6 DEF IssuerInv, Deciding, has_seen
    <2>2. PICK t \in 0..clock : request = RequestAt("second", t)
        BY <1>1, <2>1 DEF Messages
    <2>3. d.request = request /\ d.decision = decision_of("REQUEST_REPLAYED")
        BY DEF Decided
    <2> HIDE DEF d
    <2>4. d.request.nonce = "second"
        BY <2>2, <2>3, MessageFields
    <2>5. d.decision \in {"degrade", "deny"}
        <3>1. Valid # "REQUEST_REPLAYED"
            BY DEF Valid
        <3> QED
            BY <2>3, <3>1, DecisionOf
    <2>6. decisions' = Append(decisions, d)
        BY <1>6 DEF d
    <2>7. audit_log' = [audit_log EXCEPT !["gate"] = Append(@, DecisionEvent(d))]
        BY <1>4, <2>1, <2>6, EvaluationLog
    <2>8. job' = IdleWork /\ "issuer" \in DOMAIN work'
        BY <1>1, <1>6 DEF Return, job
    <2> QED
        BY <1>2, <1>4, <2>1, <2>4, <2>5, <2>6, <2>7, <2>8, SecondDecided
<1>7. CASE UNCHANGED decisions /\ Goto("issuer", "decide")
    <2>1. job' = [job EXCEPT !.pc = "decide"] /\ "issuer" \in DOMAIN work'
        BY <1>1, <1>7 DEF Goto, job
    <2>2. job' = WorkAt("decide", n)'
        BY <1>2, <1>3, <2>1 DEF WorkAt
    <2>3. UNCHANGED audit_log
        BY <1>4, <1>7, EvaluationLog
    <2> QED
        BY <1>2, <1>3, <1>4, <1>7, <2>1, <2>2, <2>3, Undecided
<1> QED
    BY <1>5, <1>6, <1>7 DEF Consume, job

(* The decision: on the normal profile it is allow while the profile is    *)
(* fresh, and on an impaired one it never is.                              *)
LEMMA DecideInv ==
    ASSUME CoreInv, Decide("issuer"), AuditDecision, UNCHANGED script_vars
    PROVE  CoreInv' /\ DecidesWhileFresh
<1>1. Shape /\ IssuerInv /\ LogInv /\ Messages /\ clock \in Nat /\ "issuer" \in DOMAIN work /\ impaired \in Impaired
    BY DEF CoreInv, Shape
<1>2. /\ job.pc = "decide"
      /\ UNCHANGED <<clock, up, issued, pc, impaired, request, state, lease, durable_vars, gate_process>>
    BY DEF Decide, At, job, script_vars, AuditDecision
<1>3. PICK n \in 0..clock : job = WorkAt("decide", n) /\ request.created_at <= n /\ state.stamps[1] <= n
    BY <1>2, AtWork
<1>4. stage \in {4, 12} /\ stage' = stage /\ pc' \in DOMAIN Stage
    BY <1>1, <1>2, AtWork DEF stage, Shape
<1> DEFINE reason == policy_violation(request, state, policy, None, n)
           d == Decided(request, policy, reason, TRUE)
<1> HIDE DEF reason
<1>5. d.request = request /\ d.decision = decision_of(reason)
    BY DEF Decided
<1>6. d.decision \in {"allow", "degrade", "deny"} /\ (d.decision = "allow" <=> reason = Valid)
    BY <1>5, DecisionOf
<1> HIDE DEF d
<1>7. /\ decisions' = Append(decisions, d)
      /\ \/ reason = Valid /\ work' = [work EXCEPT !["issuer"].pc = "issue"]
         \/ reason # Valid /\ work' = [work EXCEPT !["issuer"] = IdleWork]
    <2>1. /\ work["issuer"].request = request /\ work["issuer"].policy = policy /\ work["issuer"].now = n
          /\ work["issuer"].state = state /\ work["issuer"].assertion = None
        BY <1>3 DEF WorkAt, job
    <2> QED
        BY <2>1 DEF Decide, Goto, Return, d, reason
<1>8. "issuer" \in DOMAIN work' /\ (reason # Valid => job' = IdleWork)
    BY <1>1, <1>7 DEF job
<1>9. CASE stage = 4
    <2>1. PICK t \in 0..clock : request = RequestAt("first", t)
        BY <1>1, <1>9 DEF Messages
    <2>2. PICK u \in 0..clock : state = StateAt("normal", u)
        BY <1>1, <1>9 DEF Messages
    <2>3. d.request.nonce = "first" /\ state.stamps[1] = u /\ n \in Nat /\ u \in Nat
        BY <1>1, <1>5, <2>1, <2>2, MessageFields
    <2>4. n <= Fresh => reason = Valid
        BY <1>3, <2>1, <2>2, <2>3, NormalAllowed DEF reason
    <2>5. reason = Valid => n <= Fresh
        BY <2>2, <2>3, GrantIsFresh DEF reason
    <2>6. d.decision = "allow" <=> evaluated_at - ImportTime <= Fresh
        <3>1. evaluated_at = n
            BY <1>2, <1>3 DEF evaluated_at, job, WorkAt
        <3> QED
            BY <1>6, <2>3, <2>4, <2>5, <3>1 DEF ImportTime
    <2>7. UNCHANGED audit_log
        BY <1>4, <1>9, EvaluationLog
    <2>8. reason = Valid => job' = WorkAt("issue", n)'
        BY <1>1, <1>2, <1>3, <1>7 DEF WorkAt, job
    <2> QED
        BY <1>2, <1>3, <1>4, <1>6, <1>7, <1>8, <1>9, <2>3, <2>5, <2>6, <2>7, <2>8, FirstDecided
<1>10. CASE stage = 12
    <2>1. PICK t \in 0..clock : request = RequestAt("second", t)
        BY <1>1, <1>10 DEF Messages
    <2>2. PICK u \in 0..clock : state = StateAt(impaired, u)
        BY <1>1, <1>10 DEF Messages
    <2>3. d.request.nonce = "second"
        BY <1>5, <2>1, MessageFields
    <2>4. reason # Valid
        BY <1>1, <2>2, ImpairedRefused DEF reason
    <2>5. d.decision \in {"degrade", "deny"}
        BY <1>6, <2>4
    <2>6. audit_log' = [audit_log EXCEPT !["gate"] = Append(@, DecisionEvent(d))]
        BY <1>4, <1>7, <1>10, EvaluationLog
    <2> QED
        BY <1>2, <1>4, <1>7, <1>8, <1>10, <2>3, <2>4, <2>5, <2>6, SecondDecided
<1> QED
    BY <1>4, <1>9, <1>10

(* The lease is issued, for a decision on fresh measurements.              *)
LEMMA IssueLeaseInv ==
    ASSUME CoreInv, pc = "evaluating", IssueLease("issuer"), AuditDecision, UNCHANGED script_vars
    PROVE  CoreInv' /\ DecidesWhileFresh
<1>1. Shape /\ IssuerInv /\ LogInv /\ Messages /\ clock \in Nat /\ "issuer" \in DOMAIN work /\ IsSeq(issued)
    BY DEF CoreInv, Shape
<1>2. /\ job.pc = "issue"
      /\ UNCHANGED <<clock, up, nonces, decisions, pc, impaired, request, state, lease, durable_vars, gate_process>>
      /\ work' = [work EXCEPT !["issuer"] = IdleWork]
    BY DEF IssueLease, At, job, script_vars, AuditDecision, Return
<1>3. PICK n \in 0..clock : job = WorkAt("issue", n)
    BY <1>2, AtWork
<1>4. stage = 4 /\ stage' = stage /\ pc' \in DOMAIN Stage
    BY <1>1, <1>2, StageOf DEF stage, Shape
<1>5. job' = IdleWork /\ job'.pc = "idle" /\ "issuer" \in DOMAIN work'
    BY <1>1, <1>2 DEF job, IdleWork
<1>6. UNCHANGED audit_log /\ log' = log
    BY <1>2, <1>4, EvaluationLog DEF log
<1>7. Made' = Made /\ Made = 1 /\ Allowed' = Allowed
    BY <1>2, <1>4, <1>5 DEF Made, Allowed
<1>8. Allowed /\ n <= Fresh /\ Len(issued) = 0
    <2>1. job.now = n
        BY <1>3 DEF WorkAt
    <2> QED
        BY <1>1, <1>2, <1>4, <2>1 DEF IssuerInv, Granting
<1>9. \/ UNCHANGED issued
      \/ /\ IsSeq(issued)' /\ Len(issued') = 1
         /\ issued'[1].decided_at = n /\ issued'[1].lease = LeaseAt(clock)
    <2>1. CASE UNCHANGED issued
        BY <2>1
    <2>2. CASE issued' = Append(issued,
                    [lease |-> issue_lease(job, Len(issued) + 1, clock), request |-> job.request,
                     state |-> job.state, policy |-> job.policy, decided_at |-> job.now])
        <3> DEFINE x == [lease |-> issue_lease(job, Len(issued) + 1, clock), request |-> job.request,
                         state |-> job.state, policy |-> job.policy, decided_at |-> job.now]
        <3>1. x.decided_at = n /\ x.lease = issue_lease(job, 1, clock)
            BY <1>3, <1>8 DEF WorkAt
        <3> HIDE DEF x
        <3>2. issued' = Append(issued, x)
            BY <2>2 DEF x
        <3>3. /\ IsSeq(Append(issued, x)) /\ Len(Append(issued, x)) = Len(issued) + 1
              /\ Append(issued, x)[Len(issued) + 1] = x
            BY ONLY <1>1, Appended, Zenon
        <3>4. issue_lease(job, 1, clock) = LeaseAt(clock)
            <4>1. PICK t \in 0..clock : request = RequestAt("first", t)
                BY <1>1, <1>4 DEF Messages
            <4>2. PICK u \in 0..clock : state = StateAt("normal", u)
                BY <1>1, <1>4 DEF Messages
            <4>3. job = [pc |-> "issue", request |-> RequestAt("first", t), state |-> StateAt("normal", u),
                         policy |-> policy, assertion |-> None, now |-> n]
                BY <1>3, <4>1, <4>2 DEF WorkAt
            <4> QED
                BY <4>3, LeaseIssued
        <3> QED
            BY <1>8, <3>1, <3>2, <3>3, <3>4
    <2> QED
        BY <2>1, <2>2 DEF IssueLease, job
<1>10. Working'
    BY <1>5 DEF Working
<1>11. Deciding'
    BY <1>1, <1>2, <1>4, <1>5, <1>7 DEF IssuerInv, Deciding
<1>12. Granting'
    <2>1. Len(issued') = 1 => \E t \in 0..clock' : issued'[1].lease = LeaseAt(t)
        BY <1>1, <1>2, <1>8, <1>9
    <2> QED
        BY <1>4, <1>5, <1>7, <1>8, <1>9, <2>1 DEF Granting
<1>13. LogInv'
    BY <1>1, <1>2, <1>4, <1>6, <1>7, LogFrame
<1>14. IsSeq(decisions)' /\ IsSeq(log)' /\ "gate" \in DOMAIN audit_log'
    BY <1>1, <1>2, <1>6 DEF Shape
<1>15. IsSeq(issued)'
    BY <1>1, <1>9
<1>16. CoreInv'
    BY <1>2, <1>4, <1>5, <1>15, <1>10, <1>11, <1>12, <1>13, <1>14, IssuerStep DEF IssuerInv
<1>17. DecidesWhileFresh
    BY <1>1, <1>2, NothingDecided
<1> QED
    BY <1>16, <1>17

(* Every step of an evaluation preserves the invariant.                    *)
LEMMA EvaluateInv ==
    ASSUME CoreInv, Evaluate
    PROVE  CoreInv' /\ DecidesWhileFresh
BY ConsumeInv, DecideInv, IssueLeaseInv DEF Evaluate

(* The script takes the lease, and logs the first decision.                *)
LEMMA DecisionInv == ASSUME CoreInv, Decision PROVE CoreInv'
<1>1. Shape /\ IssuerInv /\ LogInv /\ Messages /\ clock \in Nat /\ IsSeq(issued) /\ IsSeq(decisions)
    BY DEF CoreInv, Shape
<1>2. /\ pc = "evaluating" /\ pc' = "command" /\ job.pc = "idle"
      /\ lease' = IF issued = << >> THEN None ELSE issued[1].lease
      /\ audit_log' = [audit_log EXCEPT !["gate"] = Append(@, DecisionEvent(decisions[Len(decisions)]))]
      /\ UNCHANGED <<clock, nonces, up, work, decisions, issued, impaired, request, state, durable_vars, gate_process>>
    BY DEF Decision, job, engine_vars
<1>3. stage = 4 /\ stage' = 5 /\ pc' \in DOMAIN Stage /\ job' = job /\ "issuer" \in DOMAIN work'
    BY <1>1, <1>2, StageOf, StageDomain DEF stage, job, Shape
<1>4. job = IdleWork
    BY <1>1, <1>2, IdleIs DEF IssuerInv
<1>5. Made = 1 /\ Made' = 1 /\ Len(decisions) = 1 /\ Allowed' = Allowed
    BY <1>1, <1>2, <1>3 DEF Made, IssuerInv, Deciding, Allowed
<1>6. Working' /\ Deciding'
    BY <1>1, <1>2, <1>3, <1>4, <1>5 DEF Working, IssuerInv, Deciding
<1>7. lease' = None \/ (Allowed /\ \E t \in 0..clock : lease' = LeaseAt(t))
    <2>1. CASE Len(issued) = 0
        BY <1>1, <1>2, <2>1, EmptyLength
    <2>2. CASE Len(issued) = 1
        BY <1>1, <1>2, <2>2 DEF IssuerInv, Granting
    <2> QED
        BY <1>1, <2>1, <2>2 DEF IssuerInv, Granting
<1>8. Granting'
    BY <1>1, <1>2, <1>3, <1>5, <1>7 DEF IssuerInv, Granting
<1> DEFINE d == decisions[1]
<1>9. d.decision \in {"allow", "degrade", "deny"} /\ d.request.nonce = "first" /\ (Allowed <=> d.decision = "allow")
    BY <1>1, <1>5 DEF IssuerInv, Deciding, Allowed
<1> HIDE DEF d
<1>10. audit_log' = [audit_log EXCEPT !["gate"] = Append(@, DecisionEvent(d))]
    BY <1>2, <1>5 DEF d
<1>11. "gate" \in DOMAIN audit_log' /\ log' = Append(log, DecisionEvent(d)) /\ IsSeq(log) /\ Ordered(log, impaired)
    BY <1>1, <1>10 DEF Shape, LogInv, log
<1>12. /\ Logged(log, {"CAPABILITY_REQUESTED"}, d.request.nonce)
       /\ Logged(log, {"NETWORK_STATE_ASSERTED"}, "normal")
       /\ "normal" = IF d.request.nonce = "first" THEN "normal" ELSE impaired
       /\ ~Logged(log, DecisionTypes, d.request.nonce)
    BY <1>1, <1>3, <1>9 DEF LogInv, RecordedIn
<1>13. IsSeq(Append(log, DecisionEvent(d))) /\ Ordered(Append(log, DecisionEvent(d)), impaired)
    BY ONLY <1>9, <1>11, <1>12, DecisionLogged
<1>14. IsSeq(log') /\ Ordered(log, impaired)'
    BY <1>2, <1>11, <1>13
<1>15. \A T, ref : Logged(log, T, ref)' <=>
             Logged(log, T, ref) \/ (DecisionEvent(d).event_type \in T /\ d.request.nonce = ref)
    BY <1>9, <1>11, DecisionKept
<1>16. /\ DecisionEvent(d).event_type \in DecisionTypes
       /\ DecisionEvent(d).event_type = "CAPABILITY_ALLOWED" <=> d.decision = "allow"
    BY <1>9, DecisionEventIs
<1>17. RecordedIn(log)'
    BY <1>1, <1>2, <1>3, <1>5, <1>9, <1>15, <1>16 DEF LogInv, RecordedIn
<1>18. LogInv'
    BY <1>14, <1>17 DEF LogInv
<1>19. IsSeq(decisions)' /\ IsSeq(issued)'
    BY <1>1, <1>2
<1> QED
    BY <1>2, <1>3, <1>6, <1>8, <1>11, <1>14, <1>18, <1>19, IssuerStep DEF IssuerInv

-----------------------------------------------------------------------------
(* The gate.                                                               *)

(* The gate works and the script waits.                                    *)
LEMMA GateStepFrame ==
    ASSUME CoreInv, UNCHANGED <<engine_vars, script_vars, clock, gate_up>>,
           "gate" \in DOMAIN gate_call', "gate" \in DOMAIN audit_log', "gate" \in DOMAIN revocations',
           <<"lease", 1>> \in DOMAIN revocations'["gate"],
           NEW s, log' = s, IsSeq(s), Ordered(s, impaired), RecordedIn(s),
           IsSeq(declared)', IsSeq(forwarded)', GateInv'
    PROVE  CoreInv'
<1>1. Shape /\ IssuerInv /\ Messages /\ clock \in Nat
    BY DEF CoreInv, Shape
<1>2. UNCHANGED <<pc, impaired, request, state, lease, up, work, nonces, decisions, issued>>
    BY DEF engine_vars, script_vars
<1>3. stage' = stage /\ stage \in 0..17
    BY <1>1, <1>2, StageType DEF stage
<1>4. IsSeq(log)'
    OBVIOUS
<1>5. Shape'
    BY <1>1, <1>2, <1>4 DEF Shape
<1>6. Messages'
    BY <1>1, <1>2, <1>3 DEF Messages
<1>7. IssuerInv' /\ Made' = Made /\ Allowed' = Allowed
    BY <1>1, <1>2, <1>3, IssuerFrame
<1>8. LogInv'
    BY <1>2, <1>3, <1>7, RecordedStep
<1> QED
    BY <1>5, <1>6, <1>7, <1>8 DEF CoreInv

(* A command has been answered.                                            *)
LEMMA CallEnds ==
    ASSUME CoreInv, stage \in {6, 8, 16}, UNCHANGED <<engine_vars, script_vars, clock, gate_up>>,
           UNCHANGED <<durable_vars, revocations>>,
           "gate" \in DOMAIN gate_call', gcall' = G!IdleCall, "gate" \in DOMAIN audit_log',
           NEW s, log' = s, IsSeq(s), Ordered(s, impaired), RecordedIn(s),
           IsSeq(declared)', IsSeq(forwarded)',
           \A i \in DOMAIN forwarded' : forwarded'[i].command.command_id = "cmd_valid_lease",
           stage = 16 => LastRefused'
    PROVE  CoreInv'
<1>1. GateInv /\ Shape
    BY DEF CoreInv
<1>2. UNCHANGED <<pc, state, lease>> /\ stage' = stage
    BY DEF script_vars, stage
<1>3. gcall'.pc = "idle"
    BY DEF G!IdleCall
<1>4. Calling'
    BY DEF Calling, G!IdleCall
<1>5. Revoked' = Revoked
    BY DEF Revoked
<1>6. Enforcing'
    BY <1>1, <1>2, <1>3, <1>5 DEF GateInv, Enforcing, durable_vars
<1>7. GateInv'
    BY <1>2, <1>4, <1>6 DEF GateInv
<1>8. "gate" \in DOMAIN revocations' /\ <<"lease", 1>> \in DOMAIN revocations'["gate"]
    BY <1>1 DEF Shape
<1> QED
    BY <1>7, <1>8, GateStepFrame

(* A command comes one check further.                                      *)
LEMMA CallGoesOn ==
    ASSUME CoreInv, stage \in {6, 8, 16}, UNCHANGED <<engine_vars, script_vars, clock, gate_up>>,
           UNCHANGED <<revocation_messages, revoked_leases, revocations, audit_log, forwarded, declared>>,
           "gate" \in DOMAIN gate_call', pc \in DOMAIN CommandId, LeaseSent # None,
           NEW p \in {"validate", "remember", "answer"}, NEW t \in 0..clock, NEW reason,
           gcall' = CallAt(p, t, reason),
           p # "answer" => UNCHANGED replay_entries,
           stage < 16 \/ (stage = 16 /\ gcall.pc \in {"contains", "validate", "remember"}),
           (stage = 16 /\ p = "answer") \/ LastKeys \cap replay_entries' = {},
           stage = 16 /\ p \in {"remember", "answer"} => reason \in {"LEASE_REVOKED", "LEASE_EXPIRED"}
    PROVE  CoreInv'
<1>1. GateInv /\ Shape /\ LogInv
    BY DEF CoreInv
<1>2. UNCHANGED <<pc, state, lease>> /\ stage' = stage
    BY DEF script_vars, stage
<1>3. gcall'.pc = p /\ gcall'.reason = reason
    BY DEF CallAt
<1>4. Calling'
    <2>1. LeaseSent' = LeaseSent
        BY <1>2 DEF LeaseSent
    <2>2. gcall' = CallAt(p, t, gcall.reason)'
        BY <1>2, <1>3, <2>1 DEF CallAt
    <2> QED
        BY <1>2, <2>1, <2>2 DEF Calling
<1>5. Revoked' = Revoked
    BY DEF Revoked
<1>6. Enforcing'
    BY <1>1, <1>2, <1>3, <1>5 DEF GateInv, Enforcing
<1>7. GateInv'
    BY <1>2, <1>3, <1>4, <1>6 DEF GateInv
<1>8. "gate" \in DOMAIN revocations' /\ <<"lease", 1>> \in DOMAIN revocations'["gate"] /\ "gate" \in DOMAIN audit_log'
    BY <1>1 DEF Shape
<1>9. log' = log /\ IsSeq(log) /\ Ordered(log, impaired) /\ RecordedIn(log)
    BY <1>1 DEF log, Shape, LogInv
<1>10. IsSeq(declared)' /\ IsSeq(forwarded)'
    BY <1>1 DEF Shape
<1>11. PICK s : s = log
    OBVIOUS
<1>12. log' = s /\ IsSeq(s) /\ Ordered(s, impaired) /\ RecordedIn(s)
    BY <1>9, <1>11
<1> QED
    BY <1>7, <1>8, <1>10, <1>12, GateStepFrame

(* A call of evaluate() has the command of the script in its hands, with   *)
(* the lease that the script sent along.                                   *)
LEMMA AtCommand ==
    ASSUME CoreInv, gcall.pc \in {"contains", "validate", "remember", "answer"}
    PROVE  /\ pc \in DOMAIN CommandId
           /\ \/ stage = 6 /\ CommandId[pc] = "cmd_valid_lease" /\ LeaseSent = lease
              \/ stage = 8 /\ CommandId[pc] = "cmd_no_lease" /\ LeaseSent = None
              \/ stage = 16 /\ CommandId[pc] = "cmd_after_revocation" /\ LeaseSent = lease
           /\ gcall.pc = "contains" \/ (LeaseSent # None /\ stage # 8)
           /\ \E t \in 0..clock : gcall = CallAt(gcall.pc, t, gcall.reason)
<1>1. /\ G!IdleCall.pc = "idle" /\ \A p, t, reason : CallAt(p, t, reason).pc = p
      /\ \A p, t : RevokeAt(p, t).pc = p
    BY DEF G!IdleCall, CallAt, RevokeAt
<1>2. Calling
    BY DEF CoreInv, GateInv
<1>3. /\ pc \in DOMAIN CommandId
      /\ gcall.pc = "contains" \/ LeaseSent # None
      /\ \E t \in 0..clock : gcall = CallAt(gcall.pc, t, gcall.reason)
    BY <1>1, <1>2 DEF Calling
<1>4. \/ stage = 6 /\ CommandId[pc] = "cmd_valid_lease" /\ LeaseSent = lease
      \/ stage = 8 /\ CommandId[pc] = "cmd_no_lease" /\ LeaseSent = None
      \/ stage = 16 /\ CommandId[pc] = "cmd_after_revocation" /\ LeaseSent = lease
    BY <1>3, StageOf DEF CommandId, stage, LeaseSent
<1> QED
    BY <1>3, <1>4

(* A call of revoke() has the revocation and the lease of the script in    *)
(* its hands.                                                              *)
LEMMA AtRevoke ==
    ASSUME CoreInv, gcall.pc \in {"record", "apply"}
    PROVE  stage = 14 /\ lease # None /\ \E t \in 0..clock : gcall = RevokeAt(gcall.pc, t)
<1>1. /\ G!IdleCall.pc = "idle" /\ \A p, t, reason : CallAt(p, t, reason).pc = p
      /\ \A p, t : RevokeAt(p, t).pc = p
    BY DEF G!IdleCall, CallAt, RevokeAt
<1>2. Calling
    BY DEF CoreInv, GateInv
<1>3. pc = "revoking" /\ lease # None /\ \E t \in 0..clock : gcall = RevokeAt(gcall.pc, t)
    BY <1>1, <1>2 DEF Calling
<1> QED
    BY <1>3, StageOf DEF stage

(* What a call has in its hands.                                           *)
LEMMA CallFields ==
    ASSUME NEW p, NEW t, NEW reason
    PROVE  /\ CallAt(p, t, reason).command = CommandAt(CommandId[pc], t)
           /\ CallAt(p, t, reason).command.command_id = CommandId[pc]
           /\ CallAt(p, t, reason).lease = LeaseSent
           /\ CallAt(p, t, reason).state = state
BY DEF CallAt, CommandAt

(* The call goes on with the same messages.                                *)
LEMMA CallAdvances ==
    ASSUME NEW p, NEW t, NEW reason, NEW q
    PROVE  [CallAt(p, t, reason) EXCEPT !.pc = q] = CallAt(q, t, reason)
<1> DEFINE c == CommandAt(CommandId[pc], t)
<1> HIDE DEF c
<1>1. CallAt(p, t, reason) = [pc |-> p, command |-> c, lease |-> LeaseSent, state |-> state,
                              revocation |-> None, reason |-> reason]
    BY DEF CallAt, c
<1>2. CallAt(q, t, reason) = [pc |-> q, command |-> c, lease |-> LeaseSent, state |-> state,
                              revocation |-> None, reason |-> reason]
    BY DEF CallAt, c
<1> QED
    BY <1>1, <1>2

(* The verdict is written into the call.                                   *)
LEMMA CallVerdict ==
    ASSUME NEW p, NEW t, NEW reason, NEW v
    PROVE  [CallAt(p, t, reason) EXCEPT !.reason = v] = CallAt(p, t, v)
<1> DEFINE c == CommandAt(CommandId[pc], t)
<1> HIDE DEF c
<1>1. CallAt(p, t, reason) = [pc |-> p, command |-> c, lease |-> LeaseSent, state |-> state,
                              revocation |-> None, reason |-> reason]
    BY DEF CallAt, c
<1>2. CallAt(p, t, v) = [pc |-> p, command |-> c, lease |-> LeaseSent, state |-> state,
                         revocation |-> None, reason |-> v]
    BY DEF CallAt, c
<1> QED
    BY <1>1, <1>2

(* The rows that a command takes in the replay store.                      *)
LEMMA KeysOfCommand ==
    ASSUME NEW id, NEW t
    PROVE  G!command_keys(CommandAt(id, t)) = {<<Ctx.agent, "command_id", id>>, <<Ctx.agent, "command_nonce", id>>}
BY DEF G!command_keys, CommandAt

(* Nothing has taken the rows of the last command before it is remembered. *)
LEMMA LastCommandIsNew ==
    ASSUME CoreInv, stage = 16, gcall.pc \in {"contains", "validate", "remember"}
    PROVE  ~G!contains(gcall.command)
<1>1. LastKeys \cap replay_entries = {}
    BY DEF CoreInv, GateInv, Enforcing
<1>2. CommandId[pc] = "cmd_after_revocation" /\ \E t \in 0..clock : gcall = CallAt(gcall.pc, t, gcall.reason)
    BY AtCommand
<1>3. G!command_keys(gcall.command) = LastKeys
    BY <1>2, CallFields, KeysOfCommand DEF LastKeys
<1> QED
    BY <1>1, <1>3 DEF G!contains

(* A command is refused without a fallback.                                *)
LEMMA RefusedQuietly ==
    ASSUME CoreInv, gcall.pc \in {"contains", "remember"}, NEW reason,
           G!RejectQuietly("gate", gcall.command, reason), G!Return("gate"),
           UNCHANGED <<engine_vars, script_vars, clock, gate_up, durable_vars, revocations, forwarded>>,
           stage = 16 => lease = None /\ reason = "NO_LEASE"
    PROVE  CoreInv'
<1> DEFINE e == [event_type |-> "COMMAND_REJECTED", reason_code |-> reason, ref |-> gcall.command.command_id]
           s == Append(log, e)
<1>1. Shape /\ LogInv /\ GateInv
    BY DEF CoreInv
<1>2. /\ e.event_type = "COMMAND_REJECTED" /\ e.reason_code = reason
      /\ e.ref = CommandId[pc] /\ (stage = 16 => CommandId[pc] = "cmd_after_revocation") /\ stage \in {6, 8, 16}
    BY AtCommand, CallFields
<1> HIDE DEF e
<1>3. /\ audit_log' = [audit_log EXCEPT !["gate"] = Append(@, e)] /\ UNCHANGED declared
      /\ gate_call' = [gate_call EXCEPT !["gate"] = G!IdleCall]
    BY DEF G!RejectQuietly, G!AuditOnly, G!AuditEvent, e, G!Return
<1>4. log' = s /\ "gate" \in DOMAIN audit_log' /\ "gate" \in DOMAIN gate_call' /\ gcall' = G!IdleCall
    BY <1>1, <1>3 DEF Shape, log, gcall
<1>5. IsSeq(log) /\ Ordered(log, impaired) /\ RecordedIn(log)
    BY <1>1 DEF Shape, LogInv
<1>6. e.event_type \notin DecisionTypes /\ Follows(log, e, impaired)
    BY <1>2 DEF DecisionTypes, Follows
<1>7. IsSeq(s) /\ Ordered(s, impaired) /\ RecordedIn(s)
    BY ONLY <1>5, <1>6, LogEvent
<1>8. stage = 16 => LastRefused'
    <2>1. DOMAIN s = 1..(Len(log) + 1) /\ s[Len(log) + 1] = e /\ Len(log) \in Nat
        BY ONLY <1>5, Appended, SeqLength
    <2> HIDE DEF s
    <2>2. Len(log) + 1 \in DOMAIN s
        BY <2>1
    <2>3. lease' = lease
        BY DEF script_vars
    <2> QED
        BY <1>2, <1>4, <2>1, <2>2, <2>3 DEF LastRefused
<1>9. IsSeq(declared)' /\ IsSeq(forwarded)'
    BY <1>1, <1>3 DEF Shape
<1>10. \A i \in DOMAIN forwarded' : forwarded'[i].command.command_id = "cmd_valid_lease"
    BY <1>1 DEF GateInv, Enforcing
<1> HIDE DEF s
<1>11. PICK x : x = s
    OBVIOUS
<1>12. log' = x /\ IsSeq(x) /\ Ordered(x, impaired) /\ RecordedIn(x)
    BY <1>4, <1>7, <1>11
<1> QED
    BY <1>2, <1>4, <1>8, <1>9, <1>10, <1>12, CallEnds

(* The first look at the replay store preserves the invariant; the last    *)
(* command without a lease is refused here.                                *)
LEMMA CheckReplayInv ==
    ASSUME CoreInv, G!CheckReplay("gate"), UNCHANGED <<engine_vars, script_vars>> PROVE CoreInv'
<1>1. gcall.pc = "contains" /\ UNCHANGED <<clock, durable_vars, gate_up, revocations, forwarded>>
    BY DEF G!CheckReplay, G!At, gcall, G!durable, durable_vars
<1>2. /\ pc \in DOMAIN CommandId /\ stage \in {6, 8, 16} /\ (stage = 16 => LeaseSent = lease)
      /\ \E t \in 0..clock : gcall = CallAt(gcall.pc, t, gcall.reason)
    BY <1>1, AtCommand
<1>3. gcall.lease = LeaseSent
    BY <1>2, CallFields
<1>4. CASE G!contains(gcall.command) /\ G!RejectQuietly("gate", gcall.command, "COMMAND_REPLAYED") /\ G!Return("gate")
    <2>1. stage # 16
        BY <1>1, <1>4, LastCommandIsNew
    <2> QED
        BY <1>1, <1>4, <2>1, RefusedQuietly
<1>5. CASE gcall.lease = None /\ G!RejectQuietly("gate", gcall.command, "NO_LEASE") /\ G!Return("gate")
    BY <1>1, <1>2, <1>3, <1>5, RefusedQuietly
<1>6. CASE gcall.lease # None /\ G!Goto("gate", "validate") /\ UNCHANGED <<audit_log, declared>>
    <2>1. PICK t \in 0..clock : gcall = CallAt("contains", t, gcall.reason)
        BY <1>1, <1>2
    <2>2. gcall' = [gcall EXCEPT !.pc = "validate"] /\ "gate" \in DOMAIN gate_call'
        BY <1>6 DEF G!Goto, gcall, CoreInv, Shape
    <2>3. PICK reason : reason = gcall.reason
        OBVIOUS
    <2>4. gcall' = CallAt("validate", t, reason)
        BY <2>1, <2>2, <2>3, CallAdvances
    <2>5. stage < 16 \/ (stage = 16 /\ gcall.pc \in {"contains", "validate", "remember"})
        BY <1>1, <1>2
    <2>6. LastKeys \cap replay_entries' = {}
        BY <1>1, <2>5 DEF CoreInv, GateInv, Enforcing, durable_vars
    <2>7. UNCHANGED <<revocation_messages, revoked_leases, replay_entries>>
        BY <1>1 DEF durable_vars
    <2> QED
        BY <1>1, <1>2, <1>3, <1>6, <2>2, <2>4, <2>5, <2>6, <2>7, CallGoesOn
<1> QED
    BY <1>4, <1>5, <1>6 DEF G!CheckReplay, gcall

(* The gate knows the lease it has revoked.                                *)
LEMMA RevokedIsKnown ==
    ASSUME Revoked
    PROVE  <<"lease", 1>> \in G!revoked_lease_ids("gate")
<1>1. <<"lease", 1>> \in G!LeaseIds
    BY LeaseFields DEF G!LeaseIds
<1>2. RevokedRow # None
    BY NoneAssumption DEF RevokedRow
<1> QED
    BY <1>1, <1>2 DEF Revoked, G!revoked_lease_ids

(* The verdict on a command: the first one is valid on fresh measurements  *)
(* only, and the last one is refused.                                      *)
LEMMA ValidateInv ==
    ASSUME CoreInv, G!Validate("gate"), UNCHANGED <<engine_vars, script_vars>> PROVE CoreInv'
<1> DEFINE v == G!validate_lease_for_command(gcall.lease, gcall.command, gcall.state,
                                             G!revoked_lease_ids("gate"), clock)
<1>1. /\ gcall.pc = "validate"
      /\ UNCHANGED <<clock, durable_vars, gate_up, revocations, audit_log, forwarded, declared>>
    BY DEF G!Validate, G!At, gcall, G!durable, durable_vars, G!history
<1>2. Shape /\ Messages /\ GateInv /\ clock \in Nat
    BY DEF CoreInv, Shape
<1>3. /\ pc \in DOMAIN CommandId /\ stage \in {6, 16} /\ LeaseSent = lease /\ lease # None
      /\ stage = 16 => CommandId[pc] = "cmd_after_revocation"
    BY <1>1, AtCommand
<1>4. PICK t \in 0..clock : gcall = CallAt("validate", t, gcall.reason)
    BY <1>1, AtCommand
<1>5. gcall.lease = lease /\ gcall.command = CommandAt(CommandId[pc], t) /\ gcall.state = state
    BY <1>3, <1>4, CallFields
<1>6. PICK u \in 0..clock : lease = LeaseAt(u) /\ lease.ctx = Ctx
    BY <1>3, LeaseHeld
<1>8. stage = 16 => v \in {"LEASE_REVOKED", "LEASE_EXPIRED"}
    <2>1. ASSUME stage = 16 PROVE v \in {"LEASE_REVOKED", "LEASE_EXPIRED"}
        <3>1. Revoked
            BY <1>2, <1>3, <2>1 DEF GateInv, Enforcing
        <3>2. <<"lease", 1>> \in G!revoked_lease_ids("gate")
            BY <3>1, RevokedIsKnown
        <3>3. u \in Nat /\ u <= clock
            BY <1>2
        <3>4. v = G!validate_lease_for_command(LeaseAt(u), CommandAt(CommandId[pc], t), state,
                                               G!revoked_lease_ids("gate"), clock)
            BY <1>5, <1>6
        <3> HIDE DEF v
        <3> QED
            BY <1>2, <3>2, <3>3, <3>4, LastVerdict
    <2> QED
        BY <2>1
<1> HIDE DEF v
<1>9. gcall' = CallAt("remember", t, v) /\ "gate" \in DOMAIN gate_call'
    <2>1. gate_call' = [gate_call EXCEPT !["gate"].pc = "remember", !["gate"].reason = v]
        BY DEF G!Validate, v, gcall
    <2>2. gcall' = [gcall EXCEPT !.pc = "remember", !.reason = v] /\ "gate" \in DOMAIN gate_call'
        BY <1>2, <2>1 DEF gcall, Shape
    <2>3. gcall' = [[gcall EXCEPT !.pc = "remember"] EXCEPT !.reason = v]
        BY ONLY <2>2, Zenon
    <2>4. PICK x : x = gcall.reason
        OBVIOUS
    <2>5. [gcall EXCEPT !.pc = "remember"] = CallAt("remember", t, x)
        BY <1>4, <2>4, CallAdvances
    <2>6. PICK y : y = v
        OBVIOUS
    <2>7. [CallAt("remember", t, x) EXCEPT !.reason = y] = CallAt("remember", t, y)
        BY CallVerdict
    <2> QED
        BY ONLY <2>2, <2>3, <2>5, <2>6, <2>7, Zenon
<1>10. stage < 16 \/ (stage = 16 /\ gcall.pc \in {"contains", "validate", "remember"})
    BY <1>1, <1>3
<1>11. LastKeys \cap replay_entries' = {}
    BY <1>1, <1>2, <1>10 DEF GateInv, Enforcing, durable_vars
<1>12. UNCHANGED <<revocation_messages, revoked_leases, replay_entries>>
    BY <1>1 DEF durable_vars
<1>13. PICK x : x = v
    OBVIOUS
<1>14. /\ gcall' = CallAt("remember", t, x)
       /\ stage = 16 => x \in {"LEASE_REVOKED", "LEASE_EXPIRED"}
    BY <1>8, <1>9, <1>13
<1> QED
    BY <1>1, <1>3, <1>9, <1>10, <1>11, <1>12, <1>14, CallGoesOn

(* The transaction on the replay store preserves the invariant; the last   *)
(* command finds no conflict there, so that its refusal is the one of its  *)
(* verdict.                                                                *)
LEMMA RememberInv ==
    ASSUME CoreInv, G!Remember("gate"), UNCHANGED <<engine_vars, script_vars>> PROVE CoreInv'
<1> DEFINE conflict == G!remember_conflict(gcall.command, gcall.lease, gcall.reason)
<1>1. gcall.pc = "remember" /\ UNCHANGED <<clock, revocation_messages, revoked_leases, gate_up, revocations, forwarded>>
    BY DEF G!Remember, G!At, gcall
<1>2. Shape /\ GateInv /\ clock \in Nat
    BY DEF CoreInv, Shape
<1>3. /\ pc \in DOMAIN CommandId /\ stage \in {6, 16} /\ LeaseSent = lease /\ lease # None
      /\ stage = 6 => CommandId[pc] = "cmd_valid_lease"
    BY <1>1, AtCommand
<1>4. PICK t \in 0..clock : gcall = CallAt("remember", t, gcall.reason)
    BY <1>1, AtCommand
<1>5. gcall.command = CommandAt(CommandId[pc], t)
    BY <1>4, CallFields
<1>6. stage = 16 => gcall.reason \in {"LEASE_REVOKED", "LEASE_EXPIRED"}
    BY <1>1, <1>2 DEF GateInv, Enforcing
<1>7. stage = 16 => conflict = Valid
    <2>1. ASSUME stage = 16 PROVE conflict = Valid
        <3> DEFINE b1 == G!contains(gcall.command)
                   b2 == gcall.reason = G!Valid /\ G!lease_nonce_key(gcall.lease) \in replay_entries
                   ladder == << <<b1, "COMMAND_REPLAYED">>, <<b2, "LEASE_NONCE_REPLAYED">> >>
        <3>1. ~b1
            BY <1>1, <2>1, LastCommandIsNew
        <3>2. ~b2
            BY <1>6, <2>1, SameLadders DEF Valid
        <3>3. conflict = FirstViolation(ladder)
            BY SameLadders DEF G!remember_conflict
        <3> HIDE DEF b1, b2
        <3>4. DOMAIN ladder = 1..2 /\ \A i \in 1..2 : ~ladder[i][1]
            BY <3>1, <3>2
        <3> HIDE DEF ladder
        <3> QED
            BY <3>3, <3>4, LadderPass
    <2> QED
        BY <2>1
<1> HIDE DEF conflict
<1>8. CASE conflict # Valid /\ G!RejectQuietly("gate", gcall.command, conflict) /\ G!Return("gate") /\ UNCHANGED replay_entries
    <2>1. UNCHANGED durable_vars /\ stage # 16
        BY <1>1, <1>7, <1>8 DEF durable_vars
    <2>2. PICK x : x = conflict
        OBVIOUS
    <2>3. G!RejectQuietly("gate", gcall.command, x)
        BY <1>8, <2>2
    <2> QED
        BY <1>1, <1>8, <2>1, <2>3, RefusedQuietly
<1>9. CASE /\ replay_entries' = replay_entries \cup G!remember_keys(gcall.command, gcall.lease, gcall.reason)
           /\ G!Goto("gate", "answer") /\ UNCHANGED <<audit_log, declared>>
    <2>1. gcall' = [gcall EXCEPT !.pc = "answer"] /\ "gate" \in DOMAIN gate_call'
        BY <1>2, <1>9 DEF G!Goto, gcall, Shape
    <2>2. PICK reason : reason = gcall.reason
        OBVIOUS
    <2>3. gcall' = CallAt("answer", t, reason)
        BY <1>4, <2>1, <2>2, CallAdvances
    <2>4. stage = 6 => LastKeys \cap replay_entries' = {}
        <3>1. ASSUME stage = 6 PROVE LastKeys \cap replay_entries' = {}
            <4>1. LastKeys \cap replay_entries = {}
                BY <1>2, <3>1 DEF GateInv, Enforcing
            <4>2. G!remember_keys(gcall.command, gcall.lease, gcall.reason)
                    \subseteq G!command_keys(gcall.command) \cup {G!lease_nonce_key(gcall.lease)}
                BY DEF G!remember_keys, G!authorized_use_keys
            <4>3. LastKeys \cap G!command_keys(gcall.command) = {}
                BY <1>3, <1>5, <3>1, KeysOfCommand DEF LastKeys
            <4>4. G!lease_nonce_key(gcall.lease) \notin LastKeys
                BY DEF G!lease_nonce_key, LastKeys
            <4> QED
                BY <1>9, <4>1, <4>2, <4>3, <4>4
        <3> QED
            BY <3>1
    <2> QED
        BY <1>1, <1>3, <1>6, <1>9, <2>1, <2>2, <2>3, <2>4, CallGoesOn
<1> QED
    BY <1>8, <1>9, SameLadders DEF G!Remember, gcall, conflict

(* What AuditAndEmit adds to a sequence of events or declarations.         *)
LEMMA Joined ==
    ASSUME NEW s, IsSeq(s), NEW x
    PROVE  s \o << >> = s /\ s \o <<x>> = Append(s, x)
<1> DEFINE U == {s[i] : i \in DOMAIN s} \cup {x}
<1>1. s \in Seq(U) /\ x \in U
    <2>1. s \in Seq({s[i] : i \in DOMAIN s}) /\ {s[i] : i \in DOMAIN s} \subseteq U /\ x \in U
        BY DEF IsSeq
    <2> HIDE DEF U
    <2> QED
        BY <2>1
<1> HIDE DEF U
<1> QED
    BY <1>1

(* The audit events of none or one declaration.                            *)
LEMMA EventsOf ==
    ASSUME NEW out
    PROVE  /\ out = << >> => [i \in DOMAIN out |-> G!AuditEvent("FALLBACK_DECLARED", out[i].trigger, out[i].revocation_id)]
                                 = << >>
           /\ \A d : out = <<d>> =>
                 [i \in DOMAIN out |-> G!AuditEvent("FALLBACK_DECLARED", out[i].trigger, out[i].revocation_id)]
                     = <<[event_type |-> "FALLBACK_DECLARED", reason_code |-> d.trigger, ref |-> d.revocation_id]>>
BY DEF G!AuditEvent

(* An event, and the declaration that goes with it, if there is one.       *)
LEMMA EventAndFallback ==
    ASSUME NEW s, IsSeq(s), Ordered(s, impaired), RecordedIn(s),
           NEW e, Follows(s, e, impaired), e.event_type \in {"LEASE_REVOKED", "COMMAND_REJECTED"},
           NEW f, f.event_type = "FALLBACK_DECLARED", f.reason_code = e.reason_code
    PROVE  /\ IsSeq(Append(s, e)) /\ Ordered(Append(s, e), impaired) /\ RecordedIn(Append(s, e))
           /\ IsSeq(Append(Append(s, e), f)) /\ Ordered(Append(Append(s, e), f), impaired)
           /\ RecordedIn(Append(Append(s, e), f))
           /\ Len(s) + 1 \in DOMAIN Append(s, e) /\ Append(s, e)[Len(s) + 1] = e
           /\ Len(s) + 1 \in DOMAIN Append(Append(s, e), f) /\ Append(Append(s, e), f)[Len(s) + 1] = e
<1> DEFINE a == Append(s, e)
<1>1. e.event_type \notin DecisionTypes /\ f.event_type \notin DecisionTypes
    BY DEF DecisionTypes
<1>2. IsSeq(a) /\ Ordered(a, impaired) /\ RecordedIn(a)
    BY ONLY <1>1, IsSeq(s), Ordered(s, impaired), RecordedIn(s), Follows(s, e, impaired), LogEvent
<1>3. Len(s) \in Nat /\ Len(a) = Len(s) + 1 /\ a[Len(a)] = e /\ DOMAIN a = 1..(Len(s) + 1)
    BY Appended, SeqLength
<1> HIDE DEF a
<1>4. Follows(a, f, impaired)
    BY <1>3 DEF Follows, DecisionTypes
<1>5. IsSeq(Append(a, f)) /\ Ordered(Append(a, f), impaired) /\ RecordedIn(Append(a, f))
    BY ONLY <1>1, <1>2, <1>4, LogEvent
<1>6. /\ DOMAIN Append(a, f) = 1..(Len(a) + 1)
      /\ \A i \in 1..Len(a) : Append(a, f)[i] = a[i]
    BY ONLY <1>2, Appended
<1>7. /\ Len(s) + 1 \in DOMAIN a /\ a[Len(s) + 1] = e
      /\ Len(s) + 1 \in DOMAIN Append(a, f) /\ Append(a, f)[Len(s) + 1] = e
    BY <1>3, <1>6
<1> QED
    BY <1>2, <1>5, <1>7 DEF a

(* Only the first command is forwarded, and the decision that allowed it   *)
(* is in the log.                                                          *)
LEMMA AllowCommandInv ==
    ASSUME CoreInv, G!AllowCommand("gate"), UNCHANGED <<engine_vars, script_vars>> PROVE CoreInv'
<1> DEFINE e == [event_type |-> "COMMAND_ALLOWED", reason_code |-> Valid, ref |-> gcall.command.command_id]
           f == [gate |-> "gate", command |-> gcall.command, lease |-> gcall.lease]
<1>1. /\ gcall.pc = "answer" /\ gcall.reason = Valid
      /\ UNCHANGED <<clock, durable_vars, gate_up, revocations, declared>>
      /\ audit_log' = [audit_log EXCEPT !["gate"] = Append(@, e)]
      /\ forwarded' = Append(forwarded, f)
      /\ gate_call' = [gate_call EXCEPT !["gate"] = G!IdleCall]
    BY SameLadders DEF G!AllowCommand, G!At, gcall, G!durable, durable_vars, G!AuditOnly, G!AuditEvent, G!Return
<1>2. Shape /\ GateInv /\ LogInv
    BY DEF CoreInv
<1>3. /\ pc \in DOMAIN CommandId /\ stage \in {6, 16} /\ LeaseSent = lease /\ lease # None
      /\ stage = 6 => CommandId[pc] = "cmd_valid_lease"
      /\ \E t \in 0..clock : gcall = CallAt("answer", t, gcall.reason)
    BY <1>1, AtCommand
<1>4. stage = 6
    <2>1. stage = 16 => gcall.reason \in {"LEASE_REVOKED", "LEASE_EXPIRED"}
        BY <1>1, <1>2 DEF GateInv, Enforcing
    <2> QED
        BY <1>1, <1>3, <2>1 DEF Valid
<1>5. f.command.command_id = "cmd_valid_lease" /\ e.event_type = "COMMAND_ALLOWED"
    BY <1>3, <1>4, CallFields
<1> HIDE DEF e, f
<1>6. IsSeq(log) /\ Ordered(log, impaired) /\ RecordedIn(log) /\ IsSeq(forwarded)
    BY <1>2 DEF Shape, LogInv
<1>7. Follows(log, e, impaired) /\ e.event_type \notin DecisionTypes
    <2>1. Allowed
        BY <1>3, <1>4, LeaseHeld
    <2>2. Logged(log, {"CAPABILITY_ALLOWED"}, "first")
        BY <1>4, <1>6, <2>1 DEF RecordedIn
    <2> QED
        BY <1>5, <2>2 DEF Follows, DecisionTypes
<1>8. IsSeq(Append(log, e)) /\ Ordered(Append(log, e), impaired) /\ RecordedIn(Append(log, e))
    BY ONLY <1>6, <1>7, LogEvent
<1>9. log' = Append(log, e) /\ "gate" \in DOMAIN audit_log' /\ "gate" \in DOMAIN gate_call' /\ gcall' = G!IdleCall
    BY <1>1, <1>2 DEF Shape, log, gcall
<1>10. /\ IsSeq(Append(forwarded, f)) /\ DOMAIN Append(forwarded, f) = 1..(Len(forwarded) + 1)
       /\ \A i \in 1..Len(forwarded) : Append(forwarded, f)[i] = forwarded[i]
       /\ Append(forwarded, f)[Len(forwarded) + 1] = f
    BY ONLY <1>6, Appended
<1>11. \A i \in DOMAIN forwarded' : forwarded'[i].command.command_id = "cmd_valid_lease"
    <2>1. Len(forwarded) \in Nat /\ DOMAIN forwarded = 1..Len(forwarded)
        BY <1>6, SeqLength
    <2>2. \A i \in DOMAIN forwarded : forwarded[i].command.command_id = "cmd_valid_lease"
        BY <1>2 DEF GateInv, Enforcing
    <2> QED
        BY <1>1, <1>5, <1>10, <2>1, <2>2
<1>12. IsSeq(declared)' /\ IsSeq(forwarded)'
    BY <1>1, <1>2, <1>10 DEF Shape
<1>13. PICK s : s = Append(log, e)
    OBVIOUS
<1>14. log' = s /\ IsSeq(s) /\ Ordered(s, impaired) /\ RecordedIn(s)
    BY <1>8, <1>9, <1>13
<1> QED
    BY <1>1, <1>4, <1>9, <1>11, <1>12, <1>14, CallEnds

\* The audit event of a declaration.
FallbackEvent(d) == [event_type |-> "FALLBACK_DECLARED", reason_code |-> d.trigger, ref |-> d.revocation_id]

(* AuditAndEmit, when the signer does not fail.                            *)
LEMMA EmittedIs ==
    ASSUME Shape, NEW event, NEW ds, G!AuditAndEmit("gate", event, ds),
           ds = << >> \/ \E d : ds = <<d>>
    PROVE  /\ "gate" \in DOMAIN audit_log' /\ IsSeq(declared)'
           /\ \/ log' = Append(log, event) /\ ds = << >>
              \/ \E d : /\ ds = <<d>> /\ declared' = Append(declared, d)
                        /\ log' = Append(Append(log, event), FallbackEvent(d))
<1> DEFINE ev == [i \in DOMAIN ds |-> G!AuditEvent("FALLBACK_DECLARED", ds[i].trigger, ds[i].revocation_id)]
<1>1. audit_log' = [audit_log EXCEPT !["gate"] = @ \o <<event>> \o ev] /\ declared' = declared \o ds
    BY DEF G!AuditAndEmit
<1>2. "gate" \in DOMAIN audit_log /\ IsSeq(log) /\ IsSeq(declared)
    BY DEF Shape
<1>3. /\ ds = << >> => ev = << >>
      /\ \A d : ds = <<d>> => ev = <<FallbackEvent(d)>>
    BY EventsOf DEF FallbackEvent
<1> HIDE DEF ev
<1>4. "gate" \in DOMAIN audit_log' /\ log' = log \o <<event>> \o ev
    BY <1>1, <1>2 DEF log
<1>5. log \o <<event>> = Append(log, event) /\ IsSeq(Append(log, event))
    BY ONLY <1>2, Joined, Appended
<1>6. CASE ds = << >>
    <2>1. Append(log, event) \o << >> = Append(log, event) /\ declared \o << >> = declared
        BY ONLY <1>2, <1>5, Joined
    <2>2. log' = Append(log, event) /\ declared' = declared
        BY <1>1, <1>3, <1>4, <1>5, <1>6, <2>1
    <2> QED
        BY <1>2, <1>4, <1>6, <2>2
<1>7. ASSUME NEW d, ds = <<d>>
      PROVE  IsSeq(declared)' /\ declared' = Append(declared, d) /\ log' = Append(Append(log, event), FallbackEvent(d))
    <2>1. Append(log, event) \o <<FallbackEvent(d)>> = Append(Append(log, event), FallbackEvent(d))
        BY ONLY <1>5, Joined
    <2>2. declared \o <<d>> = Append(declared, d) /\ IsSeq(Append(declared, d))
        BY ONLY <1>2, Joined, Appended
    <2>3. ev = <<FallbackEvent(d)>>
        BY <1>3, <1>7
    <2> QED
        BY <1>1, <1>4, <1>5, <1>7, <2>1, <2>2, <2>3
<1> QED
    BY <1>4, <1>6, <1>7

(* A denial declares at most one fallback, for the reason it gives.        *)
LEMMA DenialDeclares ==
    ASSUME NEW c, NEW l, NEW reason
    PROVE  \/ G!denial_fallback("gate", c, l, reason) = << >>
           \/ \E d : G!denial_fallback("gate", c, l, reason) = <<d>> /\ d.trigger = reason
<1> DEFINE row == G!matching_authenticated_revocation("gate", c, l, reason)
           d1 == G!Declaration("evaluate", reason, G!local_fallback_action(row.reason_code), l.lease_id, row.revocation_id)
           d2 == G!Declaration("evaluate", reason, G!local_fallback_action(reason), l.lease_id, None)
           out == G!denial_fallback("gate", c, l, reason)
<1>1. d1.trigger = reason /\ d2.trigger = reason
    BY DEF G!Declaration
<1> HIDE DEF row
<1>2. out = CASE row # None -> <<d1>>
              [] reason \in G!STATE_FALLBACK_DENIAL_REASONS -> <<d2>>
              [] OTHER -> << >>
    BY DEF G!denial_fallback, row
<1> HIDE DEF d1, d2, out
<1>3. out = <<d1>> \/ out = <<d2>> \/ out = << >>
    BY <1>2
<1>4. out = << >> \/ \E d : out = <<d>> /\ d.trigger = reason
    BY <1>1, <1>3
<1> QED
    BY <1>4 DEF out

(* A denial preserves the invariant; it refuses the last command for the   *)
(* right reason.                                                           *)
LEMMA DenyCommandInv ==
    ASSUME CoreInv, G!DenyCommand("gate"), UNCHANGED <<engine_vars, script_vars>> PROVE CoreInv'
<1> DEFINE e == [event_type |-> "COMMAND_REJECTED", reason_code |-> gcall.reason, ref |-> gcall.command.command_id]
           ds == G!denial_fallback("gate", gcall.command, gcall.lease, gcall.reason)
<1>1. /\ gcall.pc = "answer"
      /\ UNCHANGED <<clock, durable_vars, gate_up, revocations, forwarded>>
      /\ G!AuditAndEmit("gate", e, ds)
      /\ gate_call' = [gate_call EXCEPT !["gate"] = G!IdleCall]
    BY DEF G!DenyCommand, G!At, gcall, G!durable, durable_vars, G!AuditEvent, G!Return
<1>2. Shape /\ GateInv /\ LogInv
    BY DEF CoreInv
<1>3. /\ stage \in {6, 16} /\ lease # None
      /\ stage = 16 => CommandId[pc] = "cmd_after_revocation"
      /\ \E t \in 0..clock : gcall = CallAt("answer", t, gcall.reason)
    BY <1>1, AtCommand
<1>4. stage = 16 => gcall.reason \in {"LEASE_REVOKED", "LEASE_EXPIRED"}
    BY <1>1, <1>2 DEF GateInv, Enforcing
<1>5. e.event_type = "COMMAND_REJECTED" /\ e.reason_code = gcall.reason /\ e.ref = CommandId[pc]
    BY <1>3, CallFields
<1>6. ds = << >> \/ \E d : ds = <<d>> /\ d.trigger = gcall.reason
    BY DenialDeclares
<1> HIDE DEF e, ds
<1>7. IsSeq(log) /\ Ordered(log, impaired) /\ RecordedIn(log)
    BY <1>2 DEF Shape, LogInv
<1>8. Follows(log, e, impaired)
    BY <1>5 DEF Follows, DecisionTypes
<1>9. /\ "gate" \in DOMAIN audit_log' /\ IsSeq(declared)'
      /\ \/ log' = Append(log, e) /\ ds = << >>
         \/ \E d : ds = <<d>> /\ log' = Append(Append(log, e), FallbackEvent(d))
    BY <1>1, <1>2, <1>6, EmittedIs
<1>10. \E s : /\ log' = s /\ IsSeq(s) /\ Ordered(s, impaired) /\ RecordedIn(s)
              /\ Len(log) + 1 \in DOMAIN s /\ s[Len(log) + 1] = e
    <2>1. PICK d : d.trigger = gcall.reason /\ (log' = Append(log, e) \/ log' = Append(Append(log, e), FallbackEvent(d)))
        <3>1. CASE ds = << >>
            <4>1. \E d : d.trigger = gcall.reason
                <5>1. [trigger |-> gcall.reason].trigger = gcall.reason
                    OBVIOUS
                <5> QED
                    BY <5>1
            <4>2. log' = Append(log, e)
                BY <1>9, <3>1
            <4> QED
                BY <4>1, <4>2
        <3>2. CASE ds # << >>
            BY <1>6, <1>9, <3>2
        <3> QED
            BY <3>1, <3>2
    <2>2. FallbackEvent(d).event_type = "FALLBACK_DECLARED" /\ FallbackEvent(d).reason_code = e.reason_code
        BY <1>5, <2>1 DEF FallbackEvent
    <2>3. e.event_type \in {"LEASE_REVOKED", "COMMAND_REJECTED"}
        BY <1>5
    <2>4. /\ IsSeq(Append(log, e)) /\ Ordered(Append(log, e), impaired) /\ RecordedIn(Append(log, e))
          /\ IsSeq(Append(Append(log, e), FallbackEvent(d)))
          /\ Ordered(Append(Append(log, e), FallbackEvent(d)), impaired)
          /\ RecordedIn(Append(Append(log, e), FallbackEvent(d)))
          /\ Len(log) + 1 \in DOMAIN Append(log, e) /\ Append(log, e)[Len(log) + 1] = e
          /\ Len(log) + 1 \in DOMAIN Append(Append(log, e), FallbackEvent(d))
          /\ Append(Append(log, e), FallbackEvent(d))[Len(log) + 1] = e
        BY ONLY <1>7, <1>8, <2>2, <2>3, EventAndFallback
    <2> QED
        BY <2>1, <2>4
<1>11. PICK s : /\ log' = s /\ IsSeq(s) /\ Ordered(s, impaired) /\ RecordedIn(s)
                /\ Len(log) + 1 \in DOMAIN s /\ s[Len(log) + 1] = e
    BY <1>10
<1>12. stage = 16 => LastRefused'
    <2>1. lease' = lease
        BY DEF script_vars
    <2> QED
        BY <1>3, <1>4, <1>5, <1>11, <2>1 DEF LastRefused
<1>13. "gate" \in DOMAIN gate_call' /\ gcall' = G!IdleCall
    BY <1>1, <1>2 DEF Shape, gcall
<1>14. IsSeq(forwarded)' /\ \A i \in DOMAIN forwarded' : forwarded'[i].command.command_id = "cmd_valid_lease"
    BY <1>1, <1>2 DEF Shape, GateInv, Enforcing
<1> QED
    BY <1>1, <1>3, <1>9, <1>11, <1>12, <1>13, <1>14, CallEnds

(* What a call of revoke() has in its hands, and that it goes on with the  *)
(* same.                                                                   *)
LEMMA RevokeFields ==
    ASSUME NEW p, NEW t
    PROVE  /\ RevokeAt(p, t).revocation = RevocationAt(t) /\ RevokeAt(p, t).lease = lease
           /\ \A q : [RevokeAt(p, t) EXCEPT !.pc = q] = RevokeAt(q, t)
<1> DEFINE r == RevocationAt(t)
<1> HIDE DEF r
<1>1. \A q : RevokeAt(q, t) = [pc |-> q, command |-> None, lease |-> lease, state |-> None, revocation |-> r,
                               reason |-> Valid]
    BY DEF RevokeAt, r
<1> QED
    BY <1>1 DEF r

(* The revocation is recorded in the store; it is the first one.           *)
LEMMA RecordRevocationInv ==
    ASSUME CoreInv, G!RecordRevocation("gate"), UNCHANGED <<engine_vars, script_vars>> PROVE CoreInv'
<1>1. gcall.pc = "record" /\ UNCHANGED <<clock, replay_entries, gate_up, revocations, forwarded>>
    BY DEF G!RecordRevocation, G!At, gcall
<1>2. Shape /\ GateInv /\ LogInv
    BY DEF CoreInv
<1>3. stage = 14 /\ lease # None
    BY <1>1, AtRevoke
<1>4. PICK t \in 0..clock : gcall = RevokeAt("record", t)
    BY <1>1, AtRevoke
<1>5. ~G!already_recorded(gcall.revocation)
    BY <1>1, <1>2 DEF GateInv, Enforcing, G!already_recorded
<1>6. G!Goto("gate", "apply") /\ UNCHANGED <<audit_log, declared>>
    BY <1>5 DEF G!RecordRevocation, gcall
<1>7. gcall' = [gcall EXCEPT !.pc = "apply"] /\ "gate" \in DOMAIN gate_call'
    BY <1>2, <1>6 DEF G!Goto, gcall, Shape
<1>8. gcall' = RevokeAt("apply", t)
    BY <1>4, <1>7, RevokeFields
<1>9. UNCHANGED <<pc, state, lease>> /\ stage' = stage
    BY DEF script_vars, stage
<1>10. gcall'.pc = "apply"
    BY <1>8 DEF RevokeAt
<1>11. Calling'
    <2>1. gcall' = RevokeAt("apply", t)'
        BY <1>8, <1>9 DEF RevokeAt
    <2>2. pc = "revoking"
        BY <1>2, <1>3, StageOf, StageDomain DEF stage, Shape
    <2> QED
        BY <1>1, <1>3, <1>9, <2>1, <2>2 DEF Calling
<1>12. Revoked' = Revoked
    BY <1>1 DEF Revoked
<1>13. Enforcing'
    BY <1>1, <1>2, <1>3, <1>9, <1>10, <1>12 DEF GateInv, Enforcing
<1>14. GateInv'
    <2>1. stage' # 16 /\ stage' # 17
        BY <1>3, <1>9
    <2> QED
        BY <1>11, <1>13, <2>1 DEF GateInv
<1>15. /\ "gate" \in DOMAIN revocations' /\ <<"lease", 1>> \in DOMAIN revocations'["gate"]
       /\ "gate" \in DOMAIN audit_log'
    BY <1>1, <1>2, <1>6 DEF Shape
<1>16. PICK s : s = log
    OBVIOUS
<1>17. log' = s /\ IsSeq(s) /\ Ordered(s, impaired) /\ RecordedIn(s)
    BY <1>2, <1>6, <1>16 DEF log, Shape, LogInv
<1>18. IsSeq(declared)' /\ IsSeq(forwarded)'
    BY <1>1, <1>2, <1>6 DEF Shape
<1> QED
    BY <1>1, <1>7, <1>14, <1>15, <1>17, <1>18, GateStepFrame

(* The revocation is in force, audited and followed by its fallback.       *)
LEMMA ApplyRevocationInv ==
    ASSUME CoreInv, G!ApplyRevocation("gate"), UNCHANGED <<engine_vars, script_vars>> PROVE CoreInv'
<1> DEFINE r == gcall.revocation
           e == G!AuditEvent("LEASE_REVOKED", r.reason_code, r.message_id)
           d == G!Declaration("revoke", r.reason_code, G!local_fallback_action(r.reason_code),
                              gcall.lease.lease_id, r.message_id)
<1>1. /\ gcall.pc = "apply"
      /\ UNCHANGED <<clock, durable_vars, gate_up, forwarded>>
      /\ revocations' = [revocations EXCEPT !["gate"][r.lease_id] = G!RevokedLease(r, gcall.lease)]
      /\ G!AuditAndEmit("gate", e, <<d>>)
      /\ gate_call' = [gate_call EXCEPT !["gate"] = G!IdleCall]
    BY DEF G!ApplyRevocation, G!At, gcall, G!durable, durable_vars, G!Return
<1>2. Shape /\ GateInv /\ LogInv
    BY DEF CoreInv
<1>3. stage = 14 /\ lease # None
    BY <1>1, AtRevoke
<1>4. PICK t \in 0..clock : gcall = RevokeAt("apply", t)
    BY <1>1, AtRevoke
<1>5. PICK u \in 0..clock : lease = LeaseAt(u)
    BY <1>3, LeaseHeld
<1>6. gcall.revocation = RevocationAt(t) /\ gcall.lease = lease
    BY <1>4, RevokeFields
<1>7. /\ r.lease_id = <<"lease", 1>> /\ r.reason_code = "NETWORK_PROFILE_REVOKE" /\ r.message_id = "revocation"
    BY <1>6 DEF RevocationAt
<1>8. G!RevokedLease(r, gcall.lease) = RevokedRow
    BY <1>5, <1>6, <1>7, LeaseFields DEF G!RevokedLease, RevokedRow
<1>9. /\ e.event_type = "LEASE_REVOKED" /\ e.reason_code = r.reason_code
      /\ d.by = "revoke" /\ d.trigger = r.reason_code
    BY DEF G!AuditEvent, G!Declaration
<1>10. revocations' = [revocations EXCEPT !["gate"][<<"lease", 1>>] = RevokedRow]
    BY <1>1, <1>7, <1>8
<1> HIDE DEF r, e, d
<1>11. /\ Revoked' /\ "gate" \in DOMAIN revocations' /\ <<"lease", 1>> \in DOMAIN revocations'["gate"]
    BY <1>2, <1>10 DEF Shape, Revoked
<1>12. /\ "gate" \in DOMAIN audit_log' /\ IsSeq(declared)'
       /\ declared' = Append(declared, d) /\ log' = Append(Append(log, e), FallbackEvent(d))
    <2>1. \A x : <<d>> = <<x>> => d = x
        OBVIOUS
    <2>2. <<d>> # << >>
        OBVIOUS
    <2>3. PICK ds : ds = <<d>>
        OBVIOUS
    <2>4. /\ "gate" \in DOMAIN audit_log' /\ IsSeq(declared)'
          /\ \/ log' = Append(log, e) /\ ds = << >>
             \/ \E x : /\ ds = <<x>> /\ declared' = Append(declared, x)
                       /\ log' = Append(Append(log, e), FallbackEvent(x))
        BY <1>1, <1>2, <2>3, EmittedIs
    <2> QED
        BY <2>1, <2>2, <2>3, <2>4
<1>13. revocation_fallback'
    <2>1. IsSeq(declared)
        BY <1>2 DEF Shape
    <2>2. /\ DOMAIN Append(declared, d) = 1..(Len(declared) + 1) /\ Len(declared) \in Nat
          /\ Append(declared, d)[Len(declared) + 1] = d
        BY ONLY <2>1, Appended, SeqLength
    <2>3. Len(declared) + 1 \in DOMAIN declared' /\ declared'[Len(declared) + 1].by = "revoke"
        BY <1>9, <1>12, <2>2
    <2> QED
        BY <2>3 DEF revocation_fallback
<1>14. UNCHANGED <<pc, state, lease>> /\ stage' = stage
    BY DEF script_vars, stage
<1>15. "gate" \in DOMAIN gate_call' /\ gcall' = G!IdleCall /\ gcall'.pc = "idle"
    BY <1>1, <1>2 DEF Shape, gcall, G!IdleCall
<1>16. Calling'
    BY <1>15 DEF Calling, G!IdleCall
<1>17. Enforcing'
    BY <1>1, <1>2, <1>3, <1>11, <1>13, <1>14, <1>15 DEF GateInv, Enforcing, durable_vars
<1>18. GateInv'
    <2>1. stage' # 16 /\ stage' # 17
        BY <1>3, <1>14
    <2> QED
        BY <1>16, <1>17, <2>1 DEF GateInv
<1>19. IsSeq(log) /\ Ordered(log, impaired) /\ RecordedIn(log)
    BY <1>2 DEF Shape, LogInv
<1>20. Follows(log, e, impaired) /\ e.event_type \in {"LEASE_REVOKED", "COMMAND_REJECTED"}
    <2>1. Allowed
        BY <1>3, LeaseHeld
    <2>2. Logged(log, {"CAPABILITY_ALLOWED"}, "first")
        BY <1>3, <1>19, <2>1 DEF RecordedIn
    <2> QED
        BY <1>9, <2>2 DEF Follows, DecisionTypes
<1>21. FallbackEvent(d).event_type = "FALLBACK_DECLARED" /\ FallbackEvent(d).reason_code = e.reason_code
    BY <1>9 DEF FallbackEvent
<1>22. PICK s : s = Append(Append(log, e), FallbackEvent(d))
    OBVIOUS
<1>23. IsSeq(s) /\ Ordered(s, impaired) /\ RecordedIn(s)
    BY ONLY <1>19, <1>20, <1>21, <1>22, EventAndFallback
<1>24. log' = s
    BY <1>12, <1>22
<1>25. IsSeq(forwarded)'
    BY <1>1, <1>2 DEF Shape
<1> QED
    BY <1>1, <1>11, <1>12, <1>15, <1>18, <1>23, <1>24, <1>25, GateStepFrame

(* Every step of the gate preserves the invariant.                         *)
LEMMA GateWorksInv == ASSUME CoreInv, GateWorks PROVE CoreInv'
BY CheckReplayInv, ValidateInv, RememberInv, AllowCommandInv, DenyCommandInv, RecordRevocationInv,
   ApplyRevocationInv DEF GateWorks, G!CallStep

-----------------------------------------------------------------------------
(* The theorems.                                                           *)

(* No message is under way initially.                                      *)
LEMMA InitDrafted == DemoInit => Drafted
BY DEF DemoInit, Drafted, DraftId

(* The message that waits to be sent stays the one that was made; it is    *)
(* only refused by an exception when it is overdue.                        *)
LEMMA DraftedInv == CoreInv /\ Drafted /\ [DemoNext]_demo_vars => Drafted'
<1> SUFFICES ASSUME CoreInv, Drafted, [DemoNext]_demo_vars PROVE Drafted'
    OBVIOUS
<1>1. clock \in Nat
    BY DEF CoreInv, Shape
<1> DEFINE places == {"send_command", "send_without_lease", "send_last_command", "commanding_last", "done",
                      "send_revocation", "raised"}
<1>2. ASSUME pc' \notin places PROVE Drafted'
    BY <1>2 DEF Drafted, DraftId
<1>3. ASSUME UNCHANGED <<pc, lease, message>>, clock' \in Nat, clock <= clock' PROVE Drafted'
    <2>1. pc \in DOMAIN DraftId => \E t \in 0..clock' : message' = CommandAt(DraftId[pc], t)
        BY <1>1, <1>3 DEF Drafted
    <2>2. pc \in {"send_revocation", "raised"} => lease # None /\ \E t \in 0..clock' : message' = RevocationAt(t)
        BY <1>1, <1>3 DEF Drafted
    <2>3. ASSUME pc = "raised" PROVE Overdue(10)'
        <3>1. PICK t \in 0..clock : message = RevocationAt(t)
            BY <2>3 DEF Drafted
        <3>2. message.created_at = t /\ message'.created_at = t /\ Overdue(10) /\ t \in Nat
            BY <1>1, <1>3, <2>3, <3>1 DEF RevocationAt, Drafted
        <3> QED
            BY <1>1, <1>3, <3>2, StaysOverdue
    <2> QED
        BY <1>3, <2>1, <2>2, <2>3 DEF Drafted
<1>4. CASE UNCHANGED demo_vars
    BY <1>1, <1>3, <1>4 DEF demo_vars, script_vars
<1>5. CASE Pause
    BY <1>1, <1>3, <1>5, ScenarioAssumption DEF Pause, script_vars
<1>6. CASE ScriptStep
    <2>1. CASE Setup
        BY <1>2, <2>1 DEF Setup
    <2>2. CASE \/ MakeRequest("request", "observe", "first")
               \/ MakeRequest("request_again", "reevaluate", "second")
               \/ MakeState("observe", "evaluate", "normal")
               \/ MakeState("impair", "request_again", impaired)
        BY <1>2, <2>2 DEF MakeRequest, MakeState
    <2>3. CASE StartFirst \/ StartSecond \/ Decision \/ Redecision
        BY <1>2, <2>3 DEF StartFirst, StartSecond, StartEvaluation, Decision, Redecision
    <2>4. CASE Evaluate
        <3>1. UNCHANGED <<pc, lease, message, clock>>
            BY <2>4 DEF Evaluate, script_vars, Consume, Decide, IssueLease
        <3> QED
            BY <1>1, <1>3, <3>1
    <2>5. CASE GateWorks
        <3>1. UNCHANGED <<pc, lease, message, clock>>
            BY <2>5 DEF GateWorks, script_vars, G!CallStep, G!CheckReplay, G!Validate, G!Remember,
                        G!AllowCommand, G!DenyCommand, G!RecordRevocation, G!ApplyRevocation
        <3> QED
            BY <1>1, <1>3, <3>1
    <2>6. CASE \/ GateAnswered("commanding", "command_without_lease")
               \/ GateAnswered("commanding_without_lease", "impair")
               \/ Asserted
               \/ SendCommand("send_command", "commanding", lease)
               \/ SendCommand("send_without_lease", "commanding_without_lease", None)
        BY <1>2, <2>6 DEF GateAnswered, Asserted, SendCommand
    <2>7. CASE GateAnswered("commanding_last", "done")
        BY <2>7 DEF GateAnswered, Drafted, DraftId
    <2>8. CASE SendCommand("send_last_command", "commanding_last", lease)
        <3>1. UNCHANGED <<message, clock>> /\ pc = "send_last_command" /\ pc' = "commanding_last"
            BY <2>8 DEF SendCommand, G!Evaluate
        <3> QED
            BY <3>1 DEF Drafted, DraftId
    <2>9. CASE \/ MakeCommand("command", "send_command", "cmd_valid_lease")
               \/ MakeCommand("command_without_lease", "send_without_lease", "cmd_no_lease")
               \/ MakeCommand("last_command", "send_last_command", "cmd_after_revocation")
        <3>1. \A id : make_command(id) = CommandAt(id, clock)
            BY DEF make_command, CommandAt
        <3>2. clock' = clock /\ clock \in 0..clock
            BY <1>1, <2>9 DEF MakeCommand
        <3> QED
            BY <2>9, <3>1, <3>2 DEF MakeCommand, Drafted, DraftId
    <2>10. CASE MakeRevocation(lease)
        <3>1. CASE lease = None
            BY <1>2, <2>10, <3>1 DEF MakeRevocation
        <3>2. CASE lease # None
            <4>1. stage = 13
                BY <2>10, StageOf DEF MakeRevocation, stage
            <4>2. PICK t \in 0..clock : lease = LeaseAt(t)
                BY <3>2, <4>1, LeaseHeld
            <4>3. make_revocation(lease) = RevocationAt(clock)
                BY <4>2, LeaseFields DEF make_revocation, RevocationAt
            <4>4. UNCHANGED <<lease, clock>> /\ message' = RevocationAt(clock) /\ pc' = "send_revocation"
                BY <2>10, <3>2, <4>3 DEF MakeRevocation
            <4> QED
                BY <1>1, <3>2, <4>4 DEF Drafted, DraftId
        <3> QED
            BY <3>1, <3>2
    <2>11. CASE SendRevocation(lease)
        <3>1. CASE gcall'.pc # "idle"
            <4>1. pc' = "revoking"
                BY <2>11, <3>1 DEF SendRevocation, gcall
            <4> QED
                BY <1>2, <4>1
        <3>2. CASE gcall'.pc = "idle"
            <4>1. /\ pc = "send_revocation" /\ pc' = "raised" /\ UNCHANGED <<lease, message>>
                  /\ G!Revoke("gate", message, lease)
                BY <2>11, <3>2 DEF SendRevocation, gcall
            <4>2. PICK t \in 0..clock : lease # None /\ message = RevocationAt(t)
                BY <4>1 DEF Drafted
            <4>3. stage = 13
                BY <4>1, StageOf DEF stage
            <4>4. PICK u \in 0..clock : lease = LeaseAt(u)
                BY <4>2, <4>3, LeaseHeld
            <4>5. clock' = clock
                BY <4>1 DEF G!Revoke
            <4>6. G!revocation_violation(message, lease, clock) # Valid
                <5>1. message # None /\ lease # None
                    BY <1>1, <4>2, RevocationIsThere
                <5>2. ASSUME G!revocation_violation(message, lease, clock) = Valid PROVE FALSE
                    <6>1. gate_call' = [gate_call EXCEPT !["gate"] = G!RevokeCall(message, lease)]
                        BY <4>1, <5>1, <5>2, SameLadders DEF G!Revoke
                    <6>2. gcall' = G!RevokeCall(message, lease)
                        BY <6>1 DEF gcall, CoreInv, Shape
                    <6> QED
                        BY <3>2, <6>2 DEF G!RevokeCall
                <5> QED
                    BY <5>2
            <4>7. ~(clock - t <= 10 + ClockSkew)
                <5>1. t \in Nat /\ t <= clock
                    BY <1>1
                <5> QED
                    BY <1>1, <4>2, <4>4, <4>6, <5>1, RevocationPasses
            <4>8. message.created_at = t
                BY <4>2 DEF RevocationAt
            <4>9. Overdue(10)'
                BY <1>1, <4>1, <4>5, <4>7, <4>8, Limits DEF Overdue
            <4> QED
                BY <4>1, <4>2, <4>5, <4>9 DEF Drafted, DraftId
        <3> QED
            BY <3>1, <3>2
    <2> QED
        BY <1>6, <2>1, <2>2, <2>3, <2>4, <2>5, <2>6, <2>7, <2>8, <2>9, <2>10, <2>11 DEF ScriptStep
<1> QED
    BY <1>4, <1>5, <1>6 DEF DemoNext, Finished

(* Every step of the scenario preserves the rest of the invariant.         *)
LEMMA NextInv == CoreInv /\ Drafted /\ [DemoNext]_demo_vars => CoreInv'
<1> SUFFICES ASSUME CoreInv, Drafted, [DemoNext]_demo_vars PROVE CoreInv'
    OBVIOUS
<1>1. CASE UNCHANGED demo_vars
    BY <1>1, StutterInv
<1>2. CASE Pause
    BY <1>2, PauseInv
<1>3. CASE ScriptStep
    <2>1. CASE Setup
        BY <2>1, SetupInv
    <2>2. CASE \/ MakeRequest("request", "observe", "first")
               \/ MakeRequest("request_again", "reevaluate", "second")
        BY <2>2, MakeRequestInv
    <2>3. CASE \/ MakeState("observe", "evaluate", "normal")
               \/ MakeState("impair", "request_again", impaired)
        BY <2>3, MakeStateInv
    <2>4. CASE StartFirst \/ Evaluate \/ Decision \/ StartSecond \/ Redecision
        BY <2>4, StartFirstInv, EvaluateInv, DecisionInv, StartSecondInv, RedecisionInv
    <2>5. CASE \/ SendCommand("send_command", "commanding", lease)
               \/ SendCommand("send_without_lease", "commanding_without_lease", None)
               \/ SendCommand("send_last_command", "commanding_last", lease)
        BY <2>5, SendCommandInv
    <2>6. CASE GateWorks
        BY <2>6, GateWorksInv
    <2>7. CASE \/ GateAnswered("commanding", "command_without_lease")
               \/ GateAnswered("commanding_without_lease", "impair")
               \/ GateAnswered("commanding_last", "done")
        BY <2>7, GateAnsweredInv
    <2>8. CASE MakeRevocation(lease) \/ SendRevocation(lease) \/ Asserted
        BY <2>8, MakeRevocationInv, SendRevocationInv, AssertedInv
    <2>9. CASE \/ MakeCommand("command", "send_command", "cmd_valid_lease")
               \/ MakeCommand("command_without_lease", "send_without_lease", "cmd_no_lease")
               \/ MakeCommand("last_command", "send_last_command", "cmd_after_revocation")
        BY <2>9, MakeCommandInv
    <2> QED
        BY <1>3, <2>1, <2>2, <2>3, <2>4, <2>5, <2>6, <2>7, <2>8, <2>9 DEF ScriptStep
<1> QED
    BY <1>1, <1>2, <1>3 DEF DemoNext, Finished

(* The inductive invariant of the scenario: wherever the script, the       *)
(* issuer and the gate are, they hold the messages, the decisions, the     *)
(* revocation and the log that main() has brought about so far, for all    *)
(* durations of all pauses.                                                *)
THEOREM ScenarioHolds == DemoSpec => []ScenarioInv
<1>1. DemoInit => ScenarioInv
    BY InitInv, InitDrafted DEF ScenarioInv
<1>2. ScenarioInv /\ [DemoNext]_demo_vars => ScenarioInv'
    BY NextInv, DraftedInv DEF ScenarioInv
<1> QED
    BY <1>1, <1>2, PTL DEF DemoSpec

(* What is decided is decided on the age of the measurement.               *)
LEMMA DecisionStep == ASSUME CoreInv, [DemoNext]_demo_vars PROVE DecidesWhileFresh
<1>1. Shape
    BY DEF CoreInv
<1>2. CASE StartFirst \/ StartSecond \/ Evaluate
    BY <1>2, StartFirstInv, StartSecondInv, EvaluateInv
<1>3. CASE UNCHANGED decisions
    BY <1>1, <1>3, NothingDecided
<1>4. CASE Setup
    <2>1. UNCHANGED decisions
        BY <1>4 DEF Setup, Start, engine_vars
    <2> QED
        BY <1>3, <2>1
<1>5. CASE Pause \/ UNCHANGED demo_vars
    <2>1. UNCHANGED decisions
        BY <1>5 DEF Pause, demo_vars, engine_vars
    <2> QED
        BY <1>3, <2>1
<1>6. CASE ScriptStep /\ ~(StartFirst \/ StartSecond \/ Evaluate \/ Setup)
    <2>1. UNCHANGED engine_vars
        BY <1>6 DEF ScriptStep, MakeRequest, MakeState, Decision, MakeCommand, SendCommand, GateWorks,
                    GateAnswered, Redecision, MakeRevocation, SendRevocation, Asserted
    <2> QED
        BY <1>3, <2>1 DEF engine_vars
<1> QED
    BY <1>2, <1>4, <1>5, <1>6 DEF DemoNext, Finished

(* What the gate finds valid is on measurements that are good by then.     *)
LEMMA AdmissionStep == ASSUME CoreInv, [DemoNext]_demo_vars PROVE AdmitsWhileFresh
<1> SUFFICES ASSUME gcall.pc = "validate", gcall'.pc = "remember", gcall'.reason = Valid
             PROVE  clock - ImportTime <= Fresh
    BY DEF AdmitsWhileFresh, gcall
<1>1. Shape /\ Messages /\ clock \in Nat
    BY DEF CoreInv, Shape
<1>2. /\ pc \in DOMAIN CommandId /\ stage \in {6, 16} /\ LeaseSent = lease /\ lease # None
    BY AtCommand
<1>3. pc \in {"commanding", "commanding_last"}
    BY <1>2, StageOf DEF stage, CommandId
<1>4. PICK t \in 0..clock : gcall = CallAt("validate", t, gcall.reason)
    BY AtCommand
<1>5. gcall.lease = lease /\ gcall.state = state
    BY <1>2, <1>4, CallFields
<1>6. lease.ctx = Ctx
    BY <1>2, LeaseHeld
<1>7. ASSUME UNCHANGED gate_call PROVE FALSE
    BY <1>7 DEF gcall
<1>8. G!Validate("gate")
    <2>1. CASE GateWorks
        BY <2>1 DEF GateWorks, G!CallStep, G!At, gcall, G!CheckReplay, G!Remember, G!AllowCommand,
                    G!DenyCommand, G!RecordRevocation, G!ApplyRevocation
    <2>2. CASE Pause \/ UNCHANGED demo_vars
        BY <1>7, <2>2 DEF Pause, demo_vars, gate_vars, gate_process
    <2>3. CASE Evaluate
        BY <1>7, <2>3 DEF Evaluate, AuditDecision, gate_process
    <2>4. CASE ScriptStep /\ ~GateWorks /\ ~Evaluate
        <3>1. UNCHANGED gate_call
            BY <1>3, <2>4 DEF ScriptStep, Setup, MakeRequest, MakeState, StartFirst, StartSecond, StartEvaluation,
                   Decision, MakeCommand, SendCommand, GateAnswered, Redecision, MakeRevocation,
                   SendRevocation, Asserted, gate_vars, gate_process
        <3> QED
            BY <1>7, <3>1
    <2> QED
        BY <2>1, <2>2, <2>3, <2>4 DEF DemoNext, Finished
<1>9. \E profile, w : state = StateAt(profile, w)
    BY <1>1, <1>2 DEF Messages
<1>10. PICK profile, w : state = StateAt(profile, w)
    BY <1>9
<1>11. G!validate_lease_for_command(lease, gcall.command, StateAt(profile, w),
                                    G!revoked_lease_ids("gate"), clock) = Valid
    <2> DEFINE v == G!validate_lease_for_command(lease, gcall.command, state, G!revoked_lease_ids("gate"), clock)
    <2>1. gate_call' = [gate_call EXCEPT !["gate"].pc = "remember", !["gate"].reason = v]
        BY <1>5, <1>8 DEF G!Validate, gcall
    <2> HIDE DEF v
    <2>2. gcall' = [gcall EXCEPT !.pc = "remember", !.reason = v]
        BY <1>1, <2>1 DEF gcall, Shape
    <2>3. "reason" \in DOMAIN gcall
        BY <1>4 DEF CallAt
    <2>4. v = Valid
        BY <2>2, <2>3
    <2> QED
        BY <1>10, <2>4 DEF v
<1>12. clock <= Fresh
    BY <1>1, <1>2, <1>6, <1>11, FreshForwarded
<1> QED
    BY <1>1, <1>12, Limits DEF ImportTime

(* The invariant implies that the last command is refused.                 *)
LEMMA ScenarioRefusesLast == ScenarioInv => LastCommandRefused
<1> SUFFICES ASSUME CoreInv, Drafted PROVE LastCommandRefused
    BY DEF ScenarioInv
<1>1. pc # "assertion failed"
    BY StageDomain DEF CoreInv, Shape
<1>2. pc = "done" => stage = 17
    BY StageOf DEF stage
<1>3. pc = "done" => LastRefused
    BY <1>2 DEF CoreInv, GateInv
<1>4. \A i \in DOMAIN forwarded : forwarded[i].command.command_id = "cmd_valid_lease"
    BY DEF CoreInv, GateInv, Enforcing
<1>5. pc = "raised" => Overdue(10)
    BY DEF Drafted
<1> QED
    BY <1>1, <1>3, <1>4, <1>5 DEF LastCommandRefused, LastRefused

(* Which events incident_replay_summary shows under the headings of the    *)
(* property.                                                               *)
LEMMA Sections ==
    ASSUME NEW t
    PROVE  /\ Chain!replay_section(t) = "decisions" <=> t \in DecisionTypes
           /\ Chain!replay_section(t) = "fallbacks" <=> t = "FALLBACK_DECLARED"
           /\ Chain!replay_section(t) = "requests" <=> t = "CAPABILITY_REQUESTED"
BY DEF Chain!replay_section, DecisionTypes

(* The invariant implies that the log reconstructs the incident.           *)
LEMMA ScenarioReconstructs == CoreInv => ReplayReconstructs
<1> SUFFICES ASSUME CoreInv PROVE ReplayReconstructs
    OBVIOUS
<1>1. Ordered(log, impaired) /\ RecordedIn(log) /\ Shape
    BY DEF CoreInv, LogInv
<1>2. \A i, type, ref : Before(i, type, ref) <=> Earlier(log, i, type, ref)
    BY DEF Before, Earlier
<1>3. /\ Section("decisions") = {i \in DOMAIN log : log[i].event_type \in DecisionTypes}
      /\ Section("fallbacks") = {i \in DOMAIN log : log[i].event_type = "FALLBACK_DECLARED"}
      /\ Section("requests") = {i \in DOMAIN log : log[i].event_type = "CAPABILITY_REQUESTED"}
    BY Sections DEF Section
<1>4. \A i \in DOMAIN log : InOrder(log, i, impaired)
    BY <1>1 DEF Ordered
<1>5. ASSUME NEW i \in Section("decisions")
      PROVE  /\ Before(i, "CAPABILITY_REQUESTED", log[i].ref)
             /\ Before(i, "NETWORK_STATE_ASSERTED", IF log[i].ref = "first" THEN "normal" ELSE impaired)
             /\ \A j \in Section("decisions") : log[j].ref = log[i].ref => j = i
    BY <1>2, <1>3, <1>4, <1>5 DEF InOrder
<1>6. ASSUME NEW i \in DOMAIN log, log[i].event_type \in {"COMMAND_ALLOWED", "LEASE_REVOKED"}
      PROVE  Before(i, "CAPABILITY_ALLOWED", "first")
    BY <1>2, <1>4, <1>6 DEF InOrder
<1>7. ASSUME NEW i \in Section("fallbacks")
      PROVE  i > 1 /\ log[i - 1].event_type \in {"LEASE_REVOKED", "COMMAND_REJECTED"}
                   /\ log[i - 1].reason_code = log[i].reason_code
    BY <1>3, <1>4, <1>7 DEF InOrder
<1>8. ASSUME pc = "done", NEW i \in Section("requests")
      PROVE  \E j \in Section("decisions") : log[j].ref = log[i].ref
    <2>1. stage = 17 /\ Made = 2
        BY <1>8, StageOf DEF stage, Made
    <2>2. Logged(log, DecisionTypes, "first") /\ Logged(log, DecisionTypes, "second")
        BY <1>1, <2>1 DEF RecordedIn
    <2>3. log[i].ref \in {"first", "second"}
        BY <1>3, <1>4, <1>8 DEF InOrder
    <2> QED
        BY <1>3, <2>2, <2>3 DEF Logged
<1> QED
    BY <1>5, <1>6, <1>7, <1>8 DEF ReplayReconstructs

(* For every age limit, skew and pause, the scenario of                    *)
(* demo_remote_assist.py: evaluate_policy() allows on the normal profile   *)
(* if and only if the measurement is good by the clock reading that it     *)
(* decides with, and never on an impaired one; and the gate admits a       *)
(* command only while the measurement is good by the clock at validation.  *)
THEOREM VerdictsWhileFreshHolds == DemoSpec => VerdictsWhileFresh
<1>1. ScenarioInv /\ [DemoNext]_demo_vars => [DecidesWhileFresh /\ AdmitsWhileFresh]_demo_vars
    BY DecisionStep, AdmissionStep DEF ScenarioInv
<1> QED
    BY <1>1, ScenarioHolds, PTL DEF DemoSpec, VerdictsWhileFresh

(* For every pause at every place: no command but the first is forwarded;  *)
(* main() is ended early only by a revocation that is overdue; otherwise   *)
(* the last command is refused on every impaired profile; and the script's *)
(* assertion on the fallback of its revocation never fails.                *)
THEOREM LastCommandRefusedHolds == DemoSpec => []LastCommandRefused
BY ScenarioHolds, ScenarioRefusesLast, PTL

(* The shared log of the scenario lets incident_replay_summary reconstruct *)
(* what happened: requests and states before decisions, one decision each, *)
(* the allowing decision before what was forwarded or revoked, the cause   *)
(* directly before a fallback.                                             *)
THEOREM ReplayReconstructsHolds == DemoSpec => []ReplayReconstructs
<1>1. ScenarioInv => ReplayReconstructs
    BY ScenarioReconstructs DEF ScenarioInv
<1> QED
    BY <1>1, ScenarioHolds, PTL
=============================================================================
