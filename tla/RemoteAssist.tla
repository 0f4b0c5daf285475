---------------------------- MODULE RemoteAssist ----------------------------
(***************************************************************************)
(* The remote-assist scenario: main() of demo_remote_assist.py, which puts *)
(* the issuer (PolicyEngine) and the edge gate (CommandGate) to work in    *)
(* one process.  It asks for a lease on a normal network, sends a command  *)
(* under it and one without it, asks again on an impaired network, revokes *)
(* the lease and sends a last command.                                     *)
(*                                                                         *)
(* The script waits for every call, so there is one thread of control; but *)
(* the process may be suspended between any two steps (Pause), and every   *)
(* clock reading, age limit and lifetime of the two components is on the   *)
(* way.  The numbers are the program's own: time in units of 30 seconds,   *)
(* latency in ms, loss in percent, uplink in units of 0.1 Mbps.            *)
(*                                                                         *)
(* The gate, the script and the second evaluation share one AuditLog, here *)
(* audit_log["gate"]; the first evaluation gets a log of its own.          *)
(***************************************************************************)
EXTENDS PolicyEngine

CONSTANTS Pauses,     \* for how long the process may be suspended
          MaxPauses   \* bound: how often

VARIABLES
    gate_calls, replay_entries, revocation_messages, revoked_leases,   \* of CommandGate
    gate_up, gate_call, revocations, audit_log, fallback_events,
    forwarded, declared, denied, enforced,
    pc,         \* where main() is
    impaired,   \* impaired_network_profile
    request, state, lease,   \* its local variables, the last request and state made
    message,    \* the last command or revocation made
    pauses

durable_vars == <<replay_entries, revocation_messages, revoked_leases>>
gate_process == <<gate_up, gate_call, revocations, fallback_events, forwarded, declared, denied, enforced>>
gate_vars == <<gate_calls, durable_vars, gate_process, audit_log>>
engine_vars == <<calls, nonces, up, work, decisions, issued>>
script_vars == <<pc, impaired, request, state, lease, message>>
demo_vars == <<clock, gate_vars, engine_vars, script_vars, pauses>>
-----------------------------------------------------------------------------
(* What the program is configured with.                                    *)

Ctx == [agent |-> "fleet-agent", edge |-> "edge-agent", robot |-> "rover-001",
        mission |-> "mission-001", capability |-> "remote_assist"]

\* remote_assist.yaml, with the deny thresholds that Policy defaults to.
policy ==
    [policy |-> "remote-assist-authority-v0", capability |-> "remote_assist", lease_ttl |-> 20,
     allowed_agents |-> {Ctx.agent}, allowed_edges |-> {Ctx.edge}, allowed_robots |-> {Ctx.robot},
     allowed_missions |-> {Ctx.mission}, max_speed |-> None,
     geofence_required |-> TRUE, geofence_id |-> "test-zone-a", geofence_allowed |-> TRUE,
     human_operator_available |-> TRUE, control_plane_required |-> FALSE,
     control_plane_must_be_reachable |-> TRUE,
     network |-> [max_latency |-> 80, max_loss |-> 1, min_uplink |-> 30,
                  deny_latency |-> 250, deny_loss |-> 10, deny_uplink |-> 8],
     fallback |-> [on_deny |-> "local_autonomy_only", on_network_degrade |-> "crawl_to_safe_zone",
                   on_disconnect |-> "local_autonomy_only"]]

NetworkState(profile, attached, latency, loss, uplink) ==
    [profile |-> profile, attached |-> attached, latency |-> latency, loss |-> loss, uplink |-> uplink]

\* Made once, when the module network is imported: that is also when they were observed.
PROFILES ==
    [normal          |-> NetworkState("normal", TRUE, 45, 0, 80),
     degraded_teleop |-> NetworkState("degraded_teleop", TRUE, 180, 4, 10),
     uplink_bad      |-> NetworkState("uplink_bad", TRUE, 70, 0, 6),
     partition       |-> NetworkState("partition", FALSE, 9999, 100, 0)]

ImportTime == 0

network_observed_at_Fresh == clock   \* mutant: profile() stamps the copy it returns

network_observed_at == ImportTime

make_state(profile) ==
    [robot |-> Ctx.robot, edge |-> Ctx.edge, mission |-> Ctx.mission,
     stamps |-> <<clock, clock, network_observed_at, clock>>, network |-> PROFILES[profile],
     geofence |-> [id |-> "test-zone-a", inside |-> TRUE], human_declared |-> TRUE,
     human_operator_available |-> TRUE, defects |-> {}]

make_request(nonce) ==
    [ctx |-> Ctx, nonce |-> nonce, created_at |-> clock, duration |-> 20, requested |-> None,
     defects |-> {}]

make_command(id) ==
    [command_id |-> id, command_nonce |-> id, ctx |-> Ctx, created_at |-> clock, payload |-> << >>,
     defects |-> {}]

make_revocation(l) ==
    [message_id |-> "revocation", lease_id |-> l.lease_id, revoked_by |-> Ctx.edge, edge |-> Ctx.edge,
     robot |-> Ctx.robot, mission |-> Ctx.mission, capability |-> Ctx.capability,
     reason_code |-> "NETWORK_PROFILE_REVOKE", created_at |-> clock, revoked_at |-> clock,
     defects |-> {}]

\* The leases that issue_lease() can hand to the script.
LeaseAt(t) ==
    [lease_id |-> <<"lease", 1>>, nonce |-> <<"lease_nonce", 1>>, issuer |-> IssuerId, ctx |-> Ctx,
     policy |-> policy.policy, issued_at |-> t, expires_at |-> t + policy.lease_ttl, defects |-> {},
     constraints |-> base_constraints([geofence |-> [id |-> "test-zone-a"]], policy)]

(* One issuer, which the gate trusts for the capability and the policy     *)
(* that the program configures; the lifetime of a lease is within the      *)
(* limits of the gate, and a request may be as old as a state.             *)
ASSUME ScenarioAssumption ==
    /\ Engine = {"issuer"}
    /\ Pauses \subseteq Nat
    /\ IssuerId \in TrustedIssuers \cap IssuerKeys
    /\ Ctx.capability \in AcceptedCapabilities
    /\ Ctx.capability \in IssuerScopes[IssuerId]
    /\ policy.policy \in AcceptedDigests
    /\ policy.lease_ttl <= MaxLeaseTtl
    /\ policy.lease_ttl <= MaxLeaseAge + ClockSkew
    /\ MaxStateAge + ClockSkew <= MaxRequestAge

\* None is no number, no text, no lease, no revocation and no row of the revocation store.
ASSUME NoneAssumption ==
    /\ None \notin Nat
    /\ None \notin {"durable", policy.policy, policy.geofence_id, policy.fallback.on_network_degrade}
    /\ None \notin [lease_id : {<<"lease", 1>>}, nonce : {<<"lease_nonce", 1>>}, issuer : {IssuerId},
                    ctx : {Ctx}, policy : {policy.policy}, issued_at : Nat, expires_at : Nat,
                    defects : {{}}, constraints : {LeaseAt(0).constraints}]
    /\ None \notin [message_id : {"revocation"}, lease_id : {<<"lease", 1>>}, revoked_by : {Ctx.edge},
                    edge : {Ctx.edge}, robot : {Ctx.robot}, mission : {Ctx.mission},
                    capability : {Ctx.capability}, reason_code : {"NETWORK_PROFILE_REVOKE"},
                    created_at : Nat, revoked_at : Nat, defects : {{}}]
    /\ None # [lease_id |-> <<"lease", 1>>, issuer |-> IssuerId, ctx |-> Ctx,
               reason_code |-> "NETWORK_PROFILE_REVOKE", revocation_id |-> "revocation"]

G == INSTANCE CommandGate WITH
         Gate <- {"gate"}, Commands <- {}, Leases <- {LeaseAt(0)}, States <- {}, Revocations <- {},
         LocalEdge <- Ctx.edge, RevokerEdgeScopes <- [r \in {Ctx.edge} |-> {Ctx.edge}],
         MaxCommandAge <- 1, MaxRevocationAge <- 10, FallbackOverrides <- << >>, LegacyRows <- {},
         SignerOutcomes <- {TRUE}, MaxCalls <- 4,
         AcceptedPolicies <- {policy.policy},
         Bounds <- [c \in {Ctx.capability} |-> policy_constraint_bounds(policy)],
         Requirements <- [c \in {Ctx.capability} |->
             [geofence |-> TRUE, network |-> TRUE, fallback |-> TRUE, max_speed |-> FALSE]],
         calls <- gate_calls, up <- gate_up, call <- gate_call

log == audit_log["gate"]
-----------------------------------------------------------------------------
(* The script.                                                             *)

DemoInit ==
    /\ Init
    /\ G!Init
    /\ pc = "setup"
    /\ impaired \in DOMAIN PROFILES \ {"normal"}
    /\ request = None
    /\ state = None
    /\ lease = None
    /\ message = None
    /\ pauses = 0

\* audit(): an event of the script itself.
Audit(type, ref) ==
    /\ audit_log' = [audit_log EXCEPT !["gate"] = Append(@, G!AuditEvent(type, None, ref))]
    /\ UNCHANGED <<gate_calls, durable_vars, gate_process>>

\* The stores, the gate and the issuer are constructed.
Setup ==
    /\ pc = "setup"
    /\ \/ Start("issuer") /\ UNCHANGED <<gate_vars, pc>>
       \/ up["issuer"] /\ ~gate_up["gate"] /\ G!Start("gate") /\ UNCHANGED <<engine_vars, pc>>
       \/ gate_up["gate"] /\ Audit("DEMO_SETUP", None) /\ pc' = "request" /\ UNCHANGED <<clock, engine_vars>>
    /\ UNCHANGED <<impaired, request, state, lease, message>>

\* A CapabilityRequest is made, signed and audited.
MakeRequest(from, to, nonce) ==
    /\ pc = from
    /\ request' = make_request(nonce)
    /\ Audit("CAPABILITY_REQUESTED", nonce)
    /\ pc' = to
    /\ UNCHANGED <<clock, engine_vars, impaired, state, lease, message>>

MakeState(from, to, profile) ==
    /\ pc = from
    /\ state' = make_state(profile)
    /\ Audit("NETWORK_STATE_ASSERTED", profile)
    /\ pc' = to
    /\ UNCHANGED <<clock, engine_vars, impaired, request, lease, message>>

\* evaluate_policy() is called.
StartEvaluation(from, to) ==
    /\ pc = from
    /\ EvaluatePolicy("issuer", request, state, policy, None, "durable")
    /\ pc' = to
    /\ UNCHANGED <<impaired, request, state, lease, message>>

\* The event type that both evaluate_policy() and audit_capability_decision() choose.
decision_event(d) ==
    CASE d.decision = "allow" -> "CAPABILITY_ALLOWED"
      [] d.decision = "deny" -> "CAPABILITY_DENIED"
      [] d.decision = "degrade" -> "CAPABILITY_DEGRADED"

DecisionEvent(d) == G!AuditEvent(decision_event(d), d.reason_code, d.request.nonce)

\* Which log an evaluation was given: the first one writes to policy_evaluation_log.
evaluation_log_Shared == "shared"   \* mutant: audit_log=log in both calls

evaluation_log == IF pc = "evaluating" THEN "policy_evaluation_log" ELSE "shared"

\* The audit event of an evaluation step goes to the log the evaluation was given.
AuditDecision ==
    /\ audit_log' = IF evaluation_log = "shared" /\ Len(decisions') > Len(decisions)
                    THEN [audit_log EXCEPT !["gate"] = Append(@, DecisionEvent(decisions'[Len(decisions')]))]
                    ELSE audit_log
    /\ UNCHANGED <<gate_calls, durable_vars, gate_process>>

(* evaluate_policy() at work, and issue_lease() after an allowed decision. *)
(* The script asks for no lease the second time; every impaired profile    *)
(* breaks a threshold, so none would be due.                               *)
Evaluate ==
    /\ \/ Consume("issuer")
       \/ Decide("issuer")
       \/ pc = "evaluating" /\ IssueLease("issuer")
    /\ AuditDecision
    /\ UNCHANGED script_vars

\* A call that was refused before its nonce was consumed has already been audited.
StartFirst == StartEvaluation("evaluate", "evaluating") /\ UNCHANGED gate_vars
StartSecond ==
    /\ StartEvaluation("reevaluate", "reevaluating")
    /\ audit_log' = IF Len(decisions') > Len(decisions)
                    THEN [audit_log EXCEPT !["gate"] = Append(@, DecisionEvent(decisions'[Len(decisions')]))]
                    ELSE audit_log
    /\ UNCHANGED <<gate_calls, durable_vars, gate_process>>

\* CapabilityDecision is built and audit_capability_decision() writes it to the shared log.
Decision ==
    /\ pc = "evaluating"
    /\ work["issuer"].pc = "idle"
    /\ lease' = IF issued = << >> THEN None ELSE issued[1].lease
    /\ audit_log' = [audit_log EXCEPT !["gate"] = Append(@, DecisionEvent(decisions[Len(decisions)]))]
    /\ pc' = "command"
    /\ UNCHANGED <<clock, gate_calls, durable_vars, gate_process, engine_vars, impaired, request, state, message>>

Redecision ==
    /\ pc = "reevaluating"
    /\ work["issuer"].pc = "idle"
    /\ pc' = "revoke"
    /\ UNCHANGED <<clock, gate_vars, engine_vars, impaired, request, state, lease, message>>

\* A command is made and signed ...
MakeCommand(from, to, id) ==
    /\ pc = from
    /\ message' = make_command(id)
    /\ pc' = to
    /\ UNCHANGED <<clock, gate_vars, engine_vars, impaired, request, state, lease>>

\* ... and gate.evaluate(), which reads the clock for itself, is called with it.
SendCommand(from, to, l) ==
    /\ pc = from
    /\ G!Evaluate("gate", message, l, state)
    /\ pc' = to
    /\ UNCHANGED <<engine_vars, impaired, request, state, lease, message>>

GateWorks ==
    /\ G!CallStep("gate")
    /\ UNCHANGED <<engine_vars, script_vars>>

GateAnswered(from, to) ==
    /\ pc = from
    /\ gate_call["gate"].pc = "idle"
    /\ pc' = to
    /\ UNCHANGED <<clock, gate_vars, engine_vars, impaired, request, state, lease, message>>

\* if lease: a LeaseRevocation is made and signed
MakeRevocation(l) ==
    /\ pc = "revoke"
    /\ \/ l # None /\ message' = make_revocation(l) /\ pc' = "send_revocation"
       \/ l = None /\ pc' = "last_command" /\ UNCHANGED message
    /\ UNCHANGED <<clock, gate_vars, engine_vars, impaired, request, state, lease>>

SendRevocation_Skipped(l) ==   \* mutant: the impaired network does not revoke the lease
    /\ pc = "send_revocation"
    /\ pc' = "last_command"
    /\ UNCHANGED <<clock, gate_vars, engine_vars, impaired, request, state, lease, message>>

\* gate.revoke(revocation, lease=lease): a refusal is a ValueError, which ends main().
SendRevocation(l) ==
    /\ pc = "send_revocation"
    /\ G!Revoke("gate", message, l)
    /\ pc' = IF gate_call'["gate"].pc = "idle" THEN "raised" ELSE "revoking"
    /\ UNCHANGED <<engine_vars, impaired, request, state, lease, message>>

\* revoke() returned a declaration.
revocation_fallback == \E i \in DOMAIN declared : declared[i].by = "revoke"

\* assert revocation_fallback is not None
Asserted ==
    /\ pc = "revoking"
    /\ gate_call["gate"].pc = "idle"
    /\ pc' = IF revocation_fallback THEN "last_command" ELSE "assertion failed"
    /\ UNCHANGED <<clock, gate_vars, engine_vars, impaired, request, state, lease, message>>

ScriptStep ==
    /\ \/ Setup
       \/ MakeRequest("request", "observe", "first")
       \/ MakeState("observe", "evaluate", "normal")
       \/ StartFirst
       \/ Evaluate
       \/ Decision
       \/ MakeCommand("command", "send_command", "cmd_valid_lease")
       \/ SendCommand("send_command", "commanding", lease)
       \/ GateWorks
       \/ GateAnswered("commanding", "command_without_lease")
       \/ MakeCommand("command_without_lease", "send_without_lease", "cmd_no_lease")
       \/ SendCommand("send_without_lease", "commanding_without_lease", None)
       \/ GateAnswered("commanding_without_lease", "impair")
       \/ MakeState("impair", "request_again", impaired)
       \/ MakeRequest("request_again", "reevaluate", "second")
       \/ StartSecond
       \/ Redecision
       \/ MakeRevocation(lease)
       \/ SendRevocation(lease)
       \/ Asserted
       \/ MakeCommand("last_command", "send_last_command", "cmd_after_revocation")
       \/ SendCommand("send_last_command", "commanding_last", lease)
       \/ GateAnswered("commanding_last", "done")
    /\ UNCHANGED pauses

\* The process is not run for a while.
Pause ==
    /\ pauses < MaxPauses
    /\ pauses' = pauses + 1
    /\ \E d \in Pauses : clock' = clock + d
    /\ UNCHANGED <<gate_vars, engine_vars, script_vars>>

\* main() has returned, or an exception has ended it.
Ended == pc \in {"done", "raised"}

Finished == Ended /\ UNCHANGED demo_vars

\* Any other state without a step is one in which the script hangs: a deadlock.
DemoNext ==
    \/ ScriptStep
    \/ ~Ended /\ Pause
    \/ Finished

DemoSpec == DemoInit /\ [][DemoNext]_demo_vars
-----------------------------------------------------------------------------
(* Properties.                                                             *)

Chain == INSTANCE AuditChain WITH BrokenLine <- None

\* What incident_replay_summary shows under one heading, and where in the log it is.
Section(name) == {i \in DOMAIN log : Chain!replay_section(log[i].event_type) = name}

Before(i, type, ref) == \E j \in 1..(i - 1) : log[j].event_type = type /\ log[j].ref = ref

(* README.md: "audit replay reconstructs the event chain".  Whatever was   *)
(* granted, refused or delayed, the shared log holds, for every decision,  *)
(* the request and the state before it, and no second decision on that     *)
(* request; for every forwarded command and every revocation the allowing  *)
(* decision before it; and for every fallback, directly before it, the     *)
(* event that called for it.                                               *)
ReplayReconstructs ==
    /\ \A i \in Section("decisions") :
           /\ Before(i, "CAPABILITY_REQUESTED", log[i].ref)
           /\ Before(i, "NETWORK_STATE_ASSERTED", IF log[i].ref = "first" THEN "normal" ELSE impaired)
           /\ \A j \in Section("decisions") : log[j].ref = log[i].ref => j = i
    /\ \A i \in DOMAIN log :
           log[i].event_type \in {"COMMAND_ALLOWED", "LEASE_REVOKED"} =>
               Before(i, "CAPABILITY_ALLOWED", "first")
    /\ \A i \in Section("fallbacks") :
           i > 1 /\ log[i - 1].event_type \in {"LEASE_REVOKED", "COMMAND_REJECTED"}
                 /\ log[i - 1].reason_code = log[i].reason_code
    /\ pc = "done" => \A i \in Section("requests") : \E j \in Section("decisions") : log[j].ref = log[i].ref

\* The last message was made longer ago than the gate accepts.
Overdue(max_age) == clock - message.created_at > max_age + ClockSkew

(* Nothing but the first command is ever forwarded, the assertion on the   *)
(* revocation's fallback holds, and when main() comes to its end the last  *)
(* command has been refused, on every impaired profile and after every     *)
(* suspension: because of the revocation, or because the lease has run     *)
(* out, or because there was none; or else because the command itself was  *)
(* made longer ago than the gate accepts.  Only a revocation that was held *)
(* up for longer than its age limit ends main() before that; the lease is  *)
(* then still in force, and no command follows it.                         *)
LastCommandRefused ==
    /\ pc # "assertion failed"
    /\ \A i \in DOMAIN forwarded : forwarded[i].command.command_id = "cmd_valid_lease"
    /\ pc = "raised" => Overdue(10)
    /\ pc = "done" =>
           \/ \E i \in DOMAIN log :
                 /\ log[i].event_type = "COMMAND_REJECTED"
                 /\ log[i].ref = "cmd_after_revocation"
                 /\ log[i].reason_code \in
                       IF lease = None THEN {"NO_LEASE"} ELSE {"LEASE_REVOKED", "LEASE_EXPIRED"}
           \/ log[Len(log)] = G!AuditEvent("DIAGNOSTIC", "COMMAND_STALE", None) /\ Overdue(1)

\* For how long the measurement of a network profile is good.
Fresh == MaxStateAge + ClockSkew

\* The clock reading with which evaluate_policy() decides.
evaluated_at == IF work["issuer"].pc = "idle" THEN clock ELSE work["issuer"].now

\* A decision is made: allow for the first request while its measurement is good, and else never.
DecidesWhileFresh ==
    Len(decisions') > Len(decisions) =>
        LET d == decisions'[Len(decisions')]
        IN  d.decision = "allow" <=> d.request.nonce = "first" /\ evaluated_at - ImportTime <= Fresh

\* The gate finds that a command may be forwarded.
AdmitsWhileFresh ==
    /\ gate_call["gate"].pc = "validate"
    /\ gate_call'["gate"].pc = "remember"
    /\ gate_call'["gate"].reason = Valid
    => clock - ImportTime <= Fresh

(* The network profiles were measured when the module was imported, and    *)
(* the measurement ages while the process runs.  evaluate_policy() allows  *)
(* on the normal profile as long as it is good, by the clock reading that  *)
(* the evaluation starts with, and never later or on an impaired profile.  *)
(* issue_lease() does not look at it again, so that the lease may come     *)
(* late; but the gate, which reads the clock when it validates, admits no  *)
(* command on a measurement that has gone stale by then.                   *)
VerdictsWhileFresh == [][DecidesWhileFresh /\ AdmitsWhileFresh]_demo_vars
=============================================================================
