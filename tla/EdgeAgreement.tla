--------------------------- MODULE EdgeAgreement ---------------------------
(***************************************************************************)
(* The two implementations of the edge side by side: the Python gate       *)
(* (CommandRules and LeaseRules) and the Rust verifier (EdgeVerifier),     *)
(* configured alike and presented with the same messages as time passes.   *)
(* Replay and revocation are left out here: both ask for them separately,  *)
(* and the stores have modules of their own.                               *)
(***************************************************************************)
EXTENDS LeaseAdmission, CommandRules

CONSTANT CommandAgent   \* the agent whose commands both accept

Rust == INSTANCE EdgeVerifier
            WITH TrustedAgents <- {CommandAgent}, TrustedEdges <- {LocalEdge},
                 Policy <- CHOOSE p \in AcceptedPolicies : TRUE

(* Reasons of the two for the same fault of one message's bytes, as        *)
(* PARITY_CASES pairs them for the lease.                                  *)
SameFault ==
    [LEASE_SIGNATURE_ALGORITHM_UNSUPPORTED |-> "DENY_UNKNOWN_ALGORITHM",
     INVALID_SIGNATURE |-> "DENY_INVALID_SIGNATURE",
     COMMAND_SIGNATURE_INVALID |-> "DENY_INVALID_COMMAND_SIGNATURE",
     STATE_SIGNATURE_INVALID |-> "DENY_INVALID_STATE_SIGNATURE"]

Faults(m) == {SameFault[d] : d \in m.defects \cap DOMAIN SameFault}

\* The messages in the form that types.rs gives them.
CapabilityLeaseEnvelope(l) ==
    [lease_id |-> l.lease_id, issuer |-> l.issuer, ctx |-> l.ctx, policy |-> l.policy,
     issued_at |-> l.issued_at, expires_at |-> l.expires_at, not_before |-> l.not_before,
     constraints |->
        [geofence_id |-> l.constraints.geofence_id, max_latency |-> l.constraints.max_latency,
         max_loss |-> l.constraints.max_loss, min_uplink |-> l.constraints.min_uplink,
         max_speed |-> l.constraints.max_speed,
         fallback |-> IF l.constraints.fallback_set THEN l.constraints.fallback ELSE None,
         network_violation_action |-> l.constraints.network_violation_action],
     defects |-> Faults(l)]

EdgeCommand(c) == [ctx |-> c.ctx, payload |-> c.payload, created_at |-> c.created_at, defects |-> Faults(c)]

LocalContext(s) ==
    IF s = None THEN None
    ELSE [robot |-> s.robot, edge |-> s.edge, mission |-> s.mission, defects |-> Faults(s),
          observed_at |-> s.stamps[2],
          network |-> [observed_at |-> s.stamps[3], profile |-> s.network.profile,
                       attached |-> s.network.attached, latency |-> s.network.latency,
                       loss |-> s.network.loss, uplink |-> s.network.uplink],
          geofence |-> [verified_at |-> s.stamps[4], id |-> s.geofence.id, inside |-> s.geofence.inside]]

\* What evaluate() answers to a command that was not seen before.
gate_verdict ==
    FirstViolation(<<
        Sub(command_auth_violation(command, now)),
        <<local_edge_context_mismatch(command, lease), "EDGE_AGENT_MISMATCH">>,
        Sub(Verdict(now)) >>)

rust_verdict ==
    Rust!verify(CapabilityLeaseEnvelope(lease), EdgeCommand(command), LocalContext(state), {}, now)

-----------------------------------------------------------------------------
(* What "configured alike" means: the verifier's context names one issuer, *)
(* whose key the gate has, and one policy; both know the constraints of    *)
(* every capability they accept; no scope is empty; ages are positive; and *)
(* the policy's limits are well formed.                                    *)
ASSUME ConfiguredAlikeAssumption ==
    /\ \E i \in TrustedIssuers : TrustedIssuers = {i}
    /\ TrustedIssuers \subseteq IssuerKeys
    /\ \E p \in AcceptedPolicies : AcceptedPolicies = {p}
    /\ AcceptedCapabilities \subseteq DOMAIN Requirements \cap DOMAIN Bounds
    /\ \A i \in DOMAIN IssuerScopes : IssuerScopes[i] # {}
    /\ \A age \in {MaxLeaseAge, MaxLeaseTtl, MaxStateAge, MaxCommandAge} : age \in Nat \ {0}
    /\ \A cap \in DOMAIN Bounds :
          LET b == Bounds[cap]
          IN  /\ \A v \in {b.max_latency, b.max_loss, b.min_uplink, b.max_speed} : v \in Nat \cup {None}
              /\ b.max_loss # None => b.max_loss <= 100

\* The context of a lease or a command has these five fields.
IsContext(ctx) ==
    ctx = [agent |-> ctx.agent, edge |-> ctx.edge, robot |-> ctx.robot, mission |-> ctx.mission,
           capability |-> ctx.capability]

(* "The same messages": timestamps are not before the epoch, a fault of a  *)
(* message's bytes is one that both implementations have a reason for, and *)
(* the key of a command's agent is unknown to both or to neither.          *)
ASSUME SameMessagesAssumption ==
    /\ \A l \in LeaseInputs :
          /\ {l.issued_at, l.expires_at, l.not_before} \subseteq Nat \cup {None}
          /\ l.defects \subseteq {"LEASE_SIGNATURE_ALGORITHM_UNSUPPORTED", "INVALID_SIGNATURE"}
          /\ IsContext(l.ctx)
          /\ l.constraints.fallback # None
    /\ \A c \in CommandInputs :
          /\ c.created_at \in Nat \cup {None}
          /\ c.defects \subseteq {"COMMAND_SIGNATURE_INVALID", "COMMAND_AGENT_KEY_NOT_TRUSTED"}
          /\ "COMMAND_AGENT_KEY_NOT_TRUSTED" \in c.defects <=> c.ctx.agent # CommandAgent
          /\ IsContext(c.ctx)
    /\ \A s \in StateInputs :
          /\ \A k \in 1..4 : s.stamps[k] \in Nat \cup {None}
          /\ s.defects \subseteq {"STATE_SIGNATURE_INVALID", "EDGE_STATE_KEY_NOT_TRUSTED"}
          /\ "EDGE_STATE_KEY_NOT_TRUSTED" \in s.defects => s.edge # LocalEdge
          /\ LocalContext(s) # None

-----------------------------------------------------------------------------
ThresholdReasons ==
    {"NETWORK_LATENCY_TOO_HIGH", "NETWORK_PACKET_LOSS_TOO_HIGH", "NETWORK_UPLINK_TOO_LOW"}

\* The gate checks when a state was created; a LocalContext does not say.
CreationCurrent ==
    /\ state.stamps[1] # None
    /\ state.stamps[1] <= now + ClockSkew
    /\ now - state.stamps[1] <= MaxStateAge + ClockSkew

\* The Rust verifier wants what a Python lease may leave to a default or does not know.
StricterInRust ==
    \/ state = None
    \/ now < lease.issued_at
    \/ lease.not_before # None /\ now < lease.not_before
    \/ Bounds[lease.ctx.capability].fallback # None /\ ~lease.constraints.fallback_set
    \/ lease.constraints.network_violation_action
           \notin {None, Bounds[lease.ctx.capability].network_violation_action}

(* The second implementation of the edge never has the wider authority.    *)
(* What verify() allows, evaluate() allows, except that the gate also      *)
(* looks at the creation of the state.  What verify() degrades, the gate   *)
(* denies, and for a threshold of the network only: everything else about  *)
(* the command is in order.  And what the gate allows verify() allows too, *)
(* unless it lacks what verify() insists on: a state, a lease not issued   *)
(* ahead of the clock, a fallback that is written out.                     *)
EdgesAgree ==
    LET rust == rust_verdict
        gate == gate_verdict
    IN  /\ rust = Rust!Allow /\ CreationCurrent => gate = Valid
        /\ rust = Rust!Degrade /\ CreationCurrent => gate \in ThresholdReasons
        /\ gate = Valid => rust = Rust!Allow \/ StricterInRust
=============================================================================
