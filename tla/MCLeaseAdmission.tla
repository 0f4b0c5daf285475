-------------------------- MODULE MCLeaseAdmission --------------------------
(***************************************************************************)
(* Inputs for LeaseAdmission and EdgeAgreement: leases on both sides of    *)
(* every bound and without each constraint, for a capability whose policy  *)
(* requires all constraints and for one whose policy requires a speed      *)
(* limit only.                                                             *)
(***************************************************************************)
EXTENDS EdgeAgreement, TLC

Context(cap) == [agent |-> "agent", edge |-> "edge", robot |-> "robot", mission |-> "mission",
                 capability |-> cap]

MCIssuers == {"issuer"}
MCCapabilities == {"remote_assist", "inspect"}
MCScopes == "issuer" :> MCCapabilities
MCPolicies == {"policy"}
MCRequirements ==
    ("remote_assist" :> [geofence |-> TRUE, network |-> TRUE, fallback |-> FALSE, max_speed |-> TRUE])
    @@ ("inspect" :> [geofence |-> FALSE, network |-> FALSE, fallback |-> FALSE, max_speed |-> TRUE])
MCBounds ==
    ("remote_assist" :> [geofence_id |-> "fence", max_latency |-> 2, max_loss |-> 2,
                         min_uplink |-> 1, max_speed |-> 1, fallback |-> "local_autonomy_only",
                         network_violation_action |-> "degrade"])
    @@ ("inspect" :> [geofence_id |-> None, max_latency |-> 2, max_loss |-> 2,
                      min_uplink |-> None, max_speed |-> 1, fallback |-> None,
                      network_violation_action |-> None])

Windows == { <<0, 3>>, <<1, 3>>, <<2, 5>>, <<0, 4>> }

Lease(cap, w, fence, latency, uplink, speed) ==
    [lease_id |-> "l", nonce |-> "n", issuer |-> "issuer", ctx |-> Context(cap),
     policy |-> "policy", issued_at |-> w[1], expires_at |-> w[2], not_before |-> None, defects |-> {},
     constraints |-> [geofence_id |-> fence, max_latency |-> latency, max_loss |-> 1,
                      min_uplink |-> uplink, max_speed |-> speed, network_violation_action |-> None,
                      fallback |-> "local_autonomy_only", fallback_set |-> cap = "remote_assist"]]

ConstrainedLeases ==
    { Lease("remote_assist", w, fence, latency, uplink, speed) :
        w \in Windows, fence \in {None, "fence"}, latency \in {None, 1, 3}, uplink \in {None, 0, 1},
        speed \in {None, 1, 2} }
    \cup
    { Lease("inspect", w, fence, latency, uplink, speed) :
        w \in Windows, fence \in {None, "fence"}, latency \in {None, 3}, uplink \in {None, 0},
        speed \in {None, 1, 2} }

\* A lease within the policy, in the forms that the two edges read differently or refuse.
UnusualLeases ==
    UNION { LET l == Lease("remote_assist", w, "fence", 1, 1, 1)
            IN  { [l EXCEPT !.constraints.fallback_set = FALSE],
                  [l EXCEPT !.constraints.network_violation_action = "degrade"],
                  [l EXCEPT !.constraints.network_violation_action = "deny"],
                  [l EXCEPT !.not_before = 2],
                  [l EXCEPT !.ctx.edge = "other"],
                  [l EXCEPT !.defects = {"INVALID_SIGNATURE"}],
                  [l EXCEPT !.defects = {"LEASE_SIGNATURE_ALGORITHM_UNSUPPORTED"}] } :
            w \in Windows }
    \cup { [Lease("inspect", w, None, None, None, 1) EXCEPT !.constraints.max_loss = None] : w \in Windows }

MCLeases == ConstrainedLeases \cup UnusualLeases

Command(cap, payload) == [ctx |-> Context(cap), payload |-> payload, created_at |-> 1, defects |-> {}]

MCCommands ==
    { Command("remote_assist", p) :
        p \in { "speed_mps" :> 1, "max_speed_mps" :> 2, "speed_mps" :> -1,
                ("speed_mps" :> 1) @@ ("max_speed_mps" :> 0), << >> } }
    \cup { Command("inspect", p) : p \in { "speed_mps" :> 1, << >> } }
    \cup LET c == Command("remote_assist", "speed_mps" :> 1)
         IN  { [c EXCEPT !.created_at = 4],
               [c EXCEPT !.ctx.edge = "other"],
               [c EXCEPT !.ctx.agent = "other", !.defects = {"COMMAND_AGENT_KEY_NOT_TRUSTED"}],
               [c EXCEPT !.defects = {"COMMAND_SIGNATURE_INVALID"}] }

State(stamps, latency, uplink, inside) ==
    [robot |-> "robot", edge |-> "edge", mission |-> "mission", stamps |-> stamps, defects |-> {},
     network |-> [profile |-> "normal", attached |-> TRUE, latency |-> latency, loss |-> 1,
                  uplink |-> uplink],
     geofence |-> [id |-> "fence", inside |-> inside]]

MCStates ==
    { State(stamps, latency, uplink, inside) :
        stamps \in { <<0, 0, 0, 0>>, <<2, 2, 1, 1>> },
        latency \in {1, 3}, uplink \in {0, 1}, inside \in BOOLEAN }
    \cup LET s == State(<<2, 2, 1, 1>>, 1, 1, TRUE)
         IN  { [s EXCEPT !.stamps = <<0, 2, 2, 2>>],
               [s EXCEPT !.edge = "other"],
               [s EXCEPT !.network.profile = "partition"],
               [s EXCEPT !.defects = {"STATE_SIGNATURE_INVALID"}] }
=============================================================================
