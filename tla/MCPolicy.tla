------------------------------ MODULE MCPolicy ------------------------------
(***************************************************************************)
(* Instances of PolicyGrants for TLC.  The messages form two studies: one  *)
(* of the replay store, with several issuers and redelivered requests, and *)
(* one of the decision, with networks, policies and requested constraints  *)
(* on both sides of every threshold.  Policy.cfg has the messages of both  *)
(* and keeps them apart with StudiesApart.                                 *)
(***************************************************************************)
EXTENDS PolicyGrants, TLC

CONSTANTS e1, e2

Ctx == [agent |-> "agent", edge |-> "edge", robot |-> "robot", mission |-> "mission",
        capability |-> "remote_assist"]

MCIssuers == {"issuer"}
MCCapabilities == {"remote_assist"}
MCScopes == "issuer" :> MCCapabilities
MCRequirements ==
    "remote_assist" :> [geofence |-> TRUE, network |-> TRUE, fallback |-> TRUE, max_speed |-> FALSE]
NoBounds == << >>
MCDigests == {"policy"}

Request(nonce, duration) ==
    [ctx |-> Ctx, nonce |-> nonce, created_at |-> 0, duration |-> duration, requested |-> None,
     defects |-> {}]

Policy ==
    [policy |-> "policy", capability |-> "remote_assist", lease_ttl |-> 2,
     allowed_agents |-> {"agent"}, allowed_edges |-> {"edge"}, allowed_robots |-> {"robot"},
     allowed_missions |-> {"mission"}, max_speed |-> None,
     geofence_required |-> TRUE, geofence_id |-> "fence", geofence_allowed |-> TRUE,
     human_operator_available |-> TRUE, control_plane_required |-> FALSE,
     control_plane_must_be_reachable |-> TRUE,
     network |-> [max_latency |-> 1, max_loss |-> 1, min_uplink |-> 2,
                  deny_latency |-> 2, deny_loss |-> 2, deny_uplink |-> 1],
     fallback |-> [on_deny |-> "local_autonomy_only", on_network_degrade |-> "crawl_to_safe_zone",
                   on_disconnect |-> "local_autonomy_only"]]

State(latency, loss, uplink) ==
    [robot |-> "robot", edge |-> "edge", mission |-> "mission", stamps |-> <<0, 0, 0, 0>>,
     network |-> [profile |-> "clean", attached |-> TRUE, latency |-> latency, loss |-> loss,
                  uplink |-> uplink],
     geofence |-> [id |-> "fence", inside |-> TRUE], human_declared |-> TRUE,
     human_operator_available |-> TRUE, defects |-> {}]

Assertion(reachability) ==
    [robot |-> "robot", edge |-> "edge", mission |-> "mission", stamps |-> <<0, 0>>,
     reachability |-> reachability, reachable |-> TRUE, defects |-> {}]

(* Replay: two requests with one nonce and a forgery that carries it, and  *)
(* one that asks for less time than the policy's lifetime.                 *)
ReplayRequests ==
    { Request("n1", 2), [Request("n1", 2) EXCEPT !.created_at = 1], Request("n2", 1),
      [Request("n1", 2) EXCEPT !.defects = {"REQUEST_SIGNATURE_INVALID"}] }
ReplayStates == { State(0, 0, 3), State(2, 0, 3) }
ReplayPolicies == { Policy }
NoMessages == {}

(* Decisions: every network around the thresholds; policies that require   *)
(* the geofence, forbid it or do not mention it, one with a speed limit    *)
(* and one that needs the control plane; requests for narrower, equal and  *)
(* broader constraints.                                                    *)
Requested(uplink, latency, speed) ==
    [geofence_id |-> None, max_latency |-> latency, max_loss |-> None, min_uplink |-> uplink,
     max_speed |-> speed, fallback |-> "local_autonomy_only", fallback_set |-> FALSE]
DecisionRequests ==
    { Request("n1", 2), [Request("n1", 2) EXCEPT !.ctx.robot = "robot2"], Request("n1", 3) }
    \cup { [Request("n1", 2) EXCEPT !.requested = q] :
             q \in { Requested(1, None, None), Requested(3, 0, None), Requested(None, 2, None),
                     Requested(None, None, 1), Requested(None, None, 2),
                     [Requested(2, 1, None) EXCEPT !.geofence_id = "fence2"],
                     [Requested(2, 1, None) EXCEPT !.fallback_set = TRUE] } }
DecisionStates ==
    { State(latency, loss, uplink) : latency \in 1..3, loss \in 1..3, uplink \in 0..2 }
    \cup { [State(1, 1, 2) EXCEPT !.geofence.inside = FALSE],
           [State(1, 1, 2) EXCEPT !.geofence.id = "fence2"],
           [State(1, 1, 2) EXCEPT !.network.attached = FALSE],
           [State(1, 1, 2) EXCEPT !.human_declared = FALSE],
           [State(1, 1, 2) EXCEPT !.stamps = <<0, 0, None, 0>>] }
DecisionPolicies ==
    { Policy, [Policy EXCEPT !.geofence_allowed = FALSE],
      [Policy EXCEPT !.geofence_required = FALSE, !.geofence_id = None],
      [Policy EXCEPT !.max_speed = 1], [Policy EXCEPT !.control_plane_required = TRUE],
      [Policy EXCEPT !.policy = "unaccepted"] }
DecisionAssertions == { Assertion("reachable"), Assertion("partitioned") }

PolicyRequests == ReplayRequests \cup DecisionRequests
PolicyStates == ReplayStates \cup DecisionStates
PolicyPolicies == ReplayPolicies \cup DecisionPolicies

(* The messages of the decision study are delivered in the first call      *)
(* only, those of the replay study in any.  StudyNext has fewer steps than *)
(* Next, and no other ones.                                                *)
Deliver(e) ==
    \/ /\ calls = 0 /\ clock = 0
       /\ \E r \in DecisionRequests, s \in DecisionStates, p \in DecisionPolicies,
             a \in DecisionAssertions \cup {None}, cache \in Caches :
              EvaluatePolicy(e, r, s, p, a, cache)
    \/ \E r \in ReplayRequests, s \in ReplayStates, p \in ReplayPolicies :
          EvaluatePolicy(e, r, s, p, None, "durable")
StudyNext ==
    \/ Tick
    \/ \E e \in Engine : \/ Deliver(e) \/ Consume(e) \/ Decide(e) \/ IssueLease(e)
                          \/ StoreBusy(e) \/ Crash(e) \/ Start(e)
StudySpec == Init /\ [][StudyNext]_vars

(* State constraint: either the calls of the replay study, or the one call *)
(* of the decision study, before the clock moves.                          *)
ReplayStudy ==
    /\ \A e \in Engine : /\ work[e].request \in ReplayRequests \cup {None}
                         /\ work[e].state \in ReplayStates \cup {None}
                         /\ work[e].policy \in ReplayPolicies \cup {None}
                         /\ work[e].assertion = None
    /\ \A i \in DOMAIN decisions : decisions[i].final =>
           decisions[i].request \in ReplayRequests /\ decisions[i].policy \in ReplayPolicies
    /\ \A i \in DOMAIN issued : issued[i].state \in ReplayStates
DecisionStudy == calls <= 1 /\ clock = 0
StudiesApart == ReplayStudy \/ DecisionStudy

(* The audited decisions on requests that consumed nothing are written and *)
(* never read: states that differ only there have the same futures.        *)
FinalView == <<clock, calls, nonces, up, work, SelectSeq(decisions, LAMBDA d : d.final), issued>>

EngineSymmetry == Permutations(Engine)
=============================================================================
