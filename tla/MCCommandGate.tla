--------------------------- MODULE MCCommandGate ---------------------------
(***************************************************************************)
(* Small instances of CommandGate for TLC.  The messages form two studies, *)
(* one of replays and one of revocations.  Gate.cfg has the messages of    *)
(* both and keeps the two apart with StudiesApart; the other               *)
(* configurations take the messages of the second only.                    *)
(***************************************************************************)
EXTENDS CommandGate, TLC

CONSTANTS g1, g2

Ctx == [agent |-> "agent", edge |-> "edge", robot |-> "robot", mission |-> "mission",
        capability |-> "remote_assist"]

OtherEdge == [Ctx EXCEPT !.edge = "edge2"]

MCIssuers == {"issuer"}
MCCapabilities == {"remote_assist"}
MCScopes == "issuer" :> {"remote_assist"}
MCPolicies == {"policy"}
MCRequirements ==
    "remote_assist" :> [geofence |-> FALSE, network |-> TRUE, fallback |-> FALSE, max_speed |-> TRUE]
MCBounds ==
    "remote_assist" :> [geofence_id |-> None, max_latency |-> 2, max_loss |-> 2, min_uplink |-> 1,
                        max_speed |-> 1, fallback |-> None]
MCRevokers == "revoker" :> {"edge"}
MCOverrides == "COMPROMISE_SUSPECTED" :> "hold_position"

Constraints ==
    [geofence_id |-> None, max_latency |-> 1, max_loss |-> 1, min_uplink |-> 1,
     max_speed |-> 1, fallback |-> "local_autonomy_only", fallback_set |-> FALSE]

Lease(id, nonce) ==
    [lease_id |-> id, nonce |-> nonce, issuer |-> "issuer", ctx |-> Ctx, policy |-> "policy",
     issued_at |-> 0, expires_at |-> 2, constraints |-> Constraints, defects |-> {}]

Cmd(id, nonce) ==
    [command_id |-> id, command_nonce |-> nonce, ctx |-> Ctx, created_at |-> 0,
     payload |-> "speed_mps" :> 1, defects |-> {}]

State(latency) ==
    [robot |-> "robot", edge |-> "edge", mission |-> "mission", stamps |-> <<0, 0, 0, 0>>,
     network |-> [profile |-> "clean", attached |-> TRUE, latency |-> latency, loss |-> 0, uplink |-> 1],
     geofence |-> [id |-> "fence", inside |-> TRUE], defects |-> {}]

Revocation(id, lease, reason) ==
    [message_id |-> id, lease_id |-> lease, revoked_by |-> "revoker", edge |-> "edge",
     robot |-> "robot", mission |-> None, capability |-> None, reason_code |-> reason,
     created_at |-> 0, revoked_at |-> 0, defects |-> {}]

(* Replay: three commands that share ids and nonces pairwise, a forgery of *)
(* the first with both of its identifiers, a command for another edge; two *)
(* leases and a forged copy of the first.  A command that comes without a  *)
(* state is denied.                                                        *)
ReplayCommands ==
    { Cmd("c1", "n1"), Cmd("c1", "n2"), Cmd("c2", "n1"),
      [Cmd("c1", "n1") EXCEPT !.defects = {"COMMAND_SIGNATURE_INVALID"}],
      [Cmd("c4", "n4") EXCEPT !.ctx = OtherEdge] }
ReplayLeases ==
    { Lease("l1", "ln1"), Lease("l2", "ln2"),
      [Lease("l1", "ln1") EXCEPT !.constraints.max_latency = 2, !.defects = {"INVALID_SIGNATURE"}] }
ReplayStates == { State(0) }

(* Revocation: one lease, two revocation messages for it and an unsigned   *)
(* one; a store of an older version with a row for the lease and a row     *)
(* whose revocation_id is NULL.                                            *)
RevokeCommands == { Cmd("c1", "n1") }
RevokeLeases == { Lease("l1", "ln1") }
RevokeStates == { State(0), State(2) }
RevokeMessages ==
    { Revocation("r1", "l1", "COMPROMISE_SUSPECTED"),
      Revocation("r2", "l1", "NETWORK_PROFILE_REVOKE"),
      [Revocation("r3", "l1", "COMPROMISE_SUSPECTED") EXCEPT
           !.defects = {"REVOCATION_SIGNATURE_INVALID"}] }
OneRevocation == { Revocation("r1", "l1", "COMPROMISE_SUSPECTED") }
LegacyRow(lease, id) ==
    [lease_id |-> lease, issuer |-> "issuer", ctx |-> Ctx,
     reason_code |-> "COMPROMISE_SUSPECTED", revocation_id |-> id]
MCLegacyRows == { LegacyRow("l1", "r1"), LegacyRow("l2", None) }

NoMessages == {}

GateCommands == ReplayCommands \cup RevokeCommands
GateLeases == ReplayLeases \cup RevokeLeases
GateStates == ReplayStates \cup RevokeStates

(* State constraint: either three calls of the replay study, on a store    *)
(* that holds no revocation, or the calls of the revocation study, whose   *)
(* command and lease are two of the replay study's.                        *)
MaxReplayCalls == 3
ReplayStudy ==
    /\ calls <= MaxReplayCalls
    /\ \A i \in LeaseIds : revoked_leases[i] = None
    /\ \A g \in Gate : call[g].state \in ReplayStates \cup {None} /\ call[g].revocation = None
RevokeKeys == UNION {authorized_use_keys(c, l) : c \in RevokeCommands, l \in RevokeLeases}
RevokeStudy ==
    /\ replay_entries \subseteq RevokeKeys
    /\ \A g \in Gate : /\ call[g].command \in RevokeCommands \cup {None}
                       /\ call[g].lease \in RevokeLeases \cup {None}
StudiesApart == ReplayStudy \/ RevokeStudy

(* The audit log and the list of fallback events of a gate are written and *)
(* never read: states that differ only there have the same futures.        *)
AuthorityView == <<clock, calls, durable, up, call, revocations, history>>

GateSymmetry == Permutations(Gate)
=============================================================================
