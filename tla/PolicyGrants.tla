---------------------------- MODULE PolicyGrants ----------------------------
(***************************************************************************)
(* The issuer and the edge together: what PolicyEngine issues, judged by   *)
(* validate_lease_for_command at an edge that is configured from the same  *)
(* policy, as demo_remote_assist.py configures its gate.                   *)
(***************************************************************************)
EXTENDS PolicyEngine

\* The leases that issue_lease() can sign.
IssuedLeases ==
    [lease_id : {"lease"} \X Nat, nonce : {"lease_nonce"} \X Nat, issuer : {IssuerId},
     ctx : {r.ctx : r \in Requests}, policy : {p.policy : p \in Policies},
     issued_at : Nat, expires_at : Nat, defects : {{}},
     constraints : {granted_constraints(r, s, p) : r \in Requests, s \in States, p \in Policies}]

(* How demo_remote_assist.py configures its gate for the policies it       *)
(* issues under: it trusts the issuer for their capabilities, requires of  *)
(* a lease only what they grant, and accepts leases as long as theirs.     *)
ASSUME EdgeAssumption ==
    /\ None \notin Int \cup IssuedLeases
    /\ IssuerId \in TrustedIssuers \cap IssuerKeys
    /\ \A p \in Policies :
          /\ p.policy # None
          /\ p.capability \in AcceptedCapabilities \cap IssuerScopes[IssuerId] \cap DOMAIN Requirements
          /\ Requirements[p.capability].max_speed => p.max_speed # None
          /\ p.lease_ttl <= MaxLeaseTtl

(* What the models accept, Field(ge=0) and str: limits are not negative,   *)
(* and a state names its geofence.                                         *)
ASSUME LimitsAssumption ==
    /\ \A p \in Policies : p.max_speed # None => finite_nonnegative(p.max_speed)
    /\ \A r \in Requests : r.requested # None =>
          \A v \in {r.requested.max_latency, r.requested.max_loss, r.requested.max_speed} :
              v # None => finite_nonnegative(v)
    /\ \A s \in States :
          /\ s.geofence.id # None
          /\ DOMAIN s.stamps \subseteq Nat
          /\ \A k \in DOMAIN s.stamps : s.stamps[k] \in OptionalInt

\* The rules of an edge that takes its constraint bounds and provenance from policy p.
Edge(p) == INSTANCE LeaseRules WITH
               Bounds           <- [c \in {p.capability} |-> policy_constraint_bounds(p)],
               AcceptedPolicies <- {p.policy}

\* A command under lease l that stays within its speed limit.
ModestCommand(l) ==
    [ctx |-> l.ctx,
     payload |-> IF l.constraints.max_speed = None THEN << >> ELSE [f \in {"speed_mps"} |-> 0]]

EdgeVerdict(x, at) ==
    Edge(x.policy)!validate_lease_for_command(x.lease, ModestCommand(x.lease), x.state, {}, at)

(* The issuer and the edge agree: when a policy keeps the robot inside its *)
(* geofence and the request asked for no narrower constraints, the edge    *)
(* admits a command under the new lease, with the very state the decision  *)
(* was made on, unless that state has become stale before the lease was    *)
(* issued.  (For a policy that sends the robot outside its geofence, or    *)
(* requires none, the lease names a geofence the robot may be outside of,  *)
(* and the edge refuses it.)                                               *)
GrantIsUsable ==
    \A i \in DOMAIN issued :
        LET x == issued[i]
        IN  /\ x.policy.geofence_required
            /\ x.policy.geofence_allowed
            /\ x.request.requested = None
            => EdgeVerdict(x, x.lease.issued_at) \in
                  IF x.lease.issued_at = x.decided_at THEN {Valid} ELSE {Valid, "STATE_STALE"}

(* Whatever was requested, a lease is never refused at the edge for its    *)
(* issuer, provenance, scope, time window or constraints: only the robot's *)
(* state can stand in the way.                                             *)
RefusedOnlyForState ==
    \A i \in DOMAIN issued :
        EdgeVerdict(issued[i], issued[i].lease.issued_at) \in
            {Valid, "STATE_STALE", "GEOFENCE_CONSTRAINT_VIOLATED", "NETWORK_LATENCY_TOO_HIGH",
             "NETWORK_PACKET_LOSS_TOO_HIGH", "NETWORK_UPLINK_TOO_LOW"}
=============================================================================
