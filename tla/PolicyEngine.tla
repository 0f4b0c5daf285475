---------------------------- MODULE PolicyEngine ----------------------------
(***************************************************************************)
(* The issuer: evaluate_policy() of rclp_core/policy.py, followed by       *)
(* issue_lease() of rclp_core/leases.py when the decision is to allow, as  *)
(* demo_remote_assist.py calls them.  Several issuer processes share one   *)
(* durable RequestReplayCache.                                             *)
(*                                                                         *)
(* Granularity.  The clock is read once, when evaluate_policy() starts,    *)
(* and again by issue_lease().  The nonce is consumed in a transaction of  *)
(* its own; the decision, made with the clock value read before, is        *)
(* audited after it.  A process may stop between any two steps.            *)
(***************************************************************************)
EXTENDS PolicyRules

CONSTANTS
    Engine,        \* issuer processes that share the replay store
    Requests,      \* signed CapabilityRequests that may be delivered
    States,        \* RobotStateAssertions
    Assertions,    \* ControlPlaneReachabilityAssertions
    Policies,      \* policies the issuer may be called with
    Caches,        \* how the replay cache is set up: None, "volatile", "durable"
    IssuerId,      \* issuer_id of the leases
    MaxClock,      \* bound: the clock stops here
    MaxCalls       \* bound: calls delivered to all issuers together

ASSUME EngineAssumption ==
    /\ None \notin Requests \cup States \cup Assertions \cup Policies
    /\ MaxClock \in Nat
    /\ MaxCalls \in Nat

OptionalInt == Int \cup {None}

(* What the models accept: lifetimes are positive (Field(gt=0)), the       *)
(* measurements and limits are numbers, no field of a state is left out, a *)
(* policy names a fallback, and what is wrong with a request is something  *)
(* its checks look for.                                                    *)
ASSUME MessagesAssumption ==
    /\ \A r \in Requests :
          /\ r.duration \in Nat \ {0}
          /\ r.defects \subseteq
                {"PROTOCOL_VERSION_UNSUPPORTED"} \cup {RequestChecks[i] : i \in DOMAIN RequestChecks}
          /\ r.requested # None =>
                {r.requested.max_latency, r.requested.max_loss, r.requested.min_uplink,
                 r.requested.max_speed} \subseteq OptionalInt
    /\ \A s \in States :
          /\ {"robot", "edge", "mission", "stamps", "network", "geofence", "human_declared",
              "human_operator_available", "defects"} \subseteq DOMAIN s
          /\ {s.network.latency, s.network.loss, s.network.uplink} \subseteq Int
    /\ \A p \in Policies :
          /\ p.lease_ttl \in Nat \ {0}
          /\ {p.network.max_latency, p.network.max_loss, p.network.min_uplink,
              p.network.deny_latency, p.network.deny_loss, p.network.deny_uplink} \subseteq Int
          /\ p.max_speed \in OptionalInt
          /\ p.fallback.on_network_degrade # None

VARIABLES
    clock,
    calls,
    nonces,      \* durable: primary keys of request_replay_nonces
    up,
    work,        \* the call an issuer is handling
    decisions,   \* audited decisions of all issuers, in order
    issued       \* leases, in order, each with what it was granted for

vars == <<clock, calls, nonces, up, work, decisions, issued>>

-----------------------------------------------------------------------------
nonce_key(r) == <<r.ctx.agent, r.nonce>>

IdleWork == [pc |-> "idle", request |-> None, state |-> None, policy |-> None,
             assertion |-> None, now |-> 0]

EvaluateWork(r, s, p, a, now) ==
    [pc |-> "consume", request |-> r, state |-> s, policy |-> p, assertion |-> a, now |-> now]

Work == [pc : {"idle", "consume", "decide", "issue"},
         request : Requests \cup {None}, state : States \cup {None},
         policy : Policies \cup {None}, assertion : Assertions \cup {None}, now : 0..MaxClock]

At(e, pc) == up[e] /\ work[e].pc = pc
Goto(e, pc) == work' = [work EXCEPT ![e].pc = pc]
Return(e) == work' = [work EXCEPT ![e] = IdleWork]

\* The audit event of a decision; final decisions are those on a consumed nonce.
Decided(r, p, reason, final) ==
    [request |-> r, policy |-> p, decision |-> decision_of(reason), reason_code |-> reason,
     safe_alternatives |-> safe_alternatives(reason, p.fallback), final |-> final]

(* _evaluate_policy_inputs up to the replay store.  A request that fails   *)
(* here is denied and consumes nothing.                                    *)
EvaluatePolicy(e, r, s, p, a, cache) ==
    LET reason == request_violation(r, s, a, cache, clock)
    IN  /\ At(e, "idle")
        /\ calls < MaxCalls
        /\ calls' = calls + 1
        /\ \/ /\ reason # Valid
              /\ decisions' = Append(decisions, Decided(r, p, reason, FALSE))
              /\ UNCHANGED work
           \/ /\ reason = Valid
              /\ work' = [work EXCEPT ![e] = EvaluateWork(r, s, p, a, clock)]
              /\ UNCHANGED decisions
        /\ UNCHANGED <<clock, nonces, up, issued>>

has_seen_Never(r) == FALSE   \* mutant: INSERT OR IGNORE

\* The primary key of request_replay_nonces is taken.
has_seen(r) == nonce_key(r) \in nonces

\* RequestReplayCache.consume(): one insert, refused by the primary key.
Consume(e) ==
    LET r == work[e].request
        p == work[e].policy
    IN  /\ At(e, "consume")
        /\ \/ /\ has_seen(r)
              /\ decisions' = Append(decisions, Decided(r, p, "REQUEST_REPLAYED", FALSE))
              /\ Return(e)
              /\ UNCHANGED nonces
           \/ /\ ~has_seen(r)
              /\ nonces' = nonces \cup {nonce_key(r)}
              /\ Goto(e, "decide")
              /\ UNCHANGED decisions
        /\ UNCHANGED <<clock, calls, up, issued>>

\* The decision itself, with the clock value read when the call started, and its audit event.
Decide(e) ==
    LET w == work[e]
        reason == policy_violation(w.request, w.state, w.policy, w.assertion, w.now)
    IN  /\ At(e, "decide")
        /\ decisions' = Append(decisions, Decided(w.request, w.policy, reason, TRUE))
        /\ \/ reason = Valid /\ Goto(e, "issue")
           \/ reason # Valid /\ Return(e)
        /\ UNCHANGED <<clock, calls, nonces, up, issued>>

\* issue_lease() refuses a lifetime longer than the request asked for.
ttl_refused(r, p) == p.lease_ttl <= 0 \/ p.lease_ttl > r.duration

\* The lease that issue_lease() signs; its id and nonce are fresh UUIDs.
issue_lease(w, n, at) ==
    [lease_id |-> <<"lease", n>>, nonce |-> <<"lease_nonce", n>>, issuer |-> IssuerId,
     ctx |-> w.request.ctx, policy |-> w.policy.policy, issued_at |-> at,
     expires_at |-> at + w.policy.lease_ttl, defects |-> {},
     constraints |-> granted_constraints(w.request, w.state, w.policy)]

(* The caller asks for a lease of the policy's lifetime.  A ValueError     *)
(* leaves an allowed request, whose nonce is consumed, without a lease.    *)
IssueLease(e) ==
    LET w == work[e]
    IN  /\ At(e, "issue")
        /\ \/ /\ ttl_refused(w.request, w.policy)
              /\ UNCHANGED issued
           \/ /\ ~ttl_refused(w.request, w.policy)
              /\ issued' = Append(issued,
                    [lease |-> issue_lease(w, Len(issued) + 1, clock), request |-> w.request,
                     state |-> w.state, policy |-> w.policy, decided_at |-> w.now])
        /\ Return(e)
        /\ UNCHANGED <<clock, calls, nonces, up, decisions>>

\* SQLite gives up waiting for the lock: OperationalError leaves the call.
StoreBusy(e) ==
    /\ At(e, "consume")
    /\ Return(e)
    /\ UNCHANGED <<clock, calls, nonces, up, decisions, issued>>

Crash(e) ==
    /\ up[e]
    /\ up' = [up EXCEPT ![e] = FALSE]
    /\ Return(e)
    /\ UNCHANGED <<clock, calls, nonces, decisions, issued>>

\* RequestReplayCache(path) is opened again; the table keeps its rows.
Start(e) ==
    /\ ~up[e]
    /\ up' = [up EXCEPT ![e] = TRUE]
    /\ UNCHANGED <<clock, calls, nonces, work, decisions, issued>>

Tick ==
    /\ clock < MaxClock
    /\ clock' = clock + 1
    /\ UNCHANGED <<calls, nonces, up, work, decisions, issued>>

-----------------------------------------------------------------------------
Init ==
    /\ clock = 0
    /\ calls = 0
    /\ nonces = {}
    /\ up = [e \in Engine |-> FALSE]
    /\ work = [e \in Engine |-> IdleWork]
    /\ decisions = << >>
    /\ issued = << >>

EngineStep(e) ==
    \/ \E r \in Requests, s \in States, p \in Policies, a \in Assertions \cup {None}, cache \in Caches :
          EvaluatePolicy(e, r, s, p, a, cache)
    \/ Consume(e)
    \/ Decide(e)
    \/ IssueLease(e)
    \/ StoreBusy(e)
    \/ Crash(e)
    \/ Start(e)

Next == Tick \/ \E e \in Engine : EngineStep(e)

Spec == Init /\ [][Next]_vars

-----------------------------------------------------------------------------
(* Properties.                                                             *)

(* A call holds the messages that the point it has reached reads.          *)
WorkContext ==
    \A e \in Engine : work[e].pc # "idle" =>
        /\ work[e].request \in Requests
        /\ work[e].state \in States
        /\ work[e].policy \in Policies

(* Type invariant: the calls of evaluate_policy() and issue_lease() in     *)
(* progress have the shape the code gives them.                            *)
TypeOK ==
    /\ clock \in 0..MaxClock
    /\ calls \in 0..MaxCalls
    /\ nonces \subseteq {nonce_key(r) : r \in Requests}
    /\ up \in [Engine -> BOOLEAN]
    /\ work \in [Engine -> Work]
    /\ WorkContext

\* The nonce in the hands of e, and the nonces that were answered with a lease.
Holding(e) == work[e].pc \in {"decide", "issue"}
held_key(e) == nonce_key(work[e].request)
granted_key(i) == nonce_key(issued[i].request)

final_decisions == {k \in DOMAIN decisions : decisions[k].final}
decided_key(k) == nonce_key(decisions[k].request)

(* The replay store accounts for every decision: each nonce that was       *)
(* decided on, led to a lease, or may still do so, is in the store, and    *)
(* none is decided on or granted twice, over all issuers, crashes and      *)
(* redeliveries.  A request that was denied for a network that has         *)
(* recovered since, or whose issuer crashed, takes a new nonce.            *)
GrantOnce ==
    /\ \A e \in Engine : Holding(e) => held_key(e) \in nonces
    /\ \A i \in DOMAIN issued : granted_key(i) \in nonces
    /\ \A e, f \in Engine : e # f /\ Holding(e) /\ Holding(f) => held_key(e) # held_key(f)
    /\ \A e \in Engine, i \in DOMAIN issued : Holding(e) => held_key(e) # granted_key(i)
    /\ \A i, j \in DOMAIN issued : i # j => granted_key(i) # granted_key(j)
    /\ \A k \in final_decisions : decided_key(k) \in nonces
    /\ \A e \in Engine, k \in final_decisions : work[e].pc = "decide" => held_key(e) # decided_key(k)
    /\ \A k, m \in final_decisions : k # m => decided_key(k) # decided_key(m)

(* The ledger that the issuers implement: the nonce of an authentic        *)
(* request is one use, and it is such a request that holds it.             *)
Authentic(r) == r.defects = {}
AllUses == {{nonce_key(r)} : r \in {q \in Requests : Authentic(q)}}
PendingUses == {{held_key(e)} : e \in {f \in Engine : Holding(f) /\ Authentic(work[f].request)}}
AnsweredUses == [i \in DOMAIN issued |-> {granted_key(i)}]

Ledger == INSTANCE SingleUseLedger WITH
              Uses     <- AllUses,
              consumed <- nonces,
              pending  <- PendingUses,
              answered <- AnsweredUses

(* The issuers implement the same single-use ledger as the gates: a nonce  *)
(* is consumed once, before the decision, and answered by one lease at     *)
(* most; and it is an authentic request that consumes it.  A forgery that  *)
(* carries the nonce of a genuine request does not use it up.              *)
ImplementsLedger == Ledger!Spec

(* Every lease is within what its policy tells the edge to accept and      *)
(* within its request: the constraints the request asked for are narrower  *)
(* or equal, never broader; the lease lives no longer than the request     *)
(* asked for, nor the policy allows.                                       *)
IssuedWithinPolicy ==
    \A i \in DOMAIN issued :
        LET l == issued[i].lease
            r == issued[i].request
            p == issued[i].policy
        IN  /\ ~capability_constraints_exceed_bounds(l.constraints, policy_constraint_bounds(p))
            /\ l.expires_at - l.issued_at <= r.duration
            /\ r.duration <= p.lease_ttl
            /\ l.ctx = r.ctx
            /\ r.ctx.agent \in p.allowed_agents /\ r.ctx.robot \in p.allowed_robots

\* A call that ends after its request was allowed has appended the lease to issued.
EndsWithLease(e) ==
    work[e].pc = "issue" /\ work'[e].pc = "idle" /\ up'[e]
    => \E i \in DOMAIN issued' \ DOMAIN issued : issued'[i].request = work[e].request

(* docs/PROTOCOL_SPEC_DRAFT.md:282 says that an allow decision MUST        *)
(* include a CapabilityLease: an issuer that stays up ends the call of an  *)
(* allowed request with the lease of issue_lease().  The code does not: it *)
(* allows a request for less time than the policy's lifetime, consumes its *)
(* nonce, and issue_lease() then refuses it with a ValueError.             *)
AllowBringsLease == [][\A e \in Engine : EndsWithLease(e)]_vars

\* n is at least as bad as m in every measurement.
no_better(n, m) ==
    /\ n.latency >= m.latency /\ n.loss >= m.loss /\ n.uplink <= m.uplink
    /\ n.attached = m.attached /\ n.profile = m.profile

Rank(decision) == CASE decision = "deny" -> 0 [] decision = "degrade" -> 1 [] OTHER -> 2

(* A worse network never gets a better decision: whatever an issuer is     *)
(* about to decide, the same state with a measurement that is worse, and   *)
(* none that is better, would not be decided more favourably.  Two cases   *)
(* are left out.  A request for constraints that are too broad is denied   *)
(* when the network is good, but answered degrade when the network is      *)
(* degraded, because the network is looked at first.  A network that is    *)
(* malformed (a negative measurement, a loss above 100 percent) is denied  *)
(* whatever its values, so it cannot be compared with a worse one.         *)
WorseNetworkNoBetter ==
    \A e \in Engine : work[e].pc = "decide" =>
        LET w == work[e]
            decide(s) == Rank(decision_of(policy_violation(w.request, s, w.policy, w.assertion, w.now)))
            base == base_constraints(w.state, w.policy)
        IN  /\ requested_constraint_violation(base, w.request.requested) = Valid
            /\ ~network_state_malformed(w.state.network)
            => \A s \in States :
                   s = [w.state EXCEPT !.network = s.network] /\ no_better(s.network, w.state.network)
                   => decide(s) <= decide(w.state)
=============================================================================
