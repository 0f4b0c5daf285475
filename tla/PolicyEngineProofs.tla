------------------------- MODULE PolicyEngineProofs -------------------------
(***************************************************************************)
(* Type correctness of PolicyEngine, the single use of request nonces and  *)
(* the bounds on leases, for every value of the constants; and, in the     *)
(* last section, that what it issues is usable at an edge configured from  *)
(* the same policy.  Only that section cites the assumptions of            *)
(* PolicyGrants.                                                           *)
(***************************************************************************)
EXTENDS PolicyGrants, LeaseRulesProofs

(* The reasons a call of evaluate_policy() can end with, the audit events  *)
(* and the grants: what the two histories are sequences of.                *)
Reasons ==
    {request_violation(r, s, a, cache, now) :
        r \in Requests, s \in States, a \in Assertions \cup {None}, cache \in Caches, now \in 0..MaxClock}
    \cup {policy_violation(r, s, p, a, now) :
        r \in Requests, s \in States, p \in Policies, a \in Assertions \cup {None}, now \in 0..MaxClock}
    \cup {"REQUEST_REPLAYED"}

Events == [request : Requests, policy : Policies, decision : {decision_of(x) : x \in Reasons},
           reason_code : Reasons,
           safe_alternatives : {safe_alternatives(x, p.fallback) : x \in Reasons, p \in Policies},
           final : BOOLEAN]

Grant(w, n, at) ==
    [lease |-> issue_lease(w, n, at), request |-> w.request,
     state |-> w.state, policy |-> w.policy, decided_at |-> w.now]

Grants == {Grant(w, n, at) : w \in Work, n \in Nat, at \in 0..MaxClock}

Histories == decisions \in Seq(Events) /\ issued \in Seq(Grants)

TypeInv == TypeOK /\ Histories

(* Appending an element of the right type.                                 *)
LEMMA AppendType ==
    ASSUME NEW S, NEW q \in Seq(S), NEW x \in S
    PROVE  Append(q, x) \in Seq(S)
OBVIOUS

(* A decision with a known reason is an audit event.                       *)
LEMMA EventType ==
    ASSUME NEW r \in Requests, NEW p \in Policies, NEW reason \in Reasons, NEW final \in BOOLEAN
    PROVE  Decided(r, p, reason, final) \in Events
<1>1. /\ decision_of(reason) \in {decision_of(x) : x \in Reasons}
      /\ safe_alternatives(reason, p.fallback) \in
             {safe_alternatives(x, q.fallback) : x \in Reasons, q \in Policies}
    OBVIOUS
<1> QED
    BY <1>1 DEF Events, Decided

(* The reason of a decision on a consumed nonce is known.                  *)
LEMMA DecisionReason ==
    ASSUME NEW r \in Requests, NEW s \in States, NEW p \in Policies,
           NEW a \in Assertions \cup {None}, NEW now \in 0..MaxClock
    PROVE  policy_violation(r, s, p, a, now) \in Reasons
BY DEF Reasons

(* An idle issuer is well typed.                                           *)
LEMMA IdleWorkType == IdleWork \in Work
BY EngineAssumption DEF IdleWork, Work

(* An issuer that returns is idle; the others are as before.               *)
LEMMA ReturnWork ==
    ASSUME TypeOK, NEW e \in Engine, Return(e)
    PROVE  /\ work' \in [Engine -> Work]
           /\ work'[e] = IdleWork
           /\ \A f \in Engine : f # e => work'[f] = work[f]
           /\ WorkContext'
<1>1. /\ work' \in [Engine -> Work]
      /\ work'[e] = IdleWork
      /\ \A f \in Engine : f # e => work'[f] = work[f]
    BY IdleWorkType DEF TypeOK, Return
<1>2. WorkContext'
    BY <1>1 DEF TypeOK, WorkContext, IdleWork
<1> QED
    BY <1>1, <1>2

(* An issuer that moves on keeps the messages it holds.                    *)
LEMMA GotoWork ==
    ASSUME TypeOK, NEW e \in Engine, NEW pc \in {"decide", "issue"}, work[e].pc # "idle", Goto(e, pc)
    PROVE  /\ work' \in [Engine -> Work]
           /\ work'[e] = [work[e] EXCEPT !.pc = pc]
           /\ work'[e].pc = pc
           /\ work'[e].request = work[e].request
           /\ work'[e].state = work[e].state
           /\ \A f \in Engine : f # e => work'[f] = work[f]
           /\ WorkContext'
<1>1. work[e] \in Work
    BY DEF TypeOK
<1>2. /\ work'[e] = [work[e] EXCEPT !.pc = pc]
      /\ \A f \in Engine : f # e => work'[f] = work[f]
      /\ work' = [work EXCEPT ![e] = [work[e] EXCEPT !.pc = pc]]
    BY DEF TypeOK, Goto
<1>3. [work[e] EXCEPT !.pc = pc] \in Work
    BY <1>1 DEF Work
<1>4. work' \in [Engine -> Work]
    BY <1>2, <1>3 DEF TypeOK
<1>5. /\ work'[e].pc = pc
      /\ work'[e].request = work[e].request
      /\ work'[e].state = work[e].state
      /\ work'[e].policy = work[e].policy
    BY <1>1, <1>2 DEF Work
<1>6. WorkContext'
    BY <1>2, <1>5 DEF TypeOK, WorkContext
<1> QED
    BY <1>2, <1>4, <1>5, <1>6

(* The initial states have the right types.                                *)
LEMMA InitType == Init => TypeInv
BY IdleWorkType, EngineAssumption DEF Init, TypeInv, TypeOK, WorkContext, Histories, IdleWork

(* Every step keeps the types.                                             *)
LEMMA NextType == TypeInv /\ [Next]_vars => TypeInv'
<1> SUFFICES ASSUME TypeInv, [Next]_vars PROVE TypeInv'
    OBVIOUS
<1>0. TypeOK /\ Histories
    BY DEF TypeInv
<1>1. CASE UNCHANGED vars
    BY <1>1 DEF vars, TypeInv, TypeOK, WorkContext, Histories
<1>2. CASE Tick
    BY <1>2, EngineAssumption DEF Tick, TypeInv, TypeOK, WorkContext, Histories
<1>3. ASSUME NEW e \in Engine, NEW r \in Requests, NEW s \in States, NEW p \in Policies,
             NEW a \in Assertions \cup {None}, NEW cache \in Caches,
             EvaluatePolicy(e, r, s, p, a, cache)
      PROVE  TypeInv'
    <2> DEFINE reason == request_violation(r, s, a, cache, clock)
    <2>1. calls' \in 0..MaxCalls /\ UNCHANGED <<clock, nonces, up, issued>>
        BY <1>0, <1>3, EngineAssumption DEF EvaluatePolicy, TypeOK
    <2>2. reason \in Reasons
        BY <1>0 DEF Reasons, TypeOK
    <2>3. Decided(r, p, reason, FALSE) \in Events
        BY <2>2, EventType, Zenon
    <2>4. EvaluateWork(r, s, p, a, clock) \in Work
        BY <1>0 DEF EvaluateWork, Work, TypeOK
    <2>5. CASE /\ decisions' = Append(decisions, Decided(r, p, reason, FALSE))
               /\ UNCHANGED work
        <3>1. decisions' \in Seq(Events)
            BY <1>0, <2>3, <2>5, AppendType, Zenon DEF Histories
        <3> QED
            BY <1>0, <2>1, <2>5, <3>1 DEF TypeInv, TypeOK, WorkContext, Histories
    <2>6. CASE /\ work' = [work EXCEPT ![e] = EvaluateWork(r, s, p, a, clock)]
               /\ UNCHANGED decisions
        <3>1. /\ work' \in [Engine -> Work]
              /\ work'[e] = EvaluateWork(r, s, p, a, clock)
              /\ \A f \in Engine : f # e => work'[f] = work[f]
            BY <1>0, <2>4, <2>6 DEF TypeOK
        <3>2. WorkContext'
            BY <1>0, <3>1 DEF TypeOK, WorkContext, EvaluateWork
        <3> QED
            BY <1>0, <2>1, <2>6, <3>1, <3>2 DEF TypeInv, TypeOK, Histories
    <2> QED
        BY <1>3, <2>5, <2>6 DEF EvaluatePolicy
<1>4. ASSUME NEW e \in Engine, Consume(e) PROVE TypeInv'
    <2> DEFINE r == work[e].request
               p == work[e].policy
    <2>1. /\ work[e].pc = "consume"
          /\ r \in Requests /\ p \in Policies
          /\ UNCHANGED <<clock, calls, up, issued>>
        BY <1>0, <1>4 DEF Consume, At, TypeOK, WorkContext
    <2>2. CASE /\ decisions' = Append(decisions, Decided(r, p, "REQUEST_REPLAYED", FALSE))
               /\ Return(e)
               /\ UNCHANGED nonces
        <3>1. Decided(r, p, "REQUEST_REPLAYED", FALSE) \in Events
            <4>1. "REQUEST_REPLAYED" \in Reasons
                BY DEF Reasons
            <4> QED
                BY <2>1, <4>1, EventType, Zenon
        <3>2. decisions' \in Seq(Events)
            BY <1>0, <2>2, <3>1, AppendType, Zenon DEF Histories
        <3> QED
            BY <1>0, <2>1, <2>2, <3>2, ReturnWork DEF TypeInv, TypeOK, Histories
    <2>3. CASE /\ nonces' = nonces \cup {nonce_key(r)}
               /\ Goto(e, "decide")
               /\ UNCHANGED decisions
        <3>1. work' \in [Engine -> Work] /\ WorkContext'
            BY <1>0, <2>1, <2>3, GotoWork
        <3>2. nonces' \subseteq {nonce_key(q) : q \in Requests}
            BY <1>0, <2>1, <2>3 DEF TypeOK
        <3> QED
            BY <1>0, <2>1, <2>3, <3>1, <3>2 DEF TypeInv, TypeOK, Histories
    <2> QED
        BY <1>4, <2>2, <2>3 DEF Consume
<1>5. ASSUME NEW e \in Engine, Decide(e) PROVE TypeInv'
    <2> DEFINE w == work[e]
               reason == policy_violation(w.request, w.state, w.policy, w.assertion, w.now)
    <2>1. /\ w.pc = "decide" /\ w \in Work
          /\ w.request \in Requests /\ w.policy \in Policies /\ w.state \in States
          /\ UNCHANGED <<clock, calls, nonces, up, issued>>
        BY <1>0, <1>5 DEF Decide, At, TypeOK, WorkContext
    <2>2. w.assertion \in Assertions \cup {None} /\ w.now \in 0..MaxClock
        BY <2>1 DEF Work
    <2>3. Decided(w.request, w.policy, reason, TRUE) \in Events
        <3>1. reason \in Reasons
            BY <2>1, <2>2, DecisionReason, Zenon
        <3> QED
            BY <2>1, <3>1, EventType, Zenon
    <2>4. decisions' \in Seq(Events)
        BY <1>0, <1>5, <2>3, AppendType, Zenon DEF Decide, Histories
    <2>5. work' \in [Engine -> Work] /\ WorkContext'
        BY <1>0, <1>5, <2>1, ReturnWork, GotoWork DEF Decide
    <2> QED
        BY <1>0, <2>1, <2>4, <2>5 DEF TypeInv, TypeOK, Histories
<1>6. ASSUME NEW e \in Engine, IssueLease(e) PROVE TypeInv'
    <2> DEFINE w == work[e]
    <2>1. /\ w \in Work /\ Return(e)
          /\ UNCHANGED <<clock, calls, nonces, up, decisions>>
        BY <1>0, <1>6 DEF IssueLease, TypeOK
    <2>2. issued' = issued \/ issued' = Append(issued, Grant(w, Len(issued) + 1, clock))
        BY <1>6 DEF IssueLease, Grant
    <2>3. Len(issued) + 1 \in Nat /\ clock \in 0..MaxClock
        BY <1>0 DEF Histories, TypeOK
    <2>4. Grant(w, Len(issued) + 1, clock) \in Grants
        BY <2>1, <2>3 DEF Grants
    <2>5. issued' \in Seq(Grants)
        BY <1>0, <2>2, <2>4 DEF Histories
    <2> QED
        BY <1>0, <2>1, <2>5, ReturnWork DEF TypeInv, TypeOK, Histories
<1>7. ASSUME NEW e \in Engine, StoreBusy(e) \/ Crash(e) PROVE TypeInv'
    <2>1. Return(e) /\ up' \in [Engine -> BOOLEAN] /\ UNCHANGED <<clock, calls, nonces, decisions, issued>>
        BY <1>0, <1>7 DEF StoreBusy, Crash, TypeOK
    <2> QED
        BY <1>0, <2>1, ReturnWork DEF TypeInv, TypeOK, Histories
<1>8. ASSUME NEW e \in Engine, Start(e) PROVE TypeInv'
    BY <1>0, <1>8 DEF Start, TypeInv, TypeOK, WorkContext, Histories
<1> QED
    BY <1>1, <1>2, <1>3, <1>4, <1>5, <1>6, <1>7, <1>8 DEF Next, EngineStep

(* Type correctness of evaluate_policy() and issue_lease(): an issuer      *)
(* never reaches a point without the messages that the code reads there.   *)
THEOREM TypeCorrect == Spec => []TypeOK
<1>1. Spec => []TypeInv
    BY InitType, NextType, PTL DEF Spec
<1>2. TypeInv => TypeOK
    BY DEF TypeInv
<1> QED
    BY <1>1, <1>2, PTL
-----------------------------------------------------------------------------
(* The single use of nonces.                                               *)

(* An audit event for a request that consumed nothing adds no final        *)
(* decision.                                                               *)
LEMMA NonFinalEvent ==
    ASSUME Histories, NEW d, d.final = FALSE, decisions' = Append(decisions, d)
    PROVE  /\ final_decisions' = final_decisions
           /\ \A k \in final_decisions : decided_key(k)' = decided_key(k)
<1>1. /\ DOMAIN decisions' = 1..(Len(decisions) + 1)
      /\ DOMAIN decisions = 1..Len(decisions)
      /\ Len(decisions) \in Nat
      /\ decisions'[Len(decisions) + 1] = d
      /\ \A k \in DOMAIN decisions : decisions'[k] = decisions[k]
    BY DEF Histories
<1>2. ~decisions'[Len(decisions) + 1].final
    BY <1>1
<1>3. final_decisions' = final_decisions
    BY <1>1, <1>2 DEF final_decisions
<1>4. \A k \in final_decisions : decided_key(k)' = decided_key(k)
    BY <1>1 DEF final_decisions, decided_key
<1> QED
    BY <1>3, <1>4

(* A step that consumes, decides and grants nothing, in which no issuer    *)
(* comes to hold a nonce, keeps the single use.                            *)
LEMMA GrantFrame ==
    ASSUME GrantOnce, UNCHANGED <<nonces, issued>>,
           final_decisions' = final_decisions,
           \A k \in final_decisions : decided_key(k)' = decided_key(k),
           \A e \in Engine : work'[e] = work[e] \/ work'[e].pc \notin {"decide", "issue"}
    PROVE  GrantOnce'
<1>1. \A e \in Engine : Holding(e)' => work'[e] = work[e] /\ Holding(e) /\ held_key(e)' = held_key(e)
    BY DEF Holding, held_key
<1>2. \A i \in DOMAIN issued : granted_key(i)' = granted_key(i)
    BY DEF granted_key
<1>3. \A e \in Engine : work'[e].pc = "decide" => work[e].pc = "decide" /\ held_key(e)' = held_key(e)
    BY DEF held_key
<1> QED
    BY <1>1, <1>2, <1>3 DEF GrantOnce

(* The nonce that a transaction inserts was decided on and granted by      *)
(* nobody, and nobody holds it.                                            *)
LEMMA ConsumeOnce ==
    ASSUME TypeInv, GrantOnce, NEW e \in Engine, Consume(e)
    PROVE  GrantOnce'
<1>0. TypeOK /\ Histories
    BY DEF TypeInv
<1> DEFINE r == work[e].request
           key == nonce_key(r)
<1>1. work[e].pc = "consume" /\ UNCHANGED issued
    BY DEF Consume, At
<1>2. CASE /\ decisions' = Append(decisions, Decided(r, work[e].policy, "REQUEST_REPLAYED", FALSE))
           /\ Return(e)
           /\ UNCHANGED nonces
    <2>1. Decided(r, work[e].policy, "REQUEST_REPLAYED", FALSE).final = FALSE
        BY DEF Decided
    <2>2. /\ final_decisions' = final_decisions
          /\ \A k \in final_decisions : decided_key(k)' = decided_key(k)
        BY <1>0, <1>2, <2>1, NonFinalEvent
    <2>3. \A f \in Engine : work'[f] = work[f] \/ work'[f].pc \notin {"decide", "issue"}
        BY <1>0, <1>2, ReturnWork DEF IdleWork
    <2> QED
        BY <1>1, <1>2, <2>2, <2>3, GrantFrame
<1>3. CASE /\ ~has_seen(r)
           /\ nonces' = nonces \cup {key}
           /\ Goto(e, "decide")
           /\ UNCHANGED decisions
    <2>1. /\ work'[e].pc = "decide"
          /\ work'[e].request = r
          /\ \A f \in Engine : f # e => work'[f] = work[f]
        BY <1>0, <1>1, <1>3, GotoWork
    <2>2. key \notin nonces
        BY <1>3 DEF has_seen
    <2>3. held_key(e)' = key
        BY <2>1 DEF held_key
    <2>4. \A f \in Engine : f # e => /\ Holding(f)' = Holding(f)
                                     /\ held_key(f)' = held_key(f)
                                     /\ work'[f].pc = work[f].pc
        BY <2>1 DEF Holding, held_key
    <2>5. \A i \in DOMAIN issued : granted_key(i)' = granted_key(i)
        BY <1>1 DEF granted_key
    <2>6. final_decisions' = final_decisions /\ \A k \in final_decisions : decided_key(k)' = decided_key(k)
        BY <1>3 DEF final_decisions, decided_key
    <2> QED
        BY <1>1, <1>3, <2>1, <2>2, <2>3, <2>4, <2>5, <2>6 DEF GrantOnce
<1> QED
    BY <1>2, <1>3 DEF Consume

(* A decision turns the nonce an issuer holds into one that is decided on. *)
LEMMA DecideOnce ==
    ASSUME TypeInv, GrantOnce, NEW e \in Engine, Decide(e)
    PROVE  GrantOnce'
<1>0. TypeOK /\ Histories
    BY DEF TypeInv
<1> DEFINE w == work[e]
           d == Decided(w.request, w.policy,
                        policy_violation(w.request, w.state, w.policy, w.assertion, w.now), TRUE)
<1>n. PICK n \in Nat : n = Len(decisions) + 1
    BY <1>0 DEF Histories
<1>1. w.pc = "decide" /\ decisions' = Append(decisions, d) /\ UNCHANGED <<nonces, issued>>
    BY DEF Decide, At
<1>2. d.request = w.request
    BY DEF Decided
<1> HIDE DEF d
<1>3. /\ DOMAIN decisions' = 1..n
      /\ DOMAIN decisions = 1..(n - 1)
      /\ n \in Nat /\ n - 1 \in Nat
      /\ decisions'[n] = d
      /\ \A k \in DOMAIN decisions : decisions'[k] = decisions[k]
    BY <1>0, <1>1, <1>n DEF Histories
<1>4. /\ final_decisions' \subseteq final_decisions \cup {n}
      /\ \A k \in final_decisions : decided_key(k)' = decided_key(k) /\ k # n
      /\ decided_key(n)' = held_key(e)
    BY <1>2, <1>3 DEF final_decisions, decided_key, held_key
<1>5. /\ work'[e].pc # "decide"
      /\ Holding(e)' => held_key(e)' = held_key(e)
      /\ \A f \in Engine : f # e => work'[f] = work[f]
    <2>1. Return(e) \/ Goto(e, "issue")
        BY DEF Decide
    <2>2. CASE Return(e)
        BY <1>0, <2>2, ReturnWork DEF IdleWork, Holding
    <2>3. CASE Goto(e, "issue")
        BY <1>0, <1>1, <2>3, GotoWork DEF held_key
    <2> QED
        BY <2>1, <2>2, <2>3
<1>6. \A f \in Engine : f # e => Holding(f)' = Holding(f) /\ held_key(f)' = held_key(f)
    BY <1>5 DEF Holding, held_key
<1>7. \A i \in DOMAIN issued : granted_key(i)' = granted_key(i)
    BY <1>1 DEF granted_key
<1>8. Holding(e)
    BY <1>1 DEF Holding
<1>9. \A f \in Engine : f # e /\ work[f].pc = "decide" => Holding(f) /\ held_key(f) # held_key(e)
    BY <1>8 DEF GrantOnce, Holding
<1>10. \A f \in Engine, k \in final_decisions' : work'[f].pc = "decide" => held_key(f)' # decided_key(k)'
    BY <1>4, <1>5, <1>6, <1>9 DEF GrantOnce
<1>11. \A k, m \in final_decisions' : k # m => decided_key(k)' # decided_key(m)'
    BY <1>1, <1>4 DEF GrantOnce
<1>12. \A k \in final_decisions' : decided_key(k)' \in nonces
    BY <1>4, <1>8 DEF GrantOnce
<1> QED
    BY <1>1, <1>5, <1>6, <1>7, <1>8, <1>10, <1>11, <1>12 DEF GrantOnce

(* A lease turns the nonce an issuer holds into one that is granted.       *)
LEMMA IssueOnce ==
    ASSUME TypeInv, GrantOnce, NEW e \in Engine, IssueLease(e)
    PROVE  GrantOnce'
<1>0. TypeOK /\ Histories
    BY DEF TypeInv
<1>n. PICK n \in Nat : n = Len(issued) + 1
    BY <1>0 DEF Histories
<1> DEFINE w == work[e]
           x == Grant(w, n, clock)
<1>1. w.pc = "issue" /\ Return(e) /\ UNCHANGED <<nonces, decisions>>
    BY DEF IssueLease, At
<1>2. /\ ~Holding(e)' /\ work'[e].pc # "decide"
      /\ \A f \in Engine : f # e => work'[f] = work[f]
    BY <1>0, <1>1, ReturnWork DEF IdleWork, Holding
<1>3. /\ final_decisions' = final_decisions
      /\ \A k \in final_decisions : decided_key(k)' = decided_key(k)
    BY <1>1 DEF final_decisions, decided_key
<1>4. \A f \in Engine : f # e => Holding(f)' = Holding(f) /\ held_key(f)' = held_key(f)
    BY <1>2 DEF Holding, held_key
<1>5. CASE UNCHANGED issued
    BY <1>1, <1>2, <1>3, <1>5, GrantFrame DEF Holding
<1>6. CASE issued' = Append(issued, x)
    <2>1. x.request = w.request
        BY DEF Grant
    <2> HIDE DEF x
    <2>2. /\ DOMAIN issued' = 1..n /\ DOMAIN issued = 1..(n - 1)
          /\ n \in Nat /\ n - 1 \in Nat
          /\ issued'[n] = x
          /\ \A i \in DOMAIN issued : issued'[i] = issued[i]
        BY <1>0, <1>6, <1>n DEF Histories
    <2>3. /\ DOMAIN issued' = DOMAIN issued \cup {n}
          /\ \A i \in DOMAIN issued : granted_key(i)' = granted_key(i)
          /\ granted_key(n)' = held_key(e)
        BY <2>1, <2>2 DEF granted_key, held_key
    <2>4. Holding(e)
        BY <1>1 DEF Holding
    <2>5. \A i, j \in DOMAIN issued' : i # j => granted_key(i)' # granted_key(j)'
        BY <2>3, <2>4 DEF GrantOnce
    <2>6. \A f \in Engine, i \in DOMAIN issued' : Holding(f)' => held_key(f)' # granted_key(i)'
        BY <1>2, <1>4, <2>3, <2>4 DEF GrantOnce
    <2>7. \A i \in DOMAIN issued' : granted_key(i)' \in nonces
        BY <2>3, <2>4 DEF GrantOnce
    <2>8. /\ \A f \in Engine : Holding(f)' => held_key(f)' \in nonces
          /\ \A f, g \in Engine : f # g /\ Holding(f)' /\ Holding(g)' => held_key(f)' # held_key(g)'
        BY <1>2, <1>4 DEF GrantOnce
    <2>9. \A f \in Engine, k \in final_decisions : work'[f].pc = "decide" => held_key(f)' # decided_key(k)
        BY <1>2, <1>4 DEF GrantOnce
    <2> QED
        BY <1>1, <1>3, <2>5, <2>6, <2>7, <2>8, <2>9 DEF GrantOnce
<1> QED
    BY <1>n, <1>5, <1>6 DEF IssueLease, Grant

(* Every step of the issuers keeps the single use of nonces.               *)
LEMMA NextGrant == TypeInv /\ GrantOnce /\ [Next]_vars => GrantOnce'
<1> SUFFICES ASSUME TypeInv, GrantOnce, [Next]_vars PROVE GrantOnce'
    OBVIOUS
<1>0. TypeOK /\ Histories
    BY DEF TypeInv
<1>1. CASE UNCHANGED decisions /\ UNCHANGED <<nonces, issued, work>>
    BY <1>1, GrantFrame DEF final_decisions, decided_key
<1>2. ASSUME NEW e \in Engine, NEW r \in Requests, NEW s \in States, NEW p \in Policies,
             NEW a \in Assertions \cup {None}, NEW cache \in Caches,
             EvaluatePolicy(e, r, s, p, a, cache)
      PROVE  GrantOnce'
    <2> DEFINE d == Decided(r, p, request_violation(r, s, a, cache, clock), FALSE)
    <2>1. d.final = FALSE
        BY DEF Decided
    <2> HIDE DEF d
    <2>2. CASE decisions' = Append(decisions, d) /\ UNCHANGED work
        BY <1>0, <1>2, <2>1, <2>2, NonFinalEvent, GrantFrame DEF EvaluatePolicy
    <2>3. CASE work' = [work EXCEPT ![e] = EvaluateWork(r, s, p, a, clock)] /\ UNCHANGED decisions
        <3>1. \A f \in Engine : work'[f] = work[f] \/ work'[f].pc \notin {"decide", "issue"}
            BY <1>0, <2>3 DEF TypeOK, EvaluateWork
        <3> QED
            BY <1>2, <2>3, <3>1, GrantFrame DEF EvaluatePolicy, final_decisions, decided_key
    <2> QED
        BY <1>2, <2>2, <2>3 DEF EvaluatePolicy, d
<1>3. ASSUME NEW e \in Engine, StoreBusy(e) \/ Crash(e) PROVE GrantOnce'
    <2>1. Return(e) /\ UNCHANGED <<nonces, decisions, issued>>
        BY <1>3 DEF StoreBusy, Crash
    <2>2. \A f \in Engine : work'[f] = work[f] \/ work'[f].pc \notin {"decide", "issue"}
        BY <1>0, <2>1, ReturnWork DEF IdleWork
    <2> QED
        BY <2>1, <2>2, GrantFrame DEF final_decisions, decided_key
<1> QED
    BY <1>1, <1>2, <1>3, ConsumeOnce, DecideOnce, IssueOnce
       DEF Next, EngineStep, Tick, Start, vars

(* No request nonce is decided on twice or leads to two leases, whatever   *)
(* the interleaving of the issuers that share the store and wherever they  *)
(* crash.                                                                  *)
THEOREM GrantOnceHolds == Spec => []GrantOnce
<1>1. Init => GrantOnce
    BY DEF Init, GrantOnce, Holding, IdleWork, final_decisions
<1>2. Spec => []TypeInv
    BY InitType, NextType, PTL DEF Spec
<1> QED
    BY <1>1, <1>2, NextGrant, PTL DEF Spec
-----------------------------------------------------------------------------
(* Authentic requests.                                                     *)

(* A request that reaches the replay store is authentic: every defect a    *)
(* request can have is looked for before.  So is the version of the state. *)
LEMMA CheckedIsAuthentic ==
    ASSUME NEW r \in Requests, NEW s, NEW a, NEW cache, NEW now,
           request_violation(r, s, a, cache, now) = Valid
    PROVE  r.defects = {} /\ "PROTOCOL_VERSION_UNSUPPORTED" \notin s.defects
<1> DEFINE version == \E m \in {r, s} \cup ({a} \ {None}) : "PROTOCOL_VERSION_UNSUPPORTED" \in m.defects
           ladder == <<
        <<version, "PROTOCOL_VERSION_UNSUPPORTED">>,
        Sub(request_time_violation(r, now)),
        Sub(request_auth_violation(r)),
        <<cache = None, "REQUEST_REPLAY_CACHE_REQUIRED">>,
        <<cache = "volatile", "REQUEST_REPLAY_STORE_DURABLE_REQUIRED">> >>
           static == Static(r, RequestChecks)
<1>1. FirstViolation(ladder) = Valid
    BY Zenon DEF request_violation
<1> HIDE DEF version
<1>2. DOMAIN ladder = 1..5
    OBVIOUS
<1>3. \A i \in DOMAIN ladder : ladder[i][1] => ladder[i][2] # Valid
    BY <1>2, SubClear DEF Valid
<1>4. ladder[1][1] = version /\ ladder[3] = Sub(request_auth_violation(r))
    OBVIOUS
<1> HIDE DEF ladder
<1>5. ~ladder[1][1] /\ ~ladder[3][1]
    BY <1>1, <1>2, <1>3, LadderClear
<1>6. ~version /\ request_auth_violation(r) = Valid
    BY <1>4, <1>5, SubHolds
<1>7. "PROTOCOL_VERSION_UNSUPPORTED" \notin r.defects \cup s.defects
    BY <1>6 DEF version
<1>8. FirstViolation(static) = Valid
    BY <1>6, Zenon DEF request_auth_violation
<1>9. DOMAIN RequestChecks = 1..9 /\ \A i \in 1..9 : RequestChecks[i] # Valid
    BY DEF RequestChecks, Valid
<1>10. /\ DOMAIN static = 1..9
       /\ \A i \in 1..9 : static[i][1] = (RequestChecks[i] \in r.defects) /\ static[i][2] = RequestChecks[i]
    BY <1>9 DEF Static
<1> HIDE DEF static
<1>11. \A i \in 1..9 : ~static[i][1]
    BY <1>8, <1>9, <1>10, LadderClear
<1>12. \A i \in 1..9 : RequestChecks[i] \notin r.defects
    BY <1>10, <1>11
<1>13. r.defects \subseteq
          {"PROTOCOL_VERSION_UNSUPPORTED"} \cup {RequestChecks[i] : i \in DOMAIN RequestChecks}
    BY MessagesAssumption
<1> QED
    BY <1>7, <1>9, <1>12, <1>13

(* A call past the first checks holds an authentic request, and a state of *)
(* this protocol version.                                                  *)
AuthenticWork ==
    \A e \in Engine : work[e].pc # "idle" =>
        /\ work[e].request.defects = {}
        /\ "PROTOCOL_VERSION_UNSUPPORTED" \notin work[e].state.defects

(* Every step keeps the messages in hand so.                               *)
LEMMA NextAuthentic == TypeInv /\ AuthenticWork /\ [Next]_vars => AuthenticWork'
<1> SUFFICES ASSUME TypeInv, AuthenticWork, [Next]_vars PROVE AuthenticWork'
    OBVIOUS
<1>0. TypeOK
    BY DEF TypeInv
<1>1. CASE UNCHANGED work
    BY <1>1 DEF AuthenticWork
<1>2. ASSUME NEW e \in Engine, NEW r \in Requests, NEW s \in States, NEW p \in Policies,
             NEW a \in Assertions \cup {None}, NEW cache \in Caches,
             EvaluatePolicy(e, r, s, p, a, cache)
      PROVE  AuthenticWork'
    <2>1. CASE /\ request_violation(r, s, a, cache, clock) = Valid
               /\ work' = [work EXCEPT ![e] = EvaluateWork(r, s, p, a, clock)]
        <3>1. r.defects = {} /\ "PROTOCOL_VERSION_UNSUPPORTED" \notin s.defects
            BY <2>1, CheckedIsAuthentic
        <3>2. /\ work'[e] = EvaluateWork(r, s, p, a, clock)
              /\ \A f \in Engine : f # e => work'[f] = work[f]
            BY <1>0, <2>1 DEF TypeOK
        <3> QED
            BY <3>1, <3>2 DEF AuthenticWork, EvaluateWork
    <2> QED
        BY <1>1, <1>2, <2>1 DEF EvaluatePolicy
<1>3. ASSUME NEW e \in Engine, Return(e) PROVE AuthenticWork'
    BY <1>0, <1>3, ReturnWork DEF AuthenticWork, IdleWork
<1>4. ASSUME NEW e \in Engine, NEW pc \in {"decide", "issue"}, work[e].pc # "idle", Goto(e, pc)
      PROVE  AuthenticWork'
    BY <1>0, <1>4, GotoWork DEF AuthenticWork
<1>5. ASSUME NEW e \in Engine, Consume(e) \/ Decide(e) PROVE AuthenticWork'
    BY <1>3, <1>4, <1>5 DEF Consume, Decide, At
<1>6. ASSUME NEW e \in Engine, IssueLease(e) \/ StoreBusy(e) \/ Crash(e) PROVE AuthenticWork'
    BY <1>3, <1>6 DEF IssueLease, StoreBusy, Crash
<1> QED
    BY <1>1, <1>2, <1>5, <1>6 DEF Next, EngineStep, Tick, Start, vars

(* So they are in every reachable state.                                   *)
LEMMA WorkAuthentic == Spec => []AuthenticWork
<1>1. Init => AuthenticWork
    BY DEF Init, AuthenticWork, IdleWork
<1>2. Spec => []TypeInv
    BY InitType, NextType, PTL DEF Spec
<1> QED
    BY <1>1, <1>2, NextAuthentic, PTL DEF Spec

-----------------------------------------------------------------------------
(* What a lease is within.                                                 *)

(* What evaluate_policy() allowing a request establishes: none of the      *)
(* twenty-one checks of its ladder is violated.                            *)
LEMMA PolicyChecks ==
    ASSUME NEW r, NEW s, NEW p, NEW a, NEW now, policy_violation(r, s, p, a, now) = Valid
    PROVE  \A i \in 1..21 : ~policy_checks(r, s, p, a, now)[i][1]
<1> DEFINE ladder == policy_checks(r, s, p, a, now)
<1>1. FirstViolation(ladder) = Valid
    BY Zenon DEF policy_violation
<1>2. DOMAIN ladder = 1..21
    BY DEF policy_checks
<1>3. \A i \in DOMAIN ladder : ladder[i][1] => ladder[i][2] # Valid
    BY <1>2, SubClear DEF policy_checks, Valid
<1> HIDE DEF ladder
<1>4. \A i \in 1..21 : ~ladder[i][1]
    BY <1>1, <1>2, <1>3, LadderClear
<1> QED
    BY <1>4 DEF ladder

(* The facts of an allowed request that its lease rests on.                *)
LEMMA AllowedRequest ==
    ASSUME NEW r, NEW s, NEW p, NEW a, NEW now, policy_violation(r, s, p, a, now) = Valid
    PROVE  /\ ~(r.duration > p.lease_ttl)
           /\ r.ctx.agent \in p.allowed_agents
           /\ r.ctx.robot \in p.allowed_robots
           /\ p.geofence_required => s.geofence.id = p.geofence_id
           /\ requested_constraint_violation(base_constraints(s, p), r.requested) = Valid
<1> DEFINE ladder == policy_checks(r, s, p, a, now)
<1>1. \A i \in 1..21 : ~ladder[i][1]
    BY PolicyChecks
<1>2. /\ ladder[4][1] = (r.duration > p.lease_ttl)
      /\ ladder[5][1] = (r.ctx.agent \notin p.allowed_agents)
      /\ ladder[7][1] = (r.ctx.robot \notin p.allowed_robots)
      /\ ladder[18][1] = (p.geofence_required /\ (\/ s.geofence.id # p.geofence_id
                                                  \/ s.geofence.inside # p.geofence_allowed))
      /\ ladder[21] = Sub(requested_constraint_violation(base_constraints(s, p), r.requested))
    BY DEF policy_checks
<1> HIDE DEF ladder
<1>3. ~ladder[4][1] /\ ~ladder[5][1] /\ ~ladder[7][1] /\ ~ladder[18][1] /\ ~ladder[21][1]
    BY <1>1
<1>4. requested_constraint_violation(base_constraints(s, p), r.requested) = Valid
    BY <1>2, <1>3, SubHolds
<1> QED
    BY <1>2, <1>3, <1>4, Zenon

(* A request that asks for no constraint broader than the policy's.        *)
LEMMA NarrowRequest ==
    ASSUME NEW base, NEW q, q # None, requested_constraint_violation(base, q) = Valid
    PROVE  /\ q.geofence_id # None => q.geofence_id = base.geofence_id
           /\ ~maximum_constraint_too_broad(q.max_latency, base.max_latency)
           /\ ~maximum_constraint_too_broad(q.max_loss, base.max_loss)
           /\ ~minimum_constraint_too_broad(q.min_uplink, base.min_uplink)
           /\ q.fallback_set => q.fallback = base.fallback
           /\ ~maximum_constraint_too_broad(q.max_speed, base.max_speed)
<1> DEFINE broad == \/ maximum_constraint_too_broad(q.max_latency, base.max_latency)
                    \/ maximum_constraint_too_broad(q.max_loss, base.max_loss)
                    \/ minimum_constraint_too_broad(q.min_uplink, base.min_uplink)
           fast == maximum_constraint_too_broad(q.max_speed, base.max_speed)
           ladder == <<
            <<q.geofence_id # None /\ q.geofence_id # base.geofence_id, "REQUESTED_GEOFENCE_NOT_ALLOWED">>,
            <<broad, "REQUESTED_CONSTRAINTS_TOO_BROAD">>,
            <<q.fallback_set /\ q.fallback # base.fallback, "REQUESTED_FALLBACK_CONFLICT">>,
            <<fast, "REQUESTED_CONSTRAINTS_TOO_BROAD">> >>
<1>1. FirstViolation(ladder) = Valid
    BY Zenon DEF requested_constraint_violation
<1> HIDE DEF broad, fast
<1>2. DOMAIN ladder = 1..4
    OBVIOUS
<1>3. \A i \in DOMAIN ladder : ladder[i][2] # Valid
    BY <1>2 DEF Valid
<1>4. /\ ladder[1][1] = (q.geofence_id # None /\ q.geofence_id # base.geofence_id)
      /\ ladder[2][1] = broad
      /\ ladder[3][1] = (q.fallback_set /\ q.fallback # base.fallback)
      /\ ladder[4][1] = fast
    OBVIOUS
<1> HIDE DEF ladder
<1>5. ~ladder[1][1] /\ ~ladder[2][1] /\ ~ladder[3][1] /\ ~ladder[4][1]
    BY <1>1, <1>2, <1>3, LadderClear
<1>6. ~broad /\ ~fast
    BY <1>4, <1>5, Zenon
<1> QED
    BY <1>4, <1>5, <1>6, Zenon DEF broad, fast

(* A field that is not too broad, or is left out, stays on its side of the *)
(* policy's bound.                                                         *)
LEMMA NarrowedField ==
    ASSUME NEW v \in OptionalInt, NEW bound \in OptionalInt
    PROVE  /\ ~maximum_constraint_too_broad(v, bound)
               => ~max_field_exceeds_policy(narrowed(v, bound), bound)
           /\ ~minimum_constraint_too_broad(v, bound)
               => ~min_field_exceeds_policy(narrowed(v, bound), bound)
           /\ ~max_field_exceeds_policy(bound, bound)
           /\ ~min_field_exceeds_policy(bound, bound)
BY DEF OptionalInt, maximum_constraint_too_broad, minimum_constraint_too_broad, narrowed,
       max_field_exceeds_policy, min_field_exceeds_policy

(* The constraints granted to an allowed request are within the bounds     *)
(* that the same policy gives the edge.                                    *)
LEMMA GrantedWithinBounds ==
    ASSUME NEW r \in Requests, NEW s \in States, NEW p \in Policies, NEW a, NEW now,
           policy_violation(r, s, p, a, now) = Valid
    PROVE  ~capability_constraints_exceed_bounds(granted_constraints(r, s, p), policy_constraint_bounds(p))
<1> DEFINE base == base_constraints(s, p)
           b == policy_constraint_bounds(p)
           q == r.requested
           c == granted_constraints(r, s, p)
<1>1. /\ p.geofence_required => s.geofence.id = p.geofence_id
      /\ requested_constraint_violation(base, q) = Valid
    BY AllowedRequest
<1>2. /\ base.geofence_id = s.geofence.id
      /\ base.max_latency = p.network.max_latency
      /\ base.max_loss = p.network.max_loss
      /\ base.min_uplink = p.network.min_uplink
      /\ base.max_speed = p.max_speed
      /\ base.fallback = p.fallback.on_network_degrade
    BY DEF base_constraints
<1>3. /\ b.geofence_id # None => b.geofence_id = base.geofence_id
      /\ b.max_latency = base.max_latency
      /\ b.max_loss = base.max_loss
      /\ b.min_uplink = base.min_uplink
      /\ b.max_speed = base.max_speed
      /\ b.fallback = base.fallback
    BY <1>1, <1>2 DEF policy_constraint_bounds
<1>4. /\ {base.max_latency, base.max_loss, base.min_uplink, base.max_speed} \subseteq OptionalInt
      /\ base.fallback # None
    BY <1>2, MessagesAssumption DEF OptionalInt
<1>5. CASE q = None
    <2>1. c = base
        BY <1>5 DEF granted_constraints, apply_requested_constraints
    <2> HIDE DEF base, b, c
    <2>2. /\ ~max_field_exceeds_policy(c.max_latency, b.max_latency)
          /\ ~max_field_exceeds_policy(c.max_loss, b.max_loss)
          /\ ~min_field_exceeds_policy(c.min_uplink, b.min_uplink)
          /\ ~max_field_exceeds_policy(c.max_speed, b.max_speed)
        BY <1>3, <1>4, <2>1, NarrowedField
    <2>3. ~capability_constraints_exceed_bounds(c, b)
        BY <1>3, <1>4, <2>1, <2>2 DEF capability_constraints_exceed_bounds
    <2> QED
        BY <2>3 DEF b, c
<1>6. CASE q # None
    <2>1. /\ c.geofence_id = narrowed(q.geofence_id, base.geofence_id)
          /\ c.max_latency = narrowed(q.max_latency, base.max_latency)
          /\ c.max_loss = narrowed(q.max_loss, base.max_loss)
          /\ c.min_uplink = narrowed(q.min_uplink, base.min_uplink)
          /\ c.max_speed = narrowed(q.max_speed, base.max_speed)
          /\ c.fallback = IF q.fallback_set THEN q.fallback ELSE base.fallback
        BY <1>6 DEF granted_constraints, apply_requested_constraints, base_constraints
    <2>2. {q.max_latency, q.max_loss, q.min_uplink, q.max_speed} \subseteq OptionalInt
        BY <1>6, MessagesAssumption
    <2> HIDE DEF base, b, c, q
    <2>3. /\ q.geofence_id # None => q.geofence_id = base.geofence_id
          /\ ~maximum_constraint_too_broad(q.max_latency, base.max_latency)
          /\ ~maximum_constraint_too_broad(q.max_loss, base.max_loss)
          /\ ~minimum_constraint_too_broad(q.min_uplink, base.min_uplink)
          /\ q.fallback_set => q.fallback = base.fallback
          /\ ~maximum_constraint_too_broad(q.max_speed, base.max_speed)
        BY <1>1, <1>6, NarrowRequest
    <2>4. /\ ~max_field_exceeds_policy(c.max_latency, b.max_latency)
          /\ ~max_field_exceeds_policy(c.max_loss, b.max_loss)
          /\ ~min_field_exceeds_policy(c.min_uplink, b.min_uplink)
          /\ ~max_field_exceeds_policy(c.max_speed, b.max_speed)
        BY <1>3, <1>4, <2>1, <2>2, <2>3, NarrowedField
    <2>5. c.geofence_id = base.geofence_id /\ c.fallback = base.fallback
        BY <2>1, <2>3 DEF narrowed
    <2>6. ~capability_constraints_exceed_bounds(c, b)
        BY <1>3, <1>4, <2>4, <2>5 DEF capability_constraints_exceed_bounds
    <2> QED
        BY <2>6 DEF b, c
<1> QED
    BY <1>5, <1>6

(* What policy_violation() says of the call w.                             *)
Verdict(w) == policy_violation(w.request, w.state, w.policy, w.assertion, w.now)

(* Past its decision, an issuer holds a request that the policy allows at  *)
(* the moment the call began, which is not after the present.              *)
AllowedWork ==
    \A e \in Engine :
        /\ work[e].now <= clock
        /\ work[e].pc = "issue" => Verdict(work[e]) = Valid

\* Lease number n goes back to the call w, which was allowed before the lease was issued.
Grounds(x, n, w, at) ==
    /\ x = Grant(w, n, at)
    /\ w.request \in Requests /\ w.state \in States /\ w.policy \in Policies
    /\ "PROTOCOL_VERSION_UNSUPPORTED" \notin w.state.defects
    /\ w.now <= at
    /\ Verdict(w) = Valid
    /\ ~ttl_refused(w.request, w.policy)

(* Every lease goes back to a call of evaluate_policy() that was allowed.  *)
GroundedLeases ==
    \A i \in DOMAIN issued : \E w \in Work, at \in 0..MaxClock : Grounds(issued[i], i, w, at)

(* A step that issues nothing and leaves every issuer where it is, or      *)
(* before its decision, with the same call, keeps the grounds.             *)
LEMMA GroundsFrame ==
    ASSUME TypeOK, AllowedWork, GroundedLeases, UNCHANGED issued,
           clock' \in Int, clock <= clock',
           \A e \in Engine : \/ work'[e] = work[e]
                             \/ work'[e].now <= clock' /\ work'[e].pc # "issue"
    PROVE  AllowedWork' /\ GroundedLeases'
<1>1. clock \in Int /\ \A e \in Engine : work[e].now \in Int
    BY DEF TypeOK, Work
<1>2. ASSUME NEW e \in Engine
      PROVE  work'[e].now <= clock' /\ (work'[e].pc = "issue" => Verdict(work[e])' = Valid)
    <2>1. CASE work'[e] = work[e]
        <3>1. Verdict(work[e])' = Verdict(work[e])
            BY <2>1 DEF Verdict
        <3>2. work[e].now <= clock /\ (work[e].pc = "issue" => Verdict(work[e]) = Valid)
            BY DEF AllowedWork
        <3> QED
            BY <1>1, <2>1, <3>1, <3>2
    <2>2. CASE work'[e].now <= clock' /\ work'[e].pc # "issue"
        BY <2>2
    <2> QED
        BY <2>1, <2>2
<1>3. AllowedWork'
    BY <1>2 DEF AllowedWork
<1>4. GroundedLeases'
    BY DEF GroundedLeases
<1> QED
    BY <1>3, <1>4

(* Every step keeps the grounds of the leases.                             *)
LEMMA NextGrounds ==
    TypeInv /\ AuthenticWork /\ AllowedWork /\ GroundedLeases /\ [Next]_vars
        => AllowedWork' /\ GroundedLeases'
<1> SUFFICES ASSUME TypeInv, AuthenticWork, AllowedWork, GroundedLeases, [Next]_vars
             PROVE  AllowedWork' /\ GroundedLeases'
    OBVIOUS
<1>0. TypeOK /\ Histories /\ clock \in 0..MaxClock /\ MaxClock \in Nat
    BY EngineAssumption DEF TypeInv, TypeOK
<1>1. CASE UNCHANGED <<issued, work, clock>>
    BY <1>0, <1>1, GroundsFrame
<1>2. CASE Tick
    BY <1>0, <1>2, GroundsFrame DEF Tick
<1>3. ASSUME NEW e \in Engine, NEW r \in Requests, NEW s \in States, NEW p \in Policies,
             NEW a \in Assertions \cup {None}, NEW cache \in Caches,
             EvaluatePolicy(e, r, s, p, a, cache)
      PROVE  AllowedWork' /\ GroundedLeases'
    <2>1. UNCHANGED <<clock, issued>>
        BY <1>3 DEF EvaluatePolicy
    <2>2. \A f \in Engine : \/ work'[f] = work[f]
                            \/ work'[f].now <= clock' /\ work'[f].pc # "issue"
        <3>1. CASE UNCHANGED work
            BY <3>1
        <3>2. CASE work' = [work EXCEPT ![e] = EvaluateWork(r, s, p, a, clock)]
            <4>1. /\ work'[e] = EvaluateWork(r, s, p, a, clock)
                  /\ \A f \in Engine : f # e => work'[f] = work[f]
                BY <1>0, <3>2 DEF TypeOK
            <4>2. work'[e].now = clock /\ work'[e].pc = "consume"
                BY <4>1 DEF EvaluateWork
            <4> QED
                BY <1>0, <2>1, <4>1, <4>2
        <3> QED
            BY <1>3, <3>1, <3>2 DEF EvaluatePolicy
    <2> QED
        BY <1>0, <2>1, <2>2, GroundsFrame
<1>4. ASSUME NEW e \in Engine, Return(e), UNCHANGED <<clock, issued>>
      PROVE  AllowedWork' /\ GroundedLeases'
    <2>1. \A f \in Engine : \/ work'[f] = work[f]
                            \/ work'[f].now <= clock' /\ work'[f].pc # "issue"
        BY <1>0, <1>4, ReturnWork DEF IdleWork
    <2> QED
        BY <1>0, <1>4, <2>1, GroundsFrame
<1>5. ASSUME NEW e \in Engine, Consume(e) PROVE AllowedWork' /\ GroundedLeases'
    <2>1. UNCHANGED <<clock, issued>> /\ work[e].pc = "consume" /\ work[e] \in Work
        BY <1>0, <1>5 DEF Consume, At, TypeOK
    <2>2. CASE Return(e)
        BY <1>4, <2>1, <2>2
    <2>3. CASE Goto(e, "decide")
        <3>1. /\ work'[e] = [work[e] EXCEPT !.pc = "decide"]
              /\ \A f \in Engine : f # e => work'[f] = work[f]
            BY <1>0, <2>1, <2>3, GotoWork
        <3>2. work'[e].now = work[e].now /\ work'[e].pc = "decide"
            BY <2>1, <3>1 DEF Work
        <3>3. work'[e].now <= clock'
            BY <2>1, <3>2 DEF AllowedWork
        <3> QED
            <4>1. \A f \in Engine : \/ work'[f] = work[f]
                                    \/ work'[f].now <= clock' /\ work'[f].pc # "issue"
                BY <3>1, <3>2, <3>3
            <4>2. clock' \in Int /\ clock <= clock'
                BY <1>0, <2>1
            <4> QED
                BY <1>0, <2>1, <4>1, <4>2, GroundsFrame
    <2> QED
        BY <1>5, <2>2, <2>3 DEF Consume
<1>6. ASSUME NEW e \in Engine, Decide(e) PROVE AllowedWork' /\ GroundedLeases'
    <2>1. UNCHANGED <<clock, issued>> /\ work[e].pc = "decide" /\ work[e] \in Work
        BY <1>0, <1>6 DEF Decide, At, TypeOK
    <2>2. CASE Return(e)
        BY <1>4, <2>1, <2>2
    <2>3. CASE Verdict(work[e]) = Valid /\ Goto(e, "issue")
        <3>1. /\ work'[e] = [work[e] EXCEPT !.pc = "issue"]
              /\ \A f \in Engine : f # e => work'[f] = work[f]
            BY <1>0, <2>1, <2>3, GotoWork
        <3>2. /\ work'[e].request = work[e].request
              /\ work'[e].state = work[e].state
              /\ work'[e].policy = work[e].policy
              /\ work'[e].assertion = work[e].assertion
              /\ work'[e].now = work[e].now
            BY <2>1, <3>1 DEF Work
        <3>3. Verdict(work[e])' = Valid
            BY <2>3, <3>2, Zenon DEF Verdict
        <3>4. \A f \in Engine : f # e => Verdict(work[f])' = Verdict(work[f])
            BY <3>1 DEF Verdict
        <3>5. AllowedWork'
            BY <2>1, <3>1, <3>2, <3>3, <3>4 DEF AllowedWork
        <3> QED
            BY <2>1, <3>5 DEF GroundedLeases
    <2> QED
        BY <1>6, <2>2, <2>3 DEF Decide, Verdict
<1>7. ASSUME NEW e \in Engine, IssueLease(e) PROVE AllowedWork' /\ GroundedLeases'
    <2> DEFINE w == work[e]
    <2>1. UNCHANGED clock /\ w.pc = "issue" /\ w \in Work /\ Return(e)
        BY <1>0, <1>7 DEF IssueLease, At, TypeOK
    <2>2. CASE UNCHANGED issued
        BY <1>4, <2>1, <2>2
    <2>3. CASE ~ttl_refused(w.request, w.policy) /\ issued' = Append(issued, Grant(w, Len(issued) + 1, clock))
        <3>n. PICK n \in Nat : n = Len(issued) + 1
            BY <1>0 DEF Histories
        <3>1. /\ w.request \in Requests /\ w.state \in States /\ w.policy \in Policies
              /\ w.now <= clock /\ Verdict(w) = Valid
              /\ "PROTOCOL_VERSION_UNSUPPORTED" \notin w.state.defects
            BY <1>0, <2>1 DEF TypeOK, WorkContext, AllowedWork, AuthenticWork
        <3>2. /\ DOMAIN issued' = 1..n /\ DOMAIN issued = 1..(n - 1)
              /\ issued'[n] = Grant(w, n, clock)
              /\ \A i \in DOMAIN issued : issued'[i] = issued[i]
            BY <1>0, <2>3, <3>n DEF Histories
        <3>3. Grounds(issued'[n], n, w, clock)
            BY <2>3, <3>1, <3>2 DEF Grounds
        <3>4. GroundedLeases'
            <4> SUFFICES ASSUME NEW i \in DOMAIN issued'
                         PROVE  \E v \in Work, at \in 0..MaxClock : Grounds(issued'[i], i, v, at)
                BY DEF GroundedLeases
            <4>1. CASE i = n
                BY <1>0, <2>1, <3>3, <4>1
            <4>2. CASE i # n
                <5>1. i \in DOMAIN issued
                    BY <3>2, <4>2
                <5> QED
                    BY <3>2, <5>1 DEF GroundedLeases
            <4> QED
                BY <4>1, <4>2
        <3>5. /\ work'[e] = IdleWork
              /\ \A f \in Engine : f # e => work'[f] = work[f]
            BY <1>0, <2>1, ReturnWork
        <3>6. AllowedWork'
            <4>1. \A f \in Engine : f # e => Verdict(work[f])' = Verdict(work[f])
                BY <3>5 DEF Verdict
            <4> QED
                BY <1>0, <2>1, <3>5, <4>1 DEF AllowedWork, IdleWork
        <3> QED
            BY <3>4, <3>6
    <2> QED
        BY <1>7, <2>2, <2>3 DEF IssueLease, Grant
<1>8. ASSUME NEW e \in Engine, StoreBusy(e) \/ Crash(e) PROVE AllowedWork' /\ GroundedLeases'
    BY <1>4, <1>8 DEF StoreBusy, Crash
<1> QED
    BY <1>1, <1>2, <1>3, <1>5, <1>6, <1>7, <1>8 DEF Next, EngineStep, Start, vars

(* Every lease goes back to an allowed call.                               *)
LEMMA LeasesGrounded == Spec => []GroundedLeases
<1>1. Init => AllowedWork /\ GroundedLeases
    BY DEF Init, AllowedWork, GroundedLeases, IdleWork
<1>2. Spec => []TypeInv
    BY InitType, NextType, PTL DEF Spec
<1> QED
    BY <1>1, <1>2, WorkAuthentic, NextGrounds, PTL DEF Spec

(* The fields of a lease and of the record that goes with it.              *)
LEMMA GrantFields ==
    ASSUME NEW w, NEW n, NEW at
    PROVE  /\ Grant(w, n, at).request = w.request
           /\ Grant(w, n, at).state = w.state
           /\ Grant(w, n, at).policy = w.policy
           /\ Grant(w, n, at).decided_at = w.now
           /\ Grant(w, n, at).lease = issue_lease(w, n, at)
           /\ issue_lease(w, n, at).lease_id = <<"lease", n>>
           /\ issue_lease(w, n, at).issuer = IssuerId
           /\ issue_lease(w, n, at).ctx = w.request.ctx
           /\ issue_lease(w, n, at).policy = w.policy.policy
           /\ issue_lease(w, n, at).issued_at = at
           /\ issue_lease(w, n, at).expires_at = at + w.policy.lease_ttl
           /\ issue_lease(w, n, at).defects = {}
           /\ issue_lease(w, n, at).constraints = granted_constraints(w.request, w.state, w.policy)
BY DEF Grant, issue_lease

(* Every lease is within its policy, within its request, and within what   *)
(* the edge is told to accept.                                             *)
THEOREM IssuedWithinPolicyHolds == Spec => []IssuedWithinPolicy
<1>1. ASSUME GroundedLeases PROVE IssuedWithinPolicy
    <2> SUFFICES ASSUME NEW i \in DOMAIN issued
                 PROVE  LET l == issued[i].lease
                            r == issued[i].request
                            p == issued[i].policy
                        IN  /\ ~capability_constraints_exceed_bounds(l.constraints, policy_constraint_bounds(p))
                            /\ l.expires_at - l.issued_at <= r.duration
                            /\ r.duration <= p.lease_ttl
                            /\ l.ctx = r.ctx
                            /\ r.ctx.agent \in p.allowed_agents /\ r.ctx.robot \in p.allowed_robots
        BY DEF IssuedWithinPolicy
    <2>1. PICK w \in Work, at \in 0..MaxClock : Grounds(issued[i], i, w, at)
        BY <1>1 DEF GroundedLeases
    <2> DEFINE r == w.request
               p == w.policy
               s == w.state
               l == issued[i].lease
    <2>2. /\ issued[i].request = r /\ issued[i].policy = p
          /\ l.ctx = r.ctx /\ l.constraints = granted_constraints(r, s, p)
          /\ l.expires_at = at + p.lease_ttl /\ l.issued_at = at
        BY <2>1, GrantFields DEF Grounds
    <2>3. r \in Requests /\ s \in States /\ p \in Policies /\ Verdict(w) = Valid /\ ~ttl_refused(r, p)
        BY <2>1 DEF Grounds
    <2>4. policy_violation(r, s, p, w.assertion, w.now) = Valid
        BY <2>3 DEF Verdict
    <2>5. /\ ~(r.duration > p.lease_ttl)
          /\ r.ctx.agent \in p.allowed_agents /\ r.ctx.robot \in p.allowed_robots
        BY <2>4, AllowedRequest
    <2>6. ~capability_constraints_exceed_bounds(l.constraints, policy_constraint_bounds(p))
        BY <2>2, <2>3, <2>4, GrantedWithinBounds
    <2>7. r.duration \in Int /\ p.lease_ttl \in Int
        BY <2>3, MessagesAssumption
    <2>8. l.expires_at - l.issued_at <= r.duration /\ r.duration <= p.lease_ttl
        BY <2>2, <2>3, <2>5, <2>7, EngineAssumption DEF ttl_refused
    <2> QED
        BY <2>2, <2>5, <2>6, <2>8
<1> QED
    BY <1>1, LeasesGrounded, PTL
-----------------------------------------------------------------------------
(* The issuers implement the single-use ledger.                            *)

ledger_vars == <<nonces, PendingUses, AnsweredUses>>

\* The nonces in hand, whoever holds them.
HeldUses == {{held_key(e)} : e \in {f \in Engine : Holding(f)}}

(* Only authentic requests hold a nonce.                                   *)
LEMMA PendingHeld ==
    /\ AuthenticWork => PendingUses = HeldUses
    /\ AuthenticWork' => PendingUses' = HeldUses'
<1>1. ASSUME AuthenticWork PROVE PendingUses = HeldUses
    <2>1. \A e \in Engine : Holding(e) => Authentic(work[e].request)
        BY <1>1 DEF AuthenticWork, Holding, Authentic
    <2> QED
        BY <2>1 DEF PendingUses, HeldUses
<1>2. ASSUME AuthenticWork' PROVE PendingUses' = HeldUses'
    <2>1. \A e \in Engine : Holding(e)' => Authentic(work'[e].request)
        BY <1>2 DEF AuthenticWork, Holding, Authentic
    <2> QED
        BY <2>1 DEF PendingUses, HeldUses
<1> QED
    BY <1>1, <1>2

(* A step that consumes and grants nothing and keeps the nonces in hand is *)
(* a stuttering step of the ledger.                                        *)
LEMMA StutterFrame ==
    ASSUME UNCHANGED <<nonces, issued>>, AuthenticWork, AuthenticWork',
           \A e \in Engine : (Holding(e)' <=> Holding(e)) /\ (Holding(e) => held_key(e)' = held_key(e))
    PROVE  UNCHANGED ledger_vars
<1>1. AnsweredUses' = AnsweredUses
    BY DEF AnsweredUses, granted_key
<1>2. PendingUses' = PendingUses
    BY PendingHeld DEF HeldUses
<1> QED
    BY <1>1, <1>2 DEF ledger_vars

(* An issuer that returns lets go of the nonce it holds, if any, and of no *)
(* other.                                                                  *)
LEMMA ReturnReleases ==
    ASSUME TypeOK, GrantOnce, AuthenticWork, AuthenticWork',
           NEW e \in Engine, Return(e), Holding(e)
    PROVE  /\ {held_key(e)} \in PendingUses
           /\ PendingUses' = PendingUses \ {{held_key(e)}}
<1>1. /\ ~Holding(e)'
      /\ \A f \in Engine : f # e => Holding(f)' = Holding(f) /\ held_key(f)' = held_key(f)
    BY ReturnWork DEF Holding, held_key, IdleWork
<1>2. \A f \in Engine : f # e /\ Holding(f) => held_key(f) # held_key(e)
    BY DEF GrantOnce
<1>3. {held_key(e)} \in HeldUses
    BY DEF HeldUses
<1>4. \A u : u \in HeldUses' <=> u \in HeldUses /\ u # {held_key(e)}
    BY <1>1, <1>2 DEF HeldUses
<1> QED
    BY <1>3, <1>4, PendingHeld

(* The nonce that an issuer holds is a use of the ledger.                  *)
LEMMA HeldUse ==
    ASSUME TypeOK, AuthenticWork, NEW e \in Engine, work[e].pc # "idle"
    PROVE  {held_key(e)} \in AllUses
BY DEF TypeOK, WorkContext, AuthenticWork, Authentic, AllUses, held_key

(* The insert into request_replay_nonces is Consume.                       *)
LEMMA ConsumeRefines ==
    ASSUME TypeOK, AuthenticWork, AuthenticWork', NEW e \in Engine, Consume(e)
    PROVE  [Ledger!Next]_ledger_vars
<1>1. work[e].pc = "consume" /\ ~Holding(e) /\ UNCHANGED issued
    BY DEF Consume, At, Holding
<1>2. CASE Return(e) /\ UNCHANGED nonces
    <2>1. \A f \in Engine : (Holding(f)' <=> Holding(f)) /\ (Holding(f) => held_key(f)' = held_key(f))
        BY <1>1, <1>2, ReturnWork DEF Holding, held_key, IdleWork
    <2> QED
        BY <1>1, <1>2, <2>1, StutterFrame
<1>3. CASE ~has_seen(work[e].request) /\ nonces' = nonces \cup {held_key(e)} /\ Goto(e, "decide")
    <2> DEFINE use == {held_key(e)}
    <2>1. use \cap nonces = {} /\ use \in AllUses
        BY <1>1, <1>3, HeldUse DEF has_seen, held_key
    <2>2. /\ Holding(e)' /\ held_key(e)' = held_key(e)
          /\ \A f \in Engine : f # e => Holding(f)' = Holding(f) /\ held_key(f)' = held_key(f)
        BY <1>1, <1>3, GotoWork DEF Holding, held_key
    <2>3. PendingUses' = PendingUses \cup {use}
        <3>1. \A u : u \in HeldUses' <=> u \in HeldUses \/ u = use
            BY <1>1, <2>2 DEF HeldUses
        <3> QED
            BY <3>1, PendingHeld
    <2>4. AnsweredUses' = AnsweredUses
        BY <1>1 DEF AnsweredUses, granted_key
    <2>5. Ledger!Consume(use)
        BY <1>3, <2>1, <2>3, <2>4 DEF Ledger!Consume
    <2> QED
        BY <2>1, <2>5 DEF Ledger!Next
<1> QED
    BY <1>2, <1>3 DEF Consume, held_key

(* A call that ends without a lease is GiveUp, or a stuttering step.       *)
LEMMA ReturnRefines ==
    ASSUME TypeOK, GrantOnce, AuthenticWork, AuthenticWork',
           NEW e \in Engine, Return(e), UNCHANGED <<nonces, issued>>
    PROVE  [Ledger!Next]_ledger_vars
<1>1. CASE ~Holding(e)
    <2>1. \A f \in Engine : (Holding(f)' <=> Holding(f)) /\ (Holding(f) => held_key(f)' = held_key(f))
        BY <1>1, ReturnWork DEF Holding, held_key, IdleWork
    <2> QED
        BY <2>1, StutterFrame
<1>2. CASE Holding(e)
    <2>1. {held_key(e)} \in PendingUses /\ PendingUses' = PendingUses \ {{held_key(e)}}
        BY <1>2, ReturnReleases
    <2>2. {held_key(e)} \in AllUses
        BY <1>2, HeldUse DEF Holding
    <2>3. AnsweredUses' = AnsweredUses
        BY DEF AnsweredUses, granted_key
    <2> QED
        BY <2>1, <2>2, <2>3 DEF Ledger!Next, Ledger!GiveUp
<1> QED
    BY <1>1, <1>2

(* A lease is Forward.                                                     *)
LEMMA IssueRefines ==
    ASSUME TypeOK, Histories, GrantOnce, AuthenticWork, AuthenticWork',
           NEW e \in Engine, IssueLease(e)
    PROVE  [Ledger!Next]_ledger_vars
<1>1. work[e].pc = "issue" /\ Holding(e) /\ Return(e) /\ UNCHANGED nonces
    BY DEF IssueLease, At, Holding
<1>2. CASE UNCHANGED issued
    BY <1>1, <1>2, ReturnRefines
<1>3. CASE issued' = Append(issued, Grant(work[e], Len(issued) + 1, clock))
    <2>0. PICK n \in Nat : n = Len(issued)
        BY DEF Histories
    <2> DEFINE x == Grant(work[e], n + 1, clock)
               use == {held_key(e)}
    <2>1. x.request = work[e].request
        BY DEF Grant
    <2> HIDE DEF x
    <2>2. /\ DOMAIN issued = 1..n
          /\ DOMAIN issued' = 1..(n + 1)
          /\ issued'[n + 1] = x
          /\ \A i \in 1..n : issued'[i] = issued[i]
        BY <1>3, <2>0 DEF Histories, x
    <2>3. granted_key(n + 1)' = held_key(e) /\ \A i \in 1..n : granted_key(i)' = granted_key(i)
        BY <2>1, <2>2 DEF granted_key, held_key
    <2>4. /\ AnsweredUses = [i \in 1..n |-> {granted_key(i)}]
          /\ AnsweredUses' = [i \in 1..(n + 1) |-> {granted_key(i)'}]
        BY <2>2 DEF AnsweredUses
    <2> HIDE DEF use
    <2>5. AnsweredUses' = Append(AnsweredUses, use)
        <3>1. AnsweredUses \in Seq({{granted_key(i)} : i \in 1..n}) /\ Len(AnsweredUses) = n
            BY <2>4
        <3>2. Append(AnsweredUses, use) = [i \in 1..(n + 1) |-> IF i = n + 1 THEN use ELSE {granted_key(i)}]
            BY <2>4, <3>1
        <3> QED
            BY <2>3, <2>4, <3>2 DEF use
    <2>6. use \in PendingUses /\ PendingUses' = PendingUses \ {use}
        BY <1>1, ReturnReleases DEF use
    <2>7. use \in AllUses
        BY <1>1, HeldUse DEF use
    <2> QED
        BY <1>1, <2>5, <2>6, <2>7 DEF Ledger!Next, Ledger!Forward
<1> QED
    BY <1>2, <1>3 DEF IssueLease, Grant

(* Every step of the issuers is a step of the ledger, or changes it not.   *)
LEMMA NextRefines ==
    TypeInv /\ GrantOnce /\ AuthenticWork /\ [Next]_vars => [Ledger!Next]_ledger_vars
<1> SUFFICES ASSUME TypeInv, GrantOnce, AuthenticWork, [Next]_vars PROVE [Ledger!Next]_ledger_vars
    OBVIOUS
<1>0. TypeOK /\ Histories /\ AuthenticWork'
    BY NextAuthentic DEF TypeInv
<1>1. CASE UNCHANGED <<nonces, issued, work>>
    BY <1>0, <1>1, StutterFrame DEF Holding, held_key
<1>2. ASSUME NEW e \in Engine, NEW r \in Requests, NEW s \in States, NEW p \in Policies,
             NEW a \in Assertions \cup {None}, NEW cache \in Caches,
             EvaluatePolicy(e, r, s, p, a, cache)
      PROVE  [Ledger!Next]_ledger_vars
    <2>1. UNCHANGED <<nonces, issued>> /\ work[e].pc = "idle"
        BY <1>2 DEF EvaluatePolicy, At
    <2>2. CASE work' = [work EXCEPT ![e] = EvaluateWork(r, s, p, a, clock)]
        <3>1. /\ work'[e].pc = "consume"
              /\ \A f \in Engine : f # e => work'[f] = work[f]
            BY <1>0, <2>2 DEF TypeOK, EvaluateWork
        <3>2. \A f \in Engine : (Holding(f)' <=> Holding(f)) /\ (Holding(f) => held_key(f)' = held_key(f))
            BY <2>1, <3>1 DEF Holding, held_key
        <3> QED
            BY <1>0, <2>1, <3>2, StutterFrame
    <2> QED
        BY <1>1, <1>2, <2>1, <2>2 DEF EvaluatePolicy
<1>3. ASSUME NEW e \in Engine, Decide(e) PROVE [Ledger!Next]_ledger_vars
    <2>1. UNCHANGED <<nonces, issued>> /\ work[e].pc = "decide"
        BY <1>3 DEF Decide, At
    <2>2. CASE Goto(e, "issue")
        <3>1. \A f \in Engine : (Holding(f)' <=> Holding(f)) /\ (Holding(f) => held_key(f)' = held_key(f))
            BY <1>0, <2>1, <2>2, GotoWork DEF Holding, held_key
        <3> QED
            BY <1>0, <2>1, <3>1, StutterFrame
    <2> QED
        BY <1>0, <1>3, <2>1, <2>2, ReturnRefines DEF Decide
<1>4. ASSUME NEW e \in Engine, StoreBusy(e) \/ Crash(e) PROVE [Ledger!Next]_ledger_vars
    BY <1>0, <1>4, ReturnRefines DEF StoreBusy, Crash
<1> QED
    BY <1>0, <1>1, <1>2, <1>3, <1>4, ConsumeRefines, IssueRefines DEF Next, EngineStep, Tick, Start, vars

(* The issuers and their replay store implement the single-use ledger: a   *)
(* nonce is consumed once, by an authentic request only, and answered by   *)
(* one lease at most.                                                      *)
THEOREM LedgerImplemented == Spec => ImplementsLedger
<1>1. Init => Ledger!Init
    <2> SUFFICES ASSUME Init PROVE Ledger!Init
        OBVIOUS
    <2>1. \A e \in Engine : work[e].pc = "idle"
        BY DEF Init, IdleWork
    <2>2. PendingUses = {}
        BY <2>1 DEF PendingUses, Holding
    <2>3. AnsweredUses = << >>
        BY DEF Init, AnsweredUses
    <2> QED
        BY <2>1, <2>2, <2>3 DEF Init, Ledger!Init
<1>2. Spec => []TypeInv
    BY InitType, NextType, PTL DEF Spec
<1> QED
    BY <1>1, <1>2, WorkAuthentic, GrantOnceHolds, NextRefines, PTL
       DEF Spec, ImplementsLedger, Ledger!Spec, ledger_vars
-----------------------------------------------------------------------------
(* A worse network never gets a better decision.                           *)

\* The checks of evaluate_network_requirements.
network_checks(q, n) == <<
        Sub(network_state_authority_violation(n)),
        <<n.latency > q.deny_latency, "NETWORK_LATENCY_TOO_HIGH">>,
        <<n.loss > q.deny_loss, "NETWORK_PACKET_LOSS_TOO_HIGH">>,
        <<n.uplink < q.deny_uplink, "NETWORK_UPLINK_TOO_LOW">>,
        <<n.latency > q.max_latency, "NETWORK_LATENCY_DEGRADED">>,
        <<n.loss > q.max_loss, "NETWORK_PACKET_LOSS_DEGRADED">>,
        <<n.uplink < q.min_uplink, "NETWORK_UPLINK_DEGRADED">> >>

\* The reasons that are answered with deny.
denied(reason) == reason # Valid /\ reason \notin DegradedReasons

LEMMA NetworkChecks ==
    ASSUME NEW q, NEW n
    PROVE  /\ evaluate_network_requirements(q, n) = FirstViolation(network_checks(q, n))
           /\ DOMAIN network_checks(q, n) = 1..7
           /\ \A i \in 1..7 : network_checks(q, n)[i][1] => network_checks(q, n)[i][2] # Valid
<1>1. evaluate_network_requirements(q, n) = FirstViolation(network_checks(q, n))
    BY Zenon DEF evaluate_network_requirements, network_checks
<1>2. DOMAIN network_checks(q, n) = 1..7
    BY DEF network_checks
<1>3. \A i \in 1..7 : network_checks(q, n)[i][1] => network_checks(q, n)[i][2] # Valid
    BY SubClear DEF network_checks, Valid
<1> QED
    BY <1>1, <1>2, <1>3

(* A network that is worse than one that is not good enough is not good    *)
(* enough, and worse than one that is denied is denied: the deny           *)
(* thresholds are looked at before the degrade thresholds.                 *)
LEMMA NetworkMonotone ==
    ASSUME NEW q, NEW n, NEW m, no_better(n, m),
           {n.latency, n.loss, n.uplink, m.latency, m.loss, m.uplink} \subseteq Int,
           {q.max_latency, q.max_loss, q.min_uplink, q.deny_latency, q.deny_loss, q.deny_uplink}
               \subseteq Int
    PROVE  /\ evaluate_network_requirements(q, m) # Valid
                 => evaluate_network_requirements(q, n) # Valid
           /\ denied(evaluate_network_requirements(q, m))
                 => denied(evaluate_network_requirements(q, n))
<1> DEFINE good == network_checks(q, m)
           bad == network_checks(q, n)
           auth == network_state_authority_violation(m)
<1>1. network_state_authority_violation(n) = auth
    <2>1. n.profile = m.profile /\ n.attached = m.attached
        BY DEF no_better
    <2> QED
        BY <2>1 DEF network_state_authority_violation
<1> HIDE DEF auth
<1>2. /\ DOMAIN good = 1..7 /\ DOMAIN bad = 1..7
      /\ \A i \in 1..7 : good[i][1] => good[i][2] # Valid
      /\ \A i \in 1..7 : bad[i][1] => bad[i][2] # Valid
      /\ evaluate_network_requirements(q, m) = FirstViolation(good)
      /\ evaluate_network_requirements(q, n) = FirstViolation(bad)
    BY NetworkChecks
<1>3. good[1] = Sub(auth) /\ bad[1] = Sub(auth)
    BY <1>1 DEF network_checks, auth
<1>4. /\ good[2][1] => bad[2][1]
      /\ good[3][1] => bad[3][1]
      /\ good[4][1] => bad[4][1]
      /\ good[5][1] => bad[5][1]
      /\ good[6][1] => bad[6][1]
      /\ good[7][1] => bad[7][1]
    <2>1. /\ m.latency > q.deny_latency => n.latency > q.deny_latency
          /\ m.loss > q.deny_loss => n.loss > q.deny_loss
          /\ m.uplink < q.deny_uplink => n.uplink < q.deny_uplink
          /\ m.latency > q.max_latency => n.latency > q.max_latency
          /\ m.loss > q.max_loss => n.loss > q.max_loss
          /\ m.uplink < q.min_uplink => n.uplink < q.min_uplink
        BY DEF no_better
    <2>2. \A x : /\ network_checks(q, x)[2][1] = (x.latency > q.deny_latency)
                /\ network_checks(q, x)[3][1] = (x.loss > q.deny_loss)
                /\ network_checks(q, x)[4][1] = (x.uplink < q.deny_uplink)
                /\ network_checks(q, x)[5][1] = (x.latency > q.max_latency)
                /\ network_checks(q, x)[6][1] = (x.loss > q.max_loss)
                /\ network_checks(q, x)[7][1] = (x.uplink < q.min_uplink)
        BY DEF network_checks
    <2> QED
        BY <2>1, <2>2, Zenon
<1>5. /\ {good[5][2], good[6][2], good[7][2]} \subseteq DegradedReasons
      /\ {bad[2][2], bad[3][2], bad[4][2]} \cap DegradedReasons = {}
    BY DEF network_checks, DegradedReasons
<1> HIDE DEF good, bad
<1>6. \A i \in 1..7 : good[i][1] => bad[i][1]
    BY <1>3, <1>4
<1>7. FirstViolation(bad) = Valid => FirstViolation(good) = Valid
    BY <1>2, <1>6, LadderMonotone
<1>8. ASSUME denied(FirstViolation(good)) PROVE denied(FirstViolation(bad))
    <2>1. PICK i \in 1..7 : /\ good[i][1]
                            /\ \A k \in 1..7 : good[k][1] => i <= k
                            /\ FirstViolation(good) = good[i][2]
        BY <1>2, <1>8, LadderAnswer DEF denied
    <2>2. i \in 1..4
        BY <1>5, <1>8, <2>1 DEF denied
    <2>3. bad[i][1]
        BY <1>6, <2>1
    <2>4. PICK j \in 1..7 : /\ bad[j][1]
                            /\ \A k \in 1..7 : bad[k][1] => j <= k
                            /\ FirstViolation(bad) = bad[j][2]
        BY <1>2, <2>3, LadderFirst
    <2>5. j \in 1..4
        BY <2>2, <2>3, <2>4
    <2>6. CASE j = 1
        <3>1. good[1][1]
            BY <1>3, <2>4, <2>6
        <3>2. i = 1
            BY <2>1, <3>1
        <3> QED
            BY <1>3, <1>8, <2>1, <2>4, <2>6, <3>2
    <2>7. CASE j # 1
        <3>1. bad[j][2] \notin DegradedReasons
            BY <1>5, <2>5, <2>7
        <3> QED
            BY <1>2, <2>4, <3>1 DEF denied
    <2> QED
        BY <2>6, <2>7
<1> QED
    BY <1>2, <1>7, <1>8

(* Two states that differ only in their network differ, for the policy, in *)
(* the two checks that read the network.                                   *)
LEMMA OnlyNetworkDiffers ==
    ASSUME NEW r, NEW p, NEW a, NEW now, NEW t \in States, NEW s \in States,
           s = [t EXCEPT !.network = s.network]
    PROVE  \A i \in (1..21) \ {16, 20} : policy_checks(r, s, p, a, now)[i] = policy_checks(r, t, p, a, now)[i]
<1>1. /\ s.robot = t.robot /\ s.edge = t.edge /\ s.mission = t.mission
      /\ s.stamps = t.stamps /\ s.geofence = t.geofence /\ s.defects = t.defects
      /\ s.human_declared = t.human_declared
      /\ s.human_operator_available = t.human_operator_available
    BY MessagesAssumption
<1>2. state_auth_violation(s) = state_auth_violation(t)
    BY <1>1 DEF state_auth_violation, Static
<1>3. state_time_violation(s, now) = state_time_violation(t, now)
    BY <1>1 DEF state_time_violation
<1>4. base_constraints(s, p) = base_constraints(t, p)
    BY <1>1 DEF base_constraints
<1> DEFINE mine(i) == policy_checks(r, s, p, a, now)[i]
           other(i) == policy_checks(r, t, p, a, now)[i]
<1>5. /\ mine(1) = other(1) /\ mine(2) = other(2) /\ mine(3) = other(3) /\ mine(4) = other(4)
      /\ mine(5) = other(5) /\ mine(6) = other(6) /\ mine(7) = other(7) /\ mine(8) = other(8)
      /\ mine(14) = other(14) /\ mine(15) = other(15) /\ mine(17) = other(17)
    BY DEF policy_checks
<1>6. mine(9) = other(9) /\ mine(10) = other(10) /\ mine(11) = other(11)
    BY <1>1 DEF policy_checks
<1>7. mine(12) = other(12) /\ mine(13) = other(13) /\ mine(21) = other(21)
    BY <1>2, <1>3, <1>4 DEF policy_checks
<1>8. mine(18) = other(18) /\ mine(19) = other(19)
    BY <1>1 DEF policy_checks
<1> HIDE DEF mine, other
<1>9. \A i \in (1..21) \ {16, 20} : mine(i) = other(i)
    <2> TAKE i \in (1..21) \ {16, 20}
    <2>1. i \in {1, 2, 3, 4, 5, 6, 7, 8, 9, 10, 11, 12, 13, 14, 15, 17, 18, 19, 21}
        OBVIOUS
    <2> QED
        BY <1>5, <1>6, <1>7, <1>8, <2>1, Zenon
<1> QED
    BY <1>9 DEF mine, other

(* The decision on a worse network, check by check.                        *)
LEMMA DecisionMonotone ==
    ASSUME NEW r, NEW p \in Policies, NEW a, NEW now, NEW t \in States, NEW s \in States,
           s = [t EXCEPT !.network = s.network],
           no_better(s.network, t.network),
           ~network_state_malformed(t.network),
           requested_constraint_violation(base_constraints(t, p), r.requested) = Valid
    PROVE  /\ policy_violation(r, t, p, a, now) # Valid => policy_violation(r, s, p, a, now) # Valid
           /\ denied(policy_violation(r, t, p, a, now)) => denied(policy_violation(r, s, p, a, now))
<1> DEFINE good == policy_checks(r, t, p, a, now)
           bad == policy_checks(r, s, p, a, now)
           gnet == evaluate_network_requirements(p.network, t.network)
           bnet == evaluate_network_requirements(p.network, s.network)
<1>1. DOMAIN good = 1..21 /\ DOMAIN bad = 1..21
    BY DEF policy_checks
<1>2. /\ \A i \in 1..21 : good[i][1] => good[i][2] # Valid
      /\ \A i \in 1..21 : bad[i][1] => bad[i][2] # Valid
    BY SubClear DEF policy_checks, Valid
<1>3. \A i \in (1..21) \ {16, 20} : bad[i] = good[i]
    BY OnlyNetworkDiffers
<1>4. /\ good[16][1] = network_state_malformed(t.network)
      /\ bad[16][2] = "NETWORK_STATE_MALFORMED"
      /\ good[20] = Sub(gnet) /\ bad[20] = Sub(bnet)
      /\ good[21] = Sub(Valid)
    BY DEF policy_checks
<1>5. /\ policy_violation(r, t, p, a, now) = FirstViolation(good)
      /\ policy_violation(r, s, p, a, now) = FirstViolation(bad)
    BY DEF policy_violation
<1>6. (gnet # Valid => bnet # Valid) /\ (denied(gnet) => denied(bnet))
    BY MessagesAssumption, NetworkMonotone
<1> HIDE DEF good, bad, gnet, bnet
<1>7. ~good[16][1] /\ ~good[21][1]
    BY <1>4, SubAnswer, Zenon
<1>8. good[20][1] => bad[20][1]
    BY <1>4, <1>6, SubAnswer
<1>9. \A i \in 1..21 : good[i][1] => bad[i][1]
    BY <1>3, <1>7, <1>8
<1>10. FirstViolation(bad) = Valid => FirstViolation(good) = Valid
    BY <1>1, <1>2, <1>9, LadderMonotone
<1>11. ASSUME denied(FirstViolation(good)) PROVE denied(FirstViolation(bad))
    <2>1. PICK i \in 1..21 : /\ good[i][1]
                             /\ \A k \in 1..21 : good[k][1] => i <= k
                             /\ FirstViolation(good) = good[i][2]
        <3>1. PICK k \in 1..21 : good[k][1]
            BY <1>1, <1>11, LadderViolated DEF denied
        <3> QED
            BY <1>1, <3>1, LadderFirst
    <2>2. bad[i][1]
        BY <1>9, <2>1
    <2>3. PICK j \in 1..21 : /\ bad[j][1]
                             /\ \A k \in 1..21 : bad[k][1] => j <= k
                             /\ FirstViolation(bad) = bad[j][2]
        BY <1>1, <2>2, LadderFirst
    <2>4. j <= i
        BY <2>2, <2>3
    <2>5. CASE j = 16
        BY <1>4, <2>3, <2>5 DEF denied, DegradedReasons, Valid
    <2>6. CASE j # 16 /\ j # 20
        <3>1. good[j][1] /\ bad[j] = good[j]
            BY <1>3, <2>3, <2>6
        <3>2. i = j
            BY <2>1, <2>4, <3>1
        <3> QED
            BY <1>11, <2>1, <2>3, <3>1, <3>2
    <2>7. CASE j = 20
        <3>1. i = 20
            BY <1>7, <2>1, <2>4, <2>7
        <3>2. good[20][2] = gnet /\ bad[20][2] = bnet
            BY <1>4 DEF Sub
        <3> QED
            BY <1>6, <1>11, <2>1, <2>3, <2>7, <3>1, <3>2
    <2> QED
        BY <2>5, <2>6, <2>7
<1> QED
    BY <1>5, <1>10, <1>11

(* The rank of a decision follows from its reason.                         *)
LEMMA RankOf ==
    ASSUME NEW z
    PROVE  /\ z = Valid => Rank(decision_of(z)) = 2
           /\ z # Valid /\ z \in DegradedReasons => Rank(decision_of(z)) = 1
           /\ denied(z) => Rank(decision_of(z)) = 0
<1>1. CASE z = Valid
    <2>1. z \notin DegradedReasons
        BY <1>1 DEF Valid, DegradedReasons
    <2>2. decision_of(z) = "allow"
        BY <1>1, <2>1 DEF decision_of
    <2> QED
        BY <1>1, <2>2 DEF Rank, denied
<1>2. CASE z # Valid /\ z \in DegradedReasons
    <2>1. decision_of(z) = "degrade"
        BY <1>2 DEF decision_of
    <2> QED
        BY <1>2, <2>1 DEF Rank, denied
<1>3. CASE denied(z)
    <2>1. decision_of(z) = "deny"
        BY <1>3 DEF decision_of, denied
    <2> QED
        BY <1>3, <2>1 DEF Rank, denied
<1> QED
    BY <1>1, <1>2, <1>3 DEF denied

(* The order of the decisions.                                             *)
LEMMA RankOrder ==
    ASSUME NEW x, NEW y, x # Valid => y # Valid, denied(x) => denied(y)
    PROVE  Rank(decision_of(y)) <= Rank(decision_of(x))
<1> DEFINE ry == Rank(decision_of(y))
           rx == Rank(decision_of(x))
<1>1. /\ x = Valid => rx = 2
      /\ x # Valid /\ x \in DegradedReasons => rx = 1
      /\ denied(x) => rx = 0
    BY RankOf, Zenon
<1>2. /\ y = Valid => ry = 2
      /\ y # Valid /\ y \in DegradedReasons => ry = 1
      /\ denied(y) => ry = 0
    BY RankOf, Zenon
<1> HIDE DEF rx, ry
<1>3. rx \in 0..2 /\ ry \in 0..2 /\ ry <= rx
    BY <1>1, <1>2 DEF denied
<1> QED
    BY <1>3 DEF rx, ry

(* Whatever the policy, the request and the measurements: a state whose    *)
(* network is worse is never decided more favourably.                      *)
THEOREM WorseNetworkNoBetterHolds == Spec => []WorseNetworkNoBetter
<1>1. ASSUME TypeOK PROVE WorseNetworkNoBetter
    <2> SUFFICES ASSUME NEW e \in Engine, work[e].pc = "decide",
                        requested_constraint_violation(base_constraints(work[e].state, work[e].policy),
                                                       work[e].request.requested) = Valid,
                        ~network_state_malformed(work[e].state.network),
                        NEW s \in States, s = [work[e].state EXCEPT !.network = s.network],
                        no_better(s.network, work[e].state.network)
                 PROVE  Rank(decision_of(policy_violation(work[e].request, s, work[e].policy,
                                                          work[e].assertion, work[e].now)))
                        <= Rank(decision_of(policy_violation(work[e].request, work[e].state,
                                            work[e].policy, work[e].assertion, work[e].now)))
        BY Zenon DEF WorseNetworkNoBetter
    <2>1. work[e].state \in States /\ work[e].policy \in Policies
        BY <1>1 DEF TypeOK, WorkContext
    <2> DEFINE x == policy_violation(work[e].request, work[e].state, work[e].policy,
                                     work[e].assertion, work[e].now)
               y == policy_violation(work[e].request, s, work[e].policy, work[e].assertion, work[e].now)
    <2>2. (x # Valid => y # Valid) /\ (denied(x) => denied(y))
        BY <2>1, DecisionMonotone
    <2> QED
        BY <2>2, RankOrder
<1> QED
    BY <1>1, TypeCorrect, PTL

-----------------------------------------------------------------------------
(* Leases at the edge.                                                     *)

(* The edge's rules are those of LeaseRules, except for the two that read  *)
(* the policy: provenance and constraint bounds.                           *)
LEMMA EdgeLadder ==
    ASSUME NEW p
    PROVE  /\ Edge(p)!Valid = Valid
           /\ \A c : Edge(p)!FirstViolation(c) = FirstViolation(c)
           /\ \A r : Edge(p)!Sub(r) = Sub(r)
           /\ \A m, q : Edge(p)!Static(m, q) = Static(m, q)
BY DEF Edge!FirstViolation, FirstViolation, Edge!Valid, Valid, Edge!Sub, Sub, Edge!Static, Static

LEMMA EdgeLeaseRules ==
    ASSUME NEW p, NEW l, NEW now
    PROVE  /\ Edge(p)!lease_signature_violation(l) = lease_signature_violation(l)
           /\ Edge(p)!capability_scope_violation(l) = capability_scope_violation(l)
           /\ Edge(p)!lease_time_violation(l, now) = lease_time_violation(l, now)
           /\ Edge(p)!capability_constraint_requirement_violation(l)
                 = capability_constraint_requirement_violation(l)
           /\ Edge(p)!lease_constraints_malformed(l) = lease_constraints_malformed(l)
<1>1. Edge(p)!lease_signature_violation(l) = lease_signature_violation(l)
    BY EdgeLadder, Zenon DEF Edge!lease_signature_violation, lease_signature_violation
<1>2. Edge(p)!capability_scope_violation(l) = capability_scope_violation(l)
    BY EdgeLadder, Zenon DEF Edge!capability_scope_violation, capability_scope_violation
<1>3. Edge(p)!lease_time_violation(l, now) = lease_time_violation(l, now)
    BY EdgeLadder DEF Edge!lease_time_violation, lease_time_violation, Edge!is_expired, is_expired
<1>4. Edge(p)!capability_constraint_requirement_violation(l)
          = capability_constraint_requirement_violation(l)
    BY EdgeLadder, Zenon
       DEF Edge!capability_constraint_requirement_violation, capability_constraint_requirement_violation,
           Edge!capability_constraints_missing, capability_constraints_missing
<1>5. Edge(p)!lease_constraints_malformed(l) = lease_constraints_malformed(l)
    BY DEF Edge!lease_constraints_malformed, lease_constraints_malformed,
           Edge!finite_nonnegative, finite_nonnegative
<1> QED
    BY <1>1, <1>2, <1>3, <1>4, <1>5

LEMMA EdgeStateRules ==
    ASSUME NEW p, NEW l, NEW s, NEW now
    PROVE  Edge(p)!current_state_violation(l, s, now) = current_state_violation(l, s, now)
<1>1. Edge(p)!state_auth_violation(s) = state_auth_violation(s)
    BY EdgeLadder, Zenon DEF Edge!state_auth_violation, state_auth_violation
<1>2. \A t, age, r : Edge(p)!StampViolation(t, now, age, r) = StampViolation(t, now, age, r)
    BY EdgeLadder, Zenon DEF Edge!StampViolation, StampViolation
<1>3. \A stamps, age, r : Edge(p)!StampsViolation(stamps, now, age, r) = StampsViolation(stamps, now, age, r)
    BY <1>2, EdgeLadder DEF Edge!StampsViolation, StampsViolation
<1>4. Edge(p)!state_time_violation(s, now) = state_time_violation(s, now)
    BY <1>3, Zenon DEF Edge!state_time_violation, state_time_violation
<1>5. \A n : /\ Edge(p)!network_state_authority_violation(n) = network_state_authority_violation(n)
            /\ Edge(p)!network_state_malformed(n) = network_state_malformed(n)
    <2>1. \A n : Edge(p)!network_state_authority_violation(n) = network_state_authority_violation(n)
        <3> TAKE n
        <3> DEFINE checks == <<
                <<n.profile = "unknown", "NETWORK_STATE_UNKNOWN">>,
                <<n.profile = "partition", "NETWORK_DETACHED">>,
                <<~n.attached, "NETWORK_DETACHED">> >>
        <3>1. Edge(p)!network_state_authority_violation(n) = Edge(p)!FirstViolation(checks)
            BY Zenon DEF Edge!network_state_authority_violation
        <3>2. network_state_authority_violation(n) = FirstViolation(checks)
            BY Zenon DEF network_state_authority_violation
        <3> HIDE DEF checks
        <3> QED
            BY <3>1, <3>2, EdgeLadder, Zenon
    <2>2. \A n : Edge(p)!network_state_malformed(n) = network_state_malformed(n)
        BY DEF Edge!network_state_malformed, network_state_malformed,
               Edge!finite_nonnegative, finite_nonnegative
    <2> QED
        BY <2>1, <2>2
<1>6. \A c, g : Edge(p)!geofence_violated(c, g) = geofence_violated(c, g)
    BY Zenon DEF Edge!geofence_violated, geofence_violated
<1>7. Edge(p)!validate_lease_against_state(l, s) = validate_lease_against_state(l, s)
    BY <1>5, <1>6, EdgeLadder, Zenon DEF Edge!validate_lease_against_state, validate_lease_against_state
<1>8. Edge(p)!lease_requires_current_state(l) = lease_requires_current_state(l)
    BY Zenon DEF Edge!lease_requires_current_state, lease_requires_current_state
<1> QED
    BY <1>1, <1>4, <1>7, <1>8, EdgeLadder, Zenon DEF Edge!current_state_violation, current_state_violation

(* A command at no speed, or without one where the lease has no limit,     *)
(* meets every speed limit.                                                *)
LEMMA ModestPayload ==
    ASSUME NEW p, NEW l, l.constraints.max_speed \in OptionalInt,
           l.constraints.max_speed # None => l.constraints.max_speed >= 0
    PROVE  Edge(p)!validate_command_payload_against_constraints(l, ModestCommand(l).payload) = Valid
<1> DEFINE max == l.constraints.max_speed
           payload == ModestCommand(l).payload
<1>1. CASE max = None
    <2>1. payload = << >>
        BY <1>1 DEF ModestCommand
    <2>2. DOMAIN payload = {}
        BY <2>1
    <2> HIDE DEF payload
    <2>3. Edge(p)!validate_command_payload_against_constraints(l, payload) = Edge(p)!Valid
        BY <1>1, <2>2, Zenon DEF Edge!validate_command_payload_against_constraints
    <2> QED
        BY <2>3, EdgeLadder DEF payload
<1>2. CASE max # None
    <2>1. payload = [f \in {"speed_mps"} |-> 0]
        BY <1>2 DEF ModestCommand
    <2>2. /\ DOMAIN payload = {"speed_mps"} /\ payload["speed_mps"] = 0
          /\ "max_speed_mps" \notin DOMAIN payload
        BY <2>1
    <2> HIDE DEF payload
    <2> DEFINE raw == CASE "max_speed_mps" \in DOMAIN payload -> payload["max_speed_mps"]
                        [] "max_speed_mps" \notin DOMAIN payload /\ "speed_mps" \in DOMAIN payload
                               -> payload["speed_mps"]
                        [] OTHER -> None
               fields == Edge(p)!SupportedSpeedFields
               checks == <<
                <<DOMAIN payload \ fields # {}, "COMMAND_PAYLOAD_SCHEMA_VIOLATION">>,
                <<~Edge(p)!finite_nonnegative(max), "LEASE_CONSTRAINT_MALFORMED">>,
                <<fields \subseteq DOMAIN payload /\ payload["max_speed_mps"] # payload["speed_mps"],
                  "COMMAND_SPEED_CONFLICT">>,
                <<raw = None, "COMMAND_SPEED_MISSING">>,
                <<raw # None /\ ~Edge(p)!finite_nonnegative(raw), "COMMAND_SPEED_MALFORMED">>,
                <<raw # None /\ raw > max, "COMMAND_SPEED_TOO_HIGH">> >>
    <2>3. Edge(p)!validate_command_payload_against_constraints(l, payload) = Edge(p)!FirstViolation(checks)
        BY <1>2, Zenon DEF Edge!validate_command_payload_against_constraints
    <2>4. raw = 0
        BY <2>2
    <2>5. fields = {"max_speed_mps", "speed_mps"}
        BY DEF Edge!SupportedSpeedFields
    <2> HIDE DEF raw, fields
    <2>6. max \in Int /\ max >= 0 /\ 0 # None
        BY <1>2, EdgeAssumption DEF OptionalInt
    <2>7. DOMAIN checks = 1..6
        OBVIOUS
    <2>8. DOMAIN payload \ fields = {} /\ ~(fields \subseteq DOMAIN payload)
        BY <2>2, <2>5
    <2>9. Edge(p)!finite_nonnegative(max) /\ Edge(p)!finite_nonnegative(raw) /\ ~(raw > max) /\ raw # None
        BY <2>4, <2>6 DEF Edge!finite_nonnegative
    <2> HIDE DEF max
    <2>10. \A i \in 1..6 : ~checks[i][1]
        <3>1. /\ ~checks[1][1] /\ ~checks[2][1] /\ ~checks[3][1]
              /\ ~checks[4][1] /\ ~checks[5][1] /\ ~checks[6][1]
            BY <2>8, <2>9
        <3> QED
            BY <3>1
    <2> HIDE DEF checks
    <2>11. FirstViolation(checks) = Valid
        BY <2>7, <2>10, LadderPass
    <2> QED
        BY <2>3, <2>11, EdgeLadder DEF payload
<1> QED
    BY <1>1, <1>2
-----------------------------------------------------------------------------
(* What an allowed request tells the edge.                                 *)

(* The checks of an allowed request that the edge relies on.               *)
LEMMA AllowedFacts ==
    ASSUME NEW r \in Requests, NEW s \in States, NEW p \in Policies, NEW a, NEW now,
           policy_violation(r, s, p, a, now) = Valid
    PROVE  /\ r.ctx.capability = p.capability
           /\ s.robot = r.ctx.robot /\ s.edge = r.ctx.edge /\ s.mission = r.ctx.mission
           /\ state_auth_violation(s) = Valid
           /\ state_time_violation(s, now) = Valid
           /\ ~network_requirements_malformed(p.network)
           /\ ~network_state_malformed(s.network)
           /\ p.geofence_required => s.geofence.inside = p.geofence_allowed
           /\ evaluate_network_requirements(p.network, s.network) = Valid
<1> DEFINE ladder == policy_checks(r, s, p, a, now)
<1>1. \A i \in 1..21 : ~ladder[i][1]
    BY PolicyChecks
<1>2. /\ ladder[3][1] = (r.ctx.capability # p.capability)
      /\ ladder[9][1] = (s.robot # r.ctx.robot \/ s.edge # r.ctx.edge)
      /\ ladder[10][1] = (s.mission # r.ctx.mission)
      /\ ladder[12] = Sub(state_auth_violation(s))
      /\ ladder[13] = Sub(state_time_violation(s, now))
      /\ ladder[15][1] = network_requirements_malformed(p.network)
      /\ ladder[16][1] = network_state_malformed(s.network)
      /\ ladder[18][1] = (p.geofence_required /\ (\/ s.geofence.id # p.geofence_id
                                                  \/ s.geofence.inside # p.geofence_allowed))
      /\ ladder[20] = Sub(evaluate_network_requirements(p.network, s.network))
    BY DEF policy_checks
<1> HIDE DEF ladder
<1>3. /\ ~ladder[3][1] /\ ~ladder[9][1] /\ ~ladder[10][1] /\ ~ladder[12][1] /\ ~ladder[13][1]
      /\ ~ladder[15][1] /\ ~ladder[16][1] /\ ~ladder[18][1] /\ ~ladder[20][1]
    BY <1>1
<1>4. /\ state_auth_violation(s) = Valid
      /\ state_time_violation(s, now) = Valid
      /\ evaluate_network_requirements(p.network, s.network) = Valid
    BY <1>2, <1>3, SubHolds
<1> QED
    BY <1>2, <1>3, <1>4, Zenon

(* A network that needs no degrade meets the policy's limits.              *)
LEMMA GoodNetwork ==
    ASSUME NEW q, NEW n, evaluate_network_requirements(q, n) = Valid
    PROVE  /\ network_state_authority_violation(n) = Valid
           /\ ~(n.latency > q.max_latency)
           /\ ~(n.loss > q.max_loss)
           /\ ~(n.uplink < q.min_uplink)
<1> DEFINE ladder == network_checks(q, n)
<1>1. \A i \in 1..7 : ~ladder[i][1]
    BY NetworkChecks, LadderClear
<1>2. /\ ladder[1] = Sub(network_state_authority_violation(n))
      /\ ladder[5][1] = (n.latency > q.max_latency)
      /\ ladder[6][1] = (n.loss > q.max_loss)
      /\ ladder[7][1] = (n.uplink < q.min_uplink)
    BY DEF network_checks
<1> HIDE DEF ladder
<1>3. ~ladder[1][1] /\ ~ladder[5][1] /\ ~ladder[6][1] /\ ~ladder[7][1]
    BY <1>1
<1>4. network_state_authority_violation(n) = Valid
    BY <1>2, <1>3, SubHolds
<1> QED
    BY <1>2, <1>3, <1>4, Zenon

(* The constraints of a lease: the limits are there, are not negative, and *)
(* name the geofence of the state.                                         *)
LEMMA GrantedFields ==
    ASSUME NEW r \in Requests, NEW s \in States, NEW p \in Policies, NEW a, NEW now,
           policy_violation(r, s, p, a, now) = Valid
    PROVE  LET c == granted_constraints(r, s, p)
           IN  /\ {c.max_latency, c.max_loss, c.min_uplink} \subseteq Nat
               /\ c.max_loss <= 100
               /\ c.max_speed \in Nat \cup {None}
               /\ p.max_speed # None => c.max_speed # None
               /\ c.geofence_id = s.geofence.id
               /\ c.fallback_set = TRUE
               /\ r.requested = None =>
                     /\ c.max_latency = p.network.max_latency
                     /\ c.max_loss = p.network.max_loss
                     /\ c.min_uplink = p.network.min_uplink
<1> DEFINE base == base_constraints(s, p)
           q == r.requested
           c == granted_constraints(r, s, p)
<1>1. requested_constraint_violation(base, q) = Valid
    BY AllowedRequest
<1>2. /\ base.geofence_id = s.geofence.id
      /\ base.max_latency = p.network.max_latency
      /\ base.max_loss = p.network.max_loss
      /\ base.min_uplink = p.network.min_uplink
      /\ base.max_speed = p.max_speed
      /\ base.fallback_set = TRUE
    BY DEF base_constraints
<1>3. ~network_requirements_malformed(p.network)
    BY AllowedFacts
<1>4. /\ {base.max_latency, base.max_loss, base.min_uplink} \subseteq Nat
      /\ base.max_loss <= 100
    BY <1>2, <1>3, MessagesAssumption DEF network_requirements_malformed, finite_nonnegative
<1>5. base.max_speed \in Nat \cup {None}
    BY <1>2, MessagesAssumption, LimitsAssumption DEF finite_nonnegative, OptionalInt
<1>6. CASE q = None
    <2>1. c = base
        BY <1>6 DEF granted_constraints, apply_requested_constraints
    <2> HIDE DEF base, c
    <2> QED
        BY <1>2, <1>4, <1>5, <2>1 DEF c
<1>7. CASE q # None
    <2>1. /\ c.geofence_id = narrowed(q.geofence_id, base.geofence_id)
          /\ c.max_latency = narrowed(q.max_latency, base.max_latency)
          /\ c.max_loss = narrowed(q.max_loss, base.max_loss)
          /\ c.min_uplink = narrowed(q.min_uplink, base.min_uplink)
          /\ c.max_speed = narrowed(q.max_speed, base.max_speed)
          /\ c.fallback_set = base.fallback_set
        BY <1>7 DEF granted_constraints, apply_requested_constraints, base_constraints
    <2>2. /\ {q.max_latency, q.max_loss, q.min_uplink, q.max_speed} \subseteq OptionalInt
          /\ \A v \in {q.max_latency, q.max_loss, q.max_speed} : v # None => v >= 0
        BY <1>7, MessagesAssumption, LimitsAssumption DEF finite_nonnegative
    <2> HIDE DEF base, c, q
    <2>3. /\ q.geofence_id # None => q.geofence_id = base.geofence_id
          /\ ~maximum_constraint_too_broad(q.max_loss, base.max_loss)
          /\ ~minimum_constraint_too_broad(q.min_uplink, base.min_uplink)
        BY <1>1, <1>7, NarrowRequest
    <2>4. c.geofence_id = base.geofence_id
        BY <2>1, <2>3 DEF narrowed
    <2>5. c.max_latency \in Nat
        BY <1>4, <2>1, <2>2 DEF narrowed, OptionalInt
    <2>6. c.max_loss \in Nat /\ c.max_loss <= 100
        BY <1>4, <2>1, <2>2, <2>3 DEF narrowed, OptionalInt, maximum_constraint_too_broad
    <2>7. c.min_uplink \in Nat
        BY <1>4, <2>1, <2>2, <2>3 DEF narrowed, OptionalInt, minimum_constraint_too_broad
    <2>8. c.max_speed \in Nat \cup {None} /\ (base.max_speed # None => c.max_speed # None)
        BY <1>5, <2>1, <2>2 DEF narrowed, OptionalInt
    <2> QED
        BY <1>2, <1>7, <2>1, <2>4, <2>5, <2>6, <2>7, <2>8 DEF c, q
<1> QED
    BY <1>6, <1>7
-----------------------------------------------------------------------------
(* The new lease at the edge.                                              *)

(* A lease that was just issued, for a call that was allowed.              *)
NewLease(l, r, s, p, a, now, at) ==
    /\ r \in Requests /\ s \in States /\ p \in Policies
    /\ policy_violation(r, s, p, a, now) = Valid
    /\ now \in Nat /\ at \in Nat /\ now <= at
    /\ "PROTOCOL_VERSION_UNSUPPORTED" \notin s.defects
    /\ l # None /\ l.issuer = IssuerId /\ l.ctx = r.ctx /\ l.policy = p.policy /\ l.defects = {}
    /\ l.issued_at = at /\ l.expires_at = at + p.lease_ttl
    /\ l.constraints = granted_constraints(r, s, p)

(* Its signature, time window, scope and constraints meet the rules.       *)
LEMMA NewLeaseRules ==
    ASSUME NEW l, NEW r, NEW s, NEW p, NEW a, NEW now, NEW at, NewLease(l, r, s, p, a, now, at)
    PROVE  /\ lease_signature_violation(l) = Valid
           /\ capability_scope_violation(l) = Valid
           /\ lease_time_violation(l, at) = Valid
           /\ capability_constraint_requirement_violation(l) = Valid
           /\ ~lease_constraints_malformed(l)
<1> DEFINE c == l.constraints
<1>0. /\ r \in Requests /\ s \in States /\ p \in Policies /\ at \in Nat
      /\ policy_violation(r, s, p, a, now) = Valid
    BY DEF NewLease
<1>1. l.ctx.capability = p.capability
    BY <1>0, AllowedFacts DEF NewLease
<1>2. /\ {c.max_latency, c.max_loss, c.min_uplink} \subseteq Nat
      /\ c.max_loss <= 100
      /\ c.max_speed \in Nat \cup {None}
      /\ p.max_speed # None => c.max_speed # None
      /\ c.geofence_id = s.geofence.id
      /\ c.fallback_set = TRUE
    <2>1. c = granted_constraints(r, s, p)
        BY DEF NewLease
    <2> HIDE DEF c
    <2> QED
        BY <1>0, <2>1, GrantedFields
<1>3. lease_signature_violation(l) = Valid
    <2> DEFINE codes == << "LEASE_SIGNATURE_ALGORITHM_MISSING", "LEASE_SIGNATURE_ALGORITHM_UNSUPPORTED",
                           "LEASE_SIGNED_MATERIAL_TOO_LARGE", "INVALID_SIGNATURE" >>
               checks == Static(l, codes)
    <2>1. DOMAIN codes = 1..4
        OBVIOUS
    <2> HIDE DEF codes
    <2>2. DOMAIN checks = 1..4 /\ \A i \in 1..4 : ~checks[i][1]
        BY <2>1 DEF Static, NewLease
    <2> HIDE DEF checks
    <2>3. FirstViolation(checks) = Valid
        BY <2>2, LadderPass
    <2> QED
        BY <2>3 DEF lease_signature_violation, checks, codes
<1>4. capability_scope_violation(l) = Valid
    <2> DEFINE checks == <<
        <<AcceptedCapabilities = {}, "CAPABILITY_SCOPE_REQUIRED">>,
        <<l.ctx.capability \notin AcceptedCapabilities, "CAPABILITY_NOT_GRANTED">>,
        <<\/ l.issuer \notin DOMAIN IssuerScopes
          \/ l.ctx.capability \notin IssuerScopes[l.issuer], "CAPABILITY_NOT_GRANTED">> >>
    <2>1. /\ l.ctx.capability \in AcceptedCapabilities
          /\ l.issuer \in DOMAIN IssuerScopes
          /\ l.ctx.capability \in IssuerScopes[l.issuer]
        BY <1>0, <1>1, EdgeAssumption, ScopesAssumption DEF NewLease
    <2>2. ~checks[1][1] /\ ~checks[2][1] /\ ~checks[3][1]
        BY <2>1
    <2>d. DOMAIN checks = 1..3
        OBVIOUS
    <2>3. capability_scope_violation(l) = FirstViolation(checks)
        BY DEF capability_scope_violation
    <2> HIDE DEF checks
    <2>p. \A i \in 1..3 : ~checks[i][1]
        BY <2>2
    <2> QED
        BY <2>d, <2>p, <2>3, LadderPass
<1>5. lease_time_violation(l, at) = Valid
    <2> DEFINE checks == <<
        <<l.issued_at > at + ClockSkew, "LEASE_NOT_YET_VALID">>,
        <<is_expired(l, at), "LEASE_EXPIRED">>,
        <<l.expires_at <= l.issued_at, "LEASE_TIME_WINDOW_INVALID">>,
        <<l.expires_at - l.issued_at > MaxLeaseTtl, "LEASE_TTL_TOO_LONG">>,
        <<at - l.issued_at > MaxLeaseAge + ClockSkew, "LEASE_STALE">> >>
    <2>1. /\ p.lease_ttl \in Nat \ {0} /\ p.lease_ttl <= MaxLeaseTtl
          /\ l.issued_at = at /\ l.expires_at = at + p.lease_ttl
        BY <1>0, MessagesAssumption, EdgeAssumption DEF NewLease
    <2>2. l.issued_at # None /\ l.expires_at # None
        BY <1>0, <2>1, EdgeAssumption
    <2>3. /\ ~(l.issued_at > at + ClockSkew)
          /\ ~is_expired(l, at)
          /\ ~(l.expires_at <= l.issued_at)
          /\ ~(l.expires_at - l.issued_at > MaxLeaseTtl)
          /\ ~(at - l.issued_at > MaxLeaseAge + ClockSkew)
        BY <1>0, <2>1, DurationsAssumption DEF is_expired
    <2>4. ~checks[1][1] /\ ~checks[2][1] /\ ~checks[3][1] /\ ~checks[4][1] /\ ~checks[5][1]
        BY <2>3
    <2>d. DOMAIN checks = 1..5
        OBVIOUS
    <2>5. lease_time_violation(l, at) = FirstViolation(checks)
        BY <2>2, Zenon DEF lease_time_violation
    <2> HIDE DEF checks
    <2>p. \A i \in 1..5 : ~checks[i][1]
        BY <2>4
    <2> QED
        BY <2>d, <2>p, <2>5, LadderPass
<1>6. capability_constraint_requirement_violation(l) = Valid
    <2> DEFINE known == l.ctx.capability \in DOMAIN Requirements
               missing == capability_constraints_missing(c, Requirements[l.ctx.capability])
               checks == <<
            <<~known, "CAPABILITY_CONSTRAINT_REQUIREMENTS_REQUIRED">>,
            <<known /\ missing, "LEASE_CONSTRAINTS_MISSING">> >>
    <2>1. known /\ (Requirements[p.capability].max_speed => p.max_speed # None)
        BY <1>0, <1>1, EdgeAssumption
    <2>2. None \notin {c.max_latency, c.max_loss, c.min_uplink} /\ c.geofence_id # None
        BY <1>0, <1>2, EdgeAssumption, LimitsAssumption
    <2>3. ~missing
        BY <1>1, <1>2, <2>1, <2>2 DEF capability_constraints_missing
    <2>4. capability_constraint_requirement_violation(l) = FirstViolation(checks)
        BY Zenon DEF capability_constraint_requirement_violation
    <2> HIDE DEF known, missing
    <2>5. ~checks[1][1] /\ ~checks[2][1]
        BY <2>1, <2>3
    <2>d. DOMAIN checks = 1..2
        OBVIOUS
    <2> HIDE DEF checks
    <2>p. \A i \in 1..2 : ~checks[i][1]
        BY <2>5
    <2> QED
        BY <2>d, <2>p, <2>4, LadderPass
<1>7. ~lease_constraints_malformed(l)
    BY <1>2 DEF lease_constraints_malformed, finite_nonnegative
<1> QED
    BY <1>3, <1>4, <1>5, <1>6, <1>7

(* The rules of the edge that read the policy hold too.                    *)
LEMMA NewLeasePolicy ==
    ASSUME NEW l, NEW r, NEW s, NEW p, NEW a, NEW now, NEW at, NewLease(l, r, s, p, a, now, at)
    PROVE  /\ Edge(p)!lease_policy_provenance_violation(l) = Valid
           /\ Edge(p)!capability_constraint_bound_violation(l) = Valid
<1>0. /\ r \in Requests /\ s \in States /\ p \in Policies
      /\ policy_violation(r, s, p, a, now) = Valid
    BY DEF NewLease
<1>1. Edge(p)!lease_policy_provenance_violation(l) = Valid
    <2> DEFINE checks == <<
        <<{p.policy} = {}, "POLICY_PROVENANCE_REQUIRED">>,
        <<l.policy = None, "LEASE_POLICY_PROVENANCE_REQUIRED">>,
        <<l.policy \notin {p.policy}, "LEASE_POLICY_NOT_ACCEPTED">> >>
    <2>1. l.policy = p.policy /\ p.policy # None
        BY <1>0, EdgeAssumption DEF NewLease
    <2>2. ~checks[1][1] /\ ~checks[2][1] /\ ~checks[3][1]
        BY <2>1
    <2>d. DOMAIN checks = 1..3
        OBVIOUS
    <2>3. Edge(p)!lease_policy_provenance_violation(l) = FirstViolation(checks)
        BY EdgeLadder, Zenon DEF Edge!lease_policy_provenance_violation
    <2> HIDE DEF checks
    <2>p. \A i \in 1..3 : ~checks[i][1]
        BY <2>2
    <2> QED
        BY <2>d, <2>p, <2>3, LadderPass
<1>2. Edge(p)!capability_constraint_bound_violation(l) = Valid
    <2> DEFINE bounds == [c \in {p.capability} |-> policy_constraint_bounds(p)]
               known == l.ctx.capability \in DOMAIN bounds
               exceeds == Edge(p)!capability_constraints_exceed_bounds(l.constraints, bounds[l.ctx.capability])
               checks == <<
            <<~known, "CAPABILITY_CONSTRAINT_BOUNDS_REQUIRED">>,
            <<known /\ exceeds, "LEASE_CONSTRAINTS_EXCEED_POLICY">> >>
    <2>1. l.ctx.capability = p.capability
        BY <1>0, AllowedFacts DEF NewLease
    <2>2. known /\ bounds[l.ctx.capability] = policy_constraint_bounds(p)
        BY <2>1
    <2>3. ~capability_constraints_exceed_bounds(l.constraints, policy_constraint_bounds(p))
        BY <1>0, GrantedWithinBounds DEF NewLease
    <2>4. \A c, b : Edge(p)!capability_constraints_exceed_bounds(c, b) = capability_constraints_exceed_bounds(c, b)
        BY DEF Edge!capability_constraints_exceed_bounds, capability_constraints_exceed_bounds,
               Edge!max_field_exceeds_policy, max_field_exceeds_policy,
               Edge!min_field_exceeds_policy, min_field_exceeds_policy
    <2>5. ~exceeds
        BY <2>2, <2>3, <2>4
    <2>6. Edge(p)!capability_constraint_bound_violation(l) = FirstViolation(checks)
        BY EdgeLadder, Zenon DEF Edge!capability_constraint_bound_violation
    <2> HIDE DEF known, exceeds, bounds
    <2>7. ~checks[1][1] /\ ~checks[2][1]
        BY <2>2, <2>5
    <2>d. DOMAIN checks = 1..2
        OBVIOUS
    <2> HIDE DEF checks
    <2>p. \A i \in 1..2 : ~checks[i][1]
        BY <2>7
    <2> QED
        BY <2>d, <2>p, <2>6, LadderPass
<1> QED
    BY <1>1, <1>2

(* So the edge's answer is what it says of the robot's state.              *)
LEMMA OnlyStateDecides ==
    ASSUME NEW l, NEW r, NEW s, NEW p, NEW a, NEW now, NEW at, NewLease(l, r, s, p, a, now, at)
    PROVE  Edge(p)!validate_lease_for_command(l, ModestCommand(l), s, {}, at)
               = current_state_violation(l, s, at)
<1> DEFINE c == ModestCommand(l)
           checks == Edge(p)!admission_checks(l, c, s, {}, at)
           payload == Edge(p)!validate_command_payload_against_constraints(l, c.payload)
<1>1. /\ l # None /\ l.issuer = IssuerId /\ l.defects = {} /\ c.ctx = l.ctx
    BY DEF NewLease, ModestCommand
<1>2. payload = Valid
    <2>1. l.constraints.max_speed \in Nat \cup {None}
        BY GrantedFields DEF NewLease
    <2> QED
        BY <2>1, ModestPayload DEF OptionalInt
<1> HIDE DEF c, payload
<1>3. /\ DOMAIN checks = 1..14
      /\ ~checks[1][1]
      /\ checks[2][1] = (l.issuer \notin TrustedIssuers)
      /\ checks[3][1] = (l.issuer \notin IssuerKeys)
      /\ checks[4] = Sub(lease_signature_violation(l))
      /\ checks[5] = Sub(Edge(p)!lease_policy_provenance_violation(l))
      /\ checks[6] = Sub(capability_scope_violation(l))
      /\ checks[7] = Sub(lease_time_violation(l, at))
      /\ checks[8] = Sub(capability_constraint_requirement_violation(l))
      /\ checks[9][1] = lease_constraints_malformed(l)
      /\ checks[10] = Sub(Edge(p)!capability_constraint_bound_violation(l))
      /\ checks[11][1] = ~Edge(p)!lease_matches_context(l, c.ctx)
      /\ checks[12][1] = (l.lease_id \in {})
      /\ checks[13] = Sub(current_state_violation(l, s, at))
      /\ checks[14] = Sub(payload)
    <2>1. /\ DOMAIN checks = 1..14
          /\ checks[1][1] = ("PROTOCOL_VERSION_UNSUPPORTED" \in l.defects)
          /\ checks[2][1] = (l.issuer \notin TrustedIssuers)
          /\ checks[3][1] = (l.issuer \notin IssuerKeys)
          /\ checks[4] = Edge(p)!Sub(Edge(p)!lease_signature_violation(l))
          /\ checks[5] = Edge(p)!Sub(Edge(p)!lease_policy_provenance_violation(l))
          /\ checks[6] = Edge(p)!Sub(Edge(p)!capability_scope_violation(l))
          /\ checks[7] = Edge(p)!Sub(Edge(p)!lease_time_violation(l, at))
          /\ checks[8] = Edge(p)!Sub(Edge(p)!capability_constraint_requirement_violation(l))
          /\ checks[9][1] = Edge(p)!lease_constraints_malformed(l)
          /\ checks[10] = Edge(p)!Sub(Edge(p)!capability_constraint_bound_violation(l))
          /\ checks[11][1] = ~Edge(p)!lease_matches_context(l, c.ctx)
          /\ checks[12][1] = (l.lease_id \in {})
          /\ checks[13] = Edge(p)!Sub(Edge(p)!current_state_violation(l, s, at))
          /\ checks[14] = Edge(p)!Sub(payload)
        BY DEF Edge!admission_checks, payload
    <2> HIDE DEF checks
    <2>2. "PROTOCOL_VERSION_UNSUPPORTED" \notin l.defects
        BY <1>1
    <2>3. ~checks[1][1]
        BY <2>1, <2>2, Zenon
    <2>4. \A x : Edge(p)!Sub(x) = Sub(x)
        BY EdgeLadder
    <2>5. /\ Edge(p)!lease_signature_violation(l) = lease_signature_violation(l)
          /\ Edge(p)!capability_scope_violation(l) = capability_scope_violation(l)
          /\ Edge(p)!lease_time_violation(l, at) = lease_time_violation(l, at)
          /\ Edge(p)!capability_constraint_requirement_violation(l)
                = capability_constraint_requirement_violation(l)
          /\ Edge(p)!lease_constraints_malformed(l) = lease_constraints_malformed(l)
        BY EdgeLeaseRules, Zenon
    <2>6. Edge(p)!current_state_violation(l, s, at) = current_state_violation(l, s, at)
        BY EdgeStateRules, Zenon
    <2> QED
        BY <2>1, <2>3, <2>4, <2>5, <2>6
<1>4. Edge(p)!validate_lease_for_command(l, c, s, {}, at) = FirstViolation(checks)
    BY <1>1, EdgeLadder, Zenon DEF Edge!validate_lease_for_command
<1> HIDE DEF checks
<1>5. ~checks[2][1] /\ ~checks[3][1] /\ ~checks[9][1] /\ ~checks[11][1] /\ ~checks[12][1]
    <2>1. l.issuer \in TrustedIssuers /\ l.issuer \in IssuerKeys
        BY <1>1, EdgeAssumption
    <2>2. Edge(p)!lease_matches_context(l, c.ctx)
        BY <1>1 DEF Edge!lease_matches_context
    <2>3. ~lease_constraints_malformed(l)
        BY NewLeaseRules
    <2> QED
        BY <1>3, <2>1, <2>2, <2>3, Zenon
<1>6. /\ checks[4] = Sub(Valid) /\ checks[5] = Sub(Valid) /\ checks[6] = Sub(Valid)
      /\ checks[7] = Sub(Valid) /\ checks[8] = Sub(Valid) /\ checks[10] = Sub(Valid)
      /\ checks[14] = Sub(Valid)
    <2>1. /\ lease_signature_violation(l) = Valid
          /\ capability_scope_violation(l) = Valid
          /\ lease_time_violation(l, at) = Valid
          /\ capability_constraint_requirement_violation(l) = Valid
        BY NewLeaseRules
    <2>2. /\ Edge(p)!lease_policy_provenance_violation(l) = Valid
          /\ Edge(p)!capability_constraint_bound_violation(l) = Valid
        BY NewLeasePolicy
    <2> QED
        BY <1>2, <1>3, <2>1, <2>2
<1>7. ~Sub(Valid)[1]
    BY SubAnswer
<1>8. \A i \in 1..14 : i # 13 => ~checks[i][1]
    BY <1>3, <1>5, <1>6, <1>7
<1>9. FirstViolation(checks) = current_state_violation(l, s, at)
    <2>1. checks[13] = Sub(current_state_violation(l, s, at)) /\ DOMAIN checks = 1..14
        BY <1>3
    <2>2. 14 \in Nat /\ 13 \in 1..14
        OBVIOUS
    <2> QED
        BY <1>8, <2>1, <2>2, LadderOnly, Zenon
<1> QED
    BY <1>4, <1>9 DEF c
-----------------------------------------------------------------------------
(* The state of the decision, when the lease is issued.                    *)

\* What state_time_violation() answers with.
state_reasons == [invalid |-> "STATE_TIMESTAMP_INVALID", early |-> "STATE_NOT_YET_VALID",
                  stale |-> "STATE_STALE"]

(* A timestamp that was good a while ago is good or stale now.             *)
LEMMA StampAges ==
    ASSUME NEW t \in OptionalInt, NEW now \in Nat, NEW at \in Nat, now <= at,
           StampViolation(t, now, MaxStateAge, state_reasons) = Valid
    PROVE  StampViolation(t, at, MaxStateAge, state_reasons) \in {Valid, "STATE_STALE"}
<1> DEFINE checks(x) == <<
        <<t = None, "STATE_TIMESTAMP_INVALID">>,
        <<t # None /\ t > x + ClockSkew, "STATE_NOT_YET_VALID">>,
        <<t # None /\ x - t > MaxStateAge + ClockSkew, "STATE_STALE">> >>
<1>1. \A x : StampViolation(t, x, MaxStateAge, state_reasons) = FirstViolation(checks(x))
    BY DEF StampViolation, state_reasons
<1>2. \A x : DOMAIN checks(x) = 1..3
    OBVIOUS
<1>3. \A x : /\ checks(x)[1][1] = (t = None) /\ checks(x)[1][2] = "STATE_TIMESTAMP_INVALID"
            /\ checks(x)[2][1] = (t # None /\ t > x + ClockSkew) /\ checks(x)[2][2] = "STATE_NOT_YET_VALID"
            /\ checks(x)[3][2] = "STATE_STALE"
    OBVIOUS
<1> HIDE DEF checks
<1>4. \A i \in 1..3 : checks(now)[i][2] # Valid
    BY <1>3 DEF Valid
<1>5. FirstViolation(checks(now)) = Valid
    BY <1>1
<1>6. ~checks(now)[1][1] /\ ~checks(now)[2][1]
    BY <1>2, <1>4, <1>5, LadderClear
<1>7. t # None /\ ~(t > now + ClockSkew)
    BY <1>3, <1>6, Zenon
<1>8. t # None /\ ~(t > at + ClockSkew)
    BY <1>7, DurationsAssumption DEF OptionalInt
<1>9. ~checks(at)[1][1] /\ ~checks(at)[2][1]
    BY <1>3, <1>8, Zenon
<1>10. \A i \in 1..3 : checks(at)[i][1] => checks(at)[i][2] \in {Valid, "STATE_STALE"}
    BY <1>3, <1>9
<1>11. FirstViolation(checks(at)) \in {Valid, "STATE_STALE"}
    BY <1>2, <1>10, LadderIn
<1> QED
    BY <1>1, <1>11

(* So a state that was current is current or stale.                        *)
LEMMA StateAges ==
    ASSUME NEW s \in States, NEW now \in Nat, NEW at \in Nat, now <= at,
           state_time_violation(s, now) = Valid
    PROVE  state_time_violation(s, at) \in {Valid, "STATE_STALE"}
<1> DEFINE D == DOMAIN s.stamps
           verdict(k, x) == StampViolation(s.stamps[k], x, MaxStateAge, state_reasons)
           checks(x) == [k \in D |-> Sub(verdict(k, x))]
<1>1. \A x : state_time_violation(s, x) = FirstViolation(checks(x))
    BY DEF state_time_violation, StampsViolation, state_reasons
<1>2. D \subseteq Nat /\ \A k \in D : s.stamps[k] \in OptionalInt
    BY LimitsAssumption
<1> HIDE DEF verdict, D
<1>3. \A x : DOMAIN checks(x) = D /\ \A k \in D : checks(x)[k] = Sub(verdict(k, x))
    OBVIOUS
<1> HIDE DEF checks
<1>4. \A k \in D : checks(now)[k][1] => checks(now)[k][2] # Valid
    BY <1>3, SubClear
<1>5. FirstViolation(checks(now)) = Valid /\ DOMAIN checks(now) = D
    BY <1>1, <1>3
<1>6. \A k \in D : ~checks(now)[k][1]
    BY <1>2, <1>4, <1>5, LadderClear
<1>7. \A k \in D : verdict(k, now) = Valid
    BY <1>3, <1>6, SubHolds
<1>8. \A k \in D : verdict(k, at) \in {Valid, "STATE_STALE"}
    BY <1>2, <1>7, StampAges DEF verdict
<1>9. \A k \in D : checks(at)[k][1] => checks(at)[k][2] = "STATE_STALE"
    BY <1>3, <1>8, SubAnswer
<1>10. DOMAIN checks(at) = D
    BY <1>3
<1>11. FirstViolation(checks(at)) \in {Valid, "STATE_STALE"}
    BY <1>2, <1>9, <1>10, LadderAnswer
<1> QED
    BY <1>1, <1>11

(* What the edge says of the state that the decision was made on.          *)
LEMMA StateVerdict ==
    ASSUME NEW l, NEW r, NEW s, NEW p, NEW a, NEW now, NEW at, NewLease(l, r, s, p, a, now, at)
    PROVE  /\ current_state_violation(l, s, at) \in
                {Valid, "STATE_STALE", "GEOFENCE_CONSTRAINT_VIOLATED", "NETWORK_LATENCY_TOO_HIGH",
                 "NETWORK_PACKET_LOSS_TOO_HIGH", "NETWORK_UPLINK_TOO_LOW"}
           /\ p.geofence_required /\ p.geofence_allowed /\ r.requested = None
                => current_state_violation(l, s, at) \in
                       IF at = now THEN {Valid} ELSE {Valid, "STATE_STALE"}
<1> DEFINE c == l.constraints
           n == s.network
           time == state_time_violation(s, at)
           fit == validate_lease_against_state(l, s)
           old == "PROTOCOL_VERSION_UNSUPPORTED" \in s.defects
           checks == << Sub(state_auth_violation(s)),
                        <<old, "PROTOCOL_VERSION_UNSUPPORTED">>,
                        Sub(time),
                        Sub(fit) >>
           Fits == {Valid, "GEOFENCE_CONSTRAINT_VIOLATED", "NETWORK_LATENCY_TOO_HIGH",
                    "NETWORK_PACKET_LOSS_TOO_HIGH", "NETWORK_UPLINK_TOO_LOW"}
<1>0. /\ r \in Requests /\ s \in States /\ p \in Policies /\ now \in Nat /\ at \in Nat /\ now <= at
      /\ policy_violation(r, s, p, a, now) = Valid /\ ~old /\ l.ctx = r.ctx
      /\ c = granted_constraints(r, s, p)
    BY DEF NewLease
<1>1. /\ s.robot = l.ctx.robot /\ s.edge = l.ctx.edge /\ s.mission = l.ctx.mission
      /\ state_auth_violation(s) = Valid
      /\ state_time_violation(s, now) = Valid
      /\ ~network_state_malformed(n)
      /\ p.geofence_required => s.geofence.inside = p.geofence_allowed
      /\ evaluate_network_requirements(p.network, n) = Valid
    BY <1>0, AllowedFacts
<1>2. /\ network_state_authority_violation(n) = Valid
      /\ ~(n.latency > p.network.max_latency)
      /\ ~(n.loss > p.network.max_loss)
      /\ ~(n.uplink < p.network.min_uplink)
    BY <1>1, GoodNetwork
<1>3. /\ c.geofence_id = s.geofence.id
      /\ r.requested = None => /\ c.max_latency = p.network.max_latency
                               /\ c.max_loss = p.network.max_loss
                               /\ c.min_uplink = p.network.min_uplink
    <2> HIDE DEF c
    <2> QED
        BY <1>0, GrantedFields
<1>4. /\ fit \in Fits
      /\ p.geofence_required /\ p.geofence_allowed /\ r.requested = None => fit = Valid
    <2> DEFINE mismatch == \/ s.robot # l.ctx.robot
                           \/ s.edge # l.ctx.edge
                           \/ s.mission # l.ctx.mission
               outside == geofence_violated(c, s.geofence)
               slow == c.max_latency # None /\ n.latency > c.max_latency
               lossy == c.max_loss # None /\ n.loss > c.max_loss
               narrow == c.min_uplink # None /\ n.uplink < c.min_uplink
               ladder == <<
            <<mismatch, "LEASE_STATE_MISMATCH">>,
            <<outside, "GEOFENCE_CONSTRAINT_VIOLATED">>,
            <<network_state_malformed(n), "NETWORK_STATE_MALFORMED">>,
            Sub(network_state_authority_violation(n)),
            <<slow, "NETWORK_LATENCY_TOO_HIGH">>,
            <<lossy, "NETWORK_PACKET_LOSS_TOO_HIGH">>,
            <<narrow, "NETWORK_UPLINK_TOO_LOW">> >>
    <2>1. fit = FirstViolation(ladder)
        BY Zenon DEF validate_lease_against_state
    <2>2. ~mismatch
        BY <1>1
    <2>3. p.geofence_required /\ p.geofence_allowed /\ r.requested = None
          => ~outside /\ ~slow /\ ~lossy /\ ~narrow
        BY <1>1, <1>2, <1>3 DEF geofence_violated
    <2> HIDE DEF mismatch, outside, slow, lossy, narrow, fit, n
    <2>4. DOMAIN ladder = 1..7
        OBVIOUS
    <2>5. /\ ~ladder[1][1] /\ ~ladder[3][1]
          /\ ladder[2][1] = outside /\ ladder[5][1] = slow
          /\ ladder[6][1] = lossy /\ ladder[7][1] = narrow
          /\ ladder[4] = Sub(Valid)
          /\ ladder[2][2] = "GEOFENCE_CONSTRAINT_VIOLATED"
          /\ ladder[5][2] = "NETWORK_LATENCY_TOO_HIGH"
          /\ ladder[6][2] = "NETWORK_PACKET_LOSS_TOO_HIGH"
          /\ ladder[7][2] = "NETWORK_UPLINK_TOO_LOW"
        BY <1>1, <1>2, <2>2
    <2> HIDE DEF ladder
    <2>6. ~ladder[4][1]
        BY <2>5, SubAnswer
    <2>7. \A i \in 1..7 : ladder[i][1] => ladder[i][2] \in Fits
        BY <2>5, <2>6
    <2>8. fit \in Fits
        <3>1. Valid \in Fits
            OBVIOUS
        <3> HIDE DEF Fits
        <3> QED
            BY <2>1, <2>4, <2>7, <3>1, LadderIn
    <2>9. ASSUME ~outside, ~slow, ~lossy, ~narrow PROVE fit = Valid
        <3>1. \A i \in 1..7 : ~ladder[i][1]
            BY <2>5, <2>6, <2>9
        <3> QED
            BY <2>1, <2>4, <3>1, LadderPass
    <2> QED
        BY <2>3, <2>8, <2>9
<1>5. /\ time \in {Valid, "STATE_STALE"}
      /\ at = now => time = Valid
    BY <1>0, <1>1, StateAges
<1>6. current_state_violation(l, s, at) = FirstViolation(checks)
    <2>1. s # None
        BY <1>0, EngineAssumption
    <2> QED
        BY <2>1, Zenon DEF current_state_violation
<1> HIDE DEF time, fit, old
<1>7. DOMAIN checks = 1..4
    OBVIOUS
<1>8. /\ checks[1] = Sub(Valid) /\ ~checks[2][1]
      /\ checks[3] = Sub(time) /\ checks[4] = Sub(fit)
    BY <1>0, <1>1
<1> HIDE DEF checks
<1>9. /\ ~checks[1][1]
      /\ checks[3][1] => checks[3][2] = "STATE_STALE"
      /\ checks[3][1] => time = "STATE_STALE"
      /\ checks[4][2] = fit /\ (checks[4][1] <=> fit # Valid)
    BY <1>5, <1>8, SubAnswer
<1>10. \A i \in 1..4 : checks[i][1] => checks[i][2] \in Fits \cup {"STATE_STALE"}
    BY <1>4, <1>8, <1>9
<1>11. FirstViolation(checks) \in Fits \cup {"STATE_STALE"}
    <2> DEFINE R == Fits \cup {"STATE_STALE"}
    <2>1. Valid \in R
        OBVIOUS
    <2> HIDE DEF R
    <2>2. FirstViolation(checks) \in R
        <3>1. \A i \in 1..4 : checks[i][1] => checks[i][2] \in R
            BY <1>10 DEF R
        <3> QED
            BY <1>7, <2>1, <3>1, LadderIn
    <2> QED
        BY <2>2 DEF R
<1>12. ASSUME p.geofence_required, p.geofence_allowed, r.requested = None
       PROVE  FirstViolation(checks) \in IF at = now THEN {Valid} ELSE {Valid, "STATE_STALE"}
    <2>1. \A i \in 1..4 : checks[i][1] => i = 3 /\ checks[i][2] = "STATE_STALE" /\ at # now
        BY <1>4, <1>5, <1>8, <1>9, <1>12 DEF Valid
    <2>2. \A i \in 1..4 : checks[i][1] => checks[i][2] \in IF at = now THEN {Valid} ELSE {Valid, "STATE_STALE"}
        BY <2>1
    <2> QED
        BY <1>7, <2>2, LadderIn
<1> QED
    BY <1>6, <1>11, <1>12
-----------------------------------------------------------------------------
(* The theorems.                                                           *)

(* A lease with its grounds is a new lease at the moment it was issued.    *)
LEMMA GroundedIsNew ==
    ASSUME NEW x, NEW n \in Nat, NEW w \in Work, NEW at \in 0..MaxClock, Grounds(x, n, w, at)
    PROVE  /\ NewLease(x.lease, w.request, w.state, w.policy, w.assertion, w.now, at)
           /\ x.request = w.request /\ x.state = w.state /\ x.policy = w.policy /\ x.decided_at = w.now
           /\ x.lease.issued_at = at
<1>1. /\ x.lease = issue_lease(w, n, at)
      /\ x.request = w.request /\ x.state = w.state /\ x.policy = w.policy /\ x.decided_at = w.now
    BY GrantFields DEF Grounds
<1>2. /\ x.lease.issuer = IssuerId
      /\ x.lease.ctx = w.request.ctx
      /\ x.lease.policy = w.policy.policy
      /\ x.lease.issued_at = at
      /\ x.lease.expires_at = at + w.policy.lease_ttl
      /\ x.lease.defects = {}
      /\ x.lease.constraints = granted_constraints(w.request, w.state, w.policy)
    BY <1>1, GrantFields
<1>3. w.now \in Nat /\ at \in Nat
    BY EngineAssumption DEF Work
<1>4. policy_violation(w.request, w.state, w.policy, w.assertion, w.now) = Valid
    BY DEF Grounds, Verdict
<1>5. x.lease # None
    <2>1. w.request \in Requests /\ w.state \in States /\ w.policy \in Policies
        BY DEF Grounds
    <2>2. /\ w.request.ctx \in {r.ctx : r \in Requests}
          /\ w.policy.policy \in {p.policy : p \in Policies}
          /\ granted_constraints(w.request, w.state, w.policy) \in
                {granted_constraints(r, s, p) : r \in Requests, s \in States, p \in Policies}
        BY <2>1
    <2>3. at + w.policy.lease_ttl \in Nat
        BY <1>3, <2>1, MessagesAssumption
    <2>4. issue_lease(w, n, at) \in IssuedLeases
        BY <1>3, <2>2, <2>3 DEF issue_lease, IssuedLeases
    <2> QED
        BY <1>1, <2>4, EdgeAssumption
<1> QED
    BY <1>1, <1>2, <1>3, <1>4, <1>5 DEF Grounds, NewLease

(* The edge's answer to the new lease is what it says of the state.        *)
LEMMA GroundedVerdict ==
    ASSUME NEW x, NEW n \in Nat, NEW w \in Work, NEW at \in 0..MaxClock, Grounds(x, n, w, at)
    PROVE  EdgeVerdict(x, x.lease.issued_at) = current_state_violation(x.lease, w.state, at)
<1>1. /\ NewLease(x.lease, w.request, w.state, w.policy, w.assertion, w.now, at)
      /\ x.state = w.state /\ x.policy = w.policy /\ x.lease.issued_at = at
    BY GroundedIsNew
<1>2. Edge(w.policy)!validate_lease_for_command(x.lease, ModestCommand(x.lease), w.state, {}, at)
          = current_state_violation(x.lease, w.state, at)
    BY <1>1, OnlyStateDecides
<1> QED
    BY <1>1, <1>2 DEF EdgeVerdict

(* Whatever was requested, the edge refuses a new lease for nothing but    *)
(* the robot's state: not for its issuer, its signature, its provenance,   *)
(* its scope, its time window or its constraints.                          *)
THEOREM RefusedOnlyForStateHolds == Spec => []RefusedOnlyForState
<1>1. ASSUME Histories, GroundedLeases PROVE RefusedOnlyForState
    <2> SUFFICES ASSUME NEW i \in DOMAIN issued
                 PROVE  EdgeVerdict(issued[i], issued[i].lease.issued_at) \in
                          {Valid, "STATE_STALE", "GEOFENCE_CONSTRAINT_VIOLATED", "NETWORK_LATENCY_TOO_HIGH",
                           "NETWORK_PACKET_LOSS_TOO_HIGH", "NETWORK_UPLINK_TOO_LOW"}
        BY DEF RefusedOnlyForState
    <2>1. PICK w \in Work, at \in 0..MaxClock : Grounds(issued[i], i, w, at)
        BY <1>1 DEF GroundedLeases
    <2>n. i \in Nat
        BY <1>1 DEF Histories
    <2>2. NewLease(issued[i].lease, w.request, w.state, w.policy, w.assertion, w.now, at)
        BY <2>1, <2>n, GroundedIsNew
    <2>3. current_state_violation(issued[i].lease, w.state, at) \in
              {Valid, "STATE_STALE", "GEOFENCE_CONSTRAINT_VIOLATED", "NETWORK_LATENCY_TOO_HIGH",
               "NETWORK_PACKET_LOSS_TOO_HIGH", "NETWORK_UPLINK_TOO_LOW"}
        BY <2>2, StateVerdict
    <2> QED
        BY <2>1, <2>3, <2>n, GroundedVerdict
<1>2. Spec => []TypeInv
    BY InitType, NextType, PTL DEF Spec
<1>3. TypeInv => Histories
    BY DEF TypeInv
<1> QED
    BY <1>1, <1>2, <1>3, LeasesGrounded, PTL

(* A lease under a policy that keeps the robot inside its geofence, for a  *)
(* request without narrower constraints, is admitted with the state of its *)
(* decision, unless that state went stale before the lease was issued.     *)
THEOREM GrantIsUsableHolds == Spec => []GrantIsUsable
<1>1. ASSUME Histories, GroundedLeases PROVE GrantIsUsable
    <2> SUFFICES ASSUME NEW i \in DOMAIN issued, issued[i].policy.geofence_required,
                        issued[i].policy.geofence_allowed, issued[i].request.requested = None
                 PROVE  EdgeVerdict(issued[i], issued[i].lease.issued_at) \in
                          IF issued[i].lease.issued_at = issued[i].decided_at
                          THEN {Valid} ELSE {Valid, "STATE_STALE"}
        BY DEF GrantIsUsable
    <2>1. PICK w \in Work, at \in 0..MaxClock : Grounds(issued[i], i, w, at)
        BY <1>1 DEF GroundedLeases
    <2>n. i \in Nat
        BY <1>1 DEF Histories
    <2>2. /\ NewLease(issued[i].lease, w.request, w.state, w.policy, w.assertion, w.now, at)
          /\ issued[i].request = w.request /\ issued[i].policy = w.policy
          /\ issued[i].decided_at = w.now /\ issued[i].lease.issued_at = at
        BY <2>1, <2>n, GroundedIsNew
    <2>3. current_state_violation(issued[i].lease, w.state, at) \in
              IF at = w.now THEN {Valid} ELSE {Valid, "STATE_STALE"}
        BY <2>2, StateVerdict
    <2> QED
        BY <2>1, <2>2, <2>3, <2>n, GroundedVerdict
<1>2. Spec => []TypeInv
    BY InitType, NextType, PTL DEF Spec
<1>3. TypeInv => Histories
    BY DEF TypeInv
<1> QED
    BY <1>1, <1>2, <1>3, LeasesGrounded, PTL
=============================================================================
