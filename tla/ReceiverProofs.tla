--------------------------- MODULE ReceiverProofs ---------------------------
(***************************************************************************)
(* What the receivers of signed documents may conclude from one that they  *)
(* accept, and which they do accept: fallback declarations, attestations   *)
(* and audit batches, for every number of documents, keys and faults.      *)
(***************************************************************************)
EXTENDS Attestation, FallbackDelivery, AuditBatch, TLAPS, SequenceTheorems,
        WellFoundedInduction

-----------------------------------------------------------------------------
(* Fallback declarations.                                                  *)

DeclarationWith(Signatures) ==
    [message_id : Nat, edge_agent_id : Edges, trigger : Triggers, declared_by : Edges,
     authenticated_declared_by : Edges \cup {None}, defects : SUBSET {"ALGORITHM", "SIZE"},
     signature : Signatures]

FallbackSignature == [key : Keys, over : DeclarationWith({None})]
Declaration == DeclarationWith(FallbackSignature \cup {None})
FallbackVerdicts == {fallback_declaration_auth_violation(d) : d \in Declaration}

FallbackTypeOK ==
    /\ signer \in [Edges -> Keys \cup {None}]
    /\ declared_as \in [Edges -> Edges \cup {None}]
    /\ fallback_events \in Seq([by : Edges, declaration : Declaration])
    /\ wire \subseteq Declaration
    /\ received \in Seq([declaration : Declaration, verdict : FallbackVerdicts])

\* A declaration of the gate of edge e: signed, if at all, by its signer or by its sink.
DeclaredBy(d, e) ==
    /\ d.declared_by = e
    /\ d.defects = {}
    /\ d.signature # None =>
          \E key \in {EdgeKeys[e]} \cup ({signer[e]} \ {None}), as \in {declared_as[e], None} :
              d.authenticated_declared_by = Or(as, e) /\ d.signature = sign(key, d)

EventsDeclared ==
    \A i \in DOMAIN fallback_events :
        DeclaredBy(fallback_events[i].declaration, fallback_events[i].by)

\* What was forwarded with a signature is in the gate's memory as it was forwarded.
SignedStays ==
    \A d \in wire : d.signature # None =>
        \E i \in DOMAIN fallback_events : fallback_events[i].declaration = d

\* What was received came from the wire, and was judged by what it says.
ReceivedArrived ==
    \A i \in DOMAIN received :
        /\ \E d \in wire : received[i].declaration \in DeclarationArrivals(d)
        /\ received[i].verdict = fallback_declaration_auth_violation(received[i].declaration)

FallbackInv == FallbackTypeOK /\ EventsDeclared /\ SignedStays /\ ReceivedArrived

(* An element of a sequence.                                               *)
LEMMA ElementType == ASSUME NEW S, NEW s \in Seq(S), NEW i \in DOMAIN s PROVE s[i] \in S
OBVIOUS

(* An event of the gates' memory.                                          *)
LEMMA EventType ==
    ASSUME FallbackTypeOK, NEW i \in DOMAIN fallback_events
    PROVE  /\ fallback_events[i].by \in Edges
           /\ fallback_events[i].declaration \in Declaration
           /\ fallback_events[i] = [by |-> fallback_events[i].by,
                                    declaration |-> fallback_events[i].declaration]
<1>1. fallback_events[i] \in [by : Edges, declaration : Declaration]
    BY ElementType, Zenon DEF FallbackTypeOK
<1> QED
    BY <1>1

(* Signing a declaration makes a declaration, whose signature verifies.    *)
LEMMA SigningType ==
    ASSUME NEW d \in Declaration, NEW key \in Keys, NEW as \in Edges \cup {None},
           NEW s, s = sign_fallback_declaration(d, key, as)
    PROVE  /\ s \in Declaration
           /\ s.signature = sign(key, s)
           /\ s.declared_by = d.declared_by /\ s.defects = d.defects
           /\ s.authenticated_declared_by = Or(as, d.declared_by)
<1> DEFINE name == Or(as, d.declared_by)
           u == [d EXCEPT !.authenticated_declared_by = name, !.signature = None]
<1>1. name \in Edges \cup {None}
    BY DEF Or, Declaration, DeclarationWith
<1>2. u \in DeclarationWith({None}) /\ u.signature = None
    BY <1>1 DEF Declaration, DeclarationWith
<1>3. u.declared_by = d.declared_by /\ u.defects = d.defects /\ u.authenticated_declared_by = name
    BY DEF Declaration, DeclarationWith
<1> HIDE DEF u
<1>4. s = [u EXCEPT !.signature = sign(key, u)]
    BY DEF sign_fallback_declaration, Signed, u
<1>5. canonical_json(u) = u /\ canonical_json(s) = u
    BY <1>2, <1>4 DEF canonical_json, DeclarationWith
<1>6. sign(key, u) = [key |-> key, over |-> u] /\ sign(key, s) = [key |-> key, over |-> u]
    BY <1>5 DEF sign
<1>7. sign(key, u) \in FallbackSignature
    BY <1>2, <1>6 DEF FallbackSignature
<1> QED
    BY <1>2, <1>3, <1>4, <1>6, <1>7 DEF Declaration, DeclarationWith

(* What arrives for a declaration is a declaration, with its signature or  *)
(* without one.                                                            *)
LEMMA ArrivalType ==
    ASSUME NEW d \in Declaration, NEW a \in DeclarationArrivals(d)
    PROVE  a \in Declaration /\ a.signature \in {d.signature, None}
<1> USE DEF Declaration, DeclarationWith
<1>1. CASE a \in {d, [d EXCEPT !.signature = None], [d EXCEPT !.authenticated_declared_by = None]}
    BY <1>1
<1>2. ASSUME NEW t \in Triggers, a = [d EXCEPT !.trigger = t]
      PROVE  a \in Declaration /\ a.signature \in {d.signature, None}
    BY <1>2
<1>3. ASSUME NEW e \in Edges, a = [d EXCEPT !.declared_by = e, !.authenticated_declared_by = e]
      PROVE  a \in Declaration /\ a.signature \in {d.signature, None}
    BY <1>3
<1>4. ASSUME NEW x \in {"ALGORITHM", "SIZE"}, a = [d EXCEPT !.defects = {x}]
      PROVE  a \in Declaration /\ a.signature \in {d.signature, None}
    BY <1>4
<1> HIDE DEF Declaration, DeclarationWith
<1> QED
    BY <1>1, <1>2, <1>3, <1>4 DEF DeclarationArrivals

(* An accepted declaration is the one that was signed.                     *)
LEMMA AcceptedIsSigned ==
    ASSUME NEW d \in Declaration, NEW a \in Declaration, NEW key, NEW other,
           d.signature = sign(key, d), a.signature = d.signature,
           verify_with_public_key_b64(a, other)
    PROVE  a = d /\ key = other
<1>1. sign(key, d) = sign(other, a)
    BY DEF verify_with_public_key_b64
<1>2. key = other /\ canonical_json(d) = canonical_json(a)
    BY <1>1 DEF sign
<1> QED
    BY <1>2 DEF canonical_json, Declaration, DeclarationWith

(* The initial states satisfy the invariant.                               *)
LEMMA FallbackInitially == FallbackInit => FallbackInv
<1> SUFFICES ASSUME FallbackInit PROVE FallbackInv
    OBVIOUS
<1>1. FallbackTypeOK
    BY DEF FallbackInit, FallbackTypeOK
<1>2. DOMAIN fallback_events = {} /\ DOMAIN received = {} /\ wire = {}
    BY DEF FallbackInit
<1> QED
    BY <1>1, <1>2 DEF FallbackInv, EventsDeclared, SignedStays, ReceivedArrived

(* A declaration that _emit_fallback() makes, and the signer signs.        *)
LEMMA EmitStep ==
    ASSUME FallbackInv, NEW e \in Edges, NEW trigger \in Triggers, EmitFallback(e, trigger)
    PROVE  FallbackInv'
<1> DEFINE d == FallbackDeclaration(e, trigger, Len(fallback_events) + 1)
           out == IF signer[e] = None THEN d ELSE sign_fallback_declaration(d, signer[e], declared_as[e])
           event == [by |-> e, declaration |-> out]
<1>0. FallbackTypeOK /\ EventsDeclared /\ SignedStays /\ ReceivedArrived
    BY DEF FallbackInv
<1>1. /\ fallback_events' = Append(fallback_events, event)
      /\ UNCHANGED <<signer, declared_as, wire, received>>
    BY DEF EmitFallback
<1>2. d \in Declaration /\ d.declared_by = e /\ d.defects = {} /\ d.signature = None
    BY <1>0 DEF FallbackTypeOK, FallbackDeclaration, Declaration, DeclarationWith
<1>3. signer[e] \in Keys \cup {None} /\ declared_as[e] \in Edges \cup {None}
    BY <1>0 DEF FallbackTypeOK
<1> HIDE DEF d
<1>4. out \in Declaration /\ DeclaredBy(out, e)
    <2>1. CASE signer[e] = None
        BY <1>2, <2>1 DEF DeclaredBy
    <2>2. CASE signer[e] # None
        <3>1. /\ out \in Declaration
              /\ out.signature = sign(signer[e], out)
              /\ out.declared_by = d.declared_by /\ out.defects = d.defects
              /\ out.authenticated_declared_by = Or(declared_as[e], d.declared_by)
            BY <1>2, <1>3, <2>2, SigningType
        <3> QED
            BY <1>2, <3>1 DEF DeclaredBy
    <2> QED
        BY <2>1, <2>2
<1> HIDE DEF out
<1>5. event \in [by : Edges, declaration : Declaration]
    BY <1>4
<1>6. FallbackTypeOK'
    BY <1>0, <1>1, <1>5 DEF FallbackTypeOK
<1>7. /\ DOMAIN fallback_events' = DOMAIN fallback_events \cup {Len(fallback_events) + 1}
      /\ \A i \in DOMAIN fallback_events : fallback_events'[i] = fallback_events[i]
      /\ fallback_events'[Len(fallback_events) + 1] = event
    BY <1>0, <1>1 DEF FallbackTypeOK
<1>8. EventsDeclared'
    BY <1>0, <1>1, <1>4, <1>7 DEF EventsDeclared, DeclaredBy
<1>9. SignedStays'
    BY <1>0, <1>1, <1>7 DEF SignedStays
<1>10. ReceivedArrived'
    BY <1>0, <1>1 DEF ReceivedArrived
<1> QED
    BY <1>6, <1>8, <1>9, <1>10 DEF FallbackInv

(* The sink signs a declaration of the gate's memory in place.             *)
LEMMA SignStep ==
    ASSUME FallbackInv, NEW i \in DOMAIN fallback_events, SignLater(i)
    PROVE  FallbackInv'
<1> DEFINE e == fallback_events[i].by
           d == fallback_events[i].declaration
           out == sign_fallback_declaration(d, EdgeKeys[e], None)
<1>0. FallbackTypeOK /\ EventsDeclared /\ SignedStays /\ ReceivedArrived
    BY DEF FallbackInv
<1>1. /\ d.signature = None
      /\ fallback_events' = [fallback_events EXCEPT ![i].declaration = out]
      /\ UNCHANGED <<signer, declared_as, wire, received>>
    BY DEF SignLater
<1>2. e \in Edges /\ d \in Declaration /\ fallback_events[i] = [by |-> e, declaration |-> d]
    BY <1>0, EventType
<1>3. d.declared_by = e /\ d.defects = {}
    BY <1>0 DEF EventsDeclared, DeclaredBy
<1> HIDE DEF e, d
<1>4. /\ out \in Declaration
      /\ out.signature = sign(EdgeKeys[e], out)
      /\ out.declared_by = d.declared_by /\ out.defects = d.defects
      /\ out.authenticated_declared_by = Or(None, d.declared_by)
    BY <1>2, SigningType, KeysAssumption
<1> HIDE DEF out
<1>5. DeclaredBy(out, e)
    BY <1>3, <1>4 DEF DeclaredBy
<1>6. fallback_events' = [fallback_events EXCEPT ![i] = [by |-> e, declaration |-> out]]
    <2>1. [fallback_events[i] EXCEPT !.declaration = out] = [by |-> e, declaration |-> out]
        BY <1>2
    <2> QED
        BY <1>1, <2>1, Zenon
<1>7. FallbackTypeOK'
    BY <1>0, <1>1, <1>2, <1>4, <1>6 DEF FallbackTypeOK
<1>8. /\ DOMAIN fallback_events' = DOMAIN fallback_events
      /\ \A k \in DOMAIN fallback_events : k # i => fallback_events'[k] = fallback_events[k]
      /\ fallback_events'[i] = [by |-> e, declaration |-> out]
    BY <1>0, <1>6 DEF FallbackTypeOK
<1>9. EventsDeclared'
    BY <1>0, <1>1, <1>5, <1>8 DEF EventsDeclared, DeclaredBy
<1>10. SignedStays'
    <2> SUFFICES ASSUME NEW w \in wire, w.signature # None
                 PROVE  \E k \in DOMAIN fallback_events' : fallback_events'[k].declaration = w
        BY <1>1 DEF SignedStays
    <2>1. PICK k \in DOMAIN fallback_events : fallback_events[k].declaration = w
        BY <1>0 DEF SignedStays
    <2>2. k # i
        BY <1>1, <2>1 DEF d
    <2> QED
        BY <1>8, <2>1, <2>2
<1>11. ReceivedArrived'
    BY <1>0, <1>1 DEF ReceivedArrived
<1> QED
    BY <1>7, <1>9, <1>10, <1>11 DEF FallbackInv

(* Every step preserves the invariant.                                     *)
LEMMA FallbackStep == FallbackInv /\ [FallbackNext]_fallback_vars => FallbackInv'
<1> SUFFICES ASSUME FallbackInv, [FallbackNext]_fallback_vars PROVE FallbackInv'
    OBVIOUS
<1>0. FallbackTypeOK /\ EventsDeclared /\ SignedStays /\ ReceivedArrived
    BY DEF FallbackInv
<1>1. ASSUME NEW e \in Edges, NEW trigger \in Triggers, EmitFallback(e, trigger) PROVE FallbackInv'
    BY <1>1, EmitStep
<1>2. ASSUME NEW i \in DOMAIN fallback_events, SignLater(i) PROVE FallbackInv'
    BY <1>2, SignStep
<1>3. ASSUME NEW i \in DOMAIN fallback_events, Forward(i) PROVE FallbackInv'
    <2>1. /\ wire' = wire \cup {fallback_events[i].declaration}
          /\ UNCHANGED <<signer, declared_as, fallback_events, received>>
        BY <1>3 DEF Forward
    <2>2. FallbackTypeOK'
        BY <1>0, <2>1, EventType DEF FallbackTypeOK
    <2>3. EventsDeclared'
        BY <1>0, <2>1 DEF EventsDeclared, DeclaredBy
    <2>4. SignedStays'
        BY <1>0, <2>1 DEF SignedStays
    <2>5. ReceivedArrived'
        BY <1>0, <2>1 DEF ReceivedArrived
    <2> QED
        BY <2>2, <2>3, <2>4, <2>5 DEF FallbackInv
<1>4. ASSUME NEW d \in wire, NEW a \in DeclarationArrivals(d), Receive(a) PROVE FallbackInv'
    <2> DEFINE entry == [declaration |-> a, verdict |-> fallback_declaration_auth_violation(a)]
    <2>1. /\ received' = Append(received, entry)
          /\ UNCHANGED <<signer, declared_as, fallback_events, wire>>
        BY <1>4 DEF Receive
    <2>2. a \in Declaration
        BY <1>0, ArrivalType DEF FallbackTypeOK
    <2>3. fallback_declaration_auth_violation(a) \in FallbackVerdicts
        BY <2>2, Zenon DEF FallbackVerdicts
    <2>4. entry \in [declaration : Declaration, verdict : FallbackVerdicts]
        BY <2>2, <2>3
    <2>5. FallbackTypeOK'
        BY <1>0, <2>1, <2>4 DEF FallbackTypeOK
    <2>6. EventsDeclared' /\ SignedStays'
        BY <1>0, <2>1 DEF EventsDeclared, DeclaredBy, SignedStays
    <2>7. /\ DOMAIN received' = DOMAIN received \cup {Len(received) + 1}
          /\ \A i \in DOMAIN received : received'[i] = received[i]
          /\ received'[Len(received) + 1] = entry
        BY <1>0, <2>1, <2>4 DEF FallbackTypeOK
    <2>8. ReceivedArrived'
        BY <1>0, <1>4, <2>1, <2>7 DEF ReceivedArrived
    <2> QED
        BY <2>5, <2>6, <2>8 DEF FallbackInv
<1>5. CASE UNCHANGED fallback_vars
    BY <1>0, <1>5 DEF fallback_vars, FallbackInv, FallbackTypeOK, EventsDeclared, DeclaredBy, SignedStays,
                      ReceivedArrived
<1> QED
    BY <1>1, <1>2, <1>3, <1>4, <1>5 DEF FallbackNext

(* The invariant holds throughout.                                         *)
LEMMA FallbackInvariant == FallbackSpec => []FallbackInv
BY FallbackInitially, FallbackStep, PTL DEF FallbackSpec

(* What a declaration that the receiver accepts passed.                    *)
LEMMA AcceptedPassed ==
    ASSUME NEW a, fallback_declaration_auth_violation(a) = Valid
    PROVE  /\ a.authenticated_declared_by = a.declared_by
           /\ a.signature # None
           /\ verify_with_public_key_b64(a, EdgeKeys[a.declared_by])
BY DEF fallback_declaration_auth_violation, Valid

(* Whatever is lost, repeated, delayed or damaged on the way, and however  *)
(* the gates are configured, an accepted fallback declaration is one that  *)
(* the gate of the edge it names emitted, signed with that edge's key.     *)
THEOREM AcceptedWasDeclaredHolds == FallbackSpec => []AcceptedWasDeclared
<1>1. FallbackInv => AcceptedWasDeclared
    <2> SUFFICES ASSUME FallbackInv, NEW i \in accepted
                 PROVE  \E k \in DOMAIN fallback_events :
                            /\ fallback_events[k].declaration = received[i].declaration
                            /\ fallback_events[k].by = received[i].declaration.declared_by
                            /\ received[i].declaration.signature.key
                                 = EdgeKeys[received[i].declaration.declared_by]
        BY DEF AcceptedWasDeclared
    <2> DEFINE a == received[i].declaration
    <2>0. FallbackTypeOK /\ EventsDeclared /\ SignedStays /\ ReceivedArrived
        BY DEF FallbackInv
    <2>1. i \in DOMAIN received /\ fallback_declaration_auth_violation(a) = Valid
        BY <2>0 DEF accepted, ReceivedArrived
    <2>2. PICK d \in wire : a \in DeclarationArrivals(d)
        BY <2>0, <2>1 DEF ReceivedArrived
    <2> HIDE DEF a
    <2>3. /\ d \in Declaration /\ a \in Declaration
          /\ a.signature = d.signature /\ d.signature # None
          /\ verify_with_public_key_b64(a, EdgeKeys[a.declared_by])
        BY <2>0, <2>1, <2>2, ArrivalType, AcceptedPassed DEF FallbackTypeOK
    <2>4. PICK k \in DOMAIN fallback_events : fallback_events[k].declaration = d
        BY <2>0, <2>3 DEF SignedStays
    <2>5. PICK key : d.signature = sign(key, d)
        BY <2>0, <2>3, <2>4 DEF EventsDeclared, DeclaredBy
    <2>6. a = d /\ key = EdgeKeys[a.declared_by]
        BY <2>3, <2>5, AcceptedIsSigned
    <2>7. fallback_events[k].by = d.declared_by
        BY <2>0, <2>4 DEF EventsDeclared, DeclaredBy
    <2>8. a.signature.key = EdgeKeys[a.declared_by]
        BY <2>5, <2>6 DEF sign
    <2> QED
        BY <2>4, <2>6, <2>7, <2>8 DEF a
<1> QED
    BY <1>1, FallbackInvariant, PTL
-----------------------------------------------------------------------------
(* Audit batches.                                                          *)

LogTypeOK ==
    /\ events \in Seq(AuditEvents)
    /\ committed \in Seq(AuditEvents)
    /\ Len(events) = Len(committed)

\* In the log's own objects only a payload may have been changed.
PayloadsOnly ==
    \A i \in DOMAIN committed :
        \A f \in DOMAIN committed[i] \ {"payload"} : events[i][f] = committed[i][f]

\* append() has linked the events and hashed their payloads.
Linked ==
    \A i \in DOMAIN committed :
        /\ committed[i].payload_hash = Hash(committed[i].payload)
        /\ i > 1 => committed[i].previous_audit_hash = committed[i - 1].integrity_proof

\* b was signed over the first n events of the log as append() committed them.
SignedOver(b, key, n) ==
    /\ b = Signed(key, AuditBatchCommit(SubSeq(committed, 1, n), key))
    /\ audit_batch_chain_violation(SubSeq(committed, 1, n)) = Valid

BatchSigned ==
    batch # None => \E key \in Signers, n \in DOMAIN committed : SignedOver(batch, key, n)

BatchInv ==
    LogTypeOK /\ PayloadsOnly /\ Linked /\ BatchSigned /\ BatchProvesLog /\ SignedBatchVerifies

(* Every non-empty set of positions has a first one.                       *)
LEMMA FirstPosition ==
    ASSUME NEW bad \in SUBSET Nat, bad # {}
    PROVE  \E i \in bad : \A j \in bad : i <= j
<1>1. PICK i \in bad : \A j \in bad : ~ (<<j, i>> \in OpToRel(<, Nat))
    BY NatLessThanWellFounded, WFMin, Zenon
<1>2. \A j \in bad : ~ (j < i)
    BY <1>1 DEF OpToRel
<1> QED
    BY <1>2

(* A chain without a violation is not empty and has none in any event.     *)
LEMMA ChainClear ==
    ASSUME NEW evs, DOMAIN evs \subseteq Nat, audit_batch_chain_violation(evs) = Valid
    PROVE  /\ evs # << >>
           /\ \A i \in DOMAIN evs :
                 chain_event_violation(SubSeq(evs, 1, i - 1), chain_head(SubSeq(evs, 1, i - 1)), evs[i]) = Valid
<1> DEFINE violation(i) == chain_event_violation(SubSeq(evs, 1, i - 1),
                                                 chain_head(SubSeq(evs, 1, i - 1)), evs[i])
           bad == {i \in DOMAIN evs : violation(i) # Valid}
           first == CHOOSE i \in bad : \A j \in bad : i <= j
<1>1. evs # << >>
    BY DEF audit_batch_chain_violation, Valid
<1>2. bad # {} => violation(first) = Valid
    BY <1>1, Zenon DEF audit_batch_chain_violation
<1>3. bad # {} => first \in bad
    BY FirstPosition
<1> HIDE DEF violation
<1>4. bad = {}
    BY <1>2, <1>3
<1>5. \A i \in DOMAIN evs : violation(i) = Valid
    BY <1>4
<1> QED
    BY <1>1, <1>5 DEF violation

(* An event without a violation has the hash of its payload, and names the *)
(* head before it.                                                         *)
LEMMA EventClear ==
    ASSUME NEW before, NEW head, NEW e, chain_event_violation(before, head, e) = Valid
    PROVE  e.payload_hash = Hash(e.payload) /\ e.previous_audit_hash = head
BY DEF chain_event_violation, payload_hash_invalid, Valid

(* The elements of a window of a sequence.                                 *)
LEMMA Window ==
    ASSUME NEW S, NEW s \in Seq(S), NEW a \in Nat \ {0}, NEW b \in DOMAIN s
    PROVE  /\ SubSeq(s, a, b) \in Seq(S)
           /\ Len(SubSeq(s, a, b)) = IF a <= b THEN b - a + 1 ELSE 0
           /\ DOMAIN SubSeq(s, a, b) = 1..Len(SubSeq(s, a, b))
           /\ \A i \in 1..Len(SubSeq(s, a, b)) : SubSeq(s, a, b)[i] = s[a + i - 1]
           /\ a > b => SubSeq(s, a, b) = << >>
<1>1. \A i \in a..b : s[i] \in S
    OBVIOUS
<1>2. b \in Int /\ a \in Int
    OBVIOUS
<1> QED
    BY <1>1, <1>2, SubSeqProperties, SubSeqEmpty

(* The elements of a prefix.                                               *)
LEMMA Prefix ==
    ASSUME NEW S, NEW s \in Seq(S), NEW n \in DOMAIN s
    PROVE  /\ SubSeq(s, 1, n) \in Seq(S)
           /\ Len(SubSeq(s, 1, n)) = n
           /\ DOMAIN SubSeq(s, 1, n) = 1..n
           /\ \A i \in 1..n : SubSeq(s, 1, n)[i] = s[i]
BY Window

(* A prefix stays what it was when the sequence grows.                     *)
LEMMA PrefixStays ==
    ASSUME NEW S, NEW s \in Seq(S), NEW e \in S, NEW n \in DOMAIN s
    PROVE  SubSeq(Append(s, e), 1, n) = SubSeq(s, 1, n)
<1> DEFINE t == Append(s, e)
<1>1. t \in Seq(S) /\ n \in DOMAIN t /\ \A i \in 1..n : t[i] = s[i]
    OBVIOUS
<1> HIDE DEF t
<1>2. /\ SubSeq(t, 1, n) \in Seq(S) /\ Len(SubSeq(t, 1, n)) = n
      /\ \A i \in 1..n : SubSeq(t, 1, n)[i] = t[i]
    BY <1>1, Prefix
<1>3. SubSeq(t, 1, n) = SubSeq(s, 1, n)
    BY <1>1, <1>2, Prefix, SeqEqual
<1> QED
    BY <1>3 DEF t

(* A window of the log without a violation starts with the log, and nobody *)
(* has changed it.                                                         *)
LEMMA ValidWindow ==
    ASSUME LogTypeOK, PayloadsOnly, Linked, NEW evs \in Windows,
           audit_batch_chain_violation(evs) = Valid
    PROVE  \E n \in DOMAIN committed : evs = SubSeq(committed, 1, n)
<1>1. PICK a \in Nat \ {0}, b \in DOMAIN events : evs = SubSeq(events, a, b)
    BY StartAssumption DEF Windows
<1>2. /\ evs \in Seq(AuditEvents)
      /\ Len(evs) = IF a <= b THEN b - a + 1 ELSE 0
      /\ DOMAIN evs = 1..Len(evs)
      /\ \A i \in 1..Len(evs) : evs[i] = events[a + i - 1]
      /\ a > b => evs = << >>
    <2>1. events \in Seq(AuditEvents)
        BY DEF LogTypeOK
    <2> DEFINE w == SubSeq(events, a, b)
    <2>2. /\ w \in Seq(AuditEvents)
          /\ Len(w) = IF a <= b THEN b - a + 1 ELSE 0
          /\ DOMAIN w = 1..Len(w)
          /\ \A i \in 1..Len(w) : w[i] = events[a + i - 1]
          /\ a > b => w = << >>
        BY <2>1, Window, Zenon
    <2> QED
        BY <1>1, <2>2, Zenon
<1>3. /\ evs # << >>
      /\ \A i \in DOMAIN evs : /\ evs[i].payload_hash = Hash(evs[i].payload)
                               /\ evs[i].previous_audit_hash = chain_head(SubSeq(evs, 1, i - 1))
    <2>1. /\ evs # << >>
          /\ \A i \in DOMAIN evs :
                chain_event_violation(SubSeq(evs, 1, i - 1), chain_head(SubSeq(evs, 1, i - 1)), evs[i]) = Valid
        <3>1. DOMAIN evs \subseteq Nat
            BY <1>2
        <3> QED
            BY <3>1, ChainClear, Zenon
    <2>2. ASSUME NEW i \in DOMAIN evs
          PROVE  /\ evs[i].payload_hash = Hash(evs[i].payload)
                 /\ evs[i].previous_audit_hash = chain_head(SubSeq(evs, 1, i - 1))
        <3>1. chain_event_violation(SubSeq(evs, 1, i - 1), chain_head(SubSeq(evs, 1, i - 1)), evs[i]) = Valid
            BY <2>1
        <3> QED
            BY <3>1, EventClear
    <2> QED
        BY <2>1, <2>2
<1>4. /\ a <= b /\ 1 \in DOMAIN evs /\ evs[1] = events[a]
      /\ a \in DOMAIN committed /\ DOMAIN committed = 1..Len(committed) /\ b \in DOMAIN committed
    BY <1>1, <1>2, <1>3 DEF LogTypeOK
<1>5. chain_head(SubSeq(evs, 1, 0)) = None
    BY SubSeqEmpty DEF chain_head
<1>6. events[a].previous_audit_hash = None
    BY <1>3, <1>4, <1>5
<1>7. ASSUME NEW i \in DOMAIN committed
      PROVE  /\ committed[i] \in AuditEvents /\ events[i] \in AuditEvents
             /\ events[i].previous_audit_hash = committed[i].previous_audit_hash
             /\ events[i].payload_hash = committed[i].payload_hash
             /\ events[i].payload = committed[i].payload => events[i] = committed[i]
    <2>1. committed[i] \in AuditEvents /\ events[i] \in AuditEvents
        BY ElementType DEF LogTypeOK
    <2>2. \A f \in DOMAIN committed[i] \ {"payload"} : events[i][f] = committed[i][f]
        BY DEF PayloadsOnly
    <2> QED
        BY <2>1, <2>2 DEF AuditEvents
<1>8. a = 1
    <2> SUFFICES ASSUME a > 1 PROVE FALSE
        OBVIOUS
    <2>1. a - 1 \in DOMAIN committed
        BY <1>4
    <2>2. committed[a - 1].integrity_proof \in Seq(SealedEvents)
        BY <1>7, <2>1 DEF AuditEvents
    <2>3. committed[a].previous_audit_hash = committed[a - 1].integrity_proof
        BY <1>4 DEF Linked
    <2> QED
        BY <1>4, <1>6, <1>7, <2>2, <2>3, NoneAssumption
<1>9. \A i \in 1..b : evs[i] = committed[i]
    <2> SUFFICES ASSUME NEW i \in 1..b PROVE evs[i] = committed[i]
        OBVIOUS
    <2>1. i \in DOMAIN evs /\ i \in DOMAIN committed /\ evs[i] = events[i]
        BY <1>2, <1>4, <1>8
    <2>2. events[i].payload_hash = Hash(events[i].payload)
        BY <1>3, <2>1
    <2>3. committed[i].payload_hash = Hash(committed[i].payload)
        BY <2>1 DEF Linked
    <2>4. events[i].payload = committed[i].payload
        BY <1>7, <2>1, <2>2, <2>3 DEF Hash
    <2> QED
        BY <1>7, <2>1, <2>4
<1>10. evs = SubSeq(committed, 1, b)
    <2>1. Len(evs) = b
        BY <1>2, <1>4, <1>8
    <2> DEFINE part == SubSeq(committed, 1, b)
    <2>2. part \in Seq(AuditEvents) /\ Len(part) = b /\ \A i \in 1..b : part[i] = committed[i]
        BY <1>4, Prefix DEF LogTypeOK
    <2> HIDE DEF part
    <2>3. evs \in Seq(AuditEvents) /\ \A i \in 1..Len(evs) : evs[i] = part[i]
        BY <1>2, <1>9, <2>1, <2>2
    <2>4. evs = part
        BY <2>1, <2>2, <2>3, SeqEqual
    <2> QED
        BY <2>4 DEF part
<1> QED
    BY <1>4, <1>10

(* The initial states satisfy the invariant.                               *)
LEMMA BatchInitially == BatchInit => BatchInv
<1> SUFFICES ASSUME BatchInit PROVE BatchInv
    OBVIOUS
<1>1. LogTypeOK /\ PayloadsOnly /\ Linked /\ BatchSigned
    BY DEF BatchInit, LogTypeOK, PayloadsOnly, Linked, BatchSigned
<1>2. BatchProvesLog /\ SignedBatchVerifies
    BY NoneAssumption DEF BatchInit, BatchProvesLog, SignedBatchVerifies, NoReview
<1> QED
    BY <1>1, <1>2 DEF BatchInv

(* The event that append() commits.                                        *)
LEMMA CommittedType ==
    ASSUME NEW c \in Contents, NEW n \in Nat, NEW head \in Seq(SealedEvents) \cup {None}, NEW log,
           head = chain_head(log), NEW e, e = committed_event(log, AuditCommit(n, c, None, None, None))
    PROVE  /\ e \in AuditEvents
           /\ e.payload_hash = Hash(e.payload)
           /\ e.previous_audit_hash = head
<1> DEFINE draft == AuditCommit(n, c, None, None, None)
           before == IF head = None THEN << >> ELSE head
<1>1. sealed(draft) \in SealedEvents
    BY DEF sealed, AuditCommit, SealedEvents
<1>2. before \in Seq(SealedEvents)
    OBVIOUS
<1>3. integrity_proof(draft, head) \in Seq(SealedEvents)
    <2>1. integrity_proof(draft, head) = Append(before, sealed(draft))
        BY DEF integrity_proof
    <2> HIDE DEF before, draft
    <2> QED
        BY <1>1, <1>2, <2>1
<1> DEFINE proof == integrity_proof(draft, head)
<1>4. e = [draft EXCEPT !.previous_audit_hash = head, !.integrity_proof = proof]
    BY DEF committed_event
<1> HIDE DEF proof
<1>5. proof \in Seq(SealedEvents)
    BY <1>3 DEF proof
<1>6. e = [audit_id |-> n, event_type |-> c.event_type, authority_relevant |-> c.authority_relevant,
           context |-> c.context, correlation_id |-> c.correlation_id, separator |-> c.separator,
           body |-> c.body, payload |-> c.payload, payload_hash |-> Hash(c.payload),
           previous_audit_hash |-> head, integrity_proof |-> proof]
    BY <1>4 DEF AuditCommit
<1> QED
    BY <1>5, <1>6 DEF AuditEvents

(* append() of an event that the gate or the engine records.               *)
LEMMA RecordStep ==
    ASSUME BatchInv, review = NoReview, NEW c \in Contents, Record(c)
    PROVE  BatchInv'
<1> DEFINE e == committed_event(events, AuditCommit(Len(events) + 1, c, None, None, None))
           head == chain_head(events)
           k == Len(committed) + 1
<1>0. LogTypeOK /\ PayloadsOnly /\ Linked /\ BatchSigned
    BY DEF BatchInv
<1>1. /\ events' = Append(events, e)
      /\ committed' = Append(committed, e)
      /\ UNCHANGED <<batch, review>>
    BY DEF Record
<1>2. /\ events # << >> => /\ Len(committed) \in DOMAIN committed
                           /\ head = committed[Len(committed)].integrity_proof
                           /\ head \in Seq(SealedEvents)
      /\ events = << >> => head = None
    <2>1. CASE events = << >>
        BY <2>1 DEF chain_head
    <2>2. CASE events # << >>
        <3>1. Len(committed) \in DOMAIN committed /\ Len(committed) = Len(events)
            BY <1>0, <2>2 DEF LogTypeOK
        <3>2. committed[Len(committed)] \in AuditEvents
            BY <1>0, <3>1, ElementType DEF LogTypeOK
        <3>3. events[Len(committed)].integrity_proof = committed[Len(committed)].integrity_proof
            BY <1>0, <3>1, <3>2 DEF PayloadsOnly, AuditEvents
        <3>4. head = events[Len(committed)].integrity_proof
            BY <2>2, <3>1 DEF chain_head
        <3> QED
            BY <2>2, <3>1, <3>2, <3>3, <3>4 DEF AuditEvents
    <2> QED
        BY <2>1, <2>2
<1>3. /\ e \in AuditEvents
      /\ e.payload_hash = Hash(e.payload)
      /\ e.previous_audit_hash = head
    <2>1. Len(events) + 1 \in Nat
        BY <1>0 DEF LogTypeOK
    <2> QED
        BY <1>2, <2>1, CommittedType
<1> HIDE DEF e, head
<1>4. /\ DOMAIN committed' = DOMAIN committed \cup {k} /\ DOMAIN committed = 1..Len(committed)
      /\ \A i \in DOMAIN committed : committed'[i] = committed[i] /\ events'[i] = events[i]
      /\ committed'[k] = e /\ events'[k] = e
    BY <1>0, <1>1 DEF LogTypeOK
<1>5. LogTypeOK'
    BY <1>0, <1>1, <1>3 DEF LogTypeOK
<1>6. PayloadsOnly'
    BY <1>0, <1>4 DEF PayloadsOnly
<1>7. Linked'
    <2>1. k > 1 => e.previous_audit_hash = committed'[k - 1].integrity_proof
        <3> SUFFICES ASSUME k > 1 PROVE e.previous_audit_hash = committed'[k - 1].integrity_proof
            OBVIOUS
        <3>1. events # << >> /\ k - 1 = Len(committed)
            BY <1>0 DEF LogTypeOK
        <3> QED
            BY <1>2, <1>3, <1>4, <3>1
    <2>2. ASSUME NEW i \in DOMAIN committed
          PROVE  /\ committed'[i].payload_hash = Hash(committed'[i].payload)
                 /\ i > 1 => committed'[i].previous_audit_hash = committed'[i - 1].integrity_proof
        <3>1. i > 1 => i - 1 \in DOMAIN committed
            BY <1>4
        <3> QED
            BY <1>0, <1>4, <3>1 DEF Linked
    <2> QED
        BY <1>3, <1>4, <2>1, <2>2 DEF Linked
<1>8. BatchSigned'
    <2> SUFFICES ASSUME batch # None
                 PROVE  \E key \in Signers, n \in DOMAIN committed' : SignedOver(batch, key, n)'
        BY <1>1 DEF BatchSigned
    <2>1. PICK key \in Signers, n \in DOMAIN committed : SignedOver(batch, key, n)
        BY <1>0 DEF BatchSigned
    <2>2. SubSeq(committed', 1, n) = SubSeq(committed, 1, n)
        BY <1>0, <1>1, <1>3, PrefixStays, Zenon DEF LogTypeOK
    <2>3. SignedOver(batch, key, n)'
        BY <1>1, <2>1, <2>2 DEF SignedOver
    <2> QED
        BY <1>4, <2>3
<1>9. (BatchProvesLog /\ SignedBatchVerifies)'
    BY <1>1, NoneAssumption DEF BatchProvesLog, SignedBatchVerifies, NoReview
<1> QED
    BY <1>5, <1>6, <1>7, <1>8, <1>9 DEF BatchInv

(* A payload of the log is changed in memory.                              *)
LEMMA MutateStep ==
    ASSUME BatchInv, review = NoReview, NEW i \in DOMAIN events, NEW p \in Payloads, MutatePayload(i, p)
    PROVE  BatchInv'
<1>0. LogTypeOK /\ PayloadsOnly /\ Linked /\ BatchSigned
    BY DEF BatchInv
<1>1. events' = [events EXCEPT ![i].payload = p] /\ UNCHANGED <<committed, batch, review>>
    BY DEF MutatePayload
<1>2. \A j \in DOMAIN events : events[j] \in AuditEvents
    BY <1>0, ElementType DEF LogTypeOK
<1>3. /\ DOMAIN events' = DOMAIN events
      /\ \A j \in DOMAIN events \ {i} : events'[j] = events[j]
      /\ events'[i] = [events[i] EXCEPT !.payload = p]
    BY <1>1
<1>4. events'[i] \in AuditEvents /\ \A f \in DOMAIN events[i] \ {"payload"} : events'[i][f] = events[i][f]
    BY <1>2, <1>3 DEF AuditEvents
<1>5. LogTypeOK'
    <2>1. events' = [events EXCEPT ![i] = events'[i]]
        BY <1>1, <1>3
    <2>2. events' \in Seq(AuditEvents) /\ Len(events') = Len(events)
        BY <1>0, <1>4, <2>1 DEF LogTypeOK
    <2> QED
        BY <1>0, <1>1, <2>2 DEF LogTypeOK
<1>6. PayloadsOnly'
    <2> SUFFICES ASSUME NEW j \in DOMAIN committed, NEW f \in DOMAIN committed[j] \ {"payload"}
                 PROVE  events'[j][f] = committed[j][f]
        BY <1>1 DEF PayloadsOnly
    <2>1. j \in DOMAIN events /\ committed[j] \in AuditEvents /\ events[j][f] = committed[j][f]
        BY <1>0, ElementType DEF LogTypeOK, PayloadsOnly
    <2>2. f \in DOMAIN events[j] \ {"payload"}
        BY <1>2, <2>1 DEF AuditEvents
    <2> QED
        BY <1>3, <1>4, <2>1, <2>2
<1>7. (Linked /\ BatchSigned)'
    BY <1>0, <1>1 DEF Linked, BatchSigned, SignedOver
<1>8. (BatchProvesLog /\ SignedBatchVerifies)'
    BY <1>1, NoneAssumption DEF BatchProvesLog, SignedBatchVerifies, NoReview
<1> QED
    BY <1>5, <1>6, <1>7, <1>8 DEF BatchInv

(* create_signed_audit_batch signs nothing but a prefix of what was        *)
(* committed.                                                              *)
LEMMA SignBatchStep ==
    ASSUME BatchInv, review = NoReview, NEW key \in Signers, NEW evs \in Windows, SignBatch(key, evs)
    PROVE  BatchInv'
<1>0. LogTypeOK /\ PayloadsOnly /\ Linked /\ BatchSigned
    BY DEF BatchInv
<1>1. /\ audit_batch_chain_violation(evs) = Valid
      /\ batch' = Signed(key, AuditBatchCommit(evs, key))
      /\ UNCHANGED <<events, committed, review>>
    BY DEF SignBatch
<1>2. PICK n \in DOMAIN committed : evs = SubSeq(committed, 1, n)
    BY <1>0, <1>1, ValidWindow
<1>3. SignedOver(batch, key, n)'
    BY <1>1, <1>2 DEF SignedOver
<1>4. BatchSigned'
    BY <1>1, <1>3 DEF BatchSigned
<1>5. (LogTypeOK /\ PayloadsOnly /\ Linked)'
    BY <1>0, <1>1 DEF LogTypeOK, PayloadsOnly, Linked
<1>6. (BatchProvesLog /\ SignedBatchVerifies)'
    BY <1>1, NoneAssumption DEF BatchProvesLog, SignedBatchVerifies, NoReview
<1> QED
    BY <1>4, <1>5, <1>6 DEF BatchInv

(* What an accepted batch passed.                                          *)
LEMMA BatchPassed ==
    ASSUME NEW b, NEW evs, audit_batch_event_violation(b, evs) = Valid, audit_batch_auth_violation(b) = Valid
    PROVE  /\ audit_batch_chain_violation(evs) = Valid
           /\ b.batch_hash = audit_batch_hash(evs)
           /\ b.authenticated_signed_by # None
           /\ b.authenticated_signed_by = b.signed_by
           /\ b.signature # None
           /\ b.authenticated_signed_by \in TrustedSigners
           /\ ~audit_batch_signed_material_too_large(b)
           /\ verify_with_public_key_b64(b, b.authenticated_signed_by)
<1>1. /\ audit_batch_chain_violation(evs) = Valid
      /\ b.batch_hash = audit_batch_hash(evs)
    BY DEF audit_batch_event_violation, Valid
<1>2. /\ b.authenticated_signed_by # None
      /\ b.authenticated_signed_by = b.signed_by
      /\ b.signature # None
      /\ b.authenticated_signed_by \in TrustedSigners
      /\ ~audit_batch_signed_material_too_large(b)
      /\ verify_with_public_key_b64(b, b.authenticated_signed_by)
    BY DEF audit_batch_auth_violation, Valid
<1> QED
    BY <1>1, <1>2

(* Equal batch hashes are hashes of equal events.                          *)
LEMMA HashProvesEvents ==
    ASSUME NEW a, NEW b, audit_batch_hash(a) = audit_batch_hash(b)
    PROVE  a = b
BY DEF audit_batch_hash, Hash

\* The commit of evs, as an operator of its own.
CommitRecord(ids, count, head, hash, name, by) ==
    [audit_ids |-> ids, event_count |-> count, chain_head |-> head, batch_hash |-> hash,
     signed_by |-> name, authenticated_signed_by |-> by, signature |-> None]

CommitBy(evs, name, by) ==
    CommitRecord(ids_of(evs), Len(evs), chain_head(evs), audit_batch_hash(evs), name, by)

\* b carries these fields, and a signature of key over them.
Carries(b, ids, count, head, hash, name, by, key) ==
    /\ b.audit_ids = ids /\ b.event_count = count /\ b.chain_head = head
    /\ b.batch_hash = hash /\ b.signed_by = name /\ b.authenticated_signed_by = by
    /\ b.signature = [key |-> key, over |-> canonical_json(b)]
    /\ canonical_json(b).batch_hash = hash

(* Signing adds nothing but the signature.                                 *)
LEMMA SigningKeeps ==
    ASSUME NEW ids, NEW count, NEW head, NEW hash, NEW name, NEW by, NEW key
    PROVE  Carries(Signed(key, CommitRecord(ids, count, head, hash, name, by)),
                   ids, count, head, hash, name, by, key)
BY DEF Carries, CommitRecord, Signed, sign, canonical_json

(* The fields of a signed commit.                                          *)
LEMMA SignedCommit ==
    ASSUME NEW evs, NEW name, NEW by, NEW key
    PROVE  Carries(Signed(key, CommitBy(evs, name, by)),
                   ids_of(evs), Len(evs), chain_head(evs), audit_batch_hash(evs), name, by, key)
BY SigningKeeps, Zenon DEF CommitBy

(* A commit names its signer twice; either name may be replaced.           *)
LEMMA CommitForms ==
    ASSUME NEW evs, NEW name, NEW by
    PROVE  /\ AuditBatchCommit(evs, name) = CommitBy(evs, name, name)
           /\ [AuditBatchCommit(evs, name) EXCEPT !.authenticated_signed_by = by] = CommitBy(evs, name, by)
<1> DEFINE ids == ids_of(evs)
           count == Len(evs)
           head == chain_head(evs)
           hash == audit_batch_hash(evs)
<1>1. AuditBatchCommit(evs, name) = CommitRecord(ids, count, head, hash, name, name)
    BY DEF AuditBatchCommit, CommitRecord
<1> HIDE DEF ids, count, head, hash
<1>2. [CommitRecord(ids, count, head, hash, name, name) EXCEPT !.authenticated_signed_by = by]
        = CommitRecord(ids, count, head, hash, name, by)
    BY DEF CommitRecord
<1> QED
    BY <1>1, <1>2, Zenon DEF ids, count, head, hash, CommitBy

(* A receiver accepts a batch, however it was rewritten, only together     *)
(* with the events that it was signed over.                                *)
LEMMA AcceptedIsSignedOver ==
    ASSUME NEW key \in Signers, NEW over, batch = Signed(key, AuditBatchCommit(over, key)),
           NEW evs, NEW b \in Rewritten(batch, evs),
           audit_batch_event_violation(b, evs) = Valid, audit_batch_auth_violation(b) = Valid
    PROVE  evs = over
<1> DEFINE forged == AuditBatchCommit(evs, batch.signed_by)
<1>1. /\ b.batch_hash = audit_batch_hash(evs)
      /\ b.authenticated_signed_by # None
      /\ b.authenticated_signed_by = b.signed_by
      /\ b.signature # None
      /\ b.authenticated_signed_by \in TrustedSigners
      /\ verify_with_public_key_b64(b, b.authenticated_signed_by)
    BY BatchPassed
<1>2. /\ batch.batch_hash = audit_batch_hash(over) /\ batch.signed_by = key
      /\ batch.signature = [key |-> key, over |-> canonical_json(batch)]
      /\ canonical_json(batch).batch_hash = audit_batch_hash(over)
    <2>1. batch = Signed(key, CommitBy(over, key, key))
        BY CommitForms, Zenon
    <2>2. Carries(batch, ids_of(over), Len(over), chain_head(over), audit_batch_hash(over), key, key, key)
        BY <2>1, SignedCommit, Zenon
    <2> QED
        BY <2>2, Zenon DEF Carries
<1>3. CASE b = batch
    BY <1>1, <1>2, <1>3, HashProvesEvents
<1>4. CASE b = [batch EXCEPT !.signature = None] \/ b = [batch EXCEPT !.authenticated_signed_by = None]
    BY <1>1, <1>4 DEF Signed, AuditBatchCommit
<1>5. CASE b = [forged EXCEPT !.signature = batch.signature]
    <2>1. canonical_json(b).batch_hash = audit_batch_hash(evs) /\ b.signature = batch.signature
        BY <1>5 DEF AuditBatchCommit, canonical_json
    <2>2. canonical_json(b) = canonical_json(batch)
        BY <1>1, <1>2, <2>1 DEF verify_with_public_key_b64, sign
    <2> QED
        BY <1>2, <2>1, <2>2, HashProvesEvents
<1>6. ASSUME NEW other \in Signers \ TrustedSigners, b = Signed(other, AuditBatchCommit(evs, other))
      PROVE  FALSE
    <2>1. b.authenticated_signed_by = other
        <3>1. b = Signed(other, CommitBy(evs, other, other))
            BY <1>6, CommitForms, Zenon
        <3>2. Carries(b, ids_of(evs), Len(evs), chain_head(evs), audit_batch_hash(evs), other, other, other)
            BY <3>1, SignedCommit, Zenon
        <3> QED
            BY <3>2, Zenon DEF Carries
    <2> QED
        BY <1>1, <2>1
<1>7. ASSUME NEW other \in Signers \ TrustedSigners,
             b = Signed(other, [forged EXCEPT !.authenticated_signed_by = other])
      PROVE  FALSE
    <2>1. b.authenticated_signed_by = other
        <3>1. b = Signed(other, CommitBy(evs, batch.signed_by, other))
            BY <1>7, CommitForms, Zenon
        <3>2. Carries(b, ids_of(evs), Len(evs), chain_head(evs), audit_batch_hash(evs), batch.signed_by, other, other)
            BY <3>1, SignedCommit, Zenon
        <3> QED
            BY <3>2, Zenon DEF Carries
    <2> QED
        BY <1>1, <2>1
<1>8. ASSUME NEW other \in Signers \ TrustedSigners, b = Signed(other, forged)
      PROVE  FALSE
    <2>1. b.signature = [key |-> other, over |-> canonical_json(b)]
        <3>1. b = Signed(other, CommitBy(evs, batch.signed_by, batch.signed_by))
            BY <1>8, CommitForms, Zenon
        <3>2. Carries(b, ids_of(evs), Len(evs), chain_head(evs), audit_batch_hash(evs), batch.signed_by, batch.signed_by, other)
            BY <3>1, SignedCommit, Zenon
        <3> QED
            BY <3>2, Zenon DEF Carries
    <2>2. b.signature.key = other
        BY <2>1
    <2>3. b.signature.key = b.authenticated_signed_by
        BY <1>1 DEF verify_with_public_key_b64, sign
    <2> QED
        BY <1>1, <2>2, <2>3
<1> QED
    BY <1>3, <1>4, <1>5, <1>6, <1>7, <1>8 DEF Rewritten

(* A signature over a prefix of the log is not None.                       *)
LEMMA SignatureIsSome ==
    ASSUME LogTypeOK, NEW key \in Signers, NEW n \in DOMAIN committed,
           SignedOver(batch, key, n)
    PROVE  batch.signature # None
<1> DEFINE over == SubSeq(committed, 1, n)
           hash == audit_batch_hash(over)
           c == CommitBy(over, key, key)
<1>1. /\ over \in Seq(AuditEvents) /\ Len(over) = n /\ DOMAIN over = 1..n
      /\ n \in Nat \ {0} /\ over # << >>
    BY Prefix DEF LogTypeOK
<1>2. ids_of(over) \in Seq(Nat)
    <2>1. ASSUME NEW i \in 1..n PROVE over[i].audit_id \in Nat
        BY <1>1, ElementType DEF AuditEvents
    <2>2. ids_of(over) = [i \in 1..n |-> over[i].audit_id]
        BY <1>1 DEF ids_of
    <2> HIDE DEF over
    <2> QED
        BY <1>1, <2>1, <2>2
<1>3. chain_head(over) \in Seq(SealedEvents)
    <2>1. over[n] \in AuditEvents
        BY <1>1, ElementType
    <2> QED
        BY <1>1, <2>1 DEF chain_head, AuditEvents
<1> HIDE DEF over
<1>4. hash \in BatchHashes
    BY <1>1, <1>2, <1>3 DEF audit_batch_hash, Hash, BatchHashes
<1> HIDE DEF hash
<1>5. [key |-> key, over |-> c] \in BatchSignatures
    BY <1>1, <1>2, <1>3, <1>4 DEF BatchSignatures, CommitBy, CommitRecord, hash
<1>6. batch = Signed(key, c)
    BY CommitForms, Zenon DEF SignedOver, over
<1>7. batch.signature = sign(key, c) /\ canonical_json(c) = c
    BY <1>6 DEF CommitBy, CommitRecord, Signed, canonical_json
<1> HIDE DEF c
<1>8. batch.signature \in BatchSignatures
    BY <1>5, <1>7 DEF sign
<1> QED
    BY <1>8, NoneAssumption

(* The budget of one text field holds 26 joined identifiers.               *)
LEMMA Budget ==
    ASSUME NEW b, NEW n \in Nat, Len(b.audit_ids) = n
    PROVE  audit_batch_signed_material_too_large(b) <=> n > 26
BY DEF audit_batch_signed_material_too_large, AuditIdBytes, OtherSignedBytes,
       MAX_BATCH_SIGNED_TEXT_FIELD_BYTES, MAX_BATCH_SIGNED_TEXT_TOTAL_BYTES

(* What the two checks of the receiver say of a batch with the very events *)
(* that it was signed over: only the budget can refuse it.                 *)
LEMMA VerbatimVerdict ==
    ASSUME LogTypeOK, NEW key \in TrustedSigners, NEW n \in DOMAIN committed, SignedOver(batch, key, n)
    PROVE  /\ batch.event_count = n
           /\ audit_batch_event_violation(batch, SubSeq(committed, 1, n)) = Valid
           /\ audit_batch_auth_violation(batch) = Valid <=> n <= 26
<1> DEFINE over == SubSeq(committed, 1, n)
<1>1. Carries(batch, ids_of(over), Len(over), chain_head(over), audit_batch_hash(over), key, key, key)
    <2>1. batch = Signed(key, CommitBy(over, key, key))
        BY CommitForms, Zenon DEF SignedOver
    <2> QED
        BY <2>1, SignedCommit, Zenon
<1>2. over \in Seq(AuditEvents) /\ Len(over) = n /\ DOMAIN over = 1..n /\ n \in Nat
    BY Prefix DEF LogTypeOK
<1>3. audit_batch_chain_violation(over) = Valid
    BY DEF SignedOver
<1>4. batch.signature # None
    BY SignatureIsSome, TrustAssumption
<1> HIDE DEF over
<1>5. /\ batch.audit_ids = ids_of(over) /\ batch.event_count = n
      /\ batch.chain_head = chain_head(over) /\ batch.batch_hash = audit_batch_hash(over)
      /\ batch.signed_by = key /\ batch.authenticated_signed_by = key
      /\ verify_with_public_key_b64(batch, key)
    BY <1>1, <1>2 DEF Carries, verify_with_public_key_b64, sign
<1>6. audit_batch_event_violation(batch, over) = Valid
    BY <1>2, <1>3, <1>5 DEF audit_batch_event_violation
<1>7. Len(batch.audit_ids) = n
    BY <1>2, <1>5 DEF ids_of
<1>8. audit_batch_signed_material_too_large(batch) <=> n > 26
    BY <1>2, <1>7, Budget
<1>9. key # None
    BY TrustAssumption
<1>10. audit_batch_auth_violation(batch) = Valid <=> ~audit_batch_signed_material_too_large(batch)
    BY <1>4, <1>5, <1>9 DEF audit_batch_auth_violation, Valid
<1> QED
    BY <1>2, <1>5, <1>6, <1>8, <1>10 DEF over

(* A receiver checks what it was shown.                                    *)
LEMMA ReviewStep ==
    ASSUME BatchInv, review = NoReview, batch # None, NEW shown \in Shown, Review(shown[1], shown[2])
    PROVE  BatchInv'
<1> DEFINE b == shown[1]
           evs == shown[2]
<1>0. LogTypeOK /\ PayloadsOnly /\ Linked /\ BatchSigned
    BY DEF BatchInv
<1>1. b \in Rewritten(batch, evs)
    <2>1. CASE Len(events) <= MaxTampered
        BY <2>1 DEF Shown
    <2>2. CASE ~(Len(events) <= MaxTampered)
        <3>1. b = batch
            BY <2>2 DEF Shown
        <3> QED
            BY <3>1 DEF Rewritten
    <2> QED
        BY <2>1, <2>2
<1> HIDE DEF b, evs
<1>2. /\ review' = [batch |-> b, events |-> evs, verbatim |-> b = batch,
                    verdict |-> IF audit_batch_event_violation(b, evs) # Valid
                                THEN audit_batch_event_violation(b, evs)
                                ELSE audit_batch_auth_violation(b)]
      /\ UNCHANGED <<events, committed, batch>>
    BY DEF Review, b, evs
<1>3. PICK key \in Signers, n \in DOMAIN committed : SignedOver(batch, key, n)
    BY <1>0 DEF BatchSigned
<1>4. batch = Signed(key, AuditBatchCommit(SubSeq(committed, 1, n), key))
    BY <1>3 DEF SignedOver
<1>5. /\ review'.batch = b /\ review'.events = evs /\ review'.verbatim = (b = batch)
      /\ review'.verdict = Valid <=> /\ audit_batch_event_violation(b, evs) = Valid
                                     /\ audit_batch_auth_violation(b) = Valid
    BY <1>2
<1>6. BatchProvesLog'
    <2> SUFFICES ASSUME review'.verdict = Valid PROVE evs = SubSeq(committed, 1, n)
        BY <1>2, <1>3, <1>5 DEF BatchProvesLog
    <2> QED
        BY <1>1, <1>4, <1>5, AcceptedIsSignedOver, Zenon
<1>7. SignedBatchVerifies'
    <2> SUFFICES ASSUME b = batch, b.signed_by \in TrustedSigners, evs = SubSeq(committed, 1, b.event_count)
                 PROVE  /\ review'.verdict # Valid => b.event_count > 26
                        /\ review'.verdict = Valid => b.event_count <= 26
        BY <1>2, <1>5 DEF SignedBatchVerifies
    <2>1. batch.signed_by = key
        <3>1. batch = Signed(key, CommitBy(SubSeq(committed, 1, n), key, key))
            BY <1>4, CommitForms, Zenon
        <3>2. Carries(batch, ids_of(SubSeq(committed, 1, n)), Len(SubSeq(committed, 1, n)),
                      chain_head(SubSeq(committed, 1, n)), audit_batch_hash(SubSeq(committed, 1, n)),
                      key, key, key)
            BY <3>1, SignedCommit, Zenon
        <3> QED
            BY <3>2, Zenon DEF Carries
    <2>2. /\ batch.event_count = n
          /\ audit_batch_event_violation(batch, SubSeq(committed, 1, n)) = Valid
          /\ audit_batch_auth_violation(batch) = Valid <=> n <= 26
        BY <1>0, <1>3, <2>1, VerbatimVerdict
    <2>3. review'.verdict = Valid <=> n <= 26
        BY <1>5, <2>2
    <2>4. n \in Nat
        BY <1>0 DEF LogTypeOK
    <2> QED
        BY <2>2, <2>3, <2>4
<1>8. (LogTypeOK /\ PayloadsOnly /\ Linked /\ BatchSigned)'
    BY <1>0, <1>2 DEF LogTypeOK, PayloadsOnly, Linked, BatchSigned, SignedOver
<1> QED
    BY <1>6, <1>7, <1>8 DEF BatchInv

(* Every step preserves the invariant.                                     *)
LEMMA BatchStep == BatchInv /\ [BatchNext]_batch_vars => BatchInv'
<1> SUFFICES ASSUME BatchInv, [BatchNext]_batch_vars PROVE BatchInv'
    OBVIOUS
<1>1. CASE UNCHANGED batch_vars
    BY <1>1 DEF batch_vars, BatchInv, LogTypeOK, PayloadsOnly, Linked, BatchSigned, SignedOver,
                BatchProvesLog, SignedBatchVerifies
<1>2. CASE BatchNext
    BY <1>2, RecordStep, MutateStep, SignBatchStep, ReviewStep, Zenon DEF BatchNext
<1> QED
    BY <1>1, <1>2

(* The invariant of the log, its batches and their review.                 *)
LEMMA BatchInvariant == BatchSpec => []BatchInv
BY BatchInitially, BatchStep, PTL DEF BatchSpec

(* A receiver that accepts a batch has seen the log from its first event   *)
(* on, as append() committed it, whatever became of the batch, of the      *)
(* events shown with it and of the log's own objects.                      *)
THEOREM BatchProvesLogHolds == BatchSpec => []BatchProvesLog
<1>1. BatchInv => BatchProvesLog
    BY DEF BatchInv
<1> QED
    BY <1>1, BatchInvariant, PTL

(* A batch that is shown as it was signed, with the events it was signed   *)
(* over, verifies if and only if it has at most 26 events.                 *)
THEOREM SignedBatchVerifiesHolds == BatchSpec => []SignedBatchVerifies
<1>1. BatchInv => SignedBatchVerifies
    BY DEF BatchInv
<1> QED
    BY <1>1, BatchInvariant, PTL
-----------------------------------------------------------------------------
(* Attestations.                                                           *)

(* A ladder whose violated checks have reasons answers Valid exactly when  *)
(* none is violated.                                                       *)
LEMMA LadderAnswer ==
    ASSUME NEW checks, DOMAIN checks \subseteq Nat,
           \A i \in DOMAIN checks : checks[i][1] => checks[i][2] # Valid
    PROVE  FirstViolation(checks) = Valid <=> \A i \in DOMAIN checks : ~checks[i][1]
<1> DEFINE bad == {i \in DOMAIN checks : checks[i][1]}
           first == CHOOSE i \in bad : \A j \in bad : i <= j
<1>1. CASE bad = {}
    BY <1>1 DEF FirstViolation
<1>2. CASE bad # {}
    <2>1. first \in bad
        BY <1>2, FirstPosition
    <2>2. FirstViolation(checks) = checks[first][2]
        BY <1>2 DEF FirstViolation
    <2> QED
        BY <2>1, <2>2
<1> QED
    BY <1>1, <1>2

(* When the signature of an attestation is good.                           *)
LEMMA AuthAnswer ==
    ASSUME NEW a
    PROVE  attestation_auth_violation(a) = Valid <=>
               /\ "ALGORITHM" \notin a.defects
               /\ a.authenticated_agent_id # None
               /\ a.authenticated_agent_id = a.agent_id
               /\ a.signature # None
               /\ a.authenticated_agent_id = AgentId /\ trust.key # None
               /\ "SIZE" \notin a.defects
               /\ verify_with_public_key_b64(a, trust.key)
<1> DEFINE c1 == "ALGORITHM" \in a.defects
           c2 == a.authenticated_agent_id = None
           c3 == a.authenticated_agent_id # a.agent_id
           c4 == a.signature = None
           c5 == a.authenticated_agent_id # AgentId \/ trust.key = None
           c6 == "SIZE" \in a.defects
           c7 == ~verify_with_public_key_b64(a, trust.key)
           ladder == <<
               <<c1, "ATTESTATION_SIGNATURE_ALGORITHM_UNSUPPORTED">>,
               <<c2, "ATTESTATION_AUTHENTICATED_AGENT_MISSING">>,
               <<c3, "ATTESTATION_AUTHENTICATED_AGENT_MISMATCH">>,
               <<c4, "ATTESTATION_SIGNATURE_MISSING">>,
               <<c5, "ATTESTATION_AGENT_KEY_NOT_TRUSTED">>,
               <<c6, "ATTESTATION_SIGNED_MATERIAL_TOO_LARGE">>,
               <<c7, "ATTESTATION_SIGNATURE_INVALID">> >>
<1>1. attestation_auth_violation(a) = FirstViolation(ladder)
    BY DEF attestation_auth_violation
<1> HIDE DEF c1, c2, c3, c4, c5, c6, c7
<1>2. DOMAIN ladder = 1..7 /\ \A i \in 1..7 : ladder[i][2] # Valid
    BY DEF Valid
<1>3. /\ ladder[1][1] = c1 /\ ladder[2][1] = c2 /\ ladder[3][1] = c3 /\ ladder[4][1] = c4
      /\ ladder[5][1] = c5 /\ ladder[6][1] = c6 /\ ladder[7][1] = c7
    OBVIOUS
<1> HIDE DEF ladder
<1>4. FirstViolation(ladder) = Valid <=> \A i \in 1..7 : ~ladder[i][1]
    BY <1>2, LadderAnswer
<1>5. (\A i \in 1..7 : ~ladder[i][1]) <=> /\ ~ladder[1][1] /\ ~ladder[2][1] /\ ~ladder[3][1] /\ ~ladder[4][1]
                                          /\ ~ladder[5][1] /\ ~ladder[6][1] /\ ~ladder[7][1]
    OBVIOUS
<1>6. (\A i \in 1..7 : ~ladder[i][1]) <=> ~c1 /\ ~c2 /\ ~c3 /\ ~c4 /\ ~c5 /\ ~c6 /\ ~c7
    BY <1>3, <1>5, Zenon
<1> QED
    BY <1>1, <1>4, <1>6, Zenon DEF c1, c2, c3, c4, c5, c6, c7

(* When its time is.                                                       *)
LEMMA TimeAnswer ==
    ASSUME NEW a
    PROVE  attestation_time_violation(a) = Valid <=>
               /\ "TIMESTAMP" \notin a.defects
               /\ ~(a.created_at > clock + Skew)
               /\ ~(clock - a.created_at > MaxAge + Skew)
<1> DEFINE c1 == "TIMESTAMP" \in a.defects
           c2 == a.created_at > clock + Skew
           c3 == clock - a.created_at > MaxAge + Skew
           ladder == <<
               <<c1, "ATTESTATION_TIMESTAMP_INVALID">>,
               <<c2, "ATTESTATION_NOT_YET_VALID">>,
               <<c3, "ATTESTATION_STALE">> >>
<1>1. attestation_time_violation(a) = FirstViolation(ladder)
    BY DEF attestation_time_violation
<1> HIDE DEF c1, c2, c3
<1>2. DOMAIN ladder = 1..3 /\ \A i \in 1..3 : ladder[i][2] # Valid
    BY DEF Valid
<1>3. ladder[1][1] = c1 /\ ladder[2][1] = c2 /\ ladder[3][1] = c3
    OBVIOUS
<1> HIDE DEF ladder
<1>4. FirstViolation(ladder) = Valid <=> \A i \in 1..3 : ~ladder[i][1]
    BY <1>2, LadderAnswer
<1>5. (\A i \in 1..3 : ~ladder[i][1]) <=> ~ladder[1][1] /\ ~ladder[2][1] /\ ~ladder[3][1]
    OBVIOUS
<1>6. (\A i \in 1..3 : ~ladder[i][1]) <=> ~c1 /\ ~c2 /\ ~c3
    BY <1>3, <1>5, Zenon
<1> QED
    BY <1>1, <1>4, <1>6, Zenon DEF c1, c2, c3

(* When the verifier trusts an attestation.                                *)
LEMMA TrustAnswer ==
    ASSUME NEW a
    PROVE  attestation_trust_violation(a) = Valid <=>
               /\ attestation_auth_violation(a) = Valid
               /\ attestation_time_violation(a) = Valid
               /\ a.manifest_digest # None
               /\ a.public_key_id # None
               /\ trust.key_id # None
               /\ a.public_key_id = trust.key_id
               /\ ~a.revoked
               /\ AcceptedTiers # {}
               /\ "TIER" \notin a.defects
               /\ a.trust_tier \in AcceptedTiers
               /\ trust.manifest # None
               /\ a.manifest_digest = trust.manifest
<1> DEFINE auth == attestation_auth_violation(a)
           time == attestation_time_violation(a)
           c1 == auth # Valid
           c2 == time # Valid
           c3 == a.manifest_digest = None
           c4 == a.public_key_id = None
           c5 == trust.key_id = None
           c6 == a.public_key_id # trust.key_id
           c7 == a.revoked
           c8 == AcceptedTiers = {}
           c9 == "TIER" \in a.defects
           c10 == a.trust_tier \notin AcceptedTiers
           c11 == trust.manifest = None
           c12 == a.manifest_digest # trust.manifest
           ladder == <<
               <<c1, auth>>,
               <<c2, time>>,
               <<c3, "ATTESTATION_MANIFEST_DIGEST_MISSING">>,
               <<c4, "ATTESTATION_PUBLIC_KEY_ID_MISSING">>,
               <<c5, "ATTESTATION_PUBLIC_KEY_ID_NOT_TRUSTED">>,
               <<c6, "ATTESTATION_PUBLIC_KEY_ID_MISMATCH">>,
               <<c7, "ATTESTATION_AGENT_REVOKED">>,
               <<c8, "ATTESTATION_TRUST_TIER_POLICY_REQUIRED">>,
               <<c9, "ATTESTATION_TRUST_TIER_MISSING">>,
               <<c10, "ATTESTATION_TRUST_TIER_NOT_ACCEPTED">>,
               <<c11, "ATTESTATION_MANIFEST_DIGEST_NOT_TRUSTED">>,
               <<c12, "ATTESTATION_MANIFEST_DIGEST_MISMATCH">> >>
<1>1. attestation_trust_violation(a) = FirstViolation(ladder)
    BY DEF attestation_trust_violation
<1>2. (c1 => auth # Valid) /\ (c2 => time # Valid)
    OBVIOUS
<1> HIDE DEF c1, c2, c3, c4, c5, c6, c7, c8, c9, c10, c11, c12, auth, time
<1>3. DOMAIN ladder = 1..12
    OBVIOUS
<1>4. /\ ladder[1][1] = c1 /\ ladder[2][1] = c2 /\ ladder[3][1] = c3 /\ ladder[4][1] = c4
      /\ ladder[5][1] = c5 /\ ladder[6][1] = c6 /\ ladder[7][1] = c7 /\ ladder[8][1] = c8
      /\ ladder[9][1] = c9 /\ ladder[10][1] = c10 /\ ladder[11][1] = c11 /\ ladder[12][1] = c12
    OBVIOUS
<1>5. /\ ladder[1][2] = auth /\ ladder[2][2] = time
      /\ \A i \in 3..12 : ladder[i][2] # Valid
    BY DEF Valid
<1> HIDE DEF ladder
<1>6. (ladder[1][1] => ladder[1][2] # Valid) /\ (ladder[2][1] => ladder[2][2] # Valid)
    BY <1>2, <1>4, <1>5, Zenon
<1>7. \A i \in 1..12 : ladder[i][1] => ladder[i][2] # Valid
    BY <1>5, <1>6
<1>8. FirstViolation(ladder) = Valid <=> \A i \in 1..12 : ~ladder[i][1]
    BY <1>3, <1>7, LadderAnswer
<1>9. (\A i \in 1..12 : ~ladder[i][1]) <=>
          /\ ~ladder[1][1] /\ ~ladder[2][1] /\ ~ladder[3][1] /\ ~ladder[4][1]
          /\ ~ladder[5][1] /\ ~ladder[6][1] /\ ~ladder[7][1] /\ ~ladder[8][1]
          /\ ~ladder[9][1] /\ ~ladder[10][1] /\ ~ladder[11][1] /\ ~ladder[12][1]
    OBVIOUS
<1>10. (\A i \in 1..12 : ~ladder[i][1]) <=>
           ~c1 /\ ~c2 /\ ~c3 /\ ~c4 /\ ~c5 /\ ~c6 /\ ~c7 /\ ~c8 /\ ~c9 /\ ~c10 /\ ~c11 /\ ~c12
    BY <1>4, <1>9, Zenon
<1> QED
    BY <1>1, <1>8, <1>10, Zenon DEF c1, c2, c3, c4, c5, c6, c7, c8, c9, c10, c11, c12, auth, time

\* The agent signed s.message in release s.release, when the verifier's clock was at s.at.
AgentSent(s) ==
    /\ s.release \in DOMAIN Releases
    /\ s.at \in Nat /\ s.at <= clock
    /\ \E created \in (s.at - Skew)..(s.at + Skew), tier \in Tiers, rev \in BOOLEAN :
          /\ s.message = Signed(Releases[s.release].key,
                                AgentAttestation(Releases[s.release], created, tier, rev))
          /\ withdrawn # None /\ ~rev => s.at <= withdrawn

AttestationTypeOK ==
    /\ clock \in Nat
    /\ running \in DOMAIN Releases
    /\ withdrawn \in Nat \cup {None}
    /\ trust = [key |-> trust.key, key_id |-> trust.key_id, manifest |-> trust.manifest]

VerdictGiven ==
    verdict # None =>
        /\ verdict.sent \in sent
        /\ verdict.attestation \in AttestationArrivals(verdict.sent.message)
        /\ verdict.intact = (verdict.attestation = verdict.sent.message)
        /\ verdict.reason = attestation_trust_violation(verdict.attestation)

AttestationInv == AttestationTypeOK /\ (\A s \in sent : AgentSent(s)) /\ VerdictGiven

(* The fields of an attestation that the agent has signed.                 *)
LEMMA SignedAttestation ==
    ASSUME NEW r, NEW created, NEW tier, NEW rev
    PROVE  Signed(r.key, AgentAttestation(r, created, tier, rev)) =
               [agent_id |-> AgentId, authenticated_agent_id |-> AgentId, created_at |-> created,
                manifest_digest |-> r.manifest, public_key_id |-> r.key_id, trust_tier |-> tier,
                revoked |-> rev, defects |-> {},
                signature |-> [key |-> r.key, over |-> AgentAttestation(r, created, tier, rev)]]
BY DEF Signed, sign, canonical_json, AgentAttestation

(* What the signature covers.                                              *)
LEMMA SignedCanonical ==
    ASSUME NEW r, NEW created, NEW tier, NEW rev
    PROVE  canonical_json(Signed(r.key, AgentAttestation(r, created, tier, rev)))
               = AgentAttestation(r, created, tier, rev)
<1> DEFINE over == AgentAttestation(r, created, tier, rev)
           made(signature) ==
               [agent_id |-> AgentId, authenticated_agent_id |-> AgentId, created_at |-> created,
                manifest_digest |-> r.manifest, public_key_id |-> r.key_id, trust_tier |-> tier,
                revoked |-> rev, defects |-> {}, signature |-> signature]
<1>1. Signed(r.key, over) = made([key |-> r.key, over |-> over])
    BY SignedAttestation, Zenon
<1>2. ASSUME NEW x PROVE [made(x) EXCEPT !.signature = None] = over
    BY DEF AgentAttestation
<1> QED
    BY <1>1, <1>2, Zenon DEF canonical_json

(* The initial states satisfy the invariant.                               *)
LEMMA AttestationInitially == AttestationInit => AttestationInv
<1> SUFFICES ASSUME AttestationInit PROVE AttestationInv
    OBVIOUS
<1>1. 1 \in DOMAIN Releases
    BY ReleasesAssumption
<1>2. AttestationTypeOK
    BY <1>1, ReleasesAssumption DEF AttestationInit, AttestationTypeOK
<1> QED
    BY <1>2 DEF AttestationInit, AttestationInv, VerdictGiven

(* Every step preserves the invariant.                                     *)
LEMMA AttestationStep == AttestationInv /\ [AttestationNext]_attestation_vars => AttestationInv'
<1> SUFFICES ASSUME AttestationInv, [AttestationNext]_attestation_vars PROVE AttestationInv'
    OBVIOUS
<1>0. AttestationTypeOK /\ (\A s \in sent : AgentSent(s)) /\ VerdictGiven
    BY DEF AttestationInv
<1>1. CASE UNCHANGED attestation_vars
    <2>1. AttestationTypeOK' /\ \A s \in sent : AgentSent(s)'
        BY <1>0, <1>1 DEF attestation_vars, AttestationTypeOK, AgentSent
    <2>2. \A a : attestation_trust_violation(a)' = attestation_trust_violation(a)
        BY <1>1 DEF attestation_vars, attestation_trust_violation, attestation_auth_violation,
                    attestation_time_violation
    <2>3. VerdictGiven'
        BY <1>0, <1>1, <2>2 DEF attestation_vars, VerdictGiven, AttestationArrivals
    <2> QED
        BY <1>1, <2>1, <2>3 DEF attestation_vars, AttestationInv
<1>2. ASSUME verdict = None, Tick PROVE AttestationInv'
    <2>1. clock' = clock + 1 /\ UNCHANGED <<running, withdrawn, trust, sent, verdict>>
        BY <1>2 DEF Tick
    <2>2. AttestationTypeOK'
        BY <1>0, <2>1 DEF AttestationTypeOK
    <2>3. ASSUME NEW s \in sent PROVE AgentSent(s)'
        <3>1. AgentSent(s) /\ clock \in Nat
            BY <1>0 DEF AttestationTypeOK
        <3>2. s.at \in Nat /\ s.at <= clock'
            BY <2>1, <3>1 DEF AgentSent
        <3> QED
            BY <2>1, <3>1, <3>2 DEF AgentSent
    <2> QED
        BY <1>2, <2>1, <2>2, <2>3 DEF AttestationInv, VerdictGiven
<1>3. ASSUME verdict = None, Upgrade PROVE AttestationInv'
    <2>1. /\ running < Len(Releases) /\ running' = running + 1
          /\ UNCHANGED <<clock, withdrawn, trust, sent, verdict>>
        BY <1>3 DEF Upgrade
    <2>2. AttestationTypeOK'
        BY <1>0, <2>1, ReleasesAssumption DEF AttestationTypeOK
    <2>3. \A s \in sent : AgentSent(s)'
        BY <1>0, <2>1 DEF AgentSent
    <2> QED
        BY <1>3, <2>1, <2>2, <2>3 DEF AttestationInv, VerdictGiven
<1>4. ASSUME verdict = None, Withdraw PROVE AttestationInv'
    <2>1. withdrawn' = clock /\ UNCHANGED <<clock, running, trust, sent, verdict>>
        BY <1>4 DEF Withdraw
    <2>2. AttestationTypeOK'
        BY <1>0, <2>1 DEF AttestationTypeOK
    <2>3. \A s \in sent : AgentSent(s)'
        BY <1>0, <2>1 DEF AgentSent
    <2> QED
        BY <1>4, <2>1, <2>2, <2>3 DEF AttestationInv, VerdictGiven
<1>5. ASSUME verdict = None, NEW drift \in (-Skew)..Skew, NEW tier \in Tiers, Attest(drift, tier)
      PROVE  AttestationInv'
    <2> DEFINE r == Releases[running]
               rev == withdrawn # None
               new == [message |-> Signed(r.key, AgentAttestation(r, clock + drift, tier, rev)),
                       at |-> clock, release |-> running]
    <2>1. sent' = sent \cup {new} /\ UNCHANGED <<clock, running, withdrawn, trust, verdict>>
        BY <1>5 DEF Attest
    <2>2. AttestationTypeOK'
        BY <1>0, <2>1 DEF AttestationTypeOK
    <2>3. \A s \in sent : AgentSent(s)'
        BY <1>0, <2>1 DEF AgentSent
    <2>4. clock + drift \in (clock - Skew)..(clock + Skew) /\ clock \in Nat
        BY <1>0, AgesAssumption DEF AttestationTypeOK
    <2>5. rev \in BOOLEAN /\ (withdrawn # None /\ ~rev => clock <= withdrawn)
        OBVIOUS
    <2>. PICK x : x = new
        OBVIOUS
    <2>6. /\ sent' = sent \cup {x} /\ x.release = running /\ x.at = clock
          /\ x.message = Signed(Releases[running].key,
                                  AgentAttestation(Releases[running], clock + drift, tier, rev))
        BY <2>1
    <2> HIDE DEF new, rev, r
    <2>7. AgentSent(x)
        BY <1>0, <2>4, <2>5, <2>6 DEF AgentSent, AttestationTypeOK
    <2>8. AgentSent(x)'
        BY <2>1, <2>7 DEF AgentSent
    <2> QED
        BY <1>5, <2>1, <2>2, <2>3, <2>6, <2>8 DEF AttestationInv, VerdictGiven
<1>6. ASSUME verdict = None, NEW table \in {"key", "key_id", "manifest"},
             NEW n \in DOMAIN Releases \cup {None}, Configure(table, n)
      PROVE  AttestationInv'
    <2>1. /\ trust' = [trust EXCEPT ![table] = IF n = None THEN None ELSE Releases[n][table]]
          /\ UNCHANGED <<clock, running, withdrawn, sent, verdict>>
        BY <1>6 DEF Configure
    <2>2. trust' = [key |-> trust'.key, key_id |-> trust'.key_id, manifest |-> trust'.manifest]
        <3> DEFINE value == IF n = None THEN None ELSE Releases[n][table]
        <3>1. trust' = [trust EXCEPT ![table] = value]
            BY <2>1
        <3> HIDE DEF value
        <3> QED
            BY <1>0, <3>1 DEF AttestationTypeOK
    <2>3. AttestationTypeOK'
        BY <1>0, <2>1, <2>2 DEF AttestationTypeOK
    <2>4. \A s \in sent : AgentSent(s)'
        BY <1>0, <2>1 DEF AgentSent
    <2> QED
        BY <1>6, <2>1, <2>3, <2>4 DEF AttestationInv, VerdictGiven
<1>7. ASSUME NEW s \in sent, NEW a \in AttestationArrivals(s.message), Verify(s, a)
      PROVE  AttestationInv'
    <2>1. /\ verdict' = [attestation |-> a, sent |-> s, intact |-> a = s.message,
                         reason |-> attestation_trust_violation(a)]
          /\ UNCHANGED <<clock, running, withdrawn, trust, sent>>
        BY <1>7 DEF Verify
    <2>2. AttestationTypeOK' /\ \A t \in sent : AgentSent(t)'
        BY <1>0, <2>1 DEF AttestationTypeOK, AgentSent
    <2>3. attestation_trust_violation(a)' = attestation_trust_violation(a)
        BY <2>1 DEF attestation_trust_violation, attestation_auth_violation, attestation_time_violation
    <2>4. AttestationArrivals(s.message)' = AttestationArrivals(s.message)
        BY <2>1 DEF AttestationArrivals
    <2>5. VerdictGiven'
        <3>1. /\ verdict'.attestation = a /\ verdict'.sent = s /\ verdict'.intact = (a = s.message)
              /\ verdict'.reason = attestation_trust_violation(a)
            BY <2>1
        <3> QED
            BY <1>7, <2>1, <2>3, <2>4, <3>1 DEF VerdictGiven
    <2> QED
        BY <2>1, <2>2, <2>5 DEF AttestationInv
<1> QED
    BY <1>1, <1>2, <1>3, <1>4, <1>5, <1>6, <1>7 DEF AttestationNext

(* The invariant holds throughout.                                         *)
LEMMA AttestationInvariant == AttestationSpec => []AttestationInv
BY AttestationInitially, AttestationStep, PTL DEF AttestationSpec

(* An accepted attestation is what the agent signed, in a release that all *)
(* three tables stand at, not revoked and neither too new nor too old.     *)
LEMMA AcceptedAttestation ==
    ASSUME AttestationInv, Accepted
    PROVE  /\ verdict.intact
           /\ trust = Releases[verdict.sent.release]
           /\ withdrawn # None => clock <= withdrawn + MaxAge + 2 * Skew
<1> DEFINE s == verdict.sent
           a == verdict.attestation
           r == Releases[s.release]
<1>0. AttestationTypeOK /\ AgentSent(s) /\ VerdictGiven /\ verdict # None
    BY DEF AttestationInv, Accepted, VerdictGiven
<1>1. a \in AttestationArrivals(s.message) /\ attestation_trust_violation(a) = Valid
    BY <1>0 DEF VerdictGiven, Accepted
<1>2. /\ verdict.intact = (a = s.message)
      /\ s.release \in DOMAIN Releases /\ s.at \in Nat
    BY <1>0 DEF VerdictGiven, AgentSent
<1>3. PICK created \in (s.at - Skew)..(s.at + Skew), tier \in Tiers, rev \in BOOLEAN :
          /\ s.message = Signed(r.key, AgentAttestation(r, created, tier, rev))
          /\ withdrawn # None /\ ~rev => s.at <= withdrawn
    BY <1>0 DEF AgentSent
<1> HIDE DEF s, a, r
<1> DEFINE m == s.message
<1>4. m = [agent_id |-> AgentId, authenticated_agent_id |-> AgentId, created_at |-> created,
           manifest_digest |-> r.manifest, public_key_id |-> r.key_id, trust_tier |-> tier,
           revoked |-> rev, defects |-> {},
           signature |-> [key |-> r.key, over |-> AgentAttestation(r, created, tier, rev)]]
    BY <1>3, SignedAttestation, Zenon
<1>5. canonical_json(m) = AgentAttestation(r, created, tier, rev)
    BY <1>3, SignedCanonical, Zenon
<1> HIDE DEF m
<1>6. /\ a.signature # None
      /\ a.signature = [key |-> trust.key, over |-> canonical_json(a)]
      /\ ~(a.created_at > clock + Skew)
      /\ ~(clock - a.created_at > MaxAge + Skew)
      /\ a.public_key_id = trust.key_id
      /\ ~a.revoked
      /\ a.manifest_digest = trust.manifest
    BY <1>1, AuthAnswer, TimeAnswer, TrustAnswer, Zenon DEF verify_with_public_key_b64, sign
<1>7. /\ a = [agent_id |-> a.agent_id, authenticated_agent_id |-> a.authenticated_agent_id,
              created_at |-> a.created_at, manifest_digest |-> a.manifest_digest,
              public_key_id |-> a.public_key_id, trust_tier |-> a.trust_tier,
              revoked |-> a.revoked, defects |-> a.defects, signature |-> a.signature]
      /\ a.signature \in {m.signature, None}
    BY <1>1, <1>4 DEF AttestationArrivals, m
<1>8. trust.key = r.key /\ canonical_json(a) = canonical_json(m) /\ a.signature = m.signature
    BY <1>4, <1>5, <1>6, <1>7
<1>9. a = m
    BY <1>4, <1>7, <1>8 DEF canonical_json
<1>10. trust = r
    <2>1. r = [key |-> r.key, key_id |-> r.key_id, manifest |-> r.manifest]
        BY <1>2, ReleasesAssumption DEF r
    <2>2. trust = [key |-> trust.key, key_id |-> trust.key_id, manifest |-> trust.manifest]
        BY <1>0 DEF AttestationTypeOK
    <2>3. trust.key_id = r.key_id /\ trust.manifest = r.manifest
        BY <1>4, <1>6, <1>9
    <2> QED
        BY <1>8, <2>1, <2>2, <2>3
<1>11. ASSUME withdrawn # None PROVE clock <= withdrawn + MaxAge + 2 * Skew
    <2>1. ~rev /\ a.created_at = created
        BY <1>4, <1>6, <1>9
    <2>2. s.at <= withdrawn /\ withdrawn \in Nat /\ clock \in Nat
        BY <1>0, <1>3, <1>11, <2>1 DEF AttestationTypeOK, m
    <2>3. created \in Int /\ created <= s.at + Skew /\ clock - created <= MaxAge + Skew
        BY <1>2, <1>6, <2>1, <2>2, AgesAssumption
    <2> QED
        BY <1>2, <2>2, <2>3, AgesAssumption
<1> QED
    BY <1>2, <1>9, <1>10, <1>11 DEF s, a, r, m

(* However late or often the attestations from before a revocation are     *)
(* delivered, none is accepted once MaxAge and twice the skew have passed. *)
THEOREM RevokedFadesOutHolds == AttestationSpec => []RevokedFadesOut
<1>1. AttestationInv => RevokedFadesOut
    BY AcceptedAttestation DEF RevokedFadesOut
<1> QED
    BY <1>1, AttestationInvariant, PTL

(* Whatever happens on the way and in whatever order the operator updates  *)
(* the three tables, what is accepted was signed by the agent as it is, in *)
(* the one release that all three tables stand at.                         *)
THEOREM AcceptedIsCurrentHolds == AttestationSpec => []AcceptedIsCurrent
<1>1. AttestationInv => AcceptedIsCurrent
    BY AcceptedAttestation DEF AcceptedIsCurrent
<1> QED
    BY <1>1, AttestationInvariant, PTL

(* An undamaged attestation of the current release that arrives within     *)
(* MaxAge is accepted, whatever the drift of the agent's clock within the  *)
(* skew.                                                                   *)
THEOREM FreshIsAcceptedHolds == AttestationSpec => []FreshIsAccepted
<1>1. AttestationInv => FreshIsAccepted
    <2> SUFFICES ASSUME AttestationInv, verdict # None, verdict.intact, ~verdict.attestation.revoked,
                        verdict.attestation.trust_tier \in AcceptedTiers,
                        trust = Releases[verdict.sent.release], clock - verdict.sent.at <= MaxAge
                 PROVE  attestation_trust_violation(verdict.attestation) = Valid
        BY DEF FreshIsAccepted, Accepted, AttestationInv, VerdictGiven
    <2> DEFINE s == verdict.sent
               a == verdict.attestation
    <2>0. AttestationTypeOK /\ AgentSent(s) /\ VerdictGiven
        BY DEF AttestationInv, VerdictGiven
    <2>1. /\ a = s.message /\ s.release \in DOMAIN Releases /\ s.at \in Nat /\ s.at <= clock /\ clock \in Nat
        BY <2>0 DEF VerdictGiven, AgentSent, AttestationTypeOK
    <2>2. PICK created \in (s.at - Skew)..(s.at + Skew), tier \in Tiers, rev \in BOOLEAN :
              a = Signed(trust.key, AgentAttestation(trust, created, tier, rev))
        BY <2>0, <2>1 DEF AgentSent
    <2> DEFINE over == AgentAttestation(trust, created, tier, rev)
    <2>3. trust.key # None /\ trust.key_id # None /\ trust.manifest # None
        BY <2>1, ReleasesAssumption
    <2>4. [key |-> trust.key, over |-> over] \in AttestationSignatures
        <3>1. /\ trust.key \in {Releases[i].key : i \in DOMAIN Releases}
              /\ trust.manifest \in {Releases[i].manifest : i \in DOMAIN Releases}
              /\ trust.key_id \in {Releases[i].key_id : i \in DOMAIN Releases}
            BY <2>1
        <3>2. created \in Int
            OBVIOUS
        <3> QED
            BY <2>2, <3>1, <3>2 DEF AttestationSignatures, AgentAttestation
    <2> HIDE DEF s, a
    <2>5. a = [agent_id |-> AgentId, authenticated_agent_id |-> AgentId, created_at |-> created,
               manifest_digest |-> trust.manifest, public_key_id |-> trust.key_id, trust_tier |-> tier,
               revoked |-> rev, defects |-> {}, signature |-> [key |-> trust.key, over |-> over]]
        BY <2>2, SignedAttestation, Zenon
    <2>6. canonical_json(a) = over
        BY <2>2, SignedCanonical, Zenon
    <2> HIDE DEF over
    <2>7. verify_with_public_key_b64(a, trust.key) /\ a.signature # None
        BY <2>4, <2>5, <2>6, SomeAssumption DEF verify_with_public_key_b64, sign
    <2>8. a.created_at \in Int /\ a.created_at <= s.at + Skew /\ a.created_at >= s.at - Skew
        BY <2>1, <2>5, AgesAssumption
    <2>9. ~(a.created_at > clock + Skew) /\ ~(clock - a.created_at > MaxAge + Skew)
        BY <2>1, <2>8, AgesAssumption DEF s
    <2>10. /\ a.agent_id = AgentId /\ a.authenticated_agent_id = AgentId /\ AgentId # None
           /\ a.defects = {} /\ a.manifest_digest = trust.manifest /\ a.public_key_id = trust.key_id
        BY <2>5, SomeAssumption
    <2>11. attestation_auth_violation(a) = Valid
        BY <2>3, <2>7, <2>10, AuthAnswer
    <2>12. attestation_time_violation(a) = Valid
        BY <2>9, <2>10, TimeAnswer
    <2>13. attestation_trust_violation(a) = Valid
        BY <2>3, <2>10, <2>11, <2>12, TrustAnswer DEF a
    <2> QED
        BY <2>13 DEF a
<1> QED
    BY <1>1, AttestationInvariant, PTL
=============================================================================
