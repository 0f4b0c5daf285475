--------------------------- MODULE AuditLogProofs ---------------------------
(***************************************************************************)
(* The audit log, its export and its import, for logs of every length, all *)
(* contents, any number of edits to the file and of restarts.              *)
(***************************************************************************)
EXTENDS AuditLog, TLAPS, SequenceTheorems, WellFoundedInduction

-----------------------------------------------------------------------------
(* Sequences and numbers.                                                  *)

(* Induction up to n, over the set of the numbers that have the property.  *)
LEMMA UpTo ==
    ASSUME NEW n \in Nat, NEW P, 0 \in P, \A k \in 1..n : k - 1 \in P => k \in P
    PROVE  0..n \subseteq P
<1> DEFINE bad == (0..n) \ P
<1> SUFFICES ASSUME bad # {} PROVE FALSE
    OBVIOUS
<1>1. bad \in SUBSET Nat
    OBVIOUS
<1>2. PICK i \in bad : \A j \in bad : ~ (<<j, i>> \in OpToRel(<, Nat))
    BY <1>1, NatLessThanWellFounded, WFMin, Zenon
<1>3. \A j \in bad : ~ (j < i)
    BY <1>1, <1>2 DEF OpToRel
<1>4. i \in 1..n /\ i - 1 \in 0..n
    OBVIOUS
<1>5. i - 1 \in P
    BY <1>3, <1>4
<1> QED
    BY <1>4, <1>5

(* An element of a sequence.                                               *)
LEMMA ElementType == ASSUME NEW S, NEW s \in Seq(S), NEW i \in DOMAIN s PROVE s[i] \in S
OBVIOUS

(* What Append does.                                                       *)
LEMMA Appended ==
    ASSUME NEW S, NEW s \in Seq(S), NEW e \in S
    PROVE  /\ Append(s, e) \in Seq(S)
           /\ Len(Append(s, e)) = Len(s) + 1 /\ Len(s) \in Nat
           /\ DOMAIN s = 1..Len(s)
           /\ DOMAIN Append(s, e) = DOMAIN s \cup {Len(s) + 1}
           /\ \A i \in DOMAIN s : Append(s, e)[i] = s[i]
           /\ Append(s, e)[Len(s) + 1] = e
OBVIOUS

(* A prefix of a sequence, and the next longer one.                        *)
LEMMA Prefix ==
    ASSUME NEW S, NEW s \in Seq(S), NEW n \in 0..Len(s)
    PROVE  /\ SubSeq(s, 1, n) \in Seq(S)
           /\ Len(SubSeq(s, 1, n)) = n
           /\ DOMAIN SubSeq(s, 1, n) = 1..n
           /\ \A i \in 1..n : SubSeq(s, 1, n)[i] = s[i]
           /\ n < Len(s) => Append(SubSeq(s, 1, n), s[n + 1]) = SubSeq(s, 1, n + 1)
<1>1. \A i \in 1..n : s[i] \in S
    OBVIOUS
<1>2. /\ SubSeq(s, 1, n) \in Seq(S)
      /\ Len(SubSeq(s, 1, n)) = n
      /\ \A i \in 1..n : SubSeq(s, 1, n)[i] = s[i]
    BY <1>1, SubSeqProperties
<1>3. ASSUME n < Len(s) PROVE Append(SubSeq(s, 1, n), s[n + 1]) = SubSeq(s, 1, n + 1)
    <2>1. \A i \in 1..(n + 1) : s[i] \in S
        BY <1>3
    <2>2. /\ SubSeq(s, 1, n + 1) \in Seq(S)
          /\ Len(SubSeq(s, 1, n + 1)) = n + 1
          /\ \A i \in 1..(n + 1) : SubSeq(s, 1, n + 1)[i] = s[i]
        BY <2>1, SubSeqProperties
    <2> DEFINE t == SubSeq(s, 1, n)
    <2> HIDE DEF t
    <2>3. /\ Append(t, s[n + 1]) \in Seq(S) /\ Len(Append(t, s[n + 1])) = n + 1
          /\ \A i \in 1..(n + 1) : Append(t, s[n + 1])[i] = s[i]
        BY <1>2, <2>1 DEF t
    <2>4. Append(t, s[n + 1]) = SubSeq(s, 1, n + 1)
        BY <2>2, <2>3, SeqEqual
    <2> QED
        BY <2>4 DEF t
<1> QED
    BY <1>2, <1>3

-----------------------------------------------------------------------------
(* The text that write_jsonl leaves.                                       *)

\* f is the text of the first events of evs, for every number of them.
IsText(f, evs, n) ==
    f = [k \in 0..n |-> IF k = 0 THEN << >> ELSE f[k - 1] \o lines_of(evs[k])]

(* What such a function is at each number.                                 *)
LEMMA TextValues ==
    ASSUME NEW evs, NEW n \in Nat, NEW f, IsText(f, evs, n)
    PROVE  \A k \in 0..n : f[k] = IF k = 0 THEN << >> ELSE f[k - 1] \o lines_of(evs[k])
<1> DEFINE h == [k \in 0..n |-> IF k = 0 THEN << >> ELSE f[k - 1] \o lines_of(evs[k])]
<1>1. f = h
    BY DEF IsText
<1>2. \A k \in 0..n : h[k] = IF k = 0 THEN << >> ELSE f[k - 1] \o lines_of(evs[k])
    OBVIOUS
<1> HIDE DEF h
<1> QED
    BY <1>1, <1>2, Zenon

(* There is such a function.                                               *)
LEMMA TextExists == ASSUME NEW evs, NEW n \in Nat PROVE \E f : IsText(f, evs, n)
<1> DEFINE P == {m \in Nat : \E f : IsText(f, evs, m)}
<1>1. 0 \in P
    <2> DEFINE f == [k \in 0..0 |-> << >>]
    <2>1. IsText(f, evs, 0)
        BY DEF IsText
    <2> QED
        BY <2>1
<1>2. ASSUME NEW m \in 1..n, m - 1 \in P PROVE m \in P
    <2>1. PICK f : IsText(f, evs, m - 1)
        BY <1>2
    <2> DEFINE g == [k \in 0..m |-> IF k = m THEN f[m - 1] \o lines_of(evs[m]) ELSE f[k]]
    <2>2. /\ \A k \in 0..(m - 1) : f[k] = IF k = 0 THEN << >> ELSE f[k - 1] \o lines_of(evs[k])
        <3>1. m - 1 \in Nat
            OBVIOUS
        <3> QED
            BY <2>1, <3>1, TextValues, Zenon
    <2>3. ASSUME NEW k \in 0..m
          PROVE  g[k] = IF k = 0 THEN << >> ELSE g[k - 1] \o lines_of(evs[k])
        <3>1. CASE k = m
            BY <3>1
        <3>2. CASE k # m
            BY <2>2, <3>2
        <3> QED
            BY <3>1, <3>2
    <2>4. g = [k \in 0..m |-> IF k = 0 THEN << >> ELSE g[k - 1] \o lines_of(evs[k])]
        BY <2>3
    <2>5. IsText(g, evs, m)
        BY <2>4, Zenon DEF IsText
    <2> HIDE DEF g
    <2> QED
        BY <2>5
<1> HIDE DEF P
<1>3. 0..n \subseteq P
    BY <1>1, <1>2, UpTo
<1> QED
    BY <1>3 DEF P

(* jsonl() is the concatenation of the events' lines.                      *)
LEMMA JsonlValues ==
    ASSUME NEW evs, Len(evs) \in Nat
    PROVE  /\ jsonl(evs, 0) = << >>
           /\ \A k \in 1..Len(evs) : jsonl(evs, k) = jsonl(evs, k - 1) \o lines_of(evs[k])
<1> DEFINE text == CHOOSE f : IsText(f, evs, Len(evs))
<1>1. IsText(text, evs, Len(evs))
    BY TextExists, Zenon
<1>2. \A n : jsonl(evs, n) = text[n]
    BY DEF jsonl, IsText
<1> HIDE DEF text
<1>3. \A k \in 0..Len(evs) : text[k] = IF k = 0 THEN << >> ELSE text[k - 1] \o lines_of(evs[k])
    BY <1>1, TextValues, Zenon
<1>4. text[0] = << >>
    BY <1>3
<1>5. ASSUME NEW k \in 1..Len(evs) PROVE text[k] = text[k - 1] \o lines_of(evs[k])
    <2>1. k \in 0..Len(evs) /\ k # 0
        OBVIOUS
    <2> QED
        BY <1>3, <2>1, Zenon
<1> QED
    BY <1>2, <1>4, <1>5, Zenon

(* The text of a log is made of lines.                                     *)
LEMMA JsonlType ==
    ASSUME NEW evs \in Seq(Event), NEW n \in 0..Len(evs)
    PROVE  jsonl(evs, n) \in Seq(Line)
<1> DEFINE P == {k \in Nat : jsonl(evs, k) \in Seq(Line)}
<1>0. Len(evs) \in Nat /\ DOMAIN evs = 1..Len(evs)
    OBVIOUS
<1>1. 0 \in P
    <2>1. jsonl(evs, 0) = << >> /\ << >> \in Seq(Line)
        BY <1>0, JsonlValues
    <2>2. jsonl(evs, 0) \in Seq(Line)
        BY <2>1, Zenon
    <2> QED
        BY <2>2
<1>2. ASSUME NEW k \in 1..Len(evs), k - 1 \in P PROVE k \in P
    <2>1. evs[k] \in Event
        BY <1>0, ElementType
    <2>2. lines_of(evs[k]) \in Seq(Line)
        <3>1. evs[k] \in Line /\ BrokenLine \in Line
            BY <2>1 DEF Line
        <3> QED
            BY <3>1 DEF lines_of
    <2>3. jsonl(evs, k) = jsonl(evs, k - 1) \o lines_of(evs[k])
        BY <1>0, JsonlValues
    <2>4. jsonl(evs, k) \in Seq(Line)
        BY <1>2, <2>2, <2>3, ConcatProperties
    <2> QED
        BY <2>4
<1> HIDE DEF P
<1>3. n \in P
    BY <1>0, <1>1, <1>2, UpTo
<1> QED
    BY <1>3 DEF P

(* The lines of a log without separators are its events.                   *)
LEMMA JsonlVerbatim ==
    ASSUME NEW evs \in Seq(Event), \A i \in DOMAIN evs : ~evs[i].separator
    PROVE  jsonl(evs, Len(evs)) = evs
<1> DEFINE P == {k \in Nat : k <= Len(evs) => jsonl(evs, k) = SubSeq(evs, 1, k)}
<1>0. Len(evs) \in Nat /\ DOMAIN evs = 1..Len(evs)
    OBVIOUS
<1>1. 0 \in P
    <2>1. jsonl(evs, 0) = << >> /\ SubSeq(evs, 1, 0) = << >>
        BY <1>0, JsonlValues, SubSeqEmpty
    <2> QED
        BY <2>1
<1>2. ASSUME NEW k \in 1..Len(evs), k - 1 \in P PROVE k \in P
    <2>1. evs[k] \in Event /\ lines_of(evs[k]) = <<evs[k]>>
        BY <1>0, ElementType DEF lines_of
    <2>2. jsonl(evs, k) = SubSeq(evs, 1, k - 1) \o <<evs[k]>>
        <3>1. jsonl(evs, k) = jsonl(evs, k - 1) \o lines_of(evs[k])
            BY <1>0, JsonlValues
        <3>2. jsonl(evs, k - 1) = SubSeq(evs, 1, k - 1)
            BY <1>0, <1>2
        <3> QED
            BY <2>1, <3>1, <3>2, Zenon
    <2>3. SubSeq(evs, 1, k - 1) \in Seq(Event) /\ Append(SubSeq(evs, 1, k - 1), evs[k]) = SubSeq(evs, 1, k)
        <3>1. k - 1 \in 0..Len(evs) /\ k - 1 < Len(evs) /\ (k - 1) + 1 = k
            BY <1>0
        <3> QED
            BY <3>1, Prefix
    <2>4. \A t \in Seq(Event) : t \o <<evs[k]>> = Append(t, evs[k])
        BY <2>1
    <2>5. jsonl(evs, k) = SubSeq(evs, 1, k)
        BY <2>2, <2>3, <2>4
    <2> QED
        BY <2>5
<1> HIDE DEF P
<1>3. Len(evs) \in P
    <2>1. 0..Len(evs) \subseteq P
        BY <1>0, <1>1, <1>2, UpTo
    <2> QED
        BY <1>0, <2>1
<1>4. jsonl(evs, Len(evs)) = SubSeq(evs, 1, Len(evs))
    BY <1>0, <1>3 DEF P
<1> QED
    BY <1>4, SubSeqFull, Zenon
-----------------------------------------------------------------------------
(* Chains.                                                                 *)

(* A chain as append() builds it.  That each proof covers every event up   *)
(* to its own, and not only the proof before it, is what makes two chains  *)
(* comparable by their heads alone.                                        *)
Chain(log) ==
    /\ log \in Seq(Event)
    /\ \A i \in DOMAIN log :
          /\ log[i].payload_hash = Hash(log[i].payload)
          /\ log[i].previous_audit_hash = IF i = 1 THEN None ELSE log[i - 1].integrity_proof
          /\ log[i].integrity_proof = [j \in 1..i |-> sealed(log[j])]

\* e is what comes next in the chain.
Follows(e, log) ==
    /\ e \in Event
    /\ e.payload_hash = Hash(e.payload)
    /\ e.previous_audit_hash = chain_head(log)
    /\ e.integrity_proof = integrity_proof(e, chain_head(log))

(* The sealed fields of an event.                                          *)
LEMMA SealedType == ASSUME NEW e \in Event PROVE sealed(e) \in Sealed
BY DEF Event, Sealed, sealed

(* The head of a chain.                                                    *)
LEMMA HeadOfChain ==
    ASSUME NEW log, Chain(log), log # << >>
    PROVE  /\ Len(log) \in Nat \ {0} /\ Len(log) \in DOMAIN log /\ DOMAIN log = 1..Len(log)
           /\ chain_head(log) = log[Len(log)].integrity_proof
           /\ chain_head(log) = [j \in 1..Len(log) |-> sealed(log[j])]
           /\ chain_head(log) \in Seq(Sealed)
           /\ Len(chain_head(log)) = Len(log)
           /\ chain_head(log) # None /\ chain_head(log) # << >>
<1>1. Len(log) \in Nat \ {0} /\ DOMAIN log = 1..Len(log) /\ Len(log) \in DOMAIN log
    BY DEF Chain
<1>2. chain_head(log) = log[Len(log)].integrity_proof
    BY DEF chain_head
<1>3. chain_head(log) = [j \in 1..Len(log) |-> sealed(log[j])]
    BY <1>1, <1>2 DEF Chain
<1>4. \A j \in 1..Len(log) : sealed(log[j]) \in Sealed
    BY <1>1, SealedType, ElementType DEF Chain
<1>5. chain_head(log) \in Seq(Sealed) /\ Len(chain_head(log)) = Len(log)
    BY <1>1, <1>3, <1>4
<1>6. chain_head(log) # None /\ chain_head(log) # << >>
    BY <1>1, <1>5, NoneAssumption
<1> QED
    BY <1>1, <1>2, <1>3, <1>5, <1>6

(* The head of a chain, empty or not.                                      *)
LEMMA HeadType ==
    ASSUME NEW log, Chain(log)
    PROVE  /\ chain_head(log) \in (Seq(Sealed) \ {<< >>}) \cup {None}
           /\ chain_head(log) \in Proofs
           /\ chain_head(log) = None <=> log = << >>
<1>1. CASE log = << >>
    BY <1>1 DEF chain_head, Proofs
<1>2. CASE log # << >>
    BY <1>2, HeadOfChain DEF Proofs
<1> QED
    BY <1>1, <1>2

(* Two chains with the same head are the same chain.                       *)
LEMMA HeadDetermines ==
    ASSUME NEW a, NEW b, Chain(a), Chain(b), a # << >>, b # << >>, chain_head(a) = chain_head(b)
    PROVE  a = b
<1>1. /\ Len(a) = Len(b) /\ Len(a) \in Nat \ {0} /\ DOMAIN a = 1..Len(a) /\ DOMAIN b = 1..Len(a)
      /\ \A j \in 1..Len(a) : sealed(a[j]) = sealed(b[j])
    <2>1. /\ Len(a) \in Nat \ {0} /\ DOMAIN a = 1..Len(a) /\ Len(chain_head(a)) = Len(a)
          /\ chain_head(a) = [j \in 1..Len(a) |-> sealed(a[j])]
        BY HeadOfChain
    <2>2. /\ Len(b) \in Nat \ {0} /\ DOMAIN b = 1..Len(b) /\ Len(chain_head(b)) = Len(b)
          /\ chain_head(b) = [j \in 1..Len(b) |-> sealed(b[j])]
        BY HeadOfChain
    <2>3. Len(a) = Len(b)
        BY <2>1, <2>2
    <2> QED
        BY <2>1, <2>2, <2>3
<1>2. ASSUME NEW i \in 1..Len(a) PROVE a[i].integrity_proof = b[i].integrity_proof
    <2>1. /\ a[i].integrity_proof = [j \in 1..i |-> sealed(a[j])]
          /\ b[i].integrity_proof = [j \in 1..i |-> sealed(b[j])]
        BY <1>1 DEF Chain
    <2>2. \A j \in 1..i : sealed(a[j]) = sealed(b[j])
        BY <1>1
    <2> QED
        BY <2>1, <2>2
<1>3. ASSUME NEW i \in 1..Len(a) PROVE a[i] = b[i]
    <2>1. a[i] \in Event /\ b[i] \in Event
        BY <1>1, ElementType DEF Chain
    <2>2. a[i].previous_audit_hash = b[i].previous_audit_hash
        <3>1. CASE i = 1
            BY <1>1, <3>1 DEF Chain
        <3>2. CASE i # 1
            <4>1. i - 1 \in 1..Len(a)
                BY <1>1, <3>2
            <4>2. a[i - 1].integrity_proof = b[i - 1].integrity_proof
                BY <1>2, <4>1
            <4> QED
                BY <1>1, <3>2, <4>2 DEF Chain
        <3> QED
            BY <3>1, <3>2
    <2>3. sealed(a[i]) = sealed(b[i])
        BY <1>1
    <2>4. /\ a[i].audit_id = b[i].audit_id /\ a[i].event_type = b[i].event_type
          /\ a[i].authority_relevant = b[i].authority_relevant /\ a[i].context = b[i].context
          /\ a[i].correlation_id = b[i].correlation_id /\ a[i].separator = b[i].separator
          /\ a[i].body = b[i].body /\ a[i].payload_hash = b[i].payload_hash
        BY <2>3 DEF sealed
    <2>5. a[i].payload = b[i].payload
        <3>1. Hash(a[i].payload) = Hash(b[i].payload)
            <4>1. a[i].payload_hash = Hash(a[i].payload)
                BY <1>1 DEF Chain
            <4>2. b[i].payload_hash = Hash(b[i].payload)
                BY <1>1 DEF Chain
            <4> QED
                BY <2>4, <4>1, <4>2
        <3> QED
            BY <3>1 DEF Hash
    <2> QED
        BY <1>2, <2>1, <2>2, <2>4, <2>5 DEF Event
<1> QED
    BY <1>1, <1>3, SeqEqual DEF Chain

(* A chain grows by what follows it.                                       *)
LEMMA ChainGrows ==
    ASSUME NEW log, Chain(log), NEW e, Follows(e, log)
    PROVE  Chain(Append(log, e)) /\ chain_head(Append(log, e)) = e.integrity_proof
<1> DEFINE n == Len(log)
           new == Append(log, e)
<1>1. /\ new \in Seq(Event) /\ Len(new) = n + 1 /\ n \in Nat
      /\ DOMAIN log = 1..n /\ DOMAIN new = DOMAIN log \cup {n + 1}
      /\ \A i \in DOMAIN log : new[i] = log[i]
      /\ new[n + 1] = e
    BY Appended DEF Chain, Follows
<1> HIDE DEF new
<1>2. ASSUME NEW i \in DOMAIN log
      PROVE  /\ new[i].payload_hash = Hash(new[i].payload)
             /\ new[i].previous_audit_hash = IF i = 1 THEN None ELSE new[i - 1].integrity_proof
             /\ new[i].integrity_proof = [j \in 1..i |-> sealed(new[j])]
    <2>1. /\ log[i].payload_hash = Hash(log[i].payload)
          /\ log[i].previous_audit_hash = IF i = 1 THEN None ELSE log[i - 1].integrity_proof
          /\ log[i].integrity_proof = [j \in 1..i |-> sealed(log[j])]
        BY DEF Chain
    <2>2. i # 1 => i - 1 \in DOMAIN log
        BY <1>1
    <2>3. \A j \in 1..i : sealed(new[j]) = sealed(log[j])
        BY <1>1
    <2>4. [j \in 1..i |-> sealed(new[j])] = [j \in 1..i |-> sealed(log[j])]
        BY <2>3
    <2> QED
        BY <1>1, <2>1, <2>2, <2>4
<1>3. e.previous_audit_hash = IF n + 1 = 1 THEN None ELSE new[(n + 1) - 1].integrity_proof
    <2>1. CASE log = << >>
        BY <1>1, <2>1 DEF Follows, chain_head
    <2>2. CASE log # << >>
        BY <1>1, <2>2, HeadOfChain DEF Follows
    <2> QED
        BY <2>1, <2>2
<1>4. e.integrity_proof = [j \in 1..(n + 1) |-> sealed(new[j])]
    <2> DEFINE before == IF chain_head(log) = None THEN << >> ELSE chain_head(log)
    <2>1. e.integrity_proof = Append(before, sealed(e))
        BY DEF Follows, integrity_proof
    <2>2. before = [j \in 1..n |-> sealed(log[j])] /\ before \in Seq(Sealed) /\ Len(before) = n
        <3>1. CASE log = << >>
            BY <1>1, <3>1, HeadType
        <3>2. CASE log # << >>
            BY <3>2, HeadOfChain
        <3> QED
            BY <3>1, <3>2
    <2> HIDE DEF before
    <2>3. sealed(e) \in Sealed
        BY SealedType DEF Follows
    <2>4. \A j \in 1..n : sealed(new[j]) = sealed(log[j])
        BY <1>1
    <2>5. /\ DOMAIN Append(before, sealed(e)) = 1..(n + 1)
          /\ \A j \in 1..(n + 1) : Append(before, sealed(e))[j] = sealed(new[j])
        BY <1>1, <2>2, <2>3, <2>4
    <2> DEFINE longer == Append(before, sealed(e))
    <2>6. longer \in Seq(Sealed) /\ DOMAIN longer = 1..(n + 1)
        BY <2>2, <2>3, <2>5
    <2> HIDE DEF longer
    <2>7. longer = [j \in 1..(n + 1) |-> longer[j]]
        BY <2>6
    <2>8. [j \in 1..(n + 1) |-> longer[j]] = [j \in 1..(n + 1) |-> sealed(new[j])]
        BY <2>5 DEF longer
    <2> QED
        BY <2>1, <2>7, <2>8, Zenon DEF longer
<1>5. Chain(new)
    <2>1. ASSUME NEW i \in DOMAIN new
          PROVE  /\ new[i].payload_hash = Hash(new[i].payload)
                 /\ new[i].previous_audit_hash = IF i = 1 THEN None ELSE new[i - 1].integrity_proof
                 /\ new[i].integrity_proof = [j \in 1..i |-> sealed(new[j])]
        <3>1. CASE i \in DOMAIN log
            BY <1>2, <3>1
        <3>2. CASE i = n + 1
            BY <1>1, <1>3, <1>4, <3>2 DEF Follows
        <3> QED
            BY <1>1, <3>1, <3>2
    <2> QED
        BY <1>1, <2>1 DEF Chain
<1>6. chain_head(new) = e.integrity_proof
    BY <1>1 DEF chain_head
<1> QED
    BY <1>5, <1>6 DEF new
-----------------------------------------------------------------------------
(* The log.                                                                *)

\* A chain that load_jsonl has nothing to say against.
Importable(log) ==
    /\ Chain(log)
    /\ \A i \in DOMAIN log : ~context_invalid(log[i])
    /\ \A i, j \in DOMAIN log : i # j => log[i].audit_id # log[j].audit_id

\* In the log's own objects only a payload may have been changed.
LogOK ==
    /\ events \in Seq(Event)
    /\ Importable(committed)
    /\ Len(events) = Len(committed)
    /\ \A i \in DOMAIN committed :
          \A f \in DOMAIN committed[i] \ {"payload"} : events[i][f] = committed[i][f]

(* The changes to the log's objects leave its head and its ids alone.      *)
LEMMA SameHead ==
    ASSUME LogOK
    PROVE  /\ chain_head(events) = chain_head(committed)
           /\ DOMAIN events = DOMAIN committed
           /\ \A i \in DOMAIN events : events[i].audit_id = committed[i].audit_id
           /\ audit_ids(events) = audit_ids(committed)
<1>1. committed \in Seq(Event) /\ events \in Seq(Event) /\ Len(events) = Len(committed)
    BY DEF LogOK, Importable, Chain
<1>2. DOMAIN events = DOMAIN committed
    BY <1>1
<1>3. ASSUME NEW i \in DOMAIN committed
      PROVE  /\ events[i].audit_id = committed[i].audit_id
             /\ events[i].integrity_proof = committed[i].integrity_proof
    <2>1. committed[i] \in Event
        BY <1>1, ElementType
    <2>2. \A f \in DOMAIN committed[i] \ {"payload"} : events[i][f] = committed[i][f]
        BY DEF LogOK
    <2> QED
        BY <2>1, <2>2 DEF Event
<1>4. chain_head(events) = chain_head(committed)
    <2>1. CASE committed = << >>
        BY <1>1, <2>1 DEF chain_head
    <2>2. CASE committed # << >>
        <3>1. events # << >> /\ Len(committed) \in DOMAIN committed
            BY <1>1, <2>2
        <3> QED
            BY <1>1, <1>3, <2>2, <3>1 DEF chain_head
    <2> QED
        BY <2>1, <2>2
<1> QED
    BY <1>2, <1>3, <1>4 DEF audit_ids

(* The objects that callers and append() build.                            *)
LEMMA CommitType ==
    ASSUME NEW id \in Nat, NEW c \in Contents, NEW previous \in Proofs, NEW proof \in Proofs
    PROVE  AuditCommit(id, c, None, previous, proof) \in Event
<1>1. c \in Content
    BY ContentAssumption
<1>2. Hash(c.payload) \in Hashes
    BY <1>1 DEF Content, Hashes
<1> QED
    BY <1>1, <1>2 DEF AuditCommit, Content, Event

(* The sealed copy of an event.                                            *)
LEMMA CommittedType ==
    ASSUME NEW log, chain_head(log) \in Proofs, NEW e \in Event, NEW x, x = committed_event(log, e)
    PROVE  /\ x \in Event
           /\ x.previous_audit_hash = chain_head(log)
           /\ x.integrity_proof = integrity_proof(e, chain_head(log))
           /\ sealed(x) = sealed(e) /\ x.payload = e.payload
           /\ context_invalid(x) = context_invalid(e)
<1> DEFINE head == chain_head(log)
           before == IF head = None THEN << >> ELSE head
           proof == integrity_proof(e, head)
<1>1. before \in Seq(Sealed) /\ sealed(e) \in Sealed
    BY SealedType DEF Proofs
<1>2. proof = Append(before, sealed(e))
    BY DEF integrity_proof
<1> HIDE DEF before
<1>3. proof \in Proofs
    BY <1>1, <1>2 DEF Proofs
<1>4. x = [e EXCEPT !.previous_audit_hash = head, !.integrity_proof = proof]
    BY DEF committed_event
<1> HIDE DEF head, proof
<1>5. /\ x \in Event /\ x.previous_audit_hash = head /\ x.integrity_proof = proof
      /\ sealed(x) = sealed(e) /\ x.payload = e.payload
      /\ x.event_type = e.event_type /\ x.authority_relevant = e.authority_relevant /\ x.context = e.context
    BY <1>3, <1>4 DEF Event, sealed, head
<1> QED
    BY <1>5 DEF context_invalid, head, proof

(* What append() has checked.                                              *)
LEMMA AppendClear ==
    ASSUME NEW log, NEW e, append_violation(log, e) = Valid
    PROVE  /\ e.audit_id \notin audit_ids(log)
           /\ ~context_invalid(e)
           /\ e.payload_hash = Hash(e.payload)
           /\ e.previous_audit_hash \in {None, chain_head(log)}
           /\ e.integrity_proof \in {None, integrity_proof(e, chain_head(log))}
BY DEF append_violation, payload_hash_invalid, Valid

(* append() extends the chain.                                             *)
LEMMA AppendStep ==
    ASSUME LogOK, NEW e \in Event, append(e)
    PROVE  LogOK'
<1> DEFINE x == committed_event(events, e)
           k == Len(committed) + 1
<1>1. /\ events' = Append(events, x)
      /\ committed' = Append(committed, x)
      /\ append_violation(events, e) = Valid
    BY DEF append
<1>2. /\ chain_head(events) = chain_head(committed) /\ DOMAIN events = DOMAIN committed
      /\ \A i \in DOMAIN events : events[i].audit_id = committed[i].audit_id
    BY SameHead
<1>3. /\ e.audit_id \notin audit_ids(events) /\ ~context_invalid(e) /\ e.payload_hash = Hash(e.payload)
    BY <1>1, AppendClear
<1>4. Chain(committed) /\ chain_head(committed) \in Proofs
    BY HeadType DEF LogOK, Importable
<1>5. /\ x \in Event
      /\ x.previous_audit_hash = chain_head(events)
      /\ x.integrity_proof = integrity_proof(e, chain_head(events))
      /\ sealed(x) = sealed(e) /\ x.payload = e.payload
      /\ context_invalid(x) = context_invalid(e)
    BY <1>2, <1>4, CommittedType
<1> HIDE DEF x
<1>6. /\ x.audit_id = e.audit_id /\ x.payload_hash = e.payload_hash
      /\ integrity_proof(x, chain_head(events)) = integrity_proof(e, chain_head(events))
    BY <1>5 DEF sealed, integrity_proof
<1>7. Follows(x, committed)
    BY <1>2, <1>3, <1>5, <1>6 DEF Follows
<1>8. Chain(committed')
    BY <1>1, <1>4, <1>7, ChainGrows
<1>9. /\ DOMAIN committed' = DOMAIN committed \cup {k} /\ k \notin DOMAIN committed
      /\ \A i \in DOMAIN committed : committed'[i] = committed[i] /\ events'[i] = events[i]
      /\ committed'[k] = x /\ events'[k] = x
      /\ events' \in Seq(Event) /\ Len(events') = Len(committed')
    BY <1>1, <1>5 DEF LogOK, Importable, Chain
<1>10. \A i \in DOMAIN committed' : ~context_invalid(committed'[i])
    BY <1>3, <1>5, <1>9 DEF LogOK, Importable
<1>11. \A i \in DOMAIN committed : committed[i].audit_id # x.audit_id
    BY <1>2, <1>3, <1>6 DEF audit_ids
<1>12. \A i, j \in DOMAIN committed' : i # j => committed'[i].audit_id # committed'[j].audit_id
    BY <1>9, <1>11 DEF LogOK, Importable
<1>13. \A i \in DOMAIN committed' :
           \A f \in DOMAIN committed'[i] \ {"payload"} : events'[i][f] = committed'[i][f]
    BY <1>9 DEF LogOK
<1> QED
    BY <1>8, <1>9, <1>10, <1>12, <1>13 DEF LogOK, Importable

(* A payload of the log is changed in memory.                              *)
LEMMA MutateStep ==
    ASSUME LogOK, NEW i \in DOMAIN events, NEW p \in Payloads, MutatePayload(i, p)
    PROVE  LogOK'
<1>1. events' = [events EXCEPT ![i].payload = p] /\ committed' = committed
    BY DEF MutatePayload
<1>2. events \in Seq(Event) /\ \A j \in DOMAIN events : events[j] \in Event
    BY ElementType DEF LogOK
<1>3. /\ DOMAIN events' = DOMAIN events
      /\ \A j \in DOMAIN events \ {i} : events'[j] = events[j]
      /\ events'[i] = [events[i] EXCEPT !.payload = p]
    BY <1>1
<1>4. events'[i] \in Event /\ \A f \in DOMAIN events[i] \ {"payload"} : events'[i][f] = events[i][f]
    BY <1>2, <1>3 DEF Event
<1>5. events' \in Seq(Event) /\ Len(events') = Len(events)
    <2>1. events' = [events EXCEPT ![i] = events'[i]]
        BY <1>1, <1>3
    <2> QED
        BY <1>2, <1>4, <2>1
<1>6. ASSUME NEW j \in DOMAIN committed, NEW f \in DOMAIN committed[j] \ {"payload"}
      PROVE  events'[j][f] = committed[j][f]
    <2>1. j \in DOMAIN events /\ committed[j] \in Event /\ events[j][f] = committed[j][f]
        BY SameHead, ElementType DEF LogOK, Importable, Chain
    <2>2. f \in DOMAIN events[j] \ {"payload"}
        BY <1>2, <2>1 DEF Event
    <2> QED
        BY <1>3, <1>4, <2>1, <2>2
<1>7. Importable(committed') /\ Len(events') = Len(committed')
    BY <1>1, <1>5 DEF LogOK
<1>8. \A j \in DOMAIN committed' :
          \A f \in DOMAIN committed'[j] \ {"payload"} : events'[j][f] = committed'[j][f]
    BY <1>1, <1>6
<1> QED
    BY <1>5, <1>7, <1>8 DEF LogOK

(* A new process has an empty log.                                         *)
LEMMA EmptyImportable == Importable(<< >>)
<1>1. << >> \in Seq(Event) /\ \A i : i \notin DOMAIN << >>
    OBVIOUS
<1>2. Chain(<< >>)
    BY <1>1 DEF Chain
<1> QED
    BY <1>1, <1>2 DEF Importable

LEMMA EmptyLog == ASSUME events = << >>, committed = << >> PROVE LogOK
<1>1. << >> \in Seq(Event) /\ \A i : i \notin DOMAIN << >>
    OBVIOUS
<1> QED
    BY <1>1, EmptyImportable DEF LogOK
-----------------------------------------------------------------------------
(* A prefix of a chain is a chain, which the next event follows.           *)
LEMMA ChainPrefix ==
    ASSUME NEW log, Chain(log), NEW n \in 0..Len(log)
    PROVE  /\ Chain(SubSeq(log, 1, n))
           /\ n < Len(log) => Follows(log[n + 1], SubSeq(log, 1, n))
<1> DEFINE part == SubSeq(log, 1, n)
<1>1. log \in Seq(Event) /\ Len(log) \in Nat /\ DOMAIN log = 1..Len(log)
    BY DEF Chain
<1>2. /\ part \in Seq(Event) /\ Len(part) = n /\ DOMAIN part = 1..n
      /\ \A i \in 1..n : part[i] = log[i]
    BY <1>1, Prefix
<1> HIDE DEF part
<1>3. ASSUME NEW i \in DOMAIN part
      PROVE  /\ part[i].payload_hash = Hash(part[i].payload)
             /\ part[i].previous_audit_hash = IF i = 1 THEN None ELSE part[i - 1].integrity_proof
             /\ part[i].integrity_proof = [j \in 1..i |-> sealed(part[j])]
    <2>1. i \in DOMAIN log /\ part[i] = log[i] /\ (i # 1 => part[i - 1] = log[i - 1])
        BY <1>1, <1>2
    <2>2. /\ log[i].payload_hash = Hash(log[i].payload)
          /\ log[i].previous_audit_hash = IF i = 1 THEN None ELSE log[i - 1].integrity_proof
          /\ log[i].integrity_proof = [j \in 1..i |-> sealed(log[j])]
        BY <2>1 DEF Chain
    <2>3. \A j \in 1..i : sealed(part[j]) = sealed(log[j])
        BY <1>2
    <2>4. [j \in 1..i |-> sealed(log[j])] = [j \in 1..i |-> sealed(part[j])]
        BY <2>3
    <2> QED
        BY <2>1, <2>2, <2>4
<1>4. Chain(part)
    BY <1>2, <1>3 DEF Chain
<1>5. ASSUME n < Len(log) PROVE Follows(log[n + 1], part)
    <2> DEFINE e == log[n + 1]
    <2>1. n + 1 \in DOMAIN log /\ e \in Event
        BY <1>1, <1>5, ElementType
    <2>2. /\ e.payload_hash = Hash(e.payload)
          /\ e.previous_audit_hash = IF n + 1 = 1 THEN None ELSE log[(n + 1) - 1].integrity_proof
          /\ e.integrity_proof = [j \in 1..(n + 1) |-> sealed(log[j])]
        BY <2>1 DEF Chain
    <2>3. e.previous_audit_hash = chain_head(part)
        <3>1. CASE n = 0
            BY <1>2, <2>2, <3>1 DEF chain_head
        <3>2. CASE n # 0
            BY <1>2, <2>2, <3>2 DEF chain_head
        <3> QED
            BY <3>1, <3>2
    <2> DEFINE before == IF chain_head(part) = None THEN << >> ELSE chain_head(part)
               longer == Append(before, sealed(e))
    <2>4. /\ before \in Seq(Sealed) /\ Len(before) = n
          /\ \A j \in 1..n : before[j] = sealed(log[j])
        <3>1. CASE part = << >>
            BY <1>2, <1>4, <3>1, HeadType
        <3>2. CASE part # << >>
            <4>1. /\ chain_head(part) = [j \in 1..n |-> sealed(part[j])]
                  /\ chain_head(part) # None /\ chain_head(part) \in Seq(Sealed)
                  /\ Len(chain_head(part)) = n
                BY <1>2, <1>4, <3>2, HeadOfChain
            <4> QED
                BY <1>2, <4>1
        <3> QED
            BY <3>1, <3>2
    <2>5. sealed(e) \in Sealed
        BY <2>1, SealedType
    <2> HIDE DEF before
    <2>6. /\ longer \in Seq(Sealed) /\ Len(longer) = n + 1
          /\ \A j \in 1..(n + 1) : longer[j] = sealed(log[j])
        BY <2>4, <2>5
    <2> HIDE DEF longer
    <2>7. longer = [j \in 1..(n + 1) |-> sealed(log[j])]
        <3>1. longer = [j \in 1..(n + 1) |-> longer[j]]
            BY <2>6
        <3>2. [j \in 1..(n + 1) |-> longer[j]] = [j \in 1..(n + 1) |-> sealed(log[j])]
            BY <2>6
        <3> QED
            BY <3>1, <3>2
    <2>8. e.integrity_proof = longer
        BY <2>2, <2>7
    <2>9. e.integrity_proof = integrity_proof(e, chain_head(part))
        BY <2>8 DEF integrity_proof, longer, before
    <2> QED
        BY <2>1, <2>2, <2>3, <2>9 DEF Follows
<1> QED
    BY <1>4, <1>5 DEF part

(* load_jsonl takes every line of an importable log, in turn.              *)
LEMMA NextIsClear ==
    ASSUME NEW log, Importable(log), NEW n \in 0..Len(log), n < Len(log)
    PROVE  /\ log[n + 1] \in Event /\ log[n + 1].integrity_proof # None
           /\ chain_event_violation(SubSeq(log, 1, n), chain_head(SubSeq(log, 1, n)), log[n + 1]) = Valid
<1> DEFINE part == SubSeq(log, 1, n)
           e == log[n + 1]
<1>1. log \in Seq(Event) /\ Len(log) \in Nat /\ DOMAIN log = 1..Len(log) /\ Chain(log)
    BY DEF Importable, Chain
<1>2. Chain(part) /\ Follows(e, part)
    BY <1>1, ChainPrefix
<1>3. DOMAIN part = 1..n /\ \A i \in 1..n : part[i] = log[i]
    BY <1>1, Prefix
<1>4. n + 1 \in DOMAIN log
    BY <1>1
<1>5. \A i \in 1..n : i \in DOMAIN log /\ i # n + 1
    BY <1>1
<1> HIDE DEF part
<1>6. e.audit_id \notin audit_ids(part)
    BY <1>3, <1>4, <1>5 DEF Importable, audit_ids
<1>7. ~context_invalid(e)
    BY <1>4 DEF Importable
<1>8. e.integrity_proof # None
    <2>1. Chain(Append(part, e)) /\ chain_head(Append(part, e)) = e.integrity_proof
        BY <1>2, ChainGrows
    <2>2. Append(part, e) # << >>
        BY <1>2 DEF Chain, Follows
    <2> QED
        BY <2>1, <2>2, HeadType
<1> HIDE DEF e
<1>9. chain_event_violation(part, chain_head(part), e) = Valid
    BY <1>2, <1>6, <1>7 DEF chain_event_violation, payload_hash_invalid, Follows
<1> QED
    BY <1>2, <1>8, <1>9 DEF Follows, part, e

(* What load_jsonl has checked of a line.                                  *)
LEMMA ClearFollows ==
    ASSUME NEW log, NEW e \in Event, chain_event_violation(log, chain_head(log), e) = Valid
    PROVE  Follows(e, log)
BY DEF chain_event_violation, payload_hash_invalid, Follows, Valid
-----------------------------------------------------------------------------
(* The inductive invariant.                                                *)

Heads == (Seq(Sealed) \ {<< >>}) \cup {None}

CountersOK == next_id \in Nat /\ edits \in Nat /\ restarts \in Nat

\* A draft names and seals nothing but the log that its author saw.
DraftOK ==
    /\ draft.event \in Event \cup {None} /\ draft.seen \in Seq(Event) \cup {None}
    /\ draft # NoDraft =>
          /\ draft.event \in Event
          /\ chain_head(draft.seen) \in Heads
          /\ draft.event.previous_audit_hash \in {None, chain_head(draft.seen)}
          /\ draft.event.integrity_proof \in {None, integrity_proof(draft.event, chain_head(draft.seen))}

\* What an operator keeps is the head of a chain.
PublishedOK == \A p \in published : Chain(p.log) /\ p.log # << >> /\ p.head = chain_head(p.log)

\* source is a log that load_jsonl takes, and lines is its text.
TextOf(lines, source) == Importable(source) /\ lines = jsonl(source, Len(source))

FileOK == file \in Seq(Line) /\ (saved # None => TextOf(file, saved))

Profiles == {"authority_chain", "diagnostic_only"}

LoadRecord ==
    [pc: {"idle", "reading", "done", "refused"}, profile: Profiles \cup {None}, head: Proofs,
     lines: Seq(Line), k: Nat, events: Seq(Event), previous_hash: Proofs,
     authority_events: BOOLEAN, source: Seq(Event) \cup {None}]

NoAuthority(log) ==
    \A i \in DOMAIN log : ~log[i].authority_relevant /\ log[i].event_type \notin AUTHORITY_EVENT_TYPES

\* What the loop of load_jsonl keeps true from line to line.
ReadingOK ==
    load.pc = "reading" =>
        /\ load.profile \in Profiles
        /\ load.k \in 1..(Len(load.lines) + 1)
        /\ load.events = SubSeq(load.lines, 1, load.k - 1)
        /\ Chain(load.events)
        /\ load.previous_hash = chain_head(load.events)
        /\ ~load.authority_events => NoAuthority(load.events)
        /\ load.head # None => \E p \in published : p.head = load.head
        /\ load.source # None => TextOf(load.lines, load.source)

LoadOK == load \in LoadRecord /\ ReadingOK /\ ImportIsFaithful /\ CleanRoundTrip

AuditInv == CountersOK /\ LogOK /\ DraftOK /\ PublishedOK /\ FileOK /\ LoadOK

-----------------------------------------------------------------------------
(* One lemma for each action.                                              *)

(* While no import runs, the other parts do not change what LoadOK says.   *)
LEMMA LoadRests == ASSUME LoadOK, load.pc = "idle", load' = load PROVE LoadOK'
BY DEF LoadOK, ReadingOK, ImportIsFaithful, CleanRoundTrip

(* The sealed copy that append() would put behind the log.                 *)
LEMMA BareDraft ==
    ASSUME NEW id \in Nat, NEW c \in Contents, NEW e, e = AuditCommit(id, c, None, None, None)
    PROVE  e \in Event /\ e.previous_audit_hash = None /\ e.integrity_proof = None
<1>1. None \in Proofs
    BY DEF Proofs
<1>2. e \in Event
    BY <1>1, CommitType
<1> QED
    BY <1>2 DEF AuditCommit

LEMMA RecordStep ==
    ASSUME AuditInv, load.pc = "idle", NEW c \in Contents, Record(c)
    PROVE  AuditInv'
<1>1. /\ next_id' = next_id + 1 /\ append(AuditCommit(next_id, c, None, None, None))
      /\ UNCHANGED <<draft, published, file, saved, load, edits, restarts>>
    BY DEF Record
<1>2. AuditCommit(next_id, c, None, None, None) \in Event
    BY BareDraft DEF AuditInv, CountersOK
<1>3. LogOK'
    BY <1>1, <1>2, AppendStep DEF AuditInv
<1>4. CountersOK'
    BY <1>1 DEF AuditInv, CountersOK
<1>5. LoadOK'
    BY <1>1, LoadRests DEF AuditInv
<1>6. DraftOK' /\ PublishedOK' /\ FileOK'
    BY <1>1 DEF AuditInv, DraftOK, PublishedOK, FileOK
<1> QED
    BY <1>3, <1>4, <1>5, <1>6 DEF AuditInv

LEMMA DraftStep ==
    ASSUME AuditInv, load.pc = "idle", NEW c \in Contents, NEW kind \in DraftKinds, Draft(c, kind)
    PROVE  AuditInv'
<1> DEFINE bare == AuditCommit(next_id, c, None, None, None)
           named == AuditCommit(next_id, c, None, chain_head(events), None)
           new == CASE kind = "bare" -> bare
                    [] kind = "named" -> named
                    [] kind = "sealed" -> committed_event(events, bare)
<1>1. /\ next_id' = next_id + 1 /\ draft' = [event |-> new, seen |-> events]
      /\ UNCHANGED <<events, committed, published, file, saved, load, edits, restarts>>
    BY DEF Draft
<1>2. /\ events \in Seq(Event) /\ next_id \in Nat
      /\ chain_head(events) \in Heads /\ chain_head(events) \in Proofs
    BY SameHead, HeadType DEF AuditInv, CountersOK, LogOK, Importable, Heads
<1>3. /\ bare \in Event /\ bare.previous_audit_hash = None /\ bare.integrity_proof = None
    BY <1>2, BareDraft
<1>4. /\ named \in Event /\ named.previous_audit_hash = chain_head(events)
      /\ named.integrity_proof = None
    <2>1. None \in Proofs
        BY DEF Proofs
    <2>2. named \in Event
        BY <1>2, <2>1, CommitType
    <2> QED
        BY <2>2 DEF AuditCommit
<1> DEFINE sealing == committed_event(events, bare)
<1>5. /\ sealing \in Event /\ sealing.previous_audit_hash = chain_head(events)
      /\ sealing.integrity_proof = integrity_proof(sealing, chain_head(events))
    <2>1. /\ sealing \in Event /\ sealing.previous_audit_hash = chain_head(events)
          /\ sealing.integrity_proof = integrity_proof(bare, chain_head(events))
          /\ sealed(sealing) = sealed(bare)
        BY <1>2, <1>3, CommittedType
    <2> HIDE DEF sealing, bare
    <2> QED
        BY <2>1 DEF integrity_proof
<1>6. new = bare \/ new = named \/ new = sealing
    <2> HIDE DEF bare, named, sealing
    <2>1. kind \in {"bare", "named", "sealed"}
        BY KindAssumption
    <2> QED
        BY <2>1 DEF sealing
<1> HIDE DEF bare, named, sealing, new
<1>7. DraftOK'
    <2>1. /\ new \in Event
          /\ new.previous_audit_hash \in {None, chain_head(events)}
          /\ new.integrity_proof \in {None, integrity_proof(new, chain_head(events))}
        BY <1>3, <1>4, <1>5, <1>6
    <2>2. draft'.event = new /\ draft'.seen = events
        BY <1>1
    <2> QED
        BY <1>2, <2>1, <2>2 DEF DraftOK
<1>8. CountersOK'
    BY <1>1 DEF AuditInv, CountersOK
<1>9. LoadOK'
    BY <1>1, LoadRests DEF AuditInv
<1>10. LogOK' /\ PublishedOK' /\ FileOK'
    BY <1>1 DEF AuditInv, LogOK, PublishedOK, FileOK
<1> QED
    BY <1>7, <1>8, <1>9, <1>10 DEF AuditInv

LEMMA AppendDraftStep == ASSUME AuditInv, load.pc = "idle", AppendDraft PROVE AuditInv'
<1>1. /\ draft # NoDraft /\ append(draft.event)
      /\ UNCHANGED <<next_id, draft, published, file, saved, load, edits, restarts>>
    BY DEF AppendDraft
<1>2. draft.event \in Event
    BY <1>1 DEF AuditInv, DraftOK
<1>3. LogOK'
    BY <1>1, <1>2, AppendStep DEF AuditInv
<1>4. LoadOK'
    BY <1>1, LoadRests DEF AuditInv
<1>5. CountersOK' /\ DraftOK' /\ PublishedOK' /\ FileOK'
    BY <1>1 DEF AuditInv, CountersOK, DraftOK, PublishedOK, FileOK
<1> QED
    BY <1>3, <1>4, <1>5 DEF AuditInv

LEMMA MutatePayloadStep ==
    ASSUME AuditInv, load.pc = "idle", NEW i \in DOMAIN events, NEW p \in Payloads, MutatePayload(i, p)
    PROVE  AuditInv'
<1>1. UNCHANGED <<committed, next_id, draft, published, file, saved, load, edits, restarts>>
    BY DEF MutatePayload
<1>2. LogOK'
    BY MutateStep DEF AuditInv
<1>3. LoadOK'
    BY <1>1, LoadRests DEF AuditInv
<1>4. CountersOK' /\ DraftOK' /\ PublishedOK' /\ FileOK'
    BY <1>1 DEF AuditInv, CountersOK, DraftOK, PublishedOK, FileOK
<1> QED
    BY <1>2, <1>3, <1>4 DEF AuditInv

LEMMA EmptyLogNext == ASSUME events' = << >>, committed' = << >> PROVE LogOK'
<1>1. << >> \in Seq(Event) /\ \A i : i \notin DOMAIN << >>
    OBVIOUS
<1>2. Importable(<< >>)
    BY EmptyImportable
<1>3. Importable(committed')
    BY <1>2
<1> QED
    BY <1>1, <1>3 DEF LogOK

LEMMA RestartStep == ASSUME AuditInv, load.pc = "idle", Restart PROVE AuditInv'
<1>1. /\ events' = << >> /\ committed' = << >> /\ restarts' = restarts + 1
      /\ UNCHANGED <<next_id, draft, published, file, saved, load, edits>>
    BY DEF Restart
<1>2. LogOK'
    BY <1>1, EmptyLogNext
<1>3. LoadOK'
    BY <1>1, LoadRests DEF AuditInv
<1>4. CountersOK' /\ DraftOK' /\ PublishedOK' /\ FileOK'
    BY <1>1 DEF AuditInv, CountersOK, DraftOK, PublishedOK, FileOK
<1> QED
    BY <1>2, <1>3, <1>4 DEF AuditInv

LEMMA PublishStep == ASSUME AuditInv, load.pc = "idle", Publish PROVE AuditInv'
<1> DEFINE new == [head |-> chain_head(events), log |-> committed]
<1>1. /\ events # << >> /\ published' = published \cup {new}
      /\ UNCHANGED <<events, committed, next_id, draft, file, saved, load, edits, restarts>>
    BY DEF Publish
<1>2. /\ Chain(committed) /\ committed # << >> /\ chain_head(events) = chain_head(committed)
    BY <1>1, SameHead DEF AuditInv, LogOK, Importable
<1>3. new.log = committed /\ new.head = chain_head(committed)
    BY <1>2
<1> HIDE DEF new
<1>4. PublishedOK'
    BY <1>1, <1>2, <1>3 DEF AuditInv, PublishedOK
<1>5. LoadOK'
    BY <1>1, LoadRests DEF AuditInv
<1>6. CountersOK' /\ DraftOK' /\ LogOK' /\ FileOK'
    BY <1>1 DEF AuditInv, CountersOK, DraftOK, LogOK, FileOK
<1> QED
    BY <1>4, <1>5, <1>6 DEF AuditInv

LEMMA WriteJsonlStep == ASSUME AuditInv, load.pc = "idle", WriteJsonl PROVE AuditInv'
<1>1. /\ file' = jsonl(events, Len(events))
      /\ saved' = IF events = committed THEN committed ELSE None
      /\ UNCHANGED <<events, committed, next_id, draft, published, load, edits, restarts>>
    BY DEF WriteJsonl
<1>2. events \in Seq(Event) /\ Len(events) \in 0..Len(events) /\ Importable(committed)
    BY DEF AuditInv, LogOK
<1>3. file' \in Seq(Line)
    BY <1>1, <1>2, JsonlType
<1>4. ASSUME saved' # None PROVE TextOf(file', saved')
    <2>1. saved' = committed /\ events = committed
        BY <1>1, <1>4
    <2> QED
        BY <1>1, <1>2, <2>1 DEF TextOf
<1>5. FileOK'
    BY <1>3, <1>4 DEF FileOK
<1>6. LoadOK'
    BY <1>1, LoadRests DEF AuditInv
<1>7. CountersOK' /\ DraftOK' /\ LogOK' /\ PublishedOK'
    BY <1>1 DEF AuditInv, CountersOK, DraftOK, LogOK, PublishedOK
<1> QED
    BY <1>5, <1>6, <1>7 DEF AuditInv

LEMMA TornWriteStep ==
    ASSUME AuditInv, load.pc = "idle", NEW n \in 0..Len(events),
           NEW rest \in {<< >>, <<BrokenLine>>}, TornWrite(n, rest)
    PROVE  AuditInv'
<1>1. /\ restarts' = restarts + 1 /\ file' = jsonl(events, n) \o rest /\ saved' = None
      /\ events' = << >> /\ committed' = << >>
      /\ UNCHANGED <<next_id, draft, published, load, edits>>
    BY DEF TornWrite
<1>2. jsonl(events, n) \in Seq(Line)
    BY JsonlType DEF AuditInv, LogOK
<1>3. rest \in Seq(Line)
    <2>1. BrokenLine \in Line
        BY DEF Line
    <2>2. << >> \in Seq(Line) /\ <<BrokenLine>> \in Seq(Line)
        BY <2>1
    <2> QED
        BY <2>2, Zenon
<1>4. file' \in Seq(Line)
    BY <1>1, <1>2, <1>3, ConcatProperties
<1>5. FileOK'
    BY <1>1, <1>4 DEF FileOK
<1>6. LogOK'
    BY <1>1, EmptyLogNext
<1>7. LoadOK'
    BY <1>1, LoadRests DEF AuditInv
<1>8. CountersOK' /\ DraftOK' /\ PublishedOK'
    BY <1>1 DEF AuditInv, CountersOK, DraftOK, PublishedOK
<1> QED
    BY <1>5, <1>6, <1>7, <1>8 DEF AuditInv

(* A part of a sequence from i on, which is empty when i is past the end.  *)
LEMMA Suffix ==
    ASSUME NEW S, NEW s \in Seq(S), NEW i \in Nat \ {0}
    PROVE  SubSeq(s, i, Len(s)) \in Seq(S)
<1>1. CASE i <= Len(s)
    <2>1. \A j \in i..Len(s) : s[j] \in S
        OBVIOUS
    <2> QED
        BY <1>1, <2>1, SubSeqProperties
<1>2. CASE i > Len(s)
    BY <1>2, SubSeqEmpty
<1> QED
    BY <1>1, <1>2

LEMMA AlterFileStep ==
    ASSUME AuditInv, load.pc = "idle", NEW i \in 1..(Len(file) + 1),
           NEW row \in {<< >>} \cup {<<r>> : r \in Rows}, NEW drop \in {0, 1}, AlterFile(i, row, drop)
    PROVE  AuditInv'
<1> DEFINE front == SubSeq(file, 1, i - 1)
           back == SubSeq(file, i + drop, Len(file))
<1>1. /\ edits' = edits + 1 /\ file' = front \o row \o back /\ saved' = None
      /\ UNCHANGED <<events, committed, next_id, draft, published, load, restarts>>
    BY DEF AlterFile
<1>2. file \in Seq(Line)
    BY DEF AuditInv, FileOK
<1>3. front \in Seq(Line)
    BY <1>2, Prefix
<1>4. back \in Seq(Line)
    BY <1>2, Suffix
<1>5. row \in Seq(Line)
    <2>1. \A r \in Rows : r \in Line
        BY RowAssumption DEF Line
    <2>2. << >> \in Seq(Line) /\ \A r \in Rows : <<r>> \in Seq(Line)
        BY <2>1
    <2> QED
        BY <2>2, Zenon
<1> HIDE DEF front, back
<1>6. file' \in Seq(Line)
    BY <1>1, <1>3, <1>4, <1>5, ConcatProperties
<1>7. FileOK'
    BY <1>1, <1>6 DEF FileOK
<1>8. LoadOK'
    BY <1>1, LoadRests DEF AuditInv
<1>9. CountersOK' /\ DraftOK' /\ LogOK' /\ PublishedOK'
    BY <1>1 DEF AuditInv, CountersOK, DraftOK, LogOK, PublishedOK
<1> QED
    BY <1>7, <1>8, <1>9 DEF AuditInv

(* An import leaves the log, the file and the kept heads alone.            *)
LEMMA LoadOnly ==
    ASSUME AuditInv, LoadOK',
           UNCHANGED <<events, committed, next_id, draft, published, file, saved, edits, restarts>>
    PROVE  AuditInv'
BY DEF AuditInv, CountersOK, DraftOK, LogOK, PublishedOK, FileOK

LEMMA IdleType ==
    /\ Idle \in LoadRecord /\ Idle.pc = "idle" /\ Idle.lines = << >> /\ Idle.k = 1
    /\ Idle.events = << >> /\ Idle.previous_hash = None /\ Idle.authority_events = FALSE
<1>1. << >> \in Seq(Line) /\ << >> \in Seq(Event) /\ None \in Proofs
    BY DEF Proofs
<1> QED
    BY <1>1 DEF Idle, LoadRecord

\* What a kept head is.
LEMMA HeadKept ==
    ASSUME PublishedOK, NEW head \in {None} \cup {p.head : p \in published}
    PROVE  head \in Proofs /\ (head # None => \E p \in published : p.head = head)
<1>1. CASE head = None
    BY <1>1 DEF Proofs
<1>2. CASE head # None
    <2>1. PICK p \in published : p.head = head
        BY <1>2
    <2> QED
        BY <2>1, HeadType DEF PublishedOK
<1> QED
    BY <1>1, <1>2

LEMMA LoadStartStep ==
    ASSUME AuditInv, NEW profile \in Profiles,
           NEW head \in {None} \cup {p.head : p \in published}, LoadStart(profile, head)
    PROVE  AuditInv'
<1>1. /\ load' = [Idle EXCEPT !.pc = "reading", !.profile = profile, !.head = head,
                              !.lines = file, !.source = saved]
      /\ UNCHANGED <<events, committed, next_id, draft, published, file, saved, edits, restarts>>
    BY DEF LoadStart
<1>2. head \in Proofs /\ (head # None => \E p \in published : p.head = head)
    BY HeadKept DEF AuditInv
<1>3. file \in Seq(Line) /\ (saved # None => TextOf(file, saved))
    BY DEF AuditInv, FileOK
<1>4. saved \in Seq(Event) \cup {None}
    BY <1>3 DEF TextOf, Importable, Chain
<1>5. /\ load' \in LoadRecord /\ load'.pc = "reading" /\ load'.profile = profile /\ load'.head = head
      /\ load'.lines = file /\ load'.k = 1 /\ load'.events = << >> /\ load'.previous_hash = None
      /\ load'.source = saved
    BY <1>1, <1>2, <1>3, <1>4, IdleType DEF LoadRecord
<1>6. /\ Chain(<< >>) /\ chain_head(<< >>) = None /\ SubSeq(file, 1, 0) = << >>
      /\ NoAuthority(<< >>) /\ 1 \in 1..(Len(file) + 1)
    <2>1. \A i : i \notin DOMAIN << >>
        OBVIOUS
    <2>2. Chain(<< >>)
        BY EmptyImportable DEF Importable
    <2>3. NoAuthority(<< >>)
        BY <2>1 DEF NoAuthority
    <2>4. SubSeq(file, 1, 0) = << >> /\ 1 \in 1..(Len(file) + 1)
        BY <1>3, SubSeqEmpty
    <2> QED
        BY <2>2, <2>3, <2>4 DEF chain_head
<1>7. ReadingOK'
    <2>1. load'.events = SubSeq(load'.lines, 1, load'.k - 1)
        BY <1>5, <1>6
    <2> QED
        BY <1>1, <1>2, <1>3, <1>5, <1>6, <2>1 DEF ReadingOK
<1>8. LoadOK'
    BY <1>5, <1>7 DEF LoadOK, ImportIsFaithful, CleanRoundTrip
<1> QED
    BY <1>1, <1>8, LoadOnly

(* The record that Finish leaves.                                          *)
LEMMA Finished ==
    ASSUME load \in LoadRecord, NEW pc \in {"done", "refused"}, Finish(pc)
    PROVE  /\ load' \in LoadRecord
           /\ load'.pc = pc /\ load'.profile = load.profile /\ load'.head = load.head
           /\ load'.events = (IF pc = "done" THEN load.events ELSE << >>)
           /\ load'.source = load.source
<1> DEFINE taken == IF pc = "done" THEN load.events ELSE << >>
<1>1. load' = [Idle EXCEPT !.pc = pc, !.profile = load.profile, !.head = load.head,
                           !.events = taken, !.source = load.source]
    BY DEF Finish
<1>2. taken \in Seq(Event)
    BY DEF LoadRecord
<1> HIDE DEF taken
<1>3. /\ load.profile \in Profiles \cup {None} /\ load.head \in Proofs
      /\ load.source \in Seq(Event) \cup {None}
    BY DEF LoadRecord
<1>4. /\ load' \in LoadRecord
      /\ load'.pc = pc /\ load'.profile = load.profile /\ load'.head = load.head
      /\ load'.events = taken /\ load'.source = load.source
    BY <1>1, <1>2, <1>3, IdleType DEF LoadRecord
<1> QED
    BY <1>4 DEF taken

\* The import reads a whole, untouched export, and was given its head.
Clean ==
    /\ load.profile = "authority_chain" /\ load.source # None
    /\ load.head = chain_head(load.source)
    /\ \A i \in DOMAIN load.source : ~load.source[i].separator

(* What such an import reads are the events of the log.                    *)
LEMMA CleanLines ==
    ASSUME LoadOK, load.pc = "reading", Clean
    PROVE  load.lines = load.source /\ Importable(load.source) /\ load.source \in Seq(Event)
<1>1. TextOf(load.lines, load.source)
    BY DEF LoadOK, ReadingOK, Clean
<1>2. Importable(load.source) /\ load.source \in Seq(Event)
    BY <1>1 DEF TextOf, Importable, Chain
<1>3. jsonl(load.source, Len(load.source)) = load.source
    BY <1>2, JsonlVerbatim DEF Clean
<1> QED
    BY <1>1, <1>2, <1>3 DEF TextOf

(* No line of such an import is refused.                                   *)
LEMMA CleanLineTaken ==
    ASSUME LoadOK, load.pc = "reading", Clean, load.k <= Len(load.lines)
    PROVE  line_violation(load.lines[load.k]) = Valid
<1> DEFINE n == load.k - 1
           e == load.lines[load.k]
<1>1. load.lines = load.source /\ Importable(load.source) /\ load.source \in Seq(Event)
    BY CleanLines
<1>2. /\ load.k \in 1..(Len(load.lines) + 1) /\ load.events = SubSeq(load.lines, 1, n)
      /\ load.previous_hash = chain_head(load.events)
    BY DEF LoadOK, ReadingOK
<1>3. n \in 0..Len(load.source) /\ n < Len(load.source) /\ n + 1 = load.k
    BY <1>1, <1>2
<1>4. /\ load.source[n + 1] \in Event /\ load.source[n + 1].integrity_proof # None
      /\ chain_event_violation(SubSeq(load.source, 1, n), chain_head(SubSeq(load.source, 1, n)),
                               load.source[n + 1]) = Valid
    BY <1>1, <1>3, NextIsClear
<1>5. /\ e \in Event /\ e.integrity_proof # None
      /\ chain_event_violation(load.events, load.previous_hash, e) = Valid
    BY <1>1, <1>2, <1>3, <1>4
<1> HIDE DEF e
<1>6. e # BrokenLine
    BY <1>5, NoneAssumption
<1>7. line_violation(e) = Valid
    BY <1>5, <1>6 DEF line_violation
<1> QED
    BY <1>7 DEF e

(* A refused import was not a clean one.                                   *)
LEMMA Refused ==
    ASSUME load \in LoadRecord, ~Clean, Finish("refused")
    PROVE  LoadOK'
<1>1. /\ load' \in LoadRecord /\ load'.pc = "refused" /\ load'.profile = load.profile
      /\ load'.head = load.head /\ load'.source = load.source
    BY Finished
<1>2. ReadingOK' /\ ImportIsFaithful'
    BY <1>1 DEF ReadingOK, ImportIsFaithful
<1>3. CleanRoundTrip'
    BY <1>1 DEF CleanRoundTrip, Clean
<1> QED
    BY <1>1, <1>2, <1>3 DEF LoadOK

LEMMA LoadLineStep == ASSUME AuditInv, LoadLine PROVE AuditInv'
<1> DEFINE line == load.lines[load.k]
           new == [load EXCEPT !.k = @ + 1, !.events = Append(@, line),
                               !.previous_hash = line.integrity_proof,
                               !.authority_events = authority_events(line)]
<1>1. /\ load.pc = "reading" /\ load.k <= Len(load.lines)
      /\ IF line_violation(line) # Valid THEN Finish("refused") ELSE load' = new
      /\ UNCHANGED <<events, committed, next_id, draft, published, file, saved, edits, restarts>>
    BY DEF LoadLine
<1>2. LoadOK /\ load \in LoadRecord
    BY DEF AuditInv, LoadOK
<1>3. CASE line_violation(line) # Valid
    <2>1. ~Clean
        BY <1>1, <1>2, <1>3, CleanLineTaken
    <2>2. LoadOK'
        BY <1>1, <1>2, <1>3, <2>1, Refused
    <2> QED
        BY <1>1, <2>2, LoadOnly
<1>4. CASE line_violation(line) = Valid
    <2>1. /\ load.profile \in Profiles /\ load.k \in 1..(Len(load.lines) + 1)
          /\ load.events = SubSeq(load.lines, 1, load.k - 1)
          /\ Chain(load.events) /\ load.previous_hash = chain_head(load.events)
          /\ ~load.authority_events => NoAuthority(load.events)
          /\ load.head # None => \E p \in published : p.head = load.head
          /\ load.source # None => TextOf(load.lines, load.source)
        BY <1>1, <1>2 DEF LoadOK, ReadingOK
    <2>2. /\ load.lines \in Seq(Line) /\ load.k \in Nat /\ load.events \in Seq(Event)
          /\ load.authority_events \in BOOLEAN
        BY <1>2 DEF LoadRecord
    <2>3. line \in Line /\ Len(load.lines) \in Nat
        BY <1>1, <2>1, <2>2, ElementType
    <2>4. load' = new
        BY <1>1, <1>4
    <2>5. Append(SubSeq(load.lines, 1, load.k - 1), line) = SubSeq(load.lines, 1, load.k)
        <3>1. load.k - 1 \in 0..Len(load.lines) /\ load.k - 1 < Len(load.lines) /\ (load.k - 1) + 1 = load.k
            BY <1>1, <2>1, <2>3
        <3> QED
            BY <2>2, <3>1, Prefix
    <2>6. authority_events(line) =
              (load.authority_events \/ line.authority_relevant \/ line.event_type \in AUTHORITY_EVENT_TYPES)
        BY DEF authority_events
    <2> HIDE DEF line
    <2>7. line \in Event /\ chain_event_violation(load.events, load.previous_hash, line) = Valid
        BY <1>4, <2>3 DEF line_violation, Line, Valid
    <2>8. Follows(line, load.events)
        BY <2>1, <2>7, ClearFollows
    <2>9. Chain(Append(load.events, line)) /\ chain_head(Append(load.events, line)) = line.integrity_proof
        BY <2>1, <2>8, ChainGrows
    <2>10. line.integrity_proof \in Proofs /\ line.authority_relevant \in BOOLEAN
        BY <2>7 DEF Event
    <2>11. Append(load.events, line) \in Seq(Event) /\ authority_events(line) \in BOOLEAN
        BY <2>2, <2>6, <2>7, <2>10
    <2>12. /\ load' \in LoadRecord /\ load'.pc = "reading" /\ load'.profile = load.profile
           /\ load'.head = load.head /\ load'.lines = load.lines /\ load'.k = load.k + 1
           /\ load'.events = Append(load.events, line) /\ load'.previous_hash = line.integrity_proof
           /\ load'.authority_events = authority_events(line) /\ load'.source = load.source
        <3> DEFINE longer == Append(load.events, line)
                   proof == line.integrity_proof
                   flag == authority_events(line)
                   k == load.k + 1
        <3>1. load' = [load EXCEPT !.k = k, !.events = longer, !.previous_hash = proof,
                                   !.authority_events = flag]
            BY <2>4
        <3>2. longer \in Seq(Event) /\ proof \in Proofs /\ flag \in BOOLEAN /\ k \in Nat
            BY <2>2, <2>10, <2>11
        <3> HIDE DEF longer, proof, flag, k
        <3>3. /\ load' \in LoadRecord /\ load'.pc = load.pc /\ load'.profile = load.profile
              /\ load'.head = load.head /\ load'.lines = load.lines /\ load'.k = k
              /\ load'.events = longer /\ load'.previous_hash = proof
              /\ load'.authority_events = flag /\ load'.source = load.source
            BY <1>2, <3>1, <3>2 DEF LoadRecord
        <3> QED
            BY <1>1, <3>3 DEF longer, proof, flag, k
    <2>13. ~load'.authority_events => NoAuthority(load'.events)
        <3>1. /\ DOMAIN Append(load.events, line) = DOMAIN load.events \cup {Len(load.events) + 1}
              /\ \A i \in DOMAIN load.events : Append(load.events, line)[i] = load.events[i]
              /\ Append(load.events, line)[Len(load.events) + 1] = line
            BY <2>2, <2>7, Appended
        <3> QED
            BY <2>1, <2>6, <2>12, <3>1 DEF NoAuthority
    <2>14. load'.k \in 1..(Len(load'.lines) + 1) /\ load'.k - 1 = load.k
        BY <1>1, <2>1, <2>3, <2>12
    <2>15. load'.events = SubSeq(load'.lines, 1, load'.k - 1)
        BY <2>1, <2>5, <2>12, <2>14
    <2>16. ReadingOK'
        BY <1>1, <2>1, <2>9, <2>12, <2>13, <2>14, <2>15 DEF ReadingOK
    <2>17. LoadOK'
        BY <2>12, <2>16 DEF LoadOK, ImportIsFaithful, CleanRoundTrip
    <2> QED
        BY <1>1, <2>17, LoadOnly
<1> QED
    BY <1>3, <1>4

(* A clean import is not refused at its end, and has taken the log.        *)
LEMMA CleanEnd ==
    ASSUME LoadOK, load.pc = "reading", load.k > Len(load.lines), Clean
    PROVE  import_violation = Valid /\ load.events = load.source
<1>1. load.lines = load.source /\ Importable(load.source) /\ load.source \in Seq(Event)
    BY CleanLines
<1>2. /\ load.k \in 1..(Len(load.lines) + 1) /\ load.events = SubSeq(load.lines, 1, load.k - 1)
      /\ load.previous_hash = chain_head(load.events)
    BY DEF LoadOK, ReadingOK
<1>3. Len(load.lines) \in Nat
    BY <1>1
<1>4. load.k - 1 = Len(load.source)
    BY <1>1, <1>2, <1>3
<1>5. load.events = load.source
    <2>1. load.events = SubSeq(load.source, 1, Len(load.source))
        BY <1>1, <1>2, <1>4
    <2>2. SubSeq(load.source, 1, Len(load.source)) = load.source
        BY <1>1, SubSeqFull
    <2> QED
        BY <2>1, <2>2
<1>6. load.events # << >> => load.head # None
    BY <1>1, <1>5, HeadType DEF Clean, Importable
<1> QED
    BY <1>2, <1>5, <1>6 DEF import_violation, Clean

(* What load_jsonl returns is the log that the head is of, or it has no    *)
(* event that matters.                                                     *)
LEMMA EndFaithful ==
    ASSUME AuditInv, load.pc = "reading", import_violation = Valid
    PROVE  IF load.profile = "authority_chain"
           THEN \/ load.events = << >>
                \/ \E p \in published : p.head = load.head /\ p.log = load.events
           ELSE NoAuthority(load.events)
<1>1. /\ load.profile \in Profiles /\ Chain(load.events) /\ load.previous_hash = chain_head(load.events)
      /\ ~load.authority_events => NoAuthority(load.events)
      /\ load.head # None => \E p \in published : p.head = load.head
    BY DEF AuditInv, LoadOK, ReadingOK
<1>2. CASE load.profile = "diagnostic_only"
    <2>1. ~load.authority_events
        BY <1>2 DEF import_violation, Valid
    <2> QED
        BY <1>1, <1>2, <2>1
<1>3. CASE load.profile = "authority_chain" /\ load.events # << >>
    <2>1. load.head # None /\ load.head = load.previous_hash
        BY <1>3 DEF import_violation, Valid
    <2>2. PICK p \in published : p.head = load.head
        BY <1>1, <2>1
    <2>3. Chain(p.log) /\ p.log # << >> /\ p.head = chain_head(p.log)
        BY DEF AuditInv, PublishedOK
    <2>4. p.log = load.events
        BY <1>1, <1>3, <2>1, <2>2, <2>3, HeadDetermines
    <2> QED
        BY <1>3, <2>2, <2>4
<1>4. CASE load.profile = "authority_chain" /\ load.events = << >>
    BY <1>4
<1> QED
    BY <1>1, <1>2, <1>3, <1>4 DEF Profiles

LEMMA LoadEndStep == ASSUME AuditInv, LoadEnd PROVE AuditInv'
<1>1. /\ load.pc = "reading" /\ load.k > Len(load.lines)
      /\ Finish(IF import_violation = Valid THEN "done" ELSE "refused")
      /\ UNCHANGED <<events, committed, next_id, draft, published, file, saved, edits, restarts>>
    BY DEF LoadEnd
<1>2. LoadOK /\ load \in LoadRecord
    BY DEF AuditInv, LoadOK
<1>3. CASE import_violation # Valid
    <2>1. ~Clean
        BY <1>1, <1>2, <1>3, CleanEnd
    <2>2. Finish("refused")
        BY <1>1, <1>3
    <2>3. LoadOK'
        BY <1>2, <2>1, <2>2, Refused
    <2> QED
        BY <1>1, <2>3, LoadOnly
<1>4. CASE import_violation = Valid
    <2>1. Finish("done")
        BY <1>1, <1>4
    <2>2. /\ load' \in LoadRecord /\ load'.pc = "done" /\ load'.profile = load.profile
          /\ load'.head = load.head /\ load'.events = load.events /\ load'.source = load.source
        BY <1>2, <2>1, Finished
    <2>3. ImportIsFaithful'
        <3>1. IF load.profile = "authority_chain"
              THEN \/ load.events = << >>
                   \/ \E p \in published : p.head = load.head /\ p.log = load.events
              ELSE NoAuthority(load.events)
            BY <1>1, <1>4, EndFaithful
        <3> QED
            BY <1>1, <2>2, <3>1 DEF ImportIsFaithful, NoAuthority
    <2>4. CleanRoundTrip'
        <3>1. Clean => load.events = load.source
            BY <1>1, <1>2, CleanEnd
        <3> QED
            BY <2>2, <3>1 DEF CleanRoundTrip, Clean
    <2>5. LoadOK'
        BY <2>2, <2>3, <2>4 DEF LoadOK, ReadingOK
    <2> QED
        BY <1>1, <2>5, LoadOnly
<1> QED
    BY <1>3, <1>4
-----------------------------------------------------------------------------
(* The theorems.                                                           *)

LEMMA InitAudit == Init => AuditInv
<1> SUFFICES ASSUME Init PROVE AuditInv
    OBVIOUS
<1>1. LogOK
    BY EmptyLog DEF Init
<1>2. CountersOK /\ PublishedOK
    BY DEF Init, CountersOK, PublishedOK
<1>3. DraftOK
    BY DEF Init, DraftOK, NoDraft
<1>4. FileOK
    BY DEF Init, FileOK
<1>5. LoadOK
    BY IdleType DEF Init, LoadOK, ReadingOK, ImportIsFaithful, CleanRoundTrip
<1> QED
    BY <1>1, <1>2, <1>3, <1>4, <1>5 DEF AuditInv

LEMMA StutterAudit == ASSUME AuditInv, UNCHANGED vars PROVE AuditInv'
BY DEF AuditInv, CountersOK, LogOK, DraftOK, PublishedOK, FileOK, LoadOK, ReadingOK,
       ImportIsFaithful, CleanRoundTrip, vars

LEMMA NextAudit == ASSUME AuditInv, [Next]_vars PROVE AuditInv'
<1>1. CASE load.pc = "idle" /\ LogStep
    BY <1>1, RecordStep, DraftStep, AppendDraftStep, MutatePayloadStep, RestartStep, PublishStep
       DEF LogStep
<1>2. CASE load.pc = "idle" /\ FileStep
    BY <1>2, WriteJsonlStep, TornWriteStep, AlterFileStep DEF FileStep
<1>3. CASE LoadStep
    BY <1>3, LoadStartStep, LoadLineStep, LoadEndStep DEF LoadStep, Profiles
<1>4. CASE UNCHANGED vars
    BY <1>4, StutterAudit
<1> QED
    BY <1>1, <1>2, <1>3, <1>4 DEF Next

LEMMA AuditInvariant == Spec => []AuditInv
<1>1. AuditInv /\ [Next]_vars => AuditInv'
    BY NextAudit
<1> QED
    BY InitAudit, <1>1, PTL DEF Spec

(* The log, the draft, the kept heads, the file and the import always hold *)
(* AuditCommits, heads and lines, whatever was done to the file.           *)
THEOREM TypeCorrect == Spec => []TypeOK
<1>1. AuditInv => TypeOK
    <2> SUFFICES ASSUME AuditInv PROVE TypeOK
        OBVIOUS
    <2>1. events \in Seq(Event) /\ committed \in Seq(Event)
        BY DEF AuditInv, LogOK, Importable, Chain
    <2>2. \A p \in published : p.head \in Seq(Sealed) /\ p.log \in Seq(Event)
        BY HeadOfChain DEF AuditInv, PublishedOK, Chain
    <2>3. file \in Seq(Line) /\ saved \in Seq(Event) \cup {None}
        BY DEF AuditInv, FileOK, TextOf, Importable, Chain
    <2>4. load \in LoadRecord
        BY DEF AuditInv, LoadOK
    <2> QED
        BY <2>1, <2>2, <2>3, <2>4 DEF AuditInv, CountersOK, DraftOK, LoadRecord, TypeOK
<1> QED
    BY <1>1, AuditInvariant, PTL

(* What load_jsonl returns under the authority profile is the log whose    *)
(* chain head the operator kept, event for event as append() committed it, *)
(* or nothing: for every log, every change to the file by others, every    *)
(* change of a payload in memory and every crash in write_jsonl.           *)
THEOREM ImportIsFaithfulHolds == Spec => []ImportIsFaithful
<1>1. AuditInv => ImportIsFaithful
    BY DEF AuditInv, LoadOK
<1> QED
    BY <1>1, AuditInvariant, PTL

(* load_jsonl takes a whole, untouched export without line separators back *)
(* event for event when it is given the head of the log.                   *)
THEOREM CleanRoundTripHolds == Spec => []CleanRoundTrip
<1>1. AuditInv => CleanRoundTrip
    BY DEF AuditInv, LoadOK
<1> QED
    BY <1>1, AuditInvariant, PTL

(* A sealed event fixes the head that it was sealed for.                   *)
LEMMA ProofNamesHead ==
    ASSUME NEW e \in Event, NEW a \in Heads, NEW b \in Heads,
           integrity_proof(e, a) = integrity_proof(e, b)
    PROVE  a = b
<1> DEFINE before(h) == IF h = None THEN << >> ELSE h
<1>1. before(a) \in Seq(Sealed) /\ before(b) \in Seq(Sealed) /\ sealed(e) \in Sealed
    BY SealedType DEF Heads
<1>2. Append(before(a), sealed(e)) = Append(before(b), sealed(e))
    BY DEF integrity_proof
<1>3. ASSUME NEW s \in Seq(Sealed), NEW t \in Seq(Sealed), Append(s, sealed(e)) = Append(t, sealed(e))
      PROVE  s = t
    <2>1. Len(s) = Len(t)
        BY <1>1, <1>3
    <2>2. \A i \in 1..Len(s) : s[i] = t[i]
        <3>1. \A i \in 1..Len(s) : s[i] = Append(s, sealed(e))[i] /\ t[i] = Append(t, sealed(e))[i]
            BY <1>1, <2>1
        <3> QED
            BY <1>3, <3>1
    <2> QED
        BY <2>1, <2>2, SeqEqual
<1>4. before(a) = before(b)
    <2> HIDE DEF before
    <2> QED
        BY <1>1, <1>2, <1>3
<1> QED
    BY <1>4 DEF Heads

(* append() commits no event twice, and commits a draft that names or      *)
(* seals its predecessor only behind the log that the draft's author saw.  *)
THEOREM DraftLandsWhereSeenHolds == Spec => DraftLandsWhereSeen
<1>1. ASSUME AuditInv, AppendDraft PROVE LandsWhereSeen
    <2>1. draft # NoDraft /\ append_violation(events, draft.event) = Valid
        BY <1>1 DEF AppendDraft, append
    <2>2. /\ chain_head(events) = chain_head(committed) /\ audit_ids(events) = audit_ids(committed)
        BY <1>1, SameHead DEF AuditInv
    <2>3. /\ draft.event \in Event /\ chain_head(draft.seen) \in Heads
          /\ draft.event.previous_audit_hash \in {None, chain_head(draft.seen)}
          /\ draft.event.integrity_proof \in {None, integrity_proof(draft.event, chain_head(draft.seen))}
        BY <1>1, <2>1 DEF AuditInv, DraftOK
    <2>4. chain_head(committed) \in Heads
        BY <1>1, HeadType DEF AuditInv, LogOK, Importable, Heads
    <2>5. /\ draft.event.audit_id \notin audit_ids(events)
          /\ draft.event.previous_audit_hash \in {None, chain_head(events)}
          /\ draft.event.integrity_proof \in {None, integrity_proof(draft.event, chain_head(events))}
        BY <2>1, AppendClear
    <2>6. CASE draft.event.previous_audit_hash # None
        BY <2>2, <2>3, <2>5, <2>6 DEF LandsWhereSeen
    <2>7. CASE draft.event.integrity_proof # None
        <3>1. integrity_proof(draft.event, chain_head(committed))
                  = integrity_proof(draft.event, chain_head(draft.seen))
            BY <2>2, <2>3, <2>5, <2>7
        <3>2. chain_head(committed) = chain_head(draft.seen)
            BY <2>3, <2>4, <3>1, ProofNamesHead
        <3> QED
            BY <2>2, <2>5, <3>2 DEF LandsWhereSeen
    <2> QED
        BY <2>2, <2>5, <2>6, <2>7 DEF LandsWhereSeen
<1>2. AuditInv /\ [Next]_vars => [AppendDraft => LandsWhereSeen]_vars
    BY <1>1
<1> QED
    BY <1>2, AuditInvariant, PTL DEF Spec, DraftLandsWhereSeen
=============================================================================
