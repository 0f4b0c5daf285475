----------------------- MODULE FileReplayCacheProofs -----------------------
(***************************************************************************)
(* Theorems about FileReplayCache, for any number of verifiers, any        *)
(* commands and lease nonces, any operations that fail and any bound on    *)
(* the calls.                                                              *)
(***************************************************************************)
EXTENDS FileReplayCache, TLAPS

(* A list of keys has one or three of them, and they are keys.             *)
LEMMA ListKeys ==
    ASSUME NEW list \in KeyLists
    PROVE  /\ DOMAIN list \subseteq 1..3 /\ 1 \in DOMAIN list
           /\ KeysOf(list) \in SUBSET AllKeys
           /\ KeysOf(list) # {}
           /\ list # << >>
<1>1. DOMAIN list \subseteq 1..3 /\ 1 \in DOMAIN list
    BY DEF KeyLists, replay_keys
<1>2. KeysOf(list) \in SUBSET AllKeys
    BY DEF AllKeys
<1>3. KeysOf(list) # {}
    BY <1>1 DEF KeysOf
<1> QED
    BY <1>1, <1>2, <1>3

(* first_in finds a key of the list that is in the set, if there is one.   *)
LEMMA FirstIn ==
    ASSUME NEW list \in KeyLists, NEW keys, KeysOf(list) \cap keys # {}
    PROVE  first_in(list, keys) \in KeysOf(list) \cap keys
<1> DEFINE First(i) == list[i] \in keys /\ \A j \in 1..(i - 1) : list[j] \notin keys
<1>1. PICK i \in DOMAIN list : list[i] \in keys
    BY DEF KeysOf
<1>2. DOMAIN list \subseteq 1..3
    BY ListKeys
<1>3. \E k \in DOMAIN list : First(k)
    <2>1. DOMAIN list = {1} \/ DOMAIN list = 1..3
        BY DEF KeyLists, replay_keys
    <2> QED
        BY <1>1, <1>2, <2>1
<1>4. PICK k \in DOMAIN list : k = (CHOOSE m \in DOMAIN list : First(m)) /\ First(k)
    BY <1>3
<1>5. first_in(list, keys) = list[k]
    BY <1>4 DEF first_in
<1> QED
    BY <1>4, <1>5 DEF KeysOf

(* The call a verifier is in, and the calls of the others, after its step. *)
LEMMA ReturnCall ==
    ASSUME TypeOK, NEW v \in Verifier, Return(v)
    PROVE  /\ call' \in [Verifier -> Call]
           /\ call'[v] = IdleCall
           /\ \A w \in Verifier : w # v => call'[w] = call[w]
<1>1. IdleCall \in Call
    BY DEF IdleCall, Call
<1> QED
    BY <1>1 DEF Return, TypeOK

(* Moving on leaves the rest of a call, and the other calls, alone.        *)
LEMMA GotoCall ==
    ASSUME TypeOK, NEW v \in Verifier,
           NEW pc \in {"create", "write", "sync", "remove", "answer"}, Goto(v, pc)
    PROVE  /\ call' \in [Verifier -> Call]
           /\ call'[v].pc = pc
           /\ call'[v].keys = call[v].keys
           /\ call'[v].made = call[v].made
           /\ \A w \in Verifier : w # v => call'[w] = call[w]
BY DEF Goto, TypeOK, Call

(* The key whose file is made next is one that the call has not made.      *)
LEMMA NextKey ==
    ASSUME TypeOK, NEW v \in Verifier, call[v].pc = "create", NEW k \in next_keys(call[v])
    PROVE  k \in KeysOf(call[v].keys) \ call[v].made /\ k \in AllKeys
<1>1. call[v] \in Call /\ CallOK(call[v])
    BY DEF TypeOK
<1>2. call[v].keys \in KeyLists
    BY <1>1 DEF Call, CallOK
<1>3. KeysOf(call[v].keys) \cap (KeysOf(call[v].keys) \ call[v].made) # {}
    BY <1>1 DEF CallOK
<1>4. k = first_in(call[v].keys, KeysOf(call[v].keys) \ call[v].made)
    BY DEF next_keys
<1> HIDE DEF next_keys
<1> QED
    BY <1>2, <1>3, <1>4, FirstIn, ListKeys

(* What is true of the call after a file was made.                         *)
LEMMA MadeCall ==
    ASSUME TypeOK, NEW v \in Verifier, call[v].pc = "create", NEW k \in next_keys(call[v]),
           NEW made, made = call[v].made \cup {k},
           call' = [call EXCEPT ![v].made = made, ![v].pc = after_create(call[v], made)]
    PROVE  /\ call' \in [Verifier -> Call]
           /\ call'[v].pc \in {"create", "write"}
           /\ call'[v].made = call[v].made \cup {k}
           /\ CallOK(call'[v])
           /\ \A w \in Verifier : w # v => call'[w] = call[w]
<1>1. call[v] \in Call /\ CallOK(call[v])
    BY DEF TypeOK
<1>2. k \in KeysOf(call[v].keys) \ call[v].made /\ k \in AllKeys
    BY NextKey
<1>3. after_create(call[v], made) \in {"create", "write"}
    BY DEF after_create
<1>4. call' \in [Verifier -> Call] /\ \A w \in Verifier : w # v => call'[w] = call[w]
    BY <1>1, <1>2, <1>3 DEF TypeOK, Call
<1>5. /\ call'[v].pc = after_create(call[v], made)
      /\ call'[v].made = made
      /\ call'[v].keys = call[v].keys
    BY <1>1 DEF TypeOK, Call
<1>6. CallOK(call'[v])
    <2>1. KeysOf(call'[v].keys) = KeysOf(call[v].keys)
        BY <1>5
    <2>2. made \subseteq KeysOf(call[v].keys) /\ call[v].keys # << >>
        BY <1>1, <1>2 DEF CallOK
    <2>3. CASE made = KeysOf(call[v].keys)
        <3>1. call'[v].pc = "write" /\ call'[v].made = made /\ call'[v].keys # << >>
            BY <1>5, <2>2, <2>3 DEF after_create
        <3>2. made = KeysOf(call'[v].keys)
            BY <2>1, <2>3
        <3> QED
            BY <3>1, <3>2 DEF CallOK
    <2>4. CASE made # KeysOf(call[v].keys)
        <3>1. call'[v].pc = "create" /\ call'[v].made = made /\ call'[v].keys # << >>
            BY <1>5, <2>2, <2>4 DEF after_create
        <3>2. made # KeysOf(call'[v].keys) /\ made \subseteq KeysOf(call'[v].keys)
            BY <2>1, <2>2, <2>4
        <3> QED
            BY <3>1, <3>2 DEF CallOK
    <2> QED
        BY <2>3, <2>4
<1> QED
    BY <1>3, <1>4, <1>5, <1>6

(* The file that remove_markers removes next is one the call has made.     *)
LEMMA RemovedKey ==
    ASSUME TypeOK, NEW v \in Verifier, call[v].pc = "remove", call[v].made # {}
    PROVE  first_in(call[v].keys, call[v].made) \in call[v].made
<1>1. call[v] \in Call /\ CallOK(call[v])
    BY DEF TypeOK
<1>2. call[v].keys \in KeyLists
    BY <1>1 DEF Call, CallOK
<1>3. KeysOf(call[v].keys) \cap call[v].made # {}
    BY <1>1 DEF CallOK
<1> QED
    BY <1>2, <1>3, FirstIn

(* The step of a verifier keeps the types if its own call keeps its form.  *)
LEMMA CallsOK ==
    ASSUME TypeOK, NEW v \in Verifier, CallOK(call'[v]),
           \A w \in Verifier : w # v => call'[w] = call[w]
    PROVE  \A w \in Verifier : CallOK(call'[w])
<1> SUFFICES ASSUME NEW w \in Verifier PROVE CallOK(call'[w])
    OBVIOUS
<1>1. CASE w = v
    BY <1>1
<1>2. CASE w # v
    <2>1. call'[w] = call[w] /\ CallOK(call[w])
        BY <1>2 DEF TypeOK
    <2> QED
        BY <2>1
<1> QED
    BY <1>1, <1>2

(* An idle call has no keys and no files.                                  *)
LEMMA IdleCallOK == CallOK(IdleCall)
BY DEF CallOK, IdleCall, KeysOf

(* A call that returns leaves the calls well typed.                        *)
LEMMA ReturnOK ==
    ASSUME TypeOK, NEW v \in Verifier, Return(v)
    PROVE  call' \in [Verifier -> Call] /\ \A w \in Verifier : CallOK(call'[w])
<1>1. CallOK(call'[v])
    BY ReturnCall, IdleCallOK
<1> QED
    BY <1>1, ReturnCall, CallsOK

(* So does one that moves on, with all of its files or to remove them.     *)
LEMMA GotoOK ==
    ASSUME TypeOK, NEW v \in Verifier, NEW pc \in {"write", "sync", "remove", "answer"},
           Goto(v, pc), call[v].pc # "idle",
           pc # "remove" => call[v].pc \in {"write", "sync"}
    PROVE  call' \in [Verifier -> Call] /\ \A w \in Verifier : CallOK(call'[w])
<1>1. /\ call'[v].pc = pc
      /\ call'[v].keys = call[v].keys
      /\ call'[v].made = call[v].made
    BY GotoCall
<1>2. KeysOf(call'[v].keys) = KeysOf(call[v].keys)
    BY <1>1
<1>3. /\ call[v].made \subseteq KeysOf(call[v].keys)
      /\ call[v].keys # << >>
      /\ pc # "remove" => call[v].made = KeysOf(call[v].keys)
    BY DEF TypeOK, CallOK
<1>4. CallOK(call'[v])
    BY <1>1, <1>2, <1>3 DEF CallOK
<1> QED
    BY <1>4, GotoCall, CallsOK

(* The initial states have the right types.                                *)
LEMMA InitType == Init => TypeOK
<1> SUFFICES ASSUME Init PROVE TypeOK
    OBVIOUS
<1>1. IdleCall \in Call
    BY DEF IdleCall, Call
<1>2. call \in [Verifier -> Call] /\ \A v \in Verifier : CallOK(call[v])
    BY <1>1, IdleCallOK DEF Init
<1>3. calls \in 0..MaxCalls
    BY CacheAssumption DEF Init
<1>4. up \in [Verifier -> BOOLEAN] /\ faulty \in BOOLEAN
    BY Zenon DEF Init
<1>5. answered \in Seq(SUBSET AllKeys)
    BY DEF Init
<1>6. markers \subseteq AllKeys /\ synced \subseteq AllKeys /\ consumed \subseteq AllKeys
    BY DEF Init
<1>7. rejected \subseteq KeyLists \X AllKeys
    BY DEF Init
<1> QED
    BY <1>2, <1>3, <1>4, <1>5, <1>6, <1>7 DEF TypeOK

(* Begin keeps the types.                                                  *)
LEMMA BeginType ==
    ASSUME TypeOK, NEW v \in Verifier, NEW list \in KeyLists, NEW single \in BOOLEAN,
           Begin(v, list, single)
    PROVE  TypeOK'
<1>1. calls' \in 0..MaxCalls
    BY CacheAssumption DEF TypeOK, Begin
<1>2. call' \in [Verifier -> Call] /\ \A w \in Verifier : CallOK(call'[w])
    <2>1. CASE UNCHANGED call
        BY <2>1 DEF TypeOK
    <2>2. CASE call' = [call EXCEPT ![v] = [pc |-> "create", keys |-> list, made |-> {},
                                            single |-> single]]
        <3> DEFINE new == [pc |-> "create", keys |-> list, made |-> {}, single |-> single]
        <3>1. new \in Call
            BY DEF Call
        <3>2. CallOK(new)
            BY ListKeys DEF CallOK
        <3> HIDE DEF new
        <3>3. call' \in [Verifier -> Call] /\ call'[v] = new
            BY <2>2, <3>1 DEF TypeOK, new
        <3>4. \A w \in Verifier : w # v => call'[w] = call[w]
            BY <2>2 DEF TypeOK
        <3> QED
            BY <3>2, <3>3, <3>4, CallsOK
    <2> QED
        BY <2>1, <2>2 DEF Begin
<1> QED
    BY <1>1, <1>2 DEF Begin, TypeOK

(* CreateMarker keeps the types.                                           *)
LEMMA CreateMarkerType ==
    ASSUME TypeOK, NEW v \in Verifier, CreateMarker(v)
    PROVE  TypeOK'
<1>1. call[v].pc = "create"
    BY DEF CreateMarker, At
<1>2. PICK k \in next_keys(call[v]) :
          \/ /\ rejected' = rejected \cup {<<call[v].keys, k>>}
             /\ Goto(v, "remove")
             /\ UNCHANGED <<markers, faulty>>
          \/ /\ markers' = markers \cup {k}
             /\ call' = [call EXCEPT ![v].made = call[v].made \cup {k},
                                     ![v].pc = after_create(call[v], call[v].made \cup {k})]
             /\ UNCHANGED <<rejected, faulty>>
          \/ /\ faulty' = TRUE
             /\ Goto(v, "remove")
             /\ UNCHANGED <<markers, rejected>>
    BY DEF CreateMarker, AlreadyExists, Fails
<1>3. k \in AllKeys /\ call[v].keys \in KeyLists
    BY <1>1, NextKey DEF TypeOK, Call, CallOK
<1>4. call' \in [Verifier -> Call] /\ \A w \in Verifier : CallOK(call'[w])
    BY <1>1, <1>2, GotoOK, MadeCall, CallsOK
<1>5. markers' \subseteq AllKeys /\ rejected' \subseteq KeyLists \X AllKeys
    BY <1>2, <1>3 DEF TypeOK
<1>6. faulty' \in BOOLEAN
    BY <1>2, Zenon DEF TypeOK
<1>7. UNCHANGED <<synced, up, calls, consumed, answered>>
    BY DEF CreateMarker
<1> QED
    BY <1>4, <1>5, <1>6, <1>7 DEF TypeOK

(* SyncDirectory keeps the types.                                          *)
LEMMA SyncDirectoryType ==
    ASSUME TypeOK, NEW v \in Verifier, SyncDirectory(v)
    PROVE  TypeOK'
<1>1. call[v].pc = "sync" /\ call[v].made \subseteq AllKeys
    BY DEF SyncDirectory, At, TypeOK, Call
<1>2. Goto(v, "answer") \/ Goto(v, "remove") \/ Return(v)
    BY DEF SyncDirectory
<1>3. call' \in [Verifier -> Call] /\ \A w \in Verifier : CallOK(call'[w])
    BY <1>1, <1>2, GotoOK, ReturnOK
<1>4. synced' \subseteq AllKeys /\ consumed' \subseteq AllKeys
    BY <1>1 DEF SyncDirectory, directory_entries, TypeOK
<1>5. faulty' \in BOOLEAN
    BY Zenon DEF SyncDirectory, Fails, TypeOK
<1>6. UNCHANGED <<markers, up, calls, answered, rejected>>
    BY DEF SyncDirectory
<1> QED
    BY <1>3, <1>4, <1>5, <1>6 DEF TypeOK

(* What RemoveMarker does to the call.                                     *)
LEMMA RemovedCall ==
    ASSUME TypeOK, NEW v \in Verifier, RemoveMarker(v)
    PROVE  \E k \in call[v].made :
              /\ call' \in [Verifier -> Call]
              /\ call'[v].pc = "remove"
              /\ call'[v].made = call[v].made \ {k}
              /\ CallOK(call'[v])
              /\ \A w \in Verifier : w # v => call'[w] = call[w]
              /\ \/ markers' = markers \ {k} /\ UNCHANGED faulty
                 \/ faulty' = TRUE /\ UNCHANGED markers
<1> DEFINE k == first_in(call[v].keys, call[v].made)
<1>1. call[v] \in Call /\ CallOK(call[v]) /\ call[v].pc = "remove" /\ call[v].made # {}
    BY DEF TypeOK, RemoveMarker, At
<1>2. k \in call[v].made
    BY <1>1, RemovedKey
<1>3. /\ call' = [call EXCEPT ![v].made = @ \ {k}]
      /\ \/ markers' = markers \ {k} /\ UNCHANGED faulty
         \/ faulty' = TRUE /\ UNCHANGED markers
    BY DEF RemoveMarker, without_marker, Fails
<1> HIDE DEF k
<1>4. call' \in [Verifier -> Call] /\ \A w \in Verifier : w # v => call'[w] = call[w]
    BY <1>1, <1>3 DEF TypeOK, Call
<1>5. /\ call'[v].pc = "remove"
      /\ call'[v].keys = call[v].keys
      /\ call'[v].made = call[v].made \ {k}
    BY <1>1, <1>3 DEF TypeOK, Call
<1>6. CallOK(call'[v])
    <2>1. KeysOf(call'[v].keys) = KeysOf(call[v].keys)
        BY <1>5
    <2> QED
        BY <1>1, <1>5, <2>1 DEF CallOK
<1> QED
    BY <1>2, <1>3, <1>4, <1>5, <1>6

(* RemoveMarker keeps the types.                                           *)
LEMMA RemoveMarkerType ==
    ASSUME TypeOK, NEW v \in Verifier, RemoveMarker(v)
    PROVE  TypeOK'
<1>1. call' \in [Verifier -> Call] /\ \A w \in Verifier : CallOK(call'[w])
    BY RemovedCall, CallsOK
<1>2. markers' \subseteq AllKeys
    BY RemovedCall DEF TypeOK
<1>3. faulty' \in BOOLEAN
    BY Zenon DEF RemoveMarker, Fails, TypeOK
<1>4. UNCHANGED <<synced, up, calls, consumed, answered, rejected>>
    BY DEF RemoveMarker
<1> QED
    BY <1>1, <1>2, <1>3, <1>4 DEF TypeOK

(* Every step keeps the types.                                             *)
LEMMA NextType == TypeOK /\ [Next]_vars => TypeOK'
<1> SUFFICES ASSUME TypeOK, [Next]_vars PROVE TypeOK'
    OBVIOUS
<1>1. CASE UNCHANGED vars
    BY <1>1 DEF vars, TypeOK
<1>2. CASE PowerLoss
    <2>1. markers' \subseteq AllKeys /\ synced' \subseteq AllKeys
        BY <1>2 DEF PowerLoss, TypeOK
    <2>2. faulty' \in BOOLEAN
        BY <1>2, Zenon DEF PowerLoss, Fails
    <2> QED
        BY <1>2, <2>1, <2>2 DEF PowerLoss, TypeOK
<1>3. ASSUME NEW v \in Verifier, NEW c \in Commands, NEW n \in Nonces, ConsumeNonces(v, c, n)
      PROVE  TypeOK'
    <2>1. replay_keys(c, n) \in KeyLists
        BY DEF KeyLists
    <2> QED
        BY <1>3, <2>1, BeginType DEF ConsumeNonces
<1>4. ASSUME NEW v \in Verifier, NEW k \in Singles, ConsumeNonce(v, k)
      PROVE  TypeOK'
    <2>1. <<k>> \in KeyLists
        BY DEF KeyLists
    <2> QED
        BY <1>4, <2>1, BeginType DEF ConsumeNonce
<1>5. ASSUME NEW v \in Verifier, WriteMarkers(v)
      PROVE  TypeOK'
    <2>1. call' \in [Verifier -> Call] /\ \A w \in Verifier : CallOK(call'[w])
        BY <1>5, GotoOK DEF WriteMarkers, At
    <2>2. faulty' \in BOOLEAN
        BY <1>5, Zenon DEF WriteMarkers, Fails, TypeOK
    <2> QED
        BY <1>5, <2>1, <2>2 DEF WriteMarkers, TypeOK
<1>6. ASSUME NEW v \in Verifier, Reject(v)
      PROVE  TypeOK'
    BY <1>6, ReturnOK DEF Reject, TypeOK
<1>7. ASSUME NEW v \in Verifier, Answer(v)
      PROVE  TypeOK'
    <2>1. KeysOf(call[v].keys) \in SUBSET AllKeys
        BY <1>7, ListKeys DEF Answer, At, TypeOK, Call, CallOK
    <2>2. answered' \in Seq(SUBSET AllKeys)
        BY <1>7, <2>1 DEF Answer, TypeOK
    <2> QED
        BY <1>7, <2>2, ReturnOK DEF Answer, TypeOK
<1>8. ASSUME NEW v \in Verifier, Crash(v)
      PROVE  TypeOK'
    <2>1. up' \in [Verifier -> BOOLEAN] /\ faulty' \in BOOLEAN
        BY <1>8, Zenon DEF Crash, Fails, TypeOK
    <2> QED
        BY <1>8, <2>1, ReturnOK DEF Crash, TypeOK
<1>9. ASSUME NEW v \in Verifier, Start(v)
      PROVE  TypeOK'
    <2>1. up' \in [Verifier -> BOOLEAN]
        BY <1>9, Zenon DEF Start, TypeOK
    <2> QED
        BY <1>9, <2>1 DEF Start, TypeOK
<1> QED
    BY <1>1, <1>2, <1>3, <1>4, <1>5, <1>6, <1>7, <1>8, <1>9,
       CreateMarkerType, SyncDirectoryType, RemoveMarkerType
       DEF Next, VerifierStep

(* A call of consume_nonces() never has files of other keys than its own,  *)
(* and writes, syncs and answers only with all of them made.               *)
THEOREM TypeCorrect == Spec => []TypeOK
BY InitType, NextType, PTL DEF Spec

-----------------------------------------------------------------------------
(* A step of one call that consumes nothing, answers nothing and removes   *)
(* no files but its own keeps the ledger.                                  *)
LEMMA LedgerFrame ==
    ASSUME TypeOK, MarkerLedger, NEW v \in Verifier,
           \A w \in Verifier : w # v => call'[w] = call[w],
           call'[v].made \subseteq call[v].made,
           call'[v].pc # "answer",
           call[v].pc = "answer" => call'[v].made = {},
           \A k \in markers \ markers' : /\ call[v].pc # "answer"
                                         /\ k \in call[v].made \ call'[v].made,
           consumed \subseteq synced',
           UNCHANGED <<consumed, answered>>
    PROVE  MarkerLedger'
<1>1. consumed \subseteq markers' \cap synced'
    BY DEF MarkerLedger, Pending
<1>2. \A w \in Verifier : call'[w].made \subseteq call[w].made
    BY Zenon
<1>3. \A w \in Verifier : call'[w].made \subseteq markers'
    BY DEF MarkerLedger
<1>4. \A w \in Verifier : IF call'[w].pc = "answer" THEN call'[w].made \subseteq consumed
                          ELSE call'[w].made \cap consumed = {}
    BY DEF MarkerLedger, Pending
<1>5. \A w, x \in Verifier : w # x => call'[w].made \cap call'[x].made = {}
    BY <1>2 DEF MarkerLedger
<1>6. \A w \in Verifier, i \in DOMAIN answered : call'[w].made \cap answered[i] = {}
    BY <1>2 DEF MarkerLedger
<1> QED
    BY <1>1, <1>3, <1>4, <1>5, <1>6 DEF MarkerLedger, Pending

(* A step that leaves the calls alone keeps the ledger when it keeps what  *)
(* is consumed, and what a call has made, in the directory.                *)
LEMMA DirectoryFrame ==
    ASSUME MarkerLedger, UNCHANGED <<call, consumed, answered>>,
           consumed \subseteq markers' \cap synced',
           \A v \in Verifier : call[v].made \subseteq markers'
    PROVE  MarkerLedger'
BY DEF MarkerLedger, Pending

(* A verifier that is down is in no call.                                  *)
DownIsIdle == \A v \in Verifier : ~up[v] => call[v].pc = "idle"

(* DownIsIdle is inductive: only a verifier that is up enters a call.      *)
LEMMA NextDown == TypeOK /\ DownIsIdle /\ [Next]_vars => DownIsIdle'
<1> SUFFICES ASSUME TypeOK, DownIsIdle, [Next]_vars PROVE DownIsIdle'
    OBVIOUS
<1>1. ASSUME NEW v \in Verifier, up[v], UNCHANGED up, NEW new, call' = [call EXCEPT ![v] = new]
      PROVE  DownIsIdle'
    BY <1>1 DEF DownIsIdle, TypeOK
<1>2. ASSUME NEW v \in Verifier, up[v], UNCHANGED up,
             Return(v) \/ \E pc : Goto(v, pc)
      PROVE  DownIsIdle'
    <2>1. \A w \in Verifier : w # v => call'[w] = call[w]
        BY <1>2 DEF TypeOK, Return, Goto
    <2> QED
        BY <1>2, <2>1 DEF DownIsIdle
<1>3. CASE UNCHANGED vars \/ PowerLoss
    BY <1>3 DEF vars, PowerLoss, DownIsIdle
<1>4. ASSUME NEW v \in Verifier, NEW list, NEW single, Begin(v, list, single)
      PROVE  DownIsIdle'
    <2>1. up[v] /\ UNCHANGED up
        BY <1>4 DEF Begin, At
    <2>2. CASE UNCHANGED call
        BY <2>1, <2>2 DEF DownIsIdle
    <2>3. CASE call' = [call EXCEPT ![v] = [pc |-> "create", keys |-> list, made |-> {},
                                            single |-> single]]
        BY <1>1, <2>1, <2>3
    <2> QED
        BY <1>4, <2>2, <2>3 DEF Begin
<1>5. ASSUME NEW v \in Verifier, CreateMarker(v) \/ RemoveMarker(v)
      PROVE  DownIsIdle'
    <2>1. up[v] /\ UNCHANGED up
        BY <1>5 DEF CreateMarker, RemoveMarker, At
    <2>2. \A w \in Verifier : w # v => call'[w] = call[w]
        BY <1>5 DEF CreateMarker, RemoveMarker, AlreadyExists, Goto, TypeOK
    <2> QED
        BY <2>1, <2>2 DEF DownIsIdle
<1>6. ASSUME NEW v \in Verifier,
             WriteMarkers(v) \/ SyncDirectory(v) \/ Reject(v) \/ Answer(v)
      PROVE  DownIsIdle'
    BY <1>2, <1>6 DEF WriteMarkers, SyncDirectory, Reject, Answer, At
<1>7. ASSUME NEW v \in Verifier, Crash(v)
      PROVE  DownIsIdle'
    <2>1. \A w \in Verifier : w # v => call'[w] = call[w] /\ up'[w] = up[w]
        BY <1>7 DEF Crash, Return, TypeOK
    <2>2. call'[v].pc = "idle"
        BY <1>7, ReturnCall DEF Crash, IdleCall
    <2> QED
        BY <2>1, <2>2 DEF DownIsIdle
<1>8. ASSUME NEW v \in Verifier, Start(v)
      PROVE  DownIsIdle'
    <2>1. \A w \in Verifier : w # v => up'[w] = up[w]
        BY <1>8 DEF Start, TypeOK
    <2>2. up'[v] /\ UNCHANGED call
        BY <1>8 DEF Start, TypeOK
    <2> QED
        BY <2>1, <2>2 DEF DownIsIdle
<1> QED
    BY <1>3, <1>4, <1>5, <1>6, <1>7, <1>8 DEF Next, VerifierStep, ConsumeNonces, ConsumeNonce

(* The ledger is empty at first.                                           *)
LEMMA InitLedger == Init => MarkerLedger /\ DownIsIdle
BY DEF Init, MarkerLedger, DownIsIdle, Pending, IdleCall

(* A call that is idle has made no files.                                  *)
LEMMA IdleMade ==
    ASSUME TypeOK, NEW v \in Verifier, call[v].pc = "idle"
    PROVE  call[v].made = {}
BY DEF TypeOK, CallOK, KeysOf

(* Begin keeps the ledger.                                                 *)
LEMMA BeginLedger ==
    ASSUME TypeOK, MarkerLedger, NEW v \in Verifier, NEW list, NEW single,
           Begin(v, list, single)
    PROVE  MarkerLedger'
<1>1. call[v].pc = "idle" /\ UNCHANGED <<markers, synced, consumed, answered>>
    BY DEF Begin, At
<1>2. /\ \A w \in Verifier : w # v => call'[w] = call[w]
      /\ call'[v].pc # "answer"
      /\ call'[v].made \subseteq call[v].made
    BY <1>1 DEF Begin, TypeOK
<1> QED
    BY <1>1, <1>2, LedgerFrame DEF MarkerLedger

(* A file that is new belongs to nobody else and is not consumed.          *)
LEMMA CreateMarkerLedger ==
    ASSUME TypeOK, MarkerLedger, NEW v \in Verifier, CreateMarker(v)
    PROVE  MarkerLedger'
<1>1. call[v].pc = "create" /\ UNCHANGED <<synced, consumed, answered>>
    BY DEF CreateMarker, At
<1>2. CASE Goto(v, "remove") /\ UNCHANGED markers
    BY <1>1, <1>2, GotoCall, LedgerFrame DEF MarkerLedger
<1>3. ASSUME NEW k \in next_keys(call[v]), k \notin markers, markers' = markers \cup {k},
             call' = [call EXCEPT ![v].made = call[v].made \cup {k},
                                  ![v].pc = after_create(call[v], call[v].made \cup {k})]
      PROVE  MarkerLedger'
    <2>1. /\ call'[v].pc \in {"create", "write"}
          /\ call'[v].made = call[v].made \cup {k}
          /\ \A w \in Verifier : w # v => call'[w] = call[w]
        BY <1>1, <1>3, MadeCall
    <2>2. k \notin consumed /\ \A w \in Verifier : k \notin call[w].made
        BY <1>3 DEF MarkerLedger
    <2>3. \A i \in DOMAIN answered : k \notin answered[i]
        BY <2>2 DEF MarkerLedger
    <2>4. consumed \subseteq markers' \cap synced'
        BY <1>1, <1>3 DEF MarkerLedger
    <2>5. \A w \in Verifier : call'[w].made \subseteq markers'
        BY <1>3, <2>1 DEF MarkerLedger
    <2>6. \A w \in Verifier : IF call'[w].pc = "answer" THEN call'[w].made \subseteq consumed
                              ELSE call'[w].made \cap consumed = {}
        BY <1>1, <2>1, <2>2 DEF MarkerLedger, Pending
    <2>7. \A w, x \in Verifier : w # x => call'[w].made \cap call'[x].made = {}
        BY <2>1, <2>2 DEF MarkerLedger
    <2>8. \A w \in Verifier, i \in DOMAIN answered : call'[w].made \cap answered[i] = {}
        BY <2>1, <2>3 DEF MarkerLedger
    <2> QED
        BY <1>1, <2>4, <2>5, <2>6, <2>7, <2>8 DEF MarkerLedger, Pending
<1> QED
    BY <1>2, <1>3 DEF CreateMarker, AlreadyExists, file_exists

(* The sync of the directory consumes exactly the files of this call.      *)
LEMMA SyncDirectoryLedger ==
    ASSUME TypeOK, MarkerLedger, NEW v \in Verifier, SyncDirectory(v)
    PROVE  MarkerLedger'
<1>1. call[v].pc = "sync" /\ UNCHANGED <<markers, answered>>
    BY DEF SyncDirectory, At
<1>2. CASE Goto(v, "remove") /\ UNCHANGED <<synced, consumed>>
    BY <1>1, <1>2, GotoCall, LedgerFrame DEF MarkerLedger
<1>3. CASE Return(v) /\ UNCHANGED <<synced, consumed>>
    <2>1. call'[v].made = {} /\ call'[v].pc # "answer"
        BY <1>3, ReturnCall DEF IdleCall
    <2> QED
        BY <1>1, <1>3, <2>1, ReturnCall, LedgerFrame DEF MarkerLedger
<1>4. CASE synced' = markers /\ consumed' = consumed \cup call[v].made /\ Goto(v, "answer")
    <2>1. /\ call'[v].pc = "answer"
          /\ call'[v].made = call[v].made
          /\ \A w \in Verifier : w # v => call'[w] = call[w]
        BY <1>4, GotoCall
    <2>2. \A w \in Verifier : call'[w].made = call[w].made
        BY <2>1, Zenon
    <2>3. consumed' \subseteq markers' \cap synced'
        BY <1>1, <1>4 DEF MarkerLedger
    <2>4. \A w \in Verifier : IF call'[w].pc = "answer" THEN call'[w].made \subseteq consumed'
                              ELSE call'[w].made \cap consumed' = {}
        BY <1>4, <2>1 DEF MarkerLedger, Pending
    <2>5. \A i \in DOMAIN answered : answered[i] \subseteq consumed'
        BY <1>4 DEF MarkerLedger
    <2> QED
        BY <1>1, <2>2, <2>3, <2>4, <2>5 DEF MarkerLedger, Pending
<1> QED
    BY <1>2, <1>3, <1>4 DEF SyncDirectory, directory_entries

(* An answer takes the files of the call out of its hands.                 *)
LEMMA AnswerLedger ==
    ASSUME TypeOK, MarkerLedger, NEW v \in Verifier, Answer(v)
    PROVE  MarkerLedger'
<1>0. PICK n \in Nat : n = Len(answered)
    BY DEF TypeOK
<1>1. call[v].pc = "answer" /\ UNCHANGED <<markers, synced, consumed>>
    BY DEF Answer, At
<1>2. KeysOf(call[v].keys) = call[v].made
    BY <1>1 DEF TypeOK, CallOK
<1>3. call'[v].made = {} /\ call'[v].pc = "idle"
    BY ReturnCall DEF Answer, IdleCall
<1>4. \A w \in Verifier : w # v => call'[w] = call[w]
    BY ReturnCall DEF Answer
<1>5. /\ DOMAIN answered = 1..n
      /\ DOMAIN answered' = 1..(n + 1)
      /\ answered'[n + 1] = call[v].made
      /\ \A i \in 1..n : answered'[i] = answered[i]
    BY <1>0, <1>2 DEF Answer, TypeOK
<1>6. consumed \subseteq markers' \cap synced' /\ \A w \in Verifier : call'[w].made \subseteq markers'
    BY <1>1, <1>3, <1>4 DEF MarkerLedger
<1>7. \A w \in Verifier : IF call'[w].pc = "answer" THEN call'[w].made \subseteq consumed
                          ELSE call'[w].made \cap consumed = {}
    BY <1>3, <1>4 DEF MarkerLedger, Pending
<1>8. \A w, x \in Verifier : w # x => call'[w].made \cap call'[x].made = {}
    BY <1>3, <1>4 DEF MarkerLedger
<1>9. call[v].made \subseteq consumed /\ \A i \in 1..n : call[v].made \cap answered[i] = {}
    BY <1>1, <1>5 DEF MarkerLedger, Pending
<1>10. \A i \in DOMAIN answered' : answered'[i] \subseteq consumed
    BY <1>5, <1>9 DEF MarkerLedger
<1>11. \A w \in Verifier, i \in DOMAIN answered' : call'[w].made \cap answered'[i] = {}
    BY <1>3, <1>4, <1>5 DEF MarkerLedger
<1>12. \A i, j \in DOMAIN answered' : i # j => answered'[i] \cap answered'[j] = {}
    BY <1>5, <1>9 DEF MarkerLedger
<1> QED
    BY <1>1, <1>6, <1>7, <1>8, <1>10, <1>11, <1>12 DEF MarkerLedger, Pending

(* Every step keeps the ledger.                                            *)
LEMMA NextLedger == TypeOK /\ MarkerLedger /\ DownIsIdle /\ [Next]_vars => MarkerLedger'
<1> SUFFICES ASSUME TypeOK, MarkerLedger, DownIsIdle, [Next]_vars PROVE MarkerLedger'
    OBVIOUS
<1>1. CASE UNCHANGED vars
    BY <1>1, DirectoryFrame DEF vars, MarkerLedger
<1>2. CASE PowerLoss
    <2>1. \A v \in Verifier : call[v].made = {}
        BY <1>2, IdleMade DEF PowerLoss, DownIsIdle
    <2>2. consumed \subseteq markers' /\ synced' = markers'
        BY <1>2 DEF PowerLoss, MarkerLedger
    <2> QED
        BY <1>2, <2>1, <2>2, DirectoryFrame DEF PowerLoss
<1>3. ASSUME NEW v \in Verifier, Start(v)
      PROVE  MarkerLedger'
    BY <1>3, DirectoryFrame DEF Start, MarkerLedger
<1>4. ASSUME NEW v \in Verifier, WriteMarkers(v)
      PROVE  MarkerLedger'
    BY <1>4, GotoCall, LedgerFrame DEF WriteMarkers, At, MarkerLedger
<1>5. ASSUME NEW v \in Verifier, RemoveMarker(v)
      PROVE  MarkerLedger'
    <2>1. call[v].pc = "remove" /\ UNCHANGED <<synced, consumed, answered>>
        BY <1>5 DEF RemoveMarker, At
    <2>2. /\ \A w \in Verifier : w # v => call'[w] = call[w]
          /\ call'[v].made \subseteq call[v].made
          /\ call'[v].pc = "remove"
          /\ \A k \in markers \ markers' : k \in call[v].made \ call'[v].made
        BY <1>5, RemovedCall
    <2>3. consumed \subseteq synced'
        BY <2>1 DEF MarkerLedger
    <2> QED
        BY <2>1, <2>2, <2>3, LedgerFrame
<1>6. ASSUME NEW v \in Verifier, Reject(v) \/ Crash(v)
      PROVE  MarkerLedger'
    <2>1. Return(v) /\ UNCHANGED <<markers, synced, consumed, answered>>
        BY <1>6 DEF Reject, Crash
    <2>2. call'[v].made = {} /\ call'[v].pc # "answer"
        BY <2>1, ReturnCall DEF IdleCall
    <2> QED
        BY <2>1, <2>2, ReturnCall, LedgerFrame DEF MarkerLedger
<1> QED
    BY <1>1, <1>2, <1>3, <1>4, <1>5, <1>6,
       BeginLedger, CreateMarkerLedger, SyncDirectoryLedger, AnswerLedger
       DEF Next, VerifierStep, ConsumeNonces, ConsumeNonce

(* A consumed key keeps its marker file, over every interleaving, failed   *)
(* operation, crash and loss of power, and was consumed by one call.       *)
THEOREM MarkerLedgerHolds == Spec => []MarkerLedger
<1>1. TypeOK /\ MarkerLedger /\ DownIsIdle /\ [Next]_vars
        => (MarkerLedger /\ DownIsIdle)'
    BY NextLedger, NextDown
<1> QED
    BY <1>1, InitLedger, TypeCorrect, PTL DEF Spec

-----------------------------------------------------------------------------
(* A step after which the same calls are to be answered for, with the same *)
(* keys, changes no ledger.                                                *)
LEMMA PendingFrame ==
    ASSUME NEW v \in Verifier, call[v].pc # "answer", call'[v].pc # "answer",
           \A w \in Verifier : w # v => call'[w] = call[w]
    PROVE  PendingUses' = PendingUses
<1>1. \A w \in Verifier : /\ call'[w].pc = "answer" <=> call[w].pc = "answer"
                          /\ call[w].pc = "answer" => call'[w].keys = call[w].keys
    BY Zenon
<1> QED
    BY <1>1 DEF PendingUses, Pending

(* A call that is to be answered for and returns gives its keys up.        *)
LEMMA PendingReturn ==
    ASSUME TypeOK, MarkerLedger, NEW v \in Verifier, call[v].pc = "answer", Return(v)
    PROVE  /\ KeysOf(call[v].keys) \in PendingUses
           /\ PendingUses' = PendingUses \ {KeysOf(call[v].keys)}
           /\ KeysOf(call[v].keys) \in {KeysOf(list) : list \in KeyLists}
<1>1. call'[v].pc = "idle" /\ \A w \in Verifier : w # v => call'[w] = call[w]
    BY ReturnCall DEF IdleCall
<1>2. \A w \in Verifier : call[w].pc = "answer" => call[w].made = KeysOf(call[w].keys)
    BY DEF TypeOK, CallOK
<1>3. call[v].keys \in KeyLists /\ KeysOf(call[v].keys) # {}
    BY ListKeys DEF TypeOK, Call, CallOK
<1>4. \A w \in Verifier : w # v /\ call[w].pc = "answer" => KeysOf(call[w].keys) # KeysOf(call[v].keys)
    BY <1>2, <1>3 DEF MarkerLedger
<1>5. KeysOf(call[v].keys) \in PendingUses
    BY DEF PendingUses, Pending
<1>6. \A u : u \in PendingUses' <=> u \in PendingUses /\ u # KeysOf(call[v].keys)
    BY <1>1, <1>4 DEF PendingUses, Pending
<1> QED
    BY <1>3, <1>5, <1>6

(* The sync of the directory is Consume.                                   *)
LEMMA SyncRefines ==
    ASSUME TypeOK, MarkerLedger, NEW v \in Verifier, SyncDirectory(v)
    PROVE  [Ledger!Next]_<<consumed, PendingUses, answered>>
<1>1. call[v].pc = "sync" /\ UNCHANGED answered
    BY DEF SyncDirectory, At
<1>2. CASE (Goto(v, "remove") \/ Return(v)) /\ UNCHANGED consumed
    <2>1. call'[v].pc # "answer" /\ \A w \in Verifier : w # v => call'[w] = call[w]
        BY <1>2, GotoCall, ReturnCall DEF IdleCall
    <2> QED
        BY <1>1, <1>2, <2>1, PendingFrame
<1>3. CASE consumed' = consumed \cup call[v].made /\ Goto(v, "answer")
    <2>1. /\ call'[v].pc = "answer" /\ call'[v].keys = call[v].keys
          /\ \A w \in Verifier : w # v => call'[w] = call[w]
        BY <1>3, GotoCall
    <2>2. call[v].made = KeysOf(call[v].keys) /\ call[v].keys \in KeyLists
        BY <1>1 DEF TypeOK, Call, CallOK
    <2>3. KeysOf(call[v].keys) \cap consumed = {}
        BY <1>1, <2>2 DEF MarkerLedger, Pending
    <2>4. \A u : u \in PendingUses' <=> u \in PendingUses \/ u = KeysOf(call[v].keys)
        BY <1>1, <2>1 DEF PendingUses, Pending
    <2>5. PendingUses' = PendingUses \cup {KeysOf(call[v].keys)}
        BY <2>4
    <2>6. Ledger!Consume(KeysOf(call[v].keys))
        BY <1>1, <1>3, <2>2, <2>3, <2>5 DEF Ledger!Consume
    <2> QED
        BY <2>2, <2>6 DEF Ledger!Next
<1> QED
    BY <1>2, <1>3 DEF SyncDirectory

(* Every step of the cache is a step of the ledger, or changes it not.     *)
LEMMA NextRefines ==
    TypeOK /\ MarkerLedger /\ [Next]_vars => [Ledger!Next]_<<consumed, PendingUses, answered>>
<1> SUFFICES ASSUME TypeOK, MarkerLedger, [Next]_vars
             PROVE  [Ledger!Next]_<<consumed, PendingUses, answered>>
    OBVIOUS
<1>1. CASE UNCHANGED <<call, consumed, answered>>
    BY <1>1 DEF PendingUses, Pending
<1>2. ASSUME NEW v \in Verifier, call[v].pc # "answer", call'[v].pc # "answer",
             \A w \in Verifier : w # v => call'[w] = call[w],
             UNCHANGED <<consumed, answered>>
      PROVE  [Ledger!Next]_<<consumed, PendingUses, answered>>
    BY <1>2, PendingFrame
<1>3. ASSUME NEW v \in Verifier, NEW list, NEW single, Begin(v, list, single)
      PROVE  [Ledger!Next]_<<consumed, PendingUses, answered>>
    <2>1. /\ call[v].pc # "answer" /\ call'[v].pc # "answer"
          /\ \A w \in Verifier : w # v => call'[w] = call[w]
        BY <1>3 DEF Begin, At, TypeOK
    <2> QED
        BY <1>2, <1>3, <2>1 DEF Begin
<1>4. ASSUME NEW v \in Verifier, CreateMarker(v)
      PROVE  [Ledger!Next]_<<consumed, PendingUses, answered>>
    <2>1. call[v].pc = "create" /\ UNCHANGED <<consumed, answered>>
        BY <1>4 DEF CreateMarker, At
    <2>2. call'[v].pc # "answer" /\ \A w \in Verifier : w # v => call'[w] = call[w]
        <3>1. CASE Goto(v, "remove")
            BY <3>1, GotoCall
        <3>2. CASE \E k \in next_keys(call[v]) :
                      call' = [call EXCEPT ![v].made = call[v].made \cup {k},
                                           ![v].pc = after_create(call[v], call[v].made \cup {k})]
            BY <2>1, <3>2, MadeCall
        <3> QED
            BY <1>4, <3>1, <3>2 DEF CreateMarker, AlreadyExists
    <2> QED
        BY <1>2, <2>1, <2>2
<1>5. ASSUME NEW v \in Verifier, WriteMarkers(v)
      PROVE  [Ledger!Next]_<<consumed, PendingUses, answered>>
    <2>1. call[v].pc = "write" /\ UNCHANGED <<consumed, answered>>
        BY <1>5 DEF WriteMarkers, At
    <2>2. call'[v].pc # "answer" /\ \A w \in Verifier : w # v => call'[w] = call[w]
        BY <1>5, GotoCall DEF WriteMarkers
    <2> QED
        BY <1>2, <2>1, <2>2
<1>6. ASSUME NEW v \in Verifier, RemoveMarker(v)
      PROVE  [Ledger!Next]_<<consumed, PendingUses, answered>>
    <2>1. call[v].pc = "remove" /\ UNCHANGED <<consumed, answered>>
        BY <1>6 DEF RemoveMarker, At
    <2>2. call'[v].pc # "answer" /\ \A w \in Verifier : w # v => call'[w] = call[w]
        BY <1>6, RemovedCall
    <2> QED
        BY <1>2, <2>1, <2>2
<1>7. ASSUME NEW v \in Verifier, Reject(v) \/ Crash(v)
      PROVE  [Ledger!Next]_<<consumed, PendingUses, answered>>
    <2>1. Return(v) /\ UNCHANGED <<consumed, answered>>
        BY <1>7 DEF Reject, Crash
    <2>2. CASE call[v].pc = "answer"
        BY <2>1, <2>2, PendingReturn DEF Ledger!Next, Ledger!GiveUp
    <2>3. CASE call[v].pc # "answer"
        <3>1. call'[v].pc # "answer" /\ \A w \in Verifier : w # v => call'[w] = call[w]
            BY <2>1, ReturnCall DEF IdleCall
        <3> QED
            BY <1>2, <2>1, <2>3, <3>1
    <2> QED
        BY <2>2, <2>3
<1>8. ASSUME NEW v \in Verifier, Answer(v)
      PROVE  [Ledger!Next]_<<consumed, PendingUses, answered>>
    <2>1. call[v].pc = "answer" /\ Return(v) /\ UNCHANGED consumed
        BY <1>8 DEF Answer, At
    <2>2. answered' = Append(answered, KeysOf(call[v].keys))
        BY <1>8 DEF Answer
    <2>3. Ledger!Forward(KeysOf(call[v].keys))
        BY <2>1, <2>2, PendingReturn DEF Ledger!Forward
    <2> QED
        BY <2>1, <2>3, PendingReturn DEF Ledger!Next
<1>9. CASE UNCHANGED vars \/ PowerLoss \/ \E v \in Verifier : Start(v)
    BY <1>1, <1>9 DEF vars, PowerLoss, Start
<1> QED
    BY <1>3, <1>4, <1>5, <1>6, <1>7, <1>8, <1>9, SyncRefines
       DEF Next, VerifierStep, ConsumeNonces, ConsumeNonce

(* The marker files implement the single-use ledger.                       *)
THEOREM LedgerImplemented == Spec => ImplementsLedger
<1>1. Init => Ledger!Init
    BY DEF Init, Ledger!Init, PendingUses, Pending, IdleCall
<1> QED
    BY <1>1, TypeCorrect, MarkerLedgerHolds, NextRefines, PTL
       DEF Spec, ImplementsLedger, Ledger!Spec

-----------------------------------------------------------------------------
(* A step that keeps the files of every call and the directory leaves      *)
(* nothing behind.                                                         *)
LEMMA NothingFrame ==
    ASSUME RejectedLeavesNothing, UNCHANGED <<markers, consumed>>, ~faulty' => ~faulty,
           \A w \in Verifier : call'[w].made = call[w].made
    PROVE  RejectedLeavesNothing'
BY DEF RejectedLeavesNothing

(* Every step that is not a failure keeps the directory accounted for.     *)
LEMMA NextNothing ==
    TypeOK /\ MarkerLedger /\ RejectedLeavesNothing /\ [Next]_vars => RejectedLeavesNothing'
<1> SUFFICES ASSUME TypeOK, MarkerLedger, RejectedLeavesNothing, [Next]_vars, ~faulty'
             PROVE  RejectedLeavesNothing'
    BY DEF RejectedLeavesNothing
<1>1. ASSUME NEW v \in Verifier, call'[v].made = call[v].made,
             \A w \in Verifier : w # v => call'[w] = call[w],
             UNCHANGED <<markers, consumed, faulty>>
      PROVE  RejectedLeavesNothing'
    <2>1. \A w \in Verifier : call'[w].made = call[w].made
        BY <1>1, Zenon
    <2> QED
        BY <1>1, <2>1, NothingFrame
<1>2. CASE UNCHANGED vars \/ PowerLoss \/ \E v \in Verifier : Start(v) \/ Crash(v)
    BY <1>2 DEF vars, PowerLoss, Start, Crash, Fails, RejectedLeavesNothing
<1>3. ASSUME NEW v \in Verifier, NEW list, NEW single, Begin(v, list, single)
      PROVE  RejectedLeavesNothing'
    <2>1. call[v].made = {}
        BY <1>3, IdleMade DEF Begin, At
    <2>2. call'[v].made = {} /\ \A w \in Verifier : w # v => call'[w] = call[w]
        BY <1>3, <2>1 DEF Begin, TypeOK
    <2> QED
        BY <1>1, <1>3, <2>1, <2>2 DEF Begin
<1>4. ASSUME NEW v \in Verifier, CreateMarker(v)
      PROVE  RejectedLeavesNothing'
    <2>1. call[v].pc = "create" /\ UNCHANGED consumed
        BY <1>4 DEF CreateMarker, At
    <2>2. CASE Goto(v, "remove") /\ UNCHANGED <<markers, faulty>>
        BY <1>1, <2>1, <2>2, GotoCall
    <2>3. ASSUME NEW k \in next_keys(call[v]), markers' = markers \cup {k}, UNCHANGED faulty,
                 call' = [call EXCEPT ![v].made = call[v].made \cup {k},
                                      ![v].pc = after_create(call[v], call[v].made \cup {k})]
          PROVE  RejectedLeavesNothing'
        <3>1. /\ call'[v].made = call[v].made \cup {k}
              /\ \A w \in Verifier : w # v => call'[w] = call[w]
            BY <2>1, <2>3, MadeCall
        <3>2. markers = consumed \cup UNION {call[w].made : w \in Verifier}
            BY <2>3 DEF RejectedLeavesNothing
        <3>3. \A m : m \in UNION {call'[w].made : w \in Verifier}
                        <=> m = k \/ m \in UNION {call[w].made : w \in Verifier}
            BY <3>1
        <3> QED
            BY <2>1, <2>3, <3>2, <3>3 DEF RejectedLeavesNothing
    <2> QED
        BY <1>4, <2>2, <2>3 DEF CreateMarker, AlreadyExists, Fails
<1>5. ASSUME NEW v \in Verifier, WriteMarkers(v)
      PROVE  RejectedLeavesNothing'
    BY <1>1, <1>5, GotoCall DEF WriteMarkers, Fails
<1>6. ASSUME NEW v \in Verifier, SyncDirectory(v)
      PROVE  RejectedLeavesNothing'
    <2>1. UNCHANGED <<markers, faulty>> /\ consumed' = consumed \cup call[v].made /\ Goto(v, "answer")
        BY <1>6 DEF SyncDirectory, Fails
    <2>2. call'[v].made = call[v].made /\ \A w \in Verifier : w # v => call'[w] = call[w]
        BY <2>1, GotoCall
    <2>3. \A w \in Verifier : call'[w].made = call[w].made
        BY <2>2, Zenon
    <2>4. consumed' \cup UNION {call[w].made : w \in Verifier}
            = consumed \cup UNION {call[w].made : w \in Verifier}
        BY <2>1
    <2> QED
        BY <2>1, <2>3, <2>4 DEF RejectedLeavesNothing
<1>7. ASSUME NEW v \in Verifier, RemoveMarker(v)
      PROVE  RejectedLeavesNothing'
    <2>1. PICK k \in call[v].made :
              /\ call'[v].made = call[v].made \ {k}
              /\ \A w \in Verifier : w # v => call'[w] = call[w]
              /\ markers' = markers \ {k} /\ UNCHANGED faulty
        BY <1>7, RemovedCall
    <2>2. k \notin consumed /\ \A w \in Verifier : w # v => k \notin call[w].made
        BY <1>7 DEF RemoveMarker, At, MarkerLedger, Pending
    <2>3. \A m : m \in UNION {call'[w].made : w \in Verifier}
                    <=> m # k /\ m \in UNION {call[w].made : w \in Verifier}
        BY <2>1, <2>2
    <2> QED
        BY <1>7, <2>1, <2>2, <2>3 DEF RemoveMarker, RejectedLeavesNothing
<1>8. ASSUME NEW v \in Verifier, Reject(v)
      PROVE  RejectedLeavesNothing'
    <2>1. call'[v].made = call[v].made /\ \A w \in Verifier : w # v => call'[w] = call[w]
        BY <1>8, ReturnCall DEF Reject, IdleCall
    <2> QED
        BY <1>1, <1>8, <2>1 DEF Reject
<1>9. ASSUME NEW v \in Verifier, Answer(v)
      PROVE  RejectedLeavesNothing'
    <2>1. call[v].made \subseteq consumed
        BY <1>9 DEF Answer, At, MarkerLedger, Pending
    <2>2. call'[v].made = {} /\ \A w \in Verifier : w # v => call'[w] = call[w]
        BY <1>9, ReturnCall DEF Answer, IdleCall
    <2>3. \A m : m \in consumed \cup UNION {call'[w].made : w \in Verifier}
                    <=> m \in consumed \cup UNION {call[w].made : w \in Verifier}
        BY <2>1, <2>2
    <2> QED
        BY <1>9, <2>3 DEF Answer, RejectedLeavesNothing
<1> QED
    BY <1>2, <1>3, <1>4, <1>5, <1>6, <1>7, <1>8, <1>9
       DEF Next, VerifierStep, ConsumeNonces, ConsumeNonce

(* As long as nothing fails, every file in the directory is of a consumed  *)
(* set or of a call that is still running: a rejected call leaves nothing. *)
THEOREM RejectedLeavesNothingHolds == Spec => []RejectedLeavesNothing
<1>1. Init => RejectedLeavesNothing
    BY DEF Init, RejectedLeavesNothing, IdleCall
<1> QED
    BY <1>1, TypeCorrect, MarkerLedgerHolds, NextNothing, PTL DEF Spec
-----------------------------------------------------------------------------
(* Somebody wins.                                                          *)

\* The place of a key in the order in which every call of consume_nonces() makes its files.
Level(k) ==
    IF \E c \in Commands : k = <<"command-id", c.agent, c.command_id>> THEN 1
    ELSE IF \E c \in Commands : k = <<"command-nonce", c.agent, c.command_nonce>> THEN 2
    ELSE 3

(* A list of keys goes up through the levels.                              *)
LEMMA ListLevels ==
    ASSUME NEW list \in KeyLists, NEW i \in DOMAIN list, NEW j \in DOMAIN list, i < j
    PROVE  Level(list[i]) < Level(list[j])
<1>1. CASE list \in {<<k>> : k \in Singles}
    BY <1>1
<1>2. CASE list \in {replay_keys(c, n) : c \in Commands, n \in Nonces}
    <2>1. PICK c \in Commands, n \in Nonces : list = replay_keys(c, n)
        BY <1>2
    <2>2. /\ DOMAIN list = 1..3
          /\ list[1] = <<"command-id", c.agent, c.command_id>>
          /\ list[2] = <<"command-nonce", c.agent, c.command_nonce>>
          /\ list[3] = n
        BY <2>1 DEF replay_keys
    <2>3. Level(list[1]) = 1
        BY <2>2, Zenon DEF Level
    <2>4. Level(list[2]) = 2
        <3>1. \A d \in Commands : list[2] # <<"command-id", d.agent, d.command_id>>
            BY <2>2
        <3> QED
            BY <2>2, <3>1, Zenon DEF Level
    <2>5. Level(list[3]) = 3
        BY <2>2, NoncesAssumption DEF Level
    <2> QED
        BY <2>2, <2>3, <2>4, <2>5
<1> QED
    BY <1>1, <1>2 DEF KeyLists

(* first_in finds the key of the lowest level.                             *)
LEMMA FirstIsLowest ==
    ASSUME NEW list \in KeyLists, NEW keys, KeysOf(list) \cap keys # {},
           NEW m \in KeysOf(list) \cap keys, m # first_in(list, keys)
    PROVE  Level(first_in(list, keys)) < Level(m)
<1> DEFINE First(i) == list[i] \in keys /\ \A j \in 1..(i - 1) : list[j] \notin keys
<1>1. PICK n \in DOMAIN list : list[n] = m
    BY DEF KeysOf
<1>2. DOMAIN list = {1} \/ DOMAIN list = 1..3
    BY DEF KeyLists, replay_keys
<1>3. \E k \in DOMAIN list : First(k)
    BY <1>1, <1>2
<1>4. PICK k \in DOMAIN list : k = (CHOOSE i \in DOMAIN list : First(i)) /\ First(k)
    BY <1>3
<1>5. first_in(list, keys) = list[k]
    BY <1>4 DEF first_in
<1>6. k < n
    <2>1. n # k /\ k \in 1..3 /\ n \in 1..3
        BY <1>1, <1>2, <1>4, <1>5
    <2>2. ~(n \in 1..(k - 1))
        BY <1>1, <1>4
    <2> QED
        BY <2>1, <2>2
<1> QED
    BY <1>1, <1>4, <1>5, <1>6, ListLevels

\* A call that may still consume its keys.
Running(v) == call[v].pc \in {"create", "write", "sync"}

(* The call that is furthest ahead.  Files are made in the order of their  *)
(* levels; and once a call has been rejected, with nothing consumed and    *)
(* nothing failed, some running call has made a file of a higher level     *)
(* than any that is being rolled back.                                     *)
MadeInOrder ==
    \A v \in Verifier : call[v].pc = "create" =>
        \A k \in call[v].made, m \in KeysOf(call[v].keys) \ call[v].made : Level(k) < Level(m)

Leader ==
    ~faulty /\ consumed = {} =>
        IF rejected = {}
        THEN \A v \in Verifier : call[v].pc # "remove"
        ELSE \E u \in Verifier : /\ Running(u)
                                 /\ \E m \in call[u].made :
                                       \A w \in Verifier : call[w].pc = "remove" =>
                                          \A k \in call[w].made : Level(k) < Level(m)

(* A level is a number.                                                    *)
LEMMA LevelType == \A k : Level(k) \in 1..3
BY DEF Level

(* A step in which no call moves but one that is not running, or that goes *)
(* on with what it has made.                                               *)
LEMMA LeaderFrame ==
    ASSUME TypeOK, Leader, NEW v \in Verifier,
           ~faulty' => ~faulty, consumed' = {} => consumed = {}, UNCHANGED rejected,
           \A w \in Verifier : w # v => call'[w] = call[w],
           Running(v) => Running(v)' /\ call[v].made \subseteq call'[v].made,
           call'[v].pc = "remove" => call[v].pc = "remove" /\ call'[v].made \subseteq call[v].made
    PROVE  Leader'
<1> SUFFICES ASSUME ~faulty', consumed' = {}
             PROVE  IF rejected = {}
                    THEN \A w \in Verifier : call'[w].pc # "remove"
                    ELSE \E u \in Verifier : /\ Running(u)'
                                             /\ \E m \in call'[u].made :
                                                   \A w \in Verifier : call'[w].pc = "remove" =>
                                                      \A k \in call'[w].made : Level(k) < Level(m)
    BY DEF Leader
<1>1. CASE rejected = {}
    BY <1>1 DEF Leader
<1>2. CASE rejected # {}
    <2>1. PICK u \in Verifier : /\ Running(u)
                                /\ \E m \in call[u].made :
                                      \A w \in Verifier : call[w].pc = "remove" =>
                                         \A k \in call[w].made : Level(k) < Level(m)
        BY <1>2 DEF Leader
    <2>2. PICK m \in call[u].made :
              \A w \in Verifier : call[w].pc = "remove" => \A k \in call[w].made : Level(k) < Level(m)
        BY <2>1
    <2>3. Running(u)' /\ m \in call'[u].made
        BY <2>1, <2>2 DEF Running
    <2>4. \A w \in Verifier : call'[w].pc = "remove" => \A k \in call'[w].made : Level(k) < Level(m)
        BY <2>2
    <2> QED
        BY <1>2, <2>3, <2>4
<1> QED
    BY <1>1, <1>2

(* A call that finds a file of another one is behind it, so the leader is  *)
(* still running, or the other call is the new one.                        *)
LEMMA RejectedIsBehind ==
    ASSUME TypeOK, MarkerLedger, RejectedLeavesNothing, MadeInOrder, Leader,
           NEW v \in Verifier, call[v].pc = "create", NEW k \in next_keys(call[v]),
           k \in markers, rejected' = rejected \cup {<<call[v].keys, k>>}, Goto(v, "remove"),
           UNCHANGED <<markers, faulty, consumed>>
    PROVE  Leader'
<1> SUFFICES ASSUME ~faulty, consumed = {}
             PROVE  \E u \in Verifier : /\ Running(u)'
                                        /\ \E m \in call'[u].made :
                                              \A w \in Verifier : call'[w].pc = "remove" =>
                                                 \A j \in call'[w].made : Level(j) < Level(m)
    BY DEF Leader
<1>1. /\ call'[v].pc = "remove" /\ call'[v].made = call[v].made
      /\ \A w \in Verifier : w # v => call'[w] = call[w]
    BY GotoCall
<1>2. k \in KeysOf(call[v].keys) \ call[v].made
    BY NextKey
<1>3. \A j \in call[v].made : Level(j) < Level(k)
    BY <1>2 DEF MadeInOrder
<1>4. PICK w \in Verifier : k \in call[w].made
    BY DEF RejectedLeavesNothing
<1>5. w # v /\ call[w].pc \notin {"idle", "answer"}
    BY <1>2, <1>4, IdleMade DEF MarkerLedger, Pending
<1>6. \A j \in call[v].made : \A m : Level(k) <= Level(m) => Level(j) < Level(m)
    BY <1>3, LevelType
<1>7. ASSUME NEW u \in Verifier, Running(u), NEW m \in call[u].made, u # v, Level(k) <= Level(m),
             \A x \in Verifier : call[x].pc = "remove" => \A j \in call[x].made : Level(j) < Level(m)
      PROVE  \E y \in Verifier : /\ Running(y)'
                                 /\ \E n \in call'[y].made :
                                       \A x \in Verifier : call'[x].pc = "remove" =>
                                          \A j \in call'[x].made : Level(j) < Level(n)
    <2>1. Running(u)' /\ m \in call'[u].made
        BY <1>1, <1>7 DEF Running
    <2>2. \A x \in Verifier : call'[x].pc = "remove" => \A j \in call'[x].made : Level(j) < Level(m)
        BY <1>1, <1>6, <1>7
    <2> QED
        BY <2>1, <2>2
<1>8. CASE rejected = {}
    <2>1. \A x \in Verifier : call[x].pc # "remove"
        BY <1>8 DEF Leader
    <2>2. Running(w)
        BY <1>5, <2>1 DEF Running, TypeOK, Call
    <2> QED
        BY <1>4, <1>5, <1>7, <2>1, <2>2, LevelType
<1>9. CASE rejected # {}
    <2>1. PICK u \in Verifier : /\ Running(u)
                                /\ \E m \in call[u].made :
                                      \A x \in Verifier : call[x].pc = "remove" =>
                                         \A j \in call[x].made : Level(j) < Level(m)
        BY <1>9 DEF Leader
    <2>2. PICK m \in call[u].made :
              \A x \in Verifier : call[x].pc = "remove" => \A j \in call[x].made : Level(j) < Level(m)
        BY <2>1
    <2>3. CASE Level(k) < Level(m)
        <3>1. u # v
            BY <1>3, <2>2, <2>3, LevelType
        <3> QED
            BY <1>7, <2>1, <2>2, <2>3, <3>1, LevelType
    <2>4. CASE ~(Level(k) < Level(m))
        <3>1. Running(w)
            BY <1>4, <1>5, <2>2, <2>4 DEF Running, TypeOK, Call
        <3>2. \A x \in Verifier : call[x].pc = "remove" => \A j \in call[x].made : Level(j) < Level(k)
            BY <2>2, <2>4, LevelType
        <3> QED
            BY <1>4, <1>5, <1>7, <3>1, <3>2, LevelType
    <2> QED
        BY <2>3, <2>4
<1> QED
    BY <1>8, <1>9

(* A call that makes its next file makes the lowest one that is left.      *)
LEMMA CreateInOrder ==
    ASSUME TypeOK, MadeInOrder, NEW v \in Verifier, CreateMarker(v)
    PROVE  MadeInOrder'
<1>1. call[v].pc = "create" /\ call[v].keys \in KeyLists
    BY DEF CreateMarker, At, TypeOK, Call, CallOK
<1>2. CASE Goto(v, "remove")
    BY <1>2, GotoCall DEF MadeInOrder
<1>3. ASSUME NEW k \in next_keys(call[v]),
             call' = [call EXCEPT ![v].made = call[v].made \cup {k},
                                  ![v].pc = after_create(call[v], call[v].made \cup {k})]
      PROVE  MadeInOrder'
    <2>1. /\ call'[v].made = call[v].made \cup {k}
          /\ \A w \in Verifier : w # v => call'[w] = call[w]
        BY <1>1, <1>3, MadeCall
    <2>2. call'[v].keys = call[v].keys
        BY <1>3 DEF TypeOK, Call
    <2>3. k \in KeysOf(call[v].keys) \ call[v].made
        BY <1>1, NextKey
    <2>4. \A m \in KeysOf(call[v].keys) \ call[v].made : m # k => Level(k) < Level(m)
        BY <1>1, FirstIsLowest DEF next_keys
    <2>5. \A j \in call'[v].made, m \in KeysOf(call'[v].keys) \ call'[v].made : Level(j) < Level(m)
        BY <1>1, <2>1, <2>2, <2>3, <2>4 DEF MadeInOrder
    <2> QED
        BY <2>1, <2>5 DEF MadeInOrder
<1> QED
    BY <1>2, <1>3 DEF CreateMarker, AlreadyExists

(* Every step keeps the order of the files.                                *)
LEMMA NextInOrder == TypeOK /\ MadeInOrder /\ [Next]_vars => MadeInOrder'
<1> SUFFICES ASSUME TypeOK, MadeInOrder, [Next]_vars PROVE MadeInOrder'
    OBVIOUS
<1>1. ASSUME UNCHANGED call PROVE MadeInOrder'
    BY <1>1 DEF MadeInOrder
<1>2. ASSUME NEW v \in Verifier, call'[v].pc # "create" \/ call'[v].made = {},
             \A w \in Verifier : w # v => call'[w] = call[w]
      PROVE  MadeInOrder'
    BY <1>2 DEF MadeInOrder
<1>3. CASE UNCHANGED vars \/ PowerLoss \/ \E v \in Verifier : Start(v)
    BY <1>1, <1>3 DEF vars, PowerLoss, Start
<1>4. ASSUME NEW v \in Verifier, Return(v) PROVE MadeInOrder'
    BY <1>2, <1>4, ReturnCall DEF IdleCall
<1>5. ASSUME NEW v \in Verifier, NEW pc \in {"sync", "remove", "answer"}, Goto(v, pc) PROVE MadeInOrder'
    BY <1>2, <1>5, GotoCall
<1>6. ASSUME NEW v \in Verifier, NEW list, NEW single, Begin(v, list, single) PROVE MadeInOrder'
    <2>1. CASE UNCHANGED call
        BY <1>1, <2>1
    <2>2. CASE call' = [call EXCEPT ![v] = [pc |-> "create", keys |-> list, made |-> {}, single |-> single]]
        BY <1>2, <2>2 DEF TypeOK
    <2> QED
        BY <1>6, <2>1, <2>2 DEF Begin
<1>7. ASSUME NEW v \in Verifier, RemoveMarker(v) PROVE MadeInOrder'
    <2>1. call'[v].pc = "remove" /\ \A w \in Verifier : w # v => call'[w] = call[w]
        BY <1>7 DEF RemoveMarker, At, TypeOK, Call
    <2> QED
        BY <1>2, <2>1
<1>8. ASSUME NEW v \in Verifier, WriteMarkers(v) \/ SyncDirectory(v) \/ Reject(v) \/ Answer(v) \/ Crash(v)
      PROVE  MadeInOrder'
    BY <1>4, <1>5, <1>8 DEF WriteMarkers, SyncDirectory, Reject, Answer, Crash
<1> QED
    BY <1>3, <1>6, <1>7, <1>8, CreateInOrder DEF Next, VerifierStep, ConsumeNonces, ConsumeNonce

(* Every step that is not a failure keeps a leader.                        *)
LEMMA NextLeader ==
    TypeOK /\ MarkerLedger /\ RejectedLeavesNothing /\ MadeInOrder /\ Leader /\ [Next]_vars => Leader'
<1> SUFFICES ASSUME TypeOK, MarkerLedger, RejectedLeavesNothing, MadeInOrder, Leader, [Next]_vars,
                    ~faulty', consumed' = {}
             PROVE  Leader'
    BY DEF Leader
<1>1. ASSUME UNCHANGED <<call, rejected, consumed, faulty>> PROVE Leader'
    BY <1>1 DEF Leader, Running
<1>2. CASE UNCHANGED vars \/ PowerLoss \/ \E v \in Verifier : Start(v) \/ Crash(v)
    BY <1>1, <1>2 DEF vars, PowerLoss, Start, Crash, Fails
<1>3. ASSUME NEW v \in Verifier, NEW list, NEW single, Begin(v, list, single) PROVE Leader'
    <2>1. CASE UNCHANGED call
        BY <1>1, <1>3, <2>1 DEF Begin
    <2>2. CASE call' = [call EXCEPT ![v] = [pc |-> "create", keys |-> list, made |-> {}, single |-> single]]
        <3>1. call'[v].pc = "create" /\ \A w \in Verifier : w # v => call'[w] = call[w]
            BY <2>2 DEF TypeOK
        <3>2. ~Running(v) /\ UNCHANGED <<faulty, consumed, rejected>>
            BY <1>3 DEF Begin, At, Running
        <3> QED
            BY <3>1, <3>2, LeaderFrame
    <2> QED
        BY <1>3, <2>1, <2>2 DEF Begin
<1>4. ASSUME NEW v \in Verifier, CreateMarker(v) PROVE Leader'
    <2>1. call[v].pc = "create" /\ UNCHANGED consumed
        BY <1>4 DEF CreateMarker, At
    <2>2. ASSUME NEW k \in next_keys(call[v]), k \in markers, Goto(v, "remove"),
                 rejected' = rejected \cup {<<call[v].keys, k>>}, UNCHANGED <<markers, faulty>>
          PROVE  Leader'
        BY <2>1, <2>2, RejectedIsBehind
    <2>3. ASSUME NEW k \in next_keys(call[v]), UNCHANGED <<rejected, faulty>>,
                 call' = [call EXCEPT ![v].made = call[v].made \cup {k},
                                      ![v].pc = after_create(call[v], call[v].made \cup {k})]
          PROVE  Leader'
        <3>1. /\ call'[v].pc \in {"create", "write"}
              /\ call'[v].made = call[v].made \cup {k}
              /\ \A w \in Verifier : w # v => call'[w] = call[w]
            BY <2>1, <2>3, MadeCall
        <3> QED
            BY <2>1, <2>3, <3>1, LeaderFrame DEF Running
    <2> QED
        BY <1>4, <2>2, <2>3 DEF CreateMarker, AlreadyExists, file_exists, Fails
<1>5. ASSUME NEW v \in Verifier, WriteMarkers(v) PROVE Leader'
    <2>1. Goto(v, "sync") /\ UNCHANGED <<rejected, faulty, consumed>>
        BY <1>5 DEF WriteMarkers, Fails
    <2>2. /\ call'[v].pc = "sync" /\ call'[v].made = call[v].made
          /\ \A w \in Verifier : w # v => call'[w] = call[w]
        BY <2>1, GotoCall
    <2> QED
        BY <2>1, <2>2, LeaderFrame DEF Running
<1>6. ASSUME NEW v \in Verifier, SyncDirectory(v) PROVE FALSE
    <2>1. consumed' = consumed \cup call[v].made
        BY <1>6 DEF SyncDirectory, Fails
    <2>2. call[v].made = KeysOf(call[v].keys) /\ call[v].keys \in KeyLists
        BY <1>6 DEF SyncDirectory, At, TypeOK, Call, CallOK
    <2> QED
        BY <2>1, <2>2, ListKeys
<1>7. ASSUME NEW v \in Verifier, RemoveMarker(v) PROVE Leader'
    <2>1. /\ call[v].pc = "remove" /\ call'[v].pc = "remove"
          /\ call'[v].made \subseteq call[v].made
          /\ \A w \in Verifier : w # v => call'[w] = call[w]
        BY <1>7 DEF RemoveMarker, At, TypeOK, Call
    <2>2. UNCHANGED <<rejected, consumed>> /\ (~faulty' => ~faulty)
        BY <1>7 DEF RemoveMarker, Fails
    <2> QED
        BY <2>1, <2>2, LeaderFrame DEF Running
<1>8. ASSUME NEW v \in Verifier, Reject(v) PROVE Leader'
    <2>1. call'[v].pc = "idle" /\ \A w \in Verifier : w # v => call'[w] = call[w]
        BY <1>8, ReturnCall DEF Reject, IdleCall
    <2> QED
        BY <1>8, <2>1, LeaderFrame DEF Reject, At, Running
<1>9. ASSUME NEW v \in Verifier, Answer(v) PROVE FALSE
    <2>1. call[v].made = KeysOf(call[v].keys) /\ call[v].keys \in KeyLists /\ UNCHANGED consumed
        BY <1>9 DEF Answer, At, TypeOK, Call, CallOK
    <2>2. call[v].made \subseteq consumed
        BY <1>9 DEF Answer, At, MarkerLedger, Pending
    <2> QED
        BY <2>1, <2>2, ListKeys
<1> QED
    BY <1>2, <1>3, <1>4, <1>5, <1>6, <1>7, <1>8, <1>9
       DEF Next, VerifierStep, ConsumeNonces, ConsumeNonce

(* Calls that share keys may reject each other, but as long as nothing     *)
(* fails one of them consumes its keys: the one that is furthest ahead in  *)
(* the order of levels is never the one that is rejected.                  *)
THEOREM SomebodyWinsHolds == Spec => []SomebodyWins
<1>1. Init => MadeInOrder /\ Leader
    BY DEF Init, MadeInOrder, Leader, IdleCall
<1>2. TypeOK /\ MarkerLedger /\ RejectedLeavesNothing /\ MadeInOrder /\ Leader /\ [Next]_vars
          => (MadeInOrder /\ Leader)'
    BY NextInOrder, NextLeader
<1>3. Leader => SomebodyWins
    BY DEF Leader, SomebodyWins, Quiet, Running
<1> QED
    BY <1>1, <1>2, <1>3, TypeCorrect, MarkerLedgerHolds, RejectedLeavesNothingHolds, PTL DEF Spec
=============================================================================
