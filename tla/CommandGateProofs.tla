------------------------- MODULE CommandGateProofs -------------------------
(***************************************************************************)
(* Theorems about CommandGate, for any number of gates, any sets of        *)
(* messages, any configuration of the rules and any bounds.                *)
(***************************************************************************)
EXTENDS CommandGate, LeaseRulesProofs

(* Valid is a verdict.                                                     *)
LEMMA ValidType == Valid \in Verdicts
BY DEF Verdicts

(* An idle call is well typed.                                             *)
LEMMA IdleCallType == IdleCall \in Call
BY ValidType DEF IdleCall, Call

(* The keys a command consumes are replay keys.                            *)
LEMMA KeysType ==
    ASSUME NEW c \in Commands, NEW l \in Leases, NEW reason
    PROVE  remember_keys(c, l, reason) \subseteq ReplayKeys
<1>1. command_keys(c) \subseteq ReplayKeys
    BY DEF ReplayKeys
<1>2. lease_nonce_key(l) \in ReplayKeys
    <2>1. lease_nonce_key(l) \in {lease_nonce_key(k) : k \in Leases}
        BY Zenon
    <2> QED
        BY <2>1 DEF ReplayKeys
<1> QED
    BY <1>1, <1>2 DEF remember_keys, authorized_use_keys

(* The row that Init finds for a lease id in a store of an older version.  *)
LEMMA LegacyRowType ==
    ASSUME NEW rows \in SUBSET LegacyRows, NEW i \in LeaseIds
    PROVE  (IF \E row \in rows : row.lease_id = i
            THEN CHOOSE row \in rows : row.lease_id = i ELSE None) \in Rows \cup {None}
<1>1. CASE \E row \in rows : row.lease_id = i
    <2>1. (CHOOSE row \in rows : row.lease_id = i) \in rows
        BY <1>1
    <2>2. rows \subseteq Rows
        BY DEF Rows
    <2> QED
        BY <1>1, <2>1, <2>2
<1>2. CASE ~ \E row \in rows : row.lease_id = i
    BY <1>2
<1> QED
    BY <1>1, <1>2

(* The initial states have the right types.                                *)
LEMMA InitType == Init => TypeOK
<1> SUFFICES ASSUME Init PROVE TypeOK
    OBVIOUS
<1>1. revoked_leases \in [LeaseIds -> Rows \cup {None}]
    <2>1. PICK rows \in {{}, LegacyRows} : revoked_leases = [i \in LeaseIds |->
               IF \E row \in rows : row.lease_id = i
               THEN CHOOSE row \in rows : row.lease_id = i ELSE None]
        BY DEF Init
    <2>2. rows \in SUBSET LegacyRows
        OBVIOUS
    <2> QED
        BY <2>1, <2>2, LegacyRowType
<1>2. clock \in 0..MaxClock /\ calls \in 0..MaxCalls
    BY GateAssumption DEF Init
<1>3. call \in [Gate -> Call] /\ CallContext
    BY IdleCallType DEF Init, CallContext, IdleCall
<1>4. forwarded \in Seq([gate : Gate, command : Commands, lease : Leases])
    BY DEF Init
<1>5. /\ up \in [Gate -> BOOLEAN]
      /\ revocations \in [Gate -> [LeaseIds -> Rows \cup {None}]]
      /\ enforced \in [Gate -> SUBSET LeaseIds]
    BY DEF Init
<1> QED
    BY <1>1, <1>2, <1>3, <1>4, <1>5 DEF Init, TypeOK

(* Leaving a call keeps the calls well typed.                              *)
LEMMA ReturnType ==
    ASSUME TypeOK, NEW g \in Gate, Return(g)
    PROVE  call' \in [Gate -> Call] /\ CallContext'
<1>1. call' \in [Gate -> Call]
    BY IdleCallType DEF TypeOK, Return
<1>2. \A h \in Gate : call'[h] = IF h = g THEN IdleCall ELSE call[h]
    BY DEF TypeOK, Return
<1> QED
    BY <1>1, <1>2 DEF TypeOK, CallContext, IdleCall

(* Moving a call to a point where its messages are known.                  *)
LEMMA GotoType ==
    ASSUME TypeOK, NEW g \in Gate,
           NEW pc \in {"validate", "answer", "apply"}, Goto(g, pc),
           pc \in {"validate", "answer"} => call[g].command \in Commands /\ call[g].lease \in Leases,
           pc = "apply" => call[g].revocation \in Revocations /\ call[g].lease \in Leases
    PROVE  call' \in [Gate -> Call] /\ CallContext'
<1>1. call' \in [Gate -> Call]
    <2>1. call[g] \in Call
        BY DEF TypeOK
    <2>2. [call[g] EXCEPT !.pc = pc] \in Call
        BY <2>1 DEF Call
    <2> QED
        BY <2>2 DEF TypeOK, Goto
<1>2. \A h \in Gate : call'[h] = IF h = g THEN [call[g] EXCEPT !.pc = pc] ELSE call[h]
    BY DEF TypeOK, Goto
<1>3. \A h \in Gate : h # g => call'[h] = call[h]
    BY <1>2
<1>4. /\ call'[g].pc = pc
      /\ call'[g].command = call[g].command
      /\ call'[g].lease = call[g].lease
      /\ call'[g].revocation = call[g].revocation
    BY <1>2 DEF TypeOK, Call
<1> QED
    BY <1>1, <1>3, <1>4 DEF TypeOK, CallContext

(* Appending to the logs of one gate keeps a log for every gate.           *)
LEMMA LogType ==
    ASSUME TypeOK, NEW g \in Gate, NEW event, NEW ds,
           AuditOnly(g, event) \/ AuditAndEmit(g, event, ds)
    PROVE  DOMAIN audit_log' = Gate /\ DOMAIN fallback_events' = Gate
BY DEF TypeOK, AuditOnly, AuditAndEmit

(* Every step keeps the types.                                             *)
LEMMA NextType == TypeOK /\ [Next]_vars => TypeOK'
<1> SUFFICES ASSUME TypeOK, [Next]_vars PROVE TypeOK'
    OBVIOUS
<1>1. CASE UNCHANGED vars
    BY <1>1 DEF TypeOK, CallContext, vars, durable, process, history
<1>2. CASE Tick
    <2>1. clock' \in 0..MaxClock
        BY <1>2, GateAssumption DEF Tick, TypeOK
    <2> QED
        BY <1>2, <2>1 DEF Tick, TypeOK, CallContext, durable, process, history
<1>3. ASSUME NEW g \in Gate, NEW c \in Commands, NEW l \in Leases \cup {None},
             NEW s \in States \cup {None}, Evaluate(g, c, l, s)
      PROVE  TypeOK'
    <2>1. calls' \in 0..MaxCalls
        BY <1>3, GateAssumption DEF Evaluate, TypeOK
    <2>2. call' \in [Gate -> Call] /\ CallContext'
        <3>1. CASE UNCHANGED call
            BY <3>1 DEF TypeOK, CallContext
        <3> DEFINE new == EvaluateCall(c, l, s)
        <3>2. CASE call' = [call EXCEPT ![g] = new]
            <4>1. new \in Call /\ new.pc = "contains" /\ new.command = c
                BY ValidType DEF Call, EvaluateCall
            <4> HIDE DEF new
            <4>2. \A h \in Gate : call'[h] = IF h = g THEN new ELSE call[h]
                BY <3>2 DEF TypeOK
            <4> QED
                BY <3>2, <4>1, <4>2 DEF TypeOK, CallContext
        <3> QED
            BY <1>3, <3>1, <3>2 DEF Evaluate
    <2>3. DOMAIN audit_log' = Gate /\ DOMAIN fallback_events' = Gate
        BY <1>3, LogType DEF Evaluate, RejectQuietly, TypeOK
    <2> QED
        BY <1>3, <2>1, <2>2, <2>3 DEF Evaluate, TypeOK, durable
<1>4. ASSUME NEW g \in Gate, CheckReplay(g) PROVE TypeOK'
    <2>1. call' \in [Gate -> Call] /\ CallContext'
        <3>1. CASE Return(g)
            BY <3>1, ReturnType
        <3>2. CASE Goto(g, "validate") /\ call[g].lease # None
            <4>1. call[g] \in Call /\ call[g].command \in Commands
                BY <1>4 DEF CheckReplay, At, TypeOK, CallContext
            <4>2. call[g].lease \in Leases
                BY <3>2, <4>1 DEF Call
            <4> QED
                BY <3>2, <4>1, <4>2, GotoType
        <3> QED
            BY <1>4, <3>1, <3>2 DEF CheckReplay
    <2>2. DOMAIN audit_log' = Gate /\ DOMAIN fallback_events' = Gate
        BY <1>4, LogType DEF CheckReplay, RejectQuietly, TypeOK
    <2> QED
        BY <1>4, <2>1, <2>2 DEF CheckReplay, TypeOK, durable
<1>5. ASSUME NEW g \in Gate, Validate(g) PROVE TypeOK'
    <2> DEFINE verdict == validate_lease_for_command(call[g].lease, call[g].command, call[g].state,
                                                     revoked_lease_ids(g), clock)
               new == [call[g] EXCEPT !.pc = "remember", !.reason = verdict]
    <2>1. /\ call[g] \in Call
          /\ call[g].command \in Commands
          /\ call[g].lease \in Leases
        BY <1>5 DEF Validate, At, TypeOK, CallContext
    <2>2. verdict \in Verdicts
        <3>1. call[g].state \in States \cup {None}
            BY <2>1 DEF Call
        <3>2. revoked_lease_ids(g) \in SUBSET LeaseIds
            BY DEF revoked_lease_ids
        <3>3. clock \in 0..MaxClock
            BY DEF TypeOK
        <3> QED
            BY <2>1, <3>1, <3>2, <3>3 DEF Verdicts
    <2> HIDE DEF verdict
    <2>3. /\ new \in Call
          /\ new.pc = "remember"
          /\ new.command = call[g].command
          /\ new.lease = call[g].lease
        BY <2>1, <2>2 DEF Call
    <2>4. call' = [call EXCEPT ![g] = new]
        BY <1>5, <2>1 DEF Validate, verdict, TypeOK
    <2> HIDE DEF new
    <2>5. \A h \in Gate : call'[h] = IF h = g THEN new ELSE call[h]
        BY <2>4 DEF TypeOK
    <2>6. call' \in [Gate -> Call] /\ CallContext'
        BY <2>1, <2>3, <2>4, <2>5 DEF TypeOK, CallContext
    <2> QED
        BY <1>5, <2>6 DEF Validate, TypeOK, durable, history
<1>6. ASSUME NEW g \in Gate, Remember(g) PROVE TypeOK'
    <2>1. /\ call[g].command \in Commands
          /\ call[g].lease \in Leases
        BY <1>6 DEF Remember, At, TypeOK, CallContext
    <2>2. replay_entries' \subseteq ReplayKeys
        <3>1. remember_keys(call[g].command, call[g].lease, call[g].reason) \subseteq ReplayKeys
            BY <2>1, KeysType
        <3> QED
            BY <1>6, <3>1 DEF Remember, TypeOK
    <2>3. call' \in [Gate -> Call] /\ CallContext'
        BY <1>6, <2>1, ReturnType, GotoType DEF Remember
    <2>4. DOMAIN audit_log' = Gate /\ DOMAIN fallback_events' = Gate
        BY <1>6, LogType DEF Remember, RejectQuietly, TypeOK
    <2> QED
        BY <1>6, <2>2, <2>3, <2>4 DEF Remember, TypeOK
<1>7. ASSUME NEW g \in Gate, AllowCommand(g) PROVE TypeOK'
    <2>1. /\ call[g].command \in Commands
          /\ call[g].lease \in Leases
        BY <1>7 DEF AllowCommand, At, TypeOK, CallContext
    <2>2. call' \in [Gate -> Call] /\ CallContext'
        BY <1>7, ReturnType DEF AllowCommand
    <2>3. DOMAIN audit_log' = Gate /\ DOMAIN fallback_events' = Gate
        BY <1>7, LogType DEF AllowCommand
    <2>4. forwarded' \in Seq([gate : Gate, command : Commands, lease : Leases])
        BY <1>7, <2>1 DEF AllowCommand, TypeOK
    <2> QED
        BY <1>7, <2>2, <2>3, <2>4 DEF AllowCommand, TypeOK, durable
<1>8. ASSUME NEW g \in Gate, DenyCommand(g) PROVE TypeOK'
    <2>1. call[g].command \in Commands
        BY <1>8 DEF DenyCommand, At, TypeOK, CallContext
    <2>2. call' \in [Gate -> Call] /\ CallContext'
        BY <1>8, ReturnType DEF DenyCommand
    <2>3. DOMAIN audit_log' = Gate /\ DOMAIN fallback_events' = Gate
        BY <1>8, LogType DEF DenyCommand
    <2> QED
        BY <1>8, <2>1, <2>2, <2>3 DEF DenyCommand, TypeOK, durable
<1>9. ASSUME NEW g \in Gate, NEW r \in Revocations \cup {None}, NEW l \in Leases \cup {None},
             Revoke(g, r, l)
      PROVE  TypeOK'
    <2>1. calls' \in 0..MaxCalls
        BY <1>9, GateAssumption DEF Revoke, TypeOK
    <2>2. call' \in [Gate -> Call] /\ CallContext'
        <3>1. CASE UNCHANGED call
            BY <3>1 DEF TypeOK, CallContext
        <3> DEFINE new == RevokeCall(r, l)
        <3>2. CASE call' = [call EXCEPT ![g] = new] /\ r \in Revocations /\ l \in Leases
            <4>1. new \in Call /\ new.pc = "record" /\ new.revocation = r /\ new.lease = l
                BY <3>2, ValidType DEF Call, RevokeCall
            <4> HIDE DEF new
            <4>2. \A h \in Gate : call'[h] = IF h = g THEN new ELSE call[h]
                BY <3>2 DEF TypeOK
            <4> QED
                BY <3>2, <4>1, <4>2 DEF TypeOK, CallContext
        <3>3. ASSUME r = None \/ l = None PROVE UNCHANGED call
            BY <1>9, <3>3 DEF Revoke, Valid
        <3> QED
            BY <1>9, <3>1, <3>2, <3>3 DEF Revoke
    <2>3. DOMAIN audit_log' = Gate /\ DOMAIN fallback_events' = Gate
        BY <1>9, LogType DEF Revoke, TypeOK
    <2> QED
        BY <1>9, <2>1, <2>2, <2>3 DEF Revoke, TypeOK, durable
<1>10. ASSUME NEW g \in Gate, RecordRevocation(g) PROVE TypeOK'
    <2>1. call[g].revocation \in Revocations /\ call[g].lease \in Leases
        BY <1>10 DEF RecordRevocation, At, TypeOK, CallContext
    <2>2. call' \in [Gate -> Call] /\ CallContext'
        BY <1>10, <2>1, ReturnType, GotoType DEF RecordRevocation
    <2>3. DOMAIN audit_log' = Gate /\ DOMAIN fallback_events' = Gate
        BY <1>10, LogType DEF RecordRevocation, TypeOK
    <2>4. call[g].revocation.lease_id \in LeaseIds
        BY <2>1 DEF LeaseIds
    <2>5. RevokedLease(call[g].revocation, call[g].lease) \in Rows
        BY <2>1 DEF Rows
    <2>6. revoked_leases' \in [LeaseIds -> Rows \cup {None}]
        BY <1>10, <2>4, <2>5 DEF RecordRevocation, TypeOK
    <2>7. enforced' \in [Gate -> SUBSET LeaseIds]
        BY <1>10, <2>4 DEF RecordRevocation, TypeOK
    <2>8. revocation_messages' \subseteq {r.message_id : r \in Revocations}
                                \cup ({row.revocation_id : row \in LegacyRows} \ {None})
        BY <1>10, <2>1 DEF RecordRevocation, TypeOK
    <2> QED
        BY <1>10, <2>2, <2>3, <2>6, <2>7, <2>8 DEF RecordRevocation, TypeOK
<1>11. ASSUME NEW g \in Gate, ApplyRevocation(g) PROVE TypeOK'
    <2>1. call[g].revocation \in Revocations /\ call[g].lease \in Leases
        BY <1>11 DEF ApplyRevocation, At, TypeOK, CallContext
    <2>2. call' \in [Gate -> Call] /\ CallContext'
        BY <1>11, ReturnType DEF ApplyRevocation
    <2>3. DOMAIN audit_log' = Gate /\ DOMAIN fallback_events' = Gate
        BY <1>11, LogType DEF ApplyRevocation
    <2>4. RevokedLease(call[g].revocation, call[g].lease) \in Rows
        BY <2>1 DEF Rows
    <2>5. revocations' \in [Gate -> [LeaseIds -> Rows \cup {None}]]
        BY <1>11, <2>4 DEF ApplyRevocation, TypeOK
    <2> QED
        BY <1>11, <2>2, <2>3, <2>5 DEF ApplyRevocation, TypeOK, durable
<1>12. ASSUME NEW g \in Gate, StoreBusy(g) PROVE TypeOK'
    <2>1. call' \in [Gate -> Call] /\ CallContext'
        BY <1>12, ReturnType DEF StoreBusy
    <2> QED
        BY <1>12, <2>1 DEF StoreBusy, TypeOK, durable, history
<1>13. ASSUME NEW g \in Gate, Crash(g) PROVE TypeOK'
    <2>1. call' \in [Gate -> Call] /\ CallContext'
        BY <1>13, ReturnType DEF Crash
    <2> QED
        BY <1>13, <2>1 DEF Crash, TypeOK, durable, history
<1>14. ASSUME NEW g \in Gate, Start(g) PROVE TypeOK'
    <2>1. call' \in [Gate -> Call] /\ CallContext'
        BY <1>14 DEF Start, TypeOK, CallContext
    <2>2. revocations' \in [Gate -> [LeaseIds -> Rows \cup {None}]]
        BY <1>14 DEF Start, TypeOK, initial_revocations, load_all
    <2>3. migrated_ids \subseteq {r.message_id : r \in Revocations}
                                \cup ({row.revocation_id : row \in LegacyRows} \ {None})
        <3>1. \A i \in LeaseIds : revoked_leases[i] # None => revoked_leases[i] \in Rows
            BY DEF TypeOK
        <3>2. \A row \in Rows : row.revocation_id \in {r.message_id : r \in Revocations}
                                    \cup {old.revocation_id : old \in LegacyRows}
            BY DEF Rows, RevokedLease
        <3> QED
            BY <3>1, <3>2 DEF migrated_ids
    <2>4. enforced' \in [Gate -> SUBSET LeaseIds]
        BY <1>14 DEF Start, TypeOK
    <2> QED
        BY <1>14, <2>1, <2>2, <2>3, <2>4 DEF Start, TypeOK
<1> QED
    BY <1>1, <1>2, <1>3, <1>4, <1>5, <1>6, <1>7, <1>8, <1>9, <1>10, <1>11, <1>12, <1>13, <1>14
       DEF Next, GateStep, CallStep

(* Every reachable state of the gates and their stores is well typed, and  *)
(* a call of evaluate() or revoke() never reaches a point without the      *)
(* messages that the code reads there.                                     *)
THEOREM TypeCorrect == Spec => []TypeOK
BY InitType, NextType, PTL DEF Spec
-----------------------------------------------------------------------------
(* The replay ledger.                                                      *)

(* The transaction of remember() or remember_authorized_use() commits only *)
(* when none of the keys it inserts is in the store.                       *)
LEMMA NoConflict ==
    ASSUME NEW c, NEW l, NEW reason, remember_conflict(c, l, reason) = Valid
    PROVE  remember_keys(c, l, reason) \cap replay_entries = {}
<1> DEFINE ladder == <<
        <<contains(c), "COMMAND_REPLAYED">>,
        <<reason = Valid /\ lease_nonce_key(l) \in replay_entries, "LEASE_NONCE_REPLAYED">> >>
<1>1. DOMAIN ladder = 1..2
    OBVIOUS
<1>2. \A i \in DOMAIN ladder : ladder[i][1] => ladder[i][2] # Valid
    BY <1>1 DEF Valid
<1>3. FirstViolation(ladder) = Valid
    BY DEF remember_conflict
<1> HIDE DEF ladder
<1>4. ~ladder[1][1] /\ ~ladder[2][1]
    BY <1>1, <1>2, <1>3, LadderClear
<1> USE DEF ladder
<1>5. ~contains(c)
    BY <1>4 DEF contains
<1>6. ~(reason = Valid /\ lease_nonce_key(l) \in replay_entries)
    BY <1>4
<1> QED
    BY <1>5, <1>6 DEF contains, remember_keys, authorized_use_keys

(* A step that answers nothing and inserts nothing keeps the ledger.       *)
LEMMA LedgerFrame ==
    ASSUME ReplayLedger,
           UNCHANGED <<replay_entries, forwarded, denied>>,
           \A g \in Gate : Pending(g)' => Pending(g) /\ held(g)' = held(g)
    PROVE  ReplayLedger'
BY DEF ReplayLedger, SingleUse, DenialIsFinal, used

(* A call that returns is pending no longer; the others are as before.     *)
LEMMA ReturnPending ==
    ASSUME TypeOK, NEW g \in Gate, Return(g)
    PROVE  /\ ~Pending(g)'
           /\ \A h \in Gate : h # g => Pending(h)' = Pending(h) /\ held(h)' = held(h)
<1>1. call'[g] = IdleCall /\ \A h \in Gate : h # g => call'[h] = call[h]
    BY DEF TypeOK, Return
<1> QED
    BY <1>1 DEF Pending, held, IdleCall

(* An initial store is an empty ledger.                                    *)
LEMMA InitLedger == Init => ReplayLedger
BY DEF Init, ReplayLedger, SingleUse, DenialIsFinal, Pending, IdleCall

(* Remember keeps the ledger: the keys it inserts are new to the store, so *)
(* they are shared with no earlier answer and no other pending call.       *)
LEMMA RememberLedger ==
    ASSUME TypeOK, ReplayLedger, NEW g \in Gate, Remember(g)
    PROVE  ReplayLedger'
<1> DEFINE keys == held(g)
<1>1. call[g] \in Call /\ ~Pending(g)
    BY DEF Remember, At, TypeOK, Pending
<1>2. CASE Return(g) /\ UNCHANGED replay_entries
    <2>1. UNCHANGED <<forwarded, denied>>
        BY DEF Remember
    <2> QED
        BY <1>2, <2>1, ReturnPending, LedgerFrame
<1>3. CASE /\ remember_conflict(call[g].command, call[g].lease, call[g].reason) = Valid
           /\ replay_entries' = replay_entries \cup keys
           /\ Goto(g, "answer")
    <2>1. keys \cap replay_entries = {}
        BY <1>3, NoConflict DEF held
    <2>2. UNCHANGED <<forwarded, denied>>
        BY DEF Remember
    <2>3. \A h \in Gate : h # g => call'[h] = call[h]
        BY <1>3 DEF Goto, TypeOK
    <2>4. /\ call'[g].command = call[g].command
          /\ call'[g].lease = call[g].lease
          /\ call'[g].reason = call[g].reason
        BY <1>1, <1>3 DEF Goto, TypeOK, Call
    <2>5. held(g)' = keys
        BY <2>4 DEF held, remember_keys, authorized_use_keys, command_keys, lease_nonce_key
    <2>6. \A h \in Gate : h # g => Pending(h)' = Pending(h) /\ held(h)' = held(h)
        BY <2>3 DEF Pending, held
    <2> HIDE DEF keys
    <2>7. \A h \in Gate : Pending(h)' => held(h)' \subseteq replay_entries'
        BY <1>3, <2>5, <2>6 DEF ReplayLedger
    <2>8. \A h \in Gate : h # g /\ Pending(h) => held(h) \cap keys = {}
        BY <2>1 DEF ReplayLedger
    <2>9. \A h, k \in Gate : h # k /\ Pending(h)' /\ Pending(k)' => held(h)' \cap held(k)' = {}
        BY <2>5, <2>6, <2>8 DEF ReplayLedger
    <2>10. \A i \in DOMAIN forwarded : used(i) \cap keys = {}
        BY <2>1 DEF ReplayLedger
    <2>11. \A c \in denied : command_keys(c) \cap keys = {}
        BY <2>1 DEF ReplayLedger
    <2>12. \A i \in DOMAIN forwarded : used(i)' = used(i)
        BY <2>2 DEF used
    <2>13. \A h \in Gate : Pending(h)' => \A i \in DOMAIN forwarded' : held(h)' \cap used(i)' = {}
        BY <2>2, <2>5, <2>6, <2>10, <2>12 DEF ReplayLedger
    <2>14. \A h \in Gate : Pending(h)' => \A c \in denied' : held(h)' \cap command_keys(c) = {}
        BY <2>2, <2>5, <2>6, <2>11 DEF ReplayLedger
    <2>15. SingleUse' /\ DenialIsFinal'
        BY <2>2 DEF ReplayLedger, SingleUse, DenialIsFinal
    <2> QED
        BY <1>3, <2>2, <2>7, <2>9, <2>12, <2>13, <2>14, <2>15 DEF ReplayLedger
<1> QED
    BY <1>2, <1>3 DEF Remember, held

(* Forwarding turns a pending call into a forwarded command.               *)
LEMMA AllowLedger ==
    ASSUME TypeOK, ReplayLedger, NEW g \in Gate, AllowCommand(g)
    PROVE  ReplayLedger'
<1>0. PICK n \in Nat : n = Len(forwarded)
    BY DEF TypeOK
<1>1. Pending(g) /\ held(g) = authorized_use_keys(call[g].command, call[g].lease)
    BY DEF AllowCommand, At, Pending, held, remember_keys
<1>2. UNCHANGED <<replay_entries, denied>>
    BY DEF AllowCommand, durable
<1>3. /\ ~Pending(g)'
      /\ \A h \in Gate : h # g => Pending(h)' = Pending(h) /\ held(h)' = held(h)
    BY ReturnPending DEF AllowCommand
<1>4. /\ DOMAIN forwarded' = DOMAIN forwarded \cup {n + 1}
      /\ n + 1 \notin DOMAIN forwarded
      /\ forwarded'[n + 1].command = call[g].command
      /\ forwarded'[n + 1].lease = call[g].lease
      /\ \A i \in DOMAIN forwarded : forwarded'[i] = forwarded[i]
    BY <1>0 DEF AllowCommand, TypeOK
<1>5. used(n + 1)' = held(g)
    BY <1>1, <1>4 DEF used, authorized_use_keys, command_keys, lease_nonce_key
<1>6. \A i \in DOMAIN forwarded : used(i)' = used(i)
    BY <1>4 DEF used
<1>7. \A i \in DOMAIN forwarded' : used(i)' \subseteq replay_entries'
    BY <1>1, <1>2, <1>4, <1>5, <1>6 DEF ReplayLedger
<1>8. \A h \in Gate : Pending(h)' => \A i \in DOMAIN forwarded' : held(h)' \cap used(i)' = {}
    BY <1>1, <1>3, <1>4, <1>5, <1>6 DEF ReplayLedger
<1>9. \A i, j \in DOMAIN forwarded' : i # j => used(i)' \cap used(j)' = {}
    <2>1. \A i \in DOMAIN forwarded : used(i) \cap held(g) = {}
        BY <1>1 DEF ReplayLedger
    <2>2. \A i, j \in DOMAIN forwarded : i # j => used(i) \cap used(j) = {}
        BY DEF ReplayLedger, SingleUse, used
    <2> QED
        BY <1>4, <1>5, <1>6, <2>1, <2>2
<1>10. SingleUse'
    BY <1>9 DEF SingleUse, used
<1>11. DenialIsFinal'
    <2>1. \A c \in denied : command_keys(c) \cap command_keys(call[g].command) = {}
        BY <1>1 DEF ReplayLedger, authorized_use_keys
    <2> QED
        BY <1>2, <1>4, <2>1 DEF ReplayLedger, DenialIsFinal
<1>12. \A h \in Gate : Pending(h)' => held(h)' \subseteq replay_entries'
    BY <1>2, <1>3 DEF ReplayLedger
<1>13. \A h, k \in Gate : h # k /\ Pending(h)' /\ Pending(k)' => held(h)' \cap held(k)' = {}
    BY <1>3 DEF ReplayLedger
<1>14. \A h \in Gate : Pending(h)' => \A c \in denied' : held(h)' \cap command_keys(c) = {}
    BY <1>2, <1>3 DEF ReplayLedger
<1>15. \A c \in denied' : command_keys(c) \subseteq replay_entries'
    BY <1>2 DEF ReplayLedger
<1> QED
    BY <1>7, <1>8, <1>10, <1>11, <1>12, <1>13, <1>14, <1>15 DEF ReplayLedger

(* A denial turns a pending call into a denied command.                    *)
LEMMA DenyLedger ==
    ASSUME TypeOK, ReplayLedger, NEW g \in Gate, DenyCommand(g)
    PROVE  ReplayLedger'
<1>1. Pending(g) /\ held(g) = command_keys(call[g].command)
    BY DEF DenyCommand, At, Pending, held, remember_keys
<1>2. UNCHANGED <<replay_entries, forwarded>> /\ denied' = denied \cup {call[g].command}
    BY DEF DenyCommand, durable
<1>3. /\ ~Pending(g)'
      /\ \A h \in Gate : h # g => Pending(h)' = Pending(h) /\ held(h)' = held(h)
    BY ReturnPending DEF DenyCommand
<1>4. \A i \in DOMAIN forwarded : used(i)' = used(i)
    BY <1>2 DEF used
<1>5. \A c \in denied' : command_keys(c) \subseteq replay_entries'
    BY <1>1, <1>2 DEF ReplayLedger
<1>6. \A h \in Gate : Pending(h)' => held(h)' \subseteq replay_entries'
    BY <1>2, <1>3 DEF ReplayLedger
<1>7. \A h, k \in Gate : h # k /\ Pending(h)' /\ Pending(k)' => held(h)' \cap held(k)' = {}
    BY <1>3 DEF ReplayLedger
<1>8. \A h \in Gate : Pending(h)' => \A i \in DOMAIN forwarded' : held(h)' \cap used(i)' = {}
    BY <1>2, <1>3, <1>4 DEF ReplayLedger
<1>9. \A h \in Gate : Pending(h)' => \A c \in denied' : held(h)' \cap command_keys(c) = {}
    BY <1>1, <1>2, <1>3 DEF ReplayLedger
<1>10. SingleUse'
    BY <1>2 DEF ReplayLedger, SingleUse
<1>11. DenialIsFinal'
    <2>1. \A i \in DOMAIN forwarded :
              command_keys(call[g].command) \cap command_keys(forwarded[i].command) = {}
        BY <1>1 DEF ReplayLedger, used, authorized_use_keys
    <2> QED
        BY <1>2, <2>1 DEF ReplayLedger, DenialIsFinal
<1>12. \A i \in DOMAIN forwarded' : used(i)' \subseteq replay_entries'
    BY <1>2, <1>4 DEF ReplayLedger
<1> QED
    BY <1>5, <1>6, <1>7, <1>8, <1>9, <1>10, <1>11, <1>12 DEF ReplayLedger

(* Every step of the gates keeps the ledger.                               *)
LEMMA NextLedger == TypeOK /\ ReplayLedger /\ [Next]_vars => ReplayLedger'
<1> SUFFICES ASSUME TypeOK, ReplayLedger, [Next]_vars PROVE ReplayLedger'
    OBVIOUS
<1>1. ASSUME UNCHANGED <<replay_entries, forwarded, denied, call>> PROVE ReplayLedger'
    BY <1>1, LedgerFrame DEF Pending, held
<1>2. CASE UNCHANGED vars
    BY <1>1, <1>2 DEF vars, durable, process, history
<1>3. CASE Tick
    BY <1>1, <1>3 DEF Tick, durable, process, history
<1>4. ASSUME NEW g \in Gate, UNCHANGED <<replay_entries, forwarded, denied>>, Return(g)
      PROVE  ReplayLedger'
    BY <1>4, ReturnPending, LedgerFrame
<1>5. ASSUME NEW g \in Gate, UNCHANGED <<replay_entries, forwarded, denied>>,
             NEW new, new.pc # "answer", call' = [call EXCEPT ![g] = new]
      PROVE  ReplayLedger'
    <2>1. call'[g] = new /\ \A h \in Gate : h # g => call'[h] = call[h]
        BY <1>5 DEF TypeOK
    <2> QED
        BY <1>5, <2>1, LedgerFrame DEF Pending, held
<1>6. ASSUME NEW g \in Gate, NEW c \in Commands, NEW l \in Leases \cup {None},
             NEW s \in States \cup {None}, Evaluate(g, c, l, s)
      PROVE  ReplayLedger'
    <2>1. EvaluateCall(c, l, s).pc # "answer"
        BY DEF EvaluateCall
    <2> QED
        BY <1>1, <1>5, <1>6, <2>1 DEF Evaluate, durable
<1>7. ASSUME NEW g \in Gate, NEW r \in Revocations \cup {None}, NEW l \in Leases \cup {None},
             Revoke(g, r, l)
      PROVE  ReplayLedger'
    <2>1. RevokeCall(r, l).pc # "answer"
        BY DEF RevokeCall
    <2> QED
        BY <1>1, <1>5, <1>7, <2>1 DEF Revoke, durable
<1>8. ASSUME NEW g \in Gate, UNCHANGED <<replay_entries, forwarded, denied>>,
             NEW pc, pc # "answer", Goto(g, pc)
      PROVE  ReplayLedger'
    <2>1. call'[g].pc = pc /\ \A h \in Gate : h # g => call'[h] = call[h]
        BY <1>8 DEF TypeOK, Goto, Call
    <2> QED
        BY <1>8, <2>1, LedgerFrame DEF Pending, held
<1>9. ASSUME NEW g \in Gate, CheckReplay(g) PROVE ReplayLedger'
    BY <1>4, <1>8, <1>9 DEF CheckReplay, durable
<1>10. ASSUME NEW g \in Gate, Validate(g) PROVE ReplayLedger'
    <2>1. call'[g].pc = "remember" /\ \A h \in Gate : h # g => call'[h] = call[h]
        BY <1>10 DEF Validate, TypeOK, Call
    <2> QED
        BY <1>10, <2>1, LedgerFrame DEF Validate, Pending, held, durable, history
<1>11. ASSUME NEW g \in Gate, RecordRevocation(g) PROVE ReplayLedger'
    BY <1>4, <1>8, <1>11 DEF RecordRevocation
<1>12. ASSUME NEW g \in Gate, ApplyRevocation(g) \/ StoreBusy(g) \/ Crash(g) PROVE ReplayLedger'
    BY <1>4, <1>12 DEF ApplyRevocation, StoreBusy, Crash, durable, history
<1>13. ASSUME NEW g \in Gate, Start(g) PROVE ReplayLedger'
    BY <1>1, <1>13 DEF Start
<1> QED
    BY <1>2, <1>3, <1>6, <1>7, <1>9, <1>10, <1>11, <1>12, <1>13,
       RememberLedger, AllowLedger, DenyLedger DEF Next, GateStep, CallStep

(* The replay ledger is consistent in every reachable state.               *)
THEOREM LedgerConsistent == Spec => []ReplayLedger
<1>1. Init => TypeOK /\ ReplayLedger
    BY InitType, InitLedger
<1>2. TypeOK /\ ReplayLedger /\ [Next]_vars => (TypeOK /\ ReplayLedger)'
    BY NextType, NextLedger
<1> QED
    BY <1>1, <1>2, PTL DEF Spec

(* No command id, command nonce or lease nonce is ever used for two        *)
(* forwarded commands, by any gates, across crashes and redeliveries.      *)
THEOREM SingleUseHolds == Spec => []SingleUse
<1>1. ReplayLedger => SingleUse
    BY DEF ReplayLedger
<1> QED
    BY <1>1, LedgerConsistent, PTL

(* A command that a gate denied on its merits is forwarded by no gate,     *)
(* neither before nor after.                                               *)
THEOREM DenialIsFinalHolds == Spec => []DenialIsFinal
<1>1. ReplayLedger => DenialIsFinal
    BY DEF ReplayLedger
<1> QED
    BY <1>1, LedgerConsistent, PTL
-----------------------------------------------------------------------------
(* Revocations.                                                            *)

(* Nothing is revoked before a gate has started.                           *)
LEMMA InitKnowledge == Init => RevocationKnowledge
BY DEF Init, RevocationKnowledge, IdleCall

(* A step that leaves alone what gates know of revocations, and moves a    *)
(* call of g only to points where g has not reached a verdict.             *)
LEMMA KnowledgeFrame ==
    ASSUME TypeOK, RevocationKnowledge, NEW g \in Gate,
           UNCHANGED <<up, revocations, revoked_leases, enforced>>,
           up[g], call[g].pc # "apply",
           call' \in [Gate -> Call],
           \A h \in Gate : h # g => call'[h] = call[h],
           call'[g].pc \notin {"remember", "answer"}
    PROVE  RevocationKnowledge'
BY DEF RevocationKnowledge

(* A verdict LEASE_VALID is never for a lease the gate has to refuse.      *)
LEMMA ValidateKnowledge ==
    ASSUME TypeOK, RevocationKnowledge, NEW g \in Gate, Validate(g)
    PROVE  RevocationKnowledge'
<1> DEFINE verdict == validate_lease_for_command(call[g].lease, call[g].command, call[g].state,
                                                 revoked_lease_ids(g), clock)
<1>1. up[g] /\ call[g].pc = "validate" /\ call[g] \in Call
    BY DEF Validate, At, TypeOK
<1>2. UNCHANGED <<up, revocations, revoked_leases, enforced>>
    BY DEF Validate, durable, history
<1>3. ASSUME verdict = Valid PROVE call[g].lease.lease_id \notin enforced[g]
    <2>1. call[g].lease.lease_id \notin revoked_lease_ids(g)
        BY <1>3, AdmissionFacts
    <2>2. enforced[g] \subseteq revoked_lease_ids(g)
        BY <1>1 DEF RevocationKnowledge, revoked_lease_ids, TypeOK
    <2> QED
        BY <2>1, <2>2
<1>4. \A h \in Gate : h # g => call'[h] = call[h]
    BY DEF Validate, TypeOK
<1> HIDE DEF verdict
<1>5. /\ call'[g].pc = "remember"
      /\ call'[g].reason = verdict
      /\ call'[g].lease = call[g].lease
    BY <1>1 DEF Validate, TypeOK, Call, verdict
<1> QED
    BY <1>1, <1>2, <1>3, <1>4, <1>5 DEF RevocationKnowledge

(* Every step of the gates keeps what they know.                           *)
LEMMA NextKnowledge == TypeOK /\ RevocationKnowledge /\ [Next]_vars => RevocationKnowledge'
<1> SUFFICES ASSUME TypeOK, RevocationKnowledge, [Next]_vars PROVE RevocationKnowledge'
    OBVIOUS
<1>0. call' \in [Gate -> Call]
    BY NextType DEF TypeOK
<1>1. ASSUME UNCHANGED <<up, call, revocations, revoked_leases, enforced>> PROVE RevocationKnowledge'
    BY <1>1 DEF RevocationKnowledge
<1>2. CASE UNCHANGED vars
    BY <1>1, <1>2 DEF vars, durable, process, history
<1>3. CASE Tick
    BY <1>1, <1>3 DEF Tick, durable, process, history
<1>4. ASSUME NEW g \in Gate, UNCHANGED <<up, revocations, revoked_leases, enforced>>,
             up[g], call[g].pc # "apply", Return(g)
      PROVE  RevocationKnowledge'
    <2>1. call'[g] = IdleCall /\ \A h \in Gate : h # g => call'[h] = call[h]
        BY <1>4 DEF Return, TypeOK
    <2>2. call'[g].pc \notin {"remember", "answer"}
        BY <2>1 DEF IdleCall
    <2> QED
        BY <1>0, <1>4, <2>1, <2>2, KnowledgeFrame
<1>5. ASSUME NEW g \in Gate, NEW c \in Commands, NEW l \in Leases \cup {None},
             NEW s \in States \cup {None}, Evaluate(g, c, l, s)
      PROVE  RevocationKnowledge'
    <2>1. EvaluateCall(c, l, s).pc = "contains"
        BY DEF EvaluateCall
    <2>2. UNCHANGED <<up, revocations, revoked_leases, enforced>> /\ up[g] /\ call[g].pc = "idle"
        BY <1>5 DEF Evaluate, At, durable
    <2>3. CASE UNCHANGED call
        BY <1>1, <2>2, <2>3
    <2>4. CASE call' = [call EXCEPT ![g] = EvaluateCall(c, l, s)]
        <3>1. call'[g] = EvaluateCall(c, l, s) /\ \A h \in Gate : h # g => call'[h] = call[h]
            BY <2>4 DEF TypeOK
        <3> QED
            BY <1>0, <2>1, <2>2, <3>1, KnowledgeFrame
    <2> QED
        BY <1>5, <2>3, <2>4 DEF Evaluate
<1>6. ASSUME NEW g \in Gate, NEW r \in Revocations \cup {None}, NEW l \in Leases \cup {None},
             Revoke(g, r, l)
      PROVE  RevocationKnowledge'
    <2>1. RevokeCall(r, l).pc = "record"
        BY DEF RevokeCall
    <2>2. UNCHANGED <<up, revocations, revoked_leases, enforced>> /\ up[g] /\ call[g].pc = "idle"
        BY <1>6 DEF Revoke, At, durable
    <2>3. CASE UNCHANGED call
        BY <1>1, <2>2, <2>3
    <2>4. CASE call' = [call EXCEPT ![g] = RevokeCall(r, l)]
        <3>1. call'[g] = RevokeCall(r, l) /\ \A h \in Gate : h # g => call'[h] = call[h]
            BY <2>4 DEF TypeOK
        <3> QED
            BY <1>0, <2>1, <2>2, <3>1, KnowledgeFrame
    <2> QED
        BY <1>6, <2>3, <2>4 DEF Revoke
<1>7. ASSUME NEW g \in Gate, CheckReplay(g) PROVE RevocationKnowledge'
    <2>1. UNCHANGED <<up, revocations, revoked_leases, enforced>> /\ up[g] /\ call[g].pc = "contains"
        BY <1>7 DEF CheckReplay, At, durable
    <2>2. CASE Return(g)
        BY <1>4, <2>1, <2>2
    <2>3. CASE Goto(g, "validate")
        <3>1. call'[g].pc = "validate" /\ \A h \in Gate : h # g => call'[h] = call[h]
            BY <2>3 DEF Goto, TypeOK, Call
        <3> QED
            BY <1>0, <2>1, <3>1, KnowledgeFrame
    <2> QED
        BY <1>7, <2>2, <2>3 DEF CheckReplay
<1>8. ASSUME NEW g \in Gate, Remember(g) PROVE RevocationKnowledge'
    <2>1. /\ UNCHANGED <<up, revocations, revoked_leases, enforced>>
          /\ up[g] /\ call[g].pc = "remember" /\ call[g] \in Call
        BY <1>8 DEF Remember, At, TypeOK
    <2>2. CASE Return(g)
        BY <1>4, <2>1, <2>2
    <2>3. CASE Goto(g, "answer")
        <3>1. /\ call'[g].pc = "answer"
              /\ call'[g].reason = call[g].reason
              /\ call'[g].lease = call[g].lease
              /\ \A h \in Gate : h # g => call'[h] = call[h]
            BY <2>1, <2>3 DEF Goto, TypeOK, Call
        <3> QED
            BY <2>1, <3>1 DEF RevocationKnowledge
    <2> QED
        BY <1>8, <2>2, <2>3 DEF Remember
<1>9. ASSUME NEW g \in Gate, AllowCommand(g) \/ DenyCommand(g) \/ StoreBusy(g)
      PROVE  RevocationKnowledge'
    <2>1. /\ UNCHANGED <<up, revocations, revoked_leases, enforced>>
          /\ up[g] /\ call[g].pc # "apply" /\ Return(g)
        BY <1>9 DEF AllowCommand, DenyCommand, StoreBusy, At, durable, history
    <2> QED
        BY <1>4, <2>1
<1>10. ASSUME NEW g \in Gate, RecordRevocation(g) PROVE RevocationKnowledge'
    <2> DEFINE r == call[g].revocation
    <2>1. /\ UNCHANGED <<up, revocations>>
          /\ up[g] /\ call[g].pc = "record" /\ call[g] \in Call
          /\ r \in Revocations /\ call[g].lease \in Leases
        BY <1>10 DEF RecordRevocation, At, TypeOK, CallContext
    <2>2. CASE Return(g) /\ UNCHANGED <<revoked_leases, enforced>>
        BY <1>4, <2>1, <2>2
    <2>3. CASE /\ Goto(g, "apply")
               /\ revoked_leases' = [revoked_leases EXCEPT ![r.lease_id] = RevokedLease(r, call[g].lease)]
               /\ enforced' = [enforced EXCEPT ![g] = @ \cup {r.lease_id}]
        <3>1. RevokedLease(r, call[g].lease) # None /\ r.lease_id \in LeaseIds
            BY <2>1, RowsAssumption DEF Rows, LeaseIds
        <3>2. \A i \in LeaseIds : revoked_leases[i] # None \/ i = r.lease_id => revoked_leases'[i] # None
            BY <2>3, <3>1 DEF TypeOK
        <3>3. enforced'[g] = enforced[g] \cup {r.lease_id} /\ \A h \in Gate : h # g => enforced'[h] = enforced[h]
            BY <2>3 DEF TypeOK
        <3>4. /\ call'[g].pc = "apply"
              /\ call'[g].revocation = r
              /\ \A h \in Gate : h # g => call'[h] = call[h]
            BY <2>1, <2>3 DEF Goto, TypeOK, Call
        <3>5. \A h \in Gate : enforced[h] \subseteq LeaseIds
            BY DEF TypeOK
        <3> HIDE DEF r
        <3> QED
            BY <2>1, <3>1, <3>2, <3>3, <3>4, <3>5 DEF RevocationKnowledge
    <2> QED
        BY <1>10, <2>2, <2>3 DEF RecordRevocation
<1>11. ASSUME NEW g \in Gate, ApplyRevocation(g) PROVE RevocationKnowledge'
    <2> DEFINE r == call[g].revocation
    <2>1. /\ UNCHANGED <<up, revoked_leases, enforced>>
          /\ up[g] /\ call[g].pc = "apply"
          /\ r \in Revocations /\ call[g].lease \in Leases
        BY <1>11 DEF ApplyRevocation, At, TypeOK, CallContext, durable
    <2>2. RevokedLease(r, call[g].lease) # None /\ r.lease_id \in LeaseIds
        BY <2>1, RowsAssumption DEF Rows, LeaseIds
    <2>3. /\ \A h \in Gate : h # g => revocations'[h] = revocations[h]
          /\ \A i \in LeaseIds : i # r.lease_id => revocations'[g][i] = revocations[g][i]
          /\ revocations'[g][r.lease_id] # None
        BY <1>11, <2>2 DEF ApplyRevocation, TypeOK
    <2>4. call'[g] = IdleCall /\ \A h \in Gate : h # g => call'[h] = call[h]
        BY <1>11 DEF ApplyRevocation, Return, TypeOK
    <2>5. call'[g].pc = "idle"
        BY <2>4 DEF IdleCall
    <2>6. \A h \in Gate : enforced[h] \subseteq LeaseIds
        BY DEF TypeOK
    <2> HIDE DEF r
    <2>7. \A i \in enforced[g] : revocations'[g][i] # None
        BY <2>1, <2>3, <2>6 DEF RevocationKnowledge, r
    <2> QED
        BY <2>1, <2>3, <2>4, <2>5, <2>7 DEF RevocationKnowledge
<1>12. ASSUME NEW g \in Gate, Crash(g) PROVE RevocationKnowledge'
    <2>1. call'[g] = IdleCall /\ \A h \in Gate : h # g => call'[h] = call[h]
        BY <1>12 DEF Crash, Return, TypeOK
    <2>2. /\ ~up'[g]
          /\ \A h \in Gate : h # g => up'[h] = up[h] /\ revocations'[h] = revocations[h]
          /\ UNCHANGED <<revoked_leases, enforced>>
        BY <1>12 DEF Crash, TypeOK, durable, history
    <2> QED
        BY <2>1, <2>2 DEF RevocationKnowledge, IdleCall
<1>13. ASSUME NEW g \in Gate, Start(g) PROVE RevocationKnowledge'
    <2>1. /\ UNCHANGED <<call, revoked_leases>> /\ ~up[g]
          /\ revocations'[g] = revoked_leases
          /\ enforced'[g] = enforced[g] \cup {i \in LeaseIds : revoked_leases[i] # None}
          /\ \A h \in Gate : h # g => /\ up'[h] = up[h]
                                      /\ revocations'[h] = revocations[h]
                                      /\ enforced'[h] = enforced[h]
        BY <1>13 DEF Start, TypeOK, initial_revocations, load_all
    <2> QED
        BY <2>1 DEF RevocationKnowledge
<1> QED
    BY <1>2, <1>3, <1>5, <1>6, <1>7, <1>8, <1>9, <1>10, <1>11, <1>12, <1>13, ValidateKnowledge
       DEF Next, GateStep, CallStep

(* Gates never lose a revocation they have accepted or loaded.             *)
THEOREM KnowledgeHolds == Spec => []RevocationKnowledge
<1>1. Init => TypeOK /\ RevocationKnowledge
    BY InitType, InitKnowledge
<1>2. TypeOK /\ RevocationKnowledge /\ [Next]_vars => (TypeOK /\ RevocationKnowledge)'
    BY NextType, NextKnowledge
<1> QED
    BY <1>1, <1>2, PTL DEF Spec

(* Only AllowCommand forwards.                                             *)
LEMMA OnlyAllowForwards ==
    ASSUME TypeOK, [Next]_vars, forwarded' # forwarded
    PROVE  \E g \in Gate : AllowCommand(g)
<1>1. ~UNCHANGED vars /\ ~Tick
    BY DEF vars, Tick, history
<1>2. PICK g \in Gate : GateStep(g)
    BY <1>1 DEF Next
<1>3. /\ \A c \in Commands, l \in Leases \cup {None}, s \in States \cup {None} : ~Evaluate(g, c, l, s)
      /\ \A r \in Revocations \cup {None}, l \in Leases \cup {None} : ~Revoke(g, r, l)
    BY DEF Evaluate, Revoke
<1>4. ~CheckReplay(g) /\ ~Validate(g) /\ ~Remember(g) /\ ~DenyCommand(g)
    BY DEF CheckReplay, Validate, Remember, DenyCommand, history
<1>5. ~RecordRevocation(g) /\ ~ApplyRevocation(g) /\ ~StoreBusy(g) /\ ~Crash(g) /\ ~Start(g)
    BY DEF RecordRevocation, ApplyRevocation, StoreBusy, Crash, Start, history
<1> QED
    BY <1>2, <1>3, <1>4, <1>5 DEF GateStep, CallStep

(* A step from a state with this knowledge forwards nothing revoked.       *)
LEMMA NextForwardsUnrevoked ==
    TypeOK /\ RevocationKnowledge /\ [Next]_vars => ForwardsOnlyUnrevoked
<1> SUFFICES ASSUME TypeOK, RevocationKnowledge, [Next]_vars,
                    NEW g \in Gate, NEW c \in Commands, NEW l \in Leases,
                    forwarded' = Append(forwarded, [gate |-> g, command |-> c, lease |-> l])
             PROVE  l.lease_id \notin enforced[g]
    BY DEF ForwardsOnlyUnrevoked
<1> DEFINE entry == [gate |-> g, command |-> c, lease |-> l]
<1>1. /\ forwarded' # forwarded
      /\ forwarded'[Len(forwarded) + 1] = entry
    BY DEF TypeOK
<1>2. PICK h \in Gate : AllowCommand(h)
    BY <1>1, OnlyAllowForwards
<1>3. forwarded'[Len(forwarded) + 1] = [gate |-> h, command |-> call[h].command, lease |-> call[h].lease]
    BY <1>2 DEF AllowCommand, TypeOK
<1>4. g = h /\ l = call[h].lease
    BY <1>1, <1>3
<1> QED
    BY <1>2, <1>4 DEF AllowCommand, At, RevocationKnowledge

(* A gate never forwards a command under a lease whose revocation it has   *)
(* accepted, in this life or an earlier one, or found in the store when it *)
(* was constructed.                                                        *)
THEOREM RevocationSurvivesRestartHolds == Spec => RevocationSurvivesRestart
BY TypeCorrect, KnowledgeHolds, NextForwardsUnrevoked, PTL DEF Spec, RevocationSurvivesRestart
-----------------------------------------------------------------------------
(* Who can consume a replay key.                                           *)

(* A command that command_auth_violation lets through is authentic.        *)
LEMMA AuthenticatedCommand ==
    ASSUME NEW c, NEW now, command_auth_violation(c, now) = Valid
    PROVE  command_static_violation(c) = Valid
<1> DEFINE ladder == <<Sub(command_static_violation(c)), Sub(command_time_violation(c, now))>>
<1>1. DOMAIN ladder = 1..2 /\ ladder[1] = Sub(command_static_violation(c))
    OBVIOUS
<1>2. \A i \in DOMAIN ladder : ladder[i][1] => ladder[i][2] # Valid
    BY <1>1, SubClear
<1>3. FirstViolation(ladder) = Valid
    BY DEF command_auth_violation
<1> HIDE DEF ladder
<1>4. ~ladder[1][1]
    BY <1>1, <1>2, <1>3, LadderClear
<1> QED
    BY <1>1, <1>4, SubHolds

(* What a call of evaluate() has established at each point: its command is *)
(* authentic, and a verdict LEASE_VALID is for a lease that a trusted      *)
(* issuer signed.                                                          *)
AuthenticCalls ==
    \A g \in Gate :
        /\ call[g].pc \in {"contains", "validate", "remember"}
               => command_static_violation(call[g].command) = Valid
        /\ call[g].pc = "remember" /\ call[g].reason = Valid
               => /\ call[g].lease.issuer \in TrustedIssuers
                  /\ lease_signature_violation(call[g].lease) = Valid

(* A step that consumes nothing and moves a call of g to no point at which *)
(* its command could consume anything.                                     *)
LEMMA AuthenticFrame ==
    ASSUME AuthenticCalls, NEW g \in Gate,
           UNCHANGED replay_entries,
           \A h \in Gate : h # g => call'[h] = call[h],
           \/ call'[g] = call[g]
           \/ call'[g].pc \notin {"contains", "validate", "remember"}
    PROVE  ConsumesOwnKeys /\ AuthenticCalls'
BY DEF ConsumesOwnKeys, AuthenticCalls

(* The keys that Remember inserts are of an authentic command and, for an  *)
(* allowed one, of a lease that a trusted issuer signed.                   *)
LEMMA RememberAuthentic ==
    ASSUME TypeOK, AuthenticCalls, NEW g \in Gate, Remember(g)
    PROVE  ConsumesOwnKeys /\ AuthenticCalls'
<1> DEFINE c == call[g].command
           l == call[g].lease
<1>1. call[g] \in Call /\ c \in Commands /\ l \in Leases /\ call[g].pc = "remember"
    BY DEF Remember, At, TypeOK, CallContext
<1>2. CASE Return(g) /\ UNCHANGED replay_entries
    <2>1. call'[g] = IdleCall /\ \A h \in Gate : h # g => call'[h] = call[h]
        BY <1>2 DEF Return, TypeOK
    <2> QED
        BY <1>2, <2>1, AuthenticFrame DEF IdleCall
<1>3. CASE Goto(g, "answer") /\ replay_entries' = replay_entries \cup remember_keys(c, l, call[g].reason)
    <2>1. call'[g].pc = "answer" /\ \A h \in Gate : h # g => call'[h] = call[h]
        BY <1>1, <1>3 DEF Goto, TypeOK, Call
    <2>2. AuthenticCalls'
        BY <2>1 DEF AuthenticCalls
    <2>3. command_static_violation(c) = Valid
        BY <1>1 DEF AuthenticCalls
    <2>4. call[g].reason = Valid => l.issuer \in TrustedIssuers /\ lease_signature_violation(l) = Valid
        BY <1>1 DEF AuthenticCalls
    <2>5. \A k \in remember_keys(c, l, call[g].reason) :
              k \in command_keys(c) \/ (call[g].reason = Valid /\ k = lease_nonce_key(l))
        BY DEF remember_keys, authorized_use_keys
    <2> HIDE DEF c, l
    <2> QED
        BY <1>1, <1>3, <2>1, <2>2, <2>3, <2>4, <2>5 DEF ConsumesOwnKeys, c, l
<1> QED
    BY <1>2, <1>3 DEF Remember

(* Every step of the gates keeps it so.                                    *)
LEMMA NextAuthentic ==
    TypeOK /\ AuthenticCalls /\ [Next]_vars
        => ConsumesOwnKeys /\ AuthenticCalls'
<1> SUFFICES ASSUME TypeOK, AuthenticCalls, [Next]_vars
             PROVE  ConsumesOwnKeys /\ AuthenticCalls'
    OBVIOUS
<1>1. ASSUME UNCHANGED <<replay_entries, call>> PROVE ConsumesOwnKeys /\ AuthenticCalls'
    BY <1>1 DEF ConsumesOwnKeys, AuthenticCalls
<1>2. CASE UNCHANGED vars
    BY <1>1, <1>2 DEF vars, durable, process
<1>3. CASE Tick
    BY <1>1, <1>3 DEF Tick, durable, process
<1>4. ASSUME NEW g \in Gate, UNCHANGED replay_entries, Return(g)
      PROVE  ConsumesOwnKeys /\ AuthenticCalls'
    <2>1. call'[g] = IdleCall /\ \A h \in Gate : h # g => call'[h] = call[h]
        BY <1>4 DEF Return, TypeOK
    <2> QED
        BY <1>4, <2>1, AuthenticFrame DEF IdleCall
<1>5. ASSUME NEW g \in Gate, NEW c \in Commands, NEW l \in Leases \cup {None},
             NEW s \in States \cup {None}, Evaluate(g, c, l, s)
      PROVE  ConsumesOwnKeys /\ AuthenticCalls'
    <2>1. UNCHANGED replay_entries
        BY <1>5 DEF Evaluate, durable
    <2>2. CASE UNCHANGED call
        BY <1>1, <2>1, <2>2
    <2>3. CASE command_auth_violation(c, clock) = Valid /\ call' = [call EXCEPT ![g] = EvaluateCall(c, l, s)]
        <3>1. command_static_violation(c) = Valid
            BY <2>3, AuthenticatedCommand
        <3>2. call'[g] = EvaluateCall(c, l, s) /\ \A h \in Gate : h # g => call'[h] = call[h]
            BY <2>3 DEF TypeOK
        <3>3. call'[g].pc = "contains" /\ call'[g].command = c
            BY <3>2 DEF EvaluateCall
        <3> QED
            BY <2>1, <3>1, <3>2, <3>3 DEF ConsumesOwnKeys, AuthenticCalls
    <2> QED
        BY <1>5, <2>2, <2>3 DEF Evaluate
<1>6. ASSUME NEW g \in Gate, NEW r \in Revocations \cup {None}, NEW l \in Leases \cup {None},
             Revoke(g, r, l)
      PROVE  ConsumesOwnKeys /\ AuthenticCalls'
    <2>1. UNCHANGED replay_entries
        BY <1>6 DEF Revoke, durable
    <2>2. CASE UNCHANGED call
        BY <1>1, <2>1, <2>2
    <2>3. CASE call' = [call EXCEPT ![g] = RevokeCall(r, l)]
        <3>1. call'[g] = RevokeCall(r, l) /\ \A h \in Gate : h # g => call'[h] = call[h]
            BY <2>3 DEF TypeOK
        <3> QED
            BY <2>1, <3>1, AuthenticFrame DEF RevokeCall
    <2> QED
        BY <1>6, <2>2, <2>3 DEF Revoke
<1>7. ASSUME NEW g \in Gate, CheckReplay(g) PROVE ConsumesOwnKeys /\ AuthenticCalls'
    <2>1. UNCHANGED replay_entries /\ call[g] \in Call /\ call[g].pc = "contains"
        BY <1>7 DEF CheckReplay, durable, TypeOK, At
    <2>2. CASE Goto(g, "validate")
        <3>1. /\ call'[g].pc = "validate" /\ call'[g].command = call[g].command
              /\ \A h \in Gate : h # g => call'[h] = call[h]
            BY <2>1, <2>2 DEF Goto, TypeOK, Call
        <3> QED
            BY <2>1, <3>1 DEF ConsumesOwnKeys, AuthenticCalls
    <2> QED
        BY <1>4, <1>7, <2>1, <2>2 DEF CheckReplay
<1>8. ASSUME NEW g \in Gate, Validate(g) PROVE ConsumesOwnKeys /\ AuthenticCalls'
    <2> DEFINE verdict == validate_lease_for_command(call[g].lease, call[g].command, call[g].state,
                                                     revoked_lease_ids(g), clock)
    <2>1. UNCHANGED replay_entries /\ call[g] \in Call /\ call[g].pc = "validate"
        BY <1>8 DEF Validate, durable, TypeOK, At
    <2>2. verdict = Valid => /\ call[g].lease.issuer \in TrustedIssuers
                             /\ lease_signature_violation(call[g].lease) = Valid
        BY AdmissionFacts
    <2> HIDE DEF verdict
    <2>3. /\ call'[g].pc = "remember" /\ call'[g].reason = verdict
          /\ call'[g].lease = call[g].lease /\ call'[g].command = call[g].command
          /\ \A h \in Gate : h # g => call'[h] = call[h]
        BY <1>8, <2>1 DEF Validate, TypeOK, Call, verdict
    <2> QED
        BY <2>1, <2>2, <2>3 DEF ConsumesOwnKeys, AuthenticCalls
<1>9. ASSUME NEW g \in Gate, RecordRevocation(g) PROVE ConsumesOwnKeys /\ AuthenticCalls'
    <2>1. UNCHANGED replay_entries /\ call[g] \in Call
        BY <1>9 DEF RecordRevocation, TypeOK
    <2>2. CASE Goto(g, "apply")
        <3>1. call'[g].pc = "apply" /\ \A h \in Gate : h # g => call'[h] = call[h]
            BY <2>1, <2>2 DEF Goto, TypeOK, Call
        <3> QED
            BY <2>1, <3>1, AuthenticFrame
    <2> QED
        BY <1>4, <1>9, <2>1, <2>2 DEF RecordRevocation
<1>10. ASSUME NEW g \in Gate, \/ AllowCommand(g) \/ DenyCommand(g) \/ ApplyRevocation(g)
                              \/ StoreBusy(g) \/ Crash(g)
       PROVE  ConsumesOwnKeys /\ AuthenticCalls'
    BY <1>4, <1>10 DEF AllowCommand, DenyCommand, ApplyRevocation, StoreBusy, Crash, durable
<1>11. ASSUME NEW g \in Gate, Start(g) PROVE ConsumesOwnKeys /\ AuthenticCalls'
    BY <1>1, <1>11 DEF Start
<1> QED
    BY <1>2, <1>3, <1>5, <1>6, <1>7, <1>8, <1>9, <1>10, <1>11, RememberAuthentic
       DEF Next, GateStep, CallStep

(* Whatever is delivered to the gates, in whatever interleaving: a step    *)
(* that uses up an identifier in the replay store is that of a call whose  *)
(* own command is authentic and, for the nonce of a lease, whose own lease *)
(* a trusted issuer signed.                                                *)
THEOREM OnlyAuthenticConsumesHolds == Spec => OnlyAuthenticConsumes
<1>1. Init => TypeOK /\ AuthenticCalls
    <2> SUFFICES ASSUME Init PROVE TypeOK /\ AuthenticCalls
        OBVIOUS
    <2>1. \A g \in Gate : call[g].pc = "idle"
        BY DEF Init, IdleCall
    <2> QED
        BY <2>1, InitType DEF AuthenticCalls
<1>2. TypeOK /\ AuthenticCalls /\ [Next]_vars => (TypeOK /\ AuthenticCalls)'
    BY NextType, NextAuthentic
<1>3. TypeOK /\ AuthenticCalls /\ [Next]_vars => [ConsumesOwnKeys]_vars
    BY NextAuthentic
<1> QED
    BY <1>1, <1>2, <1>3, PTL DEF Spec, OnlyAuthenticConsumes

(* A step that consumes a lease nonce is the transaction of Remember for a *)
(* command that was found admissible.                                      *)
LEMMA NextConsumesTogether ==
    ASSUME TypeOK, [Next]_vars, NEW l \in Leases,
           lease_nonce_key(l) \in replay_entries' \ replay_entries
    PROVE  \E g \in Gate : /\ call[g].reason = Valid
                           /\ call'[g].pc = "answer"
                           /\ replay_entries' \ replay_entries
                                  = authorized_use_keys(call[g].command, call[g].lease)
<1>1. replay_entries' # replay_entries
    OBVIOUS
<1>2. PICK g \in Gate : Remember(g)
    <2>1. ~UNCHANGED vars /\ ~Tick
        BY <1>1 DEF vars, Tick, durable
    <2>2. PICK g \in Gate : GateStep(g)
        BY <2>1 DEF Next
    <2>3. /\ \A c \in Commands, k \in Leases \cup {None}, s \in States \cup {None} : ~Evaluate(g, c, k, s)
          /\ \A r \in Revocations \cup {None}, k \in Leases \cup {None} : ~Revoke(g, r, k)
        BY <1>1 DEF Evaluate, Revoke, durable
    <2>4. ~CheckReplay(g) /\ ~Validate(g) /\ ~AllowCommand(g) /\ ~DenyCommand(g)
        BY <1>1 DEF CheckReplay, Validate, AllowCommand, DenyCommand, durable
    <2>5. ~RecordRevocation(g) /\ ~ApplyRevocation(g) /\ ~StoreBusy(g) /\ ~Crash(g) /\ ~Start(g)
        BY <1>1 DEF RecordRevocation, ApplyRevocation, StoreBusy, Crash, Start, durable
    <2> QED
        BY <2>2, <2>3, <2>4, <2>5 DEF GateStep, CallStep
<1> DEFINE keys == remember_keys(call[g].command, call[g].lease, call[g].reason)
<1>3. /\ remember_conflict(call[g].command, call[g].lease, call[g].reason) = Valid
      /\ replay_entries' = replay_entries \cup keys
      /\ Goto(g, "answer")
    BY <1>1, <1>2 DEF Remember
<1>4. keys \cap replay_entries = {}
    BY <1>3, NoConflict
<1>5. lease_nonce_key(l) \in keys
    BY <1>3
<1>6. \A c : lease_nonce_key(l) \notin command_keys(c)
    BY DEF lease_nonce_key, command_keys
<1>7. call[g].reason = Valid
    BY <1>5, <1>6 DEF remember_keys
<1>8. call'[g].pc = "answer"
    BY <1>3 DEF Goto, TypeOK, Call
<1>9. keys = authorized_use_keys(call[g].command, call[g].lease)
    BY <1>7 DEF remember_keys
<1> HIDE DEF keys
<1> QED
    BY <1>3, <1>4, <1>7, <1>8, <1>9

(* A lease nonce is never consumed alone, nor for a command that is denied *)
(* or replayed: always in one transaction with the two keys of the command *)
(* that it authorizes.                                                     *)
THEOREM LeaseNonceOnlyWithCommandHolds == Spec => LeaseNonceOnlyWithCommand
<1>1. TypeOK /\ [Next]_vars => ConsumesLeaseWithCommand
    BY NextConsumesTogether DEF ConsumesLeaseWithCommand
<1> QED
    BY <1>1, TypeCorrect, PTL DEF Spec, LeaseNonceOnlyWithCommand
-----------------------------------------------------------------------------
(* Fallback declarations.                                                  *)

\* What a gate may declare.
Declarations ==
    [by : {"evaluate", "revoke"},
     trigger : Verdicts \cup {r.reason_code : r \in Revocations},
     fallback_action : {local_fallback_action(reason) : reason \in
         Verdicts \cup {r.reason_code : r \in Revocations} \cup {row.reason_code : row \in Rows}},
     lease_id : {l.lease_id : l \in Leases},
     revocation_id : {r.message_id : r \in Revocations} \cup {row.revocation_id : row \in Rows} \cup {None}]

(* The account of the declarations.  The messages behind a gate's memory,  *)
(* behind a call of revoke() that has committed and behind every           *)
(* declaration are recorded; a committed call has declared nothing yet,    *)
(* and no two calls have committed the same message.                       *)
FallbackLedger ==
    /\ declared \in Seq(Declarations)
    /\ \A g \in Gate, i \in LeaseIds :
           revocations[g][i] # None => revocations[g][i].revocation_id \in revocation_messages \cup {None}
    /\ \A g \in Gate : call[g].pc = "apply" =>
           /\ call[g].revocation.message_id \in revocation_messages
           /\ \A k \in DOMAIN declared :
                  declared[k].by = "revoke" => declared[k].revocation_id # call[g].revocation.message_id
    /\ \A g, h \in Gate : call[g].pc = "apply" /\ call[h].pc = "apply" /\ g # h =>
           call[g].revocation.message_id # call[h].revocation.message_id
    /\ \A k \in DOMAIN declared :
           declared[k].by = "revoke" => declared[k].revocation_id \in revocation_messages
    /\ OneFallbackPerRevocation
    /\ FallbackIsGrounded

(* A step that declares nothing and takes no call to "apply".              *)
LEMMA FallbackFrame ==
    ASSUME FallbackLedger, UNCHANGED <<declared, revocations, revocation_messages>>,
           \A h \in Gate : call'[h].pc = "apply" => call'[h] = call[h]
    PROVE  FallbackLedger'
BY DEF FallbackLedger, OneFallbackPerRevocation, FallbackIsGrounded

(* A call that returns is not at "apply"; the others are as before.        *)
LEMMA ReturnCall ==
    ASSUME TypeOK, NEW g \in Gate, Return(g)
    PROVE  call'[g].pc = "idle" /\ \A h \in Gate : h # g => call'[h] = call[h]
BY DEF TypeOK, Return, IdleCall

(* The revocation that a LEASE_REVOKED denial names is recorded.           *)
LEMMA DenialFallback ==
    ASSUME TypeOK, FallbackLedger, NEW g \in Gate, NEW c \in Commands, NEW l \in Leases,
           NEW reason \in Verdicts
    PROVE  \/ denial_fallback(g, c, l, reason) = << >>
           \/ \E d \in Declarations : /\ denial_fallback(g, c, l, reason) = <<d>>
                                      /\ d.by = "evaluate"
                                      /\ d.revocation_id \in revocation_messages \cup {None}
<1> DEFINE row == matching_authenticated_revocation(g, c, l, reason)
<1>1. l.lease_id \in LeaseIds /\ l.lease_id \in {k.lease_id : k \in Leases}
    BY DEF LeaseIds
<1>2. row = None \/ row = revocations[g][l.lease_id]
    BY GateAssumption DEF matching_authenticated_revocation
<1>3. row # None => row \in Rows /\ row.revocation_id \in revocation_messages \cup {None}
    BY <1>1, <1>2 DEF TypeOK, FallbackLedger
<1>4. CASE row # None
    <2> DEFINE d == Declaration("evaluate", reason, local_fallback_action(row.reason_code),
                                l.lease_id, row.revocation_id)
    <2>1. denial_fallback(g, c, l, reason) = <<d>>
        <3>1. reason \notin STATE_FALLBACK_DENIAL_REASONS
            BY <1>4 DEF matching_authenticated_revocation, STATE_FALLBACK_DENIAL_REASONS
        <3> QED
            BY <1>4, <3>1 DEF denial_fallback
    <2>2. row.reason_code \in {x.reason_code : x \in Rows} /\ row.revocation_id \in {x.revocation_id : x \in Rows}
        BY <1>3, <1>4
    <2>3. d \in Declarations
        <3>1. local_fallback_action(row.reason_code) \in {local_fallback_action(x) : x \in
                  Verdicts \cup {r.reason_code : r \in Revocations} \cup {y.reason_code : y \in Rows}}
            BY <2>2, Zenon
        <3> HIDE DEF row
        <3> QED
            BY <1>1, <2>2, <3>1 DEF Declarations, Declaration
    <2>4. d.by = "evaluate" /\ d.revocation_id = row.revocation_id
        BY DEF Declaration
    <2> QED
        BY <1>3, <1>4, <2>1, <2>3, <2>4
<1>5. CASE row = None /\ reason \in STATE_FALLBACK_DENIAL_REASONS
    <2> DEFINE d == Declaration("evaluate", reason, local_fallback_action(reason), l.lease_id, None)
    <2>1. denial_fallback(g, c, l, reason) = <<d>>
        BY <1>5 DEF denial_fallback
    <2>2. d \in Declarations /\ d.by = "evaluate" /\ d.revocation_id = None
        BY <1>1 DEF Declarations, Declaration
    <2> QED
        BY <2>1, <2>2
<1>6. CASE row = None /\ reason \notin STATE_FALLBACK_DENIAL_REASONS
    BY <1>6 DEF denial_fallback
<1> QED
    BY <1>4, <1>5, <1>6

(* Declaring d, or failing to sign it, changes the declarations by d or    *)
(* not at all.                                                             *)
LEMMA EmitOne ==
    ASSUME declared \in Seq(Declarations), NEW g \in Gate, NEW event, NEW d \in Declarations,
           AuditAndEmit(g, event, <<d>>)
    PROVE  declared' = declared \/ declared' = Append(declared, d)
<1>1. declared \o << >> = declared /\ declared \o <<d>> = Append(declared, d)
    OBVIOUS
<1> QED
    BY <1>1 DEF AuditAndEmit

(* A denial adds at most one declaration, which revoke() did not make.     *)
LEMMA DenyFallbacks ==
    ASSUME TypeOK, FallbackLedger, NEW g \in Gate, DenyCommand(g)
    PROVE  FallbackLedger'
<1> DEFINE ds == denial_fallback(g, call[g].command, call[g].lease, call[g].reason)
<1>1. call[g].command \in Commands /\ call[g].lease \in Leases /\ call[g].reason \in Verdicts
    BY DEF DenyCommand, At, TypeOK, CallContext, Call
<1>2. UNCHANGED <<revocations, revocation_messages>> /\ Return(g)
    BY DEF DenyCommand, durable
<1>3. \A h \in Gate : call'[h].pc = "apply" => call'[h] = call[h]
    BY <1>2, ReturnCall
<1>4. AuditAndEmit(g, AuditEvent("COMMAND_REJECTED", call[g].reason, call[g].command.command_id), ds)
    BY DEF DenyCommand
<1>5. declared \in Seq(Declarations)
    BY DEF FallbackLedger
<1> HIDE DEF ds
<1>6. CASE declared' = declared
    BY <1>2, <1>3, <1>6, FallbackFrame
<1>7. CASE ds = << >>
    <2>1. declared' = declared
        BY <1>4, <1>5, <1>7 DEF AuditAndEmit
    <2> QED
        BY <1>6, <2>1
<1>8. ASSUME NEW d \in Declarations, ds = <<d>>, d.by = "evaluate",
             d.revocation_id \in revocation_messages \cup {None}
      PROVE  FallbackLedger'
    <2>1. declared' = declared \/ declared' = Append(declared, d)
        BY <1>4, <1>5, <1>8, EmitOne
    <2>2. CASE declared' = Append(declared, d)
        <3>1. /\ declared' \in Seq(Declarations)
              /\ \A k \in DOMAIN declared' :
                     \/ k \in DOMAIN declared /\ declared'[k] = declared[k]
                     \/ declared'[k] = d
            BY <1>5, <2>2
        <3>2. OneFallbackPerRevocation'
            BY <1>8, <3>1 DEF FallbackLedger, OneFallbackPerRevocation
        <3>3. FallbackIsGrounded'
            BY <1>2, <1>8, <3>1 DEF FallbackLedger, FallbackIsGrounded
        <3> QED
            BY <1>2, <1>3, <1>8, <3>1, <3>2, <3>3 DEF FallbackLedger
    <2> QED
        BY <1>6, <2>1, <2>2
<1> QED
    BY <1>1, <1>7, <1>8, DenialFallback DEF ds

(* A commit of revoke() is for a message that no one has recorded, so none *)
(* has declared it and no other call is about to.                          *)
LEMMA RecordFallbacks ==
    ASSUME TypeOK, FallbackLedger, NEW g \in Gate, RecordRevocation(g)
    PROVE  FallbackLedger'
<1> DEFINE m == call[g].revocation.message_id
<1>1. UNCHANGED <<revocations, declared>> /\ call[g] \in Call /\ call[g].pc = "record"
    BY DEF RecordRevocation, At, TypeOK, AuditOnly
<1>2. CASE Return(g) /\ UNCHANGED revocation_messages
    BY <1>1, <1>2, ReturnCall, FallbackFrame
<1>3. CASE /\ m \notin revocation_messages /\ Goto(g, "apply")
           /\ revocation_messages' = revocation_messages \cup {m}
    <2>1. /\ call'[g].pc = "apply" /\ call'[g].revocation = call[g].revocation
          /\ \A h \in Gate : h # g => call'[h] = call[h]
        BY <1>1, <1>3 DEF Goto, TypeOK, Call
    <2>2. OneFallbackPerRevocation'
        BY <1>1 DEF FallbackLedger, OneFallbackPerRevocation
    <2>3. FallbackIsGrounded'
        BY <1>1, <1>3 DEF FallbackLedger, FallbackIsGrounded
    <2>4. \A h \in Gate : call'[h].pc = "apply" =>
              /\ call'[h].revocation.message_id \in revocation_messages'
              /\ \A k \in DOMAIN declared :
                     declared[k].by = "revoke" => declared[k].revocation_id # call'[h].revocation.message_id
        BY <1>3, <2>1 DEF FallbackLedger
    <2>5. \A h, j \in Gate : call'[h].pc = "apply" /\ call'[j].pc = "apply" /\ h # j =>
              call'[h].revocation.message_id # call'[j].revocation.message_id
        BY <1>3, <2>1 DEF FallbackLedger
    <2> HIDE DEF m
    <2> QED
        BY <1>1, <1>3, <2>2, <2>3, <2>4, <2>5 DEF FallbackLedger
<1> QED
    BY <1>2, <1>3 DEF RecordRevocation, already_recorded

(* The call of revoke() that committed a message declares it, once.        *)
LEMMA ApplyFallbacks ==
    ASSUME TypeOK, FallbackLedger, NEW g \in Gate, ApplyRevocation(g)
    PROVE  FallbackLedger'
<1> DEFINE r == call[g].revocation
           l == call[g].lease
           d == Declaration("revoke", r.reason_code, local_fallback_action(r.reason_code),
                            l.lease_id, r.message_id)
<1>1. r \in Revocations /\ l \in Leases /\ call[g].pc = "apply"
    BY DEF ApplyRevocation, At, TypeOK, CallContext
<1>2. UNCHANGED revocation_messages /\ Return(g)
    BY DEF ApplyRevocation, durable
<1>3. call'[g].pc = "idle" /\ \A h \in Gate : h # g => call'[h] = call[h]
    BY <1>2, ReturnCall
<1>4. r.message_id \in revocation_messages
    BY <1>1 DEF FallbackLedger
<1>5. \A h \in Gate, i \in LeaseIds :
          revocations'[h][i] # None => revocations'[h][i].revocation_id \in revocation_messages \cup {None}
    <2>1. r.lease_id \in LeaseIds /\ RevokedLease(r, l).revocation_id = r.message_id
        BY <1>1 DEF LeaseIds, RevokedLease
    <2>2. \A h \in Gate, i \in LeaseIds :
              revocations'[h][i] = IF h = g /\ i = r.lease_id THEN RevokedLease(r, l) ELSE revocations[h][i]
        BY <2>1 DEF ApplyRevocation, TypeOK
    <2> HIDE DEF r, l
    <2> QED
        BY <1>4, <2>1, <2>2 DEF FallbackLedger
<1>6. d \in Declarations /\ d.by = "revoke" /\ d.revocation_id = r.message_id
    <2>1. /\ r.reason_code \in {x.reason_code : x \in Revocations}
          /\ r.message_id \in {x.message_id : x \in Revocations}
          /\ l.lease_id \in {x.lease_id : x \in Leases}
        BY <1>1
    <2>2. local_fallback_action(r.reason_code) \in {local_fallback_action(x) : x \in
              Verdicts \cup {y.reason_code : y \in Revocations} \cup {y.reason_code : y \in Rows}}
        BY <2>1, Zenon
    <2> HIDE DEF r, l
    <2> QED
        BY <2>1, <2>2 DEF Declarations, Declaration
<1>7. AuditAndEmit(g, AuditEvent("LEASE_REVOKED", r.reason_code, r.message_id), <<d>>)
    BY DEF ApplyRevocation
<1>8. declared \in Seq(Declarations)
    BY DEF FallbackLedger
<1>9. r.message_id \notin {declared[k].revocation_id : k \in {j \in DOMAIN declared : declared[j].by = "revoke"}}
    BY <1>1 DEF FallbackLedger
<1>10. \A h \in Gate : call'[h].pc = "apply" => h # g /\ call[h].revocation.message_id # r.message_id
    BY <1>1, <1>3 DEF FallbackLedger
<1> HIDE DEF r, l, d
<1>11. declared' = declared \/ declared' = Append(declared, d)
    BY <1>6, <1>7, <1>8, EmitOne
<1>12. /\ declared' \in Seq(Declarations)
       /\ \A k \in DOMAIN declared' :
              \/ k \in DOMAIN declared /\ declared'[k] = declared[k]
              \/ k = Len(declared) + 1 /\ declared'[k] = d
    BY <1>6, <1>8, <1>11
<1>13. OneFallbackPerRevocation'
    BY <1>6, <1>9, <1>12 DEF FallbackLedger, OneFallbackPerRevocation
<1>14. FallbackIsGrounded'
    BY <1>2, <1>4, <1>6, <1>12 DEF FallbackLedger, FallbackIsGrounded
<1>15. \A h \in Gate : call'[h].pc = "apply" =>
           /\ call'[h].revocation.message_id \in revocation_messages
           /\ \A k \in DOMAIN declared' :
                  declared'[k].by = "revoke" => declared'[k].revocation_id # call'[h].revocation.message_id
    BY <1>3, <1>6, <1>10, <1>12 DEF FallbackLedger
<1>16. \A k \in DOMAIN declared' : declared'[k].by = "revoke" => declared'[k].revocation_id \in revocation_messages
    BY <1>4, <1>6, <1>12 DEF FallbackLedger
<1>17. \A h, j \in Gate : call'[h].pc = "apply" /\ call'[j].pc = "apply" /\ h # j =>
           call'[h].revocation.message_id # call'[j].revocation.message_id
    BY <1>3 DEF FallbackLedger
<1> QED
    BY <1>2, <1>5, <1>12, <1>13, <1>14, <1>15, <1>16, <1>17 DEF FallbackLedger

(* A gate that starts reads rows whose messages are recorded by then: the  *)
(* constructor of the store migrates the ids of older rows first.          *)
LEMMA StartFallbacks ==
    ASSUME TypeOK, FallbackLedger, NEW g \in Gate, Start(g)
    PROVE  FallbackLedger'
<1>1. UNCHANGED <<call, declared>> /\ revocation_messages' = revocation_messages \cup migrated_ids
    BY DEF Start
<1>2. \A i \in LeaseIds : revoked_leases[i] # None =>
          revoked_leases[i].revocation_id \in revocation_messages' \cup {None}
    BY <1>1 DEF migrated_ids
<1>3. revocations'[g] = revoked_leases /\ \A h \in Gate : h # g => revocations'[h] = revocations[h]
    BY DEF Start, TypeOK, initial_revocations, load_all
<1>4. OneFallbackPerRevocation' /\ FallbackIsGrounded'
    BY <1>1 DEF FallbackLedger, OneFallbackPerRevocation, FallbackIsGrounded
<1> QED
    BY <1>1, <1>2, <1>3, <1>4 DEF FallbackLedger

(* Every step of the gates keeps the account of the declarations.          *)
LEMMA NextFallbacks == TypeOK /\ FallbackLedger /\ [Next]_vars => FallbackLedger'
<1> SUFFICES ASSUME TypeOK, FallbackLedger, [Next]_vars PROVE FallbackLedger'
    OBVIOUS
<1>1. ASSUME UNCHANGED <<declared, revocations, revocation_messages, call>> PROVE FallbackLedger'
    BY <1>1, FallbackFrame
<1>2. CASE UNCHANGED vars
    BY <1>1, <1>2 DEF vars, durable, process, history
<1>3. CASE Tick
    BY <1>1, <1>3 DEF Tick, durable, process, history
<1>4. ASSUME NEW g \in Gate, UNCHANGED <<declared, revocations, revocation_messages>>, Return(g)
      PROVE  FallbackLedger'
    BY <1>4, ReturnCall, FallbackFrame
<1>5. ASSUME NEW g \in Gate, NEW c \in Commands, NEW l \in Leases \cup {None},
             NEW s \in States \cup {None}, Evaluate(g, c, l, s)
      PROVE  FallbackLedger'
    <2>1. UNCHANGED <<declared, revocations, revocation_messages>>
        BY <1>5 DEF Evaluate, durable, AuditOnly, RejectQuietly
    <2>2. CASE call' = [call EXCEPT ![g] = EvaluateCall(c, l, s)]
        <3>1. call'[g].pc = "contains" /\ \A h \in Gate : h # g => call'[h] = call[h]
            BY <2>2 DEF TypeOK, EvaluateCall
        <3> QED
            BY <2>1, <3>1, FallbackFrame
    <2> QED
        BY <1>1, <1>5, <2>1, <2>2 DEF Evaluate
<1>6. ASSUME NEW g \in Gate, NEW r \in Revocations \cup {None}, NEW l \in Leases \cup {None},
             Revoke(g, r, l)
      PROVE  FallbackLedger'
    <2>1. UNCHANGED <<declared, revocations, revocation_messages>>
        BY <1>6 DEF Revoke, durable, AuditOnly
    <2>2. CASE call' = [call EXCEPT ![g] = RevokeCall(r, l)]
        <3>1. call'[g].pc = "record" /\ \A h \in Gate : h # g => call'[h] = call[h]
            BY <2>2 DEF TypeOK, RevokeCall
        <3> QED
            BY <2>1, <3>1, FallbackFrame
    <2> QED
        BY <1>1, <1>6, <2>1, <2>2 DEF Revoke
<1>7. ASSUME NEW g \in Gate, UNCHANGED <<declared, revocations, revocation_messages>>,
             NEW pc \in {"validate", "answer"}, Goto(g, pc)
      PROVE  FallbackLedger'
    <2>1. call'[g].pc = pc /\ \A h \in Gate : h # g => call'[h] = call[h]
        BY <1>7 DEF TypeOK, Goto, Call
    <2> QED
        BY <1>7, <2>1, FallbackFrame
<1>8. ASSUME NEW g \in Gate, CheckReplay(g) PROVE FallbackLedger'
    <2>1. UNCHANGED <<declared, revocations, revocation_messages>>
        BY <1>8 DEF CheckReplay, durable, AuditOnly, RejectQuietly
    <2> QED
        BY <1>4, <1>7, <1>8, <2>1 DEF CheckReplay
<1>9. ASSUME NEW g \in Gate, Validate(g) PROVE FallbackLedger'
    <2>1. call'[g].pc = "remember" /\ \A h \in Gate : h # g => call'[h] = call[h]
        BY <1>9 DEF Validate, TypeOK, Call
    <2> QED
        BY <1>9, <2>1, FallbackFrame DEF Validate, durable, history
<1>10. ASSUME NEW g \in Gate, Remember(g) PROVE FallbackLedger'
    <2>1. UNCHANGED <<declared, revocations, revocation_messages>>
        BY <1>10 DEF Remember, AuditOnly, RejectQuietly
    <2> QED
        BY <1>4, <1>7, <1>10, <2>1 DEF Remember
<1>11. ASSUME NEW g \in Gate, AllowCommand(g) \/ StoreBusy(g) PROVE FallbackLedger'
    BY <1>4, <1>11 DEF AllowCommand, StoreBusy, durable, history, AuditOnly
<1>12. ASSUME NEW g \in Gate, Crash(g) PROVE FallbackLedger'
    <2>1. UNCHANGED <<declared, revocation_messages>> /\ Return(g)
        BY <1>12 DEF Crash, durable, history
    <2>2. \A h \in Gate : call'[h].pc = "apply" => call'[h] = call[h]
        BY <2>1, ReturnCall
    <2>3. \A h \in Gate, i \in LeaseIds : revocations'[h][i] # None => revocations'[h][i] = revocations[h][i]
        BY <1>12 DEF Crash, TypeOK
    <2>4. OneFallbackPerRevocation' /\ FallbackIsGrounded'
        BY <2>1 DEF FallbackLedger, OneFallbackPerRevocation, FallbackIsGrounded
    <2> QED
        BY <2>1, <2>2, <2>3, <2>4 DEF FallbackLedger
<1> QED
    BY <1>2, <1>3, <1>5, <1>6, <1>8, <1>9, <1>10, <1>11, <1>12,
       DenyFallbacks, RecordFallbacks, ApplyFallbacks, StartFallbacks DEF Next, GateStep, CallStep

(* The account of the declarations is right in every reachable state.      *)
THEOREM FallbackLedgerHolds == Spec => []FallbackLedger
<1>1. Init => TypeOK /\ FallbackLedger
    <2> SUFFICES ASSUME Init PROVE FallbackLedger
        BY InitType
    <2>1. /\ declared = << >>
          /\ \A g \in Gate : call[g].pc = "idle" /\ \A i \in LeaseIds : revocations[g][i] = None
        BY DEF Init, IdleCall
    <2> QED
        BY <2>1 DEF FallbackLedger, OneFallbackPerRevocation, FallbackIsGrounded
<1>2. TypeOK /\ FallbackLedger /\ [Next]_vars => (TypeOK /\ FallbackLedger)'
    BY NextType, NextFallbacks
<1> QED
    BY <1>1, <1>2, PTL DEF Spec

(* revoke() declares a fallback at most once for a revocation message,     *)
(* however often, to whichever gates and across which crashes it comes.    *)
THEOREM OneFallbackPerRevocationHolds == Spec => []OneFallbackPerRevocation
<1>1. FallbackLedger => OneFallbackPerRevocation
    BY DEF FallbackLedger
<1> QED
    BY <1>1, FallbackLedgerHolds, PTL

(* A fallback declared on account of a revocation names one that is in the *)
(* store, so a crash right after it does not bring the revocation back.    *)
THEOREM FallbackIsGroundedHolds == Spec => []FallbackIsGrounded
<1>1. FallbackLedger => FallbackIsGrounded
    BY DEF FallbackLedger
<1> QED
    BY <1>1, FallbackLedgerHolds, PTL
-----------------------------------------------------------------------------
(* CommandGate implements SingleUseLedger under the refinement mapping of  *)
(* its instance Ledger.                                                    *)

(* What a call holds is one of the uses, and is not empty.                 *)
LEMMA HeldUse ==
    ASSUME TypeOK, NEW g \in Gate, call[g].pc \in {"remember", "answer"}
    PROVE  held(g) \in AllUses /\ held(g) # {}
<1>1. call[g].command \in Commands /\ call[g].lease \in Leases
    BY DEF TypeOK, CallContext
<1>2. /\ command_keys(call[g].command) \in AllUses
      /\ authorized_use_keys(call[g].command, call[g].lease) \in AllUses
    BY <1>1 DEF AllUses
<1>3. command_keys(call[g].command) # {}
    BY DEF command_keys
<1> QED
    BY <1>2, <1>3 DEF held, remember_keys, authorized_use_keys

(* A step that neither inserts nor forwards and keeps the pending calls is *)
(* a stuttering step of the ledger.                                        *)
LEMMA StutterFrame ==
    ASSUME UNCHANGED <<replay_entries, forwarded>>,
           \A g \in Gate : (Pending(g)' <=> Pending(g)) /\ (Pending(g) => held(g)' = held(g))
    PROVE  UNCHANGED <<replay_entries, PendingUses, AnsweredUses>>
<1>1. AnsweredUses' = AnsweredUses
    BY DEF AnsweredUses, used
<1>2. PendingUses' = PendingUses
    BY DEF PendingUses
<1> QED
    BY <1>1, <1>2

(* A call that returns without having inserted rows changes no ledger.     *)
LEMMA ReturnStutters ==
    ASSUME TypeOK, NEW g \in Gate, ~Pending(g), Return(g),
           UNCHANGED <<replay_entries, forwarded>>
    PROVE  UNCHANGED <<replay_entries, PendingUses, AnsweredUses>>
<1>1. /\ ~Pending(g)'
      /\ \A h \in Gate : h # g => Pending(h)' = Pending(h) /\ held(h)' = held(h)
    BY ReturnPending
<1>2. \A h \in Gate : (Pending(h)' <=> Pending(h)) /\ (Pending(h) => held(h)' = held(h))
    BY <1>1 DEF Pending
<1> QED
    BY <1>2, StutterFrame

(* A call that has inserted its rows and returns lets go of exactly them.  *)
LEMMA ReturnReleases ==
    ASSUME TypeOK, ReplayLedger, NEW g \in Gate, Pending(g), Return(g)
    PROVE  /\ held(g) \in PendingUses
           /\ PendingUses' = PendingUses \ {held(g)}
<1>1. held(g) # {}
    BY HeldUse DEF Pending
<1>2. /\ ~Pending(g)'
      /\ \A h \in Gate : h # g => Pending(h)' = Pending(h) /\ held(h)' = held(h)
    BY ReturnPending
<1>3. \A h \in Gate : h # g /\ Pending(h) => held(h) # held(g)
    BY <1>1 DEF ReplayLedger
<1>4. held(g) \in PendingUses
    BY DEF PendingUses
<1>5. \A u : u \in PendingUses' <=> u \in PendingUses /\ u # held(g)
    BY <1>2, <1>3 DEF PendingUses
<1> QED
    BY <1>4, <1>5

(* A committed transaction of the replay store is Consume.                 *)
LEMMA RememberConsumes ==
    ASSUME TypeOK, ReplayLedger, NEW g \in Gate, Remember(g)
    PROVE  [Ledger!Next]_<<replay_entries, PendingUses, AnsweredUses>>
<1>1. call[g] \in Call /\ call[g].pc = "remember" /\ ~Pending(g)
    BY DEF Remember, At, TypeOK, Pending
<1>2. UNCHANGED forwarded
    BY DEF Remember
<1>3. CASE Return(g) /\ UNCHANGED replay_entries
    BY <1>1, <1>2, <1>3, ReturnStutters
<1>4. CASE /\ remember_conflict(call[g].command, call[g].lease, call[g].reason) = Valid
           /\ replay_entries' = replay_entries \cup held(g)
           /\ Goto(g, "answer")
    <2>1. held(g) \cap replay_entries = {} /\ held(g) \in AllUses
        BY <1>1, <1>4, NoConflict, HeldUse DEF held
    <2>2. \A h \in Gate : h # g => call'[h] = call[h]
        BY <1>4 DEF Goto, TypeOK
    <2>3. /\ call'[g].pc = "answer"
          /\ call'[g].command = call[g].command
          /\ call'[g].lease = call[g].lease
          /\ call'[g].reason = call[g].reason
        BY <1>1, <1>4 DEF Goto, TypeOK, Call
    <2>4. Pending(g)' /\ held(g)' = held(g)
        BY <2>3 DEF Pending, held, remember_keys, authorized_use_keys, command_keys, lease_nonce_key
    <2>5. \A h \in Gate : h # g => Pending(h)' = Pending(h) /\ held(h)' = held(h)
        BY <2>2 DEF Pending, held
    <2>6. PendingUses' = PendingUses \cup {held(g)}
        <3>1. \A u : u \in PendingUses' <=> u \in PendingUses \/ u = held(g)
            BY <1>1, <2>4, <2>5 DEF PendingUses
        <3> QED
            BY <3>1
    <2>7. AnsweredUses' = AnsweredUses
        BY <1>2 DEF AnsweredUses, used
    <2>8. Ledger!Consume(held(g))
        BY <1>4, <2>1, <2>6, <2>7 DEF Ledger!Consume
    <2> QED
        BY <2>1, <2>8 DEF Ledger!Next
<1> QED
    BY <1>3, <1>4 DEF Remember, held
(* Forwarding a command is Forward.                                        *)
LEMMA AllowForwards ==
    ASSUME TypeOK, ReplayLedger, NEW g \in Gate, AllowCommand(g)
    PROVE  Ledger!Next
<1>0. PICK n \in Nat : n = Len(forwarded)
    BY DEF TypeOK
<1>1. Pending(g) /\ held(g) = authorized_use_keys(call[g].command, call[g].lease)
    BY DEF AllowCommand, At, Pending, held, remember_keys
<1>2. held(g) \in PendingUses /\ PendingUses' = PendingUses \ {held(g)}
    BY <1>1, ReturnReleases DEF AllowCommand
<1>3. UNCHANGED replay_entries
    BY DEF AllowCommand, durable
<1>4. /\ DOMAIN forwarded = 1..n
      /\ DOMAIN forwarded' = 1..(n + 1)
      /\ forwarded'[n + 1].command = call[g].command
      /\ forwarded'[n + 1].lease = call[g].lease
      /\ \A i \in 1..n : forwarded'[i] = forwarded[i]
    BY <1>0 DEF AllowCommand, TypeOK
<1>5. used(n + 1)' = held(g)
    BY <1>1, <1>4 DEF used, authorized_use_keys, command_keys, lease_nonce_key
<1>6. \A i \in 1..n : used(i)' = used(i)
    BY <1>4 DEF used
<1>7. AnsweredUses = [i \in 1..n |-> used(i)]
    BY <1>4 DEF AnsweredUses
<1>8. AnsweredUses' = [i \in 1..(n + 1) |-> used(i)']
    BY <1>4 DEF AnsweredUses
<1> HIDE DEF used, held
<1>9. AnsweredUses' = Append(AnsweredUses, held(g))
    <2>1. AnsweredUses \in Seq({used(i) : i \in 1..n}) /\ Len(AnsweredUses) = n
        BY <1>7
    <2>2. Append(AnsweredUses, held(g)) = [i \in 1..(n + 1) |-> IF i = n + 1 THEN held(g) ELSE used(i)]
        BY <1>7, <2>1
    <2> QED
        BY <1>5, <1>6, <1>8, <2>2
<1>10. held(g) \in AllUses
    BY <1>1, HeldUse DEF Pending
<1> QED
    BY <1>2, <1>3, <1>9, <1>10 DEF Ledger!Next, Ledger!Forward

(* Denying a command, or stopping before it is answered, is GiveUp.        *)
LEMMA ReturnGivesUp ==
    ASSUME TypeOK, ReplayLedger, NEW g \in Gate, Return(g),
           UNCHANGED <<replay_entries, forwarded>>
    PROVE  [Ledger!Next]_<<replay_entries, PendingUses, AnsweredUses>>
<1>1. CASE ~Pending(g)
    BY <1>1, ReturnStutters
<1>2. CASE Pending(g)
    <2>1. held(g) \in PendingUses /\ PendingUses' = PendingUses \ {held(g)}
        BY <1>2, ReturnReleases
    <2>2. held(g) \in AllUses
        BY <1>2, HeldUse DEF Pending
    <2>3. AnsweredUses' = AnsweredUses
        BY DEF AnsweredUses, used
    <2> QED
        BY <2>1, <2>2, <2>3 DEF Ledger!Next, Ledger!GiveUp
<1> QED
    BY <1>1, <1>2

(* Every step of the gates is a step of the ledger, or changes it not.     *)
LEMMA NextRefines ==
    TypeOK /\ ReplayLedger /\ [Next]_vars
        => [Ledger!Next]_<<replay_entries, PendingUses, AnsweredUses>>
<1> SUFFICES ASSUME TypeOK, ReplayLedger, [Next]_vars
             PROVE  [Ledger!Next]_<<replay_entries, PendingUses, AnsweredUses>>
    OBVIOUS
<1>1. ASSUME UNCHANGED <<replay_entries, forwarded, call>>
      PROVE  [Ledger!Next]_<<replay_entries, PendingUses, AnsweredUses>>
    <2>1. \A g \in Gate : (Pending(g)' <=> Pending(g)) /\ (Pending(g) => held(g)' = held(g))
        BY <1>1 DEF Pending, held
    <2> QED
        BY <1>1, <2>1, StutterFrame
<1>2. CASE UNCHANGED vars
    BY <1>1, <1>2 DEF vars, durable, process, history
<1>3. CASE Tick
    BY <1>1, <1>3 DEF Tick, durable, process, history
<1>4. ASSUME NEW g \in Gate, ~Pending(g), call'[g].pc # "answer",
             \A h \in Gate : h # g => call'[h] = call[h],
             UNCHANGED <<replay_entries, forwarded>>
      PROVE  [Ledger!Next]_<<replay_entries, PendingUses, AnsweredUses>>
    <2>1. \A h \in Gate : (Pending(h)' <=> Pending(h)) /\ (Pending(h) => held(h)' = held(h))
        BY <1>4 DEF Pending, held
    <2> QED
        BY <1>4, <2>1, StutterFrame
<1>5. ASSUME NEW g \in Gate, ~Pending(g), NEW new, new.pc # "answer",
             call' = [call EXCEPT ![g] = new], UNCHANGED <<replay_entries, forwarded>>
      PROVE  [Ledger!Next]_<<replay_entries, PendingUses, AnsweredUses>>
    <2>1. call'[g] = new /\ \A h \in Gate : h # g => call'[h] = call[h]
        BY <1>5 DEF TypeOK
    <2> QED
        BY <1>4, <1>5, <2>1
<1>6. ASSUME NEW g \in Gate, NEW c \in Commands, NEW l \in Leases \cup {None},
             NEW s \in States \cup {None}, Evaluate(g, c, l, s)
      PROVE  [Ledger!Next]_<<replay_entries, PendingUses, AnsweredUses>>
    <2>1. EvaluateCall(c, l, s).pc # "answer"
        BY DEF EvaluateCall
    <2>2. ~Pending(g) /\ UNCHANGED <<replay_entries, forwarded>>
        BY <1>6 DEF Evaluate, At, Pending, durable
    <2> QED
        BY <1>1, <1>5, <1>6, <2>1, <2>2 DEF Evaluate
<1>7. ASSUME NEW g \in Gate, NEW r \in Revocations \cup {None}, NEW l \in Leases \cup {None},
             Revoke(g, r, l)
      PROVE  [Ledger!Next]_<<replay_entries, PendingUses, AnsweredUses>>
    <2>1. RevokeCall(r, l).pc # "answer"
        BY DEF RevokeCall
    <2>2. ~Pending(g) /\ UNCHANGED <<replay_entries, forwarded>>
        BY <1>7 DEF Revoke, At, Pending, durable
    <2> QED
        BY <1>1, <1>5, <1>7, <2>1, <2>2 DEF Revoke
<1>8. ASSUME NEW g \in Gate, ~Pending(g), NEW pc, pc # "answer", Goto(g, pc),
             UNCHANGED <<replay_entries, forwarded>>
      PROVE  [Ledger!Next]_<<replay_entries, PendingUses, AnsweredUses>>
    <2>1. call'[g].pc = pc /\ \A h \in Gate : h # g => call'[h] = call[h]
        BY <1>8 DEF Goto, TypeOK, Call
    <2> QED
        BY <1>4, <1>8, <2>1
<1>9. ASSUME NEW g \in Gate, CheckReplay(g)
      PROVE  [Ledger!Next]_<<replay_entries, PendingUses, AnsweredUses>>
    <2>1. ~Pending(g) /\ UNCHANGED <<replay_entries, forwarded>>
        BY <1>9 DEF CheckReplay, At, Pending, durable
    <2>2. Return(g) \/ Goto(g, "validate")
        BY <1>9 DEF CheckReplay
    <2> QED
        BY <1>8, <2>1, <2>2, ReturnStutters
<1>10. ASSUME NEW g \in Gate, Validate(g)
      PROVE  [Ledger!Next]_<<replay_entries, PendingUses, AnsweredUses>>
    <2>1. ~Pending(g) /\ UNCHANGED <<replay_entries, forwarded>>
        BY <1>10 DEF Validate, At, Pending, durable, history
    <2>2. call'[g].pc = "remember" /\ \A h \in Gate : h # g => call'[h] = call[h]
        BY <1>10 DEF Validate, TypeOK, Call
    <2> QED
        BY <1>4, <2>1, <2>2
<1>11. ASSUME NEW g \in Gate, RecordRevocation(g)
      PROVE  [Ledger!Next]_<<replay_entries, PendingUses, AnsweredUses>>
    <2>1. ~Pending(g) /\ UNCHANGED <<replay_entries, forwarded>>
        BY <1>11 DEF RecordRevocation, At, Pending
    <2>2. Return(g) \/ Goto(g, "apply")
        BY <1>11 DEF RecordRevocation
    <2> QED
        BY <1>8, <2>1, <2>2, ReturnStutters
<1>12. ASSUME NEW g \in Gate, DenyCommand(g) \/ ApplyRevocation(g) \/ StoreBusy(g) \/ Crash(g)
      PROVE  [Ledger!Next]_<<replay_entries, PendingUses, AnsweredUses>>
    BY <1>12, ReturnGivesUp DEF DenyCommand, ApplyRevocation, StoreBusy, Crash, durable, history
<1>13. ASSUME NEW g \in Gate, Start(g)
      PROVE  [Ledger!Next]_<<replay_entries, PendingUses, AnsweredUses>>
    BY <1>1, <1>13 DEF Start
<1> QED
    BY <1>2, <1>3, <1>6, <1>7, <1>9, <1>10, <1>11, <1>12, <1>13, RememberConsumes, AllowForwards
       DEF Next, GateStep, CallStep

(* An initial state of the gates is an empty ledger.                       *)
LEMMA InitRefines == Init => Ledger!Init
<1> SUFFICES ASSUME Init PROVE Ledger!Init
    OBVIOUS
<1>1. PendingUses = {}
    BY DEF Init, PendingUses, Pending, IdleCall
<1>2. AnsweredUses = << >>
    BY DEF Init, AnsweredUses
<1> QED
    BY <1>1, <1>2 DEF Init, Ledger!Init

(* The gates and their replay store implement the single-use ledger.       *)
THEOREM LedgerImplemented == Spec => ImplementsLedger
BY TypeCorrect, LedgerConsistent, InitRefines, NextRefines, PTL DEF Spec, ImplementsLedger, Ledger!Spec
=============================================================================
