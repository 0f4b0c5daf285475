------------------------------ MODULE AuditLog ------------------------------
(***************************************************************************)
(* The audit log of one process (class AuditLog, rclp_core/audit.py), the  *)
(* file it is exported to, the chain heads that an operator writes down,   *)
(* and the import of such a file by load_jsonl.                            *)
(*                                                                         *)
(* The log lives in memory; a restart starts an empty one.  The file may   *)
(* be changed by anyone who can write it, and a crash while write_jsonl    *)
(* runs leaves any part of it.  load_jsonl reads the file once and then    *)
(* checks it line by line, one LoadLine step for each.  It changes nothing *)
(* that the log or the file's writers read, so one import at the end of a  *)
(* behaviour stands for every import.                                      *)
(***************************************************************************)
EXTENDS AuditChain

CONSTANTS Contents,     \* what the events of the model say: see Content
          Payloads, Correlations, Bodies,
          Rows,         \* the rows that somebody else may put into the file
          DraftKinds,   \* how callers build events of their own: "bare", "named", "sealed"
          MaxIds,       \* bound on the audit ids drawn
          MaxEdits,     \* bound on changes to the file by others
          MaxRestarts   \* bound on the restarts of the logging process

Content ==
    [event_type: AuditEventTypes, authority_relevant: BOOLEAN, context: BOOLEAN,
     correlation_id: Correlations, separator: BOOLEAN, body: Bodies, payload: Payloads]

Hashes == {Hash(p) : p \in Payloads}

Sealed ==
    [audit_id: Nat, event_type: AuditEventTypes, authority_relevant: BOOLEAN, context: BOOLEAN,
     correlation_id: Correlations, separator: BOOLEAN, body: Bodies, payload_hash: Hashes]

Proofs == Seq(Sealed) \cup {None}

\* AuditCommit objects, committed or not.
Event ==
    [audit_id: Nat, event_type: AuditEventTypes, authority_relevant: BOOLEAN, context: BOOLEAN,
     correlation_id: Correlations, separator: BOOLEAN, body: Bodies, payload: Payloads,
     payload_hash: Hashes, previous_audit_hash: Proofs, integrity_proof: Proofs]

ASSUME ContentAssumption == Contents \subseteq Content
ASSUME RowAssumption == Rows \subseteq Event
ASSUME KindAssumption == DraftKinds \subseteq {"bare", "named", "sealed"}
ASSUME NoneAssumption == None \notin Seq(Sealed) /\ BrokenLine \notin Event

VARIABLES
    events,     \* AuditLog.events
    committed,  \* what append() returned for each of them: the object it was then
    next_id,    \* the next audit id that uuid4() draws
    draft,      \* an AuditCommit some caller has built, and the log that it was built for
    published,  \* the chain heads an operator has kept, each with the log it is the head of
    file,       \* the lines of the exported file
    saved,      \* the committed log that the file is a whole, untouched copy of, or None
    load,       \* the import that is running, or the last one
    edits, restarts   \* bounded counters

vars == <<events, committed, next_id, draft, published, file, saved, load, edits, restarts>>

NoDraft == [event |-> None, seen |-> None]

Idle == [pc |-> "idle", profile |-> None, head |-> None, lines |-> << >>, k |-> 1,
         events |-> << >>, previous_hash |-> None, authority_events |-> FALSE, source |-> None]

Init ==
    /\ events = << >>
    /\ committed = << >>
    /\ next_id = 1
    /\ draft = NoDraft
    /\ published = {}
    /\ file = << >>
    /\ saved = None
    /\ load = Idle
    /\ edits = 0
    /\ restarts = 0
-----------------------------------------------------------------------------
(* The log.                                                                *)

\* append(): raises and changes nothing, or adds the sealed copy.
append(e) ==
    /\ append_violation(events, e) = Valid
    /\ events' = Append(events, committed_event(events, e))
    /\ committed' = Append(committed, committed_event(events, e))

\* record(): a new AuditCommit, with no predecessor or proof of its own.
Record(c) ==
    /\ next_id <= MaxIds
    /\ append(AuditCommit(next_id, c, None, None, None))
    /\ next_id' = next_id + 1
    /\ UNCHANGED <<draft, published, file, saved, load, edits, restarts>>

(* A caller builds an AuditCommit itself: bare, naming the predecessor it  *)
(* sees, or sealed with the proof as well.                                 *)
Draft(c, kind) ==
    /\ next_id <= MaxIds
    /\ draft = NoDraft
    /\ LET bare  == AuditCommit(next_id, c, None, None, None)
           named == AuditCommit(next_id, c, None, chain_head(events), None)
       IN  draft' = [event |-> CASE kind = "bare" -> bare
                                 [] kind = "named" -> named
                                 [] kind = "sealed" -> committed_event(events, bare),
                     seen |-> events]
    /\ next_id' = next_id + 1
    /\ UNCHANGED <<events, committed, published, file, saved, load, edits, restarts>>

\* append() of the draft, which its caller keeps and may append again.
AppendDraft ==
    /\ draft # NoDraft
    /\ append(draft.event)
    /\ UNCHANGED <<next_id, draft, published, file, saved, load, edits, restarts>>

(* model_copy() is shallow and the caller gets the log's own object: who   *)
(* holds a part of the payload may change it after it was committed.       *)
MutatePayload(i, p) ==
    /\ events' = [events EXCEPT ![i].payload = p]
    /\ UNCHANGED <<committed, next_id, draft, published, file, saved, load, edits, restarts>>

\* The process that holds the log ends, and another starts.
Restart ==
    /\ restarts < MaxRestarts
    /\ restarts' = restarts + 1
    /\ events' = << >>
    /\ committed' = << >>
    /\ UNCHANGED <<next_id, draft, published, file, saved, load, edits>>

\* An operator keeps the chain_head of the log.
Publish ==
    /\ events # << >>
    /\ published' = published \cup {[head |-> chain_head(events), log |-> committed]}
    /\ UNCHANGED <<events, committed, next_id, draft, file, saved, load, edits, restarts>>
-----------------------------------------------------------------------------
(* The file.                                                               *)

\* write_jsonl(), to its end.
WriteJsonl ==
    /\ file' = jsonl(events, Len(events))
    /\ saved' = IF events = committed THEN committed ELSE None
    /\ UNCHANGED <<events, committed, next_id, draft, published, load, edits, restarts>>

\* write_text() truncates the file and then writes: a crash leaves n lines and perhaps part of one.
TornWrite(n, rest) ==
    /\ restarts < MaxRestarts
    /\ restarts' = restarts + 1
    /\ file' = jsonl(events, n) \o rest
    /\ saved' = None
    /\ events' = << >>
    /\ committed' = << >>
    /\ UNCHANGED <<next_id, draft, published, load, edits>>

\* Somebody else replaces, inserts or removes a line.
AlterFile(i, row, drop) ==
    /\ edits < MaxEdits
    /\ edits' = edits + 1
    /\ file' = SubSeq(file, 1, i - 1) \o row \o SubSeq(file, i + drop, Len(file))
    /\ saved' = None
    /\ UNCHANGED <<events, committed, next_id, draft, published, load, restarts>>
-----------------------------------------------------------------------------
(* load_jsonl().                                                           *)

LoadStart(profile, head) ==
    /\ load.pc = "idle"
    /\ load' = [Idle EXCEPT !.pc = "reading", !.profile = profile, !.head = head,
                            !.lines = file, !.source = saved]
    /\ UNCHANGED <<events, committed, next_id, draft, published, file, saved, edits, restarts>>

\* The import comes to an end, and only what it returned or raised is left of it.
Finish(pc) ==
    load' = [Idle EXCEPT !.pc = pc, !.profile = load.profile, !.head = load.head,
                         !.events = IF pc = "done" THEN load.events ELSE << >>,
                         !.source = load.source]

\* Why the line at which load_jsonl stands raises ValueError, or Valid.
line_violation(line) ==
    IF line = BrokenLine THEN "BROKEN_LINE"
    ELSE IF line.integrity_proof = None THEN "NULL_FIELD"
    ELSE chain_event_violation(load.events, load.previous_hash, line)

authority_events(line) ==
    load.authority_events \/ line.authority_relevant \/ line.event_type \in AUTHORITY_EVENT_TYPES

LoadLine ==
    /\ load.pc = "reading"
    /\ load.k <= Len(load.lines)
    /\ LET line == load.lines[load.k]
       IN  IF line_violation(line) # Valid THEN Finish("refused")
           ELSE load' = [load EXCEPT !.k = @ + 1, !.events = Append(@, line),
                                     !.previous_hash = line.integrity_proof,
                                     !.authority_events = authority_events(line)]
    /\ UNCHANGED <<events, committed, next_id, draft, published, file, saved, edits, restarts>>

\* What is asked of the file as a whole, once every line is read.
import_violation_AnyHead ==   \* mutant: a head has to be given, and is not compared
    IF load.profile = "diagnostic_only"
    THEN IF load.authority_events THEN "AUTHORITY_EVENTS" ELSE Valid
    ELSE IF load.events # << >> /\ load.head = None THEN "TRUSTED_HEAD_REQUIRED" ELSE Valid

import_violation ==
    IF load.profile = "diagnostic_only"
    THEN IF load.authority_events THEN "AUTHORITY_EVENTS" ELSE Valid
    ELSE IF load.events = << >> THEN Valid
    ELSE IF load.head = None THEN "TRUSTED_HEAD_REQUIRED"
    ELSE IF load.head # load.previous_hash THEN "TRUSTED_HEAD_MISMATCH"
    ELSE Valid

LoadEnd ==
    /\ load.pc = "reading"
    /\ load.k > Len(load.lines)
    /\ Finish(IF import_violation = Valid THEN "done" ELSE "refused")
    /\ UNCHANGED <<events, committed, next_id, draft, published, file, saved, edits, restarts>>
-----------------------------------------------------------------------------
LogStep ==
    \/ \E c \in Contents : Record(c)
    \/ \E c \in Contents, kind \in DraftKinds : Draft(c, kind)
    \/ AppendDraft
    \/ \E i \in DOMAIN events, p \in Payloads : MutatePayload(i, p)
    \/ Restart
    \/ Publish

FileStep ==
    \/ WriteJsonl
    \/ \E n \in 0..Len(events), rest \in {<< >>, <<BrokenLine>>} : TornWrite(n, rest)
    \/ \E i \in 1..(Len(file) + 1), row \in {<< >>} \cup {<<r>> : r \in Rows}, drop \in {0, 1} :
          AlterFile(i, row, drop)

LoadStep ==
    \/ \E profile \in {"authority_chain", "diagnostic_only"},
          head \in {None} \cup {p.head : p \in published} : LoadStart(profile, head)
    \/ LoadLine
    \/ LoadEnd

Next == \/ load.pc = "idle" /\ (LogStep \/ FileStep)
        \/ LoadStep

Spec == Init /\ [][Next]_vars
-----------------------------------------------------------------------------
Line == Event \cup {BrokenLine}

(* Type invariant.  The log, the kept heads and what an import has taken   *)
(* in are AuditCommits; what append() has committed is sealed.             *)
TypeOK ==
    /\ events \in Seq(Event) /\ committed \in Seq(Event)
    /\ next_id \in Nat
    /\ draft.event \in Event \cup {None} /\ draft.seen \in Seq(Event) \cup {None}
    /\ \A p \in published : p.head \in Seq(Sealed) /\ p.log \in Seq(Event)
    /\ file \in Seq(Line)
    /\ saved \in Seq(Event) \cup {None}
    /\ load.pc \in {"idle", "reading", "done", "refused"}
    /\ load.lines \in Seq(Line) /\ load.k \in Nat
    /\ load.events \in Seq(Event) /\ load.previous_hash \in Proofs
    /\ load.authority_events \in BOOLEAN
    /\ edits \in Nat /\ restarts \in Nat

(* Tamper evidence.  Whatever was done to the file, to the log's objects   *)
(* and to the process, an import under the authority profile returns the   *)
(* log whose head the operator kept, event for event as append() committed *)
(* it; or it returns nothing at all, which load_jsonl accepts for an empty *)
(* file under every head.  An import that needs no head brings no event in *)
(* that grants, refuses or revokes authority, wherever in the file it      *)
(* stands.                                                                 *)
ImportIsFaithful ==
    load.pc = "done" =>
        IF load.profile = "authority_chain"
        THEN \/ load.events = << >>
             \/ \E p \in published : p.head = load.head /\ p.log = load.events
        ELSE \A i \in DOMAIN load.events :
                /\ ~load.events[i].authority_relevant
                /\ load.events[i].event_type \notin AUTHORITY_EVENT_TYPES

(* An export that was written to its end, whose events nobody changed and  *)
(* none of which holds a line separator, is taken back by an import that   *)
(* gives the head of the log.                                              *)
CleanRoundTrip ==
    /\ load.pc \in {"done", "refused"} /\ load.profile = "authority_chain" /\ load.source # None
    /\ load.head = chain_head(load.source)
    /\ \A i \in DOMAIN load.source : ~load.source[i].separator
    => load.pc = "done" /\ load.events = load.source

\* Where the draft lands when append() takes it.
LandsWhereSeen ==
    /\ draft.event.audit_id \notin audit_ids(committed)
    /\ draft.event.previous_audit_hash # None \/ draft.event.integrity_proof # None
       => chain_head(committed) = chain_head(draft.seen)

(* One event, one place.  append() takes no event twice, however many      *)
(* others came between; and a draft that names its predecessor, or that is *)
(* sealed, is committed only right behind the log its author saw: an event *)
(* that another caller recorded in between makes append() refuse it.       *)
DraftLandsWhereSeen == [][AppendDraft => LandsWhereSeen]_vars
=============================================================================
