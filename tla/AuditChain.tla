----------------------------- MODULE AuditChain -----------------------------
(***************************************************************************)
(* The rules of the audit log: rclp_core/audit.py and the AuditCommit and  *)
(* AuditBatchCommit models of rclp_core/models.py.                         *)
(*                                                                         *)
(* A hash is modelled by what it is the hash of, so equal hashes have      *)
(* equal contents: stable_json_hash(p) is Hash(p), and an integrity proof, *)
(* the hash of an event's sealed fields and of the proof before it, is the *)
(* sequence of the sealed fields of every event up to this one.            *)
(*                                                                         *)
(* An event is a record.  `context` says whether robot_id and mission_id   *)
(* are both there; `separator` whether one of its texts (a command id that *)
(* a sender chose, for example) holds a Unicode line separator; `body`     *)
(* stands for the fields that the proof covers and nothing else reads.     *)
(***************************************************************************)
EXTENDS Naturals, Sequences, Crypto

CONSTANT BrokenLine   \* a line that json.loads or AuditCommit.model_validate does not accept

AUTHORITY_EVENT_TYPES ==
    { "CAPABILITY_REQUESTED", "NETWORK_STATE_ASSERTED", "CAPABILITY_ALLOWED", "CAPABILITY_DENIED",
      "CAPABILITY_DEGRADED", "COMMAND_ALLOWED", "COMMAND_REJECTED", "LEASE_REVOKED",
      "REVOCATION_REJECTED", "FALLBACK_DECLARED" }

AuditEventTypes == AUTHORITY_EVENT_TYPES \cup {"DEMO_SETUP", "DIAGNOSTIC"}

Hash(x) == <<"sha256", x>>

\* AuditCommit as its constructor leaves it: an absent payload_hash is computed.
AuditCommit(id, c, payload_hash, previous, proof) ==
    [audit_id |-> id, event_type |-> c.event_type, authority_relevant |-> c.authority_relevant,
     context |-> c.context, correlation_id |-> c.correlation_id, separator |-> c.separator,
     body |-> c.body, payload |-> c.payload,
     payload_hash |-> IF payload_hash = None THEN Hash(c.payload) ELSE payload_hash,
     previous_audit_hash |-> previous, integrity_proof |-> proof]

\* The fields that _integrity_proof hashes: the payload is there by its hash only.
sealed(e) ==
    [audit_id |-> e.audit_id, event_type |-> e.event_type, authority_relevant |-> e.authority_relevant,
     context |-> e.context, correlation_id |-> e.correlation_id, separator |-> e.separator,
     body |-> e.body, payload_hash |-> e.payload_hash]

integrity_proof(e, previous_hash) ==
    Append(IF previous_hash = None THEN << >> ELSE previous_hash, sealed(e))

\* self.events[-1].integrity_proof if self.events else None
chain_head(events) == IF events = << >> THEN None ELSE events[Len(events)].integrity_proof

-----------------------------------------------------------------------------
(* One event against the chain before it.                                  *)

context_invalid(e) ==
    e.event_type \in AUTHORITY_EVENT_TYPES /\ (~e.authority_relevant \/ ~e.context)

payload_hash_invalid(e) == e.payload_hash # Hash(e.payload)

audit_ids(events) == {events[i].audit_id : i \in DOMAIN events}

\* Why append() raises ValueError for event e, or Valid.
append_violation_AnyPrevious(events, e) ==   \* mutant: the named predecessor is not compared
    IF e.audit_id \in audit_ids(events) THEN "DUPLICATE_AUDIT_ID"
    ELSE IF context_invalid(e) THEN "CONTEXT"
    ELSE IF payload_hash_invalid(e) THEN "PAYLOAD_HASH"
    ELSE IF e.integrity_proof \notin {None, integrity_proof(e, chain_head(events))} THEN "PROOF"
    ELSE Valid

append_violation(events, e) ==
    LET previous_hash == chain_head(events)
    IN  IF e.audit_id \in audit_ids(events) THEN "DUPLICATE_AUDIT_ID"
        ELSE IF context_invalid(e) THEN "CONTEXT"
        ELSE IF payload_hash_invalid(e) THEN "PAYLOAD_HASH"
        ELSE IF e.previous_audit_hash \notin {None, previous_hash} THEN "PREVIOUS_HASH"
        ELSE IF e.integrity_proof \notin {None, integrity_proof(e, previous_hash)} THEN "PROOF"
        ELSE Valid

\* The copy that append() puts into the log.
committed_event_OwnPrevious(events, e) ==   \* mutant: "or previous_hash" is missing
    [e EXCEPT !.integrity_proof = integrity_proof(e, chain_head(events))]

committed_event(events, e) ==
    [e EXCEPT !.previous_audit_hash = chain_head(events),
              !.integrity_proof = integrity_proof(e, chain_head(events))]

(* What load_jsonl and audit_batch_chain_violation ask of an event that    *)
(* follows the events `before`, whose head is previous_hash.               *)
chain_event_violation(before, previous_hash, e) ==
    IF e.audit_id \in audit_ids(before) THEN "AUDIT_BATCH_DUPLICATE_AUDIT_ID"
    ELSE IF context_invalid(e) THEN "AUDIT_BATCH_EVENT_CONTEXT_INVALID"
    ELSE IF payload_hash_invalid(e) THEN "AUDIT_BATCH_EVENT_PAYLOAD_HASH_INVALID"
    ELSE IF e.previous_audit_hash # previous_hash THEN "AUDIT_BATCH_PREVIOUS_HASH_MISMATCH"
    ELSE IF e.integrity_proof # integrity_proof(e, previous_hash) THEN "AUDIT_BATCH_INTEGRITY_PROOF_INVALID"
    ELSE Valid
-----------------------------------------------------------------------------
(* Export and replay.                                                      *)

(* write_jsonl joins the events with "\n" and load_jsonl splits the file   *)
(* with str.splitlines(), which splits at every Unicode line separator as  *)
(* well; JSON text carries those as they are.  An event whose text holds   *)
(* one is read back as two broken lines.                                   *)
lines_of(e) == IF e.separator THEN <<BrokenLine, BrokenLine>> ELSE <<e>>

\* The file that write_jsonl leaves when it gets through the first n events.
jsonl(events, n) ==
    LET text[k \in 0..Len(events)] == IF k = 0 THEN << >> ELSE text[k - 1] \o lines_of(events[k])
    IN  text[n]

\* CorrelationReplay: the list that replay() files an event under.
replay_section(t) ==
    CASE t = "CAPABILITY_REQUESTED" -> "requests"
      [] t = "NETWORK_STATE_ASSERTED" -> "states"
      [] t \in {"CAPABILITY_ALLOWED", "CAPABILITY_DENIED", "CAPABILITY_DEGRADED"} -> "decisions"
      [] t \in {"COMMAND_ALLOWED", "COMMAND_REJECTED"} -> "enforcement"
      [] t \in {"LEASE_REVOKED", "REVOCATION_REJECTED"} -> "revocations"
      [] t = "FALLBACK_DECLARED" -> "fallbacks"
      [] OTHER -> "diagnostics"

\* One list of one group of replay(): by_correlation_id keeps the order of the log.
replay(events, correlation_id, section) ==
    SelectSeq(events, LAMBDA e : /\ e.correlation_id = correlation_id
                                 /\ replay_section(e.event_type) = section)
=============================================================================
