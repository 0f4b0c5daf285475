----------------------------- MODULE AuditBatch -----------------------------
(***************************************************************************)
(* Signed audit batches: create_signed_audit_batch and the two checks of a *)
(* receiver, audit_batch_event_violation and audit_batch_auth_violation    *)
(* (rclp_core/audit.py), over the log of AuditChain.                       *)
(*                                                                         *)
(* A batch travels apart from the log and may be rewritten on the way; the *)
(* log grows meanwhile and its objects may be changed in memory, which the *)
(* signer has to notice.  The checks on the name of the signature          *)
(* algorithm and on a blank signer read the batch alone and are left out.  *)
(***************************************************************************)
EXTENDS AuditChain

CONSTANTS Contents, Payloads,
          Signers, TrustedSigners,   \* who signs; whose keys the receiver holds
          Forgeries,    \* event lists that somebody else has made up
          Starts,       \* where the windows of the log that are signed or shown may start
          MaxEvents,    \* bound on the length of the log
          MaxTampered   \* bound: longer logs are signed and shown as they are, from their start

ASSUME StartAssumption == Starts \subseteq Nat \ {0}
ASSUME TrustAssumption == TrustedSigners \subseteq Signers /\ None \notin Signers

\* What the integrity proofs of this log are made of, its events, and what is signed over them.
SealedEvents ==
    [audit_id : Nat, event_type : {c.event_type : c \in Contents},
     authority_relevant : {c.authority_relevant : c \in Contents}, context : {c.context : c \in Contents},
     correlation_id : {c.correlation_id : c \in Contents}, separator : {c.separator : c \in Contents},
     body : {c.body : c \in Contents}, payload_hash : {Hash(c.payload) : c \in Contents}]

AuditEvents ==
    [audit_id : Nat, event_type : {c.event_type : c \in Contents},
     authority_relevant : {c.authority_relevant : c \in Contents}, context : {c.context : c \in Contents},
     correlation_id : {c.correlation_id : c \in Contents}, separator : {c.separator : c \in Contents},
     body : {c.body : c \in Contents}, payload : {c.payload : c \in Contents} \cup Payloads,
     payload_hash : {Hash(c.payload) : c \in Contents},
     previous_audit_hash : Seq(SealedEvents) \cup {None}, integrity_proof : Seq(SealedEvents)]

BatchHashes ==
    {"sha256"} \X [audit_ids : Seq(Nat), event_count : Nat, chain_head : Seq(SealedEvents),
                   events : Seq(AuditEvents)]

BatchSignatures ==
    [key : Signers,
     over : [audit_ids : Seq(Nat), event_count : Nat, chain_head : Seq(SealedEvents),
             batch_hash : BatchHashes, signed_by : Signers, authenticated_signed_by : Signers,
             signature : {None}]]

\* No hash, signature or verdict is Python's None.
ASSUME NoneAssumption ==
    None \notin Seq(SealedEvents) \cup BatchSignatures \cup {Valid}

VARIABLES
    events,     \* AuditLog.events
    committed,  \* the objects as append() committed them
    batch,      \* the last batch that create_signed_audit_batch returned, or None
    review      \* what a receiver was shown last, and its verdict

batch_vars == <<events, committed, batch, review>>

NoReview == [batch |-> None, events |-> << >>, verdict |-> None, verbatim |-> FALSE]

BatchInit ==
    /\ events = << >>
    /\ committed = << >>
    /\ batch = None
    /\ review = NoReview
-----------------------------------------------------------------------------
\* The first violation in the chain, or Valid; a batch starts where the log starts.
audit_batch_chain_violation(evs) ==
    IF evs = << >> THEN "AUDIT_BATCH_EVENTS_REQUIRED"
    ELSE LET violation(i) == chain_event_violation(SubSeq(evs, 1, i - 1),
                                                   chain_head(SubSeq(evs, 1, i - 1)), evs[i])
             bad == {i \in DOMAIN evs : violation(i) # Valid}
         IN  IF bad = {} THEN Valid ELSE violation(CHOOSE i \in bad : \A j \in bad : i <= j)

ids_of(evs) == [i \in DOMAIN evs |-> evs[i].audit_id]

audit_batch_hash(evs) ==
    Hash([audit_ids |-> ids_of(evs), event_count |-> Len(evs),
          chain_head |-> chain_head(evs), events |-> evs])

\* AuditBatchCommit over evs, before it is signed.
AuditBatchCommit(evs, signed_by) ==
    [audit_ids |-> ids_of(evs), event_count |-> Len(evs), chain_head |-> chain_head(evs),
     batch_hash |-> audit_batch_hash(evs), signed_by |-> signed_by,
     authenticated_signed_by |-> signed_by, signature |-> None]

AuditIdBytes == 38          \* "audit_" and 32 hexadecimal digits
OtherSignedBytes == 470     \* the other signed fields together; none is near the limit of a field
MAX_BATCH_SIGNED_TEXT_FIELD_BYTES == 1024
MAX_BATCH_SIGNED_TEXT_TOTAL_BYTES == 16384

\* ",".join(batch.audit_ids) is one field of the budget.
audit_batch_signed_material_too_large_PerId(b) ==   \* mutant: every id is a field of its own
    \/ AuditIdBytes > MAX_BATCH_SIGNED_TEXT_FIELD_BYTES
    \/ AuditIdBytes * Len(b.audit_ids) + OtherSignedBytes > MAX_BATCH_SIGNED_TEXT_TOTAL_BYTES

audit_batch_signed_material_too_large(b) ==
    LET joined == (AuditIdBytes + 1) * Len(b.audit_ids) - 1
    IN  \/ joined > MAX_BATCH_SIGNED_TEXT_FIELD_BYTES
        \/ joined + OtherSignedBytes > MAX_BATCH_SIGNED_TEXT_TOTAL_BYTES

audit_batch_event_violation(b, evs) ==
    IF audit_batch_chain_violation(evs) # Valid THEN audit_batch_chain_violation(evs)
    ELSE IF b.audit_ids # ids_of(evs) THEN "AUDIT_BATCH_EVENT_IDS_MISMATCH"
    ELSE IF b.event_count # Len(evs) THEN "AUDIT_BATCH_EVENT_COUNT_MISMATCH"
    ELSE IF b.chain_head # chain_head(evs) THEN "AUDIT_BATCH_CHAIN_HEAD_MISMATCH"
    ELSE IF b.batch_hash # audit_batch_hash(evs) THEN "AUDIT_BATCH_HASH_MISMATCH"
    ELSE Valid

audit_batch_auth_violation_ClaimedSigner(b) ==   \* mutant: the key is looked up under signed_by
    IF b.authenticated_signed_by = None THEN "AUDIT_BATCH_AUTHENTICATED_SIGNER_MISSING"
    ELSE IF b.signature = None THEN "AUDIT_BATCH_SIGNATURE_MISSING"
    ELSE IF b.signed_by \notin TrustedSigners THEN "AUDIT_BATCH_SIGNER_KEY_NOT_TRUSTED"
    ELSE IF audit_batch_signed_material_too_large(b) THEN "AUDIT_BATCH_SIGNED_MATERIAL_TOO_LARGE"
    ELSE IF ~verify_with_public_key_b64(b, b.authenticated_signed_by) THEN "AUDIT_BATCH_SIGNATURE_INVALID"
    ELSE Valid

audit_batch_auth_violation(b) ==
    IF b.authenticated_signed_by = None THEN "AUDIT_BATCH_AUTHENTICATED_SIGNER_MISSING"
    ELSE IF b.authenticated_signed_by # b.signed_by THEN "AUDIT_BATCH_AUTHENTICATED_SIGNER_MISMATCH"
    ELSE IF b.signature = None THEN "AUDIT_BATCH_SIGNATURE_MISSING"
    ELSE IF b.authenticated_signed_by \notin TrustedSigners THEN "AUDIT_BATCH_SIGNER_KEY_NOT_TRUSTED"
    ELSE IF audit_batch_signed_material_too_large(b) THEN "AUDIT_BATCH_SIGNED_MATERIAL_TOO_LARGE"
    ELSE IF ~verify_with_public_key_b64(b, b.authenticated_signed_by) THEN "AUDIT_BATCH_SIGNATURE_INVALID"
    ELSE Valid
-----------------------------------------------------------------------------
Record(c) ==
    /\ Len(events) < IF events = committed THEN MaxEvents ELSE MaxTampered
    /\ LET e == committed_event(events, AuditCommit(Len(events) + 1, c, None, None, None))
       IN  events' = Append(events, e) /\ committed' = Append(committed, e)
    /\ UNCHANGED <<batch, review>>

\* An object of the log is changed in place (model_copy() in append() is shallow).
MutatePayload(i, p) ==
    /\ Len(events) <= MaxTampered
    /\ events' = [events EXCEPT ![i].payload = p]
    /\ UNCHANGED <<committed, batch, review>>

\* create_signed_audit_batch over a window of the log, which raises for a broken chain.
SignBatch(signer, evs) ==
    /\ audit_batch_chain_violation(evs) = Valid
    /\ batch' = Signed(signer, AuditBatchCommit(evs, signer))
    /\ UNCHANGED <<events, committed, review>>

\* What can become of a batch between the signer and the receiver of evs.
Rewritten(b, evs) ==
    LET forged == AuditBatchCommit(evs, b.signed_by)
    IN  { b,
          [b EXCEPT !.signature = None],
          [b EXCEPT !.authenticated_signed_by = None],
          [forged EXCEPT !.signature = b.signature] }
        \cup { Signed(key, AuditBatchCommit(evs, key)) : key \in Signers \ TrustedSigners }
        \cup { Signed(key, [forged EXCEPT !.authenticated_signed_by = key]) :
                  key \in Signers \ TrustedSigners }
        \cup { Signed(key, forged) : key \in Signers \ TrustedSigners }

\* A receiver checks a batch against the events it was shown with it.
Review(b, evs) ==
    /\ review' = [batch |-> b, events |-> evs, verbatim |-> b = batch,
                  verdict |-> IF audit_batch_event_violation(b, evs) # Valid
                              THEN audit_batch_event_violation(b, evs)
                              ELSE audit_batch_auth_violation(b)]
    /\ UNCHANGED <<events, committed, batch>>

\* The parts of the log that are signed, or shown with a batch.
Windows ==
    {SubSeq(events, a, b) : a \in IF Len(events) <= MaxTampered THEN Starts ELSE {1}, b \in DOMAIN events}

\* What a receiver may be shown.
Shown ==
    IF Len(events) <= MaxTampered
    THEN UNION {{<<b, evs>> : b \in Rewritten(batch, evs)} : evs \in Windows \cup Forgeries}
    ELSE {<<batch, evs>> : evs \in Windows}

\* A review changes nothing the others read, so one at the end stands for all.
BatchNext ==
    /\ review = NoReview
    /\ \/ \E c \in Contents : Record(c)
       \/ \E i \in DOMAIN events, p \in Payloads : MutatePayload(i, p)
       \/ \E signer \in Signers, evs \in Windows : SignBatch(signer, evs)
       \/ /\ batch # None
          /\ \E shown \in Shown : Review(shown[1], shown[2])

BatchSpec == BatchInit /\ [][BatchNext]_batch_vars
-----------------------------------------------------------------------------
(* A batch proves the log: what a receiver accepts is the log from its     *)
(* first event on, as append() committed it, whoever rewrote the batch,    *)
(* the events or the log's own objects since.                              *)
BatchProvesLog ==
    review.verdict = Valid =>
        \E n \in DOMAIN committed : review.events = SubSeq(committed, 1, n)

(* A batch that its signer made over events nobody changed goes on to      *)
(* verify while the log grows behind it, up to 26 events and no further:   *)
(* the joined identifiers are one field of the text budget.  A batch       *)
(* starts with the log, so no batch ever proves the event after those.     *)
SignedBatchVerifies ==
    /\ review.verbatim /\ review.batch.signed_by \in TrustedSigners
    /\ review.events = SubSeq(committed, 1, review.batch.event_count)
    => /\ review.verdict # Valid => review.batch.event_count > 26
       /\ review.verdict = Valid => review.batch.event_count <= 26
=============================================================================
