----------------------------- MODULE MCAuditLog -----------------------------
(***************************************************************************)
(* Inputs for AuditLog: an authority event, a diagnostic one, one without  *)
(* the context that its type needs, and one whose text holds a line        *)
(* separator.  The rows that others may write include every chain of two   *)
(* events over the first two, so a forger can rebuild a log, with hashes   *)
(* and proofs, around another payload.                                     *)
(***************************************************************************)
EXTENDS AuditLog

MCPayloads == {"go", "stop"}

Say(type, authority, context, separator, payload) ==
    [event_type |-> type, authority_relevant |-> authority, context |-> context,
     correlation_id |-> "mission", separator |-> separator, body |-> "b", payload |-> payload]

Authority == Say("COMMAND_ALLOWED", TRUE, TRUE, FALSE, "go")
Diagnostic == Say("DIAGNOSTIC", FALSE, FALSE, FALSE, "go")
NoContext == Say("COMMAND_ALLOWED", TRUE, FALSE, FALSE, "go")
Separated == Say("COMMAND_REJECTED", TRUE, TRUE, TRUE, "go")

MCContents == {Authority, Diagnostic, NoContext, Separated}

\* What a forger says: the log's own events, and one over another payload.
Forged == {Authority, [Authority EXCEPT !.payload = "stop"], Diagnostic}

Built(id, c, log) == committed_event(log, AuditCommit(id, c, None, None, None))

FirstRows == {Built(1, c, << >>) : c \in Forged}
SecondRows == UNION {{Built(2, c, <<first>>) : c \in Forged} : first \in FirstRows}

\* Besides whole chains: a payload changed in place, and a row without its proof.
MCRows == FirstRows \cup SecondRows
          \cup {[Built(1, Authority, << >>) EXCEPT !.payload = "stop"],
                [Built(1, Authority, << >>) EXCEPT !.integrity_proof = None]}

(* Drafts race with other events for their place in the log, over three    *)
(* ids; what is exported, altered and imported is the log, whoever built   *)
(* its events, over two.                                                   *)
DraftsApart ==
    IF draft # NoDraft
    THEN file = << >> /\ published = {} /\ load = Idle
         /\ \A i \in DOMAIN events : events[i].event_type = "COMMAND_ALLOWED"
    ELSE next_id <= 3
=============================================================================
