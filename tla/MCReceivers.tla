---------------------------- MODULE MCReceivers ----------------------------
(***************************************************************************)
(* The receivers of signed documents: whoever trusts an attestation, acts  *)
(* on a fallback declaration or accepts an audit batch.  They share no     *)
(* state and none keeps a record of what it has seen, so each behaviour    *)
(* follows one of them, with the others at rest.                           *)
(*                                                                         *)
(* The agent has three releases, of which the second changes only the      *)
(* manifest and the third only the key.  Each of the two edges has a gate  *)
(* with no key, its own or the other's.  The log holds one kind of event,  *)
(* and somebody else has built chains around another payload.              *)
(***************************************************************************)
EXTENDS Attestation, FallbackDelivery, AuditBatch, TLC

VARIABLE receiver

Init ==
    /\ receiver \in {"attestation", "fallback", "batch"}
    /\ AttestationInit
    /\ FallbackInit
    /\ BatchInit
    /\ receiver # "fallback" => signer \in [Edges -> {None}] /\ declared_as \in [Edges -> {None}]

Next ==
    \/ receiver = "attestation" /\ AttestationNext /\ UNCHANGED <<receiver, fallback_vars, batch_vars>>
    \/ receiver = "fallback" /\ FallbackNext /\ UNCHANGED <<receiver, attestation_vars, batch_vars>>
    \/ receiver = "batch" /\ BatchNext /\ UNCHANGED <<receiver, attestation_vars, fallback_vars>>

Spec == Init /\ [][Next]_<<receiver, attestation_vars, fallback_vars, batch_vars>>
-----------------------------------------------------------------------------
Release(key, key_id, manifest) == [key |-> key, key_id |-> key_id, manifest |-> manifest]
MCReleases == << Release("k1", "id1", "m1"), Release("k1", "id1", "m2"), Release("k2", "id2", "m2") >>

MCEdgeKeys == "edge1" :> "key1" @@ "edge2" :> "key2"

Said(p) == [event_type |-> "COMMAND_ALLOWED", authority_relevant |-> TRUE, context |-> TRUE,
            correlation_id |-> "mission", separator |-> FALSE, body |-> "b", payload |-> p]

MCContents == {Said("go")}
MCPayloads == {"go", "stop"}

Built(id, p, log) == committed_event(log, AuditCommit(id, Said(p), None, None, None))

MCForgeries ==
    LET one == Built(1, "stop", << >>)
    IN  {<< >>, <<one>>, <<one, Built(2, "go", <<one>>)>>, <<one, one>>}
=============================================================================
