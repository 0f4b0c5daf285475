-------------------------- MODULE FallbackDelivery --------------------------
(***************************************************************************)
(* Fallback declarations on their way from an edge to whoever acts on      *)
(* them: _emit_fallback() of command_gate.py and the signing and checking  *)
(* of rclp_core/fallback.py.                                               *)
(*                                                                         *)
(* A gate without a signer emits unsigned declarations, which its sink may *)
(* sign before it forwards them: sign_fallback_declaration() changes the   *)
(* very object that the gate keeps in fallback_events.  A gate may also be *)
(* constructed with the wrong key or the wrong name.  What is forwarded    *)
(* may be lost, delivered several times, late or damaged.                  *)
(***************************************************************************)
EXTENDS Naturals, Sequences, Crypto

CONSTANTS
    Edges,         \* edge agents, each with a gate
    Keys,          \* key pairs
    EdgeKeys,      \* edge_public_keys_by_id at the receiver
    Triggers,      \* what the declarations are about
    MaxDeclared,   \* bound: declarations emitted
    MaxReceived    \* bound: deliveries

ASSUME KeysAssumption == EdgeKeys \in [Edges -> Keys] /\ None \notin Edges

VARIABLES
    signer,            \* fallback_signer of each gate: a key, or None
    declared_as,       \* fallback_authenticated_declared_by of each gate, or None
    fallback_events,   \* the declarations emitted so far, with the edge that did
    wire,              \* what sinks have forwarded
    received           \* what the receiver was given, with its verdict, in order

fallback_vars == <<signer, declared_as, fallback_events, wire, received>>

-----------------------------------------------------------------------------
FallbackDeclaration(edge, trigger, n) ==
    [message_id |-> n, edge_agent_id |-> edge, trigger |-> trigger, declared_by |-> edge,
     authenticated_declared_by |-> None, defects |-> {}, signature |-> None]

Or(value, default) == IF value = None THEN default ELSE value

sign_fallback_declaration(d, key, as) ==
    Signed(key, [d EXCEPT !.authenticated_declared_by = Or(as, d.declared_by), !.signature = None])

\* `defects`: the signature algorithm is missing or unsupported; the text is over its budget.
fallback_declaration_auth_violation_AnyKey(d) ==   \* mutant: the signature is checked with the key it names
    CASE "ALGORITHM" \in d.defects -> "FALLBACK_SIGNATURE_ALGORITHM_UNSUPPORTED"
      [] d.authenticated_declared_by # d.declared_by -> "FALLBACK_AUTHENTICATED_DECLARED_BY_MISMATCH"
      [] d.signature = None -> "FALLBACK_SIGNATURE_MISSING"
      [] OTHER -> IF verify_with_public_key_b64(d, d.signature.key) THEN Valid ELSE "FALLBACK_SIGNATURE_INVALID"

fallback_declaration_auth_violation(d) ==
    IF "ALGORITHM" \in d.defects THEN "FALLBACK_SIGNATURE_ALGORITHM_UNSUPPORTED"
    ELSE IF d.authenticated_declared_by = None THEN "FALLBACK_AUTHENTICATED_DECLARED_BY_MISSING"
    ELSE IF d.authenticated_declared_by # d.declared_by THEN "FALLBACK_AUTHENTICATED_DECLARED_BY_MISMATCH"
    ELSE IF d.signature = None THEN "FALLBACK_SIGNATURE_MISSING"
    ELSE IF d.authenticated_declared_by \notin DOMAIN EdgeKeys THEN "FALLBACK_DECLARER_KEY_NOT_TRUSTED"
    ELSE IF "SIZE" \in d.defects THEN "FALLBACK_SIGNED_MATERIAL_TOO_LARGE"
    ELSE IF ~verify_with_public_key_b64(d, EdgeKeys[d.authenticated_declared_by])
         THEN "FALLBACK_SIGNATURE_INVALID"
    ELSE Valid
-----------------------------------------------------------------------------
FallbackInit ==
    /\ signer \in [Edges -> Keys \cup {None}]
    /\ declared_as \in [Edges -> Edges \cup {None}]
    /\ fallback_events = << >>
    /\ wire = {}
    /\ received = << >>

\* _emit_fallback(): the signer, when there is one, signs before the event is kept.
EmitFallback(e, trigger) ==
    LET d == FallbackDeclaration(e, trigger, Len(fallback_events) + 1)
        out == IF signer[e] = None THEN d ELSE sign_fallback_declaration(d, signer[e], declared_as[e])
    IN  /\ Len(fallback_events) < MaxDeclared
        /\ fallback_events' = Append(fallback_events, [by |-> e, declaration |-> out])
        /\ UNCHANGED <<signer, declared_as, wire, received>>

\* The sink of edge e signs an unsigned declaration, in place, for the trust boundary.
SignLater(i) ==
    /\ fallback_events[i].declaration.signature = None
    /\ LET e == fallback_events[i].by
       IN  fallback_events' = [fallback_events EXCEPT
               ![i].declaration = sign_fallback_declaration(@, EdgeKeys[e], None)]
    /\ UNCHANGED <<signer, declared_as, wire, received>>

Forward(i) ==
    /\ wire' = wire \cup {fallback_events[i].declaration}
    /\ UNCHANGED <<signer, declared_as, fallback_events, received>>

\* What can arrive when d is forwarded.
DeclarationArrivals(d) ==
    {d, [d EXCEPT !.signature = None], [d EXCEPT !.authenticated_declared_by = None]}
        \cup {[d EXCEPT !.trigger = t] : t \in Triggers}
        \cup {[d EXCEPT !.declared_by = e, !.authenticated_declared_by = e] : e \in Edges}
        \cup {[d EXCEPT !.defects = {x}] : x \in {"ALGORITHM", "SIZE"}}

Receive(d) ==
    /\ Len(received) < MaxReceived
    /\ received' = Append(received,
           [declaration |-> d, verdict |-> fallback_declaration_auth_violation(d)])
    /\ UNCHANGED <<signer, declared_as, fallback_events, wire>>

FallbackNext ==
    \/ \E e \in Edges, trigger \in Triggers : EmitFallback(e, trigger)
    \/ \E i \in DOMAIN fallback_events : SignLater(i) \/ Forward(i)
    \/ \E d \in wire : \E a \in DeclarationArrivals(d) : Receive(a)

FallbackSpec == FallbackInit /\ [][FallbackNext]_fallback_vars
-----------------------------------------------------------------------------
\* The declarations the receiver has accepted.
accepted == {i \in DOMAIN received : received[i].verdict = Valid}

(* What a receiver accepts is a declaration that the gate of the edge it   *)
(* names emitted, with that trigger, and that was signed with that edge's  *)
(* key: no damage on the way, nor a gate that has another edge's name or   *)
(* key, makes a declaration of an edge that did not make it.               *)
AcceptedWasDeclared ==
    \A i \in accepted : \E k \in DOMAIN fallback_events :
        LET d == received[i].declaration
        IN  /\ fallback_events[k].declaration = d
            /\ fallback_events[k].by = d.declared_by
            /\ d.signature.key = EdgeKeys[d.declared_by]

(* docs/PROTOCOL_SPEC_DRAFT.md:691 has a receiver reject a declaration     *)
(* that is "stale, duplicated, or superseded by fresher local state".  The *)
(* second of these: no declaration is accepted twice.  The code accepts    *)
(* it: fallback_declaration_auth_violation() looks at one declaration and  *)
(* at the keys, and remembers nothing.                                     *)
AcceptedOnce ==
    \A i, j \in accepted : received[i].declaration = received[j].declaration => i = j
=============================================================================
