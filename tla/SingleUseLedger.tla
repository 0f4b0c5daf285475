-------------------------- MODULE SingleUseLedger --------------------------
(***************************************************************************)
(* What the gates and their replay store promise together: every set of    *)
(* identifiers is consumed at once, when none of them was consumed before, *)
(* and leads to at most one answer.  A consumed set is in the hands of one *)
(* call until it is answered: the command is forwarded, or the set is      *)
(* given up (the command is denied, or the process stops).                 *)
(***************************************************************************)
EXTENDS Sequences

CONSTANT Uses   \* the sets of identifiers that can be consumed together

VARIABLES
    consumed,   \* identifiers consumed so far
    pending,    \* sets that were consumed and not answered for yet
    answered    \* sets that were answered with a forwarded command, in order

Init ==
    /\ consumed = {}
    /\ pending = {}
    /\ answered = << >>

Consume(use) ==
    /\ use \cap consumed = {}
    /\ consumed' = consumed \cup use
    /\ pending' = pending \cup {use}
    /\ UNCHANGED answered

Forward(use) ==
    /\ use \in pending
    /\ pending' = pending \ {use}
    /\ answered' = Append(answered, use)
    /\ UNCHANGED consumed

GiveUp(use) ==
    /\ use \in pending
    /\ pending' = pending \ {use}
    /\ UNCHANGED <<consumed, answered>>

Next == \E use \in Uses : Consume(use) \/ Forward(use) \/ GiveUp(use)

Spec == Init /\ [][Next]_<<consumed, pending, answered>>
=============================================================================
