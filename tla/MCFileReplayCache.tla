------------------------- MODULE MCFileReplayCache -------------------------
(***************************************************************************)
(* Instances of FileReplayCache: commands that share an id or a nonce, two *)
(* lease nonces, and a malformed one.  A key is a tuple of texts.          *)
(***************************************************************************)
EXTENDS FileReplayCache, TLC

CONSTANTS v1, v2, v3

Cmd(id, nonce) == [agent |-> "agent", command_id |-> id, command_nonce |-> nonce]

SharedCommands == { Cmd("c1", "n1"), Cmd("c2", "n1"), Cmd("c1", "n2") }
MCNonces == { <<"l1">>, <<"l2">>, << >> }   \* << >> is an empty nonce
MCSingles == { <<"l1">> }
MCMalformed == { << >> }

\* A command, and another one that is sent again under a second lease.
RetryCommands == { Cmd("c1", "n1"), Cmd("c2", "n2") }
RetryNonces == { <<"l1">>, <<"l2">> }
NoKeys == {}

(* Three calls race as long as nothing fails; after a failure, two calls   *)
(* and two processes are enough for every roll-back to meet another call.  *)
FewerAfterFailure ==
    faulty => calls <= 2 /\ Cardinality({v \in Verifier : up[v]}) <= 2

VerifierSymmetry == Permutations(Verifier)
=============================================================================
