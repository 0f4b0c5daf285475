-------------------------- MODULE FileReplayCache --------------------------
(***************************************************************************)
(* The replay cache of the Rust edge verifier: replay.rs, as verifier.rs   *)
(* uses it.  A consumed key is a marker file in a directory that several   *)
(* verifier processes share.  The files of a set of keys are created one   *)
(* by one; create_new refuses a file that is there, and the call then      *)
(* removes the files it has made.                                          *)
(*                                                                         *)
(* Granularity.  Each creation and each removal of a file is a step, and   *)
(* so is the sync of the directory; writing and syncing the files that a   *)
(* call has made is one step, since nobody reads their contents.  Every    *)
(* operation on the file system may fail.  A process may stop between any  *)
(* two steps; when all have stopped, a loss of power may undo the          *)
(* creations and removals since the directory was last synced.             *)
(*                                                                         *)
(* A key is a tuple here, a text joined with `:' in the code, and a file   *)
(* name is the SHA-256 of that text: different keys are taken to have      *)
(* different names, so agents, ids and lease nonces hold no `:'.           *)
(***************************************************************************)
EXTENDS Integers, Sequences, FiniteSets

CONSTANTS
    Verifier,    \* processes that share the store directory
    Commands,    \* authenticated commands: agent, command_id, command_nonce
    Nonces,      \* nonces of the leases they come with
    Singles,     \* keys given to consume_nonce()
    Malformed,   \* keys that valid_nonce_text() refuses
    Faults,      \* operations that may fail: see FaultKinds
    MaxCalls     \* bound: calls of all verifiers together

FaultKinds == {"create", "write", "open_dir", "sync_dir", "remove", "crash"}

ASSUME CacheAssumption == Faults \subseteq FaultKinds /\ MaxCalls \in Nat

\* A lease nonce, which goes into the directory without a prefix, reads like no key of a command.
ASSUME NoncesAssumption ==
    \A n \in Nonces, c \in Commands :
        n \notin { <<"command-id", c.agent, c.command_id>>, <<"command-nonce", c.agent, c.command_nonce>> }

VARIABLES
    markers,    \* files in the store directory
    synced,     \* files in the directory as it is on disk
    up,
    call,       \* the call a verifier is in
    calls,      \* number of calls so far
    \* for the properties
    consumed,   \* keys of the sets that commit_nonce_set answered Consumed for
    answered,   \* sets of keys whose command was allowed or degraded, in order
    rejected,   \* <<keys, key>>: a call was rejected because key was there
    faulty      \* an operation has failed or a process has stopped

vars == <<markers, synced, up, call, calls, consumed, answered, rejected, faulty>>

-----------------------------------------------------------------------------
\* final_replay_violation: the keys of a command under a lease, in this order.
replay_keys(c, nonce) == << <<"command-id", c.agent, c.command_id>>,
                            <<"command-nonce", c.agent, c.command_nonce>>,
                            nonce >>

KeyLists == {replay_keys(c, n) : c \in Commands, n \in Nonces} \cup {<<k>> : k \in Singles}

KeysOf(list) == {list[i] : i \in DOMAIN list}
AllKeys == UNION {KeysOf(list) : list \in KeyLists}

\* The check that commit_nonce_set makes before it touches the directory.
set_malformed(list) ==
    \E i \in DOMAIN list : list[i] \in Malformed \/ \E j \in 1..(i - 1) : list[j] = list[i]

\* The first key of the list that is in the set.
first_in(list, keys) == list[CHOOSE i \in DOMAIN list :
                                /\ list[i] \in keys
                                /\ \A j \in 1..(i - 1) : list[j] \notin keys]

\* The key whose file is created next.
next_keys_Any(c) == KeysOf(c.keys) \ c.made   \* mutant: the keys are kept in a HashSet

next_keys(c) == {first_in(c.keys, KeysOf(c.keys) \ c.made)}

IdleCall == [pc |-> "idle", keys |-> << >>, made |-> {}, single |-> FALSE]
Call == [pc : {"idle", "create", "write", "sync", "remove", "answer"},
         keys : KeyLists \cup {<< >>}, made : SUBSET AllKeys, single : BOOLEAN]

At(v, pc) == up[v] /\ call[v].pc = pc
Goto(v, pc) == call' = [call EXCEPT ![v].pc = pc]
Return(v) == call' = [call EXCEPT ![v] = IdleCall]

\* An operation of this kind fails; `?` or the error branch follows.
Fails(kind) == kind \in Faults /\ faulty' = TRUE

(* consume_nonces(), as verify() calls it before it allows or degrades,    *)
(* and consume_nonce().  A malformed set is rejected at once.              *)
Begin(v, list, single) ==
    /\ At(v, "idle")
    /\ calls < MaxCalls
    /\ calls' = calls + 1
    /\ \/ set_malformed(list) /\ UNCHANGED call
       \/ /\ ~set_malformed(list)
          /\ call' = [call EXCEPT ![v] = [pc |-> "create", keys |-> list, made |-> {},
                                          single |-> single]]
    /\ UNCHANGED <<markers, synced, up, consumed, answered, rejected, faulty>>

ConsumeNonces(v, c, n) == Begin(v, replay_keys(c, n), FALSE)
ConsumeNonce(v, k) == Begin(v, <<k>>, TRUE)

(* create_new refuses a file that is there.                                *)
file_exists_Opened(k) == FALSE   \* mutant: create instead of create_new

file_exists(k) == k \in markers

\* The branch ErrorKind::AlreadyExists: what was made is removed first.
AlreadyExists_NoRollback(v) == Return(v)   \* mutant: without remove_markers

AlreadyExists(v) == Goto(v, "remove")

\* Where a call goes on once it has these files.
after_create(c, made) == IF made = KeysOf(c.keys) THEN "write" ELSE "create"

(* OpenOptions::create_new: the file is there, or it is new, or the        *)
(* operation fails.                                                        *)
CreateMarker(v) ==
    /\ At(v, "create")
    /\ \E k \in next_keys(call[v]) :
          \/ /\ file_exists(k)
             /\ rejected' = rejected \cup {<<call[v].keys, k>>}
             /\ AlreadyExists(v)
             /\ UNCHANGED <<markers, faulty>>
          \/ /\ ~file_exists(k)
             /\ markers' = markers \cup {k}
             /\ LET made == call[v].made \cup {k}
                IN  call' = [call EXCEPT ![v].made = made,
                                         ![v].pc = after_create(call[v], made)]
             /\ UNCHANGED <<rejected, faulty>>
          \/ /\ Fails("create")
             /\ Goto(v, "remove")
             /\ UNCHANGED <<markers, rejected>>
    /\ UNCHANGED <<synced, up, calls, consumed, answered>>

\* write_and_sync_marker_file for every marker, in order.
WriteMarkers(v) ==
    /\ At(v, "write")
    /\ \/ Goto(v, "sync") /\ UNCHANGED faulty
       \/ Fails("write") /\ Goto(v, "remove")
    /\ UNCHANGED <<markers, synced, up, calls, consumed, answered, rejected>>

\* The files on disk once the directory is synced.
directory_entries_Unsynced == synced   \* mutant: sync_all left out

directory_entries == markers

(* File::open(store_dir)?.sync_all().  The `?` of commit_nonce_set leaves  *)
(* the call with its files in place; commit_nonce removes its file.        *)
SyncDirectory(v) ==
    /\ At(v, "sync")
    /\ \/ /\ synced' = directory_entries
          /\ consumed' = consumed \cup call[v].made
          /\ Goto(v, "answer")
          /\ UNCHANGED faulty
       \/ /\ Fails("open_dir")
          /\ IF call[v].single THEN Goto(v, "remove") ELSE Return(v)
          /\ UNCHANGED <<synced, consumed>>
       \/ /\ Fails("sync_dir")
          /\ Goto(v, "remove")
          /\ UNCHANGED <<synced, consumed>>
    /\ UNCHANGED <<markers, up, calls, answered, rejected>>

\* What fs::remove_file leaves in the directory.
without_marker(k) == markers \ {k}

\* remove_markers: one file after the other; an error is ignored.
RemoveMarker(v) ==
    /\ At(v, "remove")
    /\ call[v].made # {}
    /\ LET k == first_in(call[v].keys, call[v].made)
       IN  /\ \/ markers' = without_marker(k) /\ UNCHANGED faulty
              \/ Fails("remove") /\ UNCHANGED markers
           /\ call' = [call EXCEPT ![v].made = @ \ {k}]
    /\ UNCHANGED <<synced, up, calls, consumed, answered, rejected>>

\* Rejected is returned and the command denied.
Reject(v) ==
    /\ At(v, "remove")
    /\ call[v].made = {}
    /\ Return(v)
    /\ UNCHANGED <<markers, synced, up, calls, consumed, answered, rejected, faulty>>

\* Consumed (or true) is returned; verify() then allows or degrades the command.
Answer(v) ==
    /\ At(v, "answer")
    /\ answered' = Append(answered, KeysOf(call[v].keys))
    /\ Return(v)
    /\ UNCHANGED <<markers, synced, up, calls, consumed, rejected, faulty>>

Crash(v) ==
    /\ up[v]
    /\ Fails("crash")
    /\ up' = [up EXCEPT ![v] = FALSE]
    /\ Return(v)
    /\ UNCHANGED <<markers, synced, calls, consumed, answered, rejected>>

\* FileReplayCache::new makes the directory and syncs it.
Start(v) ==
    /\ ~up[v]
    /\ up' = [up EXCEPT ![v] = TRUE]
    /\ synced' = markers
    /\ UNCHANGED <<markers, call, calls, consumed, answered, rejected, faulty>>

\* The machine stops: what was not synced is there afterwards, or is not.
PowerLoss ==
    /\ Fails("crash")
    /\ \A v \in Verifier : ~up[v]
    /\ \E lost \in SUBSET (markers \ synced), back \in SUBSET (synced \ markers) :
          markers' = (markers \ lost) \cup back
    /\ synced' = markers'
    /\ UNCHANGED <<up, call, calls, consumed, answered, rejected>>

-----------------------------------------------------------------------------
Init ==
    /\ markers = {}
    /\ synced = {}
    /\ up = [v \in Verifier |-> FALSE]
    /\ call = [v \in Verifier |-> IdleCall]
    /\ calls = 0
    /\ consumed = {}
    /\ answered = << >>
    /\ rejected = {}
    /\ faulty = FALSE

VerifierStep(v) ==
    \/ \E c \in Commands, n \in Nonces : ConsumeNonces(v, c, n)
    \/ \E k \in Singles : ConsumeNonce(v, k)
    \/ CreateMarker(v)
    \/ WriteMarkers(v)
    \/ SyncDirectory(v)
    \/ RemoveMarker(v)
    \/ Reject(v)
    \/ Answer(v)
    \/ Crash(v)
    \/ Start(v)

Next == PowerLoss \/ \E v \in Verifier : VerifierStep(v)

Spec == Init /\ [][Next]_vars

-----------------------------------------------------------------------------
(* Properties.                                                             *)

\* The files a call has made when it is at a point of consume_nonces().
CallOK(c) ==
    /\ c.made \subseteq KeysOf(c.keys)
    /\ c.pc \in {"write", "sync", "answer"} => c.made = KeysOf(c.keys)
    /\ c.pc = "create" => c.made # KeysOf(c.keys)
    /\ IF c.pc = "idle" THEN c.keys = << >> ELSE c.keys # << >>

(* Type invariant: a call of consume_nonces() has made files of its own    *)
(* keys only, and all of them once it writes or syncs.                     *)
TypeOK ==
    /\ markers \subseteq AllKeys
    /\ synced \subseteq AllKeys
    /\ up \in [Verifier -> BOOLEAN]
    /\ call \in [Verifier -> Call]
    /\ \A v \in Verifier : CallOK(call[v])
    /\ calls \in 0..MaxCalls
    /\ consumed \subseteq AllKeys
    /\ answered \in Seq(SUBSET AllKeys)
    /\ rejected \subseteq KeyLists \X AllKeys
    /\ faulty \in BOOLEAN

Pending(v) == call[v].pc = "answer"

(* The directory accounts for every key that was consumed: its file is     *)
(* there and would survive a loss of power, it was consumed by one call    *)
(* only, and no other call, rolling back, can remove it.                   *)
MarkerLedger ==
    /\ consumed \subseteq markers \cap synced
    /\ \A v \in Verifier : call[v].made \subseteq markers
    /\ \A v \in Verifier : IF Pending(v) THEN call[v].made \subseteq consumed
                           ELSE call[v].made \cap consumed = {}
    /\ \A v, w \in Verifier : v # w => call[v].made \cap call[w].made = {}
    /\ \A i \in DOMAIN answered : answered[i] \subseteq consumed
    /\ \A v \in Verifier, i \in DOMAIN answered : call[v].made \cap answered[i] = {}
    /\ \A i, j \in DOMAIN answered : i # j => answered[i] \cap answered[j] = {}

\* The sets of keys that were consumed and not answered for yet.
PendingUses == {KeysOf(call[v].keys) : v \in {w \in Verifier : Pending(w)}}

Ledger == INSTANCE SingleUseLedger WITH
              Uses     <- {KeysOf(list) : list \in KeyLists},
              consumed <- consumed,
              pending  <- PendingUses,
              answered <- answered

(* The marker files implement the ledger that the SQLite store of the      *)
(* Python gates implements: a set of keys is consumed in one step, the     *)
(* sync of the directory, and answered for at most once, whatever the      *)
(* interleaving, the failures of the file system and the losses of power.  *)
ImplementsLedger == Ledger!Spec

\* Every call has returned, and nothing has failed so far.
Quiet == ~faulty /\ \A v \in Verifier : call[v].pc = "idle"

(* A rejected call leaves nothing behind: as long as no operation fails    *)
(* and no process stops, every marker file belongs to a set that was       *)
(* consumed or to a call that is still running.                            *)
RejectedLeavesNothing ==
    ~faulty => markers = consumed \cup UNION {call[v].made : v \in Verifier}

(* Somebody wins: calls with overlapping keys may reject each other, but   *)
(* never all of them.  Every call creates its files in the same order of   *)
(* kinds, so a call that is stopped by another one's file is behind it.    *)
SomebodyWins == Quiet /\ rejected # {} => consumed # {}

(* What the contract of consume_nonces() says by `atomically': a call      *)
(* sees another one entirely or not at all.  So once all calls have        *)
(* returned, a call that was rejected because a key was there has a key    *)
(* that was consumed.                                                      *)
RejectedOnlyIfConsumed == Quiet => \A r \in rejected : KeysOf(r[1]) \cap consumed # {}
=============================================================================
