---------------------------- MODULE CommandGate ----------------------------
(***************************************************************************)
(* The edge command gate: rclp_ros2/command_gate.py.                       *)
(*                                                                         *)
(* Several gate processes (or successive incarnations of one) share two    *)
(* durable SQLite stores, CommandReplayCache and RevocationStore.  Each    *)
(* process keeps in memory the revocations it knows (loaded from the store *)
(* once, when it is constructed), its audit log and its fallback events.   *)
(*                                                                         *)
(* Granularity.  A process handles one call of evaluate() or revoke() at a *)
(* time.  One step of the model ends at each SQLite transaction of the     *)
(* call, and at each later reading of the clock, so the steps of different *)
(* processes interleave exactly where the code lets them.  A process may   *)
(* stop between any two steps (Crash) and be constructed again (Start).    *)
(* Messages are delivered any number of times, in any order, to any gate.  *)
(***************************************************************************)
EXTENDS CommandRules, FiniteSets

CONSTANTS
    Gate,               \* gate processes that share the durable stores
    Commands,           \* signed EdgeCommands that may be delivered
    Leases,             \* CapabilityLeases that may accompany them
    States,             \* RobotStateAssertions that may accompany them
    Revocations,        \* LeaseRevocations that may be delivered
    RevokerEdgeScopes,  \* revoker_edge_scopes_by_id: trusted revoker -> edges
    MaxRevocationAge,   \* max_revocation_age_seconds
    FallbackOverrides,  \* fallback_actions_by_reason given to the constructor
    LegacyRows,         \* revoked_leases rows written before revocation_messages existed
    SignerOutcomes,     \* {TRUE}, or BOOLEAN when the fallback signer may raise
    MaxClock,           \* bound: the clock stops here
    MaxCalls            \* bound: calls delivered to all gates together

ASSUME GateAssumption ==
    /\ None \notin Commands \cup Leases \cup States \cup Revocations
    /\ MaxCommandAge \in Nat
    /\ MaxRevocationAge \in Nat
    /\ SignerOutcomes \subseteq BOOLEAN
    /\ MaxClock \in Nat
    /\ MaxCalls \in Nat

VARIABLES
    clock,
    calls,                \* number of calls delivered so far
    \* durable, shared by every gate
    replay_entries,       \* primary keys of command_replay_entries
    revocation_messages,  \* primary keys of revocation_messages
    revoked_leases,       \* lease_id -> RevokedLease row, or None
    \* one process
    up,
    call,                 \* the call a gate is handling
    revocations,          \* self.revocations: lease_id -> RevokedLease, or None
    audit_log,
    fallback_events,
    \* what has left the gates, for the properties
    forwarded,            \* commands answered allowed=True, in order
    declared,             \* fallback declarations handed to the sink, in order
    denied,               \* commands answered with a denial on their merits
    enforced              \* lease ids a gate has loaded or accepted as revoked

durable == <<replay_entries, revocation_messages, revoked_leases>>
process == <<up, call, revocations, audit_log, fallback_events>>
history == <<forwarded, declared, denied, enforced>>
vars == <<clock, calls, durable, process, history>>

-----------------------------------------------------------------------------
(* Keys and rows.                                                          *)

LeaseIds == {l.lease_id : l \in Leases} \cup {r.lease_id : r \in Revocations}
                \cup {row.lease_id : row \in LegacyRows}

\* The two rows that remember() inserts for a command.
command_keys(c) == { <<c.ctx.agent, "command_id", c.command_id>>,
                     <<c.ctx.agent, "command_nonce", c.command_nonce>> }

\* The third row of remember_authorized_use(): the lease nonce, in its own scope.
lease_nonce_key(l) == <<"__lease_nonce__", "lease_nonce", l.nonce>>

authorized_use_keys(c, l) == command_keys(c) \cup {lease_nonce_key(l)}

ReplayKeys == (UNION {command_keys(c) : c \in Commands}) \cup {lease_nonce_key(l) : l \in Leases}

\* revoke() builds this record from the message and the lease context it is given.
RevokedLease(r, l) ==
    [lease_id |-> r.lease_id, issuer |-> l.issuer, ctx |-> l.ctx,
     reason_code |-> r.reason_code, revocation_id |-> r.message_id]

Rows == LegacyRows \cup {RevokedLease(r, l) : r \in Revocations, l \in Leases}

\* A row is a record, never NULL.
ASSUME RowsAssumption == None \notin Rows

\* load_all(): every row of revoked_leases, keyed by lease_id.
load_all == revoked_leases

revoked_lease_ids(g) == {i \in LeaseIds : revocations[g][i] # None}

-----------------------------------------------------------------------------
(* Calls in progress.                                                      *)

\* What validate_lease_for_command can answer about the messages of the instance.
Verdicts ==
    {Valid} \cup
    {validate_lease_for_command(l, c, s, revoked, now) :
        l \in Leases, c \in Commands, s \in States \cup {None},
        revoked \in SUBSET LeaseIds, now \in 0..MaxClock}

Call == [pc : {"idle", "contains", "validate", "remember", "answer", "record", "apply"},
         command : Commands \cup {None}, lease : Leases \cup {None},
         state : States \cup {None}, revocation : Revocations \cup {None}, reason : Verdicts]

IdleCall == [pc |-> "idle", command |-> None, lease |-> None,
             state |-> None, revocation |-> None, reason |-> Valid]

EvaluateCall(c, l, s) == [pc |-> "contains", command |-> c, lease |-> l,
                          state |-> s, revocation |-> None, reason |-> Valid]

RevokeCall(r, l) == [pc |-> "record", command |-> None, lease |-> l,
                     state |-> None, revocation |-> r, reason |-> Valid]

Goto(g, pc) == call' = [call EXCEPT ![g].pc = pc]

Return(g) == call' = [call EXCEPT ![g] = IdleCall]

At(g, pc) == up[g] /\ call[g].pc = pc

-----------------------------------------------------------------------------
(* Authentication of revocations; that of commands is in CommandRules.     *)

revocation_time_violation(r, now) ==
    FirstViolation(<<
        Sub(StampsViolation(<<r.created_at, r.revoked_at>>, now, MaxRevocationAge,
            [invalid |-> "REVOCATION_TIMESTAMP_INVALID",
             early   |-> "REVOCATION_NOT_YET_VALID",
             stale   |-> "REVOCATION_STALE"])),
        <<r.created_at # None /\ r.revoked_at # None /\ r.revoked_at < r.created_at - ClockSkew,
          "REVOCATION_TIME_INCONSISTENT">> >>)

revocation_context_conflicts(r, l) ==
    \/ r.edge # l.ctx.edge
    \/ r.robot \notin {None, l.ctx.robot}
    \/ r.mission \notin {None, l.ctx.mission}
    \/ r.capability \notin {None, l.ctx.capability}

\* Every check revoke() makes before it touches the store, for a lease context that is there.
revocation_violation(r, l, now) ==
    FirstViolation(<<
        <<"PROTOCOL_VERSION_UNSUPPORTED" \in r.defects, "PROTOCOL_VERSION_UNSUPPORTED">>,
        <<LocalEdge # l.ctx.edge \/ LocalEdge # r.edge, "REVOCATION_EDGE_AGENT_MISMATCH">>,
        <<r.revoked_by \notin DOMAIN RevokerEdgeScopes, "REVOCATION_ACTOR_NOT_TRUSTED">>,
        Sub(FirstViolation(Static(r, <<
            "REVOCATION_SIGNATURE_ALGORITHM_MISSING",
            "REVOCATION_SIGNATURE_ALGORITHM_UNSUPPORTED",
            "REVOCATION_SIGNATURE_MISSING",
            "REVOCATION_SIGNED_MATERIAL_TOO_LARGE",
            "REVOCATION_KEY_NOT_TRUSTED",
            "REVOCATION_SIGNATURE_INVALID" >>))),
        <<\/ r.revoked_by \notin DOMAIN RevokerEdgeScopes
          \/ l.ctx.edge \notin RevokerEdgeScopes[r.revoked_by], "REVOCATION_ACTOR_SCOPE_MISMATCH">>,
        Sub(revocation_time_violation(r, now)),
        <<l.lease_id # r.lease_id, "REVOCATION_LEASE_MISMATCH">>,
        <<revocation_context_conflicts(r, l), "REVOCATION_CONTEXT_MISMATCH">> >>)
-----------------------------------------------------------------------------
(* Fallback declarations and audit events.                                 *)

STATE_FALLBACK_DENIAL_REASONS ==
    { "NETWORK_LATENCY_TOO_HIGH", "NETWORK_PACKET_LOSS_TOO_HIGH", "NETWORK_UPLINK_TOO_LOW",
      "NETWORK_DETACHED", "NETWORK_STATE_UNKNOWN", "GEOFENCE_CONSTRAINT_VIOLATED" }

CrawlReasons ==
    (STATE_FALLBACK_DENIAL_REASONS \ {"GEOFENCE_CONSTRAINT_VIOLATED"})
        \cup {"NETWORK_PROFILE_REVOKE", "NETWORK_DEGRADED_REVOKE"}

local_fallback_action(reason) ==
    CASE reason \in DOMAIN FallbackOverrides -> FallbackOverrides[reason]
      [] reason \notin DOMAIN FallbackOverrides /\ reason \in CrawlReasons -> "crawl_to_safe_zone"
      [] reason \notin DOMAIN FallbackOverrides /\ reason = "GEOFENCE_CONSTRAINT_VIOLATED" -> "hold_position"
      [] OTHER -> "local_autonomy_only"

AuditEvent(type, reason, ref) == [event_type |-> type, reason_code |-> reason, ref |-> ref]

\* `by` is not a field of the declaration: it says which operation made it.
Declaration(by, trigger, action, lease_id, revocation_id) ==
    [by |-> by, trigger |-> trigger, fallback_action |-> action,
     lease_id |-> lease_id, revocation_id |-> revocation_id]

\* The revocation that backs a LEASE_REVOKED denial, if its record is of this very lease.
matching_authenticated_revocation(g, c, l, reason) ==
    IF reason # "LEASE_REVOKED" \/ l = None THEN None
    ELSE LET row == revocations[g][l.lease_id]
         IN  IF \/ row = None
                \/ row.issuer # l.issuer
                \/ row.ctx # l.ctx
                \/ ~lease_matches_context(l, c.ctx)
             THEN None ELSE row

\* The declaration a denial makes, as a sequence of none or one.
denial_fallback(g, c, l, reason) ==
    LET row == matching_authenticated_revocation(g, c, l, reason)
    IN  CASE row # None ->
               << Declaration("evaluate", reason, local_fallback_action(row.reason_code),
                              l.lease_id, row.revocation_id) >>
          [] reason \in STATE_FALLBACK_DENIAL_REASONS ->
               << Declaration("evaluate", reason, local_fallback_action(reason), l.lease_id, None) >>
          [] OTHER -> << >>

(* The audit event of the operation, then _emit_fallback for the           *)
(* declarations ds.  When a signer is configured and raises, the exception *)
(* leaves _emit_fallback before anything is appended.                      *)
AuditAndEmit(g, event, ds) ==
    \E signed \in SignerOutcomes :
        LET out == IF signed THEN ds ELSE << >>
        IN  /\ audit_log' = [audit_log EXCEPT ![g] = @ \o <<event>> \o
                   [i \in DOMAIN out |-> AuditEvent("FALLBACK_DECLARED", out[i].trigger, out[i].revocation_id)]]
            /\ fallback_events' = [fallback_events EXCEPT ![g] = @ \o out]
            /\ declared' = declared \o out

AuditOnly(g, event) ==
    /\ audit_log' = [audit_log EXCEPT ![g] = Append(@, event)]
    /\ UNCHANGED <<fallback_events, declared>>

\* _reject_command(..., emit_fallback=False)
RejectQuietly(g, c, reason) == AuditOnly(g, AuditEvent("COMMAND_REJECTED", reason, c.command_id))

-----------------------------------------------------------------------------
(* evaluate()                                                              *)

\* contains(): the command id or the command nonce is already consumed.
contains(c) == command_keys(c) \cap replay_entries # {}

(* evaluate(), first part: authenticate the command, then compare the edge *)
(* ids.  Both failures are answered at once and consume nothing.           *)
Evaluate(g, c, l, s) ==
    LET reason == command_auth_violation(c, clock)
        local  == ~local_edge_context_mismatch(c, l)
    IN  /\ At(g, "idle")
        /\ calls < MaxCalls
        /\ calls' = calls + 1
        /\ \/ /\ reason # Valid
              /\ AuditOnly(g, AuditEvent("DIAGNOSTIC", reason, None))
              /\ UNCHANGED call
           \/ /\ reason = Valid /\ ~local
              /\ RejectQuietly(g, c, "EDGE_AGENT_MISMATCH")
              /\ UNCHANGED call
           \/ /\ reason = Valid /\ local
              /\ call' = [call EXCEPT ![g] = EvaluateCall(c, l, s)]
              /\ UNCHANGED <<audit_log, fallback_events, declared>>
        /\ UNCHANGED <<clock, durable, up, revocations, forwarded, denied, enforced>>

CheckReplay_Waits(g) ==   \* mutant: waits for a consumed command to become free
    /\ At(g, "contains")
    /\ ~contains(call[g].command)
    /\ IF call[g].lease = None THEN Return(g) ELSE Goto(g, "validate")
    /\ UNCHANGED <<clock, calls, durable, up, revocations, audit_log, fallback_events, history>>

(* The first look at the replay store, and the answer to a command that    *)
(* came without a lease.  Neither answer consumes anything.                *)
CheckReplay(g) ==
    LET c == call[g].command
    IN  /\ At(g, "contains")
        /\ \/ /\ contains(c)
              /\ RejectQuietly(g, c, "COMMAND_REPLAYED")
              /\ Return(g)
           \/ /\ ~contains(c) /\ call[g].lease = None
              /\ RejectQuietly(g, c, "NO_LEASE")
              /\ Return(g)
           \/ /\ ~contains(c) /\ call[g].lease # None
              /\ Goto(g, "validate")
              /\ UNCHANGED <<audit_log, fallback_events, declared>>
        /\ UNCHANGED <<clock, calls, durable, up, revocations, forwarded, denied, enforced>>

(* validate_lease_for_command with the clock and the revocations that this *)
(* process knows now; the verdict is used later, in Remember.              *)
Validate(g) ==
    /\ At(g, "validate")
    /\ call' = [call EXCEPT
           ![g].pc = "remember",
           ![g].reason = validate_lease_for_command(call[g].lease, call[g].command, call[g].state,
                                                    revoked_lease_ids(g), clock)]
    /\ UNCHANGED <<clock, calls, durable, up, revocations, audit_log, fallback_events, history>>

\* The rows the transaction inserts: remember_authorized_use() or remember().
remember_keys_CommandOnly(c, l, reason) == command_keys(c)   \* mutant: lease nonce not consumed

remember_keys_AllowedOnly(c, l, reason) ==   \* mutant: a denied command is not consumed
    IF reason = Valid THEN authorized_use_keys(c, l) ELSE {}

remember_keys_AlwaysLease(c, l, reason) == authorized_use_keys(c, l)   \* mutant: a denial uses the lease up

remember_keys(c, l, reason) ==
    IF reason = Valid THEN authorized_use_keys(c, l) ELSE command_keys(c)

(* A primary key that is already there rolls the whole transaction back;   *)
(* the first conflicting insert names the reason.                          *)
remember_conflict_CheckThenAct(c, l, reason) ==   \* mutant: INSERT OR IGNORE
    Valid

remember_conflict(c, l, reason) ==
    FirstViolation(<<
        <<contains(c), "COMMAND_REPLAYED">>,
        <<reason = Valid /\ lease_nonce_key(l) \in replay_entries, "LEASE_NONCE_REPLAYED">> >>)

(* One transaction on the replay store: consume the command (and, for an   *)
(* allowed one, the lease nonce), or answer that one of them was consumed. *)
Remember(g) ==
    LET c == call[g].command
        l == call[g].lease
        reason == call[g].reason
        conflict == remember_conflict(c, l, reason)
    IN  /\ At(g, "remember")
        /\ \/ /\ conflict # Valid
              /\ RejectQuietly(g, c, conflict)
              /\ Return(g)
              /\ UNCHANGED replay_entries
           \/ /\ conflict = Valid
              /\ replay_entries' = replay_entries \cup remember_keys(c, l, reason)
              /\ Goto(g, "answer")
              /\ UNCHANGED <<audit_log, fallback_events, declared>>
        /\ UNCHANGED <<clock, calls, revocation_messages, revoked_leases, up, revocations,
                       forwarded, denied, enforced>>

\* COMMAND_ALLOWED is audited and GateResult(allowed=True) returned: the caller forwards.
AllowCommand(g) ==
    LET c == call[g].command
        l == call[g].lease
    IN  /\ At(g, "answer")
        /\ call[g].reason = Valid
        /\ AuditOnly(g, AuditEvent("COMMAND_ALLOWED", Valid, c.command_id))
        /\ forwarded' = Append(forwarded, [gate |-> g, command |-> c, lease |-> l])
        /\ Return(g)
        /\ UNCHANGED <<clock, calls, durable, up, revocations, denied, enforced>>

\* _reject_command with a fallback when the reason calls for one.
DenyCommand(g) ==
    LET c == call[g].command
        l == call[g].lease
        reason == call[g].reason
    IN  /\ At(g, "answer")
        /\ reason # Valid
        /\ AuditAndEmit(g, AuditEvent("COMMAND_REJECTED", reason, c.command_id),
                        denial_fallback(g, c, l, reason))
        /\ denied' = denied \cup {c}
        /\ Return(g)
        /\ UNCHANGED <<clock, calls, durable, up, revocations, forwarded, enforced>>

-----------------------------------------------------------------------------
(* revoke()                                                                *)

(* The checks of revoke().  A raw lease id instead of a message (r = None) *)
(* and a missing lease context are refused before anything is read.        *)
Revoke(g, r, l) ==
    LET reason == IF r = None \/ l = None THEN "REVOCATION_CONTEXT_REQUIRED"
                  ELSE revocation_violation(r, l, clock)
        type == IF r # None /\ l = None THEN "DIAGNOSTIC" ELSE "REVOCATION_REJECTED"
    IN  /\ At(g, "idle")
        /\ calls < MaxCalls
        /\ calls' = calls + 1
        /\ \/ /\ r = None /\ l = None
              /\ UNCHANGED <<call, audit_log, fallback_events, declared>>
           \/ /\ reason # Valid /\ (r # None \/ l # None)
              /\ AuditOnly(g, AuditEvent(type, reason, None))
              /\ UNCHANGED call
           \/ /\ reason = Valid
              /\ call' = [call EXCEPT ![g] = RevokeCall(r, l)]
              /\ UNCHANGED <<audit_log, fallback_events, declared>>
        /\ UNCHANGED <<clock, durable, up, revocations, forwarded, denied, enforced>>

already_recorded_Never(r) == FALSE   \* mutant: revocation_messages has no primary key

\* The primary key of revocation_messages: this message was accepted before.
already_recorded(r) == r.message_id \in revocation_messages

(* RevocationStore.record(): one transaction that inserts the message and  *)
(* upserts the lease row.  A message already recorded is answered as       *)
(* replayed, and the in-memory revocations are left as they are.           *)
RecordRevocation(g) ==
    LET r == call[g].revocation
        l == call[g].lease
    IN  /\ At(g, "record")
        /\ \/ /\ already_recorded(r)
              /\ AuditOnly(g, AuditEvent("REVOCATION_REJECTED", "REVOCATION_REPLAYED", r.message_id))
              /\ Return(g)
              /\ UNCHANGED <<revocation_messages, revoked_leases, enforced>>
           \/ /\ ~already_recorded(r)
              /\ revocation_messages' = revocation_messages \cup {r.message_id}
              /\ revoked_leases' = [revoked_leases EXCEPT ![r.lease_id] = RevokedLease(r, l)]
              /\ enforced' = [enforced EXCEPT ![g] = @ \cup {r.lease_id}]
              /\ Goto(g, "apply")
              /\ UNCHANGED <<audit_log, fallback_events, declared>>
        /\ UNCHANGED <<clock, calls, replay_entries, up, revocations, forwarded, denied>>

\* Mutant: the fallback is emitted first, so a signer that raises skips the in-memory record.
ApplyRevocation_EmitFirst(g) ==
    LET r == call[g].revocation
        l == call[g].lease
        d == Declaration("revoke", r.reason_code, local_fallback_action(r.reason_code),
                         l.lease_id, r.message_id)
    IN  /\ At(g, "apply")
        /\ \E signed \in SignerOutcomes :
               /\ revocations' = IF signed THEN [revocations EXCEPT ![g][r.lease_id] = RevokedLease(r, l)]
                                ELSE revocations
               /\ declared' = IF signed THEN Append(declared, d) ELSE declared
        /\ Return(g)
        /\ UNCHANGED <<clock, calls, durable, up, audit_log, fallback_events, forwarded, denied, enforced>>

\* The rest of revoke(): the in-memory record, LEASE_REVOKED and the fallback.
ApplyRevocation(g) ==
    LET r == call[g].revocation
        l == call[g].lease
    IN  /\ At(g, "apply")
        /\ revocations' = [revocations EXCEPT ![g][r.lease_id] = RevokedLease(r, l)]
        /\ AuditAndEmit(g, AuditEvent("LEASE_REVOKED", r.reason_code, r.message_id),
               << Declaration("revoke", r.reason_code, local_fallback_action(r.reason_code),
                              l.lease_id, r.message_id) >>)
        /\ Return(g)
        /\ UNCHANGED <<clock, calls, durable, up, forwarded, denied, enforced>>

-----------------------------------------------------------------------------
(* Failures and the environment.                                           *)

(* SQLite gives up waiting for the lock (timeout=30): OperationalError     *)
(* leaves the call; the transaction never happened.                        *)
StoreBusy(g) ==
    /\ up[g] /\ call[g].pc \in {"contains", "remember", "record"}
    /\ Return(g)
    /\ UNCHANGED <<clock, calls, durable, up, revocations, audit_log, fallback_events, history>>

\* The process stops: everything in memory is gone.
Crash(g) ==
    /\ up[g]
    /\ up' = [up EXCEPT ![g] = FALSE]
    /\ Return(g)
    /\ revocations' = [revocations EXCEPT ![g] = [i \in LeaseIds |-> None]]
    /\ audit_log' = [audit_log EXCEPT ![g] = << >>]
    /\ fallback_events' = [fallback_events EXCEPT ![g] = << >>]
    /\ UNCHANGED <<clock, calls, durable, history>>

\* RevocationStore.__init__ copies the ids of legacy rows into revocation_messages.
migrated_ids_None == {}   \* mutant: no migration

migrated_ids_WithNull ==   \* mutant: WHERE revocation_id IS NOT NULL left out
    {revoked_leases[i].revocation_id : i \in {j \in LeaseIds : revoked_leases[j] # None}}

migrated_ids == {revoked_leases[i].revocation_id :
                     i \in {j \in LeaseIds : revoked_leases[j] # None}} \ {None}

\* The revocations a new gate starts from.
initial_revocations_Empty == [i \in LeaseIds |-> None]   \* mutant: store not read at construction

initial_revocations == load_all

\* RevocationStore(path), CommandReplayCache(path) and CommandGate(...) are constructed.
Start(g) ==
    /\ ~up[g]
    /\ up' = [up EXCEPT ![g] = TRUE]
    /\ revocation_messages' = revocation_messages \cup migrated_ids
    /\ revocations' = [revocations EXCEPT ![g] = initial_revocations]
    /\ enforced' = [enforced EXCEPT ![g] = @ \cup {i \in LeaseIds : revoked_leases[i] # None}]
    /\ UNCHANGED <<clock, calls, replay_entries, revoked_leases, call, audit_log, fallback_events,
                   forwarded, declared, denied>>

Tick ==
    /\ clock < MaxClock
    /\ clock' = clock + 1
    /\ UNCHANGED <<calls, durable, process, history>>

-----------------------------------------------------------------------------
(* The specification.                                                      *)

\* A fresh store, or one written by a version without revocation_messages.
Init ==
    /\ clock = 0
    /\ calls = 0
    /\ replay_entries = {}
    /\ revocation_messages = {}
    /\ \E rows \in {{}, LegacyRows} :
           revoked_leases = [i \in LeaseIds |->
               IF \E row \in rows : row.lease_id = i
               THEN CHOOSE row \in rows : row.lease_id = i ELSE None]
    /\ up = [g \in Gate |-> FALSE]
    /\ call = [g \in Gate |-> IdleCall]
    /\ revocations = [g \in Gate |-> [i \in LeaseIds |-> None]]
    /\ audit_log = [g \in Gate |-> << >>]
    /\ fallback_events = [g \in Gate |-> << >>]
    /\ forwarded = << >>
    /\ declared = << >>
    /\ denied = {}
    /\ enforced = [g \in Gate |-> {}]

\* The steps a call takes once it has been accepted by a running gate.
CallStep(g) ==
    \/ CheckReplay(g)
    \/ Validate(g)
    \/ Remember(g)
    \/ AllowCommand(g)
    \/ DenyCommand(g)
    \/ RecordRevocation(g)
    \/ ApplyRevocation(g)

GateStep(g) ==
    \/ \E c \in Commands, l \in Leases \cup {None}, s \in States \cup {None} : Evaluate(g, c, l, s)
    \/ \E r \in Revocations \cup {None}, l \in Leases \cup {None} : Revoke(g, r, l)
    \/ CallStep(g)
    \/ StoreBusy(g)
    \/ Crash(g)
    \/ Start(g)

Next == Tick \/ \E g \in Gate : GateStep(g)

Spec == Init /\ [][Next]_vars

(* A running gate finishes the call it is in: the code has no waiting of   *)
(* its own, and SQLite's lock wait ends after 30 seconds.  Nothing is      *)
(* assumed of deliveries, crashes, restarts or the clock.                  *)
FairSpec == Spec /\ \A g \in Gate : WF_vars(CallStep(g))
-----------------------------------------------------------------------------
(* Properties.                                                             *)

(* A call holds the messages that the point it has reached reads.          *)
CallContext ==
    \A g \in Gate :
        /\ call[g].pc \in {"contains", "validate", "remember", "answer"} => call[g].command \in Commands
        /\ call[g].pc \in {"validate", "remember", "answer"} => call[g].lease \in Leases
        /\ call[g].pc \in {"record", "apply"} =>
               call[g].revocation \in Revocations /\ call[g].lease \in Leases

(* Type invariant: the variables and the calls of evaluate() and revoke()  *)
(* that are in progress have the shape the code gives them.                *)
TypeOK ==
    /\ clock \in 0..MaxClock
    /\ calls \in 0..MaxCalls
    /\ replay_entries \subseteq ReplayKeys
    /\ revocation_messages \subseteq {r.message_id : r \in Revocations}
                                \cup ({row.revocation_id : row \in LegacyRows} \ {None})
    /\ revoked_leases \in [LeaseIds -> Rows \cup {None}]
    /\ up \in [Gate -> BOOLEAN]
    /\ call \in [Gate -> Call]
    /\ CallContext
    /\ revocations \in [Gate -> [LeaseIds -> Rows \cup {None}]]
    /\ DOMAIN audit_log = Gate
    /\ DOMAIN fallback_events = Gate
    /\ forwarded \in Seq([gate : Gate, command : Commands, lease : Leases])
    /\ denied \subseteq Commands
    /\ enforced \in [Gate -> SUBSET LeaseIds]

(* Single use: over all gates, restarts and redeliveries, no two answers   *)
(* allowed=True share a command id, a command nonce or a lease nonce.      *)
SingleUse ==
    \A i, j \in DOMAIN forwarded : i # j =>
        authorized_use_keys(forwarded[i].command, forwarded[i].lease)
            \cap authorized_use_keys(forwarded[j].command, forwarded[j].lease) = {}

(* A denial on the merits is final: the command that was answered with one *)
(* is never forwarded, before or after, by any gate, whatever lease or     *)
(* state it is presented with again.                                       *)
DenialIsFinal ==
    \A c \in denied, i \in DOMAIN forwarded :
        command_keys(c) \cap command_keys(forwarded[i].command) = {}

\* The rows that the call of g has inserted and has not answered for yet.
Pending(g) == call[g].pc = "answer"
held(g) == remember_keys(call[g].command, call[g].lease, call[g].reason)
used(i) == authorized_use_keys(forwarded[i].command, forwarded[i].lease)

(* The replay store accounts for every answer: the keys of each forwarded  *)
(* command, each denied one and each one about to be answered are in the   *)
(* store, and no key stands for two of them.  SingleUse and DenialIsFinal  *)
(* follow; unlike them this is preserved by every step of the gates.       *)
ReplayLedger ==
    /\ \A g \in Gate : Pending(g) => held(g) \subseteq replay_entries
    /\ \A i \in DOMAIN forwarded : used(i) \subseteq replay_entries
    /\ \A c \in denied : command_keys(c) \subseteq replay_entries
    /\ \A g, h \in Gate : g # h /\ Pending(g) /\ Pending(h) => held(g) \cap held(h) = {}
    /\ \A g \in Gate : Pending(g) => \A i \in DOMAIN forwarded : held(g) \cap used(i) = {}
    /\ \A g \in Gate : Pending(g) => \A c \in denied : held(g) \cap command_keys(c) = {}
    /\ SingleUse
    /\ DenialIsFinal

\* The ledger that the gates implement: a call that has inserted its rows holds them.
AllUses == {command_keys(c) : c \in Commands}
               \cup {authorized_use_keys(c, l) : c \in Commands, l \in Leases}
PendingUses == {held(g) : g \in {h \in Gate : Pending(h)}}
AnsweredUses == [i \in DOMAIN forwarded |-> used(i)]

Ledger == INSTANCE SingleUseLedger WITH
              Uses     <- AllUses,
              consumed <- replay_entries,
              pending  <- PendingUses,
              answered <- AnsweredUses

(* The gates implement the single-use ledger: whatever the interleaving of *)
(* their calls, crashes and redeliveries, the rows of a command are        *)
(* consumed in one step, once, and answered for at most once.              *)
ImplementsLedger == Ledger!Spec

\* The keys that a step consumes are those of a call whose own command, and own lease, are authentic.
ConsumesOwnKeys ==
    \A k \in replay_entries' \ replay_entries : \E g \in Gate :
        LET c == call[g].command
            l == call[g].lease
        IN  /\ call[g].pc = "remember"
            /\ call'[g].pc = "answer"
            /\ command_static_violation(c) = Valid
            /\ \/ k \in command_keys(c)
               \/ /\ call[g].reason = Valid
                  /\ l.issuer \in TrustedIssuers
                  /\ lease_signature_violation(l) = Valid
                  /\ k = lease_nonce_key(l)

(* A command that is not authentic never uses up an identifier, not even   *)
(* one that belongs to a genuine command of its agent, and a lease that no *)
(* trusted issuer signed never uses up the nonce of a genuine one: what is *)
(* consumed was authenticated in the very call that consumes it.           *)
OnlyAuthenticConsumes == [][ConsumesOwnKeys]_vars

\* No step consumes a lease nonce but the one that consumes a command under that lease.
ConsumesLeaseWithCommand ==
    LET new == replay_entries' \ replay_entries
    IN  \A l \in Leases : lease_nonce_key(l) \in new =>
           \E g \in Gate : /\ call[g].reason = Valid
                            /\ call'[g].pc = "answer"
                            /\ new = authorized_use_keys(call[g].command, call[g].lease)

(* A lease nonce is consumed only by the transaction that authorizes a     *)
(* command, together with that command's two keys, none of which was there *)
(* before: a denied, replayed or rolled-back attempt never uses a lease up. *)
LeaseNonceOnlyWithCommand == [][ConsumesLeaseWithCommand]_vars

\* No step is a gate's forwarding of a command under a lease it has to refuse.
ForwardsOnlyUnrevoked ==
    \A g \in Gate, c \in Commands, l \in Leases :
        forwarded' = Append(forwarded, [gate |-> g, command |-> c, lease |-> l])
            => l.lease_id \notin enforced[g]

(* A gate never forwards a command under a lease whose revocation it has   *)
(* accepted, in this life or an earlier one, or found in the store when it *)
(* was constructed.                                                        *)
RevocationSurvivesRestart == [][ForwardsOnlyUnrevoked]_vars

(* What a running gate knows of revocations: a lease id it accepted or     *)
(* found revoked stays revoked in the store and is in its memory (or about *)
(* to be, in a call of revoke() that has committed), and a verdict it has  *)
(* reached and not yet answered is not for such a lease.                   *)
RevocationKnowledge ==
    \A g \in Gate :
        /\ \A i \in enforced[g] : revoked_leases[i] # None
        /\ up[g] => \A i \in enforced[g] :
               \/ revocations[g][i] # None
               \/ call[g].pc = "apply" /\ call[g].revocation.lease_id = i
        /\ ~up[g] => call[g].pc = "idle"
        /\ call[g].pc \in {"remember", "answer"} /\ call[g].reason = Valid
               => call[g].lease.lease_id \notin enforced[g]

(* At most one fallback declaration is made by revoke() for a revocation   *)
(* message, however often and to whichever gate it is delivered.           *)
OneFallbackPerRevocation ==
    \A i, j \in DOMAIN declared :
        /\ declared[i].by = "revoke"
        /\ declared[j].by = "revoke"
        /\ declared[i].revocation_id = declared[j].revocation_id
        => i = j

(* A fallback that names a revocation names one that is durably recorded,  *)
(* so that a delivery of the same message after a crash is recognised.     *)
FallbackIsGrounded ==
    \A i \in DOMAIN declared :
        declared[i].revocation_id \in revocation_messages \cup {None}

(* Every call a gate takes up ends: with an answer, an exception or the    *)
(* end of the process.                                                     *)
CallsEnd == \A g \in Gate : call[g].pc # "idle" ~> call[g].pc = "idle"

(* A revocation that has been committed to the store takes effect in the   *)
(* gate that committed it, unless the gate stops.                          *)
CommittedRevocationApplies ==
    \A g \in Gate, i \in LeaseIds :
        (call[g].pc = "apply" /\ call[g].revocation.lease_id = i)
            ~> (revocations[g][i] # None \/ ~up[g])

(* What PROTOCOL_SPEC_DRAFT.md asks of an edge agent that knows a valid    *)
(* revocation: a gate that was itself given the revocation, and answered   *)
(* REVOCATION_REPLAYED, forwards nothing under that lease.                 *)
KnownRevocationRejects ==
    [][\A g \in Gate, c \in Commands, l \in Leases :
          forwarded' = Append(forwarded, [gate |-> g, command |-> c, lease |-> l])
              => ~ \E i \in DOMAIN audit_log[g], r \in Revocations :
                      /\ audit_log[g][i].reason_code = "REVOCATION_REPLAYED"
                      /\ audit_log[g][i].ref = r.message_id
                      /\ r.lease_id = l.lease_id]_vars
=============================================================================
