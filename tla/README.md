# RCLP: a TLA+ verification of the capability-lease protocol

RCLP lets a central agent ask for a short-lived, signed *capability lease* to
assist a robot remotely, and lets an edge agent next to the robot decide, for
every command, whether a lease covers it.  The project in this directory models
the reference implementation (`src/src/rclp_core`, `src/src/rclp_ros2`,
`src/src/rclp_agents`) and the Rust edge verifier with its replay cache
(`src/crates/rclp-edge-verifier`), model-checks them with TLC on small instances and proves
their main safety properties with TLAPS for every instance.

`PROJECT.json` lists the components, the runs, the mutants each property is
tried against, the source lines each definition stands for, the hazards the
properties are aimed at and the theorems.

## 1. Inventory

### Components, their state and their operations

| component | state | operations | interacts with |
|---|---|---|---|
| edge command gate (`rclp_ros2/command_gate.py`, `CommandGate`) | `revocations` (in memory, copied from the store once, in `__init__`), `audit_log`, `fallback_events`, configuration | `evaluate()`, `revoke()` | calls the admission rules, the two stores below, a fallback signer and a fallback sink |
| command replay cache (`CommandReplayCache`, SQLite) | table `command_replay_entries`, primary key (scope, kind, value) | `contains`, `remember`, `remember_authorized_use` | shared by every gate process that opens the same file |
| revocation store (`RevocationStore`, SQLite) | tables `revocation_messages`, `revoked_leases` | `__init__` with migration, `record`, `load_all` | shared by every gate process that opens the same file |
| lease admission rules (`rclp_core/conformance.py`, `leases.py`, `state.py`) | none | `validate_lease_for_command` and the rules it calls | called by the gate |
| policy engine (`rclp_core/policy.py`) | `RequestReplayCache` (SQLite, table `request_replay_nonces`), audit log | `evaluate_policy` | called before `issue_lease`; policies configure both issuer and edge |
| lease issuance (`rclp_core/leases.py`) | none | `issue_lease` | follows an `allow` of the policy engine |
| audit log (`rclp_core/audit.py`) | `events`, in memory; an exported file; the heads an operator keeps | `record`, `append`, `write_jsonl`, `load_jsonl`, `create_signed_audit_batch` and its two checks, `replay` | written by gate, issuer and scenario |
| fallback declarations (`rclp_core/fallback.py`, `CommandGate._emit_fallback`) | none of its own; `fallback_events` of the gate | sign, verify | made by the gate, sent on by its sink, checked by a receiver |
| attestation (`rclp_core/attestation.py`) | none; three tables given by the caller | sign (in the scenario), verify | callers outside the gate |
| network profiles (`rclp_core/network.py`) | measurements, stamped at import | `profile` | the scenario's states |
| Rust replay cache (`crates/rclp-edge-verifier/src/replay.rs`, `FileReplayCache`) | marker files in a directory | `new`, `consume_nonce`, `consume_nonces` | shared by every verifier process on the directory |
| Rust edge verifier (`crates/rclp-edge-verifier`) | none but its cache; an audit event per decision | `verify` | second implementation of the edge; consumes its keys last |
| remote-assist scenario (`rclp_agents`) | none of its own | scripted request, decision, issue, command, revocation | drives all of the above |

### What is hard

* **Several processes, one store.**  A ROS 2 gate is one process, but its two
  SQLite files outlive it and can be opened by several.  `evaluate()` looks at
  the replay store, validates, and then writes: three separate moments.
* **Crashes.**  A gate can stop between the commit of a replay row and its
  answer, and between the commit of a revocation and the in-memory record.
* **Files instead of transactions.**  The Rust cache creates, and on a refusal
  removes, its marker files one by one, in a directory others use meanwhile; the
  directory is durable only when it has been synced.
* **Redelivery.**  Commands, requests and revocations are signed messages that
  anyone may send again, to any gate, in any order.
* **Failing steps.**  SQLite may give up after `timeout=30`; a fallback signer
  may raise after the revocation has been recorded.
* **Chains of comparisons.**  The policy bounds the lease, the lease bounds the
  state and the payload, each in its own direction; five clocks' skews and ages.
  Two implementations make them, each in an order of its own.
* **Objects that stay shared.**  `append()` copies an event shallowly and
  `sign_fallback_declaration()` signs in place: who holds a part of a committed
  object can still change it.
* **Files that come back different.**  An exported log may be torn by a crash,
  or rebuilt by somebody with consistent hashes; only a head kept elsewhere tells.
* **Verifiers without memory.**  Attestations, batches and declarations are
  checked by functions that remember nothing, while messages come late, twice or
  damaged and the tables they are checked with are updated one at a time.
* **Stamps that age.**  A scenario that is suspended meets every age limit.

### What makes each component correct

* gate and replay cache: an identifier authorizes at most one command; a denial
  is final; only authentic messages consume identifiers; a failed attempt does
  not use up a lease;
* gate and revocation store: a revocation that a gate accepted is never
  forgotten, whatever fails in between; one fallback per revocation;
* Rust replay cache: the same single use as the SQLite stores, whatever the file
  system does; nothing left by a refused call; calls do not all refuse each other;
* admission rules: what is admitted is within the policy, inside its geofence,
  current, and stays inadmissible once it has become so;
* policy engine and issuance: one decision and one lease per request nonce; a
  lease never exceeds policy or request; the edge accepts what the issuer grants;
* Rust verifier: it never has the wider authority of the two edges;
* audit log: what is imported under a kept head is the log of that head; what
  was written whole is read back; a sealed event lands where its author saw the
  log end; a batch proves a beginning of the log, and nothing else;
* attestation: a revocation takes effect though nobody records it; no release is
  accepted under tables half updated; clocks within the skew refuse nobody;
* fallback delivery: an accepted declaration was made by the edge it names;
* scenario: the shared log reconstructs what happened; the last command is
  refused; no verdict rests on a measurement past its age.

## 2. Modules

| module | models | state and actions |
|---|---|---|
| `LeaseRules` | `validate_lease_for_command` and all rules under it | pure operators, named as in the source |
| `LeaseAdmission` | the rule presented with the same messages as the clock moves | `lease`, `command`, `state`, `now`; `Tick` |
| `CommandRules` | what `evaluate()` asks of a command before any store | pure operators |
| `CommandGate` | `CommandGate`, `CommandReplayCache`, `RevocationStore` | see below |
| `SingleUseLedger` | abstract specification: a set of identifiers is consumed at once, once, and answered at most once | `Consume`, `Forward`, `GiveUp` |
| `PolicyRules` | the rules of `policy.py` | pure operators |
| `PolicyEngine` | `evaluate_policy` with its replay cache, then `issue_lease` | see below |
| `PolicyGrants` | composition: leases of `PolicyEngine` judged by `LeaseRules` of an edge configured from the same policy (`Edge(p) == INSTANCE LeaseRules WITH ...`) | the state of `PolicyEngine` |
| `FileReplayCache` | `replay.rs`, and `final_replay_violation` of `verifier.rs` | see below |
| `EdgeVerifier` | `verify()` of `verifier.rs` up to the replay cache | pure operators, named as in the source |
| `EdgeAgreement` | composition: the Python gate and the Rust verifier, configured alike, on the same messages (`Rust == INSTANCE EdgeVerifier`) | the state of `LeaseAdmission` |
| `Crypto` | `crypto.py`: what a signature covers and which key checks it | pure operators |
| `AuditChain` | the rules of `audit.py`: hash chain, context, export lines, grouping of `replay` | pure operators |
| `AuditLog` | the log of a process, its file, the kept heads and `load_jsonl` | see below |
| `AuditBatch` | signed batches over a window of the log and the receiver's two checks | `Record`, `MutatePayload`, `SignBatch`, `Review` |
| `Attestation` | an agent that attests and a verifier without memory | `Attest`, `Upgrade`, `Withdraw`, `Configure`, `Verify`, `Tick` |
| `FallbackDelivery` | `_emit_fallback`, sinks that sign later, receivers | `EmitFallback`, `SignLater`, `Forward`, `Receive` |
| `RemoteAssist` | composition: `main()` of the scenario drives `PolicyEngine` (EXTENDS) and `CommandGate` (INSTANCE) | one step per statement, the steps of the components, `Pause` |
| `MCCommandGate`, `MCLeaseAdmission`, `MCPolicy`, `MCFileReplayCache`, `MCAuditLog`, `MCReceivers`, `MCRemoteAssist` | the instances for TLC | |
| `LeaseRulesProofs`, `LeaseAdmissionProofs`, `CommandGateProofs`, `PolicyEngineProofs`, `FileReplayCacheProofs`, `ReceiverProofs`, `AuditLogProofs`, `RemoteAssistProofs` | theorems | |

**How rules are written.**  Each rule of the source is a chain of `if ...:
return REASON`.  It becomes a sequence of `<<violated, reason>>` pairs in the
order of the source, read by `FirstViolation`.  A check that reads only one
message and key material (version, algorithm, size budget, signature, missing
wire field) is a fixed property of the message: its reason code is in the
message's set `defects`, and the ladder keeps the order in which the code looks.
Every other check is computed.  Cryptography is ideal: a signature is its key
and the fields it covers (`Crypto`).  Numbers are integers; a
negative one stands for every number the code rejects as malformed (NaN,
infinite, Boolean, negative).  A timestamp without a time zone is `None`.

**Steps of `CommandGate`.**  A process handles one call at a time.  A step ends
at every SQLite transaction and at every later reading of the clock:

| action | code |
|---|---|
| `Evaluate` | `evaluate()` up to `contains`: authentication, local edge |
| `CheckReplay` | `contains`, and the answer `NO_LEASE` |
| `Validate` | `validate_lease_for_command` with the revocations in memory |
| `Remember` | `remember` (denial) or `remember_authorized_use` (allow): all rows or, on `IntegrityError`, none, and the answer `COMMAND_REPLAYED` |
| `AllowCommand`, `DenyCommand` | audit event, fallback, answer |
| `Revoke` | every check of `revoke()` before the store |
| `RecordRevocation` | `RevocationStore.record`, one transaction |
| `ApplyRevocation` | in-memory record, `LEASE_REVOKED`, fallback |
| `StoreBusy` | `sqlite3.OperationalError` leaves the call |
| `Crash`, `Start` | memory is lost; constructors, with migration and `load_all` |
| `Tick` | the clock |

`forwarded`, `declared`, `denied` and `enforced` record what has left the gates
and are read by properties only.

**Steps of `PolicyEngine`.**  `EvaluatePolicy` (clock read, request checks),
`Consume` (one insert), `Decide` (the policy, with the clock value read at the
start, and the audit event), `IssueLease` (second reading of the clock, or
`ValueError`), `StoreBusy`, `Crash`, `Start`, `Tick`.

**Steps of `FileReplayCache`.**  `markers` is the directory as processes see it,
`synced` as it is on disk.

| action | code |
|---|---|
| `ConsumeNonces`, `ConsumeNonce` | the call, and the check of the texts before any file is touched |
| `CreateMarker` | one `create_new`: the file is there, is new, or the operation fails |
| `WriteMarkers` | `write_and_sync_marker_file` for every file |
| `SyncDirectory` | `File::open(store_dir)?.sync_all()`; a directory that cannot be opened leaves `commit_nonce_set` with its files in place |
| `RemoveMarker` | one `remove_file` of a roll-back, whose error is ignored |
| `Reject`, `Answer` | the result, and the decision of `verify()` |
| `Crash`, `Start`, `PowerLoss` | a process stops between any two steps; `new` syncs the directory; entries not synced, made or removed, may be there afterwards or not |

`consumed`, `answered`, `rejected` and `faulty` are read by properties only (the
last to say that nothing has failed so far).

**Steps of `AuditLog`.**  A hash is what it is the hash of, so an integrity proof
is the sequence of the sealed fields of every event up to this one.

| action | code |
|---|---|
| `Record` | `record()`: a new event, then `append()` |
| `Draft`, `AppendDraft` | a caller builds an event, bare, naming a predecessor or sealed, and appends it, once or again, now or after others |
| `MutatePayload` | a committed object is changed through a shared reference |
| `Publish` | an operator keeps `chain_head()` |
| `WriteJsonl`, `TornWrite`, `AlterFile` | the file is written, written in part before a crash, or changed by somebody |
| `LoadStart`, `LoadLine`, `LoadEnd` | `load_jsonl()`, line by line, then the question of the trusted head |
| `Restart` | the process ends, and its log with it |

An import changes nothing that the log or its writers read, so a behaviour ends
with one import, and every import is the end of some behaviour.  The same holds
of a verification (`Attestation`) and a review (`AuditBatch`): these verifiers
keep no state.

**`EdgeAgreement`.**  A lease, a command and a state are given to both edges in
the form each reads.  A `LocalContext` has no creation time, a Rust lease has
`not_before` and `network_violation_action`, and its `fallback_on_degrade` is
there only if it was written out; the property names these differences and no
other.

**`RemoteAssist`.**  Time is counted in units of 30 seconds; thresholds, ages and
lifetimes are the program's own.  The script waits for every call, so there is
one thread of control, which may be suspended between any two steps.  A message
is made in one step (`MakeRequest`, `MakeState`, `MakeCommand`, `MakeRevocation`)
and given to the issuer or the gate in a later one (`StartEvaluation`,
`SendCommand`, `SendRevocation`), which reads the clock again, as
`evaluate_policy`, `gate.evaluate` and `gate.revoke` do: every message may have
become stale in between.  A stale command is refused and `main()` goes on; a
stale revocation raises `ValueError`, which ends `main()` (`pc = "raised"`).  The
first evaluation writes to a log of its own, as in the code.

## 3. Runs

| run | instance | what it shows |
|---|---|---|
| `gate` | 2 gates, clock 0..2.  3 calls with commands that share ids and nonces pairwise, a forgery of one of them that carries both of its identifiers, one for another edge, two leases and a forged copy; or 4 calls with two revocations of one lease and an unsigned one, on a new store or one of an older version (with a NULL id), and a signer that may raise | no identifier authorizes two commands, a denial is final, what a call consumes was authenticated in that call, a lease nonce is consumed only together with its command, the gates implement `SingleUseLedger`; a revocation a gate accepted or loaded is enforced by it across crashes, restarts and failures, there is one fallback per message, and every fallback is grounded in a durable record |
| `gate_liveness` | 2 gates, 2 calls, fairness | every call ends; a committed revocation takes effect in the gate that committed it or the gate stops |
| `gate_known_revocation` | 2 gates, 3 calls | **violation**, see section 6 |
| `lease_admission` | 79,464 combinations of lease, command and state on both sides of every bound, clock 0..5 | what is admitted is within the policy, in its geofence, current, and admitted during one stretch of time; whatever the Rust verifier allows the gate allows, what it degrades the gate refuses for a network threshold only, and what it refuses in addition its stricter rules explain |
| `policy` | 2 issuers, 3 calls, clock 0..2; two requests with one nonce, a forgery that carries it, one that asks for less time than the policy's.  In a first call also 27 networks around three deny and three degrade thresholds, six policies, ten requests, three cache set-ups | one decision and one lease per nonce; the lease is usable at the edge; the issuers implement `SingleUseLedger`, used by authentic requests only; no lease exceeds policy or request; a worse network is never decided more favourably; the edge refuses a fresh lease for the robot's state only |
| `policy_allow_lease` | the requests of the first part of `policy` | **violation**, see section 6 |
| `file_cache` | 3 verifiers and 3 calls as long as nothing fails, 2 and 2 afterwards; three commands that share ids or nonces, two lease nonces and an empty one, a single key; every file operation may fail | a consumed key keeps its marker through crashes and losses of power and belongs to one call; a rejected call leaves no marker; calls with overlapping keys never all reject each other; the marker files implement `SingleUseLedger` |
| `file_cache_atomic` | 2 verifiers, 3 calls, no failures | **violation**, see section 6 |
| `audit_log` | 2 events, 1 change of the file, 1 restart; with drafts 3 events | an import under a kept head is the log of that head; a log written whole is read back; a sealed draft lands where it was made for |
| `receivers` | attestations: 3 releases, clock 0..5; declarations: 2 edges, 2 keys, every wrong configuration; 2 deliveries; batches: 27 events | what each receiver accepts was sent, by whom it says, and is current; an attestation or a batch that was sent in order is accepted, with the limits section 6 names |
| `fallback_duplicate` | the instance of `receivers` | **violation**, see section 6 |
| `remote_assist` | every impaired profile, 2 suspensions of 30 seconds to 10 minutes | the scenario reaches its end, or an overdue revocation ends it; the shared log reconstructs it; the last command is refused; the issuer allows and the gate admits on a fresh measurement only |

**Bounds** (`MaxClock`, `MaxCalls`, `MaxNow`, `MaxIds`, `MaxEdits`, `MaxRestarts`,
`MaxEvents`, `MaxTampered`, `MaxAttestations`, `MaxDeclared`, `MaxReceived`,
`MaxPauses`) stop the clock, the deliveries and the growth of logs; they appear
in the guards of the actions that would go on for ever.
Two processes and three calls reach every pairwise race between the first look
at a store and the write to it, followed by a redelivery; four calls let a lease
be revoked twice and used on either gate.  Three verifiers in the middle of their
files make a ring of calls that could each be stopped by the next.  Durations are 0 to 2 and the skew is
1, so a message is early, current and stale within the clock's range.

Four constraints cut what is independent.  `StudiesApart` of `MCCommandGate` keeps
the calls about replays and the calls about revocations in different behaviours:
a revocation is checked against no row of the replay store, and the command and
lease of the second kind are two of the first.  `StudiesApart` of `MCPolicy`
does the same for the calls about the request store and the one call about the
decision; there the specification is `StudySpec`, whose next-state relation has
fewer steps than `Next` (the many messages of the decision are delivered in the
first call only) and no other ones.  `FewerAfterFailure` (`file_cache`) keeps
two calls and two running verifiers after a failure: a roll-back then still meets
another call at each of its files.  `DraftsApart` (`audit_log`) gives drafts logs
that are not exported: an import reads lines, whoever built their events.  Rows
that others write into the file include every chain of two events over three
contents, so a forger rebuilds logs with hashes and proofs.  A batch of 27 events
is one over the limit; up to 3 events the log is also changed in memory and the
batch rewritten.  One attestation suffices because the verifier keeps nothing;
attestations of different releases are different behaviours.

The safety theorems of section 5 remove the bounds: they hold for all values.

**Views and symmetry.**  `AuthorityView` leaves out `audit_log` and
`fallback_events` and `FinalView` the audited decisions on requests that
consumed nothing.  No guard and no property of those runs reads them.
Gates and issuers are interchangeable in runs of safety properties; the
liveness run and the run that reads the audit log use no view, and the liveness
run no symmetry.  In `receivers` three modules that share no state move one at a
time (`receiver` says which), so their states add and do not multiply.

**Fairness.**  `FairSpec` assumes weak fairness of the steps of a call that a
running gate has taken up (`CallStep`).  The code never waits in a call except
for SQLite's lock, and that wait ends after 30 seconds with an exception
(`StoreBusy`).  Nothing is assumed of deliveries, crashes, restarts or the
clock.  `lease_admission` ends when its clock does, `file_cache_atomic` when its
calls are used up, and `audit_log` and `receivers` with an import or a
verification, so deadlock is not an error there.  In the other runs a process can
always crash or start.  `remote_assist` has no loop and checks deadlock: the
script never stops before its end, or an exception that ends it, without any
fairness.

## 4. Mutants

Each property of a passing run is tried against a version of a modelled
definition with a plausible bug (an operator whose name carries a suffix and
whose comment says `mutant`): a dropped guard, `>` for `>=`, a missing migration,
an exception before the assignment, an `INSERT OR IGNORE`, `create` for
`create_new`.  TLC finds the
property violated for each.  The mutants are not part of the specification.

## 5. Proofs

The theorems hold for every value of the constants: any number of gates,
issuers, verifiers, messages and keys, logs of every length, all durations.  A
property a theorem states is the one a run checks, by name; the run was there
first.

**Assumptions**, all named and evaluated by TLC in the runs.  Durations and
clocks are naturals (`DurationsAssumption`, `RequestAgeAssumption`,
`AgesAssumption`).  Messages have the fields that their Pydantic models declare,
with numbers where those declare numbers, and `None` is not a message, a key or
a name (`GateAssumption`, `RowsAssumption`, `InputsAssumption`,
`EngineAssumption`, `MessagesAssumption`, `ContentAssumption`, `RowAssumption`,
`KindAssumption`, `ReleasesAssumption`, `SomeAssumption`, `KeysAssumption`,
`TrustAssumption` and the `NoneAssumption` of `AuditLog`, of `AuditBatch` and of `RemoteAssist`).
`ScenarioAssumption` is explained with the scenario below.
Every trusted issuer has a scope (`ScopesAssumption`).  A policy's limits are
what its validation lets through and the edge of `PolicyGrants` has the key and
the scope of its own issuer (`LimitsAssumption`, `EdgeAssumption`).  The keys of
a call of the Rust cache are of different kinds and made in the order of the
kinds (`NoncesAssumption`; `CacheAssumption` names the faults).  A batch may
start at any position (`StartAssumption`).

The two edges of `EdgeAgreement` are compared as far as they can be set up
alike.  `ConfiguredAlikeAssumption`: one trusted issuer whose key the gate has
and one accepted policy (`verify()` refuses any other context), requirements
and bounds for every accepted capability, no empty scope, positive ages and
well-formed limits.  `SameMessagesAssumption`: timestamps are not negative, a
fault of a message's bytes is one for which both have a reason (`SameFault`), and
a command's agent, or a state's foreign edge, whose key one of them does not know
is not known to the other either.

**Rules.**  `LeaseRulesProofs` has the lemmas about ladders: a ladder that
answers `Valid` has no violated check (`LadderClear`), one without a violated
check answers `Valid` (`LadderPass`), and every answer is that of the first
violated check (`LadderAnswer`, from the least element of a set of naturals).

* `AdmittedWithinPolicyHolds`, `AdmittedInsideGeofenceHolds`,
  `AdmittedWhileCurrentHolds`: from the checks an admitted lease has
  passed (`AdmissionFacts`) by transitivity through the lease.  They need that what is presented are inputs (`PresentedHolds`),
  nothing else.
* `AdmissionIsOneIntervalHolds`: what is admitted at two times is admitted
  between them (`AdmittedBetween`), because every time check, read as an
  inequality (`WindowExact`, `StampPasses`), bounds the clock on one side.  The
  phase "after" then remembers an admission and a later refusal (`PhaseTold`),
  which no third time can undo.
* `EdgesAgreeHolds`: each rule of the gate and each rule of `verify()` is shown
  equivalent to a condition on the messages (`GateSpeed` and `RustSpeed`,
  `WindowExact` and `RustLeaseTime`, `SameBounds`, and so on), and `Acceptable` is
  what these have in common.  `verify()` answers ALLOW or DEGRADE only for what is
  `Acceptable`, and which of the two is the network's thresholds (`RustVerdict`:
  none of its first 21 checks has one of these reasons, `RustLadderLast`); of what
  is `Acceptable` the gate asks only how the state stands to the lease
  (`GateDecides`); and what the gate allows is `Acceptable`, unless it is one of
  the cases of `StricterInRust` (`GateMeans`).

**The gate** (`CommandGateProofs`).

* `TypeCorrect`: a call never reaches a point without the messages the code
  reads there.
* `LedgerConsistent`: `ReplayLedger` is invariant.  `SingleUse` alone is not
  inductive: a gate that has inserted its rows and not answered could hold the
  same key as another.  `ReplayLedger` adds that the keys of each answered,
  denied or pending call are in the store and shared with no other.  A step of
  `Remember` then inserts keys that none of the others has, and `AllowCommand`
  and `DenyCommand` move a pending set to the answered ones.  `SingleUseHolds`
  and `DenialIsFinalHolds` follow.
* `KnowledgeHolds`: `RevocationKnowledge` is invariant.  A revoked lease id a
  gate has accepted is in the store, and in its memory or about to be; a verdict
  not yet answered is not for such a lease.  `RevocationSurvivesRestartHolds` is
  the action property that follows from it.
* `OnlyAuthenticConsumesHolds`, with `AuthenticCalls`: a call that is past its
  authentication still holds the messages that passed it.  It is an action
  property: the keys that a step adds to the store are those of one call, whose
  own command, and whose own lease for the lease's nonce, are authentic.  That a
  key belongs to some authentic message would not be enough, since a forgery may
  carry the identifiers of a genuine one.
  `LeaseNonceOnlyWithCommandHolds` is an action property that needs `TypeOK` only.
* `OneFallbackPerRevocationHolds` and `FallbackIsGroundedHolds`, from
  `FallbackLedger`: a revocation named by a declaration of `revoke()` is in
  `revocation_messages`, and a call that is about to declare one is the only one
  that inserted it and has not declared it yet.
* `LedgerImplemented`: the gates implement `SingleUseLedger`; each step maps to
  one of its steps or to a stutter.

**The issuers** (`PolicyEngineProofs`).

* `GrantOnceHolds`: the argument of `SingleUseHolds`, for request nonces.
  `LedgerImplemented` is the same refinement, with `AuthenticWork` for the
  promise that only authentic requests consume.
* `IssuedWithinPolicyHolds`, from `AllowedWork` (an allowed decision that awaits
  its lease still passes the policy's checks) and `GroundedLeases` (each lease
  comes from one).
* `WorseNetworkNoBetterHolds`: no check of `evaluate_policy` that a worse
  network passes is violated by a better one (`LadderMonotone`); the answer
  `degrade` needs the order of the checks as well.
* `RefusedOnlyForStateHolds` and `GrantIsUsableHolds`: each of the edge's
  fourteen checks is met by what `issue_lease` wrote under a policy from which
  the edge was configured; what is left is the robot's state.

**The Rust replay cache** (`FileReplayCacheProofs`).

* `MarkerLedgerHolds`: `MarkerLedger` is invariant, with `TypeOK` and the fact
  that a stopped process is in no call (`DownIsIdle`, needed where a loss of
  power takes files away).  The heart of it is that the files two calls have
  made are disjoint: `create_new` gives a file to one call, so a roll-back
  removes nothing of another call and nothing that is consumed.
  `LedgerImplemented` follows with `SyncDirectory` as the step that consumes, and
  `RejectedLeavesNothingHolds` with the same disjointness.
* `SomebodyWinsHolds`: calls make their files in the order of the kinds
  (`MadeInOrder`); once a call has been rejected and nothing is consumed, some
  running call has made a file of a later kind than every call that is rolling
  back (`Leader`), so that one was stopped by none of them.

**Receivers** (`ReceiverProofs`).

* `AcceptedWasDeclaredHolds`: `FallbackInv` says that
  a gate's events were declared under its configuration, that a signature stays
  what it was signed over, and that what was received is an event, damaged or
  not.
* `BatchProvesLogHolds`, `SignedBatchVerifiesHolds`: `BatchInv` says that the
  log is a chain from its first event on (`Linked`), in whose objects only
  payloads may have changed since (`PayloadsOnly`), and that the batch a trusted
  signer signed was taken from it (`BatchSigned`).  An accepted window has the
  same proofs as the log, and a proof determines every event before it.
* `RevokedFadesOutHolds`, `AcceptedIsCurrentHolds`, `FreshIsAcceptedHolds`: each
  of the three chains of checks is first shown equivalent to inequalities and
  memberships (`AuthAnswer`, `TimeAnswer`, `TrustAnswer`); `AttestationInv` says
  that what was sent is what the agent signed in a release and that a verdict is
  that of the clock and the tables of its time.

**The audit log** (`AuditLogProofs`).

* `HeadDetermines`: two chains with the same head are the same, event for event.
  It needs that a proof covers every event before it and that `payload_hash` is
  checked against the payload.
* `JsonlVerbatim`: the text of a log without separators is the log.  The text is
  a recursive function; facts about it are proved by taking the least number
  that has them not (`UpTo`, over a set of naturals).
* `AuditInv`: what `append()` returned is a chain that `load_jsonl` has nothing
  to say against (`Importable`), the log's own objects differ from it in payloads
  only, every kept head is that of a chain, a file that is marked as a whole
  export is its text, and the loop of `load_jsonl` has read a chain whose head is
  `previous_hash` (`ReadingOK`, the loop's invariant).
* `ImportIsFaithfulHolds` then follows at the end of the loop from
  `HeadDetermines`; `CleanRoundTripHolds` because no line of an importable log is
  refused (`NextIsClear`); `DraftLandsWhereSeenHolds` because a sealed event
  fixes the head it was sealed for (`ProofNamesHead`).  `TypeCorrect` follows
  too.

**The scenario** (`RemoteAssistProofs`).  Neither the issuer's invariant nor the
gate's says what the other holds, so the composition has one of its own,
`ScenarioInv`, which follows `main()`: `stage` numbers the statements, and for
each of them the invariant says what exists by then.

* `Messages`: request and state are the ones that the script made last, at some
  time not after the clock.
* `IssuerInv`: the issuer is idle or evaluates those two (`Working`); `Made`
  decisions have been taken, an allow at most for the first request
  (`Deciding`); there is at most one lease, issued on a fresh measurement and
  after an allow, and the script holds that one or none (`Granting`).
* `GateInv`: the gate is idle or handles what the script sent (`Calling`);
  nothing has been recorded under the revocation's id before it is sent, nothing
  under the last command's identifiers before that is sent, and the lease is
  revoked once the call of `revoke` has ended (`Enforcing`).
* `LogInv`: each event of the shared log comes behind what it needs (`Ordered`),
  and what `main()` has done by then is in it (`RecordedIn`).  The converse is
  needed too: no decision is in the log before its stage, or appending it would
  make a second one.
* `Drafted`: between the making of a message and its delivery, the message is the
  one that the script is about to send, stamped not after the clock.  It may be
  overdue by then.
* `ScenarioHolds` takes each step of script, issuer and gate over each part.
  `LastCommandRefusedHolds` and `ReplayReconstructsHolds` follow from it;
  `VerdictsWhileFreshHolds` is an action property, about the two clock readings
  with which a verdict is made: that of `evaluate_policy` at its start and that
  of the gate when it validates.  The lease itself may be issued after a pause, on
  a measurement that has gone stale since the decision; the gate then admits
  nothing under it.

They hold for every age limit, clock skew, set of pauses and number of pauses, so
the lengths in `Pauses` are no restriction.  `ScenarioAssumption` asks for what
the script itself configures: one issuer, which the gate trusts for the
capability and the policy; a lifetime of the lease within the gate's limits; and
a request that may be as old as a state and the skew (300 seconds against 60 in
the program), since otherwise a fresh state could come with a request that is
too old.  `NoneAssumption` says that the model value for Python's `None` is none
of the script's values.

The type invariants of `FileReplayCache`, `PolicyEngine` and `AuditLog`,
`ReplayLedger`, `RevocationKnowledge` and `ScenarioInv` were checked with TLC when they were
found and are now proved only.

**Model-checked only.**  `CallsEnd` and `CommittedRevocationApplies` are liveness
properties, which are out of this prover's reach.  That the scenario always
comes to its end, or is ended by an exception, is checked by TLC as the absence of deadlock.  All other
properties of the passing runs are theorems.

## 6. What the runs found

**A gate that is given a revocation may not enforce it.**
`docs/PROTOCOL_SPEC_DRAFT.md:485` says: "An edge agent that knows a valid
revocation MUST reject future use of the revoked lease."  A gate copies the
store into memory when it is constructed, and `evaluate()` reads the copy.  If
another gate process on the same store has accepted the message first, this gate
finds its id recorded, answers `REVOCATION_REPLAYED` and returns before the
in-memory record.  `gate_known_revocation` shows it forwarding a command under
the revoked lease afterwards.  `RevocationSurvivesRestart` is what does hold: a
gate enforces the revocations it accepted itself or found at its construction.

**The marker files of a set are not recorded atomically.**
`crates/rclp-edge-verifier/src/replay.rs:44` says of `consume_nonces`:
"Atomically record first use of a set of replay keys."  Another verifier sees the
markers of a set that is then refused and rolled back.  In `file_cache_atomic` a
command comes under a lease that is used up, and at the same time under a fresh
one.  The second call is rejected as a replay of the first, the first is rejected
for its lease, and no key of the second is ever consumed.  It fails closed:
`ImplementsLedger` holds, so nothing is used twice.  `SomebodyWins` is what
remains of progress: rejected calls always leave a winner somewhere, because all
create their files in the same order of kinds.

**An allow may have no lease.**  `docs/PROTOCOL_SPEC_DRAFT.md:282` says: "An
`allow` decision MUST include a `CapabilityLease`."  `evaluate_policy` refuses a
request for more time than the policy's lifetime (`policy.py:610`), and allows
one for less; it consumes the nonce and audits the allow.  `issue_lease`, called
with the policy's lifetime, then raises (`leases.py:54`).
`policy_allow_lease` shows it in one call (`AllowBringsLease`).  The scenario
always asks for the whole lifetime.

**A duplicated fallback declaration is accepted.**
`docs/PROTOCOL_SPEC_DRAFT.md:691` has a receiver reject a declaration that "is
stale, duplicated, or superseded by fresher local state".
`fallback_declaration_auth_violation` (`fallback.py:44`) has no clock and no
record, and `fallback_duplicate` shows it accepting one declaration twice
(`AcceptedOnce`).  What does hold is `AcceptedWasDeclared`.

Observations, each visible in a property that says how far the promise goes:

* `write_jsonl` separates events with a line feed, and `load_jsonl` splits at
  every Unicode line boundary (`audit.py:415`): an event with such a character in
  a text is not read back.  `CleanRoundTrip` holds for all others.  An empty file
  is accepted under every trusted head;
* a batch has to start at the log's first event, and its identifiers are one
  signed text of at most 1024 bytes: no batch proves the 27th event
  (`SignedBatchVerifies`);
* an attestation made before a revocation is accepted for the age limit and twice
  the skew after it (`RevokedFadesOut`);
* the measurements of the network profiles are stamped when the module is
  imported (`network.py:6`): a process that runs longer than the age limit and the
  skew is denied on a normal network (`VerdictsWhileFresh`);
* a revocation that is held up between `LeaseRevocation(...)` and `gate.revoke`
  for longer than its age limit and the skew raises `ValueError`
  (`demo_remote_assist.py:497`) and ends the scenario with the lease in force; no
  command follows it (`LastCommandRefused`);
* the Rust verifier has no skew on `issued_at`, wants a state for every lease and
  a fallback that is written out, and does not see when a state was created; apart
  from that the two edges agree (`EdgesAgree`);
* a policy with `geofence_allowed: false`, or without a required geofence,
  grants a lease that names the robot's present geofence; the edge requires the
  robot to be inside it, and refuses the lease when it is not;
* a request for constraints that are too broad is denied on a good network and
  answered `degrade` on a degraded one, because the network is looked at first, so
  `WorseNetworkNoBetter` leaves such requests out, as it does a network with
  malformed measurements, which is denied whatever its values;
* when the store directory cannot be opened for the sync, `commit_nonce_set`
  returns an error with its markers in place, while `commit_nonce` removes its
  own: the denied command, and its lease, stay unusable.

## 7. Not modelled, and why

Ed25519, base64, canonical JSON, key loading and file I/O (ideal or pure I/O);
Pydantic and serde parsing (they only construct what the rules then judge); the
wording of `replay_summary` and what the scenario prints; Isaac Sim scripts,
evals and the cross-language driver, which compares fixed vectors where
`EdgeAgreement` compares the rules.  Of the Rust verifier the audit event is left
out: it goes to the caller with the decision, and `verify()` never reads it or
its counter again.  Byte budgets are a property of a message, except that of a
batch, which depends on its length.  Keys of the Rust cache are texts
joined with `:`; the model takes different keys to be different texts.  A fallback sink that
raises is not told apart: it is called after everything else has happened.

## 8. Plan

Done: lease rules, gate with its stores, ledger refinement, admission over time,
policy engine and its composition with the edge, the Rust replay cache and the
Rust verifier beside the gate, audit log with export, import and batches,
attestation, fallback delivery, and the scenario as a composition of issuer and
gate; the theorems above.

Nothing of the plan is left open.
