# Schema Guard in TLA+

Schema Guard validates the arguments of tool calls, decides whether an action
may run, and remembers which actions were already let through. The last part is
a distributed protocol: replicas share a PostgreSQL ledger, every change of it
is carried to an independent receiver, and an action is allowed only once the
receiver has acknowledged the change. This directory models that protocol,
model-checks it on small instances and proves its central properties for every
size. Around it are the parts that decide what is asked of it (validation,
schema releases, approvals, the gate) and the stores that record what was
answered; they are modelled and model-checked too. Paths below are relative to
`src/packages` unless they begin with `docs`.

Contents: [the system](#the-system), [the models](#the-models),
[what the runs show](#what-the-runs-show), [what is proved](#what-is-proved),
[where code and documentation disagree](#where-code-and-documentation-disagree),
[what is not modelled](#what-is-not-modelled), [plan](#plan).

To repeat everything, in this directory:

    tlc -config SharedActionState_Ledger.cfg SharedActionState_MC
    tlapm SharedActionStateProofs.tla

and likewise for the other configurations, each with the `..._MC` module whose
name it begins with, and the other seven `...Proofs` modules.

## The system

| Component | State | Operations | Talks to |
|---|---|---|---|
| Shared action ledger, `shared-state/src/postgres.ts` | reservations (key, fingerprint, pending or completed), a manifest with revision, row count and XOR accumulator, a chain of reconciliation records | `reserve`, `complete`, `release`, `reconcile`, `checkpoint`, `compareCheckpoint` | writes the outbox in the same transaction |
| Checkpoint outbox, same class | one delivery per manifest revision, with status, attempts, lease, next attempt | claim, finish, redrive, `checkpointAnchorAcknowledged` | workers in every managed server |
| Anchor receiver, `anchor-receiver/src/store.ts` | a hash-chained log of checkpoints, the latest one per tenant | `ingest`, `latest`, `verify`, `ready` | HTTP, signed requests |
| Managed server, `managed/src/server.ts`, `webhook.ts` | the single-flight dispatch promise, requests under way | evaluate, complete, release, reconcile; poll timers | ledger, outbox, receiver, alert webhooks |
| Descriptors, approvals, accepted decisions, `postgres.ts` | approval challenges and their verdicts, tool risk descriptors | register, request, decide, verify | read by evaluate before it reserves |
| Action gate, policies, `core/src/action.ts`, `policy.ts` | an in-memory ledger | gate a decision, merge policies | SDK, server |
| SDK, `sdk-typescript/src/index.ts` | the MCP schemas it was told of | `executeGuardedAction`, `executeManagedApprovedAction`, `GuardedMcpClient` | server, tool |
| SQLite store, `managed/src/store.ts` | the single-server version of all shared stores in one file; the data version it last verified | the same, and opening | other processes on the file |
| Control state, `shared-state/src/control.ts` | tenants, keys, rate windows, quotas, audit chain with its retention anchor | admission, recording, purge | validate |
| Alert outbox, `shared-state/src/alerts.ts` | alerts, webhooks, deliveries with leases | record, claim, finish, disable, redrive | dispatch workers |
| Schema registry, `shared-state/src/schema.ts` | versions, releases per environment, two manifests | register, promote forward and back, admit | validate |
| Intelligence, `shared-state/src/intelligence.ts` | three chained histories under one manifest | observe, report, publish | validate |
| Drift classification, `core/src/drift.ts` | none | compare two schemas | registry, `GuardedMcpClient` |
| Engine, compiler, adapters, `core/src` | none | pure functions | everything |

What makes the protocol hard:

- *Interleaving.* Replicas work on one tenant's ledger. Each ledger operation
  is one transaction behind `SELECT ... FOR UPDATE` on the manifest row, but an
  HTTP handler is several transactions with awaits in between: the reservation,
  a first acknowledgement test, a dispatch that may have been started by
  somebody else, a second test.
- *Redundancy that must agree.* Rows, count, accumulator, revision, outbox and
  record chain describe the same history. Every operation verifies them first,
  so one wrong write locks the tenant out for good.
- *Leases.* A delivery is claimed for 30 seconds; a worker may be slower, may
  crash, and may come back.
- *Unreliable transport.* Requests to the receiver are lost, time out although
  they arrive, and overtake one another (four are under way at a time).
- *Restores.* The primary database may go back in time; only the receiver
  remembers what was promised since.
- *One request, several stores.* A validation is recorded in the control, the
  intelligence, the alert and the action store. Which of them share a
  transaction depends on which databases are configured.
- *Reads before writes.* Descriptor and approval are read before the
  reservation is made, the schema that a call is checked with was read at the
  last list of tools, the SQLite ledger was verified at an earlier call.
- *Callers.* A caller that was answered 503 does not know whether its key is
  taken; a caller that was allowed may crash and leave the reservation to an
  operator, and may still come back later.

For each part, what must hold:

- ledger: a key has at most one reservation, a completed one keeps it for ever,
  a reservation changes only from pending, an operator's verdict is final, the
  redundant state never contradicts itself by the program's own doing;
- outbox: an acknowledged checkpoint stays acknowledged, every checkpoint is
  acknowledged or superseded in the end, what is queued is the history;
- receiver: the latest checkpoint only moves forward, the log never forks, a
  lost row is noticed;
- together: nothing is allowed twice, what was allowed is remembered by the
  receiver and held by the ledger, across crashes, message faults and restores;
- gate, approvals and callers: one effect for a key, none without the approval
  its risk asks for, an approval is good until it is revoked and never again
  after that, no reservation stays pending for ever;
- SQLite store: what is not verified again was verified before and has not
  changed since, an acknowledgement is about the present content;
- control state: a deleted audit is noticed and nothing else looks like one,
  the counters say what was recorded, the rate holds for any interval;
- validation: an answer rests on records that are there, in each deployment;
- alerts: every delivery ends, and a disabled webhook gets none;
- registry and MCP client: what is admitted is the release of its environment,
  an unreviewed release refuses no call that was accepted before, a drift that
  the application refused is not used.

## The models

| Module | Models |
|---|---|
| `ActionLedger` | what an idempotency ledger promises, independent of the store |
| `SharedActionState` | ledger and outbox of `PostgresActionState` for one tenant |
| `AnchorReceiver` | `AnchorStore` |
| `AnchoredExecution` | managed servers, network, callers, operators, backup and restore around an instance of each of the two |
| `ActionGate` | `evaluateActionGate` up to its reservation, as a function |
| `ActionApprovals` | accepted decisions, descriptors, challenges of `PostgresActionState` |
| `GuardedAction` | SDK callers and the evaluate handler around gate, approvals and a ledger |
| `SqliteActionState` | ledger and outbox of `ManagedStore` for several processes on one file |
| `RateWindow` | both rate limiters |
| `ControlState` | `PostgresControlState` and the same tables of `ManagedStore` |
| `AlertOutbox` | `PostgresAlertState` and the same tables of `ManagedStore` |
| `IntelligenceState` | the histories of `PostgresIntelligenceState` and `ManagedStore` |
| `ManagedValidation` | the validate and reconciliation handlers over the last four, in five deployments |
| `SchemaDrift` | `detectSchemaDrift`, and what a schema accepts |
| `SchemaReleases` | `PostgresSchemaState` and the same tables of `ManagedStore` |
| `ManagedTools` | `GuardedMcpClient` and admission around the registry |
| `SharedActionStateProofs`, `AnchorReceiverProofs`, `AnchoredExecutionProofs`, `GuardedActionProofs`, `SqliteActionStateProofs`, `ManagedValidationProofs`, `ManagedToolsProofs` | theorems about the module they are named after |
| `CountingProofs` | lemmas about cardinalities, sequences and largest elements that the last two use |
| `..._MC` | bounded instances for the `.cfg` files |

Three modules implement `ActionLedger`: `SharedActionState`,
`SqliteActionState`, and the ledger inside `GuardedAction`, which is the
interface that gate and callers see. So what is shown of the callers rests on
what is shown of the stores.

**ActionLedger** has three steps: `Admit` a free key, `Settle` a pending
reservation, `Withdraw` it.

**SharedActionState** has one action for each transaction: `Reserve`,
`Complete`, `Release`, `Reconcile` on the ledger, `ClaimDeliveries`,
`FinishDelivery`, `Redrive` on the outbox; `ReservationAges` and
`DeliveryFallsDue` are the clock; `DropClaim` is a worker that crashed or that
comes back too late; `Lose` removes a stored row behind the program's back.
Reads (`checkpoint`, `pending`, the listings) change nothing and appear as the
predicates they evaluate: `Verified`, `AnchorAcknowledged`. A transaction is
one step because all of them begin by locking the manifest row, and the outbox
transactions lock the delivery rows they change. HMACs and hashes are
represented by what they are computed from, so a set combined by symmetric
difference stands for the accumulator, and a sequence for a chain tip: the
model assumes that HMACs do not collide and that the secret stays secret.
Evidence and operator of a reconciliation only decide between two answers that
write nothing, so they are left out.

**AnchorReceiver** has the states of one process that serves the file, which
may close or die in any of them. `ingest()` is two steps, because another
connection may commit between its `assertFresh()` (`BeginIngest`) and its
immediate transaction (`Ingest`, with the outcomes of the code in their order);
so is the constructor, which verifies (`Verify`) and then remembers the data
version (`Open`). `Refresh` is what only verifies, `Lose` a row that another
connection deletes, at any of these points. The `data_version` pragma is the
flag `unseen`. The history variable `overlooked` says that a row was lost in
one of the two windows that this leaves open and that a checkpoint was taken,
or the version remembered, without seeing it. The hash of an event is its
`AUTOINCREMENT` sequence number.

**AnchoredExecution** instantiates both (`S`, `R`) and adds the handler
(`Evaluate`, `FirstCheck`, `Answer`, `Unacknowledged`, `RequestTimesOut`), the
single-flight dispatch (`TimerFires`, `Claim`, `ClaimNothing`,
`FinishAnswered`, `FinishFailed`, `DispatchEnds`, `DispatchFails`), the network
(`Receive`, `LoseRequest`), time (`FallsDue`, `ReservationAges`), callers and
operators (`CallerCompletes`, `CallerReleases`, `Reconcile`, `Redrive`) and
`Crash`, `TakeBackup`, `Restore`, `Resume`. `authorised` is a history variable:
what callers were told. The environment follows the documented protocol:

- a caller releases only what it did not execute, an operator reconciles by
  what really happened (`docs/ACTION_CONTROLS.md`);
- after a restore no action traffic is let through until `compareCheckpoint`
  with the receiver's latest says `same` or `advanced`
  (`docs/OPERATIONS_RUNBOOK.md`);
- a restore lasts longer than a request that was under way to the receiver,
  whose signature expires after 300 seconds (`store.ts:289-302`). The
  assumption is needed: a checkpoint of the abandoned history that arrives
  after the comparison would take the receiver away from the new history;
- the minimum age of a reconciliation exceeds the life of a request. The
  configuration allows 60 seconds to a day for the former and, in public mode,
  at most 15 seconds for the latter (`server.ts:2360`, `2483`); in private mode
  the request timeout has no upper bound, so this is a condition on the
  configuration there.

A handler that answered 503 on its timer goes on in the code. What it still
does is either a reservation without an answer, which the model has as
`Evaluate` followed by `RequestTimesOut`, or nothing. A query that fails in a
handler has the same effect. When one delivery of a dispatch fails to be
recorded, the promise rejects while the others go on: these are `Detached`.

**ActionGate** has no state. `Preflight` is the order of the gate's checks:
environment, approval present, approval fitting, reservation. A hash is the
value it is computed from, so the binding of an approval and the fingerprint of
an execution are one record of arguments, repair, risk and side effect.

**ActionApprovals** has one action for each transaction on the three tables:
`RecordAcceptedDecision`, `UpsertDescriptor`, `RecordChallenge`, `Approve`,
`Revoke`, and `ChallengeExpires` for the clock. Tool, version and tenant are
fixed; the classification is what changes.

**GuardedAction** has a variable `mode`: *shared* is
`executeManagedApprovedAction` against a server with shared state, *single* the
same against a server with its own SQLite file, *local* `executeGuardedAction`
with the in-memory ledger. A caller goes through `Validate`, `Ask`, `Proceed`
or `HookThrows` (`onActionDecision`), `Execute` or `ExecuteThrows`, and
`ReportCompletion`; it may `GiveUp` at its deadline or `Crash`, and is then free
to try again under the same key. The handler of the shared mode takes three
steps, `ReadDescriptor`, `ReadApproval`, `Reserve`, that of the single one
takes one, `EvaluateHere`, and the local gate is `GateHere`. Reports to the
server are messages that are handled late or lost. Effects and the challenges
that were revoked when the evaluation was asked for are history variables. What
is assumed of the environment:

- `execute()` throws only if its effect did not happen, as its doc comment
  requires; the SDK releases the reservation then, and cannot know better;
- an operator reconciles a reservation that nobody works on any more, by what
  happened downstream. `complete` and `release` find a reservation by key and
  fingerprint, so a late request could otherwise settle its successor. The
  minimum age of a reconciliation (`server.ts:1447`) is what excludes it.

**SqliteActionState** differs from the shared ledger in how it verifies.
`PRAGMA data_version` is a flag `stale` for each process, set by any commit of
another one; `Fresh` verifies all tenants when it is set. The constructor is
three steps, `Inspect` (verify the rows), `QueueMissing` (add the deliveries
that are missing) and `Open` (remember the data version), since other processes
may commit between them. `Close` is an exit or a crash, `Reconfigure` a restart
with or without an anchor URL, `BootstrapTenant` the bootstrap command, which
opens the file for itself. A tenant bootstrapped between `QueueMissing` and
`Open` has no delivery, and the process does not see that it was added; a
process remembers such tenants as `overlooked`, for the properties. Assumed: no
row is lost between `Inspect` and `Open`. Such a loss would be noticed at the
next foreign commit only.

**ControlState**, **AlertOutbox** and **IntelligenceState** describe the
PostgreSQL store and the SQLite one with one parameter, `shared`: the former
verifies a manifest before it writes, the latter has the same rows without it.
A chain is a sequence of what was chained. `LoseAudit`, `LoseAlert` and
`LoseIntelligence` remove a row behind the program's back, and history
variables remember what was there, so that a property can say when
verification fails, in both directions. `PurgeExpiredAudits` cuts at the last
event whose stamp is old, with everything before it. In the outbox `stalls`
bounds how often a dispatch dies or outlives its lease.

**RateWindow** is one counter for each key when the limit is shared, and one
for each server when it is not.

**ManagedValidation** composes these four. The handler of `POST /v1/validate`
is `Authenticate`, `Evaluate` (rate, then decision), `Record` (one transaction
with whoever shares its database), `Mirror` (the server's own copy) and
`Answer` (which writes what is left); it may stop after any of them. The
variable `deployment` says which databases there are: nothing shared, the
action database, the control database, both in one, both apart. Reconciliation
is `CommitReconciliation`, `AnswerReconciliation` and `RetryReconciliation`,
for its alert. A *scenario* is a bound: how many requests, purges, months,
losses and so on a behaviour may have. `Init` chooses one, so that each kind of
event meets those it can interfere with.

**SchemaDrift** is the classification, keyword by keyword, next to a reference
definition of what a schema `Accepts`. **SchemaReleases** has registration,
promotion (forward and back), environments, enforcement, lost and damaged rows.
Its operations are one transaction each but for the local `registerSchema`,
which commits row by row (`store.ts:2688-2765`): the alert about a breaking
change may be missing there, for good, because a registration that is repeated
returns early.
**ManagedTools** has an MCP server that changes or drops its tool, the client
whose overlapping `listTools()` and `callTool()` read, compare, await `onDrift`
and store in separate steps, and the admission of what it then sends.

## What the runs show

| Run | Instance | Properties | Distinct states |
|---|---|---|---|
| ledger | 2 scenarios: 2 keys, 2 fingerprints, 5 ledger changes, 2 lost rows; 2 changes, 3 claimed batches, 2 attempts, 1 lost row | `IInv`, `KeyHeldOnce`, `ReconciliationIsFinal`, `AnchoredHistoryIsLegal`, `NeverLocksItselfOut`, `ImplementsLedger`, `DeliveredIsFinal` | 403,000 |
| receiver | 2 tenants, 3 identifiers, 3 revisions, 2 hashes, 2 lost rows | `IInv`, `NeverLocksItselfOut`, `OneLossIsNoticed`, `HistoryIsLinear`, `LatestNeverMovesBack` | 78,600 |
| safety | 2 servers, 2 revisions, 2 batches, 1 fault, 1 restore | `IInv`, `AllowedOnce`, `ReceiverRemembers`, `AllowedIsHeld` | 136,000 |
| liveness | 2 servers, 2 revisions, 1 fault | `EveryRevisionIsAcknowledged`, `HandlersReturn` | 24,000 |
| guarded | 2 scenarios, each with 1 key, 2 executions, 3 modes, 1 challenge: 2 callers, 2 approvers, 1 classification; 1 caller, 2 arguments, 2 classifications | `IInv`, `EffectAtMostOnce`, `AllowedWithinAuthority`, `EvidenceLastsUntilRevoked`, `ImplementsLedger`, `ReservationsAreSettled` | 510,000 |
| sqlite | 2 processes, 1 tenant, 1 key, 2 ledger changes, 2 attempts, 2 claimed batches or 1 and 1 lost row | `IInv`, `UnchangedMeansVerified`, `AcknowledgedIsConfirmed`, `ImplementsLedger` | 986,000 |
| validation | 6 scenarios, up to 3 requests, 5 deployments | `IInv`, `LossIsNoticed`, `MeteredIsRecorded`, `AnswersAreRecorded`, `AdmittedWithinRate`, `DisabledIsSilent`, `DeliveriesAreSettled` | 465,000 |
| schemas | 5 scenarios, 30 schemas, 3 versions, 2 environments, 3 callers | `IInv`, `AdmittedWasReleased`, `RefusedDriftIsNotUsed`, `LostReleaseIsNoticed`, `UnreviewedReleaseKeepsCalls` | 294,000 |
| attempts | 3 claims of one delivery, 2 attempts allowed | `AttemptsBounded` is violated | |
| rollback | 2 servers, 2 revisions, no fault | `RollbackSignalIsTrue` is violated | |
| sqlite_bootstrap | 1 process, 2 tenants, nothing lost | `RefusedOnlyAfterLoss` is violated | |
| drift | 2 releases of schemas of different shape | `BackwardCompatibleIsProven` is violated | |

*Ledger.* Five changes are enough to reserve, settle one way, reserve the same
key again, settle the other way, and have a late request for the first
reservation in between; with a second key there are rows that must not be
touched. Two losses are enough to lose a row together with the delivery or the
record that speaks of it. `ImplementsLedger` is a refinement: the entries of
`ActionLedger` are the members of the accumulator, not the stored rows, because
it is the accumulator that keeps the key of a lost row from being given away.

The second scenario is the outbox: three batches over two deliveries let a
lease be taken over, its first holder finish late, and the attempt limit be
reached and redriven.

*Receiver.* Three revisions and two hashes give forks, replays, gaps and late
events; three identifiers give reuse and a log of three; a second tenant
interleaves in the chain. A row may be lost, and the process may die, between
any two steps. `OneLossIsNoticed` and `HistoryIsLinear` except what was
overlooked in the two windows and nothing else: without the exception the run
violates them.

*Safety.* A key is reserved and allowed at revision 1, and revision 2 is the
completion, the release, the reconciliation or, after a restore, the
reservation that must not be made. The fault may be any of: a crash, a lost
request, an answer that is too late, a lease that runs out under a live worker,
a failing dispatch, a redrive of an old delivery. Servers are symmetric.

*Liveness.* `MaxClaims` is 8 there and is not reached in any behaviour of the
instance, so it cuts nothing off. Symmetry is not used.

*Guarded.* Two executions are enough for a retry after any error, a rival with
the same key and a late message of the first one. The first scenario has the
rivals: two callers, two approvers, and a tool that is classified once, before
or while they work. The second has the change: the tool is classified twice,
so that its classification may be raised, or lowered, between challenge,
approval, each read of the handler and the execution, and two arguments, so
that a key comes back with another action. Its one caller may give up and try
again while its first evaluation is still under way. A scenario bounds what is
started and holds back no action that is fair. The policy of the local mode is the default one here, while the theorems are about all.
`EffectAtMostOnce` counts executions and not only reservations.

*SQLite.* Two processes suffice for a commit behind one's back and for two that
open at once, and one tenant for one that is added between any two steps.
Processes are symmetric. Deadlock is checked.

*Validation.* `Audited` has three chained events, two purges and a lost row, so
that a loss meets an anchor and a tail; `Charged` a month, a change of plan and
two requests under way; `Deployed` every deployment, with keys that are issued
and revoked; `Alerted` two alerts with a webhook that comes and goes, a lost
row, and a dispatch that dies or stalls; `Reported` the three histories;
`Limited` six calls over four ticks with two servers, limit and window of two,
where a caller can reach twice the limit in the length of one window.

*Schemas.* The thirty schemas have every keyword that has a rule, with a
change that widens, one that narrows, and one that does both; they come in two
groups, constraints and shapes, and in each group every ordered pair is
registered, promoted and compared by all calls with two arguments.
Three releases to two environments interleave, go back and lose rows; three
callers list and call while the server changes its tool.

What these properties leave open is in their text, and there because the code
does: a local registry or audit chain has no manifest and cannot miss its last
row; with only one of the two databases shared, a reconciliation has no alert
in the store that the alert routes read; the receiver and an opening SQLite
store check before the step that relies on the check.
`UnreviewedReleaseKeepsCalls` leaves out local loss, changes classified as
undecided, and (`Comparable`) an optional property that is declared on an
object which is open to undeclared ones. The code calls the last a widening
(`core/src/drift.ts:263`), and it is one only if nobody sent that property
before; see below, and the run `drift`.

What the models take for granted is the database: a transaction that begins by
locking its manifest row, or reads one snapshot, is one step. A code that lost
the lock or the isolation level would need another model.

Fairness is stated for steps the code or its environment does take: a handler
and a dispatch continue while their process lives (promises settle, requests
have timeouts), the poll timer fires, a request that is not lost arrives,
leases and backoffs run out, and an operator redrives the current delivery when
it is dead (while it is, every ledger operation is refused, `/readyz` fails,
and nothing else can help). Callers, operators' other actions, faults and
restores are not fair. `EveryRevisionIsAcknowledged` would fail without the
redrive, and the bound on faults is what a retry needs to succeed in the end.

In `GuardedAction` callers that live go on (their promises settle and their
requests have deadlines), requests are handled or lost, and an operator works
through the list of pending reservations; asking again, crashes and approvals
are not fair. `ReservationsAreSettled` is about the managed modes, since an
in-memory ledger has no operator and ends with its process. In
`ManagedValidation` workers poll, and a dispatch that does not die ends;
nothing obliges a handler, an operator or a clock.

The runs set `CHECK_DEADLOCK FALSE` where the bounded instances may stop: the
ledger at its last revision, the receiver when it refuses to go on after a
loss, callers, handlers and MCP clients when they have used up their attempts,
requests and calls. `sqlite` and `sqlite_bootstrap` never stop and check it.

Every property has at least one mutant, an operator next to the definition it
replaces whose comment begins with "Mutant of": a plausible mistake in the code
that makes the property fail.

## What is proved

In `SharedActionStateProofs`, for any keys, fingerprints, limits and bounds,
with or without anchoring, from `ConstantsAssumption` alone:

- `Invariance`: `IInv` always holds. It says that the accumulator is a finite
  set of the size that the manifest counts, that the stored rows are among its
  members and equal to them unless a row was lost, that keys and identifiers
  are unique in it, that the records are those the tip stands for, that each
  record's verdict still holds, and that the current revision has its delivery.
  None of its parts is inductive alone: the verdict on a record survives a
  complete or release only because keys and identifiers are unique, and that
  is only because verification lets an operation proceed when rows and
  accumulator agree;
- `TypeCorrect`, `LedgerStaysUsable`, `KeysAreHeldOnce`, `VerdictsAreFinal`
  follow from it;
- `Refinement`: the store implements `ActionLedger`, each operation being one
  step of it and all else a stutter;
- `AcknowledgementsAreFinal`: the action property about delivered checkpoints;
- `TheStoryIsLegal`: with the invariant, `AnchoredHistoryIsLegal` is inductive
  too. Workers and operators retell the story without changing it
  (`StoryRetold`), and a ledger change adds one sentence to it (`StoryGoesOn`):
  the current delivery has the checkpoint of the manifest, so what is queued
  next differs from it exactly as the ledger does.

The argument goes by the two ways a row changes: `DeleteRow` and `CompleteRow`
have a lemma each that says what they write when the ledger verified, and all
operations use those.

In `AnchorReceiverProofs`, for any tenants, identifiers, hashes and natural
revisions, any number of events and losses:

- `Invariance` of the receiver's `IInv`: sequence numbers increase along the
  log, and, as long as nothing was overlooked in the two windows, the log is
  linear, whatever is not marked as another connection's write verifies, and
  after exactly one loss nothing verifies. The heart is that
  comparing the *number* of tenants with the number of latest rows makes the
  map from latest rows to tenants onto (`LatestCovers`), so that an event that
  is taken is newer than everything its tenant has (`TakenIsNew`);
- `ReceiverStaysUsable`; `EveryLossIsNoticed` and `NoForks`, which say what
  they except; and `LatestOnlyAdvances`, which excepts nothing: a checkpoint is
  compared with the latest row inside the transaction.

In `AnchoredExecutionProofs`, for any servers, keys and fingerprints and any
number of crashes, lost or late messages, expired leases, backups and restores:

- `Invariance` of `IInv`. A checkpoint may be in six places: the manifest, a
  delivery, a request under way, the receiver, a backup and a delivery in that
  backup. `HistoryInv` says that each belongs to the history that the ledger
  has now (`Leads`: an older revision, or the very same checkpoint), except the
  receiver's, which may be ahead, but only while traffic is stopped
  (`ReceiverInv`). `AuthorisedInv` says that each holds every allowed
  reservation, unless the receiver is past it. The handler's second check adds
  to what is allowed when the receiver is level with the ledger, and then
  whatever is level with both is the same checkpoint; a restore puts an older
  manifest in place, which only `CompareCheckpoint` lets through again, when
  the receiver is not past it; and a row that leaves is nobody's, because
  identifiers and keys are unique in every checkpoint (`KeysInv`), which is
  also why the stored rows are finitely many;
- `NothingIsAllowedTwice`, `ReceiverAlwaysRemembers`, `LedgerAlwaysHolds`.

The lemmas come in three groups. Steps that only move handlers, deliveries,
requests and answers keep the invariant for one reason (`QuietStep`), steps
that write the ledger for another (`WrittenPreserves`); answers, receptions and
restores have a proof each. What it rests on: a ledger or receiver transaction
is atomic, a request that was under way when the database is restored has
arrived or is lost, a reservation that is old enough to reconcile has no
handler any more, and callers and operators follow the documented protocol.

In `GuardedActionProofs`, for any callers, keys, arguments, approvers and
classifications, any number of executions and challenges, all three modes and
any policy of a local application, from `CallersAssumption` and
`ApprovalAssumption`:

- `Invariance` of `IInv`. Its heart is `HoldersInv` with `RequestsInv`: a
  reservation has one holder, the caller that was told of it or, after that,
  the one request that settles it; it stays pending until the holder settles
  it; and nobody releases one whose effect has happened. `EffectsInv` then
  gives every effect a reservation of its own, and the ledger one reservation
  to every key. For the approvals: what had been revoked when the evaluation
  was asked for is revoked when the handler looks (`HandlersInv`);
- `EffectsHappenOnce`, `AuthorityIsKept`, `EvidenceLasts` follow;
- `Refinement`: the ledger that gate and callers use is an `ActionLedger`. The
  in-memory one completes a completed entry again, which is a stutter.

In `SqliteActionStateProofs`, for any processes, tenants, keys and
fingerprints, with anchoring switched on and off, from `SqliteAssumption`:

- `Invariance` of `IInv`: a revision stands for one content of the ledger
  wherever it is kept, in the manifest, in a delivery or in a dispatch under
  way (`OutboxInv`), which is why the program may look for a delivery by its
  number alone when it opens or commits; and what a process verified stays
  true until a foreign commit sets its flag, but for a tenant bootstrapped in
  the last step of its opening. `SkippingIsSafe` is the second part by itself.
  It rests on the assumption that no row is lost while a process opens;
- `AcknowledgementsAreTrue`: what is acknowledged was confirmed by the receiver
  in exactly its present content, also after deliveries were lost and queued
  again and late answers came in;
- `Refinement`: the file implements `ActionLedger` for all tenants, through
  the rows that the manifests vouch for, even when rows are lost.

In `ManagedValidationProofs`, for any requests, keys, plans and quotas,
servers, limits and windows, webhooks and attempts, any number of months,
purges, losses and crashes, in all five deployments, from `ControlAssumption`
(a quota is a natural number, there are finitely many plans and at least one
key), `RateAssumption` (limit and window are positive, there are finitely many
servers and at least one), `AlertAssumption` and `ServiceAssumption`:

- `ServiceInvariant`: `IInv`, the conjunction of one invariant for each store
  and one for the handlers.
  - A deleted audit is noticed by arithmetic. Verification compares three
    counts: rows, rows retained, events ever. A deleted row makes the first too
    small, a purge turns that into a difference of the other two, and no append
    or purge closes either (`CountsInv`). The other direction, that nothing
    else looks like a loss, needs that a hash is no other's: it ends in its own
    event, whose identifier was never used before (`HashesInv`);
  - the outbox of the alerts and the histories of the intelligence lose rows in
    the same sense (`OutboxInv`, `IntelligenceInv`). Of a delivery only its
    state changes, and each alert goes on expecting as many as it was created
    with;
  - the counters are those of the month they were last reset in, which may be
    an earlier one than the present (`MeterInv`);
  - the bound on the rate is one on two windows. For each moment a caller may
    begin to count at, what was let through before the current window began and
    less than a window's length after that moment is within the limit, and so
    is what the current window counts (`LetThrough`). Without shared state the
    requests are divided among the servers, and the bounds add up;
  - `HandlerInv` and `ReconciliationInv` say what a handler at each point has
    left in the stores of its deployment, which is what an answer then rests
    on;
- `LossesShow`, `QuotasHold`, `AnswersRestOnRecords`, `RateIsLimited`,
  `DisabledStaysSilent` follow from it.

In `ManagedToolsProofs`, for any schemas over any scalar values, any versions,
environments and callers, with the shared registry and with the local one, from
`RegistryAssumption` (schemas are schemas) and `ToolsAssumption` (so are
arguments; what stands for no schema and for no environment is none):

- `ClassificationIsSound`: whatever `detectSchemaDrift` calls neither breaking
  nor undecided keeps accepting every call, rule by rule. It is where the run
  had thirty schemas and all pairs of them;
- `ToolsInvariant`: `IInv`. A row has its number for itself and a hash grows
  with every release, so a chain can be told from a part of it (`RowsInv`,
  `HashesInv`); what is lost stays missing, although a registration adds rows
  to a registry whose releases it does not verify (`LossInv`); table and
  history agree on the current release of each environment, and each step of
  that history was judged against the step before it (`PromotedInv`);
  everything the client keeps was agreed to, at every point of every call
  (`CallersInv`);
- `RefusedDriftIsNeverUsed`, `AdmittedWasAlwaysReleased`, `PromotionsKeepCalls`
  (with `ClassificationIsSound`) and `LossAlwaysShows` follow from it. The last
  is the one where both directions have to be argued for both registries: the
  local one has no count, and what it refuses is exactly the release whose
  chain has a gap before it.

Each of these inductive invariants is also checked by the run of its module,
which is how they were found. The bounds of a scenario are not needed by any
proof but for their type.

Model-checked only: the liveness properties (`EveryRevisionIsAcknowledged`,
`HandlersReturn`, `ReservationsAreSettled`, `DeliveriesAreSettled`), which are
out of the prover's reach, as is anything with `ENABLED`, and the four
properties that the runs refute.

## Where code and documentation disagree

1. *Attempts are not bounded* (run `attempts`). `docs/SHARED_STATE.md:159` says
   that "retries are bounded". `claimCheckpointAnchorDeliveries` takes over
   expired leases and counts an attempt without comparing it with the limit;
   only a worker that finishes does. Workers that keep dying after their claim
   attempt a delivery for ever, and it never becomes a dead letter.
2. *A rollback signal without a rollback* (run `rollback`).
   `docs/CHECKPOINT_ANCHORS.md:73` calls a lower revision "a rollback signal
   [that] must be rejected and paged". Dispatch sends the deliveries of a batch
   concurrently, so the newer of two checkpoints may arrive first; the older is
   answered `rollback_detected` and its delivery becomes a dead letter, with
   nothing wrong. The current revision is not affected, as
   `EveryRevisionIsAcknowledged` shows.

3. *A tenant that was added looks like a loss* (run `sqlite_bootstrap`).
   `bootstrapTenant` inserts the manifest of the new tenant at revision 0
   without a checkpoint delivery (`managed/src/store.ts:1029`), and the
   bootstrap command opens the store without an anchor URL
   (`managed/src/bootstrap.ts:49`). An anchored server that has the file open
   sees a new data version, misses the delivery, and refuses every ledger
   operation of every tenant until it is restarted. Its error
   (`managed/src/store.ts:523`) says that "deletion or substitution was
   detected", and nothing was deleted. The shared store exempts revision 0. A
   server that was just opening, and had queued what was missing, does not see
   the new tenant at all: it goes on without a delivery for it until the next
   foreign commit, and refuses then.
4. *A narrowing that counts as compatible* (run `drift`). `docs/DECISIONS.md:21`
   says that a change "without a proven compatibility rule is `review`, never
   silently `backward_compatible`". `compare` (`core/src/drift.ts:263`) judges
   an optional property that is added as `non_breaking` without looking at
   `additionalProperties`. On an object that was open, a call with any other
   value under that name was accepted; after a release that needs no review it
   is refused.

One more remark: `docs/ACTION_CONTROLS.md` speaks of the acknowledgement of the
exact reservation revision; the handler accepts the acknowledgement of whatever
revision is current. `ReceiverRemembers` and `AllowedIsHeld` show that this is
enough.

## What is not modelled

`PROJECT.json` lists every component with its status. Left out:

- the contract compiler, replay, audit envelopes and hashing: conversions
  without state of their own;
- the local API service and the CLI: they call the engine and print;
- bootstrap, environment, connection pool, key derivation, dashboard:
  configuration and rendering. What bootstrap writes is in `ControlState`,
  `SchemaReleases` and `SqliteActionState`;
- repair, strict JSON and the adapters for model providers, which convert
  documents; the JSON Schema validator is a library, and what it accepts is
  `Accepts`;
- the back-fill of integrity columns when an old SQLite file is opened, which
  happens once, before anything else;
- clusters and compatibility matrices, which are computed from the rows when
  they are asked for, and the signing key of rulesets;
- the Python client: the same protocol from another language;
- cryptography and HTTP framing: hashes stand for their input, and a request is
  a message;
- the loss of a manifest row, whose recreation at revision 0 only the
  comparison with the receiver notices;
- two clocks that disagree. Where a clock matters there is one, or its
  decisions may be taken at any time.

The batch limit of a claim (25 or 100) is above every number of deliveries
explored. In the shared ledger several tenants do not share any row, so one
stands for all; in the SQLite file they are verified together, and are
modelled.

## Plan

1. `ActionLedger`, `SharedActionState` with its proofs - done.
2. `AnchorReceiver` with its proofs, `AnchoredExecution` - done.
3. `ActionGate`, `ActionApprovals`, `GuardedAction` with its proofs - done.
4. `SqliteActionState` with its proofs - done.
5. `RateWindow`, `ControlState`, `AlertOutbox`, `IntelligenceState`, composed by
   `ManagedValidation` - done.
6. `SchemaDrift`, `SchemaReleases`, composed by `ManagedTools` - done.
7. The safety of `AnchoredExecution` proved - done.
8. `AnchoredHistoryIsLegal`, `ManagedValidation` with its four stores and
   `ManagedTools` with registry and classification proved - done.
9. To be stated and proved: action properties of these two, such as that a
   deployment's audit chain only grows at its end and is cut at its beginning,
   and the gate's preflight (`ActionGate`) for its arguments alone.
