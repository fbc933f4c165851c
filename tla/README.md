# TLA+ specification of the harness control plane

This directory models the harness (`src/harness/`), the control plane that
hands task cards to workers, decides what happens when they fail or fall
silent, and shows the result to PandaOS. It contains TLA+ modules, TLC
configurations that check them on small instances, and proofs checked by TLAPS.

The harness is a FastAPI application over one PostgreSQL database. All state
that matters is in that database, every operation is one transaction, and the
actors (workers, a scheduler for the maintenance routes, approvers, the PandaOS
consumer) are other processes that crash, repeat themselves and answer late.
So the interesting questions are about *orders of committed transactions* and
about *what a reader of the database may conclude*, and that is the level the
modules are written at.

## 1. Inventory

| Component | Source | State | Operations | Model |
|---|---|---|---|---|
| State store | `store.py` | `agent_tasks`, `agent_events`, `routing_receipts`, `approvals`, `circuit_breakers`, `dead_letters`, `recovery_cards` | `create_task`, `transition`, `claim`, `heartbeat`, `expire_leases`, `report_failure`, `release_due_retries`, `submit_receipt`, `request_approval`, `decide_approval`; snapshots | `TaskStore` by transactions, `TxnStore` by statements |
| Contracts | `contracts.py` | none: the statuses, the transition table, validated requests | validation | `Contracts`, in part |
| Retry and recovery policy | `resilience.py` | none | `retry_delay_seconds`, `requires_recovery` | `Resilience` |
| PandaOS projection | `projection.py`, `Store.pandaos_projection_snapshot` | none of its own; the consumer keeps a cursor and a checkpoint per task | feed at an event cutoff, mapping, `plan_projection` | `Projection` |
| HTTP API | `app.py` | the policies loaded at its start | middleware, routes to the store methods, admission of cards | `TaskStore!ApiNext`, `NasPilot`, `Admission`, in part |
| NAS watcher | `nas_watcher.py` | a process: its token, the end of its window, where it is | seed; claim or resume, heartbeat loop, probes, receipt | `NasPilot` |
| Authentication | `auth.py` | token files, read on every request | route to scope, token to principal | `Access`, in part |
| Task policy | `policy.py`, `policies/` | five policy files, edited one by one | `assert_task_allowed`, `assert_route_allowed` | `Admission` |
| Workflow definitions | `workflow.py`, `workflows/` | none | graph validation, match with the routing policy | not modelled |
| Cockpit and metrics | `cockpit.py`, `metrics.py` | none, read only | snapshots of many SELECTs | the reads of `TxnStore`, in part |
| Backup and restore exercise | `continuity.py`, `scripts/` | a logical backup | seed, crash, restore, sweep twice | backup and restore in `Projection` |
| Build, deployment, evidence | Docker, CI, `evidence/` | none | none | not modelled |

How they interact: clients call the API; the API calls one store method per
request; the store method is one transaction that locks the row of its task
(`FOR UPDATE`) or changes it by one conditional `UPDATE`. Nothing in the harness
runs by itself: leases run out by the clock of the database, but the row only
changes when somebody calls `POST /v1/maintenance/expire-leases`, and a retry
only becomes claimable again through `POST /v1/maintenance/release-retries`.
Circuits couple tasks: all tasks with the same first route entry share a row of
`circuit_breakers`. PandaOS pulls the projection and applies it on its own.

What is hard:

- **Late answers.** A lease runs out at an instant, the sweep comes later, and
  heartbeat, receipt and failure report may arrive before, between and after.
- **Re-running work.** A task may run again only if its own worker said that
  nothing happened, and only within the budget of attempts, which `claim` does
  not look at.
- **Several writes per operation.** A failure writes a classification, perhaps
  a circuit, a status, a second event and a card or dead letter.
- **Shared circuits**, opened by one task while another waits for them.
- **Event ids** that are handed out in one order and committed in another, and a
  consumer that uses the largest one as a cursor.
- **Statements of different methods in between each other.** PostgreSQL runs
  them at read committed: a check and the write that relies on it are two
  statements, and subqueries are not asked again after a wait.
- **One card submitted by several requests** whose INSERTs wait for each other.
- **A watcher that dies and comes back** while its last request is still under
  way, with a token that may have been replaced.
- **Policies in five files** that are edited one by one.
- **Batches** repeated, lost or applied out of order at the consumer, and a
  database that is restored to an earlier state.

What makes each component correct:

- *State store*: one holder at a time; no run beyond the budget; no run unless the
  holder of every earlier run reported that it had no side effect, so none after a
  sweep, an unknown side effect or a rejection; nobody revives a lapsed lease or
  answers for its owner (the owner may still answer late, see finding 1); every
  status change is in the table; the event trail tells the whole story; each
  failed or recovering task has exactly one record for a human; circuits agree with
  their counts; however often and concurrently a card is submitted, its key has one
  task and every answer names it.
- *Projection*: two deliveries of one version agree; a task never goes back; a
  consumer that is at the newest event has everything; a full snapshot repairs.
- *NAS watcher*: the task runs once however often watchers restart, is completed
  only with a receipt after the window, and comes to an end without them.
- *Authentication*: a rotation takes effect on the next request.
- *Policy*: what was admitted keeps its data within the data policy, however the
  files were edited, and is not done without the approval its class required.
- *Snapshots*: figures that a reader compares do not contradict each other.

The hazards, each at its line, are listed in `PROJECT.json`.

## 2. Modules

| Module | What it is |
|---|---|
| `Contracts` | Statuses, transition table, failure reports, outcomes, decisions, the phase of a status |
| `Resilience` | Backoff and recovery rules, with the four tuning constants as parameters |
| `TaskAuthority` | What the store promises, without leases, time, circuits or rows |
| `TaskProbe` | `TaskStore` with the memory of which running tasks are half-open probes |
| `TaskStore` | The store, one action per committed method; EXTENDS `Contracts` and `Resilience`, implements `TaskAuthority` |
| `TxnStore` | The store statement by statement with row locks, and the cockpit's reads; implements `TaskAuthority` |
| `Projection` | Feed, planner, the external consumer and the writers they race with |
| `Access` | Principals, scopes and token files |
| `NasPilot` | Watcher processes, network, runtime and operator around `TaskStore` and `Access` |
| `Admission` | Policy files, their checks, and concurrent submissions of cards statement by statement; EXTENDS `Access` |
| `MCTaskStore`, `MCTaskProbe`, `MCTxnStore`, `MCProjection`, `MCNasPilot`, `MCAdmission` | Small instances for TLC |
| `TaskStoreProofs`, `TaskApiProofs` | Theorems about `TaskStore` under any use, and as the API uses it |
| `TxnStoreProofs`, `TxnRecordProofs` | Theorems about `TxnStore`: locks and reads; rows, records and the refinement |
| `ProjectionProofs` | Theorems about `Projection` |
| `AdmissionProofs` | Theorems about `Admission` |
| `NasPilotProofs` | Theorems about `NasPilot`, on top of those about the store |

Operators whose comment begins with *Faulty* are no part of the model. Each is a
plausible slip in the code (a dropped guard, a stale read, an off-by-one) and is
swapped for the correct operator to see that a property notices.

### TaskStore

One action is one store method that commits. A method that raises rolls back and
is no step. Two of them (`heartbeat` and `submit_receipt`) commit an audit event
about a refused call before they raise; that event changes no status and is a
stuttering step. Methods lock the task row first, so at this level they are
atomic; `TxnStore` is about the places where that is not the whole truth.

| Variable | Column or table |
|---|---|
| `status`, `owner`, `attempts` | `agent_tasks.status` (`"absent"` without a row), `owner_instance`, `attempt_count` |
| `lease`, `retryIn` | `lease_expires_at - now()` with -1 for *past*; `next_attempt_at - now()` with 0 for *now or past* |
| `circuit` | `circuit_breakers`: state, failure count, and the time left until `next_probe_at` |
| `approvals`, `receipts`, `deadLetters`, `recoveryCards` | the rows per task, reduced to what decisions look at |
| `logged` | what a reader of `agent_events` concludes about each task: every event the code inserts is folded in by `Replay` |
| `cleared` | history variable: reports of holders that left no side effect open, per task |
| `interventions` | history variable: direct `transition()` calls, to bound them |

Time stamps are kept as time left, so the clock is the action `Tick`, which
lowers every one of them. `lease` distinguishes *running*, *exactly now* and
*past* because the code compares with `>` in `heartbeat` and with `<` in `claim`
and `expire_leases`. `lease_minutes` is an unconstrained integer of the request
(`app.py:47`), so a lease may be over the moment it is given (`LeaseOf`).

`report_failure` is split by outcome into named disjuncts (`RequireRecovery`,
`ScheduleRetry`, `ExhaustRetries`, `StopForHuman`, `FailPermanently`), each with
everything the method writes on that path.

Two next-state relations: `ApiNext` is what the routes of `app.py` reach; `Next`
adds `Transition`, the public `transition()` method that no route calls. What
holds under `Spec` holds whatever internal caller steps in; what needs the
discipline of the API is checked under `ApiSpec`.

`TaskAuthority` is the promise, per task: *absent*, *open*, *held*, *waiting*,
*judged*, *uncertain*, *stopped*, *done*. The only way back to *open* is
*waiting*, reached from *held* with budget left by a report of the holder that clears
the run, and a run starts only when all earlier ones are cleared.
`TaskStore!ImplementsAuthority` maps twelve statuses to these eight phases, `owner` to
the holder, `attempts` to the number of runs, and `cleared` to itself. A lease is no
part of this promise: `LapsedOnlyAnswered` says what the store guarantees about one
that is over, and finding 1 what it does not. A bulk sweep moves several tasks in one
step, so a step of the abstract specification is a step of each task or a rest.

`TaskProbe` adds one history variable, `probing`: the running tasks that were claimed
while the circuit of their route was open and no longer cooling. The store does not
know of probes; a test calls them half-open.

### Projection

Store methods appear as what the feed sees of them: `BeginWrite` takes the row
lock and the next id of the `event_id` sequence (ids are handed out at the INSERT,
outside of transaction order), `CommitWrite` publishes row and event,
`RollbackWrite` loses the id. `Fetch` is one repeatable-read snapshot: cutoff and
rows of one state. `plan_projection` is the planner, case by case. The consumer
is external; its actions (`Apply` one delivery, `Finish` the batch and move the
cursor, `GiveUp`) follow the algorithm in `docs/pandaos-projection-adapter.md`.
`Edit` and `Delete` are somebody changing PandaOS, `Backup` and `Restore` are `pg_dump`
and `pg_restore`. Of a session task that is gone the consumer observes nothing; if the
planner then asks for an update, PandaOS cannot carry it out and the batch fails
(`Impossible`).

A fingerprint is represented by what it hashes, the displayed status and
`activeForm`; the title never changes. `activeForm` carries the owner or the
release time, hence the values of `Details`, and the wording for `claimed` and
`in_progress` is the same, which is what makes `advance_cursor` reachable.

### TxnStore

The same store with every statement a step of its connection. A transaction has
a list of locks it still wants (`LockPlan`), waits for the first (`Acquire`), has
read a row once it holds its lock (`seen`), and may be refused, lose its connection
or be ended by the database at any point (`Refuse`, `Abort`); its writes appear
together with its commit, which releases the locks. What read committed does is
modelled where the code depends on it: a conditional UPDATE picks its rows by the
snapshot of its start (`BeginClaim`, `BeginSweep`), waits for their locks and tests
its condition on the row again (`Rechecked`), but not what its subquery found in
`circuit_breakers`. A failure report takes the lock of its circuit after that of its
task, a receipt only when it closes the circuit. The cockpit is a transaction with
a snapshot per statement (`ReadReceipts`, `ReadFlow`, `ReadRisks`).

Time is reduced to what statements ask: a lease is over or not, a circuit cools or
does not. The failure count of a circuit is read when its lock is granted (`count`)
and written with the commit, so that a missing lock would lose a failure of another
reporter. `failed` (failures committed on a route since its circuit closed), `cleared`
and `overtaken` (a claim whose circuit opened while it waited) are history variables.
The flow panel counts all tasks and the risk panel operational ones only
(`EvidenceTasks`); for an evidence card in `recovery_required` the two do differ, which
`tests/test_cockpit.py` wants so. `transition()` and approvals
by action are left to `TaskStore`.

### Access and NasPilot

`Access` is the middleware: each request reads the token files again, the first
one that matches or cannot be read decides, and a scope per operation says whether
the principal may go on. `authenticate` answers with the HTTP status.

In `NasPilot` a watcher is a process with a program counter: `boot` (read the
token), `claim`, `read` (the task, after a refused claim), `check` (the clock: beat or
send the receipt), `probe`, `sleep`, and in the end `finished` or `exited`. It has
one request at a time. A request is authenticated and handled by the API in two
steps; the handler is one action of `TaskStore` or a refusal, which is what happens
where the condition of the store's method does not hold (`Claimable`, `HoldsLease`,
`MayAnswer`). The watcher may give
up at any time (timeout, failing probe, killed), and what it has given up may still
arrive (`strays`) or get lost. The container runtime restarts a failed watcher
`MaxRestarts` times. A tick of the clock is one interval. Every error ends the process:
the code has no retry of its own. Only the operator can sweep, as no principal has
the scope `maintenance:write`.

### Admission

A bundle is the content of the policy files as the code reads it: functions from the
keys a file has, so that a forgotten key is a missing one. `assert_task_allowed` is the
conjunction of its checks in the order of the code.

A request is a connection: `Submit` is the middleware, the policy and the start of the
INSERT; `Insert` is where PostgreSQL lets it in, waiting for an open INSERT of the same
key (`MayInsert`); `CommitInsert` and `SelectExisting` are the two ways on, the SELECT
with a snapshot of its own (`Found`). `Finish` is the end of a request or a broken
connection, whose row is rolled back. `Deploy` starts the API again, perhaps with edited
files; only a COMMIT that is already on its way survives it. `rows` keeps for each key
the tasks in the store with the bundle they were admitted under, and `Complete` and
`Decide` are what becomes of a task as far as its approval is concerned.

## 3. Runs

| Run | Instance | What it shows |
|---|---|---|
| `store_api` | 3 cards (one is another submitted again), 2 workers, 1 route, budgets 2 and 3, threshold 3, leases -1 and 2 | Everything about the API use of the store, the refinement of `TaskAuthority`, what becomes of lapsed leases, and that retries are released and silence ends every execution |
| `store_operator` | 2 cards with budget 2, 1 direct transition each, threshold 2 | Budget, trail and table survive transitions at any point |
| `txn_store` | 2 cards (budgets 2 and 1, one with an approval), 2 workers, 2 connections, 1 route, one report per outcome of a failure | What was checked under a lock stays true, only two sweeps deadlock, concurrent failures all count, panels and figures agree, late claims were early, the refinement of `TaskAuthority` |
| `nas_pilot` | 1 card, 2 watchers of which one is restarted once, window 2, lease 2, 1 rotation | One run, no completion without a receipt after the window, revocation, the pilot and the watchers come to an end |
| `projection_feed` | 2 tasks, 2 writers at a time, 2 events, 2 batches, 1 failed batch, and 1 edit, deletion or restore | Versions agree, the consumer never goes back, rebuilds repair unless the database was restored, where no two writers overlapped the incremental feed is complete, and PandaOS ends up showing the store unless it is restored or a session task deleted |
| `admission` | 3 requests for one key, 17 bundles, 10 cards, 1 change of the files | One task per key, true answers, data within the data policy, no completion without the approval the class required |

Runs that find a disagreement with the documentation:

| Run | Property | What happens |
|---|---|---|
| `store_late_answer` | `LapsedClaimEndsInRecovery` | A receipt or failure report after the end of the lease and before the sweep is accepted |
| `store_probe` | `CompletedProbeClosesCircuit` | A probe claimed after the cooldown completes and, its card needing no approval, leaves the circuit open and its count standing |
| `store_other_action` | `RequiredActionsApproved` | The approval of one action finishes a task that requires another |
| `projection_gap` | `FeedComplete` | With two concurrent writers the cursor passes an id that commits later |
| `projection_restore` | `RebuildSyncs` | After a restore the rebuild is ignored as old |
| `projection_missing` | `MissingRepaired` | A deleted session task is not created again by any full snapshot |

**Bounds.**

- `store_*`: two cards on one route are what it takes for one task to open the
  circuit another waits for; the third card exists only to be a duplicate. Budgets 2
  and 3 give a first, a middle and a last attempt, and with threshold 3 the circuit
  opens through failures of both tasks together. Backoff doubles from 1 and is capped
  at 2, `retry_after` 3 exceeds cap and cooldown, so each of the three can decide the
  delay. A lease of -1 is over at once, one of 2 runs down through exactly now to past.
  Attempts need no bound: the budget bounds them. Direct transitions have one
  (`MaxInterventions`), which `RetryBudget` accounts for.
- `txn_store`: two connections are the least that can wait for each other, and a sweep
  over two tasks is the least that locks in two orders. Budgets and the phases bound
  every table. That three or more connections add nothing is what the proofs say.
- `nas_pilot`: `Window` 2 lets a watcher beat twice, which is what a stale token needs
  to be noticed; lease 2 lets it run out while the window lasts. The restart gives two
  lives with the same owner name, the rival a second name. `MaxRestarts` is bounded in
  the deployment too.
- `projection_*`: two events and two writers are the least for an id that commits after
  a larger one; two batches are the least that can arrive out of order. One task then
  has two versions, or two tasks have one each; the runs about gaps and restores have a
  third event. `MaxMishaps` allows one edit, deletion or restore (a backup counts as
  none) in a behaviour: their combinations are covered by the proofs.
- `admission`: the policies of the repository, and for each check one edit that a
  person could make and that the check is there to notice; catalog and data policy,
  which have to agree, are edited together too. Three requests are one that inserts,
  one that waits for it and one that is answered; one key, as keys do not interact.

Workers and connections are symmetric where no liveness is checked.

**Fairness.** `FairApiSpec` assumes that time passes and that somebody keeps
calling the two maintenance routes; it assumes nothing of workers or approvers.
The harness contains no scheduler, so this is an assumption about the deployment,
and without it neither `RetriesAreReleased` nor `SilenceEndsExecution` holds.
`SilenceEndsExecution` says: a task leaves the execution states, or its owner
sends heartbeats forever. `FairPilotSpec` assumes the clock and an operator who
sweeps, that a process that can go on does, and that it gives up a request that is
never answered (the timeout of 15 seconds); it assumes nothing of the API, the
network or the token files. `FairSpec` of `Projection` assumes that transactions
end, that the consumer works off what it has of each kind, incremental and full, task
by task (`Work`), and that it asks for a full snapshot again and again (strong
fairness: a fetch needs a free place, which the consumer's own work frees and its
incremental fetches fill). A consumer that never rebuilds has no such guarantee, as
finding 4 shows.

## 4. Proofs

`TaskStoreProofs` proves, for every set of cards, workers, routes, actions and
lease lengths and for all tuning constants that satisfy `StoreAssumption` and
`ResilienceAssumption`:

- `TypeInvariant`: `Spec => []TypeOK`. It is inductive as it stands. The long part
  is `report_failure` (lemma `FailureType`, one case per outcome); `SetStatusType`
  uses that the table only leads to statuses, `CircuitType` and `DelayType` that
  the helpers return rows and times.
- `BackoffBounded`, about `retry_delay_seconds` for every class, attempt and tuning
  constant: no delay is 0, only that of a rate limit can exceed the bound, and a later
  attempt never waits less. That a power of two is positive and grows takes no
  induction over numbers: it is the number of subsets of a range, and the library knows
  how many subsets a finite set has (lemma `PowerOfTwo`).
- `RetriesWaitOutCircuit`: `Spec => RetryWaitsOutCircuit`. The delay looks at the
  circuit as the failure leaves it; no other method leads to `retry_wait` with a
  count that grows.
- `LogCorrect`: `Spec => []LogDeterminesStatus`. Inductive given the types; one
  case per action shows that `Replay` of the events it writes is the status it
  sets. `FailureEffect` says what each outcome of a failure report does to both.
- `TableRespected`: `Spec => StatusFollowsTable`, from the types and one case per
  action. The bulk updates of `expire_leases` and `release_due_retries` and the
  receipt's passage through `in_progress` do not go through the check the other
  methods share; lemma `TableRows` supplies the rows of the table they rely on.
- `BudgetRespected`: `Spec => []RetryBudget`. `claim` counts an attempt without
  looking at the budget, so the bound on attempts is only preserved because a task
  that waits to be claimed always has one left; `RetryBudget` says both. It still
  says nothing of a card that has no row yet, whose `create_task` makes it
  *ready*; `Budgeted` adds that such a card has used no attempt, and is inductive.

- `CircuitRespected`: `Spec => []CircuitConsistent`, inductive given the types;
  the only methods that touch a circuit are a failure (lemma `CircuitFailure`), a
  receipt that closes it, and the clock.

These hold for `Spec`, with direct transitions, hence for `ApiSpec`.
`TaskApiProofs` adds what needs the discipline of the API, for the same constants:

- `LeasesDisciplined`: `ApiSpec => []LeaseDiscipline`. Inductive once it also says
  that a card without a row has no lease (`Leased`).
- `ApprovalsGate`: `ApiSpec => []ApprovalGate`. After an answer no question may be
  open, and that follows only if there was one at most before (`Gated`); there was,
  because a question is asked in `review` only, where none is open.
- `RecoveryCardsMatch`: `ApiSpec => []RecoveryCardsMatchStatus`. The table would let
  `decide_approval` take a task out of `recovery_required`; `Gated` excludes that,
  since an open question means `awaiting_approval`.
- `FailuresAccounted`: `ApiSpec => []FailureAccounting`. Inductive with types and
  `Gated`: each way into `failed` files one record (`FailureLetter`, `CountAppend`), and
  nothing leads out of it.
- `LapsedNeverRevived`: `ApiSpec => LapsedOnlyAnswered`, what remains true where finding
  1 refutes the promise about lapsed claims. A task whose lease is over stays as it is,
  goes to `recovery_required` with a sweep, or is answered by its own worker; no claim
  and no heartbeat revives it.
- `StoreImplementsAuthority`: `ApiSpec => ImplementsAuthority`. `AuthorityStep` is a
  step of `TaskAuthority` for one task in terms of the store, `RefinementStep` shows
  that every method is such a step for every task, and `AuthorityNext` puts the
  tasks together. It relies on types, budget, `Gated` and the absence of direct
  transitions (`Relied`).

`TxnStoreProofs` is for any number of tasks, workers, routes and connections. Its
inductive invariant `IInv` is the discipline of the locks: per kind of transaction,
which locks it holds, which it still wants in which order, and that it has read the
row under its lock (`Stage`, `CallOK`, and their counterparts for sweeps). Lemmas
`BystanderOK` and `MovingOK` separate the connection that moves from those that
watch: a lock somebody holds protects what he has read. From it follow

- `TxnTypeInvariant`: `Spec => []TypeOK`;
- `ReadsStay`: `Spec => []ReadsStayTrue`, what a method decides on is still so when it
  writes;
- `NoCallDeadlocks`: `Spec => []OnlySweepsDeadlock`. Approvals come before tasks and
  tasks before circuits, and a call wants one of each; so in a circle of connections
  everyone holds one task and waits for another, and only sweeps do.

`TxnRecordProofs` uses that invariant to read every commit as one of nine moves of
its task (`StepMoves`): created, claimed, reported, and so on, decided on the row as it
is. The rest is about moves, no longer about locks:

- `FiguresAgree`, `FiguresFixed`, `PanelsAgree`: recovery cards, dead letters and
  receipts per status (`RecordInv`), their stability, and what may happen between two
  statements of the cockpit;
- `FailuresCount`: a reporter that holds the lock of a circuit still has in hand the
  count that is in the row when it writes (`Counting`, `CountingHolds`), so no failure
  is lost; without the lock (`GrantRowsOnly`) TLC loses one;
- `EarlyClaimsOnly`: a claim that passes an open, cooling circuit began before it opened
  (`Overtaken`);
- `TxnsImplementAuthority`: `Spec => ImplementsAuthority`, each move being a step of
  `TaskAuthority` or a rest.

`ProjectionProofs` has three layers, for any tasks, details and bounds:

- `Typed` (ids and the backup included) gives `ProjectionTypeInvariant`,
  `NeverBack` and `PandaShows`. `MaxIdFact` needs that a finite range of numbers has a
  largest one, which comes from the well-foundedness of `<` over the distances to the
  bound. `ApplyEffect` reduces the six actions of the planner to two effects: ignored,
  or recorded and shown.
- `Faithful`: until a restore no delivery is newer than its row, one of the newest
  version shows the row, and deliveries of a version agree. It is inductive with
  `Fresh`, the id of an open transaction is larger than the version of its task. It
  gives `OneTruthPerVersion` and, with `Recorded` (whatever is no longer left
  of a batch has been recorded), `RebuildRepairs`.
- `Serial`: while no two store methods overlapped, one transaction at most is open and
  its id is larger than every version, cutoff and cursor; and what a cutoff passes, the
  consumer has or is about to be told. That gives `IncrementalCatchesUp`:
  `Spec => []CaughtUp`. The run `projection_gap` shows that the condition is needed.

`RebuildRepairs` is about what the consumer recorded; what PandaOS shows after a rebuild
is `EventuallyShown`, which is liveness.

`AdmissionProofs` is for all cards, all contents of the files and any number of keys and
requests. Its inductive invariant `AdmissionInv` says two things. A row passed the check
under the bundle it was admitted under and is done only without approvals on its card or
with one given (`Lawful`); that gives `DataStays`, where the agreement of catalog and data
policy does the work, and `HumansHaveTheirSay`. And of the requests for a key one at most
has inserted a row it has not committed, only while there is no other (`OneInserts`,
`RequestOK`); whose INSERT did nothing finds a row. That gives `KeysHaveOneTask` and
`AnswersTrue`.

`NasPilotProofs` is for any number of watchers, any window and any numbers of restarts
and rotations. Its inductive invariant `PilotInv` says what each party may conclude:

- the row (`RowOK`): before the only claim it has no attempt and no owner, afterwards one
  attempt, and a receipt exactly when it is done, which it is after the window only;
- a watcher (`WatcherOK`): where it works, it owns the task; its token is one of the
  NAS principal, of an earlier rotation while the file is being replaced (`TokenOK`); what
  it waits for is of its own life and of the place it is at (`CallOK`); and after a
  report under a replaced token it has at most one more request in front of it, which
  is not answered with 200 (`StaleOK`);
- a request and its answer (`RequestOK`): a claim answered with 200, and a task read as
  one's own, mean ownership; a receipt was sent after the window, and answered with 200
  it means *done*;
- what dead processes left behind (`StraysOK`): one request of each earlier life at most.

The answers are the reason why it has to be this long: a watcher acts on an answer
long after the store gave it, so the invariant has to keep its meaning true while
others move (`Bystander`, `RequestStays`). A row that has been claimed never becomes
*ready* again, because the watchers send no failure reports (`RowStep`); without that, a
late claim of an earlier life could take the task again. From `PilotInv` follow

- `PilotUsesApi`: `PilotSpec => ApiSpec /\ ImplementsAuthority`, the pilot is one use of
  the store's API, so every theorem about `ApiSpec` holds for it;
- `PilotTypes`, `RunsOnce`, `CompletesReally`, `RevokesInTime`: `PilotTypeOK`, `OneRun`,
  `CompletionIsReal` and `RevocationBites` always hold.

Before the proof, TLC checked `PilotInv` on the instance of `nas_pilot`.

Only model-checked: liveness (`RetriesAreReleased`, `SilenceEndsExecution`,
`ClaimSettles`, `WatchersEnd`, `EventuallyShown`), as fairness and ENABLED are out of the
prover's reach. Every invariant and action property that a passing run checks is
stated by a theorem. Those of the runs that find a disagreement are false of the code.

## 5. Findings

1. *Late answers are accepted.* `submit_receipt` and `report_failure` check owner
   and status, not the lease. Between the end of the lease and the next sweep the
   task can still become done, failed, or scheduled for a retry and run again,
   where test and README say that a claim that has run out ends in
   `recovery_required` and is not rerun. `LapsedNeverRevived` proves that this is
   the whole extent of it.
2. *A successful probe does not always close the circuit.* The reset is on the path to
   `review` only, so the half-open probe of a card that requires no approval leaves the
   circuit open and its count standing. On a route that has no other cards
   `failure_count` never returns to 0, and after the third failure of its life every
   single further one starts a new cooldown. The test of the probe
   (`tests/test_resilience.py:135`) has a card with an approval.
3. *Approvals are not tied to the required action.* `request_approval` takes any
   action and its approval makes the task done.
4. *The cursor can pass an event.* Ids are taken from a sequence and commit in any
   order. A consumer that has applied a batch through id 2 never hears of id 1 if
   that commits later, until the task changes again or a rebuild runs.
5. *A restore outdates the rebuild.* After a restore the event ids start below the
   consumer's checkpoints, and `plan_projection` answers `ignore_old` to the full
   snapshot that the 409 asks for.
6. *A deleted session task stays away.* `plan_projection` answers `create` only where
   the consumer has no checkpoint, and without an observed task it looks for no drift.
   A full snapshot after the deletion gets `noop`, `advance_cursor`, or the update of a
   task that is not there, where the documentation says that it repairs what is missing.

Also met while modelling, and no finding:

- `expire_leases` leaves owner and `lease_expires_at` in the row, although
  `_set_status` says of itself that the lease is released when the execution states
  are left. `claim` tests the old lease, so this does no harm by itself.
- Two sweeps at the same time may deadlock, since each locks rows in the order of its
  scan; PostgreSQL ends one and the next call repeats it.
- With authentication on, no principal has the scopes of the maintenance and the
  approval routes. The pilot depends on an operator who sweeps past the API.
- A watcher that is started after the end of its window sends a completed receipt
  with zero cycles.
- `max_total_attempts` (`policies/routing-policy.yaml:7`) and `allowed_provider_classes`
  of the data classes are in the files but nothing reads them.
- The flow panel of the cockpit counts evidence cards and the risk panel does not, so the
  two may differ for them; `tests/test_cockpit.py` has it so. `CockpitPanelsAgree` is
  about operational cards.
- Policies are read once, when the API starts. A client that repeats a submission
  after a change may get 403 (`app.py:130`) although its task exists and runs.

## 6. Not modelled, and why

- *Refused calls*, beyond being refused. The audit event some of them commit changes
  no status; in `Projection` it is an event that leaves the row as it is.
- *now() inside a transaction.* It is the start of the transaction; `TxnStore` lets a
  sweep look at the lease as it is once it has the lock. What a sweep leaves because
  its now() is older, the next one takes.
- *A task id submitted again under another key.* The INSERT violates the primary key and
  the request fails; nothing else changes. `Admission` has one task id per request.
- *The moment between policy check and INSERT.* The policies do not change while a
  process runs, so `Submit` does both.
- *Money, tokens, free text, UUIDs, hashes, wording*, and the formats and ranges of
  single fields. No decision of the store depends on them; a fingerprint stands for
  what it hashes.
- *Which attempt an answer is about.* Answers carry no attempt number, so a late answer
  to an earlier attempt counts for the later one of the same worker; no document
  promises otherwise.
- *The content of probes and reports* of the NAS watcher, and the name checks of
  `app.py` for its worker, which compare a prefix that the watcher's constructor
  enforces.
- *`from_environment`, the disabled mode and paths outside the API* of `auth.py`:
  fixed when the process starts.
- *Counts, sums and panels made of configuration* in cockpit and metrics: pure
  arithmetic over one snapshot.
- *Workflow definitions*: `workflow.py` validates a graph in a file and nothing at run
  time calls it. Its search is recursive over data, which its unit tests enumerate.
- *The backup and restore exercise* is a fixed sequence of store methods over three
  tasks, followed by comparisons of hashes. Backup and restore themselves are actions
  of `Projection`.
- *PandaOS* is external and follows its documentation.
- *Build, deployment and evidence files* have no state.

## 7. What could follow

1. The identity of attempts: an attempt number in answers, should the code get one.
2. Several instances of the API with different policies during a rollout (`Admission`
   has one at a time).

## 8. Running

    tlc -config store_api.cfg MCTaskStore
    tlc -config store_probe.cfg MCTaskProbe
    tlc -config txn_store.cfg MCTxnStore
    tlc -config nas_pilot.cfg MCNasPilot
    tlc -config projection_feed.cfg MCProjection
    tlc -config admission.cfg MCAdmission
    tlapm TxnRecordProofs.tla

Configurations `store_*` belong to `MCTaskStore` (but for `store_probe`), `projection_*` to `MCProjection`, the
others to the module of their name. The largest passing run takes about three minutes
on two cores, the proofs of a module from half a minute to several minutes.
