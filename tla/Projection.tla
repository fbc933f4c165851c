----------------------------- MODULE Projection -----------------------------
(***************************************************************************)
(* The one-way projection of harness tasks to PandaOS: the read at an      *)
(* event cutoff (store.py, pandaos_projection_snapshot), the mapping and   *)
(* the planner (projection.py), and the consumer that docs/pandaos-        *)
(* projection-adapter.md describes.                                        *)
(*                                                                         *)
(* Store methods appear as what the feed sees of them: a transaction that  *)
(* holds the row lock of a task, takes the next event id and, when it      *)
(* commits, publishes the row and the event together.  Ids are taken from  *)
(* a sequence, at the INSERT and for good; commits come in any order.      *)
(***************************************************************************)
EXTENDS Contracts, Integers, FiniteSets

CONSTANTS
  Tasks,
  EvidenceTasks, \* cards with projection_kind evidence
  Details,       \* what activeForm may show besides the status
  MaxWriters,    \* store methods that run at the same time
  MaxEvents,     \* bound: event ids
  MaxBatches,    \* bound: responses the consumer has at hand
  MaxFailures,   \* bound: batches the consumer fails to apply
  MaxEdits,      \* bound: manual changes in PandaOS
  MaxDeletions,  \* bound: session tasks deleted in PandaOS by hand
  MaxRestores,   \* bound: restores of the one backup
  MaxMishaps,    \* bound: edits, deletions and restores together
  None           \* no row, no transaction, no checkpoint, no backup

ASSUME ProjectionAssumption ==
  /\ Tasks # {} /\ EvidenceTasks \subseteq Tasks
  /\ MaxWriters \in Nat \ {0}
  /\ {MaxEvents, MaxBatches, MaxFailures, MaxEdits, MaxDeletions,
      MaxRestores, MaxMishaps} \subseteq Nat

VARIABLES
  rows,       \* committed rows of agent_tasks: status and detail
  version,    \* committed max(event_id) of each task, 0 without an event
  lastId,     \* the last value of the event id sequence
  writing,    \* the open transaction on each task: its row and event id
  overlapped, \* whether two transactions were ever open at a time (history)
  cursor,     \* the cursor of the consumer
  checkpoint, \* event and fingerprint the consumer recorded for each task
  panda,      \* the PandaOS session task of each task, None where there is none
  batches,    \* responses not yet applied or given up
  backup,     \* a logical backup of the database
  failures, edits, deletions, restores \* numbers of each, for the bounds

store == <<rows, version, lastId, writing, overlapped>>
consumer == <<cursor, checkpoint, panda, batches>>
counts == <<failures, edits, deletions, restores>>
vars == <<store, consumer, backup, counts>>

-----------------------------------------------------------------------------
(* The mapping.                                                            *)

\* activeForm has a detail in these statuses: the owner or the release time.
Detailed == ExecutionStates \cup {"retry_wait"}

Row == [status : Detailed, detail : Details]
         \cup [status : TaskStatus \ Detailed, detail : {None}]

PANDA_STATUS(s) ==
  CASE s \in {"claimed", "in_progress", "review"} -> "in_progress"
    [] s \in {"done", "cancelled"}                -> "completed"
    [] OTHER                                      -> "pending"

\* The text shown: claimed and in_progress show alike.
ActiveForm(t, row) ==
  IF t \in EvidenceTasks
  THEN <<"evidence", row.status>>
  ELSE IF row.status \in ExecutionStates
       THEN <<"running", row.detail>>
       ELSE <<row.status, row.detail>>

\* What PandaOS shows; the fingerprint is a hash of it, the title never
\* changes.
Display(t, row) ==
  [status |-> PANDA_STATUS(row.status), form |-> ActiveForm(t, row)]

Displays == {Display(t, row) : t \in Tasks, row \in Row}
              \cup {[status |-> "pending", form |-> <<"edited">>]}

\* What the feed delivers, and what the consumer records of it.
Deliveries == [task : Tasks, event : 1..MaxEvents, display : Displays]

Checkpoints == [event : 1..MaxEvents, display : Displays]

ASSUME NoCheckpointIsNone == None \notin Checkpoints

\* Faulty: the row is read after the cutoff, a later commit shows through.
ProjectedRowLater(t) == IF writing[t] # None THEN writing[t].row ELSE rows[t]

\* The row the feed reads, in the same snapshot as the cutoff.
ProjectedRow(t) == rows[t]

\* Faulty: the cutoff counts ids whose transaction is still open.
MaxIdTaken(versions) == lastId

\* The cutoff: the newest committed event.
MaxId(versions) == CHOOSE v \in {versions[t] : t \in Tasks} :
                     \A u \in Tasks : versions[u] <= v

\* The rows of pandaos_projection_snapshot, projected.
Feed(full) ==
  {[task |-> t, event |-> version[t], display |-> Display(t, ProjectedRow(t))] :
     t \in {u \in Tasks : rows[u] # None /\ (full \/ version[u] > cursor)}}

\* Faulty: a repetition is recognised before the drift is looked for.
plan_projection_noop_first(p, recorded, observed) ==
  CASE recorded = None -> "create"
    [] recorded # None /\ p.event < recorded.event -> "ignore_old"
    [] recorded # None /\ p.event = recorded.event ->
         IF p.display = recorded.display THEN "noop" ELSE "repair"
    [] recorded # None /\ p.event > recorded.event ->
         IF observed \notin {None, recorded.display} THEN "repair"
         ELSE IF p.display = recorded.display THEN "advance_cursor" ELSE "update"

\* Faulty: every delivery is taken for news.
plan_projection_regressing(p, recorded, observed) ==
  IF recorded = None THEN "create" ELSE "update"

\* Faulty: an event that changes nothing visible is taken for a repetition.
plan_projection_no_advance(p, recorded, observed) ==
  CASE recorded = None -> "create"
    [] recorded # None /\ p.event < recorded.event -> "ignore_old"
    [] recorded # None /\ p.event >= recorded.event ->
         IF observed \in {None, recorded.display} /\ p.display = recorded.display
         THEN "noop" ELSE "update"

\* Faulty: an update is not written to PandaOS.
WritesPandaOnlyOnCreate(action) == action = "create"

WritesPanda(action) == action \in {"create", "update", "repair"}

\* The planner: what to do about a delivery p, given what was recorded and
\* the session task observed in PandaOS.  Without one no drift is looked for.
plan_projection(p, recorded, observed) ==
  CASE recorded = None -> "create"
    [] recorded # None /\ p.event < recorded.event -> "ignore_old"
    [] recorded # None /\ p.event >= recorded.event
         /\ observed \notin {None, recorded.display} -> "repair"
    [] recorded # None /\ p.event = recorded.event
         /\ observed \in {None, recorded.display} ->
         IF p.display = recorded.display THEN "noop" ELSE "repair"
    [] recorded # None /\ p.event > recorded.event
         /\ observed \in {None, recorded.display} ->
         IF p.display = recorded.display THEN "advance_cursor" ELSE "update"

-----------------------------------------------------------------------------
\* The bound on what happens behind the back of the consumer, of any kind.
MayGoWrong == edits + deletions + restores < MaxMishaps

Init ==
  /\ rows = [t \in Tasks |-> None]
  /\ version = [t \in Tasks |-> 0]
  /\ lastId = 0
  /\ writing = [t \in Tasks |-> None]
  /\ overlapped = FALSE
  /\ cursor = 0
  /\ checkpoint = [t \in Tasks |-> None]
  /\ panda = [t \in Tasks |-> None]
  /\ batches = {}
  /\ backup = None
  /\ failures = 0 /\ edits = 0 /\ deletions = 0 /\ restores = 0

\* The statuses one commit can take a task to.  A receipt for a claimed task
\* starts it and ends it in one transaction.
NextStatuses(s) ==
  TRANSITIONS[s] \cup (IF s = "claimed" THEN TRANSITIONS["in_progress"] ELSE {})

\* The rows one store method can make of the row of task t: a new task, a
\* move of the table, or the row as it is (an event about a refused call).
\* A sweep over several tasks is a write for each.
RowsAfter(t) ==
  IF rows[t] = None
  THEN {row \in Row : row.status = "ready"}
  ELSE {row \in Row : row = rows[t] \/ row.status \in NextStatuses(rows[t].status)}

\* Faulty: the id last handed out.
SameId == lastId

NextId == lastId + 1

\* A store method has locked the row, changed it and inserted its event.
BeginWrite(t, row) ==
  /\ writing[t] = None
  /\ Cardinality({u \in Tasks : writing[u] # None}) < MaxWriters
  /\ lastId < MaxEvents
  /\ row \in RowsAfter(t)
  /\ lastId' = NextId
  /\ writing' = [writing EXCEPT ![t] = [row |-> row, id |-> NextId]]
  /\ overlapped' = (overlapped \/ \E u \in Tasks : writing[u] # None)
  /\ UNCHANGED <<rows, version, consumer, backup, counts>>

CommitWrite(t) ==
  /\ writing[t] # None
  /\ rows' = [rows EXCEPT ![t] = writing[t].row]
  /\ version' = [version EXCEPT ![t] = writing[t].id]
  /\ writing' = [writing EXCEPT ![t] = None]
  /\ UNCHANGED <<lastId, overlapped, consumer, backup, counts>>

\* The method raised: its event id is never used.
RollbackWrite(t) ==
  /\ writing[t] # None
  /\ writing' = [writing EXCEPT ![t] = None]
  /\ UNCHANGED <<rows, version, lastId, overlapped, consumer, backup, counts>>

\* GET /v1/projections/pandaos.  A cursor ahead of the store is refused.
Fetch(full) ==
  /\ Cardinality(batches) < MaxBatches
  /\ full \/ cursor <= MaxId(version)
  /\ batches' = batches \cup
       {[full |-> full, through |-> MaxId(version), tasks |-> Feed(full),
         left |-> Feed(full)]}
  /\ UNCHANGED <<store, cursor, checkpoint, panda, backup, counts>>

\* External: PandaOS has no session task to update or repair.
Impossible(action, t) == WritesPanda(action) /\ action # "create" /\ panda[t] = None

\* The consumer plans and carries out the next delivery p of a batch.  If
\* PandaOS cannot, the batch has failed; the cursor stays.
Apply(b, p) ==
  LET t == p.task
      action == plan_projection(p, checkpoint[t], panda[t])
  IN  /\ \A q \in b.left : p.event <= q.event
      /\ \/ /\ Impossible(action, t)
            /\ batches' = batches \ {b}
            /\ UNCHANGED <<checkpoint, panda>>
         \/ /\ ~Impossible(action, t)
            /\ panda' = IF WritesPanda(action)
                        THEN [panda EXCEPT ![t] = p.display] ELSE panda
            /\ checkpoint' =
                 IF action \in {"create", "update", "repair", "advance_cursor"}
                 THEN [checkpoint EXCEPT ![t] = [event   |-> p.event,
                                                 display |-> p.display]]
                 ELSE checkpoint
            /\ batches' = (batches \ {b}) \cup {[b EXCEPT !.left = @ \ {p}]}
      /\ UNCHANGED <<store, cursor, backup, counts>>

\* The whole batch is applied: its cutoff becomes the cursor.
Finish(b) ==
  /\ b.left = {}
  /\ cursor' = b.through
  /\ batches' = batches \ {b}
  /\ UNCHANGED <<store, checkpoint, panda, backup, counts>>

\* The batch fails; the cursor stays.
GiveUp(b) ==
  /\ failures < MaxFailures
  /\ failures' = failures + 1
  /\ batches' = batches \ {b}
  /\ UNCHANGED <<store, cursor, checkpoint, panda, backup, edits, deletions, restores>>

\* External: somebody changes a session task in PandaOS by hand.
Edit(t) ==
  /\ panda[t] # None
  /\ edits < MaxEdits /\ MayGoWrong
  /\ edits' = edits + 1
  /\ panda' = [panda EXCEPT ![t] = [status |-> "pending", form |-> <<"edited">>]]
  /\ UNCHANGED <<store, cursor, checkpoint, batches, backup, failures, deletions,
                 restores>>

\* External: somebody deletes a session task in PandaOS by hand.
Delete(t) ==
  /\ panda[t] # None
  /\ deletions < MaxDeletions /\ MayGoWrong
  /\ deletions' = deletions + 1
  /\ panda' = [panda EXCEPT ![t] = None]
  /\ UNCHANGED <<store, cursor, checkpoint, batches, backup, failures, edits, restores>>

\* pg_dump of the committed state, while PandaOS goes on.
Backup ==
  /\ backup = None
  /\ restores < MaxRestores /\ MayGoWrong
  /\ backup' = [rows |-> rows, version |-> version, lastId |-> lastId]
  /\ UNCHANGED <<store, consumer, counts>>

\* pg_restore: the database is what it was, open transactions are gone.
Restore ==
  /\ backup # None
  /\ restores < MaxRestores /\ MayGoWrong
  /\ restores' = restores + 1
  /\ rows' = backup.rows
  /\ version' = backup.version
  /\ lastId' = backup.lastId
  /\ writing' = [t \in Tasks |-> None]
  /\ UNCHANGED <<overlapped, consumer, backup, failures, edits, deletions>>

EndWrite(t) == CommitWrite(t) \/ RollbackWrite(t)

Next ==
  \/ \E t \in Tasks, row \in Row : BeginWrite(t, row)
  \/ \E t \in Tasks : EndWrite(t)
  \/ \E full \in BOOLEAN : Fetch(full)
  \/ \E b \in batches : \/ \E p \in b.left : Apply(b, p)
                       \/ Finish(b)
                       \/ GiveUp(b)
  \/ \E t \in Tasks : Edit(t) \/ Delete(t)
  \/ Backup
  \/ Restore

Spec == Init /\ [][Next]_vars

\* The consumer works off the responses of a kind: the deliveries of every
\* task, and then the cursor.
Work(full) ==
  /\ \A t \in Tasks :
       WF_vars(\E b \in batches : /\ b.full = full
                                  /\ \E p \in b.left : p.task = t /\ Apply(b, p))
  /\ WF_vars(\E b \in batches : b.full = full /\ Finish(b))

\* Transactions end; the consumer works off what it has, incremental and full,
\* and asks for a full snapshot again and again.
FairSpec ==
  /\ Spec
  /\ \A t \in Tasks : WF_vars(EndWrite(t))
  /\ \A full \in BOOLEAN : Work(full)
  /\ SF_vars(Fetch(TRUE))

-----------------------------------------------------------------------------
(* Properties.                                                             *)

\* Every variable has its type.
TypeOK ==
  /\ rows \in [Tasks -> Row \cup {None}]
  /\ version \in [Tasks -> 0..MaxEvents]
  /\ lastId \in 0..MaxEvents
  /\ \A t \in Tasks : writing[t] # None =>
       writing[t].row \in Row /\ writing[t].id \in 1..lastId
  /\ overlapped \in BOOLEAN
  /\ cursor \in 0..MaxEvents
  /\ checkpoint \in [Tasks -> Checkpoints \cup {None}]
  /\ panda \in [Tasks -> Displays \cup {None}]
  /\ \A b \in batches : /\ b.full \in BOOLEAN /\ b.through \in 0..MaxEvents
                         /\ b.left \subseteq b.tasks /\ b.tasks \subseteq Deliveries

\* What the feed says of a version of a task is what the store committed as
\* that version, for everything delivered or recorded: two deliveries with
\* the same event never differ, unless the database was restored between.
VersionsAgree ==
  restores = 0 => \A t \in Tasks :
    LET seen == {<<p.event, p.display>> :
                   p \in {q \in UNION {b.tasks : b \in batches} : q.task = t}}
                \cup (IF rows[t] = None THEN {}
                      ELSE {<<version[t], Display(t, rows[t])>>})
                \cup (IF checkpoint[t] = None THEN {}
                      ELSE {<<checkpoint[t].event, checkpoint[t].display>>})
    IN  \A x, y \in seen : x[1] = y[1] => x = y

\* Late, repeated and out-of-order batches never take a task back.
NonRegressing ==
  [][\A t \in Tasks : checkpoint[t] # None =>
       checkpoint'[t] # None /\ checkpoint'[t].event >= checkpoint[t].event]_vars

\* As long as nobody edits or deletes anything in PandaOS, it shows what the
\* consumer recorded.
PandaShowsCheckpoint ==
  edits = 0 /\ deletions = 0 => \A t \in Tasks :
    IF checkpoint[t] = None THEN panda[t] = None
    ELSE panda[t] = checkpoint[t].display

\* The consumer knows the current state of a task.
Synced(t) ==
  rows[t] # None =>
    checkpoint[t] = [event |-> version[t], display |-> Display(t, rows[t])]

\* docs/pandaos-projection-adapter.md: the feed returns the tasks changed after
\* the cursor.  A consumer at the newest event would then have every task.
FeedComplete ==
  batches = {} /\ cursor = MaxId(version) => \A t \in Tasks : Synced(t)

\* It has, as long as no two store methods have run at the same time and the
\* database was never restored, after failed batches and manual changes and
\* whatever the order its batches were applied in.
CaughtUp == restores = 0 /\ ~overlapped => FeedComplete

\* The step completes a full snapshot that is still current.
Rebuilds(b) ==
  /\ b.full /\ b.left = {} /\ b \notin batches' /\ cursor' = b.through
  /\ failures' = failures
  /\ b.tasks = Feed(TRUE)

\* docs/pandaos-projection-adapter.md: a full snapshot rebuilds.  Completely
\* applied while it is current it would leave the consumer with every task.
RebuildSyncs ==
  [][\A b \in batches : Rebuilds(b) => \A t \in Tasks : Synced(t)]_vars

\* It does, whatever was lost before, unless the database was restored.
RebuildSyncsUnlessRestored ==
  [][restores = 0 => \A b \in batches : Rebuilds(b) => \A t \in Tasks : Synced(t)]_vars

\* With rebuilds, PandaOS ends up showing the store, after lost batches,
\* commits out of order and manual changes, unless the database is restored
\* or a session task is deleted.
EventuallyShown ==
  \/ <>(restores > 0 \/ deletions > 0)
  \/ <>[](\A t \in Tasks : rows[t] # None => panda[t] = Display(t, rows[t]))

\* docs/pandaos-projection-adapter.md: a full snapshot repairs missing
\* projections.  With rebuilds every task would end up with a session task.
MissingRepaired ==
  \/ <>(restores > 0)
  \/ <>[](\A t \in Tasks : rows[t] # None => panda[t] # None)

=============================================================================
