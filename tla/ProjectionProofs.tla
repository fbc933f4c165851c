-------------------------- MODULE ProjectionProofs --------------------------
(***************************************************************************)
(* Theorems about Projection, for any tasks, details and bounds.           *)
(*                                                                         *)
(* The argument has three layers.  The types, with what they need of ids   *)
(* and of the backup.  Then what is known of a version outside the store:  *)
(* until a restore no delivery is newer than its row, and one of the       *)
(* newest version shows the row; so deliveries of a version agree, and a   *)
(* full snapshot that is still current repairs everything.  Last, while no *)
(* two store methods overlap: an open transaction has a larger id than     *)
(* anybody has seen, so a cutoff never passes a change that is still to    *)
(* come.                                                                   *)
(***************************************************************************)
EXTENDS Projection, WellFoundedInduction, TLAPS

\* The type of a response.
Batch == [full : BOOLEAN, through : 0..MaxEvents,
          tasks : SUBSET Deliveries, left : SUBSET Deliveries]

\* A task has an event as soon as it has a row, and no event is newer than the
\* sequence says.
StateOK(r, v, last) ==
  /\ r \in [Tasks -> Row \cup {None}] /\ v \in [Tasks -> 0..MaxEvents]
  /\ last \in 0..MaxEvents
  /\ \A t \in Tasks : (r[t] # None => v[t] # 0) /\ v[t] <= last

\* The inductive form of the type invariant.
Typed ==
  /\ StateOK(rows, version, lastId)
  /\ writing \in [Tasks -> {None} \cup [row : Row, id : 1..MaxEvents]]
  /\ \A t \in Tasks : writing[t] # None =>
       writing[t].row \in Row /\ writing[t].id \in 1..lastId
  /\ overlapped \in BOOLEAN
  /\ cursor \in 0..MaxEvents
  /\ checkpoint \in [Tasks -> Checkpoints \cup {None}]
  /\ panda \in [Tasks -> Displays \cup {None}]
  /\ batches \subseteq Batch
  /\ \A b \in batches : b.left \subseteq b.tasks
  /\ backup # None => StateOK(backup.rows, backup.version, backup.lastId)
  /\ edits \in Nat /\ deletions \in Nat /\ restores \in Nat

-----------------------------------------------------------------------------
(* The feed and the planner.                                               *)

\* The bounds are natural numbers and there is a task.
LEMMA ProjectionConstants ==
  /\ MaxEvents \in Nat /\ Tasks # {}
  /\ None \notin Checkpoints
BY ProjectionAssumption, NoCheckpointIsNone

\* The cutoff exists: it is the version of some task, and no task is newer.
LEMMA MaxIdFact ==
  ASSUME NEW versions \in [Tasks -> 0..MaxEvents]
  PROVE  /\ MaxId(versions) \in 0..MaxEvents
         /\ \A t \in Tasks : versions[t] <= MaxId(versions)
         /\ \E t \in Tasks : MaxId(versions) = versions[t]
<1> DEFINE Below == {MaxEvents - versions[t] : t \in Tasks}
           Less == OpToRel(<, Nat)
<1>1. Below \subseteq Nat /\ Below # {}
  BY ProjectionConstants
<1>2. IsWellFoundedOn(Less, Nat)
  BY NatLessThanWellFounded
<1>3. PICK least \in Below : \A d \in Below : ~(<<d, least>> \in Less)
  <2> HIDE DEF Below, Less
  <2> QED
    BY <1>1, <1>2, WFMin
<1>4. \A d \in Below : ~(d < least)
  BY <1>1, <1>3 DEF OpToRel
<1>5. PICK t \in Tasks : least = MaxEvents - versions[t]
  BY <1>3
<1>6. \A u \in Tasks : versions[u] <= versions[t]
  <2> SUFFICES ASSUME NEW u \in Tasks PROVE versions[u] <= versions[t]
    OBVIOUS
  <2>1. ~(MaxEvents - versions[u] < MaxEvents - versions[t])
    BY <1>4, <1>5
  <2> QED
    BY <2>1, ProjectionConstants
<1>7. \E v \in {versions[x] : x \in Tasks} : \A u \in Tasks : versions[u] <= v
  BY <1>6
<1>8. /\ MaxId(versions) \in {versions[x] : x \in Tasks}
      /\ \A u \in Tasks : versions[u] <= MaxId(versions)
  BY <1>7 DEF MaxId
<1> QED
  BY <1>8

\* What PandaOS shows of a row is one of the things it can show.
LEMMA DisplayType ==
  ASSUME NEW t \in Tasks, NEW row \in Row
  PROVE  Display(t, row) \in Displays
BY DEF Displays

\* The feed has each selected task once, at its version, as its row is.
LEMMA FeedFact ==
  ASSUME Typed, NEW full \in BOOLEAN
  PROVE  /\ Feed(full) \subseteq Deliveries
         /\ \A p \in Feed(full) :
              /\ p.task \in Tasks /\ rows[p.task] # None
              /\ p.event = version[p.task] /\ p.display = Display(p.task, rows[p.task])
         /\ \A t \in Tasks : rows[t] # None /\ (full \/ version[t] > cursor) =>
              \E p \in Feed(full) : p.task = t /\ p.event = version[t]
<1> DEFINE entry(t) == [task |-> t, event |-> version[t], display |-> Display(t, rows[t])]
<1>1. ASSUME NEW t \in Tasks, rows[t] # None
      PROVE  entry(t) \in Deliveries
  <2>1. Display(t, rows[t]) \in Displays
    BY <1>1, DisplayType DEF Typed, StateOK
  <2>2. version[t] \in 1..MaxEvents
    BY <1>1, ProjectionConstants DEF Typed, StateOK
  <2> QED
    BY <2>1, <2>2 DEF Deliveries
<1>2. Feed(full) = {entry(t) : t \in {u \in Tasks : rows[u] # None /\ (full \/ version[u] > cursor)}}
  BY DEF Feed, ProjectedRow
<1>3. \A t : entry(t).task = t /\ entry(t).event = version[t]
              /\ entry(t).display = Display(t, rows[t])
  OBVIOUS
<1> HIDE DEF entry
<1>4. Feed(full) \subseteq Deliveries
  BY <1>1, <1>2
<1>5. ASSUME NEW p \in Feed(full)
      PROVE  /\ p.task \in Tasks /\ rows[p.task] # None
             /\ p.event = version[p.task] /\ p.display = Display(p.task, rows[p.task])
  BY <1>2, <1>3
<1>6. ASSUME NEW t \in Tasks, rows[t] # None, full \/ version[t] > cursor
      PROVE  \E p \in Feed(full) : p.task = t /\ p.event = version[t]
  <2>1. entry(t) \in Feed(full)
    BY <1>2, <1>6
  <2> QED
    BY <1>3, <2>1
<1> QED
  BY <1>4, <1>5, <1>6

\* When the planner does what.
LEMMA PlanFacts ==
  ASSUME NEW p, NEW recorded, NEW observed,
         p.event \in Nat, recorded # None => recorded.event \in Nat
  PROVE  LET action == plan_projection(p, recorded, observed)
         IN  /\ action \in {"create", "ignore_old", "repair", "noop", "advance_cursor", "update"}
             /\ action = "create" <=> recorded = None
             /\ action = "ignore_old" <=> recorded # None /\ p.event < recorded.event
             /\ action = "noop" => p.event = recorded.event /\ p.display = recorded.display
             /\ action \in {"noop", "advance_cursor"} =>
                  observed \in {None, recorded.display} /\ p.display = recorded.display
<1> DEFINE action == plan_projection(p, recorded, observed)
<1>1. CASE recorded = None
  BY <1>1 DEF plan_projection
<1>2. CASE recorded # None /\ p.event < recorded.event
  BY <1>2 DEF plan_projection
<1>3. CASE recorded # None /\ p.event >= recorded.event /\ observed \notin {None, recorded.display}
  <2>1. action = "repair"
    BY <1>3 DEF plan_projection
  <2> QED
    BY <1>3, <2>1
<1>4. CASE recorded # None /\ p.event = recorded.event
                /\ observed \in {None, recorded.display}
  <2>1. action = IF p.display = recorded.display THEN "noop" ELSE "repair"
    BY <1>4 DEF plan_projection
  <2> QED
    BY <1>4, <2>1
<1>5. CASE recorded # None /\ p.event > recorded.event
                /\ observed \in {None, recorded.display}
  <2>1. action = IF p.display = recorded.display THEN "advance_cursor" ELSE "update"
    BY <1>5 DEF plan_projection
  <2> QED
    BY <1>5, <2>1
<1> QED
  BY <1>1, <1>2, <1>3, <1>4, <1>5

\* The three things the consumer makes of a delivery p.  It is older than
\* what is recorded, and nothing happens;
Ignores(p) ==
  LET t == p.task
  IN  /\ checkpoint[t] # None /\ p.event < checkpoint[t].event
      /\ checkpoint'[t] = checkpoint[t] /\ panda'[t] = panda[t]

\* or it is recorded, and PandaOS shows it, or is left alone because it did;
Records(p) ==
  LET t == p.task
  IN  /\ checkpoint[t] # None => checkpoint[t].event <= p.event
      /\ checkpoint'[t] = [event |-> p.event, display |-> p.display]
      /\ \/ panda'[t] = p.display
         \/ /\ panda'[t] = panda[t]
            /\ checkpoint[t] # None /\ checkpoint[t].display = p.display

\* A delivery is applied.
Applies(b, p) ==
  /\ p \in b.left /\ p \in Deliveries
  /\ batches' = (batches \ {b}) \cup {[b EXCEPT !.left = @ \ {p}]}
  /\ checkpoint' \in [Tasks -> Checkpoints \cup {None}]
  /\ panda' \in [Tasks -> Displays \cup {None}]
  /\ \A u \in Tasks \ {p.task} : checkpoint'[u] = checkpoint[u] /\ panda'[u] = panda[u]
  /\ Ignores(p) \/ Records(p)
  /\ UNCHANGED <<store, cursor, backup, counts>>

\* or its session task is missing, and the batch has failed.
Fails(b) ==
  /\ batches' = batches \ {b}
  /\ UNCHANGED <<store, cursor, checkpoint, panda, backup, counts>>

\* So a step of the consumer always does one of the three.
LEMMA ApplyEffect ==
  ASSUME Typed, NEW b \in batches, NEW p \in b.left, Apply(b, p)
  PROVE  Applies(b, p) \/ Fails(b)
<1> DEFINE t == p.task
           action == plan_projection(p, checkpoint[t], panda[t])
           new == [event |-> p.event, display |-> p.display]
<1>1. CASE Impossible(action, t)
  BY <1>1 DEF Apply, Fails
<1>2. CASE ~Impossible(action, t)
  <2>1. /\ panda' = IF action \in {"create", "update", "repair"}
                    THEN [panda EXCEPT ![t] = p.display] ELSE panda
        /\ checkpoint' = IF action \in {"create", "update", "repair", "advance_cursor"}
                         THEN [checkpoint EXCEPT ![t] = new] ELSE checkpoint
        /\ batches' = (batches \ {b}) \cup {[b EXCEPT !.left = @ \ {p}]}
        /\ UNCHANGED <<store, cursor, backup, counts>>
    BY <1>2 DEF Apply, WritesPanda
  <2>2. p \in Deliveries /\ b \in Batch
    BY DEF Typed, Batch
  <2>3. t \in Tasks /\ p.event \in 1..MaxEvents /\ p.display \in Displays /\ new \in Checkpoints
    BY <2>2 DEF Deliveries, Checkpoints
  <2>4. /\ checkpoint \in [Tasks -> Checkpoints \cup {None}]
        /\ panda \in [Tasks -> Displays \cup {None}]
        /\ checkpoint[t] # None => checkpoint[t] \in Checkpoints
    BY <2>3 DEF Typed
  <2>5. p.event \in Nat /\ (checkpoint[t] # None => checkpoint[t].event \in Nat)
    BY <2>3, <2>4, ProjectionConstants DEF Checkpoints
  <2> HIDE DEF action, new, t
  <2>6. /\ action \in {"create", "ignore_old", "repair", "noop", "advance_cursor", "update"}
        /\ action = "create" <=> checkpoint[t] = None
        /\ action = "ignore_old" <=> checkpoint[t] # None /\ p.event < checkpoint[t].event
        /\ action = "noop" => p.event = checkpoint[t].event /\ p.display = checkpoint[t].display
        /\ action \in {"noop", "advance_cursor"} => p.display = checkpoint[t].display
    BY <2>5, PlanFacts DEF action
  <2>7. /\ checkpoint' \in [Tasks -> Checkpoints \cup {None}]
        /\ panda' \in [Tasks -> Displays \cup {None}]
        /\ \A u \in Tasks \ {t} : checkpoint'[u] = checkpoint[u] /\ panda'[u] = panda[u]
    BY <2>1, <2>3, <2>4
  <2>8. CASE action = "ignore_old"
    <3>1. Ignores(p)
      BY <2>1, <2>6, <2>8 DEF Ignores, t
    <3> QED
      BY <2>1, <2>2, <2>7, <3>1 DEF Applies, t
  <2>9. CASE action = "noop"
    <3>1. checkpoint[t] = new /\ checkpoint[t] # None
      BY <2>4, <2>6, <2>9 DEF Checkpoints, new
    <3>2. Records(p)
      BY <2>1, <2>5, <2>6, <2>9, <3>1 DEF Records, new, t
    <3> QED
      BY <2>1, <2>2, <2>7, <3>2 DEF Applies, t
  <2>10. CASE action \in {"create", "update", "repair", "advance_cursor"}
    <3>1. checkpoint'[t] = new
      BY <2>1, <2>3, <2>4, <2>10
    <3>2. \/ panda'[t] = p.display
          \/ /\ panda'[t] = panda[t]
             /\ checkpoint[t] # None /\ checkpoint[t].display = p.display
      BY <2>1, <2>3, <2>4, <2>6, <2>10
    <3>3. checkpoint[t] # None => checkpoint[t].event <= p.event
      BY <2>5, <2>6, <2>10
    <3>4. Records(p)
      BY <3>1, <3>2, <3>3 DEF Records, new, t
    <3> QED
      BY <2>1, <2>2, <2>7, <3>4 DEF Applies, t
  <2> QED
    BY <2>6, <2>8, <2>9, <2>10
<1> QED
  BY <1>1, <1>2

-----------------------------------------------------------------------------
(* The types.                                                              *)

\* What a store method writes is a row.
LEMMA TypedWrites ==
  ASSUME Typed, NEW t \in Tasks, NEW row \in Row, BeginWrite(t, row)
  PROVE  Typed'
<1>1. /\ lastId' = lastId + 1 /\ lastId < MaxEvents
      /\ writing' = [writing EXCEPT ![t] = [row |-> row, id |-> lastId + 1]]
      /\ overlapped' \in BOOLEAN
      /\ UNCHANGED <<rows, version, consumer, backup, counts>>
  BY DEF BeginWrite, NextId
<1>2. lastId' \in 0..MaxEvents /\ lastId + 1 \in 1..MaxEvents /\ lastId < lastId'
  BY <1>1, ProjectionConstants DEF Typed, StateOK
<1>3. StateOK(rows, version, lastId)'
  <2>1. rows' = rows /\ version' = version
    BY <1>1
  <2> QED
    BY <1>2, <2>1, ProjectionConstants DEF Typed, StateOK
<1>4. /\ writing' \in [Tasks -> {None} \cup [row : Row, id : 1..MaxEvents]]
      /\ writing'[t].row \in Row /\ writing'[t].id = lastId'
      /\ \A u \in Tasks \ {t} : writing'[u] = writing[u]
  <2>1. [row |-> row, id |-> lastId + 1] \in [row : Row, id : 1..MaxEvents]
    BY <1>2
  <2> QED
    BY <1>1, <2>1 DEF Typed
<1>5. \A u \in Tasks : writing'[u] # None =>
        writing'[u].row \in Row /\ writing'[u].id \in 1..lastId'
  <2> SUFFICES ASSUME NEW u \in Tasks, writing'[u] # None
               PROVE  writing'[u].row \in Row /\ writing'[u].id \in 1..lastId'
    OBVIOUS
  <2>1. CASE u = t
    BY <1>2, <1>4, <2>1, ProjectionConstants
  <2>2. CASE u # t
    <3>1. writing[u].row \in Row /\ writing[u].id \in 1..lastId /\ writing'[u] = writing[u]
      BY <1>4, <2>2 DEF Typed
    <3>2. lastId \in Nat /\ lastId' \in Nat
      BY <1>2, ProjectionConstants DEF Typed, StateOK
    <3> QED
      BY <1>2, <3>1, <3>2
  <2> QED
    BY <2>1, <2>2
<1> QED
  BY <1>1, <1>3, <1>4, <1>5 DEF Typed, consumer, counts

\* A commit publishes it under its event; a rollback drops it.
LEMMA TypedEnds ==
  ASSUME Typed, NEW t \in Tasks, EndWrite(t)
  PROVE  Typed'
<1>1. /\ writing' = [writing EXCEPT ![t] = None]
      /\ writing[t] # None
      /\ UNCHANGED <<lastId, overlapped, consumer, backup, counts>>
      /\ \/ UNCHANGED <<rows, version>>
         \/ /\ rows' = [rows EXCEPT ![t] = writing[t].row]
            /\ version' = [version EXCEPT ![t] = writing[t].id]
  BY DEF EndWrite, CommitWrite, RollbackWrite
<1>2. writing[t].row \in Row /\ writing[t].id \in 1..lastId /\ lastId \in 0..MaxEvents
  BY <1>1 DEF Typed, StateOK
<1>3. StateOK(rows', version', lastId)
  <2>1. CASE UNCHANGED <<rows, version>>
    BY <2>1 DEF Typed
  <2>2. CASE /\ rows' = [rows EXCEPT ![t] = writing[t].row]
             /\ version' = [version EXCEPT ![t] = writing[t].id]
    <3>1. rows' \in [Tasks -> Row \cup {None}]
      BY <1>2, <2>2 DEF Typed, StateOK
    <3>2. writing[t].id \in 0..MaxEvents /\ writing[t].id # 0 /\ writing[t].id <= lastId
      BY <1>2, ProjectionConstants
    <3>3. version' \in [Tasks -> 0..MaxEvents]
      BY <2>2, <3>2 DEF Typed, StateOK
    <3>4. \A u \in Tasks : IF u = t THEN version'[u] = writing[t].id
                                    ELSE version'[u] = version[u] /\ rows'[u] = rows[u]
      BY <2>2 DEF Typed, StateOK
    <3> QED
      BY <1>2, <3>1, <3>2, <3>3, <3>4 DEF Typed, StateOK
  <2> QED
    BY <1>1, <2>1, <2>2
<1>4. /\ writing' \in [Tasks -> {None} \cup [row : Row, id : 1..MaxEvents]]
      /\ \A u \in Tasks : writing'[u] # None => writing'[u] = writing[u]
  BY <1>1 DEF Typed
<1> QED
  BY <1>1, <1>3, <1>4 DEF Typed, consumer, counts

\* A response carries deliveries.
LEMMA TypedFetches ==
  ASSUME Typed, NEW full \in BOOLEAN, Fetch(full)
  PROVE  Typed'
<1> DEFINE b == [full |-> full, through |-> MaxId(version), tasks |-> Feed(full),
                 left |-> Feed(full)]
<1>1. batches' = batches \cup {b}
      /\ UNCHANGED <<store, cursor, checkpoint, panda, backup, counts>>
  BY DEF Fetch
<1>2. MaxId(version) \in 0..MaxEvents
  BY MaxIdFact DEF Typed, StateOK
<1>3. b \in Batch /\ b.left \subseteq b.tasks
  BY <1>2, FeedFact DEF Batch
<1> HIDE DEF b
<1>4. batches' \subseteq Batch /\ \A c \in batches' : c.left \subseteq c.tasks
  BY <1>1, <1>3 DEF Typed
<1> QED
  BY <1>1, <1>4 DEF Typed, store, counts

\* The consumer records deliveries.
LEMMA TypedApplies ==
  ASSUME Typed, NEW b \in batches, NEW p \in b.left, Apply(b, p)
  PROVE  Typed'
<1>0. CASE Fails(b)
  BY <1>0 DEF Fails, Typed, store, counts
<1> SUFFICES ASSUME Applies(b, p) PROVE Typed'
  BY <1>0, ApplyEffect
<1> DEFINE rest == [b EXCEPT !.left = @ \ {p}]
<1>2. rest \in Batch /\ rest.left \subseteq rest.tasks
  BY DEF Typed, Batch
<1>3. batches' = (batches \ {b}) \cup {rest}
  BY DEF Applies
<1> HIDE DEF rest
<1>4. batches' \subseteq Batch /\ \A c \in batches' : c.left \subseteq c.tasks
  BY <1>2, <1>3 DEF Typed
<1> QED
  BY <1>4 DEF Applies, Typed, store, counts

\* Manual changes, the backup and the restore.
LEMMA TypedElse ==
  ASSUME Typed, \/ \E b \in batches : Finish(b) \/ GiveUp(b)
                \/ \E t \in Tasks : Edit(t) \/ Delete(t)
                \/ Backup \/ Restore
  PROVE  Typed'
<1>1. ASSUME NEW b \in batches, Finish(b)
      PROVE  Typed'
  <2>1. b.through \in 0..MaxEvents
    BY DEF Typed, Batch
  <2> QED
    BY <1>1, <2>1 DEF Finish, Typed, store, counts
<1>2. ASSUME NEW b \in batches, GiveUp(b)
      PROVE  Typed'
  BY <1>2 DEF GiveUp, Typed, store
<1>3. ASSUME NEW t \in Tasks, Edit(t)
      PROVE  Typed'
  <2>1. [status |-> "pending", form |-> <<"edited">>] \in Displays
    BY DEF Displays
  <2>2. panda' \in [Tasks -> Displays \cup {None}]
    BY <1>3, <2>1 DEF Edit, Typed
  <2> QED
    BY <1>3, <2>2 DEF Edit, Typed, store
<1>6. ASSUME NEW t \in Tasks, Delete(t)
      PROVE  Typed'
  BY <1>6 DEF Delete, Typed, store
<1>4. CASE Backup
  <2>1. StateOK(backup'.rows, backup'.version, backup'.lastId)
    BY <1>4 DEF Backup, Typed
  <2> QED
    BY <1>4, <2>1 DEF Backup, Typed, store, consumer, counts
<1>5. CASE Restore
  <2>1. StateOK(rows', version', lastId')
    BY <1>5 DEF Restore, Typed
  <2>2. /\ writing' \in [Tasks -> {None} \cup [row : Row, id : 1..MaxEvents]]
        /\ \A t \in Tasks : writing'[t] = None
    BY <1>5 DEF Restore
  <2> QED
    BY <1>5, <2>1, <2>2 DEF Restore, Typed, consumer
<1> QED
  BY <1>1, <1>2, <1>3, <1>4, <1>5, <1>6

\* A step keeps the types.
LEMMA TypedNext ==
  ASSUME Typed, [Next]_vars
  PROVE  Typed'
<1>1. CASE UNCHANGED vars
  BY <1>1 DEF vars, store, consumer, counts, Typed
<1> QED
  BY <1>1, TypedWrites, TypedEnds, TypedFetches, TypedApplies, TypedElse DEF Next

\* The types hold in every state.
LEMMA TypedHolds == Spec => []Typed
<1>1. Init => Typed
  <2> SUFFICES ASSUME Init PROVE Typed
    OBVIOUS
  <2>1. StateOK(rows, version, lastId)
    BY ProjectionConstants DEF Init, StateOK
  <2>2. /\ \A t \in Tasks : writing[t] = None
        /\ writing \in [Tasks -> {None} \cup [row : Row, id : 1..MaxEvents]]
        /\ checkpoint \in [Tasks -> Checkpoints \cup {None}]
        /\ panda \in [Tasks -> Displays \cup {None}]
    BY DEF Init
  <2>3. /\ overlapped \in BOOLEAN /\ batches = {} /\ backup = None
        /\ edits \in Nat /\ deletions \in Nat /\ restores \in Nat
    BY DEF Init
  <2>4. cursor \in 0..MaxEvents
    BY ProjectionConstants DEF Init
  <2> QED
    BY <2>1, <2>2, <2>3, <2>4 DEF Typed
<1>2. Typed /\ [Next]_vars => Typed'
  BY TypedNext
<1> QED
  BY <1>1, <1>2, PTL DEF Spec

\* Every variable has its type, for any tasks, details and bounds.
THEOREM ProjectionTypeInvariant == Spec => []TypeOK
<1>1. Typed => TypeOK
  BY DEF Typed, TypeOK, StateOK, Batch
<1> QED
  BY <1>1, TypedHolds, PTL

-----------------------------------------------------------------------------
(* The consumer.                                                           *)

\* What is recorded of a task stays or is replaced by something newer.
LEMMA RecordsGrow ==
  ASSUME Typed, [Next]_vars, NEW t \in Tasks, checkpoint[t] # None
  PROVE  checkpoint'[t] # None /\ checkpoint'[t].event >= checkpoint[t].event
<1>1. checkpoint[t].event \in Nat
  BY ProjectionConstants DEF Typed, Checkpoints
<1>2. ASSUME NEW b \in batches, NEW p \in b.left, Applies(b, p)
      PROVE  checkpoint'[t] # None /\ checkpoint'[t].event >= checkpoint[t].event
  <2>1. Applies(b, p)
    BY <1>2
  <2>2. [event |-> p.event, display |-> p.display] \in Checkpoints
    BY <2>1 DEF Applies, Deliveries, Checkpoints
  <2>3. [event |-> p.event, display |-> p.display] # None
    BY <2>2, ProjectionConstants
  <2>4. p.event \in Nat
    BY <2>1, ProjectionConstants DEF Applies, Deliveries
  <2>5. CASE t # p.task
    BY <1>1, <2>1, <2>5 DEF Applies
  <2>6. CASE t = p.task /\ Ignores(p)
    BY <1>1, <2>6 DEF Ignores
  <2>7. CASE t = p.task /\ Records(p)
    BY <1>1, <2>3, <2>4, <2>7 DEF Records
  <2> QED
    BY <2>1, <2>5, <2>6, <2>7 DEF Applies
<1>3. CASE UNCHANGED checkpoint
  BY <1>1, <1>3
<1> QED
  BY <1>2, <1>3, ApplyEffect
  DEF Next, vars, store, consumer, BeginWrite, EndWrite, CommitWrite, RollbackWrite,
      Fetch, Fails, Finish, GiveUp, Edit, Delete, Backup, Restore

\* Late, repeated and reordered batches, restores included, never take a task
\* back.
THEOREM NeverBack == Spec => NonRegressing
<1>1. Typed /\ [Next]_vars =>
        [\A t \in Tasks : checkpoint[t] # None =>
           checkpoint'[t] # None /\ checkpoint'[t].event >= checkpoint[t].event]_vars
  BY RecordsGrow
<1> QED
  BY <1>1, TypedHolds, PTL DEF Spec, NonRegressing

\* As long as nobody edits or deletes anything in PandaOS, it shows what the
\* consumer recorded.
THEOREM PandaShows == Spec => []PandaShowsCheckpoint
<1>1. Init => PandaShowsCheckpoint
  BY DEF Init, PandaShowsCheckpoint
<1>2. Typed /\ PandaShowsCheckpoint /\ [Next]_vars => PandaShowsCheckpoint'
  <2> SUFFICES ASSUME Typed, PandaShowsCheckpoint, [Next]_vars, edits' = 0,
                      deletions' = 0, NEW t \in Tasks
               PROVE  IF checkpoint'[t] = None THEN panda'[t] = None
                      ELSE panda'[t] = checkpoint'[t].display
    BY DEF PandaShowsCheckpoint
  <2>1. ASSUME NEW u \in Tasks, Edit(u) \/ Delete(u)
        PROVE  FALSE
    BY <2>1 DEF Edit, Delete, Typed
  <2>2. ASSUME NEW b \in batches, NEW p \in b.left, Applies(b, p)
        PROVE  IF checkpoint'[t] = None THEN panda'[t] = None
               ELSE panda'[t] = checkpoint'[t].display
    <3>1. Applies(b, p)
      BY <2>2
    <3>2. [event |-> p.event, display |-> p.display] \in Checkpoints
      BY <3>1 DEF Applies, Deliveries, Checkpoints
    <3>3. [event |-> p.event, display |-> p.display] # None
      BY <3>2, ProjectionConstants
    <3>4. edits = 0 /\ deletions = 0
      BY <3>1 DEF Applies, counts
    <3>5. CASE Ignores(p) \/ t # p.task
      BY <3>1, <3>4, <3>5 DEF Applies, Ignores, PandaShowsCheckpoint
    <3>6. CASE Records(p) /\ t = p.task
      <4>1. checkpoint[t] # None => panda[t] = checkpoint[t].display
        BY <3>4 DEF PandaShowsCheckpoint
      <4> QED
        BY <3>3, <3>6, <4>1 DEF Records
    <3> QED
      BY <3>1, <3>5, <3>6 DEF Applies
  <2>3. CASE UNCHANGED <<checkpoint, panda, edits, deletions>>
    BY <2>3 DEF PandaShowsCheckpoint
  <2> QED
    BY <2>1, <2>2, <2>3, ApplyEffect
    DEF Next, vars, store, consumer, counts, BeginWrite, EndWrite, CommitWrite,
        RollbackWrite, Fetch, Fails, Finish, GiveUp, Backup, Restore
<1> QED
  BY <1>1, <1>2, TypedHolds, PTL DEF Spec

-----------------------------------------------------------------------------
(* What is known of a version outside the store.                           *)

\* The deliveries under way and, as deliveries, what is recorded.
Heard ==
  {p \in Deliveries : \/ \E b \in batches : p \in b.tasks
                      \/ checkpoint[p.task] = [event |-> p.event, display |-> p.display]}

\* A delivery is no newer than the row; one of its version shows the row.
Fits(p) ==
  /\ p.event <= version[p.task]
  /\ p.event = version[p.task] =>
       rows[p.task] # None /\ p.display = Display(p.task, rows[p.task])

\* An open transaction has an id of its own time.
Fresh == \A t \in Tasks : writing[t] # None => version[t] < writing[t].id

\* So it is until the database is restored.
Faithful ==
  /\ Fresh
  /\ \A p \in Heard : Fits(p)
  /\ \A p, q \in Heard : p.task = q.task /\ p.event = q.event => p.display = q.display

\* A delivery of the types a delivery has.
LEMMA HeardTypes ==
  ASSUME Typed, NEW p \in Heard
  PROVE  p.task \in Tasks /\ p.event \in Nat /\ version[p.task] \in Nat
BY ProjectionConstants DEF Heard, Deliveries, Typed, StateOK

\* What is recorded counts as heard.
LEMMA CheckpointHeard ==
  ASSUME Typed, NEW t \in Tasks, checkpoint[t] # None
  PROVE  \E p \in Heard : /\ p.task = t
                          /\ checkpoint[t] = [event |-> p.event, display |-> p.display]
                          /\ checkpoint[t].event = p.event
                          /\ checkpoint[t].display = p.display
<1> DEFINE p == [task |-> t, event |-> checkpoint[t].event,
                 display |-> checkpoint[t].display]
<1>1. checkpoint[t] \in Checkpoints
  BY DEF Typed
<1>2. p \in Deliveries /\ checkpoint[t] = [event |-> p.event, display |-> p.display]
  BY <1>1 DEF Checkpoints, Deliveries
<1>3. p \in Heard /\ p.task = t
  BY <1>2 DEF Heard
<1> QED
  BY <1>2, <1>3

\* Only the feed tells anything new.
LEMMA HeardStep ==
  ASSUME Typed, [Next]_vars, NEW p \in Heard'
  PROVE  p \in Heard \/ \E full \in BOOLEAN : Fetch(full) /\ p \in Feed(full)
<1>0. p \in Deliveries
  BY DEF Heard
<1>1. ASSUME UNCHANGED checkpoint, batches' \subseteq batches
      PROVE  p \in Heard
  BY <1>1 DEF Heard
<1>2. ASSUME NEW full \in BOOLEAN, Fetch(full)
      PROVE  p \in Heard \/ p \in Feed(full)
  <2> DEFINE b == [full |-> full, through |-> MaxId(version), tasks |-> Feed(full),
                   left |-> Feed(full)]
  <2>1. batches' = batches \cup {b} /\ checkpoint' = checkpoint /\ b.tasks = Feed(full)
    BY <1>2 DEF Fetch
  <2> HIDE DEF b
  <2> QED
    BY <2>1 DEF Heard
<1>3. ASSUME NEW b \in batches, NEW d \in b.left, Applies(b, d)
      PROVE  p \in Heard
  <2>1. Applies(b, d)
    BY <1>3
  <2>2. d \in b.tasks /\ d \in Deliveries
    BY <2>1 DEF Typed, Applies
  <2>3. [b EXCEPT !.left = @ \ {d}].tasks = b.tasks
    BY DEF Typed, Batch
  <2>4. CASE \E c \in batches' : p \in c.tasks
    BY <1>0, <2>1, <2>3, <2>4 DEF Heard, Applies
  <2>5. CASE checkpoint'[p.task] = [event |-> p.event, display |-> p.display]
    <3>1. p.task \in Tasks /\ d.task \in Tasks
      BY <1>0, <2>2 DEF Deliveries
    <3>2. CASE p.task # d.task \/ Ignores(d)
      BY <1>0, <2>1, <2>5, <3>1, <3>2 DEF Heard, Applies, Ignores
    <3>3. CASE p.task = d.task /\ Records(d)
      <4>1. [event |-> p.event, display |-> p.display]
              = [event |-> d.event, display |-> d.display]
        BY <2>5, <3>3 DEF Records
      <4>2. p.event = d.event /\ p.display = d.display
        BY <4>1
      <4>3. p = d
        BY <1>0, <2>2, <3>3, <4>2 DEF Deliveries
      <4> QED
        BY <2>2, <4>3 DEF Heard
    <3> QED
      BY <2>1, <3>2, <3>3 DEF Applies
  <2> QED
    BY <2>4, <2>5 DEF Heard
<1>4. ASSUME NEW b \in batches, Finish(b) \/ GiveUp(b) \/ Fails(b)
      PROVE  p \in Heard
  <2>1. UNCHANGED checkpoint /\ batches' \subseteq batches
    BY <1>4 DEF Finish, GiveUp, Fails
  <2> QED
    BY <1>1, <2>1
<1> QED
  BY <1>1, <1>2, <1>3, <1>4, ApplyEffect
  DEF Next, vars, store, consumer, BeginWrite, EndWrite, CommitWrite, RollbackWrite,
      Edit, Delete, Backup, Restore

\* What the feed delivers fits the row.
LEMMA FeedFits ==
  ASSUME Typed, NEW full \in BOOLEAN, NEW p \in Feed(full)
  PROVE  Fits(p) /\ p.event = version[p.task] /\ p.task \in Tasks
BY FeedFact, ProjectionConstants DEF Fits, Typed, StateOK

\* A version of a row stays what it is: the next one has a larger event.
LEMMA FitsStay ==
  ASSUME Typed, Fresh, [Next]_vars, restores' = 0, NEW p \in Heard, Fits(p)
  PROVE  Fits(p)'
<1>1. p.task \in Tasks /\ p.event \in Nat /\ version[p.task] \in Nat
  BY HeardTypes
<1>2. ASSUME NEW t \in Tasks, CommitWrite(t)
      PROVE  Fits(p)'
  <2>1. CASE t = p.task
    <3>1. version'[p.task] = writing[t].id /\ writing[t] # None
      BY <1>2, <2>1 DEF CommitWrite, Typed, StateOK
    <3>2. version[p.task] < writing[t].id /\ writing[t].id \in Nat
      BY <2>1, <3>1, ProjectionConstants DEF Fresh, Typed, StateOK
    <3> QED
      BY <1>1, <3>1, <3>2 DEF Fits
  <2>2. CASE t # p.task
    <3>1. version'[p.task] = version[p.task] /\ rows'[p.task] = rows[p.task]
      BY <1>1, <1>2, <2>2 DEF CommitWrite, Typed, StateOK
    <3> QED
      BY <3>1 DEF Fits
  <2> QED
    BY <2>1, <2>2
<1>3. CASE UNCHANGED <<rows, version>>
  BY <1>3 DEF Fits
<1>4. ASSUME Restore
      PROVE  FALSE
  BY <1>4 DEF Restore, Typed
<1> QED
  BY <1>2, <1>3, <1>4
  DEF Next, vars, store, BeginWrite, EndWrite, RollbackWrite, Fetch, Apply, Finish,
      GiveUp, Edit, Delete, Backup

\* An id is new when it is handed out.
LEMMA FreshStep ==
  ASSUME Typed, Fresh, [Next]_vars
  PROVE  Fresh'
<1>1. ASSUME NEW t \in Tasks, NEW row \in Row, BeginWrite(t, row)
      PROVE  Fresh'
  <2>1. /\ version' = version
        /\ \A u \in Tasks : IF u = t THEN writing'[u].id = lastId + 1
                                     ELSE writing'[u] = writing[u]
    BY <1>1 DEF BeginWrite, NextId, Typed
  <2>2. version[t] < lastId + 1
    BY ProjectionConstants DEF Typed, StateOK
  <2> QED
    BY <2>1, <2>2 DEF Fresh
<1>2. ASSUME NEW t \in Tasks, EndWrite(t)
      PROVE  Fresh'
  BY <1>2 DEF EndWrite, CommitWrite, RollbackWrite, Fresh, Typed, StateOK
<1>3. CASE Restore
  BY <1>3 DEF Restore, Fresh
<1>4. CASE UNCHANGED <<writing, version>>
  BY <1>4 DEF Fresh
<1> QED
  BY <1>1, <1>2, <1>3, <1>4
  DEF Next, vars, store, Fetch, Apply, Finish, GiveUp, Edit, Delete, Backup

\* Restores are counted.
LEMMA StillUnrestored ==
  ASSUME Typed, [Next]_vars, restores' = 0
  PROVE  restores = 0
<1>1. ASSUME Restore
      PROVE  FALSE
  BY <1>1 DEF Restore, Typed
<1>2. CASE UNCHANGED restores
  BY <1>2
<1> QED
  BY <1>1, <1>2
  DEF Next, vars, counts, BeginWrite, EndWrite, CommitWrite, RollbackWrite, Fetch,
      Apply, Finish, GiveUp, Edit, Delete, Backup

\* Until a restore everything heard is true of the version it is about.
LEMMA FaithfulHolds == Spec => [](Typed /\ (restores = 0 => Faithful))
<1>1. Init => (restores = 0 => Faithful)
  <2> SUFFICES ASSUME Init PROVE Faithful
    OBVIOUS
  <2>1. ASSUME NEW p \in Heard
        PROVE  FALSE
    <3>1. p.task \in Tasks /\ [event |-> p.event, display |-> p.display] \in Checkpoints
      BY DEF Heard, Deliveries, Checkpoints
    <3>2. checkpoint[p.task] = None /\ batches = {}
      BY <3>1 DEF Init
    <3> QED
      BY <3>1, <3>2, ProjectionConstants DEF Heard
  <2> QED
    BY <2>1 DEF Init, Faithful, Fresh
<1>2. Typed /\ (restores = 0 => Faithful) /\ [Next]_vars => (restores = 0 => Faithful)'
  <2> SUFFICES ASSUME Typed, restores = 0 => Faithful, [Next]_vars, restores' = 0
               PROVE  Faithful'
    OBVIOUS
  <2>1. restores = 0
    BY StillUnrestored
  <2>2. Faithful /\ Fresh'
    BY <2>1, FreshStep DEF Faithful
  <2>3. ASSUME NEW p \in Heard'
        PROVE  Fits(p)'
    <3>1. CASE p \in Heard
      BY <2>2, <3>1, FitsStay DEF Faithful
    <3>2. ASSUME NEW full \in BOOLEAN, Fetch(full), p \in Feed(full)
          PROVE  Fits(p)'
      <4>1. Fits(p) /\ rows' = rows /\ version' = version
        BY <3>2, FeedFits DEF Fetch, store
      <4> QED
        BY <4>1 DEF Fits
    <3> QED
      BY <3>1, <3>2, HeardStep
  <2>4. ASSUME NEW p \in Heard', NEW q \in Heard', p.task = q.task, p.event = q.event
        PROVE  p.display = q.display
    <3>1. CASE p \in Heard /\ q \in Heard
      BY <2>2, <2>4, <3>1 DEF Faithful
    <3>2. ASSUME NEW full \in BOOLEAN, p \in Feed(full) \/ q \in Feed(full), Fetch(full)
          PROVE  p.display = q.display
      <4>1. p.event = version[p.task] /\ q.event = version[q.task]
        BY <2>4, <3>2, FeedFits
      <4>2. version' = version /\ rows' = rows
        BY <3>2 DEF Fetch, store
      <4> QED
        BY <2>3, <2>4, <4>1, <4>2 DEF Fits
    <3> QED
      BY <3>1, <3>2, HeardStep
  <2> QED
    BY <2>2, <2>3, <2>4 DEF Faithful
<1> QED
  BY <1>1, <1>2, TypedHolds, PTL DEF Spec

\* Two deliveries of one version of a task never differ, nor do they differ
\* from the row or from what is recorded: the feed reads the row and the
\* cutoff in one snapshot.
THEOREM OneTruthPerVersion == Spec => []VersionsAgree
<1>1. Typed /\ (restores = 0 => Faithful) => VersionsAgree
  <2> SUFFICES ASSUME Typed, Faithful, NEW t \in Tasks PROVE
        LET seen == {<<p.event, p.display>> :
                       p \in {q \in UNION {b.tasks : b \in batches} : q.task = t}}
                    \cup (IF rows[t] = None THEN {}
                          ELSE {<<version[t], Display(t, rows[t])>>})
                    \cup (IF checkpoint[t] = None THEN {}
                          ELSE {<<checkpoint[t].event, checkpoint[t].display>>})
        IN  \A x, y \in seen : x[1] = y[1] => x = y
    BY DEF VersionsAgree
  <2> DEFINE heard == {<<p.event, p.display>> : p \in {q \in Heard : q.task = t}}
             row == IF rows[t] = None THEN {} ELSE {<<version[t], Display(t, rows[t])>>}
             delivered == {<<p.event, p.display>> :
                             p \in {q \in UNION {b.tasks : b \in batches} : q.task = t}}
             known == IF checkpoint[t] = None THEN {}
                      ELSE {<<checkpoint[t].event, checkpoint[t].display>>}
  <2>1. delivered \subseteq heard
    <3>1. UNION {b.tasks : b \in batches} \subseteq Heard
      BY DEF Heard, Typed, Batch
    <3> QED
      BY <3>1
  <2>2. known \subseteq heard
    <3> SUFFICES ASSUME checkpoint[t] # None
                 PROVE  <<checkpoint[t].event, checkpoint[t].display>> \in heard
      OBVIOUS
    <3>1. PICK p \in Heard :
            p.task = t /\ checkpoint[t] = [event |-> p.event, display |-> p.display]
      BY CheckpointHeard
    <3>2. <<checkpoint[t].event, checkpoint[t].display>> = <<p.event, p.display>>
      BY <3>1
    <3> QED
      BY <3>1, <3>2
  <2>3. \A x \in heard : x = <<x[1], x[2]>> /\ \E p \in Heard : p.task = t /\ x[1] = p.event
                                                          /\ x[2] = p.display
    OBVIOUS
  <2>4. \A x \in row : x = <<x[1], x[2]>> /\ x[1] = version[t] /\ x[2] = Display(t, rows[t])
    OBVIOUS
  <2>5. \A x, y \in heard \cup row : x[1] = y[1] => x[2] = y[2]
    <3> HIDE DEF heard, row
    <3> QED
      BY <2>3, <2>4 DEF Faithful, Fits
  <2>6. \A x, y \in heard \cup row : x[1] = y[1] => x = y
    <3> HIDE DEF heard, row
    <3> QED
      BY <2>3, <2>4, <2>5
  <2>7. \A x, y \in (delivered \cup row) \cup known : x[1] = y[1] => x = y
    <3> HIDE DEF heard, row, delivered, known
    <3> QED
      BY <2>1, <2>2, <2>6
  <2> QED
    BY <2>7
<1> QED
  BY <1>1, FaithfulHolds, PTL

-----------------------------------------------------------------------------
(* Full snapshots, and incremental ones without overlapping writers.       *)

\* The consumer has the task at its version at least.
UpToDate(t) == rows[t] # None => checkpoint[t] # None /\ version[t] <= checkpoint[t].event

\* What is no longer left of a response has been recorded, or something newer.
Recorded ==
  \A b \in batches : \A p \in b.tasks : p \notin b.left =>
    checkpoint[p.task] # None /\ p.event <= checkpoint[p.task].event

\* A delivery that is applied has been recorded, or something newer.
LEMMA AppliedRecorded ==
  ASSUME Typed, NEW b \in batches, NEW p \in b.left, Applies(b, p)
  PROVE  /\ p.task \in Tasks /\ checkpoint'[p.task] # None
         /\ p.event <= checkpoint'[p.task].event
<1>1. /\ p.task \in Tasks /\ p.event \in Nat
      /\ [event |-> p.event, display |-> p.display] \in Checkpoints
  BY ProjectionConstants DEF Applies, Deliveries, Checkpoints
<1>2. CASE Ignores(p)
  <2>1. checkpoint[p.task] # None /\ checkpoint[p.task] \in Checkpoints
    BY <1>1, <1>2 DEF Ignores, Typed
  <2>2. checkpoint[p.task].event \in Nat
    BY <2>1, ProjectionConstants DEF Checkpoints
  <2> QED
    BY <1>1, <1>2, <2>1, <2>2 DEF Ignores
<1>3. CASE Records(p)
  BY <1>1, <1>3, ProjectionConstants DEF Records
<1> QED
  BY <1>2, <1>3 DEF Applies

\* What is left of a batch after a step: the same, or less by what has been
\* applied.
LEMMA BatchStep ==
  ASSUME Typed, [Next]_vars, NEW b \in batches'
  PROVE  \/ b \in batches
         \/ \E full \in BOOLEAN : Fetch(full) /\
              b = [full |-> full, through |-> MaxId(version), tasks |-> Feed(full),
                   left |-> Feed(full)]
         \/ \E c \in batches, p \in Deliveries :
              /\ p \in c.left /\ Applies(c, p)
              /\ b.through = c.through /\ b.tasks = c.tasks /\ b.left = c.left \ {p}
<1>1. ASSUME NEW full \in BOOLEAN, Fetch(full), b \notin batches
      PROVE  b = [full |-> full, through |-> MaxId(version), tasks |-> Feed(full),
                  left |-> Feed(full)]
  BY <1>1 DEF Fetch
<1>2. ASSUME NEW c \in batches, NEW p \in c.left, Applies(c, p), b \notin batches
      PROVE  /\ p \in Deliveries
             /\ b.through = c.through /\ b.tasks = c.tasks /\ b.left = c.left \ {p}
  <2>1. Applies(c, p)
    BY <1>2
  <2>2. c \in Batch
    BY DEF Typed
  <2>3. b = [c EXCEPT !.left = @ \ {p}]
    BY <1>2, <2>1 DEF Applies
  <2>4. b.through = c.through /\ b.tasks = c.tasks /\ b.left = c.left \ {p}
    BY <2>2, <2>3 DEF Batch
  <2> QED
    BY <2>1, <2>4 DEF Applies
<1>3. CASE batches' \subseteq batches
  BY <1>3
<1>4. ASSUME NEW c \in batches, Finish(c) \/ GiveUp(c) \/ Fails(c)
      PROVE  batches' \subseteq batches
  BY <1>4 DEF Finish, GiveUp, Fails
<1> QED
  BY <1>1, <1>2, <1>3, <1>4, ApplyEffect
  DEF Next, vars, store, consumer, BeginWrite, EndWrite, CommitWrite, RollbackWrite,
      Edit, Delete, Backup, Restore

\* Nothing gets lost between a response and the checkpoints.
LEMMA RecordedHolds == Spec => []Recorded
<1>1. Init => Recorded
  BY DEF Init, Recorded
<1>2. Typed /\ Recorded /\ [Next]_vars => Recorded'
  <2> SUFFICES ASSUME Typed, Recorded, [Next]_vars,
                      NEW b \in batches', NEW p \in b.tasks, p \notin b.left
               PROVE  checkpoint'[p.task] # None /\ p.event <= checkpoint'[p.task].event
    BY DEF Recorded
  <2>1. ASSUME NEW c \in batches, p \in c.tasks, p \notin c.left
        PROVE  checkpoint'[p.task] # None /\ p.event <= checkpoint'[p.task].event
    <3>1. p.task \in Tasks /\ p.event \in Nat
      BY <2>1, ProjectionConstants DEF Typed, Batch, Deliveries
    <3>2. checkpoint[p.task] # None /\ p.event <= checkpoint[p.task].event
      BY <2>1 DEF Recorded
    <3>3. checkpoint'[p.task] # None /\ checkpoint'[p.task].event >= checkpoint[p.task].event
      BY <3>1, <3>2, RecordsGrow
    <3>4. checkpoint[p.task].event \in Nat /\ checkpoint'[p.task].event \in Nat
      BY <3>1, <3>2, <3>3, TypedNext, ProjectionConstants DEF Typed, Checkpoints
    <3> QED
      BY <3>1, <3>2, <3>3, <3>4
  <2>2. ASSUME NEW c \in batches, NEW d \in Deliveries, d \in c.left, Applies(c, d),
               b.tasks = c.tasks, b.left = c.left \ {d}
        PROVE  checkpoint'[p.task] # None /\ p.event <= checkpoint'[p.task].event
    <3>1. CASE p = d
      BY <2>2, <3>1, AppliedRecorded
    <3>2. CASE p # d
      BY <2>1, <2>2, <3>2
    <3> QED
      BY <3>1, <3>2
  <2> QED
    BY <2>1, <2>2, BatchStep
<1> QED
  BY <1>1, <1>2, TypedHolds, PTL DEF Spec

\* Until a restore, a checkpoint that is not older than the row is the row.
LEMMA UpToDateSynced ==
  ASSUME Typed, Faithful, NEW t \in Tasks, UpToDate(t)
  PROVE  Synced(t)
<1> SUFFICES ASSUME rows[t] # None
             PROVE  checkpoint[t] = [event |-> version[t], display |-> Display(t, rows[t])]
  BY DEF Synced
<1>1. checkpoint[t] # None /\ version[t] <= checkpoint[t].event
  BY DEF UpToDate
<1>2. PICK p \in Heard : /\ p.task = t
                         /\ checkpoint[t] = [event |-> p.event, display |-> p.display]
                         /\ checkpoint[t].event = p.event
  BY <1>1, CheckpointHeard
<1>3. p.event = version[t]
  BY <1>1, <1>2, HeardTypes DEF Faithful, Fits
<1> QED
  BY <1>2, <1>3 DEF Faithful, Fits

\* A full snapshot that is applied while it is current repairs the consumer,
\* whatever was lost before, as long as the database was not restored.
THEOREM RebuildRepairs == Spec => RebuildSyncsUnlessRestored
<1>1. Typed /\ (restores = 0 => Faithful) /\ Recorded =>
        [restores = 0 => \A b \in batches : Rebuilds(b) => \A t \in Tasks : Synced(t)]_vars
  <2> SUFFICES ASSUME Typed, Faithful, Recorded, NEW b \in batches, b.left = {},
                      b.tasks = Feed(TRUE), NEW t \in Tasks
               PROVE  Synced(t)
    BY DEF Rebuilds
  <2>1. ASSUME rows[t] # None
        PROVE  checkpoint[t] # None /\ version[t] <= checkpoint[t].event
    <3>1. PICK p \in Feed(TRUE) : p.task = t /\ p.event = version[t]
      BY <2>1, FeedFact
    <3> QED
      BY <3>1 DEF Recorded
  <2> QED
    BY <2>1, UpToDateSynced DEF UpToDate
<1> QED
  BY <1>1, FaithfulHolds, RecordedHolds, PTL DEF Spec, RebuildSyncsUnlessRestored

\* While no two store methods overlap: one transaction at most is open, its
\* id is larger than anything committed or answered; and what a cutoff has
\* passed the consumer has or is about to be told.
Serial ==
  /\ \A t, u \in Tasks : writing[t] # None /\ writing[u] # None => t = u
  /\ \A t \in Tasks : writing[t] # None =>
       /\ \A u \in Tasks : version[u] < writing[t].id
       /\ cursor < writing[t].id
       /\ \A b \in batches : b.through < writing[t].id
  /\ cursor <= lastId /\ \A b \in batches : b.through <= lastId
  /\ \A t \in Tasks : version[t] <= cursor => UpToDate(t)
  /\ \A b \in batches : \A t \in Tasks : version[t] <= b.through =>
       UpToDate(t) \/ \E p \in b.left : p.task = t /\ p.event = version[t]

\* A task the consumer has stays so while the row does.
LEMMA UpToDateStays ==
  ASSUME Typed, [Next]_vars, NEW t \in Tasks, UpToDate(t),
         rows'[t] = rows[t], version'[t] = version[t]
  PROVE  UpToDate(t)'
<1> SUFFICES ASSUME rows[t] # None
             PROVE  checkpoint'[t] # None /\ version[t] <= checkpoint'[t].event
  BY DEF UpToDate
<1>1. checkpoint[t] # None /\ version[t] <= checkpoint[t].event /\ version[t] \in Nat
  BY ProjectionConstants DEF UpToDate, Typed, StateOK
<1>2. checkpoint'[t] # None /\ checkpoint'[t].event >= checkpoint[t].event
  BY <1>1, RecordsGrow
<1>3. checkpoint[t].event \in Nat /\ checkpoint'[t].event \in Nat
  BY <1>1, <1>2, TypedNext, ProjectionConstants DEF Typed, Checkpoints
<1> QED
  BY <1>1, <1>2, <1>3

\* The numbers of a state are natural numbers.
LEMMA Numbers ==
  ASSUME Typed
  PROVE  /\ lastId \in Nat /\ cursor \in Nat
         /\ \A b \in batches : b.through \in Nat
         /\ \A t \in Tasks : version[t] \in Nat /\ version[t] <= lastId
         /\ \A t \in Tasks : writing[t] # None => writing[t].id \in Nat /\ writing[t].id <= lastId
BY ProjectionConstants DEF Typed, StateOK, Batch

\* A store method that runs alone takes the largest id there is.
LEMMA SerialBegins ==
  ASSUME Typed, Serial, NEW t \in Tasks, NEW row \in Row, BeginWrite(t, row), ~overlapped'
  PROVE  Serial'
<1>1. /\ \A u \in Tasks : writing[u] = None
      /\ UNCHANGED <<rows, version, consumer>> /\ lastId' = lastId + 1
      /\ \A u \in Tasks : IF u = t THEN writing'[u].id = lastId + 1 ELSE writing'[u] = None
  BY DEF BeginWrite, NextId, Typed
<1>2. /\ cursor < lastId + 1 /\ cursor <= lastId'
      /\ \A b \in batches : b.through < lastId + 1 /\ b.through <= lastId'
      /\ \A u \in Tasks : version[u] < lastId + 1
  BY <1>1, Numbers DEF Serial
<1> QED
  BY <1>1, <1>2 DEF Serial, UpToDate, consumer

\* What it commits is newer than every cutoff.
LEMMA SerialEnds ==
  ASSUME Typed, Serial, NEW t \in Tasks, EndWrite(t)
  PROVE  Serial'
<1>1. /\ writing[t] # None /\ \A u \in Tasks : writing'[u] = None
      /\ UNCHANGED <<lastId, consumer>>
      /\ \A u \in Tasks \ {t} : rows'[u] = rows[u] /\ version'[u] = version[u]
      /\ \/ rows'[t] = rows[t] /\ version'[t] = version[t]
         \/ version'[t] = writing[t].id
  BY DEF EndWrite, CommitWrite, RollbackWrite, Serial, Typed, StateOK
<1>2. \A n \in {cursor} \cup {b.through : b \in batches} :
        n \in Nat /\ n < writing[t].id /\ writing[t].id \in Nat
  BY <1>1, Numbers DEF Serial
<1>3. ASSUME NEW u \in Tasks, NEW n \in {cursor} \cup {b.through : b \in batches},
             version'[u] <= n
      PROVE  rows'[u] = rows[u] /\ version'[u] = version[u]
  <2>1. ~(writing[t].id <= n)
    BY <1>2
  <2> QED
    BY <1>1, <1>3, <2>1
<1>4. checkpoint' = checkpoint /\ cursor' = cursor /\ batches' = batches
  BY <1>1 DEF consumer
<1>5. ASSUME NEW u \in Tasks, version'[u] <= cursor'
      PROVE  UpToDate(u)'
  <2>1. rows'[u] = rows[u] /\ version'[u] = version[u]
    BY <1>3, <1>4, <1>5
  <2>2. UpToDate(u)
    BY <1>4, <1>5, <2>1 DEF Serial
  <2> QED
    BY <1>4, <2>1, <2>2 DEF UpToDate
<1>6. ASSUME NEW b \in batches', NEW u \in Tasks, version'[u] <= b.through
      PROVE  UpToDate(u)' \/ \E p \in b.left : p.task = u /\ p.event = version'[u]
  <2>1. rows'[u] = rows[u] /\ version'[u] = version[u]
    BY <1>3, <1>4, <1>6
  <2>2. UpToDate(u) \/ \E p \in b.left : p.task = u /\ p.event = version[u]
    BY <1>4, <1>6, <2>1 DEF Serial
  <2> QED
    BY <1>4, <2>1, <2>2 DEF UpToDate
<1> QED
  BY <1>1, <1>4, <1>5, <1>6 DEF Serial

\* The cutoff of a response passes nothing that is still to be committed, and
\* the response has every task that is newer than the cursor.
LEMMA SerialFetches ==
  ASSUME Typed, Serial, NEW full \in BOOLEAN, Fetch(full)
  PROVE  Serial'
<1> DEFINE new == [full |-> full, through |-> MaxId(version), tasks |-> Feed(full),
                   left |-> Feed(full)]
<1>1. batches' = batches \cup {new} /\ UNCHANGED <<store, cursor, checkpoint>>
  BY DEF Fetch
<1>2. new.through = MaxId(version) /\ new.left = Feed(full)
  OBVIOUS
<1>3. /\ MaxId(version) <= lastId
      /\ \A t \in Tasks : writing[t] # None => MaxId(version) < writing[t].id
  <2>1. version \in [Tasks -> 0..MaxEvents]
    BY DEF Typed, StateOK
  <2>2. PICK u \in Tasks : MaxId(version) = version[u]
    BY <2>1, MaxIdFact
  <2> QED
    BY <2>2, Numbers DEF Serial
<1>4. ASSUME NEW t \in Tasks
      PROVE  UpToDate(t) \/ \E p \in Feed(full) : p.task = t /\ p.event = version[t]
  <2>1. CASE rows[t] # None /\ (full \/ version[t] > cursor)
    BY <2>1, FeedFact
  <2>2. CASE rows[t] = None
    BY <2>2 DEF UpToDate
  <2>3. CASE ~(version[t] > cursor)
    <3>1. version[t] <= cursor
      BY <2>3, Numbers
    <3> QED
      BY <3>1 DEF Serial
  <2> QED
    BY <2>1, <2>2, <2>3
<1> HIDE DEF new
<1> QED
  BY <1>1, <1>2, <1>3, <1>4 DEF Serial, UpToDate, store

\* What is applied is recorded.
LEMMA SerialApplies ==
  ASSUME Typed, Serial, [Next]_vars, NEW c \in batches, NEW p \in c.left, Applies(c, p)
  PROVE  Serial'
<1>1. /\ UNCHANGED <<store, cursor>>
      /\ batches' = (batches \ {c}) \cup {[c EXCEPT !.left = @ \ {p}]}
  BY DEF Applies
<1>2. c \in Batch
  BY DEF Typed
<1>3. ASSUME NEW b \in batches'
      PROVE  b \in batches \/ (b.through = c.through /\ b.left = c.left \ {p})
  BY <1>1, <1>2, <1>3 DEF Batch
<1>4. ASSUME NEW t \in Tasks, UpToDate(t)
      PROVE  UpToDate(t)'
  BY <1>1, <1>4, UpToDateStays DEF store
<1>5. ASSUME NEW b \in batches', NEW t \in Tasks, version[t] <= b.through
      PROVE  UpToDate(t)' \/ \E q \in b.left : q.task = t /\ q.event = version[t]
  <2>1. CASE b \in batches
    BY <1>4, <1>5, <2>1 DEF Serial
  <2>2. CASE b.through = c.through /\ b.left = c.left \ {p}
    <3>1. UpToDate(t) \/ \E q \in c.left : q.task = t /\ q.event = version[t]
      BY <1>5, <2>2 DEF Serial
    <3>2. CASE UpToDate(t)
      BY <1>4, <3>2
    <3>3. ASSUME NEW q \in c.left, q.task = t, q.event = version[t]
          PROVE  UpToDate(t)' \/ \E d \in b.left : d.task = t /\ d.event = version[t]
      <4>1. CASE q = p
        <5>1. checkpoint'[t] # None /\ version[t] <= checkpoint'[t].event
          BY <3>3, <4>1, AppliedRecorded
        <5> QED
          BY <1>1, <5>1 DEF UpToDate, store
      <4>2. CASE q # p
        BY <2>2, <3>3, <4>2
      <4> QED
        BY <4>1, <4>2
    <3> QED
      BY <3>1, <3>2, <3>3
  <2> QED
    BY <1>3, <2>1, <2>2
<1>6. \A b \in batches' : \E d \in batches : b.through = d.through
  BY <1>3
<1> QED
  BY <1>1, <1>4, <1>5, <1>6 DEF Serial, store

\* A batch that is finished has told the consumer what its cutoff passed.
LEMMA SerialCloses ==
  ASSUME Typed, Serial, NEW b \in batches, Finish(b) \/ GiveUp(b) \/ Fails(b)
  PROVE  Serial'
<1>1. UNCHANGED <<store, checkpoint>> /\ batches' \subseteq batches
  BY DEF Finish, GiveUp, Fails
<1>2. CASE UNCHANGED cursor
  BY <1>1, <1>2 DEF Serial, UpToDate, store
<1>3. CASE cursor' = b.through /\ b.left = {}
  BY <1>1, <1>3 DEF Serial, UpToDate, store
<1> QED
  BY <1>2, <1>3 DEF Finish, GiveUp, Fails

\* So it is while no two store methods overlap and nothing is restored.
LEMMA SerialHolds == Spec => [](Typed /\ (restores = 0 /\ ~overlapped => Serial))
<1>1. Init => (restores = 0 /\ ~overlapped => Serial)
  <2> SUFFICES ASSUME Init PROVE Serial
    OBVIOUS
  <2>1. /\ \A t \in Tasks : writing[t] = None /\ rows[t] = None
        /\ batches = {} /\ cursor = 0 /\ lastId = 0
    BY DEF Init
  <2> QED
    BY <2>1 DEF Serial, UpToDate
<1>2. Typed /\ (restores = 0 /\ ~overlapped => Serial) /\ [Next]_vars =>
        (restores = 0 /\ ~overlapped => Serial)'
  <2> SUFFICES ASSUME Typed, restores = 0 /\ ~overlapped => Serial, [Next]_vars,
                      restores' = 0, ~overlapped'
               PROVE  Serial'
    OBVIOUS
  <2>1. restores = 0
    BY StillUnrestored
  <2>2. ~overlapped
    BY DEF Next, vars, store, BeginWrite, EndWrite, CommitWrite, RollbackWrite, Fetch,
           Apply, Finish, GiveUp, Edit, Delete, Backup, Restore
  <2>3. Serial
    BY <2>1, <2>2
  <2>4. ASSUME NEW t \in Tasks, NEW row \in Row, BeginWrite(t, row)
        PROVE  Serial'
    BY <2>3, <2>4, SerialBegins
  <2>5. ASSUME NEW t \in Tasks, EndWrite(t)
        PROVE  Serial'
    BY <2>3, <2>5, SerialEnds
  <2>6. ASSUME NEW full \in BOOLEAN, Fetch(full)
        PROVE  Serial'
    BY <2>3, <2>6, SerialFetches
  <2>7. ASSUME NEW c \in batches, NEW p \in c.left, Applies(c, p)
        PROVE  Serial'
    BY <2>3, <2>7, SerialApplies
  <2>8. ASSUME NEW c \in batches, Finish(c) \/ GiveUp(c) \/ Fails(c)
        PROVE  Serial'
    BY <2>3, <2>8, SerialCloses
  <2>9. CASE UNCHANGED <<store, cursor, checkpoint, batches>>
    BY <2>3, <2>9 DEF Serial, UpToDate, store
  <2>10. ASSUME Restore
         PROVE  FALSE
    BY <2>10 DEF Restore, Typed
  <2> QED
    BY <2>4, <2>5, <2>6, <2>7, <2>8, <2>9, <2>10, ApplyEffect
    DEF Next, Edit, Delete, Backup, vars, consumer
<1> QED
  BY <1>1, <1>2, TypedHolds, PTL DEF Spec

\* While no two store methods overlap, a consumer that has reached the newest
\* event with incremental responses has every task as it is, whatever batches
\* failed, were repeated or came late.
THEOREM IncrementalCatchesUp == Spec => []CaughtUp
<1>1. Typed /\ (restores = 0 => Faithful) /\ (restores = 0 /\ ~overlapped => Serial) => CaughtUp
  <2> SUFFICES ASSUME Typed, Faithful, Serial, cursor = MaxId(version), NEW t \in Tasks
               PROVE  Synced(t)
    BY DEF CaughtUp, FeedComplete
  <2>1. version \in [Tasks -> 0..MaxEvents]
    BY DEF Typed, StateOK
  <2>2. version[t] <= cursor
    BY <2>1, MaxIdFact
  <2> QED
    BY <2>2, UpToDateSynced DEF Serial
<1> QED
  BY <1>1, FaithfulHolds, SerialHolds, PTL

=============================================================================
