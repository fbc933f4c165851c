--------------------------- MODULE TxnStoreProofs ---------------------------
(***************************************************************************)
(* Theorems about TxnStore, for any number of tasks, workers, routes and   *)
(* connections.                                                            *)
(*                                                                         *)
(* The inductive invariant says, for each kind of transaction, which locks *)
(* it holds, which it still wants and in which order, and what it has read *)
(* under them: a call wants approval, task, circuit in this order; a sweep *)
(* has and wants tasks only; whoever writes a row holds its lock.          *)
(***************************************************************************)
EXTENDS TxnStore, FiniteSetTheorems, TLAPS

\* The type of a connection.
Conn == [kind : {"idle"} \cup Reads \cup Calls \cup Sweeps,
         task : Tasks \cup {None}, worker : Workers \cup {None},
         want : Seq(Locks), seen : Rows \cup {None},
         pending : {None} \cup Reports, count : Nat,
         took : SUBSET Tasks, shown : SUBSET Tasks,
         overtaken : BOOLEAN]

\* The calls that write circuits.
CircuitUsers == {"report_failure", "submit_receipt"}

\* x reached its circuit: only the two calls that write circuits do, and
\* report_failure only with the report it is going to count.
AtCircuit(x) ==
  /\ txn[x].kind \in CircuitUsers
  /\ txn[x].kind = "report_failure" => txn[x].pending # None

\* x has no lock,
HoldsNothing(x) == \A l \in Locks : locks[l] # x

\* or none of a circuit;
HoldsNoCircuit(x) == \A k \in Routes : locks[Circuit(k)] # x

\* or it holds the row of its task as it is.
HasRead(x) == locks[Task(txn[x].task)] = x /\ txn[x].seen = rows[txn[x].task]

\* How far a call has come.
Stage(x) ==
  LET t == txn[x].task
  IN  \/ txn[x].want = <<>> /\ HasRead(x)
      \/ /\ txn[x].want = <<Circuit(Route[t])>>
         /\ HasRead(x) /\ AtCircuit(x) /\ HoldsNoCircuit(x)
      \/ /\ txn[x].want = <<Task(t)>>
         /\ txn[x].seen = None /\ HoldsNoCircuit(x) /\ locks[Task(t)] # x
      \/ /\ txn[x].want = <<Approval(t), Task(t)>>
         /\ txn[x].seen = None /\ HoldsNothing(x)

\* decide_approval keeps the approval locked from its first step on.
Decides(x) ==
  LET t == txn[x].task
  IN  txn[x].kind = "decide_approval" /\ txn[x].want # <<Approval(t), Task(t)>>
        => locks[Approval(t)] = x

\* A call is about one task and one circuit.
CallOK(x) ==
  LET t == txn[x].task
  IN  /\ t \in Tasks /\ Exists(t)
      /\ txn[x].took = {}
      /\ txn[x].kind \in {"claim", "submit_receipt"} => txn[x].worker \in Workers
      /\ \A k \in Routes : locks[Circuit(k)] = x =>
           k = Route[t] /\ txn[x].want = <<>> /\ AtCircuit(x)
      /\ \A u \in Tasks : locks[Task(u)] = x => u = t
      /\ Decides(x)
      /\ Stage(x)

\* A sweep locks rows of tasks, each once, and took only rows that fit.
SweepOK(x) ==
  /\ txn[x].seen = None
  /\ \A i \in DOMAIN txn[x].want :
       \E u \in Tasks : txn[x].want[i] = Task(u) /\ locks[Task(u)] # x
  /\ \A i, j \in DOMAIN txn[x].want : txn[x].want[i] = txn[x].want[j] => i = j
  /\ \A l \in Locks : locks[l] = x => \E u \in Tasks : l = Task(u)
  /\ \A u \in txn[x].took : locks[Task(u)] = x /\ Swept(txn[x].kind, u)

\* Who does nothing or only reads has and wants no lock.
RestOK(x) ==
  /\ txn[x].want = <<>> /\ txn[x].seen = None /\ txn[x].took = {}
  /\ HoldsNothing(x)

\* The discipline of a connection,
ConnOK(x) ==
  /\ txn[x].kind \in Calls => CallOK(x)
  /\ txn[x].kind \in Sweeps => SweepOK(x)
  /\ txn[x].kind \in {"idle"} \cup Reads => RestOK(x)

\* and of all of them.
Disciplined == \A x \in Txns : ConnOK(x)

\* An approval refers to a task that is there.
AskedExist == \A t \in Tasks : asked[t] # None => Exists(t)

\* The inductive invariant.
IInv == TypeOK /\ Disciplined /\ AskedExist

-----------------------------------------------------------------------------
(* Facts about locks and connections.                                      *)

\* What is assumed of the constants.
LEMMA TxnConstants ==
  /\ Route \in [Tasks -> Routes]
  /\ MaxAttempts \in [Tasks -> Nat \ {0}]
  /\ None \notin Workers /\ None \notin Txns /\ None \notin Reports
  /\ None \notin Rows /\ None \notin CircuitRows /\ None # "requested"
  /\ IsFiniteSet(Tasks)
BY TxnAssumption DEF TxnAssumption

\* There are three kinds of locks,
LEMMA LockKinds ==
  /\ \A t \in Tasks : Task(t) \in Locks /\ Approval(t) \in Locks
  /\ \A k \in Routes : Circuit(k) \in Locks
  /\ \A l \in Locks : \/ \E t \in Tasks : l = Approval(t)
                      \/ \E t \in Tasks : l = Task(t)
                      \/ \E k \in Routes : l = Circuit(k)
BY DEF Locks

\* and no two of them have the same name.
LEMMA LockNames ==
  /\ \A t : /\ Task(t)[1] = "task" /\ Task(t)[2] = t
            /\ Approval(t)[1] = "approval" /\ Circuit(t)[1] = "circuit"
  /\ \A t, u \in Tasks : Task(t) # Approval(u) /\ (Task(t) = Task(u) => t = u)
  /\ \A t \in Tasks, k \in Routes : Task(t) # Circuit(k) /\ Approval(t) # Circuit(k)
  /\ \A j, k \in Routes : Circuit(j) = Circuit(k) => j = k
BY DEF Task, Approval, Circuit

\* Short lists of locks.
LEMMA Lists ==
  ASSUME NEW a, NEW b, NEW c
  PROVE  /\ <<a>> # <<>> /\ <<a, b>> # <<>> /\ <<a>> # <<b, c>>
         /\ <<a>> = <<b>> => a = b
         /\ Head(<<a>>) = a /\ Tail(<<a>>) = <<>>
         /\ Head(<<a, b>>) = a /\ Tail(<<a, b>>) = <<b>>
OBVIOUS

\* An idle connection is a connection that wants nothing.
LEMMA IdleType ==
  /\ Idle \in Conn
  /\ Idle.kind = "idle" /\ Idle.want = <<>> /\ Idle.seen = None /\ Idle.took = {}
  /\ Idle.overtaken = FALSE
BY DEF Idle, Conn

\* The types of the connections and the locks.
LEMMA TxnType == TypeOK => txn \in [Txns -> Conn] /\ locks \in [Locks -> Txns \cup {None}]
BY DEF TypeOK, Conn

\* A connection is in a call, in a sweep, or at rest or reading.
LEMMA Kinds ==
  /\ \A x \in Txns : TypeOK => \/ txn[x].kind \in Calls
                               \/ txn[x].kind \in Sweeps
                               \/ txn[x].kind \in {"idle"} \cup Reads
  /\ \A k \in Calls : k \notin Sweeps /\ k \notin {"idle"} \cup Reads
  /\ \A k \in Sweeps : k \notin {"idle"} \cup Reads
<1>1. \A x \in Txns : TypeOK => txn[x].kind \in {"idle"} \cup Reads \cup Calls \cup Sweeps
  BY TxnType DEF Conn
<1> QED
  BY <1>1 DEF Calls, Sweeps, Reads

\* What the end of a transaction leaves behind.
LEMMA EndEffect ==
  ASSUME TypeOK, NEW x \in Txns, End(x)
  PROVE  /\ locks' \in [Locks -> Txns \cup {None}] /\ txn' \in [Txns -> Conn]
         /\ \A l \in Locks : locks'[l] = IF locks[l] = x THEN None ELSE locks[l]
         /\ txn'[x] = Idle
         /\ \A y \in Txns \ {x} : txn'[y] = txn[y]
BY IdleType, TxnType DEF End

-----------------------------------------------------------------------------
(* Steps that keep the discipline.                                         *)

\* A connection none of whose fields matter for the discipline has changed.
Alike(y) ==
  /\ txn'[y].kind = txn[y].kind /\ txn'[y].task = txn[y].task
  /\ txn'[y].worker = txn[y].worker /\ txn'[y].want = txn[y].want
  /\ txn'[y].seen = txn[y].seen /\ txn'[y].pending = txn[y].pending
  /\ txn'[y].count = txn[y].count /\ txn'[y].took = txn[y].took

\* The rows y has read or taken are as they were.
RowsStay(y) ==
  \A t \in Tasks : locks[Task(t)] = y =>
    rows'[t] = rows[t] /\ (t \in over => t \in over')

\* No task goes away.
StillExist == \A t \in Tasks : Exists(t) => Exists(t)'

\* y goes on as before while others move.
LEMMA BystanderOK ==
  ASSUME TypeOK, NEW y \in Txns, ConnOK(y), Alike(y), RowsStay(y), StillExist,
         \A l \in Locks : (locks'[l] = y) <=> (locks[l] = y)
  PROVE  ConnOK(y)'
<1>1. CASE txn[y].kind \in Calls
  <2> DEFINE t == txn[y].task
  <2>1. CallOK(y)
    BY <1>1 DEF ConnOK
  <2>2. t \in Tasks /\ Exists(t)'
    BY <2>1 DEF CallOK, StillExist, Alike
  <2>3. AtCircuit(y) => AtCircuit(y)'
    BY DEF AtCircuit, Alike
  <2>4. HoldsNothing(y) => HoldsNothing(y)'
    BY DEF HoldsNothing
  <2>5. HoldsNoCircuit(y) => HoldsNoCircuit(y)'
    BY LockKinds DEF HoldsNoCircuit
  <2>6. HasRead(y) => HasRead(y)'
    BY <2>2, LockKinds DEF HasRead, Alike, RowsStay
  <2>7. Stage(y)'
    BY <2>1, <2>2, <2>3, <2>4, <2>5, <2>6, LockKinds DEF CallOK, Stage, Alike
  <2>8. Decides(y)'
    BY <2>1, <2>2, LockKinds DEF CallOK, Decides, Alike
  <2>9. CallOK(y)'
    BY <2>1, <2>2, <2>3, <2>7, <2>8, LockKinds DEF CallOK, Alike
  <2> QED
    BY <1>1, <2>9, Kinds DEF ConnOK, Alike
<1>2. CASE txn[y].kind \in Sweeps
  <2>1. SweepOK(y)
    BY <1>2 DEF ConnOK
  <2>2. ASSUME NEW u \in txn[y].took
        PROVE  locks'[Task(u)] = y /\ Swept(txn[y].kind, u)'
    <3>1. u \in Tasks
      BY TxnType DEF Conn
    <3>2. locks[Task(u)] = y /\ Swept(txn[y].kind, u)
      BY <2>1 DEF SweepOK
    <3>3. rows'[u] = rows[u] /\ (u \in over => u \in over')
      BY <3>1, <3>2 DEF RowsStay
    <3>4. Swept(txn[y].kind, u)'
      BY <3>2, <3>3 DEF Swept, Alike
    <3> QED
      BY <3>1, <3>2, <3>4, LockKinds
  <2>3. SweepOK(y)'
    BY <2>1, <2>2, LockKinds DEF SweepOK, Alike
  <2> QED
    BY <1>2, <2>3, Kinds DEF ConnOK, Alike
<1>3. CASE txn[y].kind \in {"idle"} \cup Reads
  <2>1. RestOK(y)
    BY <1>3 DEF ConnOK
  <2>2. RestOK(y)'
    BY <2>1 DEF RestOK, HoldsNothing, Alike
  <2> QED
    BY <1>3, <2>2, Kinds DEF ConnOK, Alike
<1> QED
  BY <1>1, <1>2, <1>3, Kinds

\* A connection that is idle and holds nothing.
LEMMA IdleOK ==
  ASSUME NEW x \in Txns, txn'[x] = Idle, \A l \in Locks : locks'[l] # x
  PROVE  ConnOK(x)'
BY IdleType, Kinds DEF ConnOK, RestOK, HoldsNothing, Reads, Calls, Sweeps

\* Nobody else has read or taken a row whose lock x holds.
LEMMA LockedByAnother ==
  ASSUME NEW x, NEW y, x # y,
         \A t \in Tasks : locks[Task(t)] # x =>
           rows'[t] = rows[t] /\ (t \in over => t \in over')
  PROVE  RowsStay(y)
BY DEF RowsStay

\* x ends; what it wrote are rows that it held.
LEMMA LeavingOK ==
  ASSUME TypeOK, Disciplined, NEW x \in Txns,
         \A l \in Locks : locks'[l] = IF locks[l] = x THEN None ELSE locks[l],
         txn'[x] = Idle, \A y \in Txns \ {x} : Alike(y),
         \A t \in Tasks : locks[Task(t)] # x =>
           rows'[t] = rows[t] /\ (t \in over => t \in over'),
         StillExist
  PROVE  Disciplined'
<1>1. ConnOK(x)'
  BY IdleOK, TxnConstants
<1>2. ASSUME NEW y \in Txns \ {x}
      PROVE  ConnOK(y)'
  <2>1. ConnOK(y)
    BY DEF Disciplined
  <2>2. RowsStay(y)
    BY LockedByAnother
  <2>3. \A l \in Locks : (locks'[l] = y) <=> (locks[l] = y)
    BY TxnConstants
  <2> QED
    BY <2>1, <2>2, <2>3, BystanderOK
<1> QED
  BY <1>1, <1>2 DEF Disciplined

\* x changes what it does, without a write or a lock.
LEMMA MovingOK ==
  ASSUME TypeOK, Disciplined, NEW x \in Txns, ConnOK(x)',
         locks' = locks, rows' = rows, over' = over,
         \A y \in Txns \ {x} : txn'[y] = txn[y]
  PROVE  Disciplined'
<1>1. ASSUME NEW y \in Txns \ {x}
      PROVE  ConnOK(y)'
  <2>1. ConnOK(y)
    BY DEF Disciplined
  <2>2. RowsStay(y) /\ StillExist /\ Alike(y)
    BY DEF RowsStay, StillExist, Exists, Alike
  <2> QED
    BY <2>1, <2>2, BystanderOK
<1> QED
  BY <1>1 DEF Disciplined

\* What Start does to the connections.
LEMMA StartEffect ==
  ASSUME TypeOK, NEW x \in Txns, NEW kind \in Calls \cup Sweeps,
         NEW t \in Tasks \cup {None}, NEW w \in Workers \cup {None},
         NEW want \in Seq(Locks), Start(x, kind, t, w, want)
  PROVE  /\ txn[x] = Idle
         /\ txn' \in [Txns -> Conn]
         /\ \A y \in Txns \ {x} : txn'[y] = txn[y]
         /\ txn'[x].kind = kind /\ txn'[x].task = t /\ txn'[x].worker = w
         /\ txn'[x].want = want /\ txn'[x].seen = None /\ txn'[x].took = {}
         /\ txn'[x].overtaken = FALSE
         /\ locks' = locks /\ rows' = rows /\ over' = over /\ asked' = asked
<1>1. txn[x] = Idle /\ UNCHANGED <<db, locks>>
  BY DEF Start
<1> DEFINE new == [Idle EXCEPT !.kind = kind, !.task = t, !.worker = w, !.want = want]
<1>2. txn' = [txn EXCEPT ![x] = new]
  BY DEF Start
<1>3. /\ new \in Conn
      /\ new.kind = kind /\ new.task = t /\ new.worker = w /\ new.want = want
      /\ new.seen = None /\ new.took = {} /\ new.overtaken = FALSE
  BY DEF Idle, Conn
<1>4. txn \in [Txns -> Conn]
  BY TxnType
<1> HIDE DEF new
<1>5. txn'[x] = new /\ txn' \in [Txns -> Conn] /\ \A y \in Txns \ {x} : txn'[y] = txn[y]
  BY <1>2, <1>3, <1>4
<1> QED
  BY <1>1, <1>3, <1>5 DEF db

\* A call starts, holding nothing.
LEMMA CallStarts ==
  ASSUME TypeOK, Disciplined, NEW x \in Txns, NEW kind \in Calls,
         NEW t \in Tasks, NEW w \in Workers \cup {None}, Exists(t),
         kind \in {"claim", "submit_receipt"} => w \in Workers,
         Start(x, kind, t, w, LockPlan(kind, t))
  PROVE  Disciplined' /\ txn' \in [Txns -> Conn]
<1> DEFINE want == LockPlan(kind, t)
<1>1. want \in Seq(Locks) /\ Start(x, kind, t, w, want)
  BY LockKinds DEF LockPlan
<1> HIDE DEF want
<1>2. /\ txn[x] = Idle /\ txn' \in [Txns -> Conn]
      /\ \A y \in Txns \ {x} : txn'[y] = txn[y]
      /\ txn'[x].kind = kind /\ txn'[x].task = t /\ txn'[x].worker = w
      /\ txn'[x].want = want /\ txn'[x].seen = None /\ txn'[x].took = {}
      /\ locks' = locks /\ rows' = rows /\ over' = over
  BY ZenonT(60), <1>1, StartEffect
<1>3. HoldsNothing(x)
  BY <1>2, IdleType DEF Disciplined, ConnOK, RestOK
<1>4. HoldsNothing(x)' /\ HoldsNoCircuit(x)'
  BY <1>2, <1>3, LockKinds DEF HoldsNothing, HoldsNoCircuit
<1>5. Stage(x)'
  BY <1>2, <1>3, <1>4, LockKinds DEF Stage, want, LockPlan, HoldsNothing
<1>6. \A l \in Locks : locks'[l] # x
  BY <1>2, <1>3 DEF HoldsNothing
<1>7. (txn[x].task \in Tasks /\ Exists(txn[x].task))'
  BY <1>2 DEF Exists
<1>d. Decides(x)'
  BY <1>2 DEF Decides, want, LockPlan
<1>8. CallOK(x)'
  BY <1>2, <1>5, <1>6, <1>7, <1>d, LockKinds DEF CallOK
<1>9. ConnOK(x)'
  BY <1>2, <1>8, Kinds DEF ConnOK
<1> QED
  BY <1>2, <1>9, MovingOK

\* A sweep starts with a list of different tasks.
LEMMA SweepStarts ==
  ASSUME TypeOK, Disciplined, NEW x \in Txns, NEW kind \in Sweeps,
         BeginSweep(x, kind)
  PROVE  Disciplined' /\ txn' \in [Txns -> Conn]
<1>1. PICK due \in SUBSET Tasks :
        \E order \in [1..Cardinality(due) -> due] :
          /\ \A i, j \in DOMAIN order : order[i] = order[j] => i = j
          /\ Start(x, kind, None, None, [i \in DOMAIN order |-> Task(order[i])])
  BY DEF BeginSweep
<1>2. Cardinality(due) \in Nat
  BY TxnConstants, FS_Subset, FS_CardinalityType
<1>3. PICK order \in [1..Cardinality(due) -> due] :
          /\ \A i, j \in DOMAIN order : order[i] = order[j] => i = j
          /\ Start(x, kind, None, None, [i \in DOMAIN order |-> Task(order[i])])
  BY <1>1
<1> DEFINE want == [i \in DOMAIN order |-> Task(order[i])]
<1>4. DOMAIN order = 1..Cardinality(due) /\ \A i \in DOMAIN order : order[i] \in Tasks
  OBVIOUS
<1>5. want \in [1..Cardinality(due) -> Locks]
  BY <1>4, LockKinds
<1>6. want \in Seq(Locks)
  BY <1>2, <1>5
<1>7. /\ txn[x] = Idle /\ txn' \in [Txns -> Conn]
      /\ \A y \in Txns \ {x} : txn'[y] = txn[y]
      /\ txn'[x].kind = kind /\ txn'[x].want = want
      /\ txn'[x].seen = None /\ txn'[x].took = {}
      /\ locks' = locks /\ rows' = rows /\ over' = over
  BY ZenonT(60), <1>3, <1>6, StartEffect
<1>8. HoldsNothing(x)
  BY <1>7, IdleType DEF Disciplined, ConnOK, RestOK
<1>9. \A l \in Locks : locks'[l] # x
  BY <1>7, <1>8 DEF HoldsNothing
<1>10. \A i \in DOMAIN want : \E u \in Tasks : want[i] = Task(u) /\ locks'[Task(u)] # x
  BY <1>4, <1>9, LockKinds
<1>11. \A i, j \in DOMAIN want : want[i] = want[j] => i = j
  BY <1>3, <1>4, LockNames
<1> HIDE DEF want
<1>12. SweepOK(x)'
  BY <1>7, <1>9, <1>10, <1>11 DEF SweepOK
<1>13. ConnOK(x)'
  BY <1>7, <1>12, Kinds DEF ConnOK
<1> QED
  BY <1>7, <1>13, MovingOK

\* failure_count is a number.
LEMMA CountType ==
  ASSUME TypeOK, NEW k \in Routes
  PROVE  FailureCount(k) \in Nat
BY DEF TypeOK, CircuitRows, FailureCount

\* What taking a lock does.
LEMMA AcquireEffect ==
  ASSUME TypeOK, NEW x \in Txns, Acquire(x)
  PROVE  LET l == Head(txn[x].want)
         IN  /\ txn[x].want # <<>> /\ l \in Locks /\ locks[l] = None
             /\ rows' = rows /\ over' = over /\ asked' = asked
             /\ \A m \in Locks : locks'[m] = IF m = l THEN x ELSE locks[m]
             /\ locks' \in [Locks -> Txns \cup {None}]
             /\ \A y \in Txns \ {x} : txn'[y] = txn[y]
             /\ LET seen == IF txn[x].kind \in Calls /\ l[1] = "task"
                            THEN rows[l[2]] ELSE txn[x].seen
                    took == IF txn[x].kind \in Sweeps /\ Rechecked(txn[x].kind, l[2])
                            THEN txn[x].took \cup {l[2]} ELSE txn[x].took
                    count == IF l[1] = "circuit" THEN FailureCount(l[2]) ELSE txn[x].count
                IN  /\ txn'[x] = [txn[x] EXCEPT !.want = Tail(txn[x].want), !.seen = seen,
                                                !.count = count, !.took = took]
                    /\ count \in Nat
<1>1. txn[x].want # <<>> /\ txn[x].want \in Seq(Locks)
  BY TxnType DEF Acquire, Conn
<1> DEFINE l == Head(txn[x].want)
           seen == IF txn[x].kind \in Calls /\ l[1] = "task"
                   THEN rows[l[2]] ELSE txn[x].seen
           took == IF txn[x].kind \in Sweeps /\ Rechecked(txn[x].kind, l[2])
                   THEN txn[x].took \cup {l[2]} ELSE txn[x].took
           count == IF l[1] = "circuit" THEN FailureCount(l[2]) ELSE txn[x].count
           new == [txn[x] EXCEPT !.want = Tail(txn[x].want), !.seen = seen,
                                 !.count = count, !.took = took]
<1>2. l \in Locks
  BY <1>1
<1>3. txn[x] \in Conn
  BY TxnType
<1>4. count \in Nat
  <2>1. CASE l[1] = "circuit"
    <3>1. \E k \in Routes : l = Circuit(k)
      BY <1>2, <2>1, LockKinds, LockNames
    <3>2. l[2] \in Routes
      BY <3>1 DEF Circuit
    <3> QED
      BY <2>1, <3>2, CountType
  <2>2. CASE l[1] # "circuit"
    BY <1>3, <2>2 DEF Conn
  <2> QED
    BY <2>1, <2>2
<1>5. txn' = [txn EXCEPT ![x] = new]
  BY <1>3 DEF Acquire, Conn
<1>6. txn'[x] = new /\ \A y \in Txns \ {x} : txn'[y] = txn[y]
  <2> HIDE DEF new
  <2> QED
    BY <1>5, TxnType
<1>7. UNCHANGED <<db, failed>> /\ locks[l] = None /\ locks' = [locks EXCEPT ![l] = x]
  BY DEF Acquire, Grant
<1> QED
  BY <1>1, <1>2, <1>4, <1>6, <1>7, TxnType DEF db

\* A call takes its next lock.
LEMMA CallAcquires ==
  ASSUME TypeOK, Disciplined, NEW x \in Txns, txn[x].kind \in Calls, Acquire(x)
  PROVE  ConnOK(x)' /\ txn'[x] \in Conn
<1> DEFINE t == txn[x].task
           l == Head(txn[x].want)
<1>1. CallOK(x)
  BY DEF Disciplined, ConnOK
<1>2. /\ txn[x].want # <<>> /\ l \in Locks /\ locks[l] = None
      /\ rows' = rows
      /\ \A m \in Locks : locks'[m] = IF m = l THEN x ELSE locks[m]
  BY AcquireEffect
<1>3. txn[x] \in Conn
  BY TxnType
<1> DEFINE seen == IF l[1] = "task" THEN rows[l[2]] ELSE txn[x].seen
           rest == Tail(txn[x].want)
<1> DEFINE count == IF l[1] = "circuit" THEN FailureCount(l[2]) ELSE txn[x].count
<1>a. /\ txn'[x] = [txn[x] EXCEPT !.want = rest, !.seen = seen, !.count = count,
                                  !.took = {}]
      /\ count \in Nat
  BY ZenonT(60), <1>1, AcquireEffect, Kinds DEF CallOK
<1> HIDE DEF l, seen, rest, count
<1>4. /\ txn'[x].kind = txn[x].kind /\ txn'[x].task = t
      /\ txn'[x].worker = txn[x].worker /\ txn'[x].pending = txn[x].pending
      /\ txn'[x].want = rest /\ txn'[x].took = {} /\ txn'[x].seen = seen
      /\ rest \in Seq(Locks) /\ seen \in Rows \cup {None}
           => txn'[x] \in Conn
  BY <1>3, <1>a DEF Conn
<1>5. t \in Tasks /\ (txn[x].task \in Tasks /\ Exists(txn[x].task))'
  BY <1>1, <1>2, <1>4 DEF CallOK, Exists
<1>6. txn[x].kind \in {"claim", "submit_receipt"} => txn[x].worker \in Workers
  BY <1>1 DEF CallOK
<1>7. x # None
  BY TxnConstants
<1>8. AtCircuit(x) => AtCircuit(x)'
  BY <1>4 DEF AtCircuit
<1>d. Decides(x)'
  <2> SUFFICES ASSUME txn[x].kind = "decide_approval",
                      txn'[x].want # <<Approval(t), Task(t)>>
               PROVE  locks'[Approval(t)] = x
    BY <1>4 DEF Decides
  <2>1. CASE txn[x].want = <<Approval(t), Task(t)>>
    BY <1>2, <1>5, <2>1, Lists, LockKinds DEF l
  <2>2. CASE txn[x].want # <<Approval(t), Task(t)>>
    <3>1. locks[Approval(t)] = x /\ Approval(t) \in Locks
      BY <1>1, <1>5, <2>2, LockKinds DEF CallOK, Decides
    <3> QED
      BY <1>2, <3>1
  <2> QED
    BY <2>1, <2>2
<1>9. CASE txn[x].want = <<Circuit(Route[t])>>
  <2>1. HasRead(x) /\ AtCircuit(x) /\ HoldsNoCircuit(x)
    BY <1>1, <1>9, LockNames, Lists DEF CallOK, Stage
  <2>2. l = Circuit(Route[t]) /\ txn'[x].want = <<>> /\ txn'[x].seen = txn[x].seen
    BY <1>4, <1>9, LockNames, Lists DEF l, seen, rest
  <2>3. \A u \in Tasks : locks'[Task(u)] = locks[Task(u)]
    BY <1>2, <2>2, LockKinds, LockNames
  <2>4. HasRead(x)'
    BY <1>2, <1>4, <1>5, <2>1, <2>2, <2>3 DEF HasRead
  <2>5. Stage(x)'
    BY <2>2, <2>4 DEF Stage
  <2>6. \A k \in Routes : locks'[Circuit(k)] = x => k = Route[t]
    BY <1>2, <1>5, <2>1, <2>2, LockKinds, LockNames, TxnConstants DEF HoldsNoCircuit
  <2>7. \A u \in Tasks : locks'[Task(u)] = x => u = t
    BY <1>1, <2>3 DEF CallOK
  <2>8. CallOK(x)'
    BY <1>4, <1>5, <1>d, <1>6, <1>8, <2>1, <2>2, <2>5, <2>6, <2>7 DEF CallOK
  <2>9. txn'[x] \in Conn
    BY <1>3, <1>4, <2>2 DEF Conn
  <2> QED
    BY <1>4, <2>8, <2>9, Kinds DEF ConnOK
<1>10. CASE txn[x].want = <<Task(t)>>
  <2>1. HoldsNoCircuit(x) /\ locks[Task(t)] # x
    BY <1>1, <1>10, LockNames, Lists, LockKinds DEF CallOK, Stage, HoldsNothing, HoldsNoCircuit
  <2>2. l = Task(t) /\ txn'[x].want = <<>> /\ txn'[x].seen = rows[t]
    BY <1>4, <1>10, LockNames, Lists DEF l, seen, rest
  <2>3. HasRead(x)'
    BY <1>2, <1>4, <1>5, <2>2, LockKinds DEF HasRead
  <2>4. Stage(x)'
    BY <2>2, <2>3 DEF Stage
  <2>5. \A k \in Routes : locks'[Circuit(k)] # x
    BY <1>2, <2>1, <2>2, LockKinds, LockNames DEF HoldsNoCircuit
  <2>6. \A u \in Tasks : locks'[Task(u)] = x => u = t
    BY <1>1, <1>2, <2>2, LockKinds, LockNames DEF CallOK
  <2>7. CallOK(x)'
    BY <1>4, <1>5, <1>d, <1>6, <2>4, <2>5, <2>6 DEF CallOK
  <2>8. rows[t] \in Rows
    BY <1>5 DEF TypeOK
  <2>9. txn'[x] \in Conn
    BY <1>4, <2>2, <2>8
  <2> QED
    BY <1>4, <2>7, <2>9, Kinds DEF ConnOK
<1>11. CASE txn[x].want = <<Approval(t), Task(t)>>
  <2>1. HoldsNothing(x) /\ txn[x].seen = None
    BY <1>1, <1>11, LockNames, Lists DEF CallOK, Stage
  <2>2. l = Approval(t) /\ txn'[x].want = <<Task(t)>> /\ txn'[x].seen = None
    BY <1>4, <1>11, <2>1, LockNames, Lists DEF l, seen, rest
  <2>3. \A u \in Tasks : locks'[Task(u)] # x
    BY <1>2, <2>1, <2>2, LockKinds, LockNames DEF HoldsNothing
  <2>4. \A k \in Routes : locks'[Circuit(k)] # x
    BY <1>2, <2>1, <2>2, LockKinds, LockNames DEF HoldsNothing
  <2>5. HoldsNoCircuit(x)'
    BY <2>4 DEF HoldsNoCircuit
  <2>6. Stage(x)'
    BY <1>4, <1>5, <2>2, <2>3, <2>5 DEF Stage
  <2>7. CallOK(x)'
    BY <1>4, <1>5, <1>d, <1>6, <2>3, <2>4, <2>6 DEF CallOK
  <2>8. txn'[x] \in Conn
    BY <1>4, <1>5, <2>2, LockKinds
  <2> QED
    BY <1>4, <2>7, <2>8, Kinds DEF ConnOK
<1> QED
  BY <1>1, <1>2, <1>9, <1>10, <1>11 DEF CallOK, Stage

\* A sweep takes its next row and tests its condition again.
LEMMA SweepAcquires ==
  ASSUME TypeOK, Disciplined, NEW x \in Txns, txn[x].kind \in Sweeps, Acquire(x)
  PROVE  ConnOK(x)' /\ txn'[x] \in Conn
<1> DEFINE want == txn[x].want
           l == Head(want)
<1>1. SweepOK(x)
  BY DEF Disciplined, ConnOK
<1>2. /\ want # <<>> /\ l \in Locks /\ locks[l] = None
      /\ rows' = rows /\ over' = over
      /\ \A m \in Locks : locks'[m] = IF m = l THEN x ELSE locks[m]
  BY AcquireEffect
<1>3. txn[x] \in Conn /\ want \in Seq(Locks)
  BY TxnType DEF Conn
<1> DEFINE took == IF Rechecked(txn[x].kind, l[2])
                   THEN txn[x].took \cup {l[2]} ELSE txn[x].took
<1> DEFINE count == IF l[1] = "circuit" THEN FailureCount(l[2]) ELSE txn[x].count
<1>a. /\ txn'[x] = [txn[x] EXCEPT !.want = Tail(want), !.seen = None,
                                  !.count = count, !.took = took]
      /\ count \in Nat
  BY <1>1, AcquireEffect, Kinds DEF SweepOK
<1> HIDE DEF took, count
<1>4. /\ txn'[x].kind = txn[x].kind
      /\ txn'[x].want = Tail(want) /\ txn'[x].seen = None /\ txn'[x].took = took
      /\ Tail(want) \in Seq(Locks) /\ took \subseteq Tasks => txn'[x] \in Conn
  BY <1>3, <1>a DEF Conn
<1>5. /\ 1 \in DOMAIN want /\ l = want[1]
      /\ Tail(want) \in Seq(Locks)
      /\ \A i \in DOMAIN Tail(want) : i + 1 \in DOMAIN want /\ i + 1 # 1
                                      /\ Tail(want)[i] = want[i + 1]
      /\ \A i, j \in DOMAIN Tail(want) : i + 1 = j + 1 => i = j
  BY <1>2, <1>3
<1>6. PICK t \in Tasks : l = Task(t)
  BY <1>1, <1>5 DEF SweepOK
<1> USE DEF took
<1>7. l[2] = t
  BY <1>6, LockNames
<1>8. \A i \in DOMAIN Tail(want) : Tail(want)[i] # l
  BY <1>1, <1>5 DEF SweepOK
<1>9. \A i \in DOMAIN Tail(want) :
        \E u \in Tasks : Tail(want)[i] = Task(u) /\ locks'[Task(u)] # x
  BY <1>1, <1>2, <1>5, <1>8, LockKinds DEF SweepOK
<1>10. \A i, j \in DOMAIN Tail(want) : Tail(want)[i] = Tail(want)[j] => i = j
  BY <1>1, <1>5 DEF SweepOK
<1>11. \A m \in Locks : locks'[m] = x => \E u \in Tasks : m = Task(u)
  BY <1>1, <1>2, <1>6 DEF SweepOK
<1>12. ASSUME NEW u \in txn'[x].took
       PROVE  locks'[Task(u)] = x /\ Swept(txn[x].kind, u)' /\ u \in Tasks
  <2>1. CASE u \in txn[x].took
    <3>1. u \in Tasks
      BY <1>3, <2>1 DEF Conn
    <3>2. locks[Task(u)] = x /\ Swept(txn[x].kind, u)
      BY <1>1, <2>1 DEF SweepOK
    <3> QED
      BY <1>2, <1>4, <3>1, <3>2, LockKinds, TxnConstants DEF Swept
  <2>2. CASE u = t /\ Rechecked(txn[x].kind, t)
    BY <1>2, <1>4, <1>6, <2>2, LockKinds DEF Rechecked, Swept
  <2> QED
    BY <1>4, <1>7, <1>12, <2>1, <2>2
<1>13. SweepOK(x)'
  BY <1>4, <1>9, <1>10, <1>11, <1>12 DEF SweepOK
<1>14. txn'[x] \in Conn
  <2>1. txn'[x].took \in SUBSET Tasks
    BY <1>12
  <2> QED
    BY <1>4, <1>5, <2>1
<1> QED
  BY <1>4, <1>13, <1>14, Kinds DEF ConnOK

\* What a call knows when it has all its locks.
LEMMA AtReady ==
  ASSUME TypeOK, Disciplined, NEW x \in Txns, NEW kind \in Calls, Ready(x, kind)
  PROVE  /\ txn[x].task \in Tasks /\ Exists(txn[x].task)
         /\ locks[Task(txn[x].task)] = x
         /\ txn[x].seen = rows[txn[x].task] /\ txn[x].seen \in Rows
         /\ CallOK(x) /\ ~Refused(x)
<1>1. CallOK(x) /\ txn[x].want = <<>> /\ ~Refused(x)
  BY DEF Disciplined, ConnOK, Ready
<1>2. HasRead(x)
  BY <1>1, Lists DEF CallOK, Stage
<1> QED
  BY <1>1, <1>2 DEF HasRead, CallOK, TypeOK

\* A call asks for the circuit of its task as the last lock.
LEMMA CircuitWanted ==
  ASSUME TypeOK, Disciplined, NEW x \in Txns,
         \/ WantClosing(x)
         \/ \E r \in Reports : WantCircuit(x, r)
  PROVE  Disciplined' /\ txn' \in [Txns -> Conn] /\ UNCHANGED <<db, locks, failed>>
<1> DEFINE t == txn[x].task
           want == <<Circuit(Route[t])>>
<1>1. txn[x] \in Conn
  BY TxnType
<1>2. PICK kind \in CircuitUsers : Ready(x, kind)
  BY DEF WantClosing, WantCircuit, CircuitUsers
<1>3. /\ txn[x].kind \in CircuitUsers /\ txn[x].kind \in Calls
      /\ t \in Tasks /\ Exists(t) /\ HasRead(x) /\ CallOK(x)
  BY <1>2, AtReady DEF Ready, CircuitUsers, Calls, HasRead
<1>4. want \in Seq(Locks)
  BY <1>3, LockKinds, TxnConstants
<1> HIDE DEF want
<1>5. /\ txn' \in [Txns -> Conn] /\ \A y \in Txns \ {x} : txn'[y] = txn[y]
      /\ txn'[x].kind = txn[x].kind /\ txn'[x].task = t
      /\ txn'[x].worker = txn[x].worker
      /\ txn'[x].want = want /\ txn'[x].seen = txn[x].seen
      /\ txn'[x].took = txn[x].took
      /\ txn[x].kind = "report_failure" => txn'[x].pending # None
      /\ HoldsNoCircuit(x)
      /\ UNCHANGED <<db, locks, failed>>
  <2>1. CASE WantClosing(x)
    <3> DEFINE new == [txn[x] EXCEPT !.want = want]
    <3>1. txn' = [txn EXCEPT ![x] = new]
      BY <2>1 DEF WantClosing, want
    <3>2. txn[x].kind = "submit_receipt" /\ locks[Circuit(Route[t])] # x
      BY <2>1 DEF WantClosing, Ready, Holds
    <3>3. HoldsNoCircuit(x)
      BY <1>3, <3>2 DEF CallOK, HoldsNoCircuit
    <3>4. new \in Conn /\ new.kind = txn[x].kind /\ new.task = t
          /\ new.worker = txn[x].worker /\ new.want = want
          /\ new.seen = txn[x].seen /\ new.took = txn[x].took
      BY <1>1, <1>4 DEF Conn
    <3> HIDE DEF new
    <3>5. txn'[x] = new /\ txn' \in [Txns -> Conn] /\ \A y \in Txns \ {x} : txn'[y] = txn[y]
      BY <3>1, <3>4, TxnType
    <3>6. UNCHANGED <<db, locks, failed>>
      BY <2>1 DEF WantClosing
    <3> QED
      BY <3>2, <3>3, <3>4, <3>5, <3>6
  <2>2. CASE \E r \in Reports : WantCircuit(x, r)
    <3>0. PICK r \in Reports : WantCircuit(x, r)
      BY <2>2
    <3> DEFINE new == [txn[x] EXCEPT !.pending = r, !.want = want]
    <3>1. txn' = [txn EXCEPT ![x] = new]
      BY <3>0, <1>1 DEF WantCircuit, want, Conn
    <3>2. txn[x].kind = "report_failure" /\ txn[x].pending = None
      BY <3>0 DEF WantCircuit, Ready
    <3>3. HoldsNoCircuit(x)
      BY <1>3, <3>2 DEF CallOK, HoldsNoCircuit, AtCircuit
    <3>4. new \in Conn /\ new.kind = txn[x].kind /\ new.task = t
          /\ new.worker = txn[x].worker /\ new.want = want
          /\ new.seen = txn[x].seen /\ new.took = txn[x].took /\ new.pending = r
      BY <1>1, <1>4 DEF Conn
    <3> HIDE DEF new
    <3>5. txn'[x] = new /\ txn' \in [Txns -> Conn] /\ \A y \in Txns \ {x} : txn'[y] = txn[y]
      BY <3>1, <3>4, TxnType
    <3> QED
      BY <3>0, <3>3, <3>4, <3>5, TxnConstants DEF WantCircuit
  <2> QED
    BY <2>1, <2>2
<1>6. locks' = locks /\ rows' = rows /\ over' = over
  BY <1>5 DEF db
<1>7. HasRead(x)' /\ HoldsNoCircuit(x)' /\ AtCircuit(x)'
  BY <1>3, <1>5, <1>6 DEF HasRead, HoldsNoCircuit, AtCircuit
<1>8. Stage(x)'
  BY <1>5, <1>7 DEF Stage, want
<1>9. (txn[x].task \in Tasks /\ Exists(txn[x].task))'
  BY <1>3, <1>5, <1>6 DEF Exists
<1>d. Decides(x)'
  BY <1>3, <1>5 DEF Decides, CircuitUsers
<1>10. CallOK(x)'
  BY <1>3, <1>5, <1>6, <1>7, <1>8, <1>9, <1>d DEF CallOK, HoldsNoCircuit
<1>11. ConnOK(x)'
  BY <1>3, <1>5, <1>10, Kinds DEF ConnOK
<1> QED
  BY <1>5, <1>6, <1>11, MovingOK

-----------------------------------------------------------------------------
(* The commits.                                                            *)

\* The part of the type invariant that is about the tables.
DbType ==
  /\ rows \in [Tasks -> Rows]
  /\ over \subseteq Tasks
  /\ circuits \in [Routes -> {None} \cup CircuitRows]
  /\ asked \in [Tasks -> {None, "requested"} \cup Decisions]
  /\ receipts \in [Tasks -> Seq([worker : Workers, outcome : Outcomes])]
  /\ deadLetters \in [Tasks -> Nat] /\ recoveryCards \in [Tasks -> Nat]
  /\ cleared \in [Tasks -> Nat]
  /\ failed \in [Routes -> Nat]

\* The parts of the type invariant,
LEMMA TypeParts ==
  TypeOK <=> /\ DbType /\ locks \in [Locks -> Txns \cup {None}]
             /\ txn \in [Txns -> Conn]
BY DEF TypeOK, DbType, Conn

\* and the same of the next state.
LEMMA TypePartsNext ==
  DbType' /\ locks' \in [Locks -> Txns \cup {None}] /\ txn' \in [Txns -> Conn]
    => TypeOK'
BY DEF TypeOK, DbType, Conn

\* A row with a new status.
LEMMA LeaveType ==
  ASSUME NEW row \in Rows, NEW target \in TaskStatus
  PROVE  /\ Leave(row, target) \in Rows
         /\ Leave(row, target).status = target /\ target # "absent"
         /\ Leave(row, target).attempts = row.attempts
         /\ Leave(row, target).owner = row.owner
         /\ Leave(row, target).leased = FALSE
BY DEF Leave, Rows, TaskStatus

\* Reports and receipts lead to statuses.
LEMMA TargetTypes ==
  ASSUME NEW t, NEW row, NEW r, NEW outcome \in Outcomes
  PROVE  FailureTarget(t, row, r) \in TaskStatus /\ ReceiptTarget(t, outcome) \in TaskStatus
BY DEF FailureTarget, ReceiptTarget, TaskStatus, Outcomes

\* A call writes the row it has locked, and ends.
LEMMA WritingOK ==
  ASSUME TypeOK, Disciplined, AskedExist, NEW x \in Txns, NEW kind \in Calls,
         Ready(x, kind), NEW row \in Rows, row.status # "absent",
         rows' = [rows EXCEPT ![txn[x].task] = row],
         over' \in {over, over \ {txn[x].task}},
         \A t \in Tasks \ {txn[x].task} : asked'[t] = asked[t],
         \A l \in Locks : locks'[l] = IF locks[l] = x THEN None ELSE locks[l],
         txn'[x] = Idle, \A y \in Txns \ {x} : Alike(y)
  PROVE  /\ Disciplined' /\ AskedExist' /\ StillExist
         /\ rows' \in [Tasks -> Rows] /\ over' \subseteq Tasks
<1> DEFINE t == txn[x].task
<1>1. t \in Tasks /\ Exists(t) /\ locks[Task(t)] = x
  BY AtReady
<1>2. rows \in [Tasks -> Rows] /\ over \subseteq Tasks
  BY DEF TypeOK
<1> HIDE DEF t
<1>3. /\ rows' \in [Tasks -> Rows] /\ over' \subseteq Tasks
      /\ rows'[t] = row /\ \A u \in Tasks \ {t} : rows'[u] = rows[u]
  BY <1>1, <1>2 DEF t
<1>4. \A u \in Tasks : locks[Task(u)] # x =>
        rows'[u] = rows[u] /\ (u \in over => u \in over')
  BY <1>1, <1>3 DEF t
<1>5. StillExist
  BY <1>3 DEF StillExist, Exists
<1>6. Disciplined'
  BY <1>4, <1>5, LeavingOK
<1>7. AskedExist'
  BY <1>3, <1>5 DEF AskedExist, StillExist, Exists, t
<1> QED
  BY <1>3, <1>5, <1>6, <1>7

\* claim and heartbeat.
LEMMA LeaseCommits ==
  ASSUME IInv, NEW x \in Txns, CommitClaim(x) \/ CommitHeartbeat(x)
  PROVE  IInv'
<1> USE DEF IInv
<1> DEFINE t == txn[x].task
<1>0. DbType
  BY TypeParts
<1>1. End(x)
  BY DEF CommitClaim, CommitHeartbeat
<1>2. /\ locks' \in [Locks -> Txns \cup {None}] /\ txn' \in [Txns -> Conn]
      /\ \A l \in Locks : locks'[l] = IF locks[l] = x THEN None ELSE locks[l]
      /\ txn'[x] = Idle /\ \A y \in Txns \ {x} : Alike(y)
  BY <1>1, EndEffect DEF Alike
<1>3. CASE CommitClaim(x)
  <2> DEFINE row == [status |-> "claimed", owner |-> txn[x].worker,
                     attempts |-> rows[t].attempts + 1, leased |-> TRUE]
  <2>1. Ready(x, "claim") /\ "claim" \in Calls
    BY <1>3 DEF CommitClaim, Calls
  <2>2. t \in Tasks /\ CallOK(x) /\ txn[x].kind = "claim"
    BY <2>1, AtReady DEF Ready
  <2>3. txn[x].worker \in Workers
    BY <2>2 DEF CallOK
  <2>4. rows[t].attempts \in Nat
    BY <1>0, <2>2 DEF DbType, Rows
  <2>5. row \in Rows /\ row.status # "absent"
    BY <2>3, <2>4 DEF Rows, TaskStatus
  <2>6. rows' = [rows EXCEPT ![t] = row] /\ over' = over \ {t}
    BY <1>0, <1>3, <2>2 DEF CommitClaim, DbType
  <2> HIDE DEF row
  <2>7. UNCHANGED <<circuits, asked, receipts, deadLetters, recoveryCards, cleared, failed>>
    BY <1>3 DEF CommitClaim
  <2>8. /\ Disciplined' /\ AskedExist'
        /\ rows' \in [Tasks -> Rows] /\ over' \subseteq Tasks
    BY <1>2, <2>1, <2>5, <2>6, <2>7, WritingOK
  <2> QED
    BY <1>0, <1>2, <2>7, <2>8, TypePartsNext DEF DbType
<1>4. CASE CommitHeartbeat(x)
  <2>1. Ready(x, "heartbeat") /\ "heartbeat" \in Calls
    BY <1>4 DEF CommitHeartbeat, Calls
  <2>2. t \in Tasks /\ Exists(t)
    BY <2>1, AtReady
  <2>3. rows[t] \in Rows /\ rows[t].status # "absent"
    BY <1>0, <2>2 DEF DbType, Exists
  <2>4. rows' = [rows EXCEPT ![t] = rows[t]]
    BY <1>0, <1>4 DEF CommitHeartbeat, DbType
  <2>5. UNCHANGED <<circuits, asked, receipts, deadLetters, recoveryCards, cleared, failed>>
        /\ over' = over \ {t}
    BY <1>4 DEF CommitHeartbeat
  <2>6. /\ Disciplined' /\ AskedExist'
        /\ rows' \in [Tasks -> Rows] /\ over' \subseteq Tasks
    BY <1>2, <2>1, <2>3, <2>4, <2>5, WritingOK
  <2> QED
    BY <1>0, <1>2, <2>5, <2>6, TypePartsNext DEF DbType
<1> QED
  BY <1>3, <1>4

\* What a failure report does to its task.
LEMMA FailTaskOK ==
  ASSUME IInv, NEW x \in Txns, Ready(x, "report_failure"), NEW r,
         FailTask(txn[x].task, txn[x].seen, r),
         \A l \in Locks : locks'[l] = IF locks[l] = x THEN None ELSE locks[l],
         txn'[x] = Idle, \A y \in Txns \ {x} : Alike(y), asked' = asked
  PROVE  /\ Disciplined' /\ AskedExist'
         /\ rows' \in [Tasks -> Rows] /\ over' \subseteq Tasks
         /\ /\ deadLetters' \in [Tasks -> Nat] /\ recoveryCards' \in [Tasks -> Nat]
            /\ cleared' \in [Tasks -> Nat]
<1> USE DEF IInv
<1> DEFINE t == txn[x].task
           target == FailureTarget(t, txn[x].seen, r)
           row == Leave(txn[x].seen, target)
<1>0. DbType
  BY TypeParts
<1>1. t \in Tasks /\ txn[x].seen \in Rows /\ "report_failure" \in Calls
  BY AtReady DEF Calls
<1>2. target \in TaskStatus
  BY TargetTypes DEF Outcomes
<1>3. row \in Rows /\ row.status # "absent"
  BY ZenonT(60), <1>1, <1>2, LeaveType
<1>4. rows' = [rows EXCEPT ![t] = row] /\ over' = over \ {t}
  BY DEF FailTask
<1>5. /\ deadLetters' \in [Tasks -> Nat] /\ recoveryCards' \in [Tasks -> Nat]
      /\ cleared' \in [Tasks -> Nat]
  <2>1. /\ deadLetters' = [deadLetters EXCEPT ![t] = IF target = "failed" THEN @ + 1 ELSE @]
        /\ recoveryCards' = [recoveryCards EXCEPT
                               ![t] = IF target = "recovery_required" THEN @ + 1 ELSE @]
        /\ cleared' = [cleared EXCEPT ![t] = IF r.side = "unknown" THEN @ ELSE @ + 1]
    BY DEF FailTask
  <2> HIDE DEF target
  <2> DEFINE open == r.side = "unknown"
  <2>2. /\ deadLetters \in [Tasks -> Nat] /\ recoveryCards \in [Tasks -> Nat]
        /\ cleared \in [Tasks -> Nat]
    BY <1>0 DEF DbType
  <2>3. cleared' = [cleared EXCEPT ![t] = IF open THEN @ ELSE @ + 1]
    BY <2>1
  <2> HIDE DEF open
  <2>4. cleared' \in [Tasks -> Nat]
    BY <1>1, <2>2, <2>3
  <2> QED
    BY <1>1, <2>1, <2>2, <2>4
<1> HIDE DEF row
<1>6. /\ Disciplined' /\ AskedExist'
      /\ rows' \in [Tasks -> Rows] /\ over' \subseteq Tasks
  BY <1>1, <1>3, <1>4, WritingOK
<1> QED
  BY <1>5, <1>6

\* One more failure on a circuit.
LEMMA CountedType ==
  ASSUME NEW count \in Nat
  PROVE  /\ Counted(count) \in CircuitRows
         /\ Counted(count).failures = count + 1
         /\ Counted(count).cooling <=> Counted(count).state = "open"
<1> DEFINE n == count + 1
<1>1. n \in Nat
  OBVIOUS
<1>2. \/ Counted(count) = [state |-> "closed", failures |-> n, cooling |-> FALSE]
      \/ Counted(count) = [state |-> "open", failures |-> n, cooling |-> TRUE]
  BY DEF Counted
<1> HIDE DEF n
<1>3. CASE Counted(count) = [state |-> "closed", failures |-> n, cooling |-> FALSE]
  BY <1>1, <1>3 DEF CircuitRows, n
<1>4. CASE Counted(count) = [state |-> "open", failures |-> n, cooling |-> TRUE]
  BY <1>1, <1>4 DEF CircuitRows, n
<1> QED
  BY <1>2, <1>3, <1>4

\* What the end of a report that counts for the circuit leaves behind.
LEMMA CircuitFailureEffect ==
  ASSUME TypeOK, NEW x \in Txns, CommitCircuitFailure(x)
  PROVE  /\ locks' \in [Locks -> Txns \cup {None}] /\ txn' \in [Txns -> Conn]
         /\ \A l \in Locks : locks'[l] = IF locks[l] = x THEN None ELSE locks[l]
         /\ txn'[x] = Idle /\ \A y \in Txns \ {x} : Alike(y)
<1> DEFINE k == Route[txn[x].task]
<1>1. /\ locks' = [l \in Locks |-> IF locks[l] = x THEN None ELSE locks[l]]
      /\ IF Counted(txn[x].count).state = "open"
         THEN Overtake(k, x) ELSE txn' = [txn EXCEPT ![x] = Idle]
  BY DEF CommitCircuitFailure
<1>2. /\ locks' \in [Locks -> Txns \cup {None}]
      /\ \A l \in Locks : locks'[l] = IF locks[l] = x THEN None ELSE locks[l]
  BY <1>1, TxnType
<1>3. CASE Overtake(k, x)
  <2>1. \A y \in Txns : [txn[y] EXCEPT !.overtaken = TRUE] \in Conn
    BY ZenonT(60), TxnType DEF Conn
  <2>2. \A y \in Txns : txn'[y] \in {Idle, txn[y], [txn[y] EXCEPT !.overtaken = TRUE]}
    BY <1>3 DEF Overtake
  <2>3. txn' = [y \in Txns |-> txn'[y]] /\ txn'[x] = Idle
    BY <1>3 DEF Overtake
  <2>4. txn' \in [Txns -> Conn]
    BY <2>1, <2>2, <2>3, TxnType, IdleType
  <2>5. ASSUME NEW y \in Txns \ {x}
        PROVE  Alike(y)
    <3>1. txn'[y] = txn[y] \/ txn'[y] = [txn[y] EXCEPT !.overtaken = TRUE]
      BY <1>3 DEF Overtake
    <3>2. txn[y] \in Conn
      BY TxnType
    <3> QED
      BY <3>1, <3>2 DEF Alike, Conn
  <2> QED
    BY <1>2, <2>3, <2>4, <2>5
<1>4. CASE txn' = [txn EXCEPT ![x] = Idle]
  BY <1>2, <1>4, TxnType, IdleType DEF Alike
<1> QED
  BY <1>1, <1>3, <1>4

\* report_failure.
LEMMA FailureCommits ==
  ASSUME IInv, NEW x \in Txns,
         \/ \E r \in Reports : CommitFailure(x, r)
         \/ CommitCircuitFailure(x)
  PROVE  IInv'
<1> USE DEF IInv
<1>0. DbType
  BY TypeParts
<1>1. ASSUME NEW r \in Reports, CommitFailure(x, r)
      PROVE  IInv'
  <2>1. /\ Ready(x, "report_failure") /\ FailTask(txn[x].task, txn[x].seen, r) /\ End(x)
        /\ UNCHANGED <<circuits, asked, receipts, failed>>
    BY <1>1 DEF CommitFailure
  <2>2. /\ locks' \in [Locks -> Txns \cup {None}] /\ txn' \in [Txns -> Conn]
        /\ \A l \in Locks : locks'[l] = IF locks[l] = x THEN None ELSE locks[l]
        /\ txn'[x] = Idle /\ \A y \in Txns \ {x} : Alike(y)
    BY <2>1, EndEffect DEF Alike
  <2>3. /\ Disciplined' /\ AskedExist'
        /\ rows' \in [Tasks -> Rows] /\ over' \subseteq Tasks
        /\ /\ deadLetters' \in [Tasks -> Nat] /\ recoveryCards' \in [Tasks -> Nat]
           /\ cleared' \in [Tasks -> Nat]
    BY <2>1, <2>2, FailTaskOK
  <2> QED
    BY <1>0, <2>1, <2>2, <2>3, TypePartsNext DEF DbType
<1>2. CASE CommitCircuitFailure(x)
  <2> DEFINE k == Route[txn[x].task]
  <2>1. /\ Ready(x, "report_failure")
        /\ FailTask(txn[x].task, txn[x].seen, txn[x].pending)
        /\ circuits' = [circuits EXCEPT ![k] = Counted(txn[x].count)]
        /\ failed' = [failed EXCEPT ![k] = failed[k] + 1]
        /\ UNCHANGED <<asked, receipts>>
    BY <1>2 DEF CommitCircuitFailure
  <2>2. /\ locks' \in [Locks -> Txns \cup {None}] /\ txn' \in [Txns -> Conn]
        /\ \A l \in Locks : locks'[l] = IF locks[l] = x THEN None ELSE locks[l]
        /\ txn'[x] = Idle /\ \A y \in Txns \ {x} : Alike(y)
    BY <1>2, CircuitFailureEffect
  <2>3. /\ Disciplined' /\ AskedExist'
        /\ rows' \in [Tasks -> Rows] /\ over' \subseteq Tasks
        /\ /\ deadLetters' \in [Tasks -> Nat] /\ recoveryCards' \in [Tasks -> Nat]
           /\ cleared' \in [Tasks -> Nat]
    BY <2>1, <2>2, FailTaskOK
  <2>4. k \in Routes
    BY <2>1, AtReady, TxnConstants DEF Calls
  <2>5. circuits \in [Routes -> {None} \cup CircuitRows] /\ failed \in [Routes -> Nat]
    BY <1>0 DEF DbType
  <2>6. circuits' \in [Routes -> {None} \cup CircuitRows] /\ failed' \in [Routes -> Nat]
    <3>1. Counted(txn[x].count) \in CircuitRows
      BY TxnType, CountedType DEF Conn
    <3> QED
      BY <2>1, <2>4, <2>5, <3>1
  <2> QED
    BY <1>0, <2>1, <2>2, <2>3, <2>6, TypePartsNext DEF DbType
<1> QED
  BY <1>1, <1>2

\* submit_receipt, request_approval and decide_approval.
LEMMA JudgedCommits ==
  ASSUME IInv, NEW x \in Txns,
         \/ \E outcome \in Outcomes : CommitReceipt(x, outcome)
         \/ CommitRequest(x)
         \/ \E decision \in Decisions : CommitDecision(x, decision)
  PROVE  IInv'
<1> USE DEF IInv
<1> DEFINE t == txn[x].task
<1>0. DbType
  BY TypeParts
<1>1. End(x)
  BY DEF CommitReceipt, CommitRequest, CommitDecision
<1>2. /\ locks' \in [Locks -> Txns \cup {None}] /\ txn' \in [Txns -> Conn]
      /\ \A l \in Locks : locks'[l] = IF locks[l] = x THEN None ELSE locks[l]
      /\ txn'[x] = Idle /\ \A y \in Txns \ {x} : Alike(y)
  BY <1>1, EndEffect DEF Alike
<1>3. ASSUME NEW outcome \in Outcomes, CommitReceipt(x, outcome)
      PROVE  IInv'
  <2> DEFINE row == Leave(txn[x].seen, ReceiptTarget(t, outcome))
             receipt == [worker |-> txn[x].worker, outcome |-> outcome]
             closed == [state |-> "closed", failures |-> 0, cooling |-> FALSE]
             k == Route[t]
  <2>1. Ready(x, "submit_receipt") /\ "submit_receipt" \in Calls
    BY <1>3 DEF CommitReceipt, Calls
  <2>2. t \in Tasks /\ txn[x].seen \in Rows /\ txn[x].worker \in Workers
    BY <2>1, AtReady DEF Ready, CallOK
  <2>3. row \in Rows /\ row.status # "absent"
    BY <2>2, TargetTypes, LeaveType
  <2>4. /\ rows' = [rows EXCEPT ![t] = row] /\ over' = over \ {t}
        /\ receipts' = [receipts EXCEPT ![t] = Append(receipts[t], receipt)]
        /\ circuits' = [circuits EXCEPT ![k] = closed] \/ circuits' = circuits
        /\ failed' = [failed EXCEPT ![k] = 0] \/ failed' = failed
        /\ UNCHANGED <<asked, deadLetters, recoveryCards, cleared>>
    BY <1>0, <1>3, <2>2 DEF CommitReceipt, DbType
  <2> HIDE DEF row
  <2>5. /\ Disciplined' /\ AskedExist'
        /\ rows' \in [Tasks -> Rows] /\ over' \subseteq Tasks
    BY <1>2, <2>1, <2>3, <2>4, WritingOK
  <2>6. receipt \in [worker : Workers, outcome : Outcomes]
    BY <2>2
  <2>7. closed \in CircuitRows
    BY DEF CircuitRows
  <2> HIDE DEF receipt, closed
  <2>8. receipts' \in [Tasks -> Seq([worker : Workers, outcome : Outcomes])]
    <3>1. receipts[t] \in Seq([worker : Workers, outcome : Outcomes])
      BY <1>0, <2>2 DEF DbType
    <3>2. Append(receipts[t], receipt) \in Seq([worker : Workers, outcome : Outcomes])
      BY <2>6, <3>1
    <3> QED
      BY <1>0, <2>4, <3>2 DEF DbType
  <2>9. circuits' \in [Routes -> {None} \cup CircuitRows] /\ failed' \in [Routes -> Nat]
    <3>1. circuits \in [Routes -> {None} \cup CircuitRows] /\ failed \in [Routes -> Nat]
      BY <1>0 DEF DbType
    <3> QED
      BY <2>4, <2>7, <3>1
  <2> QED
    BY <1>0, <1>2, <2>4, <2>5, <2>8, <2>9, TypePartsNext DEF DbType
<1>4. CASE CommitRequest(x)
  <2> DEFINE row == Leave(txn[x].seen, "awaiting_approval")
  <2>1. Ready(x, "request_approval") /\ "request_approval" \in Calls
    BY <1>4 DEF CommitRequest, Calls
  <2>2. t \in Tasks /\ txn[x].seen \in Rows
    BY <2>1, AtReady
  <2>3. row \in Rows /\ row.status # "absent"
    BY <2>2, LeaveType DEF TaskStatus
  <2>4. /\ rows' = [rows EXCEPT ![t] = row]
        /\ asked' = [asked EXCEPT ![t] = "requested"]
        /\ UNCHANGED <<over, circuits, receipts, deadLetters, recoveryCards, cleared, failed>>
    BY <1>4 DEF CommitRequest
  <2> HIDE DEF row
  <2>5. asked' \in [Tasks -> {None, "requested"} \cup Decisions]
        /\ \A u \in Tasks \ {t} : asked'[u] = asked[u]
    BY <1>0, <2>2, <2>4 DEF DbType
  <2>6. /\ Disciplined' /\ AskedExist'
        /\ rows' \in [Tasks -> Rows] /\ over' \subseteq Tasks
    BY ZenonT(60), <1>2, <2>1, <2>3, <2>4, <2>5, WritingOK
  <2> QED
    BY <1>0, <1>2, <2>4, <2>5, <2>6, TypePartsNext DEF DbType
<1>5. ASSUME NEW decision \in Decisions, CommitDecision(x, decision)
      PROVE  IInv'
  <2> DEFINE row == Leave(txn[x].seen, IF decision = "approved" THEN "done" ELSE "blocked")
  <2>1. Ready(x, "decide_approval") /\ "decide_approval" \in Calls
    BY <1>5 DEF CommitDecision, Calls
  <2>2. t \in Tasks /\ txn[x].seen \in Rows
    BY <2>1, AtReady
  <2>3. row \in Rows /\ row.status # "absent"
    BY <2>2, LeaveType DEF TaskStatus
  <2>4. /\ rows' = [rows EXCEPT ![t] = row]
        /\ asked' = [asked EXCEPT ![t] = decision]
        /\ UNCHANGED <<over, circuits, receipts, deadLetters, recoveryCards, cleared, failed>>
    BY <1>5 DEF CommitDecision
  <2> HIDE DEF row
  <2>5. asked' \in [Tasks -> {None, "requested"} \cup Decisions]
        /\ \A u \in Tasks \ {t} : asked'[u] = asked[u]
    BY <1>0, <2>2, <2>4 DEF DbType
  <2>6. /\ Disciplined' /\ AskedExist'
        /\ rows' \in [Tasks -> Rows] /\ over' \subseteq Tasks
    BY <1>2, <2>1, <2>3, <2>4, <2>5, WritingOK
  <2> QED
    BY <1>0, <1>2, <2>4, <2>5, <2>6, TypePartsNext DEF DbType
<1> QED
  BY <1>3, <1>4, <1>5

\* What a sweep takes it has locked.
LEMMA TookLocked ==
  ASSUME TypeOK, Disciplined, NEW x \in Txns, txn[x].kind \in Sweeps
  PROVE  /\ txn[x].took \subseteq Tasks
         /\ \A u \in txn[x].took : /\ locks[Task(u)] = x /\ Swept(txn[x].kind, u)
                                   /\ Exists(u)
<1>1. SweepOK(x) /\ txn[x] \in Conn
  BY TxnType DEF Disciplined, ConnOK
<1> QED
  BY <1>1 DEF SweepOK, Conn, Swept, Exists, ExecutionStates

\* The two sweeps.
LEMMA SweepCommits ==
  ASSUME IInv, NEW x \in Txns, CommitExpiry(x) \/ CommitRelease(x)
  PROVE  IInv'
<1> USE DEF IInv
<1> DEFINE took == txn[x].took
<1>0. DbType
  BY TypeParts
<1>1. End(x)
  BY DEF CommitExpiry, CommitRelease
<1>2. /\ locks' \in [Locks -> Txns \cup {None}] /\ txn' \in [Txns -> Conn]
      /\ \A l \in Locks : locks'[l] = IF locks[l] = x THEN None ELSE locks[l]
      /\ txn'[x] = Idle /\ \A y \in Txns \ {x} : Alike(y)
  BY <1>1, EndEffect DEF Alike
<1>3. txn[x].kind \in Sweeps
  BY DEF CommitExpiry, CommitRelease, Ready, Sweeps
<1>4. /\ took \subseteq Tasks
      /\ \A u \in took : locks[Task(u)] = x /\ Exists(u)
  BY <1>3, TookLocked
<1>5. /\ rows' \in [Tasks -> Rows]
      /\ \A u \in Tasks : /\ u \notin took => rows'[u] = rows[u]
                          /\ u \in took => rows'[u].status # "absent"
      /\ UNCHANGED <<over, circuits, asked, receipts, deadLetters, cleared, failed>>
      /\ recoveryCards' \in [Tasks -> Nat]
  <2>1. \A u \in Tasks : /\ [rows[u] EXCEPT !.status = "recovery_required"] \in Rows
                         /\ [rows[u] EXCEPT !.status = "ready", !.owner = None] \in Rows
    BY <1>0 DEF DbType, Rows, TaskStatus
  <2>2. CASE CommitExpiry(x)
    <3>1. /\ rows' = [u \in Tasks |->
                        IF u \in took THEN [rows[u] EXCEPT !.status = "recovery_required"]
                                      ELSE rows[u]]
          /\ recoveryCards' = [u \in Tasks |-> IF u \in took THEN recoveryCards[u] + 1
                                                             ELSE recoveryCards[u]]
          /\ UNCHANGED <<over, circuits, asked, receipts, deadLetters, cleared, failed>>
      BY <2>2 DEF CommitExpiry
    <3>2. \A u \in Tasks : [rows[u] EXCEPT !.status = "recovery_required"].status # "absent"
      BY <1>0 DEF DbType, Rows
    <3>3. \A u \in Tasks : rows[u] \in Rows /\ recoveryCards[u] \in Nat
      BY <1>0 DEF DbType
    <3>4. rows' \in [Tasks -> Rows]
      BY <2>1, <3>1, <3>3
    <3>5. recoveryCards' \in [Tasks -> Nat]
      BY <3>1, <3>3
    <3> QED
      BY <3>1, <3>2, <3>4, <3>5
  <2>3. CASE CommitRelease(x)
    <3>1. /\ rows' = [u \in Tasks |->
                        IF u \in took
                        THEN [rows[u] EXCEPT !.status = "ready", !.owner = None]
                        ELSE rows[u]]
          /\ UNCHANGED <<over, circuits, asked, receipts, deadLetters, recoveryCards,
                         cleared, failed>>
      BY <2>3 DEF CommitRelease
    <3>2. \A u \in Tasks :
            [rows[u] EXCEPT !.status = "ready", !.owner = None].status # "absent"
      BY <1>0 DEF DbType, Rows
    <3>3. \A u \in Tasks : rows[u] \in Rows
      BY <1>0 DEF DbType
    <3>4. rows' \in [Tasks -> Rows]
      BY <2>1, <3>1, <3>3
    <3> QED
      BY <1>0, <3>1, <3>2, <3>4 DEF DbType
  <2> QED
    BY <2>2, <2>3
<1>6. \A u \in Tasks : locks[Task(u)] # x =>
        rows'[u] = rows[u] /\ (u \in over => u \in over')
  BY <1>4, <1>5
<1>7. StillExist
  BY <1>5 DEF StillExist, Exists
<1>8. Disciplined'
  BY <1>2, <1>6, <1>7, LeavingOK
<1>9. AskedExist'
  BY <1>5, <1>7 DEF AskedExist, StillExist
<1> QED
  BY <1>0, <1>2, <1>5, <1>8, <1>9, TypePartsNext DEF DbType

-----------------------------------------------------------------------------
(* The other steps, and the invariant.                                     *)

\* Steps that leave the database alone.
LEMMA DbStays ==
  ASSUME TypeOK, AskedExist, Disciplined', UNCHANGED <<db, failed>>,
         locks' \in [Locks -> Txns \cup {None}], txn' \in [Txns -> Conn]
  PROVE  IInv'
<1>1. DbType'
  BY TypeParts DEF DbType, db
<1>2. AskedExist'
  BY DEF AskedExist, Exists, db
<1> QED
  BY <1>1, <1>2, TypePartsNext DEF IInv

\* The start of a transaction keeps the invariant,
LEMMA BeginKeeps ==
  ASSUME IInv, NEW x \in Txns, Begin(x)
  PROVE  IInv'
<1> USE DEF IInv
<1>1. ASSUME NEW kind \in Calls, NEW t \in Tasks, NEW w \in Workers \cup {None},
             Exists(t), kind \in {"claim", "submit_receipt"} => w \in Workers,
             Start(x, kind, t, w, LockPlan(kind, t))
      PROVE  IInv'
  <2>1. Disciplined' /\ txn' \in [Txns -> Conn]
    BY <1>1, CallStarts
  <2>2. UNCHANGED <<db, locks, failed>>
    BY <1>1 DEF Start
  <2> QED
    BY <2>1, <2>2, TxnType, DbStays
<1>2. ASSUME NEW t \in Tasks, NEW w \in Workers, BeginClaim(x, t, w)
      PROVE  IInv'
  <2>1. Exists(t) /\ Start(x, "claim", t, w, LockPlan("claim", t))
    BY <1>2 DEF BeginClaim, Claimable, Exists
  <2> QED
    BY <1>1, <2>1 DEF Calls
<1>3. ASSUME NEW t \in Tasks, NEW w \in Workers, BeginHeartbeat(x, t, w)
      PROVE  IInv'
  <2>1. Exists(t) /\ Start(x, "heartbeat", t, w, LockPlan("heartbeat", t))
    BY <1>3 DEF BeginHeartbeat, Beatable, Exists, ExecutionStates
  <2> QED
    BY <1>1, <2>1 DEF Calls
<1>4. ASSUME NEW t \in Tasks, NEW w \in Workers, NEW kind \in CircuitUsers,
             BeginAnswer(x, kind, t, w)
      PROVE  IInv'
  <2>1. Exists(t) /\ Start(x, kind, t, w, LockPlan(kind, t))
    BY <1>4 DEF BeginAnswer
  <2> QED
    BY <1>1, <2>1 DEF Calls, CircuitUsers
<1>5. ASSUME NEW t \in Tasks, BeginRequest(x, t)
      PROVE  IInv'
  <2>1. Exists(t) /\ Start(x, "request_approval", t, None, LockPlan("request_approval", t))
    BY <1>5 DEF BeginRequest
  <2> QED
    BY <1>1, <2>1 DEF Calls
<1>6. ASSUME NEW t \in Tasks, BeginDecision(x, t)
      PROVE  IInv'
  <2>1. Exists(t) /\ Start(x, "decide_approval", t, None, LockPlan("decide_approval", t))
    BY <1>6 DEF BeginDecision, AskedExist
  <2> QED
    BY <1>1, <2>1 DEF Calls
<1>7. ASSUME NEW kind \in Sweeps, BeginSweep(x, kind)
      PROVE  IInv'
  <2>1. Disciplined' /\ txn' \in [Txns -> Conn]
    BY <1>7, SweepStarts
  <2>2. UNCHANGED <<db, locks, failed>>
    BY <1>7 DEF BeginSweep, Start
  <2> QED
    BY <2>1, <2>2, TxnType, DbStays
<1>8. CASE ReadReceipts(x)
  <2> DEFINE new == [Idle EXCEPT !.kind = "flow", !.shown = QualityPanel]
  <2>1. new \in Conn /\ new.kind = "flow" /\ new.want = <<>> /\ new.seen = None
        /\ new.took = {}
    <3> DEFINE panel == QualityPanel
    <3>1. panel \subseteq Tasks
      BY DEF QualityPanel
    <3> HIDE DEF panel
    <3>2. [Idle EXCEPT !.kind = "flow", !.shown = panel] \in Conn
      BY <3>1, IdleType DEF Conn, Reads
    <3>3. /\ [Idle EXCEPT !.kind = "flow", !.shown = panel].kind = "flow"
          /\ [Idle EXCEPT !.kind = "flow", !.shown = panel].want = <<>>
          /\ [Idle EXCEPT !.kind = "flow", !.shown = panel].seen = None
          /\ [Idle EXCEPT !.kind = "flow", !.shown = panel].took = {}
      BY IdleType DEF Conn
    <3> QED
      BY <3>2, <3>3 DEF panel
  <2>2. txn' = [txn EXCEPT ![x] = new] /\ UNCHANGED <<db, locks, failed>> /\ txn[x] = Idle
    BY <1>8 DEF ReadReceipts
  <2> HIDE DEF new
  <2>3. txn' \in [Txns -> Conn] /\ txn'[x] = new /\ \A y \in Txns \ {x} : txn'[y] = txn[y]
    BY <2>1, <2>2, TxnType
  <2>4. HoldsNothing(x)
    BY <2>2, IdleType DEF Disciplined, ConnOK, RestOK
  <2>5. ConnOK(x)'
    BY <2>1, <2>2, <2>3, <2>4, Kinds DEF ConnOK, RestOK, HoldsNothing, Reads, Calls, Sweeps
  <2>6. Disciplined'
    BY <2>2, <2>3, <2>5, MovingOK DEF db
  <2> QED
    BY <2>2, <2>3, <2>6, TxnType, DbStays
<1> QED
  BY <1>2, <1>3, <1>4, <1>5, <1>6, <1>7, <1>8 DEF Begin, CircuitUsers

\* taking the next lock keeps it,
LEMMA AcquireKeeps ==
  ASSUME IInv, NEW x \in Txns, Acquire(x)
  PROVE  IInv'
<1> USE DEF IInv
<1> DEFINE l == Head(txn[x].want)
<1>1. /\ l \in Locks /\ locks[l] = None /\ rows' = rows /\ over' = over
      /\ \A m \in Locks : locks'[m] = IF m = l THEN x ELSE locks[m]
      /\ locks' \in [Locks -> Txns \cup {None}]
      /\ \A y \in Txns \ {x} : txn'[y] = txn[y]
  BY AcquireEffect
<1>2. txn[x].kind \in Calls \/ txn[x].kind \in Sweeps
  <2>1. txn[x].want # <<>>
    BY DEF Acquire
  <2> QED
    BY <2>1, Kinds DEF Disciplined, ConnOK, RestOK
<1>3. ConnOK(x)' /\ txn'[x] \in Conn
  BY <1>2, CallAcquires, SweepAcquires
<1>4. ASSUME NEW y \in Txns \ {x}
      PROVE  ConnOK(y)'
  <2>1. ConnOK(y) /\ Alike(y) /\ RowsStay(y) /\ StillExist
    BY <1>1 DEF Disciplined, Alike, RowsStay, StillExist, Exists
  <2>2. \A m \in Locks : (locks'[m] = y) <=> (locks[m] = y)
    BY <1>1, TxnConstants
  <2> QED
    BY <2>1, <2>2, BystanderOK
<1>5. Disciplined'
  BY <1>3, <1>4 DEF Disciplined
<1>6. txn' \in [Txns -> Conn]
  <2>1. txn' = [txn EXCEPT ![x] = txn'[x]]
    BY TxnType DEF Acquire
  <2> QED
    BY <1>3, <2>1, TxnType
<1>7. UNCHANGED <<db, failed>>
  BY DEF Acquire
<1> QED
  BY <1>1, <1>5, <1>6, <1>7, DbStays

\* A transaction that ends without a write.
LEMMA EndKeeps ==
  ASSUME IInv, NEW x \in Txns, End(x), UNCHANGED <<db, failed>>
  PROVE  IInv'
<1> USE DEF IInv
<1>1. /\ locks' \in [Locks -> Txns \cup {None}] /\ txn' \in [Txns -> Conn]
      /\ \A l \in Locks : locks'[l] = IF locks[l] = x THEN None ELSE locks[l]
      /\ txn'[x] = Idle /\ \A y \in Txns \ {x} : Alike(y)
  BY EndEffect DEF Alike
<1>2. rows' = rows /\ over' = over /\ StillExist
  BY DEF db, StillExist, Exists
<1>3. Disciplined'
  BY <1>1, <1>2, LeavingOK
<1> QED
  BY <1>1, <1>3, DbStays

\* A step of nobody's transaction that only adds: a task, a lapsed lease.
LEMMA OutsideKeeps ==
  ASSUME IInv, UNCHANGED <<locks, txn>>, asked' = asked, DbType',
         \A t \in Tasks : /\ Exists(t) => rows'[t] = rows[t]
                          /\ t \in over => t \in over'
  PROVE  IInv'
<1> USE DEF IInv
<1>1. StillExist
  BY DEF StillExist, Exists
<1>2. ASSUME NEW y \in Txns
      PROVE  ConnOK(y)'
  <2>1. ConnOK(y) /\ Alike(y)
    BY DEF Disciplined, Alike
  <2>2. \A t \in Tasks : locks[Task(t)] = y => Exists(t) \/ txn[y].kind \in Sweeps
    BY <2>1, LockKinds, Kinds DEF ConnOK, CallOK, RestOK, HoldsNothing
  <2>3. CASE txn[y].kind \in Sweeps
    <3>1. SweepOK(y)
      BY <2>1, <2>3 DEF ConnOK
    <3>2. \A u \in txn[y].took : Swept(txn[y].kind, u)'
      <4>1. \A u \in txn[y].took : u \in Tasks /\ Swept(txn[y].kind, u) /\ Exists(u)
        BY <2>3, TookLocked
      <4> QED
        BY <4>1 DEF Swept
    <3>3. SweepOK(y)'
      BY <3>1, <3>2 DEF SweepOK
    <3> QED
      BY <2>3, <3>3, Kinds DEF ConnOK
  <2>4. CASE txn[y].kind \notin Sweeps
    <3>1. RowsStay(y)
      BY <2>2, <2>4 DEF RowsStay
    <3> QED
      BY <1>1, <2>1, <3>1, BystanderOK
  <2> QED
    BY <2>3, <2>4
<1>3. AskedExist'
  BY <1>1 DEF AskedExist, StillExist
<1>4. Disciplined'
  BY <1>2 DEF Disciplined
<1> QED
  BY <1>3, <1>4, TxnType, TypePartsNext

\* a new task and time keep it,
LEMMA TimeKeeps ==
  ASSUME IInv,
         \/ \E t \in Tasks : CreateTask(t) \/ Lapse(t)
         \/ \E k \in Routes : CoolDown(k)
  PROVE  IInv'
<1> USE DEF IInv
<1>0. DbType
  BY TypeParts
<1>1. ASSUME NEW t \in Tasks, CreateTask(t)
      PROVE  IInv'
  <2>1. rows' = [rows EXCEPT ![t] = [rows[t] EXCEPT !.status = "ready"]]
    BY <1>0, <1>1 DEF CreateTask, DbType
  <2>2. [rows[t] EXCEPT !.status = "ready"] \in Rows
    BY <1>0 DEF DbType, Rows, TaskStatus
  <2>3. rows' \in [Tasks -> Rows] /\ \A u \in Tasks : Exists(u) => rows'[u] = rows[u]
    BY <1>0, <1>1, <2>1, <2>2 DEF CreateTask, DbType, Exists
  <2>4. UNCHANGED <<over, circuits, asked, receipts, deadLetters, recoveryCards,
                    cleared, locks, txn, failed>>
    BY <1>1 DEF CreateTask
  <2>5. DbType'
    BY <1>0, <2>3, <2>4 DEF DbType
  <2> QED
    BY <2>3, <2>4, <2>5, OutsideKeeps
<1>2. ASSUME NEW t \in Tasks, Lapse(t)
      PROVE  IInv'
  <2>1. UNCHANGED <<rows, circuits, asked, receipts, deadLetters, recoveryCards,
                    cleared, locks, txn, failed>> /\ over' = over \cup {t}
    BY <1>2 DEF Lapse
  <2>2. DbType'
    BY <1>0, <2>1 DEF DbType
  <2> QED
    BY <2>1, <2>2, OutsideKeeps
<1>3. ASSUME NEW k \in Routes, CoolDown(k)
      PROVE  IInv'
  <2>1. UNCHANGED <<rows, over, asked, receipts, deadLetters, recoveryCards,
                    cleared, locks, txn, failed>>
        /\ circuits[k] # None
        /\ circuits' = [circuits EXCEPT ![k] = [circuits[k] EXCEPT !.cooling = FALSE]]
    BY <1>0, <1>3 DEF CoolDown, DbType
  <2>2. [circuits[k] EXCEPT !.cooling = FALSE] \in CircuitRows
    BY <1>0, <2>1 DEF DbType, CircuitRows
  <2>3. circuits' \in [Routes -> {None} \cup CircuitRows]
    BY <1>0, <2>1, <2>2 DEF DbType
  <2>4. DbType'
    BY <1>0, <2>1, <2>3 DEF DbType
  <2> QED
    BY <2>1, <2>4, OutsideKeeps
<1> QED
  BY <1>1, <1>2, <1>3

\* and the reads of the cockpit keep it.
LEMMA ReadKeeps ==
  ASSUME IInv, NEW x \in Txns, ReadFlow(x)
  PROVE  IInv'
<1> USE DEF IInv
<1> DEFINE new == [txn[x] EXCEPT !.kind = "risks", !.shown = FlowPanel]
<1>1. txn[x].kind = "flow" /\ UNCHANGED <<db, locks, failed>> /\ txn[x] \in Conn
  BY TxnType DEF ReadFlow
<1>2. FlowPanel \subseteq Tasks
  BY DEF FlowPanel
<1>3. RestOK(x)
  BY <1>1 DEF Disciplined, ConnOK, Reads
<1>4. new \in Conn /\ new.kind = "risks" /\ new.want = <<>> /\ new.seen = None
      /\ new.took = {}
  BY <1>1, <1>2, <1>3 DEF Conn, Reads, RestOK
<1>5. txn' = [txn EXCEPT ![x] = new]
  BY <1>1, TxnType DEF ReadFlow, Conn
<1> HIDE DEF new
<1>6. txn' \in [Txns -> Conn] /\ txn'[x] = new /\ \A y \in Txns \ {x} : txn'[y] = txn[y]
  BY <1>4, <1>5, TxnType
<1>7. ConnOK(x)'
  BY <1>1, <1>3, <1>4, <1>6, Kinds DEF ConnOK, RestOK, HoldsNothing, Reads, Calls, Sweeps
<1>8. Disciplined'
  BY <1>1, <1>6, <1>7, MovingOK DEF db
<1> QED
  BY <1>1, <1>6, <1>8, TxnType, DbStays

\* The invariant holds in every state.
LEMMA IInvHolds == Spec => []IInv
<1>1. Init => IInv
  <2> SUFFICES ASSUME Init PROVE IInv
    OBVIOUS
  <2>1. locks = [l \in Locks |-> None] /\ txn = [x \in Txns |-> Idle]
        /\ asked = [t \in Tasks |-> None]
    BY DEF Init
  <2>2. locks \in [Locks -> Txns \cup {None}] /\ txn \in [Txns -> Conn]
    BY <2>1, IdleType
  <2>3. Disciplined
    BY <2>1, IdleType, Kinds, TxnConstants
    DEF Disciplined, ConnOK, RestOK, HoldsNothing, Reads, Calls, Sweeps
  <2>4. Absent \in Rows
    BY DEF Absent, Rows
  <2>5. DbType
    BY <2>4 DEF Init, DbType
  <2> QED
    BY <2>1, <2>2, <2>3, <2>5, TypeParts DEF IInv, AskedExist
<1>2. IInv /\ [Next]_vars => IInv'
  <2> SUFFICES ASSUME IInv, [Next]_vars PROVE IInv'
    OBVIOUS
  <2>1. ASSUME NEW x \in Txns,
               \/ Begin(x)
               \/ Acquire(x) \/ Refuse(x) \/ Abort(x)
               \/ \E r \in Reports : WantCircuit(x, r)
               \/ WantClosing(x)
               \/ Commit(x)
               \/ ReadFlow(x) \/ ReadRisks(x)
        PROVE  IInv'
    <3>1. CASE Refuse(x) \/ Abort(x) \/ ReadRisks(x)
      BY <3>1, EndKeeps DEF Refuse, Abort, ReadRisks
    <3>2. CASE WantClosing(x) \/ \E r \in Reports : WantCircuit(x, r)
      <4>1. Disciplined' /\ txn' \in [Txns -> Conn] /\ UNCHANGED <<db, locks, failed>>
        BY <3>2, CircuitWanted DEF IInv
      <4> QED
        BY <4>1, TxnType, DbStays DEF IInv
    <3>3. CASE Commit(x)
      BY <3>3, LeaseCommits, FailureCommits, JudgedCommits, SweepCommits DEF Commit
    <3> QED
      BY <2>1, <3>1, <3>2, <3>3, BeginKeeps, AcquireKeeps, ReadKeeps
  <2>2. CASE UNCHANGED vars
    <3>1. UNCHANGED <<rows, over, circuits, asked, receipts, deadLetters,
                      recoveryCards, cleared, locks, txn, failed>>
      BY <2>2 DEF vars, db
    <3>2. DbType'
      BY <3>1, TypeParts DEF IInv, DbType
    <3> QED
      BY <3>1, <3>2, OutsideKeeps
  <2> QED
    BY <2>1, <2>2, TimeKeeps DEF Next
<1> QED
  BY <1>1, <1>2, PTL DEF Spec

-----------------------------------------------------------------------------
(* Theorems.                                                               *)

\* Every variable has its type.
THEOREM TxnTypeInvariant == Spec => []TypeOK
BY IInvHolds, PTL DEF IInv

\* Whatever a method read under its lock is still so when it writes, and a
\* sweep changes only rows that still fulfil its condition.
THEOREM ReadsStay == Spec => []ReadsStayTrue
<1>1. IInv => ReadsStayTrue
  <2> SUFFICES ASSUME IInv, NEW x \in Txns
               PROVE  /\ txn[x].seen # None => txn[x].seen = rows[txn[x].task]
                      /\ \A t \in txn[x].took : Swept(txn[x].kind, t)
    BY DEF ReadsStayTrue
  <2>1. ConnOK(x) /\ TypeOK
    BY DEF IInv, Disciplined
  <2> QED
    BY <2>1, Kinds DEF ConnOK, CallOK, SweepOK, RestOK, Stage, HasRead
<1> QED
  BY <1>1, IInvHolds, PTL

\* No number of workers and approvers deadlocks without two sweeps: a call
\* that waits for a circuit waits for one that is about to commit, one that
\* waits for an approval waits for one that wants a task, and a task that is
\* held by somebody who waits is held by a sweep.
THEOREM NoCallDeadlocks == Spec => []OnlySweepsDeadlock
<1>1. IInv => OnlySweepsDeadlock
  <2> SUFFICES ASSUME IInv, NEW D \in SUBSET Txns, Deadlocked(D)
               PROVE  \E x, y \in D :
                        x # y /\ txn[x].kind \in Sweeps /\ txn[y].kind \in Sweeps
    BY DEF OnlySweepsDeadlock
  <2> DEFINE wanted(x) == Head(txn[x].want)
             holder(x) == locks[wanted(x)]
  <2>0. TypeOK /\ \A x \in Txns : ConnOK(x) /\ txn[x] \in Conn
    BY TxnType DEF IInv, Disciplined
  <2>1. ASSUME NEW x \in D
        PROVE  txn[x].want # <<>> /\ wanted(x) \in Locks /\ holder(x) \in D
    <3>1. txn[x].want # <<>> /\ holder(x) \in D
      BY DEF Deadlocked, Blocked
    <3>2. txn[x].want \in Seq(Locks)
      BY <2>0 DEF Conn
    <3> QED
      BY <3>1, <3>2
  <2>2. ASSUME NEW x \in D
        PROVE  \A k \in Routes : wanted(x) # Circuit(k)
    <3> SUFFICES ASSUME NEW k \in Routes, wanted(x) = Circuit(k) PROVE FALSE
      OBVIOUS
    <3> DEFINE y == holder(x)
    <3>1. y \in D /\ txn[y].want # <<>> /\ locks[Circuit(k)] = y
      BY <2>1
    <3>2. Circuit(k) \in Locks
      BY LockKinds
    <3> HIDE DEF y
    <3>3. CASE txn[y].kind \in Calls
      BY <2>0, <3>1, <3>3 DEF ConnOK, CallOK
    <3>4. CASE txn[y].kind \in Sweeps
      BY <2>0, <3>1, <3>2, <3>4, LockNames DEF ConnOK, SweepOK
    <3>5. CASE txn[y].kind \in {"idle"} \cup Reads
      BY <2>0, <3>1, <3>5 DEF ConnOK, RestOK
    <3> QED
      BY <2>0, <3>1, <3>3, <3>4, <3>5, Kinds
  <2>3. ASSUME NEW y \in D, NEW t \in Tasks, locks[Task(t)] = y
        PROVE  txn[y].kind \in Sweeps
    <3>1. txn[y].want # <<>>
      BY <2>1
    <3>2. CASE txn[y].kind \in Calls
      <4> DEFINE u == txn[y].task
      <4>1. CallOK(y) /\ u \in Tasks /\ u = t
        BY <2>0, <2>3, <3>2 DEF ConnOK, CallOK
      <4>2. txn[y].want # <<Circuit(Route[u])>>
        BY <2>2, <4>1, Lists, TxnConstants
      <4> QED
        BY <2>3, <3>1, <4>1, <4>2, LockKinds DEF CallOK, Stage, HoldsNothing
    <3>3. CASE txn[y].kind \in {"idle"} \cup Reads
      BY <2>0, <3>1, <3>3 DEF ConnOK, RestOK
    <3> QED
      BY <2>0, <3>2, <3>3, Kinds
  <2>4. ASSUME NEW x \in D, NEW t \in Tasks, wanted(x) = Approval(t)
        PROVE  \E u \in Tasks : wanted(holder(x)) = Task(u)
    <3> DEFINE y == holder(x)
    <3>1. y \in D /\ txn[y].want # <<>> /\ locks[Approval(t)] = y /\ Approval(t) \in Locks
      BY <2>1, <2>4
    <3> HIDE DEF y
    <3>2. ConnOK(y)
      BY <2>0, <3>1
    <3>3. txn[y].kind \in Calls
      BY <2>0, <3>1, <3>2, LockNames, Kinds DEF ConnOK, SweepOK, RestOK, HoldsNothing
    <3>4. CallOK(y) /\ txn[y].task \in Tasks
      BY <3>2, <3>3 DEF ConnOK, CallOK
    <3>5. txn[y].want # <<Circuit(Route[txn[y].task])>>
      BY <2>2, <3>1, <3>4, Lists, TxnConstants
    <3>6. txn[y].want = <<Task(txn[y].task)>>
      BY <3>1, <3>4, <3>5 DEF CallOK, Stage, HoldsNothing
    <3> QED
      BY <3>4, <3>6, Lists DEF y
  <2>5. PICK x \in D, t \in Tasks : wanted(x) = Task(t)
    <3>1. PICK z \in D : TRUE
      BY DEF Deadlocked
    <3>2. holder(z) \in D /\ wanted(z) \in Locks
      BY <2>1
    <3>3. \/ \E t \in Tasks : wanted(z) = Approval(t)
          \/ \E t \in Tasks : wanted(z) = Task(t)
      BY <2>2, <3>2, LockKinds
    <3> QED
      BY <2>4, <3>2, <3>3
  <2> DEFINE y == holder(x)
             z == holder(y)
  <2>6. y \in D /\ txn[y].kind \in Sweeps
    BY <2>1, <2>3, <2>5
  <2>7. PICK u \in Tasks : wanted(y) = Task(u) /\ locks[Task(u)] # y
    <3>1. txn[y].want # <<>> /\ txn[y].want \in Seq(Locks)
      BY <2>0, <2>1, <2>6 DEF Conn
    <3>2. 1 \in DOMAIN txn[y].want /\ wanted(y) = txn[y].want[1]
      BY <3>1
    <3>3. SweepOK(y)
      BY <2>0, <2>6 DEF ConnOK
    <3> QED
      BY <3>2, <3>3 DEF SweepOK
  <2>8. z \in D /\ z # y /\ txn[z].kind \in Sweeps
    BY <2>1, <2>3, <2>6, <2>7
  <2> QED
    BY <2>6, <2>8
<1> QED
  BY <1>1, IInvHolds, PTL

=============================================================================
