--------------------------- MODULE TaskAuthority ---------------------------
(***************************************************************************)
(* What the harness promises about a task, without leases, time, circuits  *)
(* or rows: at most one worker holds it; it runs at most Budget times; no  *)
(* run starts unless every earlier run was cleared, that is, its own       *)
(* holder reported that it had no side effect; whatever else ends a run,   *)
(* a sweep for instance, is final until a human steps in.                  *)
(*                                                                         *)
(* The steps of different tasks are independent, and one step of the       *)
(* system may move several tasks (a maintenance sweep does).               *)
(***************************************************************************)
EXTENDS Integers

CONSTANTS Tasks, Workers, Budget, None

VARIABLES
  phase,   \* of each task
  holder,  \* the worker of the last run, None before a run
  runs,    \* number of runs started
  cleared  \* number of runs cleared by a report of their holder

Phases == {"absent", "open", "held", "waiting", "judged", "uncertain",
           "stopped", "done"}

Init ==
  /\ phase = [t \in Tasks |-> "absent"]
  /\ holder = [t \in Tasks |-> None]
  /\ runs = [t \in Tasks |-> 0]
  /\ cleared = [t \in Tasks |-> 0]

Keep(t) ==
  holder'[t] = holder[t] /\ runs'[t] = runs[t] /\ cleared'[t] = cleared[t]

Admit(t) == phase[t] = "absent" /\ phase'[t] = "open" /\ Keep(t)

\* A worker starts a run within the budget, all earlier runs being cleared.
Take(t) ==
  /\ phase[t] = "open"
  /\ runs[t] < Budget[t]
  /\ cleared[t] = runs[t]
  /\ phase'[t] = "held"
  /\ holder'[t] \in Workers
  /\ runs'[t] = runs[t] + 1
  /\ cleared'[t] = cleared[t]

\* The run ends with a failure its holder clears, and something of the budget
\* is left.
Yield(t) ==
  /\ phase[t] = "held"
  /\ runs[t] < Budget[t]
  /\ phase'[t] = "waiting"
  /\ holder'[t] = holder[t] /\ runs'[t] = runs[t]
  /\ cleared'[t] = cleared[t] + 1

\* Nobody holds the task between two runs.
Reopen(t) ==
  /\ phase[t] = "waiting"
  /\ phase'[t] = "open"
  /\ holder'[t] = None
  /\ runs'[t] = runs[t] /\ cleared'[t] = cleared[t]

\* The run ends for good, with or without a report that clears it.
Settle(t) ==
  /\ phase[t] = "held"
  /\ phase'[t] \in {"judged", "uncertain", "stopped", "done"}
  /\ holder'[t] = holder[t] /\ runs'[t] = runs[t]
  /\ cleared'[t] \in {cleared[t], cleared[t] + 1}

\* A human decides on a result.
Judge(t) ==
  /\ phase[t] = "judged"
  /\ phase'[t] \in {"stopped", "done"}
  /\ Keep(t)

Rest(t) == phase'[t] = phase[t] /\ Keep(t)

Step(t) == \/ Admit(t) \/ Take(t) \/ Yield(t) \/ Reopen(t)
           \/ Settle(t) \/ Judge(t) \/ Rest(t)

Next ==
  /\ phase' \in [Tasks -> Phases]
  /\ holder' \in [Tasks -> Workers \cup {None}]
  /\ runs' \in [Tasks -> Nat]
  /\ cleared' \in [Tasks -> Nat]
  /\ \A t \in Tasks : Step(t)

Spec == Init /\ [][Next]_<<phase, holder, runs, cleared>>

=============================================================================
