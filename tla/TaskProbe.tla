----------------------------- MODULE TaskProbe -----------------------------
(***************************************************************************)
(* The store as the API uses it, together with the memory of which running *)
(* tasks are probes: tasks that were claimed on a route whose circuit is   *)
(* open and whose cooldown is over, what the tests call half-open.  The    *)
(* store itself has no such state.                                         *)
(***************************************************************************)
EXTENDS TaskStore

VARIABLE probing  \* the tasks that run as probes, a history variable

probeVars == <<vars, probing>>

\* The circuit lets claims through again and has not been closed.
HalfOpen(route) == circuit[route].state = "open" /\ ~Cooling(route)

\* The tasks that this step claims on a half-open route.
ClaimedAsProbe ==
  {t \in Tasks : attempts'[t] > attempts[t] /\ HalfOpen(Route[t])}

ProbeInit == Init /\ probing = {}

ProbeNext ==
  /\ ApiNext
  /\ probing' = {t \in probing \cup ClaimedAsProbe : status'[t] \in ExecutionStates}

ProbeSpec == ProbeInit /\ [][ProbeNext]_probeVars

-----------------------------------------------------------------------------
\* tests/test_resilience.py: the circuit closes after the success of a probe.
\* A probe that completes, and that no failure of another task overtook, closes
\* the circuit of its route.  In the code a completed task that needs no
\* approval goes straight to done, and that branch closes nothing.
CompletedProbeClosesCircuit ==
  [][\A t \in probing :
       /\ HalfOpen(Route[t])
       /\ Count(receipts'[t], "completed") > Count(receipts[t], "completed")
       => circuit'[Route[t]].state = "closed"]_probeVars

=============================================================================
