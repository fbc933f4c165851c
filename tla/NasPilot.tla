------------------------------ MODULE NasPilot ------------------------------
(***************************************************************************)
(* The read-only pilot on the NAS (src/harness/nas_watcher.py): watcher    *)
(* processes that claim or resume one task, beat and report until the end  *)
(* of the window and then send the receipt, composed with the store, with  *)
(* the authentication in front of it, and with a network and a container   *)
(* runtime that fail.                                                      *)
(*                                                                         *)
(* The watcher uses one request at a time and gives up after 15 seconds; a *)
(* request it has given up may still reach the API and is then carried out *)
(* without anybody reading the answer.  Every error ends the process, and  *)
(* the runtime starts it again a bounded number of times (on-failure:5).   *)
(*                                                                         *)
(* A tick of the clock is one interval of the watcher.  Slow requests and  *)
(* restarts may take any number of ticks.                                  *)
(***************************************************************************)
EXTENDS TaskStore, Access

CONSTANTS
  pilot,        \* the task of the pilot
  Window,       \* ticks from the start to PILOT_END_AT
  MaxRestarts,  \* restarts the container runtime grants each watcher
  MaxRotations  \* bound: rotations of a token file

ASSUME PilotAssumption ==
  /\ pilot \in Tasks /\ ApprovalRequired[pilot] = {}
  /\ MaxRestarts \in [Workers -> Nat]
  /\ {Window, MaxRotations} \subseteq Nat

VARIABLES
  left,      \* ticks to the end of the window
  files,     \* the token file of each principal
  rotations, \* rotations begun, for the bound
  pc,        \* where each watcher is
  token,     \* the token a watcher read when it started
  restarts,  \* of each watcher
  call,      \* the request a watcher waits for, None without one
  strays,    \* requests nobody waits for any more
  stale      \* reports since the token of the running process was replaced

watcherVars == <<pc, token, restarts, call, stale>>
pilotVars == <<vars, left, files, rotations, watcherVars, strays>>

-----------------------------------------------------------------------------
PilotInit ==
  /\ Init
  /\ left = Window
  /\ files = [p \in {"svc-panda-orchestrator", "svc-hermes-nas"} |-> Token(p, 0)]
  /\ rotations = 0
  /\ pc = [w \in Workers |-> "boot"]
  /\ token = [w \in Workers |-> NoToken]
  /\ restarts = [w \in Workers |-> 0]
  /\ call = [w \in Workers |-> None]
  /\ strays = {}
  /\ stale = [w \in Workers |-> 0]

\* The operator seeds the task, with the token of the orchestrator.
Seed ==
  /\ authenticate(files, files["svc-panda-orchestrator"],
                  required_scope("create_task")) = 200
  /\ CreateTask(pilot)
  /\ UNCHANGED <<left, files, rotations, watcherVars, strays>>

-----------------------------------------------------------------------------
(* The watcher.                                                            *)

\* Faulty: the request is kept for the next start of the process.
AbandonNothing(w) == UNCHANGED <<call, strays>>

\* The process does not read the answer; a request under way stays under way.
Abandon(w) ==
  /\ call' = [call EXCEPT ![w] = None]
  /\ strays' = IF call[w] # None /\ call[w].code = 0 THEN strays \cup {call[w]} ELSE strays

\* main: the token is read once for the life of the process.
Boot(w) ==
  LET found == files["svc-hermes-nas"]
  IN  /\ pc[w] = "boot"
      /\ pc' = [pc EXCEPT ![w] = IF found = NoToken THEN "exited" ELSE "claim"]
      /\ token' = [token EXCEPT ![w] = found]
      /\ stale' = [stale EXCEPT ![w] = 0]
      /\ UNCHANGED <<vars, left, files, rotations, restarts, call, strays>>

\* The request that comes next; the loop looks at the clock first.
Wanted(w) ==
  CASE pc[w] = "claim" -> "claim"
    [] pc[w] = "read"  -> "get_task"
    [] pc[w] = "check" -> IF left > 0 THEN "heartbeat" ELSE "submit_receipt"

\* code 0: not answered; mine: what the answer of get_task says.
Send(w) ==
  /\ pc[w] \in {"claim", "read", "check"} /\ call[w] = None
  /\ call' = [call EXCEPT ![w] =
                [by |-> w, run |-> restarts[w], kind |-> Wanted(w), token |-> token[w],
                 admitted |-> FALSE, code |-> 0, mine |-> FALSE]]
  /\ UNCHANGED <<vars, left, files, rotations, pc, token, restarts, strays, stale>>

\* Faulty: whatever is claimed is resumed.
NextPcTrusting(q) ==
  CASE q.kind = "claim" /\ q.code = 200          -> "check"
    [] q.kind = "claim" /\ q.code = 409          -> "read"
    [] q.kind = "get_task" /\ q.code = 200       -> "check"
    [] q.kind = "heartbeat" /\ q.code = 200      -> "probe"
    [] q.kind = "submit_receipt" /\ q.code = 200 -> "finished"
    [] OTHER                                     -> "exited"

\* Faulty: a receipt that is refused counts as one that arrived before.
NextPcAssuming(q) ==
  CASE q.kind = "claim" /\ q.code = 200               -> "check"
    [] q.kind = "claim" /\ q.code = 409               -> "read"
    [] q.kind = "get_task" /\ q.code = 200 /\ q.mine  -> "check"
    [] q.kind = "heartbeat" /\ q.code = 200           -> "probe"
    [] q.kind = "submit_receipt" /\ q.code \in {200, 409} -> "finished"
    [] OTHER                                          -> "exited"

\* Faulty: a task that is not ours is asked for again.
NextPcPolling(q) ==
  CASE q.kind = "claim" /\ q.code = 200               -> "check"
    [] q.kind = "claim" /\ q.code = 409               -> "read"
    [] q.kind = "get_task" /\ q.code = 200 /\ q.mine  -> "check"
    [] q.kind = "get_task" /\ q.code = 200 /\ ~q.mine -> "claim"
    [] q.kind = "heartbeat" /\ q.code = 200           -> "probe"
    [] q.kind = "submit_receipt" /\ q.code = 200      -> "finished"
    [] OTHER                                          -> "exited"

\* run and _claim_or_resume: where an answer leads.  A refused heartbeat or
\* receipt, a rejected token and every other status end the process.
NextPc(q) ==
  CASE q.kind = "claim" /\ q.code = 200              -> "check"
    [] q.kind = "claim" /\ q.code = 409              -> "read"
    [] q.kind = "get_task" /\ q.code = 200 /\ q.mine -> "check"
    [] q.kind = "heartbeat" /\ q.code = 200          -> "probe"
    [] q.kind = "submit_receipt" /\ q.code = 200     -> "finished"
    [] OTHER                                         -> "exited"

Receive(w) ==
  /\ call[w] # None /\ call[w].code # 0
  /\ pc' = [pc EXCEPT ![w] = NextPc(call[w])]
  /\ call' = [call EXCEPT ![w] = None]
  /\ UNCHANGED <<vars, left, files, rotations, token, restarts, strays, stale>>

\* The probes have succeeded: the report goes out, the watcher sleeps.
Report(w) ==
  /\ pc[w] = "probe"
  /\ pc' = [pc EXCEPT ![w] = "sleep"]
  /\ stale' = [stale EXCEPT ![w] = IF token[w] = files["svc-hermes-nas"] THEN @ ELSE @ + 1]
  /\ UNCHANGED <<vars, left, files, rotations, token, restarts, call, strays>>

\* The request times out or its answer is lost, a probe fails, or the process
\* is killed.
Fail(w) ==
  /\ pc[w] \notin {"exited", "finished"}
  /\ pc' = [pc EXCEPT ![w] = "exited"]
  /\ Abandon(w)
  /\ UNCHANGED <<vars, left, files, rotations, token, restarts, stale>>

\* External: the runtime starts a container that has failed.
Restart(w) ==
  /\ pc[w] = "exited" /\ restarts[w] < MaxRestarts[w]
  /\ pc' = [pc EXCEPT ![w] = "boot"]
  /\ restarts' = [restarts EXCEPT ![w] = @ + 1]
  /\ UNCHANGED <<vars, left, files, rotations, token, call, strays, stale>>

-----------------------------------------------------------------------------
(* The API, for a request q under way.                                     *)

Becomes(q, r) ==
  IF q \in strays
  THEN /\ strays' = (strays \ {q}) \cup (IF r.code = 0 THEN {r} ELSE {})
       /\ UNCHANGED call
  ELSE /\ call' = [call EXCEPT ![q.by] = r]
       /\ UNCHANGED strays

\* The middleware.
Authenticate(q) ==
  LET code == authenticate(files, q.token, required_scope(q.kind))
  IN  /\ ~q.admitted
      /\ Becomes(q, IF code = 200 THEN [q EXCEPT !.admitted = TRUE]
                                  ELSE [q EXCEPT !.code = code])
      /\ UNCHANGED <<vars, left, files, rotations, pc, token, restarts, stale>>

Beat(w) == \E m \in LeaseMinutes : Heartbeat(pilot, w, m)
Take(w) == \E m \in LeaseMinutes : Claim(pilot, w, m)
Complete(w) == SubmitReceipt(pilot, w, "completed")

Accepted(q) == \/ q.kind = "claim" /\ Take(q.by)
               \/ q.kind = "heartbeat" /\ Beat(q.by)
               \/ q.kind = "submit_receipt" /\ Complete(q.by)

Refused(q) ==
  /\ \/ q.kind = "claim" /\ ~Claimable(pilot)
     \/ q.kind = "heartbeat" /\ ~HoldsLease(pilot, q.by)
     \/ q.kind = "submit_receipt" /\ ~MayAnswer(pilot, q.by)
  /\ UNCHANGED vars

\* The handler, and the one transaction of the store behind it.
Handle(q) ==
  /\ q.admitted
  /\ \/ Accepted(q) /\ Becomes(q, [q EXCEPT !.code = 200])
     \/ Refused(q) /\ Becomes(q, [q EXCEPT !.code = 409])
     \/ /\ q.kind = "get_task"
        /\ Becomes(q, [q EXCEPT
             !.code = IF Exists(pilot) THEN 200 ELSE 404,
             !.mine = owner[pilot] = q.by /\ status[pilot] \in ExecutionStates])
        /\ UNCHANGED vars
  /\ UNCHANGED <<left, files, rotations, pc, token, restarts, stale>>

UnderWay == strays \cup {call[w] : w \in {v \in Workers : call[v] # None /\ call[v].code = 0}}

\* A request nobody waits for never arrives.
Lose(q) ==
  /\ strays' = strays \ {q}
  /\ UNCHANGED <<vars, left, files, rotations, watcherVars>>

-----------------------------------------------------------------------------
\* External: a token file is emptied and then written again.
EmptyFile(p) ==
  /\ files[p] # NoToken /\ rotations < MaxRotations
  /\ rotations' = rotations + 1
  /\ files' = [files EXCEPT ![p] = NoToken]
  /\ UNCHANGED <<vars, left, watcherVars, strays>>

WriteFile(p) ==
  /\ files[p] = NoToken
  /\ files' = [files EXCEPT ![p] = Token(p, rotations)]
  /\ UNCHANGED <<vars, left, rotations, watcherVars, strays>>

\* External: an interval passes for the store, the window and the sleepers.
Clock ==
  /\ Tick
  /\ left' = Greater(left - 1, 0)
  /\ pc' = [w \in Workers |-> IF pc[w] = "sleep" THEN "check" ELSE pc[w]]
  /\ UNCHANGED <<files, rotations, token, restarts, call, strays, stale>>

\* External: an operator runs expire_leases; no token gives that right.
Sweep ==
  /\ ExpireLeases
  /\ UNCHANGED <<left, files, rotations, watcherVars, strays>>

Step(w) == Boot(w) \/ Send(w) \/ Receive(w) \/ Report(w) \/ Restart(w)

Serve == \E q \in UnderWay : Authenticate(q) \/ Handle(q)

PilotNext ==
  \/ Seed \/ Clock \/ Sweep \/ Serve
  \/ \E w \in Workers : Step(w) \/ Fail(w)
  \/ \E q \in strays : Lose(q)
  \/ \E p \in DOMAIN files : EmptyFile(p) \/ WriteFile(p)

PilotSpec == PilotInit /\ [][PilotNext]_pilotVars

\* Time passes; a process goes on, or gives up a request that stays without an
\* answer; an operator sweeps.  Nothing is assumed of the API.
FairPilotSpec ==
  /\ PilotSpec
  /\ WF_pilotVars(Clock) /\ WF_pilotVars(Sweep)
  /\ \A w \in Workers : WF_pilotVars(Step(w)) /\ WF_pilotVars(call[w] # None /\ Fail(w))

-----------------------------------------------------------------------------
(* Properties.                                                             *)

Call == [by : Workers, run : Nat,
         kind : {"claim", "get_task", "heartbeat", "submit_receipt"},
         token : {Token("svc-hermes-nas", n) : n \in 0..MaxRotations},
         admitted : BOOLEAN, code : {0, 200, 401, 403, 404, 409, 500}, mine : BOOLEAN]

\* Every variable has its type, a process waits only where it has asked, and
\* what a dead process left behind is one request per life at most.
PilotTypeOK ==
  /\ TypeOK
  /\ left \in 0..Window
  /\ rotations \in 0..MaxRotations
  /\ \A w \in Workers :
       /\ pc[w] \in {"boot", "claim", "read", "check", "probe", "sleep",
                     "exited", "finished"}
       /\ restarts[w] \in 0..MaxRestarts[w]
       /\ call[w] # None =>
            call[w] \in Call /\ call[w].by = w /\ pc[w] \in {"claim", "read", "check"}
  /\ strays \subseteq {q \in Call : q.code = 0}
  /\ \A q, r \in strays : q.by = r.by /\ q.run = r.run => q = r

\* evidence/p2-4, "kein Doppel-Claim": the task runs once, however often a
\* watcher is restarted and however many of its claims are still under way,
\* and whoever beats and reports is the one the store knows as its owner.
OneRun ==
  /\ attempts[pilot] <= 1
  /\ \A w \in Workers : pc[w] \in {"check", "probe", "sleep"} => owner[pilot] = w

\* A watcher that exits with 0 has completed the task, and nobody completes it
\* before the window is over.
CompletionIsReal ==
  /\ \A w \in Workers : pc[w] = "finished" =>
       status[pilot] = "done" /\ owner[pilot] = w /\ receipts[pilot] = <<"completed">>
  /\ status[pilot] = "done" => left = 0

\* README.md: a rotation revokes the token a worker has loaded at its next
\* heartbeat: at most the report of the current cycle still goes out.
RevocationBites == \A w \in Workers : stale[w] <= 1

\* The pilot does not stay with a watcher: in the end it waits for one, is
\* done or has a recovery card, even when the watcher is dead for good.
ClaimSettles ==
  <>[](Exists(pilot) => status[pilot] \in {"ready", "done", "recovery_required"})

\* A watcher does not run on forever, whatever has become of its task.
WatchersEnd ==
  \A w \in Workers : <>[](\/ pc[w] = "finished"
                          \/ pc[w] = "exited" /\ restarts[w] = MaxRestarts[w])

=============================================================================
