----------------------------- MODULE MCNasPilot -----------------------------
(***************************************************************************)
(* The pilot card for TLC: two attempts, no approval.                      *)
(***************************************************************************)
EXTENDS NasPilot

CONSTANTS w1, w2, route, key

PilotKey == [t \in Tasks |-> key]
PilotRoute == [t \in Tasks |-> route]
TwoAttempts == [t \in Tasks |-> 2]
\* The first watcher is restarted once, its rival never.
Restarts == [w \in Workers |-> IF w = w1 THEN 1 ELSE 0]
NoApprovals == [t \in Tasks |-> {}]

=============================================================================
