---------------------------- MODULE MCTaskStore ----------------------------
(***************************************************************************)
(* A small store for TLC: two cards, t1 and t2, on one model route, and a  *)
(* third, t3, that is the request of t1 submitted again under a new task   *)
(* id.  Only the request of t1 needs an approval.                          *)
(***************************************************************************)
EXTENDS TaskStore, TLC

CONSTANTS t1, t2, t3, w1, w2, route, merge, deploy, k1, k2

CardKeys == [t \in Tasks |-> IF t = t2 THEN k2 ELSE k1]
CardRoutes == [t \in Tasks |-> route]
CardAttempts == [t \in Tasks |-> IF t = t2 THEN 3 ELSE 2]
EqualAttempts == [t \in Tasks |-> 2]

\* A lease that is over at once, and one that lasts.
Minutes == {-1, 2}

CardApprovals == [t \in Tasks |-> IF t = t2 THEN {} ELSE {merge}]

Symmetry == Permutations(Workers)

=============================================================================
