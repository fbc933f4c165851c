----------------------------- MODULE MCTxnStore -----------------------------
(***************************************************************************)
(* Two tasks on one route for TLC: one that needs an approval, and an      *)
(* evidence task that does not.                                            *)
(***************************************************************************)
EXTENDS TxnStore, TLC

CONSTANTS t1, t2, w1, w2, route, x1, x2

OneRoute == [t \in Tasks |-> route]
FewAttempts == [t \in Tasks |-> IF t = t1 THEN 2 ELSE 1]
FirstNeedsApproval == [t \in Tasks |-> t = t1]

\* One report for each way report_failure can go.
KindsOfReport ==
  {[class |-> "transient", side |-> "none", retryAfter |-> 0],
   [class |-> "transient", side |-> "unknown", retryAfter |-> 0],
   [class |-> "permanent", side |-> "none", retryAfter |-> 0]}

Symmetry == Permutations(Workers) \cup Permutations(Txns)

=============================================================================
