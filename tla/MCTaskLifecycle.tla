-------------------------- MODULE MCTaskLifecycle --------------------------
(***************************************************************************)
(* Small instances of TaskLifecycle for TLC.                               *)
(***************************************************************************)
EXTENDS TaskLifecycle, TLC

CONSTANTS t1, t2, t3, b1, b2, a1

OneAgent == [t \in Tasks |-> a1]

\* b1 is a global budget; b2, when there is one, matches only t1.
ScopeOf == [b \in Budgets |-> IF b = b1 THEN Tasks ELSE {t1} \cap Tasks]

EveryTaskSymmetric == Permutations(Tasks)
=============================================================================
