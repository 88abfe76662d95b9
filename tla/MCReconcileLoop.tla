--------------------------- MODULE MCReconcileLoop ---------------------------
(***************************************************************************)
(* Small instances of ReconcileLoop for TLC.                               *)
(***************************************************************************)
EXTENDS ReconcileLoop, TLC

CONSTANTS c1, c2, o1, o2, m1, m2, m3

OneObject == [m \in Msgs |-> o1]
TwoObjects == [m \in Msgs |-> IF m = m1 THEN o1 ELSE o2]
ControllerSymmetry == Permutations(Controllers)
==============================================================================
