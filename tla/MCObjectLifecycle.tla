-------------------------- MODULE MCObjectLifecycle --------------------------
(***************************************************************************)
(* Small instances of ObjectLifecycle for TLC.                             *)
(***************************************************************************)
EXTENDS ObjectLifecycle, TLC

CONSTANTS w1, w2, r1, r2, r3, r4

Symmetry == Permutations(Workers) \union Permutations(Requests)
==============================================================================
