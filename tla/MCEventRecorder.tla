-------------------------- MODULE MCEventRecorder --------------------------
(***************************************************************************)
(* Small instances of EventRecorder for TLC.                               *)
(***************************************************************************)
EXTENDS EventRecorder, TLC

CONSTANTS e1, e2, e3, e4

CallSymmetry == Permutations(Calls)
=============================================================================
