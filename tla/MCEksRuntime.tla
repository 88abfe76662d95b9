---------------------------- MODULE MCEksRuntime ----------------------------
(***************************************************************************)
(* Small instances of EksRuntime for TLC.                                  *)
(***************************************************************************)
EXTENDS EksRuntime, TLC

CONSTANTS b1, b2

BuilderSymmetry == Permutations(Builders)
==============================================================================
