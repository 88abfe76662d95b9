------------------------ MODULE MCObservabilityStack ------------------------
(***************************************************************************)
(* Small instances of ObservabilityStack for TLC.                          *)
(***************************************************************************)
EXTENDS ObservabilityStack, TLC
=============================================================================
