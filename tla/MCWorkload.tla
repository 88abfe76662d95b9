----------------------------- MODULE MCWorkload -----------------------------
(***************************************************************************)
(* Small instances of Workload for TLC.                                    *)
(***************************************************************************)
EXTENDS Workload
=============================================================================
