---------------------------- MODULE ObjectContract ----------------------------
(***************************************************************************)
(* What Threeport promises about one reconciled object: it is created      *)
(* once, the outside world may be changed for it while it exists, it       *)
(* leaves the database only after a requested deletion has removed what    *)
(* was built for it, and nothing is built for it afterwards.               *)
(***************************************************************************)
VARIABLES
    phase,   \* "absent", "live", "deleting" or "gone"
    clean    \* nothing exists in the outside world for the object

vars == <<phase, clean>>

Init == phase = "absent" /\ clean = TRUE

Create == phase = "absent" /\ phase' = "live" /\ UNCHANGED clean

\* Controllers build, change and tear down for as long as the row exists.
Work == phase \in {"live", "deleting"} /\ clean' \in BOOLEAN /\ UNCHANGED phase

Schedule == phase = "live" /\ phase' = "deleting" /\ UNCHANGED clean

Forget == phase = "deleting" /\ clean /\ phase' = "gone" /\ UNCHANGED clean

Next == Create \/ Work \/ Schedule \/ Forget

Spec == Init /\ [][Next]_vars
==============================================================================
