--------------------------- MODULE SerialReconcile ---------------------------
(***************************************************************************)
(* What the key-value lock promises the reconcilers: an object is          *)
(* reconciled by at most one controller at a time, a controller reconciles *)
(* at most one object of a kind at a time, and an object passes from one   *)
(* controller to another only by being let go in between.                  *)
(***************************************************************************)
EXTENDS FiniteSets

CONSTANTS Controllers, Objects

VARIABLE holders   \* object -> controllers reconciling it

Init == holders = [o \in Objects |-> {}]

Begin(c, o) ==
    /\ holders[o] = {}
    /\ \A p \in Objects : c \notin holders[p]
    /\ holders' = [holders EXCEPT ![o] = {c}]

\* By releasing the lock, or by dying.
End(c, o) ==
    /\ c \in holders[o]
    /\ holders' = [holders EXCEPT ![o] = @ \ {c}]

Next == \E c \in Controllers, o \in Objects : Begin(c, o) \/ End(c, o)

Spec == Init /\ [][Next]_holders
==============================================================================
