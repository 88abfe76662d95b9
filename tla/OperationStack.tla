--------------------------- MODULE OperationStack ---------------------------
(***************************************************************************)
(* The stack of operations that creates several API objects as one:        *)
(* Operations.Create runs the create functions in order and, when one      *)
(* returns an error, the delete functions of those before it in reverse,   *)
(* going on past the ones that fail; Operations.Delete runs the delete     *)
(* functions of all.  What the functions do is left to the users of the    *)
(* stack: here each makes one thing, and any of them may return an error,  *)
(* whether or not it has had its effect.                                   *)
(***************************************************************************)
EXTENDS Naturals

CONSTANT N      \* number of operations: one or more

VARIABLES
    at,     \* "create", "delete", or how it ended
    next,   \* the operation to run next
    made,   \* the operations whose thing exists
    failed  \* those of whose functions one returned an error

vars == <<at, next, made, failed>>

StartsCreate ==
    at = "create" /\ next = 1 /\ made = {}

\* Operations.Delete, with whatever there is by then.
StartsDelete ==
    at = "delete" /\ next = N /\ made \subseteq 1..N

\* A stack is made for one call.
Init ==
    /\ StartsCreate \/ StartsDelete
    /\ failed = {}

CreateOne ==
    /\ at = "create"
    /\ made' = made \union {next}
    /\ next' = next + 1
    /\ at' = IF next = N THEN "complete" ELSE "create"
    /\ UNCHANGED failed

\* cleanOnCreateError, from the operation before this one.
CreateFails ==
    /\ at = "create"
    /\ made' \in {made, made \union {next}}
    /\ failed' = failed \union {next}
    /\ next' = next - 1
    /\ at' = IF next = 1 THEN "undone" ELSE "delete"

DeleteOne ==
    /\ at = "delete"
    /\ made' = made \ {next}
    /\ next' = next - 1
    /\ at' = IF next = 1 THEN "undone" ELSE "delete"
    /\ UNCHANGED failed

DeleteFails ==
    /\ at = "delete"
    /\ made' \in {made, made \ {next}}
    /\ failed' = failed \union {next}
    /\ next' = next - 1
    /\ at' = IF next = 1 THEN "undone" ELSE "delete"

Next == CreateOne \/ CreateFails \/ DeleteOne \/ DeleteFails

Spec == Init /\ [][Next]_vars

\* All or nothing, as far as that can be: a stack that is complete has made
\* everything, one that is undone leaves only what a function failed on.
AllOrNothing ==
    /\ at = "complete" => made = 1..N
    /\ at = "undone" => made \subseteq failed
=============================================================================
