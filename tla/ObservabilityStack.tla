------------------------- MODULE ObservabilityStack -------------------------
(***************************************************************************)
(* An observability stack instance and the objects its reconciler creates  *)
(* through the API and owns: the dashboard instance and, when enabled, a   *)
(* logging and a metrics instance.  Created and Deleted run a stack of     *)
(* operations over them; the children's IDs are kept in the stack's row,   *)
(* written once all of them exist.  A child's DELETE only schedules its    *)
(* deletion: its own controller removes it later, and until then its name  *)
(* is taken.  The observability stack definition, logging definitions and  *)
(* logging instances have the same form.                                   *)
(*                                                                         *)
(* One notification of the object is worked on at a time (ReconcileLoop);  *)
(* a round that fails or dies is followed by another.                      *)
(***************************************************************************)
EXTENDS Naturals

CONSTANTS
    N,               \* the children, in the order of their operations: 1..N
    Disruptions,     \* kinds of disruption the environment may cause
    MaxDisruptions   \* bound on how many it causes

\* "create": a child's creation is refused; "lost": it is served and reported
\* as an error; "delete", "store": deleting a child or writing the stack's own
\* row fails, served or not; "crash": the controller dies; "toggle": a user enables or
\* disables a child.
DisruptionKinds == {"create", "lost", "delete", "store", "crash", "toggle"}

ASSUME NAssumption == N \in Nat \ {0}
ASSUME DisruptionsAssumption ==
    Disruptions \subseteq DisruptionKinds /\ MaxDisruptions \in Nat

VARIABLES
    row,        \* the stack instance's row
    child,      \* child -> its row
    notif,      \* operation -> its notification
    pc,         \* where the reconciler is
    next,       \* the operation of the stack to run next
    ops,        \* the operations that are on the stack
    known,      \* the children whose ID is in the reconciler's copy of the row
    failed,     \* some function of the stack has returned an error
    disrupted,  \* the kinds of disruption so far
    disruptions

vars == <<row, child, notif, pc, next, ops, known, failed, disrupted, disruptions>>
stackVars == <<next, ops, known, failed>>
envVars == <<disrupted, disruptions>>

Children == 1..N
Events == {"create", "update", "delete"}
Row == [st : {"live", "gone"}, ids : SUBSET Children, enabled : SUBSET Children,
        scheduled : BOOLEAN, reconciled : BOOLEAN]

\* The dashboard is the first child and always there.
Enabled == {E \in SUBSET Children : 1 \in E}

Disrupt(kind) ==
    /\ kind \in Disruptions
    /\ disruptions < MaxDisruptions
    /\ disruptions' = disruptions + 1
    /\ disrupted' = disrupted \union {kind}

Init ==
    /\ row \in {[st |-> "live", ids |-> {}, enabled |-> E, scheduled |-> FALSE,
                 reconciled |-> FALSE] : E \in Enabled}
    /\ child = [k \in Children |-> "none"]
    /\ notif = [e \in Events |-> IF e = "create" THEN "ready" ELSE "none"]
    /\ pc = "idle"
    /\ next = 0
    /\ ops = {} /\ known = {}
    /\ failed = FALSE
    /\ disrupted = {} /\ disruptions = 0

------------------------------------------------------------------------------
(* Users and the children's controllers *)

RequestUpdate ==
    /\ row.st = "live" /\ notif["update"] = "none"
    /\ row' = [row EXCEPT !.reconciled = FALSE]
    /\ notif' = [notif EXCEPT !["update"] = "ready"]
    /\ UNCHANGED <<child, pc, stackVars, envVars>>

\* A PATCH that enables or disables a child and leaves Reconciled alone.
Toggle(k) ==
    /\ row.st = "live" /\ k # 1
    /\ Disrupt("toggle")
    /\ row' = [row EXCEPT !.enabled = IF k \in @ THEN @ \ {k} ELSE @ \union {k}]
    /\ UNCHANGED <<child, notif, pc, stackVars>>

RequestDeletion ==
    /\ row.st = "live" /\ ~row.scheduled
    /\ row' = [row EXCEPT !.scheduled = TRUE, !.reconciled = FALSE]
    /\ notif' = [notif EXCEPT !["delete"] = "ready"]
    /\ UNCHANGED <<child, pc, stackVars, envVars>>

ChildRemoved(k) ==
    /\ child[k] = "scheduled"
    /\ child' = [child EXCEPT ![k] = "none"]
    /\ UNCHANGED <<row, notif, pc, stackVars, envVars>>

------------------------------------------------------------------------------
(* Rounds of the reconciler *)

Least(S) == CHOOSE k \in S : \A l \in S : k <= l
Above(k) == {l \in ops : l > k}
Below(k) == {l \in ops : l < k}
Greatest(S) == CHOOSE k \in S : \A l \in S : l <= k

\* The round is over; its notification is settled or will be delivered again.
EndRound(e, settled) ==
    /\ pc' = "idle" /\ next' = 0 /\ ops' = {} /\ known' = {} /\ failed' = FALSE
    /\ notif' = [notif EXCEPT ![e] = IF settled THEN "settled" ELSE @]

\* The row is gone: nothing to do.
Obsolete(e) ==
    /\ pc = "idle" /\ notif[e] = "ready" /\ row.st = "gone"
    /\ EndRound(e, TRUE)
    /\ UNCHANGED <<row, child, envVars>>

\* Created is skipped when the deletion is scheduled; Updated does nothing.
NothingToDo(e) ==
    /\ pc = "idle" /\ notif[e] = "ready" /\ row.st = "live"
    /\ e = "update" \/ (e = "create" /\ row.scheduled)
    /\ row' = [row EXCEPT !.reconciled = TRUE]
    /\ EndRound(e, TRUE)
    /\ UNCHANGED <<child, envVars>>

StartCreate ==
    /\ pc = "idle" /\ notif["create"] = "ready"
    /\ row.st = "live" /\ ~row.scheduled
    /\ pc' = "create" /\ ops' = row.enabled /\ next' = 1
    /\ known' = row.ids /\ failed' = FALSE
    /\ UNCHANGED <<row, child, notif, envVars>>

\* Variant: a child that is there already is taken for one's own.
CreateOrAdopt ==
    /\ pc = "create"
    /\ child' = [child EXCEPT ![next] = "live"]
    /\ known' = known \union {next}
    /\ IF Above(next) = {}
       THEN pc' = "store" /\ UNCHANGED next
       ELSE next' = Least(Above(next)) /\ UNCHANGED pc
    /\ UNCHANGED <<row, notif, ops, failed, envVars>>

CreateChild ==
    /\ pc = "create" /\ child[next] = "none"
    /\ child' = [child EXCEPT ![next] = "live"]
    /\ known' = known \union {next}
    /\ IF Above(next) = {}
       THEN pc' = "store" /\ UNCHANGED next
       ELSE next' = Least(Above(next)) /\ UNCHANGED pc
    /\ UNCHANGED <<row, notif, ops, failed, envVars>>

\* Variant: what was created before the failure stays.
AbandonCreate == EndRound("create", FALSE)

\* Variant: the cleanup begins with the operation that failed.
RollBackFailedToo ==
    /\ pc' = "rollback" /\ failed' = TRUE
    /\ UNCHANGED <<next, notif, ops, known>>

\* Clean up what was created before the operation that failed.
RollBack ==
    IF Below(next) = {}
    THEN EndRound("create", FALSE)
    ELSE /\ pc' = "rollback" /\ next' = Greatest(Below(next)) /\ failed' = TRUE
         /\ UNCHANGED <<notif, ops, known>>

\* 409: the name is taken, or the call fails, served or not.
CreateChildFails ==
    /\ pc = "create"
    /\ \/ child[next] # "none" /\ UNCHANGED <<child, envVars>>
       \/ Disrupt("create") /\ UNCHANGED child
       \/ /\ Disrupt("lost") /\ child[next] = "none"
          /\ child' = [child EXCEPT ![next] = "live"]
    /\ RollBack
    /\ UNCHANGED row

\* The reconciler's copy of the row is written: the IDs, Reconciled, and what
\* was enabled when the round began.
Stored == [row EXCEPT !.ids = known, !.enabled = ops, !.reconciled = TRUE]

StoreIds ==
    /\ pc = "store"
    /\ row' = Stored
    /\ EndRound("create", TRUE)
    /\ UNCHANGED <<child, envVars>>

StoreIdsFails ==
    /\ pc = "store" /\ Disrupt("store")
    /\ row' \in {row, Stored}
    /\ EndRound("create", FALSE)
    /\ UNCHANGED child

StartDelete ==
    /\ pc = "idle" /\ notif["delete"] = "ready" /\ row.st = "live"
    /\ pc' = "delete" /\ ops' = row.enabled /\ next' = Greatest(row.enabled)
    /\ known' = row.ids /\ failed' = FALSE
    /\ UNCHANGED <<row, child, notif, envVars>>

\* After the last operation: a rollback ends the round, and so does a
\* deletion with an error; otherwise the row may go.
FinishUndo(err) ==
    IF Below(next) # {}
    THEN /\ next' = Greatest(Below(next)) /\ failed' = err
         /\ UNCHANGED <<pc, notif, ops, known>>
    ELSE IF pc = "rollback" THEN EndRound("create", FALSE)
    ELSE IF err THEN EndRound("delete", FALSE)
    ELSE /\ pc' = "confirm" /\ failed' = err
         /\ UNCHANGED <<next, notif, ops, known>>

\* Variant: a child that cannot be deleted now is left to itself.
DeleteChildTolerant ==
    /\ pc \in {"rollback", "delete"} /\ next \in known
    /\ \/ child' = [child EXCEPT ![next] = IF @ = "live" THEN "scheduled" ELSE @]
          /\ FinishUndo(failed) /\ UNCHANGED envVars
       \/ Disrupt("delete") /\ UNCHANGED child /\ FinishUndo(failed)
    /\ UNCHANGED row

\* Variant: a child that is gone already is an error.
DeleteChildStrict ==
    /\ pc \in {"rollback", "delete"} /\ next \in known
    /\ \/ /\ child[next] = "live"
          /\ child' = [child EXCEPT ![next] = "scheduled"]
          /\ FinishUndo(failed) /\ UNCHANGED envVars
       \/ /\ child[next] # "live"
          /\ UNCHANGED <<child, envVars>> /\ FinishUndo(TRUE)
    /\ UNCHANGED row

\* 404 counts as success, 409 (its deletion is under way) does not.
DeleteChild ==
    /\ pc \in {"rollback", "delete"} /\ next \in known
    /\ \/ /\ child[next] # "scheduled"
          /\ child' = [child EXCEPT ![next] = IF @ = "live" THEN "scheduled" ELSE @]
          /\ FinishUndo(failed) /\ UNCHANGED envVars
       \/ /\ child[next] = "scheduled"
          /\ UNCHANGED <<child, envVars>> /\ FinishUndo(TRUE)
       \/ /\ Disrupt("delete")
          /\ \/ UNCHANGED child
             \/ child' = [child EXCEPT ![next] = IF @ = "live" THEN "scheduled" ELSE @]
          /\ FinishUndo(TRUE)
    /\ UNCHANGED row

\* The ID of a child that was not created or not stored is a nil pointer:
\* following it ends the controller's process.
NilPointer ==
    /\ pc = "delete" /\ next \notin known
    /\ EndRound("delete", FALSE)
    /\ UNCHANGED <<row, child, envVars>>

\* The deletion is confirmed, and the API removes a row whose deletion is.
Confirmed == [row EXCEPT !.reconciled = TRUE]
Removed == [row EXCEPT !.st = "gone"]

ConfirmDeletion ==
    /\ pc = "confirm"
    /\ row' = Confirmed
    /\ pc' = "remove"
    /\ UNCHANGED <<child, notif, stackVars, envVars>>

RemoveRow ==
    /\ pc = "remove"
    /\ row' = Removed
    /\ EndRound("delete", TRUE)
    /\ UNCHANGED <<child, envVars>>

\* The whole deletion is run again.
FinishFails ==
    /\ Disrupt("store")
    /\ \/ pc = "confirm" /\ row' \in {row, Confirmed}
       \/ pc = "remove" /\ row' \in {row, Removed}
    /\ EndRound("delete", FALSE)
    /\ UNCHANGED child

Crash ==
    /\ pc # "idle" /\ Disrupt("crash")
    /\ EndRound("create", FALSE)
    /\ UNCHANGED <<row, child>>

Round ==
    \/ \E e \in Events : Obsolete(e) \/ NothingToDo(e)
    \/ StartCreate \/ CreateChild \/ CreateChildFails \/ StoreIds \/ StoreIdsFails
    \/ StartDelete \/ DeleteChild \/ NilPointer
    \/ ConfirmDeletion \/ RemoveRow \/ FinishFails

Next ==
    \/ RequestUpdate \/ RequestDeletion
    \/ \E k \in Children : Toggle(k) \/ ChildRemoved(k)
    \/ Round \/ Crash

\* The loop goes on, whichever notification it is given; children whose
\* deletion is scheduled are removed.
Take(e) ==
    \/ Obsolete(e) \/ NothingToDo(e)
    \/ e = "create" /\ StartCreate
    \/ e = "delete" /\ StartDelete

Fairness ==
    /\ WF_vars(Round)
    /\ \A e \in Events : SF_vars(Take(e))
    /\ \A k \in Children : WF_vars(ChildRemoved(k))

Spec == Init /\ [][Next]_vars
FairSpec == Spec /\ Fairness

------------------------------------------------------------------------------
(* Properties *)

\* The variables keep their types; the reconciler is at an operation of its
\* stack, and what it rolls back it has created.
TypeOK ==
    /\ row \in Row /\ 1 \in row.enabled
    /\ child \in [Children -> {"none", "live", "scheduled"}]
    /\ notif \in [Events -> {"none", "ready", "settled"}]
    /\ pc \in {"idle", "create", "rollback", "store", "delete", "confirm", "remove"}
    /\ next \in 0..N
    /\ ops \subseteq Children /\ known \subseteq Children
    /\ pc # "idle" => next \in ops
    /\ pc = "rollback" => next \in known
    /\ failed \in BOOLEAN
    /\ disrupted \subseteq DisruptionKinds
    /\ disruptions \in Nat

\* Children do not outlive the stack they belong to: when its row is gone the
\* deletion of each is at least under way, whatever calls failed and however
\* often creation and deletion were begun, as long as what is enabled stays so.
NoOrphanedChildren ==
    row.st = "gone" /\ "toggle" \notin disrupted => \A k \in Children : child[k] # "live"

\* The row has the IDs of all its children or of none, and children whose
\* IDs it has are there until its own deletion: no later, failing round of
\* Created rolls them back.
IdsAreWhole ==
    "toggle" \notin disrupted =>
        /\ row.ids \in {{}, row.enabled}
        /\ ~row.scheduled => \A k \in row.ids : child[k] = "live"

\* A stack whose creation is refused, in whatever part, is created in the end:
\* what came before is rolled back and made again once its name is free.
Whole == row.ids # {}
CreationCompletes ==
    (row.st = "live" /\ ~Whole)
        ~> (Whole \/ row.scheduled \/ ~(disrupted \subseteq {"create"}))

\* The deletion of a stack that is whole completes, whatever fails: children
\* under deletion are errors until they are gone.
WholeDeletionCompletes ==
    (row.scheduled /\ Whole /\ pc = "idle") ~> (row.st = "gone" \/ "toggle" \in disrupted)
=============================================================================
