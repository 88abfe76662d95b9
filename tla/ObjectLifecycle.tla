--------------------------- MODULE ObjectLifecycle ---------------------------
(***************************************************************************)
(* The life of one reconciled object from the request that adds its row to *)
(* the soft delete that removes it: the API server's generated Add, Update *)
(* and Delete handlers, the notifications they publish, and the controller *)
(* loop that fetches the latest row, runs the operation the notification   *)
(* names, and writes the outcome back.  Every kind with a generated        *)
(* reconciler has this life; WorkloadInstance's handlers and reconciler    *)
(* stand for all of them.                                                  *)
(*                                                                         *)
(* The operations themselves differ by kind.  Here they do what the loop   *)
(* expects of them: building is not instantaneous and may be cut short,    *)
(* an update of something not built yet does nothing, and a deletion that  *)
(* returns without error has removed what was built.                       *)
(***************************************************************************)
EXTENDS Naturals

CONSTANTS
    Workers,         \* controllers running the object's reconciler
    Requests,        \* API requests clients may make, one each
    None,
    Disruptions,     \* kinds of disruption the environment may cause
    MaxDisruptions   \* bound on how many it causes

DisruptionKinds == {"publish", "api", "op", "crash", "nats", "lapse"}

ASSUME NoneAssumption == None \notin Workers /\ None \notin Requests
ASSUME DisruptionsAssumption ==
    Disruptions \subseteq DisruptionKinds /\ MaxDisruptions \in Nat

VARIABLES
    row,         \* the object's row in the database
    world,       \* what exists outside for it, and from which spec
    req,         \* request -> the handler serving it
    notif,       \* request -> the notification it published
    lock,        \* the object's key in the lock bucket
    pc,          \* worker -> where its loop is
    cur,         \* worker -> the notification it holds
    seen,        \* worker -> the row as GetLatest returned it
    disruptions

vars == <<row, world, req, notif, lock, pc, cur, seen, disruptions>>
apiVars == <<row, req>>
loopVars == <<pc, cur, seen>>

Row == [state : {"absent", "live", "gone"}, spec : Nat, reconciled : BOOLEAN,
        scheduled : BOOLEAN, confirmed : BOOLEAN]
NoRow == [state |-> "absent", spec |-> 0, reconciled |-> FALSE,
          scheduled |-> FALSE, confirmed |-> FALSE]
World == [st : {"none", "partial", "built"}, spec : Nat]
Nothing == [st |-> "none", spec |-> 0]
Service == [op : {"none", "create", "update", "delete"},
            at : {"idle", "write", "publish", "done"},
            scheduled : BOOLEAN, confirmed : BOOLEAN]
NotServed == [op |-> "none", at |-> "idle", scheduled |-> FALSE, confirmed |-> FALSE]

Live == row.state = "live"

\* From Lock to ReleaseLock.
WorkStates == {"get", "operate", "apply", "clean", "mark", "confirm", "remove",
               "release"}
Working(w) == pc[w] \in WorkStates

Goto(w, l) == pc' = [pc EXCEPT ![w] = l]

\* The next round starts from nothing.
NextRound(w) ==
    /\ Goto(w, "idle")
    /\ cur' = [cur EXCEPT ![w] = None]
    /\ seen' = [seen EXCEPT ![w] = NoRow]

Disrupt(kind) ==
    /\ kind \in Disruptions
    /\ disruptions < MaxDisruptions
    /\ disruptions' = disruptions + 1

Init ==
    /\ row = NoRow
    /\ world = Nothing
    /\ req = [r \in Requests |-> NotServed]
    /\ notif = [r \in Requests |-> "none"]
    /\ lock = None
    /\ pc = [w \in Workers |-> "idle"]
    /\ cur = [w \in Workers |-> None]
    /\ seen = [w \in Workers |-> NoRow]
    /\ disruptions = 0

------------------------------------------------------------------------------
(* The API server's handlers.  Between reading a row and writing it, and    *)
(* between writing it and publishing, other handlers run.                   *)

\* POST: the row does not exist yet, so nobody else can touch it.
Add(r) ==
    /\ req[r].at = "idle" /\ row.state = "absent"
    /\ row' = [NoRow EXCEPT !.state = "live", !.spec = 1]
    /\ req' = [req EXCEPT ![r] = [NotServed EXCEPT !.op = "create", !.at = "publish"]]
    /\ UNCHANGED <<world, notif, lock, loopVars, disruptions>>

\* PATCH of a spec field with Reconciled false, the form that asks for work.
ReadForUpdate(r) ==
    /\ req[r].at = "idle" /\ Live
    /\ req' = [req EXCEPT ![r] = [NotServed EXCEPT !.op = "update", !.at = "write"]]
    /\ UNCHANGED <<row, world, notif, lock, loopVars, disruptions>>

\* Variant: notify only when the row was reconciled before.
NotifyOnTransition(r) ==
    /\ req[r].op = "update" /\ req[r].at = "write"
    /\ row' = IF Live THEN [row EXCEPT !.spec = @ + 1, !.reconciled = FALSE] ELSE row
    /\ req' = [req EXCEPT ![r].at = IF row.reconciled THEN "publish" ELSE "done"]
    /\ UNCHANGED <<world, notif, lock, loopVars, disruptions>>

\* A row soft-deleted since it was read matches no UPDATE; the handler goes
\* on as if it had.
WriteUpdate(r) ==
    /\ req[r].op = "update" /\ req[r].at = "write"
    /\ row' = IF Live THEN [row EXCEPT !.spec = @ + 1, !.reconciled = FALSE] ELSE row
    /\ req' = [req EXCEPT ![r].at = "publish"]
    /\ UNCHANGED <<world, notif, lock, loopVars, disruptions>>

ReadForDelete(r) ==
    /\ req[r].at = "idle" /\ Live
    /\ req' = [req EXCEPT ![r] = [op |-> "delete", at |-> "write",
                 scheduled |-> row.scheduled, confirmed |-> row.confirmed]]
    /\ UNCHANGED <<row, world, notif, lock, loopVars, disruptions>>

\* Variant: the deletion is scheduled and nobody told.
ScheduleSilently(r) ==
    /\ req[r].op = "delete" /\ req[r].at = "write" /\ ~req[r].scheduled
    /\ row' = IF Live THEN [row EXCEPT !.scheduled = TRUE, !.reconciled = FALSE] ELSE row
    /\ req' = [req EXCEPT ![r].at = "done"]
    /\ UNCHANGED <<world, notif, lock, loopVars, disruptions>>

ScheduleDeletion(r) ==
    /\ req[r].op = "delete" /\ req[r].at = "write" /\ ~req[r].scheduled
    /\ row' = IF Live THEN [row EXCEPT !.scheduled = TRUE, !.reconciled = FALSE] ELSE row
    /\ req' = [req EXCEPT ![r].at = "publish"]
    /\ UNCHANGED <<world, notif, lock, loopVars, disruptions>>

\* Variant: a second delete removes the row without waiting for confirmation.
FinishUnconfirmed(r) ==
    /\ req[r].op = "delete" /\ req[r].at = "write" /\ req[r].scheduled
    /\ row' = IF Live THEN [row EXCEPT !.state = "gone"] ELSE row
    /\ req' = [req EXCEPT ![r].at = "done"]
    /\ UNCHANGED <<world, notif, lock, loopVars, disruptions>>

\* 409 while the deletion is under way; the row itself once it is confirmed.
FinishDelete(r) ==
    /\ req[r].op = "delete" /\ req[r].at = "write" /\ req[r].scheduled
    /\ row' = IF Live /\ req[r].confirmed THEN [row EXCEPT !.state = "gone"] ELSE row
    /\ req' = [req EXCEPT ![r] = [NotServed EXCEPT !.op = "delete", !.at = "done"]]
    /\ UNCHANGED <<world, notif, lock, loopVars, disruptions>>

Publish(r) ==
    /\ req[r].at = "publish"
    /\ notif' = [notif EXCEPT ![r] = "ready"]
    /\ req' = [req EXCEPT ![r].at = "done"]
    /\ UNCHANGED <<row, world, lock, loopVars, disruptions>>

\* The handler ignores Publish's error, and may die before it.
PublishFails(r) ==
    /\ req[r].at = "publish"
    /\ Disrupt("publish")
    /\ req' = [req EXCEPT ![r].at = "done"]
    /\ UNCHANGED <<row, world, notif, lock, loopVars>>

HandlerStep(r) ==
    \/ WriteUpdate(r) \/ ScheduleDeletion(r) \/ FinishDelete(r)
    \/ Publish(r) \/ PublishFails(r)

------------------------------------------------------------------------------
(* The controller's loop *)

\* Variant: the message is not remembered.
BeginForgetful(w, r) ==
    /\ pc[w] = "idle" /\ notif[r] = "ready" /\ lock = None
    /\ lock' = w
    /\ notif' = [notif EXCEPT ![r] = "delivered"]
    /\ Goto(w, "get")
    /\ UNCHANGED <<apiVars, world, cur, seen, disruptions>>

\* Pull, CheckLock and Lock.  A message pulled while the object is locked is
\* handed back and leaves no trace.
Begin(w, r) ==
    /\ pc[w] = "idle" /\ notif[r] = "ready" /\ lock = None
    /\ lock' = w
    /\ notif' = [notif EXCEPT ![r] = "delivered"]
    /\ cur' = [cur EXCEPT ![w] = r]
    /\ Goto(w, "get")
    /\ UNCHANGED <<apiVars, world, seen, disruptions>>

\* UnlockAndRequeue, then the next round.  NakWithDelay may be lost.
Requeue(w) ==
    /\ lock' = None
    /\ \/ notif' = notif
       \/ notif' = [notif EXCEPT ![cur[w]] = IF @ = "acked" THEN @ ELSE "ready"]
    /\ NextRound(w)
    /\ UNCHANGED req

GetLatest(w) ==
    /\ pc[w] = "get"
    /\ IF Live
       THEN seen' = [seen EXCEPT ![w] = row] /\ Goto(w, "operate")
       ELSE UNCHANGED seen /\ Goto(w, "release")
    /\ UNCHANGED <<apiVars, world, notif, lock, cur, disruptions>>

SkipCreate(w) ==
    /\ pc[w] = "operate" /\ req[cur[w]].op = "create" /\ seen[w].scheduled
    /\ Goto(w, "mark")
    /\ UNCHANGED <<apiVars, world, notif, lock, cur, seen, disruptions>>

\* An update finds nothing to change.
SkipUpdate(w) ==
    /\ pc[w] = "operate" /\ req[cur[w]].op = "update" /\ world.st = "none"
    /\ Goto(w, "mark")
    /\ UNCHANGED <<apiVars, world, notif, lock, cur, seen, disruptions>>

\* Variant: nothing looks at DeletionScheduled.
StartApplyAlways(w) ==
    /\ pc[w] = "operate"
    /\ req[cur[w]].op = "create" \/ (req[cur[w]].op = "update" /\ world.st # "none")
    /\ world' = [world EXCEPT !.st = "partial"]
    /\ Goto(w, "apply")
    /\ UNCHANGED <<apiVars, notif, lock, cur, seen, disruptions>>

\* Only Created looks at DeletionScheduled.
StartApply(w) ==
    /\ pc[w] = "operate"
    /\ \/ req[cur[w]].op = "create" /\ ~seen[w].scheduled
       \/ req[cur[w]].op = "update" /\ world.st # "none"
    /\ world' = [world EXCEPT !.st = "partial"]
    /\ Goto(w, "apply")
    /\ UNCHANGED <<apiVars, notif, lock, cur, seen, disruptions>>

FinishApply(w) ==
    /\ pc[w] = "apply"
    /\ world' = [st |-> "built", spec |-> seen[w].spec]
    /\ Goto(w, "mark")
    /\ UNCHANGED <<apiVars, notif, lock, cur, seen, disruptions>>

\* A deletion already confirmed has nothing left to remove.  The error for a
\* deletion that is not scheduled is not modelled: only PUT unschedules one.
StartClean(w) ==
    /\ pc[w] = "operate" /\ req[cur[w]].op = "delete" /\ seen[w].scheduled
    /\ IF seen[w].confirmed
       THEN UNCHANGED world /\ Goto(w, "confirm")
       ELSE /\ world' = IF world.st = "none" THEN world ELSE [world EXCEPT !.st = "partial"]
            /\ Goto(w, "clean")
    /\ UNCHANGED <<apiVars, notif, lock, cur, seen, disruptions>>

FinishClean(w) ==
    /\ pc[w] = "clean"
    /\ world' = Nothing
    /\ Goto(w, "confirm")
    /\ UNCHANGED <<apiVars, notif, lock, cur, seen, disruptions>>

\* The operation fails, or asks to be run again later.
OperationRequeued(w) ==
    /\ pc[w] \in {"operate", "apply", "clean"}
    /\ Disrupt("op")
    /\ Requeue(w)
    /\ UNCHANGED <<row, world>>

\* Variant: the result of the reconciliation is not written back.
MarkNothing(w) ==
    /\ pc[w] = "mark" /\ Live
    /\ Goto(w, "release")
    /\ UNCHANGED <<apiVars, world, notif, lock, cur, seen, disruptions>>

MarkReconciled(w) ==
    /\ pc[w] = "mark" /\ Live
    /\ row' = [row EXCEPT !.reconciled = TRUE]
    /\ Goto(w, "release")
    /\ UNCHANGED <<req, world, notif, lock, cur, seen, disruptions>>

ConfirmDeletion(w) ==
    /\ pc[w] = "confirm" /\ Live
    /\ row' = [row EXCEPT !.confirmed = TRUE, !.reconciled = TRUE]
    /\ Goto(w, "remove")
    /\ UNCHANGED <<req, world, notif, lock, cur, seen, disruptions>>

\* The Delete handler, called by the controller.
RemoveRow(w) ==
    /\ pc[w] = "remove" /\ Live /\ row.scheduled /\ row.confirmed
    /\ row' = [row EXCEPT !.state = "gone"]
    /\ Goto(w, "release")
    /\ UNCHANGED <<req, world, notif, lock, cur, seen, disruptions>>

\* 404 from a PATCH or a DELETE is an error like any other.
RowVanished(w) ==
    /\ pc[w] \in {"mark", "confirm", "remove"} /\ ~Live
    /\ Requeue(w)
    /\ UNCHANGED <<row, world, disruptions>>

\* A call to the API fails; a write may have happened all the same.
ApiFails(w) ==
    /\ pc[w] \in {"get", "mark", "confirm", "remove"}
    /\ Disrupt("api")
    /\ \/ row' = row
       \/ pc[w] = "mark" /\ Live /\ row' = [row EXCEPT !.reconciled = TRUE]
       \/ pc[w] = "confirm" /\ Live /\ row' = [row EXCEPT !.confirmed = TRUE, !.reconciled = TRUE]
       \/ pc[w] = "remove" /\ Live /\ row' = [row EXCEPT !.state = "gone"]
    /\ Requeue(w)
    /\ UNCHANGED world

Release(w) ==
    /\ pc[w] = "release"
    /\ lock' = None
    /\ Goto(w, "ack")
    /\ UNCHANGED <<apiVars, world, notif, cur, seen, disruptions>>

Ack(w) ==
    /\ pc[w] = "ack"
    /\ \/ notif' = [notif EXCEPT ![cur[w]] = "acked"] /\ UNCHANGED disruptions
       \/ Disrupt("nats") /\ UNCHANGED notif
    /\ NextRound(w)
    /\ UNCHANGED <<apiVars, world, lock>>

LoopStep(w) ==
    \/ \E r \in Requests : Begin(w, r)
    \/ GetLatest(w) \/ SkipCreate(w) \/ SkipUpdate(w)
    \/ StartApply(w) \/ FinishApply(w) \/ StartClean(w) \/ FinishClean(w)
    \/ OperationRequeued(w)
    \/ MarkReconciled(w) \/ ConfirmDeletion(w) \/ RemoveRow(w)
    \/ RowVanished(w) \/ ApiFails(w) \/ Release(w) \/ Ack(w)

------------------------------------------------------------------------------
(* NATS and Kubernetes *)

\* The controller's process dies and is started again; its lock stays.
Crash(w) ==
    /\ pc[w] # "idle"
    /\ Disrupt("crash")
    /\ NextRound(w)
    /\ UNCHANGED <<apiVars, world, notif, lock>>

AckWait(r) ==
    /\ notif[r] = "delivered"
    /\ notif' = [notif EXCEPT ![r] = "ready"]
    /\ UNCHANGED <<apiVars, world, lock, loopVars, disruptions>>

\* TTL: of a dead controller's lock or, a disruption, of a working one's.
ExpireLock ==
    /\ lock # None
    /\ lock' = None
    /\ IF \E w \in Workers : Working(w) THEN Disrupt("lapse") ELSE UNCHANGED disruptions
    /\ UNCHANGED <<apiVars, world, notif, loopVars>>

Next ==
    \/ \E r \in Requests :
          \/ Add(r) \/ ReadForUpdate(r) \/ ReadForDelete(r)
          \/ HandlerStep(r) \/ AckWait(r)
    \/ \E w \in Workers : LoopStep(w) \/ Crash(w)
    \/ ExpireLock

\* Handlers run to their end, controllers keep looping, NATS fires its
\* timers.  Clients owe no request and the environment no disruption.
Fairness ==
    /\ \A r \in Requests : WF_vars(HandlerStep(r)) /\ WF_vars(AckWait(r))
    /\ \A w \in Workers : WF_vars(LoopStep(w))
    /\ WF_vars(ExpireLock)

Spec == Init /\ [][Next]_vars
FairSpec == Spec /\ Fairness

------------------------------------------------------------------------------
(* Properties *)

\* The variables keep their types.
TypeOK ==
    /\ row \in Row
    /\ world \in World
    /\ req \in [Requests -> Service]
    /\ notif \in [Requests -> {"none", "ready", "delivered", "acked"}]
    /\ lock \in Workers \union {None}
    /\ pc \in [Workers -> WorkStates \union {"idle", "ack"}]
    /\ cur \in [Workers -> Requests \union {None}]
    /\ \A w \in Workers : pc[w] # "idle" => cur[w] \in Requests
    /\ seen \in [Workers -> Row]
    /\ disruptions \in Nat

\* Once the row is gone nothing of the object is left outside and nothing is
\* built again, although Created and Updated notifications outlive the
\* deletion, are retried, and are worked on by other controllers.
NoLeftovers == row.state = "gone" => world = Nothing

\* "the first change is completed and then the second change is executed":
\* when every notification is settled and no request is in flight, a live
\* object is what its last accepted change says, and marked reconciled.  A
\* single controller keeps this whatever fails, short of a notification never
\* published.  Two controllers and a failed operation are too much for it: the
\* one that has unlocked an object acknowledges the message the other has
\* failed on.
Quiet ==
    /\ \A r \in Requests : req[r].at \in {"idle", "done"} /\ notif[r] \in {"none", "acked"}
    /\ \A w \in Workers : pc[w] = "idle"
Solo == (\A v, w \in Workers : v = w) /\ "publish" \notin Disruptions
Calm == disruptions = 0 \/ Solo
Converged ==
    Quiet /\ Live /\ ~row.scheduled /\ Calm
        => world = [st |-> "built", spec |-> row.spec] /\ row.reconciled

\* Deletion, once scheduled, removes the object.
DeletionCompletes == row.scheduled ~> row.state = "gone"

\* An object that needs work is reconciled, or its deletion is asked for.
ReconciliationCompletes == (Live /\ ~row.reconciled) ~> (row.reconciled \/ row.scheduled)

\* The handlers, the notifications and the loop keep the object's contract.
Contract == INSTANCE ObjectContract WITH
    phase <- IF row.state = "live" /\ row.scheduled THEN "deleting" ELSE row.state,
    clean <- world.st = "none"
ImplementsContract == Contract!Spec
==============================================================================
