------------------------------ MODULE EksRuntime ------------------------------
(***************************************************************************)
(* The reconciliation of an AWS EKS runtime instance, which takes longer   *)
(* than a lock or a message may be held.  Created starts a goroutine that  *)
(* builds the cluster, requeues its notification and polls.  The goroutine *)
(* keeps an acknowledgement in the row fresh, stores the inventory of what *)
(* exists as it grows, and records its failure; an acknowledgement gone    *)
(* stale is how the next Created learns that a controller died building.   *)
(* Deleted works alike, without the freshness.                             *)
(*                                                                         *)
(* The AWS resources are 1..Steps, built in this order and deleted in the  *)
(* reverse; resource 1 is the VPC and resource Steps the cluster add-on.   *)
(* An inventory is how many of them are known.  The lock is taken as what  *)
(* ReconcileLoop shows it to be: one notification is worked on at a time.  *)
(***************************************************************************)
EXTENDS Naturals, FiniteSets

CONSTANTS
    Steps,           \* number of AWS resources of a cluster
    Builders,        \* goroutines that may build or delete at a time
    Disruptions,     \* kinds of disruption the environment may cause
    MaxDisruptions   \* bound on how many it causes

DisruptionKinds == {"api", "infra", "crash", "outage", "delete"}

ASSUME StepsAssumption == Steps \in Nat \ {0}
ASSUME DisruptionsAssumption ==
    Disruptions \subseteq DisruptionKinds /\ MaxDisruptions \in Nat

VARIABLES
    row,         \* the instance in the database
    aws,         \* the resources that exist
    todo,        \* operations with a notification not yet settled
    worker,      \* the controller's loop: where it is and the row it read
    builder,     \* goroutine -> what it does, knows, and captured
    disruptions

vars == <<row, aws, todo, worker, builder, disruptions>>

Operations == {"created", "updated", "deleted"}
Row == [live : BOOLEAN, reconciled : BOOLEAN, ack : {"none", "fresh", "stale"},
        failed : BOOLEAN, confirmed : BOOLEAN, inventory : 0 .. Steps,
        scheduled : BOOLEAN, deletionAck : BOOLEAN, deletionConfirmed : BOOLEAN]
NewRow == [live |-> TRUE, reconciled |-> FALSE, ack |-> "none", failed |-> FALSE,
           confirmed |-> FALSE, inventory |-> 0, scheduled |-> FALSE, deletionAck |-> FALSE,
           deletionConfirmed |-> FALSE]

\* "have" is the goroutine's inventory, "unsent" that it is blocked sending it,
\* "out" the one the storing goroutine has taken and not yet stored, "object"
\* the instance refreshAcknowledgement was started with.
NoPayload == [reconciled |-> FALSE, inventory |-> 0]
Builder == [st : {"idle", "creating", "failing", "quitting", "deleting"},
            have : 0 .. Steps, unsent : BOOLEAN, out : SUBSET (0 .. Steps),
            object : [reconciled : BOOLEAN, inventory : 0 .. Steps]]
NoBuilder == [st |-> "idle", have |-> 0, unsent |-> FALSE, out |-> {}, object |-> NoPayload]

\* "seen" is the row as the loop last fetched it.
Worker == [at : {"idle", "created", "check", "confirm", "start", "mark", "deleted",
                 "startDelete", "confirmDeletion", "remove"},
           op : Operations, seen : Row]
Idle == [at |-> "idle", op |-> "created", seen |-> NewRow]

Refreshing(b) == builder[b].st \in {"creating", "failing", "quitting"}

Disrupt(kind) ==
    /\ kind \in Disruptions
    /\ disruptions < MaxDisruptions
    /\ disruptions' = disruptions + 1

\* What a PATCH with a whole instance may change: the rest of the instance is
\* nil, or was set before and for good.
Payload(object) == [reconciled |-> object.reconciled, inventory |-> object.inventory]

\* A field the payload does not have (a nil pointer) is left alone.
Merge(payload) ==
    [row EXCEPT !.reconciled = payload.reconciled,
                !.inventory = IF payload.inventory = 0 THEN @ ELSE payload.inventory]

\* The PATCH that acknowledges a creation, or refreshes the acknowledgement.
Acknowledge(payload) == [Merge(payload) EXCEPT !.ack = "fresh", !.failed = FALSE]

\* The Update handler notifies the controller of a row left unreconciled.  A
\* row that is gone answers 404 and nothing happens.
Patch(newRow) ==
    IF row.live
    THEN /\ row' = newRow
         /\ todo' = IF newRow.reconciled THEN todo ELSE todo \union {"updated"}
    ELSE UNCHANGED <<row, todo>>

Requeue == worker' = Idle
Goto(l) == worker' = [worker EXCEPT !.at = l]

Init ==
    /\ row = NewRow
    /\ aws = {}
    /\ todo = {"created"}
    /\ worker = Idle
    /\ builder = [b \in Builders |-> NoBuilder]
    /\ disruptions = 0

------------------------------------------------------------------------------
(* The controller's loop *)

\* The latest row is fetched first; an object that is gone needs no work.
Pull(op) ==
    /\ worker.at = "idle" /\ op \in todo
    /\ IF row.live
       THEN /\ worker' = [at |-> IF op = "updated" THEN "mark" ELSE op,
                          op |-> op, seen |-> row]
            /\ UNCHANGED todo
       ELSE todo' = todo \ {op} /\ UNCHANGED worker
    /\ UNCHANGED <<row, aws, builder, disruptions>>

SkipCreated ==
    /\ worker.at = "created" /\ worker.seen.scheduled
    /\ Goto("mark")
    /\ UNCHANGED <<row, aws, todo, builder, disruptions>>

\* Created fetches the row once more, and does nothing if confirmed.
RereadCreated ==
    /\ worker.at = "created" /\ ~worker.seen.scheduled /\ row.live
    /\ worker' = [worker EXCEPT !.at = IF row.confirmed THEN "mark" ELSE "check",
                                !.seen = row]
    /\ UNCHANGED <<row, aws, todo, builder, disruptions>>

Acknowledged == worker.seen.ack # "none" /\ ~worker.seen.failed

\* Variant: an acknowledgement is waited for however old it is.
StillCreatingForever ==
    /\ worker.at = "check" /\ Acknowledged /\ row.inventory # Steps
    /\ Requeue
    /\ UNCHANGED <<row, aws, todo, builder, disruptions>>

\* The inventory is read afresh, and the add-on is in it or not.
StillCreating ==
    /\ worker.at = "check" /\ Acknowledged /\ row.inventory # Steps
    /\ worker.seen.ack = "fresh"
    /\ Requeue
    /\ UNCHANGED <<row, aws, todo, builder, disruptions>>

FoundCreated ==
    /\ worker.at = "check" /\ Acknowledged /\ row.inventory = Steps
    /\ Goto("confirm")
    /\ UNCHANGED <<row, aws, todo, builder, disruptions>>

ConfirmCreation ==
    /\ worker.at = "confirm" /\ row.live
    /\ Patch([row EXCEPT !.reconciled = TRUE, !.confirmed = TRUE])
    /\ Goto("mark")
    /\ UNCHANGED <<aws, builder, disruptions>>

\* Variant: whoever finds a row not confirmed builds.
AcknowledgeAnyway ==
    /\ worker.at = "check" /\ row.live /\ row.inventory # Steps
    /\ Patch(Acknowledge(Payload(worker.seen)))
    /\ Goto("start")
    /\ UNCHANGED <<aws, builder, disruptions>>

\* A new request, a failed creation or an interrupted one.  The PATCH carries
\* the whole row as it was read.
AcknowledgeCreation ==
    /\ worker.at = "check" /\ row.live
    /\ ~Acknowledged \/ (worker.seen.ack = "stale" /\ row.inventory # Steps)
    /\ Patch(Acknowledge(Payload(worker.seen)))
    /\ Goto("start")
    /\ UNCHANGED <<aws, builder, disruptions>>

Free(b) == builder[b] = NoBuilder

StartCreation(b) ==
    /\ worker.at = "start" /\ Free(b)
    /\ builder' = [builder EXCEPT ![b] =
          [NoBuilder EXCEPT !.st = "creating", !.have = worker.seen.inventory,
                            !.object = Payload(worker.seen)]]
    /\ Requeue
    /\ UNCHANGED <<row, aws, todo, disruptions>>

StartDeletion(b) ==
    /\ worker.at = "startDelete" /\ Free(b)
    /\ builder' = [builder EXCEPT ![b] =
          [NoBuilder EXCEPT !.st = "deleting", !.have = worker.seen.inventory]]
    /\ Requeue
    /\ UNCHANGED <<row, aws, todo, disruptions>>

\* Updated does nothing; every operation but Deleted ends here.
MarkReconciled ==
    /\ worker.at = "mark" /\ row.live
    /\ row' = [row EXCEPT !.reconciled = TRUE]
    /\ todo' = todo \ {worker.op}
    /\ Requeue
    /\ UNCHANGED <<aws, builder, disruptions>>

AcknowledgeDeletion ==
    /\ worker.at = "deleted" /\ row.live
    /\ ~worker.seen.deletionAck /\ ~worker.seen.deletionConfirmed
    /\ Patch([Merge(worker.seen) EXCEPT
                !.deletionAck = TRUE, !.failed = worker.seen.failed,
                !.ack = IF worker.seen.ack = "none" THEN @ ELSE worker.seen.ack])
    /\ Goto("startDelete")
    /\ UNCHANGED <<aws, builder, disruptions>>

StillDeleting ==
    /\ worker.at = "deleted" /\ worker.seen.deletionAck /\ ~worker.seen.deletionConfirmed
    /\ row.inventory # 0
    /\ Requeue
    /\ UNCHANGED <<row, aws, todo, builder, disruptions>>

\* No VPC in the inventory, or an earlier round got no further than confirming.
FoundDeleted ==
    /\ worker.at = "deleted"
    /\ \/ worker.seen.deletionConfirmed
       \/ worker.seen.deletionAck /\ row.inventory = 0
    /\ Goto("confirmDeletion")
    /\ UNCHANGED <<row, aws, todo, builder, disruptions>>

ConfirmDeletion ==
    /\ worker.at = "confirmDeletion" /\ row.live
    /\ Patch([row EXCEPT !.reconciled = TRUE, !.deletionAck = TRUE, !.deletionConfirmed = TRUE])
    /\ Goto("remove")
    /\ UNCHANGED <<aws, builder, disruptions>>

\* The API removes a row whose deletion is confirmed.
RemoveRow ==
    /\ worker.at = "remove" /\ row.live /\ row.deletionConfirmed
    /\ row' = [row EXCEPT !.live = FALSE]
    /\ todo' = todo \ {"deleted"}
    /\ Requeue
    /\ UNCHANGED <<aws, builder, disruptions>>

\* A call to the API or to AWS fails: the notification is requeued.
OperationFails ==
    /\ worker.at # "idle"
    /\ Disrupt("api")
    /\ Requeue
    /\ UNCHANGED <<row, aws, todo, builder>>

WorkerStep ==
    \/ SkipCreated \/ RereadCreated \/ StillCreating \/ FoundCreated
    \/ ConfirmCreation \/ AcknowledgeCreation
    \/ \E b \in Builders : StartCreation(b) \/ StartDeletion(b)
    \/ MarkReconciled \/ AcknowledgeDeletion \/ StillDeleting
    \/ FoundDeleted \/ ConfirmDeletion \/ RemoveRow \/ OperationFails

------------------------------------------------------------------------------
(* The goroutines: building or deleting, storing inventories, refreshing *)

\* Variant: a resumed creation does not see that everything exists.
CreateOnceMore(b) ==
    /\ builder[b].st = "creating" /\ ~builder[b].unsent
    /\ aws' = aws \union {builder[b].have + 1}
    /\ builder' = [builder EXCEPT ![b].have = @ + 1, ![b].unsent = TRUE]
    /\ UNCHANGED <<row, todo, worker, disruptions>>

\* A resource that the inventory has is not created again.
CreateResource(b) ==
    /\ builder[b].st = "creating" /\ ~builder[b].unsent /\ builder[b].have < Steps
    /\ aws' = aws \union {builder[b].have + 1}
    /\ builder' = [builder EXCEPT ![b].have = @ + 1, ![b].unsent = TRUE]
    /\ UNCHANGED <<row, todo, worker, disruptions>>

DeleteResource(b) ==
    /\ builder[b].st = "deleting" /\ ~builder[b].unsent /\ builder[b].have > 0
    /\ aws' = aws \ {builder[b].have}
    /\ builder' = [builder EXCEPT ![b].have = @ - 1, ![b].unsent = TRUE]
    /\ UNCHANGED <<row, todo, worker, disruptions>>

\* The inventory channel has no buffer.
SendInventory(b) ==
    /\ builder[b].unsent /\ builder[b].out = {}
    /\ builder' = [builder EXCEPT ![b].unsent = FALSE, ![b].out = {builder[b].have}]
    /\ UNCHANGED <<row, aws, todo, worker, disruptions>>

\* Variant: the add-on is recorded when its creation starts.
StoreAhead(b) ==
    \E k \in builder[b].out :
        /\ builder' = [builder EXCEPT ![b].out = {}]
        /\ Patch([row EXCEPT !.inventory = IF k < Steps THEN k + 1 ELSE k])
        /\ UNCHANGED <<aws, worker, disruptions>>

\* A failed PATCH is logged; the next one carries everything again.
StoreInventory(b) ==
    \E k \in builder[b].out :
        /\ builder' = [builder EXCEPT ![b].out = {}]
        /\ \/ Patch([row EXCEPT !.inventory = k]) /\ UNCHANGED disruptions
           \/ Disrupt("api") /\ UNCHANGED <<row, todo>>
        /\ UNCHANGED <<aws, worker>>

\* Create returns, with or without an error; a deletion just ends.
CreateReturns(b) ==
    /\ builder[b].st = "creating" /\ ~builder[b].unsent
    /\ \/ /\ builder[b].have = Steps /\ UNCHANGED disruptions
          /\ builder' = [builder EXCEPT ![b].st = "quitting"]
       \/ /\ Disrupt("infra")
          /\ builder' = [builder EXCEPT ![b].st = "failing"]
    /\ UNCHANGED <<row, aws, todo, worker>>

DeleteReturns(b) ==
    /\ builder[b].st = "deleting" /\ ~builder[b].unsent
    /\ \/ builder[b].have = 0 /\ UNCHANGED disruptions
       \/ Disrupt("infra")
    /\ builder' = [builder EXCEPT ![b] = [NoBuilder EXCEPT !.out = builder[b].out]]
    /\ UNCHANGED <<row, aws, todo, worker>>

\* Retried until the API accepts it.
PersistCreateFailure(b) ==
    /\ builder[b].st = "failing" /\ row.live
    /\ Patch([row EXCEPT !.failed = TRUE])
    /\ builder' = [builder EXCEPT ![b].st = "quitting"]
    /\ UNCHANGED <<aws, worker, disruptions>>

\* The PATCH carries the whole instance as it was when the creation started.
Refresh(b) ==
    /\ Refreshing(b)
    /\ Patch(Acknowledge(builder[b].object))
    /\ UNCHANGED <<aws, worker, builder, disruptions>>

Quit(b) ==
    /\ builder[b].st = "quitting"
    /\ builder' = [builder EXCEPT ![b] = [NoBuilder EXCEPT !.out = builder[b].out]]
    /\ UNCHANGED <<row, aws, todo, worker, disruptions>>

BuilderStep(b) ==
    \/ CreateResource(b) \/ DeleteResource(b) \/ SendInventory(b)
    \/ CreateReturns(b) \/ DeleteReturns(b) \/ PersistCreateFailure(b) \/ Quit(b)

------------------------------------------------------------------------------
(* The environment *)

\* 240 seconds pass since the acknowledgement.  Refreshed every 60, it gets
\* that old under a refreshing goroutine only if the API is out for so long;
\* starting the goroutine after acknowledging does not take that long.
AckAges ==
    /\ row.live /\ row.ack = "fresh" /\ worker.at # "start"
    /\ row' = [row EXCEPT !.ack = "stale"]
    /\ IF \E b \in Builders : Refreshing(b) THEN Disrupt("outage") ELSE UNCHANGED disruptions
    /\ UNCHANGED <<aws, todo, worker, builder>>

RequestDeletion ==
    /\ row.live /\ ~row.scheduled
    /\ Disrupt("delete")
    /\ row' = [row EXCEPT !.scheduled = TRUE, !.reconciled = FALSE]
    /\ todo' = todo \union {"deleted"}
    /\ UNCHANGED <<aws, worker, builder>>

\* The controller dies and is restarted; its goroutines are gone.
Crash ==
    /\ Disrupt("crash")
    /\ worker' = Idle
    /\ builder' = [b \in Builders |-> NoBuilder]
    /\ UNCHANGED <<row, aws, todo>>

Next ==
    \/ \E op \in Operations : Pull(op)
    \/ WorkerStep
    \/ \E b \in Builders : BuilderStep(b) \/ StoreInventory(b) \/ Refresh(b)
    \/ AckAges \/ RequestDeletion \/ Crash

\* Goroutines run, time passes, and JetStream delivers every unsettled
\* notification again and again, so that each has its turn at the lock.
Fairness ==
    /\ WF_vars(WorkerStep) /\ WF_vars(AckAges)
    /\ \A op \in Operations : SF_vars(Pull(op))
    /\ \A b \in Builders : WF_vars(BuilderStep(b)) /\ WF_vars(StoreInventory(b))

Spec == Init /\ [][Next]_vars
FairSpec == Spec /\ Fairness

------------------------------------------------------------------------------
(* Properties *)

\* The variables keep their types.
TypeOK ==
    /\ row \in Row
    /\ aws \subseteq 1 .. Steps
    /\ todo \subseteq Operations
    /\ worker \in Worker
    /\ builder \in [Builders -> Builder]
    /\ disruptions \in Nat

\* One goroutine at a time builds a cluster, although Created returns while
\* it builds, is run again every 90 seconds, and must take over from a
\* goroutine that died: what the acknowledgement and its refreshing are for.
OneCreator == Cardinality({b \in Builders : builder[b].st = "creating"}) <= 1

\* A creation is confirmed only when every resource exists, whichever of the
\* goroutines' inventories was stored last.
ConfirmedIsBuilt == row.live /\ row.confirmed /\ ~row.scheduled => aws = 1 .. Steps

\* "in each case we will attempt to create/resume creation": a creation that
\* was interrupted or failed is taken up again.
CreationResumed ==
    (row.live /\ ~row.confirmed /\ ~row.scheduled)
        ~> (row.confirmed \/ row.scheduled \/ \E b \in Builders : builder[b].st = "creating")

\* "if it's ID is removed, all resources are deleted": no AWS resource
\* outlives the row, and none is built after it.
NoOrphans == ~row.live => aws = {}
==============================================================================
