-------------------------- MODULE EksRuntimeProofs --------------------------
(***************************************************************************)
(* Theorems about EksRuntime, for any number of AWS resources, goroutines  *)
(* and disruptions: its types; that as long as the API is never out for    *)
(* longer than an acknowledgement stays fresh, one goroutine builds; and   *)
(* that a cluster is confirmed only when all of its resources exist.       *)
(***************************************************************************)
EXTENDS EksRuntime, FiniteSetTheorems, TLAPS

RowVars == row \in Row /\ todo \subseteq Operations

LEMMA PatchType ==
    ASSUME RowVars, NEW newRow \in Row, Patch(newRow)
    PROVE  RowVars'
BY DEF RowVars, Patch, Operations

LEMMA MergeType ==
    ASSUME row \in Row, NEW payload, payload.reconciled \in BOOLEAN,
           payload.inventory \in 0 .. Steps
    PROVE  Merge(payload) \in Row
BY DEF Row, Merge

LEMMA AcknowledgeType ==
    ASSUME row \in Row, NEW object, object.reconciled \in BOOLEAN,
           object.inventory \in 0 .. Steps
    PROVE  Acknowledge(object) \in Row /\ Acknowledge(Payload(object)) \in Row
<1>1. Merge(object) \in Row
  BY MergeType
<1>2. Merge(Payload(object)) \in Row
  BY MergeType DEF Payload
<1> QED
  BY <1>1, <1>2 DEF Acknowledge, Row

LEMMA InitTypeOK == Init => TypeOK
BY StepsAssumption DEF Init, TypeOK, NewRow, Row, Idle, Worker, NoBuilder, Builder,
   NoPayload, Operations

LEMMA WorkerTypeOK ==
    ASSUME TypeOK, WorkerStep
    PROVE  TypeOK'
<1> USE DEF Goto, Requeue
<1>1. Idle \in Worker /\ NoBuilder \in Builder
  BY StepsAssumption DEF Idle, Worker, NewRow, Row, NoBuilder, Builder, NoPayload, Operations
<1>2. \A l \in {"created", "check", "confirm", "start", "mark", "deleted", "startDelete",
             "confirmDeletion", "remove"} :
         [worker EXCEPT !.at = l] \in Worker
  BY DEF TypeOK, Worker
<1>3. RowVars /\ worker.seen \in Row /\ worker.op \in Operations
  BY DEF TypeOK, RowVars, Worker
<1>4. worker.seen.reconciled \in BOOLEAN /\ worker.seen.inventory \in 0 .. Steps
  BY <1>3 DEF Row
<1>5. CASE SkipCreated
  BY <1>2, <1>5 DEF TypeOK, SkipCreated
<1>6. CASE RereadCreated
  <2>1. worker' \in Worker
    BY <1>6 DEF TypeOK, RereadCreated, Worker
  <2> QED
    BY <1>6, <2>1 DEF TypeOK, RereadCreated
<1>7. CASE StillCreating
  BY <1>1, <1>7 DEF TypeOK, StillCreating
<1>8. CASE FoundCreated
  BY <1>2, <1>8 DEF TypeOK, FoundCreated
<1>9. CASE ConfirmCreation
  <2>1. [row EXCEPT !.reconciled = TRUE, !.confirmed = TRUE] \in Row
    BY <1>3 DEF RowVars, Row
  <2>2. RowVars'
    BY <1>3, <1>9, <2>1, PatchType DEF ConfirmCreation
  <2> QED
    BY <1>2, <1>9, <2>2 DEF TypeOK, ConfirmCreation, RowVars
<1>10. CASE AcknowledgeCreation
  <2>1. Acknowledge(Payload(worker.seen)) \in Row
    BY <1>3, <1>4, AcknowledgeType DEF RowVars
  <2>2. RowVars'
    BY <1>3, <1>10, <2>1, PatchType DEF AcknowledgeCreation
  <2> QED
    BY <1>2, <1>10, <2>2 DEF TypeOK, AcknowledgeCreation, RowVars
<1>11. ASSUME NEW b \in Builders, StartCreation(b) PROVE TypeOK'
  <2>1. [NoBuilder EXCEPT !.st = "creating", !.have = worker.seen.inventory,
                          !.object = Payload(worker.seen)] \in Builder
    BY <1>1, <1>4 DEF Builder, Payload
  <2> QED
    BY <1>1, <1>11, <2>1 DEF TypeOK, StartCreation
<1>12. ASSUME NEW b \in Builders, StartDeletion(b) PROVE TypeOK'
  <2>1. [NoBuilder EXCEPT !.st = "deleting", !.have = worker.seen.inventory] \in Builder
    BY <1>1, <1>4 DEF Builder
  <2> QED
    BY <1>1, <1>12, <2>1 DEF TypeOK, StartDeletion
<1>13. CASE MarkReconciled
  BY <1>1, <1>13 DEF TypeOK, MarkReconciled, Row
<1>14. CASE AcknowledgeDeletion
  <2>1. Merge(worker.seen) \in Row
    BY <1>3, <1>4, MergeType DEF RowVars
  <2>2. [Merge(worker.seen) EXCEPT
            !.deletionAck = TRUE, !.failed = worker.seen.failed,
            !.ack = IF worker.seen.ack = "none" THEN @ ELSE worker.seen.ack] \in Row
    BY <1>3, <2>1 DEF Row
  <2>3. RowVars'
    BY <1>3, <1>14, <2>2, PatchType DEF AcknowledgeDeletion
  <2> QED
    BY <1>2, <1>14, <2>3 DEF TypeOK, AcknowledgeDeletion, RowVars
<1>15. CASE StillDeleting
  BY <1>1, <1>15 DEF TypeOK, StillDeleting
<1>16. CASE FoundDeleted
  BY <1>2, <1>16 DEF TypeOK, FoundDeleted
<1>17. CASE ConfirmDeletion
  <2>1. [row EXCEPT !.reconciled = TRUE, !.deletionAck = TRUE, !.deletionConfirmed = TRUE] \in Row
    BY <1>3 DEF RowVars, Row
  <2>2. RowVars'
    BY <1>3, <1>17, <2>1, PatchType DEF ConfirmDeletion
  <2> QED
    BY <1>2, <1>17, <2>2 DEF TypeOK, ConfirmDeletion, RowVars
<1>18. CASE RemoveRow
  BY <1>1, <1>18 DEF TypeOK, RemoveRow, Row
<1>19. CASE OperationFails
  BY <1>1, <1>19 DEF TypeOK, OperationFails, Disrupt
<1> QED
  BY <1>5, <1>6, <1>7, <1>8, <1>9, <1>10, <1>11, <1>12, <1>13, <1>14, <1>15,
     <1>16, <1>17, <1>18, <1>19 DEF WorkerStep

LEMMA BuilderTypeOK ==
    ASSUME TypeOK, NEW b \in Builders, BuilderStep(b) \/ StoreInventory(b) \/ Refresh(b)
    PROVE  TypeOK'
<1>1. builder[b] \in Builder /\ RowVars
  BY DEF TypeOK, RowVars
<1>2. [NoBuilder EXCEPT !.out = builder[b].out] \in Builder
  <2>1. builder[b].out \in SUBSET (0 .. Steps)
    BY <1>1 DEF Builder
  <2>2. NoBuilder \in Builder
    BY StepsAssumption DEF NoBuilder, Builder, NoPayload
  <2>3. \A r \in Builder : \A o \in SUBSET (0 .. Steps) : [r EXCEPT !.out = o] \in Builder
    BY DEF Builder
  <2> QED
    BY <2>1, <2>2, <2>3
<1>3. CASE CreateResource(b)
  <2>1. builder[b].have \in 0 .. Steps /\ builder[b].have < Steps
    BY <1>1, <1>3 DEF CreateResource, Builder
  <2>2. builder[b].have + 1 \in 1 .. Steps /\ builder[b].have + 1 \in 0 .. Steps
    BY <2>1, StepsAssumption
  <2>3. [builder[b] EXCEPT !.have = @ + 1, !.unsent = TRUE] \in Builder
    <3>1. \A n \in 0 .. Steps : [builder[b] EXCEPT !.have = n, !.unsent = TRUE] \in Builder
      BY <1>1 DEF Builder
    <3> QED
      BY <2>2, <3>1
  <2>4. builder' \in [Builders -> Builder]
    BY <1>3, <2>3 DEF TypeOK, CreateResource
  <2>5. aws' \subseteq 1 .. Steps
    BY <1>3, <2>2 DEF TypeOK, CreateResource
  <2> QED
    BY <1>3, <2>4, <2>5 DEF TypeOK, CreateResource
<1>4. CASE DeleteResource(b)
  <2>1. builder[b].have \in 0 .. Steps /\ builder[b].have > 0
    BY <1>1, <1>4 DEF DeleteResource, Builder
  <2>2. builder[b].have - 1 \in 0 .. Steps
    BY <2>1, StepsAssumption
  <2>3. [builder[b] EXCEPT !.have = @ - 1, !.unsent = TRUE] \in Builder
    BY <1>1, <2>2 DEF Builder
  <2>4. builder' \in [Builders -> Builder]
    BY <1>4, <2>3 DEF TypeOK, DeleteResource
  <2> QED
    BY <1>4, <2>4 DEF TypeOK, DeleteResource
<1>5. CASE SendInventory(b)
  <2>1. [builder[b] EXCEPT !.unsent = FALSE, !.out = {builder[b].have}] \in Builder
    BY <1>1 DEF Builder
  <2>2. builder' \in [Builders -> Builder]
    BY <1>5, <2>1 DEF TypeOK, SendInventory
  <2> QED
    BY <1>5, <2>2 DEF TypeOK, SendInventory
<1>6. CASE CreateReturns(b)
  <2>1. \A st \in {"quitting", "failing"} : [builder[b] EXCEPT !.st = st] \in Builder
    BY <1>1 DEF Builder
  <2>2. builder' \in [Builders -> Builder]
    BY <1>6, <2>1 DEF TypeOK, CreateReturns
  <2> QED
    BY <1>6, <2>2 DEF TypeOK, CreateReturns, Disrupt
<1>7. CASE DeleteReturns(b)
  BY <1>2, <1>7 DEF TypeOK, DeleteReturns, Disrupt
<1>8. CASE PersistCreateFailure(b)
  <2>1. [row EXCEPT !.failed = TRUE] \in Row
    BY <1>1 DEF RowVars, Row
  <2>2. RowVars'
    BY <1>1, <1>8, <2>1, PatchType DEF PersistCreateFailure
  <2>3. [builder[b] EXCEPT !.st = "quitting"] \in Builder
    BY <1>1 DEF Builder
  <2> QED
    BY <1>8, <2>2, <2>3 DEF TypeOK, PersistCreateFailure, RowVars
<1>9. CASE Quit(b)
  BY <1>2, <1>9 DEF TypeOK, Quit
<1>10. CASE StoreInventory(b)
  <2>1. PICK k \in builder[b].out :
           /\ builder' = [builder EXCEPT ![b].out = {}]
           /\ \/ Patch([row EXCEPT !.inventory = k]) /\ UNCHANGED disruptions
              \/ Disrupt("api") /\ UNCHANGED <<row, todo>>
           /\ UNCHANGED <<aws, worker>>
    BY <1>10 DEF StoreInventory
  <2>2. [row EXCEPT !.inventory = k] \in Row
    BY <1>1 DEF RowVars, Row, Builder
  <2>3. RowVars'
    BY <1>1, <2>1, <2>2, PatchType DEF RowVars
  <2>4. [builder[b] EXCEPT !.out = {}] \in Builder
    BY <1>1 DEF Builder
  <2>5. disruptions' \in Nat
    BY <2>1 DEF TypeOK, Disrupt
  <2> QED
    BY <2>1, <2>3, <2>4, <2>5 DEF TypeOK, RowVars
<1>11. CASE Refresh(b)
  <2>1. Acknowledge(builder[b].object) \in Row
    BY <1>1, AcknowledgeType DEF RowVars, Builder
  <2>2. RowVars'
    BY <1>1, <1>11, <2>1, PatchType DEF Refresh
  <2> QED
    BY <1>11, <2>2 DEF TypeOK, Refresh, RowVars
<1> QED
  BY <1>3, <1>4, <1>5, <1>6, <1>7, <1>8, <1>9, <1>10, <1>11 DEF BuilderStep

LEMMA NextTypeOK == TypeOK /\ [Next]_vars => TypeOK'
<1> SUFFICES ASSUME TypeOK, [Next]_vars PROVE TypeOK'
  OBVIOUS
<1>1. CASE UNCHANGED vars
  BY <1>1 DEF vars, TypeOK
<1>2. ASSUME NEW op \in Operations, Pull(op) PROVE TypeOK'
  <2>1. worker' \in Worker
    BY <1>2 DEF TypeOK, Pull, Worker, Operations
  <2> QED
    BY <1>2, <2>1 DEF TypeOK, Pull
<1>3. CASE WorkerStep
  BY <1>3, WorkerTypeOK
<1>4. ASSUME NEW b \in Builders, BuilderStep(b) \/ StoreInventory(b) \/ Refresh(b)
      PROVE TypeOK'
  BY <1>4, BuilderTypeOK
<1>5. CASE AckAges
  BY <1>5 DEF TypeOK, AckAges, Disrupt, Row
<1>6. CASE RequestDeletion
  <2>1. row' \in Row
    BY <1>6 DEF TypeOK, RequestDeletion, Row
  <2>2. todo' \subseteq Operations
    BY <1>6 DEF TypeOK, RequestDeletion, Operations
  <2> QED
    BY <1>6, <2>1, <2>2 DEF TypeOK, RequestDeletion, Disrupt
<1>7. CASE Crash
  BY <1>7, StepsAssumption
     DEF TypeOK, Crash, Disrupt, Idle, Worker, NewRow, Row, NoBuilder, Builder, NoPayload,
         Operations
<1> QED
  BY <1>1, <1>2, <1>3, <1>4, <1>5, <1>6, <1>7 DEF Next

\* The variables keep their types, through crashes, failed calls and
\* goroutines writing the row at will.
THEOREM Typing == Spec => []TypeOK
<1> QED
  BY InitTypeOK, NextTypeOK, PTL DEF Spec

------------------------------------------------------------------------------
(* One creator *)

\* A goroutine that builds, or whose failure is not recorded yet.
Busy(b) == builder[b].st \in {"creating", "failing"}
SomeBusy == \E b \in Builders : Busy(b)
AckHolds(r) == r.ack = "fresh" /\ ~r.failed

\* Why one goroutine builds: while one is busy the row says so, the loop read
\* as much whatever it is about to decide, and when it has decided to start
\* one, none is busy.
AckGuards ==
    /\ \A b, c \in Builders : Busy(b) /\ Busy(c) => b = c
    /\ SomeBusy => worker.at # "start"
    /\ SomeBusy /\ worker.at \in {"check", "deleted"} => AckHolds(worker.seen)
    /\ (SomeBusy \/ worker.at = "start") /\ row.live => AckHolds(row)

\* A PATCH that leaves the acknowledgement standing.
LEMMA PatchHolds ==
    ASSUME NEW newRow, AckHolds(row) => AckHolds(newRow), newRow.live = row.live, Patch(newRow)
    PROVE  /\ row'.live => row.live
           /\ AckHolds(row) => AckHolds(row')
BY DEF Patch

\* A step that starts no goroutine, reads nothing and keeps what the row says.
LEMMA GuardsKept ==
    ASSUME AckGuards,
           \A b \in Builders : Busy(b)' => Busy(b),
           row'.live => row.live,
           AckHolds(row) => AckHolds(row'),
           worker'.at \in {"check", "deleted", "start"} => worker' = worker
    PROVE  AckGuards'
BY DEF AckGuards, SomeBusy

LEMMA WorkerGuards ==
    ASSUME TypeOK, AckGuards, WorkerStep
    PROVE  AckGuards'
<1> USE DEF Goto, Requeue
<1>1. worker \in Worker /\ row \in Row
  BY DEF TypeOK
<1>2. Idle.at = "idle" /\ \A l \in STRING : [worker EXCEPT !.at = l].at = l
  BY <1>1 DEF Idle, Worker
<1>3. builder' = builder => \A b \in Builders : Busy(b)' => Busy(b)
  BY DEF Busy
<1>4. CASE SkipCreated
  BY <1>2, <1>3, <1>4, GuardsKept DEF SkipCreated
<1>5. CASE RereadCreated
  <2>1. worker'.seen = row /\ worker'.at \in {"mark", "check"}
    BY <1>1, <1>5 DEF RereadCreated, Worker
  <2> QED
    BY <1>5, <2>1 DEF RereadCreated, AckGuards, SomeBusy, Busy
<1>6. CASE StillCreating
  BY <1>2, <1>3, <1>6, GuardsKept DEF StillCreating
<1>7. CASE FoundCreated
  BY <1>2, <1>3, <1>7, GuardsKept DEF FoundCreated
<1>8. CASE ConfirmCreation
  <2>1. LET new == [row EXCEPT !.reconciled = TRUE, !.confirmed = TRUE]
        IN  new.live = row.live /\ (AckHolds(row) => AckHolds(new))
    BY <1>1 DEF Row, AckHolds
  <2>2. (row'.live => row.live) /\ (AckHolds(row) => AckHolds(row'))
    BY <1>8, <2>1, PatchHolds DEF ConfirmCreation
  <2> QED
    BY <1>2, <1>3, <1>8, <2>2, GuardsKept DEF ConfirmCreation
<1>9. CASE AcknowledgeCreation
  <2>1. ~SomeBusy
    BY <1>9 DEF AcknowledgeCreation, Acknowledged, AckGuards, AckHolds
  <2>2. ~SomeBusy'
    BY <1>9, <2>1 DEF AcknowledgeCreation, SomeBusy, Busy
  <2>3. AckHolds(Acknowledge(Payload(worker.seen)))
    BY <1>1 DEF AckHolds, Acknowledge, Merge, Row
  <2>4. AckHolds(row')
    BY <1>9, <2>3 DEF AcknowledgeCreation, Patch
  <2> QED
    BY <2>2, <2>4 DEF AckGuards, SomeBusy
<1>10. ASSUME NEW b \in Builders, StartCreation(b) PROVE AckGuards'
  <2>1. ~SomeBusy /\ (row.live => AckHolds(row))
    BY <1>10 DEF StartCreation, AckGuards
  <2>2. \A c \in Builders : Busy(c)' => c = b
    BY <1>10, <2>1 DEF TypeOK, StartCreation, SomeBusy, Busy
  <2> QED
    BY <1>2, <1>10, <2>1, <2>2 DEF StartCreation, AckGuards
<1>11. ASSUME NEW b \in Builders, StartDeletion(b) PROVE AckGuards'
  <2>1. \A c \in Builders : Busy(c)' => Busy(c)
    BY <1>11 DEF TypeOK, StartDeletion, Busy, NoBuilder
  <2> QED
    BY <1>2, <1>11, <2>1, GuardsKept DEF StartDeletion
<1>12. CASE MarkReconciled
  <2>1. row'.live = row.live /\ (AckHolds(row) => AckHolds(row'))
    BY <1>1, <1>12 DEF MarkReconciled, AckHolds, Row
  <2> QED
    BY <1>2, <1>3, <1>12, <2>1, GuardsKept DEF MarkReconciled
<1>13. CASE AcknowledgeDeletion
  <2> DEFINE new == [Merge(worker.seen) EXCEPT
                       !.deletionAck = TRUE, !.failed = worker.seen.failed,
                       !.ack = IF worker.seen.ack = "none" THEN @ ELSE worker.seen.ack]
  <2>1. new.live = row.live /\ (AckHolds(worker.seen) => AckHolds(new))
    BY <1>1 DEF Merge, Row, AckHolds
  <2>2. Patch(new)
    BY <1>13 DEF AcknowledgeDeletion
  <2>3. (row'.live => row.live) /\ (AckHolds(worker.seen) /\ row.live => AckHolds(row'))
    BY <2>1, <2>2 DEF Patch
  <2>4. worker'.at = "startDelete" /\ worker.at = "deleted" /\ builder' = builder
    BY <1>2, <1>13 DEF AcknowledgeDeletion
  <2> HIDE DEF new
  <2> QED
    BY <2>3, <2>4 DEF AckGuards, SomeBusy, Busy
<1>14. CASE StillDeleting
  BY <1>2, <1>3, <1>14, GuardsKept DEF StillDeleting
<1>15. CASE FoundDeleted
  BY <1>2, <1>3, <1>15, GuardsKept DEF FoundDeleted
<1>16. CASE ConfirmDeletion
  <2> DEFINE new == [row EXCEPT !.reconciled = TRUE, !.deletionAck = TRUE, !.deletionConfirmed = TRUE]
  <2>1. new.live = row.live /\ (AckHolds(row) => AckHolds(new))
    BY <1>1 DEF AckHolds, Row
  <2>2. row' \in {row, new}
    BY <1>16 DEF ConfirmDeletion, Patch
  <2> HIDE DEF new
  <2>3. row'.live = row.live /\ (AckHolds(row) => AckHolds(row'))
    BY <2>1, <2>2
  <2> QED
    BY <1>2, <1>3, <1>16, <2>3, GuardsKept DEF ConfirmDeletion
<1>17. CASE RemoveRow
  <2>1. ~row'.live
    BY <1>1, <1>17 DEF RemoveRow, Row
  <2>2. worker'.at = "idle" /\ builder' = builder
    BY <1>2, <1>17 DEF RemoveRow
  <2> QED
    BY <2>1, <2>2 DEF AckGuards, SomeBusy, Busy
<1>18. CASE OperationFails
  BY <1>2, <1>3, <1>18, GuardsKept DEF OperationFails
<1> QED
  BY <1>4, <1>5, <1>6, <1>7, <1>8, <1>9, <1>10, <1>11, <1>12, <1>13, <1>14, <1>15, <1>16, <1>17,
     <1>18 DEF WorkerStep

LEMMA BuilderGuards ==
    ASSUME TypeOK, AckGuards, NEW b \in Builders,
           BuilderStep(b) \/ StoreInventory(b) \/ Refresh(b)
    PROVE  AckGuards'
<1>1. row \in Row
  BY DEF TypeOK
<1>2. CASE CreateResource(b) \/ DeleteResource(b) \/ SendInventory(b)
  <2>1. \A c \in Builders : builder'[c].st = builder[c].st
    <3>1. builder \in [Builders -> Builder]
      BY DEF TypeOK
    <3>2. CASE CreateResource(b)
      BY <3>1, <3>2 DEF Builder, CreateResource
    <3>3. CASE DeleteResource(b)
      BY <3>1, <3>3 DEF Builder, DeleteResource
    <3>4. CASE SendInventory(b)
      BY <3>1, <3>4 DEF Builder, SendInventory
    <3> QED
      BY <1>2, <3>2, <3>3, <3>4
  <2>2. row' = row /\ worker' = worker
    BY <1>2 DEF CreateResource, DeleteResource, SendInventory
  <2> QED
    BY <2>1, <2>2, GuardsKept DEF Busy
<1>3. CASE CreateReturns(b) \/ DeleteReturns(b) \/ Quit(b)
  <2>1. \A c \in Builders : Busy(c)' => Busy(c)
    BY <1>3 DEF TypeOK, Builder, CreateReturns, DeleteReturns, Quit, Busy, NoBuilder
  <2>2. row' = row /\ worker' = worker
    BY <1>3 DEF CreateReturns, DeleteReturns, Quit
  <2> QED
    BY <2>1, <2>2, GuardsKept
<1>4. CASE PersistCreateFailure(b)
  <2>1. Busy(b) /\ SomeBusy
    BY <1>4 DEF PersistCreateFailure, Busy, SomeBusy
  <2>2. \A c \in Builders : ~Busy(c)'
    BY <1>4, <2>1 DEF TypeOK, Builder, PersistCreateFailure, Busy, AckGuards
  <2>3. worker' = worker /\ worker.at # "start"
    BY <1>4, <2>1 DEF PersistCreateFailure, AckGuards
  <2> QED
    BY <2>2, <2>3 DEF AckGuards, SomeBusy
<1>5. CASE StoreInventory(b)
  <2>1. PICK k \in builder[b].out :
           /\ builder' = [builder EXCEPT ![b].out = {}]
           /\ \/ Patch([row EXCEPT !.inventory = k]) /\ UNCHANGED disruptions
              \/ Disrupt("api") /\ UNCHANGED <<row, todo>>
           /\ UNCHANGED <<aws, worker>>
    BY <1>5 DEF StoreInventory
  <2>2. LET new == [row EXCEPT !.inventory = k]
        IN  new.live = row.live /\ (AckHolds(row) => AckHolds(new))
    BY <1>1 DEF Row, AckHolds
  <2>3. (row'.live => row.live) /\ (AckHolds(row) => AckHolds(row'))
    BY <2>1, <2>2, PatchHolds
  <2>4. \A c \in Builders : builder'[c].st = builder[c].st
    BY <2>1 DEF TypeOK, Builder
  <2> QED
    BY <2>1, <2>3, <2>4, GuardsKept DEF Busy
<1>6. CASE Refresh(b)
  <2>1. LET new == Acknowledge(builder[b].object)
        IN  new.live = row.live /\ AckHolds(new)
    BY <1>1 DEF Row, AckHolds, Acknowledge, Merge
  <2>2. (row'.live => row.live) /\ (AckHolds(row) => AckHolds(row'))
    BY <1>6, <2>1, PatchHolds DEF Refresh
  <2> QED
    BY <1>6, <2>2, GuardsKept DEF Refresh, Busy
<1> QED
  BY <1>2, <1>3, <1>4, <1>5, <1>6 DEF BuilderStep

LEMMA NextGuards ==
    ASSUME "outage" \notin Disruptions, TypeOK, AckGuards, [Next]_vars
    PROVE  AckGuards'
<1>1. CASE UNCHANGED vars
  BY <1>1 DEF vars, AckGuards, SomeBusy, Busy
<1>2. ASSUME NEW op \in Operations, Pull(op) PROVE AckGuards'
  <2>1. CASE row.live
    <3>1. worker'.seen = row /\ worker'.at \in Operations \union {"mark"}
      BY <1>2, <2>1 DEF Pull
    <3> QED
      BY <1>2, <2>1, <3>1 DEF Pull, AckGuards, SomeBusy, Busy, Operations
  <2>2. CASE ~row.live
    BY <1>2, <2>2, GuardsKept DEF Pull, Busy
  <2> QED
    BY <2>1, <2>2
<1>3. CASE WorkerStep
  BY <1>3, WorkerGuards
<1>4. ASSUME NEW b \in Builders, BuilderStep(b) \/ StoreInventory(b) \/ Refresh(b)
      PROVE AckGuards'
  BY <1>4, BuilderGuards
<1>5. CASE AckAges
  <2>1. ~SomeBusy /\ worker.at # "start"
    BY <1>5 DEF AckAges, Disrupt, SomeBusy, Busy, Refreshing
  <2> QED
    BY <1>5, <2>1 DEF AckAges, AckGuards, SomeBusy, Busy
<1>6. CASE RequestDeletion
  <2>1. row'.live = row.live /\ (AckHolds(row) => AckHolds(row'))
    BY <1>6 DEF TypeOK, RequestDeletion, AckHolds, Row
  <2> QED
    BY <1>6, <2>1, GuardsKept DEF RequestDeletion, Busy
<1>7. CASE Crash
  BY <1>7 DEF Crash, AckGuards, SomeBusy, Busy, Idle, NoBuilder
<1> QED
  BY <1>1, <1>2, <1>3, <1>4, <1>5, <1>6, <1>7 DEF Next

LEMMA AckGuardsImpliesOneCreator == AckGuards => OneCreator
<1> SUFFICES ASSUME AckGuards PROVE OneCreator
  OBVIOUS
<1> DEFINE Creators == {b \in Builders : builder[b].st = "creating"}
<1>1. CASE Creators = {}
  BY <1>1, FS_EmptySet DEF OneCreator
<1>2. CASE Creators # {}
  <2>1. PICK b \in Creators : TRUE
    BY <1>2
  <2>2. Creators = {b}
    BY <2>1 DEF AckGuards, Busy
  <2>3. Cardinality(Creators) = 1
    BY <2>2, FS_Singleton
  <2> QED
    BY <2>3 DEF OneCreator
<1> QED
  BY <1>1, <1>2

\* One goroutine at a time builds the cluster, whatever fails, dies or is
\* retried, if the API is never out for the 240 seconds an acknowledgement
\* stays fresh: then refreshAcknowledgement keeps it so under the goroutine.
THEOREM OneGoroutineCreates ==
    ASSUME "outage" \notin Disruptions
    PROVE  Spec => []OneCreator
<1>1. Init => AckGuards
  BY DEF Init, AckGuards, SomeBusy, Busy, NoBuilder, Idle
<1>2. TypeOK /\ AckGuards /\ [Next]_vars => AckGuards'
  BY NextGuards
<1> QED
  BY <1>1, <1>2, Typing, AckGuardsImpliesOneCreator, PTL DEF Spec

------------------------------------------------------------------------------
(* Nothing is confirmed that is not built *)

Built(k) == 1 .. k \subseteq aws

DeletionPlaces == {"deleted", "startDelete", "confirmDeletion", "remove"}
USE DEF DeletionPlaces

\* A deletion begins with the request for it.
DeletionRequested ==
    /\ "deleted" \in todo => row.scheduled
    /\ worker.at \in DeletionPlaces => row.scheduled
    /\ \A b \in Builders : builder[b].st = "deleting" => row.scheduled

\* What a goroutine has built, has captured or has on its way to the database.
Truthful(b) ==
    /\ Built(builder[b].have) /\ Built(builder[b].object.inventory)
    /\ \A k \in builder[b].out : Built(k)

\* Until then every inventory, stored, read, captured or on its way, tells of
\* resources that exist.
InventoriesBuilt ==
    /\ Built(row.inventory) /\ Built(worker.seen.inventory)
    /\ row.confirmed \/ worker.at = "confirm" => Built(Steps)
    /\ \A b \in Builders : Truthful(b)

CreationSound == DeletionRequested /\ (row.scheduled \/ InventoriesBuilt)

LEMMA NothingBuilt == Built(0)
BY DEF Built

LEMMA PatchKeeps ==
    ASSUME NEW newRow, newRow.scheduled = row.scheduled, Patch(newRow)
    PROVE  /\ row'.scheduled = row.scheduled
           /\ "deleted" \in todo' => "deleted" \in todo
           /\ row' \in {row, newRow}
BY DEF Patch

LEMMA MergeKeeps ==
    ASSUME row \in Row, NEW payload, payload.inventory \in 0 .. Steps
    PROVE  /\ Merge(payload).scheduled = row.scheduled
           /\ Merge(payload).confirmed = row.confirmed
           /\ Merge(payload).inventory \in {row.inventory, payload.inventory}
BY DEF Row, Merge

LEMMA AcknowledgeKeeps ==
    ASSUME row \in Row, NEW object, object.reconciled \in BOOLEAN,
           object.inventory \in 0 .. Steps,
           NEW payload \in {object, Payload(object)}
    PROVE  /\ Acknowledge(payload).scheduled = row.scheduled
           /\ Acknowledge(payload).confirmed = row.confirmed
           /\ Acknowledge(payload).inventory \in {row.inventory, object.inventory}
<1>1. payload.reconciled = object.reconciled /\ payload.inventory = object.inventory
  BY DEF Payload
<1>2. Merge(payload) \in Row
  BY <1>1, MergeType
<1> QED
  BY <1>1, <1>2, MergeKeeps DEF Acknowledge, Row

\* A step that leaves the goroutines alone and of the row writes nothing new.
LEMMA RowKept ==
    ASSUME CreationSound, UNCHANGED <<builder, aws>>,
           row'.scheduled = row.scheduled,
           row'.confirmed = row.confirmed \/ Built(Steps),
           row'.inventory = row.inventory \/ Built(row'.inventory),
           worker'.seen.inventory = worker.seen.inventory \/ Built(worker'.seen.inventory),
           "deleted" \in todo' => "deleted" \in todo,
           worker'.at \in DeletionPlaces => row.scheduled,
           worker'.at = "confirm" => row.scheduled \/ Built(Steps)
    PROVE  CreationSound'
<1>1. DeletionRequested'
  BY DEF CreationSound, DeletionRequested
<1>2. ASSUME InventoriesBuilt, ~row.scheduled PROVE InventoriesBuilt'
  BY <1>2 DEF InventoriesBuilt, Truthful, Built
<1> QED
  BY <1>1, <1>2 DEF CreationSound

\* Once the deletion is requested nothing is asked but that it stays so.
LEMMA ScheduledStays ==
    ASSUME row'.scheduled = TRUE
    PROVE  CreationSound'
BY DEF CreationSound, DeletionRequested

LEMMA WorkerSound ==
    ASSUME TypeOK, CreationSound, WorkerStep
    PROVE  CreationSound'
<1> USE DEF Goto, Requeue
<1>1. worker \in Worker /\ row \in Row /\ worker.seen \in Row
  BY DEF TypeOK, Worker
<1>2. worker.seen.reconciled \in BOOLEAN /\ worker.seen.inventory \in 0 .. Steps
  BY <1>1 DEF Row
<1>3. Idle.at = "idle" /\ Built(Idle.seen.inventory)
  BY NothingBuilt DEF Idle, NewRow
<1>4. \A l \in STRING : /\ [worker EXCEPT !.at = l].at = l
                        /\ [worker EXCEPT !.at = l].seen = worker.seen
  BY <1>1 DEF Worker
<1>5. row.scheduled \/ InventoriesBuilt
  BY DEF CreationSound
<1>6. CASE SkipCreated \/ StillCreating \/ StillDeleting \/ OperationFails
  <2>1. UNCHANGED <<row, aws, todo, builder>>
    BY <1>6 DEF SkipCreated, StillCreating, StillDeleting, OperationFails
  <2>2. /\ worker'.at \in {"mark", "idle"}
        /\ worker'.seen = worker.seen \/ Built(worker'.seen.inventory)
    <3>1. CASE SkipCreated
      BY <1>4, <3>1 DEF SkipCreated
    <3>2. CASE worker' = Idle
      BY <1>3, <3>2
    <3> QED
      BY <1>6, <3>1, <3>2 DEF StillCreating, StillDeleting, OperationFails
  <2> QED
    BY <2>1, <2>2, RowKept
<1>7. CASE RereadCreated
  <2>1. worker'.seen = row /\ worker'.at \in {"mark", "check"}
    BY <1>1, <1>7 DEF RereadCreated, Worker
  <2>2. CASE row.scheduled
    BY <1>7, <2>2, ScheduledStays, <1>1 DEF RereadCreated, Row
  <2>3. CASE ~row.scheduled
    <3>1. Built(row.inventory)
      BY <1>5, <2>3 DEF InventoriesBuilt
    <3> QED
      BY <1>7, <2>1, <3>1, RowKept DEF RereadCreated
  <2> QED
    BY <2>2, <2>3
<1>8. CASE FoundCreated
  <2>1. row.scheduled \/ Built(Steps)
    BY <1>5, <1>8 DEF FoundCreated, InventoriesBuilt
  <2> QED
    BY <1>4, <1>8, <2>1, RowKept DEF FoundCreated
<1>9. CASE ConfirmCreation
  <2> DEFINE new == [row EXCEPT !.reconciled = TRUE, !.confirmed = TRUE]
  <2>1. new.scheduled = row.scheduled /\ new.inventory = row.inventory
    BY <1>1 DEF Row
  <2>2. Patch(new) /\ worker.at = "confirm" /\ worker'.at = "mark"
        /\ worker'.seen = worker.seen /\ UNCHANGED <<builder, aws>>
    BY <1>4, <1>9 DEF ConfirmCreation
  <2> HIDE DEF new
  <2>3. /\ row'.scheduled = row.scheduled /\ row'.inventory = row.inventory
        /\ "deleted" \in todo' => "deleted" \in todo
    BY <2>1, <2>2, PatchKeeps
  <2>4. CASE row.scheduled
    BY <1>1, <2>3, <2>4, ScheduledStays DEF Row
  <2>5. CASE ~row.scheduled
    <3>1. Built(Steps)
      BY <1>5, <2>2, <2>5 DEF InventoriesBuilt
    <3> QED
      BY <2>2, <2>3, <3>1, RowKept
  <2> QED
    BY <2>4, <2>5
<1>10. CASE AcknowledgeCreation
  <2> DEFINE new == Acknowledge(Payload(worker.seen))
  <2>1. /\ new.scheduled = row.scheduled /\ new.confirmed = row.confirmed
        /\ new.inventory \in {row.inventory, worker.seen.inventory}
    BY <1>1, <1>2, AcknowledgeKeeps
  <2>2. Patch(new) /\ worker'.at = "start" /\ worker'.seen = worker.seen
        /\ UNCHANGED <<builder, aws>>
    BY <1>4, <1>10 DEF AcknowledgeCreation
  <2> HIDE DEF new
  <2>3. /\ row'.scheduled = row.scheduled /\ row'.confirmed = row.confirmed
        /\ row'.inventory \in {row.inventory, worker.seen.inventory}
        /\ "deleted" \in todo' => "deleted" \in todo
    BY <2>1, <2>2, PatchKeeps
  <2>4. CASE row.scheduled
    BY <1>1, <2>3, <2>4, ScheduledStays DEF Row
  <2>5. CASE ~row.scheduled
    <3>1. Built(worker.seen.inventory)
      BY <1>5, <2>5 DEF InventoriesBuilt
    <3> QED
      BY <2>2, <2>3, <3>1, RowKept
  <2> QED
    BY <2>4, <2>5
<1>11. ASSUME NEW b \in Builders, StartCreation(b) PROVE CreationSound'
  <2> DEFINE new == [NoBuilder EXCEPT !.st = "creating", !.have = worker.seen.inventory,
                                      !.object = Payload(worker.seen)]
  <2>1. /\ new.st = "creating" /\ new.have = worker.seen.inventory
        /\ new.object.inventory = worker.seen.inventory /\ new.out = {}
    BY DEF NoBuilder, Payload
  <2>2. \A c \in Builders : builder'[c] = IF c = b THEN new ELSE builder[c]
    BY <1>11 DEF TypeOK, StartCreation
  <2>3. UNCHANGED <<row, aws, todo>> /\ worker' = Idle
    BY <1>11 DEF StartCreation
  <2> HIDE DEF new
  <2>4. DeletionRequested'
    BY <1>3, <2>1, <2>2, <2>3 DEF CreationSound, DeletionRequested
  <2>5. ASSUME ~row.scheduled PROVE InventoriesBuilt'
    BY <1>3, <1>5, <2>1, <2>2, <2>3, <2>5 DEF InventoriesBuilt, Truthful, Built
  <2> QED
    BY <2>3, <2>4, <2>5 DEF CreationSound
<1>12. CASE \/ \E b \in Builders : StartDeletion(b)
            \/ AcknowledgeDeletion \/ FoundDeleted \/ ConfirmDeletion \/ RemoveRow
  <2>1. row.scheduled = TRUE
    BY <1>1, <1>12 DEF StartDeletion, AcknowledgeDeletion, FoundDeleted, ConfirmDeletion,
                       RemoveRow, CreationSound, DeletionRequested, DeletionPlaces, Row
  <2>2. CASE \E b \in Builders : StartDeletion(b)
    BY <2>1, <2>2, ScheduledStays DEF StartDeletion
  <2>3. CASE AcknowledgeDeletion
    <3> DEFINE new == [Merge(worker.seen) EXCEPT
                         !.deletionAck = TRUE, !.failed = worker.seen.failed,
                         !.ack = IF worker.seen.ack = "none" THEN @ ELSE worker.seen.ack]
    <3>1. new.scheduled = row.scheduled
      BY <1>1 DEF Merge, Row
    <3>2. Patch(new)
      BY <2>3 DEF AcknowledgeDeletion
    <3> HIDE DEF new
    <3> QED
      BY <2>1, <3>1, <3>2, PatchKeeps, ScheduledStays
  <2>4. CASE FoundDeleted \/ ConfirmDeletion \/ RemoveRow
    <3>1. row'.scheduled = row.scheduled
      BY <1>1, <2>4 DEF FoundDeleted, ConfirmDeletion, RemoveRow, Patch, Row
    <3> QED
      BY <2>1, <3>1, ScheduledStays
  <2> QED
    BY <1>12, <2>2, <2>3, <2>4
<1>13. CASE MarkReconciled
  <2>1. /\ row'.scheduled = row.scheduled /\ row'.confirmed = row.confirmed
        /\ row'.inventory = row.inventory
    BY <1>1, <1>13 DEF MarkReconciled, Row
  <2> QED
    BY <1>3, <1>13, <2>1, RowKept DEF MarkReconciled
<1> QED
  BY <1>6, <1>7, <1>8, <1>9, <1>10, <1>11, <1>12, <1>13 DEF WorkerStep

\* What a step does to one goroutine, and to the row on its behalf.
LEMMA BuilderMoves ==
    ASSUME CreationSound, NEW b \in Builders, UNCHANGED worker,
           \A c \in Builders \ {b} : builder'[c] = builder[c],
           builder'[b].st = "deleting" => builder[b].st = "deleting",
           row'.scheduled = row.scheduled, row'.confirmed = row.confirmed,
           "deleted" \in todo' => "deleted" \in todo,
           ~row.scheduled /\ InventoriesBuilt
               => Truthful(b)' /\ aws \subseteq aws' /\ Built(row'.inventory)
    PROVE  CreationSound'
<1>1. DeletionRequested'
  BY DEF CreationSound, DeletionRequested
<1>2. ASSUME InventoriesBuilt, ~row.scheduled PROVE InventoriesBuilt'
  <2>1. aws \subseteq aws' /\ Built(row'.inventory) /\ Truthful(b)'
    BY <1>2
  <2>2. \A k : Built(k) => Built(k)'
    BY <2>1 DEF Built
  <2>3. \A c \in Builders \ {b} : Truthful(c)'
    BY <1>2, <2>2 DEF InventoriesBuilt, Truthful
  <2>4. Built(row.inventory)' /\ Built(worker.seen.inventory)'
    BY <1>2, <2>1, <2>2 DEF InventoriesBuilt, Built
  <2>5. row'.confirmed \/ worker'.at = "confirm" => Built(Steps)'
    BY <1>2, <2>2 DEF InventoriesBuilt
  <2> QED
    BY <2>1, <2>3, <2>4, <2>5 DEF InventoriesBuilt
<1> QED
  BY <1>1, <1>2 DEF CreationSound

LEMMA BuilderSound ==
    ASSUME TypeOK, CreationSound, NEW b \in Builders,
           BuilderStep(b) \/ StoreInventory(b) \/ Refresh(b)
    PROVE  CreationSound'
<1>1. builder[b] \in Builder /\ row \in Row
  BY DEF TypeOK
<1>2. InventoriesBuilt => Truthful(b) /\ Built(row.inventory)
  BY DEF InventoriesBuilt
<1>3. CASE CreateResource(b)
  <2>1. /\ UNCHANGED <<row, todo, worker>>
        /\ \A c \in Builders \ {b} : builder'[c] = builder[c]
        /\ builder'[b].st = "creating" /\ builder'[b].have = builder[b].have + 1
        /\ builder'[b].out = builder[b].out /\ builder'[b].object = builder[b].object
        /\ aws' = aws \union {builder[b].have + 1}
    BY <1>1, <1>3 DEF TypeOK, CreateResource, Builder
  <2>2. ASSUME Built(builder[b].have) PROVE Built(builder[b].have)'
    <3>1. 1 .. builder[b].have + 1 \subseteq (1 .. builder[b].have) \union {builder[b].have + 1}
      BY <1>1, StepsAssumption DEF Builder
    <3> QED
      BY <2>1, <2>2, <3>1 DEF Built
  <2>3. InventoriesBuilt => Truthful(b)' /\ Built(row'.inventory)
    BY <1>2, <2>1, <2>2 DEF Truthful, Built
  <2> QED
    BY <2>1, <2>3, BuilderMoves
<1>4. CASE DeleteResource(b)
  <2>1. row.scheduled
    BY <1>4 DEF DeleteResource, CreationSound, DeletionRequested
  <2> QED
    BY <1>1, <1>4, <2>1, ScheduledStays DEF DeleteResource, Row
<1>5. CASE SendInventory(b)
  <2>1. /\ UNCHANGED <<row, aws, todo, worker>>
        /\ \A c \in Builders \ {b} : builder'[c] = builder[c]
        /\ builder'[b].st = builder[b].st /\ builder'[b].have = builder[b].have
        /\ builder'[b].out = {builder[b].have} /\ builder'[b].object = builder[b].object
    BY <1>1, <1>5 DEF TypeOK, SendInventory, Builder
  <2>2. InventoriesBuilt => Truthful(b)' /\ Built(row'.inventory)
    BY <1>2, <2>1 DEF Truthful, Built
  <2> QED
    BY <2>1, <2>2, BuilderMoves
<1>6. CASE CreateReturns(b)
  <2>1. /\ UNCHANGED <<row, aws, todo, worker>>
        /\ \A c \in Builders \ {b} : builder'[c] = builder[c]
        /\ builder'[b].st # "deleting" /\ builder'[b].have = builder[b].have
        /\ builder'[b].out = builder[b].out /\ builder'[b].object = builder[b].object
    BY <1>1, <1>6 DEF TypeOK, CreateReturns, Builder
  <2>2. InventoriesBuilt => Truthful(b)' /\ Built(row'.inventory)
    BY <1>2, <2>1 DEF Truthful, Built
  <2> QED
    BY <2>1, <2>2, BuilderMoves
<1>7. CASE DeleteReturns(b) \/ Quit(b)
  <2>1. /\ UNCHANGED <<row, aws, todo, worker>>
        /\ \A c \in Builders \ {b} : builder'[c] = builder[c]
        /\ builder'[b].st # "deleting" /\ builder'[b].have = 0
        /\ builder'[b].out = builder[b].out /\ builder'[b].object.inventory = 0
    BY <1>7 DEF TypeOK, DeleteReturns, Quit, NoBuilder, NoPayload
  <2>2. InventoriesBuilt => Truthful(b)' /\ Built(row'.inventory)
    BY <1>2, <2>1, NothingBuilt DEF Truthful, Built
  <2> QED
    BY <2>1, <2>2, BuilderMoves
<1>8. CASE PersistCreateFailure(b)
  <2> DEFINE new == [row EXCEPT !.failed = TRUE]
  <2>1. /\ new.scheduled = row.scheduled /\ new.confirmed = row.confirmed
        /\ new.inventory = row.inventory
    BY <1>1 DEF Row
  <2>2. Patch(new) /\ UNCHANGED <<aws, worker>>
    BY <1>8 DEF PersistCreateFailure
  <2> HIDE DEF new
  <2>3. /\ \A c \in Builders \ {b} : builder'[c] = builder[c]
        /\ builder'[b].st # "deleting" /\ builder'[b].have = builder[b].have
        /\ builder'[b].out = builder[b].out /\ builder'[b].object = builder[b].object
    BY <1>1, <1>8 DEF TypeOK, PersistCreateFailure, Builder
  <2>4. /\ row'.scheduled = row.scheduled /\ row'.confirmed = row.confirmed
        /\ row'.inventory = row.inventory
        /\ "deleted" \in todo' => "deleted" \in todo
    BY <2>1, <2>2, PatchKeeps
  <2>5. InventoriesBuilt => Truthful(b)' /\ Built(row'.inventory)
    BY <1>2, <2>2, <2>3, <2>4 DEF Truthful, Built
  <2> QED
    BY <2>2, <2>3, <2>4, <2>5, BuilderMoves
<1>9. CASE StoreInventory(b)
  <2>1. PICK k \in builder[b].out :
           /\ builder' = [builder EXCEPT ![b].out = {}]
           /\ \/ Patch([row EXCEPT !.inventory = k]) /\ UNCHANGED disruptions
              \/ Disrupt("api") /\ UNCHANGED <<row, todo>>
           /\ UNCHANGED <<aws, worker>>
    BY <1>9 DEF StoreInventory
  <2> DEFINE new == [row EXCEPT !.inventory = k]
  <2>2. /\ new.scheduled = row.scheduled /\ new.confirmed = row.confirmed
        /\ new.inventory = k
    BY <1>1 DEF Row
  <2>3. Patch(new) \/ UNCHANGED <<row, todo>>
    BY <2>1
  <2> HIDE DEF new
  <2>4. /\ row'.scheduled = row.scheduled /\ row'.confirmed = row.confirmed
        /\ row'.inventory \in {row.inventory, k}
        /\ "deleted" \in todo' => "deleted" \in todo
    BY <2>2, <2>3, PatchKeeps
  <2>5. /\ \A c \in Builders \ {b} : builder'[c] = builder[c]
        /\ builder'[b].st = builder[b].st /\ builder'[b].have = builder[b].have
        /\ builder'[b].out = {} /\ builder'[b].object = builder[b].object
    BY <1>1, <2>1 DEF TypeOK, Builder
  <2>6. InventoriesBuilt => Truthful(b)' /\ Built(row'.inventory)
    BY <1>2, <2>1, <2>4, <2>5 DEF Truthful, Built
  <2> QED
    BY <2>1, <2>4, <2>5, <2>6, BuilderMoves
<1>10. CASE Refresh(b)
  <2> DEFINE new == Acknowledge(builder[b].object)
  <2>1. builder[b].object.reconciled \in BOOLEAN /\ builder[b].object.inventory \in 0 .. Steps
    BY <1>1 DEF Builder
  <2>2. /\ new.scheduled = row.scheduled /\ new.confirmed = row.confirmed
        /\ new.inventory \in {row.inventory, builder[b].object.inventory}
    BY <1>1, <2>1, AcknowledgeKeeps
  <2>3. Patch(new) /\ UNCHANGED <<aws, worker, builder>>
    BY <1>10 DEF Refresh
  <2> HIDE DEF new
  <2>4. /\ row'.scheduled = row.scheduled /\ row'.confirmed = row.confirmed
        /\ row'.inventory \in {row.inventory, builder[b].object.inventory}
        /\ "deleted" \in todo' => "deleted" \in todo
    BY <2>2, <2>3, PatchKeeps
  <2>5. InventoriesBuilt => Truthful(b)' /\ Built(row'.inventory)
    BY <1>2, <2>3, <2>4 DEF Truthful, Built
  <2> QED
    BY <2>3, <2>4, <2>5, BuilderMoves
<1> QED
  BY <1>3, <1>4, <1>5, <1>6, <1>7, <1>8, <1>9, <1>10 DEF BuilderStep

LEMMA NextSound == TypeOK /\ CreationSound /\ [Next]_vars => CreationSound'
<1> SUFFICES ASSUME TypeOK, CreationSound, [Next]_vars PROVE CreationSound'
  OBVIOUS
<1>1. row \in Row /\ worker \in Worker
  BY DEF TypeOK
<1>2. CASE UNCHANGED vars
  BY <1>2 DEF vars, CreationSound, DeletionRequested, InventoriesBuilt, Truthful, Built
<1>3. ASSUME NEW op \in Operations, Pull(op) PROVE CreationSound'
  <2>1. UNCHANGED <<row, aws, builder>> /\ ("deleted" \in todo' => "deleted" \in todo)
    BY <1>3 DEF Pull
  <2>2. CASE row.scheduled
    BY <1>1, <2>1, <2>2, ScheduledStays DEF Row
  <2>3. CASE ~row.scheduled
    <3>1. op # "deleted" /\ Built(row.inventory)
      BY <1>3, <2>3 DEF Pull, CreationSound, DeletionRequested, InventoriesBuilt
    <3>2. worker' = worker \/ (worker'.seen = row /\ worker'.at \in {"mark", "created"})
      BY <1>3, <3>1 DEF Pull, Operations
    <3>3. worker.at = "idle"
      BY <1>3 DEF Pull
    <3> QED
      BY <2>1, <3>1, <3>2, <3>3, RowKept
  <2> QED
    BY <2>2, <2>3
<1>4. CASE WorkerStep
  BY <1>4, WorkerSound
<1>5. ASSUME NEW b \in Builders, BuilderStep(b) \/ StoreInventory(b) \/ Refresh(b)
      PROVE CreationSound'
  BY <1>5, BuilderSound
<1>6. CASE AckAges
  <2>1. /\ row'.scheduled = row.scheduled /\ row'.confirmed = row.confirmed
        /\ row'.inventory = row.inventory /\ UNCHANGED <<aws, todo, worker, builder>>
    BY <1>1, <1>6 DEF AckAges, Row
  <2>2. /\ worker.at \in DeletionPlaces => row.scheduled
        /\ worker.at = "confirm" => row.scheduled \/ Built(Steps)
    BY DEF CreationSound, DeletionRequested, InventoriesBuilt
  <2> QED
    BY <2>1, <2>2, RowKept
<1>7. CASE RequestDeletion
  <2>1. row'.scheduled = TRUE
    BY <1>1, <1>7 DEF RequestDeletion, Row
  <2> QED
    BY <2>1, ScheduledStays
<1>8. CASE Crash
  <2>1. /\ UNCHANGED <<row, aws, todo>> /\ worker'.at = "idle"
        /\ worker'.seen.inventory = 0
        /\ \A b \in Builders : builder'[b] = NoBuilder
    BY <1>8 DEF Crash, Idle, NewRow
  <2>2. NoBuilder.st = "idle" /\ NoBuilder.have = 0 /\ NoBuilder.out = {}
        /\ NoBuilder.object.inventory = 0
    BY DEF NoBuilder, NoPayload
  <2>3. DeletionRequested'
    BY <2>1, <2>2 DEF CreationSound, DeletionRequested
  <2>4. InventoriesBuilt => InventoriesBuilt'
    BY <2>1, <2>2, NothingBuilt DEF InventoriesBuilt, Truthful, Built
  <2> QED
    BY <2>1, <2>3, <2>4 DEF CreationSound
<1> QED
  BY <1>2, <1>3, <1>4, <1>5, <1>6, <1>7, <1>8 DEF Next

\* A cluster is confirmed only when every one of its resources exists,
\* whatever the order in which the goroutines' inventories reach the database
\* and however long the API is out.
THEOREM ConfirmedCreationIsBuilt == Spec => []ConfirmedIsBuilt
<1>1. Init => CreationSound
  <2> SUFFICES ASSUME Init PROVE CreationSound
    OBVIOUS
  <2>1. DeletionRequested
    BY DEF Init, DeletionRequested, Idle, NoBuilder
  <2>2. InventoriesBuilt
    BY NothingBuilt DEF Init, InventoriesBuilt, Truthful, NewRow, Idle, NoBuilder, NoPayload
  <2> QED
    BY <2>1, <2>2 DEF CreationSound
<1>2. TypeOK /\ CreationSound => ConfirmedIsBuilt
  BY DEF TypeOK, CreationSound, InventoriesBuilt, Built, ConfirmedIsBuilt
<1> QED
  BY <1>1, <1>2, NextSound, Typing, PTL DEF Spec
==============================================================================
