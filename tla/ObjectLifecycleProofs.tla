------------------------ MODULE ObjectLifecycleProofs ------------------------
(***************************************************************************)
(* Theorems about ObjectLifecycle, for any number of controllers, requests *)
(* and disruptions: its types; as long as no lock lapses under a working   *)
(* controller, that nothing is left of a deleted object and that the       *)
(* object's contract is kept; and, without that condition, that a settled  *)
(* object has converged.                                                   *)
(***************************************************************************)
EXTENDS ObjectLifecycle, TLAPS

LEMMA ConstantTypes ==
    NoRow \in Row /\ Nothing \in World /\ NotServed \in Service
BY DEF NoRow, Row, Nothing, World, NotServed, Service

LEMMA InitTypeOK == Init => TypeOK
BY ConstantTypes DEF Init, TypeOK

LEMMA HandlerTypeOK ==
    ASSUME TypeOK, NEW r \in Requests,
           \/ Add(r) \/ ReadForUpdate(r) \/ ReadForDelete(r)
           \/ HandlerStep(r) \/ AckWait(r)
    PROVE  TypeOK'
<1> USE DEF loopVars
<1>1. row \in Row /\ req[r] \in Service
  BY DEF TypeOK
<1>2. \A at \in {"publish", "done"} : [req[r] EXCEPT !.at = at] \in Service
  BY <1>1 DEF Service
<1>3. CASE Add(r)
  <2>1. row' \in Row
    BY <1>3, ConstantTypes DEF Add, Row
  <2>2. [NotServed EXCEPT !.op = "create", !.at = "publish"] \in Service
    BY DEF NotServed, Service
  <2> QED
    BY <1>3, <2>1, <2>2 DEF Add, TypeOK
<1>4. CASE ReadForUpdate(r)
  <2>1. [NotServed EXCEPT !.op = "update", !.at = "write"] \in Service
    BY DEF NotServed, Service
  <2> QED
    BY <1>4, <2>1 DEF ReadForUpdate, TypeOK
<1>5. CASE ReadForDelete(r)
  <2>1. [op |-> "delete", at |-> "write", scheduled |-> row.scheduled,
         confirmed |-> row.confirmed] \in Service
    BY <1>1 DEF Row, Service
  <2> QED
    BY <1>5, <2>1 DEF ReadForDelete, TypeOK
<1>6. CASE WriteUpdate(r)
  <2>1. row' \in Row
    <3>1. \A n \in Nat : [row EXCEPT !.spec = n, !.reconciled = FALSE] \in Row
      BY <1>1 DEF Row
    <3>2. row.spec + 1 \in Nat
      BY <1>1 DEF Row
    <3> QED
      BY <1>1, <1>6, <3>1, <3>2 DEF WriteUpdate
  <2> QED
    BY <1>2, <1>6, <2>1 DEF WriteUpdate, TypeOK
<1>7. CASE ScheduleDeletion(r)
  <2>1. row' \in Row
    BY <1>1, <1>7 DEF ScheduleDeletion, Row
  <2> QED
    BY <1>2, <1>7, <2>1 DEF ScheduleDeletion, TypeOK
<1>8. CASE FinishDelete(r)
  <2>1. row' \in Row
    BY <1>1, <1>8 DEF FinishDelete, Row
  <2>2. [NotServed EXCEPT !.op = "delete", !.at = "done"] \in Service
    BY DEF NotServed, Service
  <2> QED
    BY <1>8, <2>1, <2>2 DEF FinishDelete, TypeOK
<1>9. CASE Publish(r)
  BY <1>2, <1>9 DEF Publish, TypeOK
<1>10. CASE PublishFails(r)
  BY <1>2, <1>10 DEF PublishFails, TypeOK, Disrupt
<1>11. CASE AckWait(r)
  BY <1>11 DEF AckWait, TypeOK, apiVars
<1> QED
  BY <1>3, <1>4, <1>5, <1>6, <1>7, <1>8, <1>9, <1>10, <1>11 DEF HandlerStep

LEMMA NextRoundType ==
    ASSUME TypeOK, NEW w \in Workers, NextRound(w)
    PROVE  /\ pc' \in [Workers -> WorkStates \union {"idle", "ack"}]
           /\ cur' \in [Workers -> Requests \union {None}]
           /\ \A v \in Workers : pc'[v] # "idle" => cur'[v] \in Requests
           /\ seen' \in [Workers -> Row]
BY ConstantTypes DEF TypeOK, NextRound, Goto

LEMMA RequeueType ==
    ASSUME TypeOK, NEW w \in Workers, pc[w] # "idle", Requeue(w), row' \in Row,
           world' \in World, disruptions' \in Nat
    PROVE  TypeOK'
<1>1. cur[w] \in Requests
  BY DEF TypeOK
<1>2. notif' \in [Requests -> {"none", "ready", "delivered", "acked"}]
  BY <1>1 DEF TypeOK, Requeue
<1> QED
  BY <1>2, NextRoundType DEF TypeOK, Requeue

LEMMA LoopTypeOK ==
    ASSUME TypeOK, NEW w \in Workers, LoopStep(w) \/ Crash(w)
    PROVE  TypeOK'
<1> USE DEF Goto, apiVars, loopVars
<1>1. row \in Row /\ world \in World /\ seen[w] \in Row
  BY DEF TypeOK
<1>2. ASSUME NEW r \in Requests, Begin(w, r) PROVE TypeOK'
  BY <1>2 DEF Begin, TypeOK, WorkStates
<1>3. CASE GetLatest(w)
  BY <1>3 DEF GetLatest, TypeOK, WorkStates
<1>4. CASE SkipCreate(w)
  BY <1>4 DEF SkipCreate, TypeOK, WorkStates
<1>5. CASE SkipUpdate(w)
  BY <1>5 DEF SkipUpdate, TypeOK, WorkStates
<1>6. CASE StartApply(w)
  <2>1. world' \in World
    BY <1>1, <1>6 DEF StartApply, World
  <2> QED
    BY <1>6, <2>1 DEF StartApply, TypeOK, WorkStates
<1>7. CASE FinishApply(w)
  <2>1. world' \in World
    BY <1>1, <1>7 DEF FinishApply, World, Row
  <2> QED
    BY <1>7, <2>1 DEF FinishApply, TypeOK, WorkStates
<1>8. CASE StartClean(w)
  <2>1. world' \in World
    BY <1>1, <1>8 DEF StartClean, World
  <2> QED
    BY <1>8, <2>1 DEF StartClean, TypeOK, WorkStates
<1>9. CASE FinishClean(w)
  BY <1>9, ConstantTypes DEF FinishClean, TypeOK, WorkStates
<1>10. CASE OperationRequeued(w)
  BY <1>1, <1>10, RequeueType DEF OperationRequeued, Disrupt, TypeOK
<1>11. CASE MarkReconciled(w)
  <2>1. row' \in Row
    BY <1>1, <1>11 DEF MarkReconciled, Row
  <2> QED
    BY <1>11, <2>1 DEF MarkReconciled, TypeOK, WorkStates
<1>12. CASE ConfirmDeletion(w)
  <2>1. row' \in Row
    BY <1>1, <1>12 DEF ConfirmDeletion, Row
  <2> QED
    BY <1>12, <2>1 DEF ConfirmDeletion, TypeOK, WorkStates
<1>13. CASE RemoveRow(w)
  <2>1. row' \in Row
    BY <1>1, <1>13 DEF RemoveRow, Row
  <2> QED
    BY <1>13, <2>1 DEF RemoveRow, TypeOK, WorkStates
<1>14. CASE RowVanished(w)
  BY <1>1, <1>14, RequeueType DEF RowVanished, TypeOK
<1>15. CASE ApiFails(w)
  <2>1. row' \in Row
    BY <1>1, <1>15 DEF ApiFails, Row
  <2>2. disruptions' \in Nat
    BY <1>15 DEF ApiFails, Disrupt, TypeOK
  <2> QED
    BY <1>1, <1>15, <2>1, <2>2, RequeueType DEF ApiFails
<1>16. CASE Release(w)
  BY <1>16 DEF Release, TypeOK, WorkStates
<1>17. CASE Ack(w)
  <2>1. cur[w] \in Requests
    BY <1>17 DEF Ack, TypeOK
  <2>2. notif' \in [Requests -> {"none", "ready", "delivered", "acked"}]
    BY <1>17, <2>1 DEF Ack, TypeOK
  <2> QED
    BY <1>17, <2>2, NextRoundType DEF Ack, TypeOK, Disrupt
<1>18. CASE Crash(w)
  BY <1>18, NextRoundType DEF Crash, TypeOK, Disrupt
<1> QED
  BY <1>2, <1>3, <1>4, <1>5, <1>6, <1>7, <1>8, <1>9, <1>10, <1>11, <1>12, <1>13,
     <1>14, <1>15, <1>16, <1>17, <1>18 DEF LoopStep

LEMMA NextTypeOK == TypeOK /\ [Next]_vars => TypeOK'
<1> SUFFICES ASSUME TypeOK, [Next]_vars PROVE TypeOK'
  OBVIOUS
<1>1. CASE UNCHANGED vars
  BY <1>1 DEF vars, TypeOK
<1>2. CASE ExpireLock
  BY <1>2 DEF ExpireLock, TypeOK, Disrupt, apiVars, loopVars
<1> QED
  BY <1>1, <1>2, HandlerTypeOK, LoopTypeOK DEF Next

\* The variables keep their types, and a controller that is not between two
\* rounds has a notification.
THEOREM Typing == Spec => []TypeOK
BY InitTypeOK, NextTypeOK, PTL DEF Spec

------------------------------------------------------------------------------
(* Deletion *)

LockHeld == \A w \in Workers : Working(w) => lock = w

\* What is confirmed is gone from the outside, what is gone was confirmed, and
\* a handler that read the confirmation read no more than the truth.
RowSound ==
    /\ row.state = "absent" => ~row.scheduled /\ ~row.confirmed
    /\ row.confirmed => row.scheduled /\ world = Nothing
    /\ row.state = "gone" => row.confirmed
    /\ \A r \in Requests : req[r].confirmed => row.confirmed

\* A controller's copy of the row may be old, but no other controller can have
\* confirmed a deletion since: it builds only what is not confirmed deleted.
WorkSound(w) ==
    /\ seen[w].scheduled => row.scheduled
    /\ seen[w].confirmed => row.confirmed
    /\ pc[w] = "operate" /\ ~seen[w].scheduled => ~row.confirmed
    /\ pc[w] = "apply" => ~row.confirmed
    /\ pc[w] = "clean" => row.scheduled
    /\ pc[w] = "confirm" => row.scheduled /\ world = Nothing
    /\ pc[w] = "remove" => row.confirmed
    /\ pc[w] \in {"operate", "apply", "clean"} => row.state # "absent"

DeletionSound == LockHeld /\ RowSound /\ \A w \in Workers : WorkSound(w)

LEMMA HandlerSound ==
    ASSUME TypeOK, DeletionSound, NEW r \in Requests,
           \/ Add(r) \/ ReadForUpdate(r) \/ ReadForDelete(r)
           \/ HandlerStep(r) \/ AckWait(r)
    PROVE  DeletionSound'
<1> USE DEF DeletionSound, RowSound, WorkSound, loopVars
<1>1. row \in Row /\ req \in [Requests -> Service] /\ req[r] \in Service
  BY DEF TypeOK
<1>2. UNCHANGED <<loopVars, lock, world>>
  BY DEF Add, ReadForUpdate, ReadForDelete, HandlerStep, WriteUpdate, ScheduleDeletion,
         FinishDelete, Publish, PublishFails, AckWait, apiVars
<1>3. LockHeld'
  BY <1>2 DEF LockHeld, Working
<1>4. CASE Add(r)
  <2>1. row'.state = "live" /\ ~row'.scheduled /\ ~row'.confirmed
    BY <1>4 DEF Add, NoRow
  <2>2. ~row.scheduled /\ ~row.confirmed
    BY <1>4 DEF Add
  <2>3. \A q \in Requests : req'[q].confirmed => req[q].confirmed
    BY <1>1, <1>4 DEF Add, NotServed
  <2> QED
    BY <1>2, <1>3, <2>1, <2>2, <2>3
<1>5. CASE ReadForUpdate(r)
  <2>1. \A q \in Requests : req'[q].confirmed => req[q].confirmed
    BY <1>1, <1>5 DEF ReadForUpdate, NotServed
  <2> QED
    BY <1>2, <1>3, <1>5, <2>1 DEF ReadForUpdate
<1>6. CASE ReadForDelete(r)
  <2>1. \A q \in Requests : req'[q].confirmed => row.confirmed
    BY <1>1, <1>6 DEF ReadForDelete
  <2> QED
    BY <1>2, <1>3, <1>6, <2>1 DEF ReadForDelete
<1>7. CASE WriteUpdate(r) \/ ScheduleDeletion(r)
  <2>1. /\ row'.state = row.state /\ row'.confirmed = row.confirmed
        /\ row.scheduled => row'.scheduled
        /\ row'.scheduled # row.scheduled => row.state = "live"
    BY <1>1, <1>7 DEF WriteUpdate, ScheduleDeletion, Row, Live
  <2>2. \A q \in Requests : req'[q].confirmed = req[q].confirmed
    BY <1>1, <1>7 DEF WriteUpdate, ScheduleDeletion, Service
  <2> QED
    BY <1>2, <1>3, <2>1, <2>2
<1>8. CASE FinishDelete(r)
  <2>1. /\ row'.scheduled = row.scheduled /\ row'.confirmed = row.confirmed
        /\ row'.state # row.state => row'.state = "gone" /\ row.confirmed
    BY <1>1, <1>8 DEF FinishDelete, Row, Live
  <2>2. \A q \in Requests : req'[q].confirmed => req[q].confirmed
    BY <1>1, <1>8 DEF FinishDelete, NotServed
  <2> QED
    BY <1>2, <1>3, <2>1, <2>2
<1>9. CASE Publish(r) \/ PublishFails(r) \/ AckWait(r)
  <2>1. row' = row /\ \A q \in Requests : req'[q].confirmed = req[q].confirmed
    BY <1>1, <1>9 DEF Publish, PublishFails, AckWait, apiVars, Service
  <2> QED
    BY <1>2, <1>3, <2>1
<1> QED
  BY <1>4, <1>5, <1>6, <1>7, <1>8, <1>9 DEF HandlerStep

\* A controller leaves its round: whatever it does to the lock, no other
\* controller is at work.
LEMMA RoundEnds ==
    ASSUME TypeOK, DeletionSound, NEW w \in Workers, NextRound(w), UNCHANGED <<req, world>>,
           \/ lock' = lock
           \/ lock' = None /\ \A v \in Workers \ {w} : ~Working(v),
           RowSound', row.scheduled => row'.scheduled, row.confirmed => row'.confirmed,
           row'.confirmed = row.confirmed \/ Working(w),
           row.state # "absent" => row'.state # "absent"
    PROVE  DeletionSound'
<1>1. /\ pc'[w] = "idle" /\ ~seen'[w].scheduled /\ ~seen'[w].confirmed
      /\ \A v \in Workers \ {w} : pc'[v] = pc[v] /\ seen'[v] = seen[v]
  BY DEF TypeOK, NextRound, Goto, NoRow
<1>2. LockHeld'
  BY <1>1 DEF DeletionSound, LockHeld, Working, WorkStates
<1>3. WorkSound(w)'
  BY <1>1 DEF WorkSound
<1>4. ASSUME NEW v \in Workers \ {w} PROVE WorkSound(v)'
  <2>1. Working(w) => ~Working(v)
    BY <1>4 DEF DeletionSound, LockHeld
  <2> QED
    BY <1>1, <1>4, <2>1 DEF DeletionSound, WorkSound, Working, WorkStates
<1> QED
  BY <1>2, <1>3, <1>4 DEF DeletionSound

\* A controller holding the lock goes on: the others are between rounds, so
\* only what is asked of it and of the row can be disturbed.
LEMMA WorkGoesOn ==
    ASSUME TypeOK, DeletionSound, NEW w \in Workers, Working(w), UNCHANGED lock,
           NEW l \in WorkStates, pc' = [pc EXCEPT ![w] = l],
           \A v \in Workers \ {w} : seen'[v] = seen[v],
           row.scheduled => row'.scheduled, row.confirmed => row'.confirmed,
           RowSound', WorkSound(w)'
    PROVE  DeletionSound'
<1>1. \A v \in Workers \ {w} : pc'[v] = pc[v] /\ ~Working(v)
  BY DEF TypeOK, DeletionSound, LockHeld
<1>2. LockHeld'
  BY <1>1 DEF DeletionSound, LockHeld, Working
<1>3. \A v \in Workers \ {w} : WorkSound(v)'
  BY <1>1 DEF DeletionSound, WorkSound, Working, WorkStates
<1> QED
  BY <1>2, <1>3 DEF DeletionSound

LEMMA LoopSound ==
    ASSUME TypeOK, DeletionSound, NEW w \in Workers, LoopStep(w) \/ Crash(w)
    PROVE  DeletionSound'
<1> USE DEF Goto, apiVars, loopVars
<1>1. row \in Row /\ world \in World /\ seen[w] \in Row
  BY DEF TypeOK
<1>2. RowSound /\ WorkSound(w) /\ \A v \in Workers \ {w} : Working(w) => ~Working(v)
  BY DEF DeletionSound, LockHeld
<1>3. ASSUME NEW r \in Requests, Begin(w, r) PROVE DeletionSound'
  <2>1. \A v \in Workers : ~Working(v)
    BY <1>3, NoneAssumption DEF Begin, DeletionSound, LockHeld
  <2>2. \A v \in Workers : pc'[v] = IF v = w THEN "get" ELSE pc[v]
    BY <1>3 DEF Begin, TypeOK
  <2>3. LockHeld'
    BY <1>3, <2>1, <2>2 DEF Begin, LockHeld, Working
  <2> QED
    BY <1>3, <2>2, <2>3 DEF Begin, DeletionSound, RowSound, WorkSound
<1>4. CASE GetLatest(w)
  <2>1. Working(w) /\ pc' = [pc EXCEPT ![w] = IF Live THEN "operate" ELSE "release"]
    BY <1>4 DEF GetLatest, Working, WorkStates
  <2>2. RowSound'
    BY <1>2, <1>4 DEF GetLatest, RowSound
  <2>3. /\ Live => seen'[w] = row /\ pc'[w] = "operate"
        /\ ~Live => seen'[w] = seen[w] /\ pc'[w] = "release"
    BY <1>4 DEF GetLatest, TypeOK
  <2>4. WorkSound(w)'
    BY <1>2, <1>4, <2>3 DEF GetLatest, WorkSound, RowSound, Live
  <2>5. \A v \in Workers \ {w} : seen'[v] = seen[v]
    BY <1>4 DEF GetLatest, TypeOK
  <2> QED
    BY <1>4, <2>1, <2>2, <2>4, <2>5, WorkGoesOn DEF GetLatest, WorkStates
<1>5. CASE SkipCreate(w) \/ SkipUpdate(w)
  <2>1. Working(w) /\ pc' = [pc EXCEPT ![w] = "mark"] /\ pc'[w] = "mark"
    BY <1>5 DEF SkipCreate, SkipUpdate, Working, WorkStates, TypeOK
  <2>2. RowSound' /\ WorkSound(w)'
    BY <1>2, <1>5, <2>1 DEF SkipCreate, SkipUpdate, RowSound, WorkSound
  <2> QED
    BY <1>5, <2>1, <2>2, WorkGoesOn DEF SkipCreate, SkipUpdate, WorkStates
<1>6. CASE StartApply(w)
  <2>1. Working(w) /\ pc' = [pc EXCEPT ![w] = "apply"] /\ pc'[w] = "apply"
    BY <1>6 DEF StartApply, Working, WorkStates, TypeOK
  <2>2. ~row.confirmed /\ row.state # "absent"
    BY <1>2, <1>6 DEF StartApply, WorkSound, RowSound, Nothing
  <2>3. RowSound' /\ WorkSound(w)'
    BY <1>2, <1>6, <2>1, <2>2 DEF StartApply, RowSound, WorkSound
  <2> QED
    BY <1>6, <2>1, <2>3, WorkGoesOn DEF StartApply, WorkStates
<1>7. CASE FinishApply(w)
  <2>1. Working(w) /\ pc' = [pc EXCEPT ![w] = "mark"] /\ pc'[w] = "mark"
    BY <1>7 DEF FinishApply, Working, WorkStates, TypeOK
  <2>2. RowSound' /\ WorkSound(w)'
    BY <1>2, <1>7, <2>1 DEF FinishApply, RowSound, WorkSound
  <2> QED
    BY <1>7, <2>1, <2>2, WorkGoesOn DEF FinishApply, WorkStates
<1>8. CASE StartClean(w)
  <2>1. PICK l \in {"confirm", "clean"} :
           /\ pc' = [pc EXCEPT ![w] = l]
           /\ l = "confirm" => seen[w].confirmed /\ world' = world
    BY <1>8 DEF StartClean
  <2>2. Working(w) /\ pc'[w] = l
    BY <1>8, <2>1 DEF StartClean, Working, WorkStates, TypeOK
  <2>3. row.confirmed => world' = Nothing
    BY <1>2, <1>8 DEF StartClean, RowSound, Nothing
  <2>4. RowSound' /\ WorkSound(w)'
    BY <1>2, <1>8, <2>1, <2>2, <2>3 DEF StartClean, RowSound, WorkSound
  <2>5. l \in WorkStates
    BY DEF WorkStates
  <2> QED
    BY <1>8, <2>1, <2>2, <2>4, <2>5, WorkGoesOn DEF StartClean
<1>9. CASE FinishClean(w)
  <2>1. Working(w) /\ pc' = [pc EXCEPT ![w] = "confirm"] /\ pc'[w] = "confirm"
    BY <1>9 DEF FinishClean, Working, WorkStates, TypeOK
  <2>2. RowSound' /\ WorkSound(w)'
    BY <1>2, <1>9, <2>1 DEF FinishClean, RowSound, WorkSound
  <2> QED
    BY <1>9, <2>1, <2>2, WorkGoesOn DEF FinishClean, WorkStates
<1>10. CASE MarkReconciled(w)
  <2>1. Working(w) /\ pc' = [pc EXCEPT ![w] = "release"] /\ pc'[w] = "release"
    BY <1>10 DEF MarkReconciled, Working, WorkStates, TypeOK
  <2>2. /\ row'.state = row.state /\ row'.scheduled = row.scheduled
        /\ row'.confirmed = row.confirmed
    BY <1>1, <1>10 DEF MarkReconciled, Row
  <2>3. RowSound' /\ WorkSound(w)'
    BY <1>2, <1>10, <2>1, <2>2 DEF MarkReconciled, RowSound, WorkSound
  <2> QED
    BY <1>10, <2>1, <2>2, <2>3, WorkGoesOn DEF MarkReconciled, WorkStates
<1>11. CASE ConfirmDeletion(w)
  <2>1. Working(w) /\ pc' = [pc EXCEPT ![w] = "remove"] /\ pc'[w] = "remove"
    BY <1>11 DEF ConfirmDeletion, Working, WorkStates, TypeOK
  <2>2. row'.state = "live" /\ row'.scheduled = row.scheduled /\ row'.confirmed
    BY <1>1, <1>11 DEF ConfirmDeletion, Row, Live
  <2>3. RowSound' /\ WorkSound(w)'
    BY <1>2, <1>11, <2>1, <2>2 DEF ConfirmDeletion, RowSound, WorkSound
  <2> QED
    BY <1>11, <2>1, <2>2, <2>3, WorkGoesOn DEF ConfirmDeletion, WorkStates
<1>12. CASE RemoveRow(w)
  <2>1. Working(w) /\ pc' = [pc EXCEPT ![w] = "release"] /\ pc'[w] = "release"
    BY <1>12 DEF RemoveRow, Working, WorkStates, TypeOK
  <2>2. /\ row'.state = "gone" /\ row'.scheduled = row.scheduled
        /\ row'.confirmed = row.confirmed /\ row.confirmed
    BY <1>1, <1>12 DEF RemoveRow, Row
  <2>3. RowSound' /\ WorkSound(w)'
    BY <1>2, <1>12, <2>1, <2>2 DEF RemoveRow, RowSound, WorkSound
  <2> QED
    BY <1>12, <2>1, <2>2, <2>3, WorkGoesOn DEF RemoveRow, WorkStates
<1>13. CASE OperationRequeued(w) \/ RowVanished(w) \/ Crash(w)
  <2>1. RowSound'
    BY <1>2, <1>13 DEF OperationRequeued, RowVanished, Crash, Requeue, RowSound
  <2>2. NextRound(w) /\ UNCHANGED <<row, req, world>>
    BY <1>13 DEF OperationRequeued, RowVanished, Crash, Requeue
  <2>3. lock' = lock \/ (lock' = None /\ Working(w))
    BY <1>13 DEF OperationRequeued, RowVanished, Crash, Requeue, Working, WorkStates
  <2> QED
    BY <1>2, <2>1, <2>2, <2>3, RoundEnds
<1>14. CASE ApiFails(w)
  <2>1. Working(w) /\ NextRound(w) /\ UNCHANGED <<req, world>> /\ lock' = None
    BY <1>14 DEF ApiFails, Requeue, Working, WorkStates
  <2>2. /\ row'.scheduled = row.scheduled
        /\ row'.state # row.state => row'.state = "gone" /\ pc[w] = "remove"
        /\ row'.confirmed # row.confirmed => row'.confirmed /\ pc[w] = "confirm" /\ Live
    BY <1>1, <1>14 DEF ApiFails, Row
  <2>3. RowSound'
    BY <1>2, <2>1, <2>2 DEF RowSound, WorkSound, Live
  <2>4. (row.confirmed => row'.confirmed) /\ (row.state # "absent" => row'.state # "absent")
    BY <1>1, <2>2 DEF Row
  <2> QED
    BY <1>2, <2>1, <2>2, <2>3, <2>4, RoundEnds
<1>15. CASE Release(w)
  <2>1. Working(w)
    BY <1>15 DEF Release, Working, WorkStates
  <2>2. \A v \in Workers : pc'[v] = IF v = w THEN "ack" ELSE pc[v]
    BY <1>15 DEF Release, TypeOK
  <2>3. LockHeld'
    BY <1>2, <2>1, <2>2 DEF LockHeld, Working, WorkStates
  <2> QED
    BY <1>15, <2>2, <2>3 DEF Release, DeletionSound, RowSound, WorkSound
<1>16. CASE Ack(w)
  <2>1. RowSound'
    BY <1>2, <1>16 DEF Ack, RowSound
  <2> QED
    BY <1>16, <2>1, RoundEnds DEF Ack
<1> QED
  BY <1>3, <1>4, <1>5, <1>6, <1>7, <1>8, <1>9, <1>10, <1>11, <1>12, <1>13, <1>14,
     <1>15, <1>16 DEF LoopStep

LEMMA InitSound == Init => DeletionSound
BY DEF Init, DeletionSound, LockHeld, RowSound, WorkSound, Working, WorkStates, NoRow,
       NotServed

LEMMA NextSound ==
    ASSUME "lapse" \notin Disruptions, TypeOK, DeletionSound, [Next]_vars
    PROVE  DeletionSound'
<1>1. CASE UNCHANGED vars
  BY <1>1 DEF vars, DeletionSound, LockHeld, RowSound, WorkSound, Working
<1>2. CASE ExpireLock
  <2>1. \A w \in Workers : ~Working(w)
    BY <1>2 DEF ExpireLock, Disrupt
  <2> QED
    BY <1>2, <2>1 DEF ExpireLock, DeletionSound, LockHeld, RowSound, WorkSound, Working,
       apiVars, loopVars
<1> QED
  BY <1>1, <1>2, HandlerSound, LoopSound DEF Next

\* The inductive invariant, of every behaviour in which no controller holds
\* its lock for longer than the lock lives.
LEMMA Soundness ==
    ASSUME "lapse" \notin Disruptions
    PROVE  Spec => [](TypeOK /\ DeletionSound)
<1>1. TypeOK /\ DeletionSound /\ [Next]_vars => DeletionSound'
  BY NextSound
<1> QED
  BY <1>1, InitSound, InitTypeOK, NextTypeOK, PTL DEF Spec

\* Nothing is left of an object whose row is gone, whichever notifications
\* are still worked on and whatever fails or dies, if no lock lapses.
THEOREM DeletionLeavesNothing ==
    ASSUME "lapse" \notin Disruptions
    PROVE  Spec => []NoLeftovers
<1>1. DeletionSound => NoLeftovers
  BY DEF DeletionSound, RowSound, NoLeftovers
<1> QED
  BY <1>1, Soundness, PTL

------------------------------------------------------------------------------
(* Convergence.  No disruption is excluded here: Converged speaks of the    *)
(* behaviours undisturbed so far, and of a controller that is alone.        *)

\* What a request has come to.
RequestSound(r) ==
    /\ req[r].at = "idle" <=> req[r].op = "none"
    /\ req[r].op = "delete" => row.state # "absent"
    /\ req[r].op = "delete" /\ req[r].at \in {"publish", "done"}
          => row.scheduled \/ row.state = "gone"
    /\ req[r].scheduled => row.scheduled
    /\ notif[r] # "none" => req[r].at = "done"

\* What a controller works with.
WorkerSound(w) ==
    /\ cur[w] \in Requests => notif[cur[w]] # "none"
    /\ seen[w].scheduled => row.scheduled
    /\ pc[w] \in {"clean", "confirm", "remove"} => row.scheduled
    /\ Solo /\ pc[w] # "idle" => notif[cur[w]] \in {"ready", "delivered"}

PartsSound ==
    /\ row.state = "absent" => ~row.scheduled
    /\ \A r \in Requests : RequestSound(r)
    /\ \A w \in Workers : WorkerSound(w)

\* A change whose notification is still to be read the latest row for.
Unserved(r) ==
    /\ req[r].op \in {"create", "update"}
    /\ \/ req[r].at = "publish"
       \/ /\ notif[r] \in {"ready", "delivered"}
          /\ \A w \in Workers : cur[w] = r => pc[w] = "get"

Busy(w) == pc[w] \in {"operate", "apply", "mark"}
Built == world = [st |-> "built", spec |-> row.spec]

\* A controller at work on the object as it is now.
Fresh(w) ==
    /\ pc[w] \in {"operate", "apply"} => seen[w].spec = row.spec
    /\ pc[w] = "mark" => Built

\* Somebody has still to bring the object up to date, or it is.
Progress ==
    \/ \E r \in Requests : Unserved(r)
    \/ /\ \A w \in Workers : Fresh(w)
       /\ (Built /\ row.reconciled) \/ \E w \in Workers : Busy(w)

\* An object nothing was ever built for is still to be created: no update is
\* taken for done because it found nothing to change.
Creation ==
    world.st = "none" =>
        \E c \in Requests :
           /\ req[c].op = "create"
           /\ Unserved(c) \/ \E w \in Workers : pc[w] = "operate" /\ cur[w] = c

\* The inductive invariant.
ConvergenceInv ==
    /\ disruptions = 0 => DeletionSound
    /\ PartsSound
    /\ Calm /\ Live /\ ~row.scheduled => Progress /\ Creation

LEMMA InitConvergence == Init => ConvergenceInv
BY InitSound, NoneAssumption DEF Init, ConvergenceInv, PartsSound, RequestSound, WorkerSound, Live, NoRow,
   NotServed

LEMMA HandlerParts ==
    ASSUME TypeOK, PartsSound, NEW r \in Requests,
           \/ Add(r) \/ ReadForUpdate(r) \/ ReadForDelete(r)
           \/ HandlerStep(r) \/ AckWait(r)
    PROVE  PartsSound'
<1> USE DEF loopVars
<1>1. row \in Row /\ req \in [Requests -> Service] /\ req[r] \in Service
  BY DEF TypeOK
<1>2. UNCHANGED loopVars
  BY DEF Add, ReadForUpdate, ReadForDelete, HandlerStep, WriteUpdate, ScheduleDeletion,
         FinishDelete, Publish, PublishFails, AckWait
<1>3. /\ row.state # "absent" => row'.state # "absent"
      /\ row.scheduled => row'.scheduled
      /\ row.state = "gone" => row'.state = "gone"
      /\ row'.state = "absent" => ~row'.scheduled
  BY <1>1 DEF PartsSound, Add, ReadForUpdate, ReadForDelete, HandlerStep, WriteUpdate,
     ScheduleDeletion, FinishDelete, Publish, PublishFails, AckWait, apiVars, Live, Row, NoRow
<1>4. \A q \in Requests \ {r} : req'[q] = req[q] /\ notif'[q] = notif[q]
  BY DEF TypeOK, Add, ReadForUpdate, ReadForDelete, HandlerStep, WriteUpdate,
     ScheduleDeletion, FinishDelete, Publish, PublishFails, AckWait, apiVars
<1>5. ASSUME NEW q \in Requests \ {r} PROVE RequestSound(q)'
  BY <1>3, <1>4 DEF PartsSound, RequestSound
<1>6. RequestSound(r)'
  <2> USE <1>1, <1>3 DEF PartsSound, RequestSound, Service, NotServed
  <2>1. CASE Add(r)
    BY <2>1 DEF Add
  <2>2. CASE ReadForUpdate(r)
    BY <2>2 DEF ReadForUpdate
  <2>3. CASE ReadForDelete(r)
    BY <2>3 DEF ReadForDelete, Live
  <2>4. CASE WriteUpdate(r)
    BY <2>4 DEF WriteUpdate
  <2>5. CASE ScheduleDeletion(r)
    <3>1. row'.scheduled \/ row'.state = "gone"
      BY <2>5 DEF ScheduleDeletion, Live, Row
    <3> QED
      BY <2>5, <3>1 DEF ScheduleDeletion
  <2>6. CASE FinishDelete(r)
    BY <2>6 DEF FinishDelete
  <2>7. CASE Publish(r)
    BY <2>7 DEF Publish
  <2>8. CASE PublishFails(r)
    BY <2>8 DEF PublishFails
  <2>9. CASE AckWait(r)
    BY <2>9 DEF AckWait, apiVars
  <2> QED
    BY <2>1, <2>2, <2>3, <2>4, <2>5, <2>6, <2>7, <2>8, <2>9 DEF HandlerStep
<1>7. \A q \in Requests : notif'[q] = notif[q] \/ notif'[q] = "ready"
  BY DEF TypeOK, Add, ReadForUpdate, ReadForDelete, HandlerStep, WriteUpdate,
     ScheduleDeletion, FinishDelete, Publish, PublishFails, AckWait, apiVars
<1>8. ASSUME NEW w \in Workers PROVE WorkerSound(w)'
  BY <1>2, <1>3, <1>7 DEF PartsSound, WorkerSound, Solo, TypeOK
<1> QED
  BY <1>3, <1>5, <1>6, <1>8 DEF PartsSound

\* What every step of the loop leaves of the rest of the system.
LEMMA LoopFrame ==
    ASSUME TypeOK, PartsSound, NEW w \in Workers, LoopStep(w) \/ Crash(w)
    PROVE  /\ req' = req
           /\ row'.scheduled = row.scheduled /\ row'.spec = row.spec
           /\ row'.state = row.state \/ (Live /\ row'.state = "gone")
           /\ \A v \in Workers \ {w} : pc'[v] = pc[v] /\ cur'[v] = cur[v] /\ seen'[v] = seen[v]
<1> USE DEF Goto, apiVars, loopVars
<1>1. row \in Row
  BY DEF TypeOK
<1>2. req' = req
  BY DEF LoopStep, Begin, GetLatest, SkipCreate, SkipUpdate, StartApply, FinishApply,
     StartClean, FinishClean, OperationRequeued, MarkReconciled, ConfirmDeletion, RemoveRow,
     RowVanished, ApiFails, Release, Ack, Crash, Requeue
<1>3. /\ row'.scheduled = row.scheduled /\ row'.spec = row.spec
      /\ row'.state = row.state \/ (Live /\ row'.state = "gone")
  BY <1>1 DEF LoopStep, Begin, GetLatest, SkipCreate, SkipUpdate, StartApply, FinishApply,
     StartClean, FinishClean, OperationRequeued, MarkReconciled, ConfirmDeletion, RemoveRow,
     RowVanished, ApiFails, Release, Ack, Crash, Requeue, Row, Live
<1>4. \A v \in Workers \ {w} : pc'[v] = pc[v] /\ cur'[v] = cur[v] /\ seen'[v] = seen[v]
  BY DEF LoopStep, Begin, GetLatest, SkipCreate, SkipUpdate, StartApply, FinishApply,
     StartClean, FinishClean, OperationRequeued, MarkReconciled, ConfirmDeletion, RemoveRow,
     RowVanished, ApiFails, Release, Ack, Crash, Requeue, NextRound, TypeOK
<1> QED
  BY <1>2, <1>3, <1>4

\* What the loop does with notifications: it gives none that was not
\* published, and settles none but by Ack.
LEMMA LoopNotif ==
    ASSUME TypeOK, PartsSound, NEW w \in Workers, LoopStep(w) \/ Crash(w)
    PROVE  \A r \in Requests :
              \/ notif'[r] = notif[r]
              \/ notif[r] # "none" /\ notif'[r] \in {"ready", "delivered"}
              \/ Ack(w) /\ r = cur[w] /\ notif[r] # "none" /\ notif'[r] = "acked"
<1> USE DEF Goto, apiVars, loopVars
<1>1. ASSUME NEW q \in Requests, Begin(w, q), NEW r \in Requests
      PROVE  notif'[r] = notif[r] \/ (notif[r] # "none" /\ notif'[r] \in {"ready", "delivered"})
  BY <1>1 DEF Begin, TypeOK
<1>2. CASE Requeue(w) /\ pc[w] # "idle"
  <2>1. cur[w] \in Requests /\ notif[cur[w]] # "none"
    BY <1>2 DEF TypeOK, PartsSound, WorkerSound
  <2> QED
    BY <1>2, <2>1 DEF Requeue, TypeOK
<1>3. CASE Ack(w)
  <2>1. cur[w] \in Requests /\ notif[cur[w]] # "none"
    BY <1>3 DEF Ack, TypeOK, PartsSound, WorkerSound
  <2> QED
    BY <1>3, <2>1 DEF Ack, TypeOK
<1>4. CASE notif' = notif
  BY <1>4
<1> QED
  BY <1>1, <1>2, <1>3, <1>4 DEF LoopStep, GetLatest, SkipCreate, SkipUpdate, StartApply,
     FinishApply, StartClean, FinishClean, OperationRequeued, MarkReconciled,
     ConfirmDeletion, RemoveRow, RowVanished, ApiFails, Release, Crash

LEMMA LoopParts ==
    ASSUME TypeOK, PartsSound, NEW w \in Workers, LoopStep(w) \/ Crash(w)
    PROVE  PartsSound'
<1> USE DEF Goto, apiVars, loopVars
<1>1. ASSUME NEW r \in Requests PROVE RequestSound(r)'
  BY LoopFrame, LoopNotif DEF PartsSound, RequestSound, Live
<1>2. ASSUME NEW v \in Workers \ {w} PROVE WorkerSound(v)'
  <2>1. ~Solo
    BY <1>2 DEF Solo
  <2> QED
    BY <2>1, LoopFrame, LoopNotif DEF PartsSound, WorkerSound, Solo
<1>3. WorkerSound(w)'
  <2>1. WorkerSound(w) /\ row'.scheduled = row.scheduled
    BY LoopFrame DEF PartsSound
  <2>2. CASE NextRound(w)
    BY <2>2, NoneAssumption DEF NextRound, TypeOK, WorkerSound, NoRow
  <2>3. ASSUME NEW r \in Requests, Begin(w, r) PROVE WorkerSound(w)'
    BY <2>1, <2>3 DEF Begin, TypeOK, WorkerSound
  <2>4. CASE GetLatest(w)
    BY <2>1, <2>4 DEF GetLatest, TypeOK, WorkerSound, Solo
  <2>5. CASE \/ SkipCreate(w) \/ SkipUpdate(w) \/ StartApply(w) \/ FinishApply(w)
             \/ StartClean(w) \/ FinishClean(w) \/ MarkReconciled(w)
             \/ ConfirmDeletion(w) \/ RemoveRow(w) \/ Release(w)
    BY <2>1, <2>5 DEF SkipCreate, SkipUpdate, StartApply, FinishApply, StartClean,
       FinishClean, MarkReconciled, ConfirmDeletion, RemoveRow, Release, TypeOK,
       WorkerSound, Solo
  <2> QED
    BY <2>2, <2>3, <2>4, <2>5 DEF LoopStep, OperationRequeued, RowVanished, ApiFails, Ack,
       Crash, Requeue
<1>4. row'.state = "absent" => ~row'.scheduled
  BY LoopFrame DEF PartsSound, Live
<1> QED
  BY <1>1, <1>2, <1>3, <1>4 DEF PartsSound

\* What ConvergenceInv says Progress and Creation of.
CalmLive == Calm /\ Live /\ ~row.scheduled

\* No two controllers are at work: one that is alone, or the lock, sees to it.
LEMMA OneWorks ==
    ASSUME ConvergenceInv, Calm, NEW v \in Workers, NEW w \in Workers, Working(v), Working(w)
    PROVE  v = w
BY DEF ConvergenceInv, Calm, Solo, DeletionSound, LockHeld

\* A request a controller works for while the object is live and not to be
\* deleted is a change.
LEMMA WorkIsChange ==
    ASSUME TypeOK, ConvergenceInv, CalmLive, NEW w \in Workers, pc[w] # "idle"
    PROVE  cur[w] \in Requests /\ req[cur[w]].op \in {"create", "update"}
<1>1. cur[w] \in Requests /\ req[cur[w]] \in Service
  BY DEF TypeOK
<1>2. WorkerSound(w) /\ RequestSound(cur[w])
  BY <1>1 DEF ConvergenceInv, PartsSound
<1> QED
  BY <1>1, <1>2 DEF WorkerSound, RequestSound, CalmLive, Live, Service

\* A handler's step that leaves what is unserved unserved.
LEMMA CreationKept ==
    ASSUME ConvergenceInv, CalmLive, UNCHANGED <<pc, cur, world>>,
           \A q \in Requests :
              /\ Unserved(q) => Unserved(q)'
              /\ req[q].op = "create" => req'[q].op = "create"
    PROVE  Creation'
BY DEF ConvergenceInv, CalmLive, Creation

LEMMA HandlerProgress ==
    ASSUME TypeOK, ConvergenceInv, CalmLive', NEW r \in Requests,
           \/ Add(r) \/ ReadForUpdate(r) \/ ReadForDelete(r)
           \/ HandlerStep(r) \/ AckWait(r)
    PROVE  Progress' /\ Creation'
<1> USE DEF loopVars
<1>1. req \in [Requests -> Service] /\ req[r] \in Service /\ row \in Row
  BY DEF TypeOK
<1>2. UNCHANGED <<pc, cur, seen, world>>
  BY DEF Add, ReadForUpdate, ReadForDelete, HandlerStep, WriteUpdate, ScheduleDeletion,
         FinishDelete, Publish, PublishFails, AckWait, apiVars
<1>3. RequestSound(r) /\ \A w \in Workers : WorkerSound(w)
  BY DEF ConvergenceInv, PartsSound
<1>4. req[r].at # "done" => \A w \in Workers : cur[w] # r
  BY <1>3 DEF RequestSound, WorkerSound
<1>5. CASE Add(r)
  <2>1. Unserved(r)' /\ req'[r].op = "create"
    BY <1>1, <1>5 DEF Add, Unserved, NotServed
  <2> QED
    BY <2>1 DEF Progress, Creation
<1>6. ASSUME ~Add(r) PROVE CalmLive
  <2>1. Calm
    BY DEF CalmLive, Calm, Solo, TypeOK, Add, ReadForUpdate, ReadForDelete, HandlerStep,
       WriteUpdate, ScheduleDeletion, FinishDelete, Publish, PublishFails, AckWait, Disrupt
  <2>2. (row'.state = "live" => row.state = "live") /\ (row.scheduled => row'.scheduled)
    BY <1>1, <1>6 DEF ReadForUpdate, ReadForDelete, HandlerStep, WriteUpdate,
       ScheduleDeletion, FinishDelete, Publish, PublishFails, AckWait, apiVars, Row, Live
  <2> QED
    BY <2>1, <2>2 DEF CalmLive, Live
<1>7. CASE WriteUpdate(r)
  <2>1. CalmLive /\ Unserved(r)'
    BY <1>1, <1>6, <1>7 DEF Add, WriteUpdate, Unserved, Service
  <2>2. ASSUME NEW q \in Requests \ {r} PROVE req'[q] = req[q] /\ (Unserved(q) => Unserved(q)')
    BY <1>1, <1>2, <1>7, <2>2 DEF WriteUpdate, Unserved
  <2>3. req[r].op # "create"
    BY <1>7 DEF WriteUpdate
  <2>4. Creation'
    BY <1>2, <2>1, <2>2, <2>3, CreationKept
  <2> QED
    BY <2>1, <2>4 DEF Progress
<1>8. CASE ScheduleDeletion(r) \/ PublishFails(r)
  <2>1. ScheduleDeletion(r) => row'.scheduled
    BY <1>1, <1>6 DEF ScheduleDeletion, CalmLive, Live, Row, Add
  <2>2. PublishFails(r) => ~Calm'
    BY DEF PublishFails, Disrupt, Calm, Solo, TypeOK
  <2> QED
    BY <1>8, <2>1, <2>2 DEF CalmLive
\* The rest leaves the row alone and every unserved change unserved.
<1>9. CASE \/ ReadForUpdate(r) \/ ReadForDelete(r) \/ FinishDelete(r)
           \/ Publish(r) \/ AckWait(r)
  <2>1. CalmLive
    BY <1>6, <1>9 DEF Add, ReadForUpdate, ReadForDelete, FinishDelete, Publish, AckWait,
       apiVars, CalmLive, Live
  <2>2. row' = row
    BY <1>1, <1>9 DEF ReadForUpdate, ReadForDelete, FinishDelete, Publish, AckWait, apiVars,
       CalmLive, Live, Row
  <2>3. ASSUME NEW q \in Requests \ {r} PROVE req'[q] = req[q] /\ notif'[q] = notif[q]
    BY <1>1, <1>9, <2>3 DEF ReadForUpdate, ReadForDelete, FinishDelete, Publish, AckWait,
       apiVars, TypeOK
  <2>4. Unserved(r) => Unserved(r)'
    <3>1. CASE ReadForUpdate(r) \/ ReadForDelete(r) \/ FinishDelete(r)
      BY <1>3, <3>1 DEF ReadForUpdate, ReadForDelete, FinishDelete, RequestSound, Unserved
    <3>2. CASE Publish(r)
      BY <1>1, <1>2, <1>4, <3>2 DEF Publish, Unserved, TypeOK, Service
    <3>3. CASE AckWait(r)
      BY <1>2, <3>3 DEF AckWait, apiVars, Unserved, TypeOK
    <3> QED
      BY <1>9, <3>1, <3>2, <3>3
  <2>5. req[r].op = "create" => req'[r].op = "create"
    BY <1>1, <1>3, <1>9 DEF ReadForUpdate, ReadForDelete, FinishDelete, Publish, AckWait,
       apiVars, RequestSound, Service
  <2>6. \A q \in Requests : Unserved(q) => Unserved(q)'
    BY <1>2, <2>3, <2>4 DEF Unserved
  <2>7. Creation'
    BY <1>2, <2>1, <2>3, <2>5, <2>6, CreationKept
  <2>8. Progress'
    BY <1>2, <2>1, <2>2, <2>6 DEF ConvergenceInv, CalmLive, Progress, Fresh, Built, Busy
  <2> QED
    BY <2>7, <2>8
<1> QED
  BY <1>5, <1>7, <1>8, <1>9 DEF HandlerStep

------------------------------------------------------------------------------

\* A controller gives up its round in a behaviour that stays calm: it was
\* alone, and whatever it had begun is still to be done.
LEMMA RoundLost ==
    ASSUME TypeOK, ConvergenceInv, CalmLive, NEW w \in Workers, pc[w] # "idle", Solo,
           NextRound(w), UNCHANGED <<req, world>>, row'.spec = row.spec,
           row.reconciled => row'.reconciled,
           \A r \in Requests : notif'[r] = notif[r] \/ notif'[r] \in {"ready", "delivered"}
    PROVE  Progress' /\ Creation'
<1>1. pc'[w] = "idle" /\ cur'[w] = None /\ \A v \in Workers : v = w
  BY DEF NextRound, Goto, TypeOK, Solo
<1>2. cur[w] \in Requests /\ req[cur[w]].op \in {"create", "update"}
  BY WorkIsChange
<1>3. PICK r \in Requests : r = cur[w]
  BY <1>2
<1>4. Unserved(r)'
  <2>1. notif[r] \in {"ready", "delivered"}
    BY <1>3 DEF ConvergenceInv, PartsSound, WorkerSound
  <2> QED
    BY <1>1, <1>2, <1>3, <2>1, NoneAssumption DEF Unserved
<1>5. \A q \in Requests : Unserved(q) => Unserved(q)'
  BY <1>1, NoneAssumption DEF Unserved
<1>6. Creation'
  <2> SUFFICES ASSUME world.st = "none" PROVE Creation'
    BY DEF Creation
  <2>1. PICK c \in Requests :
           req[c].op = "create" /\ (Unserved(c) \/ \E v \in Workers : cur[v] = c)
    BY DEF ConvergenceInv, CalmLive, Creation
  <2>2. Unserved(c)'
    BY <1>1, <1>3, <1>4, <1>5, <2>1
  <2> QED
    BY <2>1, <2>2 DEF Creation
<1> QED
  BY <1>4, <1>6 DEF Progress

LEMMA LoopProgress ==
    ASSUME TypeOK, ConvergenceInv, CalmLive', NEW w \in Workers, LoopStep(w) \/ Crash(w)
    PROVE  Progress' /\ Creation'
<1> USE DEF Goto, apiVars, loopVars
<1>1. /\ req' = req /\ row'.spec = row.spec /\ row'.scheduled = row.scheduled
      /\ row'.state = "live" => row.state = "live"
      /\ \A v \in Workers \ {w} : pc'[v] = pc[v] /\ cur'[v] = cur[v] /\ seen'[v] = seen[v]
  BY LoopFrame DEF ConvergenceInv, Live
<1>2. Calm
  BY DEF CalmLive, Calm, Solo, TypeOK, Disrupt, LoopStep, Begin, GetLatest, SkipCreate,
     SkipUpdate, StartApply, FinishApply, StartClean, FinishClean, OperationRequeued,
     MarkReconciled, ConfirmDeletion, RemoveRow, RowVanished, ApiFails, Release, Ack, Crash
<1>3. CalmLive /\ Live' /\ WorkerSound(w) /\ Progress /\ Creation
  BY <1>1, <1>2 DEF CalmLive, Live, ConvergenceInv, PartsSound
<1>4. Working(w) => \A v \in Workers \ {w} : ~Working(v) /\ pc'[v] \notin WorkStates
  BY <1>1, <1>2, OneWorks DEF Working
<1>5. Working(w) => \A v \in Workers \ {w} : Fresh(v)'
  BY <1>4 DEF Fresh, WorkStates
<1>6. \A r \in Requests : Unserved(r) /\ cur[w] = r => pc[w] = "get"
  BY <1>3 DEF ConvergenceInv, PartsSound, WorkerSound, RequestSound, Unserved
\* A change this controller does not take up stays unserved.
<1>7. ASSUME NEW r \in Requests, Unserved(r), notif'[r] \in {notif[r], "ready", "delivered"},
             cur'[w] = r => pc'[w] = "get"
      PROVE  Unserved(r)'
  BY <1>1, <1>7 DEF Unserved
<1>8. ASSUME NEW q \in Requests, Begin(w, q) PROVE Progress' /\ Creation'
  <2>1. pc'[w] = "get" /\ pc[w] = "idle" /\ cur'[w] = q /\ row' = row /\ world' = world
    BY <1>8 DEF Begin, TypeOK
  <2>2. \A r \in Requests : Unserved(r) => Unserved(r)'
    BY <1>7, <1>8, <2>1 DEF Begin, TypeOK
  <2>3. \A v \in Workers : (Fresh(v) => Fresh(v)') /\ (Busy(v) => Busy(v)')
    BY <1>1, <2>1 DEF Fresh, Busy, Built
  <2>4. Progress'
    BY <1>3, <2>1, <2>2, <2>3 DEF Progress, Built
  <2> QED
    BY <1>1, <1>3, <2>1, <2>2, <2>4 DEF Creation
<1>9. CASE GetLatest(w)
  <2>1. /\ pc[w] = "get" /\ pc'[w] = "operate" /\ seen'[w] = row /\ cur' = cur
        /\ UNCHANGED <<row, world, notif>>
    BY <1>3, <1>9 DEF GetLatest, TypeOK, CalmLive
  <2>2. Fresh(w)' /\ Busy(w)'
    BY <2>1 DEF Fresh, Busy
  <2>3. Progress'
    BY <1>4, <1>5, <2>1, <2>2 DEF Progress, Working, WorkStates
  <2>4. ASSUME NEW r \in Requests, Unserved(r) PROVE Unserved(r)' \/ cur'[w] = r
    BY <1>7, <2>1, <2>4
  <2>5. Creation'
    <3> SUFFICES ASSUME world.st = "none" PROVE Creation'
      BY <2>1 DEF Creation
    <3>1. PICK c \in Requests : req[c].op = "create" /\ Unserved(c)
      BY <1>3, <1>4, <2>1 DEF Creation, Working, WorkStates
    <3> QED
      BY <1>1, <2>1, <2>4, <3>1 DEF Creation
  <2> QED
    BY <2>3, <2>5
<1>10. CASE SkipUpdate(w)
  <2>1. /\ pc[w] = "operate" /\ pc'[w] = "mark" /\ req[cur[w]].op = "update"
        /\ world.st = "none" /\ UNCHANGED <<row, world, notif, cur>>
    BY <1>10 DEF SkipUpdate, TypeOK
  <2>2. PICK c \in Requests : req[c].op = "create" /\ Unserved(c)
    BY <1>3, <1>4, <2>1 DEF Creation, Working, WorkStates
  <2>3. Unserved(c)'
    BY <1>7, <2>1, <2>2
  <2> QED
    BY <1>1, <2>2, <2>3 DEF Progress, Creation
<1>11. CASE StartApply(w) \/ FinishApply(w)
  <2>1. /\ pc[w] \in {"operate", "apply"} /\ UNCHANGED <<row, notif, cur, seen>>
        /\ \/ pc'[w] = "apply" /\ world'.st = "partial"
           \/ pc'[w] = "mark" /\ world' = [st |-> "built", spec |-> seen[w].spec]
    BY <1>11 DEF StartApply, FinishApply, TypeOK, World
  <2>2. \A r \in Requests : Unserved(r) => Unserved(r)'
    BY <1>6, <1>7, <2>1
  <2>3. Busy(w)' /\ (Fresh(w) => Fresh(w)')
    BY <2>1 DEF Fresh, Busy, Built
  <2>4. Progress'
    BY <1>3, <1>5, <2>1, <2>2, <2>3 DEF Progress, Working, WorkStates
  <2>5. Creation'
    BY <2>1 DEF Creation
  <2> QED
    BY <2>4, <2>5
<1>12. CASE MarkReconciled(w)
  <2>1. /\ pc[w] = "mark" /\ pc'[w] = "release" /\ row'.reconciled
        /\ UNCHANGED <<world, notif, cur>>
    BY <1>12 DEF MarkReconciled, TypeOK, Row
  <2>2. \A r \in Requests : Unserved(r) => Unserved(r)'
    BY <1>6, <1>7, <2>1
  <2>3. Fresh(w)' /\ (Fresh(w) => Built')
    BY <1>1, <2>1 DEF Fresh, Built
  <2>4. Progress'
    BY <1>3, <1>5, <2>1, <2>2, <2>3 DEF Progress, Working, WorkStates
  <2>5. Creation'
    BY <1>1, <1>3, <1>4, <2>1, <2>2 DEF Creation, Working, WorkStates
  <2> QED
    BY <2>4, <2>5
<1>13. CASE OperationRequeued(w) \/ ApiFails(w) \/ Crash(w)
  <2>1. Solo
    BY <1>13 DEF OperationRequeued, ApiFails, Crash, Disrupt, CalmLive, Calm, Solo, TypeOK
  <2>2. NextRound(w) /\ UNCHANGED <<req, world>> /\ pc[w] # "idle"
    BY <1>13 DEF OperationRequeued, ApiFails, Crash, Requeue
  <2>3. row.reconciled => row'.reconciled
    BY <1>13 DEF OperationRequeued, ApiFails, Crash, TypeOK, Row
  <2>4. \A r \in Requests : notif'[r] = notif[r] \/ notif'[r] \in {"ready", "delivered"}
    <3>1. notif' = notif \/ ~Ack(w)
      BY <1>13 DEF OperationRequeued, ApiFails, Crash, Ack
    <3> QED
      BY <3>1, LoopNotif DEF ConvergenceInv
  <2> QED
    BY <1>1, <1>3, <2>1, <2>2, <2>3, <2>4, RoundLost
\* None of the rest is done to a live object that is not to be deleted.
<1>14. CASE \/ SkipCreate(w) \/ StartClean(w) \/ FinishClean(w)
            \/ ConfirmDeletion(w) \/ RemoveRow(w) \/ RowVanished(w)
  <2>1. pc[w] # "idle"
    BY <1>14 DEF SkipCreate, StartClean, FinishClean, ConfirmDeletion, RemoveRow, RowVanished
  <2> QED
    BY <1>3, <1>14, <2>1, WorkIsChange DEF SkipCreate, StartClean, FinishClean,
       ConfirmDeletion, RemoveRow, RowVanished, WorkerSound, CalmLive
<1>15. CASE Release(w) \/ Ack(w)
  <2>1. /\ pc[w] \in {"release", "ack"} /\ pc'[w] \in {"ack", "idle"}
        /\ cur'[w] \in {cur[w], None} /\ UNCHANGED <<row, world>>
    BY <1>15 DEF Release, Ack, NextRound, TypeOK
  <2>2. ASSUME NEW r \in Requests, Unserved(r) PROVE Unserved(r)'
    <3>1. cur[w] # r /\ r # None
      BY <1>6, <2>1, <2>2, NoneAssumption
    <3>2. notif'[r] \in {notif[r], "ready", "delivered"}
      BY <1>3, <3>1, LoopNotif DEF ConvergenceInv
    <3> QED
      BY <1>7, <2>1, <2>2, <3>1, <3>2
  <2>3. Fresh(w)' /\ ~Busy(w) /\ pc[w] # "operate"
    BY <2>1 DEF Fresh, Busy
  <2>4. \A v \in Workers \ {w} :
           /\ Fresh(v) => Fresh(v)'
           /\ Busy(v) => Busy(v)'
    BY <1>1, <2>1 DEF Fresh, Busy, Built
  <2>5. Progress'
    BY <1>3, <2>1, <2>2, <2>3, <2>4 DEF Progress, Built
  <2>6. Creation'
    BY <1>1, <1>3, <2>1, <2>2, <2>3 DEF Creation
  <2> QED
    BY <2>5, <2>6
<1> QED
  BY <1>8, <1>9, <1>10, <1>11, <1>12, <1>13, <1>14, <1>15 DEF LoopStep

LEMMA NextConvergence ==
    ASSUME TypeOK, ConvergenceInv, [Next]_vars
    PROVE  ConvergenceInv'
<1>1. CASE UNCHANGED vars
  <2>1. DeletionSound' = DeletionSound /\ PartsSound' = PartsSound
    BY <1>1 DEF vars, DeletionSound, LockHeld, RowSound, WorkSound, Working, PartsSound,
       RequestSound, WorkerSound, Solo
  <2>2. Progress' = Progress /\ Creation' = Creation
    BY <1>1 DEF vars, Progress, Creation, Unserved, Fresh, Busy, Built
  <2> QED
    BY <1>1, <2>1, <2>2 DEF vars, ConvergenceInv, Calm, Live, Solo
<1>2. CASE ExpireLock
  <2> USE DEF apiVars, loopVars
  <2>1. disruptions' = 0 => disruptions = 0 /\ \A w \in Workers : ~Working(w)
    BY <1>2 DEF ExpireLock, Disrupt, TypeOK
  <2>2. disruptions' = 0 => DeletionSound'
    BY <1>2, <2>1 DEF ExpireLock, ConvergenceInv, DeletionSound, LockHeld, RowSound,
       WorkSound, Working
  <2>3. PartsSound'
    BY <1>2 DEF ExpireLock, ConvergenceInv, PartsSound, RequestSound, WorkerSound, Solo
  <2>4. Progress' = Progress /\ Creation' = Creation
    BY <1>2 DEF ExpireLock, Progress, Creation, Unserved, Fresh, Busy, Built
  <2> QED
    BY <1>2, <2>1, <2>2, <2>3, <2>4 DEF ExpireLock, ConvergenceInv, Calm, Live, Solo
<1>3. ASSUME NEW r \in Requests,
             \/ Add(r) \/ ReadForUpdate(r) \/ ReadForDelete(r)
             \/ HandlerStep(r) \/ AckWait(r)
      PROVE  ConvergenceInv'
  <2>1. disruptions' = 0 => disruptions = 0
    BY <1>3 DEF TypeOK, Add, ReadForUpdate, ReadForDelete, HandlerStep, WriteUpdate,
       ScheduleDeletion, FinishDelete, Publish, PublishFails, AckWait, Disrupt
  <2> QED
    BY <1>3, <2>1, HandlerSound, HandlerParts, HandlerProgress DEF ConvergenceInv, CalmLive
<1>4. ASSUME NEW w \in Workers, LoopStep(w) \/ Crash(w) PROVE ConvergenceInv'
  <2>1. disruptions' = 0 => disruptions = 0
    BY <1>4 DEF TypeOK, Disrupt, LoopStep, Begin, GetLatest, SkipCreate, SkipUpdate,
       StartApply, FinishApply, StartClean, FinishClean, OperationRequeued, MarkReconciled,
       ConfirmDeletion, RemoveRow, RowVanished, ApiFails, Release, Ack, Crash
  <2> QED
    BY <1>4, <2>1, LoopSound, LoopParts, LoopProgress DEF ConvergenceInv, CalmLive
<1> QED
  BY <1>1, <1>2, <1>3, <1>4 DEF Next

\* When everything has settled, a live object is what its last accepted change
\* asks for: as long as nothing was disturbed, and for a controller that is
\* alone whatever fails, dies or lapses.
THEOREM Convergence == Spec => []Converged
<1>1. TypeOK /\ ConvergenceInv => Converged
  <2> SUFFICES ASSUME TypeOK, ConvergenceInv, Quiet, CalmLive
               PROVE  Built /\ row.reconciled
    BY DEF Converged, CalmLive, Built
  <2>1. \A r \in Requests : ~Unserved(r)
    BY DEF Quiet, Unserved
  <2>2. \A w \in Workers : ~Busy(w)
    BY DEF Quiet, Busy
  <2> QED
    BY <2>1, <2>2 DEF ConvergenceInv, CalmLive, Progress
<1>2. TypeOK /\ ConvergenceInv /\ [Next]_vars => ConvergenceInv'
  BY NextConvergence
<1> QED
  BY InitConvergence, InitTypeOK, NextTypeOK, <1>1, <1>2, PTL DEF Spec

------------------------------------------------------------------------------
(* Refinement of ObjectContract *)

Phase == IF row.state = "live" /\ row.scheduled THEN "deleting" ELSE row.state
Clean == world.st = "none"
ContractStep == Contract!Next \/ UNCHANGED <<Phase, Clean>>

\* A step that shows in neither.
LEMMA NothingShows ==
    ASSUME row'.state = row.state, row'.scheduled = row.scheduled,
           world'.st = "none" <=> world.st = "none"
    PROVE  ContractStep
BY DEF ContractStep, Phase, Clean

\* A step that only changes the world, while the row exists.
LEMMA WorldChanges ==
    ASSUME row \in Row, row' = row, row.state = "live" \/ (Clean' <=> Clean)
    PROVE  ContractStep
<1>1. CASE row.state = "live"
  BY <1>1 DEF ContractStep, Contract!Next, Contract!Work, Phase, Clean, Row
<1>2. CASE Clean' <=> Clean
  BY <1>2 DEF ContractStep, Phase, Clean
<1> QED
  BY <1>1, <1>2

\* A step that removes the row of a confirmed deletion.
LEMMA RowLeaves ==
    ASSUME RowSound, Live, row.confirmed, row'.state = "gone", world' = world
    PROVE  ContractStep
BY DEF ContractStep, Contract!Next, Contract!Forget, Phase, Clean, RowSound, Live, Nothing

LEMMA HandlerRefines ==
    ASSUME TypeOK, DeletionSound, NEW r \in Requests,
           \/ Add(r) \/ ReadForUpdate(r) \/ ReadForDelete(r)
           \/ HandlerStep(r) \/ AckWait(r)
    PROVE  ContractStep
<1>1. row \in Row /\ RowSound
  BY DEF TypeOK, DeletionSound
<1>2. CASE Add(r)
  <2>1. row'.state = "live" /\ ~row'.scheduled /\ row.state = "absent" /\ world' = world
    BY <1>2 DEF Add, NoRow
  <2> QED
    BY <2>1 DEF ContractStep, Contract!Next, Contract!Create, Phase, Clean
<1>3. CASE ReadForUpdate(r) \/ ReadForDelete(r) \/ Publish(r) \/ PublishFails(r) \/ AckWait(r)
  <2>1. row' = row /\ world' = world
    BY <1>3 DEF ReadForUpdate, ReadForDelete, Publish, PublishFails, AckWait, apiVars
  <2> QED
    BY <2>1, NothingShows
<1>4. CASE WriteUpdate(r)
  <2>1. row'.state = row.state /\ row'.scheduled = row.scheduled /\ world' = world
    BY <1>1, <1>4 DEF WriteUpdate, Row
  <2> QED
    BY <2>1, NothingShows
<1>5. CASE ScheduleDeletion(r)
  <2>1. world' = world
    BY <1>5 DEF ScheduleDeletion
  <2>2. CASE Live /\ ~row.scheduled
    <3>1. row'.state = "live" /\ row'.scheduled
      BY <1>1, <1>5, <2>2 DEF ScheduleDeletion, Live, Row
    <3> QED
      BY <2>1, <2>2, <3>1
         DEF ContractStep, Contract!Next, Contract!Schedule, Phase, Clean, Live
  <2>3. CASE ~Live \/ row.scheduled
    <3>1. row'.state = row.state /\ row'.scheduled = row.scheduled
      BY <1>1, <1>5, <2>3 DEF ScheduleDeletion, Row
    <3> QED
      BY <2>1, <3>1, NothingShows
  <2> QED
    BY <2>2, <2>3
<1>6. CASE FinishDelete(r)
  <2>1. world' = world
    BY <1>6 DEF FinishDelete
  <2>2. CASE Live /\ req[r].confirmed
    <3>1. row'.state = "gone" /\ row.confirmed
      BY <1>1, <1>6, <2>2 DEF FinishDelete, Row, RowSound
    <3> QED
      BY <1>1, <2>1, <2>2, <3>1, RowLeaves
  <2>3. CASE ~(Live /\ req[r].confirmed)
    BY <1>6, <2>1, <2>3, NothingShows DEF FinishDelete
  <2> QED
    BY <2>2, <2>3
<1> QED
  BY <1>2, <1>3, <1>4, <1>5, <1>6 DEF HandlerStep

LEMMA LoopRefines ==
    ASSUME TypeOK, DeletionSound, NEW w \in Workers, LoopStep(w) \/ Crash(w)
    PROVE  ContractStep
<1> USE DEF apiVars, loopVars
<1>1. row \in Row /\ RowSound /\ WorkSound(w)
  BY DEF TypeOK, DeletionSound
<1>2. CASE \/ \E r \in Requests : Begin(w, r)
           \/ GetLatest(w) \/ SkipCreate(w) \/ SkipUpdate(w) \/ OperationRequeued(w)
           \/ RowVanished(w) \/ Release(w) \/ Ack(w) \/ Crash(w)
  <2>1. row' = row /\ world' = world
    BY <1>2 DEF Begin, GetLatest, SkipCreate, SkipUpdate, OperationRequeued, RowVanished,
                Release, Ack, Crash
  <2> QED
    BY <2>1, NothingShows
<1>3. CASE StartApply(w)
  <2>1. row.state = "live"
    BY <1>1, <1>3 DEF StartApply, WorkSound, RowSound, Nothing, Row
  <2> QED
    BY <1>1, <1>3, <2>1, WorldChanges DEF StartApply
<1>4. CASE FinishApply(w)
  <2>1. row.state = "live"
    BY <1>1, <1>4 DEF FinishApply, WorkSound, RowSound, Row
  <2> QED
    BY <1>1, <1>4, <2>1, WorldChanges DEF FinishApply
<1>5. CASE StartClean(w)
  <2>1. world'.st = "none" <=> world.st = "none"
    BY <1>5 DEF StartClean, TypeOK, World
  <2> QED
    BY <1>5, <2>1, NothingShows DEF StartClean
<1>6. CASE FinishClean(w)
  <2>1. row.state = "live" \/ world = Nothing
    BY <1>1, <1>6 DEF FinishClean, WorkSound, RowSound, Row
  <2>2. row.state = "live" \/ (Clean' <=> Clean)
    BY <1>6, <2>1 DEF FinishClean, Clean
  <2> QED
    BY <1>1, <1>6, <2>2, WorldChanges DEF FinishClean
<1>7. CASE MarkReconciled(w) \/ ConfirmDeletion(w)
  <2>1. row'.state = row.state /\ row'.scheduled = row.scheduled /\ world' = world
    BY <1>1, <1>7 DEF MarkReconciled, ConfirmDeletion, Row
  <2> QED
    BY <2>1, NothingShows
<1>8. CASE RemoveRow(w)
  <2>1. row'.state = "gone" /\ world' = world
    BY <1>1, <1>8 DEF RemoveRow, Row
  <2> QED
    BY <1>1, <1>8, <2>1, RowLeaves DEF RemoveRow
<1>9. CASE ApiFails(w)
  <2>1. world' = world
    BY <1>9 DEF ApiFails
  <2>2. CASE row'.state = row.state
    <3>1. row'.scheduled = row.scheduled
      BY <1>1, <1>9 DEF ApiFails, Row
    <3> QED
      BY <2>1, <2>2, <3>1, NothingShows
  <2>3. CASE row'.state # row.state
    <3>1. pc[w] = "remove" /\ Live /\ row'.state = "gone"
      BY <1>1, <1>9, <2>3 DEF ApiFails, Row
    <3> QED
      BY <1>1, <2>1, <3>1, RowLeaves DEF WorkSound
  <2> QED
    BY <2>2, <2>3
<1> QED
  BY <1>2, <1>3, <1>4, <1>5, <1>6, <1>7, <1>8, <1>9 DEF LoopStep

LEMMA StepRefines ==
    ASSUME TypeOK, DeletionSound, [Next]_vars
    PROVE  ContractStep
<1>1. CASE UNCHANGED vars
  BY <1>1, NothingShows DEF vars
<1>2. CASE ExpireLock
  BY <1>2, NothingShows DEF ExpireLock, apiVars
<1> QED
  BY <1>1, <1>2, HandlerRefines, LoopRefines DEF Next

\* The handlers, the notifications and the loop keep the object's contract:
\* the row goes only after a requested deletion has removed what was built,
\* and nothing is built for it afterwards, if no lock lapses.
THEOREM ContractKept ==
    ASSUME "lapse" \notin Disruptions
    PROVE  Spec => ImplementsContract
<1>1. Init => Contract!Init
  BY DEF Init, Contract!Init, NoRow, Nothing
<1>2. TypeOK /\ DeletionSound /\ [Next]_vars => [Contract!Next]_<<Phase, Clean>>
  BY StepRefines DEF ContractStep
<1> QED
  BY <1>1, <1>2, Soundness, PTL
     DEF Spec, ImplementsContract, Contract!Spec, Contract!vars, Phase, Clean
==============================================================================
