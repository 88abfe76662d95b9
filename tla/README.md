# Threeport's reconciliation in TLA+

Threeport is a control plane for applications. Users describe workloads,
kubernetes runtimes, AWS resources and gateways to a REST API; the API persists
them in CockroachDB and publishes a notification of each change on a NATS
JetStream stream; one controller per domain pulls the notifications, takes a
lock on the object in a NATS key-value bucket, and makes the outside world agree
with the object. All of the system's difficulty is in that loop: several
controllers, messages that are delivered again, locks that expire, operations
that take longer than a lock lives, and deletions that overtake what they delete.

This directory holds TLA+ specifications of that machinery, the TLC
configurations that check them on small instances, and TLAPS proofs of their main
safety properties for instances of any size. Paths below are relative to the
repository's root.

- [The system](#the-system)
- [The modules](#the-modules)
- [What is checked](#what-is-checked)
- [What is proved](#what-is-proved)
- [Where code and documentation disagree](#where-code-and-documentation-disagree)
- [What is not modelled](#what-is-not-modelled)
- [Plan](#plan)

## The system

### Components, their state and how they interact

| Component | State it keeps | Operations | Talks to |
|---|---|---|---|
| API server: generated handlers, `pkg/api-server/v0/handlers/*_gen.go` | one row per object: its spec and `Reconciliation` (`pkg/api/v0/common.go`: `Reconciled`, `CreationAcknowledged`, `CreationConfirmed`, `CreationFailed`, `DeletionScheduled`, `DeletionAcknowledged`, `DeletionConfirmed`) | Add, Get, Update (PATCH), Replace (PUT), Delete | database; publishes `<Kind>Create/Update/Delete` on JetStream |
| Reconcile loop, generated per kind: `internal/workload/workload_instance_gen.go` and its like, over `pkg/controller/v0/{reconcile,requeue,lock}.go` | the message it holds; the signal goroutines it has started; two channels (`lockReleased`, `osSignals`); `Shutdown` | pull, CheckLock, Lock, operate, write the outcome, ReleaseLock, UnlockAndRequeue, Requeue | JetStream consumer, key-value bucket, API |
| Controller process: `cmd/*-controller/main_gen.go` | bucket with a TTL of 20 minutes; shutdown channels and wait group | start, `/shutdown` | NATS, Kubernetes |
| Operations per kind, `internal/<domain>` (`v0WorkloadInstanceCreated`, ...`Updated`, ...`Deleted` and their like) | none of their own; rows of dependent objects; the outside world | Created, Updated, Deleted | API, kubernetes clusters, AWS |
| AWS operations, `internal/aws` | goroutines that outlive the reconciliation that started them; the resource inventory and the acknowledgements in the row | Created, Updated, Deleted, `checkCreated`, `checkDeleted`, `refreshAcknowledgement`, `persistCreateFailure` | AWS, API |
| Workload operations, `internal/workload` | resources in the cluster, rows of workload resource instances, the `ThreeportWorkload` that tells the agent of them | Created, Updated, Deleted | API, the workload's cluster |
| Gateway controller, `internal/gateway` | one workload resource instance in the workload it fronts | Created, Updated, Deleted, each ending in a PATCH of the workload | API |
| Observability, `internal/observability` | rows of the children of a stack and their IDs in the stack's row | Created, Deleted, by a stack of operations | API |
| Operations stack, `pkg/util/v0/operations.go` | the functions still to run | Create with rollback, Delete | whatever its functions call |
| Agent, `internal/agent` | watches and informers in the workload's cluster, one bounded channel, what `Notify` has collected | reconcile a `ThreeportWorkload`, watch, notify with retries, stop | kubernetes, API |
| Event recorder, `pkg/event/v0` | rows of events with a count | find, then create or increment | API |

A request ends when its row is written and its notification published; what the
object's controller does is learnt from the row. Between handlers and
controllers there are only two things shared: the rows and the stream.
Between controllers there is, besides, the lock: a key per object whose value is
the ID of the controller that holds it. `CheckLock` and `Lock` are two calls, and
only the refusal of `Create` to overwrite a key makes the second one a test.

### What is hard

- *Two controllers.* A rollout runs an old and a new pod; replicas are possible.
  Every call to the bucket may fail, and a failing call may have been applied.
- *Signals.* Each round starts a goroutine that waits for `lockReleased` or a
  termination signal, on channels all rounds share. Rounds whose `Lock` fails
  leave their goroutine behind.
- *Messages.* A message not settled within AckWait is delivered again; Nak and Ack
  may be lost; Created, Updated and Deleted of one object are separate messages,
  requeued with delays of their own, so they are handled in any order and more than once.
- *Stale rows.* `DeletionScheduled` is read once per round. A round that began
  before the deletion was requested goes on building.
- *Lost publications.* Publish's error is ignored, and the server may die between
  the write and the publication.
- *Long work.* Building a cluster takes longer than the lock and the message last.
  It is done in a goroutine, and timestamps in the row stand for its existence.
- *Crashes* at any point, of a process that holds a lock, a message and goroutines.
- *Several calls for one object.* A workload, an event or an observability stack is
  several rows and resources made by several calls. A call that fails may have been
  served; the next round meets what the last one left.
- *Two writers of one row.* The gateway controller and the workload controller write
  the same workload resource instances, each from a copy.
- *A bounded channel* between the agent's watches and the goroutine that sends to
  the API, closed by a third goroutine when the agent is interrupted.

`PROJECT.json` lists each of these hazards at the line where it bites, with the
properties that would catch it, or why none does.

### What makes each part correct

- *Loop and lock*: one controller at a time reconciles an object; the lock a
  controller gives back is its own; the loop never blocks on its own channel;
  every notification is settled; shutdown completes.
- *Life of an object*: it leaves the database only after what was built for it
  is removed, and nothing is built for it afterwards; a scheduled deletion
  completes; an object that needs work is reconciled; the last change wins;
  `Reconciled` is the truth.
- *EKS clusters*: one goroutine builds a cluster; it is confirmed only when it
  exists; an interrupted creation is taken up again; the inventory forgets nothing;
  nothing in AWS outlives the row.
- *Workload operations*: a workload that was created is complete and stays so; what a
  deletion may leave behind is bounded; what the gateway asked for is what the cluster
  has; a deletion completes whatever fails.
- *Observability*: no child outlives its stack, the stack's row knows all of its
  children or none, a creation that is refused succeeds in the end.
- *Operations stack, event recorder*: all or nothing; one event per reason, counted as
  often as it occurred.
- *Agent*: what is reported arrives, the latest last; an interrupted agent sends what
  it has and ends.
- *Requeue delays*: attempts never come closer together.

## The modules

| Module | What it is |
|---|---|
| `SerialReconcile` | abstract: what the lock promises, one reconciliation of an object at a time |
| `ReconcileLoop` | the loop, the lock, the signal goroutines, settling, shutdown |
| `MCReconcileLoop` | instances for TLC |
| `ReconcileLoopProofs` | typing, exclusion, refinement of `SerialReconcile`, the release never blocks |
| `ObjectContract` | abstract: what is promised about one object from creation to removal |
| `ObjectLifecycle` | API handlers, notifications, and the loop's reading and writing of the row |
| `MCObjectLifecycle` | instances for TLC |
| `ObjectLifecycleProofs` | typing, no leftovers, refinement of `ObjectContract`, convergence |
| `EksRuntime` | reconciliation of an EKS runtime instance and the goroutines it starts |
| `MCEksRuntime` | instances for TLC |
| `EksRuntimeProofs` | typing, one creator, what is confirmed is built |
| `Workload` | Created, Updated and Deleted of a workload instance call by call, beside a gateway controller |
| `MCWorkload` | instances for TLC |
| `WorkloadProofs` | typing, what was created stays complete, what a deletion leaves, what the gateway asked for |
| `OperationStack` | the stack of operations, over functions that may fail with or without effect; the abstract specification of what uses it |
| `EventRecorder` | `RecordEvent` by several reconcilers, its creating calls as stacks of three operations |
| `MCEventRecorder` | instances for TLC |
| `EventRecorderProofs` | typing, all or nothing, refinement of `OperationStack`, one event, counts |
| `ObservabilityStack` | a stack instance, its children, rollback, users' changes |
| `MCObservabilityStack` | instances for TLC |
| `ObservabilityStackProofs` | typing, no orphaned children, whole IDs, and the operations stack by itself |
| `AgentNotify` | the agent's watches, informers, channel and `Notify`, its interruption and restart |
| `MCAgentNotify` | instances for TLC |
| `AgentNotifyProofs` | typing, the latest operation last, events conserved, flushed before exit |
| `RequeueDelay` | `SetRequeueDelay` and how often a failing notification comes back, with the proof of its bound |

The first three are layers. `ReconcileLoop` shows what the lock gives a reconciler;
`ObjectLifecycle` uses it (a controller takes the lock and the message in one
step, `Begin`) and shows what the loop gives an object; `EksRuntime`, `Workload` and
`ObservabilityStack` use that (one notification of an object at a time is worked on; a
round that fails or dies is followed by another) and show what the operations of a
kind must add. `EventRecorder` is used by the loop after an operation, and runs a stack of
operations; that it implements `OperationStack` is checked and proved. `AgentNotify`
begins where `Workload` has made a `ThreeportWorkload`, and ends in the rows that
`Workload` deletes.

The generated code is the same for every kind; `WorkloadInstance`'s stands for all.

### ReconcileLoop

`pc[c]` is where controller `c` is in the body of the `for` loop. The path
through the code is the path through the actions:

| Code | Actions |
|---|---|
| `select` on `Shutdown` at the top | `Continue`, `Stop` |
| `PullMessage` | `Fetch`, `FetchTimeout` |
| `CheckLock` | `RequeueLocked` (locked, or cannot tell), `StartHandler` |
| `Lock` | `LockAcquired`, `LockRefused` (key exists, or the call failed) |
| latest row, operation, writing the outcome | one state, `"work"`: `WorkDone`, `WorkRequeued` |
| `ReleaseLock`: Delete, send on `lockReleased`, `AckSync` | `ReleaseLock`, `ReleaseLockFails`, `SendReleased`, `Settle` |
| `UnlockAndRequeue` | the same with `success` FALSE: `Settle` then naks |
| the signal goroutine | `HandlerEnds`, `HandlerSignalled`, `HandlerDeletes`, `HandlerSends`, `HandlerRequeues` |

`waiting[c][m]` counts the goroutines in their `select` with message `m` captured:
more than one if `m` was delivered again after `Lock` failed. `lockReleased` and
`osSignals` have the capacity the code gives them, 1, and a value on them goes to
*any* waiting goroutine. `firing[c]` is the one that took the signal.

The environment crashes processes, restarts them, kills them when their grace
period ends, redelivers messages, expires locks. What may go wrong is a
`Disrupt(kind)` with `kind` in the constant `Disruptions` and at most `MaxDisruptions`
of them, so each run and each theorem says which disruptions it survives:

| kind | meaning |
|---|---|
| `crash` | the process dies |
| `kv` | a call to the bucket returns an error, applied or not |
| `op` | the operation fails or asks for a requeue |
| `nats` | an acknowledgement is lost |
| `sigterm` | Kubernetes terminates the pod, which may be killed later |
| `lapse` | the 20 minutes of the lock end while its holder still works |
| `shutdown` | `/shutdown` is called |

### ObjectLifecycle

`row` is the object's row, with a counter for its spec; `world` is what exists
outside, and from which version of the spec. Each of `Requests` is a client's
request, with the handler that serves it in `req` and its notification in `notif`.
`Update` and `Delete` are two steps each, read then write, and a third for the
publication, so handlers interleave as goroutines of the server do. A row
soft-deleted in between matches no UPDATE, and the handler goes on regardless, as
GORM's `Updates` does.

A worker's round is `Begin`, `GetLatest` (a 404 goes straight to `Release`), the
operation, then `MarkReconciled`, or `ConfirmDeletion` and `RemoveRow` for a
deletion, `Release`, `Ack`. The operation follows the notification, not the row;
`seen[w]` is the row as fetched. Building takes two steps (`StartApply`,
`FinishApply`), so does removing; either may fail or be cut short between them.
Only Created looks at `DeletionScheduled`; Updated finds nothing to do when
nothing was built. Disruptions are `publish` (publication lost), `api` (a call fails,
applied or not), `op`, `crash`, `nats` and `lapse`.

### EksRuntime

`row` has the fields the reconciliation reads: acknowledgement (absent, fresh, stale
by the code's 240 seconds), failure, confirmation, inventory, scheduled, deletion
acknowledged and confirmed. AWS resources are `1..Steps`, created in that order and deleted in
the reverse; `aws` is those that exist, an inventory is how many are known, and a
missing VPC is inventory 0. `worker` is the loop inside
`v0AwsEksKubernetesRuntimeInstanceCreated`, `...Updated` and `...Deleted`, with the row
it read; a deletion that is found done (`FoundDeleted`) is confirmed and the row removed by two
calls of the loop's (`ConfirmDeletion`, `RemoveRow`); `builder[b]` is a goroutine with the goroutine that stores its inventories
(`out`) and the one that refreshes its acknowledgement from the instance
captured when it was started (`object`).

PATCH is modelled by what it does with a struct of pointers: a nil field is left
alone (`Merge`), a field that is set overwrites, whatever its age. That is how
a captured instance brings an old inventory back.

Disruptions: `api`, `infra` (AWS fails), `crash`, `outage` (the API is out for so
long that a refreshed acknowledgement goes stale), `delete` (the user asks for the deletion,
once). `AckAges` may happen at any time otherwise: it stands for 240 seconds in
which nothing refreshed. It waits for the goroutine's start just after the
acknowledgement, which takes no such time.

### Workload

Resources are `0..K`: 0 is the Namespace the others live in, 1 the service. `kube` is what
is in the cluster, by namespace and resource, with the version of its definition; a
`managed` workload has a new namespace named by every run of Created (`run`). `wri` holds
the workload resource instances, by the run that recorded them and the resource;
`K + 1` (`VS`) is the gateway's own virtual service. `pc`, `work`, `todo` and `copy` are the
round of the workload controller: where it is, the operation, what is left
to do, and the instances it read at its beginning.

| Code | Actions |
|---|---|
| the loop: row gone, deletion scheduled, outcome written | `Obsolete`, `SkipCreate`, `Mark`, `MarkFails`, `Remove` |
| `v0WorkloadInstanceCreated` | `StartCreate`, then per resource `BuildNext` and `RecordNext`, then `Inform`; `BuildFails` (with its event), `RecordFails`, `InformFails` |
| `v0WorkloadInstanceUpdated` | `StartUpdate`, then per unreconciled instance `Apply` and `WriteBack`, `EndUpdate`; `UpdateFails` |
| `v0WorkloadInstanceDeleted` | `StartDelete`, `Detach`, then per instance `DeleteObject` and `DeleteRecord`, then `DeleteEvents`, `Dismiss`; their failures |
| `v0GatewayInstanceCreated`, `...Updated` | `GatewayValidate`, then `GatewayCreate` or `GatewayUpdate`, then `GatewayPatch` |
| `v0GatewayInstanceDeleted` | `GatewayFind`, then `GatewayDelete`, then `GatewayPatch` |
| their failures, their user | `GatewayMisses` (the row is gone), `GatewayFails`, `GatewayRequest` |
| the definition's controller, a user, the agent | `DefinitionReconciled`, `RequestDeletion`, `AgentReports` |

What the code does that is easily overlooked, and is in the model:

- a resource that exists is taken as it is, but a `ThreeportWorkload` that exists is an
  error: a Created that is repeated after it has made one fails for ever (`InformFails`);
- Updated gives everything it works on the namespace of the *first* Namespace it
  read, and writes its copy of an instance back, over what the gateway wrote meanwhile;
- Deleted without resource instances has nothing to do, whatever is in the cluster;
- deleting the events fails when there are none, at which the round fails *after* it has
  removed every instance: the next one finds none, succeeds, and the `ThreeportWorkload` stays;
- Deleted of a gateway takes two virtual services, the second made by a retry,
  for none at all, and reports success;
- the gateway validates the workload by calls of its own, before it writes: what it found reconciled may by
  then be unreconciled, under deletion, or gone. A PATCH of a row that is gone is an error to Created and
  Updated, not to Deleted.

### OperationStack and EventRecorder

`OperationStack` is `Operations.Create` and `Operations.Delete` for functions that each make
one thing. A stack is made for one call, as everywhere in the code: Create (`StartsCreate`), or Delete with whatever
there is by then (`StartsDelete`). A function that fails may have had its effect; rollback goes on past functions that fail.

`EventRecorder` has a call of `RecordEvent` per member of `Calls`: it finds none or one (`FindNone`,
`FindOne`), then the stack (`MakeNext`, `MakeFails`, `UnmakeNext`, `UnmakeFails`: the event, its attached
object reference, the link between them) or `Count`; the calls that find and count may fail too. The rows are
deleted softly, and the query that finds events joins them with their links without asking whether the
reference was deleted (`Visible`). Its `Stack(c)` is the refinement mapping: each call's program counter and
rows are the state of an `OperationStack`.

### ObservabilityStack

`row` is the stack instance's row with its `ids` (the children it knows), `enabled` and the flags of its
deletion; `child[k]` is a child's row: absent, live, or scheduled for deletion, in which its
name is still taken. A round builds its stack of operations from what is enabled *now* (`ops`), and creates
(`CreateChild`), rolls back (`RollBack`), stores the IDs once at the end
(`StoreIds`), or deletes in the reverse order (`DeleteChild`), confirms its deletion and removes the row
(`ConfirmDeletion`, `RemoveRow`; either may fail, served or not, after which the whole round is run again:
`FinishFails`). `known` is the IDs
in the reconciler's copy; an ID that is missing where it is needed is a nil pointer, and a
panic (`NilPointer`). `Toggle` is a user who enables or disables a child.

### AgentNotify

A watch sends the operations on a resource, one number each; an informer sends events; both put items on one
channel of `Capacity` places. `Notify` sorts what it receives (`Receive`) into the code's two slices, updates
and events, and once the channel is empty sends all it has, updates before events (`BeginSending`,
`SendUpdate`, `SendUpdateFails`, `SendWorkloadEvent`, `SendWorkloadEventFails`, `EndSending`), keeping what
failed for the next time. An item never replaces an older one: `appendUniqueWRI` compares pointers. An
interrupt (`Interrupt`) makes goroutines close the channel (`CloseChannel`) and the watches (`CloseWatch`), in
any order; a send on the closed channel, or closing a resource's stop channel a second time, is
a `Panic`. Who waits on the full channel when it is stopped goes on waiting: a watch whose range has ended
(`leaving`), the handler of an informer that was stopped (`late`). A watch that has sent the deletion of its
resource stops the informer in a step of its own (`FinishDeletion`, state `ending` in between), so the interrupt may
be the first or the second to close the stop channel. `Reconcile` opens watches on a `ThreeportWorkload`'s resources up to the first that is missing.

### RequeueDelay

`SetRequeueDelay` as it is, and the deliveries of one notification that always fails. An attempt is a
`PullMessage`; its round may take any time, and JetStream delivers the notification again after AckWait, to
another loop or after a crash, so `rounds` may overlap in any number. A round ends with `Requeue`, which
puts the next delivery off from now, by the delay computed when it was pulled or by one its operation returned
(`OwnDelays`: 60, 90, 180 and 300 seconds in the AWS operations), even if deliveries have overtaken it; or
with `Drop`, when its process dies or its answer is lost or late. S3's own delays, 5 and 10 seconds, are left
out: with them the bound does not hold. The module is checked by the proof alone and belongs to no run.

## What is checked

### Runs

Times are with 2 TLC workers on one machine; "states" are distinct states.

| Run | Instance | Checked | States, time |
|---|---|---|---|
| `LoopSafety` | 2 controllers, 1 object, 2 messages; `crash kv op nats shutdown`, at most 2 | `TypeOK`, `MutualExclusion`, `HolderHasLock`, `ReleaseNeverBlocks`, `ImplementsSerialReconcile` | 1.4 million, 1 min |
| `LoopLiveness` | 2 controllers, 1 message; all seven kinds, at most 2 | `EveryNotificationSettled`, `ShutdownCompletes` | 124 000, 30 s |
| `LifecycleSafety` | 2 workers, 3 requests; all kinds but `lapse`, at most 1 | `TypeOK`, `NoLeftovers`, `Converged`, `ImplementsContract` | 1.3 million, 20 s |
| `LifecycleLiveness` | 2 workers, 2 requests; all kinds but `publish`, at most 2 | `DeletionCompletes`, `ReconciliationCompletes` | 195 000, 30 s |
| `EksCreation` | 2 resources, 2 goroutines; all kinds but `outage`, at most 2 | `TypeOK`, `OneCreator`, `ConfirmedIsBuilt`, `CreationResumed` | 1.06 million, 3 min |
| `Workload` | 2 resources and the gateway's, 2 runs of Created; all four kinds, at most 1 | `TypeOK`, `CreatedIsComplete`, `LeftoversBounded`, `GatewayApplied`, `RouteRemoved`, `DeletionCompletes` | 92 000, 40 s |
| `Events` | 4 calls, at most 3 failures | `TypeOK`, `OneEventUnlessOverlapped`, `CountsOccurrences`, `CreatesAllOrNothing`, `ImplementsStacks` | 400 000, 20 s |
| `Observability` | 3 children; all six kinds, at most 2 | `TypeOK`, `NoOrphanedChildren`, `IdsAreWhole`, `CreationCompletes`, `WholeDeletionCompletes` | 47 000, 10 s |
| `Agent` | 1 resource with 2 operations, 1 event, a channel of 1, 2 rounds; all five kinds, at most 1 | `TypeOK`, `LatestUnlessRetried`, `EventsConserved`, `FlushedBeforeExit`, `EventsArrive`, `OperationsArrive`, `InterruptEnds` | 243 000, 3 min |
| `LoopSigtermMutex`, `EksOrphans`, `AgentOverwrites` | the smallest instance that shows it | a statement of the repository's that the code does not keep | see [below](#where-code-and-documentation-disagree) |

What they show:

- `LoopSafety`: the test in `CheckLock` is worthless on its own, and `Create` in `Lock`
  makes up for it; neither `Lock` nor `ReleaseLock` compares IDs, and still a
  controller at work is the one under the key (`HolderHasLock`); the goroutines left
  behind by failed `Lock`s never make `ReleaseLock`'s send on the one-place channel
  wait for ever, because whenever the place is taken one of them is there
  to empty it (`ReleaseNeverBlocks`).
- `LoopLiveness`: a message comes back and its object is unlocked, after any two
  disruptions, even those that break exclusion. Without the bucket's TTL this is false,
  which is how its mutant breaks it.
- `LifecycleSafety`: Created and Updated notifications that outlive the deletion, are
  retried, or are worked on with a row read before the deletion was requested, build
  nothing that stays. The reason is not a check in the code: see the invariant
  under [proofs](#what-is-proved).
- `LifecycleLiveness`: a DELETE ends with the row gone and an unreconciled row gets
  reconciled.
- `Converged`, that once all is quiet a live object is built from its last spec, holds for several
  workers as long as nothing fails, which the run checks with two. For a single worker it holds whatever fails but
  publications, which the theorem `Convergence` covers; see the [experiments](#experiments-beyond-the-runs).
- `EksCreation`: Created is run again and again while the goroutine builds; it starts
  no second one, takes over from one that died, and confirms only what is
  complete, whichever inventory was stored last.
- `Workload`: whatever a repeated Created and a gateway do, a workload whose Created came to its end is
  whole until its deletion. A deletion may leave Namespaces, at most one for each run that
  failed and with nothing in them (`LeftoversBounded`): they were created and not recorded. It
  completes although the deletion of events fails for a workload that has none, because the next round
  finds nothing left to do. A gateway's route leaves the cluster in the end, though its deletion is the
  work of three controllers that tell each other by notifications (`RouteRemoved`).
- `Events`: of calls that do not overlap at most one event is visible, because a link is made last and
  found first; calls that overlap may each create one, and lose one another's counts, never count twice.
- `Observability`: names are what keeps a repeated creation from making a second child, and are why
  it has to wait until rolled back children are removed; the children of a stack are whole or
  unknown.
- `Agent`: no interleaving of several watches, the channel and `Notify` leaves an older operation in the
  API, except by a retry; the interruption never hangs, although senders may be waiting on a full
  channel when it is closed, because Notify goes on receiving or a panic ends the process. As long as the
  process lives no event is forgotten, interrupted or not, but by the last sending, which gives up what fails.

### Bounds, and why they are enough

- Two controllers: locks, keys and messages relate at most a holder and an intruder;
  a third controller does nothing the second could not. Proofs cover any number.
- One object per loop: rounds of a loop share only channels, and objects share nothing
  else. The proofs cover any number of objects.
- Two messages of one object: one held, one competing. Three requests in
  `LifecycleSafety` are a creation, a deletion and one more of any kind, in any order, or
  two updates that overtake each other.
- `MaxDisruptions` of 1 or 2 allows a failure and a failure while recovering from it. The
  invariants the proofs rest on were found with TLC at these bounds; the theorems hold
  for any number of disruptions.
- Two AWS resources: the VPC, whose absence means deleted, and the last one, whose
  presence means complete. Two goroutines: the one that is building and the one that must not,
  or, after a crash, its successor.
- `row.spec` needs no bound of its own: each request changes it at most once.
- `Workload`: a Namespace and a service are the two kinds of resource the code tells apart, two runs of
  Created are a first and a repeated one. Two runs with three disruptions (2.2 million states) and three with two
  (928 000) were explored once: the safety properties and the invariants of the proofs hold; so do the liveness
  properties for two runs with two disruptions (580 000).
- `Events`: four calls are one that creates, one that fails, one that cleans up and one that counts.
- `Observability`: of three children one has a predecessor and a successor in the stack.
- `Agent`: two rounds put two watches on one resource, a channel of one place is full
  when anything is on it. Two disruptions were explored once (1.8 million states): the safety properties
  and the invariants of the proofs hold.

Deadlock is checked in the loop's runs, where something can always happen. It is off in
the others, where the system does come to rest: no request left and every notification settled, the row
gone and every goroutine done, every call of `RecordEvent` returned, or an agent with nothing left to watch.

### Fairness

The specifications checked for liveness are `FairSpec`. Go schedules runnable goroutines, so steps of loops,
handlers and goroutines are weakly fair. NATS's timers fire (`AckWait`, `ExpireLock`), Kubernetes restarts
containers and ends grace periods (`Restart`, `Kill`). In `EksRuntime` the notifications take turns at the one
`worker`, so `Pull` of each is strongly fair: JetStream delivers an unsettled message again and again, for as
long as it is not settled. Failing disjuncts share these actions but cannot be relied on, being bounded in
number; clients owe no request. `Refresh` has no fairness: nothing checked needs it, and without it
`CreationResumed` must hold for a goroutine that never refreshes too. In `Workload` the round goes on
(`Proceed`), notifications take turns (`Take`, strongly fair for the same reason), the definition is
reconciled, and the gateway controller goes on with a round it is in and repeats its Deleted; nobody owes a
gateway's creation or change, nor a user a request.
`ObservabilityStack` has the same for its rounds, and the children's controllers remove what is scheduled
(`ChildRemoved`), which `LifecycleLiveness` shows of an object. In `AgentNotify` `Notify` runs, senders on the
channel are strongly fair (Go's channels serve waiting senders in order), an interrupted process closes its
channel and exits when it can, and its deployment starts it again; no panic is relied on. Watches and reconciliations beyond the first are
owed to nobody. `EventRecorder` has no liveness property.

### Experiments beyond the runs

Each excluded disruption is excluded because the property fails with it, which makes the
assumptions of the theorems necessary:

- `lapse` or `sigterm` in `LoopSafety` break `HolderHasLock` and `MutualExclusion`: an operation
  of more than 20 minutes is joined by another controller, and so is one whose pod is told to terminate.
- `lapse` in `LifecycleSafety` breaks `NoLeftovers`: a Created that lost its lock builds after
  the deletion was confirmed.
- `publish` in `LifecycleLiveness` breaks `DeletionCompletes` and
  `ReconciliationCompletes`: the row says scheduled or unreconciled, nobody was told, and a
  second DELETE answers 409.
- `outage` in `EksCreation` breaks `OneCreator`: a goroutine whose refreshing was rejected
  for four minutes looks dead.
- `Converged` with two workers and one failure fails: the lock is released before the message is
  acknowledged, so a copy is delivered to the other worker, fails, and is settled by the first one's
  acknowledgement ("to avoid race condition of re-pulling the same message again" is the comment there). With one worker
  it holds, and so do both liveness properties, with every kind but `publish`.
- A goroutine left by a round whose `Lock` failed may take the signal meant for a later round, and
  unlocks and requeues its own, older object.
- Updated handled before Created finds nothing to update, returns success, and the row is marked
  reconciled; Created marks it again later.
- The refresher of a resumed EKS creation writes the inventory it captured over a newer one, so the
  row's inventory may forget. `ConfirmedIsBuilt` holds all the same.
- An EKS deletion that is acknowledged completes if no goroutine is creating at that
  moment and at most one thing fails; with one still creating it may not, for the same reason.
- `WholeDeletionCompletes` without "whole" fails: the deletion of a stack whose row has no IDs yet
  dereferences a nil ID, the controller panics, and does so again whenever it is restarted.
- `CreationCompletes` of `ObservabilityStack` after a lost reply fails: the child exists, its name is taken,
  and no later round takes it for its own.
- `NoOrphanedChildren` and `IdsAreWhole` fail with `toggle`: a child disabled after its creation is on no
  stack of a deletion.
- `GatewayApplied` without its condition on overlapping fails: a round of Updated writes the instance it has
  copied, marked reconciled, over the change of the gateway. `RouteRemoved` fails without the same condition, for the
  same reason, and when the gateway's Created was repeated: of two virtual services neither is removed.
- A Created of a workload that is repeated once its ThreeportWorkload exists is never settled: that Created
  completes is not a property.
- `OperationsArrive` and `EventsArrive` fail when resources are deleted: a restarted agent reconciles a
  `ThreeportWorkload` up to the first missing resource and watches none behind it.

The inductive invariants of the proofs were model-checked on the runs' instances before they were proved.

## What is proved

The theorems hold for any values of the constants that satisfy the named assumptions of the modules (messages are
about objects, `None` is nobody, there is at least one AWS resource, child or resource, bounds are numbers).
Further assumptions are part of a theorem's statement.

**ReconcileLoopProofs.** `Typing`: `Spec => []TypeOK`, under every disruption. For the rest, `Undisturbed` (no
`sigterm`, no `lapse`). Exclusion is not inductive: from a state in which a controller works without its ID
under the key, the next `Lock` succeeds. The inductive invariant is `LockInv` = `TypeOK`, `NoSignal` (no
signal is buffered or acted on, so no goroutine deletes a key) and `HolderHasLock`. A key disappears only by
its holder's `ReleaseLock`, which leaves the section, by a failed call of the holder's that was applied all
the same, which leaves it too, or by expiry with nobody at work. `WorkerHoldsLock` and `Exclusion` follow, one
key having one value. `Refinement`: every step of the loops begins a reconciliation, ends one, or changes no
`holders`, so `Spec => ImplementsSerialReconcile`; that a controller never holds two objects comes from its
having one `pc` and one `cur`. `SendNeverBlocks` (`ReleaseNeverBlocks`) excludes termination signals only, for
a goroutine that takes one no longer reads `lockReleased`; locks may lapse. Its invariant `HandlerInv`
accounts for goroutines: the loop has started one for the iteration it is in and not yet sent to it (`Owes`),
and one is left for the message buffered in `lockReleased`; if both, there are two. The property alone says
nothing of the buffer while the loop is elsewhere. A goroutine that an earlier round left behind may take the
message of a later one; nothing distinguishes them, so only their number matters.

**ObjectLifecycleProofs.** `Typing`. Without `lapse`, `DeletionLeavesNothing` and `ContractKept`.
The invariant is `DeletionSound`:

- `LockHeld`: a working controller is the one under the key;
- `RowSound`: what is confirmed deleted was scheduled and is gone from the world; a row that is gone
  was confirmed; no handler has read a confirmation that is not there;
- `WorkSound`: a controller's copy of the row may lack `scheduled`, but never claims more than the
  row; and while it holds an unscheduled copy, or is building, *the deletion is not confirmed*.

The last part is the argument. A Created that read the row before the deletion was requested does build
while the row says scheduled; no check prevents it. But it holds the lock, and
confirmation is made under the lock, so the removal comes afterwards, finds what was built, and a round
that begins after the confirmation reads it. `ContractKept` adds that every step is one of
`ObjectContract`'s or a stutter.

`Convergence` (`Converged`) has no hypothesis; the property itself is about behaviours in which nothing has failed, or
which have one controller and no lost publications (`Calm`). The invariant `ConvergenceInv` is

- `PartsSound`: where each handler is and what it and each controller believe of the row (a DELETE that was
  answered has scheduled it, nobody believes it scheduled when it is not, a notification follows its handler's
  end, the notification a controller works for is not yet settled);
- `Progress`, while the object is live and no deletion requested: either some change still has a notification
  for which the latest row is to be read, or every controller at work has read the latest row, and one of them
  will build from it or what is built is it already;
- `Creation`: as long as nothing was ever built the creation's notification is still to be served, so that no
  Updated, which finds nothing to change, is taken for the last word;
- `DeletionSound`, while nothing has failed, for the lock it says a worker holds.

With one controller the lock is not needed, for that controller is the only one at work (`OneWorks`), and so
lapses and crashes do no harm.

**EksRuntimeProofs.** `Typing`. `OneGoroutineCreates`, without `outage`, by `AckGuards`: at most one
goroutine is building or has a failure not yet recorded; while there is one, the row's acknowledgement
is fresh and without failure, the copy the loop decides by says the same, and the loop has not decided to
start one. `ConfirmedCreationIsBuilt` has no assumption on disruptions. Inventories overtake each other
(a stale one may be stored over a newer one), so nothing relates the row's inventory to the
latest. What is invariant (`CreationSound`) is weaker and enough: until a deletion is requested, *every*
inventory, stored, read, captured or on its way, tells of resources that exist.

**WorkloadProofs.** `Typing` and `CreatedComplete` (`CreatedIsComplete`), under every disruption. The
invariant is `Rounds` and `BaseKept`. That a created workload stays complete is not due to any check of
Updated's or Deleted's: every instance Created records is recorded as reconciled, so Updated never works on
one, the gateway touches only its own kind, a round of Deleted exists only after the deletion was requested,
and a later run of Created only adds. `BaseKept` also says of a run in progress that what it has passed is
recorded, and that what is recorded is in the cluster, in the namespace the record names.

`DeletionLeavesNamespaces` (`LeftoversBounded`) follows from `TraceInv`: every object in the cluster was made
by a run and is a Namespace or lies in one that a record names (`Traces`); Deleted forgets none of the records
it has read, forgets a Namespace only when it and all in it are gone, and removes the row only when all are
forgotten (`Reading`); and when a run of Created has come to its end, one run's Namespace is recorded, or was
deleted and will not be made again (`Spared`). So what is left without records are Namespaces, one per run at
most, and not that one's. What carries it: the record of a Namespace is made before anything in it, Deleted
works off what it has read in any order but deletes before it forgets, and the gateway, which may write during
all this, writes none of these records.

`GatewayIsApplied` (`GatewayApplied`) follows from `RouteInv`. The gateway writes a row, in a call after those by
which it validated the workload, and the workload's rounds bring that to the cluster; while the property's condition holds (`Alone`: no deletion, no write by the
gateway during an Updated round, one creation) there is one record of the gateway's and one object, in the
namespace Updated has chosen (`OneRoute`); a round's copy of the record is the record (`Copied`); a record
that is marked reconciled says what the cluster has, and one that is not is still to be seen to by the
gateway, a notification or the round (`Applied`); and the record has what was asked (`Asked`).

**EventRecorderProofs.** `Typing`; `EventsAllOrNothing` and `Refinement` (`ImplementsStacks`), for any number
of overlapping calls and failures: a call's stack is changed by that call alone, and counting by others
touches nothing the mapping looks at. `OneEvent` by `OneInv`: as long as calls have not overlapped one is
active at a time, none is visible while it creates, and at most its own while it cleans up. `CountsHold`
(`CountsOccurrences`) has two halves. That nothing is counted twice holds under any overlapping (`CountInv`):
each level of a count but the first was reached by a call that had read the level below, calls read once, and
the first is the creator's, who has read none; so a count of `n` needs `n` calls. That every success is
counted, while calls do not overlap, is `SuccessInv`: the one visible event counts at least the successes so
far, and a call about to count has read that count.

**ObservabilityStackProofs.** `Typing`, under every disruption; `ChildrenGoFirst` and `IdsWhole`, as long as
nobody toggles. The invariant is `Position` (where in its stack the reconciler is, and that it deletes only
what is scheduled) and `Ownership`: the children below the operation that runs are live and known and, while a
round gets past the first child at all, the row has no IDs, for with IDs the first name is taken. So rollback
never meets children the row knows. `StackIsAllOrNothing`, of `OperationStack` by itself and any number of
operations: what has been made is what lies below `next`, but for functions that failed.

**AgentNotifyProofs.** `Typing` and three theorems without hypotheses, for any capacity of the channel.
`Phases` says what the places of `Notify` and of the process imply: a stopped `Notify` has nothing left, it
stops only when the channel is closed and empty, and an event it could not send was refused or its reply lost.

- `NoEventForgotten` and `Flushed` (`EventsConserved`, `FlushedBeforeExit`) by `Conserved`: an event is in the
  API or on its way at most as often as it was sent and a reply was lost, and at least as often as it was
  sent, unless the last sending failed. Both speak of the process that lives (what it has sent is counted from
  its start): an interrupt alone takes nothing away, a panic or a crash ends the account. Copies on
  their way are counted in three sequences, so the lemmas say what appending and taking the head does to a
  count.
- `LatestArrivesLast` (`LatestUnlessRetried`) by `Reports`. Operations reach a row in the order collected,
  unsent, in the channel. The last of them (`LastExcused`) is the one that some watch of this process has come
  to, or one that was sent again, unless no watch has yet said how the resource is. Where it lies changes at
  every step, which operation it is does only when a watch reports, and that one is the latest it has seen.

**RequeueDelay.** `RetriesBackOff`: a notification that always fails is pulled at most five times in its first
56 seconds and at most twice a minute afterwards, for rounds of any length and any number of them side by side, and
whatever answers are lost. What might break it is a round that outlives its delivery and asks for its short delay
late. `EarlyRound` says why that does no harm: delays are shorter than AckWait only for a round pulled in the first 15
seconds; there is one such round at a time beside any others, since every delivery beside it has waited for
AckWait; and by then the notification is as much older as those deliveries have waited, so its delay of twice its age
is no sooner than theirs would be. Delays that operations return are a minute or more. The
doubled delay exceeds the documented maximum (60 at an age of 30, `DefaultMaxRequeueDelay` is 30), and falls
back to it afterwards.

Only model-checked: the liveness properties (`EveryNotificationSettled`, `ShutdownCompletes`,
`DeletionCompletes` of an object and of a workload, `ReconciliationCompletes`, `CreationResumed`,
`CreationCompletes` of a stack, `WholeDeletionCompletes`, `RouteRemoved`, `EventsArrive`,
`OperationsArrive`, `InterruptEnds`), since TLAPS reasons neither about fairness nor about ENABLED here. Every
invariant and every refinement that a passing run checks is a theorem.

## Where code and documentation disagree

Three runs are expected to end in a counterexample. Each checks one statement of the repository's docs or
comments, quoted in `PROJECT.json`.

| Run | Statement | What happens |
|---|---|---|
| `LoopSigtermMutex` | "so no other controller attempts to reconcile the same object simultaneously" | on a termination signal the goroutine unlocks and requeues the object while the loop goes on with it |
| `EksOrphans` | "the VPC is the last thing to be deleted - if it's ID is removed, all resources are deleted" | a goroutine that is still creating is not stopped by the deletion and creates after the row is gone |
| `AgentOverwrites` | "This ensures the latest operation and resource object definition are the ones sent to the threeport API." | IDs are compared as pointers, so an operation that could not be sent stays collected and is sent again after a newer one |

Others met while modelling are described under the [experiments](#experiments-beyond-the-runs) and in the hazards of
`PROJECT.json`. One that no model shows: "create all workload resource definitions or none at all"
(`pkg/api-server/v0/handlers/workload.go:45`) is meant of a transaction, and the creation in it does not use the transaction.

## What is not modelled

Within the modelled components:

- notifications that cannot be decoded (`RequeueRaw`, whose `NakWithDelay(10)` is ten nanoseconds where
  the comment says seconds); delays, but in `RequeueDelay` (elsewhere when a
  message comes back is a choice);
- creation of buckets, streams and consumers at start-up;
- PUT, which writes a whole row and publishes nothing; the check for a duplicate name in Add; PATCHes
  that leave `Reconciled` alone;
- in the EKS operations: updating the kubernetes runtime's connection data, the reads of definition and
  account, and a goroutine leaked by `persistCreateFailure` once the row is gone; an inventory that cannot be
  unmarshalled (`createInfra`, lines 460-469) is not a state of the program: every inventory stored was marshalled
  from the type it is read into;
- in `Workload`: the reconciliation of a workload definition, which creates and deletes rows of its own; resource instances
  that users change by hand; the ports of the gateway controller's own workload, which two gateways may write over
  each other; domain names, which are one more resource instance of the gateway's form;
- in `ObservabilityStack`: definitions, and the dashboard, logging and metrics instances themselves, which create and delete
  helm workload instances; the merging of helm values;
- in `AgentNotify`: the informers for pods and replica sets, which feed the same channel, and the finalizer of
  a `ThreeportWorkload`.

`ObjectLifecycle` assumes of an operation that a repetition completes what an earlier, failed run began
(`FinishApply` builds all of the object, `FinishCleanup` removes all of it).
`Workload` shows how far that is true of the workload operations: of Deleted, but for Namespaces that were
never recorded and a `ThreeportWorkload`; of Created, until it has made a `ThreeportWorkload`.

Other components, and why:

- S3 buckets and RDS databases: RDS is the scheme of `EksRuntime` with other calls; S3 interrupts a
  reconciliation instead of polling.
- Helm workloads, kubernetes runtimes, control planes: sequences of calls to one other component under the
  same loop, polled by requeueing. Their difficulty is in libraries and in what they wait for.
- Secrets, terraform: single calls under the same loop.
- The other hand-written handlers, API client, other kubernetes helpers: single statements, requests or manifest
  manipulation without state of their own.
- Authentication, encryption, configuration, CLI, installer, SDK generator, database migrator: sequential
  programs with no state that outlives them, or code that generates what is modelled. They and the generated handlers,
  routes, clients and commands of the other kinds, which differ from those modelled in names only, are most of
  the repository's lines.

## Plan

Done: the loop, the life of an object and EKS with their abstractions; then the workload operations with their
gateway, the operations stack, the event recorder, observability, the agent and the requeue delays; and the
proofs of all of their safety properties. What is left, in the order of what it would add:

1. The refinement of `ObjectLifecycle`'s `Begin` and `Release` by `ReconcileLoop`, and of its operation by `Workload`
   under the restrictions above.
2. `EksRuntime` with a deletion that is resumed, and RDS and S3 as variants; the kubernetes runtime instance
   above EKS, which waits for it.
3. Control plane instances and helm workloads, against the same assumptions on operations.
