---------------------------- MODULE ReconcileLoop ----------------------------
(***************************************************************************)
(* The loop every Threeport controller runs for one kind of object: pull a *)
(* notification from the JetStream consumer, take the object's lock in the *)
(* NATS key-value bucket, reconcile, give the lock back, settle the        *)
(* message.  Controllers are the processes that run the same reconciler    *)
(* (replicas, or an old and a new pod during a rollout).                   *)
(*                                                                         *)
(* The work done under the lock is one state here, "work"; what it does to *)
(* the object is the subject of ObjectLifecycle.  This module is about the *)
(* lock, the termination-signal goroutine, the lockReleased channel, the   *)
(* settling of messages and shutdown.                                      *)
(***************************************************************************)
EXTENDS Naturals, FiniteSets

CONSTANTS
    Controllers,     \* processes running this reconciler
    Objects,         \* objects of the reconciled kind
    Msgs,            \* notifications in the stream
    ObjectOf,        \* the object each notification is about
    None,            \* no owner, no message
    Disruptions,     \* the kinds of disruption the environment may cause
    MaxDisruptions   \* bound on how many it causes

DisruptionKinds ==
    {"crash", "kv", "op", "nats", "sigterm", "lapse", "shutdown"}

ASSUME MessagesAssumption == ObjectOf \in [Msgs -> Objects]
ASSUME NoneAssumption == None \notin Controllers /\ None \notin Msgs
ASSUME DisruptionsAssumption ==
    Disruptions \subseteq DisruptionKinds /\ MaxDisruptions \in Nat

VARIABLES
    lock,         \* the bucket: object -> ControllerID stored under its key
    stream,       \* notification -> its state in the durable consumer
    pc,           \* controller -> where its loop is
    cur,          \* controller -> the message its loop holds
    success,      \* controller -> ReleaseLock's reconcileSuccess argument
    waiting,      \* controller -> message -> signal goroutines in select
    firing,       \* controller -> the signal goroutine doing its unlock
    lockReleased, \* controller -> messages buffered in lockReleased
    osSignals,    \* controller -> a signal is buffered in osSignals
    shutdown,     \* controller -> the Shutdown channel holds a request
    terminating,  \* controller -> Kubernetes has sent its pod SIGTERM
    disruptions   \* disruptions so far

vars == <<lock, stream, pc, cur, success, waiting, firing, lockReleased,
          osSignals, shutdown, terminating, disruptions>>
loopVars == <<pc, cur, success>>
handlerVars == <<waiting, firing, lockReleased, osSignals>>
procVars == <<shutdown, terminating>>

\* "release" is ReleaseLock before its Delete, "send" is the send on
\* lockReleased, "settle" the acknowledgement (or, after UnlockAndRequeue's
\* ReleaseLock, the negative one).
LoopStates == {"top", "pull", "check", "lock", "work", "release", "send",
               "settle", "stopped", "down"}
Alive(c) == pc[c] \notin {"stopped", "down"}

\* The span the lock is for: from Lock's success to ReleaseLock's Delete.
InSection(c, o) == pc[c] \in {"work", "release"} /\ ObjectOf[cur[c]] = o

Idle == [st |-> "idle", msg |-> None]
Goto(c, l) == pc' = [pc EXCEPT ![c] = l]

Disrupt(kind) ==
    /\ kind \in Disruptions
    /\ disruptions < MaxDisruptions
    /\ disruptions' = disruptions + 1

\* NakWithDelay makes an unsettled message available again; a lost one
\* leaves it to AckWait.
Nak(m) ==
    \/ stream' = stream
    \/ stream' = [stream EXCEPT ![m] = IF @ = "acked" THEN @ ELSE "ready"]

\* A Delete or Create call that returns an error may still have been applied.
DeleteKey(o) == lock' = [lock EXCEPT ![o] = None]
DeleteKeyFails(o) == Disrupt("kv") /\ (lock' = lock \/ DeleteKey(o))

Init ==
    /\ lock = [o \in Objects |-> None]
    /\ stream = [m \in Msgs |-> "ready"]
    /\ pc = [c \in Controllers |-> "top"]
    /\ cur = [c \in Controllers |-> None]
    /\ success = [c \in Controllers |-> FALSE]
    /\ waiting = [c \in Controllers |-> [m \in Msgs |-> 0]]
    /\ firing = [c \in Controllers |-> Idle]
    /\ lockReleased = [c \in Controllers |-> 0]
    /\ osSignals = [c \in Controllers |-> FALSE]
    /\ shutdown = [c \in Controllers |-> FALSE]
    /\ terminating = [c \in Controllers |-> FALSE]
    /\ disruptions = 0

------------------------------------------------------------------------------
(* The loop *)

\* Variant: the Shutdown channel is not looked at.
ContinueRegardless(c) ==
    /\ pc[c] = "top"
    /\ Goto(c, "pull")
    /\ UNCHANGED <<lock, stream, cur, success, handlerVars, procVars, disruptions>>

Continue(c) ==
    /\ pc[c] = "top" /\ ~shutdown[c]
    /\ Goto(c, "pull")
    /\ UNCHANGED <<lock, stream, cur, success, handlerVars, procVars, disruptions>>

\* The process exits once its reconciler is done; its goroutines go with it.
ExitProcess(c, l) ==
    /\ Goto(c, l)
    /\ cur' = [cur EXCEPT ![c] = None]
    /\ success' = [success EXCEPT ![c] = FALSE]
    /\ waiting' = [waiting EXCEPT ![c] = [m \in Msgs |-> 0]]
    /\ firing' = [firing EXCEPT ![c] = Idle]
    /\ lockReleased' = [lockReleased EXCEPT ![c] = 0]
    /\ osSignals' = [osSignals EXCEPT ![c] = FALSE]
    /\ shutdown' = [shutdown EXCEPT ![c] = FALSE]
    /\ terminating' = [terminating EXCEPT ![c] = FALSE]
    /\ UNCHANGED <<lock, stream>>

Stop(c) ==
    /\ pc[c] = "top" /\ shutdown[c]
    /\ ExitProcess(c, "stopped")
    /\ UNCHANGED disruptions

Fetch(c, m) ==
    /\ pc[c] = "pull" /\ stream[m] = "ready"
    /\ stream' = [stream EXCEPT ![m] = "delivered"]
    /\ cur' = [cur EXCEPT ![c] = m]
    /\ Goto(c, "check")
    /\ UNCHANGED <<lock, success, handlerVars, procVars, disruptions>>

FetchTimeout(c) ==
    /\ pc[c] = "pull" /\ \A m \in Msgs : stream[m] # "ready"
    /\ Goto(c, "top")
    /\ UNCHANGED <<lock, stream, cur, success, handlerVars, procVars, disruptions>>

\* CheckLock saw a lock, or could not tell.
RequeueLocked(c) ==
    /\ pc[c] = "check"
    /\ \/ lock[ObjectOf[cur[c]]] # None /\ UNCHANGED disruptions
       \/ Disrupt("kv")
    /\ Nak(cur[c])
    /\ Goto(c, "top")
    /\ cur' = [cur EXCEPT ![c] = None]
    /\ UNCHANGED <<lock, success, handlerVars, procVars>>

\* Variant: no goroutine is started.
StartWithoutHandler(c) ==
    /\ pc[c] = "check" /\ lock[ObjectOf[cur[c]]] = None
    /\ Goto(c, "lock")
    /\ UNCHANGED <<lock, stream, cur, success, handlerVars, procVars, disruptions>>

\* CheckLock saw no lock: start the signal goroutine, then go and lock.
StartHandler(c) ==
    /\ pc[c] = "check" /\ lock[ObjectOf[cur[c]]] = None
    /\ waiting' = [waiting EXCEPT ![c][cur[c]] = @ + 1]
    /\ Goto(c, "lock")
    /\ UNCHANGED <<lock, stream, cur, success, firing, lockReleased, osSignals,
                   procVars, disruptions>>

\* Variant: Put instead of Create, which does not mind an existing key.
LockPut(c) ==
    /\ pc[c] = "lock"
    /\ lock' = [lock EXCEPT ![ObjectOf[cur[c]]] = c]
    /\ Goto(c, "work")
    /\ UNCHANGED <<stream, cur, success, handlerVars, procVars, disruptions>>

LockAcquired(c) ==
    /\ pc[c] = "lock" /\ lock[ObjectOf[cur[c]]] = None
    /\ lock' = [lock EXCEPT ![ObjectOf[cur[c]]] = c]
    /\ Goto(c, "work")
    /\ UNCHANGED <<stream, cur, success, handlerVars, procVars, disruptions>>

\* Variant: UnlockAndRequeue where the code has Requeue.
LockRefusedUnlocks(c) ==
    /\ pc[c] = "lock" /\ lock[ObjectOf[cur[c]]] # None
    /\ DeleteKey(ObjectOf[cur[c]])
    /\ Nak(cur[c])
    /\ Goto(c, "top")
    /\ cur' = [cur EXCEPT ![c] = None]
    /\ UNCHANGED <<success, handlerVars, procVars, disruptions>>

\* Create found a key, or failed.  The goroutine just started stays behind.
LockRefused(c) ==
    /\ pc[c] = "lock"
    /\ LET o == ObjectOf[cur[c]]
       IN  \/ lock[o] # None /\ UNCHANGED <<lock, disruptions>>
           \/ /\ lock[o] = None /\ Disrupt("kv")
              /\ lock' = lock \/ lock' = [lock EXCEPT ![o] = c]
    /\ Nak(cur[c])
    /\ Goto(c, "top")
    /\ cur' = [cur EXCEPT ![c] = None]
    /\ UNCHANGED <<success, handlerVars, procVars>>

\* The operation and its API calls succeeded, or the object is gone (404).
WorkDone(c) ==
    /\ pc[c] = "work"
    /\ success' = [success EXCEPT ![c] = TRUE]
    /\ Goto(c, "release")
    /\ UNCHANGED <<lock, stream, cur, handlerVars, procVars, disruptions>>

\* Any error, and a custom requeue delay, end in UnlockAndRequeue.
WorkRequeued(c) ==
    /\ pc[c] = "work" /\ Disrupt("op")
    /\ success' = [success EXCEPT ![c] = FALSE]
    /\ Goto(c, "release")
    /\ UNCHANGED <<lock, stream, cur, handlerVars, procVars>>

ReleaseLock(c) ==
    /\ pc[c] = "release"
    /\ DeleteKey(ObjectOf[cur[c]])
    /\ Goto(c, "send")
    /\ UNCHANGED <<stream, cur, success, handlerVars, procVars, disruptions>>

\* Delete failed: nothing is sent on lockReleased and nothing acknowledged;
\* UnlockAndRequeue requeues all the same.
ReleaseLockFails(c) ==
    /\ pc[c] = "release"
    /\ DeleteKeyFails(ObjectOf[cur[c]])
    /\ IF success[c] THEN UNCHANGED stream ELSE Nak(cur[c])
    /\ Goto(c, "top")
    /\ cur' = [cur EXCEPT ![c] = None]
    /\ UNCHANGED <<success, handlerVars, procVars>>

\* Variant: a send that does not respect the channel's capacity.
SendUnbounded(c) ==
    /\ pc[c] = "send"
    /\ lockReleased' = [lockReleased EXCEPT ![c] = @ + 1]
    /\ Goto(c, "settle")
    /\ UNCHANGED <<lock, stream, cur, success, waiting, firing, osSignals,
                   procVars, disruptions>>

\* The channel has room for one message.
SendReleased(c) ==
    /\ pc[c] = "send" /\ lockReleased[c] = 0
    /\ lockReleased' = [lockReleased EXCEPT ![c] = 1]
    /\ Goto(c, "settle")
    /\ UNCHANGED <<lock, stream, cur, success, waiting, firing, osSignals,
                   procVars, disruptions>>

Settle(c) ==
    /\ pc[c] = "settle"
    /\ \/ /\ success[c] /\ UNCHANGED disruptions
          /\ stream' = [stream EXCEPT ![cur[c]] = "acked"]
       \/ success[c] /\ Disrupt("nats") /\ UNCHANGED stream
       \/ ~success[c] /\ Nak(cur[c]) /\ UNCHANGED disruptions
    /\ Goto(c, "top")
    /\ cur' = [cur EXCEPT ![c] = None]
    /\ UNCHANGED <<lock, success, handlerVars, procVars>>

LoopStep(c) ==
    \/ Continue(c) \/ Stop(c)
    \/ \E m \in Msgs : Fetch(c, m)
    \/ FetchTimeout(c) \/ RequeueLocked(c) \/ StartHandler(c)
    \/ LockAcquired(c) \/ LockRefused(c)
    \/ WorkDone(c) \/ WorkRequeued(c)
    \/ ReleaseLock(c) \/ ReleaseLockFails(c)
    \/ SendReleased(c) \/ Settle(c)

------------------------------------------------------------------------------
(* The goroutine each iteration starts before it locks *)

HandlerEnds(c, m) ==
    /\ waiting[c][m] > 0 /\ lockReleased[c] = 1
    /\ waiting' = [waiting EXCEPT ![c][m] = @ - 1]
    /\ lockReleased' = [lockReleased EXCEPT ![c] = 0]
    /\ UNCHANGED <<lock, stream, loopVars, firing, osSignals, procVars, disruptions>>

\* Any of the goroutines in select may get the one buffered signal.
HandlerSignalled(c, m) ==
    /\ waiting[c][m] > 0 /\ osSignals[c]
    /\ waiting' = [waiting EXCEPT ![c][m] = @ - 1]
    /\ osSignals' = [osSignals EXCEPT ![c] = FALSE]
    /\ firing' = [firing EXCEPT ![c] = [st |-> "delete", msg |-> m]]
    /\ UNCHANGED <<lock, stream, loopVars, lockReleased, procVars, disruptions>>

HandlerDeletes(c) ==
    /\ firing[c].st = "delete"
    /\ \/ /\ DeleteKey(ObjectOf[firing[c].msg])
          /\ firing' = [firing EXCEPT ![c].st = "send"]
          /\ UNCHANGED disruptions
       \/ /\ DeleteKeyFails(ObjectOf[firing[c].msg])
          /\ firing' = [firing EXCEPT ![c].st = "nak"]
    /\ UNCHANGED <<stream, loopVars, waiting, lockReleased, osSignals, procVars>>

HandlerSends(c) ==
    /\ firing[c].st = "send" /\ lockReleased[c] = 0
    /\ lockReleased' = [lockReleased EXCEPT ![c] = 1]
    /\ firing' = [firing EXCEPT ![c].st = "nak"]
    /\ UNCHANGED <<lock, stream, loopVars, waiting, osSignals, procVars, disruptions>>

HandlerRequeues(c) ==
    /\ firing[c].st = "nak"
    /\ Nak(firing[c].msg)
    /\ firing' = [firing EXCEPT ![c] = Idle]
    /\ UNCHANGED <<lock, loopVars, waiting, lockReleased, osSignals, procVars, disruptions>>

HandlerStep(c) ==
    \/ \E m \in Msgs : HandlerEnds(c, m) \/ HandlerSignalled(c, m)
    \/ HandlerDeletes(c) \/ HandlerSends(c) \/ HandlerRequeues(c)

------------------------------------------------------------------------------
(* The environment: NATS timers, Kubernetes, operators *)

\* AckWait: an unsettled message is delivered again.
AckWait(m) ==
    /\ stream[m] = "delivered"
    /\ stream' = [stream EXCEPT ![m] = "ready"]
    /\ UNCHANGED <<lock, loopVars, handlerVars, procVars, disruptions>>

\* Variant: a bucket created without a TTL.
NoTTL(o) == lock[o] # None /\ UNCHANGED vars

\* The bucket's TTL removes a key nobody works under; to remove one under a
\* controller still at work is a disruption: the work outlived 20 minutes.
ExpireLock(o) ==
    /\ lock[o] # None
    /\ lock' = [lock EXCEPT ![o] = None]
    /\ IF \E c \in Controllers : InSection(c, o)
       THEN Disrupt("lapse")
       ELSE UNCHANGED disruptions
    /\ UNCHANGED <<stream, loopVars, handlerVars, procVars>>

\* signal.Notify drops a signal the buffer has no room for.  Kubernetes sends
\* one SIGTERM per pod; a second while the first is acted on is left out.
Sigterm(c) ==
    /\ Alive(c) /\ ~osSignals[c] /\ firing[c] = Idle
    /\ Disrupt("sigterm")
    /\ osSignals' = [osSignals EXCEPT ![c] = TRUE]
    /\ terminating' = [terminating EXCEPT ![c] = TRUE]
    /\ UNCHANGED <<lock, stream, loopVars, waiting, firing, lockReleased, shutdown>>

RequestShutdown(c) ==
    /\ Alive(c) /\ ~shutdown[c]
    /\ Disrupt("shutdown")
    /\ shutdown' = [shutdown EXCEPT ![c] = TRUE]
    /\ UNCHANGED <<lock, stream, loopVars, handlerVars, terminating>>

Crash(c) ==
    /\ Alive(c)
    /\ Disrupt("crash")
    /\ ExitProcess(c, "down")

\* SIGKILL ends the grace period of a pod that did not exit on SIGTERM.
Kill(c) ==
    /\ Alive(c) /\ terminating[c]
    /\ ExitProcess(c, "down")
    /\ UNCHANGED disruptions

Restart(c) ==
    /\ ~Alive(c)
    /\ Goto(c, "top")
    /\ UNCHANGED <<lock, stream, cur, success, handlerVars, procVars, disruptions>>

Next ==
    \/ \E c \in Controllers :
          \/ LoopStep(c) \/ HandlerStep(c)
          \/ Sigterm(c) \/ RequestShutdown(c) \/ Crash(c) \/ Kill(c)
          \/ Restart(c)
    \/ \E m \in Msgs : AckWait(m)
    \/ \E o \in Objects : ExpireLock(o)

\* Go schedules every goroutine, NATS fires its timers, Kubernetes restarts
\* what exited.  Disruptions are never owed: there are at most
\* MaxDisruptions, so weak fairness on the steps does not promise one.
Fairness ==
    /\ \A c \in Controllers :
          /\ WF_vars(LoopStep(c)) /\ WF_vars(HandlerStep(c))
          /\ WF_vars(Kill(c)) /\ WF_vars(Restart(c))
    /\ \A m \in Msgs : WF_vars(AckWait(m))
    /\ \A o \in Objects : WF_vars(ExpireLock(o))

Spec == Init /\ [][Next]_vars
FairSpec == Spec /\ Fairness

------------------------------------------------------------------------------
(* Properties *)

\* The variables keep their types.
TypeOK ==
    /\ lock \in [Objects -> Controllers \union {None}]
    /\ stream \in [Msgs -> {"ready", "delivered", "acked"}]
    /\ pc \in [Controllers -> LoopStates]
    /\ cur \in [Controllers -> Msgs \union {None}]
    /\ \A c \in Controllers :
          pc[c] \in {"check", "lock", "work", "release", "send", "settle"}
              => cur[c] \in Msgs
    /\ success \in [Controllers -> BOOLEAN]
    /\ waiting \in [Controllers -> [Msgs -> Nat]]
    /\ firing \in [Controllers -> [st : {"delete", "send", "nak"}, msg : Msgs]
                                     \union {Idle}]
    /\ lockReleased \in [Controllers -> {0, 1}]
    /\ osSignals \in [Controllers -> BOOLEAN]
    /\ shutdown \in [Controllers -> BOOLEAN]
    /\ terminating \in [Controllers -> BOOLEAN]
    /\ disruptions \in Nat

\* "no other controller attempts to reconcile the same object simultaneously"
\* (docs/dev/threeport-controllers.md): at most one controller is between
\* Lock and ReleaseLock for an object.  Holds while no signal is acted on and
\* no lock expires under its holder; crashes, failed key-value calls that
\* were or were not applied, and redelivery do not break it.
MutualExclusion ==
    \A o \in Objects : \A c, d \in Controllers :
        InSection(c, o) /\ InSection(d, o) => c = d

\* A controller at work on an object is the one whose ID is under the
\* object's key, although neither Lock's caller nor ReleaseLock compares it.
HolderHasLock ==
    \A o \in Objects, c \in Controllers : InSection(c, o) => lock[o] = c

\* ReleaseLock's send on lockReleased never waits for ever: when the buffer
\* is full a signal goroutine is left that will empty it.
ReleaseNeverBlocks ==
    \A c \in Controllers :
        pc[c] = "send" /\ lockReleased[c] = 1 => \E m \in Msgs : waiting[c][m] > 0

\* The loop, its lock and its consumer together keep the lock's promise.
Serial == INSTANCE SerialReconcile WITH
    holders <- [o \in Objects |-> {c \in Controllers : InSection(c, o)}]
ImplementsSerialReconcile == Serial!Spec

\* However often controllers crash, are replaced, fail, or lose the lock, each
\* notification is settled in the end.
EveryNotificationSettled == \A m \in Msgs : <>(stream[m] = "acked")

\* A shutdown request ends the process once its reconciler has finished.
ShutdownCompletes == \A c \in Controllers : shutdown[c] ~> ~Alive(c)
==============================================================================
