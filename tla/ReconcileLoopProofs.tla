------------------------- MODULE ReconcileLoopProofs -------------------------
(***************************************************************************)
(* Theorems about ReconcileLoop, for any number of controllers, objects    *)
(* and notifications: its types; that the lock excludes when no signal is  *)
(* acted on and no lock lapses, with HolderHasLock as the inductive        *)
(* invariant; that the send on lockReleased never blocks while no signal   *)
(* is acted on; and that the loop implements SerialReconcile.              *)
(***************************************************************************)
EXTENDS ReconcileLoop, TLAPS

LEMMA InitTypeOK == Init => TypeOK
BY MessagesAssumption, NoneAssumption DEF Init, TypeOK, LoopStates, Idle

LEMMA NakType ==
    ASSUME stream \in [Msgs -> {"ready", "delivered", "acked"}], NEW m \in Msgs, Nak(m)
    PROVE  stream' \in [Msgs -> {"ready", "delivered", "acked"}]
BY DEF Nak

LEMMA DeleteKeyType ==
    ASSUME lock \in [Objects -> Controllers \union {None}], NEW o \in Objects,
           DeleteKey(o) \/ DeleteKeyFails(o)
    PROVE  lock' \in [Objects -> Controllers \union {None}]
BY DEF DeleteKey, DeleteKeyFails

LEMMA DisruptType ==
    ASSUME disruptions \in Nat, NEW k, Disrupt(k)
    PROVE  disruptions' \in Nat
BY DEF Disrupt

LEMMA NextTypeOK == TypeOK /\ [Next]_vars => TypeOK'
<1> SUFFICES ASSUME TypeOK, [Next]_vars PROVE TypeOK'
  OBVIOUS
<1> USE MessagesAssumption, NoneAssumption DEF TypeOK, LoopStates, loopVars, handlerVars, procVars, Goto
<1>1. CASE UNCHANGED vars
  BY <1>1 DEF vars
<1>2. ASSUME NEW c \in Controllers, LoopStep(c) PROVE TypeOK'
  <2>1. CASE Continue(c)
    BY <2>1 DEF Continue
  <2>2. CASE Stop(c)
    BY <2>2 DEF Stop, ExitProcess, Idle
  <2>3. ASSUME NEW m \in Msgs, Fetch(c, m) PROVE TypeOK'
    BY <2>3 DEF Fetch
  <2>4. CASE FetchTimeout(c)
    BY <2>4 DEF FetchTimeout
  <2>5. CASE RequeueLocked(c)
    BY <2>5 DEF RequeueLocked, Nak, Disrupt
  <2>6. CASE StartHandler(c)
    BY <2>6 DEF StartHandler
  <2>7. CASE LockAcquired(c)
    BY <2>7 DEF LockAcquired
  <2>8. CASE LockRefused(c)
    BY <2>8 DEF LockRefused, Nak, Disrupt
  <2>9. CASE WorkDone(c)
    BY <2>9 DEF WorkDone
  <2>10. CASE WorkRequeued(c)
    BY <2>10 DEF WorkRequeued, Disrupt
  <2>11. CASE ReleaseLock(c)
    BY <2>11 DEF ReleaseLock, DeleteKey
  <2>12. CASE ReleaseLockFails(c)
    <3>1. ObjectOf[cur[c]] \in Objects /\ cur[c] \in Msgs
      BY <2>12 DEF ReleaseLockFails
    <3>2. lock' \in [Objects -> Controllers \union {None}]
      BY <2>12, <3>1, DeleteKeyType DEF ReleaseLockFails
    <3>3. disruptions' \in Nat
      BY <2>12, DisruptType DEF ReleaseLockFails, DeleteKeyFails
    <3>4. stream' \in [Msgs -> {"ready", "delivered", "acked"}]
      BY <2>12, <3>1, NakType DEF ReleaseLockFails
    <3> QED
      BY <2>12, <3>2, <3>3, <3>4 DEF ReleaseLockFails
  <2>13. CASE SendReleased(c)
    BY <2>13 DEF SendReleased
  <2>14. CASE Settle(c)
    <3>1. cur[c] \in Msgs
      BY <2>14 DEF Settle
    <3>2. stream' \in [Msgs -> {"ready", "delivered", "acked"}] /\ disruptions' \in Nat
      BY <2>14, <3>1, NakType, DisruptType DEF Settle
    <3> QED
      BY <2>14, <3>2 DEF Settle
  <2> QED
    BY <1>2, <2>1, <2>2, <2>3, <2>4, <2>5, <2>6, <2>7, <2>8, <2>9, <2>10,
       <2>11, <2>12, <2>13, <2>14 DEF LoopStep
<1>3. ASSUME NEW c \in Controllers, HandlerStep(c) PROVE TypeOK'
  <2>1. ASSUME NEW m \in Msgs, HandlerEnds(c, m) PROVE TypeOK'
    BY <2>1 DEF HandlerEnds
  <2>2. ASSUME NEW m \in Msgs, HandlerSignalled(c, m) PROVE TypeOK'
    BY <2>2 DEF HandlerSignalled
  <2>3. CASE HandlerDeletes(c)
    <3>1. firing[c] \in [st : {"delete", "send", "nak"}, msg : Msgs]
      BY <2>3 DEF HandlerDeletes, Idle
    <3>2. ObjectOf[firing[c].msg] \in Objects
      BY <3>1
    <3>3. lock' \in [Objects -> Controllers \union {None}] /\ disruptions' \in Nat
      BY <2>3, <3>2, DeleteKeyType, DisruptType DEF HandlerDeletes, DeleteKeyFails
    <3>4. PICK s \in {"send", "nak"} : firing' = [firing EXCEPT ![c].st = s]
      BY <2>3 DEF HandlerDeletes
    <3>5. firing' \in [Controllers -> [st : {"delete", "send", "nak"}, msg : Msgs] \union {Idle}]
      BY <3>1, <3>4
    <3> QED
      BY <2>3, <3>3, <3>5 DEF HandlerDeletes
  <2>4. CASE HandlerSends(c)
    <3>1. firing[c] \in [st : {"delete", "send", "nak"}, msg : Msgs]
      BY <2>4 DEF HandlerSends, Idle
    <3>2. firing' \in [Controllers -> [st : {"delete", "send", "nak"}, msg : Msgs] \union {Idle}]
      BY <2>4, <3>1 DEF HandlerSends
    <3> QED
      BY <2>4, <3>2 DEF HandlerSends
  <2>5. CASE HandlerRequeues(c)
    BY <2>5 DEF HandlerRequeues, Nak, Idle
  <2> QED
    BY <1>3, <2>1, <2>2, <2>3, <2>4, <2>5 DEF HandlerStep
<1>4. ASSUME NEW c \in Controllers,
             Sigterm(c) \/ RequestShutdown(c) \/ Crash(c) \/ Kill(c) \/ Restart(c)
      PROVE  TypeOK'
  <2>1. CASE Sigterm(c)
    BY <2>1 DEF Sigterm, Disrupt
  <2>2. CASE RequestShutdown(c)
    BY <2>2 DEF RequestShutdown, Disrupt
  <2>3. CASE Crash(c)
    BY <2>3 DEF Crash, ExitProcess, Disrupt, Idle
  <2>4. CASE Kill(c)
    BY <2>4 DEF Kill, ExitProcess, Idle
  <2>5. CASE Restart(c)
    BY <2>5 DEF Restart
  <2> QED
    BY <1>4, <2>1, <2>2, <2>3, <2>4, <2>5
<1>5. ASSUME NEW m \in Msgs, AckWait(m) PROVE TypeOK'
  BY <1>5 DEF AckWait
<1>6. ASSUME NEW o \in Objects, ExpireLock(o) PROVE TypeOK'
  BY <1>6 DEF ExpireLock, Disrupt
<1> QED
  BY <1>1, <1>2, <1>3, <1>4, <1>5, <1>6 DEF Next

\* The loop's variables keep their types, whatever disrupts it.
THEOREM Typing == Spec => []TypeOK
BY InitTypeOK, NextTypeOK, PTL DEF Spec

------------------------------------------------------------------------------
(* Mutual exclusion, while no signal is sent and no lock lapses.            *)

\* No termination signal is waiting or being acted on.
NoSignal == \A c \in Controllers : ~osSignals[c] /\ firing[c] = Idle

NoSigterm == "sigterm" \notin Disruptions
Undisturbed == NoSigterm /\ "lapse" \notin Disruptions

\* The inductive invariant: without HolderHasLock a release might take away a
\* lock its caller does not hold.
LockInv == TypeOK /\ NoSignal /\ HolderHasLock

LEMMA InitLockInv == Init => LockInv
<1> SUFFICES ASSUME Init PROVE LockInv
  OBVIOUS
<1>1. NoSignal /\ HolderHasLock
  BY DEF Init, NoSignal, HolderHasLock, InSection
<1> QED
  BY <1>1, InitTypeOK DEF LockInv

LEMMA NextNoSignal ==
    ASSUME NoSigterm, TypeOK, NoSignal, [Next]_vars
    PROVE  NoSignal'
<1> USE DEF TypeOK, NoSignal, loopVars, handlerVars, procVars, Goto
<1>1. CASE UNCHANGED vars
  BY <1>1 DEF vars
<1>2. ASSUME NEW c \in Controllers, LoopStep(c) PROVE NoSignal'
  BY <1>2 DEF LoopStep, Continue, Stop, ExitProcess, Fetch, FetchTimeout,
     RequeueLocked, StartHandler, LockAcquired, LockRefused, WorkDone,
     WorkRequeued, ReleaseLock, ReleaseLockFails, SendReleased, Settle
<1>3. ASSUME NEW c \in Controllers, HandlerStep(c) PROVE NoSignal'
  BY <1>3 DEF HandlerStep, HandlerEnds, HandlerSignalled, HandlerDeletes,
     HandlerSends, HandlerRequeues, Idle
<1>4. ASSUME NEW c \in Controllers,
             Sigterm(c) \/ RequestShutdown(c) \/ Crash(c) \/ Kill(c) \/ Restart(c)
      PROVE  NoSignal'
  BY <1>4 DEF NoSigterm, Sigterm, RequestShutdown, Crash, Kill, Restart,
     ExitProcess, Disrupt
<1>5. ASSUME NEW m \in Msgs, AckWait(m) PROVE NoSignal'
  BY <1>5 DEF AckWait
<1>6. ASSUME NEW o \in Objects, ExpireLock(o) PROVE NoSignal'
  BY <1>6 DEF ExpireLock
<1> QED
  BY <1>1, <1>2, <1>3, <1>4, <1>5, <1>6 DEF Next

\* A step that leaves the locks alone, starts no work and changes the message
\* of no controller at work keeps HolderHasLock.
LEMMA LockUntouched ==
    ASSUME HolderHasLock, lock' = lock,
           \A d \in Controllers, o \in Objects : InSection(d, o)' => InSection(d, o)
    PROVE  HolderHasLock'
BY DEF HolderHasLock

LEMMA NextHolderHasLock ==
    ASSUME Undisturbed, LockInv, [Next]_vars
    PROVE  HolderHasLock'
<1> USE MessagesAssumption, NoneAssumption
     DEF LockInv, TypeOK, loopVars, handlerVars, procVars, Goto
<1>1. CASE UNCHANGED vars
  BY <1>1 DEF vars, HolderHasLock, InSection
<1>2. ASSUME NEW c \in Controllers, LoopStep(c) PROVE HolderHasLock'
  <2>1. CASE \/ Continue(c) \/ Stop(c) \/ (\E m \in Msgs : Fetch(c, m))
             \/ FetchTimeout(c) \/ RequeueLocked(c) \/ StartHandler(c)
             \/ WorkDone(c) \/ WorkRequeued(c) \/ SendReleased(c) \/ Settle(c)
    <3>1. lock' = lock
      BY <2>1 DEF Continue, Stop, ExitProcess, Fetch, FetchTimeout, RequeueLocked,
         StartHandler, WorkDone, WorkRequeued, SendReleased, Settle
    <3>2. ASSUME NEW d \in Controllers, NEW o \in Objects, InSection(d, o)'
          PROVE  InSection(d, o)
      BY <2>1, <3>2 DEF Continue, Stop, ExitProcess, Fetch, FetchTimeout,
         RequeueLocked, StartHandler, WorkDone, WorkRequeued, SendReleased,
         Settle, InSection
    <3> QED
      BY <3>1, <3>2, LockUntouched
  <2>2. CASE LockAcquired(c)
    BY <2>2 DEF LockAcquired, HolderHasLock, InSection
  <2>3. CASE LockRefused(c)
    BY <2>3 DEF LockRefused, HolderHasLock, InSection
  <2>4. CASE ReleaseLock(c)
    BY <2>4 DEF ReleaseLock, DeleteKey, HolderHasLock, InSection
  <2>5. CASE ReleaseLockFails(c)
    BY <2>5 DEF ReleaseLockFails, DeleteKeyFails, DeleteKey, HolderHasLock, InSection
  <2> QED
    BY <1>2, <2>1, <2>2, <2>3, <2>4, <2>5 DEF LoopStep
<1>3. ASSUME NEW c \in Controllers, HandlerStep(c) PROVE HolderHasLock'
  <2>1. UNCHANGED <<lock, pc, cur>>
    BY <1>3 DEF HandlerStep, HandlerEnds, HandlerSignalled, HandlerDeletes,
       HandlerSends, HandlerRequeues, NoSignal, Idle
  <2> QED
    BY <2>1 DEF HolderHasLock, InSection
<1>4. ASSUME NEW c \in Controllers,
             Sigterm(c) \/ RequestShutdown(c) \/ Crash(c) \/ Kill(c) \/ Restart(c)
      PROVE  HolderHasLock'
  <2>1. lock' = lock
    BY <1>4 DEF Sigterm, RequestShutdown, Crash, Kill, Restart, ExitProcess
  <2>2. ASSUME NEW d \in Controllers, NEW o \in Objects, InSection(d, o)'
        PROVE  InSection(d, o)
    BY <1>4, <2>2 DEF Sigterm, RequestShutdown, Crash, Kill, Restart,
       ExitProcess, InSection
  <2> QED
    BY <2>1, <2>2, LockUntouched
<1>5. ASSUME NEW m \in Msgs, AckWait(m) PROVE HolderHasLock'
  BY <1>5 DEF AckWait, HolderHasLock, InSection
<1>6. ASSUME NEW o \in Objects, ExpireLock(o) PROVE HolderHasLock'
  <2>1. ~(\E c \in Controllers : InSection(c, o))
    BY <1>6, Undisturbed DEF ExpireLock, Undisturbed, Disrupt
  <2> QED
    BY <1>6, <2>1 DEF ExpireLock, HolderHasLock, InSection
<1> QED
  BY <1>1, <1>2, <1>3, <1>4, <1>5, <1>6 DEF Next

LEMMA NextLockInv == ASSUME Undisturbed, LockInv, [Next]_vars PROVE LockInv'
BY NextTypeOK, NextNoSignal, NextHolderHasLock DEF LockInv, Undisturbed

LEMMA LockInvInvariant == ASSUME Undisturbed PROVE Spec => []LockInv
<1>1. LockInv /\ [Next]_vars => LockInv'
  BY NextLockInv
<1> QED
  BY InitLockInv, <1>1, PTL DEF Spec

\* A controller at work on an object holds the object's lock.
THEOREM WorkerHoldsLock == ASSUME Undisturbed PROVE Spec => []HolderHasLock
<1>1. LockInv => HolderHasLock
  BY DEF LockInv
<1> QED
  BY <1>1, LockInvInvariant, PTL

\* No two controllers reconcile an object at once, however many there are and
\* however often they crash, key-value calls fail and messages are redelivered.
THEOREM Exclusion == ASSUME Undisturbed PROVE Spec => []MutualExclusion
<1>1. LockInv => MutualExclusion
  BY DEF LockInv, HolderHasLock, MutualExclusion
<1> QED
  BY <1>1, LockInvInvariant, PTL

------------------------------------------------------------------------------
(* The send on lockReleased, while no signal is sent.  A lapsed lock and    *)
(* every other disruption is allowed here.                                  *)

AtLeastOne(c) == \E m \in Msgs : waiting[c][m] > 0
AtLeastTwo(c) ==
    \/ \E m \in Msgs : waiting[c][m] > 1
    \/ \E m, n \in Msgs : m # n /\ waiting[c][m] > 0 /\ waiting[c][n] > 0

\* The loop has started an iteration's goroutine and not yet sent to it.
Owes(c) == pc[c] \in {"lock", "work", "release", "send"}

\* A goroutine is left for every message buffered in lockReleased and one more
\* for the iteration that has still to send.
Accounted(c) ==
    /\ Owes(c) \/ lockReleased[c] = 1 => AtLeastOne(c)
    /\ Owes(c) /\ lockReleased[c] = 1 => AtLeastTwo(c)

\* The inductive invariant: ReleaseNeverBlocks alone says nothing about the
\* messages buffered while the loop is elsewhere.
HandlerInv == TypeOK /\ NoSignal /\ \A c \in Controllers : Accounted(c)

LEMMA InitHandlerInv == Init => HandlerInv
<1> SUFFICES ASSUME Init PROVE HandlerInv
  OBVIOUS
<1>1. NoSignal /\ \A c \in Controllers : Accounted(c)
  BY DEF Init, NoSignal, Accounted, Owes
<1> QED
  BY <1>1, InitTypeOK DEF HandlerInv

\* A step that adds no debt and leaves a controller's goroutines alone.
LEMMA SameAccount ==
    ASSUME NEW d \in Controllers, Accounted(d),
           waiting'[d] = waiting[d],
           lockReleased'[d] = lockReleased[d] \/ lockReleased'[d] = 0,
           Owes(d)' => Owes(d)
    PROVE  Accounted(d)'
BY DEF Accounted, AtLeastOne, AtLeastTwo

LEMMA StartAccounted ==
    ASSUME TypeOK, NEW c \in Controllers, Accounted(c), StartHandler(c)
    PROVE  Accounted(c)'
<1>1. cur[c] \in Msgs /\ waiting[c] \in [Msgs -> Nat]
  BY DEF StartHandler, TypeOK
<1>2. waiting'[c] = [waiting[c] EXCEPT ![cur[c]] = @ + 1] /\ lockReleased' = lockReleased
  BY DEF StartHandler, TypeOK
<1>3. AtLeastOne(c)'
  BY <1>1, <1>2 DEF AtLeastOne
<1>4. AtLeastOne(c) => AtLeastTwo(c)'
  <2> SUFFICES ASSUME NEW m \in Msgs, waiting[c][m] > 0 PROVE AtLeastTwo(c)'
    BY DEF AtLeastOne
  <2>1. CASE m = cur[c]
    <3>1. waiting'[c][m] > 1
      BY <1>1, <1>2, <2>1
    <3> QED
      BY <3>1 DEF AtLeastTwo
  <2>2. CASE m # cur[c]
    <3>1. waiting'[c][m] > 0 /\ waiting'[c][cur[c]] > 0
      BY <1>1, <1>2, <2>2
    <3> QED
      BY <1>1, <2>2, <3>1 DEF AtLeastTwo
  <2> QED
    BY <2>1, <2>2
<1> QED
  BY <1>2, <1>3, <1>4 DEF Accounted

LEMMA EndAccounted ==
    ASSUME TypeOK, NEW c \in Controllers, NEW n \in Msgs, Accounted(c), HandlerEnds(c, n)
    PROVE  Accounted(c)'
<1>1. waiting[c] \in [Msgs -> Nat] /\ lockReleased[c] = 1 /\ lockReleased'[c] = 0
  BY DEF HandlerEnds, TypeOK
<1>2. waiting'[c] = [waiting[c] EXCEPT ![n] = @ - 1] /\ pc' = pc
  BY DEF HandlerEnds, TypeOK, loopVars
<1>3. ASSUME AtLeastTwo(c) PROVE AtLeastOne(c)'
  <2>1. CASE \E m \in Msgs : waiting[c][m] > 1
    <3>1. PICK m \in Msgs : waiting[c][m] > 1
      BY <2>1
    <3>2. waiting'[c][m] > 0
      BY <1>1, <1>2, <3>1
    <3> QED
      BY <3>2 DEF AtLeastOne
  <2>2. CASE \E m, k \in Msgs : m # k /\ waiting[c][m] > 0 /\ waiting[c][k] > 0
    <3>1. PICK m \in Msgs : m # n /\ waiting[c][m] > 0
      BY <2>2
    <3>2. waiting'[c][m] > 0
      BY <1>1, <1>2, <3>1
    <3> QED
      BY <3>2 DEF AtLeastOne
  <2> QED
    BY <1>3, <2>1, <2>2 DEF AtLeastTwo
<1> QED
  BY <1>1, <1>2, <1>3 DEF Accounted, Owes

LEMMA SendAccounted ==
    ASSUME TypeOK, NEW c \in Controllers, Accounted(c), SendReleased(c)
    PROVE  Accounted(c)'
<1>1. Owes(c) /\ ~Owes(c)' /\ waiting' = waiting
  BY DEF SendReleased, Owes, TypeOK, Goto
<1> QED
  BY <1>1 DEF Accounted, AtLeastOne

LEMMA NextAccounted ==
    ASSUME NoSigterm, HandlerInv, [Next]_vars, NEW d \in Controllers
    PROVE  Accounted(d)'
<1> USE DEF HandlerInv, TypeOK, loopVars, handlerVars, procVars, Goto
<1> DEFINE Kept ==
      /\ waiting'[d] = waiting[d]
      /\ lockReleased'[d] = lockReleased[d] \/ lockReleased'[d] = 0
      /\ Owes(d)' => Owes(d)
<1>1. CASE UNCHANGED vars
  BY <1>1, SameAccount DEF vars, Owes
<1>2. ASSUME NEW c \in Controllers, LoopStep(c) PROVE Accounted(d)'
  <2>1. CASE Stop(c)
    BY <2>1, SameAccount DEF Stop, ExitProcess, Accounted, Owes
  <2>2. CASE \/ Continue(c) \/ (\E m \in Msgs : Fetch(c, m))
             \/ FetchTimeout(c) \/ RequeueLocked(c)
             \/ LockAcquired(c) \/ LockRefused(c)
             \/ WorkDone(c) \/ WorkRequeued(c)
             \/ ReleaseLock(c) \/ ReleaseLockFails(c) \/ Settle(c)
    <3>1. Kept
      BY <2>2 DEF Continue, Fetch, FetchTimeout, RequeueLocked, LockAcquired,
         LockRefused, WorkDone, WorkRequeued, ReleaseLock, ReleaseLockFails,
         Settle, Owes
    <3> QED
      BY <3>1, SameAccount
  <2>3. CASE StartHandler(c) \/ SendReleased(c)
    <3>1. d # c => Kept
      BY <2>3 DEF StartHandler, SendReleased, Owes
    <3> QED
      BY <2>3, <3>1, SameAccount, StartAccounted, SendAccounted
  <2> QED
    BY <1>2, <2>1, <2>2, <2>3 DEF LoopStep
<1>3. ASSUME NEW c \in Controllers, HandlerStep(c) PROVE Accounted(d)'
  <2>1. PICK n \in Msgs : HandlerEnds(c, n)
    BY <1>3 DEF HandlerStep, HandlerSignalled, HandlerDeletes, HandlerSends,
       HandlerRequeues, NoSignal, Idle
  <2>2. d # c => Kept
    BY <2>1 DEF HandlerEnds, Owes
  <2> QED
    BY <2>1, <2>2, SameAccount, EndAccounted
<1>4. ASSUME NEW c \in Controllers, Crash(c) \/ Kill(c) PROVE Accounted(d)'
  <2>1. CASE d = c
    BY <1>4, <2>1 DEF Crash, Kill, ExitProcess, Accounted, Owes
  <2>2. CASE d # c
    <3>1. Kept
      BY <1>4, <2>2 DEF Crash, Kill, ExitProcess, Owes
    <3> QED
      BY <3>1, SameAccount
  <2> QED
    BY <2>1, <2>2
<1>5. ASSUME NEW c \in Controllers, Sigterm(c) \/ RequestShutdown(c) \/ Restart(c)
      PROVE  Accounted(d)'
  <2>1. Kept
    BY <1>5 DEF Sigterm, RequestShutdown, Restart, Owes
  <2> QED
    BY <2>1, SameAccount
<1>6. ASSUME NEW m \in Msgs, AckWait(m) PROVE Accounted(d)'
  BY <1>6, SameAccount DEF AckWait, Owes
<1>7. ASSUME NEW o \in Objects, ExpireLock(o) PROVE Accounted(d)'
  BY <1>7, SameAccount DEF ExpireLock, Owes
<1> QED
  BY <1>1, <1>2, <1>3, <1>4, <1>5, <1>6, <1>7 DEF Next

\* ReleaseLock's send never waits for ever, however often controllers crash or
\* lose their locks: only a termination signal can take the goroutine away
\* that empties the channel.
THEOREM SendNeverBlocks == ASSUME NoSigterm PROVE Spec => []ReleaseNeverBlocks
<1>1. HandlerInv /\ [Next]_vars => HandlerInv'
  BY NextTypeOK, NextNoSignal, NextAccounted DEF HandlerInv
<1>2. HandlerInv => ReleaseNeverBlocks
  BY DEF HandlerInv, Accounted, Owes, AtLeastOne, ReleaseNeverBlocks
<1> QED
  BY InitHandlerInv, <1>1, <1>2, PTL DEF Spec

------------------------------------------------------------------------------
(* Refinement of SerialReconcile *)

Holders == [o \in Objects |-> {c \in Controllers : InSection(c, o)}]

\* A step after which the same controllers are at work is a stutter.
LEMMA SameHolders ==
    ASSUME \A d \in Controllers, o \in Objects : InSection(d, o)' <=> InSection(d, o)
    PROVE  Holders' = Holders
BY DEF Holders

\* A step that ends controller c's work, if any, and no other's.
LEMMA EndOfWork ==
    ASSUME TypeOK, NEW c \in Controllers,
           \A o \in Objects : ~InSection(c, o)',
           \A d \in Controllers \ {c}, o \in Objects : InSection(d, o)' <=> InSection(d, o)
    PROVE  Serial!Next \/ Holders' = Holders
<1>1. CASE \E o \in Objects : InSection(c, o)
  <2>1. PICK o \in Objects : InSection(c, o)
    BY <1>1
  <2>2. \A p \in Objects : InSection(c, p) => p = o
    BY <2>1 DEF InSection
  <2>3. Holders' = [Holders EXCEPT ![o] = @ \ {c}]
    BY <2>2 DEF Holders
  <2>4. Serial!End(c, o)
    BY <2>1, <2>3 DEF Serial!End, Holders
  <2> QED
    BY <2>4 DEF Serial!Next
<1>2. CASE ~(\E o \in Objects : InSection(c, o))
  BY <1>2, SameHolders
<1> QED
  BY <1>1, <1>2

LEMMA StepRefines ==
    ASSUME Undisturbed, LockInv, [Next]_vars
    PROVE  Serial!Next \/ Holders' = Holders
<1> USE MessagesAssumption, NoneAssumption
     DEF LockInv, TypeOK, loopVars, handlerVars, procVars, Goto
<1>1. CASE UNCHANGED vars
  BY <1>1, SameHolders DEF vars, InSection
<1>2. ASSUME NEW c \in Controllers, LoopStep(c)
      PROVE  Serial!Next \/ Holders' = Holders
  <2>1. CASE \/ Continue(c) \/ Stop(c) \/ (\E m \in Msgs : Fetch(c, m))
             \/ FetchTimeout(c) \/ RequeueLocked(c) \/ StartHandler(c)
             \/ LockRefused(c) \/ WorkDone(c) \/ WorkRequeued(c)
             \/ SendReleased(c) \/ Settle(c)
    <3>1. ASSUME NEW d \in Controllers, NEW o \in Objects
          PROVE  InSection(d, o)' <=> InSection(d, o)
      BY <2>1 DEF Continue, Stop, ExitProcess, Fetch, FetchTimeout,
         RequeueLocked, StartHandler, LockRefused, WorkDone, WorkRequeued,
         SendReleased, Settle, InSection
    <3> QED
      BY <3>1, SameHolders
  <2>2. CASE LockAcquired(c)
    <3> DEFINE o == ObjectOf[cur[c]]
    <3>1. o \in Objects /\ lock[o] = None /\ \A p \in Objects : ~InSection(c, p)
      BY <2>2 DEF LockAcquired, InSection
    <3>2. \A d \in Controllers : ~InSection(d, o)
      BY <3>1 DEF HolderHasLock
    <3>3. ASSUME NEW d \in Controllers, NEW p \in Objects
          PROVE  InSection(d, p)' <=> (InSection(d, p) \/ (d = c /\ p = o))
      <4>1. pc' = [pc EXCEPT ![c] = "work"] /\ cur' = cur /\ pc[c] = "lock"
        BY <2>2 DEF LockAcquired
      <4>2. CASE d = c
        <5>1. ~InSection(d, p)
          BY <4>1, <4>2 DEF InSection
        <5>2. InSection(d, p)' <=> ObjectOf[cur[c]] = p
          BY <4>1, <4>2 DEF InSection
        <5> QED
          BY <4>2, <5>1, <5>2
      <4>3. CASE d # c
        BY <4>1, <4>3 DEF InSection
      <4> QED
        BY <4>2, <4>3
    <3>4. Holders' = [Holders EXCEPT ![o] = {c}]
      <4> HIDE DEF o
      <4>1. \A p \in Objects :
               {d \in Controllers : InSection(d, p)'}
                  = IF p = o THEN {c} ELSE {d \in Controllers : InSection(d, p)}
        BY <3>2, <3>3
      <4> QED
        BY <3>1, <4>1 DEF Holders
    <3>5. Serial!Begin(c, o)
      BY <3>1, <3>2, <3>4 DEF Serial!Begin, Holders
    <3> QED
      BY <3>1, <3>5 DEF Serial!Next
  <2>3. CASE ReleaseLock(c) \/ ReleaseLockFails(c)
    <3>1. \A p \in Objects : ~InSection(c, p)'
      BY <2>3 DEF ReleaseLock, ReleaseLockFails, InSection
    <3>2. \A d \in Controllers \ {c}, p \in Objects : InSection(d, p)' <=> InSection(d, p)
      BY <2>3 DEF ReleaseLock, ReleaseLockFails, InSection
    <3> QED
      BY <3>1, <3>2, EndOfWork
  <2> QED
    BY <1>2, <2>1, <2>2, <2>3 DEF LoopStep
<1>3. ASSUME NEW c \in Controllers, HandlerStep(c) PROVE Holders' = Holders
  BY <1>3, SameHolders DEF HandlerStep, HandlerEnds, HandlerSignalled,
     HandlerDeletes, HandlerSends, HandlerRequeues, InSection
<1>4. ASSUME NEW c \in Controllers, Crash(c) \/ Kill(c)
      PROVE  Serial!Next \/ Holders' = Holders
  <2>1. \A p \in Objects : ~InSection(c, p)'
    BY <1>4 DEF Crash, Kill, ExitProcess, InSection
  <2>2. \A d \in Controllers \ {c}, p \in Objects : InSection(d, p)' <=> InSection(d, p)
    BY <1>4 DEF Crash, Kill, ExitProcess, InSection
  <2> QED
    BY <2>1, <2>2, EndOfWork
<1>5. ASSUME NEW c \in Controllers, Sigterm(c) \/ RequestShutdown(c) \/ Restart(c)
      PROVE  Holders' = Holders
  <2>1. ASSUME NEW d \in Controllers, NEW o \in Objects
        PROVE  InSection(d, o)' <=> InSection(d, o)
    BY <1>5 DEF Sigterm, RequestShutdown, Restart, Alive, InSection
  <2> QED
    BY <2>1, SameHolders
<1>6. ASSUME NEW m \in Msgs, AckWait(m) PROVE Holders' = Holders
  BY <1>6, SameHolders DEF AckWait, InSection
<1>7. ASSUME NEW o \in Objects, ExpireLock(o) PROVE Holders' = Holders
  BY <1>7, SameHolders DEF ExpireLock, InSection
<1> QED
  BY <1>1, <1>2, <1>3, <1>4, <1>5, <1>6, <1>7 DEF Next

\* The lock keeps the promise SerialReconcile states.
THEOREM Refinement == ASSUME Undisturbed PROVE Spec => ImplementsSerialReconcile
<1>1. Init => Serial!Init
  BY DEF Init, Serial!Init, InSection
<1>2. LockInv /\ [Next]_vars => [Serial!Next]_Holders
  BY StepRefines
<1> QED
  BY <1>1, <1>2, LockInvInvariant, PTL
     DEF Spec, ImplementsSerialReconcile, Serial!Spec, Holders
==============================================================================
