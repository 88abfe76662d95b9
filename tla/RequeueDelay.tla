---------------------------- MODULE RequeueDelay ----------------------------
(***************************************************************************)
(* How often a notification that cannot be reconciled comes back.  A loop  *)
(* computes a delay from the notification's age when it pulls it, and      *)
(* asks JetStream for a redelivery after that delay when it gives up, at   *)
(* once or after a long operation.  JetStream does not wait for it: a      *)
(* delivery that has not been settled within AckWait is followed by        *)
(* another, to any loop, and what the first one says later still counts.   *)
(* Ages are in seconds, by one clock.                                      *)
(***************************************************************************)
EXTENDS Integers, TLAPS

DefaultInitialRequeueDelay == 1
DefaultMaxRequeueDelay == 30
AckWait == 30                    \* JetStream's default: consumers set none

\* The delays that operations ask for themselves, while they wait for what
\* they have started.  (Those of S3 buckets, 5 and 10, are left out.)
OwnDelays == {60, 90, 180, 300}

SetRequeueDelay(elapsedTime) ==
    IF elapsedTime < DefaultInitialRequeueDelay THEN DefaultInitialRequeueDelay
    ELSE IF elapsedTime > DefaultMaxRequeueDelay THEN DefaultMaxRequeueDelay
    ELSE elapsedTime * 2

VARIABLES
    age,       \* of the notification
    attempts,  \* how often it was pulled
    rounds,    \* the iterations that hold a delivery of it: n, the number of
               \* the delivery, and pulled, the notification's age at the time
    ready      \* the age from which it is delivered again

vars == <<age, attempts, rounds, ready>>

Init == age = 0 /\ attempts = 0 /\ rounds = {} /\ ready = 0

Tick ==
    /\ age' = age + 1
    /\ UNCHANGED <<attempts, rounds, ready>>

\* Some loop gets the notification, whoever else still works on it.
PullMessage ==
    /\ age >= ready
    /\ attempts' = attempts + 1
    /\ rounds' = rounds \union {[n |-> attempts + 1, pulled |-> age]}
    /\ ready' = age + AckWait
    /\ UNCHANGED age

\* The object is locked, or its operation has failed or waits: the delay was
\* computed at the pull.
Requeue(r) ==
    /\ \E delay \in {SetRequeueDelay(r.pulled)} \union OwnDelays : ready' = age + delay
    /\ rounds' = rounds \ {r}
    /\ UNCHANGED <<age, attempts>>

\* The controller has died, or what it sent was lost or came too late.
Drop(r) ==
    /\ rounds' = rounds \ {r}
    /\ UNCHANGED <<age, attempts, ready>>

Next == Tick \/ PullMessage \/ \E r \in rounds : Requeue(r) \/ Drop(r)
Spec == Init /\ [][Next]_vars

------------------------------------------------------------------------------
\* The least age at the k-th attempt: doubled delays triple the age, and after
\* half a minute there are thirty seconds between attempts.
LeastAge(k) ==
    IF k <= 1 THEN 0
    ELSE IF k = 2 THEN 1
    ELSE IF k = 3 THEN 3
    ELSE IF k = 4 THEN 9
    ELSE 27 + 30 * (k - 5)

\* A notification that is never settled is tried at most five times in its
\* first 56 seconds and twice a minute afterwards: delays that double the
\* notification's age, not the delay before, are enough for attempts not to
\* come closer together, although a round that outlives its delivery asks for
\* its short delay late, beside the rounds that follow it.
BackedOff == age >= LeastAge(attempts)

TypeOK ==
    /\ age \in Nat /\ attempts \in Nat /\ ready \in Nat
    /\ rounds \subseteq [n : 1..attempts, pulled : 0..age]

\* A round whose delay is shorter than AckWait.
Early(r) == r.pulled < 15

\* The round that may still ask for a short delay is one, since any delivery
\* beside it has waited for AckWait, and it has let the others fall behind.
EarlyRound ==
    \A r \in rounds : Early(r) =>
        /\ \A s \in rounds : s # r => ~Early(s)
        /\ age >= r.pulled + 30 * (attempts - r.n)
        /\ ready >= r.pulled + 30 * (attempts + 1 - r.n)

IInv ==
    /\ TypeOK /\ BackedOff /\ EarlyRound
    /\ ready >= LeastAge(attempts + 1)
    /\ \A r \in rounds : r.pulled >= LeastAge(r.n)

------------------------------------------------------------------------------
\* Thirty seconds are always enough.
LEMMA WaitEnough ==
    ASSUME NEW k \in Nat, NEW a \in Nat, a >= LeastAge(k)
    PROVE  a + 30 >= LeastAge(k + 1)
  BY DEF LeastAge

LEMMA DelayRange ==
    ASSUME NEW p \in Nat
    PROVE  /\ SetRequeueDelay(p) \in 1..60
           /\ p >= 15 => SetRequeueDelay(p) >= 30
           /\ p < 15 => SetRequeueDelay(p) = IF p = 0 THEN 1 ELSE 2 * p
  BY DEF SetRequeueDelay, DefaultInitialRequeueDelay, DefaultMaxRequeueDelay

\* The delay of an early round, asked for after m later attempts.
LEMMA EarlyEnough ==
    ASSUME NEW n \in Nat, n >= 1, NEW m \in Nat, NEW p \in Nat, p < 15, p >= LeastAge(n),
           NEW a \in Nat, a >= p + 30 * m
    PROVE  a + SetRequeueDelay(p) >= LeastAge(n + m + 1)
<1>1. n \in 1..4
  BY DEF LeastAge
<1>2. a + SetRequeueDelay(p) >= 30 * m + (IF p = 0 THEN 1 ELSE 3 * p)
  BY DelayRange
<1>3. LeastAge(n + m + 1) <= 30 * m + (IF n = 1 THEN 1 ELSE 3 * LeastAge(n))
  <2>1. CASE n = 1
    BY <2>1 DEF LeastAge
  <2>2. CASE n = 2
    BY <2>2 DEF LeastAge
  <2>3. CASE n = 3
    BY <2>3 DEF LeastAge
  <2>4. CASE n = 4
    BY <2>4 DEF LeastAge
  <2> QED
    BY <1>1, <2>1, <2>2, <2>3, <2>4
<1>4. (IF n = 1 THEN 1 ELSE 3 * LeastAge(n)) <= (IF p = 0 THEN 1 ELSE 3 * p)
  BY <1>1 DEF LeastAge
<1>5. LeastAge(n + m + 1) \in Int /\ SetRequeueDelay(p) \in Int /\ LeastAge(n) \in Int
  BY DelayRange DEF LeastAge
<1> QED
  BY <1>2, <1>3, <1>4, <1>5

LEMMA InitIInv == Init => IInv
  BY DEF Init, IInv, TypeOK, BackedOff, EarlyRound, LeastAge

LEMMA RoundIs ==
    ASSUME TypeOK, NEW r \in rounds
    PROVE  /\ r \in [n : 1..attempts, pulled : 0..age]
           /\ r.n \in Nat /\ r.pulled \in Nat /\ 1 <= r.n /\ r.n <= attempts /\ r.pulled <= age
           /\ attempts - r.n \in Nat
<1>1. r \in [n : 1..attempts, pulled : 0..age] /\ age \in Nat /\ attempts \in Nat
  BY DEF TypeOK
<1> QED
  BY <1>1

LEMMA TickKeeps == IInv /\ Tick => IInv'
<1> SUFFICES ASSUME IInv, Tick PROVE IInv'
  OBVIOUS
<1> USE DEF IInv, Tick
<1>1. TypeOK'
  BY DEF TypeOK
<1>2. LeastAge(attempts) \in Int /\ age \in Nat
  BY DEF TypeOK, LeastAge
<1>3. BackedOff'
  BY <1>2 DEF BackedOff
<1>4. ASSUME NEW r \in rounds, Early(r)
      PROVE  age' >= r.pulled + 30 * (attempts - r.n)
  BY <1>2, <1>4, RoundIs DEF EarlyRound
<1>5. EarlyRound'
  BY <1>4 DEF EarlyRound, Early
<1> QED
  BY <1>1, <1>3, <1>5

LEMMA PullKeeps == IInv /\ PullMessage => IInv'
<1> SUFFICES ASSUME IInv, PullMessage PROVE IInv'
  OBVIOUS
<1> USE DEF IInv, PullMessage
<1> DEFINE new == [n |-> attempts + 1, pulled |-> age]
<1>1. age \in Nat /\ attempts \in Nat /\ ready \in Nat /\ attempts + 1 \in Nat /\ age + 30 \in Nat
  BY DEF TypeOK
<1>2. age >= LeastAge(attempts + 1)
  BY <1>1 DEF LeastAge
<1>3. ready' = age + 30 /\ ready' >= LeastAge(attempts' + 1)
  BY <1>1, <1>2, WaitEnough DEF AckWait
<1>4. new \in [n : 1..attempts', pulled : 0..age']
  BY <1>1
<1>5. TypeOK'
  <2>1. ASSUME NEW r \in rounds PROVE r \in [n : 1..attempts', pulled : 0..age']
    BY <1>1, RoundIs
  <2> QED
    BY <1>1, <1>3, <1>4, <2>1 DEF TypeOK
<1>6. \A r \in rounds' : r.pulled >= LeastAge(r.n)
  BY <1>2
<1>7. ASSUME NEW r \in rounds, Early(r)
      PROVE  /\ ~Early(new)
             /\ age >= r.pulled + 30 * (attempts' - r.n)
             /\ ready' >= r.pulled + 30 * (attempts' + 1 - r.n)
  <2>1. ready >= r.pulled + 30 * (attempts + 1 - r.n) /\ r.n \in Nat /\ r.pulled \in Nat /\ r.n <= attempts
    BY <1>7, RoundIs DEF EarlyRound
  <2>2. age >= 30 /\ age >= r.pulled + 30 * (attempts + 1 - r.n)
    BY <1>1, <2>1
  <2> QED
    BY <1>1, <1>3, <2>1, <2>2 DEF Early
<1>8. /\ age >= new.pulled + 30 * (attempts' - new.n)
      /\ ready' >= new.pulled + 30 * (attempts' + 1 - new.n)
  BY <1>1, <1>3
<1>9. EarlyRound'
  <2>1. \A r \in rounds : Early(r) => \A s \in rounds : s # r => ~Early(s)
    BY DEF EarlyRound
  <2> QED
    BY <1>7, <1>8, <2>1 DEF EarlyRound
<1> QED
  BY <1>2, <1>3, <1>5, <1>6, <1>9 DEF BackedOff

LEMMA RequeueKeeps == ASSUME IInv, NEW r \in rounds, Requeue(r) PROVE IInv'
<1> USE DEF IInv
<1>1. age \in Nat /\ attempts \in Nat /\ ready \in Nat /\ age' = age /\ attempts' = attempts
      /\ rounds' = rounds \ {r}
  BY DEF TypeOK, Requeue
<1>2. r.n \in Nat /\ r.n >= 1 /\ r.pulled \in Nat /\ attempts - r.n \in Nat
  BY RoundIs
<1>3. PICK delay \in {SetRequeueDelay(r.pulled)} \union OwnDelays : ready' = age + delay
  BY DEF Requeue
<1>4. delay \in Nat /\ (delay >= 30 \/ (Early(r) /\ delay = SetRequeueDelay(r.pulled)))
  BY <1>2, <1>3, DelayRange DEF OwnDelays, Early
<1>5. ready' \in Nat
  BY <1>1, <1>3, <1>4
<1>6. age + 30 >= LeastAge(attempts + 1) /\ LeastAge(attempts + 1) \in Int
  BY <1>1, WaitEnough DEF BackedOff, LeastAge
<1>7. ready' >= LeastAge(attempts + 1)
  <2>1. CASE delay >= 30
    BY <1>1, <1>3, <1>4, <1>6, <2>1
  <2>2. CASE Early(r) /\ delay = SetRequeueDelay(r.pulled)
    <3>1. age >= r.pulled + 30 * (attempts - r.n) /\ r.pulled < 15 /\ r.pulled >= LeastAge(r.n)
      BY <2>2 DEF EarlyRound, Early
    <3>2. age + SetRequeueDelay(r.pulled) >= LeastAge(r.n + (attempts - r.n) + 1)
      BY <1>1, <1>2, <3>1, EarlyEnough
    <3>3. r.n + (attempts - r.n) + 1 = attempts + 1
      BY <1>1, <1>2
    <3> QED
      BY <1>3, <2>2, <3>2, <3>3
  <2> QED
    BY <1>4, <2>1, <2>2
<1>8. ASSUME NEW s \in rounds', Early(s)
      PROVE  ready' >= s.pulled + 30 * (attempts + 1 - s.n)
  <2>1. s \in rounds /\ s # r
    BY <1>1
  <2>2. ~Early(r) /\ age >= s.pulled + 30 * (attempts - s.n)
    BY <1>8, <2>1 DEF EarlyRound
  <2>3. s.n \in Nat /\ s.pulled \in Nat
    BY <2>1, RoundIs
  <2> QED
    BY <1>1, <1>3, <1>4, <2>2, <2>3
<1>9. EarlyRound'
  BY <1>1, <1>8 DEF EarlyRound, Early
<1> QED
  BY <1>1, <1>5, <1>7, <1>9 DEF TypeOK, BackedOff

LEMMA NextIInv == IInv /\ [Next]_vars => IInv'
<1> SUFFICES ASSUME IInv, [Next]_vars PROVE IInv'
  OBVIOUS
<1>1. ASSUME NEW r \in rounds, Drop(r) PROVE IInv'
  BY <1>1 DEF Drop, IInv, TypeOK, BackedOff, EarlyRound, Early
<1>2. CASE UNCHANGED vars
  BY <1>2 DEF vars, IInv, TypeOK, BackedOff, EarlyRound, Early
<1> QED
  BY <1>1, <1>2, TickKeeps, PullKeeps, RequeueKeeps DEF Next

\* A notification that is never settled is not pulled more often than this,
\* however long its rounds take, whichever overlap and whatever is lost.
THEOREM RetriesBackOff == Spec => []BackedOff
<1>1. IInv => BackedOff
  BY DEF IInv
<1> QED
  BY <1>1, InitIInv, NextIInv, PTL DEF Spec
=============================================================================
