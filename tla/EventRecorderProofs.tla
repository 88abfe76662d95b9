-------------------------- MODULE EventRecorderProofs --------------------------
(***************************************************************************)
(* Theorems about EventRecorder, for any number of calls and of failures.  *)
(***************************************************************************)
EXTENDS EventRecorder, FiniteSetTheorems, FunctionTheorems, TLAPS

(***************************************************************************)
(* Types                                                                   *)
(***************************************************************************)

EventType == [st : RowStates, count : Nat, linked : BOOLEAN]
SeenType == [id : Calls \union {None}, count : Nat]

LEMMA InitTypeOK == Init => TypeOK
<1>1. NoEvent \in EventType /\ NothingSeen \in SeenType
  BY DEF NoEvent, NothingSeen, EventType, SeenType, RowStates
<1>2. [c \in Calls |-> NoEvent] \in [Calls -> EventType]
  BY <1>1
<1>3. [c \in Calls |-> NothingSeen] \in [Calls -> SeenType]
  BY <1>1
<1>4. QED
  <2> SUFFICES ASSUME Init PROVE TypeOK
    OBVIOUS
  <2>1. event \in [Calls -> EventType] /\ seen \in [Calls -> SeenType]
    BY <1>2, <1>3 DEF Init
  <2>2. \A c \in Calls : pc[c] = "idle" /\ next[c] = 1
    BY DEF Init
  <2>3. /\ ref \in [Calls -> RowStates] /\ next \in [Calls -> 0..4]
        /\ failed \in [Calls -> SUBSET (1..3)]
        /\ pc \in [Calls -> {"idle", "create", "delete", "count", "ok", "error"}]
    BY DEF Init, RowStates
  <2>4. overlapped \in BOOLEAN /\ disruptions \in Nat
    BY DEF Init
  <2>5. QED
    BY <2>1, <2>2, <2>3, <2>4 DEF TypeOK, EventType, SeenType

\* What a create or a delete function does to the rows keeps their types.
LEMMA RowsTyped ==
  ASSUME TypeOK, NEW c \in Calls, Make(c) \/ Unmake(c) \/ UNCHANGED rowVars
  PROVE  event' \in [Calls -> EventType] /\ ref' \in [Calls -> RowStates]
<1>1. event \in [Calls -> EventType] /\ ref \in [Calls -> RowStates]
  BY DEF TypeOK, EventType
<1>2. /\ [st |-> "live", count |-> 1, linked |-> FALSE] \in EventType
      /\ [event[c] EXCEPT !.linked = TRUE] \in EventType
      /\ [event[c] EXCEPT !.st = "deleted"] \in EventType
  BY <1>1 DEF EventType, RowStates
<1>3. CASE Make(c)
  BY <1>1, <1>2, <1>3 DEF Make, RowStates, rowVars
<1>4. CASE Unmake(c)
  BY <1>1, <1>2, <1>4 DEF Unmake, RowStates, rowVars
<1>5. CASE UNCHANGED rowVars
  BY <1>1, <1>5 DEF rowVars
<1>6. QED
  BY <1>3, <1>4, <1>5

LEMMA StepTypeOK ==
  ASSUME TypeOK, [Next]_vars
  PROVE  TypeOK'
<1> USE MaxDisruptionsAssumption DEF rowVars, stackVars
<1>0. /\ event \in [Calls -> EventType] /\ ref \in [Calls -> RowStates]
      /\ seen \in [Calls -> SeenType]
  BY DEF TypeOK, EventType, SeenType
<1>1. CASE UNCHANGED vars
  BY <1>1 DEF vars, TypeOK
<1>2. ASSUME NEW c \in Calls, FindNone(c) \/ FindFails(c)
      PROVE  TypeOK'
  <2>1. overlapped' \in BOOLEAN
    BY <1>2 DEF FindNone, FindFails, Begin
  <2>2. disruptions' \in Nat
    BY <1>2 DEF FindNone, FindFails, Disrupt, TypeOK
  <2>3. /\ pc' \in [Calls -> {"idle", "create", "delete", "count", "ok", "error"}]
        /\ UNCHANGED <<rowVars, stackVars, seen>>
    BY <1>2 DEF FindNone, FindFails, Goto, TypeOK
  <2>4. ASSUME NEW d \in Calls
        PROVE  /\ pc'[d] \in {"idle", "create"} => next[d] \in 1..3
               /\ pc'[d] = "delete" => next[d] \in 1..2
               /\ pc'[d] = "count" => seen[d].id \in Calls
    BY <1>2 DEF FindNone, FindFails, Begin, Goto, TypeOK
  <2>5. QED
    BY <2>1, <2>2, <2>3, <2>4 DEF TypeOK
<1>3. ASSUME NEW c \in Calls, FindOne(c)
      PROVE  TypeOK'
  <2>1. PICK e \in Calls : seen' = [seen EXCEPT ![c] = [id |-> e, count |-> event[e].count]]
    BY <1>3 DEF FindOne
  <2>2. [id |-> e, count |-> event[e].count] \in SeenType
    BY <1>0 DEF EventType, SeenType
  <2>3. seen' \in [Calls -> SeenType] /\ seen'[c].id \in Calls
    BY <1>0, <2>1, <2>2
  <2>4. \A d \in Calls : d # c => seen'[d] = seen[d]
    BY <1>0, <2>1
  <2>5. QED
    BY <1>3, <2>3, <2>4 DEF FindOne, Begin, Goto, TypeOK, SeenType
<1>4. ASSUME NEW c \in Calls, MakeNext(c)
      PROVE  TypeOK'
  <2>1. event' \in [Calls -> EventType] /\ ref' \in [Calls -> RowStates]
    BY <1>4, RowsTyped DEF MakeNext
  <2>2. pc[c] = "create" /\ next[c] \in 1..3
    BY <1>4 DEF MakeNext, TypeOK
  <2>3. /\ next' \in [Calls -> 0..4] /\ failed' \in [Calls -> SUBSET (1..3)]
        /\ pc' \in [Calls -> {"idle", "create", "delete", "count", "ok", "error"}]
        /\ seen' = seen /\ overlapped' = overlapped /\ disruptions' \in Nat
    BY <1>4, <2>2 DEF MakeNext, Goto, Disrupt, TypeOK
  <2>4. ASSUME NEW d \in Calls
        PROVE  /\ pc'[d] \in {"idle", "create"} => next'[d] \in 1..3
               /\ pc'[d] = "delete" => next'[d] \in 1..2
               /\ pc'[d] = "count" => seen'[d].id \in Calls
    <3>1. CASE d = c
      BY <1>4, <2>2, <3>1 DEF MakeNext, Goto, TypeOK
    <3>2. CASE d # c
      BY <1>4, <3>2 DEF MakeNext, Goto, TypeOK
    <3>3. QED
      BY <3>1, <3>2
  <2>5. QED
    BY <2>1, <2>3, <2>4 DEF TypeOK, EventType
<1>5. ASSUME NEW c \in Calls, MakeFails(c)
      PROVE  TypeOK'
  <2>1. event' \in [Calls -> EventType] /\ ref' \in [Calls -> RowStates]
    BY <1>5, RowsTyped DEF MakeFails
  <2>2. pc[c] = "create" /\ next[c] \in 1..3
    BY <1>5 DEF MakeFails, TypeOK
  <2>3. /\ next' \in [Calls -> 0..4] /\ failed' \in [Calls -> SUBSET (1..3)]
        /\ pc' \in [Calls -> {"idle", "create", "delete", "count", "ok", "error"}]
        /\ seen' = seen /\ overlapped' = overlapped /\ disruptions' \in Nat
    BY <1>5, <2>2 DEF MakeFails, Goto, Disrupt, TypeOK
  <2>4. ASSUME NEW d \in Calls
        PROVE  /\ pc'[d] \in {"idle", "create"} => next'[d] \in 1..3
               /\ pc'[d] = "delete" => next'[d] \in 1..2
               /\ pc'[d] = "count" => seen'[d].id \in Calls
    <3>1. CASE d = c
      BY <1>5, <2>2, <3>1 DEF MakeFails, Goto, TypeOK
    <3>2. CASE d # c
      BY <1>5, <3>2 DEF MakeFails, Goto, TypeOK
    <3>3. QED
      BY <3>1, <3>2
  <2>5. QED
    BY <2>1, <2>3, <2>4 DEF TypeOK, EventType
<1>6. ASSUME NEW c \in Calls, UnmakeNext(c) \/ UnmakeFails(c)
      PROVE  TypeOK'
  <2>1. event' \in [Calls -> EventType] /\ ref' \in [Calls -> RowStates]
    BY <1>6, RowsTyped DEF UnmakeNext, UnmakeFails
  <2>2. pc[c] = "delete" /\ next[c] \in 1..2
    BY <1>6 DEF UnmakeNext, UnmakeFails, TypeOK
  <2>3. /\ next' \in [Calls -> 0..4] /\ failed' \in [Calls -> SUBSET (1..3)]
        /\ pc' \in [Calls -> {"idle", "create", "delete", "count", "ok", "error"}]
        /\ seen' = seen /\ overlapped' = overlapped /\ disruptions' \in Nat
    <3>1. CASE UnmakeNext(c)
      BY <2>2, <3>1 DEF UnmakeNext, Goto, TypeOK
    <3>2. CASE UnmakeFails(c)
      BY <2>2, <3>2 DEF UnmakeFails, Goto, Disrupt, TypeOK
    <3>3. QED
      BY <1>6, <3>1, <3>2
  <2>4. ASSUME NEW d \in Calls
        PROVE  /\ pc'[d] \in {"idle", "create"} => next'[d] \in 1..3
               /\ pc'[d] = "delete" => next'[d] \in 1..2
               /\ pc'[d] = "count" => seen'[d].id \in Calls
    <3>1. CASE d = c
      BY <1>6, <2>2, <3>1 DEF UnmakeNext, UnmakeFails, Goto, TypeOK
    <3>2. CASE d # c
      BY <1>6, <3>2 DEF UnmakeNext, UnmakeFails, Goto, TypeOK
    <3>3. QED
      BY <3>1, <3>2
  <2>5. QED
    BY <2>1, <2>3, <2>4 DEF TypeOK, EventType
<1>7. ASSUME NEW c \in Calls, Count(c) \/ CountFails(c)
      PROVE  TypeOK'
  <2>1. seen[c].id \in Calls /\ seen[c].count + 1 \in Nat
    BY <1>0, <1>7 DEF Count, CountFails, TypeOK, SeenType
  <2>2. [event[seen[c].id] EXCEPT !.count = seen[c].count + 1] \in EventType
    BY <1>0, <2>1 DEF EventType
  <2>3. event' \in [Calls -> EventType]
    BY <1>0, <1>7, <2>1, <2>2 DEF Count, CountFails
  <2>4. /\ pc' \in [Calls -> {"idle", "create", "delete", "count", "ok", "error"}]
        /\ UNCHANGED <<ref, next, failed, seen, overlapped>>
        /\ \A d \in Calls : pc'[d] \in {pc[d], "ok", "error"}
    BY <1>7 DEF Count, CountFails, Goto, TypeOK
  <2>5. disruptions' \in Nat
    BY <1>7 DEF Count, CountFails, Disrupt, TypeOK
  <2>6. QED
    BY <2>3, <2>4, <2>5 DEF TypeOK, EventType
<1>8. QED
  BY <1>1, <1>2, <1>3, <1>4, <1>5, <1>6, <1>7 DEF Next

\* The recorder's variables keep their types, and a stack's next operation its
\* bounds, whichever calls overlap and fail.
THEOREM Typing == Spec => []TypeOK
BY InitTypeOK, StepTypeOK, PTL DEF Spec

(***************************************************************************)
(* The stacks of the calls that create an event                            *)
(***************************************************************************)

\* What a call has made, as far as its stack has got.
StackInv(c) ==
    /\ pc[c] \in {"idle", "count"} =>
          /\ next[c] = 1 /\ failed[c] = {}
          /\ event[c].st # "live" /\ ref[c] # "live" /\ ~event[c].linked
    /\ pc[c] = "create" =>
          /\ failed[c] = {}
          /\ (event[c].st = "live") = (next[c] > 1) /\ (ref[c] = "live") = (next[c] > 2)
          /\ ~event[c].linked
    /\ pc[c] = "delete" =>
          /\ ref[c] = "live" => next[c] = 2 \/ 2 \in failed[c]
          /\ event[c].linked => 3 \in failed[c]
    /\ pc[c] = "ok" =>
          /\ next[c] \in {1, 4}
          /\ next[c] = 4 => event[c].st = "live" /\ ref[c] = "live" /\ event[c].linked
    /\ pc[c] = "error" =>
          /\ next[c] \in {0, 1}
          /\ next[c] = 0 => /\ event[c].st = "live" => 1 \in failed[c]
                            /\ ref[c] = "live" => 2 \in failed[c]
                            /\ event[c].linked => 3 \in failed[c]

Stacks == \A c \in Calls : StackInv(c)

LEMMA InitStacks == Init => Stacks
BY DEF Init, Stacks, StackInv, NoEvent

\* A step of one call leaves what another has made: the one that counts
\* writes a count only.
LEMMA OthersUntouched ==
  ASSUME TypeOK, NEW c \in Calls, NEW d \in Calls, c # d,
         \/ FindNone(c) \/ FindOne(c) \/ FindFails(c)
         \/ MakeNext(c) \/ MakeFails(c) \/ UnmakeNext(c) \/ UnmakeFails(c)
         \/ Count(c) \/ CountFails(c)
  PROVE  /\ pc'[d] = pc[d] /\ next'[d] = next[d] /\ failed'[d] = failed[d]
         /\ event'[d].st = event[d].st /\ event'[d].linked = event[d].linked
         /\ ref'[d] = ref[d]
<1> USE DEF rowVars, stackVars, Goto, TypeOK
<1>1. CASE FindNone(c) \/ FindOne(c) \/ FindFails(c)
  BY <1>1 DEF FindNone, FindOne, FindFails, Begin
<1>2. CASE MakeNext(c) \/ MakeFails(c)
  <2>1. Make(c) \/ UNCHANGED rowVars
    BY <1>2 DEF MakeNext, MakeFails
  <2>2. event'[d] = event[d] /\ ref'[d] = ref[d]
    BY <2>1 DEF Make
  <2>3. QED
    BY <1>2, <2>2 DEF MakeNext, MakeFails
<1>3. CASE UnmakeNext(c) \/ UnmakeFails(c)
  <2>1. Unmake(c) \/ UNCHANGED rowVars
    BY <1>3 DEF UnmakeNext, UnmakeFails
  <2>2. event'[d] = event[d] /\ ref'[d] = ref[d]
    BY <2>1 DEF Unmake
  <2>3. QED
    BY <1>3, <2>2 DEF UnmakeNext, UnmakeFails
<1>4. CASE Count(c) \/ CountFails(c)
  <2>1. \/ event' = event
        \/ event' = [event EXCEPT ![seen[c].id].count = seen[c].count + 1]
    BY <1>4 DEF Count, CountFails
  <2>2. event'[d].st = event[d].st /\ event'[d].linked = event[d].linked
    BY <2>1
  <2>3. QED
    BY <1>4, <2>2 DEF Count, CountFails
<1>5. QED
  BY <1>1, <1>2, <1>3, <1>4

LEMMA StepStackInv ==
  ASSUME TypeOK, Stacks, NEW c \in Calls,
         \/ FindNone(c) \/ FindOne(c) \/ FindFails(c)
         \/ MakeNext(c) \/ MakeFails(c) \/ UnmakeNext(c) \/ UnmakeFails(c)
         \/ Count(c) \/ CountFails(c)
  PROVE  StackInv(c)'
<1> USE DEF rowVars, stackVars, Goto
<1>0. /\ StackInv(c)
      /\ pc[c] = "create" => next[c] \in 1..3
      /\ pc[c] = "delete" => next[c] \in 1..2
      /\ pc \in [Calls -> {"idle", "create", "delete", "count", "ok", "error"}]
      /\ next \in [Calls -> 0..4] /\ failed \in [Calls -> SUBSET (1..3)]
      /\ event \in [Calls -> EventType] /\ ref \in [Calls -> RowStates]
  BY DEF Stacks, TypeOK, EventType
<1>1. CASE FindNone(c) \/ FindOne(c) \/ FindFails(c)
  BY <1>0, <1>1 DEF FindNone, FindOne, FindFails, Begin, StackInv
<1>2. CASE MakeNext(c)
  <2>1. CASE next[c] = 1
    BY <1>0, <1>2, <2>1 DEF MakeNext, Make, StackInv, EventType
  <2>2. CASE next[c] = 2
    BY <1>0, <1>2, <2>2 DEF MakeNext, Make, StackInv, EventType
  <2>3. CASE next[c] = 3
    BY <1>0, <1>2, <2>3 DEF MakeNext, Make, StackInv, EventType
  <2>4. QED
    BY <1>0, <1>2, <2>1, <2>2, <2>3 DEF MakeNext
<1>3. CASE MakeFails(c)
  <2>1. CASE next[c] = 1
    BY <1>0, <1>3, <2>1 DEF MakeFails, Make, StackInv, EventType
  <2>2. CASE next[c] = 2
    BY <1>0, <1>3, <2>2 DEF MakeFails, Make, StackInv, EventType
  <2>3. CASE next[c] = 3
    BY <1>0, <1>3, <2>3 DEF MakeFails, Make, StackInv, EventType
  <2>4. QED
    BY <1>0, <1>3, <2>1, <2>2, <2>3 DEF MakeFails
<1>4. CASE UnmakeNext(c)
  BY <1>0, <1>4 DEF UnmakeNext, Unmake, StackInv, EventType
<1>5. CASE UnmakeFails(c)
  BY <1>0, <1>5 DEF UnmakeFails, Unmake, StackInv, EventType
<1>6. CASE Count(c) \/ CountFails(c)
  <2>1. pc[c] = "count" /\ pc'[c] \in {"ok", "error"} /\ next'[c] = next[c]
    BY <1>0, <1>6 DEF Count, CountFails
  <2>2. QED
    BY <1>0, <2>1 DEF StackInv
<1>7. QED
  BY <1>1, <1>2, <1>3, <1>4, <1>5, <1>6

LEMMA StepStacks ==
  ASSUME TypeOK, Stacks, [Next]_vars
  PROVE  Stacks'
<1>1. CASE UNCHANGED vars
  BY <1>1 DEF vars, Stacks, StackInv
<1>2. ASSUME NEW c \in Calls,
             \/ FindNone(c) \/ FindOne(c) \/ FindFails(c)
             \/ MakeNext(c) \/ MakeFails(c) \/ UnmakeNext(c) \/ UnmakeFails(c)
             \/ Count(c) \/ CountFails(c)
      PROVE  Stacks'
  <2>1. StackInv(c)'
    BY <1>2, StepStackInv
  <2>2. ASSUME NEW d \in Calls, c # d
        PROVE  StackInv(d)'
    BY <1>2, <2>2, OthersUntouched DEF Stacks, StackInv
  <2>3. QED
    BY <2>1, <2>2 DEF Stacks
<1>3. QED
  BY <1>1, <1>2 DEF Next

LEMMA StacksInvariant == Spec => [](TypeOK /\ Stacks)
BY InitTypeOK, StepTypeOK, InitStacks, StepStacks, PTL DEF Spec

LEMMA StacksAllOrNothing == TypeOK /\ Stacks => CreatesAllOrNothing
<1> SUFFICES ASSUME TypeOK, Stacks, NEW c \in Calls
             PROVE  Stack(c)!AllOrNothing
  BY DEF CreatesAllOrNothing
<1>1. StackInv(c) /\ failed[c] \in SUBSET (1..3)
  BY DEF Stacks, TypeOK
<1>2. QED
  BY <1>1 DEF Stack!AllOrNothing, StackInv

\* "use operations abstraction to atomically create event and attached object
\* reference": whatever calls overlap and fail, one that creates an event
\* leaves the event, its reference and their link or, of these, only what an
\* API call failed on.
THEOREM EventsAllOrNothing == Spec => []CreatesAllOrNothing
BY StacksInvariant, StacksAllOrNothing, PTL

\* A step of the call is one of its stack, or leaves the stack as it is.
LEMMA StepsStack ==
  ASSUME TypeOK, Stacks, NEW c \in Calls,
         \/ FindNone(c) \/ FindOne(c) \/ FindFails(c)
         \/ MakeNext(c) \/ MakeFails(c) \/ UnmakeNext(c) \/ UnmakeFails(c)
         \/ Count(c) \/ CountFails(c)
  PROVE  Stack(c)!Next \/ UNCHANGED Stack(c)!vars
<1> DEFINE made == {k \in 1..3 : CASE k = 1 -> event[c].st = "live"
                                   [] k = 2 -> ref[c] = "live"
                                   [] OTHER -> event[c].linked}
           at == CASE pc[c] = "ok" /\ next[c] = 4 -> "complete"
                   [] pc[c] = "error" /\ next[c] = 0 -> "undone"
                   [] pc[c] = "delete" -> "delete"
                   [] OTHER -> "create"
<1> USE DEF rowVars, stackVars, Goto
<1>0. /\ StackInv(c)
      /\ pc[c] = "create" => next[c] \in 1..3
      /\ pc[c] = "delete" => next[c] \in 1..2
      /\ pc \in [Calls -> {"idle", "create", "delete", "count", "ok", "error"}]
      /\ next \in [Calls -> 0..4] /\ failed \in [Calls -> SUBSET (1..3)]
      /\ event \in [Calls -> EventType] /\ ref \in [Calls -> RowStates]
  BY DEF Stacks, TypeOK, EventType
<1>1. CASE FindNone(c) \/ FindOne(c) \/ FindFails(c)
  <2>1. /\ at = "create" /\ at' = "create"
        /\ event' = event /\ ref' = ref /\ next' = next /\ failed' = failed
    BY <1>0, <1>1 DEF FindNone, FindOne, FindFails, Begin, StackInv
  <2>2. made' = made
    BY <2>1
  <2>3. QED
    BY <2>1, <2>2 DEF Stack!vars
<1>2. ASSUME Make(c)
      PROVE  pc[c] = "create" => made' = made \union {next[c]}
  <2>1. SUFFICES ASSUME pc[c] = "create", NEW k \in 1..3
                 PROVE  k \in made' <=> k \in made \/ k = next[c]
    BY <1>0
  <2>2. CASE next[c] = 1
    BY <1>0, <1>2, <2>1, <2>2 DEF Make, EventType, StackInv
  <2>3. CASE next[c] = 2
    BY <1>0, <1>2, <2>1, <2>3 DEF Make, EventType
  <2>4. CASE next[c] = 3
    BY <1>0, <1>2, <2>1, <2>4 DEF Make, EventType
  <2>5. QED
    BY <1>0, <2>1, <2>2, <2>3, <2>4
<1>3. ASSUME Unmake(c)
      PROVE  pc[c] = "delete" => made' = made \ {next[c]}
  <2>1. SUFFICES ASSUME pc[c] = "delete", NEW k \in 1..3
                 PROVE  k \in made' <=> k \in made /\ k # next[c]
    OBVIOUS
  <2>2. CASE next[c] = 1
    BY <1>0, <1>3, <2>2 DEF Unmake, EventType
  <2>3. CASE next[c] = 2
    BY <1>0, <1>3, <2>3 DEF Unmake, EventType
  <2>4. QED
    BY <1>0, <2>1, <2>2, <2>3
<1>4. CASE MakeNext(c)
  <2>1. made' = made \union {next[c]}
    BY <1>2, <1>4 DEF MakeNext
  <2>2. /\ at = "create" /\ at' = IF next[c] = 3 THEN "complete" ELSE "create"
        /\ next'[c] = next[c] + 1 /\ failed'[c] = failed[c]
    BY <1>0, <1>4 DEF MakeNext
  <2>3. QED
    BY <2>1, <2>2 DEF Stack!Next, Stack!CreateOne
<1>5. CASE MakeFails(c)
  <2>1. made' = made \/ made' = made \union {next[c]}
    BY <1>2, <1>5 DEF MakeFails
  <2>2. /\ at = "create" /\ at' = IF next[c] = 1 THEN "undone" ELSE "delete"
        /\ next'[c] = next[c] - 1 /\ failed'[c] = failed[c] \union {next[c]}
    BY <1>0, <1>5 DEF MakeFails
  <2>3. QED
    BY <2>1, <2>2 DEF Stack!Next, Stack!CreateFails
<1>6. CASE UnmakeNext(c)
  <2>1. made' = made \ {next[c]}
    BY <1>3, <1>6 DEF UnmakeNext
  <2>2. /\ at = "delete" /\ at' = IF next[c] = 1 THEN "undone" ELSE "delete"
        /\ next'[c] = next[c] - 1 /\ failed'[c] = failed[c]
    BY <1>0, <1>6 DEF UnmakeNext
  <2>3. QED
    BY <2>1, <2>2 DEF Stack!Next, Stack!DeleteOne
<1>7. CASE UnmakeFails(c)
  <2>1. made' = made \/ made' = made \ {next[c]}
    BY <1>3, <1>7 DEF UnmakeFails
  <2>2. /\ at = "delete" /\ at' = IF next[c] = 1 THEN "undone" ELSE "delete"
        /\ next'[c] = next[c] - 1 /\ failed'[c] = failed[c] \union {next[c]}
    BY <1>0, <1>7 DEF UnmakeFails
  <2>3. QED
    BY <2>1, <2>2 DEF Stack!Next, Stack!DeleteFails
<1>8. CASE Count(c) \/ CountFails(c)
  <2>1. /\ \/ event' = event
           \/ event' = [event EXCEPT ![seen[c].id].count = seen[c].count + 1]
        /\ at = "create" /\ at' = "create"
        /\ ref' = ref /\ next' = next /\ failed' = failed
    BY <1>0, <1>8 DEF Count, CountFails, StackInv
  <2>2. event'[c].st = event[c].st /\ event'[c].linked = event[c].linked
    BY <1>0, <2>1 DEF EventType
  <2>3. made' = made
    BY <2>1, <2>2
  <2>4. QED
    BY <2>1, <2>3 DEF Stack!vars
<1>9. QED
  BY <1>1, <1>4, <1>5, <1>6, <1>7, <1>8

LEMMA InitStack ==
  ASSUME Init, NEW c \in Calls
  PROVE  Stack(c)!Init
BY DEF Init, NoEvent, Stack!Init, Stack!StartsCreate

LEMMA StepImplementsStacks ==
  ASSUME TypeOK, Stacks, [Next]_vars
  PROVE  [\A c \in Calls : Stack(c)!Next \/ UNCHANGED Stack(c)!vars]_vars
<1>1. CASE UNCHANGED vars
  BY <1>1
<1>2. ASSUME NEW c \in Calls,
             \/ FindNone(c) \/ FindOne(c) \/ FindFails(c)
             \/ MakeNext(c) \/ MakeFails(c) \/ UnmakeNext(c) \/ UnmakeFails(c)
             \/ Count(c) \/ CountFails(c)
      PROVE  \A d \in Calls : Stack(d)!Next \/ UNCHANGED Stack(d)!vars
  <2>1. Stack(c)!Next \/ UNCHANGED Stack(c)!vars
    BY <1>2, StepsStack
  <2>2. ASSUME NEW d \in Calls, c # d
        PROVE  UNCHANGED Stack(d)!vars
    BY <1>2, <2>2, OthersUntouched DEF Stack!vars
  <2>3. QED
    BY <2>1, <2>2
<1>3. QED
  BY <1>1, <1>2 DEF Next

\* Every call that creates goes through the stack of operations in its order
\* and, after an error, back in the reverse (createEvent in RecordEvent).
THEOREM Refinement == Spec => ImplementsStacks
<1>1. Init => \A c \in Calls : Stack(c)!Init
  BY InitStack
<1>2. TypeOK /\ Stacks /\ [Next]_vars
        => [\A c \in Calls : Stack(c)!Next \/ UNCHANGED Stack(c)!vars]_vars
  BY StepImplementsStacks
<1>3. QED
  BY <1>1, <1>2, StacksInvariant, PTL DEF Spec, ImplementsStacks

(***************************************************************************)
(* Calls that do not overlap                                               *)
(***************************************************************************)

\* As long as calls have not overlapped one is under way at a time; when it
\* creates it has found nothing and, until its stack is complete, there is
\* nothing to be found.
OneInv ==
    ~overlapped =>
        /\ \A c, d \in Calls : Active(c) /\ Active(d) => c = d
        /\ \A c \in Calls : pc[c] = "create" => Visible = {}
        /\ \A c \in Calls : pc[c] = "delete" => Visible \subseteq {c}
        /\ OneEventUnlessOverlapped

LEMMA InitOne == Init => OneInv
BY DEF Init, OneInv, Active, Visible, OneEventUnlessOverlapped, NoEvent

\* What a step of a call makes visible is its own event.
LEMMA VisibleGrowsByOwn ==
  ASSUME TypeOK, Stacks, NEW c \in Calls,
         \/ FindNone(c) \/ FindOne(c) \/ FindFails(c)
         \/ MakeNext(c) \/ MakeFails(c) \/ UnmakeNext(c) \/ UnmakeFails(c)
         \/ Count(c) \/ CountFails(c)
  PROVE  /\ Visible' \subseteq Visible \union {c}
         /\ pc[c] # "create" => Visible' \subseteq Visible
         /\ pc'[c] = "create" /\ pc[c] = "create" => c \notin Visible'
<1>1. \A d \in Calls : d # c => (d \in Visible' <=> d \in Visible)
  BY OthersUntouched DEF Visible
<1>2. ASSUME pc[c] # "create", c \in Visible'
      PROVE  c \in Visible
  <2>1. CASE FindNone(c) \/ FindOne(c) \/ FindFails(c)
    BY <1>2, <2>1 DEF FindNone, FindOne, FindFails, rowVars, Visible
  <2>2. CASE UnmakeNext(c) \/ UnmakeFails(c)
    <3>1. Unmake(c) \/ UNCHANGED rowVars
      BY <2>2 DEF UnmakeNext, UnmakeFails
    <3>2. QED
      BY <1>2, <3>1 DEF Unmake, rowVars, Visible, TypeOK
  <2>3. CASE Count(c) \/ CountFails(c)
    <3>1. \/ event' = event
          \/ event' = [event EXCEPT ![seen[c].id].count = seen[c].count + 1]
      BY <2>3 DEF Count, CountFails
    <3>2. event'[c].st = event[c].st /\ event'[c].linked = event[c].linked
      BY <3>1 DEF TypeOK
    <3>3. QED
      BY <1>2, <3>2 DEF Visible
  <2>4. QED
    BY <1>2, <2>1, <2>2, <2>3 DEF MakeNext, MakeFails
<1>3. ASSUME pc[c] = "create", pc'[c] = "create"
      PROVE  c \notin Visible'
  <2>1. StackInv(c)'
    BY StepStackInv
  <2>2. QED
    BY <1>3, <2>1 DEF StackInv, Visible
<1>4. QED
  BY <1>1, <1>2, <1>3 DEF Visible

\* As long as calls have not overlapped, a step is the only active call's.
LEMMA StepAlone ==
  ASSUME TypeOK, OneInv, NEW c \in Calls, ~overlapped',
         \/ FindNone(c) \/ FindOne(c) \/ FindFails(c)
         \/ MakeNext(c) \/ MakeFails(c) \/ UnmakeNext(c) \/ UnmakeFails(c)
         \/ Count(c) \/ CountFails(c)
  PROVE  ~overlapped /\ \A d \in Calls : d # c => pc'[d] = pc[d] /\ ~Active(d)
<1> USE DEF Active
<1>1. ~overlapped
  BY DEF FindNone, FindOne, FindFails, Begin, MakeNext, MakeFails, UnmakeNext, UnmakeFails,
     Count, CountFails
<1>2. \A d \in Calls : d # c => pc'[d] = pc[d]
  BY OthersUntouched
<1>3. CASE FindNone(c) \/ FindOne(c) \/ FindFails(c)
  <2>1. overlapped' = (overlapped \/ \E d \in Calls : Active(d))
    BY <1>3 DEF FindNone, FindOne, FindFails, Begin
  <2>2. \A d \in Calls : ~Active(d)
    BY <2>1
  <2>3. QED
    BY <1>1, <1>2, <2>2
<1>4. CASE \/ MakeNext(c) \/ MakeFails(c) \/ UnmakeNext(c) \/ UnmakeFails(c)
           \/ Count(c) \/ CountFails(c)
  <2>1. Active(c)
    BY <1>4 DEF MakeNext, MakeFails, UnmakeNext, UnmakeFails, Count, CountFails
  <2>2. QED
    BY <1>1, <1>2, <2>1 DEF OneInv
<1>5. QED
  BY <1>3, <1>4

LEMMA StepOne ==
  ASSUME TypeOK, Stacks, OneInv, [Next]_vars
  PROVE  OneInv'
<1> USE DEF Active
<1>1. CASE UNCHANGED vars
  BY <1>1 DEF vars, OneInv, OneEventUnlessOverlapped, Visible
<1>2. ASSUME NEW c \in Calls, ~overlapped',
             \/ FindNone(c) \/ FindOne(c) \/ FindFails(c)
             \/ MakeNext(c) \/ MakeFails(c) \/ UnmakeNext(c) \/ UnmakeFails(c)
             \/ Count(c) \/ CountFails(c)
      PROVE  OneInv'
  <2>1. /\ ~overlapped
        /\ \A a, b \in Calls : Active(a) /\ Active(b) => a = b
        /\ \A d \in Calls : pc[d] = "create" => Visible = {}
        /\ \A d \in Calls : pc[d] = "delete" => Visible \subseteq {d}
        /\ \A d, e \in Visible : d = e
    <3>1. ~overlapped
      BY <1>2, StepAlone
    <3>2. QED
      BY <3>1 DEF OneInv, OneEventUnlessOverlapped
  <2>2. \A d \in Calls : d # c => pc'[d] = pc[d] /\ ~Active(d)
    BY <1>2, StepAlone
  <2>3. \A a, b \in Calls : Active(a)' /\ Active(b)' => a = b
    BY <2>2
  <2>4. pc'[c] = "create" => Visible' = {}
    <3>1. CASE pc[c] = "create"
      <4>1. Visible' \subseteq {c} /\ (pc'[c] = "create" => c \notin Visible')
        BY <1>2, <2>1, <3>1, VisibleGrowsByOwn
      <4>2. QED
        BY <4>1
    <3>2. CASE pc[c] # "create"
      <4>1. pc \in [Calls -> {"idle", "create", "delete", "count", "ok", "error"}]
        BY DEF TypeOK
      <4>2. CASE FindNone(c)
        <5>1. Visible = {} /\ Visible' \subseteq Visible
          BY <3>2, <4>2, VisibleGrowsByOwn DEF FindNone
        <5>2. QED
          BY <5>1
      <4>3. CASE FindOne(c) \/ FindFails(c) \/ Count(c) \/ CountFails(c)
        BY <4>1, <4>3 DEF FindOne, FindFails, Count, CountFails, Goto
      <4>4. CASE UnmakeNext(c) \/ UnmakeFails(c)
        BY <4>1, <4>4 DEF UnmakeNext, UnmakeFails, Goto
      <4>5. QED
        BY <1>2, <3>2, <4>2, <4>3, <4>4 DEF MakeNext, MakeFails
    <3>3. QED
      BY <3>1, <3>2
  <2>5. pc'[c] = "delete" => Visible' \subseteq {c}
    <3>1. pc'[c] = "delete" => pc[c] \in {"create", "delete"}
      BY <1>2 DEF FindNone, FindOne, FindFails, MakeNext, MakeFails,
         UnmakeNext, UnmakeFails, Count, CountFails, Goto, TypeOK
    <3>2. QED
      BY <1>2, <2>1, <3>1, VisibleGrowsByOwn
  <2>6. \A d, e \in Visible' : d = e
    <3>1. CASE pc[c] = "create"
      BY <1>2, <2>1, <3>1, VisibleGrowsByOwn
    <3>2. CASE pc[c] # "create"
      BY <1>2, <2>1, <3>2, VisibleGrowsByOwn
    <3>3. QED
      BY <3>1, <3>2
  <2>7. QED
    BY <2>2, <2>3, <2>4, <2>5, <2>6 DEF OneInv, OneEventUnlessOverlapped
<1>3. CASE overlapped'
  BY <1>3 DEF OneInv
<1>4. QED
  BY <1>1, <1>2, <1>3 DEF Next

\* For any number of calls and of failures, served or not: as long as calls
\* do not overlap, all of them share one event (RecordEvent).
THEOREM OneEvent == Spec => []OneEventUnlessOverlapped
<1>1. Init => OneInv
  BY InitOne
<1>2. TypeOK /\ Stacks /\ OneInv /\ [Next]_vars => OneInv'
  BY StepOne
<1>3. OneInv => OneEventUnlessOverlapped
  BY DEF OneInv, OneEventUnlessOverlapped
<1>4. QED
  BY <1>1, <1>2, <1>3, StacksInvariant, PTL DEF Spec
(***************************************************************************)
(* The counts                                                              *)
(***************************************************************************)

\* Every level a count has reached beyond the first was left behind by a call
\* that read the level below.
Witnessed(e, n) ==
    \A k \in 2..n : \E d \in Calls : seen[d] = [id |-> e, count |-> k - 1]

\* A call that creates has found nothing, so no call is a witness and the
\* creator of an event; and a stale count is as well witnessed as the row's.
CountInv ==
    /\ \A c \in Calls :
          /\ pc[c] \in {"idle", "create", "delete"} => seen[c].id = None
          /\ pc[c] = "delete" => event[c].st # "none"
    /\ \A c \in Calls :
          event[c].st # "none" =>
             /\ pc[c] # "idle" /\ seen[c].id = None
             /\ event[c].count >= 1 /\ Witnessed(c, event[c].count)
    /\ \A c \in Calls :
          seen[c].id # None =>
             /\ event[seen[c].id].st # "none"
             /\ seen[c].count >= 1 /\ Witnessed(seen[c].id, seen[c].count)

\* While calls do not overlap every success is counted in the one event there
\* is; when a call creates, or cleans up, there is no success to lose.
SuccessInv ==
    ~overlapped =>
        /\ Successes = {} \/ \E e \in Visible : Cardinality(Successes) <= event[e].count
        /\ \A c \in Calls : pc[c] \in {"create", "delete"} => Successes = {}
        /\ \A c \in Calls : pc[c] = "count" =>
              seen[c].id \in Visible /\ seen[c].count = event[seen[c].id].count

\* Adding one occurrence: the call that read the count witnesses the new level.
LEMMA OneMoreWitnessed ==
  ASSUME NEW e \in Calls, NEW n \in Nat, Witnessed(e, n),
         NEW d \in Calls, seen[d] = [id |-> e, count |-> n]
  PROVE  Witnessed(e, n + 1)
<1> SUFFICES ASSUME NEW k \in 2..(n + 1)
             PROVE  \E b \in Calls : seen[b] = [id |-> e, count |-> k - 1]
  BY DEF Witnessed
<1>1. CASE k = n + 1
  BY <1>1
<1>2. CASE k # n + 1
  BY <1>2 DEF Witnessed
<1>3. QED
  BY <1>1, <1>2

LEMMA InitCount == Init => CountInv /\ SuccessInv /\ IsFiniteSet(Begun)
<1> SUFFICES ASSUME Init PROVE CountInv /\ SuccessInv /\ IsFiniteSet(Begun)
  OBVIOUS
<1>1. Begun = {} /\ Successes = {}
  BY DEF Init, Begun, Successes
<1>2. CountInv /\ SuccessInv
  BY <1>1 DEF Init, CountInv, SuccessInv, NothingSeen, NoEvent
<1>3. QED
  BY <1>1, <1>2, FS_EmptySet

\* What a step of a call does to the counts: it creates its own event with one
\* occurrence, or writes what it read plus one.
LEMMA CountsWritten ==
  ASSUME TypeOK, Stacks, CountInv, NEW c \in Calls,
         \/ FindNone(c) \/ FindOne(c) \/ FindFails(c)
         \/ MakeNext(c) \/ MakeFails(c) \/ UnmakeNext(c) \/ UnmakeFails(c)
         \/ Count(c) \/ CountFails(c),
         NEW e \in Calls
  PROVE  /\ event[e].st # "none" => event'[e].st # "none"
         /\ \/ /\ event'[e].st # "none" => event[e].st # "none"
               /\ event'[e].count = event[e].count
            \/ e = c /\ pc[c] = "create" /\ event'[e].count = 1
            \/ /\ pc[c] = "count" /\ e = seen[c].id /\ event[e].st = "live"
               /\ event'[e].st = "live" /\ event'[e].count = seen[c].count + 1
<1> USE DEF rowVars, EventType
<1>0. event \in [Calls -> EventType]
  BY DEF TypeOK
<1>1. CASE FindNone(c) \/ FindOne(c) \/ FindFails(c)
  BY <1>1 DEF FindNone, FindOne, FindFails
<1>2. CASE MakeNext(c) \/ MakeFails(c)
  <2>1. pc[c] = "create" /\ StackInv(c) /\ next[c] \in 1..3 /\ (Make(c) \/ UNCHANGED rowVars)
    BY <1>2 DEF MakeNext, MakeFails, Stacks, TypeOK
  <2>2. CASE next[c] = 1
    BY <1>0, <2>1, <2>2 DEF Make
  <2>3. CASE next[c] = 2
    BY <1>0, <2>1, <2>3 DEF Make
  <2>4. CASE next[c] = 3
    BY <1>0, <2>1, <2>4 DEF Make
  <2>5. QED
    BY <2>1, <2>2, <2>3, <2>4
<1>3. CASE UnmakeNext(c) \/ UnmakeFails(c)
  <2>1. pc[c] = "delete" /\ event[c].st # "none" /\ (Unmake(c) \/ UNCHANGED rowVars)
    BY <1>3 DEF UnmakeNext, UnmakeFails, CountInv
  <2>2. event'[e].count = event[e].count
    BY <1>0, <2>1 DEF Unmake
  <2>3. event'[e].st # "none" <=> event[e].st # "none"
    BY <1>0, <2>1 DEF Unmake
  <2>4. QED
    BY <2>2, <2>3
<1>4. CASE Count(c) \/ CountFails(c)
  <2>1. /\ pc[c] = "count" /\ seen[c].id \in Calls
        /\ \/ event' = event
           \/ /\ event[seen[c].id].st = "live"
              /\ event' = [event EXCEPT ![seen[c].id].count = seen[c].count + 1]
    BY <1>4 DEF Count, CountFails, TypeOK
  <2>2. QED
    BY <1>0, <2>1
<1>5. QED
  BY <1>1, <1>2, <1>3, <1>4

\* What a call has read stays, and is read but once.
LEMMA SeenStays ==
  ASSUME TypeOK, CountInv, NEW c \in Calls,
         \/ FindNone(c) \/ FindOne(c) \/ FindFails(c)
         \/ MakeNext(c) \/ MakeFails(c) \/ UnmakeNext(c) \/ UnmakeFails(c)
         \/ Count(c) \/ CountFails(c)
  PROVE  /\ \A d \in Calls : seen[d].id # None => seen'[d] = seen[d]
         /\ \/ seen' = seen
            \/ /\ pc[c] = "idle" /\ pc'[c] = "count"
               /\ \E e \in Visible : seen' = [seen EXCEPT ![c] =
                                                [id |-> e, count |-> event[e].count]]
<1>1. CASE FindOne(c)
  <2>1. PICK e \in Visible : seen' = [seen EXCEPT ![c] = [id |-> e, count |-> event[e].count]]
    BY <1>1 DEF FindOne
  <2>2. pc[c] = "idle" /\ pc'[c] = "count" /\ seen[c].id = None
    BY <1>1 DEF FindOne, Begin, Goto, CountInv, TypeOK
  <2>3. QED
    BY <2>1, <2>2 DEF TypeOK
<1>2. CASE ~FindOne(c)
  BY <1>2 DEF FindNone, FindFails, MakeNext, MakeFails, UnmakeNext, UnmakeFails, Count,
     CountFails
<1>3. QED
  BY <1>1, <1>2

LEMMA StepCount ==
  ASSUME TypeOK, Stacks, CountInv, NEW c \in Calls,
         \/ FindNone(c) \/ FindOne(c) \/ FindFails(c)
         \/ MakeNext(c) \/ MakeFails(c) \/ UnmakeNext(c) \/ UnmakeFails(c)
         \/ Count(c) \/ CountFails(c)
  PROVE  CountInv'
<1>0. /\ event \in [Calls -> EventType] /\ seen \in [Calls -> SeenType]
      /\ pc \in [Calls -> {"idle", "create", "delete", "count", "ok", "error"}]
  BY DEF TypeOK, EventType, SeenType
<1>1. \A e \in Calls, n \in Nat : Witnessed(e, n) => Witnessed(e, n)'
  <2>1. \A d, e \in Calls : \A n \in Nat :
           seen[d] = [id |-> e, count |-> n] => seen'[d] = [id |-> e, count |-> n]
    BY SeenStays, NoneAssumption
  <2>2. QED
    BY <2>1 DEF Witnessed
\* Where the calls are.
<1>2. /\ pc'[c] # "idle"
      /\ pc'[c] \in {"create", "delete"} => pc[c] \in {"idle", "create", "delete"}
      /\ \A d \in Calls : d # c => pc'[d] = pc[d]
  BY <1>0 DEF FindNone, FindOne, FindFails, Begin, MakeNext, MakeFails, UnmakeNext,
     UnmakeFails, Count, CountFails, Goto
<1>3. \A d \in Calls : pc'[d] \in {"idle", "create", "delete"} => seen'[d].id = None
  <2>1. pc'[c] \in {"idle", "create", "delete"} => seen'[c].id = None
    BY <1>2, SeenStays DEF CountInv
  <2>2. \A d \in Calls : d # c => seen'[d] = seen[d]
    BY <1>0, SeenStays
  <2>3. QED
    BY <1>2, <2>1, <2>2 DEF CountInv
\* The rows.
<1>4. ASSUME NEW e \in Calls, event'[e].st # "none"
      PROVE  /\ pc'[e] # "idle" /\ seen'[e].id = None
             /\ event'[e].count >= 1 /\ Witnessed(e, event[e].count)'
  <2>1. pc'[e] # "idle" /\ seen'[e].id = None
    <3>1. event[e].st # "none" \/ (e = c /\ pc[c] = "create")
      BY <1>4, CountsWritten
    <3>2. pc[e] # "idle" /\ seen[e].id = None
      BY <3>1 DEF CountInv
    <3>3. QED
      BY <1>0, <1>2, <3>2, SeenStays
  <2>2. CASE event[e].st # "none" /\ event'[e].count = event[e].count
    <3>1. event[e].count \in Nat /\ event[e].count >= 1 /\ Witnessed(e, event[e].count)
      BY <1>0, <2>2 DEF CountInv, EventType
    <3>2. QED
      BY <1>1, <2>1, <2>2, <3>1
  <2>3. CASE event'[e].count = 1
    <3>1. Witnessed(e, event[e].count)'
      BY <2>3 DEF Witnessed
    <3>2. QED
      BY <2>1, <2>3, <3>1
  <2>4. CASE pc[c] = "count" /\ e = seen[c].id /\ event'[e].count = seen[c].count + 1
    <3>1. PICK n \in Nat : n = seen[c].count /\ seen[c] = [id |-> e, count |-> n]
      BY <1>0, <2>4 DEF SeenType
    <3>2. n >= 1 /\ Witnessed(e, n)
      BY <2>4, <3>1, NoneAssumption DEF CountInv
    <3>3. Witnessed(e, n + 1)
      BY <3>1, <3>2, OneMoreWitnessed
    <3>4. Witnessed(e, n + 1)'
      BY <1>1, <3>3
    <3>5. QED
      BY <2>1, <2>4, <3>1, <3>2, <3>4
  <2>5. QED
    BY <1>4, <2>2, <2>3, <2>4, CountsWritten
\* What the calls have read.
<1>5. ASSUME NEW d \in Calls, seen'[d].id # None
      PROVE  /\ event'[seen'[d].id].st # "none"
             /\ seen'[d].count >= 1 /\ Witnessed(seen[d].id, seen[d].count)'
  <2>1. PICK e \in Calls, n \in Nat :
           /\ seen'[d] = [id |-> e, count |-> n]
           /\ event[e].st # "none" /\ n >= 1 /\ Witnessed(e, n)
    <3>1. CASE seen[d].id # None
      <4>1. seen'[d] = seen[d]
        BY <3>1, SeenStays
      <4>2. QED
        BY <1>0, <3>1, <4>1 DEF CountInv, SeenType
    <3>2. CASE seen[d].id = None
      <4>1. PICK e \in Visible : seen' = [seen EXCEPT ![c] = [id |-> e, count |-> event[e].count]]
        BY <1>5, <3>2, SeenStays
      <4>2. d = c /\ seen'[d] = [id |-> e, count |-> event[e].count]
        BY <1>0, <1>5, <3>2, <4>1
      <4>3. e \in Calls /\ event[e].st # "none" /\ event[e].count \in Nat
        BY <1>0 DEF Visible, EventType
      <4>4. event[e].count >= 1 /\ Witnessed(e, event[e].count)
        BY <4>3 DEF CountInv
      <4>5. QED
        BY <4>2, <4>3, <4>4
    <3>3. QED
      BY <3>1, <3>2
  <2>2. event'[e].st # "none"
    BY <2>1, CountsWritten
  <2>3. QED
    BY <1>1, <2>1, <2>2
<1>6. ASSUME NEW d \in Calls, pc'[d] = "delete" PROVE event'[d].st # "none"
  <2>1. CASE pc[d] = "delete"
    BY <2>1, CountsWritten DEF CountInv
  <2>2. CASE d = c /\ MakeFails(c)
    <3>1. next[c] \in 2..3 /\ event[c].st = "live"
      BY <1>0, <1>6, <2>2 DEF MakeFails, Goto, Stacks, StackInv, TypeOK
    <3>2. QED
      BY <2>2, <3>1, CountsWritten
  <2>3. QED
    BY <1>0, <1>2, <1>6, <2>1, <2>2 DEF FindNone, FindOne, FindFails, MakeNext, UnmakeNext,
       UnmakeFails, Count, CountFails, Goto
<1>7. QED
  BY <1>3, <1>4, <1>5, <1>6 DEF CountInv

LEMMA BegunFinite ==
  ASSUME TypeOK, IsFiniteSet(Begun), NEW c \in Calls,
         \/ FindNone(c) \/ FindOne(c) \/ FindFails(c)
         \/ MakeNext(c) \/ MakeFails(c) \/ UnmakeNext(c) \/ UnmakeFails(c)
         \/ Count(c) \/ CountFails(c)
  PROVE  IsFiniteSet(Begun')
<1>1. Begun' \subseteq Begun \union {c}
  BY OthersUntouched DEF Begun
<1>2. IsFiniteSet(Begun \union {c})
  BY FS_AddElement
<1>3. QED
  BY <1>1, <1>2, FS_Subset

LEMMA StepSuccess ==
  ASSUME TypeOK, Stacks, OneInv, CountInv, SuccessInv, IsFiniteSet(Begun), ~overlapped',
         NEW c \in Calls,
         \/ FindNone(c) \/ FindOne(c) \/ FindFails(c)
         \/ MakeNext(c) \/ MakeFails(c) \/ UnmakeNext(c) \/ UnmakeFails(c)
         \/ Count(c) \/ CountFails(c)
  PROVE  SuccessInv'
<1> USE DEF Goto, rowVars
<1>0. /\ event \in [Calls -> EventType] /\ seen \in [Calls -> SeenType]
      /\ pc \in [Calls -> {"idle", "create", "delete", "count", "ok", "error"}]
  BY DEF TypeOK, EventType, SeenType
<1>1. ~overlapped /\ \A d \in Calls : d # c => pc'[d] = pc[d] /\ ~Active(d)
  BY StepAlone
<1>2. Successes \subseteq Begun /\ IsFiniteSet(Successes)
  <2>1. Successes \subseteq Begun
    BY DEF Successes, Begun
  <2>2. QED
    BY <2>1, FS_Subset
<1>3. /\ Successes = {} \/ \E e \in Visible : Cardinality(Successes) <= event[e].count
      /\ pc[c] \in {"create", "delete"} => Successes = {}
      /\ pc[c] = "count" => seen[c].id \in Visible /\ seen[c].count = event[seen[c].id].count
      /\ \A d, e \in Visible : d = e
  BY <1>1 DEF SuccessInv, OneInv, OneEventUnlessOverlapped
<1>4. \A d \in Calls : d # c => pc'[d] \notin {"create", "delete", "count"}
  BY <1>1 DEF Active
<1>5. CASE FindNone(c) \/ FindOne(c) \/ FindFails(c)
  <2>1. event' = event /\ pc[c] = "idle" /\ pc'[c] \in {"create", "count", "error"}
    BY <1>0, <1>5 DEF FindNone, FindOne, FindFails, Begin
  <2>2. Successes' = Successes /\ Visible' = Visible
    BY <1>1, <2>1 DEF Successes, Visible
  <2>3. pc'[c] \in {"create", "delete"} => Successes = {}
    BY <1>0, <1>3, <1>5 DEF FindNone, FindOne, FindFails
  <2>4. pc'[c] = "count" =>
           seen'[c].id \in Visible /\ seen'[c].count = event[seen'[c].id].count
    <3>1. CASE FindOne(c)
      <4>1. PICK e \in Visible : seen' = [seen EXCEPT ![c] = [id |-> e, count |-> event[e].count]]
        BY <3>1 DEF FindOne
      <4>2. seen'[c] = [id |-> e, count |-> event[e].count]
        BY <1>0, <4>1
      <4>3. QED
        BY <4>2
    <3>2. CASE ~FindOne(c)
      BY <1>0, <1>5, <3>2 DEF FindNone, FindFails
    <3>3. QED
      BY <3>1, <3>2
  <2>5. QED
    BY <1>3, <1>4, <2>1, <2>2, <2>3, <2>4 DEF SuccessInv
<1>6. CASE \/ MakeFails(c) \/ UnmakeNext(c) \/ UnmakeFails(c)
           \/ (MakeNext(c) /\ next[c] # 3)
  <2>1. pc[c] \in {"create", "delete"} /\ pc'[c] \in {"create", "delete", "error"}
    BY <1>0, <1>6 DEF MakeNext, MakeFails, UnmakeNext, UnmakeFails
  <2>2. Successes' = {}
    BY <1>1, <1>3, <2>1 DEF Successes
  <2>3. QED
    BY <1>4, <2>1, <2>2 DEF SuccessInv
<1>7. CASE MakeNext(c) /\ next[c] = 3
  <2>1. pc[c] = "create" /\ pc'[c] = "ok" /\ next'[c] = 4
    BY <1>0, <1>7 DEF MakeNext, TypeOK
  <2>2. Successes' = {c}
    BY <1>1, <1>3, <2>1 DEF Successes
  <2>3. c \in Visible'
    BY <2>1, StepStackInv DEF StackInv, Visible
  <2>4. event'[c].count >= 1
    BY <2>3, StepCount DEF CountInv, Visible
  <2>5. Cardinality(Successes') <= event'[c].count
    BY <2>2, <2>4, FS_Singleton
  <2>6. QED
    BY <1>4, <2>1, <2>3, <2>5 DEF SuccessInv
<1>8. CASE Count(c) \/ CountFails(c)
  <2>1. PICK e \in Visible : e = seen[c].id /\ seen[c].count = event[e].count
    BY <1>3, <1>8 DEF Count, CountFails
  <2>2. e \in Calls /\ event[e].count \in Nat /\ \A d \in Visible : d = e
    BY <1>0, <1>3, <2>1 DEF Visible, EventType
  <2>3. Cardinality(Successes) <= event[e].count
    BY <1>3, <2>2, FS_EmptySet
  <2>4. /\ event'[e].st = event[e].st /\ event'[e].linked = event[e].linked
        /\ event'[e].count = event[e].count + 1 \/ (CountFails(c) /\ event' = event)
    BY <1>0, <1>8, <2>1, <2>2 DEF Count, CountFails, EventType
  <2>5. e \in Visible'
    BY <2>1, <2>4 DEF Visible
  <2>6. pc'[c] \in {"ok", "error"} /\ (CountFails(c) => pc'[c] = "error")
    BY <1>0, <1>8 DEF Count, CountFails
  <2>7. Successes' \subseteq Successes \union {c} /\ (CountFails(c) => Successes' \subseteq Successes)
    BY <1>1, <2>6 DEF Successes
  <2>8. Cardinality(Successes') <= event'[e].count
    <3>1. /\ IsFiniteSet(Successes \union {c})
          /\ Cardinality(Successes \union {c}) <= Cardinality(Successes) + 1
          /\ Cardinality(Successes) \in Nat
      <4>1. Cardinality(Successes) \in Nat
        BY <1>2, FS_CardinalityType
      <4>2. /\ IsFiniteSet(Successes \union {c})
            /\ \/ Cardinality(Successes \union {c}) = Cardinality(Successes)
               \/ Cardinality(Successes \union {c}) = Cardinality(Successes) + 1
        BY <1>2, FS_AddElement
      <4>3. QED
        BY <4>1, <4>2
    <3>2. CASE event'[e].count = event[e].count + 1
      <4>1. /\ Cardinality(Successes') <= Cardinality(Successes \union {c})
            /\ Cardinality(Successes') \in Nat /\ Cardinality(Successes \union {c}) \in Nat
        BY <2>7, <3>1, FS_Subset, FS_CardinalityType
      <4>2. QED
        BY <2>2, <2>3, <3>1, <3>2, <4>1
    <3>3. CASE CountFails(c) /\ event' = event
      <4>1. /\ Cardinality(Successes') <= Cardinality(Successes)
            /\ Cardinality(Successes') \in Nat
        BY <1>2, <2>7, <3>3, FS_Subset, FS_CardinalityType
      <4>2. QED
        BY <2>2, <2>3, <3>1, <3>3, <4>1
    <3>4. QED
      BY <2>4, <3>2, <3>3
  <2>9. QED
    BY <1>4, <2>5, <2>6, <2>8 DEF SuccessInv
<1>9. QED
  BY <1>5, <1>6, <1>7, <1>8

\* No occurrence is counted twice: the creator of an event is its first, and
\* the calls that read the levels below are the others.
LEMMA NoneTwice ==
  ASSUME TypeOK, CountInv, IsFiniteSet(Begun)
  PROVE  IsFiniteSet(Counted) /\ Cardinality(Counted) <= Cardinality(Begun)
<1> DEFINE Who(e, k) == IF k = 1 THEN e
                        ELSE CHOOSE d \in Calls : seen[d] = [id |-> e, count |-> k - 1]
           f == [p \in Counted |-> Who(p[1], p[2])]
<1>1. ASSUME NEW p \in Counted
      PROVE  \E e \in Calls, k \in Nat :
                /\ p = <<e, k>>
                /\ f[p] \in Begun
                /\ k = 1 => f[p] = e /\ seen[e].id = None
                /\ k # 1 => k >= 2 /\ seen[f[p]] = [id |-> e, count |-> k - 1]
  <2>1. PICK e \in Visible : p \in {e} \X (1..event[e].count)
    BY DEF Counted
  <2>2. /\ e \in Calls /\ event[e].st # "none" /\ event[e].count \in Nat
    BY DEF Visible, TypeOK
  <2>3. PICK k \in 1..event[e].count : p = <<e, k>>
    BY <2>1
  <2>4. k \in Nat /\ f[p] = Who(e, k)
    <3>1. p[1] = e /\ p[2] = k
      BY <2>3
    <3>2. f[p] = Who(p[1], p[2])
      OBVIOUS
    <3>3. QED
      BY <2>2, <3>1, <3>2
  <2>5. CASE k = 1
    BY <2>2, <2>3, <2>4, <2>5 DEF CountInv, Begun
  <2>6. CASE k # 1
    <3>1. k \in 2..event[e].count
      BY <2>2, <2>3, <2>6
    <3>2. \E d \in Calls : seen[d] = [id |-> e, count |-> k - 1]
      BY <2>2, <3>1 DEF CountInv, Witnessed
    <3>3. f[p] \in Calls /\ seen[f[p]] = [id |-> e, count |-> k - 1]
      <4> DEFINE d == CHOOSE d \in Calls : seen[d] = [id |-> e, count |-> k - 1]
      <4>1. d \in Calls /\ seen[d] = [id |-> e, count |-> k - 1]
        BY <3>2
      <4>2. f[p] = d
        BY <2>4, <2>6
      <4>3. QED
        BY <4>1, <4>2
    <3>4. f[p] \in Begun
      BY <2>2, <3>3, NoneAssumption DEF CountInv, Begun
    <3>5. k >= 2
      BY <2>2, <3>1
    <3> HIDE DEF f
    <3>6. QED
      BY <2>2, <2>3, <2>4, <2>6, <3>3, <3>4, <3>5
  <2>7. QED
    BY <2>5, <2>6
<1> HIDE DEF f
<1>2. f \in [Counted -> Begun]
  BY <1>1 DEF f
<1>3. ASSUME NEW p \in Counted, NEW q \in Counted, f[p] = f[q]
      PROVE  p = q
  <2>1. PICK e \in Calls, k \in Nat :
           /\ p = <<e, k>>
           /\ k = 1 => f[p] = e /\ seen[e].id = None
           /\ k # 1 => k >= 2 /\ seen[f[p]] = [id |-> e, count |-> k - 1]
    BY <1>1
  <2>2. PICK d \in Calls, j \in Nat :
           /\ q = <<d, j>>
           /\ j = 1 => f[q] = d /\ seen[d].id = None
           /\ j # 1 => j >= 2 /\ seen[f[q]] = [id |-> d, count |-> j - 1]
    BY <1>1
  <2>3. CASE k = 1 /\ j = 1
    BY <1>3, <2>1, <2>2, <2>3
  <2>4. CASE k # 1 /\ j # 1
    <3>1. e = d /\ k - 1 = j - 1
      BY <1>3, <2>1, <2>2, <2>4
    <3>2. QED
      BY <2>1, <2>2, <3>1
  <2>5. CASE (k = 1) # (j = 1)
    BY <1>3, <2>1, <2>2, <2>5, NoneAssumption
  <2>6. QED
    BY <2>3, <2>4, <2>5
<1>4. f \in Injection(Counted, Begun)
  BY <1>2, <1>3, Fun_IsInj
<1>5. QED
  BY <1>4, FS_Injection

\* The one event's count bounds what is counted from below.
LEMMA AllCounted ==
  ASSUME TypeOK, SuccessInv, ~overlapped, IsFiniteSet(Begun), IsFiniteSet(Counted)
  PROVE  Cardinality(Successes) <= Cardinality(Counted)
<1>1. Cardinality(Successes) \in Nat /\ Cardinality(Counted) \in Nat
  <2>1. Successes \subseteq Begun
    BY DEF Successes, Begun
  <2>2. IsFiniteSet(Successes)
    BY <2>1, FS_Subset
  <2>3. QED
    BY <2>2, FS_CardinalityType
<1>2. CASE Successes = {}
  BY <1>1, <1>2, FS_EmptySet
<1>3. CASE Successes # {}
  <2>1. PICK e \in Visible : Cardinality(Successes) <= event[e].count
    BY <1>3 DEF SuccessInv
  <2>2. PICK n \in Nat : n = event[e].count /\ \A k \in 1..n : <<e, k>> \in Counted
    BY <2>1 DEF Visible, TypeOK, Counted
  <2> DEFINE f == [k \in 1..n |-> <<e, k>>]
  <2>3. f \in [1..n -> Counted] /\ \A j, k \in 1..n : f[j] = f[k] => j = k
    BY <2>2
  <2> HIDE DEF f
  <2>4. f \in Injection(1..n, Counted)
    BY <2>3, Fun_IsInj
  <2>5. Cardinality(1..n) <= Cardinality(Counted)
    BY <2>4, FS_Injection
  <2>6. Cardinality(1..n) = n
    BY FS_Interval
  <2>7. QED
    BY <1>1, <2>1, <2>2, <2>5, <2>6
<1>4. QED
  BY <1>2, <1>3

LEMMA StepCounts ==
  ASSUME TypeOK, Stacks, OneInv, CountInv, SuccessInv, IsFiniteSet(Begun), [Next]_vars
  PROVE  CountInv' /\ SuccessInv' /\ IsFiniteSet(Begun')
<1>1. CASE UNCHANGED vars
  BY <1>1 DEF vars, CountInv, Witnessed, SuccessInv, Successes, Visible, Begun
<1>2. CASE ~UNCHANGED vars
  <2>1. PICK c \in Calls :
           \/ FindNone(c) \/ FindOne(c) \/ FindFails(c)
           \/ MakeNext(c) \/ MakeFails(c) \/ UnmakeNext(c) \/ UnmakeFails(c)
           \/ Count(c) \/ CountFails(c)
    BY <1>2 DEF Next
  <2>2. overlapped' => SuccessInv'
    BY DEF SuccessInv
  <2>3. QED
    BY <2>1, <2>2, StepCount, StepSuccess, BegunFinite
<1>3. QED
  BY <1>1, <1>2

\* "the number of times this event has occurred": whichever calls overlap and
\* fail, what is counted is at most the calls there were; and as long as they
\* do not overlap, no call that returned without error is missing.
THEOREM CountsHold == Spec => []CountsOccurrences
<1> DEFINE Counts == CountInv /\ SuccessInv /\ IsFiniteSet(Begun)
<1>1. TypeOK /\ Counts => CountsOccurrences
  BY NoneTwice, AllCounted DEF CountsOccurrences
<1>2. Init => OneInv /\ Counts
  BY InitOne, InitCount
<1>3. TypeOK /\ Stacks /\ OneInv /\ Counts /\ [Next]_vars => OneInv' /\ Counts'
  BY StepOne, StepCounts
<1> HIDE DEF Counts
<1>4. QED
  BY <1>1, <1>2, <1>3, StacksInvariant, PTL DEF Spec

===============================================================================
