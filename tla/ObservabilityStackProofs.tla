----------------------- MODULE ObservabilityStackProofs -----------------------
(***************************************************************************)
(* Theorems about ObservabilityStack, for any number of children and of    *)
(* disruptions of every kind; and about the stack of operations itself.    *)
(***************************************************************************)
EXTENDS ObservabilityStack, TLAPS, WellFoundedInduction

(***************************************************************************)
(* The least and the greatest of a set of children                         *)
(***************************************************************************)

LtNat == {p \in Nat \X Nat : p[1] < p[2]}

LEMMA HasLeast ==
  ASSUME NEW S, S \subseteq Nat, S # {}
  PROVE  \E k \in S : \A l \in S : k <= l
<1>1. IsWellFoundedOn(LtNat, Nat)
  <2>1. LtNat = OpToRel(<, Nat)
    BY DEF LtNat, OpToRel
  <2>2. QED
    BY <2>1, NatLessThanWellFounded
<1>2. PICK x \in S : \A y \in S : ~ (<<y, x>> \in LtNat)
  BY <1>1, WFMin
<1>3. ASSUME NEW y \in S PROVE x <= y
  <2>1. ~(<<y, x>> \in LtNat) /\ <<y, x>> \in Nat \X Nat
    BY <1>2
  <2>2. ~(y < x)
    BY <2>1 DEF LtNat
  <2>3. QED
    BY <2>2
<1>4. QED
  BY <1>3

LEMMA LeastOf ==
  ASSUME NEW S \in SUBSET Children, S # {}
  PROVE  Least(S) \in S /\ \A l \in S : Least(S) <= l
<1>1. S \subseteq Nat
  BY NAssumption DEF Children
<1>2. \E k \in S : \A l \in S : k <= l
  BY <1>1, HasLeast
<1>3. QED
  BY <1>2 DEF Least

LEMMA GreatestOf ==
  ASSUME NEW S \in SUBSET Children, S # {}
  PROVE  Greatest(S) \in S /\ \A l \in S : l <= Greatest(S)
<1> DEFINE T == {N - k : k \in S}
<1>0. N \in Nat /\ S \subseteq 1..N
  BY NAssumption DEF Children
<1>1. T \subseteq Nat /\ T # {}
  <2>1. \A k \in S : N - k \in Nat
    BY <1>0
  <2>2. PICK k \in S : TRUE
    OBVIOUS
  <2>3. N - k \in T
    OBVIOUS
  <2>4. QED
    BY <2>1, <2>3
<1>2. PICK x \in T : \A y \in T : x <= y
  BY <1>1, HasLeast
<1>3. PICK k \in S : x = N - k
  OBVIOUS
<1>4. \A l \in S : N - k <= N - l
  BY <1>2, <1>3
<1>5. \A l \in S : l <= k
  BY <1>0, <1>4
<1>6. QED
  BY <1>5 DEF Greatest

(***************************************************************************)
(* The invariant                                                           *)
(***************************************************************************)

\* Where the reconciler is in its stack, and that it deletes only what is
\* scheduled for deletion.
Position ==
    /\ pc # "idle" => 1 \in ops
    /\ pc \in {"create", "rollback"} => Below(next) \subseteq known
    /\ notif["delete"] # "none" => row.scheduled
    /\ pc \in {"delete", "confirm", "remove"} => row.scheduled
    /\ row.st = "gone" => pc = "idle"

\* What the row says of the children while nobody changes what is enabled: a
\* round of Created gets past the dashboard only if the row has no IDs, and
\* the children it has passed are there; those a deletion has passed are not.
Ownership ==
    /\ pc # "idle" => ops = row.enabled
    /\ \A k \in Children : k \notin row.enabled => child[k] = "none"
    /\ row.ids \in {{}, row.enabled}
    /\ ~row.scheduled \/ pc \in {"create", "rollback", "store"}
          => \A k \in row.ids : child[k] = "live"
    /\ pc = "create" /\ next # 1 => row.ids = {}
    /\ pc \in {"rollback", "store"} => row.ids = {}
    /\ pc = "create" /\ row.ids = {}
          => known = Below(next) /\ \A l \in Below(next) : child[l] = "live"
    /\ pc = "store" => known = ops /\ \A l \in ops : child[l] = "live"
    /\ pc = "delete" /\ ~failed => \A l \in Above(next) : child[l] # "live"
    /\ pc \in {"confirm", "remove"} => \A l \in ops : child[l] # "live"
    /\ row.st = "gone" => \A k \in Children : child[k] # "live"

IInv ==
    /\ TypeOK
    /\ Position
    /\ "toggle" \notin disrupted => Ownership

LEMMA InitIInv == Init => IInv
<1> SUFFICES ASSUME Init PROVE IInv
  OBVIOUS
<1>1. PICK E \in Enabled :
        row = [st |-> "live", ids |-> {}, enabled |-> E, scheduled |-> FALSE,
               reconciled |-> FALSE]
  BY DEF Init
<1>2. row \in Row /\ 1 \in row.enabled
  BY <1>1 DEF Row, Enabled
<1>3. TypeOK
  <2>1. child \in [Children -> {"none", "live", "scheduled"}]
    BY DEF Init
  <2>2. notif \in [Events -> {"none", "ready", "settled"}]
    BY DEF Init
  <2>3. failed \in BOOLEAN
    BY DEF Init
  <2>4. /\ pc = "idle" /\ next \in 0..N /\ ops = {} /\ known = {}
        /\ disrupted = {} /\ disruptions \in Nat
    BY NAssumption DEF Init
  <2>5. QED
    BY <1>2, <2>1, <2>2, <2>3, <2>4 DEF TypeOK
<1>4. Position
  BY <1>1 DEF Init, Position, Events
<1>5. Ownership
  BY <1>1 DEF Init, Ownership
<1>6. QED
  BY <1>3, <1>4, <1>5 DEF IInv

(***************************************************************************)
(* Types, and the reconciler's place in its stack                          *)
(***************************************************************************)

LEMMA BelowShrinks ==
  ASSUME N \in Nat, ops \subseteq Children, next \in 0..N, next' \in 0..N,
         next' < next, ops' = ops
  PROVE  Below(next)' \subseteq Below(next)
<1>1. Below(next)' = {l \in ops' : l < next'}
  BY DEF Below
<1>2. \A l \in ops : l \in Int
  BY DEF Children
<1>3. \A l \in ops : l < next' => l < next
  BY <1>2
<1>4. QED
  BY <1>1, <1>3 DEF Below

LEMMA EndRoundTyped ==
  ASSUME TypeOK, NEW e \in Events, NEW settled \in BOOLEAN, EndRound(e, settled)
  PROVE  /\ pc' = "idle" /\ next' \in 0..N /\ ops' \subseteq Children
         /\ known' \subseteq Children /\ failed' \in BOOLEAN
         /\ notif' \in [Events -> {"none", "ready", "settled"}]
         /\ notif'["delete"] # "none" => notif["delete"] # "none" \/ (e = "delete" /\ settled)
<1>1. failed' \in BOOLEAN
  BY DEF EndRound
<1>2. /\ pc' = "idle" /\ next' \in 0..N /\ ops' \subseteq Children
      /\ known' \subseteq Children
  BY NAssumption DEF EndRound
<1>3. /\ notif' \in [Events -> {"none", "ready", "settled"}]
      /\ notif'["delete"] # "none" => notif["delete"] # "none" \/ (e = "delete" /\ settled)
  <2>1. notif \in [Events -> {"none", "ready", "settled"}]
    BY DEF TypeOK
  <2>2. CASE settled = TRUE
    BY <2>1, <2>2 DEF EndRound, Events
  <2>3. CASE settled = FALSE
    BY <2>1, <2>3 DEF EndRound, Events
  <2>4. QED
    BY <2>2, <2>3
<1>4. QED
  BY <1>1, <1>2, <1>3

\* The next operation of an undoing is one that is on the stack below.
LEMMA UndoTyped ==
  ASSUME TypeOK, Position, pc \in {"rollback", "delete"}, next \in known,
         NEW err \in BOOLEAN, FinishUndo(err)
  PROVE  /\ pc' \in {"idle", "rollback", "delete", "confirm"}
         /\ next' \in 0..N /\ ops' \subseteq Children /\ known' \subseteq Children
         /\ pc' # "idle" => next' \in ops' /\ ops' = ops /\ known' = known
         /\ pc' = "rollback" => pc = "rollback" /\ next' \in known /\ Below(next)' \subseteq known
         /\ pc' \in {"delete", "confirm"} => pc = "delete"
         /\ failed' \in BOOLEAN
         /\ notif' \in [Events -> {"none", "ready", "settled"}]
         /\ notif["delete"] = "none" => notif'["delete"] = "none" \/ pc = "delete"
<1>0. /\ next \in ops /\ ops \subseteq Children /\ known \subseteq Children
      /\ next \in 0..N /\ failed \in BOOLEAN
      /\ notif \in [Events -> {"none", "ready", "settled"}]
      /\ pc = "rollback" => Below(next) \subseteq known
      /\ N \in Nat
  BY NAssumption DEF TypeOK, Position
<1>1. CASE Below(next) # {}
  <2>1. Below(next) \in SUBSET Children
    BY <1>0 DEF Below
  <2>2. Greatest(Below(next)) \in Below(next)
    BY <1>1, <2>1, GreatestOf
  <2>3. /\ next' = Greatest(Below(next)) /\ failed' = err
        /\ pc' = pc /\ notif' = notif /\ ops' = ops /\ known' = known
    BY <1>1 DEF FinishUndo
  <2>4. next' \in ops /\ next' < next /\ next' \in 0..N
    BY <1>0, <2>1, <2>2, <2>3 DEF Below, Children
  <2>5. pc = "rollback" => next' \in known /\ Below(next)' \subseteq known
    <3>1. Below(next)' \subseteq Below(next)
      BY <1>0, <2>3, <2>4, BelowShrinks
    <3>2. QED
      BY <1>0, <2>2, <2>3, <3>1
  <2>6. QED
    BY <1>0, <2>3, <2>4, <2>5
<1>2. CASE Below(next) = {}
  <2>1. CASE pc = "rollback"
    <3>1. EndRound("create", FALSE)
      BY <1>2, <2>1 DEF FinishUndo
    <3>2. QED
      BY <2>1, <3>1, EndRoundTyped DEF Events
  <2>2. CASE pc = "delete" /\ err = TRUE
    <3>1. EndRound("delete", FALSE)
      BY <1>2, <2>2 DEF FinishUndo
    <3>2. QED
      BY <2>2, <3>1, EndRoundTyped DEF Events
  <2>3. CASE pc = "delete" /\ err = FALSE
    <3>1. /\ pc' = "confirm" /\ next' = next /\ notif' = notif
          /\ ops' = ops /\ known' = known
      BY <1>2, <2>3 DEF FinishUndo
    <3>2. failed' \in BOOLEAN
      BY <1>2, <2>3 DEF FinishUndo
    <3>3. QED
      BY <1>0, <2>3, <3>1, <3>2
  <2>4. QED
    BY <2>1, <2>2, <2>3
<1>3. QED
  BY <1>1, <1>2

LEMMA DisruptTyped ==
  ASSUME TypeOK, NEW kind, Disrupt(kind)
  PROVE  disruptions' \in Nat /\ disrupted' \subseteq DisruptionKinds
BY DisruptionsAssumption DEF TypeOK, Disrupt

\* What a rollback needs of its first operation.
LEMMA RollBackTyped ==
  ASSUME TypeOK, Position, pc = "create", RollBack
  PROVE  /\ pc' \in {"idle", "rollback"}
         /\ next' \in 0..N /\ ops' \subseteq Children /\ known' \subseteq Children
         /\ pc' # "idle" => /\ next' \in ops' /\ ops' = ops /\ known' = known
                            /\ next' \in known /\ Below(next)' \subseteq known
         /\ failed' \in BOOLEAN
         /\ notif' = notif
<1>0. /\ next \in ops /\ ops \subseteq Children /\ known \subseteq Children
      /\ next \in 0..N /\ Below(next) \subseteq known /\ N \in Nat
      /\ notif \in [Events -> {"none", "ready", "settled"}]
  BY NAssumption DEF TypeOK, Position
<1>1. CASE Below(next) # {}
  <2>1. Below(next) \in SUBSET Children
    BY <1>0 DEF Below
  <2>2. Greatest(Below(next)) \in Below(next)
    BY <1>1, <2>1, GreatestOf
  <2>0. failed' \in BOOLEAN
    BY <1>1 DEF RollBack
  <2>3. /\ next' = Greatest(Below(next)) /\ pc' = "rollback"
        /\ notif' = notif /\ ops' = ops /\ known' = known
    BY <1>1 DEF RollBack
  <2>4. next' \in ops /\ next' < next /\ next' \in 0..N
    BY <1>0, <2>1, <2>2, <2>3 DEF Below, Children
  <2>5. Below(next)' \subseteq Below(next)
    BY <1>0, <2>3, <2>4, BelowShrinks
  <2>6. QED
    BY <1>0, <2>0, <2>2, <2>3, <2>4, <2>5
<1>2. CASE Below(next) = {}
  <2>1. EndRound("create", FALSE)
    BY <1>2 DEF RollBack
  <2>2. notif' = notif
    BY <1>0, <2>1 DEF EndRound, Events
  <2>3. QED
    BY <2>1, <2>2, EndRoundTyped DEF Events
<1>3. QED
  BY <1>1, <1>2

\* A step keeps the types and the reconciler's place.
LEMMA StepTyped ==
  ASSUME TypeOK, Position, [Next]_vars
  PROVE  TypeOK' /\ Position'
<1> USE DEF stackVars, envVars
<1>0. /\ row \in Row /\ 1 \in row.enabled
      /\ child \in [Children -> {"none", "live", "scheduled"}]
      /\ notif \in [Events -> {"none", "ready", "settled"}]
      /\ pc \in {"idle", "create", "rollback", "store", "delete", "confirm", "remove"}
      /\ next \in 0..N /\ ops \subseteq Children /\ known \subseteq Children
      /\ pc # "idle" => next \in ops
      /\ pc = "rollback" => next \in known
      /\ disrupted \subseteq DisruptionKinds /\ disruptions \in Nat
      /\ N \in Nat /\ 1 \in Children
  BY NAssumption DEF TypeOK, Children
<1>00. failed \in BOOLEAN
  BY DEF TypeOK
<1>1. CASE RequestUpdate
  <2>1. row' \in Row /\ row'.enabled = row.enabled /\ row'.st = "live"
        /\ row'.scheduled = row.scheduled
    BY <1>0, <1>1 DEF RequestUpdate, Row
  <2>2. notif' \in [Events -> {"none", "ready", "settled"}] /\ notif'["delete"] = notif["delete"]
    BY <1>0, <1>1 DEF RequestUpdate, Events
  <2>3. TypeOK'
    BY <1>0, <1>00, <1>1, <2>1, <2>2 DEF RequestUpdate, TypeOK
  <2>4. QED
    BY <1>1, <2>1, <2>2, <2>3 DEF RequestUpdate, Position, Below
<1>2. ASSUME NEW k \in Children, Toggle(k)
      PROVE  TypeOK' /\ Position'
  <2>1. row' \in Row /\ 1 \in row'.enabled /\ row'.st = "live"
        /\ row'.scheduled = row.scheduled
    BY <1>0, <1>2 DEF Toggle, Row
  <2>2. disruptions' \in Nat /\ disrupted' \subseteq DisruptionKinds
    BY <1>2, DisruptTyped DEF Toggle
  <2>3. TypeOK'
    BY <1>0, <1>00, <1>2, <2>1, <2>2 DEF Toggle, TypeOK
  <2>4. QED
    BY <1>2, <2>1, <2>3 DEF Toggle, Position, Below
<1>3. CASE RequestDeletion
  <2>1. row' \in Row /\ row'.enabled = row.enabled /\ row'.st = "live" /\ row'.scheduled
    BY <1>0, <1>3 DEF RequestDeletion, Row
  <2>2. notif' \in [Events -> {"none", "ready", "settled"}]
    BY <1>0, <1>3 DEF RequestDeletion, Events
  <2>3. TypeOK'
    BY <1>0, <1>00, <1>3, <2>1, <2>2 DEF RequestDeletion, TypeOK
  <2>4. QED
    BY <1>3, <2>1, <2>3 DEF RequestDeletion, Position, Below
<1>4. ASSUME NEW k \in Children, ChildRemoved(k)
      PROVE  TypeOK' /\ Position'
  <2>1. child' \in [Children -> {"none", "live", "scheduled"}]
    BY <1>0, <1>4 DEF ChildRemoved
  <2>2. TypeOK'
    BY <1>0, <1>00, <1>4, <2>1 DEF ChildRemoved, TypeOK
  <2>3. QED
    BY <1>4, <2>2 DEF ChildRemoved, Position, Below
\* The steps that end a round.
<1>5. ASSUME NEW e \in Events, NEW settled \in BOOLEAN, EndRound(e, settled),
             row' \in Row, 1 \in row'.enabled, row.scheduled => row'.scheduled,
             child' \in [Children -> {"none", "live", "scheduled"}],
             disrupted' \subseteq DisruptionKinds, disruptions' \in Nat,
             notif[e] = "ready" \/ row.scheduled \/ ~settled \/ e # "delete"
      PROVE  TypeOK' /\ Position'
  <2>1. /\ pc' = "idle" /\ next' \in 0..N /\ ops' \subseteq Children
        /\ known' \subseteq Children /\ failed' \in BOOLEAN
        /\ notif' \in [Events -> {"none", "ready", "settled"}]
        /\ notif'["delete"] # "none" => notif["delete"] # "none" \/ (e = "delete" /\ settled)
    BY <1>5, EndRoundTyped
  <2>2. TypeOK'
    BY <1>5, <2>1 DEF TypeOK
  <2>3. notif'["delete"] # "none" => row'.scheduled
    BY <1>5, <2>1 DEF Position
  <2>4. QED
    BY <2>1, <2>2, <2>3 DEF Position
<1>6. ASSUME NEW e \in Events, Obsolete(e) \/ NothingToDo(e)
      PROVE  TypeOK' /\ Position'
  <2>1. /\ notif[e] = "ready" /\ EndRound(e, TRUE)
        /\ row' = row \/ row' = [row EXCEPT !.reconciled = TRUE]
        /\ UNCHANGED <<child, disrupted, disruptions>>
    BY <1>6 DEF Obsolete, NothingToDo
  <2>2. row' \in Row /\ row'.enabled = row.enabled /\ row'.scheduled = row.scheduled
    BY <1>0, <2>1 DEF Row
  <2>3. QED
    BY <1>0, <1>5, <2>1, <2>2
<1>7. CASE StartCreate
  <2>1. pc' = "create" /\ ops' = row.enabled /\ next' = 1 /\ known' = row.ids
    BY <1>7 DEF StartCreate
  <2>2. row.enabled \subseteq Children /\ row.ids \subseteq Children
    BY <1>0 DEF Row
  <2>3. failed' \in BOOLEAN
    BY <1>7 DEF StartCreate
  <2>4. 1 \in 0..N
    BY NAssumption
  <2>5. TypeOK'
    BY <1>0, <1>7, <2>1, <2>2, <2>3, <2>4 DEF StartCreate, TypeOK
  <2>6. Below(next)' = {}
    <3>1. Below(next)' = {l \in ops' : l < next'}
      BY DEF Below
    <3>2. \A l \in ops' : l \in Int /\ ~(l < 1)
      BY <2>1, <2>2 DEF Children
    <3>3. QED
      BY <2>1, <3>1, <3>2
  <2>7. Position'
    BY <1>0, <1>7, <2>1, <2>6 DEF StartCreate, Position
  <2>8. QED
    BY <2>5, <2>7
<1>8. CASE CreateChild
  <2>1. /\ pc = "create" /\ child' = [child EXCEPT ![next] = "live"]
        /\ known' = known \union {next} /\ ops' = ops
        /\ row' = row /\ notif' = notif /\ disrupted' = disrupted /\ disruptions' = disruptions
        /\ next \in ops
    BY <1>0, <1>8 DEF CreateChild
  <2>2. failed' \in BOOLEAN
    BY <1>00, <1>8 DEF CreateChild
  <2>3. child' \in [Children -> {"none", "live", "scheduled"}] /\ known' \subseteq Children
    BY <1>0, <2>1
  <2>4. CASE Above(next) = {}
    <3>1. pc' = "store" /\ next' = next
      BY <1>8, <2>4 DEF CreateChild
    <3>2. TypeOK'
      BY <1>0, <2>1, <2>2, <2>3, <3>1 DEF TypeOK
    <3>3. QED
      BY <2>1, <3>1, <3>2 DEF Position
  <2>5. CASE Above(next) # {}
    <3>1. pc' = "create" /\ next' = Least(Above(next))
      BY <1>8, <2>1, <2>5 DEF CreateChild
    <3>2. Above(next) \in SUBSET Children
      BY <1>0 DEF Above
    <3>3. next' \in ops /\ next' > next /\ \A l \in Above(next) : next' <= l
      BY <2>5, <3>1, <3>2, LeastOf DEF Above
    <3>4. next' \in 0..N
      BY <1>0, <3>3 DEF Children
    <3>5. Below(next)' \subseteq known'
      <4>1. Below(next)' = {l \in ops : l < next'}
        BY <2>1 DEF Below
      <4>2. \A l \in ops : l < next' => l < next \/ l = next
        BY <1>0, <3>3, <3>4 DEF Above, Children
      <4>3. Below(next) \subseteq known
        BY <2>1 DEF Position
      <4>4. QED
        BY <2>1, <4>1, <4>2, <4>3 DEF Below
    <3>6. TypeOK'
      BY <1>0, <2>1, <2>2, <2>3, <3>1, <3>3, <3>4 DEF TypeOK
    <3>7. QED
      BY <2>1, <3>1, <3>5, <3>6 DEF Position
  <2>6. QED
    BY <2>4, <2>5
<1>9. CASE CreateChildFails
  <2>1. pc = "create" /\ row' = row /\ RollBack
    BY <1>9 DEF CreateChildFails
  <2>2. child' \in [Children -> {"none", "live", "scheduled"}]
    BY <1>0, <1>9 DEF CreateChildFails
  <2>3. disrupted' \subseteq DisruptionKinds /\ disruptions' \in Nat
    BY <1>0, <1>9, DisruptTyped DEF CreateChildFails
  <2>4. /\ pc' \in {"idle", "rollback"}
        /\ next' \in 0..N /\ ops' \subseteq Children /\ known' \subseteq Children
        /\ pc' # "idle" => /\ next' \in ops' /\ ops' = ops /\ known' = known
                           /\ next' \in known /\ Below(next)' \subseteq known
        /\ failed' \in BOOLEAN
        /\ notif' = notif
    BY <2>1, RollBackTyped
  <2>5. TypeOK'
    BY <1>0, <2>1, <2>2, <2>3, <2>4 DEF TypeOK
  <2>6. QED
    BY <2>1, <2>4, <2>5 DEF Position
<1>10. ASSUME StoreIds \/ StoreIdsFails
       PROVE  TypeOK' /\ Position'
  <2>1. pc = "store" /\ row' \in {row, Stored} /\ child' = child
    BY <1>10 DEF StoreIds, StoreIdsFails
  <2>2. PICK settled \in BOOLEAN : EndRound("create", settled)
    BY <1>10 DEF StoreIds, StoreIdsFails
  <2>3. 1 \in ops
    BY <2>1 DEF Position
  <2>4. row' \in Row /\ 1 \in row'.enabled /\ row'.scheduled = row.scheduled
    BY <1>0, <2>1, <2>3 DEF Row, Stored
  <2>5. disrupted' \subseteq DisruptionKinds /\ disruptions' \in Nat
    BY <1>0, <1>10, DisruptTyped DEF StoreIds, StoreIdsFails
  <2>6. QED
    BY <1>0, <1>5, <2>1, <2>2, <2>4, <2>5 DEF Events
<1>11. CASE StartDelete
  <2>1. /\ pc' = "delete" /\ ops' = row.enabled /\ next' = Greatest(row.enabled)
        /\ known' = row.ids /\ notif["delete"] = "ready"
    BY <1>11 DEF StartDelete
  <2>2. row.enabled \subseteq Children /\ row.ids \subseteq Children
    BY <1>0 DEF Row
  <2>3. failed' \in BOOLEAN
    BY <1>11 DEF StartDelete
  <2>4. next' \in ops' /\ next' \in 0..N
    BY <1>0, <2>1, <2>2, GreatestOf DEF Children
  <2>5. TypeOK'
    BY <1>0, <1>11, <2>1, <2>2, <2>3, <2>4 DEF StartDelete, TypeOK
  <2>6. Position'
    BY <1>0, <1>11, <2>1 DEF StartDelete, Position
  <2>7. QED
    BY <2>5, <2>6
<1>12. CASE DeleteChild
  <2>1. pc \in {"rollback", "delete"} /\ next \in known /\ row' = row
    BY <1>12 DEF DeleteChild
  <2>2. PICK err \in BOOLEAN : FinishUndo(err)
    BY <1>00, <1>12 DEF DeleteChild
  <2>3. child' \in [Children -> {"none", "live", "scheduled"}]
    BY <1>0, <1>12 DEF DeleteChild
  <2>4. disrupted' \subseteq DisruptionKinds /\ disruptions' \in Nat
    BY <1>0, <1>12, DisruptTyped DEF DeleteChild
  <2>5. /\ pc' \in {"idle", "rollback", "delete", "confirm"}
        /\ next' \in 0..N /\ ops' \subseteq Children /\ known' \subseteq Children
        /\ pc' # "idle" => next' \in ops' /\ ops' = ops /\ known' = known
        /\ pc' = "rollback" => pc = "rollback" /\ next' \in known /\ Below(next)' \subseteq known
        /\ pc' \in {"delete", "confirm"} => pc = "delete"
        /\ failed' \in BOOLEAN
        /\ notif' \in [Events -> {"none", "ready", "settled"}]
        /\ notif["delete"] = "none" => notif'["delete"] = "none" \/ pc = "delete"
    BY <2>1, <2>2, UndoTyped
  <2>6. TypeOK'
    BY <1>0, <2>1, <2>3, <2>4, <2>5 DEF TypeOK
  <2>7. Position'
    BY <2>1, <2>5 DEF Position
  <2>8. QED
    BY <2>6, <2>7
<1>13. CASE NilPointer
  BY <1>0, <1>5, <1>13 DEF NilPointer, Events
<1>14. CASE RemoveRow
  <2>1. /\ pc = "remove" /\ row' = [row EXCEPT !.st = "gone"] /\ EndRound("delete", TRUE)
        /\ UNCHANGED <<child, disrupted, disruptions>>
    BY <1>14 DEF RemoveRow, Removed
  <2>2. row' \in Row /\ 1 \in row'.enabled /\ row'.scheduled = row.scheduled
    BY <1>0, <2>1 DEF Row
  <2>3. row.scheduled
    BY <2>1 DEF Position
  <2>4. QED
    BY <1>0, <1>5, <2>1, <2>2, <2>3 DEF Events
<1>15. CASE Crash
  BY <1>0, <1>5, <1>15, DisruptTyped DEF Crash, Events
<1>16. CASE ConfirmDeletion
  <2>1. /\ pc = "confirm" /\ pc' = "remove" /\ row' = [row EXCEPT !.reconciled = TRUE]
        /\ UNCHANGED <<child, notif, next, ops, known, failed, disrupted, disruptions>>
    BY <1>16 DEF ConfirmDeletion, Confirmed
  <2>2. row' \in Row /\ row'.enabled = row.enabled /\ row'.scheduled = row.scheduled
        /\ row'.st = row.st
    BY <1>0, <2>1 DEF Row
  <2>3. TypeOK'
    BY <2>1, <2>2 DEF TypeOK
  <2>4. Position'
    BY <2>1, <2>2 DEF Position
  <2>5. QED
    BY <2>3, <2>4
<1>17. CASE FinishFails
  <2>1. /\ pc \in {"confirm", "remove"} /\ EndRound("delete", FALSE) /\ child' = child
        /\ row' = row \/ row' = [row EXCEPT !.reconciled = TRUE] \/ row' = [row EXCEPT !.st = "gone"]
    BY <1>17 DEF FinishFails, Confirmed, Removed
  <2>2. row' \in Row /\ 1 \in row'.enabled /\ row'.scheduled = row.scheduled
    BY <1>0, <2>1 DEF Row
  <2>3. row.scheduled
    BY <2>1 DEF Position
  <2>4. disrupted' \subseteq DisruptionKinds /\ disruptions' \in Nat
    BY <1>0, <1>17, DisruptTyped DEF FinishFails
  <2>5. QED
    BY <1>0, <1>5, <2>1, <2>2, <2>3, <2>4 DEF Events
<1>18. CASE UNCHANGED vars
  BY <1>18 DEF vars, TypeOK, Position, Below
<1>19. QED
  BY <1>1, <1>2, <1>3, <1>4, <1>6, <1>7, <1>8, <1>9, <1>10, <1>11, <1>12, <1>13,
     <1>14, <1>15, <1>16, <1>17, <1>18 DEF Next, Round

(***************************************************************************)
(* What the row says of the children                                       *)
(***************************************************************************)

\* A disruption is remembered.
LEMMA ToggleRemembered ==
  ASSUME [Next]_vars, "toggle" \notin disrupted'
  PROVE  "toggle" \notin disrupted /\ \A k \in Children : ~Toggle(k)
<1> USE DEF envVars, Disrupt
<1>0. \A k \in Children : ~Toggle(k)
  BY DEF Toggle
<1>1. disrupted \subseteq disrupted'
  <2>1. CASE RequestUpdate \/ RequestDeletion \/ StartCreate \/ StartDelete \/ CreateChild
    BY <2>1 DEF RequestUpdate, RequestDeletion, StartCreate, StartDelete, CreateChild
  <2>2. CASE \E k \in Children : Toggle(k) \/ ChildRemoved(k)
    BY <1>0, <2>2 DEF ChildRemoved
  <2>3. CASE \E e \in Events : Obsolete(e) \/ NothingToDo(e)
    BY <2>3 DEF Obsolete, NothingToDo
  <2>4. CASE CreateChildFails
    BY <2>4 DEF CreateChildFails
  <2>5. CASE \/ StoreIds \/ StoreIdsFails \/ NilPointer
             \/ ConfirmDeletion \/ RemoveRow \/ FinishFails \/ Crash
    BY <2>5 DEF StoreIds, StoreIdsFails, NilPointer, ConfirmDeletion, RemoveRow, FinishFails, Crash
  <2>6. CASE DeleteChild
    BY <2>6 DEF DeleteChild
  <2>7. CASE UNCHANGED vars
    BY <2>7 DEF vars
  <2>8. QED
    BY <2>1, <2>2, <2>3, <2>4, <2>5, <2>6, <2>7 DEF Next, Round
<1>2. QED
  BY <1>0, <1>1

\* A round that ends leaves what the row says, if it says it of the children
\* as they are then.
LEMMA EndRoundOwnership ==
  ASSUME pc' = "idle",
         \A k \in Children : k \notin row'.enabled => child'[k] = "none",
         row'.ids \in {{}, row'.enabled},
         ~row'.scheduled => \A k \in row'.ids : child'[k] = "live",
         row'.st = "gone" => \A k \in Children : child'[k] # "live"
  PROVE  Ownership'
BY DEF Ownership

LEMMA StepOwnership ==
  ASSUME TypeOK, Position, Ownership, [Next]_vars, "toggle" \notin disrupted'
  PROVE  Ownership'
<1> USE DEF stackVars, envVars
<1>0. /\ row \in Row /\ 1 \in row.enabled
      /\ child \in [Children -> {"none", "live", "scheduled"}]
      /\ next \in 0..N /\ ops \subseteq Children /\ known \subseteq Children
      /\ pc # "idle" => next \in ops
      /\ N \in Nat
  BY NAssumption DEF TypeOK
<1>01. /\ row.enabled \subseteq Children /\ row.ids \subseteq Children
       /\ row.ids \in {{}, row.enabled}
       /\ pc # "idle" => ops = row.enabled
       /\ \A k \in Children : k \notin row.enabled => child[k] = "none"
  BY <1>0 DEF Row, Ownership
<1>1. CASE RequestUpdate
  <2>1. /\ row'.enabled = row.enabled /\ row'.ids = row.ids /\ row'.st = row.st
        /\ row'.scheduled = row.scheduled
    BY <1>0, <1>1 DEF RequestUpdate, Row
  <2>2. QED
    BY <1>1, <2>1 DEF RequestUpdate, Ownership, Above, Below
<1>2. CASE RequestDeletion
  <2>1. /\ row'.enabled = row.enabled /\ row'.ids = row.ids /\ row'.st = row.st
        /\ row'.scheduled /\ ~row.scheduled
    BY <1>0, <1>2 DEF RequestDeletion, Row
  <2>2. QED
    BY <1>2, <2>1 DEF RequestDeletion, Ownership, Above, Below
<1>3. ASSUME NEW k \in Children, ChildRemoved(k)
      PROVE  Ownership'
  <2>1. \A l \in Children : /\ child'[l] = "live" <=> child[l] = "live"
                            /\ child[l] = "none" => child'[l] = "none"
    BY <1>0, <1>3 DEF ChildRemoved
  <2>2. QED
    BY <1>0, <1>01, <1>3, <2>1 DEF ChildRemoved, Ownership, Above, Below
<1>4. ASSUME NEW e \in Events, Obsolete(e) \/ NothingToDo(e)
      PROVE  Ownership'
  <2>1. /\ pc' = "idle" /\ child' = child
        /\ row' = row \/ row' = [row EXCEPT !.reconciled = TRUE]
    BY <1>4 DEF Obsolete, NothingToDo, EndRound
  <2>2. /\ row'.enabled = row.enabled /\ row'.scheduled = row.scheduled
        /\ row'.ids = row.ids /\ row'.st = row.st
    BY <1>0, <2>1 DEF Row
  <2>3. QED
    BY <2>1, <2>2, EndRoundOwnership DEF Ownership
<1>5. CASE StartCreate
  <2>1. /\ pc' = "create" /\ ops' = row.enabled /\ next' = 1 /\ known' = row.ids
        /\ row' = row /\ child' = child /\ ~row.scheduled /\ row.st = "live"
    BY <1>5 DEF StartCreate
  <2>2. Below(next)' = {}
    <3>1. Below(next)' = {l \in row.enabled : l < 1}
      BY <2>1 DEF Below
    <3>2. \A l \in row.enabled : l \in Int /\ ~(l < 1)
      BY <1>01 DEF Children
    <3>3. QED
      BY <3>1, <3>2
  <2>3. QED
    BY <1>01, <2>1, <2>2 DEF Ownership
<1>6. CASE CreateChild
  <2>1. /\ pc = "create" /\ child[next] = "none"
        /\ child' = [child EXCEPT ![next] = "live"]
        /\ known' = known \union {next} /\ ops' = ops /\ row' = row
        /\ next \in ops /\ ops = row.enabled /\ next \in Children
    BY <1>0, <1>01, <1>6 DEF CreateChild
  <2>2. row.ids = {}
    <3>1. next # 1 => row.ids = {}
      BY <2>1 DEF Ownership
    <3>2. next = 1 => row.ids # row.enabled
      BY <1>0, <1>01, <2>1 DEF Ownership
    <3>3. QED
      BY <1>01, <3>1, <3>2
  <2>3. known = Below(next) /\ \A l \in Below(next) : child[l] = "live"
    BY <2>1, <2>2 DEF Ownership
  <2>4. /\ \A l \in Children : l # next => child'[l] = child[l]
        /\ child'[next] = "live"
    BY <1>0, <2>1
  <2>5. row.st = "live"
    BY <1>0, <2>1 DEF Position, Row
  <2>6. known' = Below(next) \union {next}
        /\ \A l \in Below(next) \union {next} : child'[l] = "live"
    BY <1>0, <2>1, <2>3, <2>4 DEF Below
  <2>7. CASE Above(next) = {}
    <3>1. pc' = "store"
      BY <1>6, <2>7 DEF CreateChild
    <3>2. ops = Below(next) \union {next}
      BY <1>0, <2>1, <2>7 DEF Above, Below, Children
    <3>3. known' = ops' /\ \A l \in ops' : child'[l] = "live"
      BY <2>1, <2>6, <3>2
    <3>4. QED
      BY <1>01, <2>1, <2>2, <2>4, <2>5, <3>1, <3>3 DEF Ownership
  <2>8. CASE Above(next) # {}
    <3>1. pc' = "create" /\ next' = Least(Above(next))
      BY <1>6, <2>1, <2>8 DEF CreateChild
    <3>2. Above(next) \in SUBSET Children
      BY <1>0 DEF Above
    <3>3. next' \in ops /\ next' > next /\ \A l \in Above(next) : next' <= l
      BY <2>8, <3>1, <3>2, LeastOf DEF Above
    <3>4. Below(next)' = Below(next) \union {next}
      <4>1. Below(next)' = {l \in ops : l < next'}
        BY <2>1 DEF Below
      <4>2. \A l \in ops : l < next' <=> l < next \/ l = next
        BY <1>0, <3>3 DEF Above, Children
      <4>3. QED
        BY <2>1, <4>1, <4>2 DEF Below
    <3>5. QED
      BY <1>01, <2>1, <2>2, <2>4, <2>5, <2>6, <3>1, <3>4 DEF Ownership
  <2>9. QED
    BY <2>7, <2>8
<1>7. CASE CreateChildFails
  <2>1. /\ pc = "create" /\ row' = row /\ RollBack /\ next \in ops /\ ops = row.enabled
        /\ next \in Children
    BY <1>0, <1>01, <1>7 DEF CreateChildFails
  <2>2. \/ child' = child
        \/ child[next] = "none" /\ child' = [child EXCEPT ![next] = "live"]
    BY <1>7 DEF CreateChildFails
  <2>3. \A l \in Children : /\ child[l] = "live" => child'[l] = "live"
                            /\ l # next => child'[l] = child[l]
    BY <1>0, <2>1, <2>2
  <2>4. /\ \A k \in Children : k \notin row'.enabled => child'[k] = "none"
        /\ row.st = "live"
        /\ \A k \in row'.ids : child'[k] = "live"
    BY <1>0, <1>01, <2>1, <2>3 DEF Ownership, Position, Row
  <2>5. CASE Below(next) = {}
    <3>1. pc' = "idle"
      BY <2>1, <2>5 DEF RollBack, EndRound
    <3>2. QED
      BY <1>01, <2>1, <2>4, <3>1, EndRoundOwnership
  <2>6. CASE Below(next) # {}
    <3>1. pc' = "rollback" /\ ops' = ops
      BY <2>1, <2>6 DEF RollBack
    <3>2. next # 1
      <4>1. PICK l \in ops : l < next
        BY <2>6 DEF Below
      <4>2. l \in 1..N
        BY <1>0, <4>1 DEF Children
      <4>3. QED
        BY <1>0, <4>1, <4>2
    <3>3. row.ids = {}
      BY <2>1, <3>2 DEF Ownership
    <3>4. QED
      BY <1>01, <2>1, <2>4, <3>1, <3>3 DEF Ownership
  <2>7. QED
    BY <2>5, <2>6
<1>8. ASSUME StoreIds \/ StoreIdsFails
      PROVE  Ownership'
  <2>1. /\ pc = "store" /\ row' \in {row, Stored} /\ child' = child /\ pc' = "idle"
    BY <1>8 DEF StoreIds, StoreIdsFails, EndRound
  <2>2. /\ ops = row.enabled /\ known = ops /\ \A l \in ops : child[l] = "live"
        /\ row.ids = {}
    BY <2>1 DEF Ownership
  <2>3. /\ row'.enabled = row.enabled /\ row'.st = row.st
        /\ row'.ids \in {{}, row.enabled}
    BY <1>0, <2>1, <2>2 DEF Row, Stored
  <2>4. row.st # "gone"
    BY <2>1 DEF Position
  <2>5. QED
    BY <1>01, <2>1, <2>2, <2>3, <2>4, EndRoundOwnership
<1>9. CASE StartDelete
  <2>1. /\ pc' = "delete" /\ ops' = row.enabled /\ next' = Greatest(row.enabled)
        /\ known' = row.ids /\ row' = row /\ child' = child
        /\ notif["delete"] = "ready" /\ row.st = "live"
    BY <1>9 DEF StartDelete
  <2>2. row.scheduled
    BY <2>1 DEF Position
  <2>3. \A l \in row.enabled : l <= next'
    BY <1>0, <1>01, <2>1, GreatestOf
  <2>4. Above(next)' = {}
    <3>1. Above(next)' = {l \in row.enabled : l > next'}
      BY <2>1 DEF Above
    <3>2. next' \in row.enabled
      BY <1>0, <1>01, <2>1, GreatestOf
    <3>3. \A l \in row.enabled : l \in Int
      BY <1>01 DEF Children
    <3>4. QED
      BY <2>3, <3>1, <3>2, <3>3
  <2>5. QED
    BY <1>01, <2>1, <2>2, <2>4 DEF Ownership
<1>10. CASE DeleteChild
  <2>1. /\ pc \in {"rollback", "delete"} /\ next \in known /\ row' = row
        /\ next \in ops /\ ops = row.enabled /\ next \in Children
    BY <1>0, <1>01, <1>10 DEF DeleteChild
  <2>2. \/ child' = child
        \/ child' = [child EXCEPT ![next] = IF @ = "live" THEN "scheduled" ELSE @]
    BY <1>10 DEF DeleteChild
  <2>3. \A l \in Children : /\ child'[l] = "live" => child[l] = "live"
                            /\ child[l] = "none" => child'[l] = "none"
    BY <1>0, <2>1, <2>2
  <2>4. PICK err \in BOOLEAN : /\ FinishUndo(err)
                               /\ ~err => ~failed /\ child'[next] # "live"
    <3>1. CASE /\ child[next] # "scheduled"
               /\ child' = [child EXCEPT ![next] = IF @ = "live" THEN "scheduled" ELSE @]
               /\ FinishUndo(failed)
      <4>1. child'[next] # "live"
        BY <1>0, <2>1, <3>1
      <4>2. failed \in BOOLEAN
        BY DEF TypeOK
      <4>3. QED
        BY <3>1, <4>1, <4>2
    <3>2. CASE FinishUndo(TRUE)
      BY <3>2
    <3>3. QED
      BY <1>10, <3>1, <3>2 DEF DeleteChild
  <2>5. row.st # "gone"
    BY <2>1 DEF Position
  <2>6. /\ \A k \in Children : k \notin row'.enabled => child'[k] = "none"
        /\ row'.ids \in {{}, row'.enabled}
        /\ pc = "rollback" => row.ids = {}
        /\ pc = "delete" => row.scheduled
    BY <1>01, <2>1, <2>3 DEF Ownership, Position
  <2>7. CASE pc' = "idle"
    BY <2>1, <2>5, <2>6, <2>7, EndRoundOwnership
  <2>8. CASE pc' # "idle" /\ pc = "rollback"
    <3>1. pc' = "rollback" /\ ops' = ops
      BY <2>4, <2>8 DEF FinishUndo, EndRound
    <3>2. QED
      BY <2>1, <2>5, <2>6, <2>8, <3>1 DEF Ownership
  <2>9. CASE pc' # "idle" /\ pc = "delete"
    <3>1. ops' = ops /\ pc' \in {"delete", "confirm"}
      BY <2>4, <2>9 DEF FinishUndo, EndRound
    <3>2. ~err => \A l \in Above(next) \union {next} : child'[l] # "live"
      <4>1. ~failed => \A l \in Above(next) : child[l] # "live"
        BY <2>9 DEF Ownership
      <4>2. Above(next) \subseteq Children
        BY <1>0 DEF Above
      <4>3. QED
        BY <2>3, <2>4, <4>1, <4>2
    <3>3. CASE Below(next) # {}
      <4>1. pc' = "delete" /\ next' = Greatest(Below(next))
        BY <2>4, <2>9, <3>3 DEF FinishUndo
      <4>2. ~failed' => ~err
        BY <2>4, <3>3 DEF FinishUndo
      <4>3. Below(next) \in SUBSET Children
        BY <1>0 DEF Below
      <4>4. next' \in ops /\ next' < next /\ \A l \in Below(next) : l <= next'
        BY <3>3, <4>1, <4>3, GreatestOf DEF Below
      <4>5. Above(next)' \subseteq Above(next) \union {next}
        <5>1. Above(next)' = {l \in ops : l > next'}
          BY <3>1 DEF Above
        <5>2. \A l \in ops : l > next' => l > next \/ l = next
          BY <1>0, <4>4 DEF Below, Children
        <5>3. QED
          BY <5>1, <5>2 DEF Above
      <4>6. ~failed' => \A l \in Above(next)' : child'[l] # "live"
        BY <3>2, <4>2, <4>5
      <4>7. QED
        BY <2>1, <2>5, <2>6, <2>9, <3>1, <4>1, <4>6 DEF Ownership
    <3>4. CASE Below(next) = {}
      <4>1. pc' = "confirm" /\ ~err
        BY <2>4, <2>9, <3>4 DEF FinishUndo, EndRound
      <4>2. ops \subseteq Above(next) \union {next}
        BY <1>0, <3>4 DEF Above, Below, Children
      <4>3. \A l \in ops' : child'[l] # "live"
        BY <3>1, <3>2, <4>1, <4>2
      <4>4. QED
        BY <2>1, <2>5, <2>6, <2>9, <3>1, <4>1, <4>3 DEF Ownership
    <3>5. QED
      BY <3>3, <3>4
  <2>10. QED
    BY <2>1, <2>7, <2>8, <2>9
<1>11. ASSUME NilPointer \/ Crash
       PROVE  Ownership'
  <2>1. pc' = "idle" /\ row' = row /\ child' = child
    BY <1>11 DEF NilPointer, Crash, EndRound
  <2>2. QED
    BY <2>1, EndRoundOwnership DEF Ownership
<1>12. CASE ConfirmDeletion
  <2>1. /\ pc = "confirm" /\ pc' = "remove" /\ row' = [row EXCEPT !.reconciled = TRUE]
        /\ UNCHANGED <<child, next, ops, known, failed>>
    BY <1>12 DEF ConfirmDeletion, Confirmed
  <2>2. /\ row'.enabled = row.enabled /\ row'.scheduled = row.scheduled
        /\ row'.ids = row.ids /\ row'.st = row.st
    BY <1>0, <2>1 DEF Row
  <2>3. QED
    BY <2>1, <2>2 DEF Ownership
<1>13. ASSUME RemoveRow \/ FinishFails
       PROVE  Ownership'
  <2>1. /\ pc \in {"confirm", "remove"} /\ child' = child /\ pc' = "idle"
        /\ row' = row \/ row' = [row EXCEPT !.reconciled = TRUE] \/ row' = [row EXCEPT !.st = "gone"]
    BY <1>13 DEF RemoveRow, FinishFails, Confirmed, Removed, EndRound
  <2>2. /\ row'.enabled = row.enabled /\ row'.scheduled = row.scheduled
        /\ row'.ids = row.ids
    BY <1>0, <2>1 DEF Row
  <2>3. \A k \in Children : child[k] # "live"
    BY <1>01, <2>1 DEF Ownership
  <2>4. QED
    BY <2>1, <2>2, <2>3, EndRoundOwnership DEF Ownership
<1>14. CASE UNCHANGED vars
  BY <1>14 DEF vars, Ownership, Above, Below
<1>15. QED
  BY <1>1, <1>2, <1>3, <1>4, <1>5, <1>6, <1>7, <1>8, <1>9, <1>10, <1>11, <1>12, <1>13, <1>14,
     ToggleRemembered DEF Next, Round

(***************************************************************************)
(* The theorems                                                            *)
(***************************************************************************)

LEMMA StepIInv == IInv /\ [Next]_vars => IInv'
BY StepTyped, StepOwnership, ToggleRemembered DEF IInv

LEMMA Invariance == Spec => []IInv
BY InitIInv, StepIInv, PTL DEF Spec

\* The variables keep their types and the reconciler its place in the stack,
\* for any number of children.
THEOREM Typing == Spec => []TypeOK
<1>1. IInv => TypeOK
  BY DEF IInv
<1>2. QED
  BY <1>1, Invariance, PTL

\* No child outlives its stack's row, however creation and deletion fail, die
\* and are begun again (Created, Deleted of the observability stack instance).
THEOREM ChildrenGoFirst == Spec => []NoOrphanedChildren
<1>1. IInv => NoOrphanedChildren
  BY DEF IInv, Ownership, NoOrphanedChildren
<1>2. QED
  BY <1>1, Invariance, PTL

\* The row has the IDs of all children or of none, and what it names is there
\* until its own deletion.
THEOREM IdsWhole == Spec => []IdsAreWhole
<1>1. IInv => IdsAreWhole
  BY DEF IInv, Ownership, IdsAreWhole
<1>2. QED
  BY <1>1, Invariance, PTL

(***************************************************************************)
(* The stack of operations by itself, with N functions that may each fail  *)
(* with or without effect                                                  *)
(***************************************************************************)

VARIABLES stackAt, stackNext, made, failures

Stack == INSTANCE OperationStack
    WITH at <- stackAt, next <- stackNext, made <- made, failed <- failures

\* What is made is what the stack has passed on its way up; on its way down,
\* no more than what is below and what a function failed on.
StackSound ==
    /\ stackAt \in {"create", "delete", "complete", "undone"}
    /\ stackAt = "create" => stackNext \in 1..N /\ made = 1..(stackNext - 1)
    /\ stackAt = "delete" => stackNext \in 1..N /\ made \subseteq (1..stackNext) \union failures
    /\ Stack!AllOrNothing

LEMMA InitStackSound ==
  ASSUME Stack!Init
  PROVE  StackSound
<1>1. CASE Stack!StartsCreate
  BY <1>1, NAssumption DEF Stack!Init, Stack!StartsCreate, StackSound, Stack!AllOrNothing
<1>2. CASE Stack!StartsDelete
  BY <1>2, NAssumption DEF Stack!Init, Stack!StartsDelete, StackSound, Stack!AllOrNothing
<1>3. QED
  BY <1>1, <1>2 DEF Stack!Init

LEMMA StepStackSound ==
  ASSUME StackSound, [Stack!Next]_Stack!vars
  PROVE  StackSound'
<1> USE NAssumption DEF StackSound, Stack!AllOrNothing
<1>1. CASE Stack!CreateOne
  BY <1>1 DEF Stack!CreateOne
<1>2. CASE Stack!CreateFails
  <2>1. stackNext \in 1..N /\ made = 1..(stackNext - 1)
    BY <1>2 DEF Stack!CreateFails
  <2>2. made' \subseteq (1..(stackNext - 1)) \union failures'
    BY <1>2, <2>1 DEF Stack!CreateFails
  <2>3. CASE stackNext = 1
    BY <1>2, <2>1, <2>2, <2>3 DEF Stack!CreateFails
  <2>4. CASE stackNext # 1
    BY <1>2, <2>1, <2>2, <2>4 DEF Stack!CreateFails
  <2>5. QED
    BY <2>3, <2>4
<1>3. ASSUME Stack!DeleteOne \/ Stack!DeleteFails
      PROVE  StackSound'
  <2>1. stackAt = "delete" /\ stackNext \in 1..N /\ made \subseteq (1..stackNext) \union failures
    BY <1>3 DEF Stack!DeleteOne, Stack!DeleteFails
  <2>2. made' \subseteq (1..(stackNext - 1)) \union failures'
    <3>1. made \ {stackNext} \subseteq (1..(stackNext - 1)) \union failures
      BY <2>1
    <3>2. CASE Stack!DeleteOne
      BY <3>1, <3>2 DEF Stack!DeleteOne
    <3>3. CASE Stack!DeleteFails
      <4>1. failures' = failures \union {stackNext} /\ made' \subseteq made
        BY <3>3 DEF Stack!DeleteFails
      <4>2. QED
        BY <3>1, <4>1
    <3>4. QED
      BY <1>3, <3>2, <3>3
  <2>3. stackNext' = stackNext - 1 /\ stackAt' = IF stackNext = 1 THEN "undone" ELSE "delete"
    BY <1>3 DEF Stack!DeleteOne, Stack!DeleteFails
  <2>4. CASE stackNext = 1
    BY <2>1, <2>2, <2>3, <2>4
  <2>5. CASE stackNext # 1
    BY <2>1, <2>2, <2>3, <2>5
  <2>6. QED
    BY <2>4, <2>5
<1>4. CASE UNCHANGED Stack!vars
  BY <1>4 DEF Stack!vars
<1>5. QED
  BY <1>1, <1>2, <1>3, <1>4 DEF Stack!Next

\* A stack of any number of operations makes everything or, of what it has
\* undone, leaves only that on which a function returned an error
\* (Operations.Create, Delete and cleanOnCreateError).
THEOREM StackIsAllOrNothing == Stack!Spec => []Stack!AllOrNothing
<1>1. Stack!Init => StackSound
  BY InitStackSound
<1>2. StackSound /\ [Stack!Next]_Stack!vars => StackSound'
  BY StepStackSound
<1>3. StackSound => Stack!AllOrNothing
  BY DEF StackSound
<1>4. QED
  BY <1>1, <1>2, <1>3, PTL DEF Stack!Spec
===============================================================================
