---------------------------- MODULE WorkloadProofs ----------------------------
(***************************************************************************)
(* Theorems about Workload, for any number of resources, runs and          *)
(* disruptions of every kind.                                              *)
(***************************************************************************)
EXTENDS Workload, TLAPS, WellFoundedInduction, FiniteSetTheorems

(***************************************************************************)
(* Keys, and the least run                                                 *)
(***************************************************************************)

LEMMA KeysAre ==
    /\ K \in Nat \ {0} /\ MaxRuns \in Nat \ {0}
    /\ Resources # {} /\ VS \notin Resources
    /\ Runs \subseteq 0..MaxRuns /\ 1 \in Runs
    /\ \A r \in Runs : <<r, VS>> \in Keys /\ \A k \in Resources : <<r, k>> \in Keys
    /\ \A k \in Keys : /\ k = <<k[1], k[2]>> /\ k[1] \in Runs
                       /\ k[2] \in Resources \/ k[2] = VS
<1>1. K \in Nat \ {0} /\ MaxRuns \in Nat \ {0}
  BY BoundsAssumption
<1>2. 0 \in Resources /\ VS \notin Resources /\ Resources \subseteq 0..VS /\ VS \in 0..VS
  BY <1>1 DEF Resources, VS
<1>3. Runs \subseteq 0..MaxRuns /\ 1 \in Runs
  BY <1>1 DEF Runs
<1>4. \A x \in 0..VS : x \in Resources \/ x = VS
  BY <1>1 DEF Resources, VS
<1>5. \A r \in Runs : <<r, VS>> \in Keys /\ \A k \in Resources : <<r, k>> \in Keys
  BY <1>2 DEF Keys
<1>6. \A k \in Keys : /\ k = <<k[1], k[2]>> /\ k[1] \in Runs
                      /\ k[2] \in Resources \/ k[2] = VS
  BY <1>4 DEF Keys
<1>7. QED
  BY <1>1, <1>2, <1>3, <1>5, <1>6

LtNat == {p \in Nat \X Nat : p[1] < p[2]}

LEMMA LeastBelow ==
  ASSUME NEW S, S \subseteq Nat, S # {}
  PROVE  Least(S) \in S /\ \A l \in S : Least(S) <= l
<1>1. IsWellFoundedOn(LtNat, Nat)
  <2>1. LtNat = OpToRel(<, Nat)
    BY DEF LtNat, OpToRel
  <2>2. QED
    BY <2>1, NatLessThanWellFounded
<1>2. PICK x \in S : \A y \in S : ~ (<<y, x>> \in LtNat)
  BY <1>1, WFMin
<1>3. ASSUME NEW y \in S PROVE x <= y
  <2>1. ~(<<y, x>> \in LtNat) /\ <<y, x>> \in Nat \X Nat
    BY <1>2
  <2>2. ~(y < x)
    BY <2>1 DEF LtNat
  <2>3. QED
    BY <2>2
<1>4. QED
  BY <1>3 DEF Least

LEMMA LeastOf ==
  ASSUME NEW S, S \subseteq Nat, S # {}
  PROVE  Least(S) \in S
  BY LeastBelow

(***************************************************************************)
(* The invariant                                                           *)
(***************************************************************************)

DeleteStates == {"detach", "delete", "deleted", "events", "dismiss", "remove"}

\* A round of Deleted is begun only when the deletion was asked for; a round
\* of Updated has read a Namespace, and works on the gateway's WRIs only.
Rounds ==
    /\ pc \in DeleteStates => work = "delete"
    /\ work = "delete" \/ notif["delete"] > 0 => row.scheduled
    /\ pc = "inform" => run > 0
    /\ pc = "detach" => todo \subseteq Keys /\ todo # {}
    /\ pc \in {"update", "applied"} =>
          /\ \E r \in Runs : copy[<<r, 0>>].exists
          /\ \A k \in todo : k[2] = VS

\* What Created has recorded of the workload's own resources is never anyone
\* else's to work on, and until the deletion is asked for it is in the cluster.
Base(k) == k \in Keys /\ k[2] \in Resources
Complete(r) == \A k \in Resources : wri[<<r, k>>].exists
BaseKept ==
    /\ \A k \in Keys : Base(k) /\ wri[k].exists => wri[k].reconciled
    /\ \A k \in Keys : Base(k) /\ copy[k].exists => copy[k].reconciled
    /\ ~row.scheduled =>
          \A k \in Keys : Base(k) /\ wri[k].exists =>
              wri[k].ns \in Runs /\ kube[<<wri[k].ns, k[2]>>] # 0
    /\ pc \in {"build", "record"} => \A k \in Resources \ todo : wri[<<run, k>>].exists
    /\ pc = "record" /\ Next0 \in Resources => kube[<<Namespace, Next0>>] # 0
    /\ pc = "inform" => Complete(run)
    /\ created /\ ~row.scheduled => workload /\ \E r \in Runs : Complete(r)

IInv == TypeOK /\ Rounds /\ BaseKept

\* The type invariant in two parts: the round, and the rest.
TypeRest ==
    /\ row \in [live : BOOLEAN, scheduled : BOOLEAN, reconciled : BOOLEAN]
    /\ {managed, defined, workload, events, created, overlapped} \subseteq BOOLEAN
    /\ kube \in [Keys -> 0..2] /\ wri \in [Keys -> Wris]
    /\ gateway \in {"wanted", "live", "updating", "scheduled", "gone"}
    /\ gpc \in {"idle", "creating", "updating", "deleting", "created", "updated", "deleted"}
    /\ tries \in 0..MaxRuns /\ (gpc = "creating" => tries < MaxRuns)
    /\ disruptions \in Nat
TypeRound ==
    /\ notif \in [Operations -> Nat]
    /\ copy \in [Keys -> Wris]
    /\ pc \in {"idle", "build", "record", "inform", "mark", "update", "applied",
               "detach", "delete", "deleted", "events", "dismiss", "remove"}
    /\ work \in Operations \union {"none"} /\ (pc = "idle") = (work = "none")
    /\ run \in 0..MaxRuns
    /\ pc \in {"build", "record"} => todo \subseteq Resources /\ todo # {} /\ run > 0
    /\ pc \in {"update", "applied", "delete", "deleted"} => todo \subseteq Keys
    /\ pc \in {"applied", "delete", "deleted"} => todo # {}

LEMMA TypeParts == /\ TypeOK = (TypeRest /\ TypeRound)
                   /\ TypeOK' = (TypeRest' /\ TypeRound')
  BY DEF TypeOK, TypeRest, TypeRound

LEMMA NoWriTyped == NoWri \in Wris /\ ~NoWri.exists
<1>1. 0 \in 0..MaxRuns
  BY KeysAre
<1>2. QED
  BY <1>1 DEF NoWri, Wris

LEMMA InitIInv == Init => IInv
<1> SUFFICES ASSUME Init PROVE IInv
  OBVIOUS
<1>1. TypeRest
  <2>1. row \in [live : BOOLEAN, scheduled : BOOLEAN, reconciled : BOOLEAN]
    BY DEF Init
  <2>2. {managed, defined, workload, events, created, overlapped} \subseteq BOOLEAN
    BY DEF Init
  <2>3. kube \in [Keys -> 0..2] /\ wri \in [Keys -> Wris]
    BY NoWriTyped DEF Init
  <2>4. QED
    BY <2>1, <2>2, <2>3, KeysAre DEF Init, TypeRest
<1>2. TypeRound
  BY KeysAre, NoWriTyped DEF Init, TypeRound, Operations
<1>3. Rounds
  BY DEF Init, Rounds, DeleteStates, Operations
<1>4. BaseKept
  BY KeysAre, NoWriTyped DEF Init, BaseKept
<1>5. QED
  BY <1>1, <1>2, <1>3, <1>4, TypeParts DEF IInv

(***************************************************************************)
(* Steps of the round                                                      *)
(***************************************************************************)

\* A round that ends.
LEMMA RoundEnds ==
  ASSUME TypeOK, Rounds, NEW settled \in BOOLEAN, EndRound(settled),
         row.scheduled => row'.scheduled
  PROVE  TypeRound' /\ Rounds'
<1>1. pc' = "idle" /\ work' = "none" /\ todo' = {} /\ run' = run
  BY DEF EndRound
<1>2. copy' \in [Keys -> Wris]
  BY NoWriTyped DEF EndRound
<1>3. notif' \in [Operations -> Nat]
  <2>1. CASE settled
    <3>1. notif' = notif
      BY <2>1 DEF EndRound
    <3>2. QED
      BY <3>1 DEF TypeOK
  <2>2. CASE ~settled
    <3>1. notif' = [notif EXCEPT ![work] = @ + 1]
      BY <2>2 DEF EndRound
    <3>2. notif \in [Operations -> Nat]
      BY DEF TypeOK
    <3>3. CASE work \in Operations
      <4>1. notif[work] + 1 \in Nat
        BY <3>2, <3>3
      <4>2. QED
        BY <3>1, <3>2, <4>1
    <3>4. CASE work \notin Operations
      <4>1. notif' = notif
        BY <3>1, <3>2, <3>4
      <4>2. QED
        BY <3>2, <4>1
    <3>5. QED
      BY <3>3, <3>4
  <2>3. QED
    BY <2>1, <2>2
<1>4. notif'["delete"] > 0 => row'.scheduled
  <2>1. notif'["delete"] > 0 => notif["delete"] > 0 \/ work = "delete"
    <3>1. "delete" \in Operations /\ notif \in [Operations -> Nat]
      BY DEF TypeOK, Operations
    <3>2. CASE settled
      BY <3>2 DEF EndRound
    <3>3. CASE ~settled
      <4>1. notif' = [notif EXCEPT ![work] = @ + 1]
        BY <3>3 DEF EndRound
      <4>2. QED
        BY <3>1, <4>1
    <3>4. QED
      BY <3>2, <3>3
  <2>2. QED
    BY <2>1 DEF Rounds
<1>5. TypeRound'
  BY <1>1, <1>2, <1>3 DEF TypeRound, TypeOK
<1>6. Rounds'
  BY <1>1, <1>4 DEF Rounds, DeleteStates
<1>7. QED
  BY <1>5, <1>6

\* A round of the same operation that goes on with the same things to do.
LEMMA RoundGoes ==
  ASSUME TypeOK, Rounds, NEW l, Goto(l),
         \/ l = "record" /\ pc = "build"
         \/ l = "mark" /\ pc \in {"inform", "update"}
         \/ l = "delete" /\ pc = "detach"
         \/ l = "deleted" /\ pc = "delete"
         \/ l = "dismiss" /\ pc = "events"
         \/ l = "remove" /\ pc = "dismiss",
         row' = row
  PROVE  TypeRound' /\ Rounds'
<1>1. pc' = l /\ notif' = notif /\ work' = work /\ run' = run /\ todo' = todo /\ copy' = copy
  BY DEF Goto
<1>2. TypeRound'
  BY <1>1 DEF TypeRound, TypeOK, Rounds
<1>3. Rounds'
  BY <1>1 DEF Rounds, DeleteStates, TypeOK
<1>4. QED
  BY <1>2, <1>3

\* A round that begins.
LEMMA RoundBegins ==
  ASSUME TypeOK, Rounds, NEW o \in Operations, NEW l, NEW what,
         Ready(o), EnterRound(o, l, what), row' = row, run' \in 0..MaxRuns,
         \/ o = "create" /\ l = "mark"
         \/ o = "create" /\ l = "build" /\ what = Resources /\ run' > 0
         \/ o = "update" /\ l = "mark"
         \/ o = "update" /\ l = "update" /\ what \subseteq Keys /\ (\A k \in what : k[2] = VS)
               /\ \E r \in Runs : wri[<<r, 0>>].exists
         \/ o = "delete" /\ l = "remove"
         \/ o = "delete" /\ l = "detach" /\ what \subseteq Keys /\ what # {}
  PROVE  TypeRound' /\ Rounds'
<1>1. pc' = l /\ work' = o /\ todo' = what /\ copy' = wri
      /\ notif' = [notif EXCEPT ![o] = @ - 1] /\ notif[o] > 0
  BY DEF EnterRound, Ready
<1>2. notif' \in [Operations -> Nat]
  BY <1>1 DEF TypeOK
<1>3. wri \in [Keys -> Wris]
  BY DEF TypeOK
<1>4. TypeRound'
  BY <1>1, <1>2, <1>3, KeysAre DEF TypeRound, Operations
<1>5. work' = "delete" \/ notif'["delete"] > 0 => row'.scheduled
  <2>1. notif'["delete"] > 0 => notif["delete"] > 0
    BY <1>1 DEF TypeOK, Operations
  <2>2. QED
    BY <1>1, <2>1 DEF Rounds
<1>6. Rounds'
  BY <1>1, <1>5 DEF Rounds, DeleteStates
<1>7. QED
  BY <1>4, <1>6

(***************************************************************************)
(* What Created has made is kept                                           *)
(***************************************************************************)

CreateStates == {"build", "record", "inform"}

\* A step that touches no WRI of the workload's own and deletes none of its
\* resources.
LEMMA BaseUntouched ==
  ASSUME TypeOK, Rounds, BaseKept,
         \A k \in Keys : Base(k) => wri'[k] = wri[k],
         \A k \in Keys : Base(k) /\ copy'[k].exists => copy'[k].reconciled,
         \A o \in Keys : Base(o) /\ kube[o] # 0 => kube'[o] # 0,
         row.scheduled => row'.scheduled,
         pc' \in CreateStates => pc' = pc /\ run' = run /\ todo' = todo,
         managed' = managed, created' = created,
         workload => workload'
  PROVE  BaseKept'
<1> USE KeysAre
<1>1. \A k \in Keys : Base(k) /\ wri'[k].exists => wri'[k].reconciled
  BY DEF BaseKept
<1>2. ASSUME ~row'.scheduled, NEW k \in Keys, Base(k), wri'[k].exists
      PROVE  wri'[k].ns \in Runs /\ kube'[<<wri'[k].ns, k[2]>>] # 0
  <2>1. wri[k].ns \in Runs /\ kube[<<wri[k].ns, k[2]>>] # 0 /\ wri'[k] = wri[k]
    BY <1>2 DEF BaseKept
  <2>2. <<wri[k].ns, k[2]>> \in Keys /\ Base(<<wri[k].ns, k[2]>>)
    BY <1>2, <2>1 DEF Base
  <2>3. QED
    BY <2>1, <2>2
<1>3. \A r \in Runs, k \in Resources : wri'[<<r, k>>] = wri[<<r, k>>]
  BY DEF Base
<1>4. \A r \in Runs : Complete(r) => Complete(r)'
  BY <1>3 DEF Complete
<1>5. pc' \in {"build", "record"} => \A k \in Resources \ todo' : wri'[<<run', k>>].exists
  <2>1. pc' \in {"build", "record"} => run \in Runs
    BY DEF TypeOK, CreateStates, Runs
  <2>2. QED
    BY <1>3, <2>1 DEF BaseKept, CreateStates
<1>6. ASSUME pc' = "record", Next0' \in Resources PROVE kube'[<<Namespace', Next0'>>] # 0
  <2>1. pc = "record" /\ run' = run /\ todo' = todo
    BY <1>6 DEF CreateStates
  <2>2. Next0' = Next0 /\ Namespace' = Namespace
    BY <2>1 DEF Next0, Namespace
  <2>3. run \in Runs
    BY <2>1 DEF TypeOK, Runs
  <2>4. Namespace \in Runs
    BY <2>3 DEF Namespace
  <2>5. <<Namespace, Next0>> \in Keys /\ Base(<<Namespace, Next0>>)
    BY <1>6, <2>2, <2>4 DEF Base
  <2>6. kube[<<Namespace, Next0>>] # 0
    BY <1>6, <2>1, <2>2 DEF BaseKept
  <2>7. QED
    BY <2>2, <2>5, <2>6
<1>7. pc' = "inform" => Complete(run)' /\ run' = run
  <2>1. pc = "inform" => run \in Runs
    BY DEF TypeOK, Rounds, Runs
  <2>2. pc' = "inform" => Complete(run) /\ pc = "inform" /\ run' = run
    BY DEF BaseKept, CreateStates
  <2>3. QED
    BY <1>3, <2>1, <2>2 DEF Complete
<1>8. created' /\ ~row'.scheduled => workload' /\ \E r \in Runs : Complete(r)'
  BY <1>4 DEF BaseKept
<1>9. QED
  BY <1>1, <1>2, <1>5, <1>6, <1>7, <1>8 DEF BaseKept, Complete

\* A step of a deletion.
LEMMA BaseDeleted ==
  ASSUME BaseKept, row'.scheduled, pc' \notin CreateStates,
         \A k \in Keys : wri'[k] \in {wri[k], NoWri},
         \A k \in Keys : Base(k) /\ copy'[k].exists => copy'[k].reconciled
  PROVE  BaseKept'
<1>1. \A k \in Keys : Base(k) /\ wri'[k].exists => wri'[k].reconciled
  BY NoWriTyped DEF BaseKept
<1>2. QED
  BY <1>1 DEF BaseKept, CreateStates

\* A round that ends forgets what it read.
LEMMA CopyForgotten ==
  ASSUME NEW settled, EndRound(settled)
  PROVE  \A k \in Keys : ~copy'[k].exists
  BY NoWriTyped DEF EndRound

\* A round that stays where it is.
LEMMA RoundStays ==
  ASSUME TypeOK, Rounds, UNCHANGED roundVars, notif' \in [Operations -> Nat],
         notif'["delete"] > 0 => row'.scheduled, row.scheduled => row'.scheduled
  PROVE  TypeRound' /\ Rounds'
<1>1. pc' = pc /\ work' = work /\ run' = run /\ todo' = todo /\ copy' = copy
  BY DEF roundVars
<1>2. TypeRound'
  BY <1>1 DEF TypeRound, TypeOK
<1>3. Rounds'
  BY <1>1 DEF Rounds, DeleteStates
<1>4. QED
  BY <1>2, <1>3

(***************************************************************************)
(* Users, the agent and the gateway controller                             *)
(***************************************************************************)

LEMMA StepUsers ==
  ASSUME IInv, DefinitionReconciled \/ RequestDeletion \/ AgentReports
  PROVE  IInv'
<1> USE DEF IInv
<1>1. UNCHANGED <<kube, wri, roundVars, gatewayVars, managed, created, overlapped, workload,
                  disruptions>>
  BY DEF DefinitionReconciled, RequestDeletion, AgentReports, fixed
<1>2. TypeRest'
  <2>1. row' \in [live : BOOLEAN, scheduled : BOOLEAN, reconciled : BOOLEAN]
    BY DEF DefinitionReconciled, RequestDeletion, AgentReports, fixed, TypeOK
  <2>2. defined' \in BOOLEAN /\ events' \in BOOLEAN
    BY DEF DefinitionReconciled, RequestDeletion, AgentReports, fixed, TypeOK
  <2>3. QED
    BY <1>1, <2>1, <2>2 DEF TypeRest, TypeOK, gatewayVars
<1>3. row.scheduled => row'.scheduled
  BY DEF DefinitionReconciled, RequestDeletion, AgentReports, TypeOK
<1>4. notif' \in [Operations -> Nat] /\ (notif'["delete"] > 0 => row'.scheduled)
  <2>1. CASE RequestDeletion
    BY <2>1 DEF RequestDeletion, TypeOK
  <2>2. CASE DefinitionReconciled \/ AgentReports
    BY <2>2 DEF DefinitionReconciled, AgentReports, TypeOK, Rounds
  <2>3. QED
    BY <2>1, <2>2
<1>5. TypeRound' /\ Rounds'
  BY <1>1, <1>3, <1>4, RoundStays
<1>6. BaseKept'
  <2>1. \A k \in Keys : Base(k) /\ copy'[k].exists => copy'[k].reconciled
    BY <1>1 DEF BaseKept, roundVars
  <2>2. QED
    BY <1>1, <1>3, <2>1, BaseUntouched DEF roundVars
<1>7. QED
  BY <1>2, <1>5, <1>6, TypeParts

LEMMA StepObsolete ==
  ASSUME IInv, NEW o \in Operations, Obsolete(o)
  PROVE  IInv'
<1> USE DEF IInv
<1>1. UNCHANGED <<row, fixed, kube, wri, workload, events, roundVars, gatewayVars,
                  created, overlapped, disruptions>>
  BY DEF Obsolete
<1>2. TypeRest'
  BY <1>1 DEF TypeRest, TypeOK, gatewayVars, fixed
<1>3. notif' \in [Operations -> Nat] /\ (notif'["delete"] > 0 => row'.scheduled)
  <2>1. notif' = [notif EXCEPT ![o] = @ - 1] /\ notif[o] > 0 /\ notif \in [Operations -> Nat]
    BY DEF Obsolete, Ready, TypeOK
  <2>2. notif' \in [Operations -> Nat]
    BY <2>1
  <2>3. notif'["delete"] > 0 => notif["delete"] > 0
    BY <2>1 DEF Operations
  <2>4. QED
    BY <1>1, <2>2, <2>3 DEF Rounds
<1>4. TypeRound' /\ Rounds'
  BY <1>1, <1>3, RoundStays
<1>5. BaseKept'
  <2>1. \A k \in Keys : Base(k) /\ copy'[k].exists => copy'[k].reconciled
    BY <1>1 DEF BaseKept, roundVars
  <2>2. QED
    BY <1>1, <2>1, BaseUntouched DEF roundVars, fixed
<1>6. QED
  BY <1>2, <1>4, <1>5, TypeParts

\* What the gateway controller writes is a WRI of its own.
LEMMA StepGateway ==
  ASSUME IInv, GatewayStep
  PROVE  IInv'
<1> USE DEF IInv
<1>1. UNCHANGED <<fixed, kube, workload, events, roundVars, created>>
  BY DEF GatewayStep, GatewayValidate, GatewayCreate, GatewayUpdate, GatewayRequest, GatewayFind,
         GatewayDelete, GatewayPatch, GatewayMisses, GatewayFails, GatewayEnds, fixed
<1>2. /\ row' \in [live : BOOLEAN, scheduled : BOOLEAN, reconciled : BOOLEAN]
      /\ row'.scheduled = row.scheduled
      /\ notif' \in [Operations -> Nat] /\ notif'["delete"] = notif["delete"]
  <2>1. CASE row' = row /\ notif' = notif
    BY <2>1 DEF TypeOK
  <2>2. CASE Unreconciled
    <3>1. CASE row.live
      <4>1. /\ row' = [row EXCEPT !.reconciled = FALSE]
            /\ notif' = [notif EXCEPT !["update"] = @ + 1]
        BY <2>2, <3>1 DEF Unreconciled
      <4>2. "update" \in Operations /\ notif \in [Operations -> Nat]
        BY DEF Operations, TypeOK
      <4>3. notif' \in [Operations -> Nat] /\ notif'["delete"] = notif["delete"]
        BY <4>1, <4>2
      <4>4. QED
        BY <4>1, <4>3 DEF TypeOK
    <3>2. CASE ~row.live
      BY <2>2, <3>2 DEF Unreconciled, TypeOK
    <3>3. QED
      BY <3>1, <3>2
  <2>3. QED
    BY <2>1, <2>2 DEF GatewayStep, GatewayValidate, GatewayCreate, GatewayUpdate, GatewayRequest,
                      GatewayFind, GatewayDelete, GatewayPatch, GatewayMisses, GatewayFails, GatewayEnds
<1>3. \/ wri' = wri /\ overlapped' = overlapped
      \/ \E k \in Keys, w \in Wris : k[2] = VS /\ Writes(k, w)
  <2>1. CASE GatewayCreate
    <3>1. tries' = tries + 1 /\ tries' \in Runs
      BY <2>1, KeysAre DEF GatewayCreate, TypeOK, Runs
    <3>2. Writes(<<tries', VS>>, [exists |-> TRUE, ns |-> 0, def |-> 1,
                                  reconciled |-> FALSE, scheduled |-> FALSE])
      BY <2>1 DEF GatewayCreate
    <3>3. 0 \in 0..MaxRuns /\ 1 \in 0..2
      BY KeysAre
    <3>4. [exists |-> TRUE, ns |-> 0, def |-> 1,
           reconciled |-> FALSE, scheduled |-> FALSE] \in Wris
      BY <3>3 DEF Wris
    <3>5. <<tries', VS>> \in Keys /\ <<tries', VS>>[2] = VS
      BY <3>1, KeysAre
    <3>6. QED
      BY <3>2, <3>4, <3>5
  <2>2. CASE GatewayUpdate
    <3>1. PICK k \in GatewayWris :
            Writes(k, [wri[k] EXCEPT !.def = 2, !.ns = 0, !.reconciled = FALSE])
      BY <2>2 DEF GatewayUpdate
    <3>2. k \in Keys /\ k[2] = VS /\ wri[k] \in Wris
      BY DEF GatewayWris, Recorded, TypeOK
    <3>3. [wri[k] EXCEPT !.def = 2, !.ns = 0, !.reconciled = FALSE] \in Wris
      <4>1. 2 \in 0..2 /\ 0 \in 0..MaxRuns
        BY KeysAre
      <4>2. QED
        BY <3>2, <4>1 DEF Wris
    <3>4. QED
      BY <3>1, <3>2, <3>3
  <2>3. CASE GatewayDelete
    <3>1. CASE wri' = wri /\ overlapped' = overlapped
      BY <3>1
    <3>2. CASE \E k \in GatewayWris :
                 Writes(k, [wri[k] EXCEPT !.scheduled = TRUE, !.reconciled = FALSE])
      <4>1. PICK k \in GatewayWris :
              Writes(k, [wri[k] EXCEPT !.scheduled = TRUE, !.reconciled = FALSE])
        BY <3>2
      <4>2. k \in Keys /\ k[2] = VS /\ wri[k] \in Wris
        BY DEF GatewayWris, Recorded, TypeOK
      <4>3. [wri[k] EXCEPT !.scheduled = TRUE, !.reconciled = FALSE] \in Wris
        BY <4>2 DEF Wris
      <4>4. QED
        BY <4>1, <4>2, <4>3
    <3>3. QED
      BY <2>3, <3>1, <3>2 DEF GatewayDelete
  <2>4. CASE GatewayValidate \/ GatewayRequest \/ GatewayFind \/ GatewayPatch \/ GatewayMisses
             \/ GatewayFails
    BY <2>4 DEF GatewayValidate, GatewayRequest, GatewayFind, GatewayPatch, GatewayMisses,
                GatewayFails, GatewayEnds
  <2>5. QED
    BY <2>1, <2>2, <2>3, <2>4 DEF GatewayStep
<1>4. /\ wri' \in [Keys -> Wris] /\ overlapped' \in BOOLEAN
      /\ \A k \in Keys : Base(k) => wri'[k] = wri[k]
  <2>1. CASE wri' = wri /\ overlapped' = overlapped
    BY <2>1 DEF TypeOK
  <2>2. CASE \E k \in Keys, w \in Wris : k[2] = VS /\ Writes(k, w)
    <3>1. PICK k \in Keys, w \in Wris : k[2] = VS /\ Writes(k, w)
      BY <2>2
    <3>2. wri' = [wri EXCEPT ![k] = w] /\ overlapped' \in BOOLEAN
      BY <3>1 DEF Writes
    <3>3. ~Base(k)
      BY <3>1, KeysAre DEF Base
    <3>4. QED
      BY <3>2, <3>3 DEF TypeOK
  <2>3. QED
    BY <1>3, <2>1, <2>2
<1>5. gateway' \in {"wanted", "live", "updating", "scheduled", "gone"}
  BY DEF GatewayStep, GatewayValidate, GatewayCreate, GatewayUpdate, GatewayRequest, GatewayFind,
         GatewayDelete, GatewayPatch, GatewayMisses, GatewayFails, GatewayEnds, TypeOK
<1>6. gpc' \in {"idle", "creating", "updating", "deleting", "created", "updated", "deleted"}
  BY DEF GatewayStep, GatewayValidate, GatewayCreate, GatewayUpdate, GatewayRequest, GatewayFind,
         GatewayDelete, GatewayPatch, GatewayMisses, GatewayFails, GatewayEnds, TypeOK
<1>7. tries' \in 0..MaxRuns /\ disruptions' \in Nat /\ (gpc' = "creating" => tries' < MaxRuns)
  <2>1. /\ tries \in 0..MaxRuns /\ disruptions \in Nat /\ MaxRuns \in Nat
        /\ (gpc = "creating" => tries < MaxRuns)
    BY KeysAre DEF TypeOK
  <2>2. CASE GatewayCreate
    BY <2>1, <2>2 DEF GatewayCreate
  <2>3. CASE GatewayFails
    BY <2>1, <2>3 DEF GatewayFails, GatewayEnds, Disrupt
  <2>4. CASE GatewayValidate
    BY <2>1, <2>4 DEF GatewayValidate
  <2>5. CASE tries' = tries /\ disruptions' = disruptions /\ gpc' \in {gpc, "idle", "updated", "deleting", "deleted"}
    BY <2>1, <2>5
  <2>6. QED
    BY <2>2, <2>3, <2>4, <2>5 DEF GatewayStep, GatewayUpdate, GatewayRequest, GatewayFind,
                                  GatewayDelete, GatewayPatch, GatewayMisses, GatewayEnds
<1>8. TypeRest'
  BY <1>1, <1>2, <1>4, <1>5, <1>6, <1>7 DEF TypeRest, TypeOK, fixed
<1>9. TypeRound' /\ Rounds'
  BY <1>1, <1>2, RoundStays DEF Rounds
<1>10. BaseKept'
  <2>1. \A k \in Keys : Base(k) /\ copy'[k].exists => copy'[k].reconciled
    BY <1>1 DEF BaseKept, roundVars
  <2>2. QED
    BY <1>1, <1>2, <1>4, <2>1, BaseUntouched DEF roundVars, fixed
<1>11. QED
  BY <1>8, <1>9, <1>10, TypeParts

(***************************************************************************)
(* Rounds that begin, and a crash                                          *)
(***************************************************************************)

LEMMA StepTake ==
  ASSUME IInv, SkipCreate \/ StartCreate \/ StartUpdate \/ StartDelete
  PROVE  IInv'
<1> USE DEF IInv
<1>1. UNCHANGED <<row, fixed, kube, wri, workload, events, gatewayVars,
                  created, overlapped, disruptions>>
  BY DEF SkipCreate, StartCreate, StartUpdate, StartDelete
<1>2. TypeRest'
  BY <1>1 DEF TypeRest, TypeOK, gatewayVars, fixed
<1>3. "create" \in Operations /\ "update" \in Operations /\ "delete" \in Operations
  BY DEF Operations
<1>4. run \in 0..MaxRuns /\ MaxRuns \in Nat
  BY KeysAre DEF TypeOK
<1>5. \A k \in Keys : Base(k) /\ wri[k].exists => wri[k].reconciled
  BY DEF BaseKept
<1>6. CASE SkipCreate
  <2>1. Ready("create") /\ EnterRound("create", "mark", {}) /\ run' = run
    BY <1>6 DEF SkipCreate
  <2>2. TypeRound' /\ Rounds'
    BY <1>1, <1>3, <1>4, <2>1, RoundBegins
  <2>3. pc' = "mark" /\ copy' = wri
    BY <2>1 DEF EnterRound
  <2>4. BaseKept'
    BY <1>1, <1>5, <2>3, BaseUntouched DEF CreateStates, fixed
  <2>5. QED
    BY <1>2, <2>2, <2>4, TypeParts
<1>7. CASE StartCreate
  <2>1. Ready("create") /\ EnterRound("create", "build", Resources) /\ run' = run + 1
        /\ run < MaxRuns
    BY <1>7 DEF StartCreate
  <2>2. run' \in 0..MaxRuns /\ run' > 0
    BY <1>4, <2>1
  <2>3. TypeRound' /\ Rounds'
    BY <1>1, <1>3, <2>1, <2>2, RoundBegins
  <2>4. pc' = "build" /\ copy' = wri /\ todo' = Resources
    BY <2>1 DEF EnterRound
  <2>5. BaseKept'
    BY <1>1, <1>5, <2>4 DEF BaseKept, Complete, fixed
  <2>6. QED
    BY <1>2, <2>3, <2>5, TypeParts
<1>8. CASE StartUpdate
  <2> DEFINE l == IF Recorded = {} THEN "mark" ELSE "update"
             what == {k \in Recorded : ~wri[k].reconciled}
  <2>1. Ready("update") /\ EnterRound("update", l, what) /\ run' = run
    BY <1>8 DEF StartUpdate
  <2>2. what \subseteq Keys /\ \A k \in what : k[2] = VS
    BY <1>5, KeysAre DEF Recorded, Base
  <2>3. ASSUME Recorded # {} PROVE \E r \in Runs : wri[<<r, 0>>].exists
    <3>1. PICK k \in Recorded : k[2] = 0
      BY <1>8, <2>3 DEF StartUpdate
    <3>2. k = <<k[1], 0>> /\ k[1] \in Runs /\ wri[k].exists
      BY <3>1, KeysAre DEF Recorded
    <3>3. QED
      BY <3>2
  <2> HIDE DEF what
  <2>4. l = "mark" \/ (l = "update" /\ \E r \in Runs : wri[<<r, 0>>].exists)
    BY <2>3
  <2> HIDE DEF l
  <2>5. TypeRound' /\ Rounds'
    BY <1>1, <1>3, <1>4, <2>1, <2>2, <2>4, RoundBegins
  <2>6. pc' \in {"mark", "update"} /\ copy' = wri
    BY <2>1, <2>4 DEF EnterRound
  <2>7. BaseKept'
    BY <1>1, <1>5, <2>6, BaseUntouched DEF CreateStates, fixed
  <2>8. QED
    BY <1>2, <2>5, <2>7, TypeParts
<1>9. CASE StartDelete
  <2> DEFINE l == IF Recorded = {} THEN "remove" ELSE "detach"
  <2>1. Ready("delete") /\ EnterRound("delete", l, Recorded) /\ run' = run
    BY <1>9 DEF StartDelete
  <2>2. l = "remove" \/ (l = "detach" /\ Recorded \subseteq Keys /\ Recorded # {})
    BY DEF Recorded
  <2> HIDE DEF l
  <2>3. TypeRound' /\ Rounds'
    BY <1>1, <1>3, <1>4, <2>1, <2>2, RoundBegins
  <2>4. pc' \in {"remove", "detach"} /\ copy' = wri
    BY <2>1, <2>2 DEF EnterRound
  <2>5. BaseKept'
    BY <1>1, <1>5, <2>4, BaseUntouched DEF CreateStates, fixed
  <2>6. QED
    BY <1>2, <2>3, <2>5, TypeParts
<1>10. QED
  BY <1>6, <1>7, <1>8, <1>9

\* A round that ends and has changed at most the row, the events or the
\* gateway, and what it has created in the cluster.
LEMMA StepEnds ==
  ASSUME IInv, NEW settled \in BOOLEAN, EndRound(settled), TypeRest',
         row.scheduled => row'.scheduled,
         \A k \in Keys : Base(k) => wri'[k] = wri[k],
         \A o \in Keys : Base(o) /\ kube[o] # 0 => kube'[o] # 0,
         managed' = managed, created' = created, workload => workload'
  PROVE  IInv'
<1> USE DEF IInv
<1>1. TypeRound' /\ Rounds'
  BY RoundEnds
<1>2. \A k \in Keys : ~copy'[k].exists
  BY CopyForgotten
<1>3. pc' = "idle"
  BY DEF EndRound
<1>4. BaseKept'
  BY <1>2, <1>3, BaseUntouched DEF CreateStates
<1>5. QED
  BY <1>1, <1>4, TypeParts

\* A round of a deletion that ends.
LEMMA StepDeleteEnds ==
  ASSUME IInv, work = "delete", NEW settled \in BOOLEAN, EndRound(settled), TypeRest',
         row.scheduled => row'.scheduled,
         \A k \in Keys : wri'[k] \in {wri[k], NoWri}
  PROVE  IInv'
<1> USE DEF IInv
<1>1. TypeRound' /\ Rounds'
  BY RoundEnds
<1>2. \A k \in Keys : ~copy'[k].exists
  BY CopyForgotten
<1>3. pc' = "idle" /\ row'.scheduled
  BY DEF EndRound, Rounds
<1>4. BaseKept'
  BY <1>2, <1>3, BaseDeleted DEF CreateStates
<1>5. QED
  BY <1>1, <1>4, TypeParts

LEMMA StepCrash == ASSUME IInv, Crash PROVE IInv'
<1> USE DEF IInv
<1>1. EndRound(FALSE)
      /\ UNCHANGED <<row, fixed, kube, wri, workload, events, gatewayVars, created, overlapped>>
  BY DEF Crash
<1>2. TypeRest'
  BY <1>1 DEF Crash, Disrupt, TypeRest, TypeOK, gatewayVars, fixed
<1>3. QED
  BY <1>1, <1>2, StepEnds DEF fixed

(***************************************************************************)
(* Created                                                                 *)
(***************************************************************************)

\* What Created works on.
LEMMA CreateKeys ==
  ASSUME TypeOK, pc \in {"build", "record"}
  PROVE  /\ Next0 \in todo /\ Next0 \in Resources
         /\ run \in Runs /\ Namespace \in Runs
         /\ Base(<<Namespace, Next0>>) /\ Base(<<run, Next0>>)
<1>1. todo \subseteq Resources /\ todo # {} /\ run \in 0..MaxRuns /\ run > 0
  BY DEF TypeOK
<1>2. todo \subseteq Nat
  BY <1>1, KeysAre DEF Resources
<1>3. Next0 \in todo
  BY <1>1, <1>2, LeastOf DEF Next0
<1>4. run \in Runs
  BY <1>1 DEF Runs
<1>5. Namespace \in Runs
  BY <1>4, KeysAre DEF Namespace
<1>6. QED
  BY <1>1, <1>3, <1>4, <1>5, KeysAre DEF Base

\* A record of what Created has made is sound.
LEMMA RecordKept ==
  ASSUME TypeOK, BaseKept, pc = "record", wri' = WithRecord, kube' = kube, row' = row
  PROVE  /\ wri' \in [Keys -> Wris]
         /\ \A k \in Keys : wri[k].exists => wri'[k].exists
         /\ wri'[<<run, Next0>>].exists
         /\ \A k \in Keys : Base(k) /\ wri'[k].exists => wri'[k].reconciled
         /\ ~row'.scheduled =>
               \A k \in Keys : Base(k) /\ wri'[k].exists =>
                   wri'[k].ns \in Runs /\ kube'[<<wri'[k].ns, k[2]>>] # 0
<1> DEFINE w == [exists |-> TRUE, ns |-> Namespace, def |-> 1, reconciled |-> TRUE,
                 scheduled |-> FALSE]
<1>1. /\ Next0 \in Resources /\ Namespace \in Runs
      /\ <<run, Next0>> \in Keys /\ wri \in [Keys -> Wris]
  BY CreateKeys DEF Base, TypeOK
<1>2. wri' = [wri EXCEPT ![<<run, Next0>>] = w]
  BY DEF WithRecord
<1>3. w \in Wris
  <2>1. Namespace \in 0..MaxRuns /\ 1 \in 0..2
    BY <1>1, KeysAre
  <2>2. QED
    BY <2>1 DEF Wris
<1>4. w.exists /\ w.reconciled /\ w.ns = Namespace
  OBVIOUS
<1> HIDE DEF w
<1>5. wri' \in [Keys -> Wris] /\ wri'[<<run, Next0>>] = w
      /\ \A k \in Keys : k # <<run, Next0>> => wri'[k] = wri[k]
  BY <1>1, <1>2, <1>3
<1>6. \A k \in Keys : wri[k].exists => wri'[k].exists
  BY <1>4, <1>5
<1>7. \A k \in Keys : Base(k) /\ wri'[k].exists => wri'[k].reconciled
  BY <1>4, <1>5 DEF BaseKept
<1>8. ASSUME ~row'.scheduled, NEW k \in Keys, Base(k), wri'[k].exists
      PROVE  wri'[k].ns \in Runs /\ kube'[<<wri'[k].ns, k[2]>>] # 0
  <2>1. CASE k = <<run, Next0>>
    <3>1. kube[<<Namespace, Next0>>] # 0
      BY <1>1 DEF BaseKept
    <3>2. k[2] = Next0 /\ wri'[k].ns = Namespace
      BY <1>4, <1>5, <2>1
    <3>3. QED
      BY <1>1, <3>1, <3>2
  <2>2. CASE k # <<run, Next0>>
    BY <1>5, <1>8, <2>2 DEF BaseKept
  <2>3. QED
    BY <2>1, <2>2
<1>9. QED
  BY <1>4, <1>5, <1>6, <1>7, <1>8

\* What is built is at least what was there.
LEMMA BuiltKept ==
  ASSUME TypeOK, pc = "build",
         kube' = [kube EXCEPT ![<<Namespace, Next0>>] = IF @ = 0 THEN 1 ELSE @]
  PROVE  /\ kube' \in [Keys -> 0..2] /\ kube'[<<Namespace, Next0>>] # 0
         /\ \A o \in Keys : kube[o] # 0 => kube'[o] # 0
<1> DEFINE o == <<Namespace, Next0>>
           v == IF kube[o] = 0 THEN 1 ELSE kube[o]
<1>1. o \in Keys /\ kube \in [Keys -> 0..2]
  BY CreateKeys DEF Base, TypeOK
<1>2. v \in 0..2 /\ v # 0
  BY <1>1
<1>3. kube' = [kube EXCEPT ![o] = v]
  BY <1>1
<1> HIDE DEF v
<1>4. QED
  BY <1>1, <1>2, <1>3

LEMMA StepBuildNext == ASSUME IInv, BuildNext PROVE IInv'
<1> USE DEF IInv
<1>1. /\ pc = "build" /\ Goto("record")
      /\ UNCHANGED <<row, fixed, wri, workload, events, gatewayVars, created, overlapped,
                     disruptions>>
      /\ kube' = [kube EXCEPT ![<<Namespace, Next0>>] = IF @ = 0 THEN 1 ELSE @]
  BY DEF BuildNext, At
<1>2. /\ kube' \in [Keys -> 0..2] /\ kube'[<<Namespace, Next0>>] # 0
      /\ \A o \in Keys : kube[o] # 0 => kube'[o] # 0
  BY <1>1, BuiltKept
<1>3. TypeRest'
  BY <1>1, <1>2 DEF TypeRest, TypeOK, gatewayVars, fixed
<1>4. TypeRound' /\ Rounds'
  BY <1>1, RoundGoes
<1>5. pc' = "record" /\ run' = run /\ todo' = todo /\ copy' = copy
  BY <1>1 DEF Goto
<1>6. Next0' = Next0 /\ Namespace' = Namespace
  BY <1>1, <1>5 DEF Next0, Namespace, fixed
<1>7. ASSUME ~row'.scheduled, NEW k \in Keys, Base(k), wri'[k].exists
      PROVE  wri'[k].ns \in Runs /\ kube'[<<wri'[k].ns, k[2]>>] # 0
  <2>1. wri'[k] = wri[k] /\ wri[k].ns \in Runs /\ kube[<<wri[k].ns, k[2]>>] # 0
    BY <1>1, <1>7 DEF BaseKept
  <2>2. <<wri[k].ns, k[2]>> \in Keys
    BY <1>7, <2>1, KeysAre DEF Base
  <2>3. QED
    BY <1>2, <2>1, <2>2
<1>8. BaseKept'
  BY <1>1, <1>2, <1>5, <1>6, <1>7 DEF BaseKept, Complete
<1>9. QED
  BY <1>3, <1>4, <1>8, TypeParts

LEMMA StepBuildFails == ASSUME IInv, BuildFails PROVE IInv'
<1> USE DEF IInv
<1>1. /\ pc = "build" /\ EndRound(FALSE) /\ Disrupt("kube")
      /\ UNCHANGED <<row, fixed, wri, workload, gatewayVars, created, overlapped>>
      /\ \/ kube' = kube
         \/ kube' = [kube EXCEPT ![<<Namespace, Next0>>] = IF @ = 0 THEN 1 ELSE @]
      /\ events' \in BOOLEAN
  BY DEF BuildFails, At, TypeOK
<1>2. kube' \in [Keys -> 0..2] /\ \A o \in Keys : kube[o] # 0 => kube'[o] # 0
  BY <1>1, BuiltKept DEF TypeOK
<1>3. TypeRest'
  BY <1>1, <1>2 DEF TypeRest, TypeOK, gatewayVars, fixed, Disrupt
<1>4. QED
  BY <1>1, <1>2, <1>3, StepEnds DEF fixed

LEMMA StepRecordNext == ASSUME IInv, RecordNext PROVE IInv'
<1> USE DEF IInv
<1>1. /\ pc = "record" /\ wri' = WithRecord /\ todo' = todo \ {Next0}
      /\ pc' = IF todo = {Next0} THEN "inform" ELSE "build"
      /\ UNCHANGED <<row, fixed, notif, kube, workload, events, work, run, copy, gatewayVars,
                     created, overlapped, disruptions>>
  BY DEF RecordNext, At
<1>2. /\ wri' \in [Keys -> Wris]
      /\ \A k \in Keys : wri[k].exists => wri'[k].exists
      /\ wri'[<<run, Next0>>].exists
      /\ \A k \in Keys : Base(k) /\ wri'[k].exists => wri'[k].reconciled
      /\ ~row'.scheduled =>
            \A k \in Keys : Base(k) /\ wri'[k].exists =>
                wri'[k].ns \in Runs /\ kube'[<<wri'[k].ns, k[2]>>] # 0
  BY <1>1, RecordKept
<1>3. Next0 \in todo /\ Next0 \in Resources /\ run \in Runs
  BY <1>1, CreateKeys
<1>4. TypeRest'
  BY <1>1, <1>2 DEF TypeRest, TypeOK, gatewayVars, fixed
<1>5. todo \subseteq Resources /\ run > 0 /\ work # "none"
  BY <1>1 DEF TypeOK
<1>6. \/ pc' = "inform" /\ todo = {Next0}
      \/ pc' = "build" /\ todo' # {} /\ todo' \subseteq Resources
  BY <1>1, <1>3, <1>5
<1>7. TypeRound'
  BY <1>1, <1>5, <1>6 DEF TypeRound, TypeOK
<1>8. Rounds'
  BY <1>1, <1>5, <1>6 DEF Rounds, DeleteStates
<1>9. \A k \in Resources \ todo' : wri'[<<run, k>>].exists
  <2>1. \A k \in Resources \ todo : wri[<<run, k>>].exists /\ <<run, k>> \in Keys
    BY <1>1, <1>3, KeysAre DEF BaseKept
  <2>2. QED
    BY <1>1, <1>2, <2>1
<1>10. \A r \in Runs : Complete(r) => \A k \in Resources : wri'[<<r, k>>].exists
  BY <1>2, KeysAre DEF Complete
<1>11. BaseKept'
  <2>1. todo = {Next0} => todo' = {}
    BY <1>1
  <2>2. pc' = "inform" => \A k \in Resources : wri'[<<run', k>>].exists
    BY <1>1, <1>6, <1>9, <2>1
  <2>3. \A k \in Keys : Base(k) /\ copy'[k].exists => copy'[k].reconciled
    BY <1>1 DEF BaseKept
  <2>4. created' /\ ~row'.scheduled =>
          workload' /\ \E r \in Runs : \A k \in Resources : wri'[<<r, k>>].exists
    BY <1>1, <1>10 DEF BaseKept
  <2>5. pc' \in {"build", "record"} => \A k \in Resources \ todo' : wri'[<<run', k>>].exists
    BY <1>1, <1>9
  <2>6. pc' # "record"
    BY <1>6
  <2>7. QED
    BY <1>2, <2>2, <2>3, <2>4, <2>5, <2>6 DEF BaseKept, Complete
<1>12. QED
  BY <1>4, <1>7, <1>8, <1>11, TypeParts

LEMMA StepRecordFails == ASSUME IInv, RecordFails PROVE IInv'
<1> USE DEF IInv
<1>1. /\ pc = "record" /\ EndRound(FALSE) /\ Disrupt("api") /\ wri' \in {wri, WithRecord}
      /\ UNCHANGED <<row, fixed, kube, workload, events, gatewayVars, created, overlapped>>
  BY DEF RecordFails, At
<1>2. CASE wri' = wri
  <2>1. TypeRest'
    BY <1>1, <1>2 DEF TypeRest, TypeOK, gatewayVars, fixed, Disrupt
  <2>2. QED
    BY <1>1, <1>2, <2>1, StepEnds DEF fixed
<1>3. CASE wri' = WithRecord
  <2>1. /\ wri' \in [Keys -> Wris]
        /\ \A k \in Keys : wri[k].exists => wri'[k].exists
        /\ \A k \in Keys : Base(k) /\ wri'[k].exists => wri'[k].reconciled
        /\ ~row'.scheduled =>
              \A k \in Keys : Base(k) /\ wri'[k].exists =>
                  wri'[k].ns \in Runs /\ kube'[<<wri'[k].ns, k[2]>>] # 0
    BY <1>1, <1>3, RecordKept
  <2>2. TypeRest'
    BY <1>1, <2>1 DEF TypeRest, TypeOK, gatewayVars, fixed, Disrupt
  <2>3. TypeRound' /\ Rounds'
    BY <1>1, RoundEnds
  <2>4. \A k \in Keys : ~copy'[k].exists
    BY <1>1, CopyForgotten
  <2>5. pc' = "idle"
    BY <1>1 DEF EndRound
  <2>6. \A r \in Runs : Complete(r) => \A k \in Resources : wri'[<<r, k>>].exists
    BY <2>1, KeysAre DEF Complete
  <2>7. BaseKept'
    BY <1>1, <2>1, <2>4, <2>5, <2>6 DEF BaseKept, Complete
  <2>8. QED
    BY <2>2, <2>3, <2>7, TypeParts
<1>4. QED
  BY <1>1, <1>2, <1>3

LEMMA StepInform == ASSUME IInv, Inform PROVE IInv'
<1> USE DEF IInv
<1>1. /\ pc = "inform" /\ workload' = TRUE /\ created' = TRUE /\ Goto("mark")
      /\ UNCHANGED <<row, fixed, kube, wri, events, gatewayVars, overlapped, disruptions>>
  BY DEF Inform, At
<1>2. TypeRest'
  BY <1>1 DEF TypeRest, TypeOK, gatewayVars, fixed
<1>3. TypeRound' /\ Rounds'
  BY <1>1, RoundGoes
<1>4. pc' = "mark" /\ copy' = copy
  BY <1>1 DEF Goto
<1>5. run \in Runs /\ Complete(run)
  BY <1>1 DEF TypeOK, Rounds, Runs, BaseKept
<1>6. BaseKept'
  BY <1>1, <1>4, <1>5 DEF BaseKept, Complete
<1>7. QED
  BY <1>2, <1>3, <1>6, TypeParts

LEMMA StepMark == ASSUME IInv, InformFails \/ Mark \/ MarkFails PROVE IInv'
<1> USE DEF IInv
<1>1. UNCHANGED <<fixed, kube, wri, events, gatewayVars, created, overlapped>>
  BY DEF InformFails, Mark, MarkFails
<1>2. PICK settled \in BOOLEAN : EndRound(settled)
  BY DEF InformFails, Mark, MarkFails
<1>3. workload' \in BOOLEAN /\ (workload => workload')
  <2>1. workload \in BOOLEAN
    BY DEF TypeOK
  <2>2. workload' = workload \/ workload' = TRUE
    BY DEF InformFails, Mark, MarkFails
  <2>3. QED
    BY <2>1, <2>2
<1>4. disruptions' \in Nat
  <2>1. disruptions \in Nat
    BY DEF TypeOK
  <2>2. disruptions' = disruptions \/ disruptions' = disruptions + 1
    BY DEF InformFails, Mark, MarkFails, Disrupt
  <2>3. QED
    BY <2>1, <2>2
<1>5. /\ row' \in [live : BOOLEAN, scheduled : BOOLEAN, reconciled : BOOLEAN]
      /\ row'.scheduled = row.scheduled
  BY DEF InformFails, Mark, MarkFails, TypeOK
<1>6. TypeRest'
  BY <1>1, <1>3, <1>4, <1>5 DEF TypeRest, TypeOK, gatewayVars, fixed
<1>7. QED
  BY <1>1, <1>2, <1>3, <1>5, <1>6, StepEnds DEF fixed

(***************************************************************************)
(* Updated                                                                 *)
(***************************************************************************)

\* What Updated works on is the gateway's, in the namespace it has read.
LEMMA UpdateKeys ==
  ASSUME TypeOK, Rounds, pc \in {"update", "applied"}
  PROVE  /\ UpdateNamespace \in 0..MaxRuns
         /\ \A k \in todo : k \in Keys /\ k[2] = VS /\ ~Base(k) /\ ~Base(ObjectOf(k))
<1> DEFINE S == {r \in Runs : copy[<<r, 0>>].exists}
<1>1. S \subseteq Nat /\ S # {}
  BY KeysAre DEF Rounds
<1>2. Least(S) \in Runs
  BY <1>1, LeastOf
<1>3. 0 \in Resources
  BY KeysAre DEF Resources
<1>4. <<Least(S), 0>> \in Keys
  BY <1>2, <1>3, KeysAre
<1>5. UpdateNamespace = copy[<<Least(S), 0>>].ns
  BY DEF UpdateNamespace
<1>6. copy[<<Least(S), 0>>] \in Wris
  BY <1>4 DEF TypeOK
<1>7. UpdateNamespace \in 0..MaxRuns
  BY <1>5, <1>6 DEF Wris
<1>8. \A k \in todo : k \in Keys /\ k[2] = VS
  BY DEF TypeOK, Rounds
<1>9. \A k \in todo : ~Base(k) /\ ~Base(ObjectOf(k))
  BY <1>8, KeysAre DEF Base, ObjectOf
<1>10. QED
  BY <1>7, <1>8, <1>9

LEMMA AppliedKept ==
  ASSUME TypeOK, Rounds, pc = "update", NEW k \in todo,
         kube' = [kube EXCEPT ![ObjectOf(k)] = IF copy[k].scheduled THEN 0 ELSE copy[k].def]
  PROVE  kube' \in [Keys -> 0..2] /\ \A o \in Keys : Base(o) => kube'[o] = kube[o]
<1> DEFINE v == IF copy[k].scheduled THEN 0 ELSE copy[k].def
<1>1. k \in Keys /\ ~Base(ObjectOf(k)) /\ kube \in [Keys -> 0..2] /\ copy[k] \in Wris
  BY UpdateKeys DEF TypeOK
<1>2. v \in 0..2
  BY <1>1 DEF Wris
<1>3. kube' = [kube EXCEPT ![ObjectOf(k)] = v]
  OBVIOUS
<1> HIDE DEF v
<1>4. QED
  BY <1>1, <1>2, <1>3

LEMMA WrittenKept ==
  ASSUME TypeOK, Rounds, pc = "applied", NEW k \in todo, wri' = WrittenBack(k)
  PROVE  wri' \in [Keys -> Wris] /\ \A l \in Keys : Base(l) => wri'[l] = wri[l]
<1> DEFINE w == [copy[k] EXCEPT !.ns = UpdateNamespace, !.reconciled = TRUE,
                                !.scheduled = wri[k].scheduled]
           v == IF copy[k].scheduled THEN NoWri ELSE w
<1>1. /\ k \in Keys /\ ~Base(k) /\ UpdateNamespace \in 0..MaxRuns
      /\ wri \in [Keys -> Wris] /\ copy[k] \in Wris /\ wri[k] \in Wris
  BY UpdateKeys DEF TypeOK
<1>2. w \in Wris
  BY <1>1 DEF Wris
<1> HIDE DEF w
<1>3. v \in Wris
  BY <1>2, NoWriTyped
<1>4. wri' = [wri EXCEPT ![k] = v]
  BY DEF WrittenBack, w
<1> HIDE DEF v
<1>5. QED
  BY <1>1, <1>3, <1>4

LEMMA StepEndUpdate == ASSUME IInv, EndUpdate PROVE IInv'
<1> USE DEF IInv
<1>1. /\ pc = "update" /\ Goto("mark")
      /\ UNCHANGED <<row, fixed, kube, wri, workload, events, gatewayVars,
                     created, overlapped, disruptions>>
  BY DEF EndUpdate, At
<1>2. TypeRest'
  BY <1>1 DEF TypeRest, TypeOK, gatewayVars, fixed
<1>3. TypeRound' /\ Rounds'
  BY <1>1, RoundGoes
<1>4. pc' = "mark" /\ copy' = copy
  BY <1>1 DEF Goto
<1>5. \A k \in Keys : Base(k) /\ copy'[k].exists => copy'[k].reconciled
  BY <1>4 DEF BaseKept
<1>6. BaseKept'
  BY <1>1, <1>4, <1>5, BaseUntouched DEF CreateStates, fixed
<1>7. QED
  BY <1>2, <1>3, <1>6, TypeParts

LEMMA StepApply == ASSUME IInv, NEW k \in Keys, Apply(k) PROVE IInv'
<1> USE DEF IInv
<1>1. /\ pc = "update" /\ k \in todo /\ pc' = "applied" /\ todo' = {k}
      /\ kube' = [kube EXCEPT ![ObjectOf(k)] = IF copy[k].scheduled THEN 0 ELSE copy[k].def]
      /\ UNCHANGED <<row, fixed, notif, wri, workload, events, work, run, copy, gatewayVars,
                     created, overlapped, disruptions>>
  BY DEF Apply, At
<1>2. kube' \in [Keys -> 0..2] /\ \A o \in Keys : Base(o) => kube'[o] = kube[o]
  BY <1>1, AppliedKept
<1>3. TypeRest'
  BY <1>1, <1>2 DEF TypeRest, TypeOK, gatewayVars, fixed
<1>4. TypeRound'
  BY <1>1 DEF TypeRound, TypeOK
<1>5. Rounds'
  BY <1>1 DEF Rounds, DeleteStates
<1>6. \A l \in Keys : Base(l) /\ copy'[l].exists => copy'[l].reconciled
  BY <1>1 DEF BaseKept
<1>7. BaseKept'
  BY <1>1, <1>2, <1>6, BaseUntouched DEF CreateStates, fixed
<1>8. QED
  BY <1>3, <1>4, <1>5, <1>7, TypeParts

LEMMA StepWriteBack == ASSUME IInv, WriteBack PROVE IInv'
<1> USE DEF IInv
<1>1. PICK k \in todo :
        /\ wri' = WrittenBack(k)
        /\ todo' = {l \in Keys : copy[l].exists /\ ~copy[l].reconciled} \ {k}
        /\ copy' = [copy EXCEPT ![k].reconciled = TRUE]
  BY DEF WriteBack
<1>2. /\ pc = "applied" /\ pc' = "update"
      /\ UNCHANGED <<row, fixed, notif, kube, workload, events, work, run, gatewayVars,
                     created, overlapped, disruptions>>
  BY DEF WriteBack, At
<1>3. wri' \in [Keys -> Wris] /\ \A l \in Keys : Base(l) => wri'[l] = wri[l]
  BY <1>1, <1>2, WrittenKept
<1>4. copy \in [Keys -> Wris] /\ k \in Keys /\ copy[k] \in Wris
  BY <1>2, UpdateKeys DEF TypeOK
<1>5. copy' = [copy EXCEPT ![k] = [copy[k] EXCEPT !.reconciled = TRUE]]
      /\ [copy[k] EXCEPT !.reconciled = TRUE] \in Wris
  BY <1>1, <1>4 DEF Wris
<1>6. copy' \in [Keys -> Wris]
  BY <1>4, <1>5
<1>7. \A l \in Keys : copy'[l].exists = copy[l].exists
                      /\ (copy'[l].reconciled \/ copy'[l] = copy[l])
  BY <1>4, <1>5 DEF Wris
<1>8. TypeRest'
  BY <1>2, <1>3 DEF TypeRest, TypeOK, gatewayVars, fixed
<1>9. todo' \subseteq Keys
  BY <1>1
<1>10. TypeRound'
  BY <1>2, <1>6, <1>9 DEF TypeRound, TypeOK
<1>11. \A l \in todo' : l[2] = VS
  BY <1>1, KeysAre DEF BaseKept, Base
<1>12. \E r \in Runs : copy'[<<r, 0>>].exists
  <2>1. PICK r \in Runs : copy[<<r, 0>>].exists
    BY <1>2 DEF Rounds
  <2>2. <<r, 0>> \in Keys
    <3>1. 0 \in Resources
      BY KeysAre DEF Resources
    <3>2. QED
      BY <3>1, KeysAre
  <2>3. QED
    BY <1>7, <2>1, <2>2
<1>13. Rounds'
  BY <1>2, <1>11, <1>12 DEF Rounds, DeleteStates
<1>14. \A l \in Keys : Base(l) /\ copy'[l].exists => copy'[l].reconciled
  BY <1>7 DEF BaseKept
<1>15. BaseKept'
  BY <1>2, <1>3, <1>14, BaseUntouched DEF CreateStates, fixed
<1>16. QED
  BY <1>8, <1>10, <1>13, <1>15, TypeParts

LEMMA StepUpdateFails == ASSUME IInv, UpdateFails PROVE IInv'
<1> USE DEF IInv
<1>1. /\ EndRound(FALSE)
      /\ UNCHANGED <<row, fixed, workload, events, gatewayVars, created, overlapped>>
  BY DEF UpdateFails
<1>2. disruptions' \in Nat
  BY DEF UpdateFails, Disrupt, TypeOK
<1> DEFINE Kept ==
      /\ kube' \in [Keys -> 0..2] /\ \A o \in Keys : Base(o) => kube'[o] = kube[o]
      /\ wri' \in [Keys -> Wris] /\ \A l \in Keys : Base(l) => wri'[l] = wri[l]
<1>3. Kept
  <2>1. CASE kube' = kube /\ wri' = wri
    BY <2>1 DEF TypeOK
  <2>2. ASSUME pc = "update", wri' = wri, NEW k \in todo,
               kube' = [kube EXCEPT ![ObjectOf(k)] =
                          IF copy[k].scheduled THEN 0 ELSE copy[k].def]
        PROVE  Kept
    BY <2>2, AppliedKept DEF TypeOK
  <2>3. ASSUME pc = "applied", kube' = kube, NEW k \in todo, wri' = WrittenBack(k)
        PROVE  Kept
    BY <2>3, WrittenKept DEF TypeOK
  <2>4. QED
    BY <2>1, <2>2, <2>3 DEF UpdateFails, At
<1>4. TypeRest'
  BY <1>1, <1>2, <1>3 DEF TypeRest, TypeOK, gatewayVars, fixed
<1>5. QED
  BY <1>1, <1>3, <1>4, StepEnds DEF fixed

(***************************************************************************)
(* Deleted                                                                 *)
(***************************************************************************)

LEMMA WithoutTyped ==
  ASSUME TypeOK, NEW o, kube' \in {kube, Without(o)} PROVE kube' \in [Keys -> 0..2]
  BY DEF TypeOK, Without

LEMMA ForgottenTyped ==
  ASSUME TypeOK, wri' \in {wri, [wri EXCEPT ![Next1] = NoWri]}
  PROVE  wri' \in [Keys -> Wris] /\ \A k \in Keys : wri'[k] \in {wri[k], NoWri}
<1>1. wri \in [Keys -> Wris]
  BY DEF TypeOK
<1>2. QED
  BY <1>1, NoWriTyped

\* A step of Deleted that goes on.
LEMMA StepDeleteGoes ==
  ASSUME IInv, Detach \/ DeleteObject \/ DeleteEvents \/ Dismiss
  PROVE  IInv'
<1> USE DEF IInv
<1>1. /\ pc \in DeleteStates
      /\ UNCHANGED <<row, fixed, wri, gpc, tries, created, overlapped, disruptions>>
      /\ copy' = copy /\ pc' \notin CreateStates
  BY DEF Detach, DeleteObject, DeleteEvents, Dismiss, At, Goto, gatewayVars, DeleteStates,
         CreateStates
<1>2. gateway' \in {"wanted", "live", "updating", "scheduled", "gone"}
  BY DEF Detach, Detached, DeleteObject, DeleteEvents, Dismiss, gatewayVars, TypeOK
<1>3. kube' \in [Keys -> 0..2]
  BY WithoutTyped DEF Detach, DeleteObject, DeleteEvents, Dismiss, TypeOK
<1>4. workload' \in BOOLEAN /\ events' \in BOOLEAN
  <2>1. workload \in BOOLEAN /\ events \in BOOLEAN
    BY DEF TypeOK
  <2>2. workload' \in {workload, FALSE} /\ events' \in {events, FALSE}
    BY DEF Detach, DeleteObject, DeleteEvents, Dismiss
  <2>3. QED
    BY <2>1, <2>2
<1>5. TypeRest'
  BY <1>1, <1>2, <1>3, <1>4 DEF TypeRest, TypeOK, fixed
<1>6. TypeRound' /\ Rounds'
  BY <1>1, RoundGoes DEF Detach, DeleteObject, DeleteEvents, Dismiss, At
<1>7. row'.scheduled
  BY <1>1 DEF Rounds
<1>8. \A k \in Keys : Base(k) /\ copy'[k].exists => copy'[k].reconciled
  BY <1>1 DEF BaseKept
<1>9. BaseKept'
  BY <1>1, <1>7, <1>8, BaseDeleted
<1>10. QED
  BY <1>5, <1>6, <1>9, TypeParts

LEMMA StepDeleteRecord == ASSUME IInv, DeleteRecord PROVE IInv'
<1> USE DEF IInv
<1>1. /\ pc = "deleted" /\ wri' = [wri EXCEPT ![Next1] = NoWri] /\ todo' = todo \ {Next1}
      /\ pc' = IF todo = {Next1} THEN "events" ELSE "delete"
      /\ UNCHANGED <<row, fixed, notif, kube, workload, events, work, run, copy, gatewayVars,
                     created, overlapped, disruptions>>
  BY DEF DeleteRecord, At
<1>2. wri' \in [Keys -> Wris] /\ \A k \in Keys : wri'[k] \in {wri[k], NoWri}
  BY <1>1, ForgottenTyped
<1>3. TypeRest'
  BY <1>1, <1>2 DEF TypeRest, TypeOK, gatewayVars, fixed
<1>4. todo \subseteq Keys /\ todo # {}
  BY <1>1 DEF TypeOK
<1>5. \/ pc' = "events"
      \/ pc' = "delete" /\ todo' # {} /\ todo' \subseteq Keys
  BY <1>1, <1>4
<1>6. TypeRound'
  BY <1>1, <1>5 DEF TypeRound, TypeOK
<1>7. work' = "delete" /\ row'.scheduled
  BY <1>1 DEF Rounds, DeleteStates
<1>8. Rounds'
  BY <1>1, <1>5, <1>7 DEF Rounds, DeleteStates
<1>9. \A k \in Keys : Base(k) /\ copy'[k].exists => copy'[k].reconciled
  BY <1>1 DEF BaseKept
<1>10. BaseKept'
  BY <1>2, <1>5, <1>7, <1>9, BaseDeleted DEF CreateStates
<1>11. QED
  BY <1>3, <1>6, <1>8, <1>10, TypeParts

LEMMA StepDeleteFails ==
  ASSUME IInv, DetachFails \/ DeleteFails \/ DeleteEventsFails \/ DismissFails \/ Remove
  PROVE  IInv'
<1> USE DEF IInv
<1>1. /\ work = "delete"
      /\ UNCHANGED <<fixed, gpc, tries, created, overlapped>>
  BY DEF DetachFails, DeleteFails, DeleteEventsFails, DismissFails, Remove, At, gatewayVars,
         Rounds, DeleteStates
<1>2. PICK settled \in BOOLEAN : EndRound(settled)
  BY DEF DetachFails, DeleteFails, DeleteEventsFails, DismissFails, Remove
<1>3. gateway' \in {"wanted", "live", "updating", "scheduled", "gone"}
  BY DEF DetachFails, Detached, DeleteFails, DeleteEventsFails, DismissFails, Remove,
         gatewayVars, TypeOK
<1>4. kube' \in [Keys -> 0..2]
  <2>1. CASE kube' = kube
    BY <2>1 DEF TypeOK
  <2>2. CASE kube' \in {kube, Without(<<copy[Next1].ns, Next1[2]>>)}
    BY <2>2, WithoutTyped
  <2>3. QED
    BY <2>1, <2>2 DEF DetachFails, DeleteFails, DeleteEventsFails, DismissFails, Remove
<1>5. wri' \in [Keys -> Wris] /\ \A k \in Keys : wri'[k] \in {wri[k], NoWri}
  BY ForgottenTyped DEF DetachFails, DeleteFails, DeleteEventsFails, DismissFails, Remove
<1>6. workload' \in BOOLEAN /\ events' \in BOOLEAN
  <2>1. workload \in BOOLEAN /\ events \in BOOLEAN
    BY DEF TypeOK
  <2>2. workload' \in {workload, FALSE} /\ events' \in {events, FALSE}
    BY DEF DetachFails, DeleteFails, DeleteEventsFails, DismissFails, Remove
  <2>3. QED
    BY <2>1, <2>2
<1>7. disruptions' \in Nat
  <2>1. disruptions \in Nat
    BY DEF TypeOK
  <2>2. disruptions' = disruptions \/ disruptions' = disruptions + 1
    BY DEF DetachFails, DeleteFails, DeleteEventsFails, DismissFails, Remove, Disrupt
  <2>3. QED
    BY <2>1, <2>2
<1>8. /\ row' \in [live : BOOLEAN, scheduled : BOOLEAN, reconciled : BOOLEAN]
      /\ row'.scheduled = row.scheduled
  BY DEF DetachFails, DeleteFails, DeleteEventsFails, DismissFails, Remove, TypeOK
<1>9. TypeRest'
  BY <1>1, <1>3, <1>4, <1>5, <1>6, <1>7, <1>8 DEF TypeRest, TypeOK, fixed
<1>10. QED
  BY <1>1, <1>2, <1>5, <1>8, <1>9, StepDeleteEnds

(***************************************************************************)
(* The theorems                                                            *)
(***************************************************************************)

LEMMA NextIInv == IInv /\ [Next]_vars => IInv'
<1> SUFFICES ASSUME IInv, [Next]_vars PROVE IInv'
  OBVIOUS
<1>1. CASE Next
  <2>1. CASE DefinitionReconciled \/ RequestDeletion \/ AgentReports
    BY <2>1, StepUsers
  <2>2. CASE GatewayStep
    BY <2>2, StepGateway
  <2>3. CASE \E o \in Operations : Take(o)
    BY <2>3, StepObsolete, StepTake DEF Take
  <2>4. CASE \/ BuildNext \/ BuildFails \/ RecordNext \/ RecordFails
             \/ Inform \/ InformFails \/ Mark \/ MarkFails
    BY <2>4, StepBuildNext, StepBuildFails, StepRecordNext, StepRecordFails, StepInform, StepMark
  <2>5. CASE EndUpdate \/ (\E k \in Keys : Apply(k)) \/ WriteBack \/ UpdateFails
    BY <2>5, StepEndUpdate, StepApply, StepWriteBack, StepUpdateFails
  <2>6. CASE \/ Detach \/ DetachFails \/ DeleteObject \/ DeleteFails \/ DeleteRecord
             \/ DeleteEvents \/ DeleteEventsFails \/ Dismiss \/ DismissFails \/ Remove
    BY <2>6, StepDeleteGoes, StepDeleteRecord, StepDeleteFails
  <2>7. CASE Crash
    BY <2>7, StepCrash
  <2>8. QED
    BY <1>1, <2>1, <2>2, <2>3, <2>4, <2>5, <2>6, <2>7 DEF Next, Round
<1>2. CASE UNCHANGED vars
  <2>1. UNCHANGED <<row, managed, defined, kube, wri, workload, events, gateway, gpc, tries,
                    created, overlapped, disruptions, notif, roundVars>>
    BY <1>2 DEF vars, roundVars
  <2>2. TypeRest'
    BY <2>1 DEF TypeRest, TypeOK, IInv
  <2>3. TypeRound' /\ Rounds'
    BY <2>1, RoundStays DEF IInv, TypeOK, Rounds
  <2>4. \A k \in Keys : Base(k) /\ copy'[k].exists => copy'[k].reconciled
    BY <2>1 DEF IInv, BaseKept, roundVars
  <2>5. BaseKept'
    BY <2>1, <2>4, BaseUntouched DEF IInv, roundVars
  <2>6. QED
    BY <2>2, <2>3, <2>5, TypeParts DEF IInv
<1>3. QED
  BY <1>1, <1>2

\* The variables keep their types.
THEOREM Typing == Spec => []TypeOK
<1>1. IInv => TypeOK
  BY DEF IInv
<1>2. QED
  BY <1>1, InitIInv, NextIInv, PTL DEF Spec

\* A workload whose Created got to its end stays complete until its deletion
\* is asked for, whatever the gateway controller, later runs of Created and of
\* Updated, failures and crashes do.
THEOREM CreatedComplete == Spec => []CreatedIsComplete
<1>1. IInv => CreatedIsComplete
  <2> SUFFICES ASSUME IInv, created, ~row.scheduled
               PROVE  /\ workload
                      /\ \E r \in Runs : \A k \in Resources :
                            wri[<<r, k>>].exists /\ kube[<<wri[<<r, k>>].ns, k>>] # 0
    BY DEF CreatedIsComplete
  <2>1. PICK r \in Runs : Complete(r)
    BY DEF IInv, BaseKept
  <2>2. workload
    BY DEF IInv, BaseKept
  <2>3. \A k \in Resources : Base(<<r, k>>) /\ <<r, k>>[2] = k
    BY KeysAre DEF Base
  <2>4. \A k \in Resources : wri[<<r, k>>].exists /\ kube[<<wri[<<r, k>>].ns, k>>] # 0
    BY <2>1, <2>3 DEF IInv, BaseKept, Complete, Base
  <2>5. QED
    BY <2>2, <2>4
<1>2. QED
  BY <1>1, InitIInv, NextIInv, PTL DEF Spec

(***************************************************************************)
(* What a deletion may leave behind                                        *)
(***************************************************************************)

\* The namespace of a run of Created, and whether some record names it.
OwnNamespace(r) == IF managed THEN r ELSE 1
Named(n) == \E r \in Runs : wri[<<r, 0>>].exists /\ wri[<<r, 0>>].ns = n

\* Everything in the cluster was made by a run, and is a Namespace or in one
\* that a record names; the Namespace is recorded before what is in it.
Traces ==
    /\ \A o \in Keys : kube[o] # 0 => o[1] \in 1..run
    /\ \A r \in Runs : wri[<<r, 0>>].exists =>
          r \in 1..run /\ wri[<<r, 0>>].ns = OwnNamespace(r)
    /\ \A o \in Keys : kube[o] # 0 /\ o[2] # 0 => Named(o[1])
    /\ ~row.scheduled =>
          \A k \in Keys : Base(k) /\ wri[k].exists => wri[<<k[1], 0>>].exists

\* What a round has read is still what is recorded of the workload's own
\* resources; Deleted forgets none of them, a Namespace after it is empty, and
\* the row goes when all are forgotten.
Reading ==
    /\ pc \in {"update", "applied"} => \A k \in Keys : Base(k) => copy[k] = wri[k]
    /\ pc \in {"detach", "delete", "deleted"} =>
          \A k \in Keys : Base(k) /\ wri[k].exists => k \in todo /\ copy[k] = wri[k]
    /\ pc = "deleted" =>
          \A k \in Keys : k = Next1 /\ k[2] = 0 /\ wri[k].exists =>
              \A o \in Keys : o[1] = wri[k].ns => kube[o] = 0
    /\ pc \in {"events", "dismiss", "remove"} \/ ~row.live =>
          \A k \in Keys : Base(k) => ~wri[k].exists
    /\ ~row.live => pc = "idle" /\ row.scheduled

\* When a Created has got to its end there is a run whose Namespace is named,
\* or was deleted and will not be made again.
Spared ==
    created => \E r \in 1..run :
        Named(r) \/ (kube[<<r, 0>>] = 0 /\ row.scheduled /\ pc \notin CreateStates)

TraceInv == Traces /\ Reading /\ Spared

LEMMA NamespaceKeys ==
    /\ 0 # VS
    /\ \A r \in Runs : <<r, 0>> \in Keys /\ Base(<<r, 0>>)
    /\ TypeOK => run \in Nat /\ 1..run \subseteq Runs
<1>1. 0 \in Resources /\ 0 # VS
  BY KeysAre DEF Resources
<1>2. \A r \in Runs : <<r, 0>> \in Keys /\ Base(<<r, 0>>)
  BY <1>1, KeysAre DEF Base
<1>3. ASSUME TypeOK PROVE run \in Nat /\ 1..run \subseteq Runs
  <2>1. run \in Nat /\ run <= MaxRuns /\ MaxRuns \in Nat
    BY <1>3, KeysAre DEF TypeOK
  <2>2. QED
    BY <2>1 DEF Runs
<1>4. QED
  BY <1>1, <1>2, <1>3

LEMMA InitTrace == Init => TraceInv
<1> SUFFICES ASSUME Init PROVE TraceInv
  OBVIOUS
<1>1. \A o \in Keys : kube[o] = 0 /\ ~wri[o].exists
  BY NoWriTyped DEF Init
<1>2. Traces
  BY <1>1, NamespaceKeys DEF Traces
<1>3. Reading
  BY DEF Init, Reading
<1>4. Spared
  BY DEF Init, Spared
<1>5. QED
  BY <1>2, <1>3, <1>4 DEF TraceInv

\* A step that leaves the records of the workload's own resources alone and
\* makes nothing in a namespace that is not named.
LEMMA TraceKept ==
  ASSUME TypeOK, TraceInv, Reading', run' \in Nat, run <= run',
         managed' = managed, created' = created, row.scheduled => row'.scheduled,
         \A k \in Keys : Base(k) => wri'[k] = wri[k],
         \A o \in Keys : kube'[o] # 0 => o[1] \in 1..run' /\ (o[2] # 0 => Named(o[1])),
         \/ ~row.scheduled
         \/ pc \in CreateStates
         \/ /\ pc' \notin CreateStates
            /\ \A r \in Runs : kube[<<r, 0>>] = 0 => kube'[<<r, 0>>] = 0
  PROVE  TraceInv'
<1>1. run \in Nat /\ 1..run \subseteq Runs /\ 1..run \subseteq 1..run'
  BY NamespaceKeys
<1>2. \A r \in Runs : wri'[<<r, 0>>] = wri[<<r, 0>>]
  BY NamespaceKeys
<1>3. \A n : Named(n) => Named(n)'
  BY <1>2 DEF Named
<1>4. Traces'
  <2>1. \A r \in Runs : wri'[<<r, 0>>].exists =>
          r \in 1..run' /\ wri'[<<r, 0>>].ns = OwnNamespace(r)'
    BY <1>1, <1>2 DEF TraceInv, Traces, OwnNamespace
  <2>2. \A o \in Keys : kube'[o] # 0 /\ o[2] # 0 => Named(o[1])'
    BY <1>3
  <2>3. ASSUME ~row'.scheduled, NEW k \in Keys, Base(k), wri'[k].exists
        PROVE  wri'[<<k[1], 0>>].exists
    <3>1. wri[<<k[1], 0>>].exists /\ k[1] \in Runs
      BY <2>3, KeysAre DEF TraceInv, Traces
    <3>2. QED
      BY <1>2, <3>1
  <2>4. QED
    BY <2>1, <2>2, <2>3 DEF Traces
<1>5. Spared'
  <2> SUFFICES ASSUME created'
               PROVE  \E r \in 1..run' :
                         \/ Named(r)'
                         \/ kube'[<<r, 0>>] = 0 /\ row'.scheduled /\ pc' \notin CreateStates
    BY DEF Spared
  <2>1. PICK r \in 1..run :
          Named(r) \/ (kube[<<r, 0>>] = 0 /\ row.scheduled /\ pc \notin CreateStates)
    BY DEF TraceInv, Spared
  <2>2. r \in Runs /\ r \in 1..run'
    BY <1>1
  <2>3. CASE Named(r)
    BY <1>3, <2>2, <2>3
  <2>4. CASE ~Named(r)
    <3>1. kube[<<r, 0>>] = 0 /\ row.scheduled /\ pc \notin CreateStates
      BY <2>1, <2>4
    <3>2. kube'[<<r, 0>>] = 0 /\ row'.scheduled /\ pc' \notin CreateStates
      BY <2>2, <3>1
    <3>3. QED
      BY <2>2, <3>2
  <2>5. QED
    BY <2>3, <2>4
<1>6. QED
  BY <1>4, <1>5 DEF TraceInv

\* What is in the cluster before a step keeps its trace.
LEMMA TraceThere ==
  ASSUME TraceInv, NEW o \in Keys, kube[o] # 0
  PROVE  o[1] \in 1..run /\ (o[2] # 0 => Named(o[1]))
  BY DEF TraceInv, Traces

\* A round that ends while the row is there.
LEMMA ReadingEnds ==
  ASSUME Reading, pc # "idle", NEW settled, EndRound(settled), row'.live = row.live
  PROVE  Reading'
<1>1. pc' = "idle" /\ row'.live
  BY DEF Reading, EndRound
<1>2. QED
  BY <1>1 DEF Reading

\* Steps of the users, of the agent and of the gateway controller, and of the
\* loop that drops a notification.
LEMMA TraceOthers ==
  ASSUME IInv, TraceInv,
         \/ DefinitionReconciled \/ RequestDeletion \/ AgentReports \/ GatewayStep
         \/ \E o \in Operations : Obsolete(o)
  PROVE  TraceInv'
<1>1. UNCHANGED <<managed, kube, pc, run, todo, copy, created>>
  BY DEF DefinitionReconciled, RequestDeletion, AgentReports, GatewayStep, GatewayValidate,
         GatewayCreate, GatewayUpdate, GatewayRequest, GatewayFind, GatewayDelete, GatewayPatch,
         GatewayMisses, GatewayFails, GatewayEnds, Obsolete,
         fixed, roundVars
<1>2. row'.live = row.live /\ (row.scheduled => row'.scheduled)
  BY DEF DefinitionReconciled, RequestDeletion, AgentReports, GatewayStep, GatewayValidate,
         GatewayCreate, GatewayUpdate, GatewayRequest, GatewayFind, GatewayDelete, GatewayPatch,
         GatewayMisses, GatewayFails, GatewayEnds, Obsolete,
         Unreconciled, IInv, TypeOK
<1>3. \A k \in Keys : Base(k) => wri'[k] = wri[k]
  <2>1. CASE wri' = wri
    BY <2>1
  <2>2. CASE \E k, w : k[2] = VS /\ Writes(k, w)
    <3>1. PICK k, w : k[2] = VS /\ Writes(k, w)
      BY <2>2
    <3>2. wri' = [wri EXCEPT ![k] = w]
      BY <3>1 DEF Writes
    <3>3. wri \in [Keys -> Wris] /\ ~Base(k)
      BY <3>1, KeysAre DEF Base, IInv, TypeOK
    <3>4. QED
      BY <3>2, <3>3
  <2>3. CASE GatewayStep
    <3>1. \/ wri' = wri
          \/ \E w : Writes(<<tries', VS>>, w)
          \/ \E k \in GatewayWris : \E w : Writes(k, w)
      BY <2>3 DEF GatewayStep, GatewayValidate, GatewayCreate, GatewayUpdate, GatewayRequest,
                  GatewayFind, GatewayDelete, GatewayPatch, GatewayMisses, GatewayFails, GatewayEnds
    <3>2. <<tries', VS>>[2] = VS
      OBVIOUS
    <3>3. \A k \in GatewayWris : k[2] = VS
      BY DEF GatewayWris
    <3>4. QED
      BY <2>1, <2>2, <3>1, <3>2, <3>3
  <2>4. CASE ~GatewayStep
    BY <2>1, <2>4 DEF DefinitionReconciled, RequestDeletion, AgentReports, Obsolete
  <2>5. QED
    BY <2>3, <2>4
<1>4. Next1' = Next1
  BY <1>1 DEF Next1
<1>5. Reading'
  <2>1. \A k \in Keys : k[2] = 0 => Base(k)
    BY KeysAre, NamespaceKeys DEF Base
  <2>2. /\ pc \in {"update", "applied"} => \A k \in Keys : Base(k) => copy[k] = wri'[k]
        /\ pc \in {"detach", "delete", "deleted"} =>
              \A k \in Keys : Base(k) /\ wri'[k].exists => k \in todo /\ copy[k] = wri'[k]
        /\ pc \in {"events", "dismiss", "remove"} \/ ~row.live =>
              \A k \in Keys : Base(k) => ~wri'[k].exists
        /\ ~row.live => pc = "idle" /\ row.scheduled
    BY <1>3 DEF TraceInv, Reading
  <2>3. pc = "deleted" =>
          \A k \in Keys : k = Next1 /\ k[2] = 0 /\ wri'[k].exists =>
              \A o \in Keys : o[1] = wri'[k].ns => kube[o] = 0
    <3>1. \A k \in Keys : k[2] = 0 => wri'[k] = wri[k]
      BY <1>3, <2>1
    <3>2. QED
      BY <3>1 DEF TraceInv, Reading
  <2>4. QED
    BY <1>1, <1>2, <1>4, <2>2, <2>3 DEF Reading
<1>6. run \in Nat
  BY NamespaceKeys DEF IInv
<1>7. \A o \in Keys : kube'[o] # 0 => o[1] \in 1..run' /\ (o[2] # 0 => Named(o[1]))
  BY <1>1, TraceThere
<1>8. QED
  BY <1>1, <1>2, <1>3, <1>5, <1>6, <1>7, TraceKept DEF IInv

\* A round begins.
LEMMA TraceTake ==
  ASSUME IInv, TraceInv, SkipCreate \/ StartCreate \/ StartUpdate \/ StartDelete
  PROVE  TraceInv'
<1>1. UNCHANGED <<row, managed, kube, wri, created>> /\ copy' = wri
  BY DEF SkipCreate, StartCreate, StartUpdate, StartDelete, EnterRound, fixed
<1>2. row.live
  BY DEF SkipCreate, StartCreate, StartUpdate, StartDelete
<1>3. run \in Nat
  BY NamespaceKeys DEF IInv
<1>4. run' \in Nat /\ run <= run'
  BY <1>3 DEF SkipCreate, StartCreate, StartUpdate, StartDelete
<1>5. \/ pc' \in {"mark", "build", "update"}
      \/ pc' \in {"remove", "detach"} /\ todo' = Recorded /\ (pc' = "remove" => Recorded = {})
  BY DEF SkipCreate, StartCreate, StartUpdate, StartDelete, EnterRound
<1>6. Reading'
  <2>1. CASE pc' \in {"mark", "build", "update"}
    BY <1>1, <1>2, <2>1 DEF Reading
  <2>2. CASE pc' \in {"remove", "detach"} /\ todo' = Recorded /\ (pc' = "remove" => Recorded = {})
    BY <1>1, <1>2, <2>2 DEF Reading, Recorded
  <2>3. QED
    BY <1>5, <2>1, <2>2
<1>7. ~row.scheduled \/ pc' \notin CreateStates
  BY DEF SkipCreate, StartCreate, StartUpdate, StartDelete, EnterRound, CreateStates
<1>8. \A o \in Keys : kube'[o] # 0 => o[1] \in 1..run' /\ (o[2] # 0 => Named(o[1]))
  <2>1. \A i \in 1..run : i \in 1..run'
    BY <1>3, <1>4
  <2>2. QED
    BY <1>1, <2>1, TraceThere
<1>9. QED
  BY <1>1, <1>4, <1>6, <1>7, <1>8, TraceKept DEF IInv

\* A round ends.
LEMMA TraceEnds ==
  ASSUME IInv, TraceInv, pc # "idle", NEW settled, EndRound(settled),
         row'.live = row.live, row.scheduled => row'.scheduled,
         managed' = managed, created' = created,
         \A k \in Keys : Base(k) => wri'[k] = wri[k],
         \A o \in Keys : kube'[o] # 0 => o[1] \in 1..run /\ (o[2] # 0 => Named(o[1])),
         pc \in CreateStates \/ \A r \in Runs : kube[<<r, 0>>] = 0 => kube'[<<r, 0>>] = 0
  PROVE  TraceInv'
<1>1. pc' \notin CreateStates /\ run' = run
  BY DEF EndRound, CreateStates
<1>2. Reading'
  BY ReadingEnds DEF TraceInv
<1>3. run \in Nat
  BY NamespaceKeys DEF IInv
<1>4. QED
  BY <1>1, <1>2, <1>3, TraceKept DEF IInv

LEMMA TraceSettles ==
  ASSUME IInv, TraceInv,
         \/ InformFails \/ Mark \/ MarkFails \/ DetachFails \/ DeleteEventsFails \/ DismissFails
         \/ Crash
  PROVE  TraceInv'
<1>1. UNCHANGED <<managed, kube, wri, created>> /\ pc # "idle"
  BY DEF InformFails, Mark, MarkFails, DetachFails, DeleteEventsFails, DismissFails, Crash, fixed,
         At
<1>2. EndRound(TRUE) \/ EndRound(FALSE)
  BY DEF InformFails, Mark, MarkFails, DetachFails, DeleteEventsFails, DismissFails, Crash
<1>3. row'.live = row.live /\ row'.scheduled = row.scheduled
  BY DEF InformFails, Mark, MarkFails, DetachFails, DeleteEventsFails, DismissFails, Crash,
         IInv, TypeOK
<1>4. \A o \in Keys : kube'[o] # 0 => o[1] \in 1..run /\ (o[2] # 0 => Named(o[1]))
  BY <1>1, TraceThere
<1>5. QED
  BY <1>1, <1>2, <1>3, <1>4, TraceEnds

\* What Created builds is a Namespace, or has one that is recorded.
LEMMA BuiltTraced ==
  ASSUME IInv, TraceInv, pc = "build",
         \/ kube' = kube
         \/ kube' = [kube EXCEPT ![<<Namespace, Next0>>] = IF @ = 0 THEN 1 ELSE @]
  PROVE  \A o \in Keys : kube'[o] # 0 => o[1] \in 1..run /\ (o[2] # 0 => Named(o[1]))
<1>1. Next0 \in todo /\ Next0 \in Resources /\ run \in Runs /\ Namespace \in Runs
  BY CreateKeys DEF IInv
<1>2. Namespace \in 1..run
  <2>1. run \in Nat /\ run > 0
    BY <1>1 DEF Runs
  <2>2. QED
    BY <2>1 DEF Namespace
<1>3. ASSUME Next0 # 0 PROVE Named(Namespace)
  <2>1. 0 \notin todo
    <3>1. todo \subseteq Nat /\ todo # {}
      BY KeysAre DEF IInv, TypeOK, Resources
    <3>2. Least(todo) \in Nat /\ \A l \in todo : Least(todo) <= l
      BY <3>1, LeastBelow
    <3>3. 0 \in todo => Least(todo) = 0
      BY <3>2
    <3>4. QED
      BY <1>3, <3>3 DEF Next0
  <2>2. 0 \in Resources
    BY KeysAre DEF Resources
  <2>3. wri[<<run, 0>>].exists
    BY <2>1, <2>2 DEF IInv, BaseKept
  <2>4. wri[<<run, 0>>].ns = Namespace
    BY <1>1, <2>3 DEF TraceInv, Traces, OwnNamespace, Namespace
  <2>5. QED
    BY <1>1, <2>3, <2>4 DEF Named
<1>4. ASSUME NEW o \in Keys, kube'[o] # 0, o # <<Namespace, Next0>>
      PROVE  kube[o] # 0
  BY <1>4 DEF IInv, TypeOK
<1>5. QED
  BY <1>2, <1>3, <1>4, TraceThere

LEMMA TraceBuild == ASSUME IInv, TraceInv, BuildNext \/ BuildFails PROVE TraceInv'
<1>1. /\ pc = "build" /\ UNCHANGED <<row, managed, wri, created>>
      /\ \/ kube' = kube
         \/ kube' = [kube EXCEPT ![<<Namespace, Next0>>] = IF @ = 0 THEN 1 ELSE @]
  BY DEF BuildNext, BuildFails, At, fixed
<1>2. \A o \in Keys : kube'[o] # 0 => o[1] \in 1..run /\ (o[2] # 0 => Named(o[1]))
  BY <1>1, BuiltTraced
<1>3. pc \in CreateStates
  BY <1>1 DEF CreateStates
<1>4. CASE BuildFails
  BY <1>1, <1>2, <1>3, <1>4, TraceEnds DEF BuildFails
<1>5. CASE BuildNext
  <2>1. pc' = "record" /\ run' = run
    BY <1>5 DEF BuildNext, Goto
  <2>2. row.live
    BY <1>1 DEF TraceInv, Reading
  <2>3. Reading'
    BY <1>1, <2>1, <2>2 DEF Reading
  <2>4. run \in Nat
    BY NamespaceKeys DEF IInv
  <2>5. QED
    BY <1>1, <1>2, <1>3, <2>1, <2>3, <2>4, TraceKept DEF IInv
<1>6. QED
  BY <1>4, <1>5

\* What Created records is the Namespace, or comes after it.
LEMMA TraceRecord == ASSUME IInv, TraceInv, RecordNext \/ RecordFails PROVE TraceInv'
<1>1. /\ pc = "record" /\ UNCHANGED <<row, managed, kube, created, run>>
      /\ wri' \in {wri, WithRecord}
  BY DEF RecordNext, RecordFails, At, fixed, EndRound
<1>2. pc' \in {"idle", "inform", "build"} /\ row.live
  BY <1>1 DEF RecordNext, RecordFails, EndRound, TraceInv, Reading
<1>3. Reading'
  BY <1>1, <1>2 DEF Reading
<1>4. run \in Nat /\ 1..run \subseteq Runs
  BY NamespaceKeys DEF IInv
<1>5. CASE wri' = wri
  <2>1. \A o \in Keys : kube'[o] # 0 => o[1] \in 1..run /\ (o[2] # 0 => Named(o[1]))
    BY <1>1, TraceThere
  <2>2. QED
    BY <1>1, <1>3, <1>4, <1>5, <2>1, TraceKept DEF IInv, CreateStates
<1>6. CASE wri' = WithRecord
  <2> DEFINE w == [exists |-> TRUE, ns |-> Namespace, def |-> 1, reconciled |-> TRUE,
                   scheduled |-> FALSE]
  <2>1. /\ Next0 \in todo /\ run \in Runs /\ <<run, Next0>> \in Keys
        /\ wri \in [Keys -> Wris]
    BY <1>1, CreateKeys DEF Base, IInv, TypeOK
  <2>2. wri' = [wri EXCEPT ![<<run, Next0>>] = w]
    BY <1>6 DEF WithRecord
  <2>3. w.exists /\ w.ns = OwnNamespace(run)
    BY DEF OwnNamespace, Namespace
  <2> HIDE DEF w
  <2>4. wri'[<<run, Next0>>] = w /\ \A k \in Keys : k # <<run, Next0>> => wri'[k] = wri[k]
    BY <2>1, <2>2
  <2>5. \A r \in Runs : wri'[<<r, 0>>].exists =>
          r \in 1..run /\ wri'[<<r, 0>>].ns = OwnNamespace(r)
    <3>1. run \in 1..run
      BY <2>1 DEF Runs
    <3>2. QED
      BY <2>3, <2>4, <3>1, NamespaceKeys DEF TraceInv, Traces
  <2>6. \A r \in Runs : wri[<<r, 0>>].exists =>
          wri'[<<r, 0>>].exists /\ wri'[<<r, 0>>].ns = wri[<<r, 0>>].ns
    BY <2>3, <2>4, NamespaceKeys DEF TraceInv, Traces
  <2>7. \A n : Named(n) => Named(n)'
    BY <2>6 DEF Named
  <2>8. wri'[<<run, 0>>].exists
    <3>1. CASE Next0 = 0
      BY <2>3, <2>4, <3>1
    <3>2. CASE Next0 # 0
      <4>1. 0 \notin todo
        <5>1. todo \subseteq Nat /\ todo # {}
          BY <1>1, KeysAre DEF IInv, TypeOK, Resources
        <5>2. Least(todo) \in Nat /\ \A l \in todo : Least(todo) <= l
          BY <5>1, LeastBelow
        <5>3. 0 \in todo => Least(todo) = 0
          BY <5>2
        <5>4. QED
          BY <3>2, <5>3 DEF Next0
      <4>2. 0 \in Resources
        BY KeysAre DEF Resources
      <4>3. wri[<<run, 0>>].exists
        BY <1>1, <4>1, <4>2 DEF IInv, BaseKept
      <4>4. QED
        BY <2>1, <2>6, <4>3
    <3>3. QED
      BY <3>1, <3>2
  <2>9. Traces'
    <3>1. ASSUME ~row'.scheduled, NEW k \in Keys, Base(k), wri'[k].exists
          PROVE  wri'[<<k[1], 0>>].exists
      <4>1. CASE k = <<run, Next0>>
        BY <2>8, <4>1
      <4>2. CASE k # <<run, Next0>>
        <5>1. wri[<<k[1], 0>>].exists /\ k[1] \in Runs
          BY <1>1, <2>4, <3>1, <4>2, KeysAre DEF TraceInv, Traces
        <5>2. QED
          BY <2>6, <5>1
      <4>3. QED
        BY <4>1, <4>2
    <3>2. \A o \in Keys : kube[o] # 0 => o[1] \in 1..run /\ (o[2] # 0 => Named(o[1])')
      BY <2>7, TraceThere
    <3>3. OwnNamespace(run)' = OwnNamespace(run) /\ \A r : OwnNamespace(r)' = OwnNamespace(r)
      BY <1>1 DEF OwnNamespace
    <3>4. QED
      BY <1>1, <2>5, <3>1, <3>2, <3>3 DEF Traces
  <2>10. Spared'
    <3> SUFFICES ASSUME created PROVE \E r \in 1..run : Named(r)'
      BY <1>1 DEF Spared
    <3>1. PICK r \in 1..run : Named(r)
      BY <1>1 DEF TraceInv, Spared, CreateStates
    <3>2. QED
      BY <2>7, <3>1
  <2>11. QED
    BY <1>3, <2>9, <2>10 DEF TraceInv
<1>7. QED
  BY <1>1, <1>5, <1>6

LEMMA TraceInform == ASSUME IInv, TraceInv, Inform PROVE TraceInv'
<1>1. /\ pc = "inform" /\ pc' = "mark" /\ UNCHANGED <<row, managed, kube, wri, run>>
  BY DEF Inform, At, Goto, fixed
<1>2. row.live
  BY <1>1 DEF TraceInv, Reading
<1>3. Reading'
  BY <1>1, <1>2 DEF Reading
<1>4. \A n : Named(n)' = Named(n)
  BY <1>1 DEF Named
<1>5. Traces'
  BY <1>1, <1>4 DEF TraceInv, Traces, OwnNamespace
<1>6. Spared'
  <2>1. run \in Runs /\ wri[<<run, 0>>].exists
    <3>1. 0 \in Resources
      BY KeysAre DEF Resources
    <3>2. QED
      BY <1>1, <3>1 DEF IInv, TypeOK, Rounds, BaseKept, Complete, Runs
  <2>2. wri[<<run, 0>>].ns = OwnNamespace(run) /\ OwnNamespace(run) \in 1..run
    BY <2>1 DEF TraceInv, Traces, OwnNamespace, Runs
  <2>3. Named(OwnNamespace(run))
    BY <2>1, <2>2 DEF Named
  <2>4. \E r \in 1..run : Named(r)
    BY <2>2, <2>3
  <2>5. QED
    BY <1>1, <1>4, <2>4 DEF Spared
<1>7. QED
  BY <1>3, <1>5, <1>6 DEF TraceInv

\* Updated works in a namespace that is named.
LEMMA UpdateNamed ==
  ASSUME IInv, TraceInv, pc \in {"update", "applied"}
  PROVE  /\ UpdateNamespace \in 1..run /\ Named(UpdateNamespace)
         /\ UpdateNamespace = OwnNamespace(Least({r \in Runs : wri[<<r, 0>>].exists}))
<1> DEFINE S == {r \in Runs : wri[<<r, 0>>].exists}
<1>1. \A r \in Runs : copy[<<r, 0>>] = wri[<<r, 0>>]
  BY NamespaceKeys DEF TraceInv, Reading
<1>2. {r \in Runs : copy[<<r, 0>>].exists} = S
  BY <1>1
<1>3. S \subseteq Nat /\ S # {}
  BY <1>2, KeysAre DEF IInv, Rounds
<1>4. Least(S) \in S
  BY <1>3, LeastOf
<1>5. UpdateNamespace = wri[<<Least(S), 0>>].ns
  BY <1>1, <1>2, <1>4 DEF UpdateNamespace
<1>6. UpdateNamespace = OwnNamespace(Least(S)) /\ Least(S) \in 1..run
  BY <1>4, <1>5 DEF TraceInv, Traces
<1>7. UpdateNamespace \in 1..run
  <2>1. run \in Nat
    BY NamespaceKeys DEF IInv
  <2>2. QED
    BY <1>6, <2>1 DEF OwnNamespace
<1>8. Named(UpdateNamespace)
  BY <1>4, <1>5 DEF Named
<1>9. QED
  BY <1>6, <1>7, <1>8

LEMMA AppliedTraced ==
  ASSUME IInv, TraceInv, pc = "update", NEW k \in todo,
         kube' = [kube EXCEPT ![ObjectOf(k)] = IF copy[k].scheduled THEN 0 ELSE copy[k].def]
  PROVE  /\ \A o \in Keys : kube'[o] # 0 => o[1] \in 1..run /\ (o[2] # 0 => Named(o[1]))
         /\ \A r \in Runs : kube'[<<r, 0>>] = kube[<<r, 0>>]
<1>1. \A o \in Keys : o # ObjectOf(k) => kube'[o] = kube[o]
  BY DEF IInv, TypeOK
<1>2. ASSUME NEW o \in Keys, kube'[o] # 0, o = ObjectOf(k)
      PROVE  o[1] \in 1..run /\ Named(o[1])
  BY <1>2, UpdateNamed DEF ObjectOf
<1>3. \A r \in Runs : <<r, 0>> # ObjectOf(k)
  BY UpdateKeys, NamespaceKeys DEF IInv
<1>4. QED
  BY <1>1, <1>2, <1>3, NamespaceKeys, TraceThere

LEMMA TraceUpdate ==
  ASSUME IInv, TraceInv, EndUpdate \/ (\E k \in Keys : Apply(k)) \/ WriteBack
  PROVE  TraceInv'
<1>1. /\ pc \in {"update", "applied"} /\ pc' \in {"update", "applied", "mark"}
      /\ UNCHANGED <<row, managed, created, run>>
  BY DEF EndUpdate, Apply, WriteBack, At, Goto, fixed
<1>2. row.live
  BY <1>1 DEF TraceInv, Reading
<1>3. run \in Nat /\ pc' \notin CreateStates
  BY <1>1, NamespaceKeys DEF IInv, CreateStates
<1>4. CASE EndUpdate \/ \E k \in Keys : Apply(k)
  <2>1. wri' = wri /\ copy' = copy
    BY <1>4 DEF EndUpdate, Apply, Goto
  <2>2. /\ \A o \in Keys : kube'[o] # 0 => o[1] \in 1..run /\ (o[2] # 0 => Named(o[1]))
        /\ \A r \in Runs : kube'[<<r, 0>>] = kube[<<r, 0>>]
    <3>1. CASE EndUpdate
      BY <3>1, TraceThere DEF EndUpdate
    <3>2. CASE \E k \in Keys : Apply(k)
      BY <3>2, AppliedTraced DEF Apply, At
    <3>3. QED
      BY <1>4, <3>1, <3>2
  <2>3. Reading'
    BY <1>1, <1>2, <2>1 DEF Reading, TraceInv
  <2>4. QED
    BY <1>1, <1>3, <2>1, <2>2, <2>3, TraceKept DEF IInv
<1>5. CASE WriteBack
  <2>1. PICK k \in todo : wri' = WrittenBack(k) /\ copy' = [copy EXCEPT ![k].reconciled = TRUE]
    BY <1>5 DEF WriteBack
  <2>2. pc = "applied" /\ kube' = kube
    BY <1>5 DEF WriteBack, At
  <2>3. \A l \in Keys : Base(l) => wri'[l] = wri[l]
    BY <2>1, <2>2, WrittenKept DEF IInv
  <2>4. \A l \in Keys : Base(l) => copy'[l] = copy[l]
    BY <2>1, <2>2, UpdateKeys DEF IInv, TypeOK
  <2>5. Reading'
    BY <1>1, <1>2, <2>3, <2>4 DEF Reading, TraceInv
  <2>6. \A o \in Keys : kube'[o] # 0 => o[1] \in 1..run /\ (o[2] # 0 => Named(o[1]))
    BY <2>2, TraceThere
  <2>7. QED
    BY <1>1, <1>3, <2>2, <2>3, <2>5, <2>6, TraceKept DEF IInv
<1>6. QED
  BY <1>4, <1>5

LEMMA TraceUpdateFails == ASSUME IInv, TraceInv, UpdateFails PROVE TraceInv'
<1>1. /\ EndRound(FALSE) /\ pc # "idle" /\ UNCHANGED <<row, managed, created>>
  BY DEF UpdateFails, fixed, At
<1>2. CASE kube' = kube
  <2>1. \A o \in Keys : kube'[o] # 0 => o[1] \in 1..run /\ (o[2] # 0 => Named(o[1]))
    BY <1>2, TraceThere
  <2>2. \A k \in Keys : Base(k) => wri'[k] = wri[k]
    <3>1. ASSUME pc = "applied", NEW k \in todo, wri' = WrittenBack(k)
          PROVE  \A l \in Keys : Base(l) => wri'[l] = wri[l]
      BY <3>1, WrittenKept DEF IInv
    <3>2. QED
      BY <3>1 DEF UpdateFails, At
  <2>3. QED
    BY <1>1, <1>2, <2>1, <2>2, TraceEnds
<1>3. CASE kube' # kube
  <2>1. wri' = wri /\ pc = "update" /\ \E k \in todo :
          kube' = [kube EXCEPT ![ObjectOf(k)] = IF copy[k].scheduled THEN 0 ELSE copy[k].def]
    BY <1>3 DEF UpdateFails, At
  <2>2. /\ \A o \in Keys : kube'[o] # 0 => o[1] \in 1..run /\ (o[2] # 0 => Named(o[1]))
        /\ \A r \in Runs : kube'[<<r, 0>>] = kube[<<r, 0>>]
    BY <2>1, AppliedTraced
  <2>3. QED
    BY <1>1, <2>1, <2>2, TraceEnds
<1>4. QED
  BY <1>2, <1>3

LEMMA TraceDelete ==
  ASSUME IInv, TraceInv, Detach \/ DeleteObject \/ DeleteEvents \/ Dismiss
  PROVE  TraceInv'
<1>1. UNCHANGED <<row, managed, wri, created, run, todo, copy>> /\ pc' \notin CreateStates
  BY DEF Detach, DeleteObject, DeleteEvents, Dismiss, Goto, fixed, CreateStates
<1>2. row.live
  BY DEF Detach, DeleteObject, DeleteEvents, Dismiss, At, TraceInv, Reading
<1>3. \A o \in Keys : kube'[o] \in {0, kube[o]}
  BY DEF Detach, DeleteObject, DeleteEvents, Dismiss, Without
<1>4. Reading'
  <2>1. CASE DeleteObject
    <3>1. /\ pc = "delete" /\ pc' = "deleted" /\ kube' = Without(<<copy[Next1].ns, Next1[2]>>)
          /\ Next1' = Next1
      BY <2>1 DEF DeleteObject, At, Goto, Next1
    <3>2. \A k \in Keys : Base(k) /\ wri[k].exists => k \in todo /\ copy[k] = wri[k]
      BY <3>1 DEF TraceInv, Reading
    <3>3. ASSUME NEW k \in Keys, k = Next1, k[2] = 0, wri[k].exists,
                 NEW o \in Keys, o[1] = wri[k].ns
          PROVE  kube'[o] = 0
      <4>1. copy[Next1] = wri[k]
        BY <3>2, <3>3, KeysAre, NamespaceKeys DEF Base
      <4>2. kube' = Without(<<wri[k].ns, 0>>)
        BY <3>1, <3>3, <4>1
      <4>3. QED
        BY <3>3, <4>2 DEF Without
    <3>4. QED
      BY <1>1, <1>2, <3>1, <3>2, <3>3 DEF Reading
  <2>2. CASE Detach
    BY <1>1, <1>2, <2>2 DEF Detach, At, Goto, TraceInv, Reading
  <2>3. CASE DeleteEvents \/ Dismiss
    BY <1>1, <1>2, <2>3 DEF DeleteEvents, Dismiss, At, Goto, TraceInv, Reading
  <2>4. QED
    BY <2>1, <2>2, <2>3
<1>5. run \in Nat
  BY NamespaceKeys DEF IInv
<1>6. \A o \in Keys : kube'[o] # 0 => o[1] \in 1..run' /\ (o[2] # 0 => Named(o[1]))
  BY <1>1, <1>3, TraceThere
<1>7. QED
  BY <1>1, <1>3, <1>4, <1>5, <1>6, NamespaceKeys, TraceKept DEF IInv

\* A record that is deleted was of a resource that is gone.
LEMMA TraceForgotten ==
  ASSUME IInv, TraceInv, pc = "deleted", pc' \notin CreateStates, Reading',
         wri' \in {wri, [wri EXCEPT ![Next1] = NoWri]},
         UNCHANGED <<row, managed, kube, created, run>>
  PROVE  TraceInv'
<1>1. row.scheduled
  BY DEF IInv, Rounds, DeleteStates
<1>2. \A k \in Keys : k # Next1 => wri'[k] = wri[k]
  BY DEF IInv, TypeOK
<1>3. \A k \in Keys : wri'[k] \in {wri[k], NoWri}
  BY ForgottenTyped DEF IInv
<1>4. ASSUME NEW n, Named(n), ~Named(n)'
      PROVE  \A o \in Keys : o[1] = n => kube[o] = 0
  <2>1. PICK r \in Runs : wri[<<r, 0>>].exists /\ wri[<<r, 0>>].ns = n
    BY <1>4 DEF Named
  <2>2. <<r, 0>> \in Keys /\ <<r, 0>> = Next1
    BY <1>2, <1>4, <2>1, NamespaceKeys DEF Named
  <2>3. QED
    BY <2>1, <2>2 DEF TraceInv, Reading
<1>5. Traces'
  <2>1. \A r \in Runs : wri'[<<r, 0>>].exists => wri'[<<r, 0>>] = wri[<<r, 0>>]
    BY <1>3, NoWriTyped, NamespaceKeys
  <2>2. \A o \in Keys : kube[o] # 0 /\ o[2] # 0 => Named(o[1])'
    BY <1>4 DEF TraceInv, Traces
  <2>3. \A r : OwnNamespace(r)' = OwnNamespace(r)
    BY DEF OwnNamespace
  <2>4. QED
    BY <1>1, <2>1, <2>2, <2>3 DEF TraceInv, Traces
<1>6. Spared'
  <2> SUFFICES ASSUME created
               PROVE  \E r \in 1..run : Named(r)' \/ kube[<<r, 0>>] = 0
    BY <1>1 DEF Spared
  <2>1. PICK r \in 1..run : Named(r) \/ kube[<<r, 0>>] = 0
    BY DEF TraceInv, Spared
  <2>2. r \in Runs /\ <<r, 0>> \in Keys /\ <<r, 0>>[1] = r
    BY NamespaceKeys DEF IInv
  <2>3. QED
    BY <1>4, <2>1, <2>2
<1>7. QED
  BY <1>5, <1>6 DEF TraceInv

LEMMA TraceDeleteRecord == ASSUME IInv, TraceInv, DeleteRecord PROVE TraceInv'
<1>1. /\ pc = "deleted" /\ wri' = [wri EXCEPT ![Next1] = NoWri] /\ todo' = todo \ {Next1}
      /\ pc' = IF todo = {Next1} THEN "events" ELSE "delete"
      /\ UNCHANGED <<row, managed, kube, created, run, copy>>
  BY DEF DeleteRecord, At, fixed
<1>2. row.live
  BY <1>1 DEF TraceInv, Reading
<1>3. \A k \in Keys : wri'[k].exists => wri'[k] = wri[k] /\ k # Next1
  BY <1>1, NoWriTyped DEF IInv, TypeOK
<1>4. \A k \in Keys : Base(k) /\ wri'[k].exists => k \in todo' /\ copy'[k] = wri'[k]
  BY <1>1, <1>3 DEF TraceInv, Reading
<1>5. todo = {Next1} => todo' = {}
  BY <1>1
<1>6. Reading'
  BY <1>1, <1>2, <1>4, <1>5 DEF Reading
<1>7. QED
  BY <1>1, <1>6, TraceForgotten DEF CreateStates

LEMMA TraceDeleteFails == ASSUME IInv, TraceInv, DeleteFails PROVE TraceInv'
<1>1. /\ EndRound(FALSE) /\ pc # "idle" /\ UNCHANGED <<row, managed, created>>
  BY DEF DeleteFails, fixed, At
<1>2. CASE At("delete") /\ wri' = wri /\ kube' \in {kube, Without(<<copy[Next1].ns, Next1[2]>>)}
  <2>1. \A o \in Keys : kube'[o] \in {0, kube[o]}
    BY <1>2 DEF Without
  <2>2. \A o \in Keys : kube'[o] # 0 => o[1] \in 1..run /\ (o[2] # 0 => Named(o[1]))
    BY <2>1, TraceThere
  <2>3. QED
    BY <1>1, <1>2, <2>1, <2>2, NamespaceKeys, TraceEnds
<1>3. CASE At("deleted") /\ kube' = kube /\ wri' \in {wri, [wri EXCEPT ![Next1] = NoWri]}
  <2>1. Reading'
    BY <1>1, ReadingEnds DEF TraceInv
  <2>2. pc' \notin CreateStates /\ run' = run
    BY <1>1 DEF EndRound, CreateStates
  <2>3. QED
    BY <1>1, <1>3, <2>1, <2>2, TraceForgotten DEF At
<1>4. QED
  BY <1>2, <1>3 DEF DeleteFails

LEMMA TraceRemove == ASSUME IInv, TraceInv, Remove PROVE TraceInv'
<1>1. /\ pc = "remove" /\ pc' = "idle" /\ row' = [row EXCEPT !.live = FALSE]
      /\ UNCHANGED <<managed, kube, wri, created, run>>
  BY DEF Remove, At, EndRound, fixed
<1>2. row.scheduled /\ row'.scheduled
  BY <1>1 DEF IInv, TypeOK, Rounds, DeleteStates
<1>3. Reading'
  BY <1>1, <1>2 DEF TraceInv, Reading
<1>4. run \in Nat
  BY NamespaceKeys DEF IInv
<1>5. \A o \in Keys : kube'[o] # 0 => o[1] \in 1..run' /\ (o[2] # 0 => Named(o[1]))
  BY <1>1, TraceThere
<1>6. QED
  BY <1>1, <1>2, <1>3, <1>4, <1>5, TraceKept DEF IInv, CreateStates

LEMMA TraceStutters == ASSUME IInv, TraceInv, UNCHANGED vars PROVE TraceInv'
<1>1. UNCHANGED <<row, managed, kube, wri, created, run, pc, todo, copy>>
  BY DEF vars
<1>2. Next1' = Next1 /\ (\A n : Named(n)' = Named(n)) /\ \A r : OwnNamespace(r)' = OwnNamespace(r)
  BY <1>1 DEF Next1, Named, OwnNamespace
<1>3. Traces'
  BY <1>1, <1>2 DEF TraceInv, Traces
<1>4. Reading'
  BY <1>1, <1>2 DEF TraceInv, Reading
<1>5. Spared'
  BY <1>1, <1>2 DEF TraceInv, Spared
<1>6. QED
  BY <1>3, <1>4, <1>5 DEF TraceInv

LEMMA NextTrace == IInv /\ TraceInv /\ [Next]_vars => TraceInv'
<1> SUFFICES ASSUME IInv, TraceInv, [Next]_vars PROVE TraceInv'
  OBVIOUS
<1>1. CASE Next
  <2>1. CASE \/ DefinitionReconciled \/ RequestDeletion \/ AgentReports \/ GatewayStep
             \/ \E o \in Operations : Obsolete(o)
    BY <2>1, TraceOthers
  <2>2. CASE SkipCreate \/ StartCreate \/ StartUpdate \/ StartDelete
    BY <2>2, TraceTake
  <2>3. CASE BuildNext \/ BuildFails \/ RecordNext \/ RecordFails \/ Inform
    BY <2>3, TraceBuild, TraceRecord, TraceInform
  <2>4. CASE EndUpdate \/ (\E k \in Keys : Apply(k)) \/ WriteBack \/ UpdateFails
    BY <2>4, TraceUpdate, TraceUpdateFails
  <2>5. CASE \/ Detach \/ DeleteObject \/ DeleteEvents \/ Dismiss
             \/ DeleteRecord \/ DeleteFails \/ Remove
    BY <2>5, TraceDelete, TraceDeleteRecord, TraceDeleteFails, TraceRemove
  <2>6. CASE \/ InformFails \/ Mark \/ MarkFails \/ DetachFails \/ DeleteEventsFails
             \/ DismissFails \/ Crash
    BY <2>6, TraceSettles
  <2>7. QED
    BY <1>1, <2>1, <2>2, <2>3, <2>4, <2>5, <2>6 DEF Next, Round, Take
<1>2. CASE UNCHANGED vars
  BY <1>2, TraceStutters
<1>3. QED
  BY <1>1, <1>2

\* Objects of which no two are in one namespace are at most as many as the
\* namespaces.
LEMMA CountedByNamespace ==
  ASSUME NEW S \in SUBSET Keys, NEW T, IsFiniteSet(T),
         \A o \in S : o[1] \in T /\ o[2] = 0
  PROVE  Cardinality(S) <= Cardinality(T)
<1> DEFINE f == [o \in S |-> o[1]]
<1>1. f \in [S -> T]
  OBVIOUS
<1>2. ASSUME NEW o \in S, NEW p \in S, f[o] = f[p] PROVE o = p
  BY <1>2, KeysAre
<1>3. f \in Injection(S, T)
  BY <1>1, <1>2 DEF Injection, IsInjective
<1>4. QED
  BY <1>3, FS_Injection

\* When the row is gone so is everything in the cluster but for Namespaces
\* with nothing in them: at most one for each run of Created, and one less if
\* one of them got to its end.  However calls fail, and whatever the gateway
\* controller does meanwhile.
THEOREM DeletionLeavesNamespaces == Spec => []LeftoversBounded
<1>1. IInv /\ TraceInv => LeftoversBounded
  <2> SUFFICES ASSUME IInv, TraceInv, ~row.live
               PROVE  /\ \A o \in Leftovers : o[2] = 0
                      /\ Cardinality(Leftovers) <= IF created THEN run - 1 ELSE run
                      /\ \A k \in Recorded : k[2] = VS
    BY DEF LeftoversBounded
  <2>1. (\A k \in Keys : Base(k) => ~wri[k].exists) /\ pc = "idle"
    BY DEF TraceInv, Reading
  <2>2. \A k \in Recorded : k[2] = VS
    BY <2>1, KeysAre DEF Recorded, Base
  <2>3. \A n : ~Named(n)
    BY <2>1, NamespaceKeys DEF Named
  <2>4. Leftovers \in SUBSET Keys
    BY DEF Leftovers
  <2>5. \A o \in Leftovers : o[2] = 0 /\ o[1] \in 1..run
    BY <2>3, TraceThere DEF Leftovers
  <2>6. run \in Nat /\ 1..run \subseteq Runs
    BY NamespaceKeys DEF IInv
  <2>7. IsFiniteSet(1..run) /\ Cardinality(1..run) = run
    BY <2>6, FS_Interval
  <2>8. CASE ~created
    BY <2>2, <2>4, <2>5, <2>7, <2>8, CountedByNamespace
  <2>9. CASE created
    <3>1. PICK r \in 1..run : kube[<<r, 0>>] = 0
      BY <2>3, <2>9 DEF TraceInv, Spared
    <3>2. IsFiniteSet((1..run) \ {r}) /\ Cardinality((1..run) \ {r}) = run - 1
      BY <2>7, <3>1, FS_RemoveElement
    <3>3. ASSUME NEW o \in Leftovers PROVE o[1] \in (1..run) \ {r} /\ o[2] = 0
      <4>1. o[1] \in 1..run /\ o[2] = 0 /\ kube[o] # 0 /\ o = <<o[1], o[2]>>
        BY <2>5, KeysAre DEF Leftovers
      <4>2. QED
        BY <3>1, <4>1
    <3>4. Cardinality(Leftovers) <= run - 1
      BY <2>4, <3>2, <3>3, CountedByNamespace
    <3>5. QED
      BY <2>2, <2>5, <2>9, <3>4
  <2>10. QED
    BY <2>8, <2>9
<1>2. QED
  BY <1>1, InitIInv, NextIInv, InitTrace, NextTrace, PTL DEF Spec

(***************************************************************************)
(* What the gateway asked for                                              *)
(***************************************************************************)

UpdateStates == {"update", "applied"}

\* The gateway's WRI when it has created one only, the namespaces there are,
\* and the object of the WRI in the first of them.
Route == <<1, VS>>
Namespaced == {r \in Runs : wri[<<r, 0>>].exists}
Target == <<OwnNamespace(Least(Namespaced)), VS>>

\* No deletion is asked for, the gateway has written nothing while an Updated
\* round held a copy, and has created one WRI only.
Alone == ~row.scheduled /\ ~overlapped /\ tries <= 1

\* There is one WRI of the gateway's at most, and one object, its own.
OneRoute ==
    /\ \A k \in Keys : k[2] = VS /\ k # Route => ~wri[k].exists
    /\ tries = 0 => ~wri[Route].exists
    /\ wri[Route].exists \/ gpc = "creating" => Namespaced # {}
    /\ wri[Route].exists => wri[Route].def # 0
    /\ \A o \in Keys : o[2] = VS /\ kube[o] # 0 =>
          tries = 1 /\ Namespaced # {} /\ o = Target

\* An Updated round works on the WRI as it is.
Copied ==
    pc \in UpdateStates =>
        /\ \A k \in Keys : k[2] = VS /\ k # Route => ~copy[k].exists
        /\ todo \subseteq {Route}
        /\ Route \in todo => copy[Route] = wri[Route] /\ wri[Route].exists
        /\ pc = "applied" =>
              /\ Route \in todo
              /\ kube[Target] = IF copy[Route].scheduled THEN 0 ELSE copy[Route].def

\* Somebody will still see to the WRI.
Pending ==
    \/ gpc # "idle" \/ gateway \in {"wanted", "updating", "scheduled"}
    \/ notif["update"] > 0 \/ (pc \in UpdateStates /\ Route \in todo)

\* A WRI that is reconciled says what the cluster has, and one that is not is
\* pending.
Applied ==
    /\ ~wri[Route].exists => \A o \in Keys : o[2] = VS => kube[o] = 0
    /\ wri[Route].exists /\ wri[Route].reconciled =>
          ~wri[Route].scheduled /\ kube[Target] = wri[Route].def
    /\ wri[Route].exists /\ ~wri[Route].reconciled => Pending

\* What the gateway has asked for is in the WRI.
Asked ==
    /\ gateway \in {"live", "updating"} \/ (gateway = "wanted" /\ tries = 1) =>
          wri[Route].exists /\ ~wri[Route].scheduled
    /\ gateway = "gone" \/ gpc = "deleted" => ~wri[Route].exists \/ wri[Route].scheduled

\* Where the gateway controller is, and the round, whoever else writes.
Calls ==
    /\ gpc \in {"creating", "created"} => gateway \in {"wanted", "scheduled"}
    /\ gpc = "created" => tries > 0
    /\ gpc \in {"updating", "updated"} => gateway \in {"updating", "scheduled"}
    /\ gpc \in {"deleting", "deleted"} => gateway = "scheduled"
    /\ pc \in UpdateStates => work = "update"

RouteInv == Calls /\ (Alone => OneRoute /\ Copied /\ Applied /\ Asked)

LEMMA RouteKeys ==
    /\ Route \in Keys /\ Route[2] = VS /\ ~Base(Route)
    /\ \A k \in Keys : k[2] # VS <=> Base(k)
    /\ TypeOK => tries \in Nat
    /\ TypeOK /\ Namespaced # {} => Target \in Keys /\ Target[2] = VS
<1>1. Route \in Keys /\ Route[2] = VS /\ ~Base(Route)
  BY KeysAre DEF Route, Base
<1>2. \A k \in Keys : k[2] # VS <=> Base(k)
  BY KeysAre DEF Base
<1>3. TypeOK => tries \in Nat
  BY KeysAre DEF TypeOK
<1>4. ASSUME Namespaced # {} PROVE Target \in Keys /\ Target[2] = VS
  <2>1. Namespaced \subseteq Nat /\ Namespaced \subseteq Runs
    BY KeysAre DEF Namespaced
  <2>2. Least(Namespaced) \in Runs
    BY <1>4, <2>1, LeastOf
  <2>3. QED
    BY <2>2, KeysAre DEF Target, OwnNamespace
<1>5. QED
  BY <1>1, <1>2, <1>3, <1>4

LEMMA InitRoute == Init => RouteInv
<1> SUFFICES ASSUME Init PROVE RouteInv
  OBVIOUS
<1>1. \A k \in Keys : kube[k] = 0 /\ ~wri[k].exists
  BY NoWriTyped DEF Init
<1>2. pc = "idle" /\ gpc = "idle" /\ gateway = "wanted" /\ tries = 0
  BY DEF Init
<1>3. Calls /\ Copied
  BY <1>2 DEF Calls, Copied, UpdateStates
<1>4. OneRoute /\ Applied /\ Asked
  BY <1>1, <1>2, RouteKeys DEF OneRoute, Applied, Asked
<1>5. QED
  BY <1>3, <1>4 DEF RouteInv

\* Namespaces that are recorded later are not the first.
LEMMA TargetKept ==
  ASSUME IInv, TraceInv, managed' = managed, NEW r0 \in Runs,
         \A r \in Runs : wri'[<<r, 0>>].exists <=> wri[<<r, 0>>].exists \/ r = r0,
         Namespaced = {} \/ \A r \in Namespaced : r <= r0
  PROVE  Namespaced # {} => Namespaced' # {} /\ Target' = Target
<1> SUFFICES ASSUME Namespaced # {} PROVE Namespaced' # {} /\ Target' = Target
  OBVIOUS
<1>1. Namespaced' = Namespaced \union {r0}
  BY DEF Namespaced
<1>2. Namespaced \subseteq Nat /\ Namespaced' \subseteq Nat /\ Namespaced' # {}
  BY <1>1, KeysAre DEF Namespaced
<1> DEFINE l == Least(Namespaced)
           m == Least(Namespaced')
<1>3. l \in Namespaced /\ \A r \in Namespaced : l <= r
  BY <1>2, LeastBelow
<1>4. m \in Namespaced' /\ \A r \in Namespaced' : m <= r
  BY <1>2, LeastBelow
<1>5. l <= r0 /\ l \in Nat /\ m \in Nat
  BY <1>2, <1>3, <1>4
<1>6. l <= m /\ m <= l
  BY <1>1, <1>3, <1>4, <1>5
<1>7. l = m
  BY <1>5, <1>6
<1>8. QED
  BY <1>1, <1>7 DEF Target, OwnNamespace

LEMMA TargetSame ==
  ASSUME managed' = managed, \A k \in Keys : Base(k) => wri'[k] = wri[k]
  PROVE  Namespaced' = Namespaced /\ Target' = Target
<1>1. Namespaced' = Namespaced
  BY NamespaceKeys DEF Namespaced
<1>2. QED
  BY <1>1 DEF Target, OwnNamespace

\* A step that ends in no Updated round, and touches nothing of the gateway's.
LEMMA RouteKept ==
  ASSUME IInv, RouteInv, pc' \notin UpdateStates,
         row'.scheduled = row.scheduled, UNCHANGED <<gateway, gpc, tries, overlapped>>,
         \A k \in Keys : k[2] = VS => wri'[k] = wri[k] /\ kube'[k] = kube[k],
         Namespaced # {} => Namespaced' # {} /\ Target' = Target,
         Alone /\ wri[Route].exists /\ ~wri[Route].reconciled => Pending'
  PROVE  RouteInv'
<1>1. Calls'
  BY DEF RouteInv, Calls
<1>2. ASSUME Alone' PROVE OneRoute' /\ Copied' /\ Applied' /\ Asked'
  <2>1. Alone /\ OneRoute /\ Applied /\ Asked
    BY <1>2 DEF Alone, RouteInv
  <2>2. wri'[Route] = wri[Route]
    BY RouteKeys
  <2>3. OneRoute'
    BY <2>1, <2>2 DEF OneRoute
  <2>4. Copied'
    BY DEF Copied
  <2>5. Applied'
    <3>1. ~wri'[Route].exists => \A o \in Keys : o[2] = VS => kube'[o] = 0
      BY <2>1, <2>2 DEF Applied
    <3>2. ASSUME wri[Route].exists, wri[Route].reconciled
          PROVE  ~wri'[Route].scheduled /\ kube'[Target'] = wri'[Route].def
      <4>1. Namespaced # {}
        BY <2>1, <3>2 DEF OneRoute
      <4>2. Target \in Keys /\ Target[2] = VS /\ Target' = Target
        BY <4>1, RouteKeys DEF IInv
      <4>3. QED
        BY <2>1, <2>2, <3>2, <4>2 DEF Applied
    <3>3. wri'[Route].exists /\ ~wri'[Route].reconciled => Pending'
      BY <2>1, <2>2
    <3>4. QED
      BY <2>2, <3>1, <3>2, <3>3 DEF Applied
  <2>6. Asked'
    BY <2>1, <2>2 DEF Asked
  <2>7. QED
    BY <2>3, <2>4, <2>5, <2>6
<1>3. QED
  BY <1>1, <1>2 DEF RouteInv

\* A round that ends leaves pending what was.
LEMMA RoundPends ==
  ASSUME IInv, RouteInv, NEW settled \in BOOLEAN, EndRound(settled),
         settled => pc \notin UpdateStates, UNCHANGED <<gateway, gpc>>, Pending
  PROVE  Pending'
<1>1. notif \in [Operations -> Nat] /\ "update" \in Operations /\ work \in Operations \union {"none"}
  BY DEF IInv, TypeOK, Operations
<1>2. ~settled => notif' = [notif EXCEPT ![work] = @ + 1]
  BY DEF EndRound
<1>3. settled => notif' = notif
  BY DEF EndRound
<1>4. notif["update"] > 0 => notif'["update"] > 0
  <2>1. CASE settled
    BY <1>3, <2>1
  <2>2. CASE ~settled /\ work = "update"
    BY <1>1, <1>2, <2>2
  <2>3. CASE ~settled /\ work # "update"
    <3>1. notif'["update"] = notif["update"]
      BY <1>1, <1>2, <2>3
    <3>2. QED
      BY <3>1
  <2>4. QED
    BY <2>1, <2>2, <2>3
<1>5. pc \in UpdateStates => notif'["update"] > 0
  <2>1. pc \in UpdateStates => work = "update" /\ ~settled
    BY DEF RouteInv, Calls
  <2>2. work = "update" /\ ~settled => notif'["update"] > 0
    BY <1>1, <1>2
  <2>3. QED
    BY <2>1, <2>2
<1>6. QED
  BY <1>4, <1>5 DEF Pending

\* Steps of a deletion, and what is dropped or skipped because of one.
LEMMA RouteDeleted ==
  ASSUME RouteInv, row'.scheduled, Calls'
  PROVE  RouteInv'
  BY DEF RouteInv, Alone

LEMMA RouteDelete ==
  ASSUME IInv, TraceInv, RouteInv,
         \/ RequestDeletion \/ (\E o \in Operations : Obsolete(o)) \/ SkipCreate \/ StartDelete
         \/ Detach \/ DetachFails \/ DeleteObject \/ DeleteFails \/ DeleteRecord
         \/ DeleteEvents \/ DeleteEventsFails \/ Dismiss \/ DismissFails \/ Remove
  PROVE  RouteInv'
<1>1. row'.scheduled
  <2>1. CASE RequestDeletion
    BY <2>1 DEF RequestDeletion, IInv, TypeOK
  <2>2. CASE \E o \in Operations : Obsolete(o)
    BY <2>2 DEF Obsolete, TraceInv, Reading
  <2>3. CASE SkipCreate \/ StartDelete
    BY <2>3 DEF SkipCreate, StartDelete, Ready, IInv, Rounds
  <2>4. CASE \/ Detach \/ DetachFails \/ DeleteObject \/ DeleteFails \/ DeleteRecord
             \/ DeleteEvents \/ DeleteEventsFails \/ Dismiss \/ DismissFails \/ Remove
    <3>1. row.scheduled
      BY <2>4 DEF Detach, DetachFails, DeleteObject, DeleteFails, DeleteRecord, DeleteEvents,
                  DeleteEventsFails, Dismiss, DismissFails, Remove, At, IInv, Rounds, DeleteStates
    <3>2. row' = row \/ row' = [row EXCEPT !.live = FALSE]
      BY <2>4 DEF Detach, DetachFails, DeleteObject, DeleteFails, DeleteRecord, DeleteEvents,
                  DeleteEventsFails, Dismiss, DismissFails, Remove
    <3>3. QED
      BY <3>1, <3>2 DEF IInv, TypeOK
  <2>5. QED
    BY <2>1, <2>2, <2>3, <2>4
<1>2. Calls'
  <2>1. gpc' = gpc /\ tries' = tries
    BY DEF RequestDeletion, Obsolete, SkipCreate, StartDelete, Detach, DetachFails, DeleteObject,
           DeleteFails, DeleteRecord, DeleteEvents, DeleteEventsFails, Dismiss, DismissFails,
           Remove, gatewayVars
  <2>2. gateway' \in {gateway, "scheduled"} \/ (gpc = "idle" /\ gateway' # gateway)
    <3>1. CASE Detach \/ DetachFails
      <4>1. gateway' = gateway \/ gateway' \in Detached
        BY <3>1 DEF Detach, DetachFails
      <4>2. QED
        BY <4>1 DEF Detached
    <3>2. CASE ~(Detach \/ DetachFails)
      BY <3>2 DEF RequestDeletion, Obsolete, SkipCreate, StartDelete, DeleteObject, DeleteFails,
                  DeleteRecord, DeleteEvents, DeleteEventsFails, Dismiss, DismissFails, Remove,
                  gatewayVars
    <3>3. QED
      BY <3>1, <3>2
  <2>3. pc' \in UpdateStates => pc \in UpdateStates /\ work' = work
    BY DEF RequestDeletion, Obsolete, SkipCreate, StartDelete, Detach, DetachFails, DeleteObject,
           DeleteFails, DeleteRecord, DeleteEvents, DeleteEventsFails, Dismiss, DismissFails,
           Remove, EnterRound, EndRound, Goto, At, UpdateStates, roundVars
  <2>4. QED
    BY <2>1, <2>2, <2>3 DEF RouteInv, Calls
<1>3. QED
  BY <1>1, <1>2, RouteDeleted

\* Steps that change nothing of this.
LEMMA RouteStutters ==
  ASSUME RouteInv, DefinitionReconciled \/ AgentReports \/ UNCHANGED vars
  PROVE  RouteInv'
<1>1. UNCHANGED <<row, managed, kube, wri, notif, pc, work, todo, copy, gateway, gpc, tries,
                  overlapped>>
  BY DEF DefinitionReconciled, AgentReports, vars, roundVars, gatewayVars, fixed
<1>2. Namespaced' = Namespaced /\ Target' = Target
  BY <1>1 DEF Namespaced, Target, OwnNamespace
<1>3. Pending' = Pending
  BY <1>1 DEF Pending
<1>4. Calls' = Calls /\ Alone' = Alone
  BY <1>1 DEF Calls, Alone
<1>5. OneRoute' = OneRoute
  BY <1>1, <1>2 DEF OneRoute
<1>6. Copied' = Copied
  BY <1>1, <1>2 DEF Copied
<1>7. Applied' = Applied
  BY <1>1, <1>2, <1>3 DEF Applied
<1>8. Asked' = Asked
  BY <1>1 DEF Asked
<1>9. QED
  BY <1>4, <1>5, <1>6, <1>7, <1>8 DEF RouteInv

\* A round that ends or goes on, and touches nothing of the gateway's.
LEMMA RouteRound ==
  ASSUME IInv, TraceInv, RouteInv,
         \/ StartCreate \/ BuildNext \/ BuildFails \/ Inform \/ InformFails \/ Mark \/ MarkFails
         \/ EndUpdate \/ Crash
  PROVE  RouteInv'
<1>1. UNCHANGED <<managed, wri, gateway, gpc, tries, overlapped>>
  BY DEF StartCreate, BuildNext, BuildFails, Inform, InformFails, Mark, MarkFails, EndUpdate,
         Crash, gatewayVars, fixed
<1>2. row'.scheduled = row.scheduled
  BY DEF StartCreate, BuildNext, BuildFails, Inform, InformFails, Mark, MarkFails, EndUpdate,
         Crash, IInv, TypeOK
<1>3. pc' \notin UpdateStates
  BY DEF StartCreate, BuildNext, BuildFails, Inform, InformFails, Mark, MarkFails, EndUpdate,
         Crash, EnterRound, EndRound, Goto, UpdateStates
<1>4. \A k \in Keys : k[2] = VS => kube'[k] = kube[k]
  <2>1. CASE kube' = kube
    BY <2>1
  <2>2. CASE /\ pc = "build"
             /\ kube' = [kube EXCEPT ![<<Namespace, Next0>>] = IF @ = 0 THEN 1 ELSE @]
    <3>1. Base(<<Namespace, Next0>>)
      BY <2>2, CreateKeys DEF IInv
    <3>2. <<Namespace, Next0>>[2] # VS
      BY <3>1, KeysAre DEF Base
    <3>3. QED
      BY <2>2, <3>2 DEF IInv, TypeOK
  <2>3. QED
    BY <2>1, <2>2 DEF StartCreate, BuildNext, BuildFails, Inform, InformFails, Mark, MarkFails,
                      EndUpdate, Crash, At
<1>5. Target' = Target /\ Namespaced' = Namespaced
  BY <1>1, TargetSame
<1>6. ASSUME Alone, wri[Route].exists, ~wri[Route].reconciled PROVE Pending'
  <2>1. Pending
    BY <1>6 DEF RouteInv, Applied
  <2>2. CASE BuildFails \/ InformFails \/ MarkFails \/ Crash
    <3>1. EndRound(FALSE)
      BY <2>2 DEF BuildFails, InformFails, MarkFails, Crash
    <3>2. QED
      BY <1>1, <2>1, <3>1, RoundPends
  <2>3. CASE Mark
    <3>1. EndRound(TRUE) /\ pc \notin UpdateStates
      BY <2>3 DEF Mark, At, UpdateStates
    <3>2. QED
      BY <1>1, <2>1, <3>1, RoundPends
  <2>4. CASE StartCreate \/ BuildNext \/ Inform
    <3>1. pc \notin UpdateStates /\ notif'["update"] = notif["update"]
      BY <2>4 DEF StartCreate, BuildNext, Inform, Ready, EnterRound, Goto, At, UpdateStates,
                  IInv, TypeOK, Operations
    <3>2. QED
      BY <1>1, <2>1, <3>1 DEF Pending
  <2>5. CASE EndUpdate
    <3>1. todo = {} /\ notif' = notif
      BY <2>5 DEF EndUpdate, Goto
    <3>2. QED
      BY <1>1, <2>1, <3>1 DEF Pending
  <2>6. QED
    BY <2>2, <2>3, <2>4, <2>5
<1>7. QED
  BY <1>1, <1>2, <1>3, <1>4, <1>5, <1>6, RouteKept

LEMMA RouteRecord ==
  ASSUME IInv, TraceInv, RouteInv, RecordNext \/ RecordFails
  PROVE  RouteInv'
<1>1. /\ pc = "record" /\ wri' \in {wri, WithRecord}
      /\ UNCHANGED <<row, managed, kube, gateway, gpc, tries, overlapped>>
  BY DEF RecordNext, RecordFails, At, gatewayVars, fixed
<1>2. pc' \notin UpdateStates
  BY DEF RecordNext, RecordFails, EndRound, UpdateStates
<1>3. /\ Base(<<run, Next0>>) /\ run \in Runs /\ <<run, 0>> \in Keys
      /\ wri \in [Keys -> Wris]
  BY <1>1, CreateKeys, NamespaceKeys DEF IInv, TypeOK
<1>4. \A k \in Keys : k # <<run, Next0>> => wri'[k] = wri[k]
  BY <1>1, <1>3 DEF WithRecord
<1>5. \A k \in Keys : k[2] = VS => wri'[k] = wri[k]
  BY <1>3, <1>4, KeysAre DEF Base
<1>6. Namespaced # {} => Namespaced' # {} /\ Target' = Target
  <2>1. CASE Next0 = 0 /\ wri' = WithRecord
    <3>1. wri'[<<run, 0>>].exists
      BY <1>3, <2>1 DEF WithRecord
    <3>2. \A r \in Runs : r # run => wri'[<<r, 0>>] = wri[<<r, 0>>]
      BY <1>4, NamespaceKeys
    <3>3. \A r \in Namespaced : r <= run
      BY NamespaceKeys DEF Namespaced, TraceInv, Traces
    <3>4. QED
      BY <1>1, <1>3, <3>1, <3>2, <3>3, TargetKept
  <2>2. CASE Next0 # 0 \/ wri' = wri
    <3>1. \A r \in Runs : wri'[<<r, 0>>] = wri[<<r, 0>>]
      BY <1>4, <2>2, NamespaceKeys
    <3>2. Namespaced' = Namespaced
      BY <3>1 DEF Namespaced
    <3>3. QED
      BY <1>1, <3>2 DEF Target, OwnNamespace
  <2>3. QED
    BY <1>1, <2>1, <2>2
<1>7. ASSUME Alone, wri[Route].exists, ~wri[Route].reconciled PROVE Pending'
  <2>1. Pending /\ pc \notin UpdateStates
    BY <1>1, <1>7 DEF RouteInv, Applied, UpdateStates
  <2>2. CASE RecordFails
    <3>1. EndRound(FALSE)
      BY <2>2 DEF RecordFails
    <3>2. QED
      BY <1>1, <2>1, <3>1, RoundPends
  <2>3. CASE RecordNext
    <3>1. notif' = notif
      BY <2>3 DEF RecordNext
    <3>2. QED
      BY <1>1, <2>1, <3>1 DEF Pending
  <2>4. QED
    BY <2>2, <2>3
<1>8. QED
  BY <1>1, <1>2, <1>5, <1>6, <1>7, RouteKept

\* Updated has read the WRIs as they are.
LEMMA RouteStartUpdate ==
  ASSUME IInv, TraceInv, RouteInv, StartUpdate
  PROVE  RouteInv'
<1>1. /\ pc = "idle" /\ UNCHANGED <<row, managed, kube, wri, gateway, gpc, tries, overlapped>>
      /\ copy' = wri /\ todo' = {k \in Recorded : ~wri[k].reconciled} /\ work' = "update"
      /\ pc' = IF Recorded = {} THEN "mark" ELSE "update"
  BY DEF StartUpdate, Ready, EnterRound, gatewayVars, fixed
<1>2. Target' = Target /\ Namespaced' = Namespaced
  BY <1>1, TargetSame
<1>3. Calls'
  BY <1>1 DEF RouteInv, Calls
<1>4. ASSUME Alone' PROVE OneRoute' /\ Copied' /\ Applied' /\ Asked'
  <2>1. Alone /\ OneRoute /\ Applied /\ Asked
    BY <1>1, <1>4 DEF Alone, RouteInv
  <2>2. OneRoute' /\ Asked'
    BY <1>1, <1>2, <2>1 DEF OneRoute, Asked
  <2>3. \A k \in Recorded : ~wri[k].reconciled => k = Route
    BY <2>1, RouteKeys DEF IInv, BaseKept, OneRoute, Recorded
  <2>4. Copied'
    <3>1. pc' # "applied"
      BY <1>1
    <3>2. \A k \in Keys : k[2] = VS /\ k # Route => ~copy'[k].exists
      BY <1>1, <2>1 DEF OneRoute
    <3>3. todo' \subseteq {Route} /\ (Route \in todo' => copy'[Route] = wri'[Route] /\ wri'[Route].exists)
      BY <1>1, <2>3 DEF Recorded
    <3>4. QED
      BY <3>1, <3>2, <3>3 DEF Copied
  <2>5. wri[Route].exists /\ ~wri[Route].reconciled => Pending'
    <3>1. wri[Route].exists => pc' \in UpdateStates
      BY <1>1, RouteKeys DEF Recorded, UpdateStates
    <3>2. wri[Route].exists /\ ~wri[Route].reconciled => Route \in todo'
      BY <1>1, RouteKeys DEF Recorded
    <3>3. QED
      BY <3>1, <3>2 DEF Pending
  <2>6. Applied'
    BY <1>1, <1>2, <2>1, <2>5 DEF Applied
  <2>7. QED
    BY <2>2, <2>4, <2>6
<1>5. QED
  BY <1>3, <1>4 DEF RouteInv

\* What Updated does in the cluster is what the WRI says.
LEMMA RouteApplied ==
  ASSUME IInv, TraceInv, RouteInv, Alone, pc = "update", NEW k \in todo,
         kube' = [kube EXCEPT ![ObjectOf(k)] = IF copy[k].scheduled THEN 0 ELSE copy[k].def],
         wri' = wri, UNCHANGED <<managed, tries>>
  PROVE  /\ k = Route /\ OneRoute' /\ Target' = Target
         /\ kube'[Target] = IF copy[Route].scheduled THEN 0 ELSE copy[Route].def
         /\ wri[Route].exists
         /\ wri[Route].reconciled => ~wri[Route].scheduled /\ kube'[Target] = wri[Route].def
<1>1. OneRoute /\ Copied /\ Applied
  BY DEF RouteInv
<1>2. k = Route /\ copy[Route] = wri[Route] /\ wri[Route].exists
  BY <1>1 DEF Copied, UpdateStates
<1>3. Namespaced # {} /\ Target \in Keys /\ Target[2] = VS
  BY <1>1, <1>2, RouteKeys DEF OneRoute, IInv
<1>4. ObjectOf(k) = Target
  BY <1>2, UpdateNamed DEF ObjectOf, Target, Namespaced, Route
<1>5. /\ kube'[Target] = IF copy[Route].scheduled THEN 0 ELSE copy[Route].def
      /\ \A o \in Keys : o # Target => kube'[o] = kube[o]
  BY <1>2, <1>3, <1>4 DEF IInv, TypeOK
<1>6. Target' = Target /\ Namespaced' = Namespaced
  BY TargetSame
<1>7. tries = 1
  <2>1. tries # 0 /\ tries <= 1 /\ tries \in Nat
    BY <1>1, <1>2, RouteKeys DEF OneRoute, Alone, IInv
  <2>2. QED
    BY <2>1
<1>8. OneRoute'
  BY <1>1, <1>3, <1>5, <1>6, <1>7 DEF OneRoute
<1>9. wri[Route].reconciled => ~wri[Route].scheduled /\ kube'[Target] = wri[Route].def
  BY <1>1, <1>2, <1>5 DEF Applied
<1>10. QED
  BY <1>2, <1>5, <1>6, <1>8, <1>9

\* What it writes back is what the cluster has.
LEMMA RouteWritten ==
  ASSUME IInv, TraceInv, RouteInv, Alone, pc = "applied", NEW k \in todo, wri' = WrittenBack(k),
         UNCHANGED <<managed, kube, tries, gateway, gpc>>
  PROVE  k = Route /\ OneRoute' /\ Applied' /\ Asked' /\ Target' = Target
<1>1. OneRoute /\ Copied /\ Asked
  BY DEF RouteInv
<1>2. k = Route /\ copy[Route] = wri[Route] /\ wri[Route].exists
  BY <1>1 DEF Copied, UpdateStates
<1>3. Route \in Keys /\ wri \in [Keys -> Wris] /\ wri[Route] \in Wris
  BY RouteKeys DEF IInv, TypeOK
<1>4. kube[Target] = IF wri[Route].scheduled THEN 0 ELSE wri[Route].def
  BY <1>1, <1>2 DEF Copied, UpdateStates
<1>5. \A l \in Keys : l # Route => wri'[l] = wri[l]
  BY <1>2, <1>3 DEF WrittenBack
<1>6. Target' = Target /\ Namespaced' = Namespaced
  BY <1>5, RouteKeys, TargetSame
<1>7. CASE wri[Route].scheduled
  <2>1. wri'[Route] = NoWri
    BY <1>2, <1>3, <1>7 DEF WrittenBack
  <2>2. ~wri'[Route].exists
    BY <2>1, NoWriTyped
  <2>3. \A o \in Keys : o[2] = VS => kube'[o] = 0
    BY <1>1, <1>4, <1>7 DEF OneRoute
  <2>4. OneRoute'
    BY <1>1, <1>5, <1>6, <2>2, <2>3 DEF OneRoute
  <2>5. Applied'
    BY <2>2, <2>3 DEF Applied
  <2>6. Asked'
    BY <1>1, <1>7, <2>2 DEF Asked
  <2>7. QED
    BY <1>2, <1>6, <2>4, <2>5, <2>6
<1>8. CASE ~wri[Route].scheduled
  <2>1. wri'[Route] = [wri[Route] EXCEPT !.ns = UpdateNamespace, !.reconciled = TRUE,
                                         !.scheduled = wri[Route].scheduled]
    BY <1>2, <1>3, <1>8 DEF WrittenBack
  <2>2. /\ wri'[Route].exists /\ wri'[Route].reconciled /\ ~wri'[Route].scheduled
        /\ wri'[Route].def = wri[Route].def
    BY <1>2, <1>3, <1>8, <2>1 DEF Wris
  <2>3. OneRoute'
    BY <1>1, <1>2, <1>5, <1>6, <2>2 DEF OneRoute
  <2>4. Applied'
    BY <1>4, <1>6, <1>8, <2>2 DEF Applied
  <2>5. Asked'
    BY <1>1, <1>2, <1>8, <2>2 DEF Asked
  <2>6. QED
    BY <1>2, <1>6, <2>3, <2>4, <2>5
<1>9. QED
  BY <1>7, <1>8

LEMMA RouteApply ==
  ASSUME IInv, TraceInv, RouteInv, NEW k \in Keys, Apply(k)
  PROVE  RouteInv'
<1>1. /\ pc = "update" /\ k \in todo /\ pc' = "applied" /\ todo' = {k}
      /\ kube' = [kube EXCEPT ![ObjectOf(k)] = IF copy[k].scheduled THEN 0 ELSE copy[k].def]
      /\ UNCHANGED <<row, managed, notif, wri, work, copy, gateway, gpc, tries, overlapped>>
  BY DEF Apply, At, gatewayVars, fixed
<1>2. Calls'
  BY <1>1 DEF RouteInv, Calls, UpdateStates
<1>3. ASSUME Alone' PROVE OneRoute' /\ Copied' /\ Applied' /\ Asked'
  <2>1. Alone /\ Copied /\ Asked
    BY <1>1, <1>3 DEF Alone, RouteInv
  <2>2. /\ k = Route /\ OneRoute' /\ Target' = Target
        /\ kube'[Target] = IF copy[Route].scheduled THEN 0 ELSE copy[Route].def
        /\ wri[Route].exists
        /\ wri[Route].reconciled => ~wri[Route].scheduled /\ kube'[Target] = wri[Route].def
    BY <1>1, <2>1, RouteApplied
  <2>3. Copied'
    BY <1>1, <2>1, <2>2 DEF Copied, UpdateStates
  <2>4. Applied'
    BY <1>1, <2>2 DEF Applied, Pending, UpdateStates
  <2>5. Asked'
    BY <1>1, <2>1 DEF Asked
  <2>6. QED
    BY <2>2, <2>3, <2>4, <2>5
<1>4. QED
  BY <1>2, <1>3 DEF RouteInv

LEMMA RouteWriteBack == ASSUME IInv, TraceInv, RouteInv, WriteBack PROVE RouteInv'
<1>1. PICK k \in todo :
        /\ wri' = WrittenBack(k)
        /\ todo' = {l \in Keys : copy[l].exists /\ ~copy[l].reconciled} \ {k}
        /\ copy' = [copy EXCEPT ![k].reconciled = TRUE]
  BY DEF WriteBack
<1>2. /\ pc = "applied" /\ pc' = "update"
      /\ UNCHANGED <<row, managed, kube, work, gateway, gpc, tries, overlapped>>
  BY DEF WriteBack, At, gatewayVars, fixed
<1>3. Calls'
  BY <1>2 DEF RouteInv, Calls, UpdateStates
<1>4. ASSUME Alone' PROVE OneRoute' /\ Copied' /\ Applied' /\ Asked'
  <2>1. Alone /\ Copied
    BY <1>2, <1>4 DEF Alone, RouteInv
  <2>2. k = Route /\ OneRoute' /\ Applied' /\ Asked'
    BY <1>1, <1>2, <2>1, RouteWritten
  <2>3. \A l \in Keys : l[2] = VS /\ l # Route => ~copy[l].exists
    BY <1>2, <2>1 DEF Copied, UpdateStates
  <2>4. todo' = {}
    BY <1>1, <2>2, <2>3, RouteKeys DEF IInv, BaseKept
  <2>5. \A l \in Keys : l # Route => copy'[l] = copy[l]
    BY <1>1, <2>2 DEF IInv, TypeOK
  <2>6. Copied'
    BY <1>2, <2>3, <2>4, <2>5 DEF Copied
  <2>7. QED
    BY <2>2, <2>6
<1>5. QED
  BY <1>3, <1>4 DEF RouteInv

LEMMA RouteUpdateFails == ASSUME IInv, TraceInv, RouteInv, UpdateFails PROVE RouteInv'
<1>1. /\ EndRound(FALSE) /\ pc \in UpdateStates
      /\ UNCHANGED <<row, managed, gateway, gpc, tries, overlapped>>
  BY DEF UpdateFails, At, gatewayVars, fixed, UpdateStates
<1>2. pc' = "idle" /\ Calls'
  BY <1>1 DEF EndRound, RouteInv, Calls, UpdateStates
<1>3. Pending'
  <2>1. work = "update" /\ notif \in [Operations -> Nat] /\ "update" \in Operations
    BY <1>1 DEF RouteInv, Calls, IInv, TypeOK, Operations
  <2>2. notif'["update"] > 0
    BY <1>1, <2>1 DEF EndRound
  <2>3. QED
    BY <2>2 DEF Pending
<1>4. CASE wri' = wri /\ kube' = kube
  <2>1. Target' = Target /\ Namespaced' = Namespaced
    BY <1>1, <1>4, TargetSame
  <2>2. QED
    BY <1>1, <1>2, <1>3, <1>4, <2>1, RouteKept DEF UpdateStates
<1>5. ASSUME wri' = wri, pc = "update", NEW k \in todo,
             kube' = [kube EXCEPT ![ObjectOf(k)] = IF copy[k].scheduled THEN 0 ELSE copy[k].def]
      PROVE  RouteInv'
  <2>1. ASSUME Alone' PROVE OneRoute' /\ Copied' /\ Applied' /\ Asked'
    <3>1. Alone /\ Asked
      BY <1>1, <2>1 DEF Alone, RouteInv
    <3>2. /\ OneRoute' /\ Target' = Target /\ wri[Route].exists
          /\ wri[Route].reconciled => ~wri[Route].scheduled /\ kube'[Target] = wri[Route].def
      BY <1>1, <1>5, <3>1, RouteApplied
    <3>3. Applied'
      BY <1>3, <1>5, <3>2 DEF Applied
    <3>4. Asked'
      BY <1>1, <1>5, <3>1 DEF Asked
    <3>5. QED
      BY <1>2, <3>2, <3>3, <3>4 DEF Copied, UpdateStates
  <2>2. QED
    BY <1>2, <2>1 DEF RouteInv
<1>6. ASSUME kube' = kube, pc = "applied", NEW k \in todo, wri' = WrittenBack(k)
      PROVE  RouteInv'
  <2>1. ASSUME Alone' PROVE OneRoute' /\ Copied' /\ Applied' /\ Asked'
    <3>1. Alone
      BY <1>1, <2>1 DEF Alone
    <3>2. OneRoute' /\ Applied' /\ Asked'
      BY <1>1, <1>6, <3>1, RouteWritten
    <3>3. QED
      BY <1>2, <3>2 DEF Copied, UpdateStates
  <2>2. QED
    BY <1>2, <2>1 DEF RouteInv
<1>7. QED
  BY <1>4, <1>5, <1>6 DEF UpdateFails, At

\* The gateway controller writes its WRI, while no Updated round holds a copy.
LEMMA RouteWrites ==
  ASSUME IInv, TraceInv, RouteInv, Alone, ~overlapped', NEW w, Writes(Route, w),
         UNCHANGED <<row, managed, kube, roundVars>>,
         w.exists, ~w.reconciled, w.def # 0, Namespaced # {}, gpc' # "idle", tries' = 1
  PROVE  OneRoute' /\ Copied' /\ Applied' /\ wri'[Route] = w
<1>1. OneRoute
  BY DEF RouteInv
<1>2. pc' \notin UpdateStates
  BY DEF Writes, RouteInv, Calls, UpdateStates, roundVars
<1>3. wri'[Route] = w /\ \A k \in Keys : k # Route => wri'[k] = wri[k]
  BY RouteKeys DEF Writes, IInv, TypeOK
<1>4. Target' = Target /\ Namespaced' = Namespaced
  BY <1>3, RouteKeys, TargetSame
<1>5. OneRoute'
  BY <1>1, <1>3, <1>4 DEF OneRoute
<1>6. Copied'
  BY <1>2 DEF Copied
<1>7. Applied'
  BY <1>3 DEF Applied, Pending
<1>8. QED
  BY <1>3, <1>5, <1>6, <1>7

LEMMA RouteCreate == ASSUME IInv, TraceInv, RouteInv, GatewayCreate PROVE RouteInv'
<1> DEFINE w == [exists |-> TRUE, ns |-> 0, def |-> 1, reconciled |-> FALSE, scheduled |-> FALSE]
<1>1. /\ gpc = "creating" /\ tries' = tries + 1 /\ gpc' = "created"
      /\ UNCHANGED <<row, managed, kube, roundVars, gateway>>
      /\ Writes(<<tries', VS>>, w)
  BY DEF GatewayCreate, fixed
<1>2. w.exists /\ ~w.reconciled /\ ~w.scheduled /\ w.def # 0
  OBVIOUS
<1> HIDE DEF w
<1>3. tries \in Nat
  BY RouteKeys DEF IInv
<1>4. Calls'
  BY <1>1, <1>3 DEF RouteInv, Calls, roundVars
<1>5. ASSUME Alone' PROVE OneRoute' /\ Copied' /\ Applied' /\ Asked'
  <2>1. tries = 0 /\ tries' = 1
    BY <1>1, <1>3, <1>5 DEF Alone
  <2>2. Writes(Route, w)
    BY <1>1, <2>1 DEF Route
  <2>3. ~overlapped' /\ Alone
    <3>1. ~overlapped' /\ ~row.scheduled
      BY <1>1, <1>5 DEF Alone
    <3>2. overlapped' = (overlapped \/ (work = "update" /\ pc # "mark"))
      BY <2>2 DEF Writes
    <3>3. ~overlapped
      BY <3>1, <3>2
    <3>4. QED
      BY <2>1, <3>1, <3>3 DEF Alone
  <2>4. Namespaced # {}
    BY <1>1, <2>3 DEF RouteInv, OneRoute
  <2>5. OneRoute' /\ Copied' /\ Applied' /\ wri'[Route] = w
    BY <1>1, <1>2, <2>1, <2>2, <2>3, <2>4, RouteWrites
  <2>6. gateway' # "gone" /\ gpc' # "deleted"
    BY <1>1 DEF RouteInv, Calls
  <2>7. Asked'
    BY <1>2, <2>5, <2>6 DEF Asked
  <2>8. QED
    BY <2>5, <2>7
<1>6. QED
  BY <1>4, <1>5 DEF RouteInv

\* Validating and looking for the WRI write nothing; a service that is recorded
\* has its Namespace recorded.
LEMMA RouteValidate ==
  ASSUME IInv, TraceInv, RouteInv, GatewayValidate
  PROVE  RouteInv'
<1>1. /\ UNCHANGED <<row, managed, kube, wri, notif, roundVars, gateway, tries, overlapped>>
      /\ gpc = "idle" /\ Validated
      /\ \/ gateway = "wanted" /\ gpc' = "creating"
         \/ gateway = "updating" /\ gpc' = "updating"
  BY DEF GatewayValidate, fixed
<1>2. Calls'
  BY <1>1 DEF RouteInv, Calls, roundVars
<1>3. ASSUME Alone' PROVE OneRoute' /\ Copied' /\ Applied' /\ Asked'
  <2>1. Alone
    BY <1>1, <1>3 DEF Alone
  <2>2. OneRoute /\ Copied /\ Applied /\ Asked
    BY <2>1 DEF RouteInv
  <2>3. Target' = Target /\ Namespaced' = Namespaced
    BY <1>1, TargetSame
  <2>4. Namespaced # {}
    <3>1. Services # {}
      BY <1>1, FS_EmptySet DEF Validated
    <3>2. PICK s \in Keys : s[2] = 1 /\ wri[s].exists
      BY <3>1 DEF Services, Recorded
    <3>3. s[1] \in Runs /\ s[2] # VS
      BY <3>2, KeysAre DEF VS
    <3>4. wri[<<s[1], 0>>].exists
      BY <2>1, <3>2, <3>3, RouteKeys DEF Alone, TraceInv, Traces
    <3>5. QED
      BY <3>3, <3>4 DEF Namespaced
  <2>5. OneRoute' /\ Copied'
    BY <1>1, <2>2, <2>3, <2>4 DEF OneRoute, Copied, roundVars
  <2>6. Applied' /\ Asked'
    BY <1>1, <2>2, <2>3 DEF Applied, Asked, Pending, roundVars
  <2>7. QED
    BY <2>5, <2>6
<1>4. QED
  BY <1>2, <1>3 DEF RouteInv

\* The WRI that is the only one is the one the gateway created.
LEMMA RouteOnly ==
  ASSUME IInv, RouteInv, Alone
  PROVE  /\ GatewayWris = IF wri[Route].exists THEN {Route} ELSE {}
         /\ Cardinality(GatewayWris) = 1 <=> wri[Route].exists
<1>1. GatewayWris = IF wri[Route].exists THEN {Route} ELSE {}
  BY RouteKeys DEF GatewayWris, Recorded, RouteInv, OneRoute
<1>2. QED
  BY <1>1, FS_Singleton, FS_EmptySet

\* Deleted finds no WRI, or loses it: it has been removed.
LEMMA RouteFind ==
  ASSUME IInv, TraceInv, RouteInv, GatewayFind \/ (GatewayDelete /\ GatewayWris = {})
  PROVE  RouteInv'
<1>1. /\ UNCHANGED <<row, managed, kube, wri, notif, roundVars, tries, overlapped>>
      /\ gpc \in {"idle", "deleting"} /\ gateway = "scheduled"
      /\ \/ gpc' = "deleting" /\ gateway' = gateway
         \/ gateway' = "gone" /\ gpc' = "idle" /\ Cardinality(GatewayWris) # 1
  <2>1. CASE GatewayFind
    BY <2>1 DEF GatewayFind, fixed
  <2>2. CASE GatewayDelete /\ GatewayWris = {}
    <3>1. Cardinality(GatewayWris) = 0
      BY <2>2, FS_EmptySet
    <3>2. QED
      BY <2>2, <3>1 DEF GatewayDelete, fixed, RouteInv, Calls
  <2>3. QED
    BY <2>1, <2>2
<1>2. Calls'
  BY <1>1 DEF RouteInv, Calls, roundVars
<1>3. ASSUME Alone' PROVE OneRoute' /\ Copied' /\ Applied' /\ Asked'
  <2>1. Alone
    BY <1>1, <1>3 DEF Alone
  <2>2. OneRoute /\ Copied /\ Applied /\ Asked
    BY <2>1 DEF RouteInv
  <2>3. Target' = Target /\ Namespaced' = Namespaced
    BY <1>1, TargetSame
  <2>4. OneRoute' /\ Copied'
    BY <1>1, <2>2, <2>3 DEF OneRoute, Copied, roundVars
  <2>5. gateway' = "gone" => ~wri[Route].exists
    BY <1>1, <2>1, RouteOnly
  <2>6. Applied' /\ Asked'
    BY <1>1, <2>2, <2>3, <2>5 DEF Applied, Asked, Pending, roundVars
  <2>7. QED
    BY <2>4, <2>6
<1>4. QED
  BY <1>2, <1>3 DEF RouteInv

\* Updated and Deleted write to the WRI.
LEMMA RouteChange ==
  ASSUME IInv, TraceInv, RouteInv, GatewayUpdate \/ (GatewayDelete /\ GatewayWris # {})
  PROVE  RouteInv'
<1>1. /\ UNCHANGED <<row, managed, kube, roundVars, tries, gateway>>
      /\ gpc \in {"updating", "deleting"} /\ gpc' = IF gpc = "updating" THEN "updated" ELSE "deleted"
  BY DEF GatewayUpdate, GatewayDelete, fixed
<1>2. Calls'
  BY <1>1 DEF RouteInv, Calls, roundVars
<1>3. ASSUME Alone' PROVE OneRoute' /\ Copied' /\ Applied' /\ Asked'
  <2>1. Alone
    BY <1>1, <1>3 DEF GatewayUpdate, GatewayDelete, Writes, Alone
  <2>2. OneRoute /\ Copied /\ Applied /\ Asked
    BY <2>1 DEF RouteInv
  <2>3. wri[Route] \in Wris
    BY RouteKeys DEF IInv, TypeOK
  <2>4. wri[Route].exists
    BY <2>1, RouteOnly DEF GatewayUpdate, GatewayDelete
  <2>5. tries = 1 /\ Namespaced # {}
    <3>1. tries # 0 /\ Namespaced # {}
      BY <2>2, <2>4 DEF OneRoute
    <3>2. tries \in Nat /\ tries <= 1
      BY <2>1, RouteKeys DEF Alone, IInv
    <3>3. QED
      BY <3>1, <3>2
  <2>6. CASE GatewayUpdate
    <3> DEFINE w == [wri[Route] EXCEPT !.def = 2, !.ns = 0, !.reconciled = FALSE]
    <3>1. /\ Writes(Route, w) /\ gpc' = "updated" /\ gateway' = gateway
          /\ gateway \in {"updating", "scheduled"}
      BY <1>1, <2>1, <2>6, RouteOnly DEF GatewayUpdate, RouteInv, Calls
    <3>2. w.exists /\ ~w.reconciled /\ w.def # 0 /\ w.scheduled = wri[Route].scheduled
      BY <2>3, <2>4 DEF Wris
    <3> HIDE DEF w
    <3>3. OneRoute' /\ Copied' /\ Applied' /\ wri'[Route] = w
      BY <1>1, <1>3, <2>1, <2>5, <3>1, <3>2, RouteWrites DEF Alone
    <3>4. Asked'
      BY <2>2, <3>1, <3>2, <3>3 DEF Asked
    <3>5. QED
      BY <3>3, <3>4
  <2>7. CASE GatewayDelete /\ GatewayWris # {}
    <3> DEFINE w == [wri[Route] EXCEPT !.scheduled = TRUE, !.reconciled = FALSE]
    <3>1. Writes(Route, w) /\ gpc' = "deleted" /\ gateway' = "scheduled"
      BY <1>1, <2>1, <2>7, RouteOnly DEF GatewayDelete, RouteInv, Calls
    <3>2. w.exists /\ ~w.reconciled /\ w.def # 0 /\ w.scheduled
      BY <2>2, <2>3, <2>4 DEF Wris, OneRoute
    <3> HIDE DEF w
    <3>3. OneRoute' /\ Copied' /\ Applied' /\ wri'[Route] = w
      BY <1>1, <1>3, <2>1, <2>5, <3>1, <3>2, RouteWrites DEF Alone
    <3>4. Asked'
      BY <3>1, <3>2, <3>3 DEF Asked
    <3>5. QED
      BY <3>3, <3>4
  <2>8. QED
    BY <2>6, <2>7
<1>4. QED
  BY <1>2, <1>3 DEF RouteInv

LEMMA RoutePatch ==
  ASSUME IInv, TraceInv, RouteInv, GatewayRequest \/ GatewayPatch \/ GatewayMisses \/ GatewayFails
  PROVE  RouteInv'
<1>1. UNCHANGED <<managed, kube, wri, roundVars, tries, overlapped>>
  BY DEF GatewayRequest, GatewayPatch, GatewayMisses, GatewayFails, GatewayEnds, fixed
<1>2. row'.scheduled = row.scheduled
  BY DEF GatewayRequest, GatewayPatch, GatewayMisses, GatewayFails, GatewayEnds, Unreconciled, IInv, TypeOK
<1>3. Calls'
  BY <1>1 DEF GatewayRequest, GatewayPatch, GatewayMisses, GatewayFails, GatewayEnds, RouteInv,
              Calls, roundVars
<1>4. ASSUME Alone' PROVE OneRoute' /\ Copied' /\ Applied' /\ Asked'
  <2>1. Alone
    BY <1>1, <1>2, <1>4 DEF Alone
  <2>2. OneRoute /\ Copied /\ Applied /\ Asked
    BY <2>1 DEF RouteInv
  <2>3. row.live
    BY <2>1 DEF Alone, TraceInv, Reading
  <2>4. Target' = Target /\ Namespaced' = Namespaced
    BY <1>1, TargetSame
  <2>5. OneRoute' /\ Copied'
    <3>1. gpc' \in {gpc, "idle"}
      BY DEF GatewayRequest, GatewayPatch, GatewayMisses, GatewayFails, GatewayEnds
    <3>2. QED
      BY <1>1, <2>2, <2>4, <3>1 DEF OneRoute, Copied, roundVars
  <2>6. notif \in [Operations -> Nat] /\ "update" \in Operations
    BY DEF IInv, TypeOK, Operations
  <2>7. Pending => Pending'
    <3>1. CASE GatewayRequest
      BY <1>1, <3>1 DEF GatewayRequest, Pending, roundVars
    <3>2. CASE Unreconciled
      <4>1. notif'["update"] > 0
        BY <2>3, <2>6, <3>2 DEF Unreconciled
      <4>2. QED
        BY <4>1 DEF Pending
    <3>3. CASE (GatewayMisses \/ GatewayFails) /\ notif' = notif
      <4>1. /\ gpc # "idle" /\ gateway' = gateway
            /\ gpc \in {"idle", "creating", "updating", "deleting", "created", "updated", "deleted"}
        BY <3>3 DEF GatewayMisses, GatewayFails, GatewayEnds, IInv, TypeOK
      <4>2. gateway' \in {"wanted", "updating", "scheduled"}
        BY <4>1 DEF RouteInv, Calls
      <4>3. QED
        BY <4>2 DEF Pending
    <3>4. QED
      BY <3>1, <3>2, <3>3 DEF GatewayPatch, GatewayMisses, GatewayFails
  <2>8. Applied'
    BY <1>1, <2>2, <2>4, <2>7 DEF Applied
  <2>9. Asked'
    <3>1. CASE GatewayRequest
      <4>1. /\ gpc' = gpc /\ (gpc = "deleted" => gateway = "scheduled")
            /\ (gateway' = "updating" /\ gateway = "live") \/ gateway' = "scheduled"
        BY <3>1 DEF GatewayRequest, RouteInv, Calls
      <4>2. gpc = "deleted" => ~wri[Route].exists \/ wri[Route].scheduled
        BY <2>2 DEF Asked
      <4>3. gateway' # "gone" /\ (gateway' = "updating" => gateway = "live")
        BY <4>1
      <4>4. gateway = "live" => wri[Route].exists /\ ~wri[Route].scheduled
        BY <2>2 DEF Asked
      <4>5. gateway' # "live" /\ gateway' # "wanted"
        BY <4>1
      <4>6. gateway' \in {"live", "updating"} \/ (gateway' = "wanted" /\ tries' = 1) =>
              wri[Route].exists /\ ~wri[Route].scheduled
        BY <4>3, <4>4, <4>5
      <4>7. gateway' = "gone" \/ gpc' = "deleted" => ~wri[Route].exists \/ wri[Route].scheduled
        BY <4>1, <4>2, <4>3
      <4>8. wri' = wri
        BY <1>1
      <4>9. QED
        BY <4>6, <4>7, <4>8 DEF Asked
    <3>2. CASE GatewayMisses \/ GatewayFails
      BY <1>1, <2>2, <3>2 DEF GatewayMisses, GatewayFails, GatewayEnds, Asked
    <3>3. CASE GatewayPatch
      <4>1. /\ gpc \in {"created", "updated", "deleted"} /\ gpc' = "idle"
            /\ gateway' = IF gpc = "deleted" THEN "gone"
                          ELSE IF gateway = "scheduled" THEN gateway ELSE "live"
        BY <3>3 DEF GatewayPatch, Written
      <4>2. CASE gpc = "deleted"
        BY <1>1, <2>2, <4>1, <4>2 DEF Asked
      <4>3. CASE gpc # "deleted" /\ gateway = "scheduled"
        BY <1>1, <2>2, <4>1, <4>3 DEF Asked
      <4>4. CASE gpc # "deleted" /\ gateway # "scheduled"
        <5>1. gateway = "updating" \/ (gateway = "wanted" /\ tries > 0)
          BY <4>1, <4>4 DEF RouteInv, Calls
        <5>2. tries > 0 => tries = 1
          BY <2>1, RouteKeys DEF Alone, IInv
        <5>3. wri[Route].exists /\ ~wri[Route].scheduled
          BY <2>2, <5>1, <5>2 DEF Asked
        <5>4. QED
          BY <1>1, <4>1, <4>4, <5>3 DEF Asked
      <4>5. QED
        BY <4>2, <4>3, <4>4
    <3>4. QED
      BY <3>1, <3>2, <3>3
  <2>10. QED
    BY <2>5, <2>8, <2>9
<1>5. QED
  BY <1>3, <1>4 DEF RouteInv

LEMMA NextRoute == IInv /\ TraceInv /\ RouteInv /\ [Next]_vars => RouteInv'
<1> SUFFICES ASSUME IInv, TraceInv, RouteInv, [Next]_vars PROVE RouteInv'
  OBVIOUS
<1>1. CASE Next
  <2>1. CASE \/ RequestDeletion \/ (\E o \in Operations : Obsolete(o)) \/ SkipCreate
             \/ StartDelete \/ Detach \/ DetachFails \/ DeleteObject \/ DeleteFails
             \/ DeleteRecord \/ DeleteEvents \/ DeleteEventsFails \/ Dismiss \/ DismissFails
             \/ Remove
    BY <2>1, RouteDelete
  <2>2. CASE DefinitionReconciled \/ AgentReports
    BY <2>2, RouteStutters
  <2>3. CASE \/ StartCreate \/ BuildNext \/ BuildFails \/ Inform \/ InformFails \/ Mark
             \/ MarkFails \/ EndUpdate \/ Crash
    BY <2>3, RouteRound
  <2>4. CASE RecordNext \/ RecordFails
    BY <2>4, RouteRecord
  <2>5. CASE StartUpdate \/ (\E k \in Keys : Apply(k)) \/ WriteBack \/ UpdateFails
    BY <2>5, RouteStartUpdate, RouteApply, RouteWriteBack, RouteUpdateFails
  <2>6. CASE GatewayStep
    BY <2>6, RouteCreate, RouteValidate, RouteFind, RouteChange, RoutePatch DEF GatewayStep
  <2>7. QED
    BY <1>1, <2>1, <2>2, <2>3, <2>4, <2>5, <2>6 DEF Next, Round, Take
<1>2. CASE UNCHANGED vars
  BY <1>2, RouteStutters
<1>3. QED
  BY <1>1, <1>2

\* Once all is quiet, what the gateway asked for is what the cluster has: the
\* definition it last wrote, or nothing after its deletion; unless it wrote
\* while an Updated round held a copy, or had its creation fail.
THEOREM GatewayIsApplied == Spec => []GatewayApplied
<1>1. IInv /\ TraceInv /\ RouteInv => GatewayApplied
  <2> DEFINE objects == {o \in Leftovers : o[2] = VS}
  <2> SUFFICES ASSUME IInv, TraceInv, RouteInv, Quiet, ~row.scheduled, ~overlapped, tries = 1
               PROVE  /\ gateway = "live" => \E k \in GatewayWris : \E o \in objects :
                                                objects = {o} /\ kube[o] = wri[k].def
                      /\ gateway = "gone" => objects = {} /\ GatewayWris = {}
    BY DEF GatewayApplied
  <2>1. Alone
    BY DEF Alone
  <2>2. OneRoute /\ Applied /\ Asked
    BY <2>1 DEF RouteInv
  <2>3. gateway \in {"live", "gone"} => ~Pending
    BY DEF Quiet, Pending, UpdateStates, Operations, IInv, TypeOK
  <2>4. \A o \in objects : o = Target /\ o \in Keys /\ kube[o] # 0
    BY <2>2 DEF Leftovers, OneRoute
  <2>5. ASSUME gateway = "live"
        PROVE  \E k \in GatewayWris : \E o \in objects : objects = {o} /\ kube[o] = wri[k].def
    <3>1. wri[Route].exists /\ wri[Route].reconciled
      BY <2>2, <2>3, <2>5 DEF Asked, Applied
    <3>2. Route \in GatewayWris
      BY <2>1, <3>1, RouteOnly
    <3>3. kube[Target] = wri[Route].def /\ wri[Route].def # 0 /\ Namespaced # {}
      BY <2>2, <3>1 DEF Applied, OneRoute
    <3>4. Target \in objects
      BY <3>3, RouteKeys DEF Leftovers, IInv
    <3>5. objects = {Target}
      BY <2>4, <3>4
    <3>6. QED
      BY <3>2, <3>3, <3>4, <3>5
  <2>6. ASSUME gateway = "gone" PROVE objects = {} /\ GatewayWris = {}
    <3>1. ~wri[Route].exists
      BY <2>2, <2>3, <2>6 DEF Asked, Applied
    <3>2. GatewayWris = {}
      BY <2>1, <3>1, RouteOnly
    <3>3. \A o \in Keys : o[2] = VS => kube[o] = 0
      BY <2>2, <3>1 DEF Applied
    <3>4. QED
      BY <3>2, <3>3 DEF Leftovers
  <2>7. QED
    BY <2>5, <2>6
<1>2. QED
  BY <1>1, InitIInv, NextIInv, InitTrace, NextTrace, InitRoute, NextRoute, PTL DEF Spec
=============================================================================
