------------------------------- MODULE Workload -------------------------------
(***************************************************************************)
(* A workload instance and what is made of it: its resources in the        *)
(* cluster, the workload resource instances (WRIs) that record them, and   *)
(* the ThreeportWorkload that tells the agent of them.  Created, Updated   *)
(* and Deleted are run call by call by the workload controller, one        *)
(* notification of the instance at a time (ReconcileLoop); the gateway     *)
(* controller adds, changes and schedules for deletion a WRI of its own    *)
(* (a virtual service) meanwhile, and asks for an update.                  *)
(*                                                                         *)
(* Resource 0 is the Namespace of the others.  Without one of the user's,  *)
(* every run of Created makes up the name of a new one.                    *)
(***************************************************************************)
EXTENDS Naturals, FiniteSets

CONSTANTS
    K,               \* the last of the workload's resources 0..K; 1 is its service
    MaxRuns,         \* bound on the runs of Created, and of the gateway's
    Disruptions,     \* kinds of disruption the environment may cause
    MaxDisruptions   \* bound on how many it causes

\* A call to the cluster ("kube") or the API ("api"), by the workload
\* controller, or by the gateway controller ("gateway") fails, served or not;
\* the workload controller dies ("crash").
DisruptionKinds == {"kube", "api", "gateway", "crash"}

ASSUME BoundsAssumption == {K, MaxRuns} \subseteq Nat \ {0} /\ MaxDisruptions \in Nat
ASSUME DisruptionsAssumption == Disruptions \subseteq DisruptionKinds

VARIABLES
    row,          \* the workload instance's row
    managed,      \* threeport makes up the namespace
    defined,      \* its definition is reconciled
    notif,        \* operation -> notifications to be worked on
    kube,         \* <<namespace, resource>> -> its version in the cluster; 0: none
    wri,          \* <<run, resource>> -> workload resource instance
    workload,     \* there is a ThreeportWorkload
    events,       \* there are workload events
    pc, work,     \* where the workload controller is, and on which operation
    run,          \* runs of Created so far
    todo, copy,   \* what the round has still to do, with the WRIs it has read
    gateway,      \* the gateway instance
    gpc,          \* where the gateway controller is
    tries,        \* the WRIs the gateway has created
    created,      \* a Created has got to its end
    overlapped,   \* the gateway wrote a WRI that an Updated round had read
    disruptions

vars == <<row, managed, defined, notif, kube, wri, workload, events, pc, work, run,
          todo, copy, gateway, gpc, tries, created, overlapped, disruptions>>
roundVars == <<pc, work, run, todo, copy>>
gatewayVars == <<gateway, gpc, tries>>
fixed == <<managed, defined>>

Operations == {"create", "update", "delete"}
Resources == 0..K
VS == K + 1                      \* the gateway's virtual service
Runs == 1..MaxRuns
Keys == Runs \X (0..VS)
NoWri == [exists |-> FALSE, ns |-> 0, def |-> 0, reconciled |-> FALSE, scheduled |-> FALSE]
Wris == [exists : BOOLEAN, ns : 0..MaxRuns, def : 0..2, reconciled : BOOLEAN, scheduled : BOOLEAN]
Recorded == {k \in Keys : wri[k].exists}
Least(S) == CHOOSE k \in S : \A l \in S : k <= l

Init ==
    /\ row = [live |-> TRUE, scheduled |-> FALSE, reconciled |-> FALSE]
    /\ managed \in BOOLEAN /\ defined = FALSE
    /\ notif = [o \in Operations |-> IF o = "create" THEN 1 ELSE 0]
    /\ kube = [o \in Keys |-> 0]
    /\ wri = [k \in Keys |-> NoWri]
    /\ workload = FALSE /\ events = FALSE
    /\ pc = "idle" /\ work = "none" /\ run = 0
    /\ todo = {} /\ copy = [k \in Keys |-> NoWri]
    /\ gateway = "wanted" /\ gpc = "idle" /\ tries = 0
    /\ created = FALSE /\ overlapped = FALSE
    /\ disruptions = 0

Disrupt(kind) ==
    /\ kind \in Disruptions /\ disruptions < MaxDisruptions
    /\ disruptions' = disruptions + 1

------------------------------------------------------------------------------
(* Users, the definition and the agent *)

DefinitionReconciled ==
    /\ ~defined /\ defined' = TRUE
    /\ UNCHANGED <<row, managed, notif, kube, wri, workload, events, roundVars, gatewayVars,
                   created, overlapped, disruptions>>

RequestDeletion ==
    /\ row.live /\ ~row.scheduled
    /\ row' = [row EXCEPT !.scheduled = TRUE, !.reconciled = FALSE]
    /\ notif' = [notif EXCEPT !["delete"] = 1]
    /\ UNCHANGED <<fixed, kube, wri, workload, events, roundVars, gatewayVars,
                   created, overlapped, disruptions>>

AgentReports ==
    /\ workload /\ ~events /\ row.live
    /\ events' = TRUE
    /\ UNCHANGED <<row, fixed, notif, kube, wri, workload, roundVars, gatewayVars,
                   created, overlapped, disruptions>>

------------------------------------------------------------------------------
(* Rounds of the workload controller *)

EnterRound(o, l, what) ==
    /\ pc' = l /\ work' = o /\ todo' = what /\ copy' = wri
    /\ notif' = [notif EXCEPT ![o] = @ - 1]

\* A round that fails has its notification delivered again.
EndRound(settled) ==
    /\ pc' = "idle" /\ work' = "none" /\ todo' = {} /\ copy' = [k \in Keys |-> NoWri]
    /\ notif' = IF settled THEN notif ELSE [notif EXCEPT ![work] = @ + 1]
    /\ UNCHANGED run

At(l) == pc = l
Goto(l) == pc' = l /\ UNCHANGED <<notif, work, run, todo, copy>>
Ready(o) == pc = "idle" /\ notif[o] > 0

\* The row is gone.
Obsolete(o) ==
    /\ Ready(o) /\ ~row.live
    /\ notif' = [notif EXCEPT ![o] = @ - 1]
    /\ UNCHANGED <<row, fixed, kube, wri, workload, events, roundVars, gatewayVars,
                   created, overlapped, disruptions>>

\* Created is skipped when the deletion is scheduled.
SkipCreate ==
    /\ Ready("create") /\ row.live /\ row.scheduled
    /\ EnterRound("create", "mark", {}) /\ UNCHANGED run
    /\ UNCHANGED <<row, fixed, kube, wri, workload, events, gatewayVars,
                   created, overlapped, disruptions>>

\* Created begins: the definition is reconciled, a namespace is named.
StartCreate ==
    /\ Ready("create") /\ row.live /\ ~row.scheduled
    /\ defined /\ run < MaxRuns
    /\ run' = run + 1
    /\ EnterRound("create", "build", Resources)
    /\ UNCHANGED <<row, fixed, kube, wri, workload, events, gatewayVars,
                   created, overlapped, disruptions>>

Namespace == IF managed THEN run ELSE 1
Next0 == Least(todo)

\* CreateResource: one that exists is taken as it is.
BuildNext ==
    /\ At("build")
    /\ kube' = [kube EXCEPT ![<<Namespace, Next0>>] = IF @ = 0 THEN 1 ELSE @]
    /\ Goto("record")
    /\ UNCHANGED <<row, fixed, wri, workload, events, gatewayVars, created, overlapped, disruptions>>

\* Variant: a resource that cannot be created is passed over.
BuildFailsPassedOver ==
    /\ At("build") /\ Disrupt("kube")
    /\ Goto("record")
    /\ events' = TRUE
    /\ UNCHANGED <<row, fixed, kube, wri, workload, gatewayVars, created, overlapped>>

\* A workload event tells of the failure, if it can.
BuildFails ==
    /\ At("build") /\ Disrupt("kube")
    /\ kube' \in {kube, [kube EXCEPT ![<<Namespace, Next0>>] = IF @ = 0 THEN 1 ELSE @]}
    /\ events' \in {events, TRUE}
    /\ EndRound(FALSE)
    /\ UNCHANGED <<row, fixed, wri, workload, gatewayVars, created, overlapped>>

WithRecord == [wri EXCEPT ![<<run, Next0>>] =
    [exists |-> TRUE, ns |-> Namespace, def |-> 1, reconciled |-> TRUE, scheduled |-> FALSE]]

\* Variant: the last resource is not told from the others.
RecordNextUncounted ==
    /\ At("record")
    /\ wri' = WithRecord
    /\ todo' = todo \ {Next0} /\ pc' = "build"
    /\ UNCHANGED <<row, fixed, notif, kube, workload, events, work, run, copy, gatewayVars,
                   created, overlapped, disruptions>>

RecordNext ==
    /\ At("record")
    /\ wri' = WithRecord
    /\ todo' = todo \ {Next0}
    /\ pc' = IF todo = {Next0} THEN "inform" ELSE "build"
    /\ UNCHANGED <<row, fixed, notif, kube, workload, events, work, run, copy, gatewayVars,
                   created, overlapped, disruptions>>

RecordFails ==
    /\ At("record") /\ Disrupt("api")
    /\ wri' \in {wri, WithRecord}
    /\ EndRound(FALSE)
    /\ UNCHANGED <<row, fixed, kube, workload, events, gatewayVars, created, overlapped>>

Inform ==
    /\ At("inform") /\ ~workload
    /\ workload' = TRUE /\ created' = TRUE
    /\ Goto("mark")
    /\ UNCHANGED <<row, fixed, kube, wri, events, gatewayVars, overlapped, disruptions>>

\* The ThreeportWorkload of an earlier run is there: an error, for ever.
InformFails ==
    /\ At("inform")
    /\ \/ workload /\ UNCHANGED <<workload, disruptions>>
       \/ Disrupt("kube") /\ workload' \in {workload, TRUE}
    /\ EndRound(FALSE)
    /\ UNCHANGED <<row, fixed, kube, wri, events, gatewayVars, created, overlapped>>

\* The loop marks the instance reconciled after Created or Updated.
Mark ==
    /\ At("mark")
    /\ row' = [row EXCEPT !.reconciled = TRUE]
    /\ EndRound(TRUE)
    /\ UNCHANGED <<fixed, kube, wri, workload, events, gatewayVars, created, overlapped, disruptions>>

MarkFails ==
    /\ At("mark") /\ Disrupt("api")
    /\ row' \in {row, [row EXCEPT !.reconciled = TRUE]}
    /\ EndRound(FALSE)
    /\ UNCHANGED <<fixed, kube, wri, workload, events, gatewayVars, created, overlapped>>

------------------------------------------------------------------------------
\* Updated begins with the WRIs there are, unless their Namespace is not.
StartUpdate ==
    /\ Ready("update") /\ row.live
    /\ Recorded = {} \/ \E k \in Recorded : k[2] = 0
    /\ EnterRound("update", IF Recorded = {} THEN "mark" ELSE "update",
                  {k \in Recorded : ~wri[k].reconciled})
    /\ UNCHANGED run
    /\ UNCHANGED <<row, fixed, kube, wri, workload, events, gatewayVars,
                   created, overlapped, disruptions>>

\* The namespace the round gives to all it works on: that of the first
\* Namespace it has read.
UpdateNamespace == copy[<<Least({r \in Runs : copy[<<r, 0>>].exists}), 0>>].ns
ObjectOf(k) == <<UpdateNamespace, k[2]>>

EndUpdate ==
    /\ At("update") /\ todo = {}
    /\ Goto("mark")
    /\ UNCHANGED <<row, fixed, kube, wri, workload, events, gatewayVars,
                   created, overlapped, disruptions>>

\* CreateOrUpdateResource, or DeleteResource if it is scheduled for deletion.
Apply(k) ==
    /\ At("update") /\ k \in todo
    /\ kube' = [kube EXCEPT ![ObjectOf(k)] = IF copy[k].scheduled THEN 0 ELSE copy[k].def]
    /\ pc' = "applied" /\ todo' = {k}
    /\ UNCHANGED <<row, fixed, notif, wri, workload, events, work, run, copy, gatewayVars,
                   created, overlapped, disruptions>>

\* Variant: a WRI deleted from the cluster is kept.
WrittenBackKept(k) ==
    [wri EXCEPT ![k] = [copy[k] EXCEPT !.ns = UpdateNamespace, !.reconciled = TRUE]]

\* The WRI is deleted, or the round's copy of it written back, with what it
\* says: the definition it had, but not a deletion that it does not know of.
WrittenBack(k) ==
    [wri EXCEPT ![k] = IF copy[k].scheduled THEN NoWri
                       ELSE [copy[k] EXCEPT !.ns = UpdateNamespace, !.reconciled = TRUE,
                                            !.scheduled = wri[k].scheduled]]

WriteBack ==
    /\ At("applied")
    /\ \E k \in todo :
          /\ wri' = WrittenBack(k)
          /\ todo' = {l \in Keys : copy[l].exists /\ ~copy[l].reconciled} \ {k}
          /\ copy' = [copy EXCEPT ![k].reconciled = TRUE]
    /\ pc' = "update"
    /\ UNCHANGED <<row, fixed, notif, kube, workload, events, work, run, gatewayVars,
                   created, overlapped, disruptions>>

\* Applying or writing back fails.
UpdateFails ==
    /\ \/ At("update") /\ todo # {} /\ Disrupt("kube") /\ UNCHANGED wri
          /\ \E k \in todo : kube' \in {kube, [kube EXCEPT ![ObjectOf(k)] =
                                          IF copy[k].scheduled THEN 0 ELSE copy[k].def]}
       \/ At("applied") /\ Disrupt("api") /\ UNCHANGED kube
          /\ \E k \in todo : wri' \in {wri, WrittenBack(k)}
    /\ EndRound(FALSE)
    /\ UNCHANGED <<row, fixed, workload, events, gatewayVars, created, overlapped>>

------------------------------------------------------------------------------
\* Variant: without WRIs there are still the events to delete.
StartDeleteThorough ==
    /\ Ready("delete") /\ row.live
    /\ EnterRound("delete", IF Recorded = {} THEN "events" ELSE "detach", Recorded)
    /\ UNCHANGED run
    /\ UNCHANGED <<row, fixed, kube, wri, workload, events, gatewayVars,
                   created, overlapped, disruptions>>

\* Deleted deletes what is attached, first of all, and has nothing to do
\* without WRIs.
StartDelete ==
    /\ Ready("delete") /\ row.live
    /\ EnterRound("delete", IF Recorded = {} THEN "remove" ELSE "detach", Recorded)
    /\ UNCHANGED run
    /\ UNCHANGED <<row, fixed, kube, wri, workload, events, gatewayVars,
                   created, overlapped, disruptions>>

\* What is attached is what has got as far as its attached object reference,
\* the first thing a gateway's Created makes.
Detached ==
    IF gateway \in {"live", "updating"} \/ (gateway = "wanted" /\ (tries > 0 \/ gpc = "creating"))
    THEN {"scheduled"}
    ELSE IF gateway = "wanted" THEN {"wanted", "scheduled"} ELSE {gateway}

Detach ==
    /\ At("detach")
    /\ gateway' \in Detached
    /\ Goto("delete")
    /\ UNCHANGED <<row, fixed, kube, wri, workload, events, gpc, tries, created, overlapped, disruptions>>

DetachFails ==
    /\ At("detach") /\ Disrupt("api")
    /\ gateway' \in {gateway} \union Detached
    /\ EndRound(FALSE)
    /\ UNCHANGED <<row, fixed, kube, wri, workload, events, gpc, tries, created, overlapped>>

\* Deleting a Namespace deletes what is in it.
Without(o) == [p \in Keys |-> IF p = o \/ (o[2] = 0 /\ p[1] = o[1]) THEN 0 ELSE kube[p]]
KeyLess(k, l) == k[1] < l[1] \/ (k[1] = l[1] /\ k[2] < l[2])
Next1 == CHOOSE k \in todo : \A l \in todo \ {k} : KeyLess(k, l)

DeleteObject ==
    /\ At("delete")
    /\ kube' = Without(<<copy[Next1].ns, Next1[2]>>)
    /\ Goto("deleted")
    /\ UNCHANGED <<row, fixed, wri, workload, events, gatewayVars, created, overlapped, disruptions>>

\* Variant: a WRI is deleted whatever became of its resource.
DeleteFailsPassedOver ==
    /\ At("delete") /\ Disrupt("kube")
    /\ Goto("deleted")
    /\ UNCHANGED <<row, fixed, kube, wri, workload, events, gatewayVars, created, overlapped>>

DeleteFails ==
    /\ \/ At("delete") /\ Disrupt("kube") /\ UNCHANGED wri
          /\ kube' \in {kube, Without(<<copy[Next1].ns, Next1[2]>>)}
       \/ At("deleted") /\ Disrupt("api") /\ UNCHANGED kube
          /\ wri' \in {wri, [wri EXCEPT ![Next1] = NoWri]}
    /\ EndRound(FALSE)
    /\ UNCHANGED <<row, fixed, workload, events, gatewayVars, created, overlapped>>

DeleteRecord ==
    /\ At("deleted")
    /\ wri' = [wri EXCEPT ![Next1] = NoWri]
    /\ todo' = todo \ {Next1}
    /\ pc' = IF todo = {Next1} THEN "events" ELSE "delete"
    /\ UNCHANGED <<row, fixed, notif, kube, workload, events, work, run, copy, gatewayVars,
                   created, overlapped, disruptions>>

DeleteEvents ==
    /\ At("events") /\ events
    /\ events' = FALSE
    /\ Goto("dismiss")
    /\ UNCHANGED <<row, fixed, kube, wri, workload, gatewayVars, created, overlapped, disruptions>>

\* No events are "not found": an error.
DeleteEventsFails ==
    /\ At("events")
    /\ \/ ~events /\ UNCHANGED <<events, disruptions>>
       \/ Disrupt("api") /\ events' \in {events, FALSE}
    /\ EndRound(FALSE)
    /\ UNCHANGED <<row, fixed, kube, wri, workload, gatewayVars, created, overlapped>>

Dismiss ==
    /\ At("dismiss")
    /\ workload' = FALSE
    /\ Goto("remove")
    /\ UNCHANGED <<row, fixed, kube, wri, events, gatewayVars, created, overlapped, disruptions>>

DismissFails ==
    /\ At("dismiss") /\ Disrupt("kube")
    /\ workload' \in {workload, FALSE}
    /\ EndRound(FALSE)
    /\ UNCHANGED <<row, fixed, kube, wri, events, gatewayVars, created, overlapped>>

\* The deletion is confirmed and the row removed.
Remove ==
    /\ At("remove")
    /\ row' = [row EXCEPT !.live = FALSE]
    /\ EndRound(TRUE)
    /\ UNCHANGED <<fixed, kube, wri, workload, events, gatewayVars, created, overlapped, disruptions>>

Crash ==
    /\ pc # "idle" /\ Disrupt("crash")
    /\ EndRound(FALSE)
    /\ UNCHANGED <<row, fixed, kube, wri, workload, events, gatewayVars, created, overlapped>>

------------------------------------------------------------------------------
(* The gateway controller *)

GatewayWris == {k \in Recorded : k[2] = VS}
Services == {k \in Recorded : k[2] = 1}

\* The workload is there and reconciled, and its service is the only one.
Validated ==
    row.live /\ row.reconciled /\ defined /\ Cardinality(Services) = 1

Writes(k, w) ==
    /\ wri' = [wri EXCEPT ![k] = w]
    /\ overlapped' = (overlapped \/ (work = "update" /\ pc # "mark"))

\* Created and Updated validate before they write; Updated has read the WRI
\* that it will change by then.
GatewayValidate ==
    /\ gpc = "idle" /\ Validated
    /\ \/ gateway = "wanted" /\ tries < MaxRuns /\ gpc' = "creating"
       \/ gateway = "updating" /\ Cardinality(GatewayWris) = 1 /\ gpc' = "updating"
    /\ UNCHANGED <<row, fixed, notif, kube, wri, workload, events, roundVars, gateway, tries,
                   created, overlapped, disruptions>>

\* Created makes a WRI, before it asks for the update, and whatever has become
\* of the workload since; its namespace, 0, is the gateway controller's.
GatewayCreate ==
    /\ gpc = "creating"
    /\ tries' = tries + 1
    /\ Writes(<<tries', VS>>, [exists |-> TRUE, ns |-> 0, def |-> 1,
                               reconciled |-> FALSE, scheduled |-> FALSE])
    /\ gpc' = "created"
    /\ UNCHANGED <<row, fixed, notif, kube, workload, events, roundVars, gateway, created, disruptions>>

\* Updated gives the WRI it has read the definition asked for.  Only Created
\* adds WRIs of the gateway: the one that was read is there, or none is.
GatewayUpdate ==
    /\ gpc = "updating"
    /\ \E k \in GatewayWris : Writes(k, [wri[k] EXCEPT !.def = 2, !.ns = 0, !.reconciled = FALSE])
    /\ gpc' = "updated"
    /\ UNCHANGED <<row, fixed, notif, kube, workload, events, roundVars, gateway, tries, created, disruptions>>

\* A user changes the gateway, once, or deletes it.
GatewayRequest ==
    /\ \/ gateway = "live" /\ (\A k \in GatewayWris : wri[k].def = 1) /\ gateway' = "updating"
       \/ gateway \in {"wanted", "live", "updating"} /\ gateway' = "scheduled"
    /\ UNCHANGED <<row, fixed, notif, kube, wri, workload, events, roundVars, gpc, tries,
                   created, overlapped, disruptions>>

\* Deleted looks for the WRI; there not being exactly one counts as there
\* being none.
GatewayFind ==
    /\ gateway = "scheduled" /\ gpc = "idle"
    /\ IF Cardinality(GatewayWris) = 1
       THEN gpc' = "deleting" /\ UNCHANGED gateway
       ELSE gateway' = "gone" /\ UNCHANGED gpc
    /\ UNCHANGED <<row, fixed, notif, kube, wri, workload, events, roundVars, tries,
                   created, overlapped, disruptions>>

\* Variant: the WRI is not marked as one to work on.
GatewayDeleteUnmarked ==
    /\ gpc = "deleting"
    /\ \/ /\ \E k \in GatewayWris :
                 Writes(k, [wri[k] EXCEPT !.scheduled = TRUE])
          /\ gpc' = "deleted" /\ UNCHANGED gateway
       \/ /\ GatewayWris = {}
          /\ gateway' = "gone" /\ gpc' = "idle" /\ UNCHANGED <<wri, overlapped>>
    /\ UNCHANGED <<row, fixed, notif, kube, workload, events, roundVars, tries, created, disruptions>>

\* Deleted schedules it for deletion, unless it has gone since.
GatewayDelete ==
    /\ gpc = "deleting"
    /\ \/ /\ \E k \in GatewayWris :
                 Writes(k, [wri[k] EXCEPT !.scheduled = TRUE, !.reconciled = FALSE])
          /\ gpc' = "deleted" /\ UNCHANGED gateway
       \/ /\ GatewayWris = {}
          /\ gateway' = "gone" /\ gpc' = "idle" /\ UNCHANGED <<wri, overlapped>>
    /\ UNCHANGED <<row, fixed, notif, kube, workload, events, roundVars, tries, created, disruptions>>

\* The PATCH of the workload instance, Reconciled false, makes the API publish
\* an update.
Unreconciled ==
    IF row.live
    THEN /\ row' = [row EXCEPT !.reconciled = FALSE]
         /\ notif' = [notif EXCEPT !["update"] = @ + 1]
    ELSE UNCHANGED <<row, notif>>

Written == {"created", "updated", "deleted"}

\* Only Deleted takes it that the instance is gone.
GatewayPatch ==
    /\ gpc \in Written
    /\ row.live \/ gpc = "deleted"
    /\ Unreconciled
    /\ gateway' = IF gpc = "deleted" THEN "gone"
                  ELSE IF gateway = "scheduled" THEN gateway ELSE "live"
    /\ gpc' = "idle"
    /\ UNCHANGED <<fixed, kube, wri, workload, events, roundVars, tries, created, overlapped, disruptions>>

GatewayEnds ==
    /\ gpc' = "idle"
    /\ UNCHANGED <<fixed, kube, wri, workload, events, roundVars, gateway, tries, created, overlapped>>

\* What is to be written to is gone: the round of the gateway controller
\* begins anew.
GatewayMisses ==
    /\ (~row.live /\ gpc \in {"created", "updated"}) \/ (GatewayWris = {} /\ gpc = "updating")
    /\ GatewayEnds /\ UNCHANGED <<row, notif, disruptions>>

\* A call fails, served or not; a write that was served is one followed by a
\* PATCH that was not.
GatewayFails ==
    /\ gpc # "idle" /\ Disrupt("gateway")
    /\ UNCHANGED <<row, notif>> \/ (gpc \in Written /\ Unreconciled)
    /\ GatewayEnds

------------------------------------------------------------------------------
Take(o) ==
    \/ Obsolete(o)
    \/ o = "create" /\ (SkipCreate \/ StartCreate)
    \/ o = "update" /\ StartUpdate
    \/ o = "delete" /\ StartDelete

\* What a round does when nothing disrupts it.
Proceed ==
    \/ BuildNext \/ RecordNext \/ Inform \/ (workload /\ InformFails) \/ Mark
    \/ EndUpdate \/ (\E k \in Keys : Apply(k)) \/ WriteBack
    \/ Detach \/ DeleteObject \/ DeleteRecord
    \/ DeleteEvents \/ (~events /\ DeleteEventsFails) \/ Dismiss \/ Remove

Round ==
    \/ \E o \in Operations : Take(o)
    \/ BuildNext \/ BuildFails \/ RecordNext \/ RecordFails
    \/ Inform \/ InformFails \/ Mark \/ MarkFails
    \/ EndUpdate \/ (\E k \in Keys : Apply(k)) \/ WriteBack \/ UpdateFails
    \/ Detach \/ DetachFails \/ DeleteObject \/ DeleteFails \/ DeleteRecord
    \/ DeleteEvents \/ DeleteEventsFails \/ Dismiss \/ DismissFails \/ Remove
    \/ Crash

GatewayStep ==
    \/ GatewayValidate \/ GatewayCreate \/ GatewayUpdate \/ GatewayRequest
    \/ GatewayFind \/ GatewayDelete \/ GatewayPatch \/ GatewayMisses \/ GatewayFails

\* What the gateway controller does once it has validated, and to delete.
GatewayProceed ==
    \/ GatewayCreate \/ GatewayUpdate \/ GatewayFind \/ GatewayDelete
    \/ GatewayPatch \/ GatewayMisses

Next == DefinitionReconciled \/ RequestDeletion \/ AgentReports \/ Round \/ GatewayStep

\* The loop takes every notification in its turn and goes on with its round;
\* the definition is reconciled, and the gateway controller goes on with its
\* round and repeats its Deleted.
Fairness ==
    /\ WF_vars(DefinitionReconciled)
    /\ WF_vars(Proceed)
    /\ \A o \in Operations : SF_vars(Take(o))
    /\ WF_vars(GatewayProceed)

Spec == Init /\ [][Next]_vars
FairSpec == Spec /\ Fairness

------------------------------------------------------------------------------
(* Properties *)

\* The variables keep their types; a round has something left to do where it
\* says so, and works on WRIs there is a Namespace for.
TypeOK ==
    /\ row \in [live : BOOLEAN, scheduled : BOOLEAN, reconciled : BOOLEAN]
    /\ {managed, defined, workload, events, created, overlapped} \subseteq BOOLEAN
    /\ notif \in [Operations -> Nat]
    /\ kube \in [Keys -> 0..2] /\ wri \in [Keys -> Wris] /\ copy \in [Keys -> Wris]
    /\ pc \in {"idle", "build", "record", "inform", "mark", "update", "applied",
               "detach", "delete", "deleted", "events", "dismiss", "remove"}
    /\ work \in Operations \union {"none"} /\ (pc = "idle") = (work = "none")
    /\ run \in 0..MaxRuns
    /\ pc \in {"build", "record"} => todo \subseteq Resources /\ todo # {} /\ run > 0
    /\ pc \in {"update", "applied", "delete", "deleted"} => todo \subseteq Keys
    /\ pc \in {"applied", "delete", "deleted"} => todo # {}
    /\ gateway \in {"wanted", "live", "updating", "scheduled", "gone"}
    /\ gpc \in {"idle", "creating", "updating", "deleting", "created", "updated", "deleted"}
    /\ tries \in 0..MaxRuns /\ (gpc = "creating" => tries < MaxRuns)
    /\ disruptions \in Nat

\* A workload whose Created got to its end is complete until its deletion is
\* asked for: some run has built and recorded all of it, and the agent knows.
CreatedIsComplete ==
    created /\ row.live /\ ~row.scheduled =>
        /\ workload
        /\ \E r \in Runs : \A k \in Resources :
              wri[<<r, k>>].exists /\ kube[<<wri[<<r, k>>].ns, k>>] # 0

\* When the row is gone so is everything in the cluster, in every namespace
\* that any run made up, but for the Namespaces that were created and not
\* recorded: at most one for each run that failed, and nothing in them.
Leftovers == {o \in Keys : kube[o] # 0}
LeftoversBounded ==
    ~row.live =>
        /\ \A o \in Leftovers : o[2] = 0
        /\ Cardinality(Leftovers) <= IF created THEN run - 1 ELSE run
        /\ \A k \in Recorded : k[2] = VS

\* Nothing is on its way to the workload.
Quiet == pc = "idle" /\ gpc = "idle" /\ \A o \in Operations : notif[o] = 0

\* What the gateway asked for is what the cluster has, once it is quiet: the
\* definition it last wrote, or nothing after its deletion; unless the gateway
\* wrote while an Updated round held a copy, or its Created was repeated.
GatewayApplied ==
    Quiet /\ row.live /\ ~row.scheduled /\ ~overlapped /\ tries = 1 =>
        LET objects == {o \in Leftovers : o[2] = VS}
        IN  /\ gateway = "live" => \E k \in GatewayWris : \E o \in objects :
                                      objects = {o} /\ kube[o] = wri[k].def
            /\ gateway = "gone" => objects = {} /\ GatewayWris = {}

\* A gateway that is to be deleted, by its user or with the workload, takes its
\* object out of the cluster in the end, although three controllers must hear
\* of it in turn and any of their rounds may fail; unless it wrote while an
\* Updated round held a copy, or its Created was repeated.
RouteRemoved ==
    gateway = "scheduled" ~>
        (overlapped \/ tries > 1 \/ (gateway = "gone" /\ \A o \in Leftovers : o[2] # VS))

\* A deletion completes, whatever fails on its way and whatever the gateway
\* does meanwhile.
DeletionCompletes == row.scheduled ~> ~row.live
===============================================================================
