----------------------------- MODULE AgentNotify -----------------------------
(***************************************************************************)
(* The threeport agent's way from a cluster to the threeport API: watches  *)
(* on the resources of a workload and informers for their events send      *)
(* notifications on one bounded channel; Notify collects what it receives  *)
(* and, when the channel is empty, sends all of it to the API, keeping     *)
(* what was not sent for the next time.  An interrupt closes the channel,  *)
(* the watches and the informers, by goroutines of their own; a send on a  *)
(* closed channel and the second closing of a channel are panics that end  *)
(* the process.                                                            *)
(***************************************************************************)
EXTENDS Naturals, Sequences, FiniteSets

CONSTANTS
    R,               \* the workload's resources, in ThreeportWorkload's order: 1..R
    Events,          \* Kubernetes events
    EventOf,         \* event -> the resource it involves
    Capacity,        \* of the channel
    MaxOps,          \* bound on the operations on a resource
    MaxRounds,       \* bound on the reconciliations of the ThreeportWorkload
    Disruptions,     \* kinds of disruption the environment may cause
    MaxDisruptions   \* bound on how many it causes

\* "refused": a call to the API is not served; "lost": it is served and
\* reported as an error; "expire": the cluster's API server ends a watch;
\* "interrupt": the agent is told to stop; "crash": it dies.
DisruptionKinds == {"refused", "lost", "expire", "interrupt", "crash"}

ASSUME BoundsAssumption ==
    {R, Capacity, MaxOps, MaxRounds} \subseteq Nat \ {0} /\ MaxDisruptions \in Nat
ASSUME EventOfAssumption == EventOf \in [Events -> 1..R]
ASSUME DisruptionsAssumption == Disruptions \subseteq DisruptionKinds

VARIABLES
    cluster,      \* resource -> the number of its latest operation; is it gone
    occurred,     \* the events there are in the cluster
    row,          \* resource -> its workload resource instance in the API: does
                  \* it exist, and the operation it has last been sent
    copies,       \* event -> how many workload events tell of it
    process,      \* "up", "stopping" or "down"
    round,        \* reconciliations of the ThreeportWorkload so far
    watch,        \* <<round, resource>> -> watch, and the operation it is at
    informer,     \* <<round, resource>> -> informer, the events it has sent and,
                  \* once it is stopped, the one it is still sending
    chan,         \* what is in the channel
    closed,       \* is the channel closed
    notify,       \* where Notify is
    wris,         \* the operations it has collected and is yet to send
    wes,          \* the events
    unsentWRIs,   \* what it tried to send this time and could not: operations
    unsentWEs,    \* events
    \* History, kept for the properties: since the agent last started
    overtaken,    \* resource -> operations whose sending failed
    told,         \* event -> how often the API knew it then, and how often an
                  \* informer has sent it since
    disrupted,    \* the kinds of disruption
    disruptions   \* how many there have been in all

clusterVars == <<cluster, occurred>>
apiVars == <<row, copies>>
collected == <<wris, wes, unsentWRIs, unsentWEs>>
notifyVars == <<notify, collected>>
agentVars == <<process, round, watch, informer, chan, closed, notifyVars>>
history == <<overtaken, told>>
envVars == <<disrupted, disruptions>>
vars == <<clusterVars, apiVars, agentVars, history, envVars>>

Resources == 1..R
Watches == (1..MaxRounds) \X Resources
On(w) == w[2]

Operation(r, n) == [kind |-> "operation", of |-> r, n |-> n]
Event(e) == [kind |-> "event", of |-> e, n |-> 0]
IsOperation(i) == i.kind = "operation"
IsEvent(i) == i.kind = "event"
Operations == {Operation(r, n) : r \in Resources, n \in 1..MaxOps}
Occurrences == {Event(e) : e \in Events}

Spend(kind) ==
    /\ kind \in Disruptions /\ disruptions < MaxDisruptions
    /\ disruptions' = disruptions + 1

Disrupt(kind) ==
    /\ Spend(kind)
    /\ disrupted' = disrupted \union {kind}

------------------------------------------------------------------------------
NoWatch == [st |-> "none", at |-> 0]
NoInformer == [st |-> "none", sent |-> {}, late |-> {}]
Listening ==
    /\ notify = "receive"
    /\ wris = <<>> /\ wes = <<>> /\ unsentWRIs = <<>> /\ unsentWEs = <<>>

FreshAgent ==
    /\ round' = 0
    /\ watch' = [w \in Watches |-> NoWatch]
    /\ informer' = [w \in Watches |-> NoInformer]
    /\ chan' = <<>> /\ closed' = FALSE
    /\ notify' = "receive"
    /\ wris' = <<>> /\ wes' = <<>> /\ unsentWRIs' = <<>> /\ unsentWEs' = <<>>

Init ==
    /\ cluster = [r \in Resources |-> [op |-> 1, gone |-> FALSE]]
    /\ occurred = {}
    /\ row = [r \in Resources |-> [exists |-> TRUE, op |-> 0]]
    /\ copies = [e \in Events |-> 0]
    /\ process = "up" /\ round = 0
    /\ watch = [w \in Watches |-> NoWatch]
    /\ informer = [w \in Watches |-> NoInformer]
    /\ chan = <<>> /\ closed = FALSE
    /\ Listening
    /\ overtaken = [r \in Resources |-> {}]
    /\ told = [e \in Events |-> 0]
    /\ disruptions = 0 /\ disrupted = {}

------------------------------------------------------------------------------
(* The cluster, and the workload controller that removes a row *)

Change(r) ==
    /\ ~cluster[r].gone /\ cluster[r].op < MaxOps
    /\ \E g \in BOOLEAN : cluster' = [cluster EXCEPT ![r] = [op |-> @.op + 1, gone |-> g]]
    /\ UNCHANGED <<occurred, apiVars, agentVars, history, envVars>>

Occur(e) ==
    /\ e \notin occurred
    /\ occurred' = occurred \union {e}
    /\ UNCHANGED <<cluster, apiVars, agentVars, history, envVars>>

RemoveRow(r) ==
    /\ cluster[r].gone /\ row[r].exists
    /\ row' = [row EXCEPT ![r] = [exists |-> FALSE, op |-> 0]]
    /\ UNCHANGED <<clusterVars, copies, agentVars, history, envVars>>

------------------------------------------------------------------------------
(* The controller and its goroutines *)

\* Reconcile opens a watch on each resource, up to the first that is missing:
\* that is an error.  The watch begins with the resource as it is.
Reconcile ==
    /\ process = "up" /\ round < MaxRounds
    /\ round' = round + 1
    /\ LET Found == {r \in Resources : \A s \in 1..r : ~cluster[s].gone}
           New(w) == w[1] = round + 1 /\ On(w) \in Found
       IN  /\ watch' = [w \in Watches |-> IF New(w)
                            THEN [st |-> "open", at |-> cluster[On(w)].op - 1]
                            ELSE watch[w]]
           /\ informer' = [w \in Watches |-> IF New(w)
                            THEN [NoInformer EXCEPT !.st = "running"]
                            ELSE informer[w]]
    /\ UNCHANGED <<clusterVars, apiVars, process, chan, closed, notifyVars, history, envVars>>

\* Variant: a channel without a bound.
PutUnbounded(i) ==
    chan' = Append(chan, i)

Put(i) ==
    /\ Len(chan) < Capacity
    /\ chan' = Append(chan, i)

Die ==
    /\ process' = "down"
    /\ FreshAgent
    /\ overtaken' = [r \in Resources |-> {}] /\ told' = copies /\ disrupted' = {}
    /\ UNCHANGED <<clusterVars, apiVars>>

\* The operation a watch's goroutine has to send.
Behind(w) ==
    watch[w].st \in {"open", "leaving"} /\ watch[w].at < cluster[On(w)].op

\* What an informer's handler has to send.
Pending(w) ==
    IF informer[w].st = "running"
    THEN {e \in occurred \ informer[w].sent : EventOf[e] = On(w)}
    ELSE informer[w].late

\* The watch sends its next operation.  After the last one of a resource that
\* was deleted it stops its informer.
SendOperation(w) ==
    /\ process # "down" /\ ~closed
    /\ Behind(w)
    /\ Put(Operation(On(w), watch[w].at + 1))
    /\ LET last == cluster[On(w)].gone /\ watch[w].at + 1 = cluster[On(w)].op
           next == IF last THEN "ending" ELSE IF watch[w].st = "open" THEN "open" ELSE "closed"
       IN  watch' = [watch EXCEPT ![w] = [st |-> next, at |-> @.at + 1]]
    /\ UNCHANGED <<clusterVars, apiVars, process, round, informer, closed, notifyVars, history,
                   envVars>>

SendEvent(w, e) ==
    /\ process # "down" /\ ~closed
    /\ e \in Pending(w)
    /\ Put(Event(e))
    /\ informer' = [informer EXCEPT ![w] = [st |-> @.st, late |-> @.late \ {e},
                       sent |-> IF @.st = "running" THEN @.sent \union {e} ELSE {}]]
    /\ told' = [told EXCEPT ![e] = @ + 1]
    /\ UNCHANGED <<clusterVars, apiVars, process, round, watch, closed, notifyVars, overtaken,
                   envVars>>

\* Who waits to send goes on waiting when it is stopped.  (Who need not wait
\* has sent before it is stopped.)
Full == Len(chan) >= Capacity

\* The range over a watch's channel ends, after the operation that waits.
EndRange(w) ==
    IF watch[w].st = "open"
    THEN \/ watch' = [watch EXCEPT ![w].st = "closed"]
         \/ Behind(w) /\ Full /\ watch' = [watch EXCEPT ![w].st = "leaving"]
    ELSE UNCHANGED watch

\* An informer's stop channel is closed: its handler still sends what waits.
StopInformer(w, st) ==
    /\ informer[w].st = "running"
    /\ \E late \in {{}} \union {{e} : e \in {f \in Pending(w) : Full}} :
          informer' = [informer EXCEPT ![w] = [st |-> st, sent |-> {}, late |-> late]]

FinishDeletion(w) ==
    /\ process # "down"
    /\ watch[w].st = "ending"
    /\ watch' = [watch EXCEPT ![w].st = "closed"]
    /\ StopInformer(w, "stopped")
    /\ UNCHANGED <<clusterVars, apiVars, process, round, chan, closed, notifyVars, history, envVars>>

\* The API server ends a watch, and it is not begun again.  Its informer runs
\* on.
WatchExpires(w) ==
    /\ process # "down" /\ watch[w].st = "open" /\ Disrupt("expire")
    /\ watch' = [watch EXCEPT ![w].st = "closed"]
    /\ UNCHANGED <<clusterVars, apiVars, process, round, informer, chan, closed, notifyVars, history>>

------------------------------------------------------------------------------
(* Notify *)

NotifyOn(step) ==
    /\ process # "down" /\ notify \in step

elsewhere == <<clusterVars, process, round, watch, informer, closed>>

\* Variant: an operation of a resource that has one already is left out.
ReceiveFirstOnly ==
    /\ NotifyOn({"receive"}) /\ chan # <<>>
    /\ LET i == Head(chan)
       IN  \/ /\ IsOperation(i)
              /\ wris' = IF \E k \in DOMAIN wris : wris[k].of = i.of
                         THEN wris ELSE Append(wris, i)
              /\ UNCHANGED wes
           \/ IsEvent(i) /\ wes' = Append(wes, i) /\ UNCHANGED wris
    /\ chan' = Tail(chan)
    /\ UNCHANGED <<elsewhere, apiVars, notify, unsentWRIs, unsentWEs, history, envVars>>

\* The channel has priority.  The item is added to what was collected: IDs are
\* compared as pointers, so none replaces an older one of the same resource.
Receive ==
    /\ NotifyOn({"receive"}) /\ chan # <<>>
    /\ LET i == Head(chan)
       IN  \/ IsOperation(i) /\ wris' = Append(wris, i) /\ UNCHANGED wes
           \/ IsEvent(i) /\ wes' = Append(wes, i) /\ UNCHANGED wris
    /\ chan' = Tail(chan)
    /\ UNCHANGED <<elsewhere, apiVars, notify, unsentWRIs, unsentWEs, history, envVars>>

\* Variant: a closed channel ends Notify at once.
BeginSendingUnlessClosed ==
    /\ NotifyOn({"receive"}) /\ chan = <<>>
    /\ wris # <<>> \/ wes # <<>> \/ closed
    /\ notify' = IF closed THEN "stopped" ELSE "send"
    /\ UNCHANGED <<elsewhere, apiVars, chan, collected, history, envVars>>

\* Variant: Notify finds the channel closed only when it has something to send.
BeginSendingIfPending ==
    /\ NotifyOn({"receive"}) /\ chan = <<>>
    /\ wris # <<>> \/ wes # <<>>
    /\ notify' = IF closed THEN "last" ELSE "send"
    /\ UNCHANGED <<elsewhere, apiVars, chan, collected, history, envVars>>

\* A closed channel: for the last time.
BeginSending ==
    /\ NotifyOn({"receive"}) /\ chan = <<>>
    /\ wris # <<>> \/ wes # <<>> \/ closed
    /\ notify' = IF closed THEN "last" ELSE "send"
    /\ UNCHANGED <<elsewhere, apiVars, chan, collected, history, envVars>>

Update(i) ==
    row' = [row EXCEPT ![i.of].op = i.n] /\ UNCHANGED copies

Create(i) ==
    copies' = [copies EXCEPT ![i.of] = @ + 1] /\ UNCHANGED row

\* The updates are sent first.  An instance that is not found is not tried
\* again.
SendUpdate ==
    /\ NotifyOn({"send", "last"}) /\ wris # <<>>
    /\ LET i == Head(wris)
       IN  IF row[i.of].exists THEN Update(i) ELSE UNCHANGED apiVars
    /\ wris' = Tail(wris)
    /\ UNCHANGED <<elsewhere, chan, notify, wes, unsentWRIs, unsentWEs, history, envVars>>

SendUpdateFails ==
    /\ NotifyOn({"send", "last"}) /\ wris # <<>>
    /\ LET i == Head(wris)
       IN  /\ \/ Disrupt("refused") /\ UNCHANGED apiVars
              \/ Disrupt("lost") /\ row[i.of].exists /\ Update(i)
           /\ unsentWRIs' = Append(unsentWRIs, i)
           /\ overtaken' = [overtaken EXCEPT ![i.of] = @ \union {i.n}]
    /\ wris' = Tail(wris)
    /\ UNCHANGED <<elsewhere, chan, notify, wes, unsentWEs, told>>

SendWorkloadEvent ==
    /\ NotifyOn({"send", "last"}) /\ wris = <<>> /\ wes # <<>>
    /\ Create(Head(wes))
    /\ wes' = Tail(wes)
    /\ UNCHANGED <<elsewhere, chan, notify, wris, unsentWRIs, unsentWEs, history, envVars>>

\* Variant: what was not sent is forgotten.
SendWorkloadEventFailsForgotten ==
    /\ NotifyOn({"send", "last"}) /\ wris = <<>> /\ wes # <<>>
    /\ Disrupt("refused")
    /\ wes' = Tail(wes)
    /\ UNCHANGED <<elsewhere, apiVars, chan, notify, wris, unsentWRIs, unsentWEs, history>>

SendWorkloadEventFails ==
    /\ NotifyOn({"send", "last"}) /\ wris = <<>> /\ wes # <<>>
    /\ \/ Disrupt("refused") /\ UNCHANGED apiVars
       \/ Disrupt("lost") /\ Create(Head(wes))
    /\ wes' = Tail(wes) /\ unsentWEs' = Append(unsentWEs, Head(wes))
    /\ UNCHANGED <<elsewhere, chan, notify, wris, unsentWRIs, history>>

\* What is unsent of the last time is given up.
EndSending ==
    /\ NotifyOn({"send", "last"}) /\ wris = <<>> /\ wes = <<>>
    /\ IF notify = "last"
       THEN notify' = "stopped" /\ UNCHANGED <<wris, wes>>
       ELSE notify' = "receive" /\ wris' = unsentWRIs /\ wes' = unsentWEs
    /\ unsentWRIs' = <<>> /\ unsentWEs' = <<>>
    /\ UNCHANGED <<elsewhere, apiVars, chan, history, envVars>>

------------------------------------------------------------------------------
(* Stopping and starting *)

Interrupt ==
    /\ process = "up" /\ Disrupt("interrupt")
    /\ process' = "stopping"
    /\ UNCHANGED <<clusterVars, apiVars, round, watch, informer, chan, closed, notifyVars, history>>

CloseChannel ==
    /\ process = "stopping" /\ ~closed
    /\ closed' = TRUE
    /\ UNCHANGED <<clusterVars, apiVars, process, round, watch, informer, chan, notifyVars, history,
                   envVars>>

CloseWatch(w) ==
    /\ process = "stopping"
    /\ EndRange(w)
    /\ StopInformer(w, "interrupted")
    /\ UNCHANGED <<clusterVars, apiVars, process, round, chan, closed, notifyVars, history, envVars>>

\* The informer of a deleted resource is stopped a second time, by whichever
\* of the interrupt and the deletion comes last, or a goroutine sends on the
\* closed channel.
Panic ==
    /\ process = "stopping"
    /\ \E w \in Watches :
          \/ informer[w].st = "stopped"
          \/ informer[w].st = "interrupted" /\ watch[w].st = "ending"
          \/ closed /\ (Behind(w) \/ Pending(w) # {})
    /\ Die
    /\ UNCHANGED disruptions

\* The manager has stopped and Notify is done.
Exit ==
    /\ process = "stopping" /\ notify = "stopped"
    /\ Die
    /\ UNCHANGED disruptions

Crash ==
    /\ process # "down" /\ Spend("crash")
    /\ Die

Start ==
    /\ process = "down"
    /\ process' = "up"
    /\ UNCHANGED <<clusterVars, apiVars, round, watch, informer, chan, closed, notifyVars, history,
                   envVars>>

NotifyStep == Receive \/ BeginSending \/ SendUpdate \/ SendWorkloadEvent \/ EndSending

Next ==
    \/ \E r \in Resources : Change(r) \/ RemoveRow(r)
    \/ \E e \in Events : Occur(e)
    \/ Reconcile
    \/ \E w \in Watches :
          \/ SendOperation(w) \/ FinishDeletion(w) \/ WatchExpires(w) \/ CloseWatch(w)
          \/ \E e \in Events : SendEvent(w, e)
    \/ NotifyStep \/ SendUpdateFails \/ SendWorkloadEventFails
    \/ Interrupt \/ CloseChannel \/ Panic \/ Exit \/ Crash \/ Start

\* Goroutines and informers run; the manager reconciles a ThreeportWorkload it
\* has not seen; the deployment starts the agent again.
Fairness ==
    /\ WF_vars(NotifyStep)
    /\ \A w \in Watches : SF_vars(SendOperation(w))
    /\ \A w \in Watches, e \in Events : SF_vars(SendEvent(w, e))
    /\ WF_vars(round = 0 /\ Reconcile)
    /\ WF_vars(CloseChannel) /\ WF_vars(Exit) /\ WF_vars(Start)

Spec == Init /\ [][Next]_vars
FairSpec == Spec /\ Fairness

------------------------------------------------------------------------------
(* Properties *)

\* The variables keep their types, and the channel its capacity.
TypeOK ==
    /\ cluster \in [Resources -> [op : 1..MaxOps, gone : BOOLEAN]]
    /\ occurred \subseteq Events
    /\ row \in [Resources -> [exists : BOOLEAN, op : 0..MaxOps]]
    /\ copies \in [Events -> Nat]
    /\ process \in {"up", "stopping", "down"} /\ round \in 0..MaxRounds
    /\ watch \in [Watches -> [st : {"none", "open", "leaving", "ending", "closed"}, at : 0..MaxOps]]
    /\ \A w \in Watches : watch[w].at <= cluster[On(w)].op
    /\ informer \in [Watches -> [st : {"none", "running", "stopped", "interrupted"},
                                 sent : SUBSET Events, late : SUBSET Events]]
    /\ chan \in Seq(Operations \union Occurrences) /\ Len(chan) <= Capacity
    /\ closed \in BOOLEAN /\ notify \in {"receive", "send", "last", "stopped"}
    /\ {wris, unsentWRIs} \subseteq Seq(Operations) /\ {wes, unsentWEs} \subseteq Seq(Occurrences)
    /\ overtaken \in [Resources -> SUBSET (1..MaxOps)] /\ told \in [Events -> Nat]
    /\ disruptions \in Nat /\ disrupted \subseteq DisruptionKinds

\* Nothing is on its way, and every watch on r has sent all there is.
Quiet(r) ==
    /\ process = "up" /\ round > 0
    /\ chan = <<>> /\ Listening
    /\ \A w \in Watches : On(w) = r /\ w[1] <= round => watch[w].at = cluster[r].op

\* However many watches report a resource, in whatever interleaving, and
\* however often the agent was restarted: when everything reported has been
\* sent, the API shows the latest operation, or else one whose sending had
\* failed and that was sent again after it.
LatestUnlessRetried ==
    \A r \in Resources :
        Quiet(r) /\ row[r].exists => row[r].op \in {cluster[r].op} \union overtaken[r]

\* "This ensures the latest operation and resource object definition are the
\* ones sent to the threeport API."
LatestIsSent ==
    \A r \in Resources : Quiet(r) /\ row[r].exists => row[r].op = cluster[r].op

\* An event an informer has sent is in the API or on its way there, as many
\* times as it was sent, and one more time for each reply that was lost, while
\* the process lives, whatever failed and whether or not it was interrupted.
\* Only the last sending gives up what fails.
Times(i, s) == Cardinality({k \in DOMAIN s : s[k] = i})
OnItsWay(e) == Times(Event(e), chan) + Times(Event(e), wes) + Times(Event(e), unsentWEs)
SendingFailed == disrupted \intersect {"refused", "lost"} # {}
EventsConserved ==
    \A e \in Events :
        /\ copies[e] + OnItsWay(e) <= told[e] + (IF "lost" \in disrupted THEN disruptions ELSE 0)
        /\ ~(notify = "stopped" /\ SendingFailed) => told[e] <= copies[e] + OnItsWay(e)

\* "wait for notify function to complete to flush any pending updates to
\* threeport API": a process that was interrupted and ends in order has sent
\* every event that reached the channel, if no sending failed.
FlushedBeforeExit ==
    notify = "stopped" /\ ~SendingFailed => \A e \in Events : told[e] <= copies[e]

\* An event is told to the API, whatever calls fail and however often the
\* agent stops or dies, unless a resource is deleted: then its informer is
\* stopped, and a restarted agent watches none of the resources after it.
EventsArrive ==
    \A e \in Events :
        (e \in occurred) ~> (copies[e] > 0 \/ \E r \in Resources : cluster[r].gone)

\* So is the latest operation, unless the watch on it expired or the retry of
\* an older one came after it.
OperationsArrive ==
    \A r \in Resources :
        (row[r].op # cluster[r].op)
            ~> \/ row[r].op = cluster[r].op
               \/ \E s \in Resources : cluster[s].gone
               \/ overtaken[r] # {} \/ "expire" \in disrupted

\* An interrupted agent ends, whatever is in the channel and whoever waits to
\* send on it.
InterruptEnds == (process = "stopping") ~> (process = "down")
=============================================================================
