--------------------------- MODULE AgentNotifyProofs ---------------------------
(***************************************************************************)
(* Theorems about AgentNotify, for any number of resources, watches and    *)
(* events, any capacity of the channel and every disruption.               *)
(***************************************************************************)
EXTENDS AgentNotify, FiniteSetTheorems, SequenceTheorems, TLAPS

(***************************************************************************)
(* Invariants                                                              *)
(***************************************************************************)

\* What the places of Notify and of the process say of the rest.
Phases ==
    /\ process = "down" => round = 0 /\ chan = <<>> /\ Listening
    /\ \A w \in Watches : w[1] > round => watch[w] = NoWatch /\ informer[w] = NoInformer
    /\ closed => process = "stopping"
    /\ process = "stopping" => "interrupt" \in disrupted
    /\ notify \in {"last", "stopped"} => closed /\ chan = <<>>
    /\ notify \in {"receive", "stopped"} => unsentWRIs = <<>> /\ unsentWEs = <<>>
    /\ notify = "stopped" => wris = <<>> /\ wes = <<>>
    /\ unsentWEs # <<>> => disrupted \intersect {"refused", "lost"} # {}

\* Nothing has been given up.
Kept == ~(notify = "stopped" /\ SendingFailed)

\* EventsConserved, and with it FlushedBeforeExit, of one event.
ConservedOf(e) ==
    /\ copies[e] + OnItsWay(e) <= told[e] + (IF "lost" \in disrupted THEN disruptions ELSE 0)
    /\ Kept => told[e] <= copies[e] + OnItsWay(e)
Conserved == \A e \in Events : ConservedOf(e)

Concerns(i, r) == IsOperation(i) /\ i.of = r
Silent(r, s) == \A k \in DOMAIN s : ~Concerns(s[k], r)

\* The operation on r that s has last, if any.
LastOf(r, s) ==
    {s[k].n : k \in {l \in DOMAIN s : /\ Concerns(s[l], r)
                                      /\ \A m \in DOMAIN s : m > l => ~Concerns(s[m], r)}}

\* What the row may show: what a watch has come to, or what was sent again.
Excused(r) ==
    overtaken[r] \union {watch[w].at : w \in {v \in Watches : On(v) = r /\ v[1] <= round}}

\* What reaches the row last is excused.  Operations arrive in the order:
\* collected, unsent, in the channel.
LastExcused(r) ==
    /\ LastOf(r, chan) \subseteq Excused(r)
    /\ Silent(r, chan) => LastOf(r, unsentWRIs) \subseteq Excused(r)
    /\ Silent(r, chan) /\ Silent(r, unsentWRIs) => LastOf(r, wris) \subseteq Excused(r)
    /\ Silent(r, chan) /\ Silent(r, unsentWRIs) /\ Silent(r, wris) => row[r].op \in Excused(r)

\* No watch of this process has said how r is.
Unreported(r) ==
    \A w \in Watches : On(w) = r /\ w[1] <= round => watch[w].at < cluster[r].op

ReportOf(r) == row[r].exists => Unreported(r) \/ LastExcused(r)
Reports == process = "up" => \A r \in Resources : ReportOf(r)

(***************************************************************************)
(* Sequences: appending puts an item last, taking the head one away        *)
(***************************************************************************)

LEMMA AppendLast ==
  ASSUME NEW S, NEW s \in Seq(S), NEW i \in S, NEW r
  PROVE  /\ Concerns(i, r) => LastOf(r, Append(s, i)) = {i.n} /\ ~Silent(r, Append(s, i))
         /\ ~Concerns(i, r) => /\ LastOf(r, Append(s, i)) = LastOf(r, s)
                               /\ Silent(r, Append(s, i)) <=> Silent(r, s)
<1> DEFINE t == Append(s, i)
           C(x) == Concerns(x, r)
<1>1. /\ Len(s) \in Nat /\ DOMAIN s = 1..Len(s)
      /\ DOMAIN t = 1..(Len(s) + 1)
      /\ \A k \in 1..Len(s) : t[k] = s[k]
      /\ t[Len(s) + 1] = i
  BY AppendProperties, LenProperties
<1> HIDE DEF t
<1>2. Silent(r, t) <=> Silent(r, s) /\ ~C(i)
  <2>1. Silent(r, t) => Silent(r, s) /\ ~C(i)
    BY <1>1 DEF Silent
  <2>2. Silent(r, s) /\ ~C(i) => Silent(r, t)
    BY <1>1 DEF Silent
  <2>3. QED
    BY <2>1, <2>2
<1>3. ASSUME C(i) PROVE LastOf(r, t) = {i.n}
  <2>1. \A l \in DOMAIN t : (\A m \in DOMAIN t : m > l => ~C(t[m])) => l = Len(s) + 1
    BY <1>1, <1>3
  <2>2. \A m \in DOMAIN t : ~(m > Len(s) + 1)
    BY <1>1
  <2>3. Len(s) + 1 \in DOMAIN t
    BY <1>1
  <2>4. {l \in DOMAIN t : C(t[l]) /\ \A m \in DOMAIN t : m > l => ~C(t[m])} = {Len(s) + 1}
    BY <1>1, <1>3, <2>1, <2>2, <2>3
  <2>5. QED
    BY <1>1, <2>4 DEF LastOf
<1>4. ASSUME ~C(i) PROVE LastOf(r, t) = LastOf(r, s)
  <2>1. {l \in DOMAIN t : C(t[l]) /\ \A m \in DOMAIN t : m > l => ~C(t[m])}
          = {l \in DOMAIN s : C(s[l]) /\ \A m \in DOMAIN s : m > l => ~C(s[m])}
    BY <1>1, <1>4
  <2>2. QED
    BY <1>1, <2>1 DEF LastOf
<1>5. QED
  BY <1>2, <1>3, <1>4 DEF t

LEMMA TailLast ==
  ASSUME NEW S, NEW s \in Seq(S), s # <<>>, NEW r
  PROVE  /\ LastOf(r, Tail(s)) \subseteq LastOf(r, s)
         /\ Silent(r, s) <=> Silent(r, Tail(s)) /\ ~Concerns(Head(s), r)
         /\ Concerns(Head(s), r) /\ Silent(r, Tail(s)) => Head(s).n \in LastOf(r, s)
<1> DEFINE t == Tail(s)
           C(x) == Concerns(x, r)
<1>1. /\ Len(s) \in Nat \ {0} /\ DOMAIN s = 1..Len(s)
      /\ DOMAIN t = 1..(Len(s) - 1)
      /\ \A k \in 1..(Len(s) - 1) : t[k] = s[k + 1]
      /\ Head(s) = s[1]
  BY HeadTailProperties, LenProperties, EmptySeq
<1> HIDE DEF t
<1>2. \A k \in DOMAIN s : k # 1 => k - 1 \in DOMAIN t /\ t[k - 1] = s[k]
  BY <1>1
<1>3. Silent(r, s) <=> Silent(r, t) /\ ~C(s[1])
  <2>1. Silent(r, s) => Silent(r, t) /\ ~C(s[1])
    BY <1>1 DEF Silent
  <2>2. Silent(r, t) /\ ~C(s[1]) => Silent(r, s)
    BY <1>1, <1>2 DEF Silent
  <2>3. QED
    BY <2>1, <2>2
<1>4. LastOf(r, t) \subseteq LastOf(r, s)
  <2> SUFFICES ASSUME NEW l \in DOMAIN t, C(t[l]),
                      \A m \in DOMAIN t : m > l => ~C(t[m])
               PROVE  t[l].n \in LastOf(r, s)
    BY DEF LastOf
  <2>1. l + 1 \in DOMAIN s /\ s[l + 1] = t[l]
    BY <1>1
  <2>2. \A m \in DOMAIN s : m > l + 1 => ~C(s[m])
    <3> SUFFICES ASSUME NEW m \in DOMAIN s, m > l + 1 PROVE ~C(s[m])
      OBVIOUS
    <3>1. m - 1 \in DOMAIN t /\ m - 1 > l /\ t[m - 1] = s[m]
      BY <1>1, <1>2
    <3>2. QED
      BY <3>1
  <2>3. QED
    BY <2>1, <2>2 DEF LastOf
<1>5. ASSUME C(s[1]), Silent(r, t) PROVE s[1].n \in LastOf(r, s)
  <2>1. \A m \in DOMAIN s : m > 1 => ~C(s[m])
    BY <1>1, <1>2, <1>5 DEF Silent
  <2>2. 1 \in DOMAIN s
    BY <1>1
  <2>3. QED
    BY <1>5, <2>1, <2>2 DEF LastOf
<1>6. QED
  BY <1>1, <1>3, <1>4, <1>5 DEF t

LEMMA NothingLast ==
  ASSUME NEW r
  PROVE  LastOf(r, <<>>) = {} /\ Silent(r, <<>>)
BY DEF LastOf, Silent

(***************************************************************************)
(* How often an item is in a sequence                                      *)
(***************************************************************************)

LEMMA TimesNat ==
  ASSUME NEW S, NEW s \in Seq(S), NEW i
  PROVE  IsFiniteSet({k \in DOMAIN s : s[k] = i}) /\ Times(i, s) \in Nat
<1>1. DOMAIN s = 1..Len(s) /\ Len(s) \in Nat
  BY LenProperties
<1>2. IsFiniteSet(1..Len(s))
  BY <1>1, FS_Interval
<1>3. IsFiniteSet({k \in DOMAIN s : s[k] = i})
  BY <1>1, <1>2, FS_Subset
<1>4. QED
  BY <1>3, FS_CardinalityType DEF Times

LEMMA TimesNone ==
  ASSUME NEW i
  PROVE  Times(i, <<>>) = 0
<1>1. {k \in DOMAIN <<>> : <<>>[k] = i} = {}
  OBVIOUS
<1>2. QED
  BY <1>1, FS_EmptySet DEF Times

LEMMA AppendTimes ==
  ASSUME NEW S, NEW s \in Seq(S), NEW j \in S, NEW i
  PROVE  Times(i, Append(s, j)) = Times(i, s) + (IF i = j THEN 1 ELSE 0)
<1> DEFINE t == Append(s, j)
           P == {k \in DOMAIN s : s[k] = i}
           Q == {k \in DOMAIN t : t[k] = i}
<1>1. /\ Len(s) \in Nat /\ DOMAIN s = 1..Len(s)
      /\ DOMAIN t = 1..(Len(s) + 1)
      /\ \A k \in 1..Len(s) : t[k] = s[k]
      /\ t[Len(s) + 1] = j
  BY AppendProperties, LenProperties
<1>2. IsFiniteSet(P) /\ Times(i, s) \in Nat /\ Cardinality(P) = Times(i, s)
  BY TimesNat DEF Times
<1> HIDE DEF t
<1>3. CASE i = j
  <2>1. Q = P \union {Len(s) + 1} /\ Len(s) + 1 \notin P
    BY <1>1, <1>3
  <2>2. Cardinality(Q) = Cardinality(P) + 1
    BY <1>2, <2>1, FS_AddElement
  <2>3. QED
    BY <1>2, <1>3, <2>2 DEF Times, t
<1>4. CASE i # j
  <2>1. Q = P
    BY <1>1, <1>4
  <2>2. Times(i, Append(s, j)) = Cardinality(P)
    BY <2>1 DEF Times, t
  <2>3. QED
    BY <1>2, <1>4, <2>2
<1>5. QED
  BY <1>3, <1>4

LEMMA TailTimes ==
  ASSUME NEW S, NEW s \in Seq(S), s # <<>>, NEW i
  PROVE  Times(i, s) = Times(i, Tail(s)) + (IF i = Head(s) THEN 1 ELSE 0)
<1> DEFINE t == Tail(s)
           P == {k \in DOMAIN s : s[k] = i}
           Q == {k \in DOMAIN t : t[k] = i}
           f == [k \in Q |-> k + 1]
<1>1. /\ Len(s) \in Nat \ {0} /\ DOMAIN s = 1..Len(s) /\ t \in Seq(S)
      /\ DOMAIN t = 1..(Len(s) - 1)
      /\ \A k \in 1..(Len(s) - 1) : t[k] = s[k + 1]
      /\ Head(s) = s[1]
  BY HeadTailProperties, LenProperties, EmptySeq
<1>2. IsFiniteSet(P) /\ Cardinality(P) = Times(i, s) /\ Times(i, s) \in Nat
  BY TimesNat DEF Times
<1>3. IsFiniteSet(Q) /\ Cardinality(Q) = Times(i, t) /\ Times(i, t) \in Nat
  BY <1>1, TimesNat DEF Times
<1> HIDE DEF t
<1>4. Cardinality(P \ {1}) = Cardinality(Q)
  <2>1. \A k \in DOMAIN s : k # 1 => k - 1 \in DOMAIN t /\ t[k - 1] = s[k] /\ (k - 1) + 1 = k
    BY <1>1
  <2>2. f \in [Q -> P \ {1}]
    BY <1>1
  <2>3. \A k, l \in Q : f[k] = f[l] => k = l
    BY <1>1
  <2>4. \A k \in P \ {1} : k - 1 \in Q /\ f[k - 1] = k
    BY <2>1
  <2>5. f \in Bijection(Q, P \ {1})
    BY <2>2, <2>3, <2>4 DEF Bijection, Injection, Surjection, IsInjective
  <2>6. ExistsBijection(Q, P \ {1})
    BY <2>5 DEF ExistsBijection
  <2>7. QED
    BY <1>3, <2>6, FS_Bijection
<1>5. Cardinality(P \ {1}) = IF 1 \in P THEN Cardinality(P) - 1 ELSE Cardinality(P)
  BY <1>2, FS_RemoveElement
<1>6. 1 \in P <=> i = Head(s)
  BY <1>1
<1>7. Times(i, Tail(s)) = Cardinality(Q)
  BY <1>3 DEF t
<1>8. CASE i = Head(s)
  BY <1>2, <1>3, <1>4, <1>5, <1>6, <1>7, <1>8
<1>9. CASE i # Head(s)
  BY <1>2, <1>3, <1>4, <1>5, <1>6, <1>7, <1>9
<1>10. QED
  BY <1>8, <1>9

(***************************************************************************)
(* Types                                                                   *)
(***************************************************************************)

WatchType == [st : {"none", "open", "leaving", "ending", "closed"}, at : 0..MaxOps]
InformerType == [st : {"none", "running", "stopped", "interrupted"}, sent : SUBSET Events,
                 late : SUBSET Events]

LEMMA Bounds ==
  /\ R \in Nat \ {0} /\ Capacity \in Nat \ {0}
  /\ MaxOps \in Nat \ {0} /\ MaxRounds \in Nat \ {0} /\ MaxDisruptions \in Nat
  /\ \A w \in Watches : On(w) \in Resources /\ w[1] \in 1..MaxRounds
  /\ \A e \in Events : EventOf[e] \in Resources
BY BoundsAssumption, EventOfAssumption DEF Watches, Resources, On

LEMMA ItemTypes ==
  /\ \A i \in Operations : IsOperation(i) /\ ~IsEvent(i) /\ i.of \in Resources /\ i.n \in 1..MaxOps
  /\ \A i \in Occurrences : IsEvent(i) /\ ~IsOperation(i) /\ i.of \in Events /\ i = Event(i.of)
  /\ \A r \in Resources, n \in 1..MaxOps : Operation(r, n) \in Operations
  /\ \A e \in Events : Event(e) \in Occurrences
BY DEF Operations, Occurrences, Operation, Event, IsOperation, IsEvent

\* What Notify takes from a sequence and what is left.
LEMMA TakeTyped ==
  ASSUME NEW S, NEW s \in Seq(S), s # <<>>
  PROVE  Head(s) \in S /\ Tail(s) \in Seq(S) /\ Len(Tail(s)) = Len(s) - 1 /\ Len(s) \in Nat \ {0}
BY HeadTailProperties, EmptySeq

LEMMA DisruptTyped ==
  ASSUME TypeOK, NEW kind, Disrupt(kind)
  PROVE  disruptions' \in Nat /\ disrupted' \subseteq DisruptionKinds
BY DisruptionsAssumption DEF TypeOK, Disrupt, Spend

LEMMA ServedTyped ==
  ASSUME TypeOK
  PROVE  /\ \A i \in Operations : Update(i) =>
              /\ row' \in [Resources -> [exists : BOOLEAN, op : 0..MaxOps]]
              /\ copies' = copies /\ \A r \in Resources : row'[r].exists = row[r].exists
              /\ \A r \in Resources : row'[r].op = IF r = i.of THEN i.n ELSE row[r].op
         /\ \A i \in Occurrences : Create(i) =>
              /\ copies' \in [Events -> Nat] /\ row' = row
              /\ \A e \in Events : copies'[e] = IF i = Event(e) THEN copies[e] + 1 ELSE copies[e]
<1>1. row \in [Resources -> [exists : BOOLEAN, op : 0..MaxOps]] /\ copies \in [Events -> Nat]
  BY DEF TypeOK
<1>2. ASSUME NEW i \in Operations, Update(i)
      PROVE  /\ row' \in [Resources -> [exists : BOOLEAN, op : 0..MaxOps]]
             /\ copies' = copies /\ \A r \in Resources : row'[r].exists = row[r].exists
             /\ \A r \in Resources : row'[r].op = IF r = i.of THEN i.n ELSE row[r].op
  <2>1. i.of \in Resources /\ i.n \in 0..MaxOps
    BY ItemTypes, Bounds
  <2>2. row' = [row EXCEPT ![i.of].op = i.n] /\ copies' = copies
    BY <1>2 DEF Update
  <2>3. [row[i.of] EXCEPT !.op = i.n] \in [exists : BOOLEAN, op : 0..MaxOps]
    BY <1>1, <2>1
  <2>4. QED
    BY <1>1, <2>1, <2>2, <2>3
<1>3. ASSUME NEW i \in Occurrences, Create(i)
      PROVE  /\ copies' \in [Events -> Nat] /\ row' = row
             /\ \A e \in Events : copies'[e] = IF i = Event(e) THEN copies[e] + 1 ELSE copies[e]
  <2>1. i.of \in Events /\ \A e \in Events : i = Event(e) <=> i.of = e
    BY ItemTypes DEF Event
  <2>2. copies' = [copies EXCEPT ![i.of] = @ + 1] /\ row' = row
    BY <1>3 DEF Create
  <2>3. QED
    BY <1>1, <2>1, <2>2
<1>4. QED
  BY <1>2, <1>3

LEMMA FreshTyped ==
  ASSUME TypeOK, FreshAgent, UNCHANGED cluster
  PROVE  /\ round' \in 0..MaxRounds /\ watch' \in [Watches -> WatchType]
         /\ informer' \in [Watches -> InformerType]
         /\ \A w \in Watches : watch'[w].at <= cluster'[On(w)].op
         /\ chan' = <<>> /\ closed' = FALSE /\ notify' = "receive"
         /\ wris' = <<>> /\ wes' = <<>> /\ unsentWRIs' = <<>> /\ unsentWEs' = <<>>
<1>1. NoWatch \in WatchType /\ NoInformer \in InformerType
  BY Bounds DEF NoWatch, NoInformer, WatchType, InformerType
<1>2. \A w \in Watches : watch'[w].at = 0
  BY DEF FreshAgent, NoWatch
<1>3. \A w \in Watches : cluster[On(w)].op \in 1..MaxOps
  BY Bounds DEF TypeOK
<1>4. QED
  BY <1>1, <1>2, <1>3, Bounds DEF FreshAgent

LEMMA NothingTyped ==
  <<>> \in Seq(Operations \union Occurrences) /\ <<>> \in Seq(Operations)
    /\ <<>> \in Seq(Occurrences) /\ Len(<<>>) = 0
BY EmptySeq

LEMMA InitTypeOK == Init => TypeOK
<1> SUFFICES ASSUME Init PROVE TypeOK
  OBVIOUS
<1>1. /\ cluster \in [Resources -> [op : 1..MaxOps, gone : BOOLEAN]]
      /\ row \in [Resources -> [exists : BOOLEAN, op : 0..MaxOps]]
      /\ \A r \in Resources : cluster[r].op = 1
  BY Bounds DEF Init
<1>2. copies \in [Events -> Nat] /\ told \in [Events -> Nat] /\ occurred \subseteq Events
      /\ overtaken \in [Resources -> SUBSET (1..MaxOps)]
  BY DEF Init
<1>3. NoWatch \in WatchType /\ NoInformer \in InformerType
  BY Bounds DEF NoWatch, NoInformer, WatchType, InformerType
<1>4. watch \in [Watches -> WatchType] /\ informer \in [Watches -> InformerType]
      /\ \A w \in Watches : watch[w].at = 0
  BY <1>3 DEF Init, NoWatch
<1>5. \A w \in Watches : watch[w].at <= cluster[On(w)].op
  BY <1>1, <1>4, Bounds
<1>6. /\ process = "up" /\ round = 0 /\ closed = FALSE /\ notify = "receive"
      /\ chan = <<>> /\ wris = <<>> /\ wes = <<>> /\ unsentWRIs = <<>> /\ unsentWEs = <<>>
      /\ disruptions = 0 /\ disrupted = {}
  BY DEF Init, Listening
<1>7. /\ chan \in Seq(Operations \union Occurrences) /\ Len(chan) <= Capacity
      /\ {wris, unsentWRIs} \subseteq Seq(Operations) /\ {wes, unsentWEs} \subseteq Seq(Occurrences)
  BY <1>6, NothingTyped, Bounds
<1>8. /\ process \in {"up", "stopping", "down"} /\ round \in 0..MaxRounds /\ closed \in BOOLEAN
      /\ notify \in {"receive", "send", "last", "stopped"}
      /\ disruptions \in Nat /\ disrupted \subseteq DisruptionKinds
  <2>1. closed \in BOOLEAN
    BY <1>6
  <2>2. round \in 0..MaxRounds /\ disruptions \in Nat
    BY <1>6, Bounds
  <2>3. QED
    BY <1>6, <2>1, <2>2
<1>9. QED
  BY <1>1, <1>2, <1>4, <1>5, <1>7, <1>8 DEF TypeOK, WatchType, InformerType

LEMMA TakenIn ==
  ASSUME TypeOK, Receive
  PROVE  /\ chan \in Seq(Operations \union Occurrences) /\ chan # <<>> /\ chan' = Tail(chan)
         /\ Head(chan) \in Operations \union Occurrences
         /\ \/ Head(chan) \in Operations /\ wris' = Append(wris, Head(chan)) /\ wes' = wes
            \/ Head(chan) \in Occurrences /\ wes' = Append(wes, Head(chan)) /\ wris' = wris
<1>1. /\ chan \in Seq(Operations \union Occurrences) /\ chan # <<>> /\ chan' = Tail(chan)
      /\ Head(chan) \in Operations \union Occurrences
  BY TakeTyped DEF TypeOK, Receive
<1>2. \/ IsOperation(Head(chan)) /\ wris' = Append(wris, Head(chan)) /\ wes' = wes
      \/ IsEvent(Head(chan)) /\ wes' = Append(wes, Head(chan)) /\ wris' = wris
  BY DEF Receive
<1>3. CASE Head(chan) \in Operations
  BY <1>1, <1>2, <1>3, ItemTypes
<1>4. CASE Head(chan) \in Occurrences
  BY <1>1, <1>2, <1>4, ItemTypes
<1>5. QED
  BY <1>1, <1>3, <1>4

LEMMA InformerStops ==
  ASSUME TypeOK, NEW w \in Watches, NEW st \in {"stopped", "interrupted"}, StopInformer(w, st)
  PROVE  /\ informer' \in [Watches -> InformerType]
         /\ \A v \in Watches : v # w => informer'[v] = informer[v]
<1>1. informer \in [Watches -> InformerType]
  BY DEF TypeOK, InformerType
<1>2. Pending(w) \subseteq Events
  BY <1>1 DEF Pending, TypeOK, InformerType
<1>3. PICK late \in {{}} \union {{e} : e \in {f \in Pending(w) : Full}} :
         informer' = [informer EXCEPT ![w] = [st |-> st, sent |-> {}, late |-> late]]
  BY DEF StopInformer
<1>4. [st |-> st, sent |-> {}, late |-> late] \in InformerType
  BY <1>2 DEF InformerType
<1>5. QED
  BY <1>1, <1>3, <1>4

LEMMA StepTypeOK ==
  ASSUME TypeOK, [Next]_vars
  PROVE  TypeOK'
<1> USE DEF clusterVars, apiVars, collected, notifyVars, agentVars, history, envVars, elsewhere
<1>0. /\ cluster \in [Resources -> [op : 1..MaxOps, gone : BOOLEAN]]
      /\ row \in [Resources -> [exists : BOOLEAN, op : 0..MaxOps]]
      /\ watch \in [Watches -> WatchType] /\ informer \in [Watches -> InformerType]
      /\ chan \in Seq(Operations \union Occurrences)
      /\ wris \in Seq(Operations) /\ unsentWRIs \in Seq(Operations)
      /\ wes \in Seq(Occurrences) /\ unsentWEs \in Seq(Occurrences)
  BY DEF TypeOK, WatchType, InformerType
<1>1. CASE UNCHANGED vars
  BY <1>1 DEF vars, TypeOK
<1>2. ASSUME NEW r \in Resources, Change(r) PROVE TypeOK'
  <2>1. /\ cluster' \in [Resources -> [op : 1..MaxOps, gone : BOOLEAN]]
        /\ \A s \in Resources : cluster[s].op <= cluster'[s].op
    <3>1. PICK g \in BOOLEAN : cluster' = [cluster EXCEPT ![r] = [op |-> @.op + 1, gone |-> g]]
      BY <1>2 DEF Change
    <3>2. cluster[r].op \in 1..MaxOps /\ cluster[r].op + 1 \in 1..MaxOps
      BY <1>0, <1>2, Bounds DEF Change
    <3>3. [op |-> cluster[r].op + 1, gone |-> g] \in [op : 1..MaxOps, gone : BOOLEAN]
      BY <3>2
    <3>4. QED
      BY <1>0, <3>1, <3>2, <3>3
  <2>2. \A w \in Watches : watch[w].at <= cluster'[On(w)].op
    <3> SUFFICES ASSUME NEW w \in Watches PROVE watch[w].at <= cluster'[On(w)].op
      OBVIOUS
    <3>1. watch[w].at \in 0..MaxOps /\ watch[w].at <= cluster[On(w)].op /\ On(w) \in Resources
      BY <1>0, Bounds DEF TypeOK, WatchType
    <3>2. cluster[On(w)].op \in 1..MaxOps /\ cluster'[On(w)].op \in 1..MaxOps
      BY <1>0, <2>1, <3>1
    <3>3. QED
      BY <2>1, <3>1, <3>2
  <2>3. QED
    BY <1>2, <2>1, <2>2 DEF Change, TypeOK
<1>3. ASSUME NEW r \in Resources, RemoveRow(r) PROVE TypeOK'
  <2>1. [exists |-> FALSE, op |-> 0] \in [exists : BOOLEAN, op : 0..MaxOps]
    BY Bounds
  <2>2. row' \in [Resources -> [exists : BOOLEAN, op : 0..MaxOps]]
    BY <1>0, <1>3, <2>1 DEF RemoveRow
  <2>3. QED
    BY <1>3, <2>2 DEF RemoveRow, TypeOK
<1>4. ASSUME NEW e \in Events, Occur(e) PROVE TypeOK'
  BY <1>4 DEF Occur, TypeOK
<1>5. CASE Reconcile
  <2> DEFINE New(w) == w[1] = round + 1 /\ On(w) \in {r \in Resources : \A s \in 1..r : ~cluster[s].gone}
  <2>1. /\ watch' = [w \in Watches |-> IF New(w)
                        THEN [st |-> "open", at |-> cluster[On(w)].op - 1] ELSE watch[w]]
        /\ informer' = [w \in Watches |-> IF New(w)
                        THEN [NoInformer EXCEPT !.st = "running"] ELSE informer[w]]
    BY <1>5 DEF Reconcile
  <2> HIDE DEF New
  <2>2. ASSUME NEW w \in Watches
        PROVE  /\ watch'[w] \in WatchType /\ informer'[w] \in InformerType
               /\ watch'[w].at <= cluster[On(w)].op
    <3>1. cluster[On(w)].op \in 1..MaxOps
      BY <1>0, Bounds
    <3>2. cluster[On(w)].op - 1 \in 0..MaxOps /\ cluster[On(w)].op - 1 <= cluster[On(w)].op
      BY <3>1, Bounds
    <3>3. CASE New(w)
      BY <2>1, <3>2, <3>3 DEF WatchType, InformerType, NoInformer
    <3>4. CASE ~New(w)
      BY <1>0, <2>1, <3>4 DEF TypeOK
    <3>5. QED
      BY <3>3, <3>4
  <2>3. watch' \in [Watches -> WatchType] /\ informer' \in [Watches -> InformerType]
    BY <2>1, <2>2
  <2>4. round' \in 0..MaxRounds
    BY <1>5, Bounds DEF Reconcile, TypeOK
  <2>5. QED
    BY <1>5, <2>2, <2>3, <2>4 DEF Reconcile, TypeOK, WatchType, InformerType
<1>6. ASSUME NEW w \in Watches, SendOperation(w) PROVE TypeOK'
  <2>1. watch[w].at + 1 \in 1..MaxOps /\ watch[w].at + 1 <= cluster[On(w)].op /\ On(w) \in Resources
    BY <1>0, <1>6, Bounds DEF SendOperation, Behind, WatchType
  <2>2. Operation(On(w), watch[w].at + 1) \in Operations
    BY <2>1, ItemTypes
  <2>3. chan' \in Seq(Operations \union Occurrences) /\ Len(chan') <= Capacity
    BY <1>0, <1>6, <2>2, AppendProperties, LenProperties, Bounds DEF SendOperation, Put
  <2>4. /\ watch' \in [Watches -> WatchType]
        /\ \A v \in Watches : watch'[v].at <= cluster[On(v)].op
    BY <1>0, <1>6, <2>1 DEF SendOperation, WatchType, TypeOK
  <2>5. QED
    BY <1>6, <2>3, <2>4 DEF SendOperation, TypeOK, WatchType
<1>7. ASSUME NEW w \in Watches, NEW e \in Events, SendEvent(w, e) PROVE TypeOK'
  <2>1. chan' \in Seq(Operations \union Occurrences) /\ Len(chan') <= Capacity
    BY <1>0, <1>7, ItemTypes, AppendProperties, LenProperties, Bounds DEF SendEvent, Put
  <2>2. informer' \in [Watches -> InformerType]
    BY <1>0, <1>7 DEF SendEvent, InformerType
  <2>3. told' \in [Events -> Nat]
    BY <1>7 DEF SendEvent, TypeOK
  <2>4. QED
    BY <1>7, <2>1, <2>2, <2>3 DEF SendEvent, TypeOK, InformerType
<1>8. ASSUME NEW w \in Watches, WatchExpires(w) PROVE TypeOK'
  <2>1. watch' \in [Watches -> WatchType] /\ \A v \in Watches : watch'[v].at = watch[v].at
    BY <1>0, <1>8 DEF WatchExpires, WatchType
  <2>2. disruptions' \in Nat /\ disrupted' \subseteq DisruptionKinds
    BY <1>8, DisruptTyped DEF WatchExpires
  <2>3. QED
    BY <1>8, <2>1, <2>2 DEF WatchExpires, TypeOK, WatchType
<1>9. CASE Receive
  <2>1. Head(chan) \in Operations \union Occurrences /\ Tail(chan) \in Seq(Operations \union Occurrences)
        /\ Len(Tail(chan)) <= Capacity
    BY <1>0, <1>9, TakeTyped, Bounds DEF Receive, TypeOK
  <2>2. wris' \in Seq(Operations) /\ wes' \in Seq(Occurrences)
    <3>1. CASE Head(chan) \in Operations /\ wris' = Append(wris, Head(chan)) /\ wes' = wes
      BY <1>0, <3>1, AppendProperties
    <3>2. CASE Head(chan) \in Occurrences /\ wes' = Append(wes, Head(chan)) /\ wris' = wris
      BY <1>0, <3>2, AppendProperties
    <3>3. QED
      BY <1>9, <3>1, <3>2, TakenIn
  <2>3. QED
    BY <1>9, <2>1, <2>2 DEF Receive, TypeOK
<1>10. CASE BeginSending
  BY <1>10 DEF BeginSending, TypeOK
<1>11. CASE SendUpdate
  <2>1. Head(wris) \in Operations /\ Tail(wris) \in Seq(Operations)
    BY <1>0, <1>11, TakeTyped DEF SendUpdate
  <2>2. row' \in [Resources -> [exists : BOOLEAN, op : 0..MaxOps]] /\ UNCHANGED copies
    BY <1>0, <1>11, <2>1, ServedTyped DEF SendUpdate
  <2>3. QED
    BY <1>11, <2>1, <2>2 DEF SendUpdate, TypeOK
<1>12. CASE SendUpdateFails
  <2>1. Head(wris) \in Operations /\ Tail(wris) \in Seq(Operations)
    BY <1>0, <1>12, TakeTyped DEF SendUpdateFails
  <2>2. row' \in [Resources -> [exists : BOOLEAN, op : 0..MaxOps]] /\ UNCHANGED copies
    BY <1>0, <1>12, <2>1, ServedTyped DEF SendUpdateFails
  <2>3. disruptions' \in Nat /\ disrupted' \subseteq DisruptionKinds
    BY <1>12, DisruptTyped DEF SendUpdateFails
  <2>4. unsentWRIs' \in Seq(Operations)
    BY <1>0, <1>12, <2>1, AppendProperties DEF SendUpdateFails
  <2>5. overtaken' \in [Resources -> SUBSET (1..MaxOps)]
    BY <1>12, <2>1, ItemTypes DEF SendUpdateFails, TypeOK
  <2>6. QED
    BY <1>12, <2>1, <2>2, <2>3, <2>4, <2>5 DEF SendUpdateFails, TypeOK
<1>13. CASE SendWorkloadEvent
  <2>1. Head(wes) \in Occurrences /\ Tail(wes) \in Seq(Occurrences)
    BY <1>0, <1>13, TakeTyped DEF SendWorkloadEvent
  <2>2. copies' \in [Events -> Nat] /\ UNCHANGED row
    BY <1>13, <2>1, ServedTyped DEF SendWorkloadEvent
  <2>3. QED
    BY <1>13, <2>1, <2>2 DEF SendWorkloadEvent, TypeOK
<1>14. CASE SendWorkloadEventFails
  <2>1. Head(wes) \in Occurrences /\ Tail(wes) \in Seq(Occurrences)
    BY <1>0, <1>14, TakeTyped DEF SendWorkloadEventFails
  <2>2. copies' \in [Events -> Nat] /\ UNCHANGED row
    BY <1>14, <2>1, ServedTyped DEF SendWorkloadEventFails, TypeOK
  <2>3. disruptions' \in Nat /\ disrupted' \subseteq DisruptionKinds
    BY <1>14, DisruptTyped DEF SendWorkloadEventFails
  <2>4. unsentWEs' \in Seq(Occurrences)
    BY <1>0, <1>14, <2>1, AppendProperties DEF SendWorkloadEventFails
  <2>5. QED
    BY <1>14, <2>1, <2>2, <2>3, <2>4 DEF SendWorkloadEventFails, TypeOK
<1>15. CASE EndSending
  BY <1>0, <1>15, NothingTyped DEF EndSending, TypeOK
<1>16. CASE Interrupt
  <2>1. disruptions' \in Nat /\ disrupted' \subseteq DisruptionKinds
    BY <1>16, DisruptTyped DEF Interrupt
  <2>2. QED
    BY <1>16, <2>1 DEF Interrupt, TypeOK
<1>17. CASE CloseChannel
  BY <1>17 DEF CloseChannel, TypeOK
<1>18. ASSUME NEW w \in Watches, CloseWatch(w) PROVE TypeOK'
  <2>1. watch' \in [Watches -> WatchType] /\ \A v \in Watches : watch'[v].at = watch[v].at
    <3>1. \/ watch' = [watch EXCEPT ![w].st = "closed"]
          \/ watch' = [watch EXCEPT ![w].st = "leaving"]
          \/ watch' = watch
      BY <1>18 DEF CloseWatch, EndRange
    <3>2. CASE watch' = [watch EXCEPT ![w].st = "closed"]
      BY <1>0, <3>2 DEF WatchType
    <3>3. CASE watch' = [watch EXCEPT ![w].st = "leaving"]
      BY <1>0, <3>3 DEF WatchType
    <3>4. CASE watch' = watch
      BY <1>0, <3>4
    <3>5. QED
      BY <3>1, <3>2, <3>3, <3>4
  <2>2. informer' \in [Watches -> InformerType]
    BY <1>18, InformerStops DEF CloseWatch
  <2>3. QED
    BY <1>18, <2>1, <2>2 DEF CloseWatch, TypeOK, WatchType, InformerType
<1>19. ASSUME Panic \/ Exit \/ Crash PROVE TypeOK'
  <2>1. FreshAgent /\ process' = "down" /\ UNCHANGED <<clusterVars, apiVars>>
        /\ overtaken' = [r \in Resources |-> {}] /\ told' = copies /\ disrupted' = {}
    BY <1>19 DEF Panic, Exit, Crash, Die
  <2>2. disruptions' \in Nat
    BY <1>19 DEF Panic, Exit, Crash, Spend, TypeOK
  <2>3. /\ round' \in 0..MaxRounds /\ watch' \in [Watches -> WatchType]
        /\ informer' \in [Watches -> InformerType]
        /\ \A w \in Watches : watch'[w].at <= cluster'[On(w)].op
        /\ chan' = <<>> /\ closed' = FALSE /\ notify' = "receive"
        /\ wris' = <<>> /\ wes' = <<>> /\ unsentWRIs' = <<>> /\ unsentWEs' = <<>>
    BY <2>1, FreshTyped
  <2>4. /\ chan' \in Seq(Operations \union Occurrences) /\ Len(chan') <= Capacity
        /\ {wris', unsentWRIs'} \subseteq Seq(Operations)
        /\ {wes', unsentWEs'} \subseteq Seq(Occurrences)
    BY <2>3, NothingTyped, Bounds
  <2>5. QED
    BY <2>1, <2>2, <2>3, <2>4 DEF TypeOK, WatchType, InformerType
<1>20. CASE Start
  BY <1>20 DEF Start, TypeOK
<1>21. ASSUME NEW w \in Watches, FinishDeletion(w) PROVE TypeOK'
  <2>1. watch' \in [Watches -> WatchType] /\ \A v \in Watches : watch'[v].at = watch[v].at
    BY <1>0, <1>21 DEF FinishDeletion, WatchType
  <2>2. informer' \in [Watches -> InformerType]
    BY <1>21, InformerStops DEF FinishDeletion
  <2>3. QED
    BY <1>21, <2>1, <2>2 DEF FinishDeletion, TypeOK, WatchType, InformerType
<1>22. QED
  BY <1>1, <1>2, <1>3, <1>4, <1>5, <1>6, <1>7, <1>8, <1>9, <1>10, <1>11, <1>12, <1>13, <1>14,
     <1>15, <1>16, <1>17, <1>18, <1>19, <1>20, <1>21 DEF Next, NotifyStep

\* The variables of the agent keep their types, whatever is disrupted, and the
\* channel never holds more than its capacity (Notify, watchResource).
THEOREM Typing == Spec => []TypeOK
BY InitTypeOK, StepTypeOK, PTL DEF Spec

(***************************************************************************)
(* Phases                                                                  *)
(***************************************************************************)

LEMMA InitPhases == Init => Phases
BY DEF Init, Phases, Listening

LEMMA DiePhases ==
  ASSUME TypeOK, FreshAgent, process' = "down"
  PROVE  Phases'
<1>1. \A w \in Watches : watch'[w] = NoWatch /\ informer'[w] = NoInformer
  BY DEF FreshAgent
<1>2. round' = 0 /\ chan' = <<>> /\ ~closed' /\ notify' = "receive"
      /\ wris' = <<>> /\ wes' = <<>> /\ unsentWRIs' = <<>> /\ unsentWEs' = <<>>
  BY DEF FreshAgent
<1>3. QED
  BY <1>1, <1>2 DEF Phases, Listening

LEMMA StepPhases ==
  ASSUME TypeOK, Phases, [Next]_vars
  PROVE  Phases'
<1> USE DEF clusterVars, apiVars, collected, notifyVars, agentVars, history, envVars, elsewhere
<1>1. CASE UNCHANGED vars
  BY <1>1 DEF vars, Phases, Listening
<1>2. ASSUME NEW r \in Resources, Change(r) \/ RemoveRow(r) PROVE Phases'
  BY <1>2 DEF Change, RemoveRow, Phases, Listening
<1>3. ASSUME NEW e \in Events, Occur(e) PROVE Phases'
  BY <1>3 DEF Occur, Phases, Listening
<1>4. CASE Reconcile
  <2>1. \A w \in Watches : w[1] \in Nat /\ round \in Nat
    BY Bounds DEF TypeOK
  <2>2. \A w \in Watches : w[1] > round' => /\ watch'[w] = watch[w] /\ informer'[w] = informer[w]
                                            /\ w[1] > round
    BY <1>4, <2>1 DEF Reconcile
  <2>3. process' = "up" /\ UNCHANGED <<process, chan, closed, notifyVars, disrupted>>
    BY <1>4 DEF Reconcile
  <2>4. QED
    BY <2>2, <2>3 DEF Phases, Listening
<1>5. ASSUME NEW w \in Watches, SendOperation(w) PROVE Phases'
  <2>1. ~(w[1] > round)
    BY <1>5 DEF SendOperation, Behind, Phases, NoWatch
  <2>2. \A v \in Watches : v[1] > round => watch'[v] = watch[v] /\ informer'[v] = informer[v]
    BY <1>5, <2>1 DEF SendOperation, TypeOK
  <2>3. ~closed /\ process # "down"
        /\ UNCHANGED <<process, round, closed, notify, wris, wes, unsentWRIs, unsentWEs, disrupted>>
    BY <1>5 DEF SendOperation
  <2>4. QED
    BY <2>2, <2>3 DEF Phases
<1>6. ASSUME NEW w \in Watches, NEW e \in Events, SendEvent(w, e) PROVE Phases'
  <2>1. ~(w[1] > round)
    BY <1>6 DEF SendEvent, Pending, Phases, NoInformer
  <2>2. \A v \in Watches : v[1] > round => watch'[v] = watch[v] /\ informer'[v] = informer[v]
    BY <1>6, <2>1 DEF SendEvent, TypeOK
  <2>3. ~closed /\ process # "down"
        /\ UNCHANGED <<process, round, closed, notify, wris, wes, unsentWRIs, unsentWEs, disrupted>>
    BY <1>6 DEF SendEvent
  <2>4. QED
    BY <2>2, <2>3 DEF Phases
<1>7. ASSUME NEW w \in Watches, WatchExpires(w) PROVE Phases'
  <2>1. ~(w[1] > round)
    BY <1>7 DEF WatchExpires, Phases, NoWatch
  <2>2. \A v \in Watches : v[1] > round => watch'[v] = watch[v] /\ informer'[v] = informer[v]
    BY <1>7, <2>1 DEF WatchExpires, TypeOK
  <2>3. disrupted \subseteq disrupted' /\ UNCHANGED <<process, round, chan, closed, notifyVars>>
    BY <1>7 DEF WatchExpires, Disrupt
  <2>4. QED
    BY <2>2, <2>3 DEF Phases, Listening
<1>8. CASE Receive
  <2>1. /\ notify = "receive" /\ process # "down"
        /\ UNCHANGED <<process, round, watch, informer, closed, notify, unsentWRIs, unsentWEs, disrupted>>
    BY <1>8 DEF Receive, NotifyOn
  <2>2. QED
    BY <2>1 DEF Phases
<1>9. CASE BeginSending
  <2>1. /\ chan = <<>> /\ process # "down" /\ notify' \in {"last", "send"}
        /\ notify' = "last" => closed
        /\ UNCHANGED <<process, round, watch, informer, chan, closed, collected, disrupted>>
    BY <1>9 DEF BeginSending, NotifyOn
  <2>2. QED
    BY <2>1 DEF Phases
<1>10. ASSUME SendUpdate \/ SendUpdateFails PROVE Phases'
  <2>1. /\ process # "down" /\ notify \in {"send", "last"} /\ disrupted \subseteq disrupted'
        /\ UNCHANGED <<process, round, watch, informer, chan, closed, notify, wes, unsentWEs>>
    BY <1>10 DEF SendUpdate, SendUpdateFails, NotifyOn, Disrupt
  <2>2. QED
    BY <2>1 DEF Phases
<1>11. CASE SendWorkloadEvent
  <2>1. /\ process # "down" /\ notify \in {"send", "last"}
        /\ UNCHANGED <<process, round, watch, informer, chan, closed, notify, unsentWEs, disrupted>>
    BY <1>11 DEF SendWorkloadEvent, NotifyOn
  <2>2. QED
    BY <2>1 DEF Phases
<1>12. CASE SendWorkloadEventFails
  <2>1. /\ process # "down" /\ notify \in {"send", "last"}
        /\ disrupted \subseteq disrupted' /\ disrupted' \intersect {"refused", "lost"} # {}
        /\ UNCHANGED <<process, round, watch, informer, chan, closed, notify>>
    BY <1>12 DEF SendWorkloadEventFails, NotifyOn, Disrupt
  <2>2. QED
    BY <2>1 DEF Phases
<1>13. CASE EndSending
  <2>1. /\ process # "down" /\ unsentWRIs' = <<>> /\ unsentWEs' = <<>>
        /\ \/ notify = "last" /\ notify' = "stopped" /\ wris' = <<>> /\ wes' = <<>>
           \/ notify' = "receive"
        /\ UNCHANGED <<process, round, watch, informer, chan, closed, disrupted>>
    BY <1>13 DEF EndSending, NotifyOn
  <2>2. QED
    BY <2>1 DEF Phases
<1>14. CASE Interrupt
  <2>1. /\ process = "up" /\ process' = "stopping" /\ disrupted \subseteq disrupted'
        /\ "interrupt" \in disrupted'
        /\ UNCHANGED <<round, watch, informer, chan, closed, notifyVars>>
    BY <1>14 DEF Interrupt, Disrupt
  <2>2. QED
    BY <2>1 DEF Phases
<1>15. CASE CloseChannel
  <2>1. /\ process = "stopping" /\ process' = "stopping"
        /\ UNCHANGED <<round, watch, informer, chan, notifyVars, disrupted>>
    BY <1>15 DEF CloseChannel
  <2>2. closed'
    BY <1>15 DEF CloseChannel
  <2>3. QED
    BY <2>1, <2>2 DEF Phases
<1>16. ASSUME NEW w \in Watches, CloseWatch(w) PROVE Phases'
  <2>1. ~(w[1] > round)
    BY <1>16 DEF CloseWatch, StopInformer, Phases, NoInformer
  <2>2. \A v \in Watches : v[1] > round => watch'[v] = watch[v] /\ informer'[v] = informer[v]
    BY <1>16, <2>1, InformerStops DEF CloseWatch, EndRange, TypeOK
  <2>3. UNCHANGED <<process, round, chan, closed, notifyVars, disrupted>>
    BY <1>16 DEF CloseWatch
  <2>4. QED
    BY <2>2, <2>3 DEF Phases, Listening
<1>17. ASSUME Panic \/ Exit \/ Crash PROVE Phases'
  BY <1>17, DiePhases DEF Panic, Exit, Crash, Die
<1>18. CASE Start
  <2>1. process' = "up" /\ process = "down"
        /\ UNCHANGED <<round, watch, informer, chan, closed, notifyVars, disrupted>>
    BY <1>18 DEF Start
  <2>2. QED
    BY <2>1 DEF Phases, Listening
<1>19. ASSUME NEW w \in Watches, FinishDeletion(w) PROVE Phases'
  <2>1. ~(w[1] > round)
    BY <1>19 DEF FinishDeletion, StopInformer, Phases, NoInformer
  <2>2. \A v \in Watches : v[1] > round => watch'[v] = watch[v] /\ informer'[v] = informer[v]
    BY <1>19, <2>1, InformerStops DEF FinishDeletion, TypeOK
  <2>3. UNCHANGED <<process, round, chan, closed, notifyVars, disrupted>>
    BY <1>19 DEF FinishDeletion
  <2>4. QED
    BY <2>2, <2>3 DEF Phases, Listening
<1>20. QED
  BY <1>1, <1>2, <1>3, <1>4, <1>5, <1>6, <1>7, <1>8, <1>9, <1>10, <1>11, <1>12, <1>13, <1>14,
     <1>15, <1>16, <1>17, <1>18, <1>19 DEF Next, NotifyStep

(***************************************************************************)
(* Events are conserved                                                    *)
(***************************************************************************)

LEMMA CountsTyped ==
  ASSUME TypeOK, NEW e \in Events
  PROVE  /\ Times(Event(e), chan) \in Nat /\ Times(Event(e), wes) \in Nat
         /\ Times(Event(e), unsentWEs) \in Nat /\ OnItsWay(e) \in Nat
         /\ copies[e] \in Nat /\ told[e] \in Nat /\ disruptions \in Nat
<1>1. /\ Times(Event(e), chan) \in Nat /\ Times(Event(e), wes) \in Nat
      /\ Times(Event(e), unsentWEs) \in Nat
  BY TimesNat DEF TypeOK
<1>2. QED
  BY <1>1 DEF TypeOK, OnItsWay

\* A step that takes nothing away and adds as much as is told.
LEMMA Balanced ==
  ASSUME TypeOK, TypeOK', NEW e \in Events, ConservedOf(e),
         copies'[e] + OnItsWay(e)' + told[e] = copies[e] + OnItsWay(e) + told'[e],
         disrupted \subseteq disrupted', disruptions <= disruptions',
         notify = "stopped" => notify' = "stopped"
  PROVE  ConservedOf(e)'
<1>1. /\ OnItsWay(e) \in Nat /\ copies[e] \in Nat /\ told[e] \in Nat /\ disruptions \in Nat
      /\ OnItsWay(e)' \in Nat /\ copies'[e] \in Nat /\ told'[e] \in Nat /\ disruptions' \in Nat
  <2>1. OnItsWay(e) \in Nat /\ copies[e] \in Nat /\ told[e] \in Nat /\ disruptions \in Nat
    BY CountsTyped
  <2>2. (TypeOK => OnItsWay(e) \in Nat)'
    BY CountsTyped, PTL
  <2>3. QED
    BY <2>1, <2>2 DEF TypeOK
<1>2. Kept' => Kept
  BY DEF Kept, SendingFailed
<1>3. QED
  BY <1>1, <1>2 DEF ConservedOf

LEMMA InitConserved == Init => Conserved
<1> SUFFICES ASSUME Init, NEW e \in Events PROVE ConservedOf(e)
  BY DEF Conserved
<1>1. copies[e] = 0 /\ told[e] = 0 /\ disruptions = 0 /\ chan = <<>> /\ wes = <<>> /\ unsentWEs = <<>>
  BY DEF Init, Listening
<1>2. OnItsWay(e) = 0
  BY <1>1, TimesNone DEF OnItsWay
<1>3. QED
  BY <1>1, <1>2 DEF ConservedOf

\* The process ends: what has not been sent is lost, and the count begins anew.
LEMMA EndConserved ==
  ASSUME TypeOK, TypeOK', Phases, NEW e \in Events, ConservedOf(e), Panic \/ Exit \/ Crash
  PROVE  ConservedOf(e)'
<1>1. /\ chan' = <<>> /\ wes' = <<>> /\ unsentWEs' = <<>>
      /\ copies' = copies /\ told' = copies
  BY DEF Panic, Exit, Crash, Die, FreshAgent, apiVars
<1>2. OnItsWay(e)' = 0
  BY <1>1, TimesNone DEF OnItsWay
<1>3. disrupted' = {}
  BY DEF Panic, Exit, Crash, Die
<1>4. copies[e] \in Nat
  BY CountsTyped
<1>5. QED
  BY <1>1, <1>2, <1>3, <1>4 DEF ConservedOf

\* Notify does not go on after its last sending.
LEMMA StoppedStays ==
  ASSUME [Next]_vars, notify = "stopped"
  PROVE  notify' = "stopped" \/ Panic \/ Exit \/ Crash
<1> USE DEF notifyVars, agentVars
<1>1. CASE UNCHANGED vars
  BY <1>1 DEF vars
<1>2. ASSUME NEW w \in Watches,
             \/ SendOperation(w) \/ FinishDeletion(w) \/ WatchExpires(w) \/ CloseWatch(w)
             \/ \E e \in Events : SendEvent(w, e)
      PROVE  notify' = "stopped"
  BY <1>2 DEF SendOperation, FinishDeletion, WatchExpires, CloseWatch, SendEvent
<1>3. CASE \/ \E r \in Resources : Change(r) \/ RemoveRow(r)
           \/ \E e \in Events : Occur(e)
           \/ Reconcile \/ Interrupt \/ CloseChannel \/ Start
  BY <1>3 DEF Change, RemoveRow, Occur, Reconcile, Interrupt, CloseChannel, Start
<1>4. ~NotifyStep /\ ~SendUpdateFails /\ ~SendWorkloadEventFails
  BY DEF NotifyStep, Receive, BeginSending, SendUpdate, SendWorkloadEvent, EndSending,
         SendUpdateFails, SendWorkloadEventFails, NotifyOn
<1>5. QED
  BY <1>1, <1>2, <1>3, <1>4 DEF Next

LEMMA StepConserved ==
  ASSUME TypeOK, TypeOK', Phases, Conserved, [Next]_vars
  PROVE  Conserved'
<1> USE DEF clusterVars, apiVars, collected, notifyVars, agentVars, history, envVars, elsewhere
<1> SUFFICES ASSUME NEW e \in Events PROVE ConservedOf(e)'
  BY DEF Conserved
<1>a. ConservedOf(e)
  BY DEF Conserved
<1>d. CASE Panic \/ Exit \/ Crash
  BY <1>a, <1>d, EndConserved
<1> SUFFICES ASSUME ~(Panic \/ Exit \/ Crash) PROVE ConservedOf(e)'
  BY <1>d
<1>c. notify = "stopped" => notify' = "stopped"
  BY StoppedStays
<1> DEFINE E == Event(e)
<1>0. /\ Times(E, chan) \in Nat /\ Times(E, wes) \in Nat /\ Times(E, unsentWEs) \in Nat
      /\ copies[e] \in Nat /\ told[e] \in Nat /\ disruptions \in Nat
      /\ OnItsWay(e) = Times(E, chan) + Times(E, wes) + Times(E, unsentWEs)
      /\ OnItsWay(e)' = Times(E, chan') + Times(E, wes') + Times(E, unsentWEs')
      /\ chan \in Seq(Operations \union Occurrences)
      /\ wes \in Seq(Occurrences) /\ unsentWEs \in Seq(Occurrences)
  BY CountsTyped DEF OnItsWay, TypeOK
<1>n. copies[e] \in Nat /\ told[e] \in Nat /\ disruptions \in Nat /\ OnItsWay(e) \in Nat
  BY CountsTyped
<1>b. \A f \in Events : Event(f) = E <=> f = e
  BY DEF Event
<1> HIDE DEF E
<1>1. ASSUME UNCHANGED <<copies, told, chan, wes, unsentWEs>>,
             disrupted \subseteq disrupted', disruptions <= disruptions'
      PROVE  ConservedOf(e)'
  BY <1>0, <1>1, <1>a, <1>c, Balanced
<1>2. CASE UNCHANGED vars
  BY <1>0, <1>1, <1>2 DEF vars
<1>3. ASSUME NEW r \in Resources, Change(r) \/ RemoveRow(r) PROVE ConservedOf(e)'
  BY <1>0, <1>1, <1>3 DEF Change, RemoveRow
<1>4. ASSUME NEW f \in Events, Occur(f) PROVE ConservedOf(e)'
  BY <1>0, <1>1, <1>4 DEF Occur
<1>5. ASSUME Reconcile \/ BeginSending \/ SendUpdate \/ SendUpdateFails \/ Interrupt \/ CloseChannel
             \/ Start
      PROVE  ConservedOf(e)'
  <2>1. UNCHANGED <<copies, told, chan, wes, unsentWEs>>
    BY <1>5 DEF Reconcile, BeginSending, SendUpdate, SendUpdateFails, Update, Interrupt,
                CloseChannel, Start
  <2>2. disrupted \subseteq disrupted' /\ disruptions <= disruptions'
    BY <1>0, <1>5 DEF Reconcile, BeginSending, SendUpdate, SendUpdateFails, Disrupt, Spend, Interrupt,
                      CloseChannel, Start
  <2>3. QED
    BY <1>1, <2>1, <2>2
<1>6. ASSUME NEW w \in Watches, FinishDeletion(w) \/ WatchExpires(w) \/ CloseWatch(w)
      PROVE  ConservedOf(e)'
  BY <1>0, <1>1, <1>6 DEF FinishDeletion, WatchExpires, CloseWatch, Disrupt, Spend
<1>7. ASSUME NEW w \in Watches, SendOperation(w) PROVE ConservedOf(e)'
  <2>1. chan' = Append(chan, Operation(On(w), watch[w].at + 1))
    BY <1>7 DEF SendOperation, Put
  <2>2. Operation(On(w), watch[w].at + 1) \in Operations
    <3>1. watch[w].at + 1 \in 1..MaxOps /\ On(w) \in Resources
      BY <1>7, Bounds DEF SendOperation, Behind, TypeOK
    <3>2. QED
      BY <3>1, ItemTypes
  <2>3. E # Operation(On(w), watch[w].at + 1)
    BY DEF E, Event, Operation
  <2>4. Times(E, chan') = Times(E, chan)
    BY <1>0, <2>1, <2>2, <2>3, AppendTimes
  <2>5. UNCHANGED <<copies, told, wes, unsentWEs, disrupted, disruptions>>
    BY <1>7 DEF SendOperation
  <2>6. copies'[e] + OnItsWay(e)' + told[e] = copies[e] + OnItsWay(e) + told'[e]
    BY <1>0, <2>4, <2>5
  <2>7. QED
    BY <1>0, <1>a, <2>5, <2>6, <1>c, Balanced
<1>8. ASSUME NEW w \in Watches, NEW f \in Events, SendEvent(w, f) PROVE ConservedOf(e)'
  <2>1. chan' = Append(chan, Event(f)) /\ Event(f) \in Occurrences
    BY <1>8, ItemTypes DEF SendEvent, Put
  <2>2. Times(E, chan') = Times(E, chan) + (IF E = Event(f) THEN 1 ELSE 0)
    BY <1>0, <2>1, AppendTimes
  <2>3. told'[e] = told[e] + (IF E = Event(f) THEN 1 ELSE 0) /\ told'[e] \in Nat
    <3>1. told' = [told EXCEPT ![f] = @ + 1] /\ told \in [Events -> Nat]
      BY <1>8 DEF SendEvent, TypeOK
    <3>2. CASE e = f
      BY <1>b, <3>1, <3>2
    <3>3. CASE e # f
      BY <1>0, <1>b, <3>1, <3>3
    <3>4. QED
      BY <3>2, <3>3
  <2>4. UNCHANGED <<copies, wes, unsentWEs, disrupted, disruptions>>
    BY <1>8 DEF SendEvent
  <2>5. copies'[e] + OnItsWay(e)' + told[e] = copies[e] + OnItsWay(e) + told'[e]
    <3>1. CASE E = Event(f)
      <4>1. told'[e] = told[e] + 1 /\ Times(E, chan') = Times(E, chan) + 1
        BY <1>0, <2>2, <2>3, <3>1
      <4>2. OnItsWay(e)' = OnItsWay(e) + 1 /\ copies'[e] = copies[e]
        BY <1>0, <2>4, <4>1
      <4>3. QED
        BY <1>n, <4>1, <4>2
    <3>2. CASE E # Event(f)
      <4>1. told'[e] = told[e] /\ Times(E, chan') = Times(E, chan)
        BY <1>0, <2>2, <2>3, <3>2
      <4>2. OnItsWay(e)' = OnItsWay(e) /\ copies'[e] = copies[e]
        BY <1>0, <2>4, <4>1
      <4>3. QED
        BY <4>1, <4>2
    <3>3. QED
      BY <3>1, <3>2
  <2>6. QED
    BY <1>0, <1>a, <2>4, <2>5, <1>c, Balanced
<1>9. CASE Receive
  <2>1. /\ Times(E, chan) = Times(E, chan') + (IF E = Head(chan) THEN 1 ELSE 0)
        /\ Times(E, chan') \in Nat
    BY <1>0, <1>9, TakenIn, TailTimes, TakeTyped, TimesNat
  <2>2. Times(E, wes') = Times(E, wes) + (IF E = Head(chan) THEN 1 ELSE 0)
    <3>1. CASE Head(chan) \in Operations /\ wes' = wes
      <4>1. E # Head(chan)
        BY <3>1, ItemTypes DEF E, Event, IsOperation
      <4>2. QED
        BY <1>0, <3>1, <4>1
    <3>2. CASE Head(chan) \in Occurrences /\ wes' = Append(wes, Head(chan))
      BY <1>0, <3>2, AppendTimes
    <3>3. QED
      BY <1>9, <3>1, <3>2, TakenIn
  <2>3. UNCHANGED <<copies, told, unsentWEs, disrupted, disruptions>>
    BY <1>9 DEF Receive
  <2>4. copies'[e] + OnItsWay(e)' + told[e] = copies[e] + OnItsWay(e) + told'[e]
    <3>1. CASE E = Head(chan)
      BY <1>0, <2>1, <2>2, <2>3, <3>1
    <3>2. CASE E # Head(chan)
      BY <1>0, <2>1, <2>2, <2>3, <3>2
    <3>3. QED
      BY <3>1, <3>2
  <2>5. QED
    BY <1>0, <1>a, <2>3, <2>4, <1>c, Balanced
<1>10. CASE SendWorkloadEvent
  <2>1. /\ wes # <<>> /\ wes' = Tail(wes) /\ Head(wes) \in Occurrences
        /\ UNCHANGED <<chan, unsentWEs, told, disrupted, disruptions>>
    BY <1>0, <1>10, TakeTyped DEF SendWorkloadEvent
  <2>2. Times(E, wes) = Times(E, wes') + (IF E = Head(wes) THEN 1 ELSE 0) /\ Times(E, wes') \in Nat
    BY <1>0, <2>1, TailTimes, TakeTyped, TimesNat
  <2>3. copies'[e] = IF E = Head(wes) THEN copies[e] + 1 ELSE copies[e]
    BY <1>10, <2>1, ServedTyped DEF SendWorkloadEvent, E
  <2>4. copies'[e] + OnItsWay(e)' + told[e] = copies[e] + OnItsWay(e) + told'[e]
    <3>1. CASE E = Head(wes)
      BY <1>0, <2>1, <2>2, <2>3, <3>1
    <3>2. CASE E # Head(wes)
      BY <1>0, <2>1, <2>2, <2>3, <3>2
    <3>3. QED
      BY <3>1, <3>2
  <2>5. QED
    BY <1>0, <1>a, <2>1, <2>4, <1>c, Balanced
<1>11. CASE SendWorkloadEventFails
  <2>1. /\ wes # <<>> /\ wes' = Tail(wes) /\ Head(wes) \in Occurrences
        /\ unsentWEs' = Append(unsentWEs, Head(wes))
        /\ UNCHANGED <<chan, told>>
        /\ disrupted \subseteq disrupted' /\ disruptions' = disruptions + 1
    BY <1>0, <1>11, TakeTyped DEF SendWorkloadEventFails, Disrupt, Spend
  <2>2. /\ Times(E, wes) = Times(E, wes') + (IF E = Head(wes) THEN 1 ELSE 0) /\ Times(E, wes') \in Nat
        /\ Times(E, unsentWEs') = Times(E, unsentWEs) + (IF E = Head(wes) THEN 1 ELSE 0)
    <3>1. Times(E, unsentWEs') = Times(E, unsentWEs) + (IF E = Head(wes) THEN 1 ELSE 0)
      BY <1>0, <2>1, AppendTimes
    <3>2. QED
      BY <1>0, <2>1, <3>1, TailTimes, TakeTyped, TimesNat
  <2>3. OnItsWay(e)' = OnItsWay(e)
    <3>1. CASE E = Head(wes)
      BY <1>0, <2>1, <2>2, <3>1
    <3>2. CASE E # Head(wes)
      BY <1>0, <2>1, <2>2, <3>2
    <3>3. QED
      BY <3>1, <3>2
  <2>4. CASE copies' = copies
    <3>1. copies'[e] + OnItsWay(e)' + told[e] = copies[e] + OnItsWay(e) + told'[e]
      BY <1>0, <2>1, <2>3, <2>4
    <3>2. disruptions <= disruptions'
      BY <1>0, <2>1
    <3>3. QED
      BY <1>0, <1>a, <2>1, <3>1, <3>2, <1>c, Balanced
  <2>5. CASE "lost" \in disrupted' /\ Create(Head(wes))
    <3>1. copies'[e] = IF E = Head(wes) THEN copies[e] + 1 ELSE copies[e]
      BY <2>1, <2>5, ServedTyped DEF E
    <3>2. copies[e] <= copies'[e] /\ copies'[e] <= copies[e] + 1 /\ copies'[e] \in Nat
      BY <1>0, <3>1
    <3>3. told'[e] = told[e] /\ OnItsWay(e) \in Nat
      BY <1>0, <2>1
    <3>4. Kept' => Kept
      BY <1>c, <2>1 DEF Kept, SendingFailed
    <3>5. copies[e] + OnItsWay(e) <= told[e] + disruptions
      BY <1>0, <1>a, <3>3 DEF ConservedOf
    <3>6. copies'[e] + OnItsWay(e)' <= told'[e] + disruptions'
      <4>1. copies'[e] + OnItsWay(e) <= told[e] + disruptions + 1
        BY <1>n, <3>2, <3>5
      <4>2. told[e] + disruptions + 1 = told'[e] + disruptions'
        <5>1. disruptions' = disruptions + 1 /\ told'[e] = told[e]
          BY <2>1
        <5>2. QED
          BY <1>n, <5>1
      <4>3. QED
        BY <2>3, <4>1, <4>2
    <3>7. Kept' => told'[e] <= copies'[e] + OnItsWay(e)'
      <4>1. Kept' => told[e] <= copies[e] + OnItsWay(e)
        BY <1>a, <3>4 DEF ConservedOf
      <4>2. copies[e] + OnItsWay(e) <= copies'[e] + OnItsWay(e)'
        BY <1>n, <2>3, <3>2
      <4>3. copies[e] + OnItsWay(e) \in Nat /\ copies'[e] + OnItsWay(e)' \in Nat
        BY <1>n, <2>3, <3>2
      <4>4. QED
        BY <1>n, <3>3, <4>1, <4>2, <4>3
    <3>8. QED
      BY <2>5, <3>6, <3>7 DEF ConservedOf
  <2>6. QED
    BY <1>11, <2>4, <2>5 DEF SendWorkloadEventFails, Disrupt, Spend
<1>12. CASE EndSending
  <2>1. /\ wes = <<>> /\ unsentWEs' = <<>> /\ Times(E, wes) = 0 /\ Times(E, unsentWEs') = 0
        /\ UNCHANGED <<copies, told, chan, disrupted, disruptions>>
    BY <1>12, TimesNone DEF EndSending
  <2>2. CASE notify # "last"
    <3>1. wes' = unsentWEs
      BY <1>12, <2>2 DEF EndSending
    <3>2. copies'[e] + OnItsWay(e)' + told[e] = copies[e] + OnItsWay(e) + told'[e]
      BY <1>0, <2>1, <3>1
    <3>3. QED
      BY <1>0, <1>a, <2>1, <3>2, <1>c, Balanced
  <2>3. CASE notify = "last"
    <3>1. wes' = wes
      BY <1>12, <2>3 DEF EndSending
    <3>2. unsentWEs # <<>> => ~Kept'
      BY <1>12, <2>1, <2>3 DEF EndSending, Phases, Kept, SendingFailed
    <3>4. OnItsWay(e)' = Times(E, chan) /\ OnItsWay(e) = Times(E, chan) + Times(E, unsentWEs)
      BY <1>0, <2>1, <3>1
    <3>5. CASE unsentWEs = <<>>
      <4>1. Times(E, unsentWEs) = 0
        BY <3>5, TimesNone
      <4>2. copies'[e] + OnItsWay(e)' + told[e] = copies[e] + OnItsWay(e) + told'[e]
        BY <1>0, <2>1, <3>4, <4>1
      <4>3. QED
        BY <1>0, <1>a, <2>1, <4>2, <1>c, Balanced
    <3>6. CASE unsentWEs # <<>>
      <4>1. ~Kept'
        BY <3>2, <3>6
      <4>2. copies'[e] + OnItsWay(e)' <= copies[e] + OnItsWay(e)
        BY <1>0, <2>1, <3>4
      <4>3. copies'[e] + OnItsWay(e)' <= told'[e] + (IF "lost" \in disrupted' THEN disruptions' ELSE 0)
        BY <1>0, <1>a, <2>1, <3>4, <4>2 DEF ConservedOf
      <4>4. QED
        BY <4>1, <4>3 DEF ConservedOf
    <3>7. QED
      BY <3>5, <3>6
  <2>4. QED
    BY <2>2, <2>3
<1>13. QED
  BY <1>2, <1>3, <1>4, <1>5, <1>6, <1>7, <1>8, <1>9, <1>10, <1>11, <1>12
     DEF Next, NotifyStep

LEMMA InitConservation == Init => TypeOK /\ Phases /\ Conserved
BY InitTypeOK, InitPhases, InitConserved

LEMMA StepConservation ==
  ASSUME TypeOK /\ Phases /\ Conserved, [Next]_vars
  PROVE  (TypeOK /\ Phases /\ Conserved)'
BY StepTypeOK, StepPhases, StepConserved

\* An event that an informer has sent is in the API or on its way, exactly
\* as often as it was sent, but for lost replies and what ends the process
\* (Notify, sendThreeportUpdates).
THEOREM NoEventForgotten == Spec => []EventsConserved
<1>1. TypeOK /\ Phases /\ Conserved => EventsConserved
  BY DEF Conserved, ConservedOf, Kept, EventsConserved
<1>2. QED
  BY <1>1, InitConservation, StepConservation, PTL DEF Spec

\* A process that was interrupted and ends in order has sent every event that
\* reached the channel (main, Notify).
THEOREM Flushed == Spec => []FlushedBeforeExit
<1>1. TypeOK /\ Phases /\ Conserved => FlushedBeforeExit
  <2> SUFFICES ASSUME TypeOK, Phases, Conserved, notify = "stopped",
                      ~SendingFailed, NEW e \in Events
               PROVE  told[e] <= copies[e]
    BY DEF FlushedBeforeExit
  <2>1. Kept
    BY DEF Kept
  <2>2. chan = <<>> /\ wes = <<>> /\ unsentWEs = <<>>
    BY DEF Phases
  <2>3. OnItsWay(e) = 0
    BY <2>2, TimesNone DEF OnItsWay
  <2>4. copies[e] \in Nat
    BY CountsTyped
  <2>5. QED
    BY <2>1, <2>3, <2>4 DEF Conserved, ConservedOf
<1>2. QED
  BY <1>1, InitConservation, StepConservation, PTL DEF Spec

(***************************************************************************)
(* What reaches a row last                                                 *)
(***************************************************************************)

LEMMA InitReports == Init => Reports
<1> SUFFICES ASSUME Init, NEW r \in Resources PROVE Unreported(r)
  BY DEF Reports, ReportOf
<1>1. \A w \in Watches : watch[w].at = 0 /\ cluster[On(w)].op = 1
  BY Bounds DEF Init, NoWatch
<1>2. QED
  BY <1>1 DEF Unreported

\* A step that changes nothing a row hears of.
LEMMA SameReport ==
  ASSUME NEW r \in Resources, ReportOf(r),
         UNCHANGED <<cluster, overtaken, round, chan, unsentWRIs, wris>>,
         row'[r] = row[r], \A w \in Watches : watch'[w].at = watch[w].at
  PROVE  ReportOf(r)'
<1>1. Excused(r)' = Excused(r)
  BY DEF Excused
<1>2. Unreported(r) => Unreported(r)'
  BY DEF Unreported
<1>3. LastExcused(r) => LastExcused(r)'
  BY <1>1 DEF LastExcused
<1>4. QED
  BY <1>2, <1>3 DEF ReportOf

LEMMA ReconcileReports ==
  ASSUME TypeOK, Phases, NEW r \in Resources, ReportOf(r), Reconcile
  PROVE  ReportOf(r)'
<1>1. UNCHANGED <<cluster, overtaken, chan, unsentWRIs, wris, row>> /\ round' = round + 1
      /\ round \in Nat
  BY DEF Reconcile, clusterVars, history, notifyVars, collected, apiVars, TypeOK
<1>2. \A w \in Watches : w[1] \in Nat /\ (w[1] <= round => watch'[w] = watch[w])
  BY <1>1, Bounds DEF Reconcile
<1>3. Excused(r) \subseteq Excused(r)'
  BY <1>1, <1>2 DEF Excused
<1>4. ASSUME Unreported(r) PROVE Unreported(r)'
  <2> SUFFICES ASSUME NEW w \in Watches, On(w) = r, w[1] <= round + 1
               PROVE  watch'[w].at < cluster[r].op
    BY <1>1 DEF Unreported
  <2>1. cluster[r].op \in 1..MaxOps
    BY DEF TypeOK
  <2>2. CASE w[1] <= round
    BY <1>2, <1>4, <2>2 DEF Unreported
  <2>3. CASE w[1] = round + 1
    <3>1. watch[w] = NoWatch
      BY <1>1, <2>3 DEF Phases
    <3>2. watch'[w].at = cluster[r].op - 1 \/ watch'[w] = watch[w]
      BY DEF Reconcile
    <3>3. watch'[w].at = cluster[r].op - 1 \/ watch'[w].at = 0
      BY <3>1, <3>2 DEF NoWatch
    <3>4. QED
      BY <2>1, <3>3, Bounds
  <2>4. QED
    BY <1>1, <1>2, <2>2, <2>3
<1>5. LastExcused(r) => LastExcused(r)'
  BY <1>1, <1>3 DEF LastExcused
<1>6. QED
  BY <1>1, <1>4, <1>5 DEF ReportOf

LEMMA OperationReports ==
  ASSUME TypeOK, Phases, NEW r \in Resources, ReportOf(r), NEW w \in Watches, SendOperation(w)
  PROVE  ReportOf(r)'
<1> DEFINE i == Operation(On(w), watch[w].at + 1)
<1>1. /\ UNCHANGED <<cluster, overtaken, round, unsentWRIs, wris, row>>
      /\ chan' = Append(chan, i) /\ chan \in Seq(Operations \union Occurrences)
  BY DEF SendOperation, Put, clusterVars, history, notifyVars, collected, apiVars, TypeOK
<1>2. i \in Operations
  <2>1. watch[w].at + 1 \in 1..MaxOps /\ On(w) \in Resources
    BY Bounds DEF SendOperation, Behind, TypeOK
  <2>2. QED
    BY <2>1, ItemTypes
<1>3. /\ watch'[w].at = watch[w].at + 1
      /\ \A v \in Watches : v # w => watch'[v] = watch[v]
  BY DEF SendOperation, TypeOK
<1>4. w[1] <= round
  <2>1. ~(w[1] > round)
    BY DEF SendOperation, Behind, Phases, NoWatch
  <2>2. QED
    BY <2>1, Bounds DEF TypeOK
<1>5. CASE On(w) = r
  <2>1. Concerns(i, r) /\ i.n = watch'[w].at
    BY <1>3, <1>5 DEF Concerns, IsOperation, Operation
  <2>2. LastOf(r, chan') = {watch'[w].at} /\ ~Silent(r, chan')
    BY <1>1, <1>2, <2>1, AppendLast
  <2>3. watch'[w].at \in Excused(r)'
    BY <1>1, <1>4, <1>5 DEF Excused
  <2>4. QED
    BY <2>2, <2>3 DEF ReportOf, LastExcused
<1>6. CASE On(w) # r
  <2>1. ~Concerns(i, r)
    BY <1>6 DEF Concerns, Operation
  <2>2. LastOf(r, chan') = LastOf(r, chan) /\ (Silent(r, chan') <=> Silent(r, chan))
    BY <1>1, <1>2, <2>1, AppendLast
  <2>3. Excused(r)' = Excused(r)
    BY <1>1, <1>3, <1>6 DEF Excused
  <2>4. Unreported(r) => Unreported(r)'
    BY <1>1, <1>3, <1>6 DEF Unreported
  <2>5. LastExcused(r) => LastExcused(r)'
    BY <1>1, <2>2, <2>3 DEF LastExcused
  <2>6. QED
    BY <1>1, <2>4, <2>5 DEF ReportOf
<1>7. QED
  BY <1>5, <1>6

LEMMA EventReports ==
  ASSUME TypeOK, NEW r \in Resources, ReportOf(r), NEW w \in Watches, NEW e \in Events,
         SendEvent(w, e)
  PROVE  ReportOf(r)'
<1>1. /\ UNCHANGED <<cluster, overtaken, round, unsentWRIs, wris, row, watch>>
      /\ chan' = Append(chan, Event(e)) /\ chan \in Seq(Operations \union Occurrences)
  BY DEF SendEvent, Put, clusterVars, notifyVars, collected, apiVars, TypeOK
<1>2. Event(e) \in Operations \union Occurrences /\ ~Concerns(Event(e), r)
  BY ItemTypes DEF Concerns
<1>3. LastOf(r, chan') = LastOf(r, chan) /\ (Silent(r, chan') <=> Silent(r, chan))
  BY <1>1, <1>2, AppendLast
<1>4. Excused(r)' = Excused(r) /\ (Unreported(r) => Unreported(r)')
  BY <1>1 DEF Excused, Unreported
<1>5. LastExcused(r) => LastExcused(r)'
  BY <1>1, <1>3, <1>4 DEF LastExcused
<1>6. QED
  BY <1>1, <1>4, <1>5 DEF ReportOf

LEMMA ReceiveReports ==
  ASSUME TypeOK, Phases, NEW r \in Resources, ReportOf(r), Receive
  PROVE  ReportOf(r)'
<1>1. /\ UNCHANGED <<cluster, overtaken, round, unsentWRIs, row, watch>>
      /\ unsentWRIs = <<>> /\ wris \in Seq(Operations)
  BY DEF Receive, NotifyOn, Phases, elsewhere, clusterVars, history, apiVars, TypeOK
<1>2. Excused(r)' = Excused(r) /\ (Unreported(r) => Unreported(r)')
  BY <1>1 DEF Excused, Unreported
<1>3. /\ LastOf(r, chan') \subseteq LastOf(r, chan)
      /\ Silent(r, chan) <=> Silent(r, chan') /\ ~Concerns(Head(chan), r)
      /\ Concerns(Head(chan), r) /\ Silent(r, chan') => Head(chan).n \in LastOf(r, chan)
  BY TakenIn, TailLast
<1>4. LastOf(r, unsentWRIs') = {} /\ Silent(r, unsentWRIs') /\ Silent(r, unsentWRIs)
  BY <1>1, NothingLast
<1>5. CASE Concerns(Head(chan), r)
  <2>1. Head(chan) \in Operations /\ wris' = Append(wris, Head(chan))
    BY <1>5, TakenIn, ItemTypes DEF Concerns
  <2>2. LastOf(r, wris') = {Head(chan).n} /\ ~Silent(r, wris')
    BY <1>1, <1>5, <2>1, AppendLast
  <2>3. LastExcused(r) => LastExcused(r)'
    BY <1>2, <1>3, <1>4, <1>5, <2>2 DEF LastExcused
  <2>4. QED
    BY <1>1, <1>2, <2>3 DEF ReportOf
<1>6. CASE ~Concerns(Head(chan), r)
  <2>1. LastOf(r, wris') = LastOf(r, wris) /\ (Silent(r, wris') <=> Silent(r, wris))
    <3>1. CASE Head(chan) \in Operations /\ wris' = Append(wris, Head(chan))
      BY <1>1, <1>6, <3>1, AppendLast
    <3>2. QED
      BY <3>1, TakenIn
  <2>2. LastExcused(r) => LastExcused(r)'
    BY <1>1, <1>2, <1>3, <1>4, <1>6, <2>1 DEF LastExcused
  <2>3. QED
    BY <1>1, <1>2, <2>2 DEF ReportOf
<1>7. QED
  BY <1>5, <1>6

LEMMA UpdateReports ==
  ASSUME TypeOK, NEW r \in Resources, ReportOf(r), SendUpdate
  PROVE  ReportOf(r)'
<1> DEFINE i == Head(wris)
<1>1. /\ UNCHANGED <<cluster, overtaken, round, unsentWRIs, watch, chan>>
      /\ wris # <<>> /\ wris' = Tail(wris) /\ wris \in Seq(Operations)
  BY DEF SendUpdate, elsewhere, clusterVars, history, TypeOK
<1>2. i \in Operations
  BY <1>1, TakeTyped
<1>3. Excused(r)' = Excused(r) /\ (Unreported(r) => Unreported(r)')
  BY <1>1 DEF Excused, Unreported
<1>4. /\ LastOf(r, wris') \subseteq LastOf(r, wris)
      /\ Silent(r, wris) <=> Silent(r, wris') /\ ~Concerns(i, r)
      /\ Concerns(i, r) /\ Silent(r, wris') => i.n \in LastOf(r, wris)
  BY <1>1, TailLast
<1>5. row'[r].exists = row[r].exists
  BY <1>2, ServedTyped DEF SendUpdate, apiVars
<1>6. Concerns(i, r) <=> i.of = r
  BY <1>2, ItemTypes DEF Concerns
<1>7. CASE Concerns(i, r)
  <2>1. row[r].exists => row'[r].op = i.n
    BY <1>2, <1>6, <1>7, ServedTyped DEF SendUpdate
  <2>2. row[r].exists /\ LastExcused(r) => LastExcused(r)'
    BY <1>1, <1>3, <1>4, <1>7, <2>1 DEF LastExcused
  <2>3. QED
    BY <1>3, <1>5, <2>2 DEF ReportOf
<1>8. CASE ~Concerns(i, r)
  <2>1. row'[r].op = row[r].op
    BY <1>2, <1>6, <1>8, ServedTyped DEF SendUpdate, apiVars
  <2>2. LastExcused(r) => LastExcused(r)'
    BY <1>1, <1>3, <1>4, <1>8, <2>1 DEF LastExcused
  <2>3. QED
    BY <1>3, <1>5, <2>2 DEF ReportOf
<1>9. QED
  BY <1>7, <1>8

LEMMA UpdateFailsReports ==
  ASSUME TypeOK, NEW r \in Resources, ReportOf(r), SendUpdateFails
  PROVE  ReportOf(r)'
<1> DEFINE i == Head(wris)
<1>1. /\ UNCHANGED <<cluster, round, watch, chan>>
      /\ wris # <<>> /\ wris' = Tail(wris) /\ wris \in Seq(Operations)
      /\ unsentWRIs' = Append(unsentWRIs, i) /\ unsentWRIs \in Seq(Operations)
      /\ overtaken' = [overtaken EXCEPT ![i.of] = @ \union {i.n}]
      /\ overtaken \in [Resources -> SUBSET (1..MaxOps)]
  BY DEF SendUpdateFails, elsewhere, clusterVars, TypeOK
<1>2. i \in Operations
  BY <1>1, TakeTyped
<1>3. Excused(r) \subseteq Excused(r)' /\ (Unreported(r) => Unreported(r)')
  <2>1. overtaken[r] \subseteq overtaken'[r]
    BY <1>1
  <2>2. QED
    BY <1>1, <2>1 DEF Excused, Unreported
<1>4. /\ LastOf(r, wris') \subseteq LastOf(r, wris)
      /\ Silent(r, wris) <=> Silent(r, wris') /\ ~Concerns(i, r)
  BY <1>1, TailLast
<1>5. row'[r].exists = row[r].exists
  BY <1>2, ServedTyped DEF SendUpdateFails, apiVars
<1>6. Concerns(i, r) <=> i.of = r
  BY <1>2, ItemTypes DEF Concerns
<1>7. CASE Concerns(i, r)
  <2>1. LastOf(r, unsentWRIs') = {i.n} /\ ~Silent(r, unsentWRIs')
    BY <1>1, <1>2, <1>7, AppendLast
  <2>2. i.n \in Excused(r)'
    BY <1>1, <1>6, <1>7 DEF Excused
  <2>3. LastExcused(r) => LastExcused(r)'
    BY <1>1, <1>3, <2>1, <2>2 DEF LastExcused
  <2>4. QED
    BY <1>3, <1>5, <2>3 DEF ReportOf
<1>8. CASE ~Concerns(i, r)
  <2>1. row'[r].op = row[r].op
    BY <1>2, <1>6, <1>8, ServedTyped DEF SendUpdateFails, apiVars
  <2>2. /\ LastOf(r, unsentWRIs') = LastOf(r, unsentWRIs)
        /\ Silent(r, unsentWRIs') <=> Silent(r, unsentWRIs)
    BY <1>1, <1>2, <1>8, AppendLast
  <2>3. LastExcused(r) => LastExcused(r)'
    BY <1>1, <1>3, <1>4, <1>8, <2>1, <2>2 DEF LastExcused
  <2>4. QED
    BY <1>3, <1>5, <2>3 DEF ReportOf
<1>9. QED
  BY <1>7, <1>8

LEMMA EndSendingReports ==
  ASSUME Phases, process = "up", NEW r \in Resources, ReportOf(r), EndSending
  PROVE  ReportOf(r)'
<1>1. UNCHANGED <<cluster, overtaken, round, watch, chan, row>>
  BY DEF EndSending, elsewhere, clusterVars, history, apiVars
<1>2. wris = <<>> /\ wris' = unsentWRIs /\ unsentWRIs' = <<>>
  BY DEF EndSending, Phases
<1>3. Excused(r)' = Excused(r) /\ (Unreported(r) => Unreported(r)')
  BY <1>1 DEF Excused, Unreported
<1>4. LastExcused(r) => LastExcused(r)'
  BY <1>1, <1>2, <1>3, NothingLast DEF LastExcused
<1>5. QED
  BY <1>1, <1>3, <1>4 DEF ReportOf

LEMMA StepReports ==
  ASSUME TypeOK, Phases, Reports, [Next]_vars
  PROVE  Reports'
<1> USE DEF clusterVars, apiVars, collected, notifyVars, agentVars, history, envVars, elsewhere
<1> SUFFICES ASSUME process' = "up", NEW r \in Resources PROVE ReportOf(r)'
  BY DEF Reports
<1>a. process = "up" => ReportOf(r)
  BY DEF Reports
<1>1. CASE UNCHANGED vars
  BY <1>1, <1>a, SameReport DEF vars
<1>2. ASSUME NEW s \in Resources, Change(s) PROVE ReportOf(r)'
  <2>1. UNCHANGED <<overtaken, round, chan, unsentWRIs, wris, row, watch, process>>
    BY <1>2 DEF Change
  <2>2. cluster[r].op <= cluster'[r].op /\ cluster'[r].op \in Nat /\ cluster[r].op \in Nat
    BY <1>2 DEF Change, TypeOK
  <2>3. Excused(r)' = Excused(r)
    BY <2>1 DEF Excused
  <2>4. \A w \in Watches : watch[w].at \in Nat
    BY DEF TypeOK
  <2>5. Unreported(r) => Unreported(r)'
    BY <2>1, <2>2, <2>4 DEF Unreported
  <2>6. LastExcused(r) => LastExcused(r)'
    BY <2>1, <2>3 DEF LastExcused
  <2>7. QED
    BY <1>a, <2>1, <2>5, <2>6 DEF ReportOf
<1>3. ASSUME NEW s \in Resources, RemoveRow(s) PROVE ReportOf(r)'
  <2>1. /\ UNCHANGED <<cluster, overtaken, round, chan, unsentWRIs, wris, watch, process>>
        /\ row' = [row EXCEPT ![s] = [exists |-> FALSE, op |-> 0]]
    BY <1>3 DEF RemoveRow
  <2>2. CASE r = s
    <3>1. row'[r].exists = FALSE
      BY <2>1, <2>2 DEF TypeOK
    <3>2. QED
      BY <3>1 DEF ReportOf
  <2>3. CASE r # s
    <3>1. row'[r] = row[r]
      BY <2>1, <2>3 DEF TypeOK
    <3>2. QED
      BY <1>a, <2>1, <3>1, SameReport
  <2>4. QED
    BY <2>2, <2>3
<1>4. ASSUME NEW f \in Events, Occur(f) PROVE ReportOf(r)'
  BY <1>4, <1>a, SameReport DEF Occur
<1>5. CASE Reconcile
  BY <1>5, <1>a, ReconcileReports DEF Reconcile
<1>6. ASSUME NEW w \in Watches, SendOperation(w) PROVE ReportOf(r)'
  BY <1>6, <1>a, OperationReports DEF SendOperation
<1>7. ASSUME NEW w \in Watches, NEW e \in Events, SendEvent(w, e) PROVE ReportOf(r)'
  BY <1>7, <1>a, EventReports DEF SendEvent
<1>8. ASSUME NEW w \in Watches, WatchExpires(w) PROVE ReportOf(r)'
  <2>1. \A v \in Watches : watch'[v].at = watch[v].at
    BY <1>8 DEF WatchExpires, TypeOK
  <2>2. UNCHANGED <<cluster, overtaken, round, chan, unsentWRIs, wris, row, process>>
    BY <1>8 DEF WatchExpires
  <2>3. QED
    BY <1>a, <2>1, <2>2, SameReport
<1>9. CASE Receive
  BY <1>9, <1>a, ReceiveReports DEF Receive
<1>10. CASE BeginSending
  BY <1>10, <1>a, SameReport DEF BeginSending
<1>11. CASE SendUpdate
  BY <1>11, <1>a, UpdateReports DEF SendUpdate
<1>12. CASE SendUpdateFails
  BY <1>12, <1>a, UpdateFailsReports DEF SendUpdateFails
<1>13. CASE SendWorkloadEvent
  BY <1>13, <1>a, SameReport DEF SendWorkloadEvent, Create
<1>14. CASE SendWorkloadEventFails
  BY <1>14, <1>a, SameReport DEF SendWorkloadEventFails, Create
<1>15. CASE EndSending
  BY <1>15, <1>a, EndSendingReports DEF EndSending
<1>16. CASE Interrupt \/ CloseChannel \/ Panic \/ Exit \/ Crash
  BY <1>16 DEF Interrupt, CloseChannel, Panic, Exit, Crash, Die
<1>17. ASSUME NEW w \in Watches, CloseWatch(w) PROVE FALSE
  BY <1>17 DEF CloseWatch
<1>18. CASE Start
  <2>1. round' = 0
    BY <1>18 DEF Start, Phases
  <2>2. \A w \in Watches : ~(w[1] <= 0)
    BY Bounds
  <2>3. Unreported(r)'
    BY <2>1, <2>2 DEF Unreported
  <2>4. QED
    BY <2>3 DEF ReportOf
<1>19. ASSUME NEW w \in Watches, FinishDeletion(w) PROVE ReportOf(r)'
  <2>1. \A v \in Watches : watch'[v].at = watch[v].at
    BY <1>19 DEF FinishDeletion, TypeOK
  <2>2. UNCHANGED <<cluster, overtaken, round, chan, unsentWRIs, wris, row, process>>
    BY <1>19 DEF FinishDeletion
  <2>3. QED
    BY <1>a, <2>1, <2>2, SameReport
<1>20. QED
  BY <1>1, <1>2, <1>3, <1>4, <1>5, <1>6, <1>7, <1>8, <1>9, <1>10, <1>11, <1>12, <1>13, <1>14,
     <1>15, <1>16, <1>17, <1>18, <1>19 DEF Next, NotifyStep

\* When everything reported has been sent, a row shows the latest operation,
\* or else one that was sent again, however many watches there are and however
\* often the agent was restarted (appendUniqueWRI, sendThreeportUpdates).
THEOREM LatestArrivesLast == Spec => []LatestUnlessRetried
<1>1. TypeOK /\ Phases /\ Reports => LatestUnlessRetried
  <2> SUFFICES ASSUME TypeOK, Phases, Reports, NEW r \in Resources, Quiet(r), row[r].exists
               PROVE  row[r].op \in {cluster[r].op} \union overtaken[r]
    BY DEF LatestUnlessRetried
  <2>1. /\ process = "up" /\ round > 0 /\ chan = <<>> /\ wris = <<>> /\ unsentWRIs = <<>>
        /\ \A w \in Watches : On(w) = r /\ w[1] <= round => watch[w].at = cluster[r].op
    BY DEF Quiet, Listening
  <2>2. ~Unreported(r)
    <3>1. <<1, r>> \in Watches /\ On(<<1, r>>) = r /\ <<1, r>>[1] <= round
      BY <2>1, Bounds DEF Watches, On, TypeOK
    <3>2. cluster[r].op \in Nat
      BY DEF TypeOK
    <3>3. ~(watch[<<1, r>>].at < cluster[r].op)
      BY <2>1, <3>1, <3>2
    <3>4. QED
      BY <3>1, <3>3 DEF Unreported
  <2>3. LastExcused(r)
    BY <2>1, <2>2 DEF Reports, ReportOf
  <2>4. row[r].op \in Excused(r)
    BY <2>1, <2>3, NothingLast DEF LastExcused
  <2>5. QED
    BY <2>1, <2>4 DEF Excused
<1>2. Init => TypeOK /\ Phases /\ Reports
  BY InitTypeOK, InitPhases, InitReports
<1>3. TypeOK /\ Phases /\ Reports /\ [Next]_vars => (TypeOK /\ Phases /\ Reports)'
  BY StepTypeOK, StepPhases, StepReports
<1>4. QED
  BY <1>1, <1>2, <1>3, PTL DEF Spec
=============================================================================
