---------------------------- MODULE EventRecorder ----------------------------
(***************************************************************************)
(* RecordEvent: calls that record the same event (same reason, note and    *)
(* type) about the same object.  A call asks for the events already there, *)
(* and creates one or counts the one it found; creating takes three API    *)
(* calls, run as a stack of operations.  A failed reconciliation is        *)
(* recorded under the object's lock, a successful one after the lock is    *)
(* released, so calls of several controllers may overlap.                  *)
(***************************************************************************)
EXTENDS Naturals, FiniteSets

CONSTANTS
    Calls,           \* calls of RecordEvent; each may create an event of its own
    None,
    MaxDisruptions   \* bound on the API calls that fail

ASSUME NoneAssumption == None \notin Calls
ASSUME MaxDisruptionsAssumption == MaxDisruptions \in Nat

VARIABLES
    event,       \* call -> the event row it created
    ref,         \* call -> the attached object reference it created
    pc,          \* call -> where it is
    next,        \* call -> the operation it runs next
    failed,      \* call -> its operations that returned an error
    seen,        \* call -> the event it found, and its count
    overlapped,  \* some call began while another was under way
    disruptions

vars == <<event, ref, pc, next, failed, seen, overlapped, disruptions>>
rowVars == <<event, ref>>
stackVars == <<next, failed>>

RowStates == {"none", "live", "deleted"}
NoEvent == [st |-> "none", count |-> 0, linked |-> FALSE]
NothingSeen == [id |-> None, count |-> 0]

\* What an inner join of events with references finds.  The rows are deleted
\* softly, and the join does not ask whether the reference is.
Visible == {c \in Calls : event[c].st = "live" /\ event[c].linked}

Active(c) == pc[c] \in {"create", "delete", "count"}
Goto(c, l) == pc' = [pc EXCEPT ![c] = l]

Disrupt ==
    /\ disruptions < MaxDisruptions
    /\ disruptions' = disruptions + 1

Init ==
    /\ event = [c \in Calls |-> NoEvent]
    /\ ref = [c \in Calls |-> "none"]
    /\ pc = [c \in Calls |-> "idle"]
    /\ next = [c \in Calls |-> 1]
    /\ failed = [c \in Calls |-> {}]
    /\ seen = [c \in Calls |-> NothingSeen]
    /\ overlapped = FALSE
    /\ disruptions = 0

------------------------------------------------------------------------------
Begin(c) ==
    /\ pc[c] = "idle"
    /\ overlapped' = (overlapped \/ \E d \in Calls : Active(d))

\* Variant: what is there is not looked at.
FindNoneRegardless(c) ==
    /\ Begin(c)
    /\ Goto(c, "create")
    /\ UNCHANGED <<rowVars, stackVars, seen, disruptions>>

FindNone(c) ==
    /\ Begin(c) /\ Visible = {}
    /\ Goto(c, "create")
    /\ UNCHANGED <<rowVars, stackVars, seen, disruptions>>

FindOne(c) ==
    /\ Begin(c)
    /\ \E e \in Calls :
          /\ Visible = {e}
          /\ seen' = [seen EXCEPT ![c] = [id |-> e, count |-> event[e].count]]
    /\ Goto(c, "count")
    /\ UNCHANGED <<rowVars, stackVars, disruptions>>

\* More than one event is an error, and so is a query that fails.
FindFails(c) ==
    /\ Begin(c)
    /\ \/ Visible # {} /\ (\A e \in Calls : Visible # {e}) /\ UNCHANGED disruptions
       \/ Disrupt
    /\ Goto(c, "error")
    /\ UNCHANGED <<rowVars, stackVars, seen>>

------------------------------------------------------------------------------
(* The three operations: the event, its reference, and the event updated    *)
(* with the reference's ID.  The third has no delete function.              *)

\* Variant: the new event is not given its reference.
MakeUnlinked(c) ==
    CASE next[c] = 1 -> /\ event' = [event EXCEPT ![c] = [st |-> "live", count |-> 1, linked |-> FALSE]]
                        /\ UNCHANGED ref
      [] next[c] = 2 -> /\ ref' = [ref EXCEPT ![c] = "live"] /\ UNCHANGED event
      [] OTHER       -> UNCHANGED rowVars

Make(c) ==
    CASE next[c] = 1 -> /\ event' = [event EXCEPT ![c] = [st |-> "live", count |-> 1, linked |-> FALSE]]
                        /\ UNCHANGED ref
      [] next[c] = 2 -> /\ ref' = [ref EXCEPT ![c] = "live"] /\ UNCHANGED event
      [] OTHER       -> /\ event' = [event EXCEPT ![c].linked = TRUE] /\ UNCHANGED ref

Unmake(c) ==
    CASE next[c] = 1 -> /\ event' = [event EXCEPT ![c].st = "deleted"] /\ UNCHANGED ref
      [] OTHER       -> /\ ref' = [ref EXCEPT ![c] = "deleted"] /\ UNCHANGED event

MakeNext(c) ==
    /\ pc[c] = "create"
    /\ Make(c)
    /\ next' = [next EXCEPT ![c] = @ + 1]
    /\ Goto(c, IF next[c] = 3 THEN "ok" ELSE "create")
    /\ UNCHANGED <<failed, seen, overlapped, disruptions>>

\* Variant: the cleanup begins with the operation that failed.
MakeFailsUndoneToo(c) ==
    /\ pc[c] = "create" /\ Disrupt
    /\ Make(c) \/ UNCHANGED rowVars
    /\ failed' = [failed EXCEPT ![c] = @ \union {next[c]}]
    /\ Goto(c, "delete")
    /\ UNCHANGED <<next, seen, overlapped>>

\* The API call may have been served before it failed.
MakeFails(c) ==
    /\ pc[c] = "create" /\ Disrupt
    /\ Make(c) \/ UNCHANGED rowVars
    /\ failed' = [failed EXCEPT ![c] = @ \union {next[c]}]
    /\ next' = [next EXCEPT ![c] = @ - 1]
    /\ Goto(c, IF next[c] = 1 THEN "error" ELSE "delete")
    /\ UNCHANGED <<seen, overlapped>>

UnmakeNext(c) ==
    /\ pc[c] = "delete"
    /\ Unmake(c)
    /\ next' = [next EXCEPT ![c] = @ - 1]
    /\ Goto(c, IF next[c] = 1 THEN "error" ELSE "delete")
    /\ UNCHANGED <<failed, seen, overlapped, disruptions>>

UnmakeFails(c) ==
    /\ pc[c] = "delete" /\ Disrupt
    /\ Unmake(c) \/ UNCHANGED rowVars
    /\ failed' = [failed EXCEPT ![c] = @ \union {next[c]}]
    /\ next' = [next EXCEPT ![c] = @ - 1]
    /\ Goto(c, IF next[c] = 1 THEN "error" ELSE "delete")
    /\ UNCHANGED <<seen, overlapped>>

------------------------------------------------------------------------------
\* The count that was read, plus one, over whatever the row says now.
Count(c) ==
    /\ pc[c] = "count" /\ event[seen[c].id].st = "live"
    /\ event' = [event EXCEPT ![seen[c].id].count = seen[c].count + 1]
    /\ Goto(c, "ok")
    /\ UNCHANGED <<ref, stackVars, seen, overlapped, disruptions>>

\* Variant: a call that could not count starts over.
CountFailsRetried(c) ==
    /\ pc[c] = "count" /\ event[seen[c].id].st = "live"
    /\ Disrupt
    /\ \/ UNCHANGED event
       \/ event' = [event EXCEPT ![seen[c].id].count = seen[c].count + 1]
    /\ Goto(c, "idle")
    /\ UNCHANGED <<ref, stackVars, seen, overlapped>>

\* The event was deleted meanwhile, or the call fails, served or not.
CountFails(c) ==
    /\ pc[c] = "count"
    /\ \/ event[seen[c].id].st # "live" /\ UNCHANGED <<event, disruptions>>
       \/ Disrupt /\ UNCHANGED event
       \/ /\ Disrupt /\ event[seen[c].id].st = "live"
          /\ event' = [event EXCEPT ![seen[c].id].count = seen[c].count + 1]
    /\ Goto(c, "error")
    /\ UNCHANGED <<ref, stackVars, seen, overlapped>>

Next ==
    \E c \in Calls :
        \/ FindNone(c) \/ FindOne(c) \/ FindFails(c)
        \/ MakeNext(c) \/ MakeFails(c) \/ UnmakeNext(c) \/ UnmakeFails(c)
        \/ Count(c) \/ CountFails(c)

Spec == Init /\ [][Next]_vars

------------------------------------------------------------------------------
(* Properties *)

\* The variables keep their types, and the stack its bounds.
TypeOK ==
    /\ event \in [Calls -> [st : RowStates, count : Nat, linked : BOOLEAN]]
    /\ ref \in [Calls -> RowStates]
    /\ pc \in [Calls -> {"idle", "create", "delete", "count", "ok", "error"}]
    /\ next \in [Calls -> 0..4]
    /\ \A c \in Calls : (pc[c] \in {"idle", "create"} => next[c] \in 1..3)
                     /\ (pc[c] = "delete" => next[c] \in 1..2)
    /\ failed \in [Calls -> SUBSET (1..3)]
    /\ seen \in [Calls -> [id : Calls \union {None}, count : Nat]]
    /\ \A c \in Calls : pc[c] = "count" => seen[c].id \in Calls
    /\ overlapped \in BOOLEAN
    /\ disruptions \in Nat

\* Calls that never overlap share one event, whichever of their API calls
\* fail, served or not, and however far their cleanups get.
OneEventUnlessOverlapped ==
    ~overlapped => \A d, e \in Visible : d = e

\* An event's count is "the number of times this event has occurred": no
\* occurrence is counted twice and, as long as calls do not overlap, every call
\* that returned without error is counted.
Begun == {c \in Calls : pc[c] # "idle"}
Successes == {c \in Calls : pc[c] = "ok"}
Counted == UNION {{e} \X (1..event[e].count) : e \in Visible}
CountsOccurrences ==
    /\ Cardinality(Counted) <= Cardinality(Begun)
    /\ ~overlapped => Cardinality(Successes) <= Cardinality(Counted)

\* The stack of a call that creates an event.
Stack(c) == INSTANCE OperationStack WITH
    N <- 3,
    at <- CASE pc[c] = "ok" /\ next[c] = 4 -> "complete"
            [] pc[c] = "error" /\ next[c] = 0 -> "undone"
            [] pc[c] = "delete" -> "delete"
            [] OTHER -> "create",
    next <- next[c],
    made <- {k \in 1..3 : CASE k = 1 -> event[c].st = "live"
                            [] k = 2 -> ref[c] = "live"
                            [] OTHER -> event[c].linked},
    failed <- failed[c]

\* "use operations abstraction to atomically create event and attached object
\* reference": a call that creates leaves all three things or, of none, more
\* than what an API call failed on.
CreatesAllOrNothing == \A c \in Calls : Stack(c)!AllOrNothing

\* Each creating call goes through the stack in its order, and back in the
\* reverse.
ImplementsStacks ==
    /\ \A c \in Calls : Stack(c)!Init
    /\ [][\A c \in Calls : Stack(c)!Next \/ UNCHANGED Stack(c)!vars]_vars
==============================================================================
