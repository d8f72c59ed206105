---------------------------- MODULE StreamSetup -----------------------------
(***************************************************************************)
(* The life of the watcher's FSEvents stream: watch_index makes one object *)
(* after the other, any of which may fail, hands the stream pointers to    *)
(* them, and gives them back through guards.  Guards of locals are dropped *)
(* in the reverse order of their declaration.  The worker thread shares    *)
(* only the inbox, which the callback state closes when it is dropped.     *)
(***************************************************************************)
EXTENDS Naturals, Sequences

CONSTANTS RootCount,      \* the roots, each with a CFString
          ExclusionLimit, \* the upstream exclusion paths there may be: 8
          MaxEvents       \* bound: events in the inbox

SetupAssumption ==
    RootCount \in Nat \ {0} /\ ExclusionLimit \in Nat /\ MaxEvents \in Nat \ {0}

Objects == {"root_strings", "paths", "state", "stream", "strings", "array"}

VARIABLES
    requested, \* how many upstream exclusion paths there are
    pc,        \* the next step of watch_index
    live,      \* how many objects of each kind are live
    owned,     \* the guards of watch_index, in the order of declaration
    started,   \* FSEventStreamStart has succeeded and Stop not been called
    excluded,  \* FSEventStreamSetExclusionPaths has been given the array
    closed,    \* the inbox is closed
    events,    \* events in the inbox
    worker     \* "none", "opening", "waiting", "busy", "last", "dead" or "ended"

vars == <<requested, pc, live, owned, started, excluded, closed, events, worker>>

Make(o) == live' = [live EXCEPT ![o] = @ + 1]

\* `?`: the guards are dropped.
Fail == pc' = "unwind"

-----------------------------------------------------------------------------
(* watch_index *)

\* A root's CFString; a NUL byte or no memory ends the watcher.
RootString ==
    /\ pc = "root_strings"
    /\ \/ /\ Make("root_strings")
          /\ pc' = IF live'["root_strings"] = RootCount THEN "paths" ELSE pc
       \/ Fail /\ UNCHANGED live
    /\ UNCHANGED <<requested, owned, started, excluded, closed, events, worker>>

\* The array of the roots; it does not retain its strings.
RootArray ==
    /\ pc = "paths"
    /\ \/ Make("paths") /\ owned' = Append(owned, "paths") /\ pc' = "state"
       \/ Fail /\ UNCHANGED <<live, owned>>
    /\ UNCHANGED <<requested, started, excluded, closed, events, worker>>

CallbackState ==
    /\ pc = "state"
    /\ Make("state")
    /\ owned' = Append(owned, "state")
    /\ pc' = "stream"
    /\ UNCHANGED <<requested, started, excluded, closed, events, worker>>

CreateStream ==
    /\ pc = "stream"
    /\ \/ Make("stream") /\ owned' = Append(owned, "stream") /\ pc' = "exclude"
       \/ Fail /\ UNCHANGED <<live, owned>>
    /\ UNCHANGED <<requested, started, excluded, closed, events, worker>>

\* configure_upstream_exclusions: too many paths or none are not configured.
ConfigureSkipped ==
    /\ pc = "exclude"
    /\ requested = 0 \/ requested > ExclusionLimit
    /\ pc' = "spawn"
    /\ UNCHANGED <<requested, live, owned, started, excluded, closed, events, worker>>

ExclusionString ==
    /\ pc = "exclude"
    /\ requested \in 1 .. ExclusionLimit
    /\ live["strings"] < requested
    /\ Make("strings")
    /\ UNCHANGED <<requested, pc, owned, started, excluded, closed, events, worker>>

\* The array is made and set, and its guards move to the stream's guard, no
\* matter whether FSEvents accepts it.
ExclusionArray ==
    /\ pc = "exclude"
    /\ requested # 0
    /\ live["strings"] = requested
    /\ Make("array")
    /\ excluded' = TRUE
    /\ pc' = "spawn"
    /\ UNCHANGED <<requested, owned, started, closed, events, worker>>

\* A string or the array cannot be made: the strings go, the watcher stays.
ExclusionFails ==
    /\ pc = "exclude"
    /\ requested \in 1 .. ExclusionLimit
    /\ live' = [live EXCEPT !["strings"] = 0]
    /\ pc' = "spawn"
    /\ UNCHANGED <<requested, owned, started, excluded, closed, events, worker>>

SpawnProcessor ==
    /\ pc = "spawn"
    /\ worker' = "opening"
    /\ pc' = "start"
    /\ UNCHANGED <<requested, live, owned, started, excluded, closed, events>>

\* FSEventStreamScheduleWithRunLoop and FSEventStreamStart.
Start ==
    /\ pc = "start"
    /\ \/ started' = TRUE /\ pc' = "run"
       \/ Fail /\ UNCHANGED started
    /\ UNCHANGED <<requested, live, owned, excluded, closed, events, worker>>

\* The run loop calls event_callback, or returns.
Callback ==
    /\ pc = "run" /\ started
    /\ events < MaxEvents
    /\ events' = events + 1
    /\ UNCHANGED <<requested, pc, live, owned, started, excluded, closed, worker>>

RunLoopReturns ==
    /\ pc = "run"
    /\ pc' = "unwind"
    /\ UNCHANGED <<requested, live, owned, started, excluded, closed, events, worker>>

-----------------------------------------------------------------------------
(* The guards, last declared first *)

Dropping(o) == pc = "unwind" /\ owned # <<>> /\ owned[Len(owned)] = o
Popped == owned' = SubSeq(owned, 1, Len(owned) - 1)

\* A slip: the stream's guard forgets what it keeps for the stream.
DropStream_forgets ==
    /\ Dropping("stream")
    /\ live' = [live EXCEPT !["stream"] = 0, !["strings"] = 0]
    /\ started' = FALSE /\ excluded' = FALSE
    /\ Popped
    /\ UNCHANGED <<requested, pc, closed, events, worker>>

\* Stop if started, invalidate, release; then the fields of the guard go.
DropStream ==
    /\ Dropping("stream")
    /\ live' = [live EXCEPT !["stream"] = 0, !["strings"] = 0, !["array"] = 0]
    /\ started' = FALSE /\ excluded' = FALSE
    /\ Popped
    /\ UNCHANGED <<requested, pc, closed, events, worker>>

DropState ==
    /\ Dropping("state")
    /\ live' = [live EXCEPT !["state"] = 0]
    /\ closed' = TRUE
    /\ Popped
    /\ UNCHANGED <<requested, pc, started, excluded, events, worker>>

DropCf ==
    /\ \E o \in {"paths", "root_strings"} : Dropping(o) /\ live' = [live EXCEPT ![o] = 0]
    /\ Popped
    /\ UNCHANGED <<requested, pc, started, excluded, closed, events, worker>>

\* watch_index returns, and with it the process.
Exit ==
    /\ pc = "unwind" /\ owned = <<>>
    /\ pc' = "exited"
    /\ UNCHANGED <<requested, live, owned, started, excluded, closed, events, worker>>

-----------------------------------------------------------------------------
(* The worker, until the process exits *)

\* Its own connection to the database; without one the thread ends.
WorkerOpens ==
    /\ pc # "exited" /\ worker = "opening"
    /\ worker' \in {"waiting", "dead"}
    /\ UNCHANGED <<requested, pc, live, owned, started, excluded, closed, events>>

\* take_batch, with events or when its wait is over; a closed inbox gives its
\* last batch.
WorkerTakes ==
    /\ pc # "exited" /\ worker = "waiting"
    /\ events' = 0
    /\ worker' = IF closed THEN "last" ELSE "busy"
    /\ UNCHANGED <<requested, pc, live, owned, started, excluded, closed>>

\* The batch is processed; the last one ends the loop.
WorkerLoops ==
    /\ pc # "exited" /\ worker \in {"busy", "last"}
    /\ worker' = IF worker = "last" THEN "ended" ELSE "waiting"
    /\ UNCHANGED <<requested, pc, live, owned, started, excluded, closed, events>>

Init ==
    /\ requested \in 0 .. ExclusionLimit
    /\ pc = "root_strings"
    /\ live = [o \in Objects |-> 0]
    /\ owned = <<"root_strings">>
    /\ started = FALSE /\ excluded = FALSE /\ closed = FALSE
    /\ events = 0
    /\ worker = "none"

Main ==
    \/ RootString \/ RootArray \/ CallbackState \/ CreateStream \/ ConfigureSkipped
    \/ ExclusionString \/ ExclusionArray \/ ExclusionFails \/ SpawnProcessor \/ Start
    \/ DropStream \/ DropState \/ DropCf \/ Exit

Worker == WorkerOpens \/ WorkerTakes \/ WorkerLoops

Next == Main \/ Callback \/ RunLoopReturns \/ Worker

Spec == Init /\ [][Next]_vars

-----------------------------------------------------------------------------
\* What the stream points to outlives it: its callback's state, the array of
\* roots and the strings in it, and the exclusions and their strings.
NoDangling ==
    live["stream"] > 0 =>
        /\ live["state"] = 1 /\ live["paths"] = 1 /\ live["root_strings"] = RootCount
        /\ ~closed
        /\ excluded => live["array"] = 1 /\ live["strings"] = requested

\* However watch_index ends, a started stream was stopped, every object was
\* released and the worker was told that nothing more comes.
NothingLeft ==
    pc = "exited" =>
        /\ \A o \in Objects : live[o] = 0
        /\ ~started
        /\ worker # "none" => closed

\* Both.
StreamSafe == NoDangling /\ NothingLeft
=============================================================================
