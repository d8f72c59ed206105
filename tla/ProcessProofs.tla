--------------------------- MODULE ProcessProofs ----------------------------
(***************************************************************************)
(* What runs around the index, for every number of roots, exclusions,      *)
(* timers, connections, writers and records: the watcher's FSEvents stream *)
(* gives back what it took, the memory audit accounts for every record, a  *)
(* log keeps its bound and its newest record, the watcher's diagnostics    *)
(* count what they leave out, and connections give back their slots.  Each *)
(* is proved of its component alone and of the processes that MCProcesses  *)
(* puts side by side.                                                      *)
(***************************************************************************)
EXTENDS MCProcesses, FiniteSets, FiniteSetTheorems, SequenceTheorems, TLAPS

-----------------------------------------------------------------------------
(* The stream *)

Declared == <<"root_strings", "paths", "state", "stream">>

Depth == Len(owned)

SetupType ==
    /\ requested \in 0 .. ExclusionLimit
    /\ pc \in {"root_strings", "paths", "state", "stream", "exclude", "spawn", "start", "run",
               "unwind", "exited"}
    /\ live \in [Setup!Objects -> Nat]
    /\ started \in BOOLEAN /\ excluded \in BOOLEAN /\ closed \in BOOLEAN

\* The guards of watch_index are those of the objects made so far, in order.
GuardsInv ==
    /\ owned \in Seq(Setup!Objects)
    /\ \A i \in 1 .. Len(owned) : owned[i] = Declared[i]

PlaceInv ==
    /\ Depth \in 0 .. 4
    /\ pc \in {"root_strings", "paths"} => Depth = 1
    /\ pc = "state" => Depth = 2
    /\ pc = "stream" => Depth = 3
    /\ pc \in {"exclude", "spawn", "start", "run"} => Depth = 4
    /\ pc = "exited" => Depth = 0

\* What is live is what a guard is held for.
LiveInv ==
    /\ pc = "root_strings" => live["root_strings"] < RootCount
    /\ pc = "paths" \/ Depth >= 2 => live["root_strings"] = RootCount
    /\ Depth = 0 => live["root_strings"] = 0
    /\ Depth >= 2 => live["paths"] = 1
    /\ Depth < 2 => live["paths"] = 0
    /\ Depth >= 3 => live["state"] = 1
    /\ Depth < 3 => live["state"] = 0
    /\ Depth < 4 => live["stream"] = 0

\* The exclusions belong to the stream's guard.
ExclusionInv ==
    /\ Depth < 4 => /\ live["strings"] = 0 /\ live["array"] = 0
                    /\ ~excluded /\ ~started
    /\ excluded => live["array"] = 1 /\ live["strings"] = requested
    /\ pc = "exclude" => ~excluded /\ live["array"] = 0

\* The inbox is open while there is a callback state.
InboxInv ==
    /\ closed => pc \in {"unwind", "exited"} /\ Depth < 3
    /\ worker # "none" => pc \in {"start", "run", "unwind", "exited"} /\ (Depth >= 3 \/ closed)

SetupInv == SetupType /\ GuardsInv /\ PlaceInv /\ LiveInv /\ ExclusionInv /\ InboxInv

\* The first state.
LEMMA SetupStarts ==
    ASSUME Setup!SetupAssumption, Setup!Init PROVE SetupInv
  <1>1. /\ owned = <<"root_strings">> /\ pc = "root_strings" /\ worker = "none"
        /\ live = [o \in Setup!Objects |-> 0] /\ ~started /\ ~excluded /\ ~closed
        /\ started \in BOOLEAN /\ excluded \in BOOLEAN /\ closed \in BOOLEAN
        /\ requested \in 0 .. ExclusionLimit /\ RootCount \in Nat \ {0}
      BY DEF Setup!Init, Setup!SetupAssumption
  <1>2. Depth = 1
      BY <1>1 DEF Depth
  <1>3. SetupType
      BY <1>1 DEF SetupType
  <1>4. GuardsInv
      BY <1>1 DEF GuardsInv, Declared, Setup!Objects
  <1>5. PlaceInv /\ LiveInv /\ ExclusionInv /\ InboxInv
      BY <1>1, <1>2 DEF PlaceInv, LiveInv, ExclusionInv, InboxInv, Setup!Objects
  <1> QED
      BY <1>3, <1>4, <1>5 DEF SetupInv

\* A guard that is pushed.
LEMMA Pushed ==
    ASSUME GuardsInv, NEW o \in Setup!Objects, NEW n \in 0 .. 3, Depth = n,
           o = Declared[n + 1], owned' = Append(owned, o)
    PROVE  GuardsInv' /\ Depth' = n + 1
  BY DEF GuardsInv, Depth

\* The guard that is dropped.
LEMMA DroppedGuard ==
    ASSUME GuardsInv, Depth \in 0 .. 4, NEW o, Setup!Dropping(o), Setup!Popped
    PROVE  /\ GuardsInv' /\ Depth' = Depth - 1 /\ Depth \in 1 .. 4 /\ pc = "unwind"
           /\ o = "stream" => Depth = 4
           /\ o = "state" => Depth = 3
           /\ o = "paths" => Depth = 2
           /\ o = "root_strings" => Depth = 1
  <1>1. Len(owned) \in Nat /\ Len(owned) # 0 /\ Len(owned) <= 4 /\ pc = "unwind"
        /\ owned[Len(owned)] = o
      BY DEF GuardsInv, Setup!Dropping, Depth
  <1>2. owned' = SubSeq(owned, 1, Len(owned) - 1)
      BY DEF Setup!Popped
  <1>3. owned \in Seq(Setup!Objects) /\ \A i \in 1 .. Len(owned) : owned[i] = Declared[i]
      BY DEF GuardsInv
  <1>4. /\ owned' \in Seq(Setup!Objects) /\ Len(owned') = Len(owned) - 1
        /\ \A i \in 1 .. Len(owned') : owned'[i] = owned[i]
    <2> DEFINE n == Len(owned) - 1
    <2>1. n \in Nat /\ \A i \in 1 .. n : owned[i] \in Setup!Objects
        BY <1>1, <1>3, ElementOfSeq
    <2>2. owned' = SubSeq(owned, 1, n)
        BY <1>2
    <2> HIDE DEF n
    <2>3. /\ owned' \in Seq(Setup!Objects) /\ Len(owned') = n
          /\ \A i \in 1 .. n : owned'[i] = owned[i]
      <3>1. 1 \in Int /\ n \in Int /\ n - 1 + 1 = n /\ (n < 1 => n = 0)
            /\ \A i \in 1 .. n : 1 + i - 1 = i
          BY <2>1
      <3> QED
          BY <2>1, <2>2, <3>1, SubSeqProperties
    <2> QED
        BY <2>3 DEF n
  <1>5. Len(owned) \in 1 .. 4 /\ Len(owned) \in 1 .. Len(owned)
    <2>1. \A n \in Nat : n # 0 /\ n <= 4 => n \in 1 .. 4 /\ n \in 1 .. n
        OBVIOUS
    <2> QED
        BY <1>1, <2>1
  <1>6. o = Declared[Len(owned)]
      BY <1>1, <1>3, <1>5
  <1>7. \A n \in 1 .. 4 : /\ Declared[n] = "stream" => n = 4
                          /\ Declared[n] = "state" => n = 3
                          /\ Declared[n] = "paths" => n = 2
                          /\ Declared[n] = "root_strings" => n = 1
      BY DEF Declared
  <1>8. GuardsInv'
      BY <1>1, <1>3, <1>4 DEF GuardsInv
  <1> QED
      BY <1>1, <1>4, <1>5, <1>6, <1>7, <1>8 DEF Depth

\* One more or none left of one kind of object.
LEMMA Counted ==
    ASSUME live \in [Setup!Objects -> Nat], NEW o \in Setup!Objects, NEW n \in Nat,
           live' = [live EXCEPT ![o] = n]
    PROVE  /\ live' \in [Setup!Objects -> Nat] /\ live'[o] = n
           /\ \A p \in Setup!Objects \ {o} : live'[p] = live[p]
  OBVIOUS

\* watch_index makes the objects the stream needs.
LEMMA MakesKeep ==
    ASSUME Setup!SetupAssumption, SetupInv,
           \/ Setup!RootString \/ Setup!RootArray \/ Setup!CallbackState \/ Setup!CreateStream
    PROVE  SetupInv'
  <1>1. /\ SetupType /\ GuardsInv /\ PlaceInv /\ LiveInv /\ ExclusionInv /\ InboxInv
        /\ live \in [Setup!Objects -> Nat]
      BY DEF SetupInv, SetupType
  <1>2. /\ {"root_strings", "paths", "state", "stream", "strings", "array"} = Setup!Objects
        /\ Declared[2] = "paths" /\ Declared[3] = "state" /\ Declared[4] = "stream"
      BY DEF Setup!Objects, Declared
  <1>3. ASSUME NEW o \in Setup!Objects, Setup!Make(o)
        PROVE  /\ live' \in [Setup!Objects -> Nat] /\ live'[o] = live[o] + 1
               /\ \A p \in Setup!Objects \ {o} : live'[p] = live[p]
    <2> DEFINE n == live[o] + 1
    <2>1. n \in Nat /\ live' = [live EXCEPT ![o] = n]
        BY <1>1, <1>3 DEF Setup!Make
    <2> HIDE DEF n
    <2>2. /\ live' \in [Setup!Objects -> Nat] /\ live'[o] = n
          /\ \A p \in Setup!Objects \ {o} : live'[p] = live[p]
        BY <1>1, <2>1, Counted
    <2> QED
        BY <2>2 DEF n
  <1>4. ASSUME pc \in {"root_strings", "paths", "stream"}, pc' = "unwind",
               UNCHANGED <<requested, live, owned, started, excluded, closed, worker>>
        PROVE  SetupInv'
    <2>1. Depth' = Depth /\ GuardsInv'
        BY <1>1, <1>4 DEF Depth, GuardsInv
    <2> QED
        BY <1>1, <1>4, <2>1
        DEF SetupInv, SetupType, PlaceInv, LiveInv, ExclusionInv, InboxInv
  <1>5. CASE Setup!RootString
    <2>1. CASE /\ Setup!Make("root_strings")
               /\ pc' = IF live'["root_strings"] = RootCount THEN "paths" ELSE pc
      <3>1. /\ pc = "root_strings"
            /\ UNCHANGED <<requested, owned, started, excluded, closed, worker>>
          BY <1>5 DEF Setup!RootString
      <3>2. Depth' = Depth /\ GuardsInv'
          BY <1>1, <3>1 DEF Depth, GuardsInv
      <3>3. /\ live' \in [Setup!Objects -> Nat]
            /\ live'["root_strings"] = live["root_strings"] + 1
            /\ \A p \in Setup!Objects \ {"root_strings"} : live'[p] = live[p]
          BY <1>2, <1>3, <2>1
      <3>4. /\ live["root_strings"] < RootCount /\ live["root_strings"] \in Nat /\ Depth = 1
            /\ ~closed /\ worker = "none"
          BY <1>1, <1>2, <3>1 DEF LiveInv, PlaceInv, InboxInv
      <3>5. /\ pc' \in {"root_strings", "paths"}
            /\ pc' = "root_strings" => live'["root_strings"] # RootCount
            /\ pc' = "paths" => live'["root_strings"] = RootCount
          BY <2>1, <3>1
      <3>6. SetupType' /\ PlaceInv' /\ ExclusionInv' /\ InboxInv'
          BY <1>1, <1>2, <3>1, <3>2, <3>3, <3>4, <3>5
          DEF SetupType, PlaceInv, ExclusionInv, InboxInv
      <3>7. LiveInv'
          BY <1>1, <1>2, <2>1, <3>2, <3>3, <3>4, <3>5
          DEF LiveInv, Setup!SetupAssumption
      <3> QED
          BY <3>2, <3>6, <3>7 DEF SetupInv
    <2> QED
        BY <1>4, <1>5, <2>1 DEF Setup!RootString, Setup!Fail
  <1>6. CASE Setup!RootArray
    <2>1. CASE Setup!Make("paths") /\ owned' = Append(owned, "paths") /\ pc' = "state"
      <3>1. pc = "paths" /\ UNCHANGED <<requested, started, excluded, closed, worker>>
          BY <1>6 DEF Setup!RootArray
      <3>2. Depth = 1 /\ Depth' = 2 /\ GuardsInv'
          BY <1>1, <1>2, <2>1, <3>1, Pushed DEF PlaceInv
      <3>3. /\ live' \in [Setup!Objects -> Nat] /\ live'["paths"] = live["paths"] + 1
            /\ \A p \in Setup!Objects \ {"paths"} : live'[p] = live[p]
          BY <1>2, <1>3, <2>1
      <3> QED
          BY <1>1, <1>2, <2>1, <3>1, <3>2, <3>3
          DEF SetupInv, SetupType, PlaceInv, LiveInv, ExclusionInv, InboxInv
    <2> QED
        BY <1>4, <1>6, <2>1 DEF Setup!RootArray, Setup!Fail
  <1>7. CASE Setup!CallbackState
    <2>1. /\ pc = "state" /\ UNCHANGED <<requested, started, excluded, closed, worker>>
          /\ Setup!Make("state") /\ owned' = Append(owned, "state") /\ pc' = "stream"
        BY <1>7 DEF Setup!CallbackState
    <2>2. Depth = 2 /\ Depth' = 3 /\ GuardsInv'
        BY <1>1, <1>2, <2>1, Pushed DEF PlaceInv
    <2>3. /\ live' \in [Setup!Objects -> Nat] /\ live'["state"] = live["state"] + 1
          /\ \A p \in Setup!Objects \ {"state"} : live'[p] = live[p]
        BY <1>2, <1>3, <2>1
    <2> QED
        BY <1>1, <1>2, <2>1, <2>2, <2>3
        DEF SetupInv, SetupType, PlaceInv, LiveInv, ExclusionInv, InboxInv
  <1>8. CASE Setup!CreateStream
    <2>1. CASE Setup!Make("stream") /\ owned' = Append(owned, "stream") /\ pc' = "exclude"
      <3>1. pc = "stream" /\ UNCHANGED <<requested, started, excluded, closed, worker>>
          BY <1>8 DEF Setup!CreateStream
      <3>2. Depth = 3 /\ Depth' = 4 /\ GuardsInv'
          BY <1>1, <1>2, <2>1, <3>1, Pushed DEF PlaceInv
      <3>3. /\ live' \in [Setup!Objects -> Nat]
            /\ \A p \in Setup!Objects \ {"stream"} : live'[p] = live[p]
          BY <1>2, <1>3, <2>1
      <3> QED
          BY <1>1, <1>2, <2>1, <3>1, <3>2, <3>3
          DEF SetupInv, SetupType, PlaceInv, LiveInv, ExclusionInv, InboxInv
    <2> QED
        BY <1>4, <1>8, <2>1 DEF Setup!CreateStream, Setup!Fail
  <1> QED
      BY <1>5, <1>6, <1>7, <1>8

\* The exclusions, the worker and the run loop change no guard.
LEMMA RunsKeep ==
    ASSUME SetupInv,
           \/ Setup!ConfigureSkipped \/ Setup!ExclusionString \/ Setup!ExclusionArray
           \/ Setup!ExclusionFails \/ Setup!SpawnProcessor \/ Setup!Start \/ Setup!Callback
           \/ Setup!RunLoopReturns \/ Setup!Worker \/ Setup!Exit \/ UNCHANGED Setup!vars
    PROVE  SetupInv'
  <1>1. /\ SetupType /\ GuardsInv /\ PlaceInv /\ LiveInv /\ ExclusionInv /\ InboxInv
        /\ live \in [Setup!Objects -> Nat]
      BY DEF SetupInv, SetupType
  <1>2. UNCHANGED <<requested, owned>>
      BY DEF Setup!ConfigureSkipped, Setup!ExclusionString, Setup!ExclusionArray,
             Setup!ExclusionFails, Setup!SpawnProcessor, Setup!Start, Setup!Callback,
             Setup!RunLoopReturns, Setup!Worker, Setup!WorkerOpens, Setup!WorkerTakes,
             Setup!WorkerLoops, Setup!Exit, Setup!vars
  <1>3. Depth' = Depth /\ GuardsInv'
      BY <1>1, <1>2 DEF Depth, GuardsInv
  <1>4. {"root_strings", "paths", "state", "stream", "strings", "array"} = Setup!Objects
      BY DEF Setup!Objects
  <1> USE <1>1, <1>2, <1>3 DEF SetupInv, SetupType, PlaceInv, LiveInv, ExclusionInv, InboxInv
  <1>5. CASE Setup!ConfigureSkipped
      BY <1>5 DEF Setup!ConfigureSkipped
  <1>6. CASE Setup!ExclusionString
    <2> DEFINE n == live["strings"] + 1
    <2>1. n \in Nat /\ live' = [live EXCEPT !["strings"] = n]
        BY <1>4, <1>6 DEF Setup!ExclusionString, Setup!Make
    <2> HIDE DEF n
    <2>2. /\ live' \in [Setup!Objects -> Nat]
          /\ \A p \in Setup!Objects \ {"strings"} : live'[p] = live[p]
        BY <1>4, <2>1, Counted
    <2> QED
        BY <1>4, <1>6, <2>2 DEF Setup!ExclusionString
  <1>7. CASE Setup!ExclusionArray
    <2>0. /\ pc = "exclude" /\ live["strings"] = requested
          /\ live' = [live EXCEPT !["array"] = live["array"] + 1]
        BY <1>7 DEF Setup!ExclusionArray, Setup!Make
    <2>1. live' = [live EXCEPT !["array"] = 1] /\ pc = "exclude" /\ live["strings"] = requested
      <3>1. live["array"] = 0
          BY <2>0
      <3>2. live["array"] + 1 = 1
          BY <3>1
      <3> QED
          BY <2>0, <3>2
    <2>2. /\ live' \in [Setup!Objects -> Nat] /\ live'["array"] = 1
          /\ \A p \in Setup!Objects \ {"array"} : live'[p] = live[p]
        BY <1>4, <2>1, Counted
    <2> QED
        BY <1>4, <1>7, <2>1, <2>2 DEF Setup!ExclusionArray
  <1>8. CASE Setup!ExclusionFails
    <2>1. live' = [live EXCEPT !["strings"] = 0]
        BY <1>8 DEF Setup!ExclusionFails
    <2>2. /\ live' \in [Setup!Objects -> Nat]
          /\ \A p \in Setup!Objects \ {"strings"} : live'[p] = live[p]
        BY <1>4, <2>1, Counted
    <2> QED
        BY <1>4, <1>8, <2>2 DEF Setup!ExclusionFails
  <1>9. CASE Setup!SpawnProcessor
      BY <1>9 DEF Setup!SpawnProcessor
  <1>10. CASE Setup!Start
    <2>1. CASE started' = TRUE /\ pc' = "run"
        BY <1>10, <2>1 DEF Setup!Start
    <2>2. CASE pc' = "unwind" /\ UNCHANGED started
        BY <1>10, <2>2 DEF Setup!Start
    <2> QED
        BY <1>10, <2>1, <2>2 DEF Setup!Start, Setup!Fail
  <1>11. CASE Setup!Callback
      BY <1>11 DEF Setup!Callback
  <1>12. CASE Setup!RunLoopReturns
      BY <1>12 DEF Setup!RunLoopReturns
  <1>13. CASE Setup!Worker
    <2>1. worker # "none" /\ UNCHANGED <<pc, live, started, excluded, closed>>
        BY <1>13 DEF Setup!Worker, Setup!WorkerOpens, Setup!WorkerTakes, Setup!WorkerLoops
    <2> QED
        BY <2>1
  <1>14. CASE Setup!Exit
    <2>1. Depth = 0
        BY <1>14 DEF Setup!Exit, Depth
    <2> QED
        BY <1>14, <2>1 DEF Setup!Exit
  <1>15. CASE UNCHANGED Setup!vars
      BY <1>15 DEF Setup!vars
  <1> QED
      BY <1>5, <1>6, <1>7, <1>8, <1>9, <1>10, <1>11, <1>12, <1>13, <1>14, <1>15

\* The guards go, last declared first.
LEMMA DropsKeep ==
    ASSUME SetupInv, Setup!DropStream \/ Setup!DropState \/ Setup!DropCf
    PROVE  SetupInv'
  <1>1. /\ SetupType /\ GuardsInv /\ PlaceInv /\ LiveInv /\ ExclusionInv /\ InboxInv
        /\ live \in [Setup!Objects -> Nat] /\ Depth \in 0 .. 4
      BY DEF SetupInv, SetupType, PlaceInv
  <1>2. {"root_strings", "paths", "state", "stream", "strings", "array"} = Setup!Objects
      BY DEF Setup!Objects
  <1>3. CASE Setup!DropStream
    <2>1. GuardsInv' /\ Depth = 4 /\ Depth' = 3 /\ pc = "unwind"
        BY <1>1, <1>3, DroppedGuard DEF Setup!DropStream
    <2>2. /\ live' \in [Setup!Objects -> Nat] /\ live'["stream"] = 0
          /\ live'["strings"] = 0 /\ live'["array"] = 0
          /\ \A o \in {"root_strings", "paths", "state"} : live'[o] = live[o]
        BY <1>1, <1>2, <1>3 DEF Setup!DropStream
    <2>3. /\ UNCHANGED <<requested, pc, closed, worker>>
          /\ started' = FALSE /\ excluded' = FALSE
        BY <1>3 DEF Setup!DropStream
    <2> QED
      <3>1. SetupType'
          BY <1>1, <2>1, <2>2, <2>3 DEF SetupType
      <3>2. PlaceInv'
          BY <1>1, <2>1, <2>3 DEF PlaceInv
      <3>3. ExclusionInv'
          BY <1>1, <2>1, <2>2, <2>3 DEF ExclusionInv
      <3>4. InboxInv'
          BY <1>1, <2>1, <2>3 DEF InboxInv
      <3>5. LiveInv'
          BY <1>1, <2>1, <2>2, <2>3 DEF LiveInv
      <3> QED
          BY <2>1, <3>1, <3>2, <3>3, <3>4, <3>5 DEF SetupInv
  <1>4. CASE Setup!DropState
    <2>1. GuardsInv' /\ Depth = 3 /\ Depth' = 2 /\ pc = "unwind"
        BY <1>1, <1>4, DroppedGuard DEF Setup!DropState
    <2>2. /\ live' \in [Setup!Objects -> Nat] /\ live'["state"] = 0
          /\ \A p \in Setup!Objects \ {"state"} : live'[p] = live[p]
        BY <1>1, <1>2, <1>4, Counted DEF Setup!DropState
    <2>3. /\ UNCHANGED <<requested, pc, started, excluded, worker>> /\ closed' = TRUE
        BY <1>4 DEF Setup!DropState
    <2> QED
        BY <1>1, <1>2, <2>1, <2>2, <2>3
        DEF SetupInv, SetupType, PlaceInv, LiveInv, ExclusionInv, InboxInv
  <1>5. CASE Setup!DropCf
    <2>1. PICK o \in {"paths", "root_strings"} :
             Setup!Dropping(o) /\ live' = [live EXCEPT ![o] = 0]
        BY <1>5 DEF Setup!DropCf
    <2>2. /\ GuardsInv' /\ Depth' = Depth - 1 /\ pc = "unwind"
          /\ o = "paths" => Depth = 2
          /\ o = "root_strings" => Depth = 1
        BY <1>1, <1>5, <2>1, DroppedGuard DEF Setup!DropCf
    <2>3. /\ live' \in [Setup!Objects -> Nat] /\ live'[o] = 0
          /\ \A p \in Setup!Objects \ {o} : live'[p] = live[p]
        BY <1>1, <1>2, <2>1, Counted
    <2>4. UNCHANGED <<requested, pc, started, excluded, closed, worker>>
        BY <1>5 DEF Setup!DropCf
    <2> QED
        BY <1>1, <1>2, <2>1, <2>2, <2>3, <2>4
        DEF SetupInv, SetupType, PlaceInv, LiveInv, ExclusionInv, InboxInv
  <1> QED
      BY <1>3, <1>4, <1>5

\* Each step of the setup, of a callback and of the worker keeps the invariant.
LEMMA SetupKeeps ==
    ASSUME Setup!SetupAssumption, SetupInv, [Setup!Next]_Setup!vars PROVE SetupInv'
  BY MakesKeep, RunsKeep, DropsKeep DEF Setup!Next, Setup!Main

\* It says that the stream is safe.
LEMMA SetupInvSafe == ASSUME SetupInv PROVE Setup!StreamSafe
  <1>1. Setup!NoDangling
      BY DEF SetupInv, SetupType, PlaceInv, LiveInv, ExclusionInv, InboxInv, Setup!NoDangling
  <1>2. Setup!NothingLeft
      BY DEF SetupInv, SetupType, PlaceInv, LiveInv, ExclusionInv, InboxInv,
             Setup!NothingLeft, Setup!Objects
  <1> QED
      BY <1>1, <1>2 DEF Setup!StreamSafe

\* Whatever fails and whenever the run loop returns, what the stream points to outlives
\* it, and watch_index leaves nothing behind.
THEOREM Streams == ASSUME Setup!SetupAssumption PROVE Setup!Spec => []Setup!StreamSafe
  <1>1. Setup!Init => SetupInv
      BY SetupStarts
  <1>2. SetupInv /\ [Setup!Next]_Setup!vars => SetupInv'
      BY SetupKeeps
  <1>3. SetupInv => Setup!StreamSafe
      BY SetupInvSafe
  <1> QED
      BY <1>1, <1>2, <1>3, PTL DEF Setup!Spec

-----------------------------------------------------------------------------
(* The memory audit *)

Phases == {"none", "full_before", "full_loading", "full_after", "full_failed",
           "incremental_before", "incremental_read_failed", "incremental_after",
           "incremental_failed"}
Snapshots == [phase : Phases, rev : Nat]
AuditRecord == [n : Nat, idle : BOOLEAN, snapshot : Snapshots]
AuditState == [latest : Snapshots, pending : Seq(AuditRecord), window : Nat, captures : Nat,
               suppressed : Nat, failures : Nat, sequence : Nat]
ServiceState == [pc : {"idle", "drop", "apply", "cache", "load"}, rev : Nat, last : Nat,
                 fresh : BOOLEAN, missed : BOOLEAN]
TimerState == [pc : {"off", "sleep", "write", "failed"}, records : Seq(AuditRecord),
               sequence : Nat, suppressed : Nat]
AuditLine == [seq : Nat, n : Nat]

AuditType ==
    /\ now \in Nat /\ made \in Nat /\ started \in BOOLEAN
    /\ audit \in AuditState /\ service \in ServiceState
    /\ timer \in [Timers -> TimerState] /\ lines \in Seq(AuditLine)

\* The records of a sequence, in the order of their captures.
Ascending(s) == \A i, j \in 1 .. Len(s) : i < j => s[i].n < s[j].n
AtMost(s, m) == \A i \in 1 .. Len(s) : s[i].n <= m
Before(s, r) == \A i \in 1 .. Len(s), j \in 1 .. Len(r) : s[i].n < r[j].n

\* The first caller of start spawns the one thread, which alone holds records.
OneTimer ==
    /\ \A t \in Timers : timer[t].pc # "off" => started
    /\ \A s, t \in Timers : timer[s].pc # "off" /\ timer[t].pc # "off" => s = t
    /\ \A t \in Timers : timer[t].pc \in {"off", "sleep"} => timer[t].records = <<>>

\* A record is written, pending, on the thread's stack, or counted.
CountInv ==
    /\ \A t \in Timers : timer[t].pc # "off" =>
          made = Len(lines) + Len(audit.pending) + audit.suppressed + Len(timer[t].records)
    /\ (\A t \in Timers : timer[t].pc = "off") =>
          made = Len(lines) + Len(audit.pending) + audit.suppressed

\* A line was captured before a record on a stack, and this before a pending one.
OrderInv ==
    /\ Ascending(audit.pending) /\ AtMost(audit.pending, made)
    /\ Ascending(lines) /\ AtMost(lines, made) /\ Before(lines, audit.pending)
    /\ \A t \in Timers :
          LET r == timer[t].records
          IN  Ascending(r) /\ AtMost(r, made) /\ Before(lines, r) /\ Before(r, audit.pending)

Writing(t) == timer[t].pc \in {"write", "failed"}

\* The last number used is the thread's while it writes, and the audit's otherwise.
NumberInv ==
    /\ \A i, j \in 1 .. Len(lines) : i < j => lines[i].seq < lines[j].seq
    /\ \A t \in Timers : Writing(t) => \A i \in 1 .. Len(lines) : lines[i].seq <= timer[t].sequence
    /\ (\A t \in Timers : ~Writing(t)) => \A i \in 1 .. Len(lines) : lines[i].seq <= audit.sequence

\* A refresh that began in a fresh window has used one capture of it; while an index
\* is loaded there is none.
RefreshInv ==
    /\ ~service.missed
    /\ service.fresh /\ service.pc # "idle" => audit.captures <= 1
    /\ service.pc \in {"cache", "load"} => service.rev = 0
    /\ Audit!LatestTruthful

AuditInv == AuditType /\ OneTimer /\ CountInv /\ OrderInv /\ NumberInv /\ RefreshInv

\* What publish makes of the audit's state.
LEMMA Published ==
    ASSUME Audit!AuditAssumption, audit \in AuditState, now \in Nat, made \in Nat,
           NEW s \in Snapshots, audit' = Audit!Publish(audit, s)
    PROVE  /\ audit' \in AuditState /\ audit'.latest = s /\ audit'.sequence = audit.sequence
           /\ Len(audit'.pending) + audit'.suppressed = Len(audit.pending) + audit.suppressed + 1
           /\ \A j \in 1 .. Len(audit'.pending) :
                 \/ audit'.pending[j].n = made + 1
                 \/ \E i \in 1 .. Len(audit.pending) : audit'.pending[j].n = audit.pending[i].n
           /\ Ascending(audit.pending) /\ AtMost(audit.pending, made) =>
                 Ascending(audit'.pending)
           /\ Audit!Windowed(audit).captures = 0 => audit'.captures = 1
  <1> DEFINE w == Audit!Windowed(Audit!Cache(audit, s))
             p == audit.pending
             e == [n |-> made + 1, idle |-> FALSE, snapshot |-> s]
  <1>1. /\ w \in AuditState /\ w.latest = s /\ w.sequence = audit.sequence
        /\ w.pending = p /\ w.suppressed = audit.suppressed
        /\ w.captures = Audit!Windowed(audit).captures
    <2>1. [audit EXCEPT !.latest = s] \in AuditState
        BY DEF AuditState
    <2>2. [[audit EXCEPT !.latest = s] EXCEPT !.window = now] \in AuditState
        BY <2>1 DEF AuditState
    <2>3. [[audit EXCEPT !.latest = s] EXCEPT !.window = now, !.captures = 0] \in AuditState
        BY <2>2 DEF AuditState
    <2> QED
        BY <2>1, <2>2, <2>3 DEF Audit!Windowed, Audit!Cache, AuditState
  <1>2. e \in AuditRecord /\ e.n = made + 1
      BY DEF AuditRecord
  <1>3. p \in Seq(AuditRecord) /\ Pending \in Nat \ {0} /\ PerWindow \in Nat /\ PerWindow > 1
        /\ \A i \in 1 .. Len(p) : p[i] \in AuditRecord /\ p[i].n \in Nat
    <2>1. p \in Seq(AuditRecord)
        BY DEF AuditState
    <2>2. \A r \in AuditRecord : r.n \in Nat
        BY DEF AuditRecord
    <2> QED
        BY <2>1, <2>2, ElementOfSeq DEF Audit!AuditAssumption
  <1>4. CASE Audit!Full(audit)
    <2>1. audit' = [w EXCEPT !.suppressed = @ + 1]
        BY <1>4 DEF Audit!Publish
    <2>2. w.suppressed + 1 \in Nat
        BY <1>1 DEF AuditState
    <2>3. /\ audit' \in AuditState /\ audit'.latest = s /\ audit'.sequence = audit.sequence
          /\ audit'.pending = p /\ audit'.suppressed = audit.suppressed + 1
      <3> HIDE DEF w, p
      <3> QED
          BY <1>1, <2>1, <2>2 DEF AuditState
    <2>4. Audit!Windowed(audit).captures # 0
        BY <1>3, <1>4 DEF Audit!Full
    <2>5. Len(p) \in Nat /\ audit.suppressed \in Nat
        BY <1>3 DEF AuditState
    <2> HIDE DEF w
    <2> QED
        BY <2>3, <2>4, <2>5
  <1>5. CASE ~Audit!Full(audit) /\ Len(p) = Pending
    <2>1. audit' = [w EXCEPT !.captures = @ + 1, !.suppressed = @ + 1,
                             !.pending = Append(Tail(p), e)]
        BY <1>1, <1>5 DEF Audit!Publish
    <2>2. w.suppressed + 1 \in Nat /\ w.captures + 1 \in Nat
        BY <1>1 DEF AuditState
    <2>3. /\ Tail(p) \in Seq(AuditRecord) /\ Len(Tail(p)) = Len(p) - 1
          /\ \A i \in 1 .. Len(Tail(p)) : Tail(p)[i] = p[i + 1]
      <3>1. p # <<>>
          BY <1>3, <1>5
      <3> HIDE DEF p
      <3> QED
          BY <1>3, <3>1, HeadTailProperties
    <2> DEFINE q == Append(Tail(p), e)
    <2> HIDE DEF w, p, e
    <2>4. /\ q \in Seq(AuditRecord) /\ Len(q) = Len(p) /\ q[Len(q)] = e
          /\ \A i \in 1 .. Len(q) - 1 : q[i] = p[i + 1]
        BY <1>2, <1>3, <1>5, <2>3
    <2> HIDE DEF q
    <2>5. /\ audit' \in AuditState /\ audit'.latest = s /\ audit'.sequence = audit.sequence
          /\ audit'.pending = q /\ audit'.suppressed = audit.suppressed + 1
          /\ audit'.captures = w.captures + 1
      <3>1. [w EXCEPT !.captures = w.captures + 1] \in AuditState
          BY <1>1, <2>2 DEF AuditState
      <3>2. [w EXCEPT !.captures = w.captures + 1, !.suppressed = w.suppressed + 1] \in AuditState
          BY <2>2, <3>1 DEF AuditState
      <3>3. audit' = [w EXCEPT !.captures = w.captures + 1, !.suppressed = w.suppressed + 1,
                               !.pending = q]
          BY <2>1 DEF q
      <3> QED
          BY <1>1, <2>4, <3>2, <3>3 DEF AuditState
    <2>6. audit.suppressed \in Nat /\ Len(q) \in Nat
        BY <2>4 DEF AuditState
    <2>7. \A j \in 1 .. Len(q) : q[j].n = made + 1 \/ \E i \in 1 .. Len(p) : q[j].n = p[i].n
        BY <1>2, <2>4, <2>6
    <2>8. Ascending(p) /\ AtMost(p, made) => Ascending(q)
        BY <1>2, <1>3, <2>4, <2>6 DEF Ascending, AtMost
    <2>9. Audit!Windowed(audit).captures = 0 => audit'.captures = 1
        BY <1>1, <2>5
    <2>10. Len(q) + audit'.suppressed = Len(p) + audit.suppressed + 1
        BY <2>4, <2>5, <2>6, SMTT(30)
    <2> QED
        BY <2>5, <2>7, <2>8, <2>9, <2>10 DEF p
  <1>6. CASE ~Audit!Full(audit) /\ Len(p) # Pending
    <2>1. audit' = [w EXCEPT !.captures = @ + 1, !.suppressed = @, !.pending = Append(p, e)]
        BY <1>1, <1>6 DEF Audit!Publish
    <2>2. w.captures + 1 \in Nat
        BY <1>1 DEF AuditState
    <2> DEFINE q == Append(p, e)
    <2> HIDE DEF w, p, e
    <2>4. /\ q \in Seq(AuditRecord) /\ Len(q) = Len(p) + 1 /\ q[Len(q)] = e
          /\ \A i \in 1 .. Len(q) - 1 : q[i] = p[i]
        BY <1>2, <1>3
    <2> HIDE DEF q
    <2>5. /\ audit' \in AuditState /\ audit'.latest = s /\ audit'.sequence = audit.sequence
          /\ audit'.pending = q /\ audit'.suppressed = audit.suppressed
          /\ audit'.captures = w.captures + 1
      <3>1. [w EXCEPT !.captures = w.captures + 1] \in AuditState
          BY <1>1, <2>2 DEF AuditState
      <3>2. [w EXCEPT !.captures = w.captures + 1, !.suppressed = w.suppressed] \in AuditState
          BY <1>1, <3>1 DEF AuditState
      <3>3. audit' = [w EXCEPT !.captures = w.captures + 1, !.suppressed = w.suppressed,
                               !.pending = q]
          BY <2>1 DEF q
      <3> QED
          BY <1>1, <2>4, <3>2, <3>3 DEF AuditState
    <2>6. audit.suppressed \in Nat /\ Len(q) \in Nat /\ Len(p) \in Nat
        BY <1>3, <2>4 DEF AuditState
    <2>7. \A j \in 1 .. Len(q) : q[j].n = made + 1 \/ \E i \in 1 .. Len(p) : q[j].n = p[i].n
        BY <1>2, <2>4, <2>6
    <2>8. Ascending(p) /\ AtMost(p, made) => Ascending(q)
        BY <1>2, <1>3, <2>4, <2>6, SMTT(20) DEF Ascending, AtMost
    <2>9. Audit!Windowed(audit).captures = 0 => audit'.captures = 1
        BY <1>1, <2>5
    <2>10. Len(q) + audit'.suppressed = Len(p) + audit.suppressed + 1
        BY <2>4, <2>5, <2>6, SMTT(30)
    <2> QED
        BY <2>5, <2>7, <2>8, <2>9, <2>10 DEF p
  <1> QED
      BY <1>4, <1>5, <1>6

\* The first state of the audit.
LEMMA AuditStarts ==
    ASSUME Audit!AuditAssumption, Audit!Init PROVE AuditInv
  <1>1. /\ now = 1 /\ started = FALSE /\ made = 0 /\ lines = <<>>
        /\ timer = [t \in Timers |-> Audit!Stopped]
        /\ service = [pc |-> "idle", rev |-> 0, last |-> 0, fresh |-> FALSE, missed |-> FALSE]
        /\ audit = [latest |-> Audit!Snapshot("none", 0), pending |-> <<>>, window |-> 1,
                    captures |-> 0, suppressed |-> 0, failures |-> 0, sequence |-> 0]
      BY DEF Audit!Init
  <1>2. Audit!Stopped \in TimerState /\ Audit!Stopped.pc = "off" /\ Audit!Stopped.records = <<>>
      BY DEF Audit!Stopped, TimerState
  <1>3. Audit!Snapshot("none", 0) \in Snapshots /\ Audit!Snapshot("none", 0).rev = 0
      BY DEF Audit!Snapshot, Snapshots, Phases
  <1>4. audit \in AuditState /\ service \in ServiceState
      BY <1>1, <1>3 DEF AuditState, ServiceState
  <1>5. AuditType
    <2>1. timer \in [Timers -> TimerState]
        BY <1>1, <1>2
    <2>2. lines \in Seq(AuditLine)
        BY <1>1
    <2>3. now \in Nat /\ made \in Nat /\ started \in BOOLEAN
        BY <1>1
    <2> QED
        BY <1>4, <2>1, <2>2, <2>3 DEF AuditType
  <1>6. \A t \in Timers : timer[t].pc = "off" /\ timer[t].records = <<>>
      BY <1>1, <1>2
  <1>7. audit.pending = <<>> /\ audit.suppressed = 0
      BY <1>1
  <1>8. OneTimer /\ CountInv /\ OrderInv /\ NumberInv
      BY <1>1, <1>6, <1>7
      DEF OneTimer, CountInv, OrderInv, NumberInv, Writing, Ascending, AtMost, Before
  <1>9. RefreshInv
      BY <1>1, <1>3 DEF RefreshInv, Audit!LatestTruthful
  <1> QED
      BY <1>5, <1>8, <1>9 DEF AuditInv

\* A step of the refresh that captures nothing, and time.
LEMMA CalmKeeps ==
    ASSUME AuditInv, now' \in Nat, UNCHANGED <<started, timer, made, lines>>,
           audit' \in AuditState, audit'.pending = audit.pending,
           audit'.suppressed = audit.suppressed, audit'.sequence = audit.sequence,
           service' \in ServiceState, RefreshInv'
    PROVE  AuditInv'
  <1>1. AuditType /\ OneTimer /\ CountInv /\ OrderInv /\ NumberInv
      BY DEF AuditInv
  <1>2. AuditType'
      BY <1>1 DEF AuditType
  <1>3. OneTimer' /\ CountInv' /\ NumberInv'
      BY <1>1 DEF OneTimer, CountInv, NumberInv, Writing
  <1>4. OrderInv'
      BY <1>1 DEF OrderInv, Ascending, AtMost, Before
  <1> QED
      BY <1>2, <1>3, <1>4 DEF AuditInv

\* A record that is captured is the newest, and is pending or counted.
LEMMA CaptureKeeps ==
    ASSUME Audit!AuditAssumption, AuditInv, NEW s \in Snapshots,
           audit' = Audit!Publish(audit, s), made' = made + 1,
           UNCHANGED <<now, started, timer, lines>>, service' \in ServiceState, ~service'.missed,
           service'.fresh /\ service'.pc # "idle" => audit'.captures <= 1,
           service'.pc \notin {"cache", "load"}, service'.pc = "idle" => s.rev = service'.rev
    PROVE  AuditInv'
  <1>1. AuditType /\ OneTimer /\ CountInv /\ OrderInv /\ NumberInv
      BY DEF AuditInv
  <1>2. /\ audit \in AuditState /\ now \in Nat /\ made \in Nat /\ lines \in Seq(AuditLine)
        /\ timer \in [Timers -> TimerState]
      BY <1>1 DEF AuditType
  <1>3. /\ audit' \in AuditState /\ audit'.latest = s /\ audit'.sequence = audit.sequence
        /\ Len(audit'.pending) + audit'.suppressed = Len(audit.pending) + audit.suppressed + 1
        /\ \A j \in 1 .. Len(audit'.pending) :
              \/ audit'.pending[j].n = made + 1
              \/ \E i \in 1 .. Len(audit.pending) : audit'.pending[j].n = audit.pending[i].n
        /\ Ascending(audit.pending) /\ AtMost(audit.pending, made) => Ascending(audit'.pending)
      BY <1>2, Published
  <1>4. AuditType'
    <2>1. made + 1 \in Nat
        BY <1>2
    <2> QED
        BY <1>1, <1>3, <2>1 DEF AuditType
  <1>5. OneTimer' /\ NumberInv'
      BY <1>1, <1>3 DEF OneTimer, NumberInv, Writing
  <1>6. CountInv'
    <2>1. /\ Len(lines) \in Nat /\ Len(audit.pending) \in Nat /\ audit.suppressed \in Nat
          /\ Len(audit'.pending) \in Nat /\ audit'.suppressed \in Nat
          /\ \A t \in Timers : Len(timer[t].records) \in Nat
        BY <1>2, <1>3, SMTT(20) DEF AuditState, TimerState
    <2>2. /\ made' = made + 1 /\ made \in Nat
          /\ Len(audit'.pending) + audit'.suppressed = Len(audit.pending) + audit.suppressed + 1
        BY <1>2, <1>3
    <2> DEFINE l == Len(lines)
               p == Len(audit.pending)
               x == audit.suppressed
               q == Len(audit'.pending)
               y == audit'.suppressed
    <2>3. \A a, b, c, d, e, r \in Nat : a + b = c + d + 1 =>
             /\ e + c + d + 1 = e + a + b
             /\ e + c + d + r + 1 = e + a + b + r
        OBVIOUS
    <2>4. /\ l \in Nat /\ p \in Nat /\ x \in Nat /\ q \in Nat /\ y \in Nat
          /\ q + y = p + x + 1
        BY <2>2, <2>1
    <2> HIDE DEF l, p, x, q, y
    <2>5. ASSUME NEW t \in Timers, timer[t].pc # "off"
          PROVE  made' = l + q + y + Len(timer[t].records)
      <3>1. made = l + p + x + Len(timer[t].records)
          BY <1>1, <2>5 DEF CountInv, l, p, x
      <3>2. Len(timer[t].records) \in Nat
          BY <2>1
      <3> DEFINE z == Len(timer[t].records)
      <3> HIDE DEF z
      <3>3. made = l + p + x + z /\ z \in Nat
          BY <3>1, <3>2 DEF z
      <3>4. made' = l + q + y + z
          BY <2>2, <2>3, <2>4, <3>3
      <3> QED
          BY <3>4 DEF z
    <2>6. ASSUME \A t \in Timers : timer[t].pc = "off"
          PROVE  made' = l + q + y
      <3>1. made = l + p + x
          BY <1>1, <2>6 DEF CountInv, l, p, x
      <3> QED
          BY <2>2, <2>3, <2>4, <3>1
    <2> QED
        BY <2>5, <2>6 DEF CountInv, l, q, y
  <1>7. OrderInv'
    <2> DEFINE p == audit.pending
               q == audit'.pending
    <2>1. /\ p \in Seq(AuditRecord) /\ q \in Seq(AuditRecord)
          /\ \A t \in Timers : timer[t].records \in Seq(AuditRecord)
        BY <1>2, <1>3 DEF AuditState, TimerState
    <2>2. /\ \A r \in AuditRecord : r.n \in Nat
          /\ \A l \in AuditLine : l.n \in Nat
        BY DEF AuditRecord, AuditLine
    <2>3. /\ Ascending(p) /\ AtMost(p, made) /\ Ascending(q) /\ Ascending(lines)
          /\ AtMost(lines, made) /\ Before(lines, p)
          /\ \A j \in 1 .. Len(q) :
                q[j].n = made + 1 \/ \E i \in 1 .. Len(p) : q[j].n = p[i].n
        BY <1>1, <1>3 DEF OrderInv
    <2> HIDE DEF p, q
    <2>4. ASSUME NEW S, NEW x \in Seq(S), \A r \in S : r.n \in Nat, AtMost(x, made),
                 Before(x, p)
          PROVE  AtMost(x, made + 1) /\ Before(x, q)
      <3>1. \A i \in 1 .. Len(x) : x[i].n \in Nat
          BY <2>4, ElementOfSeq
      <3>2. AtMost(x, made + 1)
          BY <1>2, <2>4, <3>1 DEF AtMost
      <3>3. ASSUME NEW i \in 1 .. Len(x), NEW j \in 1 .. Len(q) PROVE x[i].n < q[j].n
        <4>1. x[i].n <= made /\ x[i].n \in Nat
            BY <2>4, <3>1 DEF AtMost
        <4>2. CASE q[j].n = made + 1
            BY <1>2, <4>1, <4>2
        <4>3. CASE \E k \in 1 .. Len(p) : q[j].n = p[k].n
            BY <2>4, <4>3 DEF Before
        <4> QED
            BY <2>3, <4>2, <4>3
      <3> QED
          BY <3>2, <3>3 DEF Before
    <2>5. AtMost(q, made + 1)
      <3>1. \A i \in 1 .. Len(p) : p[i].n \in Nat
          BY <2>1, <2>2, ElementOfSeq
      <3>2. ASSUME NEW j \in 1 .. Len(q) PROVE q[j].n <= made + 1
        <4>1. CASE q[j].n = made + 1
            BY <1>2, <4>1
        <4>2. CASE \E k \in 1 .. Len(p) : q[j].n = p[k].n
            BY <1>2, <2>3, <3>1, <4>2 DEF AtMost
        <4> QED
            BY <2>3, <4>1, <4>2
      <3> QED
          BY <3>2 DEF AtMost
    <2>6. AtMost(lines, made + 1) /\ Before(lines, q)
        BY <1>2, <2>2, <2>3, <2>4
    <2>7. ASSUME NEW t \in Timers
          PROVE  LET r == timer[t].records
                 IN  Ascending(r) /\ AtMost(r, made + 1) /\ Before(lines, r) /\ Before(r, q)
      <3> DEFINE r == timer[t].records
      <3>1. Ascending(r) /\ AtMost(r, made) /\ Before(lines, r) /\ Before(r, p)
          BY <1>1 DEF OrderInv, p
      <3>2. r \in Seq(AuditRecord)
          BY <2>1
      <3> HIDE DEF r
      <3>3. AtMost(r, made + 1) /\ Before(r, q)
          BY <2>2, <2>4, <3>1, <3>2
      <3>4. Ascending(r) /\ AtMost(r, made + 1) /\ Before(lines, r) /\ Before(r, q)
          BY <3>1, <3>3
      <3> QED
          BY <3>4 DEF r
    <2> QED
        BY <2>3, <2>5, <2>6, <2>7 DEF OrderInv, Ascending, AtMost, Before, q
  <1>8. RefreshInv'
      BY <1>3 DEF RefreshInv, Audit!LatestTruthful
  <1> QED
      BY <1>4, <1>5, <1>6, <1>7, <1>8 DEF AuditInv

\* What is captured: the phase and the revision of a state of the service.
LEMMA SnapshotType ==
    ASSUME NEW phase \in Phases, NEW r \in Nat
    PROVE  Audit!Snapshot(phase, r) \in Snapshots /\ Audit!Snapshot(phase, r).rev = r
  BY DEF Audit!Snapshot, Snapshots

\* A window that counts its captures.
LEMMA WindowCounts ==
    ASSUME audit \in AuditState
    PROVE  /\ Audit!Windowed(audit).captures \in Nat
           /\ Audit!Windowed(audit).captures <= audit.captures
  BY DEF AuditState, Audit!Windowed

\* A capture of a service state.
LEMMA StateCaptured ==
    ASSUME Audit!AuditAssumption, AuditInv, NEW phase \in Phases, NEW s \in ServiceState,
           Audit!Capture(phase, s), Audit!Threads, ~s.missed,
           s.fresh /\ s.pc # "idle" => audit'.captures <= 1, s.pc \notin {"cache", "load"}
    PROVE  AuditInv'
  <1>1. /\ audit' = Audit!Publish(audit, Audit!Snapshot(phase, s.rev)) /\ made' = made + 1
        /\ service' = s /\ UNCHANGED <<now, started, timer, lines>>
      BY DEF Audit!Capture, Audit!Threads
  <1>2. s.rev \in Nat
      BY DEF ServiceState
  <1>3. /\ Audit!Snapshot(phase, s.rev) \in Snapshots
        /\ Audit!Snapshot(phase, s.rev).rev = s.rev
      BY <1>2, SnapshotType
  <1> QED
      BY <1>1, <1>3, CaptureKeeps

\* The first capture of a refresh; a fresh one has used one of its window.
LEMMA BeforeCaptured ==
    ASSUME Audit!AuditAssumption, AuditInv, service.pc = "idle",
           NEW p \in {"drop", "apply"}, NEW phase \in Phases,
           Audit!Capture(phase, [Audit!Fresh(service) EXCEPT !.pc = p]), Audit!Threads
    PROVE  AuditInv'
  <1>1. service \in ServiceState /\ ~service.missed /\ audit \in AuditState /\ now \in Nat
        /\ made \in Nat
      BY DEF AuditInv, AuditType, RefreshInv
  <1> DEFINE f == (Audit!Windowed(audit).captures = 0)
             s == [Audit!Fresh(service) EXCEPT !.pc = p]
  <1>2. s = [service EXCEPT !.fresh = f, !.pc = p]
      BY <1>1 DEF Audit!Fresh, ServiceState
  <1> HIDE DEF f
  <1>3. f \in BOOLEAN
      BY DEF f
  <1>4. [service EXCEPT !.fresh = f] \in ServiceState
      BY <1>1, <1>3 DEF ServiceState
  <1>5. s \in ServiceState /\ s.pc = p /\ s.fresh = f /\ ~s.missed /\ s.rev = service.rev
      BY <1>1, <1>2, <1>3, <1>4 DEF ServiceState
  <1> HIDE DEF s
  <1>6. audit' = Audit!Publish(audit, Audit!Snapshot(phase, s.rev))
      BY DEF Audit!Capture, s
  <1>7. s.fresh => audit'.captures = 1
    <2>1. s.rev \in Nat
        BY <1>1, <1>5 DEF ServiceState
    <2> QED
        BY <1>1, <1>5, <1>6, <2>1, SnapshotType, Published DEF f
  <1>8. Audit!Capture(phase, s)
      BY DEF s
  <1> QED
      BY <1>5, <1>7, <1>8, StateCaptured

\* The outcome of a refresh.
LEMMA OutcomeCaught ==
    ASSUME Audit!AuditAssumption, AuditInv, service.pc # "idle", NEW phase \in Phases,
           NEW s \in ServiceState, s.fresh = service.fresh, s.missed = service.missed,
           Audit!Outcome(phase, s), Audit!Threads
    PROVE  AuditInv'
  <1>1. service \in ServiceState /\ ~service.missed /\ audit \in AuditState
        /\ (service.fresh => audit.captures <= 1) /\ audit.captures \in Nat
      BY DEF AuditInv, AuditType, RefreshInv, AuditState
  <1> DEFINE m == s.missed \/ (s.fresh /\ Audit!Full(audit))
             e == [s EXCEPT !.pc = "idle", !.missed = m]
  <1>2. ~m /\ m \in BOOLEAN
    <2>1. service.fresh => ~Audit!Full(audit)
        BY <1>1, WindowCounts DEF Audit!Full, Audit!AuditAssumption
    <2> QED
        BY <1>1, <2>1
  <1> HIDE DEF m
  <1>3. [s EXCEPT !.pc = "idle"] \in ServiceState
      BY DEF ServiceState
  <1>4. e \in ServiceState /\ e.pc = "idle" /\ ~e.missed
      BY <1>2, <1>3 DEF ServiceState
  <1>5. Audit!Capture(phase, e)
      BY DEF Audit!Outcome, m
  <1> HIDE DEF e
  <1> QED
      BY <1>4, <1>5, StateCaptured

\* The steps of the refresh.
LEMMA RefreshKeeps ==
    ASSUME Audit!AuditAssumption, AuditInv,
           \/ Audit!FullReload \/ Audit!IncrementalRead \/ Audit!ApplyDelta \/ Audit!Drop
           \/ Audit!CacheLoading \/ Audit!Load \/ Audit!Tick \/ UNCHANGED Audit!vars
    PROVE  AuditInv'
  <1>1. /\ service \in ServiceState /\ audit \in AuditState /\ now \in Nat /\ RefreshInv
        /\ service.last \in Nat /\ service.rev \in Nat
      BY DEF AuditInv, AuditType, ServiceState
  <1>2. Phases = {"none", "full_before", "full_loading", "full_after", "full_failed",
                  "incremental_before", "incremental_read_failed", "incremental_after",
                  "incremental_failed"}
      BY DEF Phases
  <1>3. CASE Audit!FullReload
    <2>1. /\ service.pc = "idle" /\ Audit!Threads
          /\ Audit!Capture("full_before", [Audit!Fresh(service) EXCEPT !.pc = "drop"])
        BY <1>3 DEF Audit!FullReload
    <2> QED
        BY <1>2, <2>1, BeforeCaptured
  <1>4. CASE Audit!IncrementalRead
    <2>1. service.pc = "idle" /\ Audit!Threads
        BY <1>4 DEF Audit!IncrementalRead
    <2>2. CASE Audit!Capture("incremental_before", [Audit!Fresh(service) EXCEPT !.pc = "apply"])
        BY <1>2, <2>1, <2>2, BeforeCaptured
    <2>3. CASE Audit!Capture("incremental_read_failed", service)
        BY <1>1, <1>2, <2>1, <2>3, StateCaptured DEF RefreshInv
    <2> QED
        BY <1>4, <2>2, <2>3 DEF Audit!IncrementalRead
  <1>5. CASE Audit!ApplyDelta
    <2>1. service.pc = "apply" /\ Audit!Threads
        BY <1>5 DEF Audit!ApplyDelta
    <2>2. CASE Audit!Outcome("incremental_after",
                 [service EXCEPT !.rev = service.last + 1, !.last = service.last + 1])
      <3> DEFINE s == [service EXCEPT !.rev = service.last + 1, !.last = service.last + 1]
      <3>1. service.last + 1 \in Nat
          BY <1>1
      <3>2. [service EXCEPT !.rev = service.last + 1] \in ServiceState
          BY <1>1, <3>1 DEF ServiceState
      <3>3. s \in ServiceState /\ s.fresh = service.fresh /\ s.missed = service.missed
          BY <1>1, <3>1, <3>2 DEF ServiceState
      <3> HIDE DEF s
      <3>4. Audit!Outcome("incremental_after", s)
          BY <2>2 DEF s
      <3> QED
          BY <1>2, <2>1, <3>3, <3>4, OutcomeCaught
    <2>3. CASE Audit!Fallback
      <3>1. service' = [service EXCEPT !.pc = "drop"] /\ UNCHANGED <<audit, made>>
          BY <2>3 DEF Audit!Fallback
      <3>2. /\ service' \in ServiceState /\ service'.pc = "drop"
            /\ service'.fresh = service.fresh /\ service'.missed = service.missed
          BY <1>1, <3>1 DEF ServiceState
      <3>3. RefreshInv'
          BY <1>1, <2>1, <3>1, <3>2 DEF RefreshInv, Audit!LatestTruthful
      <3> QED
          BY <1>1, <2>1, <3>1, <3>2, <3>3, CalmKeeps DEF Audit!Threads
    <2>4. CASE Audit!Capture("full_before", [service EXCEPT !.pc = "drop", !.fresh = FALSE])
      <3> DEFINE s == [service EXCEPT !.pc = "drop", !.fresh = FALSE]
      <3>1. [service EXCEPT !.pc = "drop"] \in ServiceState
          BY <1>1 DEF ServiceState
      <3>2. s \in ServiceState /\ s.pc = "drop" /\ s.fresh = FALSE /\ s.missed = service.missed
          BY <1>1, <3>1 DEF ServiceState
      <3> HIDE DEF s
      <3>3. Audit!Capture("full_before", s)
          BY <2>4 DEF s
      <3> QED
          BY <1>1, <1>2, <2>1, <3>2, <3>3, StateCaptured DEF RefreshInv
    <2>5. CASE Audit!Outcome("incremental_failed", [service EXCEPT !.rev = 0])
      <3> DEFINE s == [service EXCEPT !.rev = 0]
      <3>1. s \in ServiceState /\ s.fresh = service.fresh /\ s.missed = service.missed
          BY <1>1 DEF ServiceState
      <3> HIDE DEF s
      <3>2. Audit!Outcome("incremental_failed", s)
          BY <2>5 DEF s
      <3> QED
          BY <1>2, <2>1, <3>1, <3>2, OutcomeCaught
    <2> QED
        BY <1>5, <2>2, <2>3, <2>4, <2>5 DEF Audit!ApplyDelta
  <1>6. CASE Audit!Drop
    <2>1. /\ service.pc = "drop" /\ service' = [service EXCEPT !.pc = "cache", !.rev = 0]
          /\ UNCHANGED <<audit, made>> /\ Audit!Threads
        BY <1>6 DEF Audit!Drop
    <2>2. [service EXCEPT !.pc = "cache"] \in ServiceState
        BY <1>1 DEF ServiceState
    <2>3. /\ service' \in ServiceState /\ service'.pc = "cache" /\ service'.rev = 0
          /\ service'.fresh = service.fresh /\ service'.missed = service.missed
        BY <1>1, <2>1, <2>2 DEF ServiceState
    <2>4. RefreshInv'
        BY <1>1, <2>1, <2>3 DEF RefreshInv, Audit!LatestTruthful
    <2> QED
        BY <1>1, <2>1, <2>3, <2>4, CalmKeeps DEF Audit!Threads
  <1>7. CASE Audit!CacheLoading
    <2>1. /\ service.pc = "cache" /\ service' = [service EXCEPT !.pc = "load"]
          /\ audit' = Audit!Cache(audit, Audit!Snapshot("full_loading", service.rev))
          /\ made' = made /\ Audit!Threads
        BY <1>7 DEF Audit!CacheLoading
    <2>2. /\ service' \in ServiceState /\ service'.pc = "load" /\ service'.rev = service.rev
          /\ service'.fresh = service.fresh /\ service'.missed = service.missed
        BY <1>1, <2>1 DEF ServiceState
    <2>3. service.rev = 0
        BY <1>1, <2>1 DEF RefreshInv
    <2> DEFINE snap == Audit!Snapshot("full_loading", 0)
    <2>4. snap \in Snapshots
        BY <1>2, SnapshotType
    <2>5. audit' = [audit EXCEPT !.latest = snap]
        BY <2>1, <2>3 DEF Audit!Cache
    <2> HIDE DEF snap
    <2>6. /\ audit' \in AuditState /\ audit'.latest = snap /\ audit'.pending = audit.pending
          /\ audit'.suppressed = audit.suppressed /\ audit'.sequence = audit.sequence
          /\ audit'.captures = audit.captures
        BY <1>1, <2>4, <2>5 DEF AuditState
    <2>7. RefreshInv'
        BY <1>1, <2>1, <2>2, <2>3, <2>6 DEF RefreshInv, Audit!LatestTruthful, snap
    <2> QED
        BY <1>1, <2>1, <2>2, <2>6, <2>7, CalmKeeps DEF Audit!Threads
  <1>8. CASE Audit!Load
    <2>1. service.pc = "load" /\ Audit!Threads
        BY <1>8 DEF Audit!Load
    <2>2. CASE Audit!Outcome("full_after",
                 [service EXCEPT !.rev = service.last + 1, !.last = service.last + 1])
      <3> DEFINE s == [service EXCEPT !.rev = service.last + 1, !.last = service.last + 1]
      <3>1. service.last + 1 \in Nat
          BY <1>1
      <3>2. [service EXCEPT !.rev = service.last + 1] \in ServiceState
          BY <1>1, <3>1 DEF ServiceState
      <3>3. s \in ServiceState /\ s.fresh = service.fresh /\ s.missed = service.missed
          BY <1>1, <3>1, <3>2 DEF ServiceState
      <3> HIDE DEF s
      <3>4. Audit!Outcome("full_after", s)
          BY <2>2 DEF s
      <3> QED
          BY <1>2, <2>1, <3>3, <3>4, OutcomeCaught
    <2>3. CASE Audit!Outcome("full_failed", service)
        BY <1>1, <1>2, <2>1, <2>3, OutcomeCaught
    <2> QED
        BY <1>8, <2>2, <2>3 DEF Audit!Load
  <1>9. CASE Audit!Tick
    <2>1. now' = now + 1 /\ UNCHANGED <<service, audit, started, timer, made, lines>>
        BY <1>9 DEF Audit!Tick
    <2>2. now' \in Nat /\ RefreshInv'
        BY <1>1, <2>1 DEF RefreshInv, Audit!LatestTruthful
    <2> QED
        BY <1>1, <2>1, <2>2, CalmKeeps
  <1>10. CASE UNCHANGED Audit!vars
    <2>1. UNCHANGED <<now, service, audit, started, timer, made, lines>>
        BY <1>10 DEF Audit!vars
    <2>2. RefreshInv'
        BY <1>1, <2>1 DEF RefreshInv, Audit!LatestTruthful
    <2> QED
        BY <1>1, <2>1, <2>2, CalmKeeps
  <1> QED
      BY <1>3, <1>4, <1>5, <1>6, <1>7, <1>8, <1>9, <1>10

\* Only one thread is not off, so the counts and numbers are its own or the audit's.
LEMMA TheTimer ==
    ASSUME OneTimer, NEW t \in Timers, timer[t].pc # "off"
    PROVE  \A s \in Timers \ {t} : timer[s].pc = "off" /\ timer[s].records = <<>>
  BY DEF OneTimer

\* The invariant after a step of the thread t, from what it says of t.
LEMMA ThreadSteps ==
    ASSUME AuditInv, NEW t \in Timers, NEW r \in TimerState, started', started' \in BOOLEAN,
           \A s \in Timers \ {t} : timer[s].pc = "off",
           timer' = [timer EXCEPT ![t] = r], r.pc # "off", r.pc = "sleep" => r.records = <<>>,
           audit' \in AuditState, made' \in Nat, lines' \in Seq(AuditLine),
           made' = Len(lines') + Len(audit'.pending) + audit'.suppressed + Len(r.records),
           Ascending(audit'.pending), AtMost(audit'.pending, made'), Ascending(lines'),
           AtMost(lines', made'), Before(lines', audit'.pending), Ascending(r.records),
           AtMost(r.records, made'), Before(lines', r.records), Before(r.records, audit'.pending),
           \A i, j \in 1 .. Len(lines') : i < j => lines'[i].seq < lines'[j].seq,
           \A i \in 1 .. Len(lines') :
              lines'[i].seq <= IF r.pc = "sleep" THEN audit'.sequence ELSE r.sequence,
           UNCHANGED <<now, service>>, audit'.latest = audit.latest,
           audit'.captures = audit.captures
    PROVE  AuditInv'
  <1>1. AuditType /\ OneTimer /\ RefreshInv /\ timer \in [Timers -> TimerState]
      BY DEF AuditInv, AuditType
  <1>2. /\ timer' \in [Timers -> TimerState] /\ timer'[t] = r
        /\ \A s \in Timers \ {t} : timer'[s] = timer[s]
      BY <1>1
  <1>3. \A s \in Timers \ {t} : timer'[s].pc = "off" /\ timer'[s].records = <<>>
      BY <1>1, <1>2 DEF OneTimer
  <1>4. AuditType'
      BY <1>1, <1>2 DEF AuditType
  <1>5. OneTimer'
      BY <1>2, <1>3 DEF OneTimer
  <1>6. CountInv'
      BY <1>2, <1>3 DEF CountInv
  <1>7. OrderInv'
    <2>1. ASSUME NEW s \in Timers
          PROVE  LET q == timer'[s].records
                 IN  Ascending(q) /\ AtMost(q, made') /\ Before(lines', q)
                     /\ Before(q, audit'.pending)
      <3>1. CASE s = t
          BY <1>2, <3>1
      <3>2. CASE s # t
        <4>1. timer'[s].records = <<>>
            BY <1>3, <3>2
        <4>2. Ascending(<<>>) /\ AtMost(<<>>, made') /\ Before(lines', <<>>)
              /\ Before(<<>>, audit'.pending)
            BY DEF Ascending, AtMost, Before
        <4> QED
            BY <4>1, <4>2
      <3> QED
          BY <3>1, <3>2
    <2> QED
        BY <2>1 DEF OrderInv, Ascending, AtMost, Before
  <1>8. NumberInv'
    <2>1. r.pc \in {"sleep", "write", "failed"}
        BY DEF TimerState
    <2> QED
        BY <1>2, <1>3, <2>1 DEF NumberInv, Writing
  <1>9. RefreshInv'
      BY <1>1 DEF RefreshInv, Audit!LatestTruthful
  <1> QED
      BY <1>4, <1>5, <1>6, <1>7, <1>8, <1>9 DEF AuditInv

\* The fields of a record that is in the audit's state or on a stack.
LEMMA AuditFields ==
    ASSUME AuditInv
    PROVE  /\ audit.pending \in Seq(AuditRecord) /\ Len(audit.pending) \in Nat
           /\ audit.suppressed \in Nat /\ audit.sequence \in Nat /\ made \in Nat
           /\ lines \in Seq(AuditLine) /\ Len(lines) \in Nat
           /\ \A i \in 1 .. Len(lines) : lines[i].n \in Nat /\ lines[i].seq \in Nat
           /\ \A i \in 1 .. Len(audit.pending) : audit.pending[i].n \in Nat
           /\ \A t \in Timers :
                 /\ timer[t] \in TimerState /\ timer[t].records \in Seq(AuditRecord)
                 /\ timer[t].sequence \in Nat /\ timer[t].suppressed \in Nat
                 /\ Len(timer[t].records) \in Nat
                 /\ \A i \in 1 .. Len(timer[t].records) : timer[t].records[i].n \in Nat
  <1>1. /\ audit \in AuditState /\ made \in Nat /\ lines \in Seq(AuditLine)
        /\ timer \in [Timers -> TimerState]
      BY DEF AuditInv, AuditType
  <1>2. /\ \A r \in AuditRecord : r.n \in Nat
        /\ \A l \in AuditLine : l.n \in Nat /\ l.seq \in Nat
      BY DEF AuditRecord, AuditLine
  <1>3. ASSUME NEW x \in Seq(AuditRecord)
        PROVE  Len(x) \in Nat /\ \A i \in 1 .. Len(x) : x[i].n \in Nat
      BY <1>2, ElementOfSeq
  <1>4. \A i \in 1 .. Len(lines) : lines[i].n \in Nat /\ lines[i].seq \in Nat
      BY <1>1, <1>2, ElementOfSeq
  <1>5. audit.pending \in Seq(AuditRecord) /\ audit.suppressed \in Nat /\ audit.sequence \in Nat
      BY <1>1 DEF AuditState
  <1>6. \A t \in Timers :
           /\ timer[t] \in TimerState /\ timer[t].records \in Seq(AuditRecord)
           /\ timer[t].sequence \in Nat /\ timer[t].suppressed \in Nat
      BY <1>1 DEF TimerState
  <1> QED
      BY <1>1, <1>3, <1>4, <1>5, <1>6

\* A newer record at the end.
LEMMA Newest ==
    ASSUME NEW S, NEW s \in Seq(S), NEW e \in S, NEW m \in Nat, e.n = m + 1,
           \A i \in 1 .. Len(s) : s[i].n \in Nat, Ascending(s), AtMost(s, m)
    PROVE  /\ Append(s, e) \in Seq(S) /\ Len(Append(s, e)) = Len(s) + 1
           /\ Ascending(Append(s, e)) /\ AtMost(Append(s, e), m + 1)
  <1> DEFINE q == Append(s, e)
  <1>1. /\ q \in Seq(S) /\ Len(q) = Len(s) + 1 /\ Len(s) \in Nat /\ q[Len(s) + 1] = e
        /\ \A i \in 1 .. Len(s) : q[i] = s[i]
      OBVIOUS
  <1> HIDE DEF q
  <1>2. \A i \in 1 .. Len(s) : q[i].n <= m
      BY <1>1 DEF AtMost
  <1>3. AtMost(q, m + 1)
    <2>1. \A k \in Nat : k <= m => k <= m + 1
        OBVIOUS
    <2>2. ASSUME NEW i \in 1 .. Len(q) PROVE q[i].n <= m + 1
      <3>1. i \in 1 .. Len(s) \/ i = Len(s) + 1
          BY <1>1
      <3> QED
          BY <1>1, <1>2, <2>1, <3>1
    <2> QED
        BY <2>2 DEF AtMost
  <1>4. Ascending(q)
    <2>1. ASSUME NEW i \in 1 .. Len(q), NEW j \in 1 .. Len(q), i < j PROVE q[i].n < q[j].n
      <3>1. CASE j \in 1 .. Len(s)
        <4>1. i \in 1 .. Len(s)
            BY <1>1, <2>1, <3>1
        <4> QED
            BY <1>1, <2>1, <3>1, <4>1 DEF Ascending
      <3>2. CASE j \notin 1 .. Len(s)
        <4>1. j = Len(s) + 1 /\ i \in 1 .. Len(s)
          <5>1. \A l \in Nat : \A a, b \in 1 .. l + 1 :
                   a < b /\ b \notin 1 .. l => b = l + 1 /\ a \in 1 .. l
              OBVIOUS
          <5> QED
              BY <1>1, <2>1, <3>2, <5>1
        <4>2. q[i].n <= m /\ q[i].n \in Nat /\ q[j].n = m + 1
            BY <1>1, <1>2, <4>1
        <4> QED
            BY <4>2
      <3> QED
          BY <3>1, <3>2
    <2> QED
        BY <2>1 DEF Ascending
  <1> QED
      BY <1>1, <1>3, <1>4 DEF q

\* The thread begins.
LEMMA StartKeeps ==
    ASSUME AuditInv, NEW t \in Timers, Audit!Start(t) PROVE AuditInv'
  <1>1. /\ timer[t].pc = "off" /\ started = FALSE /\ started' = TRUE
        /\ timer' = [timer EXCEPT ![t].pc = "sleep"]
        /\ UNCHANGED <<now, service, audit, made, lines>>
      BY DEF Audit!Start, Audit!Refresh, AuditInv, AuditType
  <1>2. /\ AuditType /\ OneTimer /\ CountInv /\ OrderInv /\ NumberInv
        /\ timer \in [Timers -> TimerState]
      BY DEF AuditInv, AuditType
  <1>3. \A s \in Timers : timer[s].pc = "off" /\ timer[s].records = <<>>
      BY <1>1, <1>2 DEF OneTimer
  <1> DEFINE r == [timer[t] EXCEPT !.pc = "sleep"]
  <1>4. r \in TimerState /\ r.pc = "sleep" /\ r.records = <<>>
      BY <1>2, <1>3 DEF TimerState
  <1>5. timer' = [timer EXCEPT ![t] = r]
      BY <1>1
  <1> HIDE DEF r
  <1>6. Len(r.records) = 0
      BY <1>4
  <1>7. /\ made = Len(lines) + Len(audit.pending) + audit.suppressed
        /\ \A i \in 1 .. Len(lines) : lines[i].seq <= audit.sequence
      BY <1>2, <1>3 DEF CountInv, NumberInv, Writing
  <1>8. made = Len(lines) + Len(audit.pending) + audit.suppressed + Len(r.records)
      BY <1>6, <1>7, AuditFields
  <1>9. Ascending(r.records) /\ AtMost(r.records, made) /\ Before(lines, r.records)
        /\ Before(r.records, audit.pending)
    <2>1. Ascending(<<>>) /\ AtMost(<<>>, made) /\ Before(lines, <<>>)
          /\ Before(<<>>, audit.pending)
        BY DEF Ascending, AtMost, Before
    <2> QED
        BY <1>4, <2>1
  <1>10. /\ Ascending(audit.pending) /\ AtMost(audit.pending, made) /\ Ascending(lines)
         /\ AtMost(lines, made) /\ Before(lines, audit.pending)
         /\ \A i, j \in 1 .. Len(lines) : i < j => lines[i].seq < lines[j].seq
      BY <1>2 DEF OrderInv, NumberInv
  <1>11. /\ audit' \in AuditState /\ made' \in Nat /\ lines' \in Seq(AuditLine)
         /\ UNCHANGED <<now, service>> /\ audit' = audit /\ made' = made /\ lines' = lines
      BY <1>1, <1>2 DEF AuditType
  <1> QED
      BY <1>1, <1>3, <1>4, <1>5, <1>7, <1>8, <1>9, <1>10, <1>11, ThreadSteps

\* Everything pending and an idle record go to the stack.
LEMMA TakeKeeps ==
    ASSUME AuditInv, NEW t \in Timers, Audit!Take(t) PROVE AuditInv'
  <1> DEFINE e == [n |-> made + 1, idle |-> TRUE, snapshot |-> audit.latest]
             q == Append(audit.pending, e)
             r == [pc |-> "write", records |-> q, sequence |-> audit.sequence,
                   suppressed |-> audit.suppressed]
  <1>1. /\ timer[t].pc = "sleep" /\ timer' = [timer EXCEPT ![t] = r]
        /\ audit' = [audit EXCEPT !.pending = <<>>] /\ made' = made + 1
        /\ UNCHANGED <<now, service, started, lines>>
      BY DEF Audit!Take, Audit!Refresh
  <1>2. /\ AuditType /\ OneTimer /\ CountInv /\ OrderInv /\ NumberInv /\ audit \in AuditState
        /\ audit.latest \in Snapshots
      BY DEF AuditInv, AuditType, AuditState
  <1>3. /\ \A s \in Timers \ {t} : timer[s].pc = "off"
        /\ started = TRUE /\ timer[t].records = <<>>
      BY <1>1, <1>2, TheTimer DEF OneTimer, AuditType
  <1>4. e \in AuditRecord /\ e.n = made + 1
      BY <1>2, AuditFields DEF AuditRecord
  <1>5. /\ Ascending(audit.pending) /\ AtMost(audit.pending, made) /\ Ascending(lines)
        /\ AtMost(lines, made) /\ Before(lines, audit.pending)
        /\ \A i, j \in 1 .. Len(lines) : i < j => lines[i].seq < lines[j].seq
      BY <1>2 DEF OrderInv, NumberInv
  <1> HIDE DEF e
  <1>6. /\ q \in Seq(AuditRecord) /\ Len(q) = Len(audit.pending) + 1
        /\ Ascending(q) /\ AtMost(q, made + 1)
      BY <1>4, <1>5, AuditFields, Newest
  <1>7. Before(lines, q)
    <2>1. /\ Len(audit.pending) \in Nat /\ q[Len(audit.pending) + 1] = e
          /\ \A i \in 1 .. Len(audit.pending) : q[i] = audit.pending[i]
        BY <1>4, AuditFields
    <2>2. \A i \in 1 .. Len(lines) : lines[i].n < made + 1
        BY <1>5, AuditFields DEF AtMost
    <2> HIDE DEF q
    <2> QED
        BY <1>4, <1>5, <1>6, <2>1, <2>2, SMTT(60) DEF Before
  <1> HIDE DEF q
  <1>8. r \in TimerState /\ r.pc = "write" /\ r.records = q /\ r.sequence = audit.sequence
      BY <1>6, AuditFields DEF TimerState
  <1> HIDE DEF r
  <1>9. /\ audit' \in AuditState /\ audit'.pending = <<>> /\ audit'.latest = audit.latest
        /\ audit'.captures = audit.captures /\ audit'.suppressed = audit.suppressed
    <2> DEFINE none == <<>>
    <2>1. none \in Seq(AuditRecord) /\ audit' = [audit EXCEPT !.pending = none]
        BY <1>1
    <2> HIDE DEF none
    <2>2. /\ audit' \in AuditState /\ audit'.pending = none /\ audit'.latest = audit.latest
          /\ audit'.captures = audit.captures /\ audit'.suppressed = audit.suppressed
        BY <1>2, <2>1 DEF AuditState
    <2> QED
        BY <2>2 DEF none
  <1>10. made' \in Nat /\ lines' \in Seq(AuditLine) /\ started' \in BOOLEAN /\ started'
      BY <1>1, <1>3, AuditFields
  <1>11. made' = Len(lines') + Len(audit'.pending) + audit'.suppressed + Len(r.records)
    <2>1. made = Len(lines) + Len(audit.pending) + audit.suppressed + Len(timer[t].records)
        BY <1>1, <1>2 DEF CountInv
    <2>2. Len(timer[t].records) = 0 /\ Len(audit'.pending) = 0
        BY <1>3, <1>9
    <2>3. made = Len(lines) + Len(audit.pending) + audit.suppressed
        BY <2>1, <2>2, AuditFields
    <2>4. Len(lines) \in Nat /\ Len(audit.pending) \in Nat /\ audit.suppressed \in Nat
        BY AuditFields
    <2>5. Len(lines) + Len(audit.pending) + audit.suppressed + 1
            = Len(lines) + 0 + audit.suppressed + (Len(audit.pending) + 1)
        BY <2>4
    <2> QED
        BY <1>1, <1>6, <1>8, <1>9, <2>2, <2>3, <2>5
  <1>12. Ascending(audit'.pending) /\ AtMost(audit'.pending, made')
         /\ Before(lines', audit'.pending) /\ Before(r.records, audit'.pending)
    <2>1. Ascending(<<>>) /\ AtMost(<<>>, made') /\ Before(lines', <<>>)
          /\ Before(r.records, <<>>)
        BY DEF Ascending, AtMost, Before
    <2> QED
        BY <1>9, <2>1
  <1>13. Ascending(lines') /\ AtMost(lines', made')
    <2>1. AtMost(lines, made + 1)
        BY <1>5, AuditFields DEF AtMost
    <2> QED
        BY <1>1, <1>5, <2>1
  <1>14. Ascending(r.records) /\ AtMost(r.records, made') /\ Before(lines', r.records)
      BY <1>1, <1>6, <1>7, <1>8
  <1>15. /\ \A i, j \in 1 .. Len(lines') : i < j => lines'[i].seq < lines'[j].seq
         /\ \A i \in 1 .. Len(lines') :
               lines'[i].seq <= IF r.pc = "sleep" THEN audit'.sequence ELSE r.sequence
    <2>1. \A s \in Timers : ~Writing(s)
        BY <1>1, <1>3 DEF Writing
    <2> QED
        BY <1>1, <1>2, <1>5, <1>8, <2>1 DEF NumberInv
  <1> QED
      BY <1>1, <1>3, <1>8, <1>9, <1>10, <1>11, <1>12, <1>13, <1>14, <1>15, ThreadSteps

\* One append, or its error.
LEMMA WriteKeeps ==
    ASSUME AuditInv, NEW t \in Timers, Audit!WriteLine(t) PROVE AuditInv'
  <1> DEFINE x == timer[t].records
             n == timer[t].sequence
  <1>1. /\ timer[t].pc = "write" /\ x # <<>> /\ UNCHANGED <<now, service, audit, started, made>>
      BY DEF Audit!WriteLine, Audit!Refresh
  <1>2. /\ AuditType /\ OneTimer /\ CountInv /\ OrderInv /\ NumberInv
        /\ timer \in [Timers -> TimerState] /\ audit \in AuditState
      BY DEF AuditInv, AuditType
  <1>3. (\A s \in Timers \ {t} : timer[s].pc = "off") /\ started = TRUE
      BY <1>1, <1>2, TheTimer DEF OneTimer, AuditType
  <1>4. /\ x \in Seq(AuditRecord) /\ n \in Nat /\ timer[t] \in TimerState /\ Len(x) \in Nat
        /\ \A i \in 1 .. Len(x) : x[i].n \in Nat
      BY AuditFields
  <1>5. /\ Ascending(audit.pending) /\ AtMost(audit.pending, made) /\ Ascending(lines)
        /\ AtMost(lines, made) /\ Before(lines, audit.pending)
        /\ Ascending(x) /\ AtMost(x, made) /\ Before(lines, x) /\ Before(x, audit.pending)
        /\ \A i, j \in 1 .. Len(lines) : i < j => lines[i].seq < lines[j].seq
        /\ \A i \in 1 .. Len(lines) : lines[i].seq <= n
      BY <1>1, <1>2 DEF OrderInv, NumberInv, Writing
  <1>6. made = Len(lines) + Len(audit.pending) + audit.suppressed + Len(x)
      BY <1>1, <1>2 DEF CountInv
  <1>7. /\ audit' \in AuditState /\ made' \in Nat /\ started' /\ started' \in BOOLEAN
        /\ audit'.latest = audit.latest /\ audit'.captures = audit.captures
      BY <1>1, <1>2, <1>3, AuditFields
  <1>8. CASE /\ lines' = Append(lines, [seq |-> n + 1, n |-> Head(x).n])
             /\ timer' = [timer EXCEPT ![t].records = Tail(@), ![t].sequence = @ + 1]
    <2> DEFINE q == Tail(x)
               h == Head(x)
               e == [seq |-> n + 1, n |-> h.n]
               r == [timer[t] EXCEPT !.records = q, !.sequence = n + 1]
    <2> HIDE DEF x, n
    <2>1. /\ h \in AuditRecord /\ h = x[1] /\ q \in Seq(AuditRecord) /\ Len(q) = Len(x) - 1
          /\ Len(x) >= 1 /\ \A i \in 1 .. Len(q) : q[i] = x[i + 1]
      <3>1. Len(x) >= 1 /\ h = x[1]
          BY <1>1, <1>4
      <3> QED
          BY <1>1, <1>4, <3>1, HeadTailProperties
    <2>2. h.n \in Nat /\ n + 1 \in Nat
        BY <1>4, <2>1
    <2> HIDE DEF h, q
    <2>3. e \in AuditLine /\ e.seq = n + 1 /\ e.n = h.n
        BY <2>2 DEF AuditLine
    <2>4. /\ r \in TimerState /\ r.pc = "write" /\ r.records = q /\ r.sequence = n + 1
      <3>1. [timer[t] EXCEPT !.records = q] \in TimerState
          BY <1>4, <2>1 DEF TimerState
      <3> QED
          BY <1>1, <1>4, <2>2, <3>1 DEF TimerState
    <2>5. timer' = [timer EXCEPT ![t] = r]
        BY <1>2, <1>8 DEF x, n, q
    <2>6. lines' = Append(lines, e)
        BY <1>8 DEF h
    <2> HIDE DEF e, r
    <2> DEFINE k == Len(lines)
    <2>7. /\ lines' \in Seq(AuditLine) /\ Len(lines') = k + 1 /\ k \in Nat
          /\ lines'[k + 1] = e /\ \A i \in 1 .. k : lines'[i] = lines[i]
        BY <2>3, <2>6, AuditFields
    <2>8. \A i \in 1 .. k : lines[i].n \in Nat /\ lines[i].seq \in Nat
        BY AuditFields
    <2> HIDE DEF k
    <2>9. \A i \in 1 .. Len(lines') : i \in 1 .. k \/ i = k + 1
        BY <2>7
    <2>10. /\ \A i \in 1 .. k : lines[i].n < e.n /\ lines[i].seq < e.seq
           /\ e.n <= made
      <3>1. 1 \in 1 .. Len(x)
          BY <1>4, <2>1
      <3>2. \A i \in 1 .. k : lines[i].seq <= n
          BY <1>5 DEF k
      <3>3. \A i \in 1 .. k : lines[i].n < x[1].n
          BY <1>5, <3>1 DEF Before, k
      <3>4. x[1].n <= made
          BY <1>5, <3>1 DEF AtMost
      <3> QED
          BY <1>4, <2>1, <2>3, <2>8, <3>2, <3>3, <3>4
    <2>11. made' = Len(lines') + Len(audit'.pending) + audit'.suppressed + Len(r.records)
      <3> DEFINE a == Len(audit.pending)
                 b == audit.suppressed
                 d == Len(x)
      <3>1. \A i, j, l, m \in Nat : i + j + l + m = (i + 1) + j + l + (m - 1)
          OBVIOUS
      <3>2. made = k + a + b + d
          BY <1>6 DEF k
      <3>3. k \in Nat /\ a \in Nat /\ b \in Nat /\ d \in Nat
          BY <1>4, <2>7, AuditFields
      <3>4. made = (k + 1) + a + b + (d - 1)
        <4> HIDE DEF a, b, d
        <4>1. k + a + b + d = (k + 1) + a + b + (d - 1)
            BY <3>1, <3>3
        <4> QED
            BY <3>2, <4>1
      <3> QED
          BY <1>1, <2>1, <2>4, <2>7, <3>4
    <2>12. Ascending(lines') /\ \A i, j \in 1 .. Len(lines') : i < j => lines'[i].seq < lines'[j].seq
      <3>1. ASSUME NEW i \in 1 .. Len(lines'), NEW j \in 1 .. Len(lines'), i < j
            PROVE  lines'[i].n < lines'[j].n /\ lines'[i].seq < lines'[j].seq
        <4>1. CASE j \in 1 .. k
          <5>1. i \in 1 .. k
              BY <2>7, <3>1, <4>1
          <5>2. lines[i].n < lines[j].n /\ lines[i].seq < lines[j].seq
              BY <1>5, <3>1, <4>1, <5>1 DEF Ascending, k
          <5> QED
              BY <2>7, <4>1, <5>1, <5>2
        <4>2. CASE j = k + 1
          <5>1. i \in 1 .. k
              BY <2>7, <3>1, <4>2
          <5> QED
              BY <2>7, <2>10, <4>2, <5>1
        <4> QED
            BY <2>9, <4>1, <4>2
      <3> QED
          BY <3>1 DEF Ascending
    <2>13. AtMost(lines', made')
      <3>1. ASSUME NEW i \in 1 .. Len(lines') PROVE lines'[i].n <= made
        <4>1. CASE i \in 1 .. k
            BY <1>5, <2>7, <4>1 DEF AtMost, k
        <4>2. CASE i = k + 1
            BY <2>7, <2>10, <4>2
        <4> QED
            BY <2>9, <4>1, <4>2
      <3> QED
          BY <1>1, <3>1 DEF AtMost
    <2>14. Before(lines', audit'.pending)
      <3>1. ASSUME NEW i \in 1 .. Len(lines'), NEW j \in 1 .. Len(audit.pending)
            PROVE  lines'[i].n < audit.pending[j].n
        <4>1. CASE i \in 1 .. k
            BY <1>5, <2>7, <4>1 DEF Before, k
        <4>2. CASE i = k + 1
          <5>1. 1 \in 1 .. Len(x)
              BY <1>4, <2>1
          <5>2. x[1].n < audit.pending[j].n
              BY <1>5, <5>1 DEF Before
          <5> QED
              BY <2>1, <2>3, <2>7, <4>2, <5>2
        <4> QED
            BY <2>9, <4>1, <4>2
      <3> QED
          BY <1>1, <3>1 DEF Before
    <2>15. /\ Ascending(q) /\ AtMost(q, made') /\ Before(q, audit'.pending)
      <3>1. \A i \in 1 .. Len(q) : i + 1 \in 1 .. Len(x)
          BY <1>4, <2>1
      <3>2. AtMost(q, made')
          BY <1>1, <1>5, <2>1, <3>1 DEF AtMost
      <3>3. Before(q, audit'.pending)
          BY <1>1, <1>5, <2>1, <3>1 DEF Before
      <3>4. ASSUME NEW i \in 1 .. Len(q), NEW j \in 1 .. Len(q), i < j PROVE q[i].n < q[j].n
        <4>1. i + 1 \in 1 .. Len(x) /\ j + 1 \in 1 .. Len(x) /\ i + 1 < j + 1
            BY <3>1, <3>4
        <4>2. x[i + 1].n < x[j + 1].n
            BY <1>5, <4>1 DEF Ascending
        <4> QED
            BY <2>1, <4>2
      <3>5. Ascending(q)
          BY <3>4 DEF Ascending
      <3> QED
          BY <3>2, <3>3, <3>5
    <2>16. Before(lines', q)
      <3>1. ASSUME NEW i \in 1 .. Len(lines'), NEW j \in 1 .. Len(q) PROVE lines'[i].n < q[j].n
        <4>1. j + 1 \in 1 .. Len(x) /\ q[j] = x[j + 1] /\ 1 \in 1 .. Len(x) /\ 1 < j + 1
            BY <1>4, <2>1
        <4>2. CASE i \in 1 .. k
            BY <1>5, <2>7, <4>1, <4>2 DEF Before, k
        <4>3. CASE i = k + 1
          <5>1. x[1].n < x[j + 1].n
              BY <1>5, <4>1 DEF Ascending
          <5> QED
              BY <2>1, <2>3, <2>7, <4>1, <4>3, <5>1
        <4> QED
            BY <2>9, <4>2, <4>3
      <3> QED
          BY <3>1 DEF Before
    <2>17. \A i \in 1 .. Len(lines') :
              lines'[i].seq <= IF r.pc = "sleep" THEN audit'.sequence ELSE r.sequence
      <3>1. ASSUME NEW i \in 1 .. Len(lines') PROVE lines'[i].seq <= n + 1
        <4>1. CASE i \in 1 .. k
            BY <1>4, <1>5, <2>7, <2>8, <4>1 DEF k
        <4>2. CASE i = k + 1
            BY <1>4, <2>3, <2>7, <4>2
        <4> QED
            BY <2>9, <4>1, <4>2
      <3> QED
          BY <2>4, <3>1
    <2>18. /\ Ascending(r.records) /\ AtMost(r.records, made') /\ Before(lines', r.records)
           /\ Before(r.records, audit'.pending)
        BY <2>4, <2>15, <2>16
    <2>19. Ascending(audit'.pending) /\ AtMost(audit'.pending, made')
        BY <1>1, <1>5
    <2>20. r.pc # "off" /\ r.pc # "sleep" /\ UNCHANGED <<now, service>>
        BY <1>1, <2>4
    <2> QED
        BY <1>3, <1>7, <2>4, <2>5, <2>7, <2>11, <2>12, <2>13, <2>14, <2>17, <2>18, <2>19,
           <2>20, ThreadSteps
  <1>9. CASE /\ lines' = lines
             /\ timer' = [timer EXCEPT ![t].sequence = @ + 1, ![t].pc = "failed"]
    <2> DEFINE r == [timer[t] EXCEPT !.sequence = n + 1, !.pc = "failed"]
    <2>1. timer' = [timer EXCEPT ![t] = r]
        BY <1>2, <1>9
    <2>2. /\ r \in TimerState /\ r.pc = "failed" /\ r.records = x /\ r.sequence = n + 1
      <3>1. n + 1 \in Nat
          BY <1>4
      <3>2. [timer[t] EXCEPT !.sequence = n + 1] \in TimerState
          BY <1>4, <3>1 DEF TimerState
      <3> QED
          BY <1>4, <3>1, <3>2 DEF TimerState
    <2> HIDE DEF r, x, n
    <2>3. \A i \in 1 .. Len(lines') :
             lines'[i].seq <= IF r.pc = "sleep" THEN audit'.sequence ELSE r.sequence
        BY <1>4, <1>5, <1>9, <2>2, AuditFields
    <2>4. /\ Ascending(r.records) /\ AtMost(r.records, made') /\ Before(lines', r.records)
          /\ Before(r.records, audit'.pending)
        BY <1>1, <1>5, <1>9, <2>2
    <2>5. /\ Ascending(audit'.pending) /\ AtMost(audit'.pending, made') /\ Ascending(lines')
          /\ AtMost(lines', made') /\ Before(lines', audit'.pending)
          /\ \A i, j \in 1 .. Len(lines') : i < j => lines'[i].seq < lines'[j].seq
          /\ made' = Len(lines') + Len(audit'.pending) + audit'.suppressed + Len(r.records)
          /\ lines' \in Seq(AuditLine) /\ UNCHANGED <<now, service>>
        BY <1>1, <1>5, <1>6, <1>9, <2>2, AuditFields
    <2>6. r.pc # "off" /\ r.pc # "sleep"
        BY <2>2
    <2> QED
        BY <1>3, <1>7, <2>1, <2>2, <2>3, <2>4, <2>5, <2>6, ThreadSteps
  <1> QED
      BY <1>8, <1>9 DEF Audit!WriteLine

\* The flush ends: what an error left unwritten is counted.
LEMMA FlushKeeps ==
    ASSUME AuditInv, NEW t \in Timers, Audit!FlushEnds(t) PROVE AuditInv'
  <1> DEFINE x == timer[t].records
             n == timer[t].sequence
             lost == IF timer[t].pc = "failed" THEN Len(x) ELSE 0
             r == [Audit!Stopped EXCEPT !.pc = "sleep"]
  <1>1. /\ timer[t].pc = "failed" \/ (timer[t].pc = "write" /\ x = <<>>)
        /\ audit' = Audit!Settle(t) /\ timer' = [timer EXCEPT ![t] = r]
        /\ UNCHANGED <<now, service, started, made, lines>>
      BY DEF Audit!FlushEnds, Audit!Refresh
  <1>2. /\ AuditType /\ OneTimer /\ CountInv /\ OrderInv /\ NumberInv
        /\ timer \in [Timers -> TimerState] /\ audit \in AuditState
      BY DEF AuditInv, AuditType
  <1>3. (\A s \in Timers \ {t} : timer[s].pc = "off") /\ started = TRUE
      BY <1>1, <1>2, TheTimer DEF OneTimer, AuditType
  <1>4. Len(x) \in Nat /\ n \in Nat /\ lost \in Nat /\ lost = Len(x)
      BY <1>1, AuditFields
  <1>5. /\ made = Len(lines) + Len(audit.pending) + audit.suppressed + Len(x)
        /\ \A i \in 1 .. Len(lines) : lines[i].seq <= n
      BY <1>1, <1>2 DEF CountInv, NumberInv, Writing
  <1>6. /\ Ascending(audit.pending) /\ AtMost(audit.pending, made) /\ Ascending(lines)
        /\ AtMost(lines, made) /\ Before(lines, audit.pending)
        /\ \A i, j \in 1 .. Len(lines) : i < j => lines[i].seq < lines[j].seq
      BY <1>2 DEF OrderInv, NumberInv
  <1>7. r \in TimerState /\ r.pc = "sleep" /\ r.records = <<>>
    <2>1. r = [pc |-> "sleep", records |-> <<>>, sequence |-> 0, suppressed |-> 0]
        BY DEF Audit!Stopped
    <2> HIDE DEF r
    <2> QED
        BY <2>1 DEF TimerState
  <1>8. /\ audit' \in AuditState /\ audit'.pending = audit.pending /\ audit'.latest = audit.latest
        /\ audit'.captures = audit.captures /\ audit'.sequence = n
        /\ audit'.suppressed = audit.suppressed + lost
    <2> DEFINE f == IF timer[t].pc = "failed" THEN audit.failures + 1 ELSE audit.failures
               y == audit.suppressed + lost
    <2>1. audit' = [audit EXCEPT !.sequence = n, !.suppressed = y, !.failures = f]
        BY <1>1 DEF Audit!Settle
    <2>2. f \in Nat /\ y \in Nat
        BY <1>2, <1>4 DEF AuditState
    <2>3. y = audit.suppressed + lost
        OBVIOUS
    <2> HIDE DEF f, y, n
    <2>4. [audit EXCEPT !.sequence = n] \in AuditState
        BY <1>2, <1>4 DEF AuditState
    <2>5. [audit EXCEPT !.sequence = n, !.suppressed = y] \in AuditState
        BY <2>2, <2>4 DEF AuditState
    <2>6. /\ audit' \in AuditState /\ audit'.pending = audit.pending
          /\ audit'.latest = audit.latest /\ audit'.captures = audit.captures
          /\ audit'.sequence = n /\ audit'.suppressed = y
        BY <1>2, <2>1, <2>2, <2>5 DEF AuditState
    <2> QED
        BY <2>3, <2>6
  <1> HIDE DEF r, lost
  <1>9. made' = Len(lines') + Len(audit'.pending) + audit'.suppressed + Len(r.records)
    <2>1. \A a, b, c, d \in Nat : a + b + c + d = a + b + (c + d) + 0
        OBVIOUS
    <2>2. Len(r.records) = 0
        BY <1>7
    <2>3. Len(lines) \in Nat /\ Len(audit.pending) \in Nat /\ audit.suppressed \in Nat
        BY AuditFields
    <2>4. made = Len(lines) + Len(audit.pending) + (audit.suppressed + Len(x)) + 0
        BY <1>4, <1>5, <2>1, <2>3, SMTT(60)
    <2> QED
        BY <1>1, <1>4, <1>8, <2>2, <2>4
  <1>10. /\ Ascending(r.records) /\ AtMost(r.records, made') /\ Before(lines', r.records)
         /\ Before(r.records, audit'.pending)
    <2>1. Ascending(<<>>) /\ AtMost(<<>>, made') /\ Before(lines', <<>>)
          /\ Before(<<>>, audit'.pending)
        BY DEF Ascending, AtMost, Before
    <2> QED
        BY <1>7, <2>1
  <1>11. /\ Ascending(audit'.pending) /\ AtMost(audit'.pending, made') /\ Ascending(lines')
         /\ AtMost(lines', made') /\ Before(lines', audit'.pending)
         /\ \A i, j \in 1 .. Len(lines') : i < j => lines'[i].seq < lines'[j].seq
         /\ \A i \in 1 .. Len(lines') :
               lines'[i].seq <= IF r.pc = "sleep" THEN audit'.sequence ELSE r.sequence
      BY <1>1, <1>5, <1>6, <1>7, <1>8
  <1>12. /\ made' \in Nat /\ lines' \in Seq(AuditLine) /\ started' /\ started' \in BOOLEAN
         /\ r.pc # "off" /\ UNCHANGED <<now, service>>
      BY <1>1, <1>3, <1>7, AuditFields
  <1> QED
      BY <1>1, <1>3, <1>7, <1>8, <1>9, <1>10, <1>11, <1>12, ThreadSteps

\* The instance counts as this module does.
LEMMA SameCardinality == \A S : Audit!Cardinality(S) = Cardinality(S)
  BY DEF Audit!Cardinality, Cardinality

\* The records on the stacks are those of the one thread.
LEMMA Stacked ==
    ASSUME AuditInv
    PROVE  /\ \A t \in Timers : timer[t].pc # "off" =>
                 Cardinality(Audit!OnStacks) = Len(timer[t].records)
           /\ (\A t \in Timers : timer[t].pc = "off") => Cardinality(Audit!OnStacks) = 0
  <1>1. OneTimer
      BY DEF AuditInv
  <1>2. ASSUME NEW t \in Timers, timer[t].pc # "off"
        PROVE  Cardinality(Audit!OnStacks) = Len(timer[t].records)
    <2> DEFINE n == Len(timer[t].records)
    <2>1. n \in Nat
        BY AuditFields
    <2>2. \A s \in Timers \ {t} : timer[s].records = <<>>
        BY <1>1, <1>2, TheTimer
    <2>3. \A s \in Timers \ {t} : Len(timer[s].records) = 0
        BY <2>2
    <2>4. Audit!OnStacks = {t} \X (1 .. n)
      <3>1. \A s \in Timers \ {t} : 1 .. Len(timer[s].records) = {}
          BY <2>3
      <3> QED
          BY <3>1 DEF Audit!OnStacks
    <2> HIDE DEF n
    <2>5. Cardinality({t} \X (1 .. n)) = n
      <3>1. /\ IsFiniteSet(1 .. n) /\ Cardinality(1 .. n) = n
          BY <2>1, FS_Interval
      <3>2. IsFiniteSet({t}) /\ Cardinality({t}) = 1
          BY FS_Singleton
      <3>3. Cardinality({t} \X (1 .. n)) = Cardinality({t}) * Cardinality(1 .. n)
          BY <3>1, <3>2, FS_Product
      <3> QED
          BY <2>1, <3>1, <3>2, <3>3
    <2> QED
        BY <2>4, <2>5 DEF n
  <1>3. ASSUME \A t \in Timers : timer[t].pc = "off"
        PROVE  Cardinality(Audit!OnStacks) = 0
    <2>1. \A t \in Timers : timer[t].records = <<>>
        BY <1>1, <1>3 DEF OneTimer
    <2>2. \A t \in Timers : Len(timer[t].records) = 0
        BY <2>1
    <2>3. \A t \in Timers : 1 .. Len(timer[t].records) = {}
        BY <2>2
    <2>4. Audit!OnStacks = {}
        BY <2>3 DEF Audit!OnStacks
    <2> QED
        BY <2>4, FS_EmptySet
  <1> QED
      BY <1>2, <1>3

\* Each step of a refresh, of start and of a flush keeps the invariant.
LEMMA AuditKeeps ==
    ASSUME Audit!AuditAssumption, AuditInv, [Audit!Next]_Audit!vars PROVE AuditInv'
  BY RefreshKeeps, StartKeeps, TakeKeeps, WriteKeeps, FlushKeeps DEF Audit!Next

\* It says that the audit is sound.
LEMMA AuditInvSound == ASSUME AuditInv PROVE Audit!AuditSound
  <1>1. Audit!AllAccounted
    <2>1. CASE \A t \in Timers : timer[t].pc = "off"
      <3>1. made = Len(lines) + Len(audit.pending) + audit.suppressed
          BY <2>1 DEF AuditInv, CountInv
      <3>2. Cardinality(Audit!OnStacks) = 0
          BY <2>1, Stacked
      <3> QED
          BY <3>1, <3>2, SameCardinality, AuditFields DEF Audit!AllAccounted
    <2>2. CASE ~ \A t \in Timers : timer[t].pc = "off"
      <3>1. PICK t \in Timers : timer[t].pc # "off"
          BY <2>2
      <3>2. made = Len(lines) + Len(audit.pending) + audit.suppressed + Len(timer[t].records)
          BY <3>1 DEF AuditInv, CountInv
      <3>3. Cardinality(Audit!OnStacks) = Len(timer[t].records)
          BY <3>1, Stacked
      <3> QED
          BY <3>2, <3>3, SameCardinality DEF Audit!AllAccounted
    <2> QED
        BY <2>1, <2>2
  <1>2. Audit!LinesInOrder
      BY DEF AuditInv, OrderInv, NumberInv, Ascending, Audit!LinesInOrder
  <1>3. Audit!OutcomeCaptured /\ Audit!LatestTruthful
      BY DEF AuditInv, RefreshInv, Audit!OutcomeCaptured
  <1> QED
      BY <1>1, <1>2, <1>3 DEF Audit!AuditSound

\* Every record the audit was asked for is in the file, pending, on its way or counted;
\* lines are numbered upwards in the order of their captures; a refresh that begins in a
\* fresh window has its outcome captured; and the cached snapshot is the service's:
\* whatever refreshes, flushes and failed appends interleave.
THEOREM Audits == ASSUME Audit!AuditAssumption PROVE Audit!Spec => []Audit!AuditSound
  <1>1. Audit!Init => AuditInv
      BY AuditStarts
  <1>2. AuditInv /\ [Audit!Next]_Audit!vars => AuditInv'
      BY AuditKeeps
  <1>3. AuditInv => Audit!AuditSound
      BY AuditInvSound
  <1> QED
      BY <1>1, <1>2, <1>3, PTL DEF Audit!Spec

-----------------------------------------------------------------------------
(* The log files *)

FileStates == {"idle", "lock", "open", "size", "remove", "rename", "reopen", "truncate", "write",
               "close"}
LoggedFile == [bytes : Nat, ids : Seq(Nat)]
WriterState == [pc : FileStates, fd : Nat, rec : Nat, size : Nat]

FileType ==
    /\ mode \in {"rotate", "truncate"}
    /\ lock \in Writers \cup {"none"}
    /\ data \in Seq(LoggedFile)
    /\ current \in 0 .. Len(data) /\ previous \in 0 .. Len(data)
    /\ writer \in [Writers -> WriterState]
    /\ newest \in Nat

\* Only the writer that holds the lock is past asking for it.
Locked == \A w \in Writers : lock = w <=> writer[w].pc \notin {"idle", "lock"}

\* What a writer opened is still the file at the path, and what it found out about it
\* still holds.
Found(w) ==
    /\ writer[w].pc # "idle" => writer[w].size \in Sizes
    /\ writer[w].pc \in {"size", "remove", "rename", "truncate", "write",
               "close"}
         => current # 0 /\ writer[w].fd = current
    /\ writer[w].pc \in {"remove", "rename"} => mode = "rotate" /\ data[current].ids # <<>>
    /\ writer[w].pc = "reopen" => current = 0
    /\ writer[w].pc = "truncate" => mode = "truncate"
    /\ writer[w].pc = "write"
         => /\ data[current].bytes + writer[w].size <= FileBytes
            /\ mode = "truncate" => data[current].ids = <<>>

\* Files keep their bounds, and one without a record has no bytes.
Bounded ==
    \A f \in 1 .. Len(data) :
        /\ data[f].bytes <= FileBytes
        /\ data[f].ids = <<>> => data[f].bytes = 0
        /\ mode = "truncate" => Len(data[f].ids) <= 1

\* What was last written is in the current file, or in the previous one if there is no
\* current one or nothing in it.
NewestInv ==
    mode = "rotate" /\ newest # 0 =>
        IF current # 0 /\ data[current].ids # <<>> THEN newest \in File!Ids(current)
        ELSE previous # 0 /\ newest \in File!Ids(previous)

FileInv == FileType /\ Locked /\ (\A w \in Writers : Found(w)) /\ Bounded /\ NewestInv

\* An empty directory.
LEMMA FileStarts == ASSUME File!LogAssumption, File!Init PROVE FileInv
  <1>1. FileType
      BY EmptySeq DEF FileType, FileStates, WriterState, File!Init, File!Idle
  <1>2. \A w \in Writers : writer[w].pc = "idle" /\ lock # w
      BY DEF File!Init, File!Idle, File!LogAssumption
  <1>3. Locked /\ \A w \in Writers : Found(w)
      BY <1>2 DEF Locked, Found
  <1>4. Len(data) = 0 /\ newest = 0
      BY DEF File!Init
  <1> QED
      BY <1>1, <1>3, <1>4 DEF FileInv, Bounded, NewestInv

\* While one writer is at work the others wait or ask for the lock, and what is
\* known of them does not change.
LEMMA OthersWait ==
    ASSUME FileInv, NEW w \in Writers, lock = w,
           \A v \in Writers \ {w} : writer'[v] = writer[v]
    PROVE  \A v \in Writers \ {w} : writer'[v].pc \in {"idle", "lock"} /\ Found(v)'
  BY DEF FileInv, Locked, Found

\* Every record fits into an empty file.
LEMMA SizesFit ==
    ASSUME File!LogAssumption
    PROVE  FileBytes \in Nat /\ \A s \in Sizes : s \in Nat /\ s <= FileBytes
  <1>1. FileBytes \in Nat /\ \A s \in Sizes : s \in 1 .. FileBytes
      BY DEF File!LogAssumption
  <1> QED
      BY <1>1

\* A step of the writer that changes no file.
LEMMA WriterMoves ==
    ASSUME FileInv, NEW w \in Writers, NEW r \in WriterState,
           File!Set(w, r), UNCHANGED <<mode, lock, current, previous, data, newest>>,
           r.pc \in {"idle", "lock"} <=> writer[w].pc \in {"idle", "lock"}, Found(w)'
    PROVE  FileInv'
  <1>1. writer' = [writer EXCEPT ![w] = r] /\ writer \in [Writers -> WriterState]
      BY DEF File!Set, FileInv, FileType
  <1>2. writer'[w] = r /\ \A v \in Writers \ {w} : writer'[v] = writer[v]
      BY <1>1
  <1>3. FileType'
      BY <1>1 DEF FileInv, FileType
  <1>4. Locked'
      BY <1>2 DEF FileInv, Locked
  <1>5. \A v \in Writers : Found(v)'
      BY <1>2 DEF FileInv, Found
  <1>6. Bounded' /\ NewestInv'
      BY DEF FileInv, Bounded, NewestInv, File!Ids
  <1> QED
      BY <1>3, <1>4, <1>5, <1>6 DEF FileInv

\* Begin, the two ends of Lock, Size.
LEMMA AsksKeep ==
    ASSUME File!LogAssumption, FileInv, NEW w \in Writers,
           (\E s \in Sizes : File!Begin(w, s)) \/ File!Lock(w) \/ File!Size(w)
    PROVE  FileInv'
  <1>1. /\ writer \in [Writers -> WriterState] /\ data \in Seq(LoggedFile)
        /\ current \in 0 .. Len(data) /\ FileBytes \in Nat /\ Sizes \subseteq 1 .. FileBytes
      BY DEF FileInv, FileType, File!LogAssumption
  <1>2. ASSUME NEW s \in Sizes, File!Begin(w, s) PROVE FileInv'
    <2>1. PICK id \in 1 .. MaxRecords :
              File!Set(w, [pc |-> "lock", fd |-> 0, rec |-> id, size |-> s])
        BY <1>2 DEF File!Begin
    <2> DEFINE r == [pc |-> "lock", fd |-> 0, rec |-> id, size |-> s]
    <2>2. r \in WriterState /\ r.pc = "lock" /\ r.size \in Sizes
        BY <1>1 DEF WriterState, FileStates
    <2>3. writer[w].pc = "idle" /\ UNCHANGED <<mode, lock, current, previous, data, newest>>
        BY <1>2 DEF File!Begin, File!At
    <2>4. Found(w)'
        BY <1>1, <2>1 DEF Found, File!Set
    <2> QED
        BY <2>1, <2>2, <2>3, <2>4, WriterMoves
  <1>3. CASE File!Lock(w) /\ lock # "none"
    <2>1. File!Set(w, File!Idle) /\ UNCHANGED <<mode, lock, current, previous, data, newest>>
        BY <1>3 DEF File!Lock
    <2>2. File!Idle \in WriterState /\ File!Idle.pc = "idle" /\ writer[w].pc = "lock"
        BY <1>3 DEF File!Lock, File!At, File!Idle, WriterState, FileStates
    <2>3. Found(w)'
        BY <1>1, <2>1 DEF Found, File!Set, File!Idle
    <2> QED
        BY <2>1, <2>2, <2>3, WriterMoves
  <1>4. CASE File!Lock(w) /\ lock = "none"
    <2>1. /\ writer' = [writer EXCEPT ![w] = [writer[w] EXCEPT !.pc = "open"]]
          /\ lock' = w /\ writer[w].pc = "lock"
          /\ UNCHANGED <<mode, current, previous, data, newest>>
        BY <1>4 DEF File!Lock, File!Goto, File!Set, File!At
    <2>2. /\ writer'[w].pc = "open" /\ writer'[w].size = writer[w].size
          /\ \A v \in Writers \ {w} : writer'[v] = writer[v]
        BY <1>1, <2>1 DEF WriterState
    <2>3. FileType'
      <3>1. [writer[w] EXCEPT !.pc = "open"] \in WriterState
          BY <1>1 DEF WriterState, FileStates
      <3> QED
          BY <1>1, <2>1, <3>1 DEF FileInv, FileType
    <2>4. \A v \in Writers : lock # v
        BY <1>4 DEF File!LogAssumption
    <2>5. Locked'
        BY <2>1, <2>2, <2>4 DEF FileInv, Locked
    <2>6. \A v \in Writers : Found(v)'
        BY <2>1, <2>2 DEF FileInv, Found
    <2>7. Bounded' /\ NewestInv'
        BY <2>1 DEF FileInv, Bounded, NewestInv, File!Ids
    <2> QED
        BY <2>3, <2>5, <2>6, <2>7 DEF FileInv
  <1>5. CASE File!Size(w)
    <2> DEFINE used == data[writer[w].fd].bytes
               l == IF used > FileBytes THEN "close"
                    ELSE IF mode = "truncate" THEN "truncate"
                    ELSE IF used + writer[w].size > FileBytes THEN "remove" ELSE "write"
               r == [writer[w] EXCEPT !.pc = l]
    <2>1. File!Set(w, r) /\ UNCHANGED <<mode, lock, current, previous, data, newest>>
        BY <1>5 DEF File!Size, File!Goto
    <2>2. writer[w].pc = "size"
        BY <1>5 DEF File!Size, File!At
    <2>3. /\ r \in WriterState /\ r.pc = l /\ r.size = writer[w].size /\ r.fd = writer[w].fd
          /\ l \in {"close", "truncate", "remove", "write"}
        BY <1>1 DEF WriterState, FileStates
    <2>4. writer'[w] = r
        BY <1>1, <2>1 DEF File!Set
    <2>5. current # 0 /\ writer[w].fd = current /\ writer[w].size \in Sizes
        BY <2>2 DEF FileInv, Found
    <2>6. data[current].bytes \in Nat /\ (data[current].ids = <<>> => data[current].bytes = 0)
      <3>1. current \in 1 .. Len(data)
          BY <1>1, <2>5
      <3>2. data[current] \in LoggedFile
          BY <1>1, <3>1, ElementOfSeq
      <3> QED
          BY <3>1, <3>2 DEF FileInv, Bounded, LoggedFile
    <2>7. Found(w)'
      <3>1. mode \in {"rotate", "truncate"}
          BY DEF FileInv, FileType
      <3>2. CASE used > FileBytes
          BY <2>1, <2>3, <2>4, <2>5, <3>2 DEF Found
      <3>3. CASE ~(used > FileBytes) /\ mode = "truncate"
          BY <2>1, <2>3, <2>4, <2>5, <3>3 DEF Found
      <3>4. CASE ~(used > FileBytes) /\ mode = "rotate" /\ used + writer[w].size > FileBytes
        <4>1. data[current].ids # <<>>
          <5>1. writer[w].size <= FileBytes /\ writer[w].size \in Int
              BY <2>5, SizesFit
          <5>2. used = data[current].bytes
              BY <2>5
          <5> QED
              BY <1>1, <2>6, <3>4, <5>1, <5>2
        <4>2. r.pc = "remove"
            BY <2>3, <3>4
        <4> QED
            BY <2>1, <2>3, <2>4, <2>5, <3>4, <4>1, <4>2 DEF Found
      <3>5. CASE ~(used > FileBytes) /\ mode = "rotate" /\ ~(used + writer[w].size > FileBytes)
        <4>1. r.pc = "write" /\ data[current].bytes + writer[w].size <= FileBytes
            BY <1>1, <2>3, <2>5, <2>6, <3>5
        <4> QED
            BY <2>1, <2>3, <2>4, <2>5, <3>5, <4>1 DEF Found
      <3> QED
          BY <3>1, <3>2, <3>3, <3>4, <3>5
    <2> HIDE DEF l, r
    <2> QED
        BY <2>1, <2>2, <2>3, <2>7, WriterMoves
  <1> QED
      BY <1>2, <1>3, <1>4, <1>5

\* Open and Reopen, which create a file when there is none.
LEMMA OpensKeep ==
    ASSUME File!LogAssumption, FileInv, NEW w \in Writers, File!Open(w) \/ File!Reopen(w)
    PROVE  FileInv'
  <1> DEFINE l == IF File!Open(w) THEN "size" ELSE "write"
  <1>1. /\ writer \in [Writers -> WriterState] /\ data \in Seq(LoggedFile)
        /\ current \in 0 .. Len(data) /\ FileBytes \in Nat /\ Sizes \subseteq 1 .. FileBytes
        /\ previous \in 0 .. Len(data) /\ Len(data) \in Nat
      BY LenProperties DEF FileInv, FileType, File!LogAssumption
  <1>2. /\ writer[w].pc = (IF l = "size" THEN "open" ELSE "reopen") /\ File!OpenAs(w, l)
        /\ UNCHANGED <<mode, lock, previous, newest>>
      BY DEF File!Open, File!Reopen, File!At
  <1>3. lock = w
      BY <1>2 DEF FileInv, Locked
  <1>4. writer[w].size \in Sizes /\ (l = "write" => current = 0)
      BY <1>2 DEF FileInv, Found
  <1>5. l \in {"size", "write"}
      OBVIOUS
  <1> HIDE DEF l
  <1>6. CASE current # 0
    <2> DEFINE r == [writer[w] EXCEPT !.pc = l, !.fd = current]
    <2>1. File!Set(w, r) /\ UNCHANGED <<current, data>>
        BY <1>2, <1>6 DEF File!OpenAs
    <2>2. r \in WriterState /\ r.pc = "size" /\ r.fd = current /\ r.size = writer[w].size
      <3>1. writer[w] \in WriterState /\ current \in Nat /\ l = "size"
          BY <1>1, <1>4, <1>5, <1>6
      <3> QED
          BY <3>1 DEF WriterState, FileStates
    <2>3. writer'[w] = r
        BY <1>1, <2>1 DEF File!Set
    <2>4. Found(w)'
        BY <1>4, <1>6, <2>1, <2>2, <2>3 DEF Found
    <2>5. writer[w].pc \notin {"idle", "lock"}
        BY <1>2
    <2> HIDE DEF r
    <2> QED
        BY <1>2, <2>1, <2>2, <2>4, <2>5, WriterMoves
  <1>7. CASE current = 0
    <2> DEFINE k == Len(data) + 1
               r == [writer[w] EXCEPT !.pc = l, !.fd = k]
    <2>1. /\ current' = k /\ data' = Append(data, File!Empty)
          /\ writer' = [writer EXCEPT ![w] = r]
        BY <1>2, <1>7 DEF File!OpenAs, File!Set
    <2>2. r \in WriterState /\ r.pc = l /\ r.fd = k /\ r.size = writer[w].size
      <3>1. writer[w] \in WriterState /\ k \in Nat
          BY <1>1
      <3> HIDE DEF k
      <3> QED
          BY <1>5, <3>1 DEF WriterState, FileStates
    <2> HIDE DEF r
    <2>3. writer'[w] = r /\ \A v \in Writers \ {w} : writer'[v] = writer[v]
        BY <1>1, <2>1
    <2>4. File!Empty \in LoggedFile /\ File!Empty.bytes = 0 /\ File!Empty.ids = <<>>
        BY EmptySeq DEF LoggedFile, File!Empty
    <2>5. /\ data' \in Seq(LoggedFile) /\ Len(data') = k /\ data'[k] = File!Empty
          /\ \A f \in 1 .. Len(data) : data'[f] = data[f]
        BY <1>1, <2>1, <2>4, AppendProperties
    <2>6. FileType'
      <3>1. writer' \in [Writers -> WriterState]
          BY <1>1, <2>1, <2>2
      <3>2. current' \in 0 .. Len(data') /\ previous' \in 0 .. Len(data')
          BY <1>1, <1>2, <2>1, <2>5
      <3> QED
          BY <1>2, <2>5, <3>1, <3>2 DEF FileInv, FileType
    <2>7. Locked'
        BY <1>2, <1>3, <1>5, <2>2, <2>3 DEF FileInv, Locked
    <2>8. Found(w)'
      <3>1. k # 0 /\ 0 + writer[w].size <= FileBytes
        <4>1. Len(data) \in Nat
            BY <1>1
        <4>2. FileBytes \in Nat /\ writer[w].size \in Nat /\ writer[w].size <= FileBytes
            BY <1>4, SizesFit
        <4> QED
            BY <4>1, <4>2
      <3> QED
          BY <1>4, <1>5, <2>1, <2>2, <2>3, <2>4, <2>5, <3>1 DEF Found
    <2>9. \A v \in Writers : Found(v)'
        BY <1>3, <2>3, <2>8, OthersWait
    <2>10. Bounded'
        BY <1>1, <1>2, <2>4, <2>5 DEF FileInv, Bounded
    <2>11. NewestInv'
        BY <1>1, <1>2, <1>7, <2>1, <2>4, <2>5 DEF FileInv, NewestInv, File!Ids
    <2> QED
        BY <2>6, <2>7, <2>9, <2>10, <2>11 DEF FileInv
  <1> QED
      BY <1>6, <1>7

\* Remove and Rename: what was written last has just been seen in the current file.
LEMMA RotationKeeps ==
    ASSUME FileInv, NEW w \in Writers, File!Remove(w) \/ File!Rename(w)
    PROVE  FileInv'
  <1> DEFINE l == IF File!Remove(w) THEN "rename" ELSE "reopen"
             r == [writer[w] EXCEPT !.pc = l]
  <1>1. /\ writer \in [Writers -> WriterState]
        /\ current \in 0 .. Len(data) /\ previous \in 0 .. Len(data)
      BY DEF FileInv, FileType
  <1>2. /\ writer[w].pc \in {"remove", "rename"} /\ writer' = [writer EXCEPT ![w] = r]
        /\ UNCHANGED <<mode, lock, data, newest>>
        /\ \/ l = "rename" /\ previous' = 0 /\ current' = current
           \/ l = "reopen" /\ previous' = current /\ current' = 0
      BY DEF File!Remove, File!Rename, File!At, File!Goto, File!Set
  <1>3. /\ r \in WriterState /\ r.pc = l /\ r.fd = writer[w].fd /\ r.size = writer[w].size
        /\ l \in {"rename", "reopen"}
      BY <1>1 DEF WriterState, FileStates
  <1> HIDE DEF l, r
  <1>4. writer'[w] = r /\ \A v \in Writers \ {w} : writer'[v] = writer[v]
      BY <1>1, <1>2
  <1>5. lock = w
      BY <1>2 DEF FileInv, Locked
  <1>6. /\ current # 0 /\ writer[w].fd = current /\ mode = "rotate" /\ data[current].ids # <<>>
        /\ writer[w].size \in Sizes
      BY <1>2 DEF FileInv, Found
  <1>7. FileType'
    <2>1. writer' \in [Writers -> WriterState]
        BY <1>1, <1>2, <1>3
    <2>2. current' \in 0 .. Len(data) /\ previous' \in 0 .. Len(data)
      <3>1. Len(data) \in Nat
          BY LenProperties DEF FileInv, FileType
      <3> QED
          BY <1>1, <1>2, <3>1
    <2> QED
        BY <1>2, <2>1, <2>2 DEF FileInv, FileType
  <1>8. Locked'
      BY <1>2, <1>3, <1>4, <1>5 DEF FileInv, Locked
  <1>9. Found(w)'
      BY <1>2, <1>3, <1>4, <1>6 DEF Found
  <1>10. \A v \in Writers : Found(v)'
      BY <1>4, <1>5, <1>9, OthersWait
  <1>11. Bounded' /\ NewestInv'
      BY <1>2, <1>6 DEF FileInv, Bounded, NewestInv, File!Ids
  <1> QED
      BY <1>7, <1>8, <1>10, <1>11 DEF FileInv

\* Truncate and Write, which change the current file.
LEMMA WritesKeep ==
    ASSUME File!LogAssumption, FileInv, NEW w \in Writers, File!Truncate(w) \/ File!Write(w)
    PROVE  FileInv'
  <1>1. /\ writer \in [Writers -> WriterState] /\ data \in Seq(LoggedFile)
        /\ current \in 0 .. Len(data) /\ FileBytes \in Nat /\ Sizes \subseteq 1 .. FileBytes
        /\ Len(data) \in Nat /\ newest \in Nat
      BY LenProperties DEF FileInv, FileType, File!LogAssumption
  <1>2. writer[w].pc \in {"truncate", "write"}
      BY DEF File!Truncate, File!Write, File!At
  <1>3. lock = w
      BY <1>2 DEF FileInv, Locked
  <1>4. /\ current # 0 /\ writer[w].fd = current /\ writer[w].size \in Sizes
        /\ writer[w].pc = "truncate" => mode = "truncate"
        /\ writer[w].pc = "write" => /\ data[current].bytes + writer[w].size <= FileBytes
                                     /\ mode = "truncate" => data[current].ids = <<>>
      BY <1>2 DEF FileInv, Found
  <1>5. /\ current \in 1 .. Len(data) /\ data[current] \in LoggedFile
        /\ data[current].bytes \in Nat /\ data[current].ids \in Seq(Nat)
        /\ writer[w].rec \in Nat
    <2>1. current \in 1 .. Len(data)
        BY <1>1, <1>4
    <2>2. data[current] \in LoggedFile
        BY <1>1, <2>1, ElementOfSeq
    <2> QED
        BY <1>1, <2>1, <2>2 DEF LoggedFile, WriterState
  <1> DEFINE l == IF File!Truncate(w) THEN "write" ELSE "close"
             r == [writer[w] EXCEPT !.pc = l]
  <1>6. PICK file \in LoggedFile :
          /\ data' = [data EXCEPT ![current] = file]
          /\ file.bytes <= FileBytes /\ (file.ids = <<>> => file.bytes = 0)
          /\ mode = "truncate" => Len(file.ids) <= 1
          /\ l = "write" => mode = "truncate" /\ file = File!Empty
          /\ l = "write" => newest' = newest
          /\ l = "close" => newest' = writer[w].rec
                             /\ \E i \in 1 .. Len(file.ids) : file.ids[i] = newest'
    <2>1. CASE File!Truncate(w)
      <3>1. File!Empty \in LoggedFile /\ File!Empty.bytes = 0 /\ File!Empty.ids = <<>>
          BY EmptySeq DEF LoggedFile, File!Empty
      <3>2. writer[w].pc = "truncate" /\ data' = [data EXCEPT ![current] = File!Empty]
          BY <1>4, <2>1 DEF File!Truncate, File!At
      <3>3. newest' = newest
          BY <2>1 DEF File!Truncate
      <3>4. l = "write" /\ Len(<<>>) = 0 /\ 0 <= FileBytes
          BY <1>1, <2>1
      <3> QED
        <4>1. /\ File!Empty.bytes <= FileBytes
              /\ File!Empty.ids = <<>> => File!Empty.bytes = 0
              /\ Len(File!Empty.ids) <= 1
            BY <3>1, <3>4
        <4>2. l = "write" => mode = "truncate"
            BY <1>4, <3>2
        <4> HIDE DEF l
        <4> QED
            BY <3>1, <3>2, <3>3, <3>4, <4>1, <4>2
    <2>2. CASE File!Write(w)
      <3>1. writer[w].pc = "write"
          BY <2>2 DEF File!Write, File!At
      <3>2. l = "close"
          BY <3>1 DEF File!Truncate, File!At
      <3>3. PICK n \in 1 .. writer[w].size :
                data' = [data EXCEPT ![writer[w].fd] =
                           [bytes |-> @.bytes + n, ids |-> Append(@.ids, writer[w].rec)]]
          BY <2>2 DEF File!Write
      <3> DEFINE f == [bytes |-> data[current].bytes + n,
                       ids |-> Append(data[current].ids, writer[w].rec)]
      <3>4. data' = [data EXCEPT ![current] = f]
          BY <1>4, <1>5, <3>3
      <3>5. /\ f.ids \in Seq(Nat) /\ Len(f.ids) = Len(data[current].ids) + 1
            /\ f.ids[Len(data[current].ids) + 1] = writer[w].rec
            /\ Len(data[current].ids) \in Nat
          BY <1>5, AppendProperties, LenProperties
      <3>6. f.bytes \in Nat /\ f.bytes <= FileBytes /\ f \in LoggedFile
        <4>1. n \in Nat /\ n <= writer[w].size /\ writer[w].size \in Nat
            BY <1>4, SizesFit
        <4>2. data[current].bytes + writer[w].size <= FileBytes
            BY <1>4, <3>1
        <4>3. f.bytes \in Nat /\ f.bytes <= FileBytes
            BY <1>1, <1>5, <4>1, <4>2
        <4> QED
            BY <3>5, <4>3 DEF LoggedFile
      <3>7. newest' = writer[w].rec
          BY <2>2 DEF File!Write
      <3>8. f.ids # <<>> /\ (mode = "truncate" => Len(f.ids) <= 1)
        <4>1. mode = "truncate" => Len(data[current].ids) = 0
          <5>1. Len(<<>>) = 0
              OBVIOUS
          <5>2. mode = "truncate" => data[current].ids = <<>>
              BY <1>4, <3>1
          <5> QED
              BY <5>1, <5>2
        <4>2. Len(<<>>) = 0
            OBVIOUS
        <4> QED
            BY <3>5, <4>1, <4>2
      <3>9. \E i \in 1 .. Len(f.ids) : f.ids[i] = newest'
          BY <3>5, <3>7
      <3> HIDE DEF f
      <3> QED
          BY <3>2, <3>4, <3>6, <3>7, <3>8, <3>9
    <2> QED
        BY <2>1, <2>2
  <1>7. writer' = [writer EXCEPT ![w] = r] /\ UNCHANGED <<mode, lock, current, previous>>
    <2>1. File!Write(w) => ~File!Truncate(w)
        BY DEF File!Write, File!Truncate, File!At
    <2> QED
        BY <2>1 DEF File!Write, File!Truncate, File!Goto, File!Set
  <1>8. /\ r \in WriterState /\ r.pc = l /\ r.fd = current /\ r.size = writer[w].size
        /\ l \in {"write", "close"}
      BY <1>1, <1>4 DEF WriterState, FileStates
  <1> HIDE DEF l, r
  <1>9. writer'[w] = r /\ \A v \in Writers \ {w} : writer'[v] = writer[v]
      BY <1>1, <1>7
  <1>10. /\ data' \in Seq(LoggedFile) /\ Len(data') = Len(data) /\ data'[current] = file
         /\ \A f \in 1 .. Len(data) \ {current} : data'[f] = data[f]
      BY <1>1, <1>5, <1>6, ExceptSeq
  <1>11. FileType'
    <2>1. writer' \in [Writers -> WriterState]
        BY <1>1, <1>7, <1>8
    <2>2. newest' \in Nat
        BY <1>1, <1>5, <1>6, <1>8
    <2> QED
        BY <1>7, <1>10, <2>1, <2>2 DEF FileInv, FileType
  <1>12. Locked'
      BY <1>3, <1>7, <1>8, <1>9 DEF FileInv, Locked
  <1>13. Found(w)'
    <2>1. File!Empty.bytes + writer[w].size <= FileBytes /\ File!Empty.ids = <<>>
      <3>1. writer[w].size \in 1 .. FileBytes
          BY <1>1, <1>4
      <3> QED
          BY <1>1, <3>1 DEF File!Empty
    <2> QED
        BY <1>4, <1>6, <1>7, <1>8, <1>9, <1>10, <2>1 DEF Found
  <1>14. \A v \in Writers : Found(v)'
      BY <1>3, <1>9, <1>13, OthersWait
  <1>15. Bounded'
      BY <1>6, <1>7, <1>10 DEF FileInv, Bounded
  <1>16. NewestInv'
    <2>1. CASE l = "write"
        BY <1>6, <1>7, <2>1 DEF NewestInv
    <2>2. CASE l = "close"
      <3>1. newest' \in File!Ids(current)' /\ data'[current].ids # <<>>
          BY <1>6, <1>7, <1>10, <2>2 DEF File!Ids
      <3> QED
          BY <1>4, <1>7, <3>1 DEF NewestInv
    <2> QED
        BY <1>8, <2>1, <2>2
  <1> QED
      BY <1>11, <1>12, <1>14, <1>15, <1>16 DEF FileInv

\* Close, and the end of a process.
LEMMA CloseKeeps ==
    ASSUME File!LogAssumption, FileInv, NEW w \in Writers, File!Close(w)
    PROVE  FileInv'
  <1>1. /\ writer \in [Writers -> WriterState]
        /\ writer' = [writer EXCEPT ![w] = File!Idle]
        /\ UNCHANGED <<mode, current, previous, data, newest>>
        /\ lock' = IF lock = w THEN "none" ELSE lock
      BY DEF File!Close, File!Set, FileInv, FileType
  <1>2. lock = w
      BY DEF File!Close, FileInv, Locked
  <1>3. File!Idle \in WriterState /\ File!Idle.pc = "idle"
      BY DEF File!Idle, WriterState, FileStates
  <1>4. writer'[w].pc = "idle" /\ \A v \in Writers \ {w} : writer'[v] = writer[v]
      BY <1>1, <1>3
  <1>5. FileType'
      BY <1>1, <1>3 DEF FileInv, FileType
  <1>6. \A v \in Writers : writer'[v].pc \in {"idle", "lock"} /\ Found(v)'
      BY <1>2, <1>4, OthersWait DEF Found
  <1>7. Locked'
    <2>1. \A v \in Writers : lock' # v
        BY <1>1, <1>2 DEF File!LogAssumption
    <2> QED
        BY <1>6, <2>1 DEF Locked
  <1>8. Bounded' /\ NewestInv'
      BY <1>1 DEF FileInv, Bounded, NewestInv, File!Ids
  <1> QED
      BY <1>5, <1>6, <1>7, <1>8 DEF FileInv

\* Every step keeps the invariant of the files.
LEMMA FileKeeps ==
    ASSUME File!LogAssumption, FileInv, [File!Next]_(File!vars) PROVE FileInv'
  <1>1. CASE UNCHANGED File!vars
      BY <1>1 DEF File!vars, FileInv, FileType, Locked, Found, Bounded, NewestInv, File!Ids
  <1>2. CASE File!Next
      BY <1>2, AsksKeep, OpensKeep, RotationKeeps, WritesKeep, CloseKeeps DEF File!Next
  <1> QED
      BY <1>1, <1>2

\* What it says of the properties.
LEMMA FileInvKept == ASSUME FileInv PROVE File!FilesBounded /\ File!NewestKept
  <1>1. File!FilesBounded
      BY DEF FileInv, Bounded, File!FilesBounded
  <1>2. File!NewestKept
      BY DEF FileInv, NewestInv, File!NewestKept
  <1> QED
      BY <1>1, <1>2

\* No log grows past its bound, a summary holds what one write left, and what was
\* written last is in one of the two files, through every rotation and wherever a
\* process ends (watch.rs append_trigger_record, write_startup_summary;
\* serve_memory.rs append_record).
THEOREM Logs ==
    ASSUME File!LogAssumption PROVE File!Spec => [](File!FilesBounded /\ File!NewestKept)
  <1>1. File!Init => FileInv
      BY FileStarts
  <1>2. FileInv /\ [File!Next]_(File!vars) => FileInv'
      BY FileKeeps
  <1>3. FileInv => File!FilesBounded /\ File!NewestKept
      BY FileInvKept
  <1> QED
      BY <1>1, <1>2, <1>3, PTL DEF File!Spec

-----------------------------------------------------------------------------
(* The trigger log *)

Event == [id : Nat, kind : Trigger!Kinds]
Told == [count : Nat, signals : Nat, first : Seq(Event), last : Event \cup {Trigger!NoEvent},
         recovery : Event \cup {Trigger!NoEvent}]
Call == [priority : BOOLEAN, how : {"suppressed", "oversized", "written", "failed"}, window : Nat]
LogState == [window : Nat, records : Nat, suppressed : Nat, oversized : Nat, failures : Nat,
             until : Nat]

TriggerType ==
    /\ now \in Nat /\ shown \in Nat /\ log \in LogState /\ calls \in Seq(Call)
    /\ inbox \in Told /\ pending \in Told
    /\ events \in [inbox : Seq(Event), pending : Seq(Event)]

\* Windows follow each other.
Windows(l, s) == \A i \in 1 .. Len(s) : s[i].window <= l.window

\* The lines that a window got from one kind of call, among the first k calls.
Lines(s, w, p, k) ==
    {j \in 1 .. k : s[j].window = w /\ s[j].priority = p /\ s[j].how = "written"}

NoFailure(s, k) == \A j \in 1 .. k : s[j].how # "failed"

\* Until an append fails, the slots taken are the lines of the window, and ordinary
\* calls have no more of them than they may.
Slots(l, s) ==
    NoFailure(s, Len(s)) =>
        /\ l.until = Trigger!None
        /\ l.records = Cardinality(Lines(s, l.window, TRUE, Len(s)))
                       + Cardinality(Lines(s, l.window, FALSE, Len(s)))
        /\ Cardinality(Lines(s, l.window, FALSE, Len(s))) <= Records - Reserved

\* What the properties say of a sequence of calls.
LastLine(s, k) ==
    {i \in 1 .. k : s[i].how = "written" /\ \A j \in i + 1 .. k : s[j].how # "written"}
OneAfter(S) == IF S = {} THEN 1 ELSE 1 + CHOOSE i \in S : TRUE
After(s, k) == OneAfter(LastLine(s, k))

Gaps(l, s) == l.suppressed + l.oversized = Len(s) + 1 - After(s, Len(s))
Shown(n, s) ==
    s # <<>> /\ s[Len(s)].how = "written" => n = Len(s) - After(s, Len(s) - 1)

Heard(s) ==
    \A i \in 1 .. Len(s) :
        s[i].priority /\ s[i].how = "suppressed" /\ NoFailure(s, i - 1) =>
            Cardinality(Lines(s, s[i].window, TRUE, i - 1)) >= Reserved

\* And of a batch and its events.
Signals(s) == {i \in 1 .. Len(s) : s[i].kind = "recover"}
Reasons(s) == {s[i] : i \in {j \in 1 .. Len(s) : s[j].kind # "plain"}}
Least(a, b) == IF a < b THEN a ELSE b
Exact(d, s) ==
    /\ d.count = Len(s)
    /\ Len(d.first) = Least(3, Len(s)) /\ \A i \in 1 .. Len(d.first) : d.first[i] = s[i]
    /\ d.signals = Cardinality(Signals(s))
    /\ d.last = IF s = <<>> THEN Trigger!NoEvent ELSE s[Len(s)]
    /\ IF Reasons(s) = {} THEN d.recovery = Trigger!NoEvent ELSE d.recovery \in Reasons(s)

TriggerInv ==
    /\ TriggerType /\ log.window <= now /\ Windows(log, calls) /\ Slots(log, calls)
    /\ Gaps(log, calls) /\ Shown(shown, calls) /\ Heard(calls)
    /\ Exact(inbox, events.inbox) /\ Exact(pending, events.pending)

\* The properties are those of the calls and of the two batches.
LEMMA TriggerInvTold ==
    ASSUME TriggerInv
    PROVE  Trigger!GapsCounted /\ Trigger!RecoveryHeard /\ Trigger!EvidenceExact
  <1>1. calls \in Seq(Call) /\ Len(calls) \in Nat
      BY LenProperties DEF TriggerInv, TriggerType
  <1>2. ASSUME NEW k \in Int PROVE Trigger!Since(k) = After(calls, k)
      BY DEF Trigger!Since, Trigger!LastWritten, Trigger!Lost, After, LastLine, OneAfter
  <1>3. Trigger!GapsCounted
      BY <1>1, <1>2 DEF TriggerInv, Gaps, Shown, Trigger!GapsCounted, Trigger!Lost
  <1>4. Trigger!RecoveryHeard
    <2>1. \A S : Trigger!Cardinality(S) = Cardinality(S)
        BY DEF Trigger!Cardinality, Cardinality
    <2> SUFFICES ASSUME NEW i \in 1 .. Len(calls), calls[i].priority,
                        calls[i].how = "suppressed",
                        \A j \in 1 .. i - 1 : calls[j].how # "failed"
                 PROVE  Trigger!Cardinality(
                            {j \in 1 .. i - 1 :
                                calls[j].window = calls[i].window /\ calls[j].priority
                                /\ calls[j].how = "written"}) >= Reserved
        BY DEF Trigger!RecoveryHeard
    <2>2. Cardinality(Lines(calls, calls[i].window, TRUE, i - 1)) >= Reserved
        BY DEF TriggerInv, Heard, NoFailure
    <2>3. \A j \in 1 .. i - 1 : calls[j].priority \in BOOLEAN
      <3>1. \A j \in 1 .. Len(calls) : calls[j] \in Call
          BY <1>1, ElementOfSeq
      <3> QED
          BY <1>1, <3>1 DEF Call
    <2>4. Lines(calls, calls[i].window, TRUE, i - 1)
            = {j \in 1 .. i - 1 : calls[j].window = calls[i].window /\ calls[j].priority
                                  /\ calls[j].how = "written"}
        BY <2>3 DEF Lines
    <2> QED
        BY <2>1, <2>2, <2>4
  <1>5. ASSUME NEW d \in Told, NEW s \in Seq(Event), Exact(d, s)
        PROVE  /\ d.count = Len(s) /\ d.first = SubSeq(s, 1, Trigger!Shorter(3, Len(s)))
               /\ d.signals = Trigger!Cardinality({i \in 1 .. Len(s) : s[i].kind = "recover"})
               /\ d.last = IF s = <<>> THEN Trigger!NoEvent ELSE s[Len(s)]
               /\ LET reasons == {s[i] : i \in {j \in 1 .. Len(s) : s[j].kind # "plain"}}
                  IN  IF reasons = {} THEN d.recovery = Trigger!NoEvent
                      ELSE d.recovery \in reasons
    <2>1. Trigger!Cardinality(Signals(s)) = Cardinality(Signals(s))
        BY DEF Trigger!Cardinality, Cardinality
    <2>2. d.first = SubSeq(s, 1, Trigger!Shorter(3, Len(s)))
      <3> DEFINE m == Least(3, Len(s))
                 t == SubSeq(s, 1, m)
      <3>1. Len(s) \in Nat /\ m \in Nat /\ m <= Len(s) /\ Trigger!Shorter(3, Len(s)) = m
          BY LenProperties DEF Least, Trigger!Shorter
      <3> HIDE DEF m
      <3>2. \A i \in 1 .. m : s[i] \in Event
          BY <3>1, ElementOfSeq
      <3>3. t \in Seq(Event) /\ Len(t) = m /\ \A i \in 1 .. m : t[i] = s[i]
          BY <3>1, <3>2, SubSeqProperties
      <3>4. d.first \in Seq(Event) /\ Len(d.first) = m /\ \A i \in 1 .. m : d.first[i] = s[i]
          BY <1>5 DEF Told, Exact, m
      <3> HIDE DEF t
      <3>5. d.first = t
          BY <3>3, <3>4, SeqEqual
      <3> QED
          BY <3>1, <3>5 DEF t
    <2> QED
        BY <1>5, <2>1, <2>2 DEF Exact, Signals, Reasons
  <1>6. /\ inbox \in Told /\ events.inbox \in Seq(Event) /\ Exact(inbox, events.inbox)
        /\ pending \in Told /\ events.pending \in Seq(Event) /\ Exact(pending, events.pending)
      BY DEF TriggerInv, TriggerType
  <1>7. Trigger!EvidenceExact
      BY <1>5, <1>6 DEF Trigger!EvidenceExact
  <1> QED
      BY <1>3, <1>4, <1>7

\* Nothing has happened.
LEMMA TriggerStarts == ASSUME Trigger!TriggerAssumption, Trigger!Init PROVE TriggerInv
  <1>1. /\ now = 1 /\ shown = 0 /\ calls = <<>> /\ log.window = 1 /\ log.records = 0
        /\ log.suppressed = 0 /\ log.oversized = 0 /\ log.until = Trigger!None
        /\ events.inbox = <<>> /\ events.pending = <<>>
        /\ inbox = Trigger!NoDiagnostics /\ pending = Trigger!NoDiagnostics
      BY DEF Trigger!Init
  <1>2. Len(<<>>) = 0
      OBVIOUS
  <1>3. TriggerType
    <2>1. Trigger!NoDiagnostics \in Told
        BY EmptySeq DEF Trigger!NoDiagnostics, Told
    <2>2. log \in LogState /\ events \in [inbox : Seq(Event), pending : Seq(Event)]
        BY EmptySeq DEF Trigger!Init, Trigger!None, LogState
    <2> QED
        BY <1>1, <2>1, <2>2, EmptySeq DEF TriggerType
  <1>4. Slots(log, calls)
    <2>1. \A w, p : Lines(calls, w, p, Len(calls)) = {}
        BY <1>1, <1>2 DEF Lines
    <2>2. Cardinality({}) = 0
        BY FS_EmptySet
    <2>3. 0 <= Records - Reserved
        BY DEF Trigger!TriggerAssumption
    <2>4. /\ Cardinality(Lines(calls, log.window, TRUE, Len(calls))) = 0
          /\ Cardinality(Lines(calls, log.window, FALSE, Len(calls))) = 0
        BY <2>1, <2>2
    <2>5. log.until = Trigger!None /\ log.records = 0
        BY <1>1
    <2>6. log.records = Cardinality(Lines(calls, log.window, TRUE, Len(calls)))
                        + Cardinality(Lines(calls, log.window, FALSE, Len(calls)))
      <3> DEFINE a == Cardinality(Lines(calls, log.window, TRUE, Len(calls)))
                 b == Cardinality(Lines(calls, log.window, FALSE, Len(calls)))
      <3>1. a = 0 /\ b = 0 /\ log.records = 0
          BY <2>4, <2>5
      <3> HIDE DEF a, b
      <3>2. log.records = a + b
          BY <3>1
      <3> QED
          BY <3>2 DEF a, b
    <2>7. Cardinality(Lines(calls, log.window, FALSE, Len(calls))) <= Records - Reserved
        BY <2>3, <2>4
    <2> QED
        BY <2>5, <2>6, <2>7 DEF Slots
  <1>5. Windows(log, calls) /\ Gaps(log, calls) /\ Shown(shown, calls) /\ Heard(calls)
      BY <1>1, <1>2 DEF Windows, Gaps, Shown, Heard, After, LastLine, OneAfter
  <1>6. Exact(Trigger!NoDiagnostics, <<>>)
    <2>1. Signals(<<>>) = {} /\ Reasons(<<>>) = {}
        BY <1>2 DEF Signals, Reasons
    <2> QED
        BY <1>2, <2>1, FS_EmptySet DEF Exact, Least, Trigger!NoDiagnostics
  <1> QED
      BY <1>1, <1>3, <1>4, <1>5, <1>6 DEF TriggerInv

\* A call later.
LEMMA CallAdded ==
    ASSUME NEW s \in Seq(Call), NEW c \in Call
    PROVE  LET t == Append(s, c) IN
           /\ t \in Seq(Call) /\ Len(s) \in Nat /\ Len(t) = Len(s) + 1 /\ t[Len(s) + 1] = c
           /\ t # <<>> /\ \A i \in 1 .. Len(s) : t[i] = s[i]
  BY AppendProperties, LenProperties

\* Lines are counted.
LEMMA LinesAdded ==
    ASSUME NEW s \in Seq(Call), NEW c \in Call, NEW w, NEW p
    PROVE  /\ \A k \in 0 .. Len(s) : Lines(Append(s, c), w, p, k) = Lines(s, w, p, k)
           /\ Cardinality(Lines(s, w, p, Len(s))) \in Nat
           /\ Cardinality(Lines(Append(s, c), w, p, Len(s) + 1))
                = Cardinality(Lines(s, w, p, Len(s)))
                  + (IF c.window = w /\ c.priority = p /\ c.how = "written" THEN 1 ELSE 0)
  <1> DEFINE n == Len(s)
             t == Append(s, c)
             L == Lines(s, w, p, n)
  <1>1. n \in Nat /\ t[n + 1] = c /\ \A i \in 1 .. n : t[i] = s[i]
      BY CallAdded
  <1> HIDE DEF t
  <1>2. \A k \in 0 .. n : Lines(t, w, p, k) = Lines(s, w, p, k)
      BY <1>1 DEF Lines
  <1>3. IsFiniteSet(L)
    <2>1. IsFiniteSet(1 .. n)
        BY <1>1, FS_Interval
    <2> QED
        BY <2>1, FS_Subset DEF Lines
  <1>4. Cardinality(L) \in Nat
      BY <1>3, FS_CardinalityType
  <1>5. n + 1 \notin L
      BY <1>1 DEF Lines
  <1>6. CASE c.window = w /\ c.priority = p /\ c.how = "written"
    <2>1. Lines(t, w, p, n + 1) = L \cup {n + 1}
        BY <1>1, <1>6 DEF Lines
    <2>2. Cardinality(L \cup {n + 1}) = Cardinality(L) + 1
        BY <1>3, <1>5, FS_AddElement
    <2> HIDE DEF L, n
    <2> QED
        BY <1>2, <1>4, <1>6, <2>1, <2>2 DEF t, L, n
  <1>7. CASE ~(c.window = w /\ c.priority = p /\ c.how = "written")
    <2>1. Lines(t, w, p, n + 1) = L
        BY <1>1, <1>7 DEF Lines
    <2> HIDE DEF L, n
    <2> QED
        BY <1>2, <1>4, <1>7, <2>1 DEF t, L, n
  <1> QED
      BY <1>6, <1>7

\* A written call is the last one; any other leaves the last one where it was.
LEMMA AfterAdded ==
    ASSUME NEW s \in Seq(Call), NEW c \in Call
    PROVE  /\ After(s, Len(s)) \in Nat
           /\ After(Append(s, c), Len(s)) = After(s, Len(s))
           /\ After(Append(s, c), Len(s) + 1)
                = IF c.how = "written" THEN Len(s) + 2 ELSE After(s, Len(s))
  <1> DEFINE n == Len(s)
             t == Append(s, c)
             S == LastLine(s, n)
  <1>1. n \in Nat /\ t[n + 1] = c /\ \A i \in 1 .. n : t[i] = s[i]
      BY CallAdded
  <1> HIDE DEF t
  <1>2. LastLine(t, n) = S /\ S \subseteq Nat
      BY <1>1 DEF LastLine
  <1>3. After(s, n) \in Nat /\ After(t, n) = After(s, n)
    <2>1. S # {} => (CHOOSE i \in S : TRUE) \in S
        OBVIOUS
    <2>2. S \subseteq Nat
        BY <1>2
    <2> HIDE DEF S
    <2>3. OneAfter(S) \in Nat
      <3>1. CASE S = {}
          BY <3>1 DEF OneAfter
      <3>2. CASE S # {}
        <4>1. (CHOOSE i \in S : TRUE) \in Nat
            BY <2>1, <2>2, <3>2
        <4>2. OneAfter(S) = 1 + CHOOSE i \in S : TRUE
            BY <3>2 DEF OneAfter
        <4> QED
            BY <4>1, <4>2
      <3> QED
          BY <3>1, <3>2
    <2> QED
        BY <1>2, <2>3 DEF After, S
  <1>4. CASE c.how = "written"
    <2>1. n + 1 \in LastLine(t, n + 1)
        BY <1>1, <1>4 DEF LastLine
    <2>2. ASSUME NEW i \in LastLine(t, n + 1), i # n + 1 PROVE FALSE
        BY <1>1, <1>4, <2>2 DEF LastLine
    <2>3. LastLine(t, n + 1) = {n + 1}
        BY <2>1, <2>2
    <2>4. After(t, n + 1) = 1 + (n + 1)
        BY <2>3 DEF After, OneAfter
    <2> QED
        BY <1>1, <1>3, <1>4, <2>4 DEF t
  <1>5. CASE c.how # "written"
    <2>1. LastLine(t, n + 1) = S
        BY <1>1, <1>5 DEF LastLine
    <2>2. After(t, n + 1) = After(s, n)
        BY <2>1 DEF After
    <2> QED
        BY <1>3, <1>5, <2>2 DEF t
  <1> QED
      BY <1>4, <1>5

\* A new window changes neither the counters nor what the calls say of them.
LEMMA CurrentIs ==
    ASSUME Trigger!TriggerAssumption, TriggerInv
    PROVE  /\ Trigger!Current \in LogState /\ Trigger!Current.window <= now
           /\ Windows(Trigger!Current, calls) /\ Slots(Trigger!Current, calls)
           /\ Gaps(Trigger!Current, calls) /\ Trigger!Current.records \in Nat
  <1>1. log \in LogState /\ now \in Nat /\ calls \in Seq(Call) /\ Len(calls) \in Nat
      BY LenProperties DEF TriggerInv, TriggerType
  <1>2. log.window <= now /\ Windows(log, calls) /\ Slots(log, calls) /\ Gaps(log, calls)
      BY DEF TriggerInv
  <1>3. CASE ~(now - log.window >= Window)
      BY <1>1, <1>2, <1>3 DEF Trigger!Current, LogState
  <1>4. CASE now - log.window >= Window
    <2> DEFINE l == [log EXCEPT !.window = now, !.records = 0]
    <2>1. Trigger!Current = l
        BY <1>4 DEF Trigger!Current
    <2>2. /\ l \in LogState /\ l.window = now /\ l.records = 0 /\ l.suppressed = log.suppressed
          /\ l.oversized = log.oversized /\ l.until = log.until
        BY <1>1 DEF LogState
    <2>3. log.window < now
      <3>1. Window >= 1 /\ log.window \in Nat /\ Window \in Nat
          BY <1>1 DEF Trigger!TriggerAssumption, LogState
      <3> QED
          BY <1>1, <1>4, <3>1
    <2> HIDE DEF l
    <2>4. \A i \in 1 .. Len(calls) : calls[i].window < now /\ calls[i].window \in Nat
      <3>1. \A i \in 1 .. Len(calls) : calls[i].window <= log.window /\ calls[i].window \in Nat
        <4>1. \A i \in 1 .. Len(calls) : calls[i] \in Call
            BY <1>1, ElementOfSeq
        <4> QED
            BY <1>2, <4>1 DEF Windows, Call
      <3>2. log.window \in Nat
          BY <1>1 DEF LogState
      <3> QED
          BY <1>1, <2>3, <3>1, <3>2
    <2>5. Windows(l, calls)
        BY <1>1, <2>2, <2>4 DEF Windows
    <2>6. \A p : Lines(calls, now, p, Len(calls)) = {}
        BY <1>1, <2>4 DEF Lines
    <2>7. Slots(l, calls)
      <3>1. /\ Cardinality(Lines(calls, l.window, TRUE, Len(calls))) = 0
            /\ Cardinality(Lines(calls, l.window, FALSE, Len(calls))) = 0
          BY <2>2, <2>6, FS_EmptySet
      <3>2. 0 <= Records - Reserved
          BY DEF Trigger!TriggerAssumption
      <3>3. l.records = Cardinality(Lines(calls, l.window, TRUE, Len(calls)))
                        + Cardinality(Lines(calls, l.window, FALSE, Len(calls)))
        <4> DEFINE a == Cardinality(Lines(calls, l.window, TRUE, Len(calls)))
                   b == Cardinality(Lines(calls, l.window, FALSE, Len(calls)))
        <4>1. a = 0 /\ b = 0 /\ l.records = 0
            BY <2>2, <3>1
        <4> HIDE DEF a, b
        <4>2. l.records = a + b
            BY <4>1
        <4> QED
            BY <4>2 DEF a, b
      <3>4. Cardinality(Lines(calls, l.window, FALSE, Len(calls))) <= Records - Reserved
          BY <3>1, <3>2
      <3>5. NoFailure(calls, Len(calls)) => l.until = Trigger!None
          BY <1>2, <2>2 DEF Slots
      <3> QED
          BY <3>3, <3>4, <3>5 DEF Slots
    <2>8. Gaps(l, calls) /\ l.window <= now
        BY <1>1, <1>2, <2>2 DEF Gaps
    <2> QED
        BY <2>1, <2>2, <2>5, <2>7, <2>8
  <1> QED
      BY <1>3, <1>4

\* A call that ends, whatever it was: the log it leaves is l.
LEMMA CallKeeps ==
    ASSUME TriggerInv, NEW c \in Call, NEW l \in LogState,
           calls' = Append(calls, c), log' = l, UNCHANGED <<now, inbox, pending, events>>,
           shown' \in Nat, l.window <= now, c.window = l.window, Windows(l, calls),
           Slots(l, calls'), Gaps(l, calls'), Shown(shown', calls'),
           c.priority /\ c.how = "suppressed" /\ NoFailure(calls, Len(calls))
             => Cardinality(Lines(calls, c.window, TRUE, Len(calls))) >= Reserved
    PROVE  TriggerInv'
  <1> DEFINE n == Len(calls)
             t == Append(calls, c)
  <1>1. /\ t \in Seq(Call) /\ n \in Nat /\ Len(t) = n + 1 /\ t[n + 1] = c
        /\ \A i \in 1 .. n : t[i] = calls[i]
      BY CallAdded DEF TriggerInv, TriggerType
  <1>2. /\ calls \in Seq(Call) /\ Heard(calls) /\ now \in Nat
        /\ Exact(inbox, events.inbox) /\ Exact(pending, events.pending)
      BY DEF TriggerInv, TriggerType
  <1>3. \A i \in 1 .. n + 1 :
            Lines(t, t[i].window, TRUE, i - 1) = Lines(calls, t[i].window, TRUE, i - 1)
    <2>1. \A i \in 1 .. n + 1 : i - 1 \in 0 .. n
        BY <1>1
    <2>2. \A w : \A k \in 0 .. n : Lines(t, w, TRUE, k) = Lines(calls, w, TRUE, k)
        BY <1>2, LinesAdded
    <2> HIDE DEF t, n
    <2> QED
        BY <2>1, <2>2
  <1> HIDE DEF t
  <1>4. TriggerType'
      BY <1>1 DEF TriggerInv, TriggerType, t
  <1>5. Windows(l, t)
    <2>1. l.window \in Nat
        BY DEF LogState
    <2> QED
        BY <1>1, <2>1 DEF Windows
  <1>6. Heard(t)
    <2> SUFFICES ASSUME NEW i \in 1 .. n + 1, t[i].priority, t[i].how = "suppressed",
                        NoFailure(t, i - 1)
                 PROVE  Cardinality(Lines(t, t[i].window, TRUE, i - 1)) >= Reserved
        BY <1>1 DEF Heard
    <2>1. NoFailure(calls, i - 1)
        BY <1>1 DEF NoFailure
    <2>2. CASE i \in 1 .. n
      <3>1. t[i] = calls[i]
          BY <1>1, <2>2
      <3> QED
          BY <1>2, <1>3, <2>1, <2>2, <3>1 DEF Heard
    <2>3. CASE i = n + 1
      <3>1. t[i] = c /\ i - 1 = n
          BY <1>1, <2>3
      <3> QED
          BY <1>3, <2>1, <3>1
    <2>4. i \in 1 .. n \/ i = n + 1
        BY <1>1
    <2> QED
        BY <2>2, <2>3, <2>4
  <1> QED
      BY <1>2, <1>4, <1>5, <1>6 DEF TriggerInv, t

\* What the log and the calls say after a call that left no line.
LEMMA LostCounts ==
    ASSUME TriggerInv, Windows(Trigger!Current, calls), NEW c \in Call, c.how # "written",
           NEW l \in LogState, l.window = Trigger!Current.window,
           Gaps(Trigger!Current, calls), Trigger!Current \in LogState,
           l.suppressed + l.oversized
             = Trigger!Current.suppressed + Trigger!Current.oversized + 1,
           calls' = Append(calls, c)
    PROVE  Windows(l, calls) /\ Gaps(l, calls') /\ Shown(shown, calls')
  <1> DEFINE n == Len(calls)
  <1>1. /\ calls \in Seq(Call) /\ n \in Nat /\ Len(calls') = n + 1 /\ calls'[n + 1] = c
      BY CallAdded DEF TriggerInv, TriggerType
  <1>2. After(calls', n + 1) = After(calls, n) /\ After(calls, n) \in Nat
      BY <1>1, AfterAdded
  <1>3. Trigger!Current.suppressed + Trigger!Current.oversized = n + 1 - After(calls, n)
      BY DEF Gaps
  <1>4. Gaps(l, calls')
    <2>1. l.suppressed + l.oversized = n + 1 + 1 - After(calls, n)
        BY <1>1, <1>2, <1>3
    <2> QED
        BY <1>1, <1>2, <2>1 DEF Gaps
  <1>5. Shown(shown, calls')
      BY <1>1 DEF Shown
  <1>6. Windows(l, calls)
      BY DEF Windows
  <1> QED
      BY <1>4, <1>5, <1>6

\* The slots after a call that left no line are those before it.
LEMMA LostSlots ==
    ASSUME TriggerInv, NEW k \in LogState, Slots(k, calls), NEW c \in Call, c.how # "written",
           NEW l \in LogState, l.window = k.window,
           c.how = "failed" \/ (l.records = k.records /\ l.until = k.until),
           calls' = Append(calls, c)
    PROVE  Slots(l, calls')
  <1> DEFINE n == Len(calls)
  <1>1. /\ calls \in Seq(Call) /\ n \in Nat /\ Len(calls') = n + 1 /\ calls'[n + 1] = c
        /\ \A i \in 1 .. n : calls'[i] = calls[i]
      BY CallAdded DEF TriggerInv, TriggerType
  <1>2. SUFFICES ASSUME NoFailure(calls', n + 1)
                 PROVE  /\ l.until = Trigger!None
                        /\ l.records = Cardinality(Lines(calls', l.window, TRUE, n + 1))
                                       + Cardinality(Lines(calls', l.window, FALSE, n + 1))
                        /\ Cardinality(Lines(calls', l.window, FALSE, n + 1)) <= Records - Reserved
      BY <1>1 DEF Slots
  <1>3. NoFailure(calls, n) /\ c.how # "failed"
      BY <1>1, <1>2 DEF NoFailure
  <1>4. ASSUME NEW p
        PROVE  Cardinality(Lines(calls', l.window, p, n + 1))
                 = Cardinality(Lines(calls, l.window, p, n))
    <2>1. /\ Cardinality(Lines(calls, l.window, p, n)) \in Nat
          /\ Cardinality(Lines(calls', l.window, p, n + 1))
               = Cardinality(Lines(calls, l.window, p, n)) + 0
        BY <1>1, LinesAdded
    <2> QED
        BY <2>1
  <1>5. /\ k.until = Trigger!None
        /\ k.records = Cardinality(Lines(calls, k.window, TRUE, n))
                       + Cardinality(Lines(calls, k.window, FALSE, n))
        /\ Cardinality(Lines(calls, k.window, FALSE, n)) <= Records - Reserved
      BY <1>3 DEF Slots
  <1> QED
      BY <1>3, <1>4, <1>5


\* A call that leaves no line is counted.
LEMMA LostKeeps ==
    ASSUME Trigger!TriggerAssumption, TriggerInv, NEW c \in Call, NEW l \in LogState,
           c.how # "written", c.window = Trigger!Current.window,
           l.window = Trigger!Current.window,
           l.suppressed + l.oversized
             = Trigger!Current.suppressed + Trigger!Current.oversized + 1,
           c.how = "failed" \/ (/\ l.records = Trigger!Current.records
                               /\ l.until = Trigger!Current.until),
           c.priority /\ c.how = "suppressed" /\ NoFailure(calls, Len(calls))
             => Cardinality(Lines(calls, c.window, TRUE, Len(calls))) >= Reserved,
           calls' = Append(calls, c), log' = l, shown' = shown,
           UNCHANGED <<now, inbox, pending, events>>
    PROVE  TriggerInv'
  <1>1. /\ Trigger!Current \in LogState /\ Trigger!Current.window <= now
        /\ Windows(Trigger!Current, calls) /\ Slots(Trigger!Current, calls)
        /\ Gaps(Trigger!Current, calls)
      BY CurrentIs
  <1>2. Windows(l, calls) /\ Gaps(l, calls') /\ Shown(shown, calls')
      BY <1>1, LostCounts
  <1>3. Slots(l, calls')
      BY <1>1, LostSlots
  <1>4. shown' \in Nat
      BY DEF TriggerInv, TriggerType
  <1> QED
      BY <1>1, <1>2, <1>3, <1>4, CallKeeps

\* Over the limit: then the slots a recovery record may take are taken.
LEMMA SuppressKeeps ==
    ASSUME Trigger!TriggerAssumption, TriggerInv, NEW p \in BOOLEAN, Trigger!Suppress(p),
           UNCHANGED <<now, inbox, pending, events>>
    PROVE  TriggerInv'
  <1> DEFINE k == Trigger!Current
             c == [priority |-> p, how |-> "suppressed", window |-> k.window]
             l == [k EXCEPT !.suppressed = @ + 1]
  <1>1. k \in LogState /\ Slots(k, calls) /\ calls \in Seq(Call)
      BY CurrentIs DEF TriggerInv, TriggerType
  <1>2. calls' = Append(calls, c) /\ log' = l /\ shown' = shown /\ Trigger!Refused(k, p)
      BY DEF Trigger!Suppress, Trigger!Ended
  <1> HIDE DEF k
  <1>3. c \in Call
      BY <1>1 DEF Call, LogState
  <1>4. /\ l \in LogState /\ l.window = k.window /\ l.records = k.records /\ l.until = k.until
        /\ l.suppressed = k.suppressed + 1 /\ l.oversized = k.oversized
      BY <1>1 DEF LogState
  <1>5. l.suppressed + l.oversized = k.suppressed + k.oversized + 1
    <2>1. k.suppressed \in Nat /\ k.oversized \in Nat
        BY <1>1 DEF LogState
    <2> HIDE DEF l
    <2> QED
        BY <1>4, <2>1
  <1>6. ASSUME p, NoFailure(calls, Len(calls))
        PROVE  Cardinality(Lines(calls, k.window, TRUE, Len(calls))) >= Reserved
    <2> DEFINE a == Cardinality(Lines(calls, k.window, TRUE, Len(calls)))
               b == Cardinality(Lines(calls, k.window, FALSE, Len(calls)))
    <2>1. k.until = Trigger!None /\ k.records = a + b /\ b <= Records - Reserved
        BY <1>1, <1>6 DEF Slots
    <2>2. a \in Nat /\ b \in Nat
        BY <1>1, <1>3, LinesAdded
    <2>3. k.records >= Records
        BY <1>2, <1>6, <2>1 DEF Trigger!Refused, Trigger!Limit
    <2>4. Records \in Nat /\ Reserved \in Nat
        BY DEF Trigger!TriggerAssumption
    <2> HIDE DEF a, b
    <2>5. a >= Reserved
        BY <2>1, <2>2, <2>3, <2>4
    <2> QED
        BY <2>5 DEF a
  <1>7. /\ c.how = "suppressed" /\ c.window = k.window /\ c.priority = p
      OBVIOUS
  <1> HIDE DEF c, l
  <1> QED
      BY <1>2, <1>3, <1>4, <1>5, <1>6, <1>7, LostKeeps DEF k

\* Too long, or not appended.
LEMMA FailedKeeps ==
    ASSUME Trigger!TriggerAssumption, TriggerInv, NEW p \in BOOLEAN,
           Trigger!Oversized(p) \/ Trigger!Failed(p),
           UNCHANGED <<now, inbox, pending, events>>
    PROVE  TriggerInv'
  <1> DEFINE k == Trigger!Current
             h == IF Trigger!Oversized(p) THEN "oversized" ELSE "failed"
             c == [priority |-> p, how |-> h, window |-> k.window]
             l == IF h = "oversized" THEN [k EXCEPT !.oversized = @ + 1]
                  ELSE [k EXCEPT !.records = @ + 1, !.failures = @ + 1, !.suppressed = @ + 1,
                                 !.until = now + Window]
  <1>1. k \in LogState /\ now \in Nat /\ Window \in Nat
      BY CurrentIs DEF TriggerInv, TriggerType, Trigger!TriggerAssumption
  <1>2. calls' = Append(calls, c) /\ log' = l /\ shown' = shown
      BY DEF Trigger!Oversized, Trigger!Failed, Trigger!Ended
  <1>3. h \in {"oversized", "failed"}
      OBVIOUS
  <1> HIDE DEF k, h
  <1>4. c \in Call /\ c.how = h /\ c.window = k.window
      BY <1>1, <1>3 DEF Call, LogState
  <1>5. /\ l \in LogState /\ l.window = k.window
        /\ h = "failed" \/ (l.records = k.records /\ l.until = k.until)
        /\ \/ l.suppressed = k.suppressed + 1 /\ l.oversized = k.oversized
           \/ l.suppressed = k.suppressed /\ l.oversized = k.oversized + 1
    <2>1. now + Window \in Nat /\ k.records + 1 \in Nat /\ k.failures + 1 \in Nat
        BY <1>1 DEF LogState
    <2>2. CASE h = "oversized"
      <3>1. l = [k EXCEPT !.oversized = k.oversized + 1] /\ k.oversized + 1 \in Nat
          BY <1>1, <2>2 DEF LogState
      <3> HIDE DEF l
      <3> QED
          BY <1>1, <3>1 DEF LogState
    <2>3. CASE h = "failed"
      <3>1. l = [window |-> k.window, records |-> k.records + 1, suppressed |-> k.suppressed + 1,
                 oversized |-> k.oversized, failures |-> k.failures + 1, until |-> now + Window]
          BY <1>1, <2>3 DEF LogState
      <3> HIDE DEF l
      <3> QED
          BY <1>1, <2>1, <2>3, <3>1 DEF LogState
    <2> QED
        BY <1>3, <2>2, <2>3
  <1>6. l.suppressed + l.oversized = k.suppressed + k.oversized + 1
    <2>1. k.suppressed \in Nat /\ k.oversized \in Nat
        BY <1>1 DEF LogState
    <2> HIDE DEF l
    <2> QED
        BY <1>5, <2>1
  <1>7. c.how # "written" /\ c.how # "suppressed"
      BY <1>3, <1>4
  <1> HIDE DEF c, l
  <1> QED
      BY <1>2, <1>4, <1>5, <1>6, <1>7, LostKeeps DEF k

\* A line takes a slot and tells what was lost since the one before.
LEMMA WrittenKeeps ==
    ASSUME Trigger!TriggerAssumption, TriggerInv, NEW p \in BOOLEAN, Trigger!Written(p),
           UNCHANGED <<now, inbox, pending, events>>
    PROVE  TriggerInv'
  <1> DEFINE k == Trigger!Current
             n == Len(calls)
             c == [priority |-> p, how |-> "written", window |-> k.window]
             l == [k EXCEPT !.records = @ + 1, !.suppressed = 0, !.oversized = 0,
                            !.failures = 0, !.until = Trigger!None]
  <1>1. /\ k \in LogState /\ Slots(k, calls) /\ Gaps(k, calls) /\ Windows(k, calls)
        /\ k.window <= now /\ calls \in Seq(Call)
      BY CurrentIs DEF TriggerInv, TriggerType
  <1>2. /\ calls' = Append(calls, c) /\ log' = l /\ shown' = k.suppressed + k.oversized
        /\ ~Trigger!Refused(k, p)
      BY DEF Trigger!Written, Trigger!Ended
  <1> HIDE DEF k
  <1>3. c \in Call /\ c.how = "written" /\ c.window = k.window /\ c.priority = p
      BY <1>1 DEF Call, LogState
  <1>4. /\ l \in LogState /\ l.window = k.window /\ l.records = k.records + 1
        /\ l.until = Trigger!None /\ l.suppressed = 0 /\ l.oversized = 0
    <2>1. l = [window |-> k.window, records |-> k.records + 1, suppressed |-> 0, oversized |-> 0,
               failures |-> 0, until |-> Trigger!None]
      <3> DEFINE m == [k EXCEPT !.records = k.records + 1]
                 m2 == [m EXCEPT !.suppressed = 0]
      <3>1. m = [window |-> k.window, records |-> k.records + 1, suppressed |-> k.suppressed,
                 oversized |-> k.oversized, failures |-> k.failures, until |-> k.until]
        <4>1. k = [window |-> k.window, records |-> k.records, suppressed |-> k.suppressed,
                   oversized |-> k.oversized, failures |-> k.failures, until |-> k.until]
            BY <1>1 DEF LogState
        <4> QED
            BY <4>1
      <3>2. l = [m2 EXCEPT !.oversized = 0, !.failures = 0, !.until = Trigger!None]
          OBVIOUS
      <3> HIDE DEF m, l
      <3>3. m2 = [window |-> k.window, records |-> k.records + 1, suppressed |-> 0,
                  oversized |-> k.oversized, failures |-> k.failures, until |-> k.until]
          BY <3>1
      <3> HIDE DEF m2
      <3> QED
          BY <3>2, <3>3
    <2>2. k.window \in Nat /\ k.records + 1 \in Nat
        BY <1>1 DEF LogState
    <2> HIDE DEF l
    <2> QED
        BY <2>1, <2>2 DEF LogState, Trigger!None
  <1>5. k.suppressed \in Nat /\ k.oversized \in Nat /\ k.records \in Nat
      BY <1>1 DEF LogState
  <1> HIDE DEF c, l
  <1>6. /\ n \in Nat /\ Len(calls') = n + 1 /\ calls'[n + 1] = c
        /\ \A i \in 1 .. n : calls'[i] = calls[i]
      BY <1>1, <1>2, <1>3, CallAdded
  <1>7. /\ After(calls, n) \in Nat /\ After(calls', n) = After(calls, n)
        /\ After(calls', n + 1) = n + 2
      BY <1>1, <1>2, <1>3, AfterAdded
  <1>8. Gaps(l, calls')
    <2>1. l.suppressed + l.oversized = n + 1 + 1 - (n + 2)
        BY <1>4, <1>6
    <2> QED
        BY <1>6, <1>7, <2>1 DEF Gaps
  <1>9. Shown(shown', calls') /\ shown' \in Nat
    <2>1. shown' = n + 1 - After(calls, n)
        BY <1>1, <1>2 DEF Gaps
    <2>2. (n + 1) - 1 = n
        BY <1>6
    <2> QED
        BY <1>2, <1>5, <1>6, <1>7, <2>1, <2>2 DEF Shown
  <1>10. Windows(l, calls)
      BY <1>1, <1>4 DEF Windows
  <1>11. Slots(l, calls')
    <2>1. SUFFICES ASSUME NoFailure(calls', n + 1)
                   PROVE  /\ l.records = Cardinality(Lines(calls', l.window, TRUE, n + 1))
                                         + Cardinality(Lines(calls', l.window, FALSE, n + 1))
                          /\ Cardinality(Lines(calls', l.window, FALSE, n + 1))
                               <= Records - Reserved
        BY <1>4, <1>6 DEF Slots
    <2> DEFINE mine == Cardinality(Lines(calls, k.window, TRUE, n))
               other == Cardinality(Lines(calls, k.window, FALSE, n))
               mine2 == Cardinality(Lines(calls', k.window, TRUE, n + 1))
               other2 == Cardinality(Lines(calls', k.window, FALSE, n + 1))
    <2>2. NoFailure(calls, n)
        BY <1>6, <2>1 DEF NoFailure
    <2>3. k.until = Trigger!None /\ k.records = mine + other /\ other <= Records - Reserved
        BY <1>1, <2>2 DEF Slots
    <2>4. /\ mine \in Nat /\ other \in Nat
          /\ mine2 = mine + (IF c.priority = TRUE THEN 1 ELSE 0)
          /\ other2 = other + (IF c.priority = FALSE THEN 1 ELSE 0)
      <3>1. mine \in Nat /\ other \in Nat
          BY <1>1, <1>3, LinesAdded
      <3>2. calls \in Seq(Call) /\ c \in Call /\ calls' = Append(calls, c)
          BY <1>1, <1>2, <1>3
      <3>3. ASSUME NEW q
            PROVE  Cardinality(Lines(calls', k.window, q, n + 1))
                     = Cardinality(Lines(calls, k.window, q, n))
                       + (IF c.window = k.window /\ c.priority = q /\ c.how = "written"
                          THEN 1 ELSE 0)
        <4>1. Cardinality(Lines(Append(calls, c), k.window, q, n + 1))
                = Cardinality(Lines(calls, k.window, q, n))
                  + (IF c.window = k.window /\ c.priority = q /\ c.how = "written"
                     THEN 1 ELSE 0)
            BY <3>2, LinesAdded, Zenon
        <4> QED
            BY <3>2, <4>1
      <3>4. mine2 = mine + (IF c.window = k.window /\ c.priority = TRUE /\ c.how = "written"
                            THEN 1 ELSE 0)
          BY <3>3
      <3>5. other2 = other + (IF c.window = k.window /\ c.priority = FALSE /\ c.how = "written"
                              THEN 1 ELSE 0)
          BY <3>3
      <3> HIDE DEF mine, other, mine2, other2
      <3> QED
          BY <1>3, <3>1, <3>4, <3>5
    <2>5. Records \in Nat /\ Reserved \in Nat
        BY DEF Trigger!TriggerAssumption
    <2> HIDE DEF mine, other, mine2, other2
    <2>6. CASE p = TRUE
      <3>1. c.priority = TRUE /\ c.priority # FALSE
          BY <1>3, <2>6
      <3>2. mine2 = mine + 1 /\ other2 = other + 0
          BY <2>4, <3>1
      <3>3. l.records = mine2 + other2 /\ other2 <= Records - Reserved
          BY <1>4, <1>5, <2>3, <2>4, <2>5, <3>2
      <3> QED
          BY <1>4, <3>3 DEF mine2, other2
    <2>7. CASE p = FALSE
      <3>1. c.priority = FALSE /\ c.priority # TRUE
          BY <1>3, <2>7
      <3>2. mine2 = mine + 0 /\ other2 = other + 1
          BY <2>4, <3>1
      <3>3. ~(k.records >= Records - Reserved)
          BY <1>2, <2>7 DEF Trigger!Refused, Trigger!Limit
      <3>4. l.records = mine2 + other2 /\ other2 <= Records - Reserved
          BY <1>4, <1>5, <2>3, <2>4, <2>5, <3>2, <3>3
      <3> QED
          BY <1>4, <3>4 DEF mine2, other2
    <2> QED
        BY <2>6, <2>7
  <1> QED
      BY <1>1, <1>2, <1>3, <1>4, <1>8, <1>9, <1>10, <1>11, CallKeeps

\* The signals and the reasons of events that follow others.
LEMMA EventsJoin ==
    ASSUME NEW s \in Seq(Event), NEW r \in Seq(Event)
    PROVE  /\ Cardinality(Signals(s)) \in Nat
           /\ Cardinality(Signals(s \o r)) = Cardinality(Signals(s)) + Cardinality(Signals(r))
           /\ Reasons(s \o r) = Reasons(s) \cup Reasons(r)
  <1> DEFINE m == Len(s)
             n == Len(r)
             t == s \o r
             A == Signals(s)
             B == Signals(r)
             C == {i \in m + 1 .. m + n : r[i - m].kind = "recover"}
  <1>1. /\ m \in Nat /\ n \in Nat /\ Len(t) = m + n
        /\ \A i \in 1 .. m : t[i] = s[i]
        /\ \A i \in m + 1 .. m + n : t[i] = r[i - m]
    <2>1. /\ m \in Nat /\ n \in Nat
          /\ Len(t) = m + n /\ \A i \in 1 .. m + n : t[i] = IF i <= m THEN s[i] ELSE r[i - m]
        BY ConcatProperties, LenProperties
    <2> HIDE DEF m, n, t
    <2>2. \A i \in 1 .. m : i \in 1 .. m + n /\ i <= m
        BY <2>1
    <2>3. \A i \in m + 1 .. m + n : i \in 1 .. m + n /\ ~(i <= m)
        BY <2>1
    <2>4. \A i \in 1 .. m : t[i] = s[i]
        BY <2>1, <2>2
    <2>5. \A i \in m + 1 .. m + n : t[i] = r[i - m]
        BY <2>1, <2>3
    <2> QED
        BY <2>1, <2>4, <2>5
  <1> HIDE DEF t
  <1>2. IsFiniteSet(A) /\ IsFiniteSet(B)
    <2>1. IsFiniteSet(1 .. m) /\ IsFiniteSet(1 .. n)
        BY <1>1, FS_Interval
    <2>2. A \subseteq 1 .. m /\ B \subseteq 1 .. n
        BY DEF Signals
    <2> HIDE DEF A, B, m, n
    <2> QED
        BY <2>1, <2>2, FS_Subset
  <1>3. Signals(t) = A \cup C /\ A \cap C = {}
    <2>1. A = {i \in 1 .. m : s[i].kind = "recover"}
        BY DEF Signals
    <2>2. Signals(t) = {i \in 1 .. m + n : t[i].kind = "recover"}
        BY <1>1 DEF Signals
    <2> HIDE DEF A, m, n
    <2> QED
        BY <1>1, <2>1, <2>2
  <1>4. ExistsBijection(B, C)
    <2> DEFINE f == [i \in B |-> i + m]
    <2>1. B = {i \in 1 .. n : r[i].kind = "recover"}
        BY DEF Signals
    <2> HIDE DEF B, m, n
    <2>2. f \in [B -> C]
      <3> SUFFICES ASSUME NEW i \in B PROVE i + m \in C
          OBVIOUS
      <3>1. i + m \in m + 1 .. m + n /\ (i + m) - m = i
          BY <1>1, <2>1
      <3> QED
          BY <2>1, <3>1
    <2>3. \A i, j \in B : f[i] = f[j] => i = j
        BY <1>1, <2>1
    <2>4. \A x \in C : \E i \in B : f[i] = x
      <3> SUFFICES ASSUME NEW x \in C PROVE \E i \in B : f[i] = x
          OBVIOUS
      <3>1. x - m \in B /\ (x - m) + m = x
          BY <1>1, <2>1
      <3> QED
          BY <3>1
    <2> HIDE DEF f, C
    <2>5. f \in Bijection(B, C)
      <3>1. f \in Injection(B, C)
          BY <2>2, <2>3 DEF Injection, IsInjective
      <3>2. f \in Surjection(B, C)
          BY <2>2, <2>4 DEF Surjection
      <3> QED
          BY <3>1, <3>2 DEF Bijection
    <2> QED
        BY <2>5 DEF ExistsBijection
  <1>5. IsFiniteSet(C) /\ Cardinality(C) = Cardinality(B)
      BY <1>2, <1>4, FS_Bijection
  <1>6. Cardinality(A \cup C) = Cardinality(A) + Cardinality(C) - Cardinality(A \cap C)
      BY <1>2, <1>5, FS_Union
  <1>7. Cardinality(A \cap C) = 0 /\ Cardinality(A) \in Nat /\ Cardinality(C) \in Nat
      BY <1>2, <1>3, <1>5, FS_EmptySet, FS_CardinalityType
  <1>8. Cardinality(Signals(t)) = Cardinality(A) + Cardinality(B)
    <2> HIDE DEF A, B, C
    <2> QED
        BY <1>3, <1>5, <1>6, <1>7
  <1>9. Reasons(t) = Reasons(s) \cup Reasons(r)
    <2>1. ASSUME NEW x \in Reasons(t) PROVE x \in Reasons(s) \cup Reasons(r)
      <3>1. PICK i \in 1 .. m + n : x = t[i] /\ t[i].kind # "plain"
          BY <1>1, <2>1 DEF Reasons
      <3>2. CASE i \in 1 .. m
          BY <1>1, <3>1, <3>2 DEF Reasons
      <3>3. CASE i \in m + 1 .. m + n
        <4>1. i - m \in 1 .. n
            BY <1>1, <3>3
        <4> QED
            BY <1>1, <3>1, <3>3, <4>1 DEF Reasons
      <3> QED
          BY <1>1, <3>2, <3>3
    <2>2. ASSUME NEW x \in Reasons(s) PROVE x \in Reasons(t)
      <3>1. PICK i \in 1 .. m : x = s[i] /\ s[i].kind # "plain"
          BY <2>2 DEF Reasons
      <3>2. i \in 1 .. Len(t) /\ t[i] = s[i]
          BY <1>1
      <3> QED
          BY <3>1, <3>2 DEF Reasons
    <2>3. ASSUME NEW x \in Reasons(r) PROVE x \in Reasons(t)
      <3>1. PICK i \in 1 .. n : x = r[i] /\ r[i].kind # "plain"
          BY <2>3 DEF Reasons
      <3>2. i + m \in m + 1 .. m + n /\ (i + m) - m = i
          BY <1>1
      <3>3. i + m \in 1 .. Len(t) /\ t[i + m] = r[i]
          BY <1>1, <3>2
      <3> QED
          BY <3>1, <3>3 DEF Reasons
    <2> QED
        BY <2>1, <2>2, <2>3
  <1> QED
      BY <1>7, <1>8, <1>9 DEF t

\* A batch taken after another one.
LEMMA MergeTells ==
    ASSUME NEW d \in Told, NEW s \in Seq(Event), Exact(d, s),
           NEW b \in Told, NEW r \in Seq(Event), Exact(b, r)
    PROVE  Trigger!Merge(d, b) \in Told /\ Exact(Trigger!Merge(d, b), s \o r)
  <1> DEFINE m == Len(s)
             n == Len(r)
             t == s \o r
             k == Trigger!Shorter(3 - Len(d.first), Len(b.first))
             more == SubSeq(b.first, 1, k)
             first == d.first \o more
             u == Trigger!Merge(d, b)
  <1>1. /\ t \in Seq(Event) /\ m \in Nat /\ n \in Nat /\ Len(t) = m + n
        /\ \A i \in 1 .. m + n : t[i] = IF i <= m THEN s[i] ELSE r[i - m]
      BY ConcatProperties, LenProperties
  <1>2. /\ d.first \in Seq(Event) /\ b.first \in Seq(Event) /\ d.count \in Nat /\ b.count \in Nat
        /\ d.signals \in Nat /\ b.signals \in Nat
        /\ d.last \in Event \cup {Trigger!NoEvent} /\ b.last \in Event \cup {Trigger!NoEvent}
        /\ d.recovery \in Event \cup {Trigger!NoEvent}
        /\ b.recovery \in Event \cup {Trigger!NoEvent}
      BY DEF Told
  <1>3. /\ Len(d.first) = Least(3, m) /\ \A i \in 1 .. Len(d.first) : d.first[i] = s[i]
        /\ Len(b.first) = Least(3, n) /\ \A i \in 1 .. Len(b.first) : b.first[i] = r[i]
      BY DEF Exact
  <1>4. u = [count |-> d.count + b.count, signals |-> d.signals + b.signals, first |-> first,
             last |-> IF b.last = Trigger!NoEvent THEN d.last ELSE b.last,
             recovery |-> IF d.recovery = Trigger!NoEvent THEN b.recovery ELSE d.recovery]
      BY DEF Trigger!Merge
  <1> HIDE DEF t, u
  <1>5. /\ first \in Seq(Event) /\ Len(first) = Least(3, m + n)
        /\ \A i \in 1 .. Len(first) : first[i] = t[i]
    <2>1. k \in Nat /\ k <= Len(b.first) /\ Len(d.first) + k = Least(3, m + n)
      <3> DEFINE x == Len(d.first)
                 y == Len(b.first)
      <3>1. x = (IF 3 < m THEN 3 ELSE m) /\ y = (IF 3 < n THEN 3 ELSE n)
          BY <1>3 DEF Least
      <3>2. k = IF 3 - x < y THEN 3 - x ELSE y
          BY DEF Trigger!Shorter
      <3>3. Least(3, m + n) = IF 3 < m + n THEN 3 ELSE m + n
          BY DEF Least
      <3> HIDE DEF x, y, k, m, n
      <3>4. k \in Nat /\ k <= y /\ x + k = IF 3 < m + n THEN 3 ELSE m + n
          BY <1>1, <3>1, <3>2
      <3> QED
          BY <3>3, <3>4 DEF x, y
    <2>2. Len(d.first) \in Nat /\ Len(b.first) \in Nat
        BY <1>2, LenProperties
    <2> HIDE DEF k, m, n
    <2>3. \A i \in 1 .. k : b.first[i] \in Event
        BY <1>2, <2>1, <2>2, ElementOfSeq
    <2>4. more \in Seq(Event) /\ Len(more) = k /\ \A i \in 1 .. k : more[i] = b.first[i]
        BY <2>1, <2>3, SubSeqProperties
    <2> HIDE DEF more
    <2>5. /\ first \in Seq(Event) /\ Len(first) = Len(d.first) + k
          /\ \A i \in 1 .. Len(d.first) + k :
                first[i] = IF i <= Len(d.first) THEN d.first[i] ELSE more[i - Len(d.first)]
        BY <1>2, <2>4, ConcatProperties
    <2> HIDE DEF first
    <2>6. ASSUME NEW i \in 1 .. Len(first) PROVE first[i] = t[i]
      <3>1. i \in 1 .. m + n
          BY <1>1, <2>1, <2>2, <2>5, <2>6 DEF Least
      <3>2. CASE i <= Len(d.first)
        <4>1. i \in 1 .. Len(d.first) /\ i <= m
            BY <1>1, <1>3, <2>2, <2>6, <3>2 DEF Least
        <4> QED
            BY <1>1, <1>3, <2>5, <2>6, <3>1, <3>2, <4>1
      <3>3. CASE ~(i <= Len(d.first))
        <4>1. k # 0
            BY <2>1, <2>2, <2>5, <2>6, <3>3
        <4>2. Len(d.first) = m
            BY <1>1, <1>3, <2>1, <2>2, <4>1 DEF k, Least, Trigger!Shorter
        <4>3. i - m \in 1 .. k /\ ~(i <= m)
            BY <1>1, <2>1, <2>2, <2>5, <2>6, <3>3, <4>2
        <4>4. i - m \in 1 .. Len(b.first)
            BY <2>1, <2>2, <4>3
        <4> QED
            BY <1>1, <1>3, <2>4, <2>5, <2>6, <3>1, <3>3, <4>2, <4>3, <4>4
      <3> QED
          BY <3>2, <3>3
    <2> QED
        BY <2>1, <2>5, <2>6
  <1> HIDE DEF first
  <1>6. u \in Told
    <2>1. d.count + b.count \in Nat /\ d.signals + b.signals \in Nat
        BY <1>2
    <2> QED
        BY <1>2, <1>4, <1>5, <2>1 DEF Told
  <1>7. u.count = m + n /\ u.first = first
      BY <1>4 DEF Exact
  <1>8. u.signals = Cardinality(Signals(t)) /\ Reasons(t) = Reasons(s) \cup Reasons(r)
    <2>1. Cardinality(Signals(t)) = d.signals + b.signals /\ Reasons(t) = Reasons(s) \cup Reasons(r)
        BY EventsJoin DEF t, Exact
    <2> QED
        BY <1>4, <2>1
  <1>9. Trigger!NoEvent \notin Event
      BY DEF Event, Trigger!NoEvent, Trigger!Kinds
  <1>10. u.last = IF t = <<>> THEN Trigger!NoEvent ELSE t[Len(t)]
    <2>1. CASE r = <<>>
      <3>1. t = s /\ b.last = Trigger!NoEvent
          BY <2>1, ConcatEmptySeq DEF t, Exact
      <3> QED
          BY <1>4, <3>1 DEF Exact
    <2>2. CASE r # <<>>
      <3>1. n # 0 /\ b.last = r[n]
          BY <1>1, <2>2, EmptySeq DEF Exact
      <3>2. r[n] \in Event /\ t[m + n] = r[n] /\ t # <<>>
        <4>1. n \in 1 .. n /\ m + n \in 1 .. m + n /\ ~(m + n <= m) /\ (m + n) - m = n
            BY <1>1, <3>1
        <4>2. r[n] \in Event
            BY <4>1, ElementOfSeq
        <4>3. t # <<>>
          <5>1. Len(<<>>) = 0
              OBVIOUS
          <5> QED
              BY <1>1, <3>1, <5>1
        <4> QED
            BY <1>1, <4>1, <4>2, <4>3
      <3> QED
          BY <1>1, <1>4, <1>9, <3>1, <3>2
    <2> QED
        BY <2>1, <2>2
  <1>11. IF Reasons(t) = {} THEN u.recovery = Trigger!NoEvent ELSE u.recovery \in Reasons(t)
    <2>1. Reasons(s) \subseteq Event
      <3>1. \A i \in 1 .. m : s[i] \in Event
          BY ElementOfSeq
      <3> QED
          BY <3>1 DEF Reasons
    <2>2. /\ IF Reasons(s) = {} THEN d.recovery = Trigger!NoEvent ELSE d.recovery \in Reasons(s)
          /\ IF Reasons(r) = {} THEN b.recovery = Trigger!NoEvent ELSE b.recovery \in Reasons(r)
        BY DEF Exact
    <2>3. u.recovery = IF d.recovery = Trigger!NoEvent THEN b.recovery ELSE d.recovery
        BY <1>4
    <2> QED
        BY <1>8, <1>9, <2>1, <2>2, <2>3
  <1>12. Exact(u, t)
      BY <1>1, <1>5, <1>7, <1>8, <1>10, <1>11 DEF Exact
  <1> QED
      BY <1>6, <1>12 DEF u, t

\* One event more.
LEMMA AddTells ==
    ASSUME NEW d \in Told, NEW s \in Seq(Event), Exact(d, s), NEW e \in Event
    PROVE  Trigger!Add(d, e) \in Told /\ Exact(Trigger!Add(d, e), Append(s, e))
  <1> DEFINE n == Len(s)
             t == Append(s, e)
             first == IF d.count < 3 THEN Append(d.first, e) ELSE d.first
             u == Trigger!Add(d, e)
  <1>1. /\ t \in Seq(Event) /\ n \in Nat /\ Len(t) = n + 1 /\ t[n + 1] = e
        /\ \A i \in 1 .. n : t[i] = s[i]
      BY AppendProperties, LenProperties
  <1>2. /\ d.first \in Seq(Event) /\ d.count \in Nat /\ d.signals \in Nat
        /\ d.recovery \in Event \cup {Trigger!NoEvent}
      BY DEF Told
  <1>3. /\ d.count = n /\ Len(d.first) = Least(3, n)
        /\ \A i \in 1 .. Len(d.first) : d.first[i] = s[i]
      BY DEF Exact
  <1>4. u = [count |-> d.count + 1,
             signals |-> d.signals + (IF e.kind = "recover" THEN 1 ELSE 0), first |-> first,
             last |-> e,
             recovery |-> IF e.kind = "outside"
                               \/ (e.kind = "recover" /\ d.recovery = Trigger!NoEvent)
                            THEN e ELSE d.recovery]
      BY DEF Trigger!Add
  <1> HIDE DEF u
  <1>5. /\ first \in Seq(Event) /\ Len(first) = Least(3, n + 1)
        /\ \A i \in 1 .. Len(first) : first[i] = t[i]
    <2>1. CASE n < 3
      <3> DEFINE more == Append(d.first, e)
      <3>1. Len(d.first) = n /\ Least(3, n + 1) = n + 1 /\ first = more
          BY <1>1, <1>3, <2>1 DEF Least
      <3>2. /\ more \in Seq(Event) /\ Len(more) = Len(d.first) + 1 /\ more[Len(d.first) + 1] = e
            /\ \A i \in 1 .. Len(d.first) : more[i] = d.first[i]
          BY <1>2, AppendProperties
      <3> HIDE DEF more, first, t, n
      <3>3. ASSUME NEW i \in 1 .. n + 1 PROVE more[i] = t[i]
        <4>1. CASE i \in 1 .. n
            BY <1>1, <1>3, <3>1, <3>2, <4>1
        <4>2. CASE i = n + 1
            BY <1>1, <3>1, <3>2, <4>2
        <4> QED
            BY <1>1, <4>1, <4>2
      <3> QED
          BY <3>1, <3>2, <3>3
    <2>2. CASE ~(n < 3)
      <3>1. Len(d.first) = 3 /\ Least(3, n + 1) = 3 /\ first = d.first
        <4>1. first = d.first
            BY <1>3, <2>2
        <4> HIDE DEF first, t, n
        <4>2. Least(3, n) = 3 /\ Least(3, n + 1) = 3
            BY <1>1, <2>2 DEF Least
        <4> QED
            BY <1>3, <4>1, <4>2
      <3> HIDE DEF t, n, first
      <3>2. \A i \in 1 .. 3 : i \in 1 .. n
          BY <1>1, <2>2
      <3> QED
          BY <1>1, <1>2, <1>3, <3>1, <3>2
    <2> QED
        BY <2>1, <2>2
  <1> HIDE DEF first
  <1>6. u \in Told
    <2> DEFINE signals == d.signals + (IF e.kind = "recover" THEN 1 ELSE 0)
               recovery == IF e.kind = "outside"
                                \/ (e.kind = "recover" /\ d.recovery = Trigger!NoEvent)
                             THEN e ELSE d.recovery
    <2>1. d.count + 1 \in Nat /\ signals \in Nat /\ recovery \in Event \cup {Trigger!NoEvent}
        BY <1>2
    <2>2. u = [count |-> d.count + 1, signals |-> signals, first |-> first, last |-> e,
               recovery |-> recovery]
        BY <1>4
    <2> HIDE DEF signals, recovery
    <2> QED
        BY <1>5, <2>1, <2>2 DEF Told
  <1>7. t = s \o <<e>> /\ <<e>> \in Seq(Event) /\ Len(<<e>>) = 1 /\ <<e>>[1] = e
      BY AppendIsConcat
  <1>8. /\ Cardinality(Signals(t)) = Cardinality(Signals(s)) + Cardinality(Signals(<<e>>))
        /\ Reasons(t) = Reasons(s) \cup Reasons(<<e>>)
    <2>1. /\ Cardinality(Signals(s \o <<e>>))
                = Cardinality(Signals(s)) + Cardinality(Signals(<<e>>))
          /\ Reasons(s \o <<e>>) = Reasons(s) \cup Reasons(<<e>>)
        BY <1>7, EventsJoin
    <2> HIDE DEF t
    <2> QED
        BY <1>7, <2>1
  <1> HIDE DEF t
  <1>9. 1 .. Len(<<e>>) = {1}
      BY <1>7
  <1>10. Cardinality(Signals(<<e>>)) = IF e.kind = "recover" THEN 1 ELSE 0
    <2>1. CASE e.kind = "recover"
      <3>1. Signals(<<e>>) = {1}
          BY <1>7, <1>9, <2>1 DEF Signals
      <3> QED
          BY <2>1, <3>1, FS_Singleton
    <2>2. CASE e.kind # "recover"
      <3>1. Signals(<<e>>) = {}
          BY <1>7, <1>9, <2>2 DEF Signals
      <3> QED
          BY <2>2, <3>1, FS_EmptySet
    <2> QED
        BY <2>1, <2>2
  <1>11. Reasons(<<e>>) = IF e.kind = "plain" THEN {} ELSE {e}
      BY <1>7, <1>9 DEF Reasons
  <1>12. u.signals = Cardinality(Signals(t))
    <2>1. u.signals = d.signals + (IF e.kind = "recover" THEN 1 ELSE 0)
        BY <1>4
    <2>2. d.signals = Cardinality(Signals(s))
        BY DEF Exact
    <2> QED
        BY <1>8, <1>10, <2>1, <2>2
  <1>13. Trigger!NoEvent \notin Event /\ e.kind \in {"plain", "recover", "outside"}
      BY DEF Event, Trigger!NoEvent, Trigger!Kinds
  <1>14. IF Reasons(t) = {} THEN u.recovery = Trigger!NoEvent ELSE u.recovery \in Reasons(t)
    <2>1. IF Reasons(s) = {} THEN d.recovery = Trigger!NoEvent ELSE d.recovery \in Reasons(s)
        BY DEF Exact
    <2>2. u.recovery = IF e.kind = "outside"
                               \/ (e.kind = "recover" /\ d.recovery = Trigger!NoEvent)
                            THEN e ELSE d.recovery
        BY <1>4
    <2>3. CASE e.kind = "plain"
        BY <1>8, <1>11, <2>1, <2>2, <2>3
    <2>4. CASE e.kind = "outside"
        BY <1>8, <1>11, <2>2, <2>4
    <2>5. CASE e.kind = "recover"
        BY <1>8, <1>11, <1>13, <2>1, <2>2, <2>5
    <2> QED
        BY <1>13, <2>3, <2>4, <2>5
  <1>15. u.count = n + 1 /\ u.first = first /\ u.last = e
      BY <1>3, <1>4
  <1>16. t # <<>> /\ t[Len(t)] = e
    <2>1. Len(<<>>) = 0
        OBVIOUS
    <2> QED
        BY <1>1, <2>1
  <1>17. Exact(u, t)
      BY <1>1, <1>5, <1>12, <1>14, <1>15, <1>16 DEF Exact
  <1> QED
      BY <1>6, <1>17 DEF u, t

\* Nothing to tell of no event.
LEMMA NothingTold == Trigger!NoDiagnostics \in Told /\ Exact(Trigger!NoDiagnostics, <<>>)
  <1>1. Trigger!NoDiagnostics \in Told
      BY EmptySeq DEF Trigger!NoDiagnostics, Told
  <1>2. Len(<<>>) = 0
      OBVIOUS
  <1>3. Signals(<<>>) = {} /\ Reasons(<<>>) = {}
      BY <1>2 DEF Signals, Reasons
  <1>4. Exact(Trigger!NoDiagnostics, <<>>)
      BY <1>2, <1>3, FS_EmptySet DEF Exact, Least, Trigger!NoDiagnostics
  <1> QED
      BY <1>1, <1>4

\* A batch changes, and nothing else.
LEMMA BatchKeeps ==
    ASSUME TriggerInv, UNCHANGED <<now, log, calls, shown>>,
           NEW d \in Told, NEW s \in Seq(Event), Exact(d, s),
           NEW b \in Told, NEW r \in Seq(Event), Exact(b, r),
           inbox' = d, pending' = b, events' = [inbox |-> s, pending |-> r]
    PROVE  TriggerInv'
  <1>1. TriggerType'
      BY DEF TriggerInv, TriggerType
  <1>2. events'.inbox = s /\ events'.pending = r
      OBVIOUS
  <1> QED
      BY <1>1, <1>2 DEF TriggerInv

\* An event comes in, a batch is taken, and one is done.
LEMMA EventsKeep ==
    ASSUME TriggerInv,
           (\E e \in Event : Trigger!Callback(e)) \/ Trigger!Take \/ Trigger!Clear
    PROVE  TriggerInv'
  <1>1. /\ inbox \in Told /\ events.inbox \in Seq(Event) /\ Exact(inbox, events.inbox)
        /\ pending \in Told /\ events.pending \in Seq(Event) /\ Exact(pending, events.pending)
        /\ events = [inbox |-> events.inbox, pending |-> events.pending]
      BY DEF TriggerInv, TriggerType
  <1>2. CASE \E e \in Event : Trigger!Callback(e)
    <2>1. PICK e \in Event : Trigger!Callback(e)
        BY <1>2
    <2>2. /\ inbox' = Trigger!Add(inbox, e) /\ pending' = pending
          /\ UNCHANGED <<now, log, calls, shown>>
          /\ events' = [events EXCEPT !.inbox = Append(@, e)]
        BY <2>1 DEF Trigger!Callback, Trigger!Diagnostics
    <2>3. events' = [inbox |-> Append(events.inbox, e), pending |-> events.pending]
        BY <1>1, <2>2
    <2>4. /\ Trigger!Add(inbox, e) \in Told /\ Append(events.inbox, e) \in Seq(Event)
          /\ Exact(Trigger!Add(inbox, e), Append(events.inbox, e))
        BY <1>1, AddTells
    <2> QED
        BY <1>1, <2>2, <2>3, <2>4, BatchKeeps
  <1>3. CASE Trigger!Take
    <2>1. /\ pending' = Trigger!Merge(pending, inbox) /\ inbox' = Trigger!NoDiagnostics
          /\ events' = [inbox |-> <<>>, pending |-> events.pending \o events.inbox]
          /\ UNCHANGED <<now, log, calls, shown>>
        BY <1>3 DEF Trigger!Take, Trigger!Diagnostics
    <2>2. /\ Trigger!Merge(pending, inbox) \in Told
          /\ events.pending \o events.inbox \in Seq(Event)
          /\ Exact(Trigger!Merge(pending, inbox), events.pending \o events.inbox)
        BY <1>1, MergeTells, ConcatProperties
    <2> QED
        BY <2>1, <2>2, NothingTold, EmptySeq, BatchKeeps
  <1>4. CASE Trigger!Clear
    <2>1. /\ pending' = Trigger!NoDiagnostics /\ inbox' = inbox
          /\ events' = [events EXCEPT !.pending = <<>>]
          /\ UNCHANGED <<now, log, calls, shown>>
        BY <1>4 DEF Trigger!Clear, Trigger!Diagnostics
    <2>2. events' = [inbox |-> events.inbox, pending |-> <<>>]
        BY <1>1, <2>1
    <2> QED
        BY <1>1, <2>1, <2>2, NothingTold, EmptySeq, BatchKeeps
  <1> QED
      BY <1>2, <1>3, <1>4

\* Time passes.
LEMMA TickKeeps == ASSUME TriggerInv, Trigger!Tick PROVE TriggerInv'
  <1>1. now' = now + 1 /\ UNCHANGED <<log, inbox, pending, events, calls, shown>>
      BY DEF Trigger!Tick
  <1>2. now \in Nat /\ log.window \in Nat /\ log.window <= now
      BY DEF TriggerInv, TriggerType, LogState
  <1>3. now' \in Nat /\ log'.window <= now'
      BY <1>1, <1>2
  <1> QED
      BY <1>1, <1>3 DEF TriggerInv, TriggerType

\* Every step keeps the invariant.
LEMMA TriggerKeeps ==
    ASSUME Trigger!TriggerAssumption, TriggerInv, Trigger!Next PROVE TriggerInv'
  <1>1. CASE Trigger!Tick
      BY <1>1, TickKeeps
  <1>2. CASE Trigger!Take
      BY <1>2, EventsKeep
  <1>3. CASE Trigger!Clear
      BY <1>3, EventsKeep
  <1>4. ASSUME NEW k \in Trigger!Kinds, NEW id \in 1 .. 2, Trigger!Callback([id |-> id, kind |-> k])
        PROVE  TriggerInv'
    <2>1. [id |-> id, kind |-> k] \in Event
        BY DEF Event
    <2> QED
        BY <1>4, <2>1, EventsKeep
  <1>5. ASSUME NEW p \in BOOLEAN, Trigger!Record(p) PROVE TriggerInv'
    <2>1. UNCHANGED <<now, inbox, pending, events>>
        BY <1>5 DEF Trigger!Record
    <2>2. Trigger!Suppress(p) \/ Trigger!Oversized(p) \/ Trigger!Written(p) \/ Trigger!Failed(p)
        BY <1>5 DEF Trigger!Record
    <2> QED
        BY <2>1, <2>2, SuppressKeeps, FailedKeeps, WrittenKeeps
  <1> QED
      BY <1>1, <1>2, <1>3, <1>4, <1>5 DEF Trigger!Next

\* Nothing happens.
LEMMA TriggerInvKept ==
    ASSUME TriggerInv, UNCHANGED <<now, log, inbox, pending, events, calls, shown>>
    PROVE  TriggerInv'
  BY DEF TriggerInv, TriggerType

\* The diagnostics of the watcher lose nothing they do not count (watch.rs TriggerLog):
\* a line's counters are the calls since the line before it, recovery records have the
\* slots kept for them, and batches merged tell what one batch of their events would.
THEOREM Triggers ==
    ASSUME Trigger!TriggerAssumption
    PROVE  Trigger!Spec => [](Trigger!GapsCounted /\ Trigger!RecoveryHeard /\ Trigger!EvidenceExact)
  <1>1. Trigger!Init => TriggerInv
      BY TriggerStarts
  <1>2. TriggerInv /\ [Trigger!Next]_Trigger!vars => TriggerInv'
      BY TriggerKeeps, TriggerInvKept DEF Trigger!vars
  <1>3. TriggerInv => Trigger!GapsCounted /\ Trigger!RecoveryHeard /\ Trigger!EvidenceExact
      BY TriggerInvTold
  <1> QED
      BY <1>1, <1>2, <1>3, PTL DEF Trigger!Spec

-----------------------------------------------------------------------------
(* The processes side by side *)

RequestProofs == INSTANCE ConnectionProofs

CrowdProofs == INSTANCE ConnectionProofs WITH
    Clients <- Crowd, Messages <- CrowdMessages, HasToken <- FALSE, HeaderLimit <- CrowdHeader,
    Buffer <- 1, TotalTimeout <- 0

\* The proofs of ConnectionProofs are about the connections of the first group.
LEMMA SameRequests ==
    /\ Requests!HttpAssumption => RequestProofs!HttpAssumption
    /\ Requests!Init => RequestProofs!Init
    /\ [Requests!Next]_Requests!vars => [RequestProofs!Next]_RequestProofs!vars
    /\ RequestProofs!ConnectionsSound => Requests!ConnectionsSound
  <1>1. Requests!HttpAssumption => RequestProofs!HttpAssumption
      BY DEF Requests!HttpAssumption, RequestProofs!HttpAssumption
  <1>2. Requests!Init => RequestProofs!Init
      BY DEF Requests!Init, RequestProofs!Init
  <1>3. [Requests!Next]_Requests!vars => [RequestProofs!Next]_RequestProofs!vars
      BY DEF Requests!vars, Requests!Goto, Requests!Count, Requests!Accepting,
             Requests!Accept, Requests!SlotLoad, Requests!SlotExchange, Requests!Crlf,
             Requests!Data, Requests!HasTerminator, Requests!Close, Requests!ReadSome,
             Requests!ReadBlocks, Requests!ReadEnd, Requests!ReadFails,
             Requests!LineStarts, Requests!LineAt, Requests!RequestLine,
             Requests!request_has_valid_token, Requests!Respond, Requests!Status,
             Requests!Route, Requests!SearchSlot, Requests!Search, Requests!CountSearch,
             Requests!Work, Requests!Release, Requests!CountRequest, Requests!Step,
             Requests!Next, RequestProofs!vars, RequestProofs!Goto, RequestProofs!Count,
             RequestProofs!Accepting, RequestProofs!Accept, RequestProofs!SlotLoad,
             RequestProofs!SlotExchange, RequestProofs!Crlf, RequestProofs!Data,
             RequestProofs!HasTerminator, RequestProofs!Close, RequestProofs!ReadSome,
             RequestProofs!ReadBlocks, RequestProofs!ReadEnd, RequestProofs!ReadFails,
             RequestProofs!LineStarts, RequestProofs!LineAt, RequestProofs!RequestLine,
             RequestProofs!request_has_valid_token, RequestProofs!Respond,
             RequestProofs!Status, RequestProofs!Route, RequestProofs!SearchSlot,
             RequestProofs!Search, RequestProofs!CountSearch, RequestProofs!Work,
             RequestProofs!Release, RequestProofs!CountRequest, RequestProofs!Step,
             RequestProofs!Next
  <1>4. RequestProofs!ConnectionsSound => Requests!ConnectionsSound
      BY DEF Requests!ConnectionsSound, Requests!HandlersBounded, Requests!Handling,
             Requests!ReadingBounded, Requests!NothingWithoutToken, Requests!Header,
             Requests!TrafficBalanced, Requests!Data, Requests!HasTerminator,
             Requests!Crlf, Requests!Cardinality, RequestProofs!ConnectionsSound,
             RequestProofs!HandlersBounded, RequestProofs!Handling,
             RequestProofs!ReadingBounded, RequestProofs!NothingWithoutToken,
             RequestProofs!Header, RequestProofs!TrafficBalanced, RequestProofs!Data,
             RequestProofs!HasTerminator, RequestProofs!Crlf, RequestProofs!Cardinality
  <1> QED
      BY <1>1, <1>2, <1>3, <1>4

\* And about those of the second.
LEMMA SameCrowd ==
    /\ Crowded!HttpAssumption => CrowdProofs!HttpAssumption
    /\ Crowded!Init => CrowdProofs!Init
    /\ [Crowded!Next]_Crowded!vars => [CrowdProofs!Next]_CrowdProofs!vars
    /\ CrowdProofs!ConnectionsSound => Crowded!ConnectionsSound
  <1>1. Crowded!HttpAssumption => CrowdProofs!HttpAssumption
      BY DEF Crowded!HttpAssumption, CrowdProofs!HttpAssumption
  <1>2. Crowded!Init => CrowdProofs!Init
      BY DEF Crowded!Init, CrowdProofs!Init
  <1>3. [Crowded!Next]_Crowded!vars => [CrowdProofs!Next]_CrowdProofs!vars
      BY DEF Crowded!vars, Crowded!Goto, Crowded!Count, Crowded!Accepting,
             Crowded!Accept, Crowded!SlotLoad, Crowded!SlotExchange, Crowded!Crlf,
             Crowded!Data, Crowded!HasTerminator, Crowded!Close, Crowded!ReadSome,
             Crowded!ReadBlocks, Crowded!ReadEnd, Crowded!ReadFails, Crowded!LineStarts,
             Crowded!LineAt, Crowded!RequestLine, Crowded!request_has_valid_token,
             Crowded!Respond, Crowded!Status, Crowded!Route, Crowded!SearchSlot,
             Crowded!Search, Crowded!CountSearch, Crowded!Work, Crowded!Release,
             Crowded!CountRequest, Crowded!Step, Crowded!Next, CrowdProofs!vars,
             CrowdProofs!Goto, CrowdProofs!Count, CrowdProofs!Accepting,
             CrowdProofs!Accept, CrowdProofs!SlotLoad, CrowdProofs!SlotExchange,
             CrowdProofs!Crlf, CrowdProofs!Data, CrowdProofs!HasTerminator,
             CrowdProofs!Close, CrowdProofs!ReadSome, CrowdProofs!ReadBlocks,
             CrowdProofs!ReadEnd, CrowdProofs!ReadFails, CrowdProofs!LineStarts,
             CrowdProofs!LineAt, CrowdProofs!RequestLine,
             CrowdProofs!request_has_valid_token, CrowdProofs!Respond,
             CrowdProofs!Status, CrowdProofs!Route, CrowdProofs!SearchSlot,
             CrowdProofs!Search, CrowdProofs!CountSearch, CrowdProofs!Work,
             CrowdProofs!Release, CrowdProofs!CountRequest, CrowdProofs!Step,
             CrowdProofs!Next
  <1>4. CrowdProofs!ConnectionsSound => Crowded!ConnectionsSound
      BY DEF Crowded!ConnectionsSound, Crowded!HandlersBounded, Crowded!Handling,
             Crowded!ReadingBounded, Crowded!NothingWithoutToken, Crowded!Header,
             Crowded!TrafficBalanced, Crowded!Data, Crowded!HasTerminator, Crowded!Crlf,
             Crowded!Cardinality, CrowdProofs!ConnectionsSound,
             CrowdProofs!HandlersBounded, CrowdProofs!Handling,
             CrowdProofs!ReadingBounded, CrowdProofs!NothingWithoutToken,
             CrowdProofs!Header, CrowdProofs!TrafficBalanced, CrowdProofs!Data,
             CrowdProofs!HasTerminator, CrowdProofs!Crlf, CrowdProofs!Cardinality
  <1> QED
      BY <1>1, <1>2, <1>3, <1>4

\* The invariant of the component that the behaviour is one of.
ProcessInv ==
    /\ part = "requests" => RequestProofs!Inv
    /\ part = "crowded" => CrowdProofs!Inv
    /\ part = "audit" => AuditInv
    /\ part = "file" => FileInv
    /\ part \in {"trigger", "evidence"} => TriggerInv
    /\ part = "setup" => SetupInv

\* Each component starts as it does alone.
LEMMA ProcessStarts == ASSUME MCInit PROVE ProcessInv
  <1>1. CASE part = "requests"
    <2>1. Requests!Init /\ Requests!HttpAssumption
        BY <1>1, PartsAssumption DEF MCInit
    <2>2. RequestProofs!Init /\ RequestProofs!HttpAssumption
        BY <2>1, SameRequests
    <2> QED
        BY <1>1, <2>2, RequestProofs!InitInv DEF ProcessInv
  <1>2. CASE part = "crowded"
    <2>1. Crowded!Init /\ Crowded!HttpAssumption
        BY <1>2, PartsAssumption DEF MCInit
    <2>2. CrowdProofs!Init /\ CrowdProofs!HttpAssumption
        BY <2>1, SameCrowd
    <2> QED
        BY <1>2, <2>2, CrowdProofs!InitInv DEF ProcessInv
  <1>3. CASE part = "audit"
    <2>1. Audit!Init
        BY <1>3 DEF MCInit
    <2> QED
        BY <1>3, <2>1, AuditStarts, PartsAssumption DEF ProcessInv
  <1>4. CASE part = "setup"
    <2>1. Setup!Init
        BY <1>4 DEF MCInit
    <2> QED
        BY <1>4, <2>1, SetupStarts, PartsAssumption DEF ProcessInv
  <1>5. CASE part = "file"
    <2>1. File!Init
        BY <1>5 DEF MCInit
    <2> QED
        BY <1>5, <2>1, FileStarts, PartsAssumption DEF ProcessInv
  <1>6. CASE part \in {"trigger", "evidence"}
    <2>1. Trigger!Init
        BY <1>6 DEF MCInit
    <2> QED
        BY <1>6, <2>1, TriggerStarts, PartsAssumption DEF ProcessInv
  <1> QED
      BY <1>1, <1>2, <1>3, <1>4, <1>5, <1>6 DEF ProcessInv

\* And goes on as it does alone: no other component touches its variables.
LEMMA ProcessSteps == ASSUME ProcessInv, [MCNext]_vars PROVE ProcessInv'
  <1>1. part' = part
      BY DEF MCNext, CrowdedStep, vars
  <1>2. CASE part = "requests"
    <2>1. [Requests!Next]_Requests!vars
        BY <1>2 DEF MCNext, CrowdedStep, vars, httpvars, Requests!vars
    <2>2. [RequestProofs!Next]_RequestProofs!vars /\ RequestProofs!HttpAssumption
        BY <2>1, SameRequests, PartsAssumption
    <2>3. RequestProofs!Inv'
        BY <1>2, <2>2, RequestProofs!StepInv DEF ProcessInv
    <2> QED
        BY <1>1, <1>2, <2>3 DEF ProcessInv
  <1>3. CASE part = "crowded"
    <2>1. [Crowded!Next]_Crowded!vars
        BY <1>3 DEF MCNext, CrowdedStep, vars, httpvars, Crowded!vars, Crowded!Next
    <2>2. [CrowdProofs!Next]_CrowdProofs!vars /\ CrowdProofs!HttpAssumption
        BY <2>1, SameCrowd, PartsAssumption
    <2>3. CrowdProofs!Inv'
        BY <1>3, <2>2, CrowdProofs!StepInv DEF ProcessInv
    <2> QED
        BY <1>1, <1>3, <2>3 DEF ProcessInv
  <1>4. CASE part = "audit"
    <2>1. [Audit!Next]_Audit!vars
        BY <1>4 DEF MCNext, CrowdedStep, vars, auditvars, Audit!vars
    <2>2. AuditInv'
        BY <1>4, <2>1, AuditKeeps, PartsAssumption DEF ProcessInv
    <2> QED
        BY <1>1, <1>4, <2>2 DEF ProcessInv
  <1>5. CASE part = "setup"
    <2>1. [Setup!Next]_Setup!vars
        BY <1>5 DEF MCNext, CrowdedStep, vars, setupvars, Setup!vars
    <2>2. SetupInv'
        BY <1>5, <2>1, SetupKeeps, PartsAssumption DEF ProcessInv
    <2> QED
        BY <1>1, <1>5, <2>2 DEF ProcessInv
  <1>6. CASE part = "file"
    <2>1. [File!Next]_File!vars
        BY <1>6 DEF MCNext, CrowdedStep, vars, filevars, File!vars
    <2>2. FileInv'
        BY <1>6, <2>1, FileKeeps, PartsAssumption DEF ProcessInv
    <2> QED
        BY <1>1, <1>6, <2>2 DEF ProcessInv
  <1>7. CASE part \in {"trigger", "evidence"}
    <2>1. [Trigger!Next]_Trigger!vars
        BY <1>7 DEF MCNext, CrowdedStep, vars, triggervars, Trigger!vars
    <2>2. TriggerInv'
        BY <1>7, <2>1, TriggerKeeps, TriggerInvKept, PartsAssumption
        DEF ProcessInv, Trigger!vars
    <2> QED
        BY <1>1, <1>7, <2>2 DEF ProcessInv
  <1> QED
      BY <1>1, <1>2, <1>3, <1>4, <1>5, <1>6, <1>7 DEF ProcessInv

\* The invariant of the processes.
LEMMA ProcessAlways == MCSpec => []ProcessInv
  <1>1. MCInit => ProcessInv
      BY ProcessStarts
  <1>2. ProcessInv /\ [MCNext]_vars => ProcessInv'
      BY ProcessSteps
  <1> QED
      BY <1>1, <1>2, PTL DEF MCSpec

\* Connections of both groups are counted, end their reading, need the token and give
\* back their slots (server.rs, serve, handle_stream, read_request).
THEOREM ConnectionsAreSound == MCSpec => []ConnectionsSound
  <1>1. ProcessInv => ConnectionsSound
      BY SameRequests, SameCrowd, RequestProofs!InvSound, CrowdProofs!InvSound
      DEF ProcessInv, ConnectionsSound
  <1> QED
      BY <1>1, ProcessAlways, PTL

\* The memory audit accounts for its records (serve_memory.rs, publish, flush).
THEOREM AuditIsSound == MCSpec => []AuditSound
  <1>1. ProcessInv => AuditSound
      BY AuditInvSound DEF ProcessInv, AuditSound
  <1> QED
      BY <1>1, ProcessAlways, PTL

\* Logs keep their bounds and what was written last (watch.rs append_trigger_record,
\* write_startup_summary; serve_memory.rs append_record).
THEOREM LogsAreKept == MCSpec => []LogsKept
  <1>1. ProcessInv => LogsKept
      BY FileInvKept DEF ProcessInv, LogsKept
  <1> QED
      BY <1>1, ProcessAlways, PTL

\* The watcher's diagnostics say what they leave out and what the events were
\* (watch.rs TriggerLog, RawEventCounts, merge_incoming).
THEOREM TriggersAreTold == MCSpec => []TriggersTold
  <1>1. ProcessInv => TriggersTold
      BY TriggerInvTold DEF ProcessInv, TriggersTold
  <1> QED
      BY <1>1, ProcessAlways, PTL

\* The stream is safe, wherever its setup fails (watch.rs, watch_index).
THEOREM StreamIsSafe == MCSpec => []StreamSafe
  <1>1. ProcessInv => StreamSafe
      BY SetupInvSafe DEF ProcessInv, StreamSafe
  <1> QED
      BY <1>1, ProcessAlways, PTL
=============================================================================
