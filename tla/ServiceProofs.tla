--------------------------- MODULE ServiceProofs ----------------------------
(***************************************************************************)
(* What is proved of SearchService for every number of request threads,    *)
(* rows, revisions, database files and faults, and every limit; and the    *)
(* safety part of the refinement: every step of the service and of the     *)
(* database is a step of AbstractSearch or a stutter.                      *)
(***************************************************************************)
EXTENDS SearchRefinement, PackedProofs

-----------------------------------------------------------------------------
(* Database files only move forward: what is stamped stays what it was.    *)

\* A stamp that was read from a database file, and the rows it stands for.
Stamped(st) ==
    /\ st.file \in 1 .. ident
    /\ st.revision \in 0 .. dbs[st.file].revision
    /\ dbs[st.file].schema # "none"
Snapshot(st) == history[st.file][st.revision]

Forward ==
    /\ ident' \in Idents /\ ident <= ident'
    /\ \A i \in 1 .. ident :
          /\ dbs'[i].revision \in Nat /\ dbs[i].revision <= dbs'[i].revision
          /\ dbs[i].schema # "none" =>
                /\ dbs'[i].schema # "none"
                /\ \A r \in 0 .. dbs[i].revision : history'[i][r] = history[i][r]
          /\ dbs'[i].files = dbs[i].files \/ (i = ident /\ ident' = ident)

\* Every statement of a writer is a Commit.
LEMMA WriteCommits == Write => \E f, named, victim : Commit(f, named, victim)
  BY DEF Write, Upsert, InsertOrReplace, MoveOrReplace, Delete

\* The triggers raise the revision whenever there is one.
LEMMA RecordForward ==
    ASSUME NEW d \in DbType, NEW f, NEW named, NEW victim,
           NEW e, e = record_change(d, f, named, victim)
    PROVE  /\ d.schema = "none" => e.revision = d.revision
           /\ d.schema # "none" => e.revision = d.revision + 1 /\ e.schema = d.schema
  <1>1. CASE d.schema = "none"
      BY <1>1 DEF record_change, DbType
  <1>2. CASE d.schema = "revision"
      BY <1>2 DEF record_change, DbType
  <1>3. CASE d.schema = "journal"
    <2> DEFINE n == [d EXCEPT !.files = f, !.revision = @ + 1,
                              !.journal[d.revision + 1] = named \cup victim]
    <2>0. e = prune(n)
        BY <1>3 DEF record_change
    <2>1. n.revision = d.revision + 1 /\ n.schema = d.schema
        BY DEF DbType
    <2> DEFINE j == [d.journal EXCEPT ![d.revision + 1] = named \cup victim]
    <2>2. n = [schema |-> d.schema, files |-> f, revision |-> d.revision + 1,
               journal |-> j, floor |-> d.floor, since |-> d.since]
      <3>1. d = [schema |-> d.schema, files |-> d.files, revision |-> d.revision,
                 journal |-> d.journal, floor |-> d.floor, since |-> d.since]
          BY DEF DbType
      <3>2. n = [d EXCEPT !.files = f, !.revision = d.revision + 1, !.journal = j]
          OBVIOUS
      <3> HIDE DEF n, j
      <3> QED
          BY <3>1, <3>2
    <2> HIDE DEF j
    <2> HIDE DEF n
    <2>3. prune(n).revision = n.revision /\ prune(n).schema = n.schema
        BY <2>2 DEF prune
    <2> QED
        BY <1>3, <2>0, <2>1, <2>3
  <1> QED
      BY <1>1, <1>2, <1>3 DEF DbType, Schemas

\* No step of the database takes back a file, a revision or what it stood for.
LEMMA ForwardStep == DbInv /\ [DbNext]_dbvars => Forward
  <1> SUFFICES ASSUME DbInv, [DbNext]_dbvars PROVE Forward
      OBVIOUS
  <1>0. /\ ident \in Idents /\ ident \in Nat /\ dbs \in [Idents -> DbType]
        /\ history \in [Idents -> [0 .. MaxRevision -> Tables]] /\ 1 .. ident \subseteq Idents
      BY Bounds DEF DbInv, Typed, Idents
  <1>1. \A i \in 1 .. ident : dbs[i] \in DbType /\ dbs[i].revision \in Nat
      BY <1>0, Bounds DEF DbType
  <1>a. \A i \in 1 .. ident : dbs'[i].revision \in Nat
      BY <1>0, NextCovers, Bounds DEF DbInv, Typed, DbType
  <1>2. CASE Write
    <2>1. PICK f, named, victim : Commit(f, named, victim)
        BY <1>2, WriteCommits
    <2> DEFINE e == record_change(dbs[ident], f, named, victim)
    <2>2. /\ dbs' = [dbs EXCEPT ![ident] = e] /\ ident' = ident
          /\ history' = [history EXCEPT ![ident] = [history[ident] EXCEPT ![dbs'[ident].revision] = f]]
        BY <2>1 DEF Commit, db
    <2>3. /\ dbs[ident].schema = "none" => e.revision = dbs[ident].revision
          /\ dbs[ident].schema # "none" => e.revision = dbs[ident].revision + 1
                                           /\ e.schema = dbs[ident].schema
        BY <1>0, RecordForward
    <2> HIDE DEF e
    <2>4. dbs'[ident] = e /\ \A i \in 1 .. ident : i # ident => dbs'[i] = dbs[i]
        BY <1>0, <2>2
    <2>5. \A i \in 1 .. ident : i # ident => history'[i] = history[i]
        BY <1>0, <2>2
    <2>6. ASSUME dbs[ident].schema # "none", NEW r \in 0 .. dbs[ident].revision
          PROVE  history'[ident][r] = history[ident][r]
      <3>1. history' = [history EXCEPT ![ident] =
                            [history[ident] EXCEPT ![dbs[ident].revision + 1] = f]]
          BY <2>2, <2>3, <2>4, <2>6
      <3>2. history'[ident] = [history[ident] EXCEPT ![dbs[ident].revision + 1] = f]
          BY <1>0, <3>1
      <3>3. r # dbs[ident].revision + 1 /\ r \in 0 .. MaxRevision
          BY <1>0, <1>1, Bounds DEF DbType
      <3>4. history[ident] \in [0 .. MaxRevision -> Tables]
          BY <1>0
      <3> QED
          BY <3>2, <3>3, <3>4
    <2> QED
        BY <1>0, <1>1, <1>a, <2>2, <2>3, <2>4, <2>5, <2>6 DEF Forward
  <1>3. CASE Migrate
    <2>1. /\ dbs' = [dbs EXCEPT ![ident] = migrated(dbs[ident])]
          /\ ident' = ident /\ history' = history
        BY <1>3 DEF Migrate, db
    <2>2. /\ migrated(dbs[ident]).revision = dbs[ident].revision
          /\ migrated(dbs[ident]).schema = "journal"
          /\ migrated(dbs[ident]).files = dbs[ident].files
        BY <1>0 DEF migrated, DbType
    <2> QED
        BY <1>0, <1>1, <1>a, <2>1, <2>2 DEF Forward
  <1>4. CASE Install
    <2> DEFINE k(d) == [r \in 0 .. MaxRevision |-> IF d = db THEN history[ident][r] ELSE d.files]
    <2>0. PICK d : /\ dbs' = [dbs EXCEPT ![ident + 1] = d]
                   /\ history' = [history EXCEPT ![ident + 1] = k(d)]
        BY <1>4 DEF Install
    <2> HIDE DEF k
    <2>1. ident' = ident + 1 /\ ident + 1 \in Idents
        BY <1>0, <1>4, Bounds DEF Install, Idents
    <2>2. \A i \in 1 .. ident : dbs'[i] = dbs[i] /\ history'[i] = history[i]
        BY <1>0, <2>0, <2>1
    <2> QED
        BY <1>0, <1>1, <1>a, <2>1, <2>2 DEF Forward
  <1>5. CASE UNCHANGED dbvars
      BY <1>0, <1>1, <1>5 DEF dbvars, Forward
  <1> QED
      BY <1>2, <1>3, <1>4, <1>5 DEF DbNext

\* What is stamped stays so, and keeps its rows.
LEMMA StampedForward ==
    ASSUME DbInv, Forward, NEW st, Stamped(st)
    PROVE  /\ st.file \in 1 .. ident' /\ st.revision \in 0 .. dbs'[st.file].revision
           /\ dbs'[st.file].schema # "none"
           /\ history'[st.file][st.revision] = Snapshot(st)
  <1>0. /\ ident \in Nat /\ ident' \in Nat /\ dbs \in [Idents -> DbType]
        /\ 1 .. ident \subseteq Idents
      BY Bounds DEF DbInv, Typed, Idents, Forward
  <1>1. dbs[st.file].revision \in Nat
      BY <1>0, Bounds DEF DbType, Stamped
  <1>2. /\ st.file \in 1 .. ident /\ st.revision \in 0 .. dbs[st.file].revision
        /\ dbs[st.file].schema # "none"
      BY DEF Stamped
  <1>3. /\ dbs'[st.file].revision \in Nat /\ dbs[st.file].revision <= dbs'[st.file].revision
        /\ dbs'[st.file].schema # "none"
        /\ history'[st.file][st.revision] = history[st.file][st.revision]
        /\ ident <= ident'
      BY <1>2 DEF Forward
  <1> QED
      BY <1>0, <1>1, <1>2, <1>3 DEF Snapshot

-----------------------------------------------------------------------------
(* The write lock and the search slots.                                    *)

SearchOnly == {"slot", "exchange", "check", "refresh", "recheck", "observe", "open", "delta",
               "apply", "search"}
InUse == Labels \ {"start", "slot", "exchange", "done"}
Answers == {"none", "busy", "unavailable", "reloaded", "results", "stale", "fresh"}

\* The lock is held exactly inside its section, and only searches are where only
\* searches can be.
Control ==
    /\ pc \in [Threads -> Labels]
    /\ writer \in Threads \cup {NoThread}
    /\ \A t \in Threads : pc[t] \in Locked <=> writer = t
    /\ \A t \in Threads : pc[t] \in SearchOnly => t \in Searches
    /\ answer \in [Threads -> Answers]

\* A step of thread t to label l, as the lock sees it.
Moves(t, l) ==
    /\ l \in Labels
    /\ pc' = [pc EXCEPT ![t] = l]
    /\ pc[t] \in Locked => writer' = IF l \in Locked THEN writer ELSE NoThread
    /\ pc[t] \notin Locked => IF l \in Locked THEN writer = NoThread /\ writer' = t
                                              ELSE writer' = writer
    /\ l \in SearchOnly => pc[t] \in SearchOnly \/ t \in Searches

\* Every step of a thread moves it to one label, and takes or gives back the lock
\* when it enters or leaves the locked labels.
LEMMA StepMoves ==
    ASSUME NEW t \in Threads, Control, Step(t)
    PROVE  \E l : Moves(t, l)
  <1>1. CASE Begin(t)
      BY <1>1 DEF Moves, Labels, Locked, SearchOnly, Begin, Goto
  <1>2. CASE SlotLoad(t)
      BY <1>2 DEF Moves, Labels, Locked, SearchOnly, SlotLoad, Goto
  <1>3. CASE SlotExchange(t)
      BY <1>3 DEF Moves, Labels, Locked, SearchOnly, SlotExchange, Goto
  <1>4. CASE Check(t)
      BY <1>4 DEF Moves, Labels, Locked, SearchOnly, Check, Goto
  <1>5. CASE Lock(t)
      BY <1>5 DEF Moves, Labels, Locked, SearchOnly, Lock, Goto
  <1>6. CASE Recheck(t)
      BY <1>6 DEF Moves, Labels, Locked, SearchOnly, Recheck, Goto, Unlock
  <1>7. CASE Observe(t)
      BY <1>7 DEF Moves, Labels, Locked, SearchOnly, Observe, Goto
  <1>8. CASE OpenReadOnly(t)
      BY <1>8 DEF Moves, Labels, Locked, SearchOnly, OpenReadOnly, Goto
  <1>9. CASE ReadJournal(t)
      BY <1>9 DEF Moves, Labels, Locked, SearchOnly, ReadJournal, Take, Goto
  <1>10. CASE ReadSnapshot(t)
      BY <1>10 DEF Moves, Labels, Locked, SearchOnly, ReadSnapshot, Take, Goto
  <1>11. CASE ReadRefused(t)
      BY <1>11 DEF Moves, Labels, Locked, SearchOnly, ReadRefused, Goto
  <1>12. CASE ReadFails(t)
      BY <1>12 DEF Moves, Labels, Locked, SearchOnly, ReadFails, Goto, Unlock, Fail, Respond
  <1>13. CASE ApplyRefused(t)
      BY <1>13 DEF Moves, Labels, Locked, SearchOnly, ApplyRefused, Goto
  <1>14. CASE Apply(t)
      BY <1>14 DEF Moves, Labels, Locked, SearchOnly, Apply, Goto, Unlock
  <1>15. CASE ApplyFails(t)
      BY <1>15 DEF Moves, Labels, Locked, SearchOnly, ApplyFails, Goto, Unlock, Fail, Respond
  <1>16. CASE Load(t)
      BY <1>16 DEF Moves, Labels, Locked, SearchOnly, Load, Goto
  <1>17. CASE LoadMigrate(t)
      BY <1>17 DEF Moves, Labels, Locked, SearchOnly, LoadMigrate, Goto
  <1>18. CASE LoadReopen(t)
      BY <1>18 DEF Moves, Labels, Locked, SearchOnly, LoadReopen, Goto
  <1>19. CASE Fill(t)
      BY <1>19 DEF Moves, Labels, Locked, SearchOnly, Fill, Goto, Unlock, Respond
  <1>20. CASE LoadFails(t)
      BY <1>20 DEF Moves, Labels, Locked, SearchOnly, LoadFails, Goto, Unlock, Fail, Respond
  <1>21. CASE Search(t)
      BY <1>21 DEF Moves, Labels, Locked, SearchOnly, Search, Goto, Respond
  <1>22. CASE Status(t)
      BY <1>22 DEF Moves, Labels, Locked, SearchOnly, Status, Goto, Respond
  <1> QED
      BY <1>1, <1>2, <1>3, <1>4, <1>5, <1>6, <1>7, <1>8, <1>9, <1>10, <1>11, <1>12, <1>13, <1>14, <1>15, <1>16, <1>17, <1>18, <1>19, <1>20, <1>21, <1>22 DEF Step


\* What a step answers, and to whom: "results" comes from a search of an index that
\* is available, "fresh" from a status that finds the index not stale.
Tells(t) ==
    \/ answer' = answer
    \/ \E x \in Answers :
          /\ answer' = [answer EXCEPT ![t] = x]
          /\ x = "results" => Search(t) /\ backend # "unavailable"
          /\ x = "fresh" => Status(t) /\ ~Stale

\* Each of the steps answers as Tells says (Respond and Fail in server.rs).
LEMMA StepTells ==
    ASSUME NEW t \in Threads, Step(t)
    PROVE  Tells(t)
  <1>1. CASE Begin(t)
      BY <1>1 DEF Tells, Answers, Begin, Goto
  <1>2. CASE SlotLoad(t)
      BY <1>2 DEF Tells, Answers, SlotLoad, Goto
  <1>3. CASE SlotExchange(t)
      BY <1>3 DEF Tells, Answers, SlotExchange, Goto
  <1>4. CASE Check(t)
      BY <1>4 DEF Tells, Answers, Check, Goto
  <1>5. CASE Lock(t)
      BY <1>5 DEF Tells, Answers, Lock, Goto
  <1>6. CASE Recheck(t)
      BY <1>6 DEF Tells, Answers, Recheck, Goto, Unlock
  <1>7. CASE Observe(t)
      BY <1>7 DEF Tells, Answers, Observe, Goto
  <1>8. CASE OpenReadOnly(t)
      BY <1>8 DEF Tells, Answers, OpenReadOnly, Goto
  <1>9. CASE ReadJournal(t)
      BY <1>9 DEF Tells, Answers, ReadJournal, Take, Goto
  <1>10. CASE ReadSnapshot(t)
      BY <1>10 DEF Tells, Answers, ReadSnapshot, Take, Goto
  <1>11. CASE ReadRefused(t)
      BY <1>11 DEF Tells, Answers, ReadRefused, Goto
  <1>12. CASE ReadFails(t)
      BY <1>12 DEF Tells, Answers, ReadFails, Goto, Unlock, Fail, Respond
  <1>13. CASE ApplyRefused(t)
      BY <1>13 DEF Tells, Answers, ApplyRefused, Goto
  <1>14. CASE Apply(t)
      BY <1>14 DEF Tells, Answers, Apply, Goto, Unlock
  <1>15. CASE ApplyFails(t)
      BY <1>15 DEF Tells, Answers, ApplyFails, Goto, Unlock, Fail, Respond
  <1>16. CASE Load(t)
      BY <1>16 DEF Tells, Answers, Load, Goto
  <1>17. CASE LoadMigrate(t)
      BY <1>17 DEF Tells, Answers, LoadMigrate, Goto
  <1>18. CASE LoadReopen(t)
      BY <1>18 DEF Tells, Answers, LoadReopen, Goto
  <1>19. CASE Fill(t)
      BY <1>19 DEF Tells, Answers, Fill, Goto, Unlock, Respond
  <1>20. CASE LoadFails(t)
      BY <1>20 DEF Tells, Answers, LoadFails, Goto, Unlock, Fail, Respond
  <1>21. CASE Search(t)
      BY <1>21 DEF Tells, Answers, Search, Goto, Respond
  <1>22. CASE Status(t)
      BY <1>22 DEF Tells, Answers, Status, Goto, Respond
  <1> QED
      BY <1>1, <1>2, <1>3, <1>4, <1>5, <1>6, <1>7, <1>8, <1>9, <1>10, <1>11, <1>12, <1>13, <1>14, <1>15, <1>16, <1>17, <1>18, <1>19, <1>20, <1>21, <1>22 DEF Step

\* The lock is exact after every step.
LEMMA ControlStep ==
    ASSUME NEW t \in Threads, Control, Step(t)
    PROVE  Control'
  <1>1. PICK l : Moves(t, l)
      BY StepMoves
  <1>2. /\ pc \in [Threads -> Labels] /\ writer \in Threads \cup {NoThread}
        /\ \A u \in Threads : pc[u] \in Locked <=> writer = u
        /\ \A u \in Threads : pc[u] \in SearchOnly => u \in Searches
        /\ NoThread \notin Threads
      BY ServiceAssumption DEF Control
  <1>3. /\ pc' \in [Threads -> Labels] /\ pc'[t] = l
        /\ \A u \in Threads : u # t => pc'[u] = pc[u]
      BY <1>1, <1>2 DEF Moves
  <1>4. writer' \in Threads \cup {NoThread}
      BY <1>1, <1>2 DEF Moves
  <1>5. \A u \in Threads : pc'[u] \in Locked <=> writer' = u
      BY <1>1, <1>2, <1>3 DEF Moves
  <1>6. \A u \in Threads : pc'[u] \in SearchOnly => u \in Searches
      BY <1>1, <1>2, <1>3 DEF Moves
  <1>7. answer' \in [Threads -> Answers]
      BY StepTells DEF Tells, Control
  <1> QED
      BY <1>3, <1>4, <1>5, <1>6, <1>7 DEF Control

\* The slots: as many searches hold one as are counted.
Slots ==
    /\ active = Cardinality(Holding)
    /\ active <= MaxSearches
    /\ seen \in [Threads -> Nat]
    /\ \A t \in Threads : pc[t] = "exchange" => seen[t] < MaxSearches

\* A step of thread t, as the slots see it.
Counts(t) ==
    /\ IF t \in Searches /\ pc[t] \in InUse /\ pc'[t] \notin InUse THEN active' = active - 1
       ELSE IF t \in Searches /\ pc[t] \notin InUse /\ pc'[t] \in InUse
            THEN pc[t] = "exchange" /\ active = seen[t] /\ active' = active + 1
       ELSE active' = active
    /\ \/ seen' = seen /\ pc'[t] # "exchange"
       \/ seen' = [seen EXCEPT ![t] = active] /\ (pc'[t] = "exchange" => ~(active >= MaxSearches))

\* A slot is counted when a search takes it, with a count that no one has changed
\* since it was read, and given back when it leaves.
LEMMA StepCounts ==
    ASSUME NEW t \in Threads, Control, Step(t)
    PROVE  Counts(t)
  <1>0. pc \in [Threads -> Labels] /\ (pc[t] \in SearchOnly => t \in Searches)
      BY DEF Control
  <1>1. CASE Begin(t)
      BY <1>0, <1>1 DEF Counts, Labels, InUse, SearchOnly, Begin, Goto
  <1>2. CASE SlotLoad(t)
      BY <1>0, <1>2 DEF Counts, Labels, InUse, SearchOnly, SlotLoad, Goto
  <1>3. CASE SlotExchange(t)
      BY <1>0, <1>3 DEF Counts, Labels, InUse, SearchOnly, SlotExchange, Goto
  <1>4. CASE Check(t)
      BY <1>0, <1>4 DEF Counts, Labels, InUse, SearchOnly, Check, Goto
  <1>5. CASE Lock(t)
      BY <1>0, <1>5 DEF Counts, Labels, InUse, SearchOnly, Lock, Goto
  <1>6. CASE Recheck(t)
      BY <1>0, <1>6 DEF Counts, Labels, InUse, SearchOnly, Recheck, Goto, Unlock
  <1>7. CASE Observe(t)
      BY <1>0, <1>7 DEF Counts, Labels, InUse, SearchOnly, Observe, Goto
  <1>8. CASE OpenReadOnly(t)
      BY <1>0, <1>8 DEF Counts, Labels, InUse, SearchOnly, OpenReadOnly, Goto
  <1>9. CASE ReadJournal(t)
      BY <1>0, <1>9 DEF Counts, Labels, InUse, SearchOnly, ReadJournal, Take, Goto
  <1>10. CASE ReadSnapshot(t)
      BY <1>0, <1>10 DEF Counts, Labels, InUse, SearchOnly, ReadSnapshot, Take, Goto
  <1>11. CASE ReadRefused(t)
      BY <1>0, <1>11 DEF Counts, Labels, InUse, SearchOnly, ReadRefused, Goto
  <1>12. CASE ReadFails(t)
      BY <1>0, <1>12 DEF Counts, Labels, InUse, SearchOnly, ReadFails, Goto, Unlock, Fail, Respond
  <1>13. CASE ApplyRefused(t)
      BY <1>0, <1>13 DEF Counts, Labels, InUse, SearchOnly, ApplyRefused, Goto
  <1>14. CASE Apply(t)
      BY <1>0, <1>14 DEF Counts, Labels, InUse, SearchOnly, Apply, Goto, Unlock
  <1>15. CASE ApplyFails(t)
      BY <1>0, <1>15 DEF Counts, Labels, InUse, SearchOnly, ApplyFails, Goto, Unlock, Fail, Respond
  <1>16. CASE Load(t)
      BY <1>0, <1>16 DEF Counts, Labels, InUse, SearchOnly, Load, Goto
  <1>17. CASE LoadMigrate(t)
      BY <1>0, <1>17 DEF Counts, Labels, InUse, SearchOnly, LoadMigrate, Goto
  <1>18. CASE LoadReopen(t)
      BY <1>0, <1>18 DEF Counts, Labels, InUse, SearchOnly, LoadReopen, Goto
  <1>19. CASE Fill(t)
      BY <1>0, <1>19 DEF Counts, Labels, InUse, SearchOnly, Fill, Goto, Unlock, Respond
  <1>20. CASE LoadFails(t)
      BY <1>0, <1>20 DEF Counts, Labels, InUse, SearchOnly, LoadFails, Goto, Unlock, Fail, Respond
  <1>21. CASE Search(t)
      BY <1>0, <1>21 DEF Counts, Labels, InUse, SearchOnly, Search, Goto, Respond
  <1>22. CASE Status(t)
      BY <1>0, <1>22 DEF Counts, Labels, InUse, SearchOnly, Status, Goto, Respond
  <1> QED
      BY <1>1, <1>2, <1>3, <1>4, <1>5, <1>6, <1>7, <1>8, <1>9, <1>10, <1>11, <1>12, <1>13, <1>14, <1>15, <1>16, <1>17, <1>18, <1>19, <1>20, <1>21, <1>22 DEF Step

\* The count stays exact and below its limit.
LEMMA SlotsStep ==
    ASSUME NEW t \in Threads, Control, Slots, Step(t)
    PROVE  Slots'
  <1>0. Counts(t)
      BY StepCounts
  <1>1. PICK l : Moves(t, l)
      BY StepMoves
  <1>2. pc \in [Threads -> Labels] /\ IsFiniteSet(Searches) /\ MaxSearches \in Nat
        /\ Searches \subseteq Threads
      BY ServiceAssumption DEF Control, Threads
  <1>3. Holding = {u \in Searches : pc[u] \in InUse}
      BY <1>2 DEF Holding, InUse
  <1>4. pc' \in [Threads -> Labels] /\ pc'[t] = l /\ \A u \in Threads : u # t => pc'[u] = pc[u]
      BY <1>1, <1>2 DEF Moves
  <1>5. Holding' = {u \in Searches : pc'[u] \in InUse}
      BY <1>2, <1>4 DEF Holding, InUse
  <1>6. Holding \subseteq Searches /\ IsFiniteSet(Holding) /\ Cardinality(Holding) \in Nat
    <2>1. Holding \subseteq Searches
        BY DEF Holding
    <2>2. IsFiniteSet(Holding)
        BY <1>2, <2>1, FS_Subset
    <2> QED
        BY <2>1, <2>2, FS_CardinalityType
  <1>7. active \in Nat /\ active = Cardinality(Holding) /\ active <= MaxSearches
      BY <1>6 DEF Slots
  <1>8. active' = Cardinality(Holding') /\ active' <= MaxSearches
    <2>1. CASE t \in Searches /\ pc[t] \in InUse /\ l \notin InUse
      <3>1. Holding' = Holding \ {t} /\ t \in Holding /\ active' = active - 1
          BY <1>0, <1>2, <1>3, <1>4, <1>5, <2>1 DEF Counts
      <3>2. Cardinality(Holding') = Cardinality(Holding) - 1
          BY <1>6, <3>1, FS_RemoveElement
      <3> QED
          BY <1>2, <1>7, <3>1, <3>2
    <2>2. CASE t \in Searches /\ pc[t] \notin InUse /\ l \in InUse
      <3>1. /\ Holding' = Holding \cup {t} /\ t \notin Holding /\ active' = active + 1
            /\ pc[t] = "exchange" /\ active = seen[t]
          BY <1>0, <1>2, <1>3, <1>4, <1>5, <2>2 DEF Counts
      <3>2. Cardinality(Holding') = Cardinality(Holding) + 1
          BY <1>6, <3>1, FS_AddElement
      <3>3. active < MaxSearches
          BY <3>1 DEF Slots
      <3> QED
          BY <1>2, <1>7, <3>1, <3>2, <3>3
    <2>3. CASE ~(t \in Searches /\ pc[t] \in InUse /\ l \notin InUse)
               /\ ~(t \in Searches /\ pc[t] \notin InUse /\ l \in InUse)
      <3>1. Holding' = Holding /\ active' = active
          BY <1>0, <1>2, <1>3, <1>4, <1>5, <2>3 DEF Counts
      <3> QED
          BY <1>7, <3>1
    <2> QED
        BY <2>1, <2>2, <2>3
  <1>9. seen' \in [Threads -> Nat]
      BY <1>0, <1>7 DEF Counts, Slots
  <1>10. ASSUME NEW u \in Threads, pc'[u] = "exchange" PROVE seen'[u] < MaxSearches
    <2>1. CASE u = t
      <3>1. seen' = [seen EXCEPT ![t] = active] /\ ~(active >= MaxSearches)
          BY <1>0, <1>4, <1>10, <2>1 DEF Counts
      <3> QED
          BY <1>2, <1>7, <2>1, <3>1 DEF Slots
    <2>2. CASE u # t
      <3>1. pc[u] = "exchange" /\ seen'[u] = seen[u]
          BY <1>0, <1>4, <1>10, <2>2 DEF Counts, Slots
      <3> QED
          BY <3>1 DEF Slots
    <2> QED
        BY <2>1, <2>2
  <1> QED
      BY <1>8, <1>9, <1>10 DEF Slots

-----------------------------------------------------------------------------
(* The index and its stamp.                                                *)

\* A delta that turns the index into the rows at its target.
Ready ==
    /\ Stamped(delta.target)
    /\ ChangeSet(delta.changes)
    /\ Patch(Contents(index), delta.changes) = Snapshot(delta.target)

Backends == {"packed", "sqlite", "unavailable"}
Filling == {"migrate", "reopen", "fill"}
Patching == {"open", "delta", "apply"}

\* The index is what its stamp says, except on the way to a full load; a delta that is
\* read fits the index that it will be applied to.
Content ==
    /\ backend \in Backends
    /\ WellPacked(index)
    /\ opened \in 1 .. ident
    /\ backend # "unavailable" => Stamped(loaded)
    /\ backend = "packed" /\ (\A t \in Threads : pc[t] # "load")
          => Contents(index) = Snapshot(loaded)
    /\ \A t \in Threads : pc[t] \in Patching => backend = "packed"
    /\ \A t \in Threads : pc[t] \in Filling => backend = "unavailable"
    /\ \A t \in Threads : pc[t] = "apply" => Ready

\* A step that leaves the database, the index and what was read of the database alone.
Quiet(t) ==
    /\ dbs' = dbs /\ ident' = ident /\ history' = history
    /\ backend' = backend /\ index' = index /\ loaded' = loaded
    /\ opened' = opened /\ delta' = delta
    /\ pc[t] # "load"
    /\ pc'[t] = "open" => backend = "packed"
    /\ pc'[t] \notin {"delta", "apply", "migrate", "reopen", "fill"}

\* What a step inside the write lock leaves behind.
Leaves(t) ==
    /\ backend' \in Backends
    /\ WellPacked(index')
    /\ opened' \in 1 .. ident'
    /\ backend' # "unavailable" => Stamped(loaded)'
    /\ backend' = "packed" /\ pc'[t] # "load" => Contents(index') = Snapshot(loaded)'
    /\ pc'[t] \in Patching => backend' = "packed"
    /\ pc'[t] \in Filling => backend' = "unavailable"
    /\ pc'[t] = "apply" => Ready'

\* The steps of the other threads, and the failures, are quiet.
LEMMA QuietSteps ==
    ASSUME NEW t \in Threads, pc \in [Threads -> Labels],
           \/ Begin(t) \/ SlotLoad(t) \/ SlotExchange(t) \/ Check(t) \/ Lock(t) \/ Recheck(t)
           \/ Observe(t) \/ ReadRefused(t) \/ ReadFails(t) \/ LoadFails(t) \/ Search(t)
           \/ Status(t)
    PROVE  Quiet(t)
  <1> USE DEF Quiet, dbvars, service, read, Goto
  <1>1. CASE Begin(t)
      BY <1>1 DEF Begin
  <1>2. CASE SlotLoad(t)
      BY <1>2 DEF SlotLoad
  <1>3. CASE SlotExchange(t)
      BY <1>3 DEF SlotExchange
  <1>4. CASE Check(t)
      BY <1>4 DEF Check
  <1>5. CASE Lock(t)
      BY <1>5 DEF Lock
  <1>6. CASE Recheck(t)
      BY <1>6 DEF Recheck
  <1>7. CASE Observe(t)
      BY <1>7 DEF Observe
  <1>8. CASE ReadRefused(t)
      BY <1>8 DEF ReadRefused
  <1>9. CASE ReadFails(t)
      BY <1>9 DEF ReadFails, Fail, Respond
  <1>10. CASE LoadFails(t)
      BY <1>10 DEF LoadFails, Fail, Respond
  <1>11. CASE Search(t)
      BY <1>11 DEF Search, Respond
  <1>12. CASE Status(t)
      BY <1>12 DEF Status, Respond
  <1> QED
      BY <1>1, <1>2, <1>3, <1>4, <1>5, <1>6, <1>7, <1>8, <1>9, <1>10, <1>11, <1>12

\* They keep the index and its stamp together.
LEMMA QuietKeeps ==
    ASSUME NEW t \in Threads, Content, Quiet(t), NEW l, Moves(t, l), pc \in [Threads -> Labels]
    PROVE  Content'
  <1>1. pc'[t] = l /\ \A u \in Threads : u # t => pc'[u] = pc[u]
      BY DEF Moves
  <1>2. (\A u \in Threads : pc'[u] # "load") => \A u \in Threads : pc[u] # "load"
      BY <1>1 DEF Quiet
  <1>3. \A u \in Threads : /\ pc'[u] \in Patching => backend = "packed"
                           /\ pc'[u] \in Filling => backend = "unavailable"
                           /\ pc'[u] = "apply" => pc[u] = "apply"
      BY <1>1 DEF Quiet, Content, Patching, Filling
  <1>4. /\ Stamped(loaded)' = Stamped(loaded) /\ Snapshot(loaded)' = Snapshot(loaded)
        /\ Ready' = Ready
      BY DEF Quiet, Stamped, Snapshot, Ready
  <1>5. WellPacked(index)' = WellPacked(index) /\ Contents(index)' = Contents(index)
      BY DEF Quiet, WellPacked, Contents, Held, CountersExact
  <1> QED
      BY <1>2, <1>3, <1>4, <1>5 DEF Content, Quiet

\* A step inside the write lock is judged by what it leaves behind: no other thread is
\* there.
LEMMA LockedKeeps ==
    ASSUME NEW t \in Threads, Control, pc[t] \in Locked, NEW l, Moves(t, l), Leaves(t)
    PROVE  Content'
  <1>1. pc'[t] = l /\ \A u \in Threads : u # t => pc'[u] = pc[u]
      BY DEF Moves, Control
  <1>2. \A u \in Threads : u # t => pc'[u] \notin Locked
      BY <1>1 DEF Control
  <1>3. \A u \in Threads : pc'[u] \in Patching \cup Filling \cup {"load"} => u = t
      BY <1>2 DEF Locked, Patching, Filling
  <1>4. \A u \in Threads : /\ pc'[u] \in Patching => backend' = "packed"
                           /\ pc'[u] \in Filling => backend' = "unavailable"
                           /\ pc'[u] = "apply" => Ready'
      BY <1>3 DEF Leaves, Patching
  <1>5. WellPacked(index)' = WellPacked(index') /\ Contents(index)' = Contents(index')
      BY DEF WellPacked, Contents, Held, CountersExact
  <1> QED
      BY <1>4, <1>5 DEF Content, Leaves

\* The write lock keeps full loads away from everyone else.
LEMMA NoLoad ==
    ASSUME NEW t \in Threads, Control, pc[t] \in Locked, pc[t] # "load"
    PROVE  \A u \in Threads : pc[u] # "load"
  BY DEF Control, Locked

\* The rows at the stamp of a file are its rows now.
LEMMA StampIsNow ==
    ASSUME DbInv, NEW i \in 1 .. ident
    PROVE  /\ i \in Idents /\ i \in Nat /\ dbs[i] \in DbType /\ dbs[i].files \in Tables
           /\ StampOf(i).file = i /\ StampOf(i).revision = dbs[i].revision
           /\ dbs[i].revision \in Nat
           /\ Snapshot(StampOf(i)) = dbs[i].files
           /\ dbs[i].schema # "none" => Stamped(StampOf(i))
  <1>1. i \in Idents /\ i \in Nat
      BY Bounds DEF DbInv, Typed, Idents
  <1>2. dbs[i] \in DbType /\ history[i][dbs[i].revision] = dbs[i].files
      BY <1>1 DEF DbInv, Typed, Covered
  <1>3. dbs[i].revision \in Nat /\ dbs[i].files \in Tables
      BY <1>2, Bounds DEF DbType
  <1>4. StampOf(i).file = i /\ StampOf(i).revision = dbs[i].revision
      BY DEF StampOf
  <1> QED
      BY <1>1, <1>2, <1>3, <1>4 DEF Snapshot, Stamped

\* A delta is read: the index stays, and the delta fits it.
LEMMA TakeLeaves ==
    ASSUME NEW t \in Threads, DbInv, Control, Content, NEW c, Take(t, c), ~Unstamped,
           ChangeSet(c), Patch(Contents(index), c) = dbs[opened].files
    PROVE  Leaves(t)
  <1>1. /\ pc[t] = "delta" /\ pc'[t] = "apply"
        /\ delta' = [target |-> StampOf(opened), changes |-> c]
        /\ dbs' = dbs /\ ident' = ident /\ history' = history /\ opened' = opened
        /\ backend' = backend /\ index' = index /\ loaded' = loaded
      BY DEF Take, Goto, Control, dbvars, service
  <1>2. pc[t] \in Locked /\ backend = "packed"
      BY <1>1 DEF Locked, Content, Patching
  <1>3. \A u \in Threads : pc[u] # "load"
      BY <1>1, <1>2, NoLoad
  <1>4. opened \in 1 .. ident /\ Stamped(loaded) /\ Contents(index) = Snapshot(loaded)
        /\ WellPacked(index)
      BY <1>2, <1>3 DEF Content
  <1>5. Stamped(StampOf(opened)) /\ Snapshot(StampOf(opened)) = dbs[opened].files
      BY <1>4, StampIsNow DEF Unstamped
  <1>6. delta'.target = StampOf(opened) /\ delta'.changes = c
      BY <1>1
  <1>7. /\ Stamped(loaded)' = Stamped(loaded) /\ Snapshot(loaded)' = Snapshot(loaded)
        /\ Stamped(delta.target)' = Stamped(StampOf(opened))
        /\ Snapshot(delta.target)' = Snapshot(StampOf(opened))
        /\ Contents(index)' = Contents(index)
      BY <1>1, <1>6 DEF Stamped, Snapshot, Contents, Held
  <1>8. Ready'
      BY <1>4, <1>5, <1>6, <1>7 DEF Ready, ChangeSet, Patch
  <1> QED
      BY <1>1, <1>2, <1>4, <1>7, <1>8 DEF Leaves, Backends, Patching, Filling

\* The journal's answer and the comparison of snapshots both fit the index.
LEMMA ReadLeaves ==
    ASSUME NEW t \in Threads, DbInv, Control, Content, ReadJournal(t) \/ ReadSnapshot(t)
    PROVE  Leaves(t)
  <1>1. pc[t] = "delta" /\ ~Unstamped
      BY DEF ReadJournal, ReadSnapshot, Take
  <1>2. pc[t] \in Locked /\ backend = "packed" /\ opened \in 1 .. ident /\ Stamped(loaded)
      BY <1>1 DEF Locked, Content, Patching
  <1>3. Contents(index) = Snapshot(loaded)
      BY <1>1, <1>2, NoLoad DEF Content
  <1>4. opened \in Idents /\ dbs[opened].files \in Tables
      BY <1>2, StampIsNow
  <1>5. CASE ReadJournal(t)
    <2>1. Answered(opened, loaded) /\ Take(t, Changes(opened, loaded))
        BY <1>5 DEF ReadJournal, Answered
    <2>2. loaded.revision \in Nat
        BY <1>2 DEF Stamped
    <2>3. /\ loaded.file = opened
          /\ Patch(history[opened][loaded.revision], Changes(opened, loaded)) = dbs[opened].files
          /\ DOMAIN Changes(opened, loaded) \subseteq Ids
          /\ \A j \in DOMAIN Changes(opened, loaded) :
                Changes(opened, loaded)[j] = dbs[opened].files[j]
        BY <1>4, <2>1, <2>2, AnswerComplete
    <2>4. Patch(Contents(index), Changes(opened, loaded)) = dbs[opened].files
        BY <1>3, <2>3 DEF Snapshot
    <2>5. ChangeSet(Changes(opened, loaded))
        BY <1>4, <2>3, TableRow DEF ChangeSet
    <2> QED
        BY <1>1, <2>1, <2>4, <2>5, TakeLeaves
  <1>6. CASE ReadSnapshot(t)
    <2>1. Take(t, Diff(index, dbs[opened].files))
        BY <1>6 DEF ReadSnapshot
    <2>2. ChangeSet(Diff(index, dbs[opened].files))
          /\ Patch(Contents(index), Diff(index, dbs[opened].files)) = dbs[opened].files
        BY <1>4, DiffIsExact
    <2> QED
        BY <1>1, <2>1, <2>2, TakeLeaves
  <1> QED
      BY <1>5, <1>6

\* The database is opened for the delta.
LEMMA OpenLeaves ==
    ASSUME NEW t \in Threads, DbInv, Control, Content, OpenReadOnly(t)
    PROVE  Leaves(t)
  <1>1. /\ pc[t] = "open" /\ pc'[t] = "delta" /\ opened' = ident
        /\ dbs' = dbs /\ ident' = ident /\ history' = history
        /\ backend' = backend /\ index' = index /\ loaded' = loaded
      BY DEF OpenReadOnly, Goto, Control, dbvars, service
  <1>2. pc[t] \in Locked /\ backend = "packed" /\ ident \in 1 .. ident
      BY <1>1, Bounds DEF Locked, Content, Patching, DbInv, Typed, Idents
  <1>3. Contents(index) = Snapshot(loaded) /\ Stamped(loaded) /\ WellPacked(index)
      BY <1>1, <1>2, NoLoad DEF Content
  <1>4. /\ Stamped(loaded)' = Stamped(loaded) /\ Snapshot(loaded)' = Snapshot(loaded)
      BY <1>1 DEF Stamped, Snapshot
  <1> QED
      BY <1>1, <1>2, <1>3, <1>4 DEF Leaves, Backends, Filling

\* The delta goes in and the stamp moves, or the index waits for a full load.
LEMMA ApplyLeaves ==
    ASSUME NEW t \in Threads, DbInv, Control, Content, ApplyRefused(t) \/ Apply(t)
    PROVE  Leaves(t)
  <1>1. /\ pc[t] = "apply"
        /\ dbs' = dbs /\ ident' = ident /\ history' = history /\ opened' = opened
        /\ backend' = backend
      BY DEF ApplyRefused, Apply, dbvars, service
  <1>2. /\ backend = "packed" /\ Ready /\ opened \in 1 .. ident /\ Stamped(loaded)
        /\ WellPacked(index)
      BY <1>1 DEF Content, Patching
  <1>4. CASE ApplyRefused(t)
    <2>1. pc'[t] = "load" /\ index' = index /\ loaded' = loaded
        BY <1>4 DEF ApplyRefused, Goto, Control, service
    <2>2. Stamped(loaded)'
        BY <1>1, <1>2, <2>1 DEF Stamped
    <2> QED
        BY <1>1, <1>2, <2>1, <2>2 DEF Leaves, Backends, Patching, Filling
  <1>5. CASE Apply(t)
    <2>1. ~NeedsFullReload(index, delta.changes) /\ index' = Applied(index, delta.changes)
        BY <1>5 DEF Apply
    <2>2. WellPacked(index') /\ Contents(index') = Snapshot(delta.target)
        BY <1>2, <2>1, DeltaIsExact DEF Ready
    <2>3. CASE pc'[t] = "load" /\ loaded' = loaded
      <3>1. Stamped(loaded)'
          BY <1>1, <1>2, <2>3 DEF Stamped
      <3> QED
          BY <1>1, <1>2, <2>2, <2>3, <3>1 DEF Leaves, Backends, Patching, Filling
    <2>4. CASE pc'[t] = "search" /\ loaded' = delta.target
      <3>1. Stamped(loaded)' /\ Snapshot(loaded)' = Snapshot(delta.target)
          BY <1>1, <1>2, <2>4 DEF Stamped, Snapshot, Ready
      <3> QED
          BY <1>1, <1>2, <2>2, <2>4, <3>1 DEF Leaves, Backends, Patching, Filling
    <2> QED
        BY <1>5, <2>3, <2>4 DEF Apply, Goto, Control
  <1> QED
      BY <1>4, <1>5

\* A failed delta and the start of a full load drop the index.
LEMMA DropLeaves ==
    ASSUME NEW t \in Threads, DbInv, Control, Content, ApplyFails(t) \/ Load(t)
    PROVE  Leaves(t)
  <1>1. /\ backend' = "unavailable" /\ index' = EmptyIndex /\ ident' = ident
        /\ pc'[t] \in Filling \cup {"done"}
        /\ opened' = opened \/ opened' = ident
      BY DEF ApplyFails, Fail, Respond, Load, Goto, Control, dbvars, Filling
  <1>2. ident \in 1 .. ident /\ opened \in 1 .. ident
      BY Bounds DEF Content, DbInv, Typed, Idents
  <1> QED
      BY <1>1, <1>2, EmptyPacked DEF Leaves, Backends, Patching, Filling

\* The full load migrates and opens the database.
LEMMA ReopenLeaves ==
    ASSUME NEW t \in Threads, DbInv, Control, Content, LoadMigrate(t) \/ LoadReopen(t)
    PROVE  Leaves(t)
  <1>1. /\ pc[t] \in Filling /\ pc'[t] \in Filling /\ ident' = ident
        /\ backend' = backend /\ index' = index
        /\ opened' = opened \/ opened' = ident
      BY DEF LoadMigrate, Migrate, LoadReopen, Goto, Control, dbvars, service, read, Filling
  <1>2. /\ backend = "unavailable" /\ WellPacked(index)
        /\ ident \in 1 .. ident /\ opened \in 1 .. ident
      BY <1>1, Bounds DEF Content, DbInv, Typed, Idents
  <1> QED
      BY <1>1, <1>2 DEF Leaves, Backends, Patching, Filling

\* The full load reads the rows and the stamp in one snapshot.
LEMMA FillLeaves ==
    ASSUME NEW t \in Threads, DbInv, Control, Content, Fill(t)
    PROVE  Leaves(t)
  <1>1. /\ dbs' = dbs /\ ident' = ident /\ history' = history /\ opened' = opened
        /\ ~Unstamped /\ loaded' = StampOf(opened)
        /\ index' = IF backend' = "packed" THEN load(dbs[opened].files) ELSE EmptyIndex
        /\ pc'[t] \in {"search", "done"}
      BY DEF Fill, Respond, Goto, Control, dbvars, read
  <1>2. backend' \in {"packed", "sqlite"}
      BY ServiceAssumption DEF Fill, select_backend
  <1>3. opened \in 1 .. ident
      BY DEF Content
  <1>4. /\ dbs[opened].files \in Tables /\ Stamped(StampOf(opened))
        /\ Snapshot(StampOf(opened)) = dbs[opened].files
      BY <1>1, <1>3, StampIsNow DEF Unstamped
  <1>5. /\ Stamped(loaded)' = Stamped(StampOf(opened))
        /\ Snapshot(loaded)' = Snapshot(StampOf(opened))
      BY <1>1 DEF Stamped, Snapshot
  <1>6. WellPacked(index') /\ (backend' = "packed" => Contents(index') = dbs[opened].files)
      BY <1>1, <1>4, LoadIsExact, EmptyPacked
  <1> QED
      BY <1>1, <1>2, <1>3, <1>4, <1>5, <1>6 DEF Leaves, Backends, Patching, Filling

\* The steps inside the write lock that are not quiet.
LEMMA BusyLeaves ==
    ASSUME NEW t \in Threads, DbInv, Control, Content,
           \/ OpenReadOnly(t) \/ ReadJournal(t) \/ ReadSnapshot(t) \/ ApplyRefused(t)
           \/ Apply(t) \/ ApplyFails(t) \/ Load(t) \/ LoadMigrate(t) \/ LoadReopen(t)
           \/ Fill(t)
    PROVE  pc[t] \in Locked /\ Leaves(t)
  <1>1. pc[t] \in Locked
      BY DEF OpenReadOnly, ReadJournal, ReadSnapshot, Take, ApplyRefused, Apply, ApplyFails,
             Load, LoadMigrate, LoadReopen, Fill, Locked
  <1> QED
      BY <1>1, OpenLeaves, ReadLeaves, ApplyLeaves, DropLeaves, ReopenLeaves, FillLeaves

\* Every step of a thread keeps the index and its stamp together.
LEMMA ContentStep ==
    ASSUME NEW t \in Threads, DbInv, Control, Content, Step(t)
    PROVE  Content'
  <1>1. PICK l : Moves(t, l)
      BY StepMoves
  <1>2. pc \in [Threads -> Labels]
      BY DEF Control
  <1>3. CASE \/ Begin(t) \/ SlotLoad(t) \/ SlotExchange(t) \/ Check(t) \/ Lock(t) \/ Recheck(t)
             \/ Observe(t) \/ ReadRefused(t) \/ ReadFails(t) \/ LoadFails(t) \/ Search(t)
             \/ Status(t)
    <2>1. Quiet(t)
        BY <1>2, <1>3, QuietSteps
    <2> QED
        BY <1>1, <1>2, <2>1, QuietKeeps
  <1>4. CASE \/ OpenReadOnly(t) \/ ReadJournal(t) \/ ReadSnapshot(t) \/ ApplyRefused(t)
             \/ Apply(t) \/ ApplyFails(t) \/ Load(t) \/ LoadMigrate(t) \/ LoadReopen(t)
             \/ Fill(t)
    <2>1. pc[t] \in Locked /\ Leaves(t)
        BY <1>4, BusyLeaves
    <2> QED
        BY <1>1, <2>1, LockedKeeps
  <1> QED
      BY <1>3, <1>4 DEF Step

\* So does every step of the writers of the database.
LEMMA ContentDatabase ==
    ASSUME DbInv, Content, Forward, UNCHANGED svars
    PROVE  Content'
  <1>1. /\ backend' = backend /\ index' = index /\ loaded' = loaded /\ pc' = pc
        /\ opened' = opened /\ delta' = delta
      BY DEF svars
  <1>2. ident \in Nat /\ ident' \in Nat /\ ident <= ident'
      BY Bounds DEF Forward, DbInv, Typed, Idents
  <1>3. opened' \in 1 .. ident'
      BY <1>1, <1>2 DEF Content
  <1>4. Stamped(loaded) => Stamped(loaded)' /\ Snapshot(loaded)' = Snapshot(loaded)
    <2>1. Stamped(loaded) =>
             /\ loaded.file \in 1 .. ident' /\ loaded.revision \in 0 .. dbs'[loaded.file].revision
             /\ dbs'[loaded.file].schema # "none"
             /\ history'[loaded.file][loaded.revision] = Snapshot(loaded)
        BY StampedForward
    <2> QED
        BY <1>1, <2>1 DEF Stamped, Snapshot
  <1>5. Stamped(delta.target) =>
            Stamped(delta.target)' /\ Snapshot(delta.target)' = Snapshot(delta.target)
    <2> DEFINE st == delta.target
    <2>1. Stamped(st) =>
             /\ st.file \in 1 .. ident' /\ st.revision \in 0 .. dbs'[st.file].revision
             /\ dbs'[st.file].schema # "none"
             /\ history'[st.file][st.revision] = Snapshot(st)
      <3> HIDE DEF st
      <3> QED
          BY StampedForward
    <2> QED
        BY <1>1, <2>1 DEF Stamped, Snapshot
  <1>6. WellPacked(index)' = WellPacked(index) /\ Contents(index)' = Contents(index)
      BY <1>1 DEF WellPacked, Contents, Held, CountersExact
  <1>7. Ready => Ready'
      BY <1>1, <1>5, <1>6 DEF Ready
  <1> QED
      BY <1>1, <1>3, <1>4, <1>6, <1>7 DEF Content
-----------------------------------------------------------------------------
(* The age of answers.                                                     *)

Stamps == [file : Nat, revision : Nat]

\* Stamp a is not newer than stamp b.
Precedes(a, b) == a.file < b.file \/ (a.file = b.file /\ a.revision <= b.revision)

\* The content that the thread with the write lock has open, or has read, is not older
\* than the request of search t, and neither is the index that t is about to search.
AgeOf(t) ==
    /\ pc[t] # "start" => Precedes(asked[t], Stamp)
    /\ pc[t] = "search" /\ backend # "unavailable" => Precedes(asked[t], loaded)
    /\ \A w \in Threads : pc[w] \in Filling \cup {"delta"} /\ (t = w \/ pc[t] = "search")
                             => Precedes(asked[t], StampOf(opened))
    /\ \A w \in Threads : pc[w] = "apply" /\ (t = w \/ pc[t] = "search")
                             => Precedes(asked[t], delta.target)

Age == asked \in [Threads -> Stamps] /\ \A t \in Searches : AgeOf(t)

\* Stamps are ordered.
LEMMA PrecedesOrder ==
    ASSUME NEW a \in Stamps, NEW b \in Stamps, NEW c \in Stamps,
           Precedes(a, b), Precedes(b, c)
    PROVE  Precedes(a, c)
  BY DEF Precedes, Stamps

\* The stamp of every file is one, and no step of the database takes it back.
LEMMA StampGrows ==
    ASSUME DbInv, Forward, NEW i \in 1 .. ident
    PROVE  /\ StampOf(i) \in Stamps /\ StampOf(i)' \in Stamps
           /\ Precedes(StampOf(i), StampOf(i)')
  <1>1. i \in Nat /\ dbs[i].revision \in Nat
      BY StampIsNow
  <1>2. dbs'[i].revision \in Nat /\ dbs[i].revision <= dbs'[i].revision
      BY DEF Forward
  <1>3. /\ StampOf(i) = [file |-> i, revision |-> dbs[i].revision]
        /\ StampOf(i)' = [file |-> i, revision |-> dbs'[i].revision]
      BY DEF StampOf
  <1> QED
      BY <1>1, <1>2, <1>3 DEF Stamps, Precedes

\* Neither does a new file at the path.
LEMMA PathGrows ==
    ASSUME DbInv, DbInv', Forward
    PROVE  Stamp \in Stamps /\ Stamp' \in Stamps /\ Precedes(Stamp, Stamp')
  <1>1. ident \in 1 .. ident /\ ident' \in Nat /\ ident <= ident' /\ ident \in Nat
      BY Bounds DEF DbInv, Typed, Idents, Forward
  <1>2. Stamp = [file |-> ident, revision |-> dbs[ident].revision]
        /\ Stamp' = [file |-> ident', revision |-> dbs'[ident'].revision]
      BY DEF Stamp, StampOf
  <1>3. dbs[ident].revision \in Nat
      BY <1>1, StampIsNow
  <1>4. dbs'[ident'].revision \in Nat
    <2>1. dbs'[ident'] \in DbType
        BY DEF DbInv, Typed
    <2> QED
        BY <2>1, Bounds DEF DbType
  <1>5. ident' = ident => dbs[ident].revision <= dbs'[ident'].revision
      BY <1>1 DEF Forward
  <1> QED
      BY <1>1, <1>2, <1>3, <1>4, <1>5 DEF Precedes, Stamps

\* A step of thread t, as the age of the answers sees it.
Ages(t) ==
    /\ pc'[t] # "start"
    /\ \/ asked' = asked /\ pc[t] # "start"
       \/ pc[t] = "start" /\ asked' = [asked EXCEPT ![t] = Stamp] /\ pc'[t] \in {"slot", "reload"}
    /\ \/ backend' = backend /\ loaded' = loaded
       \/ backend' = "unavailable"
       \/ pc[t] = "fill" /\ loaded' = StampOf(opened)
       \/ pc[t] = "apply" /\ loaded' = delta.target
    /\ pc'[t] = "search" =>
          \/ (writer = NoThread \/ pc[t] = "recheck") /\ loaded' = loaded /\ loaded = Stamp
          \/ pc[t] = "fill" /\ loaded' = StampOf(opened)
          \/ pc[t] = "apply" /\ loaded' = delta.target
    /\ pc'[t] \in Filling \cup {"delta"} =>
          pc[t] \in Locked /\ (opened' = ident \/ (opened' = opened /\ pc[t] \in Filling))
    /\ pc'[t] = "apply" => pc[t] = "delta" /\ delta'.target = StampOf(opened)
    /\ pc[t] \notin Locked => opened' = opened /\ delta' = delta

\* A thread opens the database that is there, reads the stamp with the rows, and goes to
\* search with an index that it found fresh, patched or loaded.
LEMMA StepAges ==
    ASSUME NEW t \in Threads, pc \in [Threads -> Labels], Step(t)
    PROVE  Ages(t)
  <1>1. CASE Begin(t)
      BY <1>1 DEF Ages, service, read, Stale, Locked, Filling, Begin, Goto
  <1>2. CASE SlotLoad(t)
      BY <1>2 DEF Ages, service, read, Stale, Locked, Filling, SlotLoad, Goto
  <1>3. CASE SlotExchange(t)
      BY <1>3 DEF Ages, service, read, Stale, Locked, Filling, SlotExchange, Goto
  <1>4. CASE Check(t)
      BY <1>4 DEF Ages, service, read, Stale, Locked, Filling, Check, Goto
  <1>5. CASE Lock(t)
      BY <1>5 DEF Ages, service, read, Stale, Locked, Filling, Lock, Goto
  <1>6. CASE Recheck(t)
      BY <1>6 DEF Ages, service, read, Stale, Locked, Filling, Recheck, Goto, Unlock
  <1>7. CASE Observe(t)
      BY <1>7 DEF Ages, service, read, Stale, Locked, Filling, Observe, Goto
  <1>8. CASE OpenReadOnly(t)
      BY <1>8 DEF Ages, service, read, Stale, Locked, Filling, OpenReadOnly, Goto
  <1>9. CASE ReadJournal(t)
      BY <1>9 DEF Ages, service, read, Stale, Locked, Filling, ReadJournal, Take, Goto
  <1>10. CASE ReadSnapshot(t)
      BY <1>10 DEF Ages, service, read, Stale, Locked, Filling, ReadSnapshot, Take, Goto
  <1>11. CASE ReadRefused(t)
      BY <1>11 DEF Ages, service, read, Stale, Locked, Filling, ReadRefused, Goto
  <1>12. CASE ReadFails(t)
      BY <1>12 DEF Ages, service, read, Stale, Locked, Filling, ReadFails, Goto, Unlock, Fail, Respond
  <1>13. CASE ApplyRefused(t)
      BY <1>13 DEF Ages, service, read, Stale, Locked, Filling, ApplyRefused, Goto
  <1>14. CASE Apply(t)
      BY <1>14 DEF Ages, service, read, Stale, Locked, Filling, Apply, Goto, Unlock
  <1>15. CASE ApplyFails(t)
      BY <1>15 DEF Ages, service, read, Stale, Locked, Filling, ApplyFails, Goto, Unlock, Fail, Respond
  <1>16. CASE Load(t)
      BY <1>16 DEF Ages, service, read, Stale, Locked, Filling, Load, Goto
  <1>17. CASE LoadMigrate(t)
      BY <1>17 DEF Ages, service, read, Stale, Locked, Filling, LoadMigrate, Goto
  <1>18. CASE LoadReopen(t)
      BY <1>18 DEF Ages, service, read, Stale, Locked, Filling, LoadReopen, Goto
  <1>19. CASE Fill(t)
      BY <1>19 DEF Ages, service, read, Stale, Locked, Filling, Fill, Goto, Unlock, Respond
  <1>20. CASE LoadFails(t)
      BY <1>20 DEF Ages, service, read, Stale, Locked, Filling, LoadFails, Goto, Unlock, Fail, Respond
  <1>21. CASE Search(t)
      BY <1>21 DEF Ages, service, read, Stale, Locked, Filling, Search, Goto, Respond
  <1>22. CASE Status(t)
      BY <1>22 DEF Ages, service, read, Stale, Locked, Filling, Status, Goto, Respond
  <1> QED
      BY <1>1, <1>2, <1>3, <1>4, <1>5, <1>6, <1>7, <1>8, <1>9, <1>10, <1>11, <1>12, <1>13, <1>14, <1>15, <1>16, <1>17, <1>18, <1>19, <1>20, <1>21, <1>22 DEF Step


\* No step of a thread moves a stamp: installing the journal keeps the revision.
LEMMA StepStamps ==
    ASSUME NEW t \in Threads, DbInv, Step(t)
    PROVE  /\ [DbNext]_dbvars /\ ident' = ident
           /\ \A i \in Idents : dbs'[i].revision = dbs[i].revision
  <1>1. UNCHANGED dbvars \/ Migrate
      BY DEF Step, Begin, SlotLoad, SlotExchange, Check, Lock, Recheck, Observe, OpenReadOnly,
             ReadJournal, ReadSnapshot, Take, ReadRefused, ReadFails, ApplyRefused, Apply,
             ApplyFails, Load, LoadMigrate, LoadReopen, Fill, LoadFails, Search, Status
  <1>2. CASE UNCHANGED dbvars
      BY <1>2 DEF dbvars
  <1>3. CASE Migrate
    <2>1. /\ dbs' = [dbs EXCEPT ![ident] = migrated(dbs[ident])] /\ ident' = ident
          /\ ident \in Idents /\ dbs \in [Idents -> DbType]
        BY <1>3 DEF Migrate, db, DbInv, Typed
    <2>2. migrated(dbs[ident]).revision = dbs[ident].revision
        BY <2>1 DEF migrated, DbType
    <2> QED
        BY <1>3, <2>1, <2>2 DEF DbNext
  <1> QED
      BY <1>1, <1>2, <1>3

\* Whoever searches, or holds the lock, while t steps: only t can have opened or read
\* anything, and t gets to search only from the lock or while nobody has it.
LEMMA OthersHold ==
    ASSUME NEW t \in Threads, Control, Ages(t), NEW l, Moves(t, l), NEW s \in Threads,
           NEW w \in Threads, pc'[w] \in Locked, s = w \/ pc'[s] = "search"
    PROVE  /\ w = t => s = t \/ pc[s] = "search"
           /\ w # t => opened' = opened /\ delta' = delta /\ pc'[w] = pc[w]
                       /\ (s = w \/ pc[s] = "search")
  <1>0. pc \in [Threads -> Labels] /\ NoThread \notin Threads
      BY ServiceAssumption DEF Control
  <1>1. \A u \in Threads : u # t => pc'[u] = pc[u]
      BY <1>0 DEF Moves
  <1>2. CASE w = t
      BY <1>1, <1>2
  <1>3. CASE w # t
    <2>1. pc[w] \in Locked /\ writer = w /\ pc[t] \notin Locked /\ pc'[w] = pc[w]
        BY <1>1, <1>3 DEF Control
    <2>2. opened' = opened /\ delta' = delta
        BY <2>1 DEF Ages
    <2>3. pc'[t] # "search"
        BY <1>0, <2>1 DEF Ages, Locked
    <2> QED
        BY <1>1, <1>3, <2>1, <2>2, <2>3
  <1> QED
      BY <1>2, <1>3

\* A step of a thread keeps every search from content older than its request.
LEMMA AgeStep ==
    ASSUME NEW t \in Threads, DbInv, Control, Content, Age, Step(t), NEW s \in Searches
    PROVE  AgeOf(s)'
  <1>0. pc \in [Threads -> Labels] /\ asked \in [Threads -> Stamps] /\ s \in Threads
        /\ NoThread \notin Threads
      BY ServiceAssumption DEF Control, Age, Threads
  <1>1. Ages(t)
      BY <1>0, StepAges
  <1>2. PICK l : Moves(t, l)
      BY StepMoves
  <1>3. pc'[t] = l /\ \A u \in Threads : u # t => pc'[u] = pc[u] /\ asked'[u] = asked[u]
      BY <1>0, <1>1, <1>2 DEF Moves, Ages
  <1>4. /\ Stamp' = Stamp /\ StampOf(opened)' = StampOf(opened')
        /\ Stamp = StampOf(ident)
    <2>1. ident' = ident /\ \A i \in Idents : dbs'[i].revision = dbs[i].revision
        BY StepStamps
    <2>2. ident \in Idents /\ opened' \in Idents
      <3>1. Content'
          BY ContentStep
      <3> QED
          BY <2>1, <3>1, Bounds DEF Content, DbInv, Typed, Idents
    <2> QED
        BY <2>1, <2>2 DEF Stamp, StampOf
  <1>5. Precedes(Stamp, Stamp)
    <2>1. ident \in 1 .. ident
        BY Bounds DEF DbInv, Typed, Idents
    <2> QED
        BY <1>4, <2>1, StampIsNow DEF Precedes
  <1>6. AgeOf(s)
      BY DEF Age
  <1>7. pc'[s] # "start" => Precedes(asked'[s], Stamp)
    <2>1. CASE s # t \/ pc[s] # "start"
        BY <1>0, <1>1, <1>3, <1>6, <2>1 DEF Ages, AgeOf
    <2>2. CASE s = t /\ pc[s] = "start"
      <3>1. asked'[s] = Stamp
          BY <1>0, <1>1, <2>2 DEF Ages
      <3> QED
          BY <1>5, <3>1
    <2> QED
        BY <2>1, <2>2
  <1>a. pc[t] # "start" => asked' = asked
      BY <1>1 DEF Ages
  <1>b. pc[t] \in Locked => \A u \in Threads : u # t => pc[u] \notin Locked /\ pc'[u] \notin Locked
      BY <1>3 DEF Control
  <1>8. ASSUME pc'[s] = "search", backend' # "unavailable"
        PROVE  Precedes(asked'[s], loaded')
    <2>1. CASE s # t
      <3>1. pc[s] = "search" /\ asked'[s] = asked[s]
          BY <1>0, <1>3, <1>8, <2>1
      <3>2. CASE backend' = backend /\ loaded' = loaded
          BY <1>6, <1>8, <3>1, <3>2 DEF AgeOf
      <3>3. CASE pc[t] = "fill" /\ loaded' = StampOf(opened)
          BY <1>6, <3>1, <3>3 DEF AgeOf, Filling
      <3>4. CASE pc[t] = "apply" /\ loaded' = delta.target
          BY <1>6, <3>1, <3>4 DEF AgeOf
      <3> QED
          BY <1>1, <1>8, <3>2, <3>3, <3>4 DEF Ages
    <2>2. CASE s = t
      <3>1. asked'[s] = asked[s] /\ pc[s] # "start"
          BY <1>0, <1>1, <1>8, <2>2 DEF Ages
      <3>2. CASE loaded' = Stamp
          BY <1>6, <3>1, <3>2 DEF AgeOf
      <3>3. CASE pc[t] = "fill" /\ loaded' = StampOf(opened)
          BY <1>6, <2>2, <3>1, <3>3 DEF AgeOf, Filling
      <3>4. CASE pc[t] = "apply" /\ loaded' = delta.target
          BY <1>6, <2>2, <3>1, <3>4 DEF AgeOf
      <3> QED
          BY <1>1, <1>8, <2>2, <3>2, <3>3, <3>4 DEF Ages
    <2> QED
        BY <2>1, <2>2
  <1>9. ASSUME NEW w \in Threads, pc'[w] \in Locked, s = w \/ pc'[s] = "search"
        PROVE  /\ w = t => s = t \/ pc[s] = "search"
               /\ w # t => opened' = opened /\ delta' = delta /\ pc'[w] = pc[w]
                           /\ (s = w \/ pc[s] = "search")
      BY <1>0, <1>1, <1>2, <1>9, OthersHold
  <1>10. ASSUME NEW w \in Threads, pc'[w] \in Filling \cup {"delta"}, s = w \/ pc'[s] = "search"
         PROVE  Precedes(asked'[s], StampOf(opened'))
    <2>1. pc'[w] \in Locked
        BY <1>10 DEF Filling, Locked
    <2>2. CASE w = t
      <3>1. s = t \/ pc[s] = "search"
          BY <1>9, <1>10, <2>1, <2>2
      <3>2. pc[t] \in Locked /\ (opened' = ident \/ (opened' = opened /\ pc[t] \in Filling))
          BY <1>1, <1>10, <2>2 DEF Ages
      <3>3. asked' = asked /\ pc[s] # "start"
          BY <1>a, <3>1, <3>2 DEF Locked
      <3>4. CASE opened' = ident
          BY <1>4, <1>6, <3>3, <3>4 DEF AgeOf
      <3>5. CASE opened' = opened /\ pc[t] \in Filling
          BY <1>6, <3>1, <3>3, <3>5 DEF AgeOf
      <3> QED
          BY <3>2, <3>4, <3>5
    <2>3. CASE w # t
      <3>1. opened' = opened /\ pc'[w] = pc[w] /\ (s = w \/ pc[s] = "search")
          BY <1>9, <1>10, <2>1, <2>3
      <3>2. asked'[s] = asked[s]
          BY <1>0, <1>1, <1>3, <1>10, <2>1, <2>3, <3>1 DEF Ages
      <3> QED
          BY <1>6, <1>10, <3>1, <3>2 DEF AgeOf
    <2> QED
        BY <2>2, <2>3
  <1>11. ASSUME NEW w \in Threads, pc'[w] = "apply", s = w \/ pc'[s] = "search"
         PROVE  Precedes(asked'[s], delta'.target)
    <2>1. pc'[w] \in Locked
        BY <1>11 DEF Locked
    <2>2. CASE w = t
      <3>1. s = t \/ pc[s] = "search"
          BY <1>9, <1>11, <2>1, <2>2
      <3>2. pc[t] = "delta" /\ delta'.target = StampOf(opened)
          BY <1>1, <1>11, <2>2 DEF Ages
      <3> QED
          BY <1>6, <1>a, <3>1, <3>2 DEF AgeOf
    <2>3. CASE w # t
      <3>1. delta' = delta /\ pc'[w] = pc[w] /\ (s = w \/ pc[s] = "search")
          BY <1>9, <1>11, <2>1, <2>3
      <3>2. asked'[s] = asked[s]
          BY <1>0, <1>1, <1>3, <1>11, <2>1, <2>3, <3>1 DEF Ages
      <3> QED
          BY <1>6, <1>11, <3>1, <3>2 DEF AgeOf
    <2> QED
        BY <2>2, <2>3
  <1> QED
      BY <1>4, <1>7, <1>8, <1>10, <1>11 DEF AgeOf

\* So does a step of the writers.
LEMMA AgeDatabase ==
    ASSUME DbInv, DbInv', Control, Content, Age, Forward, UNCHANGED svars
    PROVE  Age'
  <1>1. /\ backend' = backend /\ loaded' = loaded /\ pc' = pc /\ opened' = opened
        /\ delta' = delta /\ asked' = asked
      BY DEF svars
  <1>2. Stamp \in Stamps /\ Stamp' \in Stamps /\ Precedes(Stamp, Stamp')
      BY PathGrows
  <1>3. /\ StampOf(opened) \in Stamps /\ StampOf(opened)' \in Stamps
        /\ Precedes(StampOf(opened), StampOf(opened)')
    <2>1. opened \in 1 .. ident
        BY DEF Content
    <2>2. \A i \in 1 .. ident :
             /\ StampOf(i) = [file |-> i, revision |-> dbs[i].revision]
             /\ i \in Nat /\ dbs[i].revision \in Nat
             /\ dbs'[i].revision \in Nat /\ dbs[i].revision <= dbs'[i].revision
        BY StampIsNow DEF Forward, StampOf
    <2>3. StampOf(opened)' = [file |-> opened, revision |-> dbs'[opened].revision]
        BY <1>1 DEF StampOf
    <2> QED
        BY <2>1, <2>2, <2>3 DEF Stamps, Precedes
  <1>4. ASSUME NEW s \in Searches PROVE AgeOf(s)'
    <2>0. AgeOf(s) /\ asked[s] \in Stamps
        BY <1>4 DEF Age, Threads
    <2>1. Precedes(asked[s], Stamp) => Precedes(asked[s], Stamp')
        BY <1>2, <2>0, PrecedesOrder
    <2>2. Precedes(asked[s], StampOf(opened)) => Precedes(asked[s], StampOf(opened)')
        BY <1>3, <2>0, PrecedesOrder
    <2> QED
        BY <1>1, <2>0, <2>1, <2>2 DEF AgeOf
  <1> QED
      BY <1>1, <1>4 DEF Age

\* What is stamped is a stamp.
LEMMA StampedIs ==
    ASSUME DbInv, NEW st, Stamped(st)
    PROVE  st.file \in Nat /\ st.revision \in Nat /\ st.revision <= dbs[st.file].revision
           /\ dbs[st.file].revision \in Nat
  <1>1. st.file \in 1 .. ident /\ st.revision \in 0 .. dbs[st.file].revision
      BY DEF Stamped
  <1>2. dbs[st.file].revision \in Nat
      BY <1>1, StampIsNow
  <1> QED
      BY <1>1, <1>2, Bounds DEF DbInv, Typed, Idents

-----------------------------------------------------------------------------
(* The invariant of the service, and what follows from it.                 *)

ServiceInv == DbInv /\ Control /\ Slots /\ Content /\ Age

\* It holds at first.
LEMMA InitServes == Init => ServiceInv
  <1> SUFFICES ASSUME Init PROVE ServiceInv
      OBVIOUS
  <1>1. DbInv
      BY InitCovers DEF Init
  <1>2. /\ pc = [t \in Threads |-> IF t \in Statuses THEN "status" ELSE "start"]
        /\ writer = NoThread /\ active = 0 /\ seen = [t \in Threads |-> 0] /\ opened = 1
        /\ asked = [t \in Threads |-> NoStamp] /\ answer = [t \in Threads |-> "none"]
        /\ ident = 1
      BY DEF Init, DbInit
  <1>3. \A t \in Threads : pc[t] \in {"status", "start"}
      BY <1>2
  <1>4. Control
      BY <1>2, <1>3, ServiceAssumption DEF Control, Labels, Locked, SearchOnly, Answers
  <1>5. Slots
    <2>1. Holding = {}
        BY <1>2, ServiceAssumption DEF Holding, Threads
    <2>2. Cardinality(Holding) = 0
        BY <2>1, FS_EmptySet
    <2> QED
        BY <1>2, <1>3, <2>2, ServiceAssumption DEF Slots
  <1>6. Content
    <2>1. ident \in 1 .. ident
        BY <1>2
    <2>2. /\ dbs[ident].files \in Tables /\ Snapshot(Stamp) = dbs[ident].files
          /\ dbs[ident].schema # "none" => Stamped(Stamp)
        BY <1>1, <2>1, StampIsNow DEF Stamp
    <2>3. CASE /\ db.schema = "journal"
               /\ backend = select_backend(Cardinality(LiveIds(db.files)))
               /\ loaded = Stamp
               /\ index = IF backend = "packed" THEN load(db.files) ELSE EmptyIndex
      <3>1. backend \in {"packed", "sqlite"}
          BY <2>3, ServiceAssumption DEF select_backend
      <3>2. WellPacked(index) /\ (backend = "packed" => Contents(index) = db.files)
          BY <2>2, <2>3, LoadIsExact, EmptyPacked DEF db
      <3>3. Stamped(loaded) /\ Snapshot(loaded) = db.files
          BY <2>2, <2>3 DEF db
      <3> QED
          BY <1>2, <1>3, <2>1, <3>1, <3>2, <3>3 DEF Content, Backends, Patching, Filling
    <2>4. CASE backend = "unavailable" /\ loaded = NoStamp /\ index = EmptyIndex
        BY <1>2, <1>3, <2>1, <2>4, EmptyPacked DEF Content, Backends, Patching, Filling
    <2> QED
        BY <2>3, <2>4 DEF Init
  <1>7. Age
    <2>1. NoStamp \in Stamps
        BY DEF NoStamp, Stamps
    <2>2. \A t \in Searches : pc[t] = "start"
        BY <1>2, ServiceAssumption DEF Threads
    <2> QED
        BY <1>2, <1>3, <2>1, <2>2 DEF Age, AgeOf, Filling
  <1> QED
      BY <1>1, <1>4, <1>5, <1>6, <1>7 DEF ServiceInv

\* Every step of the service and of the database keeps it.
LEMMA NextServes == ServiceInv /\ [Next]_vars => ServiceInv'
  <1> SUFFICES ASSUME ServiceInv, [Next]_vars PROVE ServiceInv'
      OBVIOUS
  <1>0. DbInv /\ Control /\ Slots /\ Content /\ Age
      BY DEF ServiceInv
  <1>1. ASSUME NEW t \in Threads, Step(t) PROVE ServiceInv'
    <2>1. DbInv'
        BY <1>0, <1>1, StepStamps, NextCovers
    <2>2. Control' /\ Slots' /\ Content'
        BY <1>0, <1>1, ControlStep, SlotsStep, ContentStep
    <2>3. \A s \in Searches : AgeOf(s)'
        BY <1>0, <1>1, AgeStep
    <2>4. asked' \in [Threads -> Stamps]
      <3>1. Stamp \in Stamps
          BY <1>0, <2>1, <1>1, StepStamps, ForwardStep, PathGrows
      <3>2. Ages(t)
          BY <1>0, <1>1, StepAges DEF Control
      <3> QED
          BY <1>0, <3>1, <3>2 DEF Ages, Age
    <2> QED
        BY <2>1, <2>2, <2>3, <2>4 DEF ServiceInv, Age
  <1>2. ASSUME [DbNext]_dbvars, UNCHANGED svars PROVE ServiceInv'
    <2>1. DbInv' /\ Forward
        BY <1>0, <1>2, NextCovers, ForwardStep
    <2>2. Control' /\ Slots'
        BY <1>0, <1>2 DEF svars, Control, Slots, Holding
    <2>3. Content' /\ Age'
        BY <1>0, <1>2, <2>1, ContentDatabase, AgeDatabase
    <2> QED
        BY <2>1, <2>2, <2>3 DEF ServiceInv
  <1> QED
      BY <1>1, <1>2 DEF Next, Database, vars

\* What the invariant says of the service, over all behaviours.
LEMMA AlwaysServes == Spec => []ServiceInv
  BY InitServes, NextServes, PTL DEF Spec

\* The lock is held by exactly the thread inside its section, a ready index has the stamp
\* of a file that existed, its slots are in order and its counters are what they count.
THEOREM ServiceIsSound == Spec => []ServiceOK
  <1>1. ServiceInv => ServiceOK
    <2> SUFFICES ASSUME ServiceInv PROVE ServiceOK
        OBVIOUS
    <2>1. SlotsSorted(index) /\ CountersExact(index)
        BY DEF ServiceInv, Content, WellPacked, SlotsSorted, Sorted
    <2> QED
        BY <2>1 DEF ServiceOK, ServiceInv, Control, Content, Stamped
  <1> QED
      BY <1>1, AlwaysServes, PTL

\* The count of active searches is exact and within its limit, for every number of
\* threads, whatever the order of their loads, exchanges and releases.
THEOREM SlotsAreExact == Spec => []SlotsExact
  <1>1. ServiceInv => SlotsExact
      BY DEF ServiceInv, Slots, SlotsExact
  <1> QED
      BY <1>1, AlwaysServes, PTL

\* Outside the write lock the packed index is the files table as it was at the loaded
\* stamp, after any number of deltas, comparisons, failures and reloads.
THEOREM IndexIsTheSnapshot == Spec => []IndexIsSnapshot
  <1>1. ServiceInv => IndexIsSnapshot
    <2> SUFFICES ASSUME ServiceInv, backend = "packed", writer = NoThread
                 PROVE  Contents(index) = history[loaded.file][loaded.revision]
        BY DEF IndexIsSnapshot
    <2>1. \A t \in Threads : pc[t] # "load"
        BY ServiceAssumption DEF ServiceInv, Control, Locked
    <2> QED
        BY <2>1 DEF ServiceInv, Content, Snapshot
  <1> QED
      BY <1>1, AlwaysServes, PTL

\* The answer that a step gives is the one that Tells describes.
LEMMA AnswerBy ==
    ASSUME ServiceInv, [Next]_vars, NEW s \in Threads, answer'[s] # answer[s]
    PROVE  /\ answer'[s] = "results" => Search(s) /\ backend # "unavailable"
           /\ answer'[s] = "fresh" => Status(s) /\ ~Stale
  <1>1. PICK t \in Threads : Step(t)
      BY DEF Next, Database, vars, svars
  <1>2. Tells(t) /\ answer \in [Threads -> Answers]
      BY <1>1, StepTells DEF ServiceInv, Control
  <1> QED
      BY <1>2 DEF Tells

\* No search is answered with content older than its request.
THEOREM AnswersAreNotOlder == Spec => AnswersNotOlder
  <1>1. ASSUME ServiceInv, [Next]_vars, NEW s \in Searches,
               answer'[s] = "results", answer[s] = "none"
        PROVE  \/ ViewStamp.file > asked[s].file
               \/ ViewStamp.file = asked[s].file /\ ViewStamp.revision >= asked[s].revision
    <2>1. s \in Threads /\ answer'[s] # answer[s]
        BY <1>1 DEF Threads
    <2>2. Search(s) /\ backend # "unavailable"
        BY <1>1, <2>1, AnswerBy
    <2>3. Precedes(asked[s], loaded) /\ asked[s] \in Stamps /\ Stamped(loaded) /\ DbInv
        BY <1>1, <2>1, <2>2 DEF ServiceInv, Age, AgeOf, Content, Search
    <2>4. /\ loaded.file \in Nat /\ loaded.revision \in Nat
          /\ loaded.revision <= dbs[loaded.file].revision /\ dbs[loaded.file].revision \in Nat
        BY <2>3, StampedIs
    <2>5. CASE backend = "packed"
      <3>1. ViewStamp = loaded
          BY <2>5 DEF ViewStamp
      <3> QED
          BY <2>3, <2>4, <3>1 DEF Precedes, Stamps
    <2>6. CASE backend # "packed"
      <3>1. ViewStamp.file = loaded.file /\ ViewStamp.revision = dbs[loaded.file].revision
          BY <2>6 DEF ViewStamp
      <3> QED
          BY <2>3, <2>4, <3>1 DEF Precedes, Stamps
    <2> QED
        BY <2>5, <2>6
  <1>2. ServiceInv /\ [Next]_vars =>
            [\A t \in Searches :
                answer'[t] = "results" /\ answer[t] = "none" =>
                    \/ ViewStamp.file > asked[t].file
                    \/ /\ ViewStamp.file = asked[t].file
                       /\ ViewStamp.revision >= asked[t].revision]_vars
      BY <1>1
  <1> QED
      BY <1>2, AlwaysServes, PTL DEF Spec, AnswersNotOlder

\* A fresh index shows the rows of the database at its path.
LEMMA FreshView ==
    ASSUME ServiceInv, backend # "unavailable", loaded = Stamp,
           \A t \in Threads : pc[t] # "load"
    PROVE  View = db.files
  <1>1. Snapshot(Stamp) = db.files /\ loaded.file = ident
    <2>1. ident \in 1 .. ident /\ DbInv
        BY Bounds DEF ServiceInv, DbInv, Typed, Idents
    <2> QED
        BY <2>1, StampIsNow DEF Stamp, db
  <1> QED
      BY <1>1 DEF View, ServiceInv, Content, Backends, db

\* A status that says "ok" is true when it is given.
THEOREM StatusIsTruthful == Spec => StatusTruthful
  <1>1. ASSUME ServiceInv, [Next]_vars, NEW s \in Statuses,
               answer'[s] = "fresh", answer[s] = "none"
        PROVE  View = db.files
    <2>1. s \in Threads /\ answer'[s] # answer[s]
        BY <1>1 DEF Threads
    <2>2. writer = NoThread /\ backend # "unavailable" /\ loaded = Stamp
        BY <1>1, <2>1, AnswerBy DEF Status, Stale
    <2>3. \A t \in Threads : pc[t] # "load"
        BY <1>1, <2>2, ServiceAssumption DEF ServiceInv, Control, Locked
    <2> QED
        BY <1>1, <2>2, <2>3, FreshView
  <1>2. ServiceInv /\ [Next]_vars =>
            [\A t \in Statuses :
                answer'[t] = "fresh" /\ answer[t] = "none" => View = db.files]_vars
      BY <1>1
  <1> QED
      BY <1>2, AlwaysServes, PTL DEF Spec, StatusTruthful

-----------------------------------------------------------------------------
(* What a search will show was current while it waited.                    *)

SeenBy(t) ==
    /\ pc[t] # "done" => answer[t] = "none"
    /\ pc[t] = "start" => during[t] = {}
    /\ pc[t] \notin {"start", "done"} => db.files \in during[t]
    /\ pc[t] = "search" /\ backend # "unavailable" => View \in during[t]
    /\ \A w \in Threads : pc[w] \in Filling \cup {"delta"} /\ (t = w \/ pc[t] = "search")
                             => dbs[opened].files \in during[t]
    /\ \A w \in Threads : pc[w] = "apply" /\ (t = w \/ pc[t] = "search")
                             => Snapshot(delta.target) \in during[t]

\* No step of a thread changes a row: installing the journal keeps them.
LEMMA StepFiles ==
    ASSUME NEW t \in Threads, DbInv, Step(t)
    PROVE  /\ ident' = ident /\ history' = history
           /\ \A i \in Idents : dbs'[i].files = dbs[i].files
           /\ LoadMigrate(t) \/ dbs' = dbs
  <1>1. UNCHANGED dbvars \/ (LoadMigrate(t) /\ Migrate)
      BY DEF Step, Begin, SlotLoad, SlotExchange, Check, Lock, Recheck, Observe, OpenReadOnly,
             ReadJournal, ReadSnapshot, Take, ReadRefused, ReadFails, ApplyRefused, Apply,
             ApplyFails, Load, LoadMigrate, LoadReopen, Fill, LoadFails, Search, Status
  <1>2. CASE UNCHANGED dbvars
      BY <1>2 DEF dbvars
  <1>3. CASE LoadMigrate(t) /\ Migrate
    <2>1. /\ dbs' = [dbs EXCEPT ![ident] = migrated(dbs[ident])] /\ ident' = ident
          /\ history' = history /\ ident \in Idents /\ dbs \in [Idents -> DbType]
        BY <1>3 DEF Migrate, db, DbInv, Typed
    <2>2. migrated(dbs[ident]).files = dbs[ident].files
        BY <2>1 DEF migrated, DbType
    <2> QED
        BY <1>3, <2>1, <2>2
  <1> QED
      BY <1>1, <1>2, <1>3

\* A step of thread t, as the content that a search would see.
Views(t) ==
    \/ backend' = backend /\ View' = View
    \/ backend' = "unavailable"
    \/ pc[t] = "fill" /\ View' = dbs[opened].files
    \/ pc[t] = "apply" /\ View' = Snapshot(delta.target)
Arrives(t) ==
    /\ pc[t] = "fill" /\ pc'[t] = "search" => View' = dbs[opened].files
    /\ pc[t] = "apply" /\ pc'[t] = "search" => View' = Snapshot(delta.target)

\* It stays, goes, or becomes what the thread has read.
LEMMA StepViews ==
    ASSUME NEW t \in Threads, ServiceInv, Step(t)
    PROVE  Views(t) /\ Arrives(t)
  <1>0. DbInv /\ Control /\ Content /\ pc \in [Threads -> Labels]
      BY DEF ServiceInv, Control
  <1>a. /\ pc[t] = "fill" /\ pc'[t] = "search" => Fill(t)
        /\ pc[t] = "apply" /\ pc'[t] = "search" => Apply(t)
    <2>1. \/ Begin(t) \/ SlotLoad(t) \/ SlotExchange(t) \/ Check(t) \/ Lock(t) \/ Recheck(t)
          \/ Observe(t) \/ OpenReadOnly(t) \/ ReadJournal(t) \/ ReadSnapshot(t) \/ ReadRefused(t)
          \/ ReadFails(t) \/ Load(t) \/ LoadMigrate(t) \/ LoadReopen(t) \/ Search(t) \/ Status(t)
          => pc[t] \notin {"fill", "apply"}
        BY DEF Begin, SlotLoad, SlotExchange, Check, Lock, Recheck, Observe, OpenReadOnly,
               ReadJournal, ReadSnapshot, Take, ReadRefused, ReadFails, Load, LoadMigrate,
               LoadReopen, Search, Status
    <2>2. ApplyRefused(t) \/ ApplyFails(t) \/ LoadFails(t) => pc'[t] # "search"
        BY <1>0 DEF ApplyRefused, ApplyFails, LoadFails, Fail, Respond, Goto
    <2>3. (Fill(t) => pc[t] = "fill") /\ (Apply(t) => pc[t] = "apply")
        BY DEF Fill, Apply
    <2> QED
        BY <2>1, <2>2, <2>3 DEF Step
  <1>b. ~(Fill(t) \/ Apply(t)) => Arrives(t)
      BY <1>a DEF Arrives
  <1>1. CASE LoadMigrate(t)
      BY <1>0, <1>1, <1>b DEF LoadMigrate, Fill, Apply, service, Content, Filling, Views
  <1>2. CASE ~(LoadMigrate(t) \/ Fill(t) \/ Apply(t)) /\ backend' = backend /\ index' = index /\ loaded' = loaded
    <2>1. dbs' = dbs
        BY <1>0, <1>2, StepFiles
    <2>2. View' = View
        BY <1>2, <2>1 DEF View, Contents, Held
    <2> QED
        BY <1>2, <1>b, <2>2 DEF Views
  <1>3. CASE Apply(t)
    <2>1. pc[t] = "apply" /\ Ready /\ backend' = "packed" /\ WellPacked(index)
        BY <1>0, <1>3 DEF Apply, Content, Patching
    <2>2. ~NeedsFullReload(index, delta.changes) /\ index' = Applied(index, delta.changes)
        BY <1>3 DEF Apply
    <2>3. Contents(index') = Snapshot(delta.target)
        BY <2>1, <2>2, DeltaIsExact DEF Ready
    <2>4. View' = Contents(index')
        BY <2>1 DEF View, Contents, Held
    <2> QED
        BY <2>1, <2>3, <2>4 DEF Views, Arrives
  <1>4. CASE Fill(t)
    <2>1. /\ pc[t] = "fill" /\ dbs' = dbs /\ loaded' = StampOf(opened)
          /\ index' = IF backend' = "packed" THEN load(dbs[opened].files) ELSE EmptyIndex
        BY <1>4 DEF Fill, dbvars
    <2>2. opened \in 1 .. ident
        BY <1>0 DEF Content
    <2>3. dbs[opened].files \in Tables /\ loaded'.file = opened
        BY <1>0, <2>1, <2>2, StampIsNow
    <2>4. backend' = "packed" => Contents(index') = dbs[opened].files
        BY <2>1, <2>3, LoadIsExact
    <2>5. View' = IF backend' = "packed" THEN Contents(index') ELSE dbs'[loaded'.file].files
        BY DEF View, Contents, Held
    <2> QED
        BY <2>1, <2>3, <2>4, <2>5 DEF Views, Arrives
  <1>5. CASE ApplyFails(t) \/ Load(t)
    <2>1. pc'[t] # "search"
        BY <1>0, <1>5 DEF ApplyFails, Fail, Respond, Load, Goto
    <2> QED
        BY <1>5, <2>1 DEF ApplyFails, Load, Views, Arrives
  <1> QED
      BY <1>0, <1>1, <1>2, <1>3, <1>4, <1>5 DEF Step, Begin, SlotLoad, SlotExchange, Check, Lock,
         Recheck, Observe, OpenReadOnly, ReadJournal, ReadSnapshot, Take, ReadRefused, ReadFails,
         ApplyRefused, LoadReopen, LoadFails, Search, Status, service

\* A thread answers once, when it is done.
LEMMA StepAnswers ==
    ASSUME NEW t \in Threads, pc \in [Threads -> Labels], Step(t)
    PROVE  pc[t] # "done" /\ (pc'[t] # "done" => answer' = answer)
  <1>1. CASE Begin(t)
      BY <1>1 DEF Labels, Begin, Goto
  <1>2. CASE SlotLoad(t)
      BY <1>2 DEF Labels, SlotLoad, Goto
  <1>3. CASE SlotExchange(t)
      BY <1>3 DEF Labels, SlotExchange, Goto
  <1>4. CASE Check(t)
      BY <1>4 DEF Labels, Check, Goto
  <1>5. CASE Lock(t)
      BY <1>5 DEF Labels, Lock, Goto
  <1>6. CASE Recheck(t)
      BY <1>6 DEF Labels, Recheck, Goto, Unlock
  <1>7. CASE Observe(t)
      BY <1>7 DEF Labels, Observe, Goto
  <1>8. CASE OpenReadOnly(t)
      BY <1>8 DEF Labels, OpenReadOnly, Goto
  <1>9. CASE ReadJournal(t)
      BY <1>9 DEF Labels, ReadJournal, Take, Goto
  <1>10. CASE ReadSnapshot(t)
      BY <1>10 DEF Labels, ReadSnapshot, Take, Goto
  <1>11. CASE ReadRefused(t)
      BY <1>11 DEF Labels, ReadRefused, Goto
  <1>12. CASE ReadFails(t)
      BY <1>12 DEF Labels, ReadFails, Goto, Unlock, Fail, Respond
  <1>13. CASE ApplyRefused(t)
      BY <1>13 DEF Labels, ApplyRefused, Goto
  <1>14. CASE Apply(t)
      BY <1>14 DEF Labels, Apply, Goto, Unlock
  <1>15. CASE ApplyFails(t)
      BY <1>15 DEF Labels, ApplyFails, Goto, Unlock, Fail, Respond
  <1>16. CASE Load(t)
      BY <1>16 DEF Labels, Load, Goto
  <1>17. CASE LoadMigrate(t)
      BY <1>17 DEF Labels, LoadMigrate, Goto
  <1>18. CASE LoadReopen(t)
      BY <1>18 DEF Labels, LoadReopen, Goto
  <1>19. CASE Fill(t)
      BY <1>19 DEF Labels, Fill, Goto, Unlock, Respond
  <1>20. CASE LoadFails(t)
      BY <1>20 DEF Labels, LoadFails, Goto, Unlock, Fail, Respond
  <1>21. CASE Search(t)
      BY <1>21 DEF Labels, Search, Goto, Respond
  <1>22. CASE Status(t)
      BY <1>22 DEF Labels, Status, Goto, Respond
  <1> QED
      BY <1>1, <1>2, <1>3, <1>4, <1>5, <1>6, <1>7, <1>8, <1>9, <1>10, <1>11, <1>12, <1>13, <1>14, <1>15, <1>16, <1>17, <1>18, <1>19, <1>20, <1>21, <1>22 DEF Step

\* The history of a search only grows, and while it waits it has the rows of now.
LEMMA DuringGrows ==
    ASSUME NEW s \in Searches, Recorded
    PROVE  /\ during[s] \subseteq during'[s]
           /\ pc'[s] \notin {"start", "done"} => db'.files \in during'[s]
           /\ pc'[s] \in {"start", "done"} => during'[s] = during[s]
  BY DEF Recorded, Waiting

\* A step of a thread keeps what every search will show among what was current.
LEMMA SeenStep ==
    ASSUME NEW t \in Threads, ServiceInv, \A u \in Searches : SeenBy(u), Step(t), Recorded,
           NEW s \in Searches
    PROVE  SeenBy(s)'
  <1>0. /\ pc \in [Threads -> Labels] /\ s \in Threads /\ NoThread \notin Threads
        /\ DbInv /\ Control /\ Content /\ answer \in [Threads -> Answers]
      BY ServiceAssumption DEF ServiceInv, Control, Threads
  <1>1. Ages(t) /\ Views(t) /\ Arrives(t)
      BY <1>0, StepAges, StepViews
  <1>2. PICK l : Moves(t, l)
      BY <1>0, StepMoves
  <1>3. pc'[t] = l /\ \A u \in Threads : u # t => pc'[u] = pc[u]
      BY <1>0, <1>2 DEF Moves
  <1>4. SeenBy(s)
      OBVIOUS
  <1>5. /\ during[s] \subseteq during'[s]
        /\ pc'[s] \notin {"start", "done"} => db'.files \in during'[s]
        /\ pc'[s] \in {"start", "done"} => during'[s] = during[s]
      BY DuringGrows
  <1>6. /\ ident' = ident /\ history' = history
        /\ \A i \in Idents : dbs'[i].files = dbs[i].files
        /\ opened \in Idents /\ opened' \in Idents /\ opened \in 1 .. ident /\ ident \in Idents
    <2>1. Content'
        BY <1>0, ContentStep
    <2> QED
        BY <1>0, <2>1, StepFiles, Bounds DEF Content, DbInv, Typed, Idents
  <1>7. db.files = dbs[ident].files /\ db'.files = db.files
      BY <1>6 DEF db
  <1>8. pc'[s] # "done" => answer'[s] = "none"
    <2>1. CASE s # t
      <3>1. answer'[s] = answer[s]
          BY <1>0, <2>1, StepTells DEF Tells
      <3> QED
          BY <1>0, <1>3, <1>4, <2>1, <3>1 DEF SeenBy
    <2>2. CASE s = t
      <3>1. pc[t] # "done" /\ (pc'[t] # "done" => answer' = answer)
          BY <1>0, StepAnswers
      <3> QED
          BY <1>4, <2>2, <3>1 DEF SeenBy
    <2> QED
        BY <2>1, <2>2
  <1>9. pc'[s] = "start" => during'[s] = {}
    <2>1. pc'[s] = "start" => pc[s] = "start"
        BY <1>0, <1>1, <1>3 DEF Ages
    <2> QED
        BY <1>4, <1>5, <2>1 DEF SeenBy
  <1>10. ASSUME pc'[s] = "search", backend' # "unavailable"
         PROVE  View' \in during'[s]
    <2>1. CASE s # t
      <3>1. pc[s] = "search"
          BY <1>0, <1>3, <1>10, <2>1
      <3>2. CASE backend' = backend /\ View' = View
          BY <1>4, <1>5, <1>10, <3>1, <3>2 DEF SeenBy
      <3>3. CASE pc[t] = "fill" /\ View' = dbs[opened].files
          BY <1>4, <1>5, <3>1, <3>3 DEF SeenBy, Filling
      <3>4. CASE pc[t] = "apply" /\ View' = Snapshot(delta.target)
          BY <1>4, <1>5, <3>1, <3>4 DEF SeenBy
      <3> QED
          BY <1>1, <1>10, <3>2, <3>3, <3>4 DEF Views
    <2>2. CASE s = t
      <3>1. CASE pc[t] = "fill" /\ View' = dbs[opened].files
          BY <1>4, <1>5, <2>2, <3>1 DEF SeenBy, Filling
      <3>2. CASE pc[t] = "apply" /\ View' = Snapshot(delta.target)
          BY <1>4, <1>5, <2>2, <3>2 DEF SeenBy
      <3>3. CASE backend' = backend /\ View' = View /\ pc[t] \notin {"fill", "apply"}
        <4>1. (writer = NoThread \/ pc[t] = "recheck") /\ loaded = Stamp
            BY <1>1, <1>10, <2>2, <3>3 DEF Ages
        <4>2. \A u \in Threads : pc[u] # "load"
            BY <1>0, <4>1 DEF Control, Locked
        <4>3. View = db.files
            BY <1>10, <3>3, <4>1, <4>2, FreshView
        <4> QED
            BY <1>5, <1>7, <1>10, <3>3, <4>3
      <3> QED
          BY <1>1, <1>10, <2>2, <3>1, <3>2, <3>3 DEF Views, Arrives
    <2> QED
        BY <2>1, <2>2
  <1>11. ASSUME NEW w \in Threads, pc'[w] \in Locked, s = w \/ pc'[s] = "search"
         PROVE  /\ w = t => s = t \/ pc[s] = "search"
                /\ w # t => opened' = opened /\ delta' = delta /\ pc'[w] = pc[w]
                            /\ (s = w \/ pc[s] = "search")
      BY <1>0, <1>1, <1>2, <1>11, OthersHold
  <1>12. ASSUME NEW w \in Threads, pc'[w] \in Filling \cup {"delta"}, s = w \/ pc'[s] = "search"
         PROVE  dbs'[opened'].files \in during'[s]
    <2>1. pc'[w] \in Locked /\ dbs'[opened'].files = dbs[opened'].files
        BY <1>6, <1>12 DEF Filling, Locked
    <2>2. CASE w = t
      <3>1. s = t \/ pc[s] = "search"
          BY <1>11, <1>12, <2>1, <2>2
      <3>2. pc[t] \in Locked /\ (opened' = ident \/ (opened' = opened /\ pc[t] \in Filling))
          BY <1>1, <1>12, <2>2 DEF Ages
      <3>3. CASE opened' = ident
        <4>1. pc'[s] \notin {"start", "done"}
            BY <1>12, <2>2 DEF Filling
        <4> QED
            BY <1>5, <1>7, <2>1, <3>3, <4>1
      <3>4. CASE opened' = opened /\ pc[t] \in Filling
          BY <1>4, <1>5, <2>1, <3>1, <3>4 DEF SeenBy
      <3> QED
          BY <3>2, <3>3, <3>4
    <2>3. CASE w # t
      <3>1. opened' = opened /\ pc'[w] = pc[w] /\ (s = w \/ pc[s] = "search")
          BY <1>11, <1>12, <2>1, <2>3
      <3> QED
          BY <1>4, <1>5, <1>12, <2>1, <3>1 DEF SeenBy
    <2> QED
        BY <2>2, <2>3
  <1>13. ASSUME NEW w \in Threads, pc'[w] = "apply", s = w \/ pc'[s] = "search"
         PROVE  history[delta'.target.file][delta'.target.revision] \in during'[s]
    <2>1. pc'[w] \in Locked
        BY <1>13 DEF Locked
    <2>2. CASE w = t
      <3>1. s = t \/ pc[s] = "search"
          BY <1>11, <1>13, <2>1, <2>2
      <3>2. pc[t] = "delta" /\ delta'.target = StampOf(opened)
          BY <1>1, <1>13, <2>2 DEF Ages
      <3>3. Snapshot(StampOf(opened)) = dbs[opened].files
          BY <1>0, <1>6, StampIsNow
      <3> QED
          BY <1>4, <1>5, <3>1, <3>2, <3>3 DEF SeenBy, Snapshot
    <2>3. CASE w # t
      <3>1. delta' = delta /\ pc'[w] = pc[w] /\ (s = w \/ pc[s] = "search")
          BY <1>11, <1>13, <2>1, <2>3
      <3> QED
          BY <1>4, <1>5, <1>13, <3>1 DEF SeenBy, Snapshot
    <2> QED
        BY <2>2, <2>3
  <1> QED
      BY <1>5, <1>6, <1>8, <1>9, <1>10, <1>12, <1>13 DEF SeenBy, Snapshot

\* So does a step of the writers: what it changes was current a moment ago.
LEMMA SeenDatabase ==
    ASSUME ServiceInv, Forward, UNCHANGED svars, Recorded, NEW s \in Searches, SeenBy(s)
    PROVE  SeenBy(s)'
  <1>0. DbInv /\ Control /\ Content
      BY DEF ServiceInv
  <1>1. /\ backend' = backend /\ index' = index /\ loaded' = loaded /\ pc' = pc
        /\ opened' = opened /\ delta' = delta /\ answer' = answer
      BY DEF svars
  <1>2. /\ during[s] \subseteq during'[s]
        /\ pc[s] \notin {"start", "done"} => db'.files \in during'[s]
        /\ pc[s] \in {"start", "done"} => during'[s] = during[s]
      BY <1>1, DuringGrows
  <1>3. \A i \in 1 .. ident : dbs'[i].files = dbs[i].files \/ dbs'[i].files = db'.files
      BY DEF Forward, db
  <1>4. opened \in 1 .. ident
      BY <1>0 DEF Content
  <1>5. ASSUME pc[s] = "search", backend # "unavailable" PROVE View' \in during'[s]
    <2>1. View \in during[s]
        BY <1>5 DEF SeenBy
    <2>2. CASE backend = "packed"
        BY <1>1, <1>2, <2>1, <2>2 DEF View, Contents, Held
    <2>3. CASE backend # "packed"
      <3>1. /\ View = dbs[loaded.file].files /\ View' = dbs'[loaded.file].files
            /\ loaded.file \in 1 .. ident
          BY <1>0, <1>1, <1>5, <2>3 DEF View, Content, Stamped
      <3> QED
          BY <1>2, <1>3, <1>5, <2>1, <3>1
    <2> QED
        BY <2>2, <2>3
  <1>6. ASSUME NEW w \in Threads, pc[w] \in Filling \cup {"delta"}, s = w \/ pc[s] = "search"
        PROVE  dbs'[opened].files \in during'[s]
    <2>1. dbs[opened].files \in during[s] /\ pc[s] \notin {"start", "done"}
        BY <1>6 DEF SeenBy, Filling
    <2> QED
        BY <1>2, <1>3, <1>4, <2>1
  <1>7. ASSUME NEW w \in Threads, pc[w] = "apply", s = w \/ pc[s] = "search"
        PROVE  history'[delta.target.file][delta.target.revision] \in during'[s]
    <2> DEFINE st == delta.target
    <2>1. Stamped(st) /\ Snapshot(st) \in during[s]
        BY <1>0, <1>7 DEF SeenBy, Content, Ready
    <2> HIDE DEF st
    <2>2. history'[st.file][st.revision] = Snapshot(st)
        BY <1>0, <2>1, StampedForward
    <2> QED
        BY <1>2, <2>1, <2>2 DEF st
  <1> QED
      BY <1>1, <1>2, <1>5, <1>6, <1>7 DEF SeenBy, Snapshot

-----------------------------------------------------------------------------
(* The invariant of the service with its history.                          *)

RefInv ==
    /\ ServiceInv
    /\ \A s \in Searches : SeenBy(s)
    /\ during = [s \in Searches |-> during[s]]
    /\ shown = [s \in Searches |-> shown[s]]

\* It holds at first.
LEMMA InitSees == RInit => RefInv
  <1> SUFFICES ASSUME RInit PROVE RefInv
      OBVIOUS
  <1>1. ServiceInv /\ pc = [t \in Threads |-> IF t \in Statuses THEN "status" ELSE "start"]
        /\ answer = [t \in Threads |-> "none"] /\ during = [t \in Searches |-> {}]
        /\ shown = [t \in Searches |-> {}]
      BY InitServes DEF RInit, Init
  <1>2. \A s \in Searches : pc[s] = "start" /\ answer[s] = "none" /\ during[s] = {}
      BY <1>1, ServiceAssumption DEF Threads
  <1>3. \A w \in Threads : pc[w] \in {"status", "start"}
      BY <1>1
  <1> QED
      BY <1>1, <1>2, <1>3 DEF RefInv, SeenBy, Filling

\* Every step keeps it.
LEMMA NextSees == RefInv /\ [RNext]_rvars => RefInv'
  <1> SUFFICES ASSUME RefInv, [RNext]_rvars PROVE RefInv'
      OBVIOUS
  <1>0. ServiceInv /\ DbInv /\ \A s \in Searches : SeenBy(s)
      BY DEF RefInv, ServiceInv
  <1>1. CASE Next /\ Recorded
    <2>1. ServiceInv'
        BY <1>0, <1>1, NextServes
    <2>2. during' = [s \in Searches |-> during'[s]] /\ shown' = [s \in Searches |-> shown'[s]]
        BY <1>1 DEF Recorded
    <2>3. ASSUME NEW t \in Threads, Step(t), NEW s \in Searches PROVE SeenBy(s)'
        BY <1>0, <1>1, <2>3, SeenStep
    <2>4. ASSUME Database, NEW s \in Searches PROVE SeenBy(s)'
      <3>1. Forward /\ UNCHANGED svars
          BY <1>0, <2>4, ForwardStep DEF Database
      <3> QED
          BY <1>0, <1>1, <3>1, SeenDatabase
    <2> QED
        BY <1>1, <2>1, <2>2, <2>3, <2>4 DEF RefInv, Next
  <1>2. CASE UNCHANGED rvars
    <2>1. /\ UNCHANGED vars /\ during' = during /\ shown' = shown
        BY <1>2 DEF rvars
    <2>2. ServiceInv'
        BY <1>0, <2>1, NextServes
    <2>3. /\ dbs' = dbs /\ ident' = ident /\ history' = history /\ pc' = pc /\ answer' = answer
          /\ backend' = backend /\ index' = index /\ loaded' = loaded /\ opened' = opened
          /\ delta' = delta
        BY <2>1 DEF vars, dbvars, svars
    <2>4. \A s \in Searches : SeenBy(s)' = SeenBy(s)
        BY <2>1, <2>3 DEF SeenBy, View, Contents, Held, Snapshot, db
    <2> QED
        BY <1>0, <2>1, <2>2, <2>4 DEF RefInv
  <1> QED
      BY <1>1, <1>2 DEF RNext

\* What the invariant says, over all behaviours.
LEMMA AlwaysSees == RSpec => []RefInv
  BY InitSees, NextSees, PTL DEF RSpec

-----------------------------------------------------------------------------
(* Steps of the service as steps of the abstract search.                   *)

\* What has become of a request, by its label.
LEMMA OutcomeIs ==
    ASSUME NEW s \in Searches
    PROVE  /\ pc[s] = "start" => Outcome(s) = "idle"
           /\ pc[s] \notin {"start", "done"} => Outcome(s) = "waiting"
           /\ pc[s] = "done" /\ answer[s] = "results" => Outcome(s) = "answered"
           /\ pc[s] = "done" /\ answer[s] # "results" => Outcome(s) = "refused"
           /\ Outcome(s) = "waiting" => pc[s] \notin {"start", "done"}
  BY DEF Outcome, Waiting

\* A step of which no request sees more than the rows is a Change.
LEMMA ChangeStep ==
    ASSUME Recorded, db'.files \in Tables, shown' = shown,
           \A s \in Searches : Outcome(s)' = Outcome(s) /\ (s \in Waiting' <=> s \in Waiting)
    PROVE  Abstract!Change
  <1>1. \A s \in Searches : Outcome(s) = "waiting" <=> s \in Waiting
      BY OutcomeIs DEF Waiting
  <1>2. during' = [s \in Searches |-> IF Outcome(s) = "waiting" THEN during[s] \cup {db'.files}
                                      ELSE during[s]]
      BY <1>1 DEF Recorded
  <1>3. [s \in Searches |-> Outcome(s)'] = [s \in Searches |-> Outcome(s)]
      OBVIOUS
  <1> QED
      BY <1>2, <1>3 DEF Abstract!Change

\* The requests other than r are where they were, with what they had.
LEMMA OthersStay ==
    ASSUME NEW t \in Threads, RefInv, Step(t), Recorded, NEW r \in Searches, r # t
    PROVE  /\ pc'[r] = pc[r] /\ answer'[r] = answer[r]
           /\ Outcome(r)' = Outcome(r) /\ during'[r] = during[r] /\ shown'[r] = shown[r]
  <1>0. /\ pc \in [Threads -> Labels] /\ answer \in [Threads -> Answers] /\ r \in Threads
        /\ Control /\ DbInv /\ SeenBy(r)
      BY DEF RefInv, ServiceInv, Control, Threads
  <1>1. PICK l : Moves(t, l)
      BY <1>0, StepMoves
  <1>2. pc'[r] = pc[r]
      BY <1>0, <1>1 DEF Moves
  <1>3. answer'[r] = answer[r]
      BY <1>0, StepTells DEF Tells
  <1>4. Outcome(r)' = Outcome(r)
      BY <1>2, <1>3 DEF Outcome, Waiting
  <1>5. db'.files = db.files
    <2>1. ident' = ident /\ ident \in Idents /\ \A i \in Idents : dbs'[i].files = dbs[i].files
        BY <1>0, StepFiles DEF DbInv, Typed
    <2> QED
        BY <2>1 DEF db
  <1>6. during'[r] = during[r]
      BY <1>0, <1>2, <1>5 DEF Recorded, Waiting, SeenBy
  <1>7. shown'[r] = shown[r]
      BY <1>3 DEF Recorded
  <1> QED
      BY <1>2, <1>3, <1>4, <1>6, <1>7

\* Every step of a thread is a step of the abstract search.
LEMMA StepRefines ==
    ASSUME NEW t \in Threads, RefInv, Step(t), Recorded
    PROVE  Abstract!ANext
  <1>0. /\ pc \in [Threads -> Labels] /\ answer \in [Threads -> Answers]
        /\ Control /\ DbInv /\ ServiceInv
        /\ during = [s \in Searches |-> during[s]] /\ shown = [s \in Searches |-> shown[s]]
      BY DEF RefInv, ServiceInv, Control
  <1>1. Ages(t)
      BY <1>0, StepAges
  <1>2. pc[t] # "done" /\ (pc'[t] # "done" => answer' = answer)
      BY <1>0, StepAnswers
  <1>3. db'.files = db.files /\ db.files \in Tables
    <2>1. /\ ident' = ident /\ ident \in Idents /\ ident \in 1 .. ident
          /\ \A i \in Idents : dbs'[i].files = dbs[i].files
        BY <1>0, StepFiles, Bounds DEF DbInv, Typed, Idents
    <2>2. dbs[ident].files \in Tables
        BY <1>0, <2>1, StampIsNow
    <2> QED
        BY <2>1, <2>2 DEF db
  <1>4. \A r \in Searches : r # t =>
            /\ pc'[r] = pc[r] /\ answer'[r] = answer[r]
            /\ Outcome(r)' = Outcome(r) /\ during'[r] = during[r] /\ shown'[r] = shown[r]
      BY OthersStay
  <1>5. during' = [s \in Searches |-> during'[s]] /\ shown' = [s \in Searches |-> shown'[s]]
      BY DEF Recorded
  <1> DEFINE state == [s \in Searches |-> Outcome(s)]
  <1> DEFINE after == [s \in Searches |-> Outcome(s)']
  <1>6. CASE t \notin Searches \/ (pc[t] # "start" /\ pc'[t] # "done")
    <2>1. \A r \in Searches : r # t => (r \in Waiting' <=> r \in Waiting)
        BY <1>4 DEF Waiting
    <2>2. t \in Searches => /\ t \in Waiting /\ t \in Waiting' /\ answer'[t] = answer[t]
                            /\ shown'[t] = shown[t] /\ Outcome(t)' = Outcome(t)
        BY <1>1, <1>2, <1>6 DEF Ages, Waiting, Outcome, Recorded
    <2>3. shown' = shown
        BY <1>0, <1>4, <1>5, <2>2
    <2>4. Abstract!Change
        BY <1>3, <1>4, <2>1, <2>2, <2>3, ChangeStep
    <2> QED
        BY <2>4 DEF Abstract!ANext
  <1>7. CASE t \in Searches /\ pc[t] = "start"
    <2>1. pc'[t] \notin {"start", "done"} /\ answer' = answer
        BY <1>1, <1>2, <1>7 DEF Ages
    <2>2. Outcome(t) = "idle" /\ Outcome(t)' = "waiting"
        BY <1>7, <2>1 DEF Outcome, Waiting
    <2>3. during[t] = {}
        BY <1>7 DEF RefInv, SeenBy
    <2>4. during'[t] = {db.files} /\ shown'[t] = shown[t]
        BY <1>3, <1>7, <2>1, <2>3 DEF Recorded, Waiting
    <2>5. /\ after = [state EXCEPT ![t] = "waiting"]
          /\ during' = [during EXCEPT ![t] = {db.files}]
          /\ shown' = shown
        BY <1>0, <1>4, <1>5, <1>7, <2>2, <2>4
    <2>6. Abstract!Ask(t)
        BY <1>3, <1>7, <2>2, <2>5 DEF Abstract!Ask
    <2> QED
        BY <1>7, <2>6 DEF Abstract!ANext
  <1>8. CASE t \in Searches /\ pc[t] # "start" /\ pc'[t] = "done"
    <2>1. Outcome(t) = "waiting" /\ answer[t] = "none" /\ during'[t] = during[t]
        BY <1>2, <1>8 DEF Outcome, Waiting, Recorded, RefInv, SeenBy
    <2>2. during' = during
        BY <1>0, <1>4, <1>5, <2>1
    <2>3. CASE answer'[t] = "results"
      <3>1. Outcome(t)' = "answered" /\ shown'[t] = {View}
          BY <1>8, <2>1, <2>3 DEF Outcome, Waiting, Recorded
      <3>2. View \in during[t]
        <4>1. Search(t) /\ backend # "unavailable"
            BY <1>0, <2>1, <2>3, StepTells DEF Tells
        <4> QED
            BY <1>8, <4>1 DEF Search, RefInv, SeenBy
      <3>3. /\ after = [state EXCEPT ![t] = "answered"]
            /\ shown' = [shown EXCEPT ![t] = {View}]
          BY <1>0, <1>4, <1>5, <1>8, <3>1
      <3>4. Abstract!Answer(t)
          BY <1>3, <1>8, <2>1, <2>2, <3>2, <3>3 DEF Abstract!Answer
      <3> QED
          BY <1>8, <3>4 DEF Abstract!ANext
    <2>4. CASE answer'[t] # "results"
      <3>1. Outcome(t)' = "refused" /\ shown'[t] = shown[t]
          BY <1>8, <2>4 DEF Outcome, Waiting, Recorded
      <3>2. after = [state EXCEPT ![t] = "refused"] /\ shown' = shown
          BY <1>0, <1>4, <1>5, <1>8, <3>1
      <3>3. Abstract!Refuse(t)
          BY <1>3, <1>8, <2>1, <2>2, <3>2 DEF Abstract!Refuse
      <3> QED
          BY <1>8, <3>3 DEF Abstract!ANext
    <2> QED
        BY <2>3, <2>4
  <1> QED
      BY <1>6, <1>7, <1>8

\* Whatever refreshes, failures, forced reloads and replaced database files come between,
\* a search is refused or shows one content of the database that was current while it
\* waited: the service implements the safety part of AbstractSearch.
THEOREM ServiceRefinesSearch == RSpec => Abstract!ASafety
  <1>1. RInit => Abstract!AInit
    <2> SUFFICES ASSUME RInit PROVE Abstract!AInit
        OBVIOUS
    <2>1. db.files \in Tables
      <3>1. DbInv
          BY InitCovers DEF RInit, Init
      <3>2. ident \in 1 .. ident
          BY <3>1, Bounds DEF DbInv, Typed, Idents
      <3> QED
          BY <3>1, <3>2, StampIsNow DEF db
    <2>2. \A s \in Searches : pc[s] = "start"
        BY ServiceAssumption DEF RInit, Init, Threads
    <2>3. [s \in Searches |-> Outcome(s)] = [s \in Searches |-> "idle"]
        BY <2>2, OutcomeIs
    <2> QED
        BY <2>1, <2>3 DEF RInit, Abstract!AInit
  <1>2. RefInv /\ [RNext]_rvars => [Abstract!ANext]_(Abstract!avars)
    <2> SUFFICES ASSUME RefInv, [RNext]_rvars
                 PROVE  Abstract!ANext \/ UNCHANGED Abstract!avars
        OBVIOUS
    <2>1. CASE Database /\ Recorded
      <3>1. DbInv' /\ pc' = pc /\ answer' = answer
          BY <2>1, NextCovers DEF RefInv, ServiceInv, Database, svars
      <3>2. db'.files \in Tables
        <4>1. dbs'[ident'] \in DbType
            BY <3>1 DEF DbInv, Typed
        <4> QED
            BY <4>1 DEF DbType, db
      <3>3. shown' = shown
        <4>1. shown' = [s \in Searches |-> shown[s]]
            BY <2>1, <3>1 DEF Recorded
        <4> QED
            BY <4>1 DEF RefInv
      <3>4. \A s \in Searches : Outcome(s)' = Outcome(s) /\ (s \in Waiting' <=> s \in Waiting)
          BY <3>1 DEF Outcome, Waiting
      <3> QED
          BY <2>1, <3>2, <3>3, <3>4, ChangeStep DEF Abstract!ANext
    <2>2. ASSUME NEW t \in Threads, Step(t), Recorded PROVE Abstract!ANext
        BY <2>2, StepRefines
    <2>3. CASE UNCHANGED rvars
        BY <2>3 DEF rvars, vars, dbvars, svars, Abstract!avars, db, Outcome, Waiting
    <2> QED
        BY <2>1, <2>2, <2>3 DEF RNext, Next
  <1> QED
      BY <1>1, <1>2, AlwaysSees, PTL DEF RSpec, Abstract!ASafety
=============================================================================
