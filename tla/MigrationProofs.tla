-------------------------- MODULE MigrationProofs ---------------------------
(***************************************************************************)
(* What is proved of SchemaMigration for every number of processes, ids,   *)
(* paths and writes: an opened process has a migrated database, each row   *)
(* holds the lower case of its path, and every change has its revision.    *)
(***************************************************************************)
EXTENDS SchemaMigration, FiniteSetTheorems, WellFoundedInduction, TLAPS

Row == [path : Paths, lower : Lowers]
Labels == {"down", "alter", "backfill", "read", "update", "mark",
           "revise", "install", "journal", "triggers", "open"}

TypeOK ==
    /\ column \in BOOLEAN /\ backfilled \in BOOLEAN /\ revised \in BOOLEAN /\ journal \in BOOLEAN
    /\ rows \in [Ids -> Row \cup {None}]
    /\ revision \in Nat
    /\ pc \in [Processes -> Labels]
    /\ batch \in [Processes -> [Ids -> Paths \cup {None}]]
    /\ reassigned \subseteq Ids

\* The marks come in their order, and a process is past a step only when its mark is set.
Marked ==
    /\ backfilled \/ revised => column
    /\ journal => revised
    /\ \A p \in Processes :
          /\ pc[p] \notin {"down", "alter"} => column
          /\ pc[p] \in {"revise", "install", "journal", "triggers", "open"} => backfilled
          /\ pc[p] \in {"journal", "triggers", "open"} => revised
          /\ pc[p] = "open" => journal

Settled(i) == rows[i].lower = Full(rows[i].path)

\* Row i still lacks only what an earlier version left out; a batch names its path,
\* and a batch that does not name it knows that it is filled in.
Filled(i) ==
    /\ rows[i].lower \in {None, Full(rows[i].path), Ascii(rows[i].path)}
    /\ backfilled => Settled(i)
    /\ \A p \in Processes :
          /\ batch[p][i] \in {None, rows[i].path}
          /\ pc[p] = "update" /\ batch[p][i] = None => Settled(i)
          /\ pc[p] = "mark" => Settled(i)

Filling == \A i \in Live \ reassigned : Filled(i)

Inv == TypeOK /\ Marked /\ Filling

-----------------------------------------------------------------------------
(* Rows, ids and counts.                                                   *)

\* A row is not NULL, nor is what it holds once it is filled in.
LEMMA Apart ==
    ASSUME MigrationAssumption
    PROVE  /\ \A r \in Row : r # None
           /\ \A p \in Paths : p # None /\ Full(p) # None /\ Full(p) \in Lowers
                               /\ Ascii(p) # None /\ Ascii(p) \in Lowers
           /\ None \in Lowers
  <1>1. \A p \in Paths : None \notin {Full(p), Ascii(p)}
      BY DEF MigrationAssumption
  <1>2. \A r \in Row : r # None
      BY DEF MigrationAssumption, Row
  <1>3. None \notin Paths
      BY DEF MigrationAssumption
  <1> QED
      BY <1>1, <1>2, <1>3, Zenon DEF Lowers

\* A set of row ids with 0 has a largest element.
LEMMA Largest ==
    ASSUME NEW n \in Nat, NEW S \in SUBSET (0 .. n), S # {}
    PROVE  Max(S) \in S /\ \A x \in S : x <= Max(S)
  <1> DEFINE T == {k \in Nat : \A x \in S : x <= k}
             R == OpToRel(<, Nat)
  <1>1. n \in T
      OBVIOUS
  <1>2. IsWellFoundedOn(R, Nat)
      BY NatLessThanWellFounded
  <1>3. PICK m \in T : \A y \in T : ~(<<y, m>> \in R)
    <2> HIDE DEF T, R
    <2>1. T \subseteq Nat
        BY DEF T
    <2> QED
        BY <1>1, <1>2, <2>1, WFMin
  <1>4. \A y \in T : ~(y < m)
      BY <1>3 DEF OpToRel
  <1>5. m \in S
    <2> SUFFICES ASSUME m \notin S PROVE FALSE
        OBVIOUS
    <2>1. \A x \in S : x < m
        OBVIOUS
    <2>2. PICK x : x \in S
        OBVIOUS
    <2>3. m - 1 \in T
      <3>1. x \in 0 .. n
          BY <2>2
      <3> QED
          BY <2>1, <2>2, <3>1
    <2> QED
        BY <1>4, <2>3
  <1>6. \A y \in S : m >= y
      OBVIOUS
  <1>7. Max(S) \in S /\ \A y \in S : Max(S) >= y
      BY <1>5, <1>6, Zenon DEF Max
  <1> QED
      BY <1>7

\* The triggers never take a revision back, and count a statement that changes a row.
LEMMA CountedUp ==
    ASSUME MigrationAssumption, TypeOK, NEW new
    PROVE  /\ Counted(new) \in Nat /\ revision <= Counted(new)
           /\ \A i \in Ids : revised /\ new[i] # rows[i] => revision < Counted(new)
  <1> DEFINE D == {i \in Ids : new[i] # rows[i]}
  <1>1. MaxId \in Int /\ 1 \in Int /\ revision \in Nat
      BY DEF MigrationAssumption, TypeOK
  <1>2. IsFiniteSet(Ids)
      BY <1>1, FS_Interval DEF Ids
  <1>3. IsFiniteSet(D)
      BY <1>2, FS_Subset
  <1>4. Cardinality(D) \in Nat
      BY <1>3, FS_CardinalityType
  <1>5. Cardinality(D) = 0 => D = {}
      BY <1>3, FS_EmptySet
  <1>6. Counted(new) = IF revised THEN revision + Cardinality(D) ELSE revision
      BY DEF Counted
  <1>7. \A i \in Ids : new[i] # rows[i] => D # {}
      OBVIOUS
  <1> HIDE DEF D
  <1> QED
      BY <1>1, <1>4, <1>5, <1>6, <1>7

\* The id of an upserted path is an id of the table.
LEMMA UpsertId ==
    ASSUME MigrationAssumption, TypeOK, NEW path \in Paths,
           NEW at, at = {i \in Live : rows[i].path = path},
           NEW k, k = (IF at # {} THEN CHOOSE i \in at : TRUE ELSE Max(Live \cup {0}) + 1),
           k <= MaxId
    PROVE  k \in Ids
  <1>1. CASE at # {}
      BY <1>1 DEF Live
  <1>2. CASE at = {}
    <2>1. Live \cup {0} \in SUBSET (0 .. MaxId) /\ MaxId \in Nat
        BY DEF Live, Ids, MigrationAssumption
    <2>2. Max(Live \cup {0}) \in 0 .. MaxId
        BY <2>1, Largest
    <2> QED
        BY <1>2, <2>1, <2>2 DEF Ids
  <1> QED
      BY <1>1, <1>2

-----------------------------------------------------------------------------
(* Every step keeps the types.                                             *)

\* Of the steps that leave rows and batches alone.
Passes(p) ==
    \/ Open(p) \/ Alter(p) \/ Backfill(p) \/ Mark(p) \/ Revise(p) \/ Install(p)
    \/ Journal(p) \/ Triggers(p)

\* Init has the types.
LEMMA InitTypes == ASSUME MigrationAssumption, Init PROVE TypeOK
  <1>1. PICK f \in [Ids -> Paths \cup {None}], l \in [Ids -> Lowers] :
           rows = [i \in Ids |-> IF f[i] = None THEN None ELSE [path |-> f[i], lower |-> l[i]]]
      BY DEF Init
  <1>2. rows \in [Ids -> Row \cup {None}]
      BY <1>1 DEF Row
  <1>3. batch \in [Processes -> [Ids -> Paths \cup {None}]] /\ pc \in [Processes -> Labels]
      BY DEF Init, NoBatch, Labels
  <1>4. /\ column \in BOOLEAN /\ backfilled \in BOOLEAN /\ revised \in BOOLEAN
        /\ journal \in BOOLEAN
      BY DEF Init
  <1> QED
      BY <1>2, <1>3, <1>4 DEF TypeOK, Init

\* A step keeps the types.
LEMMA StepTypes == ASSUME MigrationAssumption, TypeOK, [Next]_vars PROVE TypeOK'
  <1> USE DEF TypeOK, Goto, Kept, store, Labels
  <1>1. CASE UNCHANGED vars
      BY <1>1 DEF vars
  <1>2. ASSUME NEW p \in Processes, Passes(p) PROVE TypeOK'
    <2>1. UNCHANGED <<rows, batch, reassigned>>
        BY <1>2 DEF Passes, Open, Alter, Backfill, Mark, Revise, Install, Journal, Triggers
    <2>2. pc' \in [Processes -> Labels]
        BY <1>2 DEF Passes, Open, Alter, Backfill, Mark, Revise, Install, Journal, Triggers
    <2>3. column' \in BOOLEAN /\ backfilled' \in BOOLEAN
        BY <1>2 DEF Passes, Open, Alter, Backfill, Mark, Revise, Install, Journal, Triggers
    <2>4. revised' \in BOOLEAN /\ journal' \in BOOLEAN
        BY <1>2 DEF Passes, Open, Alter, Backfill, Mark, Revise, Install, Journal, Triggers
    <2>5. revision' \in {revision, 0}
        BY <1>2 DEF Passes, Open, Alter, Backfill, Mark, Revise, Install, Journal, Triggers
    <2> QED
        BY <2>1, <2>2, <2>3, <2>4, <2>5
  <1>3. ASSUME NEW p \in Processes, Read(p) PROVE TypeOK'
    <2>1. \A i \in Live : rows[i].path \in Paths
        BY DEF Live, Row
    <2> DEFINE found == {i \in Live : rows[i].lower \in {None, Ascii(rows[i].path)}}
               names == [i \in Ids |-> IF i \in found THEN rows[i].path ELSE None]
    <2>2. names \in [Ids -> Paths \cup {None}]
        BY <2>1
    <2>3. /\ batch' = [batch EXCEPT ![p] = names]
          /\ pc' = [pc EXCEPT ![p] = IF found = {} THEN "mark" ELSE "update"]
          /\ UNCHANGED <<store, reassigned, writes>>
        BY <1>3 DEF Read
    <2> HIDE DEF found, names
    <2> QED
        BY <2>2, <2>3
  <1>4. ASSUME NEW p \in Processes, Update(p) PROVE TypeOK'
    <2>1. revision' = Counted(rows') /\ revision' \in Nat
        BY <1>4, CountedUp DEF Update
    <2>2. ASSUME NEW i \in Live, batch[p][i] # None
          PROVE  [rows[i] EXCEPT !.lower = Full(batch[p][i])] \in Row
      <3>1. rows[i] \in Row /\ batch[p][i] \in Paths
          BY <2>2 DEF Live
      <3>2. Full(batch[p][i]) \in Lowers
          BY <3>1, Apart
      <3> QED
          BY <3>1, <3>2 DEF Row
    <2>3. rows' \in [Ids -> Row \cup {None}]
        BY <1>4, <2>2 DEF Update
    <2>4. NoBatch \in [Ids -> Paths \cup {None}]
        BY DEF NoBatch
    <2> QED
        BY <1>4, <2>1, <2>3, <2>4 DEF Update
  <1>5. ASSUME NEW p \in Processes, Fail(p) PROVE TypeOK'
    <2>1. NoBatch \in [Ids -> Paths \cup {None}]
        BY DEF NoBatch
    <2> QED
        BY <1>5, <2>1 DEF Fail
  <1>6. ASSUME NEW p \in Processes, Remove(p) PROVE TypeOK'
    <2>1. revision' \in Nat
        BY <1>6, CountedUp DEF Remove
    <2>2. rows' \in [Ids -> Row \cup {None}]
        BY <1>6 DEF Remove, Live
    <2> QED
        BY <1>6, <2>1, <2>2 DEF Remove
  <1>7. ASSUME NEW p \in Processes, NEW path \in Paths, Upsert(p, path) PROVE TypeOK'
    <2>1. PICK k \in Ids :
             /\ rows' = [rows EXCEPT ![k] = [path |-> path, lower |-> Full(path)]]
             /\ reassigned' \in {reassigned, reassigned \cup {k}}
        BY <1>7, UpsertId DEF Upsert
    <2>2. [path |-> path, lower |-> Full(path)] \in Row
        BY Apart DEF Row
    <2>3. revision' \in Nat
        BY <1>7, CountedUp DEF Upsert
    <2>4. rows' \in [Ids -> Row \cup {None}] /\ reassigned' \subseteq Ids
        BY <2>1, <2>2
    <2>5. UNCHANGED <<column, backfilled, revised, journal, pc, batch>>
        BY <1>7 DEF Upsert
    <2> QED
        BY <2>3, <2>4, <2>5
  <1> QED
      BY <1>1, <1>2, <1>3, <1>4, <1>5, <1>6, <1>7 DEF Next, Passes

-----------------------------------------------------------------------------
(* The marks.                                                              *)

\* A step keeps the order of the marks.
LEMMA StepMarked == ASSUME TypeOK, Marked, [Next]_vars PROVE Marked'
  <1> USE DEF Marked, TypeOK, Goto, Kept, store
  <1>1. CASE UNCHANGED vars
      BY <1>1 DEF vars
  <1>2. ASSUME NEW p \in Processes, Passes(p) PROVE Marked'
    <2>1. CASE Open(p) \/ Alter(p)
        BY <2>1 DEF Open, Alter
    <2>2. CASE Backfill(p) \/ Mark(p)
        BY <2>2 DEF Backfill, Mark
    <2>3. CASE Revise(p) \/ Install(p)
        BY <2>3 DEF Revise, Install
    <2>4. CASE Journal(p) \/ Triggers(p)
        BY <2>4 DEF Journal, Triggers
    <2> QED
        BY <1>2, <2>1, <2>2, <2>3, <2>4 DEF Passes
  <1>3. ASSUME NEW p \in Processes, Read(p) \/ Update(p) \/ Fail(p) \/ Remove(p)
        PROVE  Marked'
      BY <1>3 DEF Read, Update, Fail, Remove
  <1>4. ASSUME NEW p \in Processes, NEW path \in Paths, Upsert(p, path) PROVE Marked'
      BY <1>4 DEF Upsert
  <1> QED
      BY <1>1, <1>2, <1>3, <1>4 DEF Next, Passes

-----------------------------------------------------------------------------
(* The rows.                                                               *)

\* A row that is filled in stays it while row, marks and batches do.
LEMMA FilledKept ==
    ASSUME TypeOK, NEW i \in Ids, Filled(i), rows'[i] = rows[i],
           backfilled' => backfilled \/ Settled(i),
           \A p \in Processes :
              /\ batch'[p][i] \in {None, batch[p][i]}
              /\ pc'[p] = "update" /\ batch'[p][i] = None
                    => Settled(i) \/ (pc[p] = "update" /\ batch[p][i] = None)
              /\ pc'[p] = "mark" => Settled(i) \/ pc[p] = "mark"
    PROVE  Filled(i)'
  BY DEF Filled, Settled

\* A step keeps what is known of the rows.
LEMMA StepFilled ==
    ASSUME MigrationAssumption, TypeOK, Marked, Filling, [Next]_vars
    PROVE  Filling'
  <1> USE DEF Goto, Kept, store
  <1> SUFFICES ASSUME NEW i \in Ids, rows'[i] # None, i \notin reassigned' PROVE Filled(i)'
      BY DEF Filling, Live
  <1>0. /\ \A j \in Ids : rows[j] # None => rows[j] \in Row
        /\ batch \in [Processes -> [Ids -> Paths \cup {None}]] /\ pc \in [Processes -> Labels]
        /\ rows \in [Ids -> Row \cup {None}]
      BY DEF TypeOK
  <1>a. rows[i] # None /\ i \notin reassigned => Filled(i)
      BY DEF Filling, Live
  <1>b. \A r \in Row : r.path \in Paths
      BY DEF Row
  <1>1. CASE UNCHANGED vars
      BY <1>1, <1>a DEF vars, Filled, Settled
  <1>2. ASSUME NEW p \in Processes, Passes(p) PROVE Filled(i)'
    <2>1. UNCHANGED <<rows, batch, reassigned>> /\ Filled(i)
        BY <1>2, <1>a DEF Passes, Open, Alter, Backfill, Mark, Revise, Install, Journal, Triggers
    <2>2. \A q \in Processes : pc'[q] \in {"update", "mark"} => pc'[q] = pc[q]
        BY <1>2, <1>0 DEF Passes, Open, Alter, Backfill, Mark, Revise, Install, Journal, Triggers
    <2>3. backfilled' => backfilled \/ Settled(i)
        BY <1>2, <2>1 DEF Passes, Open, Alter, Backfill, Mark, Revise, Install, Journal, Triggers,
                          Filled
    <2> QED
        BY <2>1, <2>2, <2>3, FilledKept
  <1>3. ASSUME NEW p \in Processes, Read(p) PROVE Filled(i)'
    <2> DEFINE found == {j \in Live : rows[j].lower \in {None, Ascii(rows[j].path)}}
               names == [j \in Ids |-> IF j \in found THEN rows[j].path ELSE None]
    <2>1. /\ batch' = [batch EXCEPT ![p] = names]
          /\ pc' = [pc EXCEPT ![p] = IF found = {} THEN "mark" ELSE "update"]
          /\ UNCHANGED <<store, reassigned>>
        BY <1>3 DEF Read
    <2>2. Filled(i) /\ i \in Live
        BY <2>1, <1>a DEF Live
    <2>3. rows[i].path \in Paths /\ rows[i].path # None
        BY <2>2, <1>0, <1>b, Apart DEF Live
    <2>4. names[i] \in {None, rows[i].path} /\ (names[i] = None => Settled(i))
        BY <2>2, <2>3 DEF Filled, Settled
    <2>5. found = {} => Settled(i)
        BY <2>2 DEF Filled, Settled
    <2> HIDE DEF found, names
    <2>6. \A q \in Processes : q # p => batch'[q] = batch[q] /\ pc'[q] = pc[q]
        BY <2>1, <1>0
    <2>7. batch'[p] = names /\ (pc'[p] = "mark" => found = {})
        BY <2>1, <1>0
    <2>8. \A q \in Processes :
              /\ batch'[q][i] \in {None, rows[i].path}
              /\ pc'[q] = "update" /\ batch'[q][i] = None => Settled(i)
              /\ pc'[q] = "mark" => Settled(i)
        BY <2>2, <2>4, <2>5, <2>6, <2>7 DEF Filled
    <2> QED
        BY <2>1, <2>2, <2>8 DEF Filled, Settled
  <1>4. ASSUME NEW p \in Processes, Update(p) PROVE Filled(i)'
    <2>1. /\ rows'[i] = IF i \in Live /\ batch[p][i] # None
                        THEN [rows[i] EXCEPT !.lower = Full(batch[p][i])] ELSE rows[i]
          /\ batch' = [batch EXCEPT ![p] = NoBatch] /\ pc' = [pc EXCEPT ![p] = "mark"]
          /\ pc[p] = "update" /\ UNCHANGED <<backfilled, reassigned>>
        BY <1>4 DEF Update
    <2>2. i \in Live /\ Filled(i) /\ rows[i] \in Row
        BY <2>1, <1>0, <1>a DEF Live
    <2>3. rows'[i].path = rows[i].path /\ (Settled(i) \/ batch[p][i] # None => Settled(i)')
        BY <2>1, <2>2 DEF Filled, Settled, Row
    <2>4. Settled(i)'
        BY <2>1, <2>2, <2>3 DEF Filled
    <2>5. \A q \in Processes : batch'[q][i] \in {None, rows'[i].path}
        BY <2>1, <2>2, <2>3, <1>0 DEF Filled, NoBatch
    <2> QED
        BY <2>4, <2>5 DEF Filled, Settled
  <1>5. ASSUME NEW p \in Processes, Fail(p) PROVE Filled(i)'
    <2>1. UNCHANGED <<rows, backfilled, reassigned>> /\ Filled(i)
        BY <1>5, <1>a DEF Fail
    <2>2. \A q \in Processes : /\ batch'[q][i] \in {None, batch[q][i]}
                               /\ pc'[q] # "down" => pc'[q] = pc[q] /\ batch'[q] = batch[q]
        BY <1>5, <1>0 DEF Fail, NoBatch
    <2> QED
        BY <2>1, <2>2, FilledKept
  <1>6. ASSUME NEW p \in Processes, Remove(p) PROVE Filled(i)'
    <2>1. rows'[i] = rows[i] /\ UNCHANGED <<backfilled, batch, pc, reassigned>>
        BY <1>6, <1>0 DEF Remove, Live
    <2> QED
        BY <2>1, <1>a, FilledKept
  <1>7. ASSUME NEW p \in Processes, NEW path \in Paths, Upsert(p, path) PROVE Filled(i)'
    <2>1. PICK k \in Ids :
             /\ rows' = [rows EXCEPT ![k] = [path |-> path, lower |-> Full(path)]]
             /\ reassigned' = IF \E q \in Processes : batch[q][k] \notin {None, path}
                              THEN reassigned \cup {k} ELSE reassigned
             /\ UNCHANGED <<backfilled, batch, pc>>
        BY <1>7, UpsertId DEF Upsert
    <2>2. CASE i = k
      <3>1. rows'[i] = [path |-> path, lower |-> Full(path)]
          BY <2>1, <2>2, <1>0
      <3>2. Settled(i)' /\ rows'[i].path = path
          BY <3>1 DEF Settled
      <3>3. \A q \in Processes : batch[q][i] \in {None, path}
          BY <2>1, <2>2
      <3> QED
          BY <3>2, <3>3, <2>1 DEF Filled, Settled
    <2>3. CASE i # k
      <3>1. rows'[i] = rows[i] /\ i \notin reassigned
          BY <2>1, <2>3, <1>0
      <3> QED
          BY <3>1, <2>1, <1>a, FilledKept
    <2> QED
        BY <2>2, <2>3
  <1> QED
      BY <1>1, <1>2, <1>3, <1>4, <1>5, <1>6, <1>7 DEF Next, Passes

\* Init satisfies the invariant.
LEMMA InitInv == ASSUME MigrationAssumption, Init PROVE Inv
  <1>1. TypeOK
      BY InitTypes
  <1>2. Marked
      BY DEF Init, Marked
  <1>3. PICK f \in [Ids -> Paths \cup {None}], l \in [Ids -> Lowers] :
          /\ \A i \in Ids : \/ f[i] = None /\ l[i] = None
                            \/ /\ f[i] # None
                               /\ l[i] \in (IF backfilled THEN {} ELSE {None}) \cup
                                           (IF column THEN {Full(f[i])} ELSE {}) \cup
                                           (IF column /\ ~backfilled THEN {Ascii(f[i])} ELSE {})
          /\ rows = [i \in Ids |-> IF f[i] = None THEN None ELSE [path |-> f[i], lower |-> l[i]]]
      BY DEF Init
  <1>4. ASSUME NEW i \in Live PROVE Filled(i)
    <2>1. i \in Ids /\ rows[i] = [path |-> f[i], lower |-> l[i]] /\ f[i] # None
        BY <1>3, <1>4 DEF Live
    <2>2. /\ l[i] \in {None, Full(f[i]), Ascii(f[i])}
          /\ backfilled => l[i] = Full(f[i])
        BY <1>3, <2>1
    <2>3. \A p \in Processes : batch[p][i] = None /\ pc[p] = "down"
        BY <2>1 DEF Init, NoBatch
    <2> QED
        BY <2>1, <2>2, <2>3 DEF Filled, Settled
  <1> QED
      BY <1>1, <1>2, <1>4 DEF Inv, Filling

-----------------------------------------------------------------------------
(* The theorems.                                                           *)

\* Every step keeps the invariant.
LEMMA StepInv == ASSUME MigrationAssumption, Inv, [Next]_vars PROVE Inv'
  BY StepTypes, StepMarked, StepFilled DEF Inv

\* The invariant of the migration holds in every state.
LEMMA AlwaysInv == ASSUME MigrationAssumption PROVE Spec => []Inv
  <1>1. Init => Inv
      BY InitInv
  <1>2. Inv /\ [Next]_vars => Inv'
      BY StepInv
  <1> QED
      BY <1>1, <1>2, PTL DEF Spec

\* It says that rows are filled in and an opened file is migrated.
LEMMA InvSafe == Inv => Lowered /\ OpenMeansMigrated
  BY DEF Inv, Marked, Filling, Filled, Settled, Lowered, OpenMeansMigrated

\* While a process has the database open, a row changes only with a new revision.
LEMMA StepCounts == ASSUME MigrationAssumption, Inv, [Next]_vars PROVE Counts
  <1> SUFFICES ASSUME NEW o \in Processes, pc[o] = "open"
               PROVE  revision' >= revision /\ (rows' # rows => revision' > revision)
      BY DEF Counts
  <1>1. revised /\ TypeOK /\ TypeOK' /\ revision \in Nat
      BY StepTypes DEF Inv, Marked, TypeOK
  <1>2. ASSUME rows' # rows PROVE \E i \in Ids : rows'[i] # rows[i]
      BY <1>1, <1>2 DEF TypeOK
  <1>3. CASE revision' = Counted(rows')
      BY <1>1, <1>2, <1>3, CountedUp
  <1>4. CASE UNCHANGED <<rows, revision>>
      BY <1>1, <1>4
  <1>5. revision' = Counted(rows') \/ UNCHANGED <<rows, revision>>
      BY <1>1 DEF vars, store, Kept, Next, Open, Alter, Backfill, Read, Update, Mark, Revise,
                  Install, Journal, Triggers, Fail, Upsert, Remove
  <1> QED
      BY <1>3, <1>4, <1>5

\* Through failures and other processes opening at the same time, the opened database
\* is migrated, each filled-in row holds the lower case of its own path, and each
\* change is counted (db.rs, Database::open, backfill_path_lower, init_file_changes).
THEOREM Migrates == ASSUME MigrationAssumption PROVE Spec => MigrationSafe
  <1>1. Inv => Lowered /\ OpenMeansMigrated
      BY InvSafe
  <1>2. Inv /\ [Next]_vars => [Counts]_vars
      BY StepCounts
  <1> QED
      BY <1>1, <1>2, AlwaysInv, PTL DEF Spec, MigrationSafe
=============================================================================
