---------------------------- MODULE PackedProofs ----------------------------
(***************************************************************************)
(* What is proved of ContentJournal for every retention, pruning interval, *)
(* set of paths and number of rows, revisions and files; and of            *)
(* PackedIndex, whose loads and deltas read it, for every number of rows:  *)
(* the binary search finds what a sorted index holds, a load packs exactly *)
(* the rows of the table, and a delta that is not refused turns the        *)
(* contents into the contents with the changes, with counters that stay    *)
(* exact.                                                                  *)
(*                                                                         *)
(* The loops of PackedIndex are recursive functions.  Such a function is   *)
(* one that satisfies its equation, if there is one: Recursion shows that  *)
(* there is.  What the loop does is then proved by refuting the least      *)
(* number of turns after which it would be wrong.                          *)
(***************************************************************************)
EXTENDS PackedIndex, FiniteSetTheorems, WellFoundedInduction, TLAPS

-----------------------------------------------------------------------------
(* The journal.                                                            *)

\* One file d with its history h.  A journal has an entry exactly for the
\* revisions after its floor, and those entries name every row in which an
\* older revision, from the floor on, differs from now.
Ordered(d) == d.since <= d.floor /\ d.floor <= d.revision
Reach(d) == d.floor = d.since \/ d.floor + Retention <= d.revision
Entries(d) == \A r \in Revisions : d.journal[r] # {} <=> d.floor < r /\ r <= d.revision
Named(d, h) ==
    \A b \in d.floor .. d.revision, i \in Ids :
        h[b][i] # d.files[i] => \E r \in b + 1 .. d.revision : i \in d.journal[r]
Covered(d, h) ==
    /\ Ordered(d)
    /\ Reach(d)
    /\ h[d.revision] = d.files
    /\ d.schema = "journal" => Entries(d) /\ Named(d, h)

\* Since the last multiple of the interval nothing was pruned, and then only the
\* retention was kept; without the triggers there is no entry.
Short(d) ==
    IF d.schema = "journal" THEN d.revision <= d.floor + Retention + (d.revision % Interval)
                            ELSE d.journal = EmptyJournal

Typed ==
    /\ ident \in Idents
    /\ dbs \in [Idents -> DbType]
    /\ history \in [Idents -> [0 .. MaxRevision -> Tables]]

DbInv == Typed /\ \A i \in Idents : Covered(dbs[i], history[i]) /\ Short(dbs[i])

\* Numbers and sets of the constants, as the steps below use them.
LEMMA Bounds ==
    /\ MaxId \in Nat /\ MaxRevision \in Nat /\ MaxIdent \in Nat /\ 1 \in Idents
    /\ Interval \in Nat /\ Interval > 0 /\ Retention \in Nat
    /\ \A r \in Revisions : r \in Nat
  BY JournalAssumption DEF Revisions, Idents

-----------------------------------------------------------------------------
(* Numbers.                                                                *)

\* A set of natural numbers that is not empty has a least element: what is claimed of
\* every number is proved by refuting its least counterexample.
LEMMA Least ==
    ASSUME NEW T \in SUBSET Nat, T # {}
    PROVE  \E x \in T : \A y \in T : x <= y
  <1> DEFINE R == {ss \in Nat \X Nat : ss[1] < ss[2]}
  <1>1. IsWellFoundedOn(R, Nat)
      BY NatLessThanWellFounded DEF OpToRel
  <1> HIDE DEF R
  <1>2. PICK x \in T : \A y \in T : ~(<<y, x>> \in R)
      BY <1>1, WFMin
  <1>3. ASSUME NEW y \in T PROVE x <= y
    <2>1. <<y, x>> \notin R
        BY <1>2
    <2>2. <<y, x>> \in Nat \X Nat /\ <<y, x>>[1] = y /\ <<y, x>>[2] = x
        OBVIOUS
    <2>3. ~(y < x)
        BY <2>1, <2>2 DEF R
    <2> QED
        BY <2>3
  <1> QED
      BY <1>3

\* The remainder of the next number.
LEMMA ModStep ==
    ASSUME NEW n \in Nat, NEW k \in Nat, k > 0
    PROVE  /\ n % k \in Nat /\ n % k < k
           /\ (n + 1) % k = 0 \/ (n + 1) % k = (n % k) + 1
  <1> DEFINE q == n \div k
  <1> DEFINE p == (n + 1) \div k
  <1> DEFINE r == n % k
  <1> DEFINE s == (n + 1) % k
  <1>1. q \in Nat /\ r \in Nat /\ r < k /\ n = k * q + r
      OBVIOUS
  <1>2. p \in Nat /\ s \in Nat /\ s < k /\ n + 1 = k * p + s
      OBVIOUS
  <1> HIDE DEF q, p, r, s
  <1>3. CASE p = q
      BY <1>1, <1>2, <1>3 DEF r, s
  <1>4. ASSUME NEW x \in Nat, NEW y \in Nat, x < y PROVE k * x + k <= k * y
    <2>1. k * (x + 1) <= k * y
        BY <1>4
    <2> QED
        BY <2>1
  <1>5. CASE q < p
    <2>1. k * q + k <= k * p
        BY <1>1, <1>2, <1>4, <1>5
    <2> QED
        BY <2>1, <1>1, <1>2 DEF r, s
  <1>6. CASE p < q
    <2>1. k * p + k <= k * q
        BY <1>1, <1>2, <1>4, <1>6
    <2> QED
        BY <2>1, <1>1, <1>2 DEF r, s
  <1> QED
      BY <1>1, <1>2, <1>3, <1>5, <1>6

\* The largest element, when it is known which one it is.
LEMMA MaxIs ==
    ASSUME NEW S \in SUBSET Nat, NEW m \in S, \A x \in S : x <= m
    PROVE  Max(S) = m
  <1> DEFINE P(x) == \A y \in S : x >= y
  <1>1. P(m)
      OBVIOUS
  <1>2. \A x \in S : P(x) => x = m
      OBVIOUS
  <1>3. (CHOOSE x \in S : P(x)) \in S /\ P(CHOOSE x \in S : P(x))
    <2> HIDE DEF P
    <2> QED
        BY <1>1
  <1> QED
      BY <1>2, <1>3 DEF Max

-----------------------------------------------------------------------------
(* The pruning trigger.                                                    *)

\* Pruning keeps the shape, the rows and the revision; it raises the floor to
\* the last entry it removes, and no further than the retention.
LEMMA PruneCovers ==
    ASSUME NEW d \in DbType, NEW h \in [0 .. MaxRevision -> Tables],
           Covered(d, h), d.schema = "journal"
    PROVE  /\ prune(d) \in DbType /\ Covered(prune(d), h)
           /\ prune(d).revision = d.revision /\ prune(d).schema = "journal"
           /\ IF d.revision % Interval = 0 THEN d.revision <= prune(d).floor + Retention
                                           ELSE prune(d).floor = d.floor
  <1> DEFINE old == {r \in Revisions : r + Retention <= d.revision /\ d.journal[r] # {}}
  <1> DEFINE top == Max(old \cup {d.floor})
  <1> DEFINE kept == [r \in Revisions |-> IF r \in old THEN {} ELSE d.journal[r]]
  <1>1. CASE d.revision % Interval # 0
      BY <1>1 DEF prune
  <1>2. CASE ~(d.revision % Interval # 0)
    <2>0. /\ d.revision \in Nat /\ d.floor \in Nat /\ d.since \in Nat
          /\ d.revision <= MaxRevision
          /\ d.journal \in [Revisions -> SUBSET Ids]
        BY Bounds DEF DbType
    <2>1. /\ top \in 0 .. MaxRevision
          /\ d.floor <= top
          /\ top = d.floor \/ (top + Retention = d.revision)
          /\ \A r \in old : r <= top
          /\ d.revision <= top + Retention
      <3>1. CASE d.floor + Retention < d.revision
        <4> DEFINE m == d.revision - Retention
        <4>1. m \in Revisions /\ m \in Nat /\ d.floor < m /\ m <= d.revision
            BY <3>1, <2>0, Bounds DEF Revisions
        <4>2. m \in old
            BY <4>1, <2>0, Bounds DEF Covered, Entries
        <4>3. \A x \in old \cup {d.floor} : x <= m
            BY <4>1, <2>0, Bounds
        <4>4. old \cup {d.floor} \in SUBSET Nat
            BY <2>0, Bounds
        <4>5. top = m
            BY <4>2, <4>3, <4>4, MaxIs
        <4>6. \A r \in old : r <= top
            BY <4>3, <4>5
        <4> HIDE DEF top, old
        <4> QED
            BY <4>1, <4>5, <4>6, <2>0, Bounds
      <3>2. CASE ~(d.floor + Retention < d.revision)
        <4>1. \A x \in old \cup {d.floor} : x <= d.floor
            BY <3>2, <2>0, Bounds
        <4>2. old \cup {d.floor} \in SUBSET Nat
            BY <2>0, Bounds
        <4>3. top = d.floor
            BY <4>1, <4>2, MaxIs
        <4>4. \A r \in old : r <= top
            BY <4>1, <4>3
        <4> HIDE DEF top, old
        <4> QED
            BY <3>2, <4>3, <4>4, <2>0, Bounds DEF Covered, Ordered
      <3> QED
          BY <3>1, <3>2
    <2> HIDE DEF top
    <2>2. prune(d) = [d EXCEPT !.journal = kept, !.floor = top]
        BY <1>2 DEF prune, top, DbType
    <2>3. kept \in [Revisions -> SUBSET Ids]
        BY <2>0
    <2> DEFINE e == [d EXCEPT !.journal = kept, !.floor = top]
    <2>4. /\ e \in DbType
          /\ e.journal = kept /\ e.floor = top /\ e.since = d.since
          /\ e.revision = d.revision /\ e.files = d.files /\ e.schema = d.schema
        BY <2>1, <2>3 DEF DbType
    <2> HIDE DEF e
    <2>5. \A r \in Revisions : top < r => kept[r] = d.journal[r]
        BY <2>0, <2>1, Bounds
    <2>6. \A r \in Revisions : r <= top => kept[r] = {}
        BY <2>0, <2>1, Bounds DEF Covered, Entries
    <2>7. Ordered(e) /\ Reach(e)
        BY <2>0, <2>1, <2>4, Bounds DEF Covered, Ordered, Reach
    <2>8. Entries(e)
      <3> SUFFICES ASSUME NEW r \in Revisions
                   PROVE  kept[r] # {} <=> top < r /\ r <= d.revision
          BY <2>4 DEF Entries
      <3>1. CASE top < r
          BY <3>1, <2>0, <2>1, <2>5, Bounds DEF Covered, Entries
      <3>2. CASE ~(top < r)
          BY <3>2, <2>0, <2>1, <2>6, Bounds
      <3> QED
          BY <3>1, <3>2
    <2>9. Named(e, h)
      <3> SUFFICES ASSUME NEW b \in top .. d.revision, NEW i \in Ids, h[b][i] # d.files[i]
                   PROVE  \E r \in b + 1 .. d.revision : i \in kept[r]
          BY <2>4 DEF Named
      <3>1. b \in d.floor .. d.revision
          BY <2>0, <2>1
      <3>2. PICK r \in b + 1 .. d.revision : i \in d.journal[r]
          BY <3>1 DEF Covered, Named
      <3>3. r \in Revisions /\ top < r
          BY <2>0, <2>1, Bounds DEF Revisions
      <3> QED
          BY <3>2, <3>3, <2>5
    <2>10. prune(d) = e /\ Covered(e, h)
        BY <2>2, <2>4, <2>7, <2>8, <2>9 DEF Covered, e
    <2> QED
        BY <1>2, <2>1, <2>4, <2>10
  <1> QED
      BY <1>1, <1>2
-----------------------------------------------------------------------------
(* A statement.                                                            *)

\* What a statement is to the triggers: its rows differ from the rows before
\* it only at the ids it names or replaces.
Honest(g, f, named, victim) ==
    /\ f \in Tables
    /\ named \in SUBSET Ids /\ named # {} /\ victim \in SUBSET Ids
    /\ \A i \in Ids : f[i] # g[i] => i \in named \cup victim

\* The triggers of a statement extend the cover by one revision.
LEMMA RecordCovers ==
    ASSUME NEW d \in DbType, NEW h \in [0 .. MaxRevision -> Tables], Covered(d, h),
           Short(d), NEW f, NEW named, NEW victim, Honest(d.files, f, named, victim),
           d.revision < MaxRevision,
           NEW e, e = record_change(d, f, named, victim)
    PROVE  /\ e \in DbType
           /\ e.revision \in 0 .. MaxRevision
           /\ [h EXCEPT ![e.revision] = f] \in [0 .. MaxRevision -> Tables]
           /\ Covered(e, [h EXCEPT ![e.revision] = f])
           /\ Short(e)
  <1>0. /\ d.revision \in Nat /\ d.floor \in Nat /\ d.since \in Nat
        /\ d.revision + 1 \in Revisions /\ d.revision + 1 \in 0 .. MaxRevision
        /\ d.revision \in 0 .. MaxRevision
        /\ d.journal \in [Revisions -> SUBSET Ids]
        /\ d.schema \in Schemas
        /\ f \in Tables
      BY Bounds DEF DbType, Revisions, Honest
  <1>1. CASE d.schema = "none"
    <2> DEFINE n == [d EXCEPT !.files = f]
    <2>1. e = n
        BY <1>1 DEF record_change
    <2>2. /\ n \in DbType /\ n.files = f /\ n.revision = d.revision /\ n.floor = d.floor
          /\ n.since = d.since /\ n.schema = "none" /\ n.journal = d.journal
        BY <1>0, <1>1 DEF DbType
    <2> HIDE DEF n
    <2> QED
        BY <1>0, <1>1, <2>1, <2>2 DEF Covered, Ordered, Reach, Short
  <1>2. CASE d.schema = "revision"
    <2> DEFINE n == [d EXCEPT !.files = f, !.revision = @ + 1]
    <2>1. e = n
        BY <1>2 DEF record_change
    <2>2. /\ n \in DbType /\ n.files = f /\ n.revision = d.revision + 1
          /\ n.floor = d.floor /\ n.since = d.since /\ n.schema = "revision" /\ n.journal = d.journal
        BY <1>0, <1>2 DEF DbType
    <2> HIDE DEF n
    <2> QED
        BY <1>0, <1>2, <2>1, <2>2, Bounds DEF Covered, Ordered, Reach, Short
  <1>3. CASE d.schema = "journal"
    <2> DEFINE n == [d EXCEPT !.files = f, !.revision = @ + 1,
                              !.journal[d.revision + 1] = named \cup victim]
    <2> DEFINE k == [h EXCEPT ![d.revision + 1] = f]
    <2>1. e = prune(n)
        BY <1>3 DEF record_change
    <2>2. /\ n \in DbType /\ n.files = f /\ n.revision = d.revision + 1
          /\ n.floor = d.floor /\ n.since = d.since /\ n.schema = "journal"
          /\ n.journal = [d.journal EXCEPT ![d.revision + 1] = named \cup victim]
        BY <1>0, <1>3 DEF DbType, Honest
    <2> HIDE DEF n
    <2>3. k \in [0 .. MaxRevision -> Tables] /\ k[d.revision + 1] = f
        BY <1>0
    <2>4. \A b \in 0 .. d.revision : k[b] = h[b]
        BY <1>0
    <2> HIDE DEF k
    <2>5. Ordered(n) /\ Reach(n)
        BY <1>0, <2>2, Bounds DEF Covered, Ordered, Reach
    <2>6. Entries(n)
      <3>1. d.floor <= d.revision /\ Entries(d)
          BY <1>3 DEF Covered, Ordered
      <3> QED
          BY <1>0, <3>1, <2>2, Bounds DEF Entries, Honest
    <2>7. Named(n, k)
      <3> SUFFICES ASSUME NEW b \in d.floor .. d.revision + 1, NEW i \in Ids, k[b][i] # f[i]
                   PROVE  \E r \in b + 1 .. d.revision + 1 : i \in n.journal[r]
          BY <2>2 DEF Named
      <3>1. b \in d.floor .. d.revision /\ k[b] = h[b]
          BY <1>0, <2>3, <2>4
      <3>2. CASE f[i] # d.files[i]
        <4>1. i \in n.journal[d.revision + 1]
            BY <3>2, <1>0, <2>2 DEF Honest
        <4> QED
            BY <4>1, <3>1, <1>0
      <3>3. CASE f[i] = d.files[i]
        <4>1. PICK r \in b + 1 .. d.revision : i \in d.journal[r]
            BY <3>1, <3>3, <1>3 DEF Covered, Named
        <4>2. r \in Revisions /\ r # d.revision + 1
            BY <1>0, <3>1, Bounds DEF Revisions
        <4> QED
            BY <4>1, <4>2, <2>2, <1>0, <3>1
      <3> QED
          BY <3>2, <3>3
    <2>8. Covered(n, k)
        BY <2>2, <2>3, <2>5, <2>6, <2>7 DEF Covered
    <2>9. e \in DbType /\ Covered(e, k)
        BY <2>1, <2>2, <2>3, <2>8, PruneCovers
    <2>10. /\ e.revision = d.revision + 1 /\ e.schema = "journal"
           /\ IF (d.revision + 1) % Interval = 0 THEN d.revision + 1 <= e.floor + Retention
                                                 ELSE e.floor = d.floor
        BY <2>1, <2>2, <2>3, <2>8, PruneCovers
    <2>11. Short(e)
      <3> DEFINE now == d.revision % Interval
      <3> DEFINE next == (d.revision + 1) % Interval
      <3>1. e.floor \in Nat /\ d.revision <= d.floor + Retention + now
          BY <1>3, <2>9, Bounds DEF Short, DbType
      <3>2. now \in Nat /\ (next = 0 \/ next = now + 1)
          BY <1>0, Bounds, ModStep
      <3>3. IF next = 0 THEN d.revision + 1 <= e.floor + Retention ELSE e.floor = d.floor
          BY <2>10
      <3> SUFFICES d.revision + 1 <= e.floor + Retention + next
          BY <2>10 DEF Short
      <3> HIDE DEF now, next
      <3> QED
          BY <1>0, <3>1, <3>2, <3>3, Bounds
    <2> QED
        BY <2>3, <2>9, <2>10, <2>11, <1>0 DEF k
  <1> QED
      BY <1>0, <1>1, <1>2, <1>3 DEF Schemas

\* A committed statement keeps the invariant.
LEMMA CommitStep ==
    ASSUME DbInv, NEW f, NEW named, NEW victim, Honest(db.files, f, named, victim),
           Commit(f, named, victim)
    PROVE  DbInv'
  <1> DEFINE e == record_change(db, f, named, victim)
  <1>0. db \in DbType /\ history[ident] \in [0 .. MaxRevision -> Tables]
        /\ Covered(db, history[ident]) /\ Short(db) /\ ident \in Idents
      BY DEF DbInv, Typed, db
  <1>1. /\ dbs' = [dbs EXCEPT ![ident] = e] /\ ident' = ident
        /\ history' = [history EXCEPT ![ident] = [@ EXCEPT ![dbs'[ident].revision] = f]]
        /\ db.revision < MaxRevision
      BY DEF Commit, db
  <1> HIDE DEF e
  <1>2. dbs'[ident] = e
      BY <1>0, <1>1 DEF DbInv, Typed
  <1> DEFINE k == [history[ident] EXCEPT ![e.revision] = f]
  <1>3. e \in DbType /\ k \in [0 .. MaxRevision -> Tables] /\ Covered(e, k) /\ Short(e)
      BY <1>0, <1>1, RecordCovers DEF e
  <1> HIDE DEF k
  <1>4. history' = [history EXCEPT ![ident] = k]
      BY <1>1, <1>2 DEF k
  <1> QED
      BY <1>0, <1>1, <1>3, <1>4 DEF DbInv, Typed

-----------------------------------------------------------------------------
(* The writers' statements are honest with the triggers.                   *)

\* files.path is UNIQUE, and every row has a path.
LEMMA TableRow ==
    ASSUME NEW f \in Tables
    PROVE  /\ f \in [Ids -> Row \cup {Absent}]
           /\ \A i \in Ids : f[i] # Absent => f[i] \in Row /\ f[i].path \in Names
           /\ \A i, j \in Ids : i # j /\ f[i] # Absent /\ f[j] # Absent
                                   => f[i].path # f[j].path
  BY DEF Tables, Row

\* A row p, m put at id i, once no other row holds the path p.
LEMMA PutRow ==
    ASSUME NEW g \in Tables, NEW i \in Ids, NEW p \in Names, NEW m \in Metas,
           NEW f \in [Ids -> Row \cup {Absent}], f[i] = [path |-> p, meta |-> m],
           \A j \in Ids \ {i} : f[j] = Absent \/ f[j] = g[j],
           \A j \in Ids \ {i} : f[j] # Absent => f[j].path # p
    PROVE  f \in Tables
  <1> SUFFICES ASSUME NEW j \in Ids, NEW k \in Ids, j # k, f[j] # Absent, f[k] # Absent
               PROVE  f[j].path # f[k].path
      BY DEF Tables
  <1>1. CASE j = i \/ k = i
      BY <1>1
  <1>2. CASE j # i /\ k # i
      BY <1>2, TableRow
  <1> QED
      BY <1>1, <1>2

\* FILE_UPSERT_SQL, the insertion of a row or the update of its metadata.
LEMMA UpsertStep ==
    ASSUME DbInv, NEW p \in Names, NEW m \in Metas, Upsert(p, m)
    PROVE  DbInv'
  <1>0. db.files \in Tables /\ Absent \notin Row
      BY JournalAssumption DEF DbInv, Typed, DbType, db
  <1> DEFINE g == db.files
  <1> HIDE DEF g
  <1>1. ASSUME NEW i \in At(g, p), Commit([g EXCEPT ![i].meta = m], {i}, {})
        PROVE  DbInv'
    <2> DEFINE f == [g EXCEPT ![i] = [g[i] EXCEPT !.meta = m]]
    <2>1. /\ i \in Ids /\ g[i] # Absent /\ g[i] \in Row /\ g[i].path = p
          /\ g \in [Ids -> Row \cup {Absent}]
        BY <1>0, TableRow DEF At, g
    <2>2. [g[i] EXCEPT !.meta = m] = [path |-> p, meta |-> m]
        BY <2>1 DEF Row
    <2>3. f \in [Ids -> Row \cup {Absent}] /\ f[i] = [path |-> p, meta |-> m]
        BY <2>1, <2>2 DEF Row
    <2>4. \A j \in Ids \ {i} : f[j] = g[j] /\ (g[j] # Absent => g[j].path # p)
        BY <1>0, <2>1, TableRow DEF g
    <2>5. f \in Tables
        BY <1>0, <2>1, <2>3, <2>4, PutRow DEF g
    <2>6. Honest(g, f, {i}, {})
        BY <2>1, <2>4, <2>5 DEF Honest
    <2>7. Commit(f, {i}, {})
        BY <1>1
    <2> HIDE DEF f
    <2> QED
        BY <2>6, <2>7, CommitStep DEF g
  <1>2. ASSUME At(g, p) = {}, NEW i \in Ids, NewId(g, i),
               Commit([g EXCEPT ![i] = [path |-> p, meta |-> m]], {i}, {})
        PROVE  DbInv'
    <2> DEFINE f == [g EXCEPT ![i] = [path |-> p, meta |-> m]]
    <2>1. g \in [Ids -> Row \cup {Absent}]
        BY <1>0, TableRow DEF g
    <2>2. f \in [Ids -> Row \cup {Absent}] /\ f[i] = [path |-> p, meta |-> m]
        BY <2>1 DEF Row
    <2>3. \A j \in Ids \ {i} : f[j] = g[j] /\ (g[j] # Absent => g[j].path # p)
        BY <1>2, <2>1 DEF At
    <2>4. f \in Tables
        BY <1>0, <2>2, <2>3, PutRow DEF g
    <2>5. Honest(g, f, {i}, {})
        BY <2>3, <2>4 DEF Honest
    <2>6. Commit(f, {i}, {})
        BY <1>2
    <2> HIDE DEF f
    <2> QED
        BY <2>5, <2>6, CommitStep DEF g
  <1> QED
      BY <1>1, <1>2 DEF Upsert, g

\* OR REPLACE: a row takes the id i and the path p, the other holders of the
\* path go as victims, and a row that changes its id is named itself.
LEMMA ReplaceHonest ==
    ASSUME NEW g \in Tables, NEW i \in Ids, NEW p \in Names, NEW m \in Metas,
           NEW named \in SUBSET Ids, NEW victim \in SUBSET Ids, NEW gone,
           i \in named, gone \subseteq named \cup victim, At(g, p) \subseteq gone,
           NEW f, f = Put(g, i, p, m, gone)
    PROVE  Honest(g, f, named, victim)
  <1>0. f = [j \in Ids |-> IF j = i THEN [path |-> p, meta |-> m]
                           ELSE IF j \in gone THEN Absent ELSE g[j]]
      BY DEF Put
  <1>1. g \in [Ids -> Row \cup {Absent}]
      BY TableRow
  <1>2. f \in [Ids -> Row \cup {Absent}] /\ f[i] = [path |-> p, meta |-> m]
      BY <1>0, <1>1 DEF Row
  <1>3. \A j \in Ids \ {i} : f[j] = Absent \/ f[j] = g[j]
      BY <1>0
  <1>4. \A j \in Ids \ {i} : f[j] # Absent => f[j].path # p
      BY <1>0 DEF At
  <1>5. f \in Tables
      BY <1>2, <1>3, <1>4, PutRow
  <1> QED
      BY <1>0, <1>5 DEF Honest

\* INSERT OR REPLACE at an id and a path that other rows may hold.
LEMMA ReplaceStep ==
    ASSUME DbInv, NEW i \in Ids, NEW p \in Names, NEW m \in Metas, InsertOrReplace(i, p, m)
    PROVE  DbInv'
  <1>0. db.files \in Tables /\ At(db.files, p) \in SUBSET Ids
      BY DEF DbInv, Typed, DbType, db, At
  <1> DEFINE f == Put(db.files, i, p, m, At(db.files, p))
  <1>1. Commit(f, {i}, At(db.files, p))
      BY DEF InsertOrReplace
  <1>2. Honest(db.files, f, {i}, At(db.files, p))
      BY <1>0, ReplaceHonest
  <1> HIDE DEF f
  <1> QED
      BY <1>1, <1>2, CommitStep

\* UPDATE OR REPLACE of an id and a path.
LEMMA MoveStep ==
    ASSUME DbInv, NEW i \in LiveIds(db.files), NEW k \in Ids, NEW p \in Names,
           MoveOrReplace(i, k, p)
    PROVE  DbInv'
  <1> DEFINE victim == At(db.files, p) \ {i}
  <1> DEFINE f == Put(db.files, k, p, db.files[i].meta, victim \cup {i})
  <1>0. db.files \in Tables /\ victim \in SUBSET Ids
      BY DEF DbInv, Typed, DbType, db, At
  <1>1. i \in Ids /\ db.files[i].meta \in Metas
      BY <1>0, TableRow DEF LiveIds, Row
  <1>2. Commit(f, {i, k}, victim)
      BY DEF MoveOrReplace
  <1>3. At(db.files, p) \subseteq victim \cup {i}
      OBVIOUS
  <1> HIDE DEF victim
  <1>4. Honest(db.files, f, {i, k}, victim)
      BY <1>0, <1>1, <1>3, ReplaceHonest
  <1> HIDE DEF f
  <1> QED
      BY <1>2, <1>4, CommitStep

\* DELETE of a row.
LEMMA DeleteStep ==
    ASSUME DbInv, NEW i \in LiveIds(db.files), Delete(i)
    PROVE  DbInv'
  <1>0. db.files \in Tables
      BY DEF DbInv, Typed, DbType, db
  <1> DEFINE f == [db.files EXCEPT ![i] = Absent]
  <1>1. f \in Tables
      BY <1>0 DEF Tables, LiveIds
  <1>2. Honest(db.files, f, {i}, {})
      BY <1>0, <1>1, TableRow DEF Honest, LiveIds
  <1> QED
      BY <1>2, CommitStep DEF Delete

-----------------------------------------------------------------------------
(* Migrations, copies and the theorems.                                    *)

\* init_file_changes installs an empty journal at the present revision.
LEMMA MigrateStep == DbInv /\ Migrate => DbInv'
  <1> SUFFICES ASSUME DbInv, Migrate PROVE DbInv'
      OBVIOUS
  <1> DEFINE e == migrated(db)
  <1>0. /\ db \in DbType /\ ident \in Idents /\ Covered(db, history[ident])
        /\ history[ident] \in [0 .. MaxRevision -> Tables]
      BY DEF DbInv, Typed, db
  <1>1. EmptyJournal \in [Revisions -> SUBSET Ids] /\ \A r \in Revisions : EmptyJournal[r] = {}
      BY DEF EmptyJournal
  <1>2. /\ e \in DbType /\ e.revision = db.revision /\ e.floor = db.revision
        /\ e.since = db.revision /\ e.files = db.files /\ e.journal = EmptyJournal
        /\ e.schema = "journal"
      BY <1>0, <1>1 DEF migrated, DbType, Schemas
  <1> HIDE DEF e
  <1>3. db.revision \in Nat /\ history[ident][db.revision] = db.files
      BY <1>0, Bounds DEF DbType, Covered
  <1>4. Ordered(e) /\ Reach(e) /\ Entries(e)
      BY <1>1, <1>2, <1>3, Bounds DEF Ordered, Reach, Entries
  <1>5. Named(e, history[ident])
      BY <1>2, <1>3 DEF Named
  <1>6. Covered(e, history[ident]) /\ Short(e)
    <2>1. db.revision % Interval \in Nat
        BY <1>3, Bounds, ModStep
    <2> QED
        BY <1>2, <1>3, <1>4, <1>5, <2>1, Bounds DEF Covered, Short
  <1>7. dbs' = [dbs EXCEPT ![ident] = e] /\ ident' = ident /\ history' = history
      BY DEF Migrate, e, db
  <1> QED
      BY <1>0, <1>2, <1>6, <1>7 DEF DbInv, Typed

\* A file at revision 0 covers itself, whatever its schema.
LEMMA FreshCovers ==
    ASSUME NEW f \in Tables, NEW s \in Schemas,
           NEW d, d = [schema |-> s, files |-> f, revision |-> 0, journal |-> EmptyJournal,
                       floor |-> 0, since |-> 0],
           NEW h, h = [r \in 0 .. MaxRevision |-> f]
    PROVE  d \in DbType /\ h \in [0 .. MaxRevision -> Tables] /\ Covered(d, h) /\ Short(d)
  <1>1. EmptyJournal \in [Revisions -> SUBSET Ids] /\ \A r \in Revisions : EmptyJournal[r] = {}
      BY DEF EmptyJournal
  <1>2. 0 \in 0 .. MaxRevision
      BY Bounds
  <1>3. d \in DbType /\ h \in [0 .. MaxRevision -> Tables] /\ h[0] = f
      BY <1>1, <1>2 DEF DbType
  <1>4. Ordered(d) /\ Reach(d) /\ Entries(d)
      BY <1>1, Bounds DEF Ordered, Reach, Entries
  <1>5. Named(d, h)
      BY <1>3 DEF Named
  <1>6. Short(d)
    <2>1. 0 % Interval \in Nat
        BY Bounds, ModStep
    <2> QED
        BY <2>1, Bounds DEF Short
  <1> QED
      BY <1>3, <1>4, <1>5, <1>6 DEF Covered

\* A compact copy keeps the cover of its original, an older copy starts anew.
LEMMA InstallStep == DbInv /\ Install => DbInv'
  <1> SUFFICES ASSUME DbInv, Install PROVE DbInv'
      OBVIOUS
  <1>0. /\ db \in DbType /\ ident \in Idents /\ ident + 1 \in Idents /\ ident' = ident + 1
        /\ Covered(db, history[ident]) /\ Short(db) /\ history[ident] \in [0 .. MaxRevision -> Tables]
      BY Bounds DEF DbInv, Typed, db, Install, Idents
  <1> DEFINE k(d) == [r \in 0 .. MaxRevision |-> IF d = db THEN history[ident][r] ELSE d.files]
  <1>1. PICK d \in {db} \cup {Backup(ident, s) : s \in Schemas} :
            /\ dbs' = [dbs EXCEPT ![ident + 1] = d]
            /\ history' = [history EXCEPT ![ident + 1] = k(d)]
      BY DEF Install
  <1>2. d \in DbType /\ k(d) \in [0 .. MaxRevision -> Tables] /\ Covered(d, k(d)) /\ Short(d)
    <2>1. CASE d = db
      <3>1. k(d) = history[ident]
          BY <1>0, <2>1
      <3> QED
          BY <1>0, <2>1, <3>1
    <2>2. CASE d # db
      <3>1. PICK s \in Schemas : d = Backup(ident, s)
          BY <1>1, <2>2
      <3>2. history[ident][0] \in Tables
          BY <1>0, Bounds
      <3>3. k(d) = [r \in 0 .. MaxRevision |-> history[ident][0]]
          BY <2>2, <3>1 DEF Backup
      <3> HIDE DEF k
      <3> QED
          BY <3>1, <3>2, <3>3, FreshCovers DEF Backup
    <2> QED
        BY <2>1, <2>2
  <1> HIDE DEF k
  <1> QED
      BY <1>0, <1>1, <1>2 DEF DbInv, Typed

\* The invariant holds at first.
LEMMA InitCovers == DbInit => DbInv
  <1> SUFFICES ASSUME DbInit PROVE DbInv
      OBVIOUS
  <1>1. PICK f \in Tables, s \in Schemas :
          /\ dbs = [i \in Idents |-> [schema |-> s, files |-> f, revision |-> 0,
                                      journal |-> EmptyJournal, floor |-> 0, since |-> 0]]
          /\ history = [i \in Idents |-> [r \in 0 .. MaxRevision |-> f]]
      BY DEF DbInit
  <1>2. ident \in Idents
      BY Bounds DEF DbInit
  <1> QED
      BY <1>1, <1>2, FreshCovers DEF DbInv, Typed

\* Every step of the database keeps it.
LEMMA NextCovers == DbInv /\ [DbNext]_dbvars => DbInv'
  <1> SUFFICES ASSUME DbInv, [DbNext]_dbvars PROVE DbInv'
      OBVIOUS
  <1>1. CASE Write
      BY <1>1, UpsertStep, ReplaceStep, MoveStep, DeleteStep DEF Write
  <1>2. CASE Migrate
      BY <1>2, MigrateStep
  <1>3. CASE Install
      BY <1>3, InstallStep
  <1>4. CASE UNCHANGED dbvars
      BY <1>4 DEF dbvars, DbInv, Typed
  <1> QED
      BY <1>1, <1>2, <1>3, <1>4 DEF DbNext

\* What the invariant says of a database, over all behaviours.
LEMMA AlwaysCovered == DbSpec => []DbInv
  BY InitCovers, NextCovers, PTL DEF DbSpec

\* The journal, its floor and the history keep their shape for every retention
\* and interval; the floor never passes the revision.
THEOREM JournalTypeCorrect == DbSpec => []DbTypeOK
  <1>1. DbInv => DbTypeOK
      BY DEF DbInv, Typed, DbTypeOK, Covered, Ordered
  <1> QED
      BY <1>1, AlwaysCovered, PTL

\* file_changes_since answers.
Answered(i, base) == Refusal(i, base, FALSE) = ""

\* An answer of file_changes_since on any file, for a base the reader really had.
LEMMA AnswerComplete ==
    ASSUME DbInv, NEW i \in Idents, NEW base, base.revision \in Nat,
           Answered(i, base)
    PROVE  /\ base.file = i /\ base.revision <= dbs[i].revision
           /\ Patch(history[i][base.revision], Changes(i, base)) = dbs[i].files
           /\ DOMAIN Changes(i, base) \subseteq Ids
           /\ \A j \in DOMAIN Changes(i, base) : Changes(i, base)[j] = dbs[i].files[j]
  <1>a. dbs[i] \in DbType
      BY DEF DbInv, Typed
  <1>0. PICK d \in DbType : d = dbs[i]
      BY <1>a
  <1>b. PICK b \in Nat : b = base.revision
      OBVIOUS
  <1>1. /\ Covered(d, history[i])
        /\ history[i] \in [0 .. MaxRevision -> Tables]
      BY <1>0 DEF DbInv, Typed
  <1>2. /\ d.revision \in Nat /\ d.floor \in Nat /\ d.files \in Tables
        /\ d.revision <= MaxRevision /\ d.journal \in [Revisions -> SUBSET Ids]
      BY Bounds DEF DbType
  <1>3. /\ base.file = i /\ b <= d.revision /\ d.schema = "journal"
        /\ b = d.revision \/ d.floor <= b
    <2>1. base.file = i
      <3>1. base.file # i => Refusal(i, base, FALSE) = "database_replaced"
          BY DEF Refusal
      <3> QED
          BY <3>1 DEF Answered
    <2>2. ~(b > d.revision)
        BY <2>1, <1>0, <1>b DEF Answered, Refusal
    <2>3. d.schema = "journal"
      <3>1. d.schema # "journal" => Refusal(i, base, FALSE) = "journal_unavailable"
          BY <2>1, <2>2, <1>0, <1>b DEF Refusal
      <3> QED
          BY <3>1 DEF Answered
    <2>4. b # d.revision => ~(b < d.floor)
        BY <2>1, <2>2, <2>3, <1>0, <1>b DEF Answered, Refusal
    <2> QED
        BY <2>1, <2>2, <2>3, <2>4, <1>2
  <1>4. Changes(i, base) = [j \in ChangedIds(d, b) |-> d.files[j]]
      BY <1>0, <1>b DEF Changes
  <1>5. ChangedIds(d, b) \subseteq Ids
    <2>1. \A r \in b + 1 .. d.revision : r \in Revisions
        BY <1>2, Bounds DEF Revisions
    <2>2. \A r \in b + 1 .. d.revision : d.journal[r] \in SUBSET Ids
        BY <1>2, <2>1
    <2> QED
        BY <2>2 DEF ChangedIds
  <1>6. ASSUME NEW j \in Ids, j \notin ChangedIds(d, b)
        PROVE  history[i][b][j] = d.files[j]
    <2>1. CASE b = d.revision
        BY <1>1, <2>1 DEF Covered
    <2>2. CASE d.floor <= b
      <3>1. b \in d.floor .. d.revision
          BY <1>2, <1>3, <2>2
      <3>2. Named(d, history[i])
          BY <1>1, <1>3 DEF Covered
      <3>3. \A r \in b + 1 .. d.revision : j \notin d.journal[r]
          BY <1>6 DEF ChangedIds
      <3> QED
          BY <3>1, <3>2, <3>3 DEF Named
    <2> QED
        BY <1>3, <2>1, <2>2
  <1>7. Patch(history[i][b], Changes(i, base)) = [j \in Ids |-> d.files[j]]
      BY <1>4, <1>6 DEF Patch
  <1>8. d.files = [j \in Ids |-> d.files[j]]
      BY <1>2, TableRow
  <1>9. \A j \in DOMAIN Changes(i, base) : Changes(i, base)[j] = d.files[j]
      BY <1>4
  <1> QED
      BY <1>0, <1>b, <1>3, <1>4, <1>5, <1>7, <1>8, <1>9

\* A reader that file_changes_since answers has every change since its base,
\* whatever was replaced, pruned, migrated or copied in between.
THEOREM JournalIsComplete == DbSpec => []JournalComplete
  <1>1. DbInv => JournalComplete
    <2> DEFINE base(b) == [file |-> ident, revision |-> b]
    <2> SUFFICES ASSUME DbInv, NEW b \in 0 .. db.revision, Answered(ident, base(b))
                 PROVE  Patch(history[ident][b], Changes(ident, base(b))) = db.files
        BY DEF JournalComplete, Answered
    <2>1. ident \in Idents /\ db.revision \in Nat
        BY Bounds DEF DbInv, Typed, db, DbType
    <2>2. base(b).revision = b /\ b \in Nat
        BY <2>1
    <2> HIDE DEF base
    <2>3. Patch(history[ident][base(b).revision], Changes(ident, base(b))) = dbs[ident].files
        BY <2>1, <2>2, AnswerComplete
    <2> QED
        BY <2>2, <2>3 DEF db
  <1> QED
      BY <1>1, AlwaysCovered, PTL

\* Pruning never takes from a reader within the retention what it still needs.
THEOREM JournalIsRetained == DbSpec => []JournalRetained
  <1>1. DbInv => JournalRetained
    <2> SUFFICES ASSUME DbInv, db.schema = "journal", NEW b \in db.since .. db.revision,
                        b + Retention >= db.revision
                 PROVE  ~HistoryGap(db, b)
        BY DEF JournalRetained
    <2>0. /\ db.revision \in 0 .. MaxRevision /\ db.floor \in Nat /\ db.since \in Nat
          /\ b \in Nat /\ Covered(db, history[ident])
        BY Bounds DEF DbInv, Typed, db, DbType
    <2>1. db.floor <= b
        BY <2>0, Bounds DEF Covered, Reach
    <2>2. ASSUME NEW r \in b + 1 .. db.revision PROVE db.journal[r] # {}
      <3>1. r \in Revisions /\ db.floor < r /\ r <= db.revision
          BY <2>0, <2>1, Bounds DEF Revisions
      <3> QED
          BY <2>0, <3>1 DEF Covered, Entries
    <2> QED
        BY <2>0, <2>1, <2>2 DEF HistoryGap
  <1> QED
      BY <1>1, AlwaysCovered, PTL

\* Between two prunings the journal grows by less than an interval, whatever the
\* interval and the retention are.
THEOREM JournalStaysBounded == DbSpec => []JournalBounded
  <1>1. DbInv => JournalBounded
    <2> DEFINE entries == {r \in Revisions : db.journal[r] # {}}
    <2> SUFFICES ASSUME DbInv PROVE Cardinality(entries) < Retention + Interval
        BY DEF JournalBounded
    <2>0. /\ db.revision \in 0 .. MaxRevision /\ db.floor \in Nat /\ db.revision \in Nat
          /\ Covered(db, history[ident]) /\ Short(db)
        BY Bounds DEF DbInv, Typed, db, DbType
    <2>1. CASE db.schema = "journal"
      <3>1. entries = db.floor + 1 .. db.revision
          BY <2>0, <2>1, Bounds DEF Covered, Entries, Revisions
      <3>2. Cardinality(entries) = IF db.floor + 1 > db.revision THEN 0
                                   ELSE db.revision - (db.floor + 1) + 1
        <4>1. db.floor + 1 \in Int /\ db.revision \in Int
            BY <2>0
        <4> HIDE DEF entries
        <4> QED
            BY <3>1, <4>1, FS_Interval
      <3>3. db.revision % Interval \in Nat /\ db.revision % Interval < Interval
          BY <2>0, Bounds, ModStep
      <3>4. db.revision <= db.floor + Retention + (db.revision % Interval)
          BY <2>0, <2>1 DEF Short
      <3> HIDE DEF entries
      <3> QED
          BY <2>0, <3>2, <3>3, <3>4, Bounds
    <2>2. CASE db.schema # "journal"
      <3>1. entries = {}
          BY <2>0, <2>2 DEF Short, EmptyJournal
      <3> QED
          BY <3>1, FS_EmptySet, Bounds
    <2> QED
        BY <2>1, <2>2
  <1> QED
      BY <1>1, AlwaysCovered, PTL

-----------------------------------------------------------------------------
(* The packed index.                                                       *)

Slot == [id : Ids, row : Row, live : BOOLEAN]
IndexType == [slots : Seq(Slot), ids_sorted : BOOLEAN, len : Int, dead_records : Int,
              dead_strings : Int, strings : Int]

\* What the type says of the slots.
LEMMA SlotsType ==
    ASSUME NEW ix \in IndexType
    PROVE  /\ ix.slots \in Seq(Slot) /\ Len(ix.slots) \in Nat
           /\ DOMAIN ix.slots = 1 .. Len(ix.slots)
           /\ \A s \in DOMAIN ix.slots : /\ ix.slots[s] \in Slot
                                         /\ ix.slots[s].id \in Ids /\ ix.slots[s].id \in Nat
                                         /\ ix.slots[s].row \in Row
  <1> DEFINE q == ix.slots
  <1>1. q \in Seq(Slot)
      BY DEF IndexType
  <1> HIDE DEF q
  <1>2. Len(q) \in Nat /\ DOMAIN q = 1 .. Len(q) /\ \A s \in DOMAIN q : q[s] \in Slot
      BY <1>1
  <1>3. \A x \in Slot : x.id \in Ids /\ x.id \in Nat /\ x.row \in Row
      BY Bounds DEF Slot, Ids
  <1> QED
      BY <1>1, <1>2, <1>3 DEF q

\* Turn n of a loop makes step[n][x] of x; g holds what it has made after each turn.
Turns(N, S, step) == \A n \in 1 .. N, x \in S : step[n][x] \in S
Loop(N, S, base, step, g) ==
    /\ g \in [0 .. N -> S]
    /\ g[0] = base
    /\ \A n \in 1 .. N : g[n] = step[n][g[n - 1]]

\* Every loop over the numbers up to N can be run.
LEMMA Recursion ==
    ASSUME NEW N \in Nat, NEW S, NEW base \in S, NEW step, Turns(N, S, step)
    PROVE  \E g : Loop(N, S, base, step, g)
  <1> DEFINE Good(k, g) == Loop(k, S, base, step, g)
  <1> DEFINE T == {k \in 0 .. N : ~\E g : Good(k, g)}
  <1> SUFFICES T = {}
    <2>1. N \in 0 .. N
        OBVIOUS
    <2>2. \E g : Good(N, g)
        BY <2>1
    <2> QED
        BY <2>2
  <1> USE DEF Turns, Loop
  <1>1. T \in SUBSET Nat
      OBVIOUS
  <1> HIDE DEF T
  <1> SUFFICES ASSUME T # {} PROVE FALSE
      OBVIOUS
  <1>2. PICK k \in T : \A y \in T : k <= y
      BY <1>1, Least
  <1>3. k \in 0 .. N /\ ~\E g : Good(k, g)
      BY DEF T
  <1>4. CASE k = 0
    <2>1. Good(0, [x \in 0 .. 0 |-> base])
        OBVIOUS
    <2> HIDE DEF Good
    <2> QED
        BY <1>3, <1>4, <2>1
  <1>5. CASE k # 0
    <2>1. k - 1 \in 0 .. N /\ k - 1 \notin T /\ k \in 1 .. N
        BY <1>2, <1>3, <1>5
    <2>2. PICK g : Good(k - 1, g)
        BY <2>1 DEF T
    <2> DEFINE h == [n \in 0 .. k |-> IF n = k THEN step[k][g[k - 1]] ELSE g[n]]
    <2>3. g[k - 1] \in S
        BY <1>3, <2>1, <2>2
    <2>4. step[k][g[k - 1]] \in S
        BY <2>1, <2>3
    <2>5. h \in [0 .. k -> S] /\ h[0] = base
        BY <1>3, <1>5, <2>1, <2>2, <2>4
    <2>6. ASSUME NEW n \in 1 .. k PROVE h[n] = step[n][h[n - 1]]
      <3>1. CASE n = k
        <4>1. h[n - 1] = g[k - 1] /\ h[n] = step[k][g[k - 1]]
            BY <1>3, <1>5, <3>1
        <4> QED
            BY <3>1, <4>1
      <3>2. CASE n # k
        <4>1. n \in 1 .. k - 1 /\ h[n] = g[n] /\ h[n - 1] = g[n - 1]
            BY <1>3, <1>5, <3>2
        <4> HIDE DEF h
        <4> QED
            BY <2>2, <4>1
      <3> QED
          BY <3>1, <3>2
    <2>7. Good(k, h)
      <3> HIDE DEF h
      <3> QED
          BY <2>5, <2>6
    <2> HIDE DEF Good, h
    <2> QED
        BY <1>3, <2>7
  <1> QED
      BY <1>4, <1>5

-----------------------------------------------------------------------------
(* Append, and the load.                                                   *)

\* What append does, field by field.
LEMMA AppendIs ==
    ASSUME NEW ix \in IndexType, NEW i \in Ids, NEW row \in Row,
           NEW e, e = Append1(ix, i, row)
    PROVE  /\ e \in IndexType
           /\ e.slots = Append(ix.slots, [id |-> i, row |-> row, live |-> TRUE])
           /\ e.ids_sorted <=> ix.ids_sorted /\ (ix.slots = <<>> \/ Last(ix.slots).id < i)
           /\ e.len = ix.len + 1 /\ e.strings = ix.strings + 1
           /\ e.dead_records = ix.dead_records /\ e.dead_strings = ix.dead_strings
  <1> DEFINE fits == ix.slots = <<>> \/ Last(ix.slots).id < i
  <1> DEFINE sorted == ix.ids_sorted /\ fits
  <1> DEFINE slot == [id |-> i, row |-> row, live |-> TRUE]
  <1>1. slot \in Slot /\ ix.slots \in Seq(Slot) /\ ix.ids_sorted \in BOOLEAN
        /\ ix.len \in Int /\ ix.strings \in Int
      BY DEF Slot, IndexType
  <1>2. sorted \in BOOLEAN
      OBVIOUS
  <1>3. Append(ix.slots, slot) \in Seq(Slot)
      BY <1>1
  <1>4. e = [ix EXCEPT !.ids_sorted = sorted, !.slots = Append(ix.slots, slot),
                       !.len = ix.len + 1, !.strings = ix.strings + 1]
      BY DEF Append1
  <1> HIDE DEF sorted, slot
  <1>5. e.ids_sorted = sorted
      BY <1>4 DEF IndexType
  <1>6. /\ e.slots = Append(ix.slots, slot) /\ e.len = ix.len + 1
        /\ e.strings = ix.strings + 1
        /\ e.dead_records = ix.dead_records /\ e.dead_strings = ix.dead_strings
      BY <1>4 DEF IndexType
  <1>7. e \in IndexType
    <2>1. /\ e = [slots |-> e.slots, ids_sorted |-> e.ids_sorted, len |-> e.len,
                 dead_records |-> e.dead_records, dead_strings |-> e.dead_strings,
                 strings |-> e.strings]
          /\ ix.dead_records \in Int /\ ix.dead_strings \in Int
        BY <1>4 DEF IndexType
    <2> QED
        BY <1>1, <1>2, <1>3, <1>5, <1>6, <2>1 DEF IndexType
  <1> QED
      BY <1>5, <1>6, <1>7 DEF sorted, slot

\* The empty index has no slot.
LEMMA EmptyIs ==
    /\ EmptyIndex \in IndexType
    /\ EmptyIndex.slots = <<>> /\ EmptyIndex.ids_sorted = TRUE /\ EmptyIndex.len = 0
    /\ EmptyIndex.dead_records = 0 /\ EmptyIndex.dead_strings = 0 /\ EmptyIndex.strings = 0
  BY DEF EmptyIndex, IndexType

\* The equation of the load has a solution, and load takes it.
LEMMA LoadLoop ==
    ASSUME NEW f \in Tables
    PROVE  \E b :
              /\ load(f) = b[MaxId]
              /\ b[0] = EmptyIndex
              /\ \A n \in 1 .. MaxId :
                    b[n] = IF f[n] = Absent THEN b[n - 1] ELSE Append1(b[n - 1], n, f[n])
  <1> DEFINE turn(x, n) == IF f[n] = Absent THEN x ELSE Append1(x, n, f[n])
  <1> DEFINE step == [n \in 1 .. MaxId |-> [x \in IndexType |-> turn(x, n)]]
  <1> DEFINE Eq(b) == b = [n \in 0 .. MaxId |-> IF n = 0 THEN EmptyIndex ELSE turn(b[n - 1], n)]
  <1>0. ASSUME NEW n \in 1 .. MaxId, NEW x \in IndexType PROVE turn(x, n) \in IndexType
      BY AppendIs, TableRow DEF Ids
  <1>a. load(f) = (CHOOSE b : Eq(b))[MaxId]
      BY DEF load
  <1> HIDE DEF turn
  <1>1. Turns(MaxId, IndexType, step)
      BY <1>0 DEF Turns
  <1>2. \A n \in 1 .. MaxId, x \in IndexType : step[n][x] = turn(x, n)
      OBVIOUS
  <1> HIDE DEF step
  <1>3. PICK g : Loop(MaxId, IndexType, EmptyIndex, step, g)
    <2>1. MaxId \in Nat /\ EmptyIndex \in IndexType
        BY EmptyIs, Bounds
    <2> QED
        BY <1>1, <2>1, Recursion
  <1>4. Eq(g)
    <2>1. ASSUME NEW n \in 0 .. MaxId, n # 0 PROVE g[n] = turn(g[n - 1], n)
      <3>1. n \in 1 .. MaxId /\ n - 1 \in 0 .. MaxId
          BY <2>1, Bounds
      <3>2. g[n - 1] \in IndexType /\ g[n] = step[n][g[n - 1]]
          BY <1>3, <3>1 DEF Loop
      <3> QED
          BY <1>2, <3>1, <3>2
    <2> QED
        BY <1>3, <2>1 DEF Loop
  <1> DEFINE b == CHOOSE b : Eq(b)
  <1>5. Eq(b)
    <2> HIDE DEF Eq
    <2> QED
        BY <1>4
  <1>6. load(f) = b[MaxId]
      BY <1>a
  <1> HIDE DEF b
  <1>7. b[0] = EmptyIndex /\ \A n \in 1 .. MaxId : b[n] = turn(b[n - 1], n)
      BY <1>5, Bounds
  <1> QED
      BY <1>6, <1>7 DEF turn

-----------------------------------------------------------------------------
(* The binary search.                                                      *)

Sorted(q) == \A s, t \in DOMAIN q : s < t => q[s].id < q[t].id

\* The slot of id i between two positions of a sorted index, or 0.
Between(q, i, lo, hi, s) ==
    \/ s = 0 /\ \A t \in lo + 1 .. hi : q[t].id # i
    \/ s \in lo + 1 .. hi /\ q[s].id = i

\* find_id returns the slot of an id when the slots are sorted, and None only when
\* there is none.
THEOREM FindIdIsExact ==
    ASSUME NEW ix \in IndexType, Sorted(ix.slots), NEW i \in Ids
    PROVE  \/ find_id(ix, i) = 0 /\ \A t \in DOMAIN ix.slots : ix.slots[t].id # i
           \/ find_id(ix, i) \in DOMAIN ix.slots /\ ix.slots[find_id(ix, i)].id = i
  <1> DEFINE q == ix.slots
  <1> DEFINE n == Len(q)
  <1> DEFINE D == (0 .. n) \X (0 .. n)
  <1> DEFINE mid(lo, hi) == lo + ((hi - lo) \div 2)
  <1> DEFINE body(g, lo, hi) ==
                IF lo >= hi THEN 0
                ELSE IF q[mid(lo, hi) + 1].id < i THEN g[<<mid(lo, hi) + 1, hi>>]
                ELSE IF q[mid(lo, hi) + 1].id > i THEN g[<<lo, mid(lo, hi)>>]
                ELSE mid(lo, hi) + 1
  <1> DEFINE Eq(g) == g = [r \in D |-> body(g, r[1], r[2])]
  <1> DEFINE find == CHOOSE g : Eq(g)
  <1>1. find_id(ix, i) = find[<<0, n>>]
      BY DEF find_id
  <1>2. /\ q \in Seq(Slot) /\ n \in Nat /\ DOMAIN q = 1 .. n /\ i \in Nat
        /\ \A s \in 1 .. n : q[s].id \in Nat
        /\ \A s, t \in 1 .. n : s < t => q[s].id < q[t].id
    <2>1. q \in Seq(Slot) /\ Sorted(q)
        BY DEF IndexType
    <2>2. i \in Nat /\ \A x \in Slot : x.id \in Nat
        BY Bounds DEF Slot, Ids
    <2> HIDE DEF q
    <2>3. n \in Nat /\ DOMAIN q = 1 .. n /\ \A s \in 1 .. n : q[s] \in Slot
        BY <2>1
    <2> QED
        BY <2>1, <2>2, <2>3 DEF Sorted
  <1> HIDE DEF q, n
  <1>3. ASSUME NEW lo \in 0 .. n, NEW hi \in 0 .. n, lo < hi
        PROVE  mid(lo, hi) \in 0 .. n /\ lo <= mid(lo, hi) /\ mid(lo, hi) < hi
               /\ mid(lo, hi) + 1 \in 1 .. n
      BY <1>2, <1>3
  <1> HIDE DEF mid
  <1>4. ASSUME NEW lo \in 0 .. n, NEW hi \in 0 .. n, lo < hi, NEW s
        PROVE  /\ q[mid(lo, hi) + 1].id < i /\ Between(q, i, mid(lo, hi) + 1, hi, s)
                    => Between(q, i, lo, hi, s)
               /\ q[mid(lo, hi) + 1].id > i /\ Between(q, i, lo, mid(lo, hi), s)
                    => Between(q, i, lo, hi, s)
               /\ q[mid(lo, hi) + 1].id = i => Between(q, i, lo, hi, mid(lo, hi) + 1)
    <2>1. mid(lo, hi) \in Nat /\ lo <= mid(lo, hi) /\ mid(lo, hi) < hi
          /\ mid(lo, hi) + 1 \in 1 .. n
        BY <1>2, <1>3, <1>4
    <2> DEFINE m == mid(lo, hi)
    <2> HIDE DEF m
    <2>2. m \in Nat /\ lo <= m /\ m < hi /\ m + 1 \in 1 .. n
        BY <2>1 DEF m
    <2>3. ASSUME q[m + 1].id < i, Between(q, i, m + 1, hi, s) PROVE Between(q, i, lo, hi, s)
      <3>1. ASSUME NEW t \in lo + 1 .. m + 1 PROVE q[t].id # i
          BY <1>2, <2>2, <2>3
      <3> QED
          BY <1>2, <2>2, <2>3, <3>1 DEF Between
    <2>4. ASSUME q[m + 1].id > i, Between(q, i, lo, m, s) PROVE Between(q, i, lo, hi, s)
      <3>1. ASSUME NEW t \in m + 1 .. hi PROVE q[t].id # i
          BY <1>2, <2>2, <2>4
      <3> QED
          BY <1>2, <2>2, <2>4, <3>1 DEF Between
    <2>5. q[m + 1].id = i => Between(q, i, lo, hi, m + 1)
        BY <1>2, <2>2 DEF Between
    <2> QED
        BY <2>3, <2>4, <2>5 DEF m
  \* Its equation has a solution, the slot itself.
  <1> DEFINE at(lo, hi) == CHOOSE s : Between(q, i, lo, hi, s)
  <1>5. ASSUME NEW lo \in 0 .. n, NEW hi \in 0 .. n
        PROVE  /\ Between(q, i, lo, hi, at(lo, hi))
               /\ \A s, t : Between(q, i, lo, hi, s) /\ Between(q, i, lo, hi, t) => s = t
    <2>1. \E s : Between(q, i, lo, hi, s)
        BY DEF Between
    <2>2. Between(q, i, lo, hi, at(lo, hi))
        BY <2>1
    <2>3. ASSUME NEW s \in lo + 1 .. hi, NEW t \in lo + 1 .. hi, q[s].id = i, q[t].id = i
          PROVE  s = t
        BY <1>2, <2>3
    <2>4. \A s, t : Between(q, i, lo, hi, s) /\ Between(q, i, lo, hi, t) => s = t
        BY <2>3 DEF Between
    <2> QED
        BY <2>2, <2>4
  <1> HIDE DEF at
  <1> DEFINE w == [r \in D |-> at(r[1], r[2])]
  <1>6. ASSUME NEW lo \in 0 .. n, NEW hi \in 0 .. n PROVE w[<<lo, hi>>] = at(lo, hi)
      OBVIOUS
  <1> HIDE DEF w
  <1>7. ASSUME NEW lo \in 0 .. n, NEW hi \in 0 .. n PROVE at(lo, hi) = body(w, lo, hi)
    <2>1. CASE lo >= hi
      <3>1. Between(q, i, lo, hi, 0)
          BY <1>2, <2>1 DEF Between
      <3> QED
          BY <1>5, <2>1, <3>1
    <2>2. CASE lo < hi
      <3>1. mid(lo, hi) \in 0 .. n /\ mid(lo, hi) + 1 \in 0 .. n /\ mid(lo, hi) + 1 \in 1 .. n
            /\ q[mid(lo, hi) + 1].id \in Nat
        <4>1. mid(lo, hi) \in 0 .. n /\ mid(lo, hi) + 1 \in 1 .. n
            BY <1>3, <2>2
        <4> QED
            BY <1>2, <4>1
      <3>2. /\ w[<<mid(lo, hi) + 1, hi>>] = at(mid(lo, hi) + 1, hi)
            /\ w[<<lo, mid(lo, hi)>>] = at(lo, mid(lo, hi))
          BY <1>6, <3>1
      <3>3. /\ Between(q, i, mid(lo, hi) + 1, hi, at(mid(lo, hi) + 1, hi))
            /\ Between(q, i, lo, mid(lo, hi), at(lo, mid(lo, hi)))
          BY <1>5, <3>1
      <3>4. Between(q, i, lo, hi, body(w, lo, hi))
          BY <1>2, <1>4, <2>2, <3>1, <3>2, <3>3
      <3> HIDE DEF body
      <3> QED
          BY <1>5, <3>4
    <2> QED
        BY <1>2, <2>1, <2>2
  <1>8. Eq(w)
    <2> HIDE DEF body
    <2>1. ASSUME NEW r \in D PROVE at(r[1], r[2]) = body(w, r[1], r[2])
        BY <1>7
    <2> QED
        BY <2>1 DEF w
  <1>9. Eq(find)
    <2> HIDE DEF Eq
    <2> QED
        BY <1>8
  <1> HIDE DEF find
  <1>10. ASSUME NEW lo \in 0 .. n, NEW hi \in 0 .. n
         PROVE  find[<<lo, hi>>] = body(find, lo, hi)
    <2> HIDE DEF body
    <2>1. <<lo, hi>> \in D /\ <<lo, hi>>[1] = lo /\ <<lo, hi>>[2] = hi
        OBVIOUS
    <2> HIDE DEF D
    <2> QED
        BY <1>9, <2>1
  \* What it finds is right, by the least width at which it would not be.
  <1> DEFINE Right(lo, hi) == Between(q, i, lo, hi, find[<<lo, hi>>])
  <1> DEFINE T == {k \in Nat : \E lo, hi \in 0 .. n : lo + k = hi /\ ~Right(lo, hi)}
  <1>11. T = {}
    <2>1. T \in SUBSET Nat
        OBVIOUS
    <2> SUFFICES ASSUME NEW k \in T, \A y \in T : k <= y PROVE FALSE
      <3> HIDE DEF T
      <3> QED
          BY <2>1, Least
    <2>2. PICK lo \in 0 .. n, hi \in 0 .. n : lo + k = hi /\ ~Right(lo, hi)
        OBVIOUS
    <2>3. lo \in Nat /\ hi \in Nat /\ k \in Nat
        BY <1>2
    <2>4. ASSUME NEW l \in 0 .. n, NEW h \in 0 .. n, l <= h, h - l < k PROVE Right(l, h)
      <3>1. h - l \in Nat /\ l + (h - l) = h
          BY <1>2, <2>4
      <3>2. h - l \notin T
        <4> HIDE DEF T
        <4> QED
            BY <2>3, <2>4, <3>1
      <3> HIDE DEF Right
      <3> QED
          BY <3>1, <3>2
    <2> HIDE DEF T
    <2>5. CASE lo >= hi
      <3>1. find[<<lo, hi>>] = 0
          BY <1>10, <2>5
      <3> QED
          BY <1>2, <2>2, <2>5, <3>1 DEF Between
    <2>6. CASE lo < hi
      <3>1. mid(lo, hi) \in 0 .. n /\ mid(lo, hi) + 1 \in 0 .. n /\ mid(lo, hi) + 1 \in 1 .. n
            /\ q[mid(lo, hi) + 1].id \in Nat /\ lo <= mid(lo, hi) /\ mid(lo, hi) < hi
        <4>1. mid(lo, hi) \in 0 .. n /\ mid(lo, hi) + 1 \in 1 .. n
              /\ lo <= mid(lo, hi) /\ mid(lo, hi) < hi
            BY <1>3, <2>6
        <4> QED
            BY <1>2, <4>1
      <3>2. Right(mid(lo, hi) + 1, hi) /\ Right(lo, mid(lo, hi))
        <4> HIDE DEF Right
        <4> QED
            BY <1>2, <2>2, <2>3, <2>4, <3>1
      <3>3. Between(q, i, lo, hi, body(find, lo, hi))
          BY <1>2, <1>4, <2>6, <3>1, <3>2
      <3> HIDE DEF body
      <3> QED
          BY <1>10, <2>2, <3>3
    <2> QED
        BY <2>3, <2>5, <2>6
  <1>12. Right(0, n)
    <2>1. n \notin T /\ 0 \in 0 .. n /\ n \in 0 .. n /\ 0 + n = n
      <3> HIDE DEF T
      <3> QED
          BY <1>2, <1>11
    <2> HIDE DEF Right
    <2> QED
        BY <1>2, <2>1
  <1>13. Between(q, i, 0, n, find_id(ix, i))
      BY <1>1, <1>12
  <1> QED
      BY <1>2, <1>13 DEF Between, q

-----------------------------------------------------------------------------
(* One slot appended or replaced.                                          *)

Live(q) == {s \in DOMAIN q : q[s].live}

\* A sorted index shows the row of an id exactly when its slot is no tombstone.
LEMMA HeldIs ==
    ASSUME NEW ix \in IndexType, Sorted(ix.slots), NEW i \in Ids
    PROVE  /\ \A s \in DOMAIN ix.slots :
                  ix.slots[s].id = i
                      => Held(ix, i) = IF ix.slots[s].live THEN ix.slots[s].row ELSE Absent
           /\ (\A s \in DOMAIN ix.slots : ix.slots[s].id # i) => Held(ix, i) = Absent
  <1> DEFINE q == ix.slots
  <1> DEFINE S == {s \in DOMAIN q : q[s].id = i /\ q[s].live}
  <1>1. Held(ix, i) = IF S = {} THEN Absent ELSE q[CHOOSE s \in S : TRUE].row
      BY DEF Held
  <1>2. \A s, t \in DOMAIN q : q[s].id = i /\ q[t].id = i => s = t
    <2>2. DOMAIN q = 1 .. Len(q) /\ Len(q) \in Nat /\ \A s \in DOMAIN q : q[s].id \in Nat
        BY SlotsType
    <2> HIDE DEF q
    <2>3. Sorted(q)
        BY DEF q
    <2> QED
        BY <2>2, <2>3 DEF Sorted
  <1>3. ASSUME NEW s \in DOMAIN q, q[s].id = i
        PROVE  Held(ix, i) = IF q[s].live THEN q[s].row ELSE Absent
    <2>1. CASE q[s].live
      <3>1. S = {s}
          BY <1>2, <1>3, <2>1
      <3> HIDE DEF S
      <3>2. (CHOOSE t \in S : TRUE) = s
          BY <3>1
      <3> QED
          BY <1>1, <2>1, <3>1, <3>2
    <2>2. CASE ~q[s].live
      <3>1. S = {}
          BY <1>2, <1>3, <2>2
      <3> QED
          BY <1>1, <2>2, <3>1
    <2> QED
        BY <2>1, <2>2
  <1>4. (\A s \in DOMAIN q : q[s].id # i) => Held(ix, i) = Absent
      BY <1>1
  <1> QED
      BY <1>3, <1>4

\* The live slots are finitely many.
LEMMA LiveFinite ==
    ASSUME NEW ix \in IndexType
    PROVE  IsFiniteSet(Live(ix.slots)) /\ Cardinality(Live(ix.slots)) \in Nat
  <1> DEFINE q == ix.slots
  <1>1. Len(q) \in Nat /\ DOMAIN q = 1 .. Len(q)
      BY DEF IndexType
  <1> HIDE DEF q
  <1>2. IsFiniteSet(1 .. Len(q))
      BY <1>1, FS_Interval
  <1>3. Live(q) \subseteq 1 .. Len(q)
      BY <1>1 DEF Live
  <1>4. IsFiniteSet(Live(q))
      BY <1>2, <1>3, FS_Subset
  <1> QED
      BY <1>4, FS_CardinalityType DEF q

\* A live slot with a larger id at the end.
LEMMA SlotAppended ==
    ASSUME NEW a \in IndexType, NEW e \in IndexType, Sorted(a.slots),
           NEW x \in Slot, x.live, \A s \in DOMAIN a.slots : a.slots[s].id < x.id,
           e.slots = Append(a.slots, x)
    PROVE  /\ Sorted(e.slots)
           /\ Len(e.slots) = Len(a.slots) + 1
           /\ Cardinality(Live(e.slots)) = Cardinality(Live(a.slots)) + 1
           /\ \A i \in Ids : Held(e, i) = IF i = x.id THEN x.row ELSE Held(a, i)
  <1> DEFINE q == a.slots
  <1> DEFINE n == Len(q)
  <1> DEFINE r == e.slots
  <1>0. q \in Seq(Slot) /\ Sorted(q) /\ r = Append(q, x)
      BY DEF IndexType
  <1> HIDE DEF q, r
  <1>1. /\ n \in Nat /\ DOMAIN q = 1 .. n /\ Len(r) = n + 1 /\ DOMAIN r = 1 .. n + 1
        /\ \A s \in 1 .. n : r[s] = q[s]
        /\ r[n + 1] = x
      BY <1>0
  <1>2. \A s \in 1 .. n : q[s] \in Slot /\ q[s].id \in Nat /\ q[s].id < x.id
      BY <1>1, SlotsType DEF q
  <1> HIDE DEF n
  <1>3. Sorted(r)
    <2> SUFFICES ASSUME NEW s \in 1 .. n + 1, NEW t \in 1 .. n + 1, s < t
                 PROVE  r[s].id < r[t].id
        BY <1>1 DEF Sorted
    <2>1. s \in 1 .. n
        BY <1>1
    <2>2. CASE t \in 1 .. n
        BY <1>0, <1>1, <2>1, <2>2 DEF Sorted
    <2>3. CASE t = n + 1
        BY <1>1, <1>2, <2>1, <2>3
    <2> QED
        BY <1>1, <2>2, <2>3
  <1>4. Cardinality(Live(r)) = Cardinality(Live(q)) + 1
    <2>1. Live(r) = Live(q) \cup {n + 1} /\ n + 1 \notin Live(q)
        BY <1>1 DEF Live
    <2>2. IsFiniteSet(Live(q))
        BY LiveFinite DEF q
    <2> QED
        BY <2>1, <2>2, FS_AddElement
  <1>5. ASSUME NEW i \in Ids PROVE Held(e, i) = IF i = x.id THEN x.row ELSE Held(a, i)
    <2>1. CASE i = x.id
      <3>1. n + 1 \in DOMAIN r /\ r[n + 1].id = i /\ r[n + 1].live
          BY <1>1, <2>1
      <3>2. Held(e, i) = IF r[n + 1].live THEN r[n + 1].row ELSE Absent
          BY <1>3, <3>1, HeldIs DEF r
      <3> QED
          BY <1>1, <2>1, <3>1, <3>2
    <2>2. ASSUME i # x.id, NEW s \in 1 .. n, q[s].id = i PROVE Held(e, i) = Held(a, i)
      <3>1. Held(a, i) = IF q[s].live THEN q[s].row ELSE Absent
          BY <1>0, <1>1, <2>2, HeldIs DEF q
      <3>2. s \in DOMAIN r /\ r[s] = q[s]
          BY <1>1
      <3>3. Held(e, i) = IF r[s].live THEN r[s].row ELSE Absent
          BY <1>3, <2>2, <3>2, HeldIs DEF r
      <3> QED
          BY <3>1, <3>2, <3>3
    <2>3. ASSUME i # x.id, \A s \in 1 .. n : q[s].id # i PROVE Held(e, i) = Held(a, i)
      <3>1. Held(a, i) = Absent
          BY <1>0, <1>1, <2>3, HeldIs DEF q
      <3>2. \A s \in DOMAIN r : r[s].id # i
          BY <1>1, <2>3
      <3>3. Held(e, i) = Absent
          BY <1>3, <3>2, HeldIs DEF r
      <3> QED
          BY <3>1, <3>3
    <2> QED
        BY <2>1, <2>2, <2>3
  <1> QED
      BY <1>1, <1>3, <1>4, <1>5 DEF n, q, r

\* A slot replaced by one with the same id.
LEMMA SlotReplaced ==
    ASSUME NEW a \in IndexType, NEW e \in IndexType, Sorted(a.slots),
           NEW s \in DOMAIN a.slots, NEW x \in Slot, x.id = a.slots[s].id,
           e.slots = [a.slots EXCEPT ![s] = x]
    PROVE  /\ Sorted(e.slots)
           /\ Len(e.slots) = Len(a.slots)
           /\ Cardinality(Live(e.slots))
                = IF x.live THEN (IF a.slots[s].live THEN Cardinality(Live(a.slots))
                                  ELSE Cardinality(Live(a.slots)) + 1)
                  ELSE (IF a.slots[s].live THEN Cardinality(Live(a.slots)) - 1
                        ELSE Cardinality(Live(a.slots)))
           /\ \A i \in Ids : Held(e, i) = IF i # x.id THEN Held(a, i)
                                          ELSE IF x.live THEN x.row ELSE Absent
  <1> DEFINE q == a.slots
  <1> DEFINE n == Len(q)
  <1> DEFINE r == e.slots
  <1>0. q \in Seq(Slot) /\ Sorted(q) /\ r = [q EXCEPT ![s] = x] /\ s \in DOMAIN q
      BY DEF IndexType
  <1>a. x.id = q[s].id
      OBVIOUS
  <1> HIDE DEF q, r
  <1>1. /\ n \in Nat /\ DOMAIN q = 1 .. n /\ Len(r) = n /\ DOMAIN r = 1 .. n
        /\ \A t \in 1 .. n : t # s => r[t] = q[t]
        /\ r[s] = x /\ s \in 1 .. n
      BY <1>0
  <1>2. \A t \in 1 .. n : r[t].id = q[t].id
      BY <1>1, <1>a
  <1> HIDE DEF n
  <1>3. Sorted(r)
      BY <1>0, <1>1, <1>2 DEF Sorted
  <1>4. Cardinality(Live(r))
          = IF x.live THEN (IF q[s].live THEN Cardinality(Live(q)) ELSE Cardinality(Live(q)) + 1)
            ELSE (IF q[s].live THEN Cardinality(Live(q)) - 1 ELSE Cardinality(Live(q)))
    <2>0. IsFiniteSet(Live(q)) /\ Cardinality(Live(q)) \in Nat
        BY LiveFinite DEF q
    <2>1. CASE (x.live /\ q[s].live) \/ (~x.live /\ ~q[s].live)
      <3>1. Live(r) = Live(q)
          BY <1>1, <2>1 DEF Live
      <3> QED
          BY <2>1, <3>1
    <2>2. CASE x.live /\ ~q[s].live
      <3>1. Live(r) = Live(q) \cup {s} /\ s \notin Live(q)
          BY <1>1, <2>2 DEF Live
      <3> QED
          BY <2>0, <2>2, <3>1, FS_AddElement
    <2>3. CASE ~x.live /\ q[s].live
      <3>1. Live(r) = Live(q) \ {s} /\ s \in Live(q)
          BY <1>1, <2>3 DEF Live
      <3> QED
          BY <2>0, <2>3, <3>1, FS_RemoveElement, ZenonT(60)
    <2> QED
        BY <2>1, <2>2, <2>3
  <1>5. ASSUME NEW i \in Ids
        PROVE  Held(e, i) = IF i # x.id THEN Held(a, i) ELSE IF x.live THEN x.row ELSE Absent
    <2>1. CASE i = x.id
        BY <1>1, <1>3, <2>1, HeldIs DEF r
    <2>2. ASSUME i # x.id, NEW t \in 1 .. n, q[t].id = i PROVE Held(e, i) = Held(a, i)
      <3>1. Held(a, i) = IF q[t].live THEN q[t].row ELSE Absent
          BY <1>0, <1>1, <2>2, HeldIs DEF q
      <3>2. t \in DOMAIN r /\ r[t] = q[t]
          BY <1>1, <1>a, <2>2
      <3>3. Held(e, i) = IF r[t].live THEN r[t].row ELSE Absent
          BY <1>3, <2>2, <3>2, HeldIs DEF r
      <3> QED
          BY <3>1, <3>2, <3>3
    <2>3. ASSUME i # x.id, \A t \in 1 .. n : q[t].id # i PROVE Held(e, i) = Held(a, i)
      <3>1. Held(a, i) = Absent
          BY <1>0, <1>1, <2>3, HeldIs DEF q
      <3>2. \A t \in DOMAIN r : r[t].id # i
          BY <1>1, <1>2, <2>3
      <3>3. Held(e, i) = Absent
          BY <1>3, <3>2, HeldIs DEF r
      <3> QED
          BY <3>1, <3>3
    <2> QED
        BY <2>1, <2>2, <2>3
  <1> QED
      BY <1>1, <1>3, <1>4, <1>5 DEF n, q, r

-----------------------------------------------------------------------------
(* The load.                                                               *)

\* A packed index in order: what apply_changes starts from and leaves.
WellPacked(ix) ==
    /\ ix \in IndexType
    /\ ix.ids_sorted
    /\ Sorted(ix.slots)
    /\ CountersExact(ix)

\* After n turns the index holds the rows with ids up to n, in slots with such ids.
Loaded(f, n, a) ==
    /\ WellPacked(a)
    /\ \A s \in DOMAIN a.slots : a.slots[s].id <= n
    /\ \A i \in Ids : Held(a, i) = IF i <= n THEN f[i] ELSE Absent

\* The counters, in terms of the live slots.
LEMMA CountersAre ==
    ASSUME NEW ix
    PROVE  CountersExact(ix) <=> /\ ix.len = Cardinality(Live(ix.slots))
                                 /\ ix.dead_records = Len(ix.slots) - ix.len
                                 /\ ix.dead_strings = ix.strings - ix.len
  BY DEF CountersExact, Live

\* The empty index is in order, and holds nothing.
LEMMA EmptyPacked == WellPacked(EmptyIndex) /\ \A i \in Ids : Held(EmptyIndex, i) = Absent
  <1>1. DOMAIN EmptyIndex.slots = {} /\ Len(EmptyIndex.slots) = 0
      BY EmptyIs
  <1>2. Sorted(EmptyIndex.slots) /\ Live(EmptyIndex.slots) = {}
      BY <1>1 DEF Sorted, Live
  <1>3. Cardinality(Live(EmptyIndex.slots)) = 0
      BY <1>2, FS_EmptySet
  <1>4. CountersExact(EmptyIndex)
      BY <1>1, <1>3, EmptyIs, CountersAre
  <1>5. \A i \in Ids : Held(EmptyIndex, i) = Absent
      BY <1>1, <1>2, EmptyIs, HeldIs
  <1> QED
      BY <1>2, <1>4, <1>5, EmptyIs DEF WellPacked

\* A row with a larger id than all before it is appended in order.
LEMMA AppendPacked ==
    ASSUME NEW a, WellPacked(a), NEW n \in Ids, NEW row \in Row,
           \A s \in DOMAIN a.slots : a.slots[s].id < n,
           NEW e, e = Append1(a, n, row)
    PROVE  /\ WellPacked(e)
           /\ \A i \in Ids : Held(e, i) = IF i = n THEN row ELSE Held(a, i)
           /\ Len(e.slots) = Len(a.slots) + 1
           /\ \A s \in DOMAIN a.slots : e.slots[s] = a.slots[s]
           /\ e.slots[Len(a.slots) + 1].id = n
  <1> DEFINE x == [id |-> n, row |-> row, live |-> TRUE]
  <1>1. a \in IndexType /\ Sorted(a.slots) /\ a.ids_sorted
      BY DEF WellPacked
  <1>2. x \in Slot /\ x.live /\ x.id = n /\ x.row = row
      BY DEF Slot
  <1>3. /\ e \in IndexType /\ e.slots = Append(a.slots, x)
        /\ e.ids_sorted <=> a.ids_sorted /\ (a.slots = <<>> \/ Last(a.slots).id < n)
        /\ e.len = a.len + 1 /\ e.strings = a.strings + 1
        /\ e.dead_records = a.dead_records /\ e.dead_strings = a.dead_strings
      BY <1>1, AppendIs
  <1> HIDE DEF x
  <1>4. a.slots = <<>> \/ Last(a.slots).id < n
    <2>1. a.slots \in Seq(Slot) /\ DOMAIN a.slots = 1 .. Len(a.slots) /\ Len(a.slots) \in Nat
        BY <1>1, SlotsType
    <2>2. a.slots # <<>> => Len(a.slots) \in DOMAIN a.slots
        BY <2>1
    <2> QED
        BY <2>2 DEF Last
  <1>5. /\ Sorted(e.slots) /\ Len(e.slots) = Len(a.slots) + 1
        /\ Cardinality(Live(e.slots)) = Cardinality(Live(a.slots)) + 1
        /\ \A i \in Ids : Held(e, i) = IF i = n THEN row ELSE Held(a, i)
    <2>1. \A s \in DOMAIN a.slots : a.slots[s].id < x.id
        BY <1>2
    <2>2. /\ Sorted(e.slots) /\ Len(e.slots) = Len(a.slots) + 1
          /\ Cardinality(Live(e.slots)) = Cardinality(Live(a.slots)) + 1
          /\ \A i \in Ids : Held(e, i) = IF i = x.id THEN x.row ELSE Held(a, i)
        BY <1>1, <1>2, <1>3, <2>1, SlotAppended, ZenonT(60)
    <2> QED
        BY <1>2, <2>2
  <1>6. /\ a.len = Cardinality(Live(a.slots)) /\ a.dead_records = Len(a.slots) - a.len
        /\ a.dead_strings = a.strings - a.len
      BY CountersAre DEF WellPacked
  <1>7. /\ a.len \in Int /\ a.strings \in Int /\ Len(a.slots) \in Nat /\ a.slots \in Seq(Slot)
        /\ DOMAIN a.slots = 1 .. Len(a.slots)
      BY <1>1, SlotsType DEF IndexType
  <1>8. CountersExact(e)
    <2>1. e.len = Cardinality(Live(e.slots))
        BY <1>3, <1>5, <1>6
    <2>2. e.dead_records = Len(e.slots) - e.len /\ e.dead_strings = e.strings - e.len
      <3>1. /\ e.len = a.len + 1 /\ e.strings = a.strings + 1 /\ Len(e.slots) = Len(a.slots) + 1
            /\ e.dead_records = Len(a.slots) - a.len /\ e.dead_strings = a.strings - a.len
          BY <1>3, <1>5, <1>6
      <3>2. \A l, m \in Int : l - m = (l + 1) - (m + 1)
          OBVIOUS
      <3>3. a.len \in Int /\ a.strings \in Int /\ Len(a.slots) \in Int
          BY <1>7
      <3> QED
          BY <3>1, <3>2, <3>3
    <2> QED
        BY <2>1, <2>2, CountersAre
  <1>9. (\A s \in DOMAIN a.slots : e.slots[s] = a.slots[s]) /\ e.slots[Len(a.slots) + 1] = x
      BY <1>3, <1>7
  <1> QED
      BY <1>1, <1>2, <1>3, <1>4, <1>5, <1>8, <1>9 DEF WellPacked

\* CompactIndex::load packs exactly the rows of the table.
THEOREM LoadIsExact ==
    ASSUME NEW f \in Tables
    PROVE  WellPacked(load(f)) /\ Contents(load(f)) = f
  <1>1. PICK b :
              /\ load(f) = b[MaxId]
              /\ b[0] = EmptyIndex
              /\ \A n \in 1 .. MaxId :
                    b[n] = IF f[n] = Absent THEN b[n - 1] ELSE Append1(b[n - 1], n, f[n])
      BY LoadLoop
  <1> DEFINE T == {n \in 0 .. MaxId : ~Loaded(f, n, b[n])}
  <1>2. ASSUME NEW n \in 1 .. MaxId, Loaded(f, n - 1, b[n - 1]) PROVE Loaded(f, n, b[n])
    <2> DEFINE a == b[n - 1]
    <2>0. n \in Ids /\ n \in Nat /\ Ids \subseteq Nat
        BY Bounds DEF Ids
    <2>1. /\ WellPacked(a) /\ \A s \in DOMAIN a.slots : a.slots[s].id <= n - 1
          /\ \A i \in Ids : Held(a, i) = IF i <= n - 1 THEN f[i] ELSE Absent
        BY <1>2 DEF Loaded
    <2>2. /\ \A s \in DOMAIN a.slots : a.slots[s].id < n /\ a.slots[s].id <= n
          /\ Len(a.slots) \in Nat /\ DOMAIN a.slots = 1 .. Len(a.slots)
        BY <2>0, <2>1, SlotsType DEF WellPacked
    <2> HIDE DEF a
    <2>3. CASE f[n] = Absent
      <3>1. b[n] = a
          BY <1>1, <2>3 DEF a
      <3>2. \A i \in Ids : Held(a, i) = IF i <= n THEN f[i] ELSE Absent
          BY <2>0, <2>1, <2>3
      <3> QED
          BY <2>1, <2>2, <3>1, <3>2 DEF Loaded
    <2>4. CASE f[n] # Absent
      <3> DEFINE e == Append1(a, n, f[n])
      <3>1. b[n] = e /\ f[n] \in Row
          BY <1>1, <2>0, <2>4, TableRow DEF a
      <3>2. /\ WellPacked(e)
            /\ \A i \in Ids : Held(e, i) = IF i = n THEN f[n] ELSE Held(a, i)
            /\ Len(e.slots) = Len(a.slots) + 1
            /\ \A s \in DOMAIN a.slots : e.slots[s] = a.slots[s]
            /\ e.slots[Len(a.slots) + 1].id = n
          BY <2>0, <2>1, <2>2, <3>1, AppendPacked
      <3> HIDE DEF e
      <3>3. DOMAIN e.slots = 1 .. Len(e.slots)
          BY <3>2, SlotsType DEF WellPacked
      <3>4. \A s \in DOMAIN e.slots : e.slots[s].id <= n
        <4> SUFFICES ASSUME NEW s \in DOMAIN e.slots PROVE e.slots[s].id <= n
            OBVIOUS
        <4>1. s \in DOMAIN a.slots \/ s = Len(a.slots) + 1
            BY <2>2, <3>2, <3>3
        <4> QED
            BY <2>0, <2>2, <3>2, <4>1
      <3>5. \A i \in Ids : Held(e, i) = IF i <= n THEN f[i] ELSE Absent
          BY <2>0, <2>1, <3>2
      <3> QED
          BY <3>1, <3>2, <3>4, <3>5 DEF Loaded
    <2> QED
        BY <2>3, <2>4
  <1>3. Loaded(f, 0, b[0])
    <2>1. DOMAIN EmptyIndex.slots = {}
        BY EmptyIs
    <2>2. \A i \in Ids : ~(i <= 0)
        BY Bounds DEF Ids
    <2> QED
        BY <1>1, <2>1, <2>2, EmptyPacked DEF Loaded
  <1>4. T = {}
    <2>1. T \in SUBSET Nat
        OBVIOUS
    <2> SUFFICES ASSUME NEW k \in T, \A y \in T : k <= y PROVE FALSE
      <3> HIDE DEF T
      <3> QED
          BY <2>1, Least
    <2>2. k \in 0 .. MaxId /\ ~Loaded(f, k, b[k])
        OBVIOUS
    <2>3. k \in 1 .. MaxId /\ k - 1 \in 0 .. MaxId /\ k - 1 < k
        BY <1>3, <2>2, Bounds
    <2>4. k - 1 \notin T
      <3> HIDE DEF T
      <3> QED
          BY <2>3
    <2>5. Loaded(f, k - 1, b[k - 1])
        BY <2>3, <2>4
    <2> QED
        BY <1>2, <2>2, <2>3, <2>5
  <1>5. Loaded(f, MaxId, b[MaxId])
      BY <1>4, Bounds
  <1>6. \A i \in Ids : Held(load(f), i) = f[i]
      BY <1>1, <1>5, Bounds DEF Loaded, Ids
  <1>7. f = [i \in Ids |-> f[i]]
      BY TableRow
  <1> QED
      BY <1>1, <1>5, <1>6, <1>7 DEF Loaded, Contents

-----------------------------------------------------------------------------
(* One change of a delta.                                                  *)

\* The plan of one change: the slots stay, the counters follow the slot found.
LEMMA AccountIs ==
    ASSUME NEW p \in IndexType, Sorted(p.slots), NEW i \in Ids, NEW row \in Row \cup {Absent},
           NEW e, e = account(p, i, row), NEW s, s = find_id(p, i)
    PROVE  /\ e \in IndexType /\ e.slots = p.slots
           /\ s = 0 => /\ e.len = IF row = Absent THEN p.len ELSE p.len + 1
                       /\ e.dead_records = p.dead_records /\ e.dead_strings = p.dead_strings
           /\ s # 0 /\ row = Absent =>
                IF p.slots[s].live
                THEN /\ e.len = p.len - 1 /\ e.dead_records = p.dead_records + 1
                     /\ e.dead_strings = p.dead_strings + 1
                ELSE /\ e.len = p.len /\ e.dead_records = p.dead_records
                     /\ e.dead_strings = p.dead_strings
           /\ s # 0 /\ row # Absent =>
                IF p.slots[s].live
                THEN /\ e.len = p.len /\ e.dead_records = p.dead_records
                     /\ e.dead_strings = IF row.path = p.slots[s].row.path
                                         THEN p.dead_strings ELSE p.dead_strings + 1
                ELSE /\ e.len = p.len + 1 /\ e.dead_records = p.dead_records - 1
                     /\ e.dead_strings = IF row.path = p.slots[s].row.path
                                         THEN p.dead_strings - 1 ELSE p.dead_strings
  <1>1. p.len \in Int /\ p.dead_records \in Int /\ p.dead_strings \in Int
      BY DEF IndexType
  <1>2. CASE s = 0
    <2> DEFINE l == IF row = Absent THEN p.len ELSE p.len + 1
    <2>1. e = [p EXCEPT !.len = l] /\ l \in Int
        BY <1>1, <1>2 DEF account
    <2> HIDE DEF l
    <2>2. e \in IndexType /\ e.slots = p.slots /\ e.len = l
          /\ e.dead_records = p.dead_records /\ e.dead_strings = p.dead_strings
        BY <2>1 DEF IndexType
    <2> QED
        BY <1>2, <2>2 DEF l
  <1>3. CASE s # 0 /\ row = Absent
    <2> DEFINE old == p.slots[s]
    <2> DEFINE dr == IF old.live THEN p.dead_records + 1 ELSE p.dead_records
    <2> DEFINE ds == IF old.live THEN p.dead_strings + 1 ELSE p.dead_strings
    <2> DEFINE l == IF old.live THEN p.len - 1 ELSE p.len
    <2>1. e = [p EXCEPT !.dead_records = dr, !.dead_strings = ds, !.len = l]
          /\ dr \in Int /\ ds \in Int /\ l \in Int
        BY <1>1, <1>3 DEF account
    <2> HIDE DEF dr, ds, l
    <2>2. e \in IndexType /\ e.slots = p.slots /\ e.len = l
          /\ e.dead_records = dr /\ e.dead_strings = ds
        BY <2>1 DEF IndexType
    <2> QED
        BY <1>3, <2>2 DEF dr, ds, l
  <1>4. CASE s # 0 /\ row # Absent
    <2> DEFINE old == p.slots[s]
    <2> DEFINE same == row.path = old.row.path
    <2> DEFINE dr == IF old.live THEN p.dead_records ELSE p.dead_records - 1
    <2> DEFINE ds == IF old.live THEN (IF same THEN p.dead_strings ELSE p.dead_strings + 1)
                     ELSE (IF same THEN p.dead_strings - 1 ELSE p.dead_strings)
    <2> DEFINE l == IF old.live THEN p.len ELSE p.len + 1
    <2>1. e = [p EXCEPT !.dead_records = dr, !.dead_strings = ds, !.len = l]
          /\ dr \in Int /\ ds \in Int /\ l \in Int
        BY <1>1, <1>4 DEF account
    <2> HIDE DEF dr, ds, l
    <2>2. e \in IndexType /\ e.slots = p.slots /\ e.len = l
          /\ e.dead_records = dr /\ e.dead_strings = ds
        BY <2>1 DEF IndexType
    <2> QED
        BY <1>4, <2>2 DEF dr, ds, l
  <1> QED
      BY <1>2, <1>3, <1>4

\* Slot s of a becomes x: the row, or a tombstone.
ReplacedBy(a, e, s, row, x) ==
    /\ e.slots = [a.slots EXCEPT ![s] = x]
    /\ x.id = a.slots[s].id
    /\ x.live <=> row # Absent
    /\ row # Absent => x.row = row

\* A change carried out at a slot: the slot is replaced by a tombstone or by the row.
LEMMA ApplyOneIs ==
    ASSUME NEW a \in IndexType, NEW i \in Ids, NEW row \in Row \cup {Absent},
           NEW s \in DOMAIN a.slots, NEW e, e = ApplyOne(a, i, row, s)
    PROVE  /\ e \in IndexType /\ e.ids_sorted = a.ids_sorted
           /\ \E x \in Slot : ReplacedBy(a, e, s, row, x)
           /\ e.strings = IF row = Absent \/ a.slots[s].row.path = row.path
                          THEN a.strings ELSE a.strings + 1
  <1>0. /\ s # 0 /\ a.slots \in Seq(Slot) /\ a.slots[s] \in Slot /\ a.strings \in Int
        /\ a.slots[s].id \in Ids /\ a.slots[s].row \in Row
      BY SlotsType DEF IndexType
  <1>1. CASE row = Absent
    <2> DEFINE x == [a.slots[s] EXCEPT !.live = FALSE]
    <2>1. x \in Slot /\ x.id = a.slots[s].id /\ x.live = FALSE
        BY <1>0 DEF Slot
    <2>2. e = [a EXCEPT !.slots = [a.slots EXCEPT ![s] = x]]
        BY <1>0, <1>1 DEF ApplyOne, IndexType
    <2> HIDE DEF x
    <2>3. [a.slots EXCEPT ![s] = x] \in Seq(Slot)
        BY <1>0, <2>1
    <2>4. e \in IndexType /\ e.slots = [a.slots EXCEPT ![s] = x] /\ e.strings = a.strings
          /\ e.ids_sorted = a.ids_sorted
        BY <2>2, <2>3 DEF IndexType
    <2>5. ReplacedBy(a, e, s, row, x)
        BY <1>1, <2>1, <2>4 DEF ReplacedBy
    <2> QED
        BY <1>1, <2>1, <2>4, <2>5
  <1>2. CASE row # Absent
    <2> DEFINE y == [a.slots[s] EXCEPT !.row = row]
    <2> DEFINE x == [y EXCEPT !.live = TRUE]
    <2> DEFINE m == IF a.slots[s].row.path = row.path THEN a.strings ELSE a.strings + 1
    <2>1. x \in Slot /\ x.id = a.slots[s].id /\ x.live = TRUE /\ x.row = row /\ m \in Int
      <3>1. row \in Row /\ m \in Int
          BY <1>0, <1>2
      <3>2. y \in Slot /\ y.id = a.slots[s].id /\ y.row = row
          BY <1>0, <3>1 DEF Slot
      <3> HIDE DEF y
      <3>3. x \in Slot /\ x.id = y.id /\ x.row = y.row /\ x.live = TRUE
          BY <3>2 DEF Slot
      <3> QED
          BY <3>1, <3>2, <3>3
    <2>2. e = [a EXCEPT !.slots = [[a.slots EXCEPT ![s] = y] EXCEPT ![s] = x], !.strings = m]
        BY <1>0, <1>2 DEF ApplyOne, IndexType
    <2>3. [[a.slots EXCEPT ![s] = y] EXCEPT ![s] = x] = [a.slots EXCEPT ![s] = x]
        BY <1>0
    <2> HIDE DEF x, y, m
    <2>4. [a.slots EXCEPT ![s] = x] \in Seq(Slot)
        BY <1>0, <2>1
    <2>5. e \in IndexType /\ e.slots = [a.slots EXCEPT ![s] = x] /\ e.strings = m
          /\ e.ids_sorted = a.ids_sorted
        BY <2>1, <2>2, <2>3, <2>4, ZenonT(60) DEF IndexType
    <2>6. ReplacedBy(a, e, s, row, x)
        BY <1>2, <2>1, <2>5 DEF ReplacedBy
    <2> QED
        BY <1>2, <2>1, <2>5, <2>6 DEF m
  <1> QED
      BY <1>1, <1>2

-----------------------------------------------------------------------------
(* A delta.                                                                *)

\* After the changes of ids up to n: the slots of larger ids are untouched, every
\* slot keeps its id, new slots have ids up to n, and the plan p counts what the
\* changed index a holds.
Progress(ix, c, n, a, p) ==
    /\ a \in IndexType /\ p \in IndexType /\ p.slots = ix.slots
    /\ a.ids_sorted /\ Sorted(a.slots)
    /\ Len(ix.slots) <= Len(a.slots)
    /\ \A s \in DOMAIN ix.slots : /\ a.slots[s].id = ix.slots[s].id
                                  /\ ix.slots[s].id > n => a.slots[s] = ix.slots[s]
    /\ \A s \in DOMAIN a.slots : s \notin DOMAIN ix.slots => a.slots[s].id <= n
    /\ \A i \in Ids : Held(a, i) = IF i \in DOMAIN c /\ i <= n THEN c[i] ELSE Held(ix, i)
    /\ p.len = Cardinality(Live(a.slots))
    /\ p.dead_records = Len(a.slots) - p.len
    /\ p.dead_strings = a.strings - p.len

\* What file_changes_since and snapshot_diff hand to apply_changes.
ChangeSet(c) == DOMAIN c \subseteq Ids /\ \A i \in DOMAIN c : c[i] \in Row \cup {Absent}

\* find_id reads nothing but the slots.
LEMMA FindIdReadsSlots ==
    ASSUME NEW x \in IndexType, NEW y \in IndexType, x.slots = y.slots, Sorted(x.slots),
           NEW i \in Ids
    PROVE  find_id(x, i) = find_id(y, i)
  <1> DEFINE q == x.slots
             u == find_id(x, i)
             v == find_id(y, i)
  <1>1. /\ DOMAIN q = 1 .. Len(q) /\ Len(q) \in Nat
        /\ \A t \in DOMAIN q : q[t].id \in Nat
      BY SlotsType
  <1>2. \/ u = 0 /\ \A t \in DOMAIN q : q[t].id # i
        \/ u \in DOMAIN q /\ q[u].id = i
      BY FindIdIsExact
  <1>3. \/ v = 0 /\ \A t \in DOMAIN q : q[t].id # i
        \/ v \in DOMAIN q /\ q[v].id = i
      BY FindIdIsExact
  <1>4. \A s, t \in DOMAIN q : s < t => q[s].id < q[t].id
      BY DEF Sorted
  <1> HIDE DEF q, u, v
  <1>5. u = v
    <2>1. CASE u \in DOMAIN q /\ v \in DOMAIN q
      <3>1. u \in Nat /\ v \in Nat /\ q[u].id = q[v].id /\ q[u].id \in Nat
          BY <1>1, <1>2, <1>3, <2>1
      <3>2. ~(u < v) /\ ~(v < u)
          BY <1>4, <2>1, <3>1
      <3> QED
          BY <3>1, <3>2
    <2> QED
        BY <1>2, <1>3, <2>1
  <1> QED
      BY <1>5 DEF u, v

\* The changes of the ids up to n - 1, and one that names no slot.
LEMMA ProgressNew ==
    ASSUME NEW ix, WellPacked(ix), NEW c, ChangeSet(c), ~NonMonotonic(ix, c),
           NEW n \in DOMAIN c, NEW a, NEW p, Progress(ix, c, n - 1, a, p),
           find_id(ix, n) = 0
    PROVE  Progress(ix, c, n, ApplyOne(a, n, c[n], 0), account(p, n, c[n]))
  <1> DEFINE e == account(p, n, c[n])
  <1>0. /\ n \in Ids /\ n \in Nat /\ Ids \subseteq Nat /\ c[n] \in Row \cup {Absent}
        /\ ix \in IndexType /\ Sorted(ix.slots)
        /\ a \in IndexType /\ p \in IndexType /\ p.slots = ix.slots /\ Sorted(a.slots)
        /\ a.ids_sorted
      BY Bounds DEF ChangeSet, Ids, WellPacked, Progress
  <1>1. find_id(p, n) = find_id(ix, n) /\ Sorted(p.slots)
      BY <1>0, FindIdReadsSlots
  <1>2. /\ e \in IndexType /\ e.slots = ix.slots
        /\ e.len = IF c[n] = Absent THEN p.len ELSE p.len + 1
        /\ e.dead_records = p.dead_records /\ e.dead_strings = p.dead_strings
      BY <1>0, <1>1, AccountIs
  <1> HIDE DEF e
  <1>3. \A t \in DOMAIN ix.slots : ix.slots[t].id # n
    <2>1. 0 \notin DOMAIN ix.slots
        BY <1>0, SlotsType
    <2> QED
        BY <1>0, <2>1, FindIdIsExact
  <1>4. Held(ix, n) = Absent
      BY <1>0, <1>3, HeldIs
  <1>5. /\ DOMAIN ix.slots = 1 .. Len(ix.slots) /\ Len(ix.slots) \in Nat
        /\ \A s \in DOMAIN ix.slots : ix.slots[s].id \in Nat
      BY <1>0, SlotsType
  <1>6. /\ DOMAIN a.slots = 1 .. Len(a.slots) /\ Len(a.slots) \in Nat
        /\ \A s \in DOMAIN a.slots : a.slots[s].id \in Nat
      BY <1>0, SlotsType
  <1>7. /\ Len(ix.slots) <= Len(a.slots)
        /\ \A s \in DOMAIN ix.slots : /\ a.slots[s].id = ix.slots[s].id
                                      /\ ix.slots[s].id > n - 1 => a.slots[s] = ix.slots[s]
        /\ \A s \in DOMAIN a.slots : s \notin DOMAIN ix.slots => a.slots[s].id <= n - 1
        /\ \A i \in Ids : Held(a, i) = IF i \in DOMAIN c /\ i <= n - 1 THEN c[i] ELSE Held(ix, i)
        /\ p.len = Cardinality(Live(a.slots))
        /\ p.dead_records = Len(a.slots) - p.len
        /\ p.dead_strings = a.strings - p.len
      BY DEF Progress
  <1>8. CASE c[n] = Absent
    <2>1. ApplyOne(a, n, c[n], 0) = a
        BY <1>8 DEF ApplyOne
    <2>2. \A i \in Ids : Held(a, i) = IF i \in DOMAIN c /\ i <= n THEN c[i] ELSE Held(ix, i)
        BY <1>0, <1>4, <1>7, <1>8
    <2>3. \A s \in DOMAIN ix.slots : ix.slots[s].id > n => a.slots[s] = ix.slots[s]
        BY <1>0, <1>5, <1>7
    <2>4. \A s \in DOMAIN a.slots : s \notin DOMAIN ix.slots => a.slots[s].id <= n
        BY <1>0, <1>6, <1>7
    <2>5. Progress(ix, c, n, a, e)
        BY <1>0, <1>2, <1>7, <1>8, <2>2, <2>3, <2>4 DEF Progress
    <2> QED
        BY <2>1, <2>5 DEF e
  <1>9. CASE c[n] # Absent
    <2> DEFINE b == Append1(a, n, c[n])
    <2> DEFINE x == [id |-> n, row |-> c[n], live |-> TRUE]
    <2>1. ApplyOne(a, n, c[n], 0) = b /\ c[n] \in Row
        BY <1>0, <1>9 DEF ApplyOne
    <2>2. \A s \in DOMAIN ix.slots : ix.slots[s].id < n
      <3> SUFFICES ASSUME NEW s \in DOMAIN ix.slots PROVE ix.slots[s].id < n
          OBVIOUS
      <3>1. ix.slots # <<>> /\ Len(ix.slots) \in DOMAIN ix.slots
          BY <1>5
      <3>2. ~(n < Last(ix.slots).id)
          BY <1>9, <3>1 DEF NonMonotonic
      <3>3. ~(n < ix.slots[Len(ix.slots)].id)
          BY <3>2 DEF Last
      <3>4. s = Len(ix.slots) \/ ix.slots[s].id < ix.slots[Len(ix.slots)].id
          BY <1>0, <1>5, <3>1 DEF Sorted
      <3> QED
          BY <1>0, <1>3, <1>5, <3>1, <3>3, <3>4
    <2>3. \A s \in DOMAIN a.slots : a.slots[s].id < n
        BY <1>0, <1>6, <1>7, <2>2
    <2>4. x \in Slot /\ x.live /\ x.id = n /\ x.row = c[n]
        BY <1>0, <2>1 DEF Slot
    <2>5. /\ b \in IndexType /\ b.slots = Append(a.slots, x)
          /\ b.ids_sorted <=> a.ids_sorted /\ (a.slots = <<>> \/ Last(a.slots).id < n)
          /\ b.strings = a.strings + 1
        BY <1>0, <2>1, AppendIs
    <2> HIDE DEF b, x
    <2>6. b.ids_sorted
      <3>1. a.slots # <<>> => Len(a.slots) \in DOMAIN a.slots
          BY <1>0, <1>6, SlotsType
      <3> QED
          BY <1>0, <2>3, <2>5, <3>1 DEF Last
    <2>7. /\ Sorted(b.slots)
          /\ Len(b.slots) = Len(a.slots) + 1
          /\ Cardinality(Live(b.slots)) = Cardinality(Live(a.slots)) + 1
          /\ \A i \in Ids : Held(b, i) = IF i = n THEN c[n] ELSE Held(a, i)
      <3>1. \A s \in DOMAIN a.slots : a.slots[s].id < x.id
          BY <2>3, <2>4
      <3>2. /\ Sorted(b.slots)
            /\ Len(b.slots) = Len(a.slots) + 1
            /\ Cardinality(Live(b.slots)) = Cardinality(Live(a.slots)) + 1
            /\ \A i \in Ids : Held(b, i) = IF i = x.id THEN x.row ELSE Held(a, i)
        <4>1. /\ a \in IndexType /\ b \in IndexType /\ Sorted(a.slots)
              /\ x \in Slot /\ x.live /\ b.slots = Append(a.slots, x)
            BY <1>0, <2>4, <2>5
        <4> QED
            BY <3>1, <4>1, SlotAppended
      <3> QED
          BY <2>4, <3>2
    <2>8. /\ DOMAIN b.slots = 1 .. Len(a.slots) + 1
          /\ \A s \in DOMAIN a.slots : b.slots[s] = a.slots[s]
          /\ b.slots[Len(a.slots) + 1] = x
      <3>1. a.slots \in Seq(Slot)
          BY <1>0, SlotsType
      <3> QED
          BY <1>6, <2>4, <2>5, <3>1
    <2>9. \A i \in Ids : Held(b, i) = IF i \in DOMAIN c /\ i <= n THEN c[i] ELSE Held(ix, i)
        BY <1>0, <1>7, <2>7
    <2>10. \A s \in DOMAIN ix.slots : /\ b.slots[s].id = ix.slots[s].id
                                      /\ ix.slots[s].id > n => b.slots[s] = ix.slots[s]
        BY <1>0, <1>5, <1>6, <1>7, <2>8
    <2>11. \A s \in DOMAIN b.slots : s \notin DOMAIN ix.slots => b.slots[s].id <= n
      <3> SUFFICES ASSUME NEW s \in DOMAIN b.slots, s \notin DOMAIN ix.slots
                   PROVE  b.slots[s].id <= n
          OBVIOUS
      <3>1. s \in DOMAIN a.slots \/ s = Len(a.slots) + 1
          BY <1>6, <2>8
      <3> QED
          BY <1>0, <1>6, <2>3, <2>4, <2>8, <3>1
    <2>12. /\ Len(ix.slots) <= Len(b.slots) /\ e.len = Cardinality(Live(b.slots))
           /\ e.dead_records = Len(b.slots) - e.len /\ e.dead_strings = b.strings - e.len
      <3>1. p.len \in Int /\ a.strings \in Int /\ Len(a.slots) \in Int /\ Len(ix.slots) \in Int
          BY <1>0, <1>5, <1>6 DEF IndexType
      <3>2. \A l, m \in Int : l - m = (l + 1) - (m + 1)
          OBVIOUS
      <3>3. /\ e.len = p.len + 1 /\ b.strings = a.strings + 1 /\ Len(b.slots) = Len(a.slots) + 1
            /\ e.dead_records = Len(a.slots) - p.len /\ e.dead_strings = a.strings - p.len
          BY <1>2, <1>7, <1>9, <2>5, <2>7
      <3>4. e.dead_records = Len(b.slots) - e.len /\ e.dead_strings = b.strings - e.len
          BY <3>1, <3>2, <3>3, ZenonT(60)
      <3>5. Len(ix.slots) <= Len(b.slots) /\ e.len = Cardinality(Live(b.slots))
          BY <1>7, <2>7, <3>1, <3>3
      <3> QED
          BY <3>4, <3>5
    <2>13. Progress(ix, c, n, b, e)
        BY <1>2, <2>5, <2>6, <2>7, <2>9, <2>10, <2>11, <2>12 DEF Progress
    <2> QED
        BY <2>1, <2>13 DEF e
  <1> QED
      BY <1>8, <1>9

\* The changes of the ids up to n - 1, and one of a row or a tombstone that has a slot.
LEMMA ProgressOld ==
    ASSUME NEW ix, WellPacked(ix), NEW c, ChangeSet(c),
           NEW n \in DOMAIN c, NEW a, NEW p, Progress(ix, c, n - 1, a, p),
           NEW s, s = find_id(ix, n), s # 0
    PROVE  Progress(ix, c, n, ApplyOne(a, n, c[n], s), account(p, n, c[n]))
  <1> DEFINE e == account(p, n, c[n])
  <1> DEFINE b == ApplyOne(a, n, c[n], s)
  <1>0. /\ n \in Ids /\ n \in Nat /\ Ids \subseteq Nat /\ c[n] \in Row \cup {Absent}
        /\ ix \in IndexType /\ Sorted(ix.slots)
        /\ a \in IndexType /\ p \in IndexType /\ p.slots = ix.slots /\ Sorted(a.slots)
        /\ a.ids_sorted
      BY Bounds DEF ChangeSet, Ids, WellPacked, Progress
  <1>1. find_id(p, n) = s /\ Sorted(p.slots)
    <2>1. find_id(p, n) = find_id(ix, n)
        BY <1>0, FindIdReadsSlots
    <2> QED
        BY <1>0, <2>1
  <1>2. s \in DOMAIN ix.slots /\ ix.slots[s].id = n
      BY <1>0, FindIdIsExact
  <1>3. /\ DOMAIN ix.slots = 1 .. Len(ix.slots) /\ Len(ix.slots) \in Nat
        /\ \A t \in DOMAIN ix.slots : ix.slots[t].id \in Nat
      BY <1>0, SlotsType
  <1>4. /\ DOMAIN a.slots = 1 .. Len(a.slots) /\ Len(a.slots) \in Nat /\ a.slots \in Seq(Slot)
        /\ \A t \in DOMAIN a.slots : a.slots[t].id \in Nat
      BY <1>0, SlotsType
  <1>5. /\ Len(ix.slots) <= Len(a.slots)
        /\ \A t \in DOMAIN ix.slots : /\ a.slots[t].id = ix.slots[t].id
                                      /\ ix.slots[t].id > n - 1 => a.slots[t] = ix.slots[t]
        /\ \A t \in DOMAIN a.slots : t \notin DOMAIN ix.slots => a.slots[t].id <= n - 1
        /\ \A i \in Ids : Held(a, i) = IF i \in DOMAIN c /\ i <= n - 1 THEN c[i] ELSE Held(ix, i)
        /\ p.len = Cardinality(Live(a.slots))
        /\ p.dead_records = Len(a.slots) - p.len
        /\ p.dead_strings = a.strings - p.len
      BY DEF Progress
  <1>6. s \in DOMAIN a.slots /\ a.slots[s] = ix.slots[s] /\ a.slots[s].id = n
      BY <1>0, <1>2, <1>3, <1>4, <1>5
  <1>a. b = ApplyOne(a, n, c[n], s)
      OBVIOUS
  <1> HIDE DEF b
  <1>b. PICK x \in Slot : ReplacedBy(a, b, s, c[n], x)
    <2>1. a \in IndexType /\ n \in Ids /\ c[n] \in Row \cup {Absent} /\ s \in DOMAIN a.slots
        BY <1>0, <1>6
    <2> QED
        BY <1>a, <2>1, ApplyOneIs
  <1>7. /\ b.slots = [a.slots EXCEPT ![s] = x]
        /\ x.id = a.slots[s].id
        /\ x.live <=> c[n] # Absent
        /\ c[n] # Absent => x.row = c[n]
      BY <1>b DEF ReplacedBy
  <1>8. /\ b \in IndexType /\ b.ids_sorted = a.ids_sorted
        /\ b.strings = IF c[n] = Absent \/ a.slots[s].row.path = c[n].path
                       THEN a.strings ELSE a.strings + 1
    <2>1. a \in IndexType /\ n \in Ids /\ c[n] \in Row \cup {Absent} /\ s \in DOMAIN a.slots
        BY <1>0, <1>6
    <2> QED
        BY <1>a, <2>1, ApplyOneIs
  <1>9. /\ Sorted(b.slots)
        /\ Len(b.slots) = Len(a.slots)
        /\ Cardinality(Live(b.slots))
                = IF x.live THEN (IF a.slots[s].live THEN Cardinality(Live(a.slots))
                                  ELSE Cardinality(Live(a.slots)) + 1)
                  ELSE (IF a.slots[s].live THEN Cardinality(Live(a.slots)) - 1
                        ELSE Cardinality(Live(a.slots)))
        /\ \A i \in Ids : Held(b, i) = IF i # x.id THEN Held(a, i)
                                       ELSE IF x.live THEN x.row ELSE Absent
      BY <1>0, <1>6, <1>7, <1>8, SlotReplaced
  <1>10. /\ e \in IndexType /\ e.slots = ix.slots
         /\ c[n] = Absent =>
                IF a.slots[s].live
                THEN /\ e.len = p.len - 1 /\ e.dead_records = p.dead_records + 1
                     /\ e.dead_strings = p.dead_strings + 1
                ELSE /\ e.len = p.len /\ e.dead_records = p.dead_records
                     /\ e.dead_strings = p.dead_strings
         /\ c[n] # Absent =>
                IF a.slots[s].live
                THEN /\ e.len = p.len /\ e.dead_records = p.dead_records
                     /\ e.dead_strings = IF c[n].path = a.slots[s].row.path
                                         THEN p.dead_strings ELSE p.dead_strings + 1
                ELSE /\ e.len = p.len + 1 /\ e.dead_records = p.dead_records - 1
                     /\ e.dead_strings = IF c[n].path = a.slots[s].row.path
                                         THEN p.dead_strings - 1 ELSE p.dead_strings
    <2>1. p.slots[s] = a.slots[s]
        BY <1>0, <1>6
    <2> QED
        BY <1>0, <1>1, <2>1, AccountIs
  <1> HIDE DEF e
  <1>11. /\ DOMAIN b.slots = DOMAIN a.slots
         /\ \A t \in DOMAIN a.slots : t # s => b.slots[t] = a.slots[t]
         /\ b.slots[s].id = n
      BY <1>4, <1>6, <1>7
  <1>12. \A i \in Ids : Held(b, i) = IF i \in DOMAIN c /\ i <= n THEN c[i] ELSE Held(ix, i)
    <2> SUFFICES ASSUME NEW i \in Ids
                 PROVE  Held(b, i) = IF i \in DOMAIN c /\ i <= n THEN c[i] ELSE Held(ix, i)
        OBVIOUS
    <2>1. CASE i = n
        BY <1>0, <1>6, <1>7, <1>9, <2>1
    <2>2. CASE i # n
      <3>1. Held(b, i) = Held(a, i)
          BY <1>6, <1>7, <1>9, <2>2
      <3> QED
          BY <1>0, <1>5, <2>2, <3>1
    <2> QED
        BY <2>1, <2>2
  <1>13. \A t \in DOMAIN ix.slots : /\ b.slots[t].id = ix.slots[t].id
                                    /\ ix.slots[t].id > n => b.slots[t] = ix.slots[t]
    <2> SUFFICES ASSUME NEW t \in DOMAIN ix.slots
                 PROVE  /\ b.slots[t].id = ix.slots[t].id
                        /\ ix.slots[t].id > n => b.slots[t] = ix.slots[t]
        OBVIOUS
    <2>1. CASE t = s
        BY <1>0, <1>2, <1>11, <2>1
    <2>2. CASE t # s
        BY <1>0, <1>3, <1>4, <1>5, <1>11, <2>2
    <2> QED
        BY <2>1, <2>2
  <1>14. \A t \in DOMAIN b.slots : t \notin DOMAIN ix.slots => b.slots[t].id <= n
      BY <1>0, <1>2, <1>4, <1>5, <1>11
  <1>15. /\ e.len = Cardinality(Live(b.slots))
         /\ e.dead_records = Len(b.slots) - e.len /\ e.dead_strings = b.strings - e.len
    <2> DEFINE len == Len(a.slots)
    <2> DEFINE live == a.slots[s].live
    <2> DEFINE same == c[n].path = a.slots[s].row.path
    <2>1. /\ p.len \in Int /\ a.strings \in Int /\ len \in Int
          /\ Len(b.slots) = len /\ p.dead_records = len - p.len
          /\ p.dead_strings = a.strings - p.len
        BY <1>0, <1>4, <1>5, <1>9 DEF IndexType
    <2>2. e.len = Cardinality(Live(b.slots))
        BY <1>5, <1>7, <1>9, <1>10
    <2>3. \A k, m \in Int : /\ (k - m) + 1 = k - (m - 1)
                            /\ (k - m) - 1 = k - (m + 1)
                            /\ (k - m) + 1 = (k + 1) - m
                            /\ k - m = (k + 1) - (m + 1)
        OBVIOUS
    <2> HIDE DEF len
    <2>4. CASE c[n] = Absent
      <3>1. b.strings = a.strings
          BY <1>8, <2>4
      <3>2. CASE live
        <4>1. /\ e.len = p.len - 1 /\ e.dead_records = p.dead_records + 1
              /\ e.dead_strings = p.dead_strings + 1
            BY <1>10, <2>4, <3>2
        <4> QED
            BY <2>1, <2>2, <2>3, <3>1, <4>1
      <3>3. CASE ~live
        <4>1. /\ e.len = p.len /\ e.dead_records = p.dead_records
              /\ e.dead_strings = p.dead_strings
            BY <1>10, <2>4, <3>3
        <4> QED
            BY <2>1, <2>2, <3>1, <4>1
      <3> QED
          BY <3>2, <3>3
    <2>5. CASE c[n] # Absent /\ live
      <3>1. /\ e.len = p.len /\ e.dead_records = p.dead_records
            /\ e.dead_strings = IF same THEN p.dead_strings ELSE p.dead_strings + 1
            /\ b.strings = IF same THEN a.strings ELSE a.strings + 1
          BY <1>8, <1>10, <2>5
      <3> HIDE DEF same
      <3> QED
          BY <2>1, <2>2, <2>3, <3>1
    <2>6. CASE c[n] # Absent /\ ~live
      <3>1. /\ e.len = p.len + 1 /\ e.dead_records = p.dead_records - 1
            /\ e.dead_strings = IF same THEN p.dead_strings - 1 ELSE p.dead_strings
            /\ b.strings = IF same THEN a.strings ELSE a.strings + 1
          BY <1>8, <1>10, <2>6
      <3> HIDE DEF same
      <3> QED
          BY <2>1, <2>2, <2>3, <3>1
    <2> QED
        BY <2>4, <2>5, <2>6
  <1>16. Progress(ix, c, n, b, e)
      BY <1>0, <1>5, <1>8, <1>9, <1>10, <1>12, <1>13, <1>14, <1>15 DEF Progress
  <1> QED
      BY <1>16 DEF b, e

\* The equations of the plan and of the changes have solutions, and are taken.
LEMMA PlanLoop ==
    ASSUME NEW ix, WellPacked(ix), NEW c, ChangeSet(c)
    PROVE  \E b :
              /\ Planned(ix, c) = b[MaxId]
              /\ b[0] = ix
              /\ \A n \in 1 .. MaxId :
                    b[n] = IF n \notin DOMAIN c THEN b[n - 1] ELSE account(b[n - 1], n, c[n])
  <1> DEFINE S == {x \in IndexType : x.slots = ix.slots}
  <1> DEFINE turn(x, n) == IF n \notin DOMAIN c THEN x ELSE account(x, n, c[n])
  <1> DEFINE step == [n \in 1 .. MaxId |-> [x \in S |-> turn(x, n)]]
  <1> DEFINE Eq(b) == b = [n \in 0 .. MaxId |-> IF n = 0 THEN ix ELSE turn(b[n - 1], n)]
  <1>0. ASSUME NEW n \in 1 .. MaxId, NEW x \in S PROVE turn(x, n) \in S
    <2>1. CASE n \notin DOMAIN c
        BY <2>1
    <2>2. CASE n \in DOMAIN c
      <3>1. x \in IndexType /\ Sorted(x.slots) /\ n \in Ids /\ c[n] \in Row \cup {Absent}
          BY <2>2 DEF WellPacked, ChangeSet
      <3>2. account(x, n, c[n]) \in IndexType /\ account(x, n, c[n]).slots = x.slots
          BY <3>1, AccountIs
      <3> QED
          BY <2>2, <3>2
    <2> QED
        BY <2>1, <2>2
  <1>a. Planned(ix, c) = (CHOOSE b : Eq(b))[MaxId]
      BY DEF Planned
  <1> HIDE DEF turn
  <1>b. ix \in S
      BY DEF WellPacked
  <1> HIDE DEF S
  <1>1. Turns(MaxId, S, step)
      BY <1>0 DEF Turns
  <1>2. \A n \in 1 .. MaxId, x \in S : step[n][x] = turn(x, n)
      OBVIOUS
  <1> HIDE DEF step
  <1>3. PICK g : Loop(MaxId, S, ix, step, g)
      BY <1>1, <1>b, Recursion, Bounds
  <1>4. Eq(g)
    <2>1. ASSUME NEW n \in 0 .. MaxId, n # 0 PROVE g[n] = turn(g[n - 1], n)
      <3>1. n \in 1 .. MaxId /\ n - 1 \in 0 .. MaxId
          BY <2>1, Bounds
      <3>2. g[n - 1] \in S /\ g[n] = step[n][g[n - 1]]
          BY <1>3, <3>1 DEF Loop
      <3> QED
          BY <1>2, <3>1, <3>2
    <2> QED
        BY <1>3, <2>1 DEF Loop
  <1> DEFINE b == CHOOSE b : Eq(b)
  <1>5. Eq(b)
    <2> HIDE DEF Eq
    <2> QED
        BY <1>4
  <1>6. Planned(ix, c) = b[MaxId]
      BY <1>a
  <1> HIDE DEF b
  <1>7. b[0] = ix /\ \A n \in 1 .. MaxId : b[n] = turn(b[n - 1], n)
      BY <1>5, Bounds
  <1> QED
      BY <1>6, <1>7 DEF turn

\* The loop of the changes, likewise.
LEMMA ChangeLoop ==
    ASSUME NEW ix, WellPacked(ix), NEW c, ChangeSet(c)
    PROVE  \E b :
              /\ Changed(ix, c) = b[MaxId]
              /\ b[0] = ix
              /\ \A n \in 1 .. MaxId :
                    b[n] = IF n \notin DOMAIN c THEN b[n - 1]
                           ELSE ApplyOne(b[n - 1], n, c[n], find_id(ix, n))
  <1> DEFINE S == {x \in IndexType : Len(ix.slots) <= Len(x.slots)}
  <1> DEFINE turn(x, n) == IF n \notin DOMAIN c THEN x ELSE ApplyOne(x, n, c[n], find_id(ix, n))
  <1> DEFINE step == [n \in 1 .. MaxId |-> [x \in S |-> turn(x, n)]]
  <1> DEFINE Eq(b) == b = [n \in 0 .. MaxId |-> IF n = 0 THEN ix ELSE turn(b[n - 1], n)]
  <1>c. ix \in IndexType /\ Sorted(ix.slots) /\ Len(ix.slots) \in Nat
        /\ DOMAIN ix.slots = 1 .. Len(ix.slots)
      BY SlotsType DEF WellPacked
  <1>0. ASSUME NEW n \in 1 .. MaxId, NEW x \in S PROVE turn(x, n) \in S
    <2> DEFINE s == find_id(ix, n)
    <2> DEFINE e == ApplyOne(x, n, c[n], s)
    <2>1. CASE n \notin DOMAIN c
        BY <2>1
    <2>2. CASE n \in DOMAIN c
      <3>1. /\ x \in IndexType /\ n \in Ids /\ c[n] \in Row \cup {Absent}
            /\ Len(ix.slots) <= Len(x.slots)
          BY <2>2 DEF ChangeSet
      <3>2. Len(x.slots) \in Nat /\ DOMAIN x.slots = 1 .. Len(x.slots) /\ x.slots \in Seq(Slot)
          BY <3>1, SlotsType
      <3>3. s = 0 \/ s \in DOMAIN x.slots
          BY <1>c, <3>1, <3>2, FindIdIsExact
      <3> HIDE DEF s
      <3>4. CASE s = 0 /\ c[n] = Absent
          BY <2>2, <3>4 DEF ApplyOne, s
      <3>5. CASE s = 0 /\ c[n] # Absent
        <4>1. e = Append1(x, n, c[n]) /\ c[n] \in Row
            BY <3>1, <3>5 DEF ApplyOne
        <4> HIDE DEF e
        <4>2. e \in IndexType /\ e.slots = Append(x.slots, [id |-> n, row |-> c[n], live |-> TRUE])
            BY <3>1, <4>1, AppendIs
        <4>3. Len(e.slots) = Len(x.slots) + 1
            BY <3>2, <4>2
        <4>4. e \in S
            BY <1>c, <3>1, <3>2, <4>2, <4>3
        <4> QED
            BY <2>2, <4>4 DEF e, s
      <3>6. CASE s \in DOMAIN x.slots
        <4>1. e \in IndexType /\ \E y \in Slot : ReplacedBy(x, e, s, c[n], y)
            BY <3>1, <3>6, ApplyOneIs
        <4> HIDE DEF e
        <4>2. PICK y \in Slot : ReplacedBy(x, e, s, c[n], y)
            BY <4>1
        <4>3. e.slots = [x.slots EXCEPT ![s] = y]
            BY <4>2 DEF ReplacedBy
        <4>4. Len(e.slots) = Len(x.slots)
            BY <3>2, <3>6, <4>3
        <4>5. e \in S
            BY <3>1, <4>1, <4>4
        <4> QED
            BY <2>2, <4>5 DEF e, s
      <3> QED
          BY <3>3, <3>4, <3>5, <3>6
    <2> QED
        BY <2>1, <2>2
  <1>a. Changed(ix, c) = (CHOOSE b : Eq(b))[MaxId]
      BY DEF Changed
  <1> HIDE DEF turn
  <1>b. ix \in S
      BY <1>c
  <1> HIDE DEF S
  <1>1. Turns(MaxId, S, step)
      BY <1>0 DEF Turns
  <1>2. \A n \in 1 .. MaxId, x \in S : step[n][x] = turn(x, n)
      OBVIOUS
  <1> HIDE DEF step
  <1>3. PICK g : Loop(MaxId, S, ix, step, g)
      BY <1>1, <1>b, Recursion, Bounds
  <1>4. Eq(g)
    <2>1. ASSUME NEW n \in 0 .. MaxId, n # 0 PROVE g[n] = turn(g[n - 1], n)
      <3>1. n \in 1 .. MaxId /\ n - 1 \in 0 .. MaxId
          BY <2>1, Bounds
      <3>2. g[n - 1] \in S /\ g[n] = step[n][g[n - 1]]
          BY <1>3, <3>1 DEF Loop
      <3> QED
          BY <1>2, <3>1, <3>2
    <2> QED
        BY <1>3, <2>1 DEF Loop
  <1> DEFINE b == CHOOSE b : Eq(b)
  <1>5. Eq(b)
    <2> HIDE DEF Eq
    <2> QED
        BY <1>4
  <1>6. Changed(ix, c) = b[MaxId]
      BY <1>a
  <1> HIDE DEF b
  <1>7. b[0] = ix /\ \A n \in 1 .. MaxId : b[n] = turn(b[n - 1], n)
      BY <1>5, Bounds
  <1> QED
      BY <1>6, <1>7 DEF turn

\* A delta that is not refused turns the contents into the contents with the changes,
\* and leaves an index in order with exact counters: apply_changes.
THEOREM DeltaIsExact ==
    ASSUME NEW ix, WellPacked(ix), NEW c, ChangeSet(c), ~NeedsFullReload(ix, c)
    PROVE  WellPacked(Applied(ix, c)) /\ Contents(Applied(ix, c)) = Patch(Contents(ix), c)
  <1>0. ~NonMonotonic(ix, c) /\ ix \in IndexType /\ ix.ids_sorted /\ Sorted(ix.slots)
      BY DEF NeedsFullReload, WellPacked
  <1>1. PICK p :
              /\ Planned(ix, c) = p[MaxId]
              /\ p[0] = ix
              /\ \A n \in 1 .. MaxId :
                    p[n] = IF n \notin DOMAIN c THEN p[n - 1] ELSE account(p[n - 1], n, c[n])
      BY PlanLoop
  <1>2. PICK a :
              /\ Changed(ix, c) = a[MaxId]
              /\ a[0] = ix
              /\ \A n \in 1 .. MaxId :
                    a[n] = IF n \notin DOMAIN c THEN a[n - 1]
                           ELSE ApplyOne(a[n - 1], n, c[n], find_id(ix, n))
      BY ChangeLoop
  <1> DEFINE Good(n) == Progress(ix, c, n, a[n], p[n])
  <1> DEFINE T == {n \in 0 .. MaxId : ~Good(n)}
  <1>3. Good(0)
    <2>1. \A i \in Ids : ~(i <= 0)
        BY Bounds DEF Ids
    <2>2. Len(ix.slots) <= Len(ix.slots)
        BY <1>0, SlotsType
    <2>3. /\ ix.len = Cardinality(Live(ix.slots)) /\ ix.dead_records = Len(ix.slots) - ix.len
          /\ ix.dead_strings = ix.strings - ix.len
        BY CountersAre DEF WellPacked
    <2>4. Progress(ix, c, 0, ix, ix)
        BY <1>0, <2>1, <2>2, <2>3 DEF Progress
    <2> QED
        BY <1>1, <1>2, <2>4
  <1>4. ASSUME NEW n \in 1 .. MaxId, Good(n - 1) PROVE Good(n)
    <2>1. CASE n \notin DOMAIN c
      <3>1. a[n] = a[n - 1] /\ p[n] = p[n - 1]
          BY <1>1, <1>2, <2>1
      <3> DEFINE b == a[n - 1]
      <3> DEFINE q == p[n - 1]
      <3>2. Progress(ix, c, n - 1, b, q)
          BY <1>4
      <3>3. n \in Nat /\ Ids \subseteq Nat
          BY Bounds DEF Ids
      <3> HIDE DEF b, q
      <3>4. b \in IndexType
          BY <3>2 DEF Progress
      <3>5. \A i \in Ids : i \in DOMAIN c /\ i <= n <=> i \in DOMAIN c /\ i <= n - 1
          BY <2>1, <3>3
      <3>6. \A s \in DOMAIN ix.slots : ix.slots[s].id > n => ix.slots[s].id > n - 1
          BY <1>0, <3>3, SlotsType
      <3>7. \A s \in DOMAIN b.slots : b.slots[s].id <= n - 1 => b.slots[s].id <= n
          BY <3>3, <3>4, SlotsType
      <3>8. \A i \in Ids : Held(b, i) = IF i \in DOMAIN c /\ i <= n THEN c[i] ELSE Held(ix, i)
          BY <3>2, <3>5 DEF Progress
      <3>9. Progress(ix, c, n, b, q)
          BY <3>2, <3>6, <3>7, <3>8 DEF Progress
      <3> QED
          BY <3>1, <3>9 DEF b, q
    <2>2. CASE n \in DOMAIN c
      <3>1. a[n] = ApplyOne(a[n - 1], n, c[n], find_id(ix, n)) /\ p[n] = account(p[n - 1], n, c[n])
          BY <1>1, <1>2, <2>2
      <3>2. CASE find_id(ix, n) = 0
          BY <1>0, <1>4, <2>2, <3>1, <3>2, ProgressNew
      <3>3. CASE find_id(ix, n) # 0
          BY <1>0, <1>4, <2>2, <3>1, <3>3, ProgressOld
      <3> QED
          BY <3>2, <3>3
    <2> QED
        BY <2>1, <2>2
  <1> HIDE DEF Good
  <1>5. T = {}
    <2>1. T \in SUBSET Nat
        OBVIOUS
    <2> SUFFICES ASSUME NEW k \in T, \A y \in T : k <= y PROVE FALSE
      <3> HIDE DEF T
      <3> QED
          BY <2>1, Least
    <2>2. k \in 0 .. MaxId /\ ~Good(k)
        OBVIOUS
    <2>3. k \in 1 .. MaxId /\ k - 1 \in 0 .. MaxId /\ k - 1 < k
        BY <1>3, <2>2, Bounds
    <2>4. k - 1 \notin T
      <3> HIDE DEF T
      <3> QED
          BY <2>3
    <2>5. Good(k - 1)
        BY <2>3, <2>4
    <2> QED
        BY <1>4, <2>2, <2>3, <2>5
  <1>6. Good(MaxId)
      BY <1>5, Bounds
  <1> DEFINE b == Changed(ix, c)
  <1> DEFINE q == Planned(ix, c)
  <1> DEFINE e == Applied(ix, c)
  <1>7. Progress(ix, c, MaxId, b, q)
      BY <1>1, <1>2, <1>6 DEF Good
  <1>8. e = [b EXCEPT !.len = q.len, !.dead_records = q.dead_records,
                      !.dead_strings = q.dead_strings]
      BY DEF Applied
  <1> HIDE DEF b, q, e
  <1>9. /\ b \in IndexType /\ q \in IndexType /\ b.ids_sorted /\ Sorted(b.slots)
        /\ q.len = Cardinality(Live(b.slots)) /\ q.dead_records = Len(b.slots) - q.len
        /\ q.dead_strings = b.strings - q.len
        /\ \A i \in Ids : Held(b, i) = IF i \in DOMAIN c /\ i <= MaxId THEN c[i] ELSE Held(ix, i)
      BY <1>7 DEF Progress
  <1>10. /\ e \in IndexType /\ e.slots = b.slots /\ e.ids_sorted = b.ids_sorted
         /\ e.strings = b.strings /\ e.len = q.len /\ e.dead_records = q.dead_records
         /\ e.dead_strings = q.dead_strings
      BY <1>8, <1>9 DEF IndexType
  <1>11. WellPacked(e)
      BY <1>9, <1>10, CountersAre DEF WellPacked
  <1>12. \A i \in Ids : Held(e, i) = IF i \in DOMAIN c THEN c[i] ELSE Held(ix, i)
    <2>1. \A i \in Ids : Held(e, i) = Held(b, i) /\ i <= MaxId
        BY <1>10, Bounds DEF Held, Ids
    <2> QED
        BY <1>9, <2>1
  <1>13. Contents(e) = Patch(Contents(ix), c)
      BY <1>12 DEF Contents, Patch
  <1> QED
      BY <1>11, <1>13 DEF e

\* The comparison of snapshots hands over what turns the index into the table.
LEMMA DiffIsExact ==
    ASSUME NEW ix, NEW f \in Tables
    PROVE  ChangeSet(Diff(ix, f)) /\ Patch(Contents(ix), Diff(ix, f)) = f
  <1>1. f = [i \in Ids |-> f[i]] /\ \A i \in Ids : f[i] \in Row \cup {Absent}
      BY TableRow
  <1>2. ChangeSet(Diff(ix, f))
      BY <1>1 DEF ChangeSet, Diff, DiffIds
  <1>3. \A i \in Ids : Patch(Contents(ix), Diff(ix, f))[i] = f[i]
      BY DEF Patch, Contents, Diff, DiffIds
  <1>4. Patch(Contents(ix), Diff(ix, f)) = [i \in Ids |-> f[i]]
      BY <1>3 DEF Patch
  <1> QED
      BY <1>1, <1>2, <1>4
=============================================================================
