--------------------------- MODULE RecoveryProofs ---------------------------
(***************************************************************************)
(* No change is lost, for every tree, every bound and every number of      *)
(* faults and crashes: what the index shows wrongly is ahead in the log,   *)
(* in the inbox, or in the debts of the worker; and what the worker has    *)
(* not settled is after the stored checkpoint.                             *)
(***************************************************************************)
EXTENDS WatcherProofs, FiniteSetTheorems, WellFoundedInduction

\* A change at or above p that the worker has not taken from the inbox.
Incoming(p) ==
    \/ LoggedAfter(delivered, p)
    \/ inbox.rescan_roots
    \/ p \in Below(inbox.paths)

\* Where the log stands for the plan: at its watermark, or at the stored one.
Anchored == pend.max_event_id # 0 \/ ckpt # 0
Since == IF pend.max_event_id # 0 THEN LogPosition(pend.max_event_id) ELSE LogPosition(ckpt)

\* The three places a change can still be found in: ahead of the worker, after
\* the watermark of the plan, and after the stored checkpoint.
Views == {"ahead", "batch", "stored"}

Covers(i, p) ==
    /\ i = "ahead" => Incoming(p)
    /\ i = "batch" /\ Anchored => LoggedAfter(Since, p)
    /\ i = "stored" /\ ckpt # 0 => LoggedAfter(LogPosition(ckpt), p)


\* A row that a deferred cleanup will delete.
Doomed(p) == \E t \in Paths : p \in Sub[t] /\ rows[p].gen < pend.deferred_cleanups[t]

Undone(p) ==
    \/ pend.rescan_roots \/ pend.retry_roots \/ pend.full_recovery_obligation
    \/ p \in Below(pend.paths \cup pend.retry_paths \cup queue \cup scan.targets)

Debt(p) == Undone(p) \/ (fs[p] = "none" /\ Doomed(p))

\* The paths the invariant speaks of: those with a file, and the others too
\* when no directory is ever replaced by a leaf.
Tracked(p) == fs[p] # "none" \/ StableKinds

\* A value that a running scan met and that is no longer there has its event
\* ahead.
MetKept ==
    \A i \in Views : \A p \in Below(scan.targets) \ Excluded : \A v \in scan.met[p] :
        v # fs[p] => Covers(i, p)

\* A row that is not as the file is.
RowsKept ==
    \A p \in Indexed : Tracked(p) /\ Stale(p) =>
        /\ pc # "down" => Covers("ahead", p) \/ Debt(p)
        /\ Covers("batch", p) \/ Debt(p)
        /\ Covers("stored", p)

\* A deferred cleanup never deletes the row of a file but for a pending work.
DoomedKept ==
    \A i \in {"ahead", "batch"} : \A p \in Indexed :
        fs[p] # "none" /\ Doomed(p) => Covers(i, p) \/ Undone(p)

\* Generations only grow.
Gens ==
    /\ \A p \in Paths : rows[p].gen <= gen
    /\ \A t \in Paths : pend.deferred_cleanups[t] <= gen

\* The targets of a batch are apart, and an exact scan is apart from the
\* deferred cleanups.
Batch ==
    /\ pc \notin {"paths", "path_scan"} => queue = {}
    /\ pc \in {"paths", "path_scan"} =>
          \A a, b \in queue \cup scan.targets : a # b => Sub[a] \cap Sub[b] = {}
    /\ pc = "path_scan" => \E t \in Tree \ Excluded : t \notin queue /\ scan.targets = {t}
    /\ pc \in {"roots_scan", "path_scan"} /\ scan.exact => ~legacy
    /\ pc \in {"roots_scan", "paths", "path_scan"} /\ ~legacy =>
          \A d \in Deferred(pend) : \A q \in queue \cup scan.targets : Sub[d] \cap Sub[q] = {}

\* A row below a path, and a value met below it, were those of a file there,
\* so the path can be a directory.
Parents ==
    \A a, p \in Tree : p \in Sub[a] /\ p # a =>
        /\ rows[p].val # "none" => "dir" \in Kinds[a]
        /\ scan.met[p] \subseteq {"none"} \/ "dir" \in Kinds[a]

RecoveryInv == MetKept /\ RowsKept /\ DoomedKept /\ Gens /\ Batch /\ Parents

-----------------------------------------------------------------------------
(* Paths.                                                                  *)

\* What is below a path of S is below S.
LEMMA BelowDown ==
    ASSUME NEW S \in SUBSET Paths, NEW a \in Paths, NEW p \in Sub[a], a \in Below(S)
    PROVE  p \in Below(S) /\ p \in Paths
  <1>1. PICK s \in S : a \in Sub[s]
      BY DEF Below
  <1>2. Sub[a] \subseteq Sub[s] /\ p \in Paths
      BY <1>1, TreeAssumption
  <1> QED
      BY <1>1, <1>2 DEF Below

\* What is above an indexed path, in the trees, is indexed.
LEMMA IndexedUp ==
    ASSUME NEW p \in Indexed, NEW a \in Tree, p \in Sub[a]
    PROVE  a \in Indexed
  BY ExcludedAssumption DEF Indexed

\* Every path of S is below a folded one: the highest path of S above it.
LEMMA FoldCovers ==
    ASSUME NEW S \in SUBSET Paths, NEW p \in Below(S)
    PROVE  p \in Below(fold_refresh_paths(S))
  <1> DEFINE Up == {a \in S : p \in Sub[a]}
             T == {Paths \ Sub[a] : a \in Up}
             Less == StrictSubsetOrdering(Paths)
  <1>1. \A a \in Paths : Paths \ Sub[a] \in FiniteSubsetsOf(Paths)
      BY TreeAssumption, FS_Subset DEF FiniteSubsetsOf
  <1>2. T \subseteq FiniteSubsetsOf(Paths) /\ T # {}
      BY <1>1 DEF Below
  <1>3. IsWellFoundedOn(Less, FiniteSubsetsOf(Paths))
      BY FS_StrictSubsetOrderingWellFounded
  <1> HIDE DEF T, Less
  <1>4. PICK x \in T : \A y \in T : ~(<<y, x>> \in Less)
      BY <1>2, <1>3, WFMin
  <1>5. PICK a \in Up : x = Paths \ Sub[a]
      BY DEF T
  <1>6. ASSUME NEW b \in S, a \in Sub[b] PROVE b = a
      <2>1. Sub[a] \subseteq Sub[b] /\ p \in Sub[b] /\ Sub[b] \subseteq Paths /\ b \in Sub[b]
          BY <1>5, <1>6, TreeAssumption
      <2>2. Paths \ Sub[b] \in T
          BY <2>1 DEF T
      <2>3. ~(<<Paths \ Sub[b], x>> \in Less)
          BY <1>4, <2>2
      <2>4. Paths \ Sub[b] = x
          BY <1>5, <2>1, <2>3 DEF Less, StrictSubsetOrdering
      <2>5. b \in Sub[a]
          BY <1>5, <2>1, <2>4
      <2> QED
          BY <1>5, <1>6, <2>5, TreeAssumption
  <1> QED
      BY <1>5, <1>6 DEF fold_refresh_paths, Below

\* The folded paths are apart.
LEMMA FoldApart ==
    ASSUME NEW S \in SUBSET Paths,
           NEW a \in fold_refresh_paths(S), NEW b \in fold_refresh_paths(S), a # b
    PROVE  Sub[a] \cap Sub[b] = {}
  BY TreeAssumption DEF fold_refresh_paths

-----------------------------------------------------------------------------
(* Where a change can be found.                                            *)

\* Positions are numbers.
LEMMA PositionNat == ASSUME Inv PROVE \A id \in Nat : LogPosition(id) \in Nat
  BY Facts, WatcherAssumption DEF LogPosition

\* The state as the steps below use it.
LEMMA State ==
    ASSUME Inv
    PROVE  /\ ckpt \in Nat /\ pend.max_event_id \in Nat /\ Since \in Nat
           /\ delivered \in Nat /\ LogPosition(ckpt) \in Nat
           /\ inbox.paths \subseteq Paths /\ scan.targets \subseteq Tree
           /\ log \in Seq(Tree \cup {Wrapped}) /\ Len(log) \in Nat
           /\ fs \in [Tree -> Vals] /\ Coherent(fs)
           /\ \A p \in Tree : fs[p] \in Kinds[p]
           /\ rows \in [Paths -> Row] /\ gen \in Nat
           /\ scan.met \in [Paths -> SUBSET Vals]
           /\ pend.deferred_cleanups \in [Paths -> Nat]
           /\ pend.paths \cup pend.retry_paths \cup queue \subseteq Tree
           /\ Deferred(pend) \subseteq Tree
           /\ scan.exact \in BOOLEAN
  <1>1. pend \in PendingType /\ inbox \in InboxType /\ scan \in ScanType
      BY DEF Inv, TypeOK
  <1>2. /\ pend.max_event_id \in Nat /\ inbox.paths \subseteq Paths
        /\ scan.met \in [Paths -> SUBSET Vals] /\ scan.exact \in BOOLEAN
        /\ pend.deferred_cleanups \in [Paths -> Nat]
      BY <1>1 DEF PendingType, InboxType, ScanType
  <1>3. log \in Seq(Tree \cup {Wrapped}) /\ Len(log) \in Nat /\ ckpt \in Nat /\ delivered \in Nat
      BY Facts DEF Inv, TypeOK
  <1>4. LogPosition(ckpt) \in Nat /\ Since \in Nat
      BY <1>2, <1>3, PositionNat DEF Since
  <1>5. fs \in [Tree -> Vals] /\ Coherent(fs) /\ \A p \in Tree : fs[p] \in Kinds[p]
      BY DEF Inv, TypeOK, FileSystems
  <1>6. scan.targets \subseteq Tree /\ pend.paths \cup pend.retry_paths \cup queue \subseteq Tree
        /\ Deferred(pend) \subseteq Tree
      BY DEF Inv, Scoped, NoScopeFailure
  <1>7. rows \in [Paths -> Row] /\ gen \in Nat
      BY DEF Inv, TypeOK
  <1> QED
      BY <1>2, <1>3, <1>4, <1>5, <1>6, <1>7

\* A logged change at or above a path is one above what is below the path.
LEMMA LoggedDown ==
    ASSUME Inv, NEW n \in Nat, NEW a \in Paths, NEW p \in Sub[a], LoggedAfter(n, a)
    PROVE  LoggedAfter(n, p)
  <1>1. PICK j \in n + 1 .. Len(log) : log[j] # Wrapped /\ a \in Sub[log[j]]
      BY DEF LoggedAfter
  <1>2. log[j] \in Paths
      BY <1>1, State, TreeInPaths
  <1>3. p \in Sub[log[j]]
      BY <1>1, <1>2, TreeAssumption
  <1> QED
      BY <1>1, <1>3 DEF LoggedAfter

\* What covers a path covers what is below it.
LEMMA CoversDown ==
    ASSUME Inv, NEW i \in Views, NEW a \in Paths, NEW p \in Sub[a], Covers(i, a)
    PROVE  Covers(i, p)
  <1>1. /\ delivered \in Nat /\ Since \in Nat /\ LogPosition(ckpt) \in Nat
        /\ inbox.paths \subseteq Paths
      BY State
  <1>2. CASE i = "ahead"
      <2>1. CASE LoggedAfter(delivered, a)
          BY <1>1, <1>2, <2>1, LoggedDown DEF Covers, Incoming
      <2>2. CASE inbox.rescan_roots
          BY <1>2, <2>2 DEF Covers, Incoming
      <2>3. CASE a \in Below(inbox.paths)
          BY <1>1, <1>2, <2>3, BelowDown DEF Covers, Incoming
      <2> QED
          BY <1>2, <2>1, <2>2, <2>3 DEF Covers, Incoming
  <1>3. CASE i = "batch"
      BY <1>1, <1>3, LoggedDown DEF Covers
  <1>4. CASE i = "stored"
      BY <1>1, <1>4, LoggedDown DEF Covers
  <1> QED
      BY <1>2, <1>3, <1>4 DEF Views

\* A step that leaves the log, the inbox and the ids alone.
LEMMA CoversSame ==
    ASSUME UNCHANGED <<log, wrap, delivered, inbox, ckpt>>,
           pend'.max_event_id = pend.max_event_id, NEW i \in Views, NEW p
    PROVE  Covers(i, p)' <=> Covers(i, p)
  BY DEF Covers, Incoming, LoggedAfter, Anchored, Since, LogPosition

-----------------------------------------------------------------------------
(* What the commit of a scan leaves in the rows.                           *)

\* R is what the walk hands back for retry, D the targets whose cleanup it
\* defers.  A row that is wrong after the commit has its event ahead, or was
\* wrong before and is retried or deferred; the row of a file carries the new
\* generation, unless its event is ahead, it is retried, or the scan is exact.
Commits(R, D) ==
    /\ \A p \in Paths \ Below(scan.targets) : rows'[p] = rows[p]
    /\ \A p \in Paths : /\ rows'[p].gen <= gen + 1
                        /\ rows'[p].val \in {"none", rows[p].val} \cup scan.met[p]
    /\ \A i \in Views : \A p \in Below(scan.targets) \ Excluded :
          /\ Tracked(p) /\ rows'[p].val # fs[p] =>
                \/ Covers(i, p)
                \/ /\ Stale(p)
                   /\ p \in Below(R) \/ (p \in Below(D) /\ fs[p] = "none" /\ rows'[p] = rows[p])
          /\ fs[p] # "none" =>
                Covers(i, p) \/ p \in Below(R) \/ scan.exact \/ rows'[p].gen = gen + 1

\* A scan runs below its targets, in the trees.
LEMMA ScanBelow ==
    ASSUME Inv
    PROVE  /\ Below(scan.targets) \subseteq Tree /\ Below(scan.targets) \subseteq Paths
           /\ \A t \in scan.targets : t \in Tree /\ t \in Paths /\ Sub[t] \subseteq Below(scan.targets)
           /\ \A obs : WalkAll(scan.targets, obs) \subseteq Below(scan.targets)
  <1>1. scan.targets \subseteq Tree /\ Tree \subseteq Paths
      BY State, TreeInPaths
  <1>2. Below(scan.targets) \subseteq Tree
      BY <1>1, BelowTree
  <1>3. \A t \in scan.targets : Sub[t] \subseteq Below(scan.targets)
      BY DEF Below
  <1>4. ASSUME NEW obs PROVE WalkAll(scan.targets, obs) \subseteq Below(scan.targets)
      BY DEF WalkAll, Walk, Below
  <1> QED
      BY <1>1, <1>2, <1>3, <1>4

\* The facts about a running scan.
LEMMA ScanFacts ==
    ASSUME Inv, MetKept, NEW obs \in Observations
    PROVE  /\ \A p \in Below(scan.targets) : p \in Tree /\ p \in Paths /\ obs[p] \in scan.met[p]
           /\ \A i \in Views : \A p \in Below(scan.targets) \ Excluded :
                 obs[p] # fs[p] => Covers(i, p)
  <1>1. \A p \in Below(scan.targets) : p \in Tree /\ p \in Paths /\ obs[p] \in scan.met[p]
      BY State, BelowTree, TreeInPaths DEF Observations
  <1> QED
      BY <1>1 DEF MetKept

\* A file that the walk did not reach has its event ahead: it, or a directory
\* above it, was not there when the scan looked.
LEMMA NotWalked ==
    ASSUME Inv, MetKept, NEW obs \in Observations, NEW t \in scan.targets,
           NEW p \in Sub[t] \ Excluded, p \notin Walk(t, obs), fs[p] # "none", NEW i \in Views
    PROVE  Covers(i, p)
  <1>1. /\ scan.targets \subseteq Tree /\ Tree \subseteq Paths /\ t \in Paths /\ t \in Tree
        /\ Sub[t] \subseteq Below(scan.targets) /\ Sub[t] \subseteq Tree
      <2>1. scan.targets \subseteq Tree /\ Tree \subseteq Paths
          BY State, TreeInPaths
      <2> QED
          BY <2>1, ScanBelow
  <1>2. CASE obs[p] = "none"
      BY <1>1, <1>2, ScanFacts
  <1>3. CASE obs[p] # "none"
      <2>1. PICK a \in Sub[t] : p \in Sub[a] /\ a # p /\ obs[a] # "dir"
          BY <1>3 DEF Walk
      <2>2. fs[a] = "dir"
          BY <1>1, <2>1, State DEF Coherent
      <2>3. a \notin Excluded /\ a \in Paths
          BY <1>1, <2>1, ExcludedAssumption
      <2>4. Covers(i, a)
          BY <1>1, <2>1, <2>2, <2>3, ScanFacts
      <2> QED
          BY <2>1, <2>3, <2>4, CoversDown
  <1> QED
      BY <1>2, <1>3

\* The same of a walk of all targets.
LEMMA NotWalkedAll ==
    ASSUME Inv, MetKept, NEW obs \in Observations, NEW p \in Below(scan.targets) \ Excluded,
           p \notin WalkAll(scan.targets, obs), fs[p] # "none", NEW i \in Views
    PROVE  Covers(i, p)
  <1>1. PICK t \in scan.targets : p \in Sub[t]
      BY DEF Below
  <1>2. p \notin Walk(t, obs)
      BY DEF WalkAll
  <1> QED
      BY <1>1, <1>2, NotWalked

\* A complete scan leaves nothing behind.
LEMMA CompleteCommit ==
    ASSUME Inv, MetKept, Gens, NEW obs \in Observations,
           rows' = CompleteScan(rows, scan.targets, obs, gen + 1, scan.exact)
    PROVE  Commits({}, {})
  <1> DEFINE V == WalkAll(scan.targets, obs)
             B == Below(scan.targets)
             g == gen + 1
  <1>1. /\ rows \in [Paths -> Row] /\ gen \in Nat /\ scan.exact \in BOOLEAN
        /\ B \subseteq Paths /\ V \subseteq B
        /\ \A p \in Paths : rows[p].gen \in Nat /\ rows[p].gen <= gen
      <2>1. rows \in [Paths -> Row] /\ gen \in Nat /\ scan.exact \in BOOLEAN
          BY State
      <2>2. B \subseteq Paths /\ V \subseteq B
          BY ScanBelow
      <2> QED
          BY <2>1, <2>2 DEF Gens, Row
  <1>2. \A p \in V : p \notin Excluded /\ obs[p] # "none" /\ obs[p] \in scan.met[p]
      BY <1>1, ScanFacts DEF WalkAll, Walk
  <1> HIDE DEF V, B
  <1> DEFINE new == Upsert(rows, V, obs, g, scan.exact)
  <1>3. \A p \in V : /\ new[p].val = obs[p]
                     /\ new[p] = rows[p] \/ new[p].gen = g
                     /\ scan.exact \/ new[p].gen = g
      BY <1>1 DEF Upsert, Row
  <1>4. \A p \in Paths \ V : new[p] = rows[p]
      BY <1>1 DEF Upsert
  <1> HIDE DEF new
  <1>5. rows' = IF scan.exact THEN delete_unseen_under_roots(new, scan.targets, V)
                ELSE delete_stale_under_roots(new, scan.targets, g)
      BY DEF CompleteScan, new, V
  <1>6. \A p \in Paths : p \notin B => rows'[p] = rows[p]
      BY <1>1, <1>4, <1>5 DEF delete_unseen_under_roots, delete_stale_under_roots, B
  <1>7. \A p \in V : rows'[p] = new[p]
      <2> SUFFICES ASSUME NEW p \in V PROVE rows'[p] = new[p]
          OBVIOUS
      <2>1. CASE scan.exact
          BY <1>1, <1>5, <2>1 DEF delete_unseen_under_roots
      <2>2. CASE ~scan.exact
          <3>1. new[p].gen = g /\ ~(new[p].gen < g)
              BY <1>1, <1>3, <2>2
          <3> QED
              BY <1>1, <1>5, <2>2, <3>1 DEF delete_stale_under_roots
      <2> QED
          BY <2>1, <2>2
  <1>8. \A p \in B : p \notin V => rows'[p] = NoRow
      <2> SUFFICES ASSUME NEW p \in B, p \notin V PROVE rows'[p] = NoRow
          OBVIOUS
      <2>1. new[p].gen < g
          BY <1>1, <1>4
      <2> QED
          BY <1>1, <1>5, <2>1 DEF delete_unseen_under_roots, delete_stale_under_roots, B
  <1>9. NoRow.val = "none" /\ NoRow.gen = 0
      BY DEF NoRow
  <1>10. \A p \in Paths : rows'[p].gen <= gen + 1 /\ rows'[p].val \in {"none", rows[p].val} \cup scan.met[p]
      BY <1>1, <1>2, <1>3, <1>6, <1>7, <1>8, <1>9
  <1>11. ASSUME NEW i \in Views, NEW p \in B \ Excluded
         PROVE  /\ rows'[p].val # fs[p] => Covers(i, p)
                /\ fs[p] # "none" => Covers(i, p) \/ scan.exact \/ rows'[p].gen = gen + 1
      <2>1. CASE p \in V
          BY <1>3, <1>7, <1>11, <2>1, ScanFacts DEF B
      <2>2. CASE p \notin V
          <3>1. fs[p] # "none" => Covers(i, p)
              BY <1>11, <2>2, NotWalkedAll DEF B, V
          <3> QED
              BY <1>8, <1>9, <1>11, <2>2, <3>1
      <2> QED
          BY <2>1, <2>2
  <1> QED
      BY <1>6, <1>10, <1>11 DEF Commits, B

\* An incomplete one hands back what it did not reach, and defers the rest.
LEMMA PartialCommit ==
    ASSUME Inv, MetKept, Gens, NEW obs \in Observations,
           NEW V \in SUBSET WalkAll(scan.targets, obs), NEW R,
           PartialWalk(scan.targets, obs, V, R),
           \A p \in V : rows'[p].val = obs[p] /\ rows'[p].gen = gen + 1,
           \A p \in Paths \ V : rows'[p] = rows[p]
    PROVE  Commits(R, scan.targets)
  <1>1. /\ rows \in [Paths -> Row] /\ gen \in Nat
        /\ V \subseteq Below(scan.targets) /\ Below(scan.targets) \subseteq Paths
        /\ \A p \in Paths : rows[p].gen \in Nat /\ rows[p].gen <= gen
      <2>1. rows \in [Paths -> Row] /\ gen \in Nat
          BY State
      <2>2. V \subseteq Below(scan.targets) /\ Below(scan.targets) \subseteq Paths
          BY ScanBelow
      <2> QED
          BY <2>1, <2>2 DEF Gens, Row
  <1>2. \A p \in V : rows'[p].val = obs[p] /\ rows'[p].gen = gen + 1 /\ obs[p] \in scan.met[p]
      <2>1. \A p \in V : obs[p] \in scan.met[p]
          BY <1>1, ScanFacts
      <2> QED
          BY <2>1
  <1>3. \A p \in Paths \ V : rows'[p] = rows[p]
      OBVIOUS
  <1>4. \A p \in WalkAll(scan.targets, obs) \ V : p \in Below(R)
      BY DEF PartialWalk
  <1>5. ASSUME NEW p \in Paths
        PROVE  rows'[p].gen <= gen + 1 /\ rows'[p].val \in {"none", rows[p].val} \cup scan.met[p]
      <2>1. CASE p \in V
          BY <1>1, <1>2, <1>5, <2>1
      <2>2. CASE p \notin V
          BY <1>1, <1>3, <1>5, <2>2
      <2> QED
          BY <2>1, <2>2
  <1>6. ASSUME NEW i \in Views, NEW p \in Below(scan.targets) \ Excluded
        PROVE  /\ rows'[p].val # fs[p] =>
                     \/ Covers(i, p)
                     \/ /\ Stale(p)
                        /\ \/ p \in Below(R)
                           \/ p \in Below(scan.targets) /\ fs[p] = "none" /\ rows'[p] = rows[p]
               /\ fs[p] # "none" => Covers(i, p) \/ p \in Below(R) \/ rows'[p].gen = gen + 1
      <2>1. CASE p \in V
          BY <1>2, <1>6, <2>1, ScanFacts
      <2>2. CASE p \notin V /\ p \in WalkAll(scan.targets, obs)
          <3>1. p \in Below(R) /\ rows'[p] = rows[p]
              BY <1>1, <1>3, <1>4, <1>6, <2>2
          <3> QED
              BY <3>1 DEF Stale
      <2>3. CASE p \notin WalkAll(scan.targets, obs)
          <3>1. fs[p] # "none" => Covers(i, p)
              BY <1>6, <2>3, NotWalkedAll
          <3>2. rows'[p] = rows[p]
              BY <1>1, <1>3, <1>6, <2>3
          <3> QED
              BY <1>6, <3>1, <3>2 DEF Stale
      <2> QED
          BY <2>1, <2>2, <2>3
  <1> QED
      BY <1>1, <1>3, <1>5, <1>6 DEF Commits

\* A path that is gone takes its rows with it.
LEMMA AbsentCommit ==
    ASSUME Inv, MetKept, Gens, NEW t \in scan.targets, scan.targets = {t},
           "none" \in scan.met[t], t \notin Excluded, rows' = delete_path_prefix(rows, t)
    PROVE  Commits({}, {})
  <1>1. /\ t \in Tree /\ t \in Paths /\ Sub[t] \subseteq Tree /\ t \in Sub[t]
        /\ Below(scan.targets) = Sub[t] /\ Sub[t] \subseteq Paths
        /\ rows \in [Paths -> Row] /\ gen \in Nat /\ Coherent(fs)
        /\ \A p \in Paths : rows[p].gen \in Nat /\ rows[p].gen <= gen
      <2>1. t \in Tree /\ t \in Paths /\ Below(scan.targets) = Sub[t]
          BY State, TreeInPaths DEF Below
      <2>2. Sub[t] \subseteq Tree /\ t \in Sub[t] /\ Sub[t] \subseteq Paths
          BY <2>1, BelowTree, TreeAssumption DEF Below
      <2> QED
          BY <2>1, <2>2, State DEF Gens, Row
  <1>2. \A p \in Sub[t] : rows'[p].val = "none" /\ rows'[p].gen = 0
      BY <1>1 DEF delete_path_prefix, NoRow
  <1>3. \A p \in Paths \ Sub[t] : rows'[p] = rows[p]
      BY <1>1 DEF delete_path_prefix
  <1>4. ASSUME NEW i \in Views, NEW p \in Sub[t] \ Excluded, fs[p] # "none" PROVE Covers(i, p)
      <2>1. fs[t] # "none"
          BY <1>1, <1>4 DEF Coherent
      <2>2. Covers(i, t)
          BY <1>1, <2>1 DEF MetKept
      <2> QED
          BY <1>1, <1>4, <2>2, CoversDown
  <1>5. ASSUME NEW p \in Paths
        PROVE  rows'[p].gen <= gen + 1 /\ rows'[p].val \in {"none", rows[p].val} \cup scan.met[p]
      BY <1>1, <1>2, <1>3
  <1>6. \A i \in Views : \A p \in Below(scan.targets) \ Excluded : fs[p] # "none" => Covers(i, p)
      BY <1>1, <1>4
  <1>7. \A p \in Below(scan.targets) : rows'[p].val = "none"
      BY <1>1, <1>2
  <1> QED
      BY <1>1, <1>3, <1>5, <1>6, <1>7 DEF Commits

\* What LeafScan writes.
LEMMA LeafRows ==
    ASSUME Inv, MetKept, Gens, NEW t \in scan.targets, scan.targets = {t},
           NEW obs \in Observations, NEW V \in SUBSET Walk(t, obs), NEW x \in BOOLEAN,
           rows' = LeafScan(rows, t, V, obs, gen + 1, x)
    PROVE  /\ \A p \in Paths \ Sub[t] : rows'[p] = rows[p]
           /\ \A p \in V : /\ p \in Sub[t] /\ rows'[p].val = obs[p]
                           /\ x \/ rows'[p].gen = gen + 1
           /\ \A p \in Sub[t] \ V : \/ rows'[p] = rows[p]
                                    \/ rows[t].val = "dir" /\ rows'[p] = NoRow
           /\ \A p \in Paths : /\ rows'[p].gen <= gen + 1
                               /\ rows'[p].val \in {"none", rows[p].val} \cup scan.met[p]
  <1> DEFINE old == IF rows[t].val = "dir" THEN delete_path_prefix(rows, t) ELSE rows
  <1>1. /\ rows \in [Paths -> Row] /\ gen \in Nat /\ t \in Paths /\ Sub[t] \subseteq Paths
        /\ V \subseteq Sub[t] /\ Below(scan.targets) = Sub[t]
        /\ \A p \in Paths : rows[p].gen \in Nat /\ rows[p].gen <= gen
      <2>1. t \in Paths /\ Below(scan.targets) = Sub[t] /\ Sub[t] \subseteq Paths
          BY ScanBelow DEF Below
      <2>2. V \subseteq Sub[t]
          BY DEF Walk
      <2> QED
          BY <2>1, <2>2, State DEF Gens, Row
  <1>2. NoRow \in Row /\ NoRow.val = "none" /\ NoRow.gen = 0
      BY DEF NoRow, Row, Vals
  <1>3. old \in [Paths -> Row]
      BY <1>1, DeleteType
  <1>4. /\ \A p \in Paths \ Sub[t] : old[p] = rows[p]
        /\ \A p \in Sub[t] : old[p] = rows[p] \/ (rows[t].val = "dir" /\ old[p] = NoRow)
      BY <1>1 DEF delete_path_prefix
  <1>5. rows' = Upsert(old, V, obs, gen + 1, x)
      BY DEF LeafScan
  <1> HIDE DEF old
  <1>6. \A p \in Paths \ V : rows'[p] = old[p]
      BY <1>5 DEF Upsert
  <1>7. ASSUME NEW p \in V
        PROVE  /\ rows'[p].val = obs[p] /\ (x \/ rows'[p].gen = gen + 1)
               /\ rows'[p] = old[p] \/ rows'[p].gen = gen + 1
               /\ obs[p] \in scan.met[p]
      <2>1. p \in Paths /\ p \in Below(scan.targets)
          BY <1>1, <1>7
      <2>2. obs[p] \in scan.met[p]
          BY <2>1, ScanFacts
      <2>3. rows'[p] = IF x /\ old[p].val = obs[p] THEN old[p] ELSE [val |-> obs[p], gen |-> gen + 1]
          BY <1>5, <1>7, <2>1 DEF Upsert
      <2> QED
          BY <2>2, <2>3
  <1>8. \A p \in Paths : old[p].gen \in Nat /\ old[p].gen <= gen /\ old[p].val \in {"none", rows[p].val}
      BY <1>1, <1>2, <1>4
  <1>9. ASSUME NEW p \in Paths
        PROVE  rows'[p].gen <= gen + 1 /\ rows'[p].val \in {"none", rows[p].val} \cup scan.met[p]
      <2>1. CASE p \in V
          BY <1>1, <1>7, <1>8, <1>9, <2>1
      <2>2. CASE p \notin V
          BY <1>1, <1>6, <1>8, <1>9, <2>2
      <2> QED
          BY <2>1, <2>2
  <1> QED
      BY <1>1, <1>4, <1>6, <1>7, <1>9

\* A leaf below which there was a file at some time was a directory then: with
\* stable kinds, nothing is below a leaf.
LEMMA LeafHasNoRows ==
    ASSUME Inv, Parents, StableKinds, NEW t \in Tree, fs[t] \in Leaf, NEW p \in Sub[t], p # t
    PROVE  rows[p].val = "none"
  <1>1. p \in Tree
      BY BelowTree DEF Below
  <1>2. fs[t] \in Kinds[t]
      BY State
  <1>3. "dir" \notin Kinds[t]
      BY <1>2 DEF StableKinds
  <1> QED
      BY <1>1, <1>3 DEF Parents

\* The refresh of a leaf.
LEMMA LeafCommit ==
    ASSUME Inv, MetKept, Gens, Parents, NEW t \in scan.targets, scan.targets = {t}, t \notin Excluded,
           NEW v \in Leaf, v \in scan.met[t], NEW obs \in Observations,
           rows' = LeafScan(rows, t, Walk(t, obs), obs, gen + 1, scan.exact)
    PROVE  Commits({}, {})
  <1>0. /\ t \in Tree /\ t \in Paths /\ Below(scan.targets) = Sub[t] /\ t \in Sub[t]
        /\ scan.exact \in BOOLEAN
      BY State, ScanBelow, TreeAssumption DEF Below
  <1>1. /\ \A p \in Paths \ Sub[t] : rows'[p] = rows[p]
        /\ \A p \in Walk(t, obs) : rows'[p].val = obs[p] /\ (scan.exact \/ rows'[p].gen = gen + 1)
        /\ \A p \in Sub[t] \ Walk(t, obs) : rows'[p] = rows[p] \/ rows'[p] = NoRow
        /\ \A p \in Paths : /\ rows'[p].gen <= gen + 1
                            /\ rows'[p].val \in {"none", rows[p].val} \cup scan.met[p]
      BY <1>0, LeafRows
  <1>2. ASSUME NEW i \in Views, NEW p \in Sub[t] \ Excluded
        PROVE  /\ Tracked(p) /\ rows'[p].val # fs[p] => Covers(i, p)
               /\ fs[p] # "none" => Covers(i, p) \/ scan.exact \/ rows'[p].gen = gen + 1
      <2>1. CASE p \in Walk(t, obs)
          BY <1>0, <1>1, <1>2, <2>1, ScanFacts
      <2>2. CASE p \notin Walk(t, obs) /\ fs[p] # "none"
          BY <1>2, <2>2, NotWalked
      <2>3. CASE p \notin Walk(t, obs) /\ fs[p] = "none"
          <3> SUFFICES ASSUME Tracked(p), rows'[p].val # fs[p] PROVE Covers(i, p)
              BY <2>3
          <3>1. StableKinds /\ rows[p].val # "none"
              BY <1>1, <1>2, <2>3 DEF Tracked, NoRow
          <3>2. CASE fs[t] = v
              <4>1. p # t
                  BY <2>3, <3>2 DEF Leaf
              <4> QED
                  BY <1>0, <1>2, <3>1, <3>2, <4>1, LeafHasNoRows
          <3>3. CASE fs[t] # v
              <4>1. Covers(i, t)
                  BY <1>0, <3>3 DEF MetKept
              <4> QED
                  BY <1>0, <1>2, <4>1, CoversDown
          <3> QED
              BY <3>2, <3>3
      <2> QED
          BY <2>1, <2>2, <2>3
  <1> QED
      BY <1>0, <1>1, <1>2 DEF Commits

\* The refresh of a leaf whose walk then met errors: the target itself is
\* retried, or it changed while the scan ran.
LEMMA LeafPartialCommit ==
    ASSUME Inv, MetKept, Gens, NEW t \in scan.targets, scan.targets = {t}, t \notin Excluded,
           NEW v \in Leaf, v \in scan.met[t], NEW obs \in Observations,
           NEW V \in SUBSET Walk(t, obs), NEW R \in SUBSET Sub[t], PartialWalk({t}, obs, V, R),
           NEW x \in BOOLEAN, ~x, rows' = LeafScan(rows, t, V, obs, gen + 1, x)
    PROVE  Commits(R, {})
  <1>0. /\ t \in Tree /\ t \in Paths /\ Below(scan.targets) = Sub[t] /\ t \in Sub[t]
        /\ Sub[t] \subseteq Tree /\ Coherent(fs)
      BY State, ScanBelow, TreeAssumption DEF Below
  <1>1. /\ \A p \in Paths \ Sub[t] : rows'[p] = rows[p]
        /\ \A p \in V : p \in Sub[t] /\ rows'[p].val = obs[p] /\ rows'[p].gen = gen + 1
        /\ \A p \in Sub[t] \ V : \/ rows'[p] = rows[p]
                                 \/ rows[t].val = "dir" /\ rows'[p] = NoRow
        /\ \A p \in Paths : /\ rows'[p].gen <= gen + 1
                            /\ rows'[p].val \in {"none", rows[p].val} \cup scan.met[p]
      BY LeafRows
  <1>2. CASE t \in R
      <2>1. \A p \in Sub[t] : p \in Below(R)
          BY <1>2 DEF Below
      <2>2. ASSUME NEW i \in Views, NEW p \in Sub[t] \ Excluded, rows'[p].val # fs[p]
            PROVE  Covers(i, p) \/ Stale(p)
          <3>1. CASE p \in V
              BY <1>0, <1>1, <2>2, <3>1, ScanFacts
          <3>2. CASE rows'[p] = rows[p]
              BY <2>2, <3>2 DEF Stale
          <3>3. CASE rows[t].val = "dir" /\ rows'[p] = NoRow
              <4>1. fs[p] # "none"
                  BY <2>2, <3>3 DEF NoRow
              <4>2. CASE fs[t] = v
                  <5>1. v # "dir"
                      BY DEF Leaf
                  <5>2. p = t
                      BY <1>0, <2>2, <4>1, <4>2, <5>1 DEF Coherent
                  <5> QED
                      BY <3>3, <4>2, <5>1, <5>2 DEF Stale
              <4>3. CASE fs[t] # v
                  <5>1. Covers(i, t)
                      BY <1>0, <4>3 DEF MetKept
                  <5> QED
                      BY <1>0, <2>2, <5>1, CoversDown
              <4> QED
                  BY <4>2, <4>3
          <3> QED
              BY <1>1, <2>2, <3>1, <3>2, <3>3
      <2> QED
          BY <1>0, <1>1, <2>1, <2>2 DEF Commits
  <1>3. CASE t \notin R
      <2>1. PICK q \in R : q \in Sub[t] /\ q # t
          BY <1>3 DEF PartialWalk
      <2>2. t \in V
          BY <1>0, <2>1 DEF PartialWalk
      <2>3. obs[t] = "dir"
          BY <1>0, <2>1, <2>2 DEF PartialWalk, Below
      <2>4. obs[t] \in scan.met[t] /\ v # "dir"
          BY <1>0, ScanFacts DEF Leaf
      <2>5. \A i \in Views : Covers(i, t)
          BY <1>0, <2>3, <2>4 DEF MetKept
      <2>6. \A i \in Views : \A p \in Sub[t] : Covers(i, p)
          BY <1>0, <2>5, CoversDown
      <2> QED
          BY <1>0, <1>1, <2>6, ZenonT(60) DEF Commits
  <1> QED
      BY <1>2, <1>3

-----------------------------------------------------------------------------
(* What a step leaves of the invariant.                                    *)

\* No scan runs after the step.
LEMMA MetIdle == ASSUME scan'.targets = {} PROVE MetKept'
  BY DEF MetKept, Below

\* A scan that has just begun has met what is there.
LEMMA MetFresh ==
    ASSUME Inv, fs' = fs, NEW T \in SUBSET Tree, NEW x \in BOOLEAN, scan' = BeginScan(T, x)
    PROVE  MetKept'
  <1>1. scan'.targets = T /\ scan'.met = [p \in Paths |-> IF p \in Below(T) THEN {fs[p]} ELSE {}]
      BY DEF BeginScan
  <1>2. Below(T) \subseteq Paths
      BY BelowTree, TreeInPaths
  <1>3. \A p \in Below(T) : scan'.met[p] = {fs[p]}
      BY <1>1, <1>2
  <1> QED
      BY <1>1, <1>3 DEF MetKept

\* The commit of a scan of scan.targets, with what it retries and defers.
LEMMA CommitKeeps ==
    ASSUME Inv, RowsKept, DoomedKept, Gens, NEW R, NEW D, Commits(R, D),
           UNCHANGED <<fs, log, wrap, delivered, inbox, ckpt>>,
           pend'.max_event_id = pend.max_event_id,
           pc # "down", scan'.targets = {}, gen' = gen + 1,
           pend'.deferred_cleanups \in [Paths -> Nat],
           R \subseteq pend'.retry_paths,
           \A p \in Indexed : p \notin Below(scan.targets) /\ Undone(p) => Undone(p)',
           \A p \in Indexed : p \notin Below(scan.targets) => (Doomed(p)' <=> Doomed(p)),
           \A p \in Below(D) : p \in Paths /\ rows'[p].gen <= gen => Doomed(p)',
           \A t \in Paths : pend'.deferred_cleanups[t] <= gen + 1,
           scan.exact => \A p \in Below(scan.targets) : ~Doomed(p)'
    PROVE  RowsKept' /\ DoomedKept' /\ Gens'
  <1>1. \A i \in Views : \A p : Covers(i, p)' <=> Covers(i, p)
      BY CoversSame
  <1>2. Gens'
      BY DEF Gens, Commits
  <1>3. \A p \in Below(R) : Undone(p)'
      BY DEF Undone, Below
  <1>4. Indexed \subseteq Paths /\ gen \in Nat /\ rows \in [Paths -> Row]
      BY State, TreeInPaths DEF Indexed
  <1>5. ASSUME NEW p \in Indexed, Tracked(p)', Stale(p)'
        PROVE  /\ Covers("ahead", p)' \/ Debt(p)'
               /\ Covers("batch", p)' \/ Debt(p)'
               /\ Covers("stored", p)'
      <2>1. Tracked(p) /\ rows'[p].val # fs[p]
          BY <1>5 DEF Tracked, Stale, StableKinds
      <2>2. CASE p \notin Below(scan.targets)
          <3>1. rows'[p] = rows[p]
              BY <1>4, <1>5, <2>2 DEF Commits
          <3>2. Stale(p)
              BY <2>1, <3>1 DEF Stale
          <3>3. /\ Covers("ahead", p) \/ Debt(p)
                /\ Covers("batch", p) \/ Debt(p)
                /\ Covers("stored", p)
              BY <1>5, <2>1, <3>2 DEF RowsKept
          <3>4. Debt(p) => Debt(p)'
              BY <1>5, <2>2 DEF Debt
          <3> QED
              BY <1>1, <3>3, <3>4 DEF Views
      <2>3. CASE p \in Below(scan.targets)
          <3>1. ASSUME NEW i \in Views
                PROVE  \/ Covers(i, p)
                       \/ /\ Stale(p)
                          /\ p \in Below(R) \/ (p \in Below(D) /\ fs[p] = "none" /\ rows'[p] = rows[p])
              BY <1>5, <2>1, <2>3, <3>1 DEF Commits, Indexed
          <3>2. rows[p].gen <= gen
              BY <1>4, <1>5 DEF Gens
          <3>3. p \in Below(R) \/ (p \in Below(D) /\ fs[p] = "none" /\ rows'[p] = rows[p]) => Debt(p)'
              BY <1>3, <1>4, <1>5, <3>2 DEF Debt
          <3>4. Stale(p) => Covers("stored", p)
              BY <1>5, <2>1 DEF RowsKept
          <3> QED
              BY <1>1, <3>1, <3>3, <3>4 DEF Views
      <2> QED
          BY <2>2, <2>3
  <1>6. ASSUME NEW i \in {"ahead", "batch"}, NEW p \in Indexed, fs[p] # "none", Doomed(p)'
        PROVE  Covers(i, p)' \/ Undone(p)'
      <2>1. i \in Views
          BY <1>6 DEF Views
      <2>2. CASE p \notin Below(scan.targets)
          <3>1. Covers(i, p) \/ Undone(p)
              BY <1>6, <2>2 DEF DoomedKept
          <3> QED
              BY <1>1, <1>6, <2>1, <2>2, <3>1
      <2>3. CASE p \in Below(scan.targets)
          <3>1. Covers(i, p) \/ p \in Below(R) \/ scan.exact \/ rows'[p].gen = gen + 1
              BY <1>6, <2>1, <2>3 DEF Commits, Indexed
          <3>2. rows'[p].gen # gen + 1
              BY <1>4, <1>6 DEF Doomed
          <3> QED
              BY <1>1, <1>3, <1>6, <2>1, <2>3, <3>1, <3>2
      <2> QED
          BY <2>2, <2>3
  <1> QED
      BY <1>2, <1>5, <1>6 DEF RowsKept, DoomedKept

\* A step that writes no row: what covered a path, or owed it, goes on doing
\* so, and a view may hand a path over to the work.
LEMMA Keeps ==
    ASSUME Inv, RowsKept, DoomedKept, Gens,
           UNCHANGED <<fs, rows, gen>>,
           pc # "down" \/ pc' = "down",
           \A p \in Indexed : Covers("ahead", p) => Covers("ahead", p)' \/ Undone(p)',
           \A p \in Indexed : Covers("batch", p) /\ (pc # "down" => Covers("ahead", p)) =>
                                  Covers("batch", p)' \/ Undone(p)',
           \A p \in Indexed : Covers("stored", p) => Covers("stored", p)',
           \A p \in Indexed : Undone(p) => Undone(p)',
           \A p \in Indexed : Doomed(p) => Doomed(p)' \/ Undone(p)',
           \A p \in Indexed : Doomed(p)' => Doomed(p) \/ Undone(p)',
           \A t \in Paths : pend'.deferred_cleanups[t] <= gen
    PROVE  RowsKept' /\ DoomedKept' /\ Gens'
  <1>1. Gens'
      BY DEF Gens
  <1>2. \A p \in Indexed : Debt(p) => Debt(p)'
      BY DEF Debt
  <1>3. \A p \in Indexed : Undone(p)' => Debt(p)'
      BY DEF Debt
  <1>4. ASSUME NEW p \in Indexed, Tracked(p)', Stale(p)'
        PROVE  /\ pc' # "down" => Covers("ahead", p)' \/ Debt(p)'
               /\ Covers("batch", p)' \/ Debt(p)'
               /\ Covers("stored", p)'
      <2>1. Tracked(p) /\ Stale(p)
          BY <1>4 DEF Tracked, Stale, StableKinds
      <2>2. /\ pc # "down" => Covers("ahead", p) \/ Debt(p)
            /\ Covers("batch", p) \/ Debt(p)
            /\ Covers("stored", p)
          BY <1>4, <2>1 DEF RowsKept
      <2> QED
          BY <1>2, <1>3, <1>4, <2>2
  <1>5. ASSUME NEW i \in {"ahead", "batch"}, NEW p \in Indexed, fs'[p] # "none", Doomed(p)'
        PROVE  Covers(i, p)' \/ Undone(p)'
      <2>1. CASE Doomed(p)
          <3>1. /\ Covers("ahead", p) \/ Undone(p)
                /\ Covers("batch", p) \/ Undone(p)
              BY <1>5, <2>1 DEF DoomedKept
          <3> QED
              BY <1>5, <3>1
      <2>2. CASE Undone(p)'
          BY <2>2
      <2> QED
          BY <1>5, <2>1, <2>2
  <1> QED
      BY <1>1, <1>4, <1>5 DEF RowsKept, DoomedKept

\* The worker stores its watermark when it owes nothing: what was after the
\* watermark of the plan is after the stored one.
LEMMA MarkKeeps ==
    ASSUME Inv, RowsKept, Gens,
           UNCHANGED <<fs, rows, gen, log, wrap, delivered, inbox>>,
           pc # "down", ckpt' = pend.max_event_id, pend'.max_event_id = 0,
           pend'.deferred_cleanups = pend.deferred_cleanups,
           \A p \in Indexed : ~Undone(p) /\ ~Doomed(p)
    PROVE  RowsKept' /\ DoomedKept' /\ Gens'
  <1>1. Gens'
      BY DEF Gens
  <1>2. \A p \in Indexed : ~Doomed(p)'
      BY DEF Doomed
  <1>3. ASSUME NEW p PROVE /\ Covers("ahead", p) => Covers("ahead", p)'
                           /\ Covers("batch", p) => Covers("batch", p)' /\ Covers("stored", p)'
      BY DEF Covers, Incoming, Anchored, Since, LoggedAfter, LogPosition
  <1>4. ASSUME NEW p \in Indexed, Tracked(p)', Stale(p)'
        PROVE  Covers("ahead", p)' /\ Covers("batch", p)' /\ Covers("stored", p)'
      <2>1. Tracked(p) /\ Stale(p)
          BY <1>4 DEF Tracked, Stale, StableKinds
      <2>2. Covers("ahead", p) /\ Covers("batch", p)
          BY <1>4, <2>1 DEF RowsKept, Debt
      <2> QED
          BY <1>3, <2>2
  <1> QED
      BY <1>1, <1>2, <1>4 DEF RowsKept, DoomedKept

\* An empty plan owes nothing and deletes nothing.
LEMMA NothingDoomed ==
    ASSUME Inv, NEW P, P.deferred_cleanups = EmptyPending.deferred_cleanups, NEW r \in [Paths -> Row]
    PROVE  /\ \A p \in Paths : ~\E t \in Paths : p \in Sub[t] /\ r[p].gen < P.deferred_cleanups[t]
           /\ \A t \in Paths : P.deferred_cleanups[t] = 0
  BY DEF EmptyPending, Row

\* An enforced bound keeps the debts, or compresses them into the obligation
\* to rescan every root.
LEMMA BoundKeeps ==
    ASSUME NEW P \in PendingType
    PROVE  LET E == enforce_worker_plan_bound(P)
           IN  /\ E.rescan_roots <=> P.rescan_roots
               /\ \/ E.full_recovery_obligation /\ E.deferred_cleanups = EmptyPending.deferred_cleanups
                  \/ /\ E.paths = P.paths /\ E.retry_paths = P.retry_paths
                     /\ E.retry_roots <=> P.retry_roots
                     /\ E.full_recovery_obligation <=> P.full_recovery_obligation
                     /\ E.deferred_cleanups = P.deferred_cleanups
  BY EmptyType DEF enforce_worker_plan_bound, PendingType

\* A scan deferred by generation g: the cleanups of T, and no other, move up.
LEMMA RetainKeeps ==
    ASSUME NEW P \in PendingType, NEW R, NEW T, NEW g \in Nat,
           \A t \in Paths : P.deferred_cleanups[t] <= g
    PROVE  LET E == retain_incomplete(P, R, T, g)
           IN  /\ E.retry_paths = P.retry_paths \cup R
               /\ E.paths = P.paths
               /\ E.rescan_roots <=> P.rescan_roots
               /\ E.retry_roots <=> P.retry_roots
               /\ E.full_recovery_obligation <=> P.full_recovery_obligation
               /\ E.deferred_cleanups \in [Paths -> Nat]
               /\ \A t \in Paths : t \in T => E.deferred_cleanups[t] = g
               /\ \A t \in Paths : t \notin T => E.deferred_cleanups[t] = P.deferred_cleanups[t]
               /\ \A t \in Paths : E.deferred_cleanups[t] <= g
  BY DEF retain_incomplete, PendingType, Larger

\* What the steps have to keep of the views.
Kept == MetKept /\ RowsKept /\ DoomedKept /\ Gens

\* What a step writes in a row is nothing, what was there, or what a scan met.
Derived == \A p \in Paths : rows'[p].val \in {"none", rows[p].val} \cup scan.met[p]

-----------------------------------------------------------------------------
(* The scans of the roots.                                                 *)

\* The indexed paths are below the roots.
LEMMA RootsCover == Tree = Below(Roots) /\ Indexed \subseteq Below(Roots) /\ Indexed \subseteq Paths
  BY TreeInPaths DEF Tree, Indexed

\* What a partial scan wrote.
LEMMA PartialRows ==
    ASSUME Inv, MetKept, Gens, NEW R, ScanPartial(R)
    PROVE  Commits(R, scan.targets) /\ ~scan.exact
  <1>1. PICK obs \in Observations : \E V \in SUBSET WalkAll(scan.targets, obs) :
            PartialWalk(scan.targets, obs, V, R) /\ rows' = Upsert(rows, V, obs, gen + 1, FALSE)
      BY DEF ScanPartial
  <1>2. PICK V \in SUBSET WalkAll(scan.targets, obs) :
            PartialWalk(scan.targets, obs, V, R) /\ rows' = Upsert(rows, V, obs, gen + 1, FALSE)
      BY <1>1
  <1>3. V \subseteq Paths
      BY ScanBelow
  <1>4. rows' = [p \in Paths |-> IF p \notin V THEN rows[p] ELSE [val |-> obs[p], gen |-> gen + 1]]
      BY <1>2, Zenon DEF Upsert
  <1>5. /\ \A p \in V : rows'[p].val = obs[p] /\ rows'[p].gen = gen + 1
        /\ \A p \in Paths \ V : rows'[p] = rows[p]
      BY <1>3, <1>4
  <1>6. PartialWalk(scan.targets, obs, V, R)
      BY <1>2
  <1> QED
      BY <1>5, <1>6, PartialCommit DEF ScanPartial

\* A complete scan of the roots settles every path.
LEMMA RootsCommit ==
    ASSUME CheckpointInv, RecoveryInv, RootsComplete \/ BootComplete
    PROVE  Kept' /\ Derived
  <1>1. Inv /\ MetKept /\ RowsKept /\ DoomedKept /\ Gens /\ Batch /\ pend \in PendingType
      BY Facts DEF CheckpointInv, IInv, RecoveryInv
  <1>2. scan.targets = Roots /\ pc \in {"boot_scan", "roots_scan"}
      BY DEF RootsComplete, BootComplete, CheckpointInv, IInv, RootScan
  <1>3. /\ UNCHANGED <<fs, log, wrap, delivered, inbox, ckpt>>
        /\ gen' = gen + 1 /\ scan' = NoScan /\ scan'.targets = {}
      BY DEF RootsComplete, BootComplete, ScanRootsComplete, EndScan, NoScan, system
  <1>4. PICK obs \in Observations : rows' = CompleteScan(rows, Roots, obs, gen + 1, scan.exact)
      BY DEF RootsComplete, BootComplete, ScanRootsComplete
  <1>5. Commits({}, {})
      BY <1>1, <1>2, <1>4, CompleteCommit
  <1>6. /\ pend'.max_event_id = pend.max_event_id
        /\ pend'.deferred_cleanups \in {pend.deferred_cleanups, EmptyPending.deferred_cleanups}
      BY <1>1 DEF RootsComplete, BootComplete, PendingType
  <1>7. /\ pend'.deferred_cleanups \in [Paths -> Nat] /\ gen \in Nat
        /\ \A t \in Paths : /\ pend'.deferred_cleanups[t] <= gen + 1
                            /\ pend'.deferred_cleanups[t] # 0 => t \in Deferred(pend)
      BY <1>1, <1>6, State DEF EmptyPending, Gens, Deferred
  <1>8. ASSUME scan.exact, NEW p \in Below(scan.targets) PROVE ~Doomed(p)'
      <2>1. \A d \in Deferred(pend) : \A q \in scan.targets : Sub[d] \cap Sub[q] = {}
          <3>1. CASE pc = "roots_scan"
              BY <1>1, <1>8, <3>1 DEF Batch
          <3>2. CASE pc = "boot_scan"
              <4>1. pend = [EmptyPending EXCEPT !.max_event_id = pend.max_event_id]
                  BY <3>2 DEF CheckpointInv, Quiet, Watching
              <4>2. Deferred(pend) = {}
                  BY <1>1, <4>1, State, EmptyHasNothing
              <4> QED
                  BY <4>2
          <3> QED
              BY <1>2, <3>1, <3>2
      <2>2. rows' \in [Paths -> Row] /\ p \in Paths
          <3>1. p \in Paths
              BY <1>1, ScanBelow
          <3>2. rows' \in [Paths -> Row]
              BY <1>1, <1>2, ScanRootsCompleteType DEF RootsComplete, BootComplete
          <3> QED
              BY <3>1, <3>2
      <2>3. PICK q \in scan.targets : p \in Sub[q]
          BY <1>8 DEF Below
      <2>4. ASSUME NEW t \in Paths, p \in Sub[t] PROVE pend'.deferred_cleanups[t] = 0
          BY <1>7, <2>1, <2>3, <2>4
      <2> QED
          BY <2>2, <2>4 DEF Doomed, Row
  <1>9. \A p \in Indexed : p \in Below(scan.targets)
      BY <1>2, RootsCover
  <1>10. MetKept'
      BY <1>3, MetIdle
  <1>11. RowsKept' /\ DoomedKept' /\ Gens'
      BY <1>1, <1>2, <1>3, <1>5, <1>6, <1>7, <1>8, <1>9, CommitKeeps DEF Below
  <1> QED
      BY <1>5, <1>10, <1>11 DEF Kept, Derived, Commits

\* An incomplete scan of the roots retries what it did not reach, and defers
\* the cleanup of every root.
LEMMA RootsPartialCommit ==
    ASSUME CheckpointInv, RecoveryInv, RootsPartial \/ BootPartial
    PROVE  Kept' /\ Derived
  <1>1. Inv /\ MetKept /\ RowsKept /\ DoomedKept /\ Gens /\ pend \in PendingType /\ gen \in Nat
      BY Facts DEF CheckpointInv, IInv, RecoveryInv
  <1>2. scan.targets = Roots /\ pc \in {"boot_scan", "roots_scan"}
      BY DEF RootsPartial, BootPartial, CheckpointInv, IInv, RootScan
  <1> DEFINE b == [pend EXCEPT !.paths = {}, !.retry_paths = {}, !.retry_roots = FALSE]
  <1>3. b \in PendingType /\ b.deferred_cleanups = pend.deferred_cleanups
      BY <1>1 DEF PendingType
  <1>4. PICK R \in SUBSET (Tree \ Excluded) :
            /\ ScanPartial(R)
            /\ \/ pend' = retain_incomplete(pend, R, Roots, gen + 1)
               \/ pend' = retain_incomplete(b, R, Roots, gen + 1)
      BY DEF RootsPartial, BootPartial
  <1>5. /\ UNCHANGED <<fs, log, wrap, delivered, inbox, ckpt>>
        /\ gen' = gen + 1 /\ scan'.targets = {} /\ pc # "down"
      BY <1>2, <1>4 DEF RootsPartial, BootPartial, ScanPartial, EndScan, NoScan, system
  <1>6. pend'.max_event_id = pend.max_event_id
      BY <1>1, SameIds, InnerStep DEF Inner
  <1> HIDE DEF b
  <1>7. \A t \in Paths : pend.deferred_cleanups[t] \in Nat /\ pend.deferred_cleanups[t] <= gen
      BY <1>1, State DEF Gens
  <1>8. \A t \in Paths : pend.deferred_cleanups[t] <= gen + 1
      BY <1>1, <1>7
  <1>9. /\ pend'.deferred_cleanups \in [Paths -> Nat]
        /\ R \subseteq pend'.retry_paths
        /\ \A t \in Paths : pend'.deferred_cleanups[t] <= gen + 1
        /\ \A t \in Paths : t \in Roots => pend'.deferred_cleanups[t] = gen + 1
      <2>1. gen + 1 \in Nat
          BY <1>1
      <2>2. CASE pend' = retain_incomplete(pend, R, Roots, gen + 1)
          BY <1>1, <1>8, <2>1, <2>2, RetainKeeps
      <2>3. CASE pend' = retain_incomplete(b, R, Roots, gen + 1)
          BY <1>3, <1>8, <2>1, <2>3, RetainKeeps
      <2> QED
          BY <1>4, <2>2, <2>3
  <1>10. Commits(R, Roots) /\ ~scan.exact
      BY <1>1, <1>2, <1>4, PartialRows
  <1>11. rows' \in [Paths -> Row]
      BY <1>1, <1>4, ScanPartialType
  <1>12. ASSUME NEW p \in Below(Roots), p \in Paths, rows'[p].gen <= gen PROVE Doomed(p)'
      <2>1. PICK r \in Roots : p \in Sub[r]
          BY <1>12 DEF Below
      <2>2. r \in Paths /\ pend'.deferred_cleanups[r] = gen + 1
          BY <1>9, TreeInPaths
      <2>3. rows'[p].gen < gen + 1
          BY <1>1, <1>11, <1>12 DEF Row
      <2> QED
          BY <2>1, <2>2, <2>3 DEF Doomed
  <1>13. \A p \in Indexed : p \in Below(scan.targets)
      BY <1>2, RootsCover
  <1>14. MetKept'
      BY <1>5, MetIdle
  <1>15. RowsKept' /\ DoomedKept' /\ Gens'
      BY <1>1, <1>5, <1>6, <1>9, <1>10, <1>12, <1>13, CommitKeeps
  <1> QED
      BY <1>10, <1>14, <1>15 DEF Kept, Derived, Commits

-----------------------------------------------------------------------------
(* The refresh of one path.                                                *)

\* The target of a running refresh.
LEMMA TargetFacts ==
    ASSUME Inv, Batch, pc = "path_scan", NEW t \in scan.targets
    PROVE  /\ scan.targets = {t} /\ t \in Tree /\ t \in Paths /\ t \notin Excluded /\ t \notin queue
           /\ Below(scan.targets) = Sub[t]
           /\ \A q \in queue : Sub[q] \cap Sub[t] = {}
  <1>1. PICK u \in Tree \ Excluded : u \notin queue /\ scan.targets = {u}
      BY DEF Batch
  <1>2. t = u /\ scan.targets = {t}
      BY <1>1
  <1>3. t \in Tree /\ t \in Paths /\ t \notin Excluded /\ t \notin queue
      BY <1>1, <1>2, TreeInPaths
  <1>4. \A q \in queue : Sub[q] \cap Sub[t] = {}
      <2>1. \A a, b \in queue \cup scan.targets : a # b => Sub[a] \cap Sub[b] = {}
          BY DEF Batch
      <2> QED
          BY <1>3, <2>1
  <1>5. Below(scan.targets) = Sub[t]
      BY <1>2 DEF Below
  <1> QED
      BY <1>2, <1>3, <1>4, <1>5

\* The work outside the target stays, whatever of the retries below it goes.
LEMMA OutsideTarget ==
    ASSUME Inv, NEW t \in Paths, scan.targets = {t}, queue' = queue, pend \in PendingType,
           pend'.rescan_roots <=> pend.rescan_roots,
           pend'.retry_roots <=> pend.retry_roots,
           pend'.full_recovery_obligation <=> pend.full_recovery_obligation,
           pend'.paths = pend.paths,
           pend.retry_paths \ Sub[t] \subseteq pend'.retry_paths
    PROVE  \A p \in Indexed : p \notin Below(scan.targets) /\ Undone(p) => Undone(p)'
  <1> SUFFICES ASSUME NEW p \in Indexed, p \notin Below(scan.targets), Undone(p)
               PROVE  Undone(p)'
      OBVIOUS
  <1>1. p \notin Sub[t]
      BY DEF Below
  <1>2. CASE pend.rescan_roots \/ pend.retry_roots \/ pend.full_recovery_obligation
      BY <1>2 DEF Undone
  <1>3. CASE p \in Below(pend.paths \cup pend.retry_paths \cup queue \cup scan.targets)
      <2>1. PICK a \in pend.paths \cup pend.retry_paths \cup queue \cup scan.targets : p \in Sub[a]
          BY <1>3 DEF Below
      <2>2. a \in Paths /\ a # t
          BY <1>1, <2>1, State, TreeInPaths
      <2>3. a \notin Sub[t]
          BY <1>1, <2>1, <2>2, TreeAssumption
      <2>4. a \in pend'.paths \cup pend'.retry_paths \cup queue'
          BY <2>1, <2>2, <2>3
      <2> QED
          BY <2>1, <2>4 DEF Undone, Below
  <1> QED
      BY <1>2, <1>3 DEF Undone

\* So do the deferred cleanups.
LEMMA DoomedOutside ==
    ASSUME Inv, NEW t \in Paths, scan.targets = {t},
           \A p \in Paths \ Sub[t] : rows'[p] = rows[p],
           \A d \in Paths : d # t => pend'.deferred_cleanups[d] = pend.deferred_cleanups[d]
    PROVE  \A p \in Indexed : p \notin Below(scan.targets) => (Doomed(p)' <=> Doomed(p))
  <1> SUFFICES ASSUME NEW p \in Indexed, p \notin Below(scan.targets)
               PROVE  Doomed(p)' <=> Doomed(p)
      OBVIOUS
  <1>1. p \notin Sub[t] /\ p \in Paths
      BY RootsCover DEF Below
  <1>2. rows'[p] = rows[p]
      BY <1>1
  <1>3. \A d \in Paths : p \in Sub[d] => pend'.deferred_cleanups[d] = pend.deferred_cleanups[d]
      BY <1>1
  <1> QED
      BY <1>2, <1>3 DEF Doomed

\* A refresh that completes.
LEMMA RefreshCommit ==
    ASSUME CheckpointInv, RecoveryInv, NEW t \in scan.targets,
           RefreshAbsent(t) \/ RefreshDir(t) \/ RefreshLeaf(t)
    PROVE  Kept' /\ Derived
  <1>1. /\ Inv /\ MetKept /\ RowsKept /\ DoomedKept /\ Gens /\ Batch /\ Parents
        /\ pend \in PendingType /\ gen \in Nat
      BY Facts DEF CheckpointInv, IInv, RecoveryInv
  <1>2. RefreshDone(t) /\ pc = "path_scan" /\ gen' = gen + 1
      BY DEF RefreshAbsent, RefreshDir, RefreshLeaf, RefreshDone
  <1>3. /\ scan.targets = {t} /\ t \in Tree /\ t \in Paths /\ t \notin Excluded
        /\ Below(scan.targets) = Sub[t]
      BY <1>1, <1>2, TargetFacts
  <1>4. Commits({}, {})
      <2>1. CASE RefreshAbsent(t)
          BY <1>1, <1>3, <2>1, AbsentCommit DEF RefreshAbsent, FirstStat
      <2>2. CASE RefreshDir(t)
          <3>1. PICK obs \in Observations : rows' = CompleteScan(rows, {t}, obs, gen + 1, scan.exact)
              BY <2>2 DEF RefreshDir
          <3> QED
              BY <1>1, <1>3, <3>1, CompleteCommit
      <2>3. CASE RefreshLeaf(t)
          <3>1. PICK v \in Leaf : v \in scan.met[t]
              BY <2>3 DEF RefreshLeaf, FirstStat
          <3>2. PICK obs \in Observations :
                    rows' = LeafScan(rows, t, Walk(t, obs), obs, gen + 1, scan.exact)
              BY <2>3 DEF RefreshLeaf
          <3> QED
              BY <1>1, <1>3, <3>1, <3>2, LeafCommit
      <2> QED
          BY <2>1, <2>2, <2>3
  <1>5. /\ UNCHANGED <<fs, log, wrap, delivered, inbox, ckpt, queue>>
        /\ scan'.targets = {} /\ pc # "down"
      BY <1>2 DEF RefreshDone, EndScan, NoScan, system
  <1>6. pend' = [pend EXCEPT !.retry_paths = @ \ Sub[t]]
      BY <1>2 DEF RefreshDone
  <1>7. /\ pend'.max_event_id = pend.max_event_id
        /\ pend'.deferred_cleanups = pend.deferred_cleanups
        /\ pend'.rescan_roots = pend.rescan_roots
        /\ pend'.retry_roots = pend.retry_roots
        /\ pend'.full_recovery_obligation = pend.full_recovery_obligation
        /\ pend'.paths = pend.paths
        /\ pend'.retry_paths = pend.retry_paths \ Sub[t]
      BY <1>1, <1>6 DEF PendingType
  <1>8. \A p \in Indexed : p \notin Below(scan.targets) /\ Undone(p) => Undone(p)'
      BY <1>1, <1>3, <1>5, <1>7, OutsideTarget
  <1>9. \A p \in Paths \ Sub[t] : rows'[p] = rows[p]
      BY <1>3, <1>4 DEF Commits
  <1>10. \A p \in Indexed : p \notin Below(scan.targets) => (Doomed(p)' <=> Doomed(p))
      BY <1>1, <1>3, <1>7, <1>9, DoomedOutside
  <1>11. /\ pend.deferred_cleanups \in [Paths -> Nat]
         /\ \A d \in Paths : pend.deferred_cleanups[d] <= gen + 1
      BY <1>1, State DEF Gens
  <1>12. ASSUME scan.exact, NEW p \in Below(scan.targets) PROVE ~Doomed(p)'
      <2>1. \A d \in Deferred(pend) : Sub[d] \cap Sub[t] = {}
          BY <1>1, <1>2, <1>12 DEF Batch
      <2>2. \A d \in Paths : p \in Sub[d] => pend'.deferred_cleanups[d] = 0
          BY <1>3, <1>7, <1>12, <2>1 DEF Deferred
      <2>3. rows' \in [Paths -> Row] /\ p \in Paths
          <3>1. Inv'
              BY <1>1, NextInv DEF CheckpointInv, IInv, Next, Work
          <3> QED
              BY <1>1, <1>12, <3>1, ScanBelow DEF Inv, TypeOK
      <2> QED
          BY <2>2, <2>3 DEF Doomed, Row
  <1>13. MetKept'
      BY <1>5, MetIdle
  <1>14. RowsKept' /\ DoomedKept' /\ Gens'
      BY <1>1, <1>2, <1>4, <1>5, <1>7, <1>8, <1>10, <1>11, <1>12, CommitKeeps DEF Below
  <1> QED
      BY <1>4, <1>13, <1>14 DEF Kept, Derived, Commits

\* A refresh that met errors retries what it did not reach; only that of a
\* directory defers a cleanup.
LEMMA RefreshPartialCommit ==
    ASSUME CheckpointInv, RecoveryInv, NEW t \in scan.targets,
           RefreshPartialDir(t) \/ RefreshPartialLeaf(t)
    PROVE  Kept' /\ Derived
  <1>1. /\ Inv /\ MetKept /\ RowsKept /\ DoomedKept /\ Gens /\ Batch
        /\ pend \in PendingType /\ gen \in Nat /\ gen + 1 \in Nat
      BY Facts DEF CheckpointInv, IInv, RecoveryInv
  <1>2. pc = "path_scan" /\ pc # "down"
      BY DEF RefreshPartialDir, RefreshPartialLeaf
  <1>3. /\ scan.targets = {t} /\ t \in Tree /\ t \in Paths /\ t \notin Excluded
        /\ Below(scan.targets) = Sub[t]
      BY <1>1, <1>2, TargetFacts
  <1>4. PICK R \in SUBSET (Sub[t] \ Excluded), D \in SUBSET {t} :
            /\ Commits(R, D) /\ ~scan.exact
            /\ pend' = retain_incomplete(pend, R, D, gen + 1)
      <2>1. CASE RefreshPartialDir(t)
          <3>1. PICK R \in SUBSET (Sub[t] \ Excluded) :
                    ScanPartial(R) /\ pend' = retain_incomplete(pend, R, {t}, gen + 1)
              BY <2>1 DEF RefreshPartialDir
          <3>2. Commits(R, {t}) /\ ~scan.exact
              BY <1>1, <1>3, <3>1, PartialRows
          <3> QED
              BY <3>1, <3>2
      <2>2. CASE RefreshPartialLeaf(t)
          <3>1. PICK v \in Leaf : v \in scan.met[t]
              BY <2>2 DEF RefreshPartialLeaf, FirstStat
          <3>2. PICK R \in SUBSET (Sub[t] \ Excluded) :
                    /\ \E obs \in Observations : \E V \in SUBSET Walk(t, obs) :
                          /\ PartialWalk({t}, obs, V, R)
                          /\ rows' = LeafScan(rows, t, V, obs, gen + 1, FALSE)
                    /\ pend' = retain_incomplete(pend, R, {}, gen + 1)
              BY <2>2 DEF RefreshPartialLeaf
          <3>3. PICK obs \in Observations : \E V \in SUBSET Walk(t, obs) :
                    /\ PartialWalk({t}, obs, V, R)
                    /\ rows' = LeafScan(rows, t, V, obs, gen + 1, FALSE)
              BY <3>2
          <3>4. PICK V \in SUBSET Walk(t, obs) :
                    /\ PartialWalk({t}, obs, V, R)
                    /\ rows' = LeafScan(rows, t, V, obs, gen + 1, FALSE)
              BY <3>3
          <3>5. \E x \in BOOLEAN : ~x /\ rows' = LeafScan(rows, t, V, obs, gen + 1, x)
              BY <3>4, Zenon
          <3>6. PICK x \in BOOLEAN : ~x /\ rows' = LeafScan(rows, t, V, obs, gen + 1, x)
              BY <3>5
          <3>7. R \in SUBSET Sub[t] /\ PartialWalk({t}, obs, V, R)
              BY <3>4
          <3>8. Commits(R, {})
              BY <1>1, <1>3, <3>1, <3>6, <3>7, LeafPartialCommit
          <3>9. ~scan.exact
              BY <2>2 DEF RefreshPartialLeaf
          <3> QED
              BY <3>2, <3>8, <3>9
      <2> QED
          BY <2>1, <2>2
  <1>5. /\ UNCHANGED <<fs, log, wrap, delivered, inbox, ckpt, queue>>
        /\ scan'.targets = {} /\ gen' = gen + 1
      <2>1. CASE RefreshPartialDir(t)
          <3>1. PICK R1 : ScanPartial(R1)
              BY <2>1 DEF RefreshPartialDir
          <3>2. gen' = gen + 1 /\ scan' = NoScan
              BY <3>1 DEF ScanPartial, EndScan
          <3> QED
              BY <2>1, <3>2, NoScanType DEF RefreshPartialDir, system
      <2>2. CASE RefreshPartialLeaf(t)
          BY <2>2, NoScanType DEF RefreshPartialLeaf, EndScan, system
      <2> QED
          BY <2>1, <2>2
  <1>6. /\ pend.deferred_cleanups \in [Paths -> Nat]
        /\ \A d \in Paths : pend.deferred_cleanups[d] <= gen + 1
      BY <1>1, State DEF Gens
  <1>7. /\ pend'.retry_paths = pend.retry_paths \cup R
        /\ pend'.paths = pend.paths
        /\ pend'.rescan_roots <=> pend.rescan_roots
        /\ pend'.retry_roots <=> pend.retry_roots
        /\ pend'.full_recovery_obligation <=> pend.full_recovery_obligation
        /\ pend'.deferred_cleanups \in [Paths -> Nat]
        /\ \A d \in Paths : d \in D => pend'.deferred_cleanups[d] = gen + 1
        /\ \A d \in Paths : d \notin D => pend'.deferred_cleanups[d] = pend.deferred_cleanups[d]
        /\ \A d \in Paths : pend'.deferred_cleanups[d] <= gen + 1
      BY <1>1, <1>4, <1>6, RetainKeeps
  <1>8. pend'.max_event_id = pend.max_event_id
      BY <1>1, InnerStep DEF Inner
  <1>9. \A p \in Indexed : p \notin Below(scan.targets) /\ Undone(p) => Undone(p)'
      BY <1>1, <1>3, <1>5, <1>7, OutsideTarget
  <1>10. \A p \in Paths \ Sub[t] : rows'[p] = rows[p]
      BY <1>3, <1>4 DEF Commits
  <1>11. \A p \in Indexed : p \notin Below(scan.targets) => (Doomed(p)' <=> Doomed(p))
      <2>1. \A d \in Paths : d # t => pend'.deferred_cleanups[d] = pend.deferred_cleanups[d]
          BY <1>7
      <2> QED
          BY <1>1, <1>3, <1>10, <2>1, DoomedOutside
  <1>12. ASSUME NEW p \in Below(D), p \in Paths, rows'[p].gen <= gen PROVE Doomed(p)'
      <2>1. p \in Sub[t] /\ t \in D
          BY <1>4, <1>12 DEF Below
      <2>2. pend'.deferred_cleanups[t] = gen + 1
          BY <1>3, <1>7, <2>1
      <2>3. rows' \in [Paths -> Row]
          <3>1. Inv'
              BY <1>1, NextInv DEF CheckpointInv, IInv, Next, Work
          <3> QED
              BY <3>1 DEF Inv, TypeOK
      <2>4. rows'[p].gen < gen + 1
          BY <1>1, <1>12, <2>3 DEF Row
      <2> QED
          BY <1>3, <2>1, <2>2, <2>4 DEF Doomed
  <1>13. MetKept'
      BY <1>5, MetIdle
  <1>14. R \subseteq pend'.retry_paths
      BY <1>7
  <1>15. RowsKept' /\ DoomedKept' /\ Gens'
      BY <1>1, <1>2, <1>4, <1>5, <1>7, <1>8, <1>9, <1>11, <1>12, <1>14, CommitKeeps
  <1> QED
      BY <1>4, <1>13, <1>15 DEF Kept, Derived, Commits

-----------------------------------------------------------------------------
(* The steps of the worker that write no row.                              *)

\* Without a running scan, what a step leaves of the rows is what they were.
LEMMA SameRows == ASSUME rows' = rows PROVE Derived
  BY DEF Derived

\* A plan of the roots takes every path into its scan.
LEMMA PlanRootsKeeps ==
    ASSUME CheckpointInv, RecoveryInv, PlanRoots
    PROVE  Kept'
  <1>1. /\ Inv /\ RowsKept /\ DoomedKept /\ Gens /\ pend \in PendingType
      BY Facts DEF CheckpointInv, IInv, RecoveryInv
  <1>2. PICK x \in BOOLEAN : scan' = BeginScan(Roots, x)
      BY DEF PlanRoots
  <1>3. UNCHANGED <<fs, rows, gen, log, wrap, delivered, inbox, ckpt>> /\ pc = "plan"
      BY DEF PlanRoots, system
  <1>4. /\ pend'.max_event_id = pend.max_event_id
        /\ pend'.deferred_cleanups = pend.deferred_cleanups
      BY <1>1 DEF PlanRoots, Due, PendingType
  <1>5. scan'.targets = Roots
      BY <1>2 DEF BeginScan
  <1>6. \A p \in Indexed : Undone(p)'
      BY <1>5, RootsCover DEF Undone, Below
  <1>7. \A i \in Views : \A p : Covers(i, p)' <=> Covers(i, p)
      BY <1>3, <1>4, CoversSame
  <1>8. MetKept'
      BY <1>1, <1>2, <1>3, MetFresh, TreeInPaths
  <1>9. RowsKept' /\ DoomedKept' /\ Gens'
      BY <1>1, <1>3, <1>4, <1>6, <1>7, Keeps DEF Gens, Views
  <1> QED
      BY <1>8, <1>9 DEF Kept

\* A plan of paths takes their folding into its queue.
LEMMA PlanPathsKeeps ==
    ASSUME CheckpointInv, RecoveryInv, PlanPaths
    PROVE  Kept'
  <1>1. /\ Inv /\ MetKept /\ RowsKept /\ DoomedKept /\ Gens /\ Batch /\ pend \in PendingType
        /\ due \in BOOLEAN
      BY Facts DEF CheckpointInv, IInv, RecoveryInv
  <1>2. /\ UNCHANGED <<fs, rows, gen, log, wrap, delivered, inbox, ckpt, scan>> /\ pc = "plan"
        /\ queue' = fold_refresh_paths(Due(pend).paths)
      BY DEF PlanPaths, system
  <1>3. scan.targets = {} /\ queue = {}
      BY <1>1, <1>2, Facts DEF Batch, Scanning
  <1>4. /\ pend'.max_event_id = pend.max_event_id
        /\ pend'.deferred_cleanups = pend.deferred_cleanups
        /\ pend'.full_recovery_obligation = pend.full_recovery_obligation
        /\ ~pend.rescan_roots
        /\ pend.retry_roots => pend'.retry_roots
        /\ pend.paths \cup pend.retry_paths = Due(pend).paths \cup pend'.retry_paths
      BY <1>1 DEF PlanPaths, Due, PendingType
  <1>5. ASSUME NEW p \in Indexed, Undone(p) PROVE Undone(p)'
      <2>1. CASE pend.retry_roots \/ pend.full_recovery_obligation
          BY <1>4, <2>1 DEF Undone
      <2>2. CASE p \in Below(pend.paths \cup pend.retry_paths)
          <3>1. Due(pend).paths \in SUBSET Paths
              BY <1>1 DEF Due, PendingType
          <3>2. p \in Below(Due(pend).paths) => p \in Below(queue')
              BY <1>2, <3>1, FoldCovers
          <3>3. p \in Below(Due(pend).paths) \/ p \in Below(pend'.retry_paths)
              BY <1>4, <2>2 DEF Below
          <3>4. p \in Below(queue') \/ p \in Below(pend'.retry_paths)
              BY <3>2, <3>3
          <3> QED
              BY <3>4 DEF Undone, Below
      <2> QED
          BY <1>3, <1>4, <1>5, <2>1, <2>2 DEF Undone
  <1>6. \A i \in Views : \A p : Covers(i, p)' <=> Covers(i, p)
      BY <1>2, <1>4, CoversSame
  <1>7. \A p : Doomed(p)' <=> Doomed(p)
      BY <1>2, <1>4 DEF Doomed
  <1>8. MetKept'
      BY <1>2, <1>3, MetIdle
  <1>9. RowsKept' /\ DoomedKept' /\ Gens'
      BY <1>1, <1>2, <1>4, <1>5, <1>6, <1>7, Keeps DEF Gens, Views
  <1> QED
      BY <1>8, <1>9 DEF Kept

\* A failed scan is retried.
LEMMA FailKeeps ==
    ASSUME CheckpointInv, RecoveryInv, RootsFail \/ \E t \in scan.targets : RefreshFail(t)
    PROVE  Kept'
  <1>1. /\ Inv /\ RowsKept /\ DoomedKept /\ Gens /\ Batch /\ pend \in PendingType
      BY Facts DEF CheckpointInv, IInv, RecoveryInv
  <1>2. /\ UNCHANGED <<fs, rows, gen, log, wrap, delivered, inbox, ckpt>>
        /\ pc \in {"roots_scan", "path_scan"} /\ scan'.targets = {}
      BY NoScanType DEF RootsFail, RefreshFail, EndScan, system
  <1>3. /\ pend'.max_event_id = pend.max_event_id
        /\ pend'.deferred_cleanups = pend.deferred_cleanups
      BY <1>1 DEF RootsFail, RefreshFail, PendingType
  <1>4. ASSUME NEW p \in Indexed, Undone(p) PROVE Undone(p)'
      <2>1. CASE RootsFail
          <3>1. pend'.retry_roots = TRUE
              BY <1>1, <2>1 DEF RootsFail, PendingType
          <3> QED
              BY <3>1 DEF Undone
      <2>2. ASSUME NEW t \in scan.targets, RefreshFail(t) PROVE Undone(p)'
          <3>1. scan.targets = {t} /\ queue' = queue
              BY <1>1, <2>2, TargetFacts DEF RefreshFail
          <3>2. /\ pend'.retry_paths = pend.retry_paths \cup {t}
                /\ pend'.paths = pend.paths
                /\ pend'.rescan_roots = pend.rescan_roots
                /\ pend'.retry_roots = pend.retry_roots
                /\ pend'.full_recovery_obligation = pend.full_recovery_obligation
              BY <1>1, <2>2 DEF RefreshFail, PendingType
          <3>3. p \in Below(pend.paths \cup pend.retry_paths \cup queue \cup scan.targets) =>
                p \in Below(pend'.paths \cup pend'.retry_paths \cup queue' \cup scan'.targets)
              BY <3>1, <3>2 DEF Below
          <3> QED
              BY <1>4, <3>2, <3>3 DEF Undone
      <2> QED
          BY <2>1, <2>2
  <1>5. \A i \in Views : \A p : Covers(i, p)' <=> Covers(i, p)
      BY <1>2, <1>3, CoversSame
  <1>6. \A p : Doomed(p)' <=> Doomed(p)
      BY <1>2, <1>3 DEF Doomed
  <1>7. RowsKept' /\ DoomedKept' /\ Gens'
      BY <1>1, <1>2, <1>3, <1>4, <1>5, <1>6, Keeps DEF Gens, Views
  <1> QED
      BY <1>2, <1>7, MetIdle DEF Kept

\* A refresh that begins takes its path out of the queue into its scan; one of
\* an excluded path concerns no indexed path.
LEMMA RefreshBeginKeeps ==
    ASSUME CheckpointInv, RecoveryInv, NEW t \in queue, RefreshBegin(t)
    PROVE  Kept'
  <1>1. /\ Inv /\ RowsKept /\ DoomedKept /\ Gens /\ pend \in PendingType
        /\ legacy \in BOOLEAN /\ queue \subseteq Tree
      BY Facts DEF CheckpointInv, IInv, RecoveryInv
  <1>2. /\ UNCHANGED <<fs, rows, gen, log, wrap, delivered, inbox, ckpt>> /\ pc = "paths"
        /\ queue' = queue \ {t}
      BY DEF RefreshBegin, system
  <1>3. t \in Tree /\ t \in Paths /\ scan.targets = {}
      BY <1>1, <1>2, Facts, TreeInPaths DEF Scanning
  <1>4. /\ pend'.max_event_id = pend.max_event_id
        /\ pend'.deferred_cleanups = pend.deferred_cleanups
        /\ pend'.paths = pend.paths
        /\ pend'.rescan_roots = pend.rescan_roots
        /\ pend'.retry_roots = pend.retry_roots
        /\ pend'.full_recovery_obligation = pend.full_recovery_obligation
      BY <1>1 DEF RefreshBegin, PendingType
  <1>5. ASSUME NEW p \in Indexed, Undone(p) PROVE Undone(p)'
      <2>1. CASE pend.rescan_roots \/ pend.retry_roots \/ pend.full_recovery_obligation
          BY <1>4, <2>1 DEF Undone
      <2>2. CASE p \in Below(pend.paths \cup pend.retry_paths \cup queue \cup scan.targets)
          <3>1. PICK a \in pend.paths \cup pend.retry_paths \cup queue : p \in Sub[a]
              BY <1>3, <2>2 DEF Below
          <3>2. a \in pend'.paths \cup pend'.retry_paths \cup queue' \cup scan'.targets
              <4>1. CASE t \in Excluded
                  <5>1. pend'.retry_paths = pend.retry_paths \ Sub[t]
                      BY <1>1, <4>1 DEF RefreshBegin, PendingType
                  <5>2. p \notin Sub[t] /\ a \in Paths
                      BY <1>1, <1>5, <3>1, <4>1, State, TreeInPaths, ExcludedAssumption DEF Indexed
                  <5>3. a \notin Sub[t] /\ a # t
                      BY <1>3, <3>1, <5>2, TreeAssumption
                  <5> QED
                      BY <1>2, <1>4, <3>1, <5>1, <5>3
              <4>2. CASE t \notin Excluded
                  <5>1. pend' = pend /\ scan'.targets = {t}
                      BY <4>2 DEF RefreshBegin, BeginScan
                  <5> QED
                      BY <1>2, <3>1, <5>1
              <4> QED
                  BY <4>1, <4>2
          <3> QED
              BY <3>1, <3>2 DEF Undone, Below
      <2> QED
          BY <1>5, <2>1, <2>2 DEF Undone
  <1>6. \A i \in Views : \A p : Covers(i, p)' <=> Covers(i, p)
      BY <1>2, <1>4, CoversSame
  <1>7. \A p : Doomed(p)' <=> Doomed(p)
      BY <1>2, <1>4 DEF Doomed
  <1>8. MetKept'
      <2>1. CASE t \in Excluded
          BY <1>3, <2>1, MetIdle DEF RefreshBegin
      <2>2. CASE t \notin Excluded
          <3>1. scan' = BeginScan({t}, ~legacy)
              BY <2>2 DEF RefreshBegin
          <3>2. PICK x \in BOOLEAN : scan' = BeginScan({t}, x)
              BY <3>1
          <3> QED
              BY <1>1, <1>2, <1>3, <3>2, MetFresh
      <2> QED
          BY <2>1, <2>2
  <1>9. RowsKept' /\ DoomedKept' /\ Gens'
      BY <1>1, <1>2, <1>4, <1>5, <1>6, <1>7, Keeps DEF Gens, Views
  <1> QED
      BY <1>8, <1>9 DEF Kept

\* A scan that falls back starts again on the same targets.
LEMMA FallbackKeeps ==
    ASSUME CheckpointInv, RecoveryInv, ScanFallback
    PROVE  Kept'
  <1>1. /\ Inv /\ RowsKept /\ DoomedKept /\ Gens /\ scan.targets \subseteq Tree
      BY Facts DEF CheckpointInv, IInv, RecoveryInv
  <1>2. /\ UNCHANGED <<fs, rows, gen, log, wrap, delivered, inbox, ckpt, pend, queue>>
        /\ pc # "down" /\ scan' = BeginScan(scan.targets, FALSE)
      BY DEF ScanFallback, system, worker, Scanning
  <1>3. PICK x \in BOOLEAN : scan' = BeginScan(scan.targets, x)
      BY <1>2
  <1>4. scan'.targets = scan.targets
      BY <1>3 DEF BeginScan
  <1>5. \A p : (Undone(p)' <=> Undone(p)) /\ (Doomed(p)' <=> Doomed(p))
      BY <1>2, <1>4 DEF Undone, Doomed
  <1>6. \A i \in Views : \A p : Covers(i, p)' <=> Covers(i, p)
      BY <1>2, CoversSame
  <1>7. UNCHANGED <<fs, rows, gen, pend>> /\ pc # "down"
      BY <1>2
  <1>8. MetKept'
      BY <1>1, <1>3, <1>7, MetFresh
  <1>9. RowsKept' /\ DoomedKept' /\ Gens'
      BY <1>1, <1>5, <1>6, <1>7, Keeps DEF Gens, Views
  <1> QED
      BY <1>8, <1>9 DEF Kept

\* The plan bound at the end of a batch keeps the debts, compressed or not.
LEMMA EndProcessKeeps ==
    ASSUME CheckpointInv, RecoveryInv, EndProcess
    PROVE  Kept'
  <1>1. /\ Inv /\ RowsKept /\ DoomedKept /\ Gens /\ pend \in PendingType
      BY Facts DEF CheckpointInv, IInv, RecoveryInv
  <1>2. /\ UNCHANGED <<fs, rows, gen, log, wrap, delivered, inbox, ckpt, queue, scan>>
        /\ pc = "paths" /\ pend' = enforce_worker_plan_bound(pend)
      BY DEF EndProcess, system
  <1>3. scan'.targets = {}
      BY <1>1, <1>2, Facts DEF Scanning
  <1>4. pend'.max_event_id = pend.max_event_id
      BY <1>1, SameIds
  <1>5. /\ pend'.rescan_roots <=> pend.rescan_roots
        /\ \/ /\ pend'.full_recovery_obligation
              /\ pend'.deferred_cleanups = EmptyPending.deferred_cleanups
           \/ /\ pend'.paths = pend.paths /\ pend'.retry_paths = pend.retry_paths
              /\ pend'.retry_roots <=> pend.retry_roots
              /\ pend'.full_recovery_obligation <=> pend.full_recovery_obligation
              /\ pend'.deferred_cleanups = pend.deferred_cleanups
      BY <1>1, <1>2, BoundKeeps
  <1>6. \A p \in Indexed : /\ Undone(p) => Undone(p)'
                           /\ Doomed(p) => Doomed(p)' \/ Undone(p)'
                           /\ Doomed(p)' => Doomed(p) \/ Undone(p)'
      <2>1. CASE pend'.full_recovery_obligation
          BY <2>1 DEF Undone
      <2>2. CASE ~pend'.full_recovery_obligation
          <3>1. \A p : Doomed(p)' <=> Doomed(p)
              BY <1>2, <1>5, <2>2 DEF Doomed
          <3>2. \A p : Undone(p) => Undone(p)'
              BY <1>2, <1>5, <2>2 DEF Undone
          <3> QED
              BY <3>1, <3>2
      <2> QED
          BY <2>1, <2>2
  <1>7. \A i \in Views : \A p : Covers(i, p)' <=> Covers(i, p)
      BY <1>2, <1>4, CoversSame
  <1>8. \A t \in Paths : pend'.deferred_cleanups[t] <= gen
      <2>1. gen \in Nat /\ \A t \in Paths : pend.deferred_cleanups[t] <= gen
          BY <1>1, State DEF Gens
      <2> QED
          BY <1>5, <2>1 DEF EmptyPending
  <1>9. UNCHANGED <<fs, rows, gen>> /\ pc # "down"
      BY <1>2
  <1>10. RowsKept' /\ DoomedKept' /\ Gens'
      BY <1>1, <1>6, <1>7, <1>8, <1>9, Keeps DEF Views
  <1> QED
      BY <1>3, <1>10, MetIdle DEF Kept

\* The invalidation of a wrapped checkpoint, and the writes that fail.
LEMMA InvalidateKeeps ==
    ASSUME CheckpointInv, RecoveryInv, Invalidate \/ InvalidateFails \/ PersistFails
    PROVE  Kept'
  <1>1. /\ Inv /\ RowsKept /\ DoomedKept /\ Gens /\ pend \in PendingType
      BY Facts DEF CheckpointInv, IInv, RecoveryInv
  <1>2. /\ UNCHANGED <<fs, rows, gen, log, wrap, delivered, inbox, queue, scan>>
        /\ pc \in {"invalidate", "cleanup", "mark"} /\ ckpt' \in {0, ckpt}
      BY DEF Invalidate, InvalidateFails, PersistFails, system
  <1>3. scan'.targets = {}
      BY <1>1, <1>2, Facts DEF Scanning
  <1>4. /\ pend'.max_event_id = pend.max_event_id
        /\ pend'.deferred_cleanups = pend.deferred_cleanups
        /\ pend'.paths = pend.paths /\ pend'.retry_paths = pend.retry_paths
        /\ pend'.rescan_roots = pend.rescan_roots
        /\ pend'.retry_roots = pend.retry_roots
        /\ pend'.full_recovery_obligation = pend.full_recovery_obligation
      BY <1>1 DEF Invalidate, InvalidateFails, PersistFails, PendingType
  <1>5. \A p : (Undone(p)' <=> Undone(p)) /\ (Doomed(p)' <=> Doomed(p))
      BY <1>2, <1>4 DEF Undone, Doomed
  <1>6. \A i \in Views : \A p : Covers(i, p) => Covers(i, p)'
      <2>1. CASE ckpt' = ckpt
          BY <1>2, <1>4, <2>1, CoversSame
      <2>2. CASE ckpt' = 0
          BY <1>2, <1>4, <2>2 DEF Covers, Incoming, LoggedAfter, Anchored, Since, LogPosition
      <2> QED
          BY <1>2, <2>1, <2>2
  <1>7. UNCHANGED <<fs, rows, gen>> /\ pc # "down"
      BY <1>2
  <1>8. RowsKept' /\ DoomedKept' /\ Gens'
      BY <1>1, <1>4, <1>5, <1>6, <1>7, Keeps DEF Gens, Views
  <1> QED
      BY <1>3, <1>8, MetIdle DEF Kept

\* What the inbox holds goes into the plan.
LEMMA MergeKeeps ==
    ASSUME Inv
    PROVE  LET M == merge_incoming(pend, inbox)
           IN  /\ M \in PendingType
               /\ M.rescan_roots <=> pend.rescan_roots \/ inbox.rescan_roots
               /\ ~M.rescan_roots => M.paths = pend.paths \cup inbox.paths
               /\ M.retry_paths = pend.retry_paths
               /\ M.retry_roots = pend.retry_roots
               /\ M.full_recovery_obligation = pend.full_recovery_obligation
               /\ M.deferred_cleanups = pend.deferred_cleanups
  <1>1. pend \in PendingType /\ inbox \in InboxType /\ ~pend.worker_scope_failure
      BY DEF Inv, TypeOK, Scoped, NoScopeFailure
  <1>2. merge_incoming(pend, inbox) \in PendingType
      BY Facts, MergeType DEF Plan
  <1>3. merge_incoming(pend, inbox).rescan_roots <=> pend.rescan_roots \/ inbox.rescan_roots
      BY <1>1 DEF merge_incoming, PendingType, InboxType
  <1>4. ~merge_incoming(pend, inbox).rescan_roots =>
            merge_incoming(pend, inbox).paths = pend.paths \cup inbox.paths
      BY <1>1 DEF merge_incoming, PendingType, InboxType
  <1>5. /\ merge_incoming(pend, inbox).retry_paths = pend.retry_paths
        /\ merge_incoming(pend, inbox).retry_roots = pend.retry_roots
        /\ merge_incoming(pend, inbox).full_recovery_obligation = pend.full_recovery_obligation
        /\ merge_incoming(pend, inbox).deferred_cleanups = pend.deferred_cleanups
      BY <1>1 DEF merge_incoming, PendingType
  <1> QED
      BY <1>2, <1>3, <1>4, <1>5

\* A later position sees less of the log.
LEMMA LoggedEarlier ==
    ASSUME Inv, NEW m \in Nat, NEW n \in Nat, m <= n, NEW p, LoggedAfter(n, p)
    PROVE  LoggedAfter(m, p)
  <1>1. PICK j \in n + 1 .. Len(log) : log[j] # Wrapped /\ p \in Sub[log[j]]
      BY DEF LoggedAfter
  <1>2. j \in m + 1 .. Len(log)
      BY Facts
  <1> QED
      BY <1>1, <1>2 DEF LoggedAfter

\* The batch that the worker takes: what was ahead of it and admitted is now
\* work, and the rest is after its watermark.
LEMMA TakeBatchKeeps ==
    ASSUME CheckpointInv, RecoveryInv, TakeBatch
    PROVE  Kept'
  <1>1. /\ Inv /\ RowsKept /\ DoomedKept /\ Gens /\ pend \in PendingType
      BY Facts DEF CheckpointInv, IInv, RecoveryInv
  <1> DEFINE M == merge_incoming(pend, inbox)
  <1>2. /\ UNCHANGED <<fs, rows, gen, log, wrap, delivered, ckpt, queue, scan>>
        /\ pc = "take" /\ pend' = enforce_worker_plan_bound(M)
      BY DEF TakeBatch, system
  <1>3. scan'.targets = {}
      BY <1>1, <1>2, Facts DEF Scanning
  <1>4. /\ M \in PendingType
        /\ M.rescan_roots <=> pend.rescan_roots \/ inbox.rescan_roots
        /\ ~M.rescan_roots => M.paths = pend.paths \cup inbox.paths
        /\ M.retry_paths = pend.retry_paths
        /\ M.retry_roots = pend.retry_roots
        /\ M.full_recovery_obligation = pend.full_recovery_obligation
        /\ M.deferred_cleanups = pend.deferred_cleanups
      BY <1>1, MergeKeeps
  <1> HIDE DEF M
  <1>5. /\ pend'.rescan_roots <=> M.rescan_roots
        /\ \/ /\ pend'.full_recovery_obligation
              /\ pend'.deferred_cleanups = EmptyPending.deferred_cleanups
           \/ /\ pend'.paths = M.paths /\ pend'.retry_paths = M.retry_paths
              /\ pend'.retry_roots <=> M.retry_roots
              /\ pend'.full_recovery_obligation <=> M.full_recovery_obligation
              /\ pend'.deferred_cleanups = M.deferred_cleanups
      BY <1>2, <1>4, BoundKeeps
  <1>6. ASSUME NEW p, p \in Below(inbox.paths) \/ inbox.rescan_roots PROVE Undone(p)'
      <2>1. CASE pend'.full_recovery_obligation \/ pend'.rescan_roots
          BY <2>1 DEF Undone
      <2>2. CASE ~pend'.full_recovery_obligation /\ ~pend'.rescan_roots
          <3>1. pend'.paths = pend.paths \cup inbox.paths /\ p \in Below(inbox.paths)
              BY <1>4, <1>5, <1>6, <2>2
          <3> QED
              BY <3>1 DEF Undone, Below
      <2> QED
          BY <2>1, <2>2
  <1>7. \A p \in Indexed : /\ Undone(p) => Undone(p)'
                           /\ Doomed(p) => Doomed(p)' \/ Undone(p)'
                           /\ Doomed(p)' => Doomed(p) \/ Undone(p)'
      <2>1. CASE pend'.full_recovery_obligation \/ pend'.rescan_roots
          BY <2>1 DEF Undone
      <2>2. CASE ~pend'.full_recovery_obligation /\ ~pend'.rescan_roots
          <3>1. /\ ~pend.full_recovery_obligation /\ ~pend.rescan_roots
                /\ pend'.retry_roots <=> pend.retry_roots
                /\ pend'.paths = pend.paths \cup inbox.paths
                /\ pend'.retry_paths = pend.retry_paths
                /\ pend'.deferred_cleanups = pend.deferred_cleanups
              BY <1>4, <1>5, <2>2
          <3>2. \A p : Doomed(p)' <=> Doomed(p)
              BY <1>2, <3>1 DEF Doomed
          <3>3. \A p : Undone(p) => Undone(p)'
              BY <1>2, <3>1 DEF Undone, Below
          <3> QED
              BY <3>2, <3>3
      <2> QED
          BY <2>1, <2>2
  <1>8. \A p : LoggedAfter(delivered, p)' <=> LoggedAfter(delivered, p)
      BY <1>2 DEF LoggedAfter
  <1>9. \A p : Covers("ahead", p) => Covers("ahead", p)' \/ Undone(p)'
      BY <1>6, <1>8 DEF Covers, Incoming
  <1>10. Inv' /\ Watermarks' /\ pc' # "down"
      <2>1. [Next]_vars
          BY DEF Next, Work
      <2> QED
          BY <2>1, CheckpointNext DEF CheckpointInv, IInv, TakeBatch
  <1>11. Anchored' => Since' <= delivered' /\ Since' \in Nat /\ delivered' \in Nat
      <2>1. pend'.max_event_id # 0 => LogPosition(pend.max_event_id)' <= delivered'
          BY <1>10 DEF Watermarks, Within
      <2>2. ckpt' # 0 => LogPosition(ckpt)' <= delivered'
          BY <1>10 DEF Watermarks, Within
      <2>3. Since' \in Nat /\ delivered' \in Nat
          <3>1. /\ pend'.max_event_id \in Nat /\ ckpt' \in Nat /\ wrap' \in Nat
                /\ delivered' \in Nat /\ Base \in Nat
              BY <1>10, WatcherAssumption DEF Inv, TypeOK, PendingType
          <3>2. LogPosition(pend.max_event_id)' \in Nat
              BY <3>1 DEF LogPosition
          <3>3. LogPosition(ckpt)' \in Nat
              BY <1>1, <1>2, State DEF LogPosition
          <3> QED
              BY <3>1, <3>2, <3>3 DEF Since
      <2> QED
          BY <2>1, <2>2, <2>3 DEF Since, Anchored
  <1>12. ASSUME NEW p, Covers("ahead", p) PROVE Covers("batch", p)' \/ Undone(p)'
      <2>1. CASE p \in Below(inbox.paths) \/ inbox.rescan_roots
          BY <1>6, <2>1
      <2>2. CASE LoggedAfter(delivered, p)
          <3>1. Anchored' => LoggedAfter(Since', p)
              BY <1>1, <1>2, <1>11, <2>2, LoggedEarlier
          <3>2. LoggedAfter(Since', p) => LoggedAfter(Since, p)'
              BY <1>2 DEF LoggedAfter
          <3> QED
              BY <3>1, <3>2 DEF Covers
      <2> QED
          BY <1>12, <2>1, <2>2 DEF Covers, Incoming
  <1>13. \A p : Covers("stored", p) => Covers("stored", p)'
      BY <1>2 DEF Covers, LoggedAfter, LogPosition
  <1>14. \A t \in Paths : pend'.deferred_cleanups[t] <= gen
      BY <1>1, <1>4, <1>5, State DEF Gens, EmptyPending
  <1>15. UNCHANGED <<fs, rows, gen>> /\ pc # "down"
      BY <1>2
  <1>16. RowsKept' /\ DoomedKept' /\ Gens'
      BY <1>1, <1>7, <1>9, <1>12, <1>13, <1>14, <1>15, Keeps
  <1> QED
      BY <1>3, <1>16, MetIdle DEF Kept

-----------------------------------------------------------------------------
(* The end of a turn.                                                      *)

\* Where a turn ends without work, nothing is owed.
LEMMA NothingUndone ==
    ASSUME CheckpointInv, Turns, Batch, pc \in {"cleanup", "mark", "boot_mark", "down"}
    PROVE  \A p : ~Undone(p)
  <1>1. Inv
      BY DEF CheckpointInv, IInv
  <1>2. queue = {} /\ scan.targets = {}
      BY <1>1, Facts DEF Batch, Scanning
  <1>3. ~has_work(pend)
      <2>1. CASE pc \in {"cleanup", "mark"}
          BY <2>1 DEF Turns
      <2>2. CASE pc \in {"boot_mark", "down"}
          <3>1. pend = [EmptyPending EXCEPT !.max_event_id = pend.max_event_id]
              BY <2>2 DEF CheckpointInv, Quiet, Watching
          <3> QED
              BY <1>1, <3>1, State, EmptyHasNothing
      <2> QED
          BY <2>1, <2>2
  <1> QED
      BY <1>2, <1>3 DEF has_work, has_retries, Undone, Below

\* Nor is anything deferred once the cleanups have run, or before a batch.
LEMMA NoneDoomed ==
    ASSUME Inv, Deferred(pend) = {}
    PROVE  \A p \in Indexed : ~Doomed(p)
  <1>1. \A t \in Paths : pend.deferred_cleanups[t] = 0
      BY DEF Deferred
  <1>2. rows \in [Paths -> Row] /\ Indexed \subseteq Paths
      BY State, RootsCover
  <1> QED
      BY <1>1, <1>2 DEF Doomed, Row

\* The checkpoint of a turn, and that of the boot scan.
LEMMA MarkStep ==
    ASSUME CheckpointInv, Turns, RecoveryInv, Mark \/ BootMark
    PROVE  Kept'
  <1>1. /\ Inv /\ RowsKept /\ DoomedKept /\ Gens /\ Batch /\ pend \in PendingType
        /\ pend.max_event_id \in Nat
      BY Facts, State DEF CheckpointInv, IInv, RecoveryInv
  <1>2. /\ UNCHANGED <<fs, rows, gen, log, wrap, delivered, inbox, scan, queue>>
        /\ pc \in {"mark", "boot_mark"}
      BY DEF Mark, BootMark, system
  <1>3. \A p \in Indexed : ~Undone(p) /\ ~Doomed(p)
      <2>1. Deferred(pend) = {}
          <3>1. CASE pc = "mark"
              BY <3>1 DEF Turns
          <3>2. CASE pc = "boot_mark"
              <4>1. pend = [EmptyPending EXCEPT !.max_event_id = pend.max_event_id]
                  BY <3>2 DEF CheckpointInv, Quiet, Watching
              <4> QED
                  BY <1>1, <4>1, EmptyHasNothing
          <3> QED
              BY <1>2, <3>1, <3>2
      <2> QED
          BY <1>1, <1>2, <2>1, NothingUndone, NoneDoomed
  <1>4. \/ UNCHANGED <<ckpt, pend>>
        \/ /\ ckpt' = pend.max_event_id /\ pend'.max_event_id = 0
           /\ pend'.deferred_cleanups = pend.deferred_cleanups
      BY <1>1 DEF Mark, BootMark, PendingType
  <1>5. RowsKept' /\ DoomedKept' /\ Gens'
      <2>1. CASE UNCHANGED <<ckpt, pend>>
          <3>1. \A i \in Views : \A p : Covers(i, p)' <=> Covers(i, p)
              BY <1>2, <2>1, CoversSame
          <3>2. \A p : (Undone(p)' <=> Undone(p)) /\ (Doomed(p)' <=> Doomed(p))
              BY <1>2, <2>1 DEF Undone, Doomed
          <3>3. UNCHANGED <<fs, rows, gen, pend>> /\ pc # "down"
              BY <1>2, <2>1
          <3> QED
              BY <1>1, <3>1, <3>2, <3>3, Keeps DEF Gens, Views
      <2>2. CASE /\ ckpt' = pend.max_event_id /\ pend'.max_event_id = 0
                 /\ pend'.deferred_cleanups = pend.deferred_cleanups
          BY <1>1, <1>2, <1>3, <2>2, MarkKeeps
      <2> QED
          BY <1>4, <2>1, <2>2
  <1>6. scan'.targets = {}
      BY <1>1, <1>2, Facts DEF Scanning
  <1> QED
      BY <1>5, <1>6, MetIdle DEF Kept

\* The stored checkpoint is no later than the watermark of the plan.
LEMMA BatchIsStored ==
    ASSUME CheckpointInv, NEW p, Covers("batch", p)
    PROVE  Covers("stored", p)
  <1>1. Inv /\ ckpt \in Nat /\ Since \in Nat /\ LogPosition(ckpt) \in Nat
      BY State DEF CheckpointInv, IInv
  <1>2. ckpt # 0 => LogPosition(ckpt) <= Since
      BY <1>1 DEF CheckpointInv, Watermarks, InOrder, Since
  <1>3. ckpt # 0 => LoggedAfter(Since, p)
      BY DEF Covers, Anchored
  <1> QED
      BY <1>1, <1>2, <1>3, LoggedEarlier DEF Covers

\* The deferred cleanups delete rows of files that are gone, and rows whose
\* event is ahead.
LEMMA CleanupStep ==
    ASSUME CheckpointInv, Turns, RecoveryInv, Cleanup
    PROVE  Kept' /\ Derived
  <1>1. /\ Inv /\ RowsKept /\ DoomedKept /\ Gens /\ Batch /\ pend \in PendingType
        /\ rows \in [Paths -> Row] /\ gen \in Nat /\ Indexed \subseteq Paths
      BY Facts, RootsCover DEF CheckpointInv, IInv, RecoveryInv
  <1>2. /\ UNCHANGED <<fs, gen, log, wrap, delivered, inbox, ckpt, scan, queue>> /\ pc = "cleanup"
      BY DEF Cleanup, system
  <1>3. /\ rows' = [p \in Paths |-> IF Doomed(p) THEN NoRow ELSE rows[p]]
        /\ pend' = [pend EXCEPT !.deferred_cleanups = EmptyPending.deferred_cleanups]
      BY DEF Cleanup, Doomed
  <1>4. /\ pend'.max_event_id = pend.max_event_id
        /\ pend'.deferred_cleanups = EmptyPending.deferred_cleanups
      BY <1>1, <1>3 DEF PendingType
  <1>5. NoRow \in Row /\ NoRow.val = "none" /\ NoRow.gen = 0
      BY DEF NoRow, Row, Vals
  <1>6. /\ rows' \in [Paths -> Row]
        /\ \A p \in Paths : Doomed(p) => rows'[p] = NoRow
        /\ \A p \in Paths : ~Doomed(p) => rows'[p] = rows[p]
      BY <1>1, <1>3, <1>5
  <1>7. \A p \in Paths : ~Doomed(p)'
      <2>1. \A p \in Paths : ~\E t \in Paths : p \in Sub[t] /\ rows'[p].gen < pend'.deferred_cleanups[t]
          BY <1>1, <1>4, <1>6, NothingDoomed
      <2> QED
          BY <2>1 DEF Doomed
  <1>8. \A p : ~Undone(p)
      BY <1>1, <1>2, NothingUndone
  <1>9. \A i \in Views : \A p : Covers(i, p)' <=> Covers(i, p)
      BY <1>2, <1>4, CoversSame
  <1>10. Gens'
      <2>1. \A p \in Paths : rows'[p].gen <= gen
          BY <1>1, <1>5, <1>6 DEF Gens
      <2>2. \A t \in Paths : pend'.deferred_cleanups[t] <= gen
          BY <1>1, <1>4 DEF EmptyPending
      <2> QED
          BY <1>2, <2>1, <2>2 DEF Gens
  <1>11. ASSUME NEW p \in Indexed, Tracked(p)', Stale(p)'
         PROVE  Covers("ahead", p)' /\ Covers("batch", p)' /\ Covers("stored", p)'
      <2>1. Tracked(p) /\ rows'[p].val # fs[p]
          BY <1>2, <1>11 DEF Tracked, Stale, StableKinds
      <2>2. CASE Doomed(p)
          <3>1. fs[p] # "none"
              BY <1>1, <1>5, <1>6, <1>11, <2>1, <2>2
          <3>2. Covers("ahead", p) /\ Covers("batch", p)
              BY <1>1, <1>8, <1>11, <2>2, <3>1 DEF DoomedKept
          <3>3. Covers("stored", p)
              BY <3>2, BatchIsStored
          <3> QED
              BY <1>9, <3>2, <3>3 DEF Views
      <2>3. CASE ~Doomed(p)
          <3>1. Stale(p)
              BY <1>1, <1>6, <1>11, <2>1, <2>3 DEF Stale
          <3>2. Covers("ahead", p) /\ Covers("batch", p) /\ Covers("stored", p)
              BY <1>1, <1>2, <1>8, <1>11, <2>1, <2>3, <3>1 DEF RowsKept, Debt
          <3> QED
              BY <1>9, <3>2 DEF Views
      <2> QED
          BY <2>2, <2>3
  <1>12. RowsKept' /\ DoomedKept'
      BY <1>1, <1>7, <1>11 DEF RowsKept, DoomedKept
  <1>13. MetKept'
      <2>1. scan'.targets = {}
          BY <1>1, <1>2, Facts DEF Scanning
      <2> QED
          BY <2>1, MetIdle
  <1>14. Derived
      BY <1>5, <1>6 DEF Derived
  <1> QED
      BY <1>10, <1>12, <1>13, <1>14 DEF Kept

-----------------------------------------------------------------------------
(* The start and the end of the process.                                   *)

\* The replay starts at the stored checkpoint.
LEMMA ReplayStep ==
    ASSUME CheckpointInv, RecoveryInv, Turns, StartFromCheckpoint
    PROVE  Kept'
  <1>1. /\ Inv /\ EpochIds /\ LogShape /\ RowsKept /\ Gens /\ pend \in PendingType
      BY Facts DEF CheckpointInv, IInv, RecoveryInv
  <1>2. /\ UNCHANGED <<fs, rows, gen, log, wrap, inbox, ckpt, pend, scan, queue>>
        /\ pc = "down" /\ pc' = "take" /\ delivered' = Position(ckpt) /\ ~CheckpointUnusable
      BY DEF StartFromCheckpoint, system
  <1>3. delivered' = LogPosition(ckpt) /\ ckpt # 0
      BY <1>1, <1>2, UsablePosition DEF CheckpointUnusable
  <1>4. pend = [EmptyPending EXCEPT !.max_event_id = 0] /\ pend.max_event_id = 0
      BY <1>2 DEF CheckpointInv, Quiet, Watching
  <1>5. Deferred(pend) = {}
      BY <1>4, EmptyHasNothing
  <1>6. \A p \in Indexed : ~Doomed(p)
      BY <1>1, <1>5, NoneDoomed
  <1>7. \A p \in Indexed : ~Doomed(p)'
      BY <1>2, <1>6 DEF Doomed
  <1>8. ASSUME NEW p, Covers("stored", p)
        PROVE  Covers("ahead", p)' /\ Covers("batch", p)' /\ Covers("stored", p)'
      <2>1. LoggedAfter(LogPosition(ckpt), p)
          BY <1>3, <1>8 DEF Covers
      <2>2. LoggedAfter(delivered, p)' /\ LoggedAfter(LogPosition(ckpt), p)'
          BY <1>2, <1>3, <2>1 DEF LoggedAfter, LogPosition
      <2>3. Since' = LogPosition(ckpt)'
          BY <1>2, <1>4 DEF Since
      <2>4. LoggedAfter(Since, p)'
          BY <2>2, <2>3 DEF LoggedAfter
      <2> QED
          BY <2>2, <2>4 DEF Covers, Incoming
  <1>9. ASSUME NEW p \in Indexed, Tracked(p)', Stale(p)'
        PROVE  Covers("ahead", p)' /\ Covers("batch", p)' /\ Covers("stored", p)'
      <2>1. Tracked(p) /\ Stale(p)
          BY <1>2, <1>9 DEF Tracked, Stale, StableKinds
      <2>2. Covers("stored", p)
          BY <1>1, <1>9, <2>1 DEF RowsKept
      <2> QED
          BY <1>8, <2>2
  <1>10. RowsKept' /\ DoomedKept'
      BY <1>7, <1>9 DEF RowsKept, DoomedKept
  <1>11. Gens'
      BY <1>1, <1>2 DEF Gens
  <1>12. scan'.targets = {}
      BY <1>1, <1>2, Facts DEF Scanning
  <1> QED
      BY <1>10, <1>11, <1>12, MetIdle DEF Kept

\* Without a usable checkpoint, every path is in the boot scan.
LEMMA RescanStep ==
    ASSUME CheckpointInv, RecoveryInv, StartFullRescan
    PROVE  Kept'
  <1>1. /\ Inv /\ RowsKept /\ Gens /\ gen \in Nat /\ rows \in [Paths -> Row]
      BY Facts DEF CheckpointInv, IInv, RecoveryInv
  <1>2. /\ UNCHANGED <<fs, rows, gen, log, wrap, ckpt>>
        /\ pend' = [EmptyPending EXCEPT !.max_event_id = CurrentId]
        /\ scan' = BeginScan(Roots, TRUE)
      BY DEF StartFullRescan, system
  <1>3. PICK x \in BOOLEAN : scan' = BeginScan(Roots, x)
      BY <1>2
  <1>4. scan'.targets = Roots
      BY <1>3 DEF BeginScan
  <1>5. \A p \in Indexed : Undone(p)'
      BY <1>4, RootsCover DEF Undone, Below
  <1>6. pend'.deferred_cleanups = EmptyPending.deferred_cleanups
      BY <1>2, EmptyType DEF PendingType
  <1>7. \A t \in Paths : pend'.deferred_cleanups[t] = 0
      BY <1>1, <1>6, NothingDoomed
  <1>8. Gens'
      <2>1. \A t \in Paths : pend'.deferred_cleanups[t] <= gen
          BY <1>1, <1>7
      <2>2. \A p \in Paths : rows'[p].gen <= gen
          BY <1>1, <1>2 DEF Gens
      <2>3. gen' = gen
          BY <1>2
      <2> QED
          BY <2>1, <2>2, <2>3 DEF Gens
  <1>9. ASSUME NEW p \in Indexed, Tracked(p)', Stale(p)' PROVE Covers("stored", p)'
      <2>1. Tracked(p) /\ Stale(p)
          BY <1>2, <1>9 DEF Tracked, Stale, StableKinds
      <2>2. Covers("stored", p)
          BY <1>1, <1>9, <2>1 DEF RowsKept
      <2> QED
          BY <1>2, <2>2 DEF Covers, LoggedAfter, LogPosition
  <1>10. RowsKept' /\ DoomedKept'
      BY <1>5, <1>9 DEF RowsKept, DoomedKept, Debt
  <1>11. fs' = fs
      BY <1>2
  <1>12. MetKept'
      BY <1>1, <1>3, <1>11, MetFresh, TreeInPaths
  <1> QED
      BY <1>8, <1>10, <1>12 DEF Kept

\* A crash forgets the work of the process; the checkpoint stays behind it.
LEMMA CrashStep ==
    ASSUME CheckpointInv, RecoveryInv, Crash
    PROVE  Kept'
  <1>1. /\ Inv /\ RowsKept /\ Gens /\ gen \in Nat /\ rows \in [Paths -> Row]
        /\ Indexed \subseteq Paths
      BY Facts, RootsCover DEF CheckpointInv, IInv, RecoveryInv
  <1>2. /\ UNCHANGED <<fs, rows, gen, log, wrap, ckpt>>
        /\ pc' = "down" /\ pend' = EmptyPending /\ scan'.targets = {}
      BY NoScanType DEF Crash, EndScan, system
  <1>3. pend'.deferred_cleanups = EmptyPending.deferred_cleanups /\ pend'.max_event_id = 0
      BY <1>2 DEF EmptyPending
  <1>4. /\ \A t \in Paths : pend'.deferred_cleanups[t] = 0
        /\ \A p \in Indexed : ~Doomed(p)'
      <2>1. /\ \A t \in Paths : pend'.deferred_cleanups[t] = 0
            /\ \A p \in Paths :
                  ~\E t \in Paths : p \in Sub[t] /\ rows[p].gen < pend'.deferred_cleanups[t]
          BY <1>1, <1>3, NothingDoomed
      <2> QED
          BY <1>1, <1>2, <2>1 DEF Doomed
  <1>5. ASSUME NEW p, Covers("stored", p) PROVE Covers("batch", p)' /\ Covers("stored", p)'
      BY <1>2, <1>3, <1>5 DEF Covers, Anchored, Since, LoggedAfter, LogPosition
  <1>6. ASSUME NEW p \in Indexed, Tracked(p)', Stale(p)'
        PROVE  Covers("batch", p)' /\ Covers("stored", p)'
      <2>1. Tracked(p) /\ Stale(p)
          BY <1>2, <1>6 DEF Tracked, Stale, StableKinds
      <2>2. Covers("stored", p)
          BY <1>1, <1>6, <2>1 DEF RowsKept
      <2> QED
          BY <1>5, <2>2
  <1>7. RowsKept' /\ DoomedKept'
      BY <1>2, <1>4, <1>6 DEF RowsKept, DoomedKept
  <1>8. Gens'
      <2>1. \A t \in Paths : pend'.deferred_cleanups[t] <= gen
          BY <1>1, <1>4
      <2>2. \A p \in Paths : rows'[p].gen <= gen
          BY <1>1, <1>2 DEF Gens
      <2> QED
          BY <1>2, <2>1, <2>2 DEF Gens
  <1> QED
      BY <1>2, <1>7, <1>8, MetIdle DEF Kept

-----------------------------------------------------------------------------
(* The stream.                                                             *)

\* An event adds its targets to the inbox, or turns it into a rescan.
LEMMA PushKeeps ==
    ASSUME NEW box \in InboxType, NEW q \in Paths, NEW id \in Nat, NEW g \in BOOLEAN, NEW w \in BOOLEAN
    PROVE  LET b == Push(box, q, id, g, w)
           IN  \/ b.rescan_roots
               \/ /\ ~box.rescan_roots /\ ~g /\ subtree_targets(q) # {}
                  /\ b.paths = box.paths \cup subtree_targets(q)
  <1> DEFINE r == record_event(box, id, w)
             a == add_scoped(box, q, id, g, w)
             b == Push(box, q, id, g, w)
  <1>1. r \in InboxType /\ r.paths = box.paths /\ r.rescan_roots = box.rescan_roots
      BY DEF record_event, InboxType, Larger
  <1>2. a = IF g \/ subtree_targets(q) = {} THEN [r EXCEPT !.rescan_roots = TRUE, !.paths = {}]
            ELSE IF box.rescan_roots THEN r
            ELSE [r EXCEPT !.paths = r.paths \cup subtree_targets(q)]
      BY DEF add_scoped
  <1> HIDE DEF r
  <1>3. subtree_targets(q) \subseteq Paths
      BY TargetsScoped, TreeInPaths
  <1>4. a \in InboxType
      BY <1>1, <1>2, <1>3 DEF InboxType
  <1>5. \/ a.rescan_roots
        \/ /\ ~box.rescan_roots /\ ~g /\ subtree_targets(q) # {}
           /\ a.paths = box.paths \cup subtree_targets(q)
      BY <1>1, <1>2, <1>3 DEF InboxType
  <1>6. b = IF Cardinality(a.paths) > MaxPaths THEN [a EXCEPT !.rescan_roots = TRUE, !.paths = {}]
            ELSE a
      BY DEF Push
  <1> HIDE DEF a
  <1>7. b = a \/ b.rescan_roots
      BY <1>4, <1>6 DEF InboxType
  <1> QED
      BY <1>5, <1>7

\* The targets of an event at q hold every indexed path below q.
LEMMA TargetsCover ==
    ASSUME NEW q \in Paths, NEW p \in Tree, p \in Sub[q]
    PROVE  p \in Below(subtree_targets(q))
  <1> DEFINE S == {a \in {q} : a \in Tree} \cup {r \in Roots : r \in Sub[q]}
  <1>1. S \in SUBSET Paths
      BY TreeInPaths
  <1>2. p \in Below(S)
      <2>1. CASE q \in Tree
          BY <2>1 DEF Below
      <2>2. CASE q \notin Tree
          <3>1. PICK r \in Roots : p \in Sub[r]
              BY DEF Tree, Below
          <3>2. r \in Paths
              BY TreeAssumption
          <3>3. q \notin Sub[r]
              BY <2>2, <3>1 DEF Tree, Below
          <3>4. r \in Sub[q]
              BY <3>1, <3>2, <3>3, TreeAssumption
          <3> QED
              BY <3>1, <3>4 DEF Below
      <2> QED
          BY <2>1, <2>2
  <1>3. p \in Below(fold_refresh_paths(S))
      BY <1>1, <1>2, FoldCovers
  <1> QED
      BY <1>3 DEF subtree_targets

\* An alias has no target.
LEMMA AliasTargets == ASSUME NEW q \in Aliases PROVE subtree_targets(q) = {} /\ q \notin Excluded
  BY WatcherAssumption DEF subtree_targets, fold_refresh_paths

\* What the stream takes out of the log it puts into the inbox: the events of
\* an excluded path concern no indexed one.
LEMMA DeliverKeepsIncoming ==
    ASSUME CheckpointInv, Deliver, NEW p \in Indexed, Incoming(p)
    PROVE  Incoming(p)'
  <1>1. Inv /\ inbox \in InboxType /\ Len(log) \in Nat /\ delivered \in Nat
        /\ log \in Seq(Tree \cup {Wrapped}) /\ p \in Tree /\ p \in Paths /\ p \notin Excluded
      BY Facts, State, RootsCover DEF CheckpointInv, IInv, Indexed
  <1>2. PICK k \in delivered + 1 .. Len(log) :
            \/ \E q \in Paths : DeliverPath(k, q)
            \/ DeliverDropped(k)
            \/ DeliverWrap(k)
      BY DEF Deliver
  <1>3. PICK q \in Paths, g \in BOOLEAN, w \in BOOLEAN :
            /\ Accept(k, q, g, w)
            /\ ~g => \/ q \in Aliases
                     \/ \A i \in delivered + 1 .. k : log[i] \in Sub[q]
      BY <1>2 DEF DeliverPath, DeliverDropped, DeliverWrap
  <1> DEFINE b == Push(inbox, q, Id(k), g, w)
  <1>4. /\ delivered' = k /\ log' = log
        /\ inbox' = IF ~g /\ q \in Excluded THEN inbox ELSE b
      BY <1>3 DEF Accept, system
  <1>5. k \in 0 .. Len(log)
      BY <1>1
  <1>6. Id(k) \in Nat
      BY <1>1, <1>5, IdNat
  <1>7. \/ b.rescan_roots
        \/ /\ ~inbox.rescan_roots /\ ~g /\ subtree_targets(q) # {}
           /\ b.paths = inbox.paths \cup subtree_targets(q)
      BY <1>1, <1>6, PushKeeps
  <1> HIDE DEF b
  <1>8. CASE inbox.rescan_roots \/ p \in Below(inbox.paths)
      <2>1. CASE inbox' = inbox
          BY <1>8, <2>1 DEF Incoming
      <2>2. CASE inbox' = b
          BY <1>7, <1>8, <2>2 DEF Incoming, Below
      <2> QED
          BY <1>4, <2>1, <2>2
  <1>9. CASE LoggedAfter(delivered, p)
      <2>1. PICK j \in delivered + 1 .. Len(log) : log[j] # Wrapped /\ p \in Sub[log[j]]
          BY <1>9 DEF LoggedAfter
      <2>2. CASE j > k
          <3>1. j \in k + 1 .. Len(log)
              BY <1>1, <1>5, <2>1, <2>2
          <3>2. LoggedAfter(delivered, p)'
              BY <1>4, <2>1, <3>1 DEF LoggedAfter
          <3> QED
              BY <3>2 DEF Incoming
      <2>3. CASE ~(j > k)
          <3>1. j \in delivered + 1 .. k
              BY <1>1, <1>5, <2>1, <2>3
          <3>2. CASE g
              BY <1>4, <1>7, <3>2 DEF Incoming
          <3>3. CASE ~g /\ q \in Aliases
              <4>1. subtree_targets(q) = {} /\ q \notin Excluded
                  BY <3>3, AliasTargets
              <4> QED
                  BY <1>4, <1>7, <4>1 DEF Incoming
          <3>4. CASE ~g /\ q \notin Aliases
              <4>1. log[j] \in Sub[q] /\ log[j] \in Paths
                  BY <1>3, <3>1, <3>4, TreeAssumption
              <4>2. p \in Sub[q]
                  BY <2>1, <4>1, TreeAssumption
              <4>3. q \notin Excluded
                  BY <1>1, <4>2, ExcludedAssumption
              <4>4. inbox' = b
                  BY <1>4, <4>3
              <4>5. p \in Below(subtree_targets(q))
                  BY <1>1, <4>2, TargetsCover
              <4> QED
                  BY <1>7, <4>4, <4>5 DEF Incoming, Below
          <3> QED
              BY <3>2, <3>3, <3>4
      <2> QED
          BY <2>2, <2>3
  <1> QED
      BY <1>8, <1>9 DEF Incoming

\* A delivery moves nothing else.
LEMMA DeliverKeeps ==
    ASSUME CheckpointInv, RecoveryInv, Deliver
    PROVE  Kept'
  <1>1. /\ Inv /\ MetKept /\ RowsKept /\ DoomedKept /\ Gens
      BY DEF CheckpointInv, IInv, RecoveryInv
  <1>2. UNCHANGED <<fs, rows, gen, log, wrap, ckpt, pend, scan, queue, pc>>
      BY DEF Deliver, DeliverPath, DeliverDropped, DeliverWrap, Accept, system, worker
  <1>3. \A p \in Indexed : Covers("ahead", p) => Covers("ahead", p)'
      BY DeliverKeepsIncoming DEF Covers
  <1>4. \A p : /\ Covers("batch", p) => Covers("batch", p)'
               /\ Covers("stored", p) => Covers("stored", p)'
      BY <1>2 DEF Covers, Anchored, Since, LoggedAfter, LogPosition
  <1>5. \A p : (Undone(p)' <=> Undone(p)) /\ (Doomed(p)' <=> Doomed(p))
      BY <1>2 DEF Undone, Doomed
  <1>6. pc # "down"
      BY DEF Deliver, DeliverPath, DeliverDropped, DeliverWrap, Watching
  <1>7. RowsKept' /\ DoomedKept' /\ Gens'
      BY <1>1, <1>2, <1>3, <1>4, <1>5, <1>6, Keeps DEF Gens
  <1>8. MetKept'
      <2>1. \A p \in Below(scan.targets) \ Excluded : p \in Indexed
          BY <1>1, ScanBelow DEF Indexed
      <2> QED
          BY <1>1, <1>2, <1>3, <1>4, <2>1 DEF MetKept, Views
  <1> QED
      BY <1>7, <1>8 DEF Kept

-----------------------------------------------------------------------------
(* The system.                                                             *)

\* Every position of a view is in the log.
LEMMA ViewsInLog ==
    ASSUME CheckpointInv
    PROVE  /\ delivered \in Nat /\ delivered <= Len(log) /\ Len(log) \in Nat
           /\ Since \in Nat /\ LogPosition(ckpt) \in Nat
           /\ Anchored => Since <= Len(log)
           /\ ckpt # 0 => LogPosition(ckpt) <= Len(log)
  <1>1. Inv
      BY DEF CheckpointInv, IInv
  <1>2. /\ delivered \in Nat /\ delivered <= Len(log) /\ Len(log) \in Nat
        /\ Since \in Nat /\ LogPosition(ckpt) \in Nat
      BY <1>1, Facts, State
  <1>3. ckpt # 0 => LogPosition(ckpt) <= Len(log)
      BY DEF CheckpointInv, Watermarks, Within
  <1>4. pend.max_event_id # 0 => LogPosition(pend.max_event_id) <= delivered
      BY DEF CheckpointInv, Watermarks, Within
  <1>5. pend.max_event_id # 0 => Since = LogPosition(pend.max_event_id)
      BY DEF Since
  <1>6. pend.max_event_id = 0 => Since = LogPosition(ckpt)
      BY DEF Since
  <1>7. Anchored => Since <= Len(log)
      BY <1>2, <1>3, <1>4, <1>5, <1>6 DEF Anchored
  <1> QED
      BY <1>2, <1>3, <1>7

\* An event appended to the log is after every position, and hides none.
LEMMA AppendLogs ==
    ASSUME Inv, NEW e, log' = Append(log, e), NEW n \in Nat, NEW p
    PROVE  /\ LoggedAfter(n, p) => LoggedAfter(n, p)'
           /\ n <= Len(log) /\ e # Wrapped /\ p \in Sub[e] => LoggedAfter(n, p)'
  <1>1. log \in Seq(Tree \cup {Wrapped}) /\ Len(log) \in Nat
      BY State
  <1>2. /\ Len(log') = Len(log) + 1 /\ log'[Len(log) + 1] = e
        /\ \A j \in 1 .. Len(log) : log'[j] = log[j]
      <2>1. log \in Seq(Tree \cup {Wrapped, e})
          BY <1>1
      <2> QED
          BY <1>1, <2>1
  <1>3. ASSUME LoggedAfter(n, p) PROVE LoggedAfter(n, p)'
      <2>1. PICK j \in n + 1 .. Len(log) : log[j] # Wrapped /\ p \in Sub[log[j]]
          BY <1>3 DEF LoggedAfter
      <2>2. j \in n + 1 .. Len(log') /\ log'[j] = log[j]
          BY <1>1, <1>2, <2>1
      <2> QED
          BY <2>1, <2>2 DEF LoggedAfter
  <1>4. ASSUME n <= Len(log), e # Wrapped, p \in Sub[e] PROVE LoggedAfter(n, p)'
      <2>1. Len(log) + 1 \in n + 1 .. Len(log')
          BY <1>1, <1>2, <1>4
      <2> QED
          BY <1>2, <1>4, <2>1 DEF LoggedAfter
  <1> QED
      BY <1>3, <1>4

\* A change of the files has its event ahead in every view.
LEMMA MutateStep ==
    ASSUME CheckpointInv, RecoveryInv, NEW q \in Tree, Mutate(q)
    PROVE  Kept'
  <1>1. /\ Inv /\ MetKept /\ RowsKept /\ DoomedKept /\ Gens /\ q \in Paths /\ q # Wrapped
        /\ scan \in ScanType
      BY TreeInPaths, WatcherAssumption, Facts DEF CheckpointInv, IInv, RecoveryInv
  <1>2. /\ UNCHANGED <<wrap, delivered, inbox, pend, pc, queue, rows, ckpt, gen>>
        /\ log' = Append(log, q)
      BY DEF Mutate, worker
  <1>3. PICK f \in FileSystems :
            /\ \A a \in Tree \ Sub[q] : f[a] = fs[a]
            /\ fs' = f
            /\ scan' = [scan EXCEPT !.met =
                  [a \in Paths |-> IF a \in Below(scan.targets) THEN @[a] \cup {f[a]} ELSE @[a]]]
      BY DEF Mutate
  <1>4. /\ scan'.targets = scan.targets
        /\ \A a \in Paths : scan'.met[a] \subseteq scan.met[a] \cup {fs'[a]}
      BY <1>1, <1>3 DEF ScanType
  <1>5. ASSUME NEW i \in Views, NEW p
        PROVE  /\ Covers(i, p) => Covers(i, p)'
               /\ p \in Sub[q] => Covers(i, p)'
      <2>1. /\ delivered \in Nat /\ delivered <= Len(log)
            /\ Since \in Nat /\ LogPosition(ckpt) \in Nat
            /\ Anchored => Since <= Len(log)
            /\ ckpt # 0 => LogPosition(ckpt) <= Len(log)
          BY ViewsInLog
      <2>3. /\ Since' = Since /\ LogPosition(ckpt)' = LogPosition(ckpt) /\ (Anchored' <=> Anchored)
            /\ delivered' = delivered /\ inbox' = inbox /\ ckpt' = ckpt
          BY <1>2 DEF Since, LogPosition, Anchored
      <2>5. CASE i = "ahead"
          <3>1. /\ LoggedAfter(delivered, p) => LoggedAfter(delivered, p)'
                /\ p \in Sub[q] => LoggedAfter(delivered, p)'
              BY <1>1, <1>2, <2>1, <2>3, AppendLogs DEF LoggedAfter
          <3> QED
              BY <2>3, <2>5, <3>1 DEF Covers, Incoming
      <2>6. CASE i = "batch"
          <3>1. /\ LoggedAfter(Since, p) => LoggedAfter(Since, p)'
                /\ Anchored /\ p \in Sub[q] => LoggedAfter(Since, p)'
              BY <1>1, <1>2, <2>1, <2>3, AppendLogs DEF LoggedAfter
          <3> QED
              BY <2>3, <2>6, <3>1 DEF Covers
      <2>7. CASE i = "stored"
          <3>1. /\ LoggedAfter(LogPosition(ckpt), p) => LoggedAfter(LogPosition(ckpt), p)'
                /\ ckpt # 0 /\ p \in Sub[q] => LoggedAfter(LogPosition(ckpt), p)'
              BY <1>1, <1>2, <2>1, <2>3, AppendLogs DEF LoggedAfter
          <3> QED
              BY <2>3, <2>7, <3>1 DEF Covers
      <2> QED
          BY <1>5, <2>5, <2>6, <2>7 DEF Views
  <1>6. \A p : (Undone(p)' <=> Undone(p)) /\ (Doomed(p)' <=> Doomed(p))
      BY <1>2, <1>4 DEF Undone, Doomed
  <1>7. \A p \in Indexed : p \notin Sub[q] => fs'[p] = fs[p]
      BY <1>3 DEF Indexed
  <1>8. ASSUME NEW p \in Indexed, Tracked(p)', Stale(p)'
        PROVE  /\ pc' # "down" => Covers("ahead", p)' \/ Debt(p)'
               /\ Covers("batch", p)' \/ Debt(p)'
               /\ Covers("stored", p)'
      <2>1. CASE p \in Sub[q]
          BY <1>5, <2>1 DEF Views
      <2>2. CASE p \notin Sub[q]
          <3>1. fs'[p] = fs[p]
              BY <1>7, <1>8, <2>2
          <3>2. Tracked(p) /\ Stale(p) /\ (Debt(p) => Debt(p)')
              BY <1>2, <1>6, <1>8, <3>1 DEF Tracked, Stale, Debt
          <3>3. /\ pc # "down" => Covers("ahead", p) \/ Debt(p)
                /\ Covers("batch", p) \/ Debt(p)
                /\ Covers("stored", p)
              BY <1>1, <1>8, <3>2 DEF RowsKept
          <3> QED
              BY <1>2, <1>5, <3>2, <3>3 DEF Views
      <2> QED
          BY <2>1, <2>2
  <1>9. ASSUME NEW i \in {"ahead", "batch"}, NEW p \in Indexed, fs'[p] # "none", Doomed(p)'
        PROVE  Covers(i, p)' \/ Undone(p)'
      <2>1. i \in Views
          BY <1>9 DEF Views
      <2>2. CASE p \in Sub[q]
          BY <1>5, <2>1, <2>2
      <2>3. CASE p \notin Sub[q]
          <3>1. fs[p] # "none" /\ Doomed(p)
              BY <1>6, <1>7, <1>9, <2>3
          <3>2. Covers(i, p) \/ Undone(p)
              BY <1>1, <1>9, <3>1 DEF DoomedKept
          <3> QED
              BY <1>5, <1>6, <2>1, <3>2
      <2> QED
          BY <2>2, <2>3
  <1>10. RowsKept' /\ DoomedKept' /\ Gens'
      BY <1>1, <1>2, <1>8, <1>9 DEF RowsKept, DoomedKept, Gens
  <1>11. ASSUME NEW i \in Views, NEW p \in Below(scan.targets) \ Excluded,
                NEW v \in scan'.met[p], v # fs'[p]
         PROVE  Covers(i, p)'
      <2>1. p \in Indexed /\ p \in Paths
          BY <1>1, <1>11, ScanBelow DEF Indexed
      <2>2. CASE p \in Sub[q]
          BY <1>5, <1>11, <2>2
      <2>3. CASE p \notin Sub[q]
          <3>1. v \in scan.met[p] /\ v # fs[p]
              BY <1>4, <1>7, <1>11, <2>1, <2>3
          <3>2. Covers(i, p)
              BY <1>1, <1>11, <3>1 DEF MetKept
          <3> QED
              BY <1>5, <1>11, <3>2
      <2> QED
          BY <2>2, <2>3
  <1>12. MetKept'
      BY <1>4, <1>11 DEF MetKept
  <1> QED
      BY <1>10, <1>12 DEF Kept

\* Neither does the wrap of the ids move a position.
LEMMA WrapStep ==
    ASSUME CheckpointInv, RecoveryInv, WrapIds
    PROVE  Kept'
  <1>1. /\ Inv /\ EpochIds /\ MetKept /\ RowsKept /\ DoomedKept /\ Gens
        /\ ckpt \in Nat /\ pend.max_event_id \in Nat /\ Base \in Nat
      BY State, WatcherAssumption DEF CheckpointInv, IInv, RecoveryInv
  <1>2. /\ UNCHANGED <<fs, delivered, inbox, pend, pc, queue, rows, ckpt, gen, scan>>
        /\ log' = Append(log, Wrapped) /\ wrap = 0
      BY DEF WrapIds, worker
  <1>3. /\ ckpt # 0 => LogPosition(ckpt)' = LogPosition(ckpt)
        /\ pend.max_event_id # 0 => LogPosition(pend.max_event_id)' = LogPosition(pend.max_event_id)
      BY <1>1, <1>2 DEF EpochIds, FirstEpoch, LogPosition
  <1>4. (Anchored' <=> Anchored) /\ (Anchored => Since' = Since)
      BY <1>2, <1>3 DEF Anchored, Since
  <1>5. ASSUME NEW i \in Views, NEW p, Covers(i, p) PROVE Covers(i, p)'
      <2>1. delivered \in Nat /\ Since \in Nat /\ LogPosition(ckpt) \in Nat
          BY ViewsInLog
      <2>2. CASE i = "ahead"
          <3>1. LoggedAfter(delivered, p) => LoggedAfter(delivered, p)'
              BY <1>1, <1>2, <2>1, AppendLogs DEF LoggedAfter
          <3> QED
              BY <1>2, <1>5, <2>2, <3>1 DEF Covers, Incoming
      <2>3. CASE i = "batch"
          <3>1. Anchored => (LoggedAfter(Since, p) => LoggedAfter(Since, p)')
              BY <1>1, <1>2, <1>4, <2>1, AppendLogs DEF LoggedAfter
          <3> QED
              BY <1>4, <1>5, <2>3, <3>1 DEF Covers
      <2>4. CASE i = "stored"
          <3>1. ckpt # 0 => (LoggedAfter(LogPosition(ckpt), p) => LoggedAfter(LogPosition(ckpt), p)')
              BY <1>1, <1>2, <1>3, <2>1, AppendLogs DEF LoggedAfter
          <3> QED
              BY <1>2, <1>5, <2>4, <3>1 DEF Covers
      <2> QED
          BY <1>5, <2>2, <2>3, <2>4 DEF Views
  <1>6. \A p : (Undone(p)' <=> Undone(p)) /\ (Doomed(p)' <=> Doomed(p))
      BY <1>2 DEF Undone, Doomed
  <1>7. UNCHANGED <<fs, rows, gen, pend, pc, scan>>
      BY <1>2
  <1>8. RowsKept' /\ DoomedKept' /\ Gens'
      BY <1>1, <1>5, <1>6, <1>7, Keeps DEF Gens, Views
  <1>9. MetKept'
      BY <1>1, <1>5, <1>7 DEF MetKept
  <1> QED
      BY <1>8, <1>9 DEF Kept

-----------------------------------------------------------------------------
(* Every step.                                                             *)

\* Every step keeps the views, and writes only what a scan met.
LEMMA KeptStep ==
    ASSUME CheckpointInv, Turns, RecoveryInv, Next
    PROVE  Kept' /\ Derived
  <1>1. CASE RootsComplete \/ BootComplete
      BY <1>1, RootsCommit
  <1>2. CASE RootsPartial \/ BootPartial
      BY <1>2, RootsPartialCommit
  <1>3. CASE \E t \in scan.targets : RefreshAbsent(t) \/ RefreshDir(t) \/ RefreshLeaf(t)
      BY <1>3, RefreshCommit
  <1>4. CASE \E t \in scan.targets : RefreshPartialDir(t) \/ RefreshPartialLeaf(t)
      BY <1>4, RefreshPartialCommit
  <1>5. CASE Cleanup
      BY <1>5, CleanupStep
  <1>6. CASE PlanRoots \/ PlanPaths
      <2>1. rows' = rows
          BY <1>6 DEF PlanRoots, PlanPaths
      <2> QED
          BY <1>6, <2>1, PlanRootsKeeps, PlanPathsKeeps, SameRows
  <1>7. CASE RootsFail \/ \E t \in scan.targets : RefreshFail(t)
      <2>1. rows' = rows
          BY <1>7 DEF RootsFail, RefreshFail
      <2> QED
          BY <1>7, <2>1, FailKeeps, SameRows
  <1>8. CASE \E t \in queue : RefreshBegin(t)
      <2>1. rows' = rows
          BY <1>8 DEF RefreshBegin
      <2> QED
          BY <1>8, <2>1, RefreshBeginKeeps, SameRows
  <1>9. CASE ScanFallback \/ EndProcess \/ Invalidate \/ InvalidateFails \/ PersistFails \/ TakeBatch
      <2>1. rows' = rows
          BY <1>9 DEF ScanFallback, EndProcess, Invalidate, InvalidateFails, PersistFails, TakeBatch
      <2> QED
          BY <1>9, <2>1, FallbackKeeps, EndProcessKeeps, InvalidateKeeps, TakeBatchKeeps, SameRows
  <1>10. CASE Mark \/ BootMark \/ StartFromCheckpoint \/ StartFullRescan \/ Crash
      <2>1. rows' = rows
          BY <1>10 DEF Mark, BootMark, StartFromCheckpoint, StartFullRescan, Crash
      <2> QED
          BY <1>10, <2>1, MarkStep, ReplayStep, RescanStep, CrashStep, SameRows
  <1>11. CASE Deliver \/ WrapIds \/ \E q \in Tree : Mutate(q)
      <2>1. rows' = rows
          BY <1>11 DEF Deliver, DeliverPath, DeliverDropped, DeliverWrap, Accept, WrapIds, Mutate
      <2> QED
          BY <1>11, <2>1, DeliverKeeps, WrapStep, MutateStep, SameRows
  <1> QED
      BY <1>1, <1>2, <1>3, <1>4, <1>5, <1>6, <1>7, <1>8, <1>9, <1>10, <1>11
      DEF Next, Start, Boot, Work

\* A scan meets what is there.
LEMMA ObservedStep ==
    ASSUME Inv, Next
    PROVE  \A p \in Tree : scan'.met[p] \subseteq scan.met[p] \cup {fs'[p]}
  <1>0. Tree \subseteq Paths
      BY TreeInPaths
  <1>1. CASE \E q \in Tree : Mutate(q)
      <2>1. PICK q \in Tree : Mutate(q)
          BY <1>1
      <2>2. PICK f \in FileSystems :
                /\ fs' = f
                /\ scan' = [scan EXCEPT !.met =
                      [a \in Paths |-> IF a \in Below(scan.targets) THEN @[a] \cup {f[a]} ELSE @[a]]]
          BY <2>1 DEF Mutate
      <2>3. scan \in ScanType
          BY Facts
      <2> QED
          BY <1>0, <2>2, <2>3 DEF ScanType
  <1>2. CASE scan' = scan
      BY <1>2
  <1>3. CASE scan' = NoScan
      BY <1>0, <1>3 DEF NoScan
  <1>4. CASE fs' = fs /\ \E T, x : scan' = BeginScan(T, x)
      BY <1>0, <1>4 DEF BeginScan
  <1>5. \/ \E q \in Tree : Mutate(q)
        \/ scan' = scan
        \/ scan' = NoScan
        \/ fs' = fs /\ \E T, x : scan' = BeginScan(T, x)
      <2>1. CASE StartFullRescan \/ PlanRoots \/ ScanFallback
          BY <2>1 DEF StartFullRescan, PlanRoots, ScanFallback, system
      <2>2. CASE \E t \in queue : RefreshBegin(t)
          BY <2>2 DEF RefreshBegin, system
      <2>3. CASE \E t \in scan.targets :
                    \/ RefreshAbsent(t) \/ RefreshDir(t) \/ RefreshLeaf(t)
                    \/ RefreshPartialDir(t) \/ RefreshPartialLeaf(t) \/ RefreshFail(t)
          BY <2>3 DEF RefreshAbsent, RefreshDir, RefreshLeaf, RefreshDone, RefreshPartialDir,
                      RefreshPartialLeaf, RefreshFail, ScanPartial, EndScan
      <2>4. CASE RootsComplete \/ RootsPartial \/ RootsFail \/ BootComplete \/ BootPartial \/ Crash
          BY <2>4 DEF RootsComplete, RootsPartial, RootsFail, BootComplete, BootPartial, Crash,
                      ScanRootsComplete, ScanPartial, EndScan
      <2>5. CASE Deliver \/ WrapIds \/ StartFromCheckpoint \/ BootMark \/ TakeBatch \/ Invalidate
                 \/ InvalidateFails \/ PlanPaths \/ EndProcess \/ Cleanup \/ Mark \/ PersistFails
          BY <2>5 DEF Deliver, DeliverPath, DeliverDropped, DeliverWrap, Accept, WrapIds,
                      StartFromCheckpoint, BootMark, TakeBatch, Invalidate, InvalidateFails,
                      PlanPaths, EndProcess, Cleanup, Mark, PersistFails
      <2> QED
          BY <2>1, <2>2, <2>3, <2>4, <2>5 DEF Next, Start, Boot, Work
  <1> QED
      BY <1>1, <1>2, <1>3, <1>4, <1>5

\* A row or a value below a path comes from a file below it.
LEMMA ParentsStep ==
    ASSUME IInv, Parents, Derived, Next
    PROVE  Parents'
  <1>1. /\ Inv /\ Inv' /\ Tree \subseteq Paths
      BY NextInv, TreeInPaths DEF IInv
  <1>2. Coherent(fs') /\ \A a \in Tree : fs'[a] \in Kinds[a]
      BY <1>1 DEF Inv, TypeOK, FileSystems
  <1>3. \A p \in Tree : scan'.met[p] \subseteq scan.met[p] \cup {fs'[p]}
      BY <1>1, ObservedStep
  <1>4. ASSUME NEW a \in Tree, NEW p \in Tree, p \in Sub[a], p # a
        PROVE  /\ rows'[p].val # "none" => "dir" \in Kinds[a]
               /\ scan'.met[p] \subseteq {"none"} \/ "dir" \in Kinds[a]
      <2>1. CASE "dir" \in Kinds[a]
          BY <2>1
      <2>2. CASE "dir" \notin Kinds[a]
          <3>1. rows[p].val = "none" /\ scan.met[p] \subseteq {"none"}
              BY <1>4, <2>2 DEF Parents
          <3>2. fs'[p] = "none"
              BY <1>2, <1>4, <2>2 DEF Coherent
          <3>3. rows'[p].val \in {"none", rows[p].val} \cup scan.met[p]
              BY <1>1, <1>4 DEF Derived
          <3> QED
              BY <1>3, <1>4, <3>1, <3>2, <3>3
      <2> QED
          BY <2>1, <2>2
  <1> QED
      BY <1>4 DEF Parents

\* The targets of a batch stay apart from each other, and from the deferred
\* cleanups unless the scans stamp their rows.
LEMMA BatchStep ==
    ASSUME IInv, Batch, Next
    PROVE  Batch'
  <1>1. /\ Inv /\ RootScan /\ pend \in PendingType /\ queue \subseteq Tree /\ legacy \in BOOLEAN
        /\ Tree \subseteq Paths
      BY Facts, TreeInPaths DEF IInv
  <1>2. CASE (\E q \in Tree : Mutate(q)) \/ WrapIds \/ Deliver
      <2>1. UNCHANGED <<pc, queue, legacy, pend>>
            /\ scan'.targets = scan.targets /\ scan'.exact = scan.exact
          BY <1>2, Facts, <1>1 DEF Mutate, WrapIds, Deliver, DeliverPath, DeliverDropped, DeliverWrap,
                                   Accept, worker, ScanType
      <2> QED
          BY <2>1 DEF Batch, Deferred
  <1>3. CASE ScanFallback
      <2>1. UNCHANGED <<pc, queue, legacy, pend>>
          BY <1>3 DEF ScanFallback, worker
      <2>2. scan'.targets = scan.targets /\ ~scan'.exact
          BY <1>3 DEF ScanFallback, BeginScan
      <2> QED
          BY <2>1, <2>2 DEF Batch, Deferred
  <1>4. CASE \/ StartFromCheckpoint \/ StartFullRescan \/ BootComplete \/ BootMark \/ BootPartial
             \/ TakeBatch \/ Invalidate \/ InvalidateFails
             \/ EndProcess \/ Cleanup \/ Mark \/ PersistFails \/ Crash
      <2>1. pc' \notin {"roots_scan", "paths", "path_scan"} /\ queue' = {}
          <3>1. CASE EndProcess \/ Crash
              BY <3>1 DEF EndProcess, Crash, Turn
          <3>2. CASE \/ StartFromCheckpoint \/ StartFullRescan \/ BootComplete \/ BootMark
                     \/ BootPartial \/ TakeBatch \/ Invalidate \/ InvalidateFails
                     \/ Cleanup \/ Mark \/ PersistFails
              <4>1. pc \notin {"paths", "path_scan"} /\ queue' = queue
                  BY <3>2 DEF StartFromCheckpoint, StartFullRescan, BootComplete, BootMark, BootPartial,
                              TakeBatch, Invalidate, InvalidateFails, Cleanup, Mark, PersistFails
              <4>2. pc' \notin {"roots_scan", "paths", "path_scan"}
                  BY <3>2 DEF StartFromCheckpoint, StartFullRescan, BootComplete, BootMark, BootPartial,
                              TakeBatch, Invalidate, InvalidateFails, Cleanup, Mark, PersistFails, Turn
              <4> QED
                  BY <4>1, <4>2 DEF Batch
          <3> QED
              BY <1>4, <3>1, <3>2
      <2> QED
          BY <2>1 DEF Batch
  <1>5. CASE PlanRoots
      <2>1. /\ pc = "plan" /\ pc' = "roots_scan" /\ queue' = queue
            /\ legacy' = needs_legacy_generation(pend)
            /\ scan' = BeginScan(Roots, ~legacy')
          BY <1>5 DEF PlanRoots
      <2>2. scan'.exact = ~legacy'
          BY <2>1 DEF BeginScan
      <2>3. Deferred(pend') = Deferred(pend)
          BY <1>1, <1>5 DEF PlanRoots, Due, PendingType, Deferred
      <2>4. ~legacy' => Deferred(pend') = {}
          BY <2>1, <2>3 DEF needs_legacy_generation
      <2>5. queue' = {}
          BY <2>1 DEF Batch
      <2> QED
          BY <2>1, <2>2, <2>4, <2>5 DEF Batch
  <1>6. CASE PlanPaths
      <2>1. /\ pc = "plan" /\ pc' = "paths" /\ scan' = scan
            /\ queue' = fold_refresh_paths(Due(pend).paths)
            /\ legacy' = needs_legacy_generation(pend)
          BY <1>6 DEF PlanPaths
      <2>2. scan'.targets = {}
          BY <1>1, <2>1, Facts DEF Scanning
      <2>3. Deferred(pend') = Deferred(pend)
          BY <1>1, <1>6 DEF PlanPaths, Due, PendingType, Deferred
      <2>4. ~legacy' => Deferred(pend') = {}
          BY <2>1, <2>3 DEF needs_legacy_generation
      <2>5. Due(pend).paths \in SUBSET Paths
          BY <1>1 DEF Due, PendingType
      <2>6. \A a, b \in queue' : a # b => Sub[a] \cap Sub[b] = {}
          BY <2>1, <2>5, FoldApart
      <2> QED
          BY <2>1, <2>2, <2>4, <2>6 DEF Batch
  <1>7. CASE RootsComplete \/ RootsPartial
      <2>1. pc = "roots_scan" /\ pc' = "paths" /\ queue' = queue /\ scan'.targets = {}
          BY <1>7, NoScanType DEF RootsComplete, RootsPartial, ScanRootsComplete, ScanPartial, EndScan
      <2>2. queue' = {}
          BY <2>1 DEF Batch
      <2> QED
          BY <2>1, <2>2 DEF Batch
  <1>8. CASE RootsFail
      <2>1. /\ pc = "roots_scan" /\ pc' = "paths" /\ scan'.targets = {} /\ legacy' = legacy
            /\ queue' = fold_refresh_paths(pend.paths)
          BY <1>8, NoScanType DEF RootsFail, EndScan
      <2>2. Deferred(pend') = Deferred(pend) /\ pend.paths \in SUBSET Paths /\ pend.paths \subseteq Tree
          BY <1>1, <1>8, State DEF RootsFail, PendingType, Deferred
      <2>3. \A a, b \in queue' : a # b => Sub[a] \cap Sub[b] = {}
          BY <2>1, <2>2, FoldApart
      <2>4. ASSUME ~legacy, NEW d \in Deferred(pend), NEW q \in queue'
            PROVE  Sub[d] \cap Sub[q] = {}
          <3>1. q \in Tree
              BY <2>1, <2>2, <2>4 DEF fold_refresh_paths
          <3>2. PICK r \in Roots : q \in Sub[r]
              BY <3>1 DEF Tree, Below
          <3>3. scan.targets = Roots
              BY <1>1, <2>1 DEF RootScan
          <3>4. Sub[d] \cap Sub[r] = {}
              BY <2>1, <2>4, <3>3 DEF Batch
          <3>5. Sub[q] \subseteq Sub[r]
              BY <3>2, TreeAssumption
          <3> QED
              BY <3>4, <3>5
      <2> QED
          BY <2>1, <2>2, <2>3, <2>4 DEF Batch
  <1>9. ASSUME NEW t \in queue, RefreshBegin(t) PROVE Batch'
      <2>1. /\ pc = "paths" /\ legacy' = legacy /\ queue' = queue \ {t} /\ t \in Tree
            /\ scan.targets = {}
          BY <1>1, <1>9, Facts DEF RefreshBegin, Scanning
      <2>2. Deferred(pend') = Deferred(pend)
          BY <1>1, <1>9 DEF RefreshBegin, PendingType, Deferred
      <2>3. CASE t \in Excluded
          <3>1. pc' = pc /\ scan' = scan
              BY <1>9, <2>3 DEF RefreshBegin
          <3> QED
              BY <2>1, <2>2, <3>1 DEF Batch
      <2>4. CASE t \notin Excluded
          <3>1. pc' = "path_scan" /\ scan' = BeginScan({t}, ~legacy)
              BY <1>9, <2>4 DEF RefreshBegin
          <3>2. scan'.targets = {t} /\ scan'.exact = ~legacy
              BY <3>1 DEF BeginScan
          <3>3. /\ \A a, b \in queue : a # b => Sub[a] \cap Sub[b] = {}
                /\ ~legacy => \A d \in Deferred(pend) : \A q \in queue : Sub[d] \cap Sub[q] = {}
              BY <2>1 DEF Batch
          <3>4. queue' \cup scan'.targets = queue /\ t \notin queue'
              BY <2>1, <3>2
          <3>5. pc' = "path_scan"
              BY <3>1
          <3>6. scan'.exact => ~legacy'
              BY <2>1, <3>2
          <3> QED
              BY <2>1, <2>2, <2>4, <3>2, <3>3, <3>4, <3>5, <3>6 DEF Batch
      <2> QED
          BY <2>3, <2>4
  <1>10. ASSUME NEW t \in scan.targets,
                \/ RefreshAbsent(t) \/ RefreshDir(t) \/ RefreshLeaf(t) \/ RefreshFail(t)
                \/ RefreshPartialDir(t) \/ RefreshPartialLeaf(t)
         PROVE  Batch'
      <2>1. /\ pc = "path_scan" /\ pc' = "paths" /\ legacy' = legacy /\ queue' = queue
            /\ scan'.targets = {}
          BY <1>10, NoScanType
          DEF RefreshAbsent, RefreshDir, RefreshLeaf, RefreshDone, RefreshFail, RefreshPartialDir,
              RefreshPartialLeaf, ScanPartial, EndScan
      <2>2. t \in Paths /\ \A q \in queue : Sub[q] \cap Sub[t] = {}
          BY <1>1, <2>1, TargetFacts
      <2>3. \A d \in Deferred(pend') : d \in Deferred(pend) \/ d = t
          <3>1. CASE RefreshAbsent(t) \/ RefreshDir(t) \/ RefreshLeaf(t) \/ RefreshFail(t)
              <4>1. pend'.deferred_cleanups = pend.deferred_cleanups
                  BY <1>1, <3>1
                  DEF RefreshAbsent, RefreshDir, RefreshLeaf, RefreshDone, RefreshFail, PendingType
              <4> QED
                  BY <4>1 DEF Deferred
          <3>2. CASE RefreshPartialDir(t) \/ RefreshPartialLeaf(t)
              <4>1. PICK R, D : D \subseteq {t} /\ pend' = retain_incomplete(pend, R, D, gen + 1)
                  BY <3>2 DEF RefreshPartialDir, RefreshPartialLeaf
              <4>2. \A d \in Paths : d \notin D =>
                        pend'.deferred_cleanups[d] = pend.deferred_cleanups[d]
                  BY <1>1, <4>1 DEF retain_incomplete, PendingType
              <4> QED
                  BY <4>1, <4>2 DEF Deferred
          <3> QED
              BY <1>10, <3>1, <3>2
      <2>4. /\ \A a, b \in queue : a # b => Sub[a] \cap Sub[b] = {}
            /\ ~legacy => \A d \in Deferred(pend) : \A q \in queue : Sub[d] \cap Sub[q] = {}
          BY <2>1 DEF Batch
      <2> QED
          BY <2>1, <2>2, <2>3, <2>4 DEF Batch
  <1> QED
      BY <1>2, <1>3, <1>4, <1>5, <1>6, <1>7, <1>8, <1>9, <1>10 DEF Next, Start, Boot, Work

-----------------------------------------------------------------------------
(* The invariant and what it says.                                         *)

WatchInv == CheckpointInv /\ Turns /\ RecoveryInv

\* After `macevery index` the index is the file system.
LEMMA WatchInit == ASSUME Init PROVE WatchInv
  <1>1. CheckpointInv
      BY CheckpointInit
  <1>2. /\ pc = "down" /\ queue = {} /\ scan = NoScan /\ pend = EmptyPending /\ gen = 1
        /\ fs \in FileSystems
        /\ rows = [p \in Paths |-> IF p \in WalkAll(Roots, fs)
                                   THEN [val |-> fs[p], gen |-> 1] ELSE NoRow]
      BY DEF Init
  <1>3. Inv /\ Coherent(fs) /\ Tree \subseteq Paths /\ (\A p \in Tree : fs[p] \in Kinds[p])
      BY <1>1, State, TreeInPaths DEF CheckpointInv, IInv
  <1>4. scan.targets = {} /\ scan.met = [p \in Paths |-> {}]
      BY <1>2 DEF NoScan
  <1>5. Turns
      BY <1>2 DEF Turns
  <1>6. Batch
      BY <1>2 DEF Batch
  <1>7. ASSUME NEW p \in Tree PROVE rows[p].val \in {"none", fs[p]}
      BY <1>2, <1>3, <1>7 DEF NoRow
  <1>8. Parents
      <2> SUFFICES ASSUME NEW a \in Tree, NEW p \in Tree, p \in Sub[a], p # a
                   PROVE  /\ rows[p].val # "none" => "dir" \in Kinds[a]
                          /\ scan.met[p] \subseteq {"none"}
          BY DEF Parents
      <2>1. rows[p].val # "none" => fs[p] # "none"
          BY <1>7
      <2>2. fs[p] # "none" => fs[a] = "dir"
          BY <1>3 DEF Coherent
      <2>3. scan.met[p] = {}
          BY <1>3, <1>4
      <2> QED
          BY <1>3, <2>1, <2>2, <2>3
  <1>9. \A p \in Indexed : ~Stale(p)
      <2> SUFFICES ASSUME NEW p \in Indexed PROVE rows[p].val = fs[p]
          BY DEF Stale
      <2>1. p \in Tree /\ p \notin Excluded
          BY DEF Indexed
      <2>2. CASE fs[p] = "none"
          BY <1>7, <2>1, <2>2
      <2>3. CASE fs[p] # "none"
          <3>1. PICK r \in Roots : p \in Sub[r]
              BY <2>1 DEF Tree, Below
          <3>2. \A a \in Sub[r] : a \in Tree
              BY DEF Tree, Below
          <3>3. p \in Walk(r, fs)
              BY <1>3, <2>1, <2>3, <3>1, <3>2 DEF Walk, Coherent
          <3>4. p \in WalkAll(Roots, fs)
              BY <3>3 DEF WalkAll
          <3> QED
              BY <1>2, <1>3, <2>1, <3>4
      <2> QED
          BY <2>2, <2>3
  <1>10. \A p \in Paths : rows[p].gen \in {0, 1}
      BY <1>2 DEF NoRow
  <1>11. \A t \in Paths : pend.deferred_cleanups[t] = 0
      BY <1>2 DEF EmptyPending
  <1>12. Gens
      BY <1>2, <1>10, <1>11 DEF Gens
  <1>13. \A p \in Paths : ~Doomed(p)
      BY <1>10, <1>11 DEF Doomed
  <1>14. RowsKept /\ DoomedKept
      BY <1>9, <1>13, RootsCover DEF RowsKept, DoomedKept
  <1>15. MetKept
      BY <1>4 DEF MetKept, Below
  <1> QED
      BY <1>1, <1>5, <1>6, <1>8, <1>12, <1>14, <1>15 DEF WatchInv, RecoveryInv

\* Every step keeps it.
LEMMA WatchNext == ASSUME WatchInv, [Next]_vars PROVE WatchInv'
  <1>1. CASE Next
      <2>1. CheckpointInv /\ Turns /\ RecoveryInv /\ IInv /\ Inv /\ Quiet /\ Batch /\ Parents
          BY DEF WatchInv, CheckpointInv, RecoveryInv, IInv
      <2>2. CheckpointInv'
          BY <2>1, CheckpointNext
      <2>3. Turns'
          BY <1>1, <2>1, TurnsStep
      <2>4. Kept' /\ Derived
          BY <1>1, <2>1, KeptStep
      <2>5. Batch'
          BY <1>1, <2>1, BatchStep
      <2>6. Parents'
          BY <1>1, <2>1, <2>4, ParentsStep
      <2> QED
          BY <2>2, <2>3, <2>4, <2>5, <2>6 DEF WatchInv, RecoveryInv, Kept
  <1>2. CASE UNCHANGED vars
      <2>1. CheckpointInv'
          BY <1>2, CheckpointNext DEF WatchInv
      <2>2. UNCHANGED <<fs, log, wrap, delivered, inbox, pend, rows, ckpt, gen, pc, armed,
                        legacy, queue, scan>>
          BY <1>2 DEF vars
      <2>3. Turns'
          BY <2>2 DEF WatchInv, Turns, Deferred
      <2>4. \A i \in Views : \A p : Covers(i, p)' <=> Covers(i, p)
          BY <2>2, CoversSame
      <2>5. \A p : /\ Undone(p)' <=> Undone(p)
                   /\ Doomed(p)' <=> Doomed(p)
                   /\ Debt(p)' <=> Debt(p)
                   /\ Tracked(p)' <=> Tracked(p)
                   /\ Stale(p)' <=> Stale(p)
          BY <2>2 DEF Undone, Doomed, Debt, Tracked, Stale
      <2>6. MetKept'
          BY <2>2, <2>4 DEF WatchInv, RecoveryInv, MetKept
      <2>7. RowsKept' /\ DoomedKept'
          BY <2>2, <2>4, <2>5 DEF WatchInv, RecoveryInv, RowsKept, DoomedKept, Views
      <2>8. Gens' /\ Batch' /\ Parents'
          BY <2>2 DEF WatchInv, RecoveryInv, Gens, Batch, Parents, Deferred
      <2> QED
          BY <2>1, <2>3, <2>6, <2>7, <2>8 DEF WatchInv, RecoveryInv
  <1> QED
      BY <1>1, <1>2

\* What the invariant keeps is what the properties call owed.
LEMMA KeptIsOwed ==
    ASSUME WatchInv, pc # "down", NEW p \in Indexed, Tracked(p), Stale(p)
    PROVE  Owed(p)
  <1>1. Covers("ahead", p) \/ Debt(p)
      BY DEF WatchInv, RecoveryInv, RowsKept
  <1> QED
      BY <1>1 DEF Covers, Incoming, Debt, Undone, Doomed, Owed

\* And what the next process will replay.
LEMMA KeptIsReplayed ==
    ASSUME WatchInv, NEW p \in Indexed, Tracked(p), Stale(p)
    PROVE  CheckpointUnusable \/ LoggedAfter(Position(ckpt), p)
  <1> SUFFICES ASSUME ~CheckpointUnusable PROVE LoggedAfter(Position(ckpt), p)
      OBVIOUS
  <1>1. Covers("stored", p)
      BY DEF WatchInv, RecoveryInv, RowsKept
  <1>2. Position(ckpt) = LogPosition(ckpt) /\ ckpt # 0
      BY UsablePosition DEF WatchInv, CheckpointInv, IInv, CheckpointUnusable
  <1> QED
      BY <1>1, <1>2 DEF Covers

\* No file is lost while the process runs, whatever the system replaces by
\* what: a file that the index does not show as it is, is ahead in the
\* stream, admitted, planned, or being scanned.
THEOREM NoFileIsLost == Spec => []FilesKept
  <1>1. Init => WatchInv
      BY WatchInit
  <1>2. WatchInv /\ [Next]_vars => WatchInv'
      BY WatchNext
  <1>3. WatchInv => FilesKept
      BY KeptIsOwed DEF FilesKept, Tracked
  <1> QED
      BY <1>1, <1>2, <1>3, PTL DEF Spec

\* No change is lost while the process runs, removals included, as long as no
\* directory is replaced by a leaf: however the scans race the changes, fail
\* in part, are deferred, overflow or are folded into a recovery.
THEOREM NoChangeIsLost == ASSUME StableKinds PROVE Spec => []NoLostChange
  <1>1. Init => WatchInv
      BY WatchInit
  <1>2. WatchInv /\ [Next]_vars => WatchInv'
      BY WatchNext
  <1>3. WatchInv => NoLostChange
      BY KeptIsOwed DEF NoLostChange, Tracked
  <1> QED
      BY <1>1, <1>2, <1>3, PTL DEF Spec

\* No change is lost across a crash, on the same condition: at every moment,
\* what the index shows wrongly is after the stored checkpoint, or the next
\* process rescans everything.
THEOREM NoChangeIsLostByACrash == ASSUME StableKinds PROVE Spec => []CrashSafe
  <1>1. Init => WatchInv
      BY WatchInit
  <1>2. WatchInv /\ [Next]_vars => WatchInv'
      BY WatchNext
  <1>3. WatchInv => CrashSafe
      BY KeptIsReplayed DEF CrashSafe, Tracked
  <1> QED
      BY <1>1, <1>2, <1>3, PTL DEF Spec

\* What CrashSafe says of the files that are there.
FilesReplayed ==
    \A p \in Indexed :
        fs[p] # "none" /\ Stale(p) => CheckpointUnusable \/ LoggedAfter(Position(ckpt), p)

\* No file is lost across a crash, whatever the system replaces by what.
THEOREM NoFileIsLostByACrash == Spec => []FilesReplayed
  <1>1. Init => WatchInv
      BY WatchInit
  <1>2. WatchInv /\ [Next]_vars => WatchInv'
      BY WatchNext
  <1>3. WatchInv => FilesReplayed
      BY KeptIsReplayed DEF FilesReplayed, Tracked
  <1> QED
      BY <1>1, <1>2, <1>3, PTL DEF Spec
=============================================================================
