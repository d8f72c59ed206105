--------------------------- MODULE WatcherProofs ----------------------------
(***************************************************************************)
(* What is proved of Watcher for every tree, every bound and every number  *)
(* of faults and crashes: types and scopes; the turns of the worker, whose *)
(* retry deadline is set exactly when work is left; and the checkpoint,    *)
(* which only moves along the system's log, within what was delivered,     *)
(* across a wrap of the ids.                                               *)
(***************************************************************************)
EXTENDS Watcher, TLAPS

\* The work in the inbox, in the plan and in the running scan names paths of
\* the indexed trees only.
Scoped ==
    /\ inbox.paths \subseteq Tree
    /\ scan.targets \subseteq Tree
    /\ NoScopeFailure

Inv == TypeOK /\ Scoped

-----------------------------------------------------------------------------
(* Paths and scanner operators.                                            *)

\* The trees are made of paths, roots included.
LEMMA TreeInPaths == Tree \subseteq Paths /\ Roots \subseteq Tree
  BY TreeAssumption DEF Tree, Below

\* Subtrees of a tree stay in the trees (Path::starts_with is transitive).
LEMMA BelowTree == ASSUME NEW S \in SUBSET Tree PROVE Below(S) \subseteq Tree
  <1> SUFFICES ASSUME NEW s \in S, NEW q \in Sub[s] PROVE q \in Tree
      BY DEF Below
  <1>1. PICK r \in Roots : s \in Sub[r]
      BY DEF Tree, Below
  <1>2. Sub[s] \subseteq Sub[r]
      BY <1>1, TreeInPaths, TreeAssumption
  <1> QED
      BY <1>1, <1>2 DEF Tree, Below

\* subtree_targets only ever names paths of the trees.
LEMMA TargetsScoped == ASSUME NEW p \in Paths PROVE subtree_targets(p) \subseteq Tree
  BY TreeInPaths DEF subtree_targets, fold_refresh_paths

\* An upsert writes the observed values, and leaves a table of rows.
LEMMA UpsertType ==
    ASSUME NEW r \in [Paths -> Row], NEW V, NEW obs, NEW g \in Nat, NEW x \in BOOLEAN,
           \A p \in V : obs[p] \in Vals
    PROVE  Upsert(r, V, obs, g, x) \in [Paths -> Row]
  BY DEF Upsert, Row

\* The deletions leave a table of rows.
LEMMA DeleteType ==
    ASSUME NEW r \in [Paths -> Row], NEW T, NEW V, NEW t, NEW g
    PROVE  /\ delete_path_prefix(r, t) \in [Paths -> Row]
           /\ delete_unseen_under_roots(r, T, V) \in [Paths -> Row]
           /\ delete_stale_under_roots(r, T, g) \in [Paths -> Row]
  <1>1. NoRow \in Row
      BY DEF NoRow, Row, Vals
  <1> QED
      BY <1>1 DEF delete_path_prefix, delete_unseen_under_roots, delete_stale_under_roots

\* So do the scans built from them.
LEMMA ScanRowsType ==
    ASSUME NEW r \in [Paths -> Row], NEW T, NEW t, NEW V, NEW obs, NEW g \in Nat,
           NEW x \in BOOLEAN,
           \A p \in V \cup WalkAll(T, obs) : obs[p] \in Vals
    PROVE  /\ CompleteScan(r, T, obs, g, x) \in [Paths -> Row]
           /\ LeafScan(r, t, V, obs, g, x) \in [Paths -> Row]
  <1>1. Upsert(r, WalkAll(T, obs), obs, g, x) \in [Paths -> Row]
      BY UpsertType
  <1>2. CompleteScan(r, T, obs, g, x) \in [Paths -> Row]
      BY <1>1, DeleteType DEF CompleteScan
  <1>3. LeafScan(r, t, V, obs, g, x) \in [Paths -> Row]
      BY UpsertType, DeleteType DEF LeafScan
  <1> QED
      BY <1>2, <1>3

-----------------------------------------------------------------------------
(* PendingWork operators.                                                  *)

\* The empty records are of their types.
LEMMA EmptyType ==
    /\ EmptyInbox \in InboxType
    /\ EmptyInbox.paths = {}
    /\ EmptyPending \in PendingType
    /\ EmptyPending.paths = {}
    /\ EmptyPending.retry_paths = {}
    /\ EmptyPending.deferred_cleanups \in [Paths -> Nat]
    /\ Deferred(EmptyPending) = {}
    /\ EmptyPending.worker_scope_failure = FALSE
  BY DEF EmptyInbox, InboxType, EmptyPending, PendingType, Deferred

\* push keeps the inbox in its type and in the trees.
LEMMA PushType ==
    ASSUME NEW box \in InboxType, box.paths \subseteq Tree, NEW p \in Paths,
           NEW id \in Nat, NEW global \in BOOLEAN, NEW wraps \in BOOLEAN
    PROVE  /\ Push(box, p, id, global, wraps) \in InboxType
           /\ Push(box, p, id, global, wraps).paths \subseteq Tree
  <1>1. record_event(box, id, wraps) \in InboxType /\ record_event(box, id, wraps).paths = box.paths
      BY DEF record_event, InboxType, Larger
  <1>2. subtree_targets(p) \subseteq Tree
      BY TargetsScoped
  <1> QED
      BY <1>1, <1>2, TreeInPaths DEF Push, add_scoped, InboxType

\* A plan of the worker: typed, in the trees, never failed.
Plan(p) ==
    /\ p \in PendingType
    /\ ~p.worker_scope_failure
    /\ p.paths \cup p.retry_paths \cup Deferred(p) \subseteq Tree

\* merge_incoming keeps the plan in the trees.
LEMMA MergeType ==
    ASSUME NEW p, Plan(p), NEW in \in InboxType, in.paths \subseteq Tree
    PROVE  Plan(merge_incoming(p, in))
  <1> DEFINE m == merge_incoming(p, in)
             id == IF in.checkpoint_reset THEN in.max_event_id
                   ELSE Larger(p.max_event_id, in.max_event_id)
             ps == IF p.worker_scope_failure THEN p.paths
                   ELSE IF p.rescan_roots \/ in.rescan_roots THEN {} ELSE p.paths \cup in.paths
  <1>1. id \in Nat /\ ps \in SUBSET Paths /\ ps \subseteq Tree
      BY DEF Plan, PendingType, InboxType, Larger
  <1>2. /\ (p.checkpoint_reset \/ in.checkpoint_reset) \in BOOLEAN
        /\ (p.checkpoint_invalidated /\ ~in.checkpoint_reset) \in BOOLEAN
        /\ (p.rescan_roots \/ in.rescan_roots) \in BOOLEAN
      OBVIOUS
  <1>3. m = [p EXCEPT !.max_event_id = id,
                      !.checkpoint_reset = p.checkpoint_reset \/ in.checkpoint_reset,
                      !.checkpoint_invalidated = p.checkpoint_invalidated /\ ~in.checkpoint_reset,
                      !.rescan_roots = p.rescan_roots \/ in.rescan_roots,
                      !.paths = ps]
      BY DEF merge_incoming
  <1> HIDE DEF m, id, ps
  <1>4. m \in PendingType
      BY <1>1, <1>2, <1>3 DEF Plan, PendingType
  <1>5. /\ m.paths = ps
        /\ m.retry_paths = p.retry_paths
        /\ m.deferred_cleanups = p.deferred_cleanups
        /\ m.worker_scope_failure = p.worker_scope_failure
      BY <1>3 DEF Plan, PendingType
  <1> QED
      BY <1>1, <1>4, <1>5 DEF Plan, Deferred, m

\* enforce_worker_plan_bound never fails on a plan in the trees.
LEMMA BoundType ==
    ASSUME NEW p, Plan(p)
    PROVE  Plan(enforce_worker_plan_bound(p))
  BY EmptyType DEF Plan, enforce_worker_plan_bound, PendingType, Deferred

\* retain_incomplete adds paths of the scanned trees.
LEMMA RetainType ==
    ASSUME NEW p, Plan(p), NEW retry \in SUBSET Tree, NEW T \in SUBSET Tree, NEW g \in Nat
    PROVE  Plan(retain_incomplete(p, retry, T, g))
  BY TreeInPaths DEF Plan, retain_incomplete, PendingType, Deferred, Larger

-----------------------------------------------------------------------------
(* The state.                                                              *)

\* A scan starts on paths of the trees with the values they hold.
LEMMA BeginScanType ==
    ASSUME TypeOK, NEW T \in SUBSET Tree, NEW x \in BOOLEAN
    PROVE  BeginScan(T, x) \in ScanType /\ BeginScan(T, x).targets = T
  BY BelowTree, TreeInPaths DEF BeginScan, ScanType, TypeOK, FileSystems

\* No scan.
LEMMA NoScanType == NoScan \in ScanType /\ NoScan.targets = {}
  BY DEF NoScan, ScanType

\* What a scan observes are file values.
LEMMA ObservedVals ==
    ASSUME TypeOK, NEW obs \in Observations
    PROVE  \A p \in Below(scan.targets) : obs[p] \in Vals
  <1> SUFFICES ASSUME NEW p \in Below(scan.targets) PROVE obs[p] \in Vals
      OBVIOUS
  <1>1. obs[p] \in scan.met[p]
      BY DEF Observations
  <1>2. p \in Paths
      BY TreeAssumption DEF TypeOK, ScanType, Below
  <1> QED
      BY <1>1, <1>2 DEF TypeOK, ScanType

\* A walk stays below its targets.
LEMMA WalkBelow ==
    ASSUME NEW T, NEW t \in T, NEW obs
    PROVE  Walk(t, obs) \subseteq Below(T) /\ WalkAll(T, obs) \subseteq Below(T)
  BY DEF Walk, WalkAll, Below

\* The pending work of a state that satisfies the invariant is a plan.
LEMMA InvPlan == ASSUME Inv PROVE Plan(pend) /\ queue \subseteq Tree
  BY DEF Inv, TypeOK, Scoped, NoScopeFailure, Plan


\* The commit of a complete scan of the roots keeps the table typed.
LEMMA ScanRootsCompleteType ==
    ASSUME Inv, ScanRootsComplete, scan.targets = Roots
    PROVE  rows' \in [Paths -> Row] /\ gen' \in Nat /\ scan' = NoScan
  <1>1. PICK obs \in Observations :
            rows' = CompleteScan(rows, Roots, obs, gen + 1, scan.exact)
      BY DEF ScanRootsComplete
  <1>2. \A p \in WalkAll(Roots, obs) : obs[p] \in Vals
      BY ObservedVals, WalkBelow, TreeAssumption DEF Inv
  <1>3. rows \in [Paths -> Row] /\ gen + 1 \in Nat /\ scan.exact \in BOOLEAN
      BY DEF Inv, TypeOK, ScanType
  <1>4. rows' \in [Paths -> Row]
      BY <1>1, <1>2, <1>3, ScanRowsType
  <1> QED
      BY <1>3, <1>4 DEF ScanRootsComplete, EndScan

\* So does the commit of an incomplete one.
LEMMA ScanPartialType ==
    ASSUME Inv, NEW retry, ScanPartial(retry)
    PROVE  /\ rows' \in [Paths -> Row] /\ gen' \in Nat /\ gen' = gen + 1
           /\ scan' = NoScan /\ faults' \in 0 .. MaxFaults
  <1>0. PICK obs \in Observations : \E V \in SUBSET WalkAll(scan.targets, obs) :
            rows' = Upsert(rows, V, obs, gen + 1, FALSE)
      BY DEF ScanPartial
  <1>1. PICK V \in SUBSET WalkAll(scan.targets, obs) :
            rows' = Upsert(rows, V, obs, gen + 1, FALSE)
      BY <1>0
  <1>2. \A p \in V : obs[p] \in Vals
      <2>1. WalkAll(scan.targets, obs) \subseteq Below(scan.targets)
          BY DEF WalkAll, Walk, Below
      <2> QED
          BY <1>1, <2>1, ObservedVals DEF Inv
  <1>3. rows \in [Paths -> Row] /\ gen + 1 \in Nat
      BY DEF Inv, TypeOK
  <1>4. rows' \in [Paths -> Row]
      BY <1>1, <1>2, <1>3, UpsertType
  <1>5. faults' \in 0 .. MaxFaults
      BY WatcherAssumption DEF Inv, TypeOK, ScanPartial, Fault
  <1> QED
      BY <1>3, <1>4, <1>5 DEF ScanPartial, EndScan

\* The system only appends to its log.
LEMMA SystemStep ==
    ASSUME Inv, \/ \E p \in Tree : Mutate(p)
                \/ WrapIds
    PROVE  Inv'
  <1>1. CASE \E p \in Tree : Mutate(p)
      <2>1. PICK p \in Tree : Mutate(p)
          BY <1>1
      <2>2. PICK f \in FileSystems :
                /\ fs' = f
                /\ scan' = [scan EXCEPT !.met =
                      [q \in Paths |-> IF q \in Below(scan.targets)
                                       THEN @[q] \cup {f[q]} ELSE @[q]]]
          BY <2>1 DEF Mutate
      <2>3. scan' \in ScanType /\ scan'.targets = scan.targets
          <3>1. \A q \in Below(scan.targets) : f[q] \in Vals
              BY <2>2, BelowTree DEF Inv, Scoped, FileSystems
          <3> QED
              BY <2>2, <3>1 DEF Inv, TypeOK, ScanType
      <2>4. log' \in Seq(Tree \cup {Wrapped}) /\ Len(log') = Len(log) + 1 /\ Len(log) \in Nat
          BY <2>1 DEF Mutate, Inv, TypeOK
      <2>5. wrap' \in 0 .. Len(log') /\ delivered' \in 0 .. Len(log')
          BY <2>1, <2>4 DEF Mutate, Inv, TypeOK
      <2> QED
          BY <2>1, <2>2, <2>3, <2>4, <2>5
          DEF Mutate, worker, Inv, TypeOK, Scoped, NoScopeFailure, Deferred
  <1>2. CASE WrapIds
      <2>1. log' \in Seq(Tree \cup {Wrapped}) /\ Len(log') = Len(log) + 1 /\ Len(log) \in Nat
          BY <1>2 DEF WrapIds, Inv, TypeOK
      <2>2. wrap' \in 0 .. Len(log') /\ delivered' \in 0 .. Len(log')
          BY <1>2, <2>1 DEF WrapIds, Inv, TypeOK
      <2> QED
          BY <1>2, <2>1, <2>2
          DEF WrapIds, worker, Inv, TypeOK, Scoped, NoScopeFailure, Deferred
  <1> QED
      BY <1>1, <1>2

\* Event ids are numbers.
LEMMA IdNat == ASSUME Inv, NEW k \in 0 .. Len(log) PROVE Id(k) \in Nat
  BY WatcherAssumption DEF Id, Inv, TypeOK

\* The callback fills the inbox with paths of the trees.
LEMMA DeliverStep == ASSUME Inv, Deliver PROVE Inv'
  <1>1. PICK k \in delivered + 1 .. Len(log), p \in Paths, g \in BOOLEAN, w \in BOOLEAN :
            Accept(k, p, g, w)
      BY DEF Deliver, DeliverPath, DeliverDropped, DeliverWrap
  <1>2. k \in 0 .. Len(log)
      BY <1>1 DEF Inv, TypeOK
  <1>3. Id(k) \in Nat
      BY <1>2, IdNat
  <1>4. inbox' \in InboxType /\ inbox'.paths \subseteq Tree
      BY <1>1, <1>3, PushType DEF Accept, Inv, TypeOK, Scoped
  <1>5. UNCHANGED <<system, worker, rows, ckpt, gen, scan, faults, crashes>> /\ delivered' = k
      BY <1>1 DEF Accept
  <1> QED
      BY <1>2, <1>4, <1>5
      DEF system, worker, Inv, TypeOK, Scoped, NoScopeFailure, Deferred


\* A step that leaves the system alone keeps the invariant when what it
\* changes is typed and scoped.
LEMMA Frame ==
    ASSUME Inv, UNCHANGED system,
           delivered' \in 0 .. Len(log), inbox' \in InboxType, inbox'.paths \subseteq Tree,
           Plan(pend'), rows' \in [Paths -> Row], ckpt' \in Nat, gen' \in Nat,
           pc' \in PC, armed' \in BOOLEAN, due' \in BOOLEAN, legacy' \in BOOLEAN,
           queue' \subseteq Tree, scan' \in ScanType, scan'.targets \subseteq Tree,
           (scan'.targets # {}) = (pc' \in Scanning),
           faults' \in 0 .. MaxFaults, crashes' \in 0 .. MaxCrashes
    PROVE  Inv'
  <1>1. queue' \subseteq Paths
      BY TreeInPaths
  <1> QED
      BY <1>1 DEF system, Inv, TypeOK, Scoped, NoScopeFailure, Plan, Deferred

\* The facts of the state that a step keeps.
LEMMA Facts ==
    ASSUME Inv
    PROVE  /\ Len(log) \in Nat /\ wrap \in 0 .. Len(log)
           /\ delivered \in 0 .. Len(log) /\ inbox \in InboxType /\ inbox.paths \subseteq Tree
           /\ Plan(pend) /\ pend \in PendingType
           /\ rows \in [Paths -> Row] /\ ckpt \in Nat /\ gen \in Nat /\ gen + 1 \in Nat
           /\ armed \in BOOLEAN /\ due \in BOOLEAN /\ legacy \in BOOLEAN
           /\ queue \subseteq Tree /\ scan \in ScanType /\ scan.targets \subseteq Tree
           /\ (scan.targets # {}) = (pc \in Scanning)
           /\ faults \in 0 .. MaxFaults /\ crashes \in 0 .. MaxCrashes
           /\ EmptyInbox \in InboxType /\ EmptyInbox.paths \subseteq Tree
           /\ Plan(EmptyPending)
           /\ NoScan \in ScanType /\ NoScan.targets = {}
           /\ Roots \subseteq Tree /\ Roots # {}
  BY InvPlan, EmptyType, NoScanType, TreeInPaths, TreeAssumption
  DEF Inv, TypeOK, Scoped, Plan

\* Plan only reads the record's scoping fields.
LEMMA WatermarkPlan ==
    ASSUME NEW p, Plan(p), NEW id \in Nat, NEW x \in BOOLEAN, NEW y \in BOOLEAN
    PROVE  /\ Plan([p EXCEPT !.max_event_id = id])
           /\ Plan([p EXCEPT !.checkpoint_invalidated = y])
           /\ Plan([p EXCEPT !.max_event_id = id, !.checkpoint_reset = x,
                             !.checkpoint_invalidated = y])
  BY DEF Plan, PendingType, Deferred

\* The scan of a running boot or recovery is a scan of the roots.
RootScan == pc \in {"boot_scan", "roots_scan"} => scan.targets = Roots

\* Before the counter wraps, the stored and the pending ids are ids of the
\* first epoch: a usable checkpoint names a position of the log.
FirstEpoch(id) == id = 0 \/ id >= Base

EpochIds ==
    wrap = 0 => /\ FirstEpoch(ckpt)
                /\ FirstEpoch(pend.max_event_id)
                /\ FirstEpoch(inbox.max_event_id)

\* watch_index before the stream starts, and the end of the process.
LEMMA BootStep ==
    ASSUME Inv, RootScan, EpochIds, Start \/ Boot \/ Crash
    PROVE  Inv'
  <1>1. CASE StartFromCheckpoint
      <2>1. delivered' \in 0 .. Len(log)
          BY <1>1, Facts, WatcherAssumption, SMTT(20)
          DEF StartFromCheckpoint, CheckpointUnusable, CurrentId, Position, Id,
              EpochIds, FirstEpoch
      <2> QED
          BY <1>1, <2>1, Facts, Frame DEF StartFromCheckpoint, PC, Scanning
  <1>2. CASE StartFullRescan
      <2>1. CurrentId \in Nat
          BY Facts, IdNat DEF CurrentId
      <2>2. Plan(pend')
          BY <1>2, <2>1, Facts, WatermarkPlan DEF StartFullRescan
      <2>3. scan' \in ScanType /\ scan'.targets = Roots
          BY <1>2, Facts, BeginScanType DEF StartFullRescan, Inv
      <2>4. pc' \in PC /\ pc' \in Scanning
          BY <1>2 DEF StartFullRescan, PC, Scanning
      <2>5. (scan'.targets # {}) = (pc' \in Scanning)
          BY <2>3, <2>4, Facts
      <2>6. delivered' \in 0 .. Len(log) /\ scan'.targets \subseteq Tree
          <3>1. Len(log) \in Nat /\ Roots \subseteq Tree
              BY Facts
          <3>2. delivered' = Len(log)
              BY <1>2 DEF StartFullRescan
          <3> QED
              BY <2>3, <3>1, <3>2
      <2>7. UNCHANGED <<system, inbox, rows, ckpt, gen, armed, due, legacy, queue,
                        faults, crashes>>
          BY <1>2 DEF StartFullRescan
      <2> QED
          BY <2>2, <2>3, <2>4, <2>5, <2>6, <2>7, Facts, Frame
  <1>3. CASE BootComplete
      <2>1. rows' \in [Paths -> Row] /\ gen' \in Nat /\ scan' = NoScan
          BY <1>3, ScanRootsCompleteType DEF BootComplete, RootScan
      <2>2. pc' \in PC /\ pc' \notin Scanning
          BY <1>3 DEF BootComplete, PC, Scanning
      <2> QED
          BY <1>3, <2>1, <2>2, Facts, Frame DEF BootComplete
  <1>4. CASE BootMark
      <2>1. Plan(pend') /\ ckpt' \in Nat
          BY <1>4, Facts, WatermarkPlan DEF BootMark, PendingType
      <2>2. pc' \in PC /\ pc' \notin Scanning /\ pc \notin Scanning
          BY <1>4 DEF BootMark, PC, Scanning
      <2> QED
          BY <1>4, <2>1, <2>2, Facts, Frame DEF BootMark
  <1>5. CASE BootPartial
      <2>1. PICK retry \in SUBSET (Tree \ Excluded) :
                ScanPartial(retry) /\ pend' = retain_incomplete(pend, retry, Roots, gen + 1)
          BY <1>5 DEF BootPartial
      <2>2. /\ rows' \in [Paths -> Row] /\ gen' \in Nat /\ scan' = NoScan
            /\ faults' \in 0 .. MaxFaults
          BY <2>1, ScanPartialType
      <2>3. Plan(pend')
          BY <2>1, Facts, RetainType
      <2>4. pc' \in PC /\ pc' \notin Scanning
          BY <1>5 DEF BootPartial, PC, Scanning
      <2> QED
          BY <1>5, <2>2, <2>3, <2>4, Facts, Frame DEF BootPartial
  <1>6. CASE Crash
      <2>1. crashes' \in 0 .. MaxCrashes /\ delivered' \in 0 .. Len(log)
          BY <1>6, Facts, WatcherAssumption DEF Crash
      <2>2. pc' \in PC /\ pc' \notin Scanning
          BY <1>6 DEF Crash, PC, Scanning
      <2>3. (scan'.targets # {}) = (pc' \in Scanning) /\ scan' = NoScan
          BY <1>6, <2>2, Facts DEF Crash, EndScan
      <2>4. /\ inbox' = EmptyInbox /\ pend' = EmptyPending /\ armed' = FALSE /\ due' = FALSE
            /\ legacy' = FALSE /\ queue' = {} /\ UNCHANGED <<system, rows, ckpt, gen, faults>>
          BY <1>6 DEF Crash
      <2> QED
          BY <2>1, <2>2, <2>3, <2>4, Facts, Frame
  <1> QED
      BY <1>1, <1>2, <1>3, <1>4, <1>5, <1>6 DEF Start, Boot


\* Folding and clearing keep a plan a plan.
LEMMA DuePlan ==
    ASSUME Inv
    PROVE  /\ Plan([Due(pend) EXCEPT !.rescan_roots = FALSE])
           /\ Plan([Due(pend) EXCEPT !.paths = {}])
           /\ fold_refresh_paths(Due(pend).paths) \subseteq Tree
  <1>1. Plan(pend)
      BY InvPlan
  <1>2. Plan(Due(pend))
      BY <1>1 DEF Due, Plan, PendingType, Deferred
  <1> QED
      BY <1>2 DEF Plan, PendingType, Deferred, fold_refresh_paths

\* A failed turn leaves a typed state.
LEMMA TurnType ==
    ASSUME NEW c \in BOOLEAN, Turn(c)
    PROVE  /\ pc' \in PC /\ pc' \notin Scanning
           /\ armed' \in BOOLEAN /\ due' \in BOOLEAN /\ legacy' \in BOOLEAN
  BY DEF Turn, PC, Scanning

\* A fault is counted within its bound.
LEMMA FaultType == ASSUME Inv, Fault PROVE faults' \in 0 .. MaxFaults
  BY WatcherAssumption DEF Inv, TypeOK, Fault

\* take_batch, the invalidation of a wrapped checkpoint, and the plan.
LEMMA PlanStep ==
    ASSUME Inv, TakeBatch \/ Invalidate \/ InvalidateFails \/ PlanRoots \/ PlanPaths
    PROVE  Inv'
  <1>1. CASE TakeBatch
      <2>1. Plan(pend')
          BY <1>1, Facts, MergeType, BoundType DEF TakeBatch
      <2>2. due' \in BOOLEAN
          BY <1>1 DEF TakeBatch
      <2>3. pc' \in PC /\ pc' \notin Scanning /\ pc \notin Scanning /\ inbox' = EmptyInbox
          BY <1>1 DEF TakeBatch, PC, Scanning
      <2>4. UNCHANGED <<system, delivered, rows, ckpt, gen, armed, legacy, queue,
                        scan, faults, crashes>>
          BY <1>1 DEF TakeBatch
      <2> QED
          BY <2>1, <2>2, <2>3, <2>4, Facts, Frame
  <1>2. CASE Invalidate
      <2>1. (pend.checkpoint_invalidated \/ MustInvalidate) \in BOOLEAN
          OBVIOUS
      <2>2. Plan(pend')
          BY <1>2, <2>1, Facts, WatermarkPlan DEF Invalidate
      <2>3. ckpt' \in Nat
          BY <1>2, Facts DEF Invalidate
      <2>4. /\ pc' \in PC /\ pc' \notin Scanning /\ pc \notin Scanning
            /\ armed' \in BOOLEAN /\ due' \in BOOLEAN /\ legacy' \in BOOLEAN
          BY <1>2, Facts, TurnType DEF Invalidate, PC, Scanning
      <2>5. UNCHANGED <<system, delivered, inbox, rows, gen, queue, scan, faults, crashes>>
          BY <1>2 DEF Invalidate
      <2> QED
          BY <2>2, <2>3, <2>4, <2>5, Facts, Frame
  <1>3. CASE InvalidateFails
      <2>1. faults' \in 0 .. MaxFaults
          BY <1>3, FaultType DEF InvalidateFails
      <2>2. /\ pc' \in PC /\ pc' \notin Scanning /\ pc \notin Scanning
            /\ armed' \in BOOLEAN /\ due' \in BOOLEAN /\ legacy' \in BOOLEAN
          BY <1>3, TurnType DEF InvalidateFails, Scanning
      <2>3. UNCHANGED <<system, delivered, inbox, pend, rows, ckpt, gen, queue, scan, crashes>>
          BY <1>3 DEF InvalidateFails
      <2> QED
          BY <2>1, <2>2, <2>3, Facts, Frame
  <1>4. CASE PlanRoots
      <2>1. Plan(pend')
          BY <1>4, DuePlan DEF PlanRoots
      <2>2. legacy' \in BOOLEAN
          BY <1>4 DEF PlanRoots, needs_legacy_generation
      <2>3. scan' \in ScanType /\ scan'.targets = Roots
          BY <1>4, <2>2, Facts, BeginScanType DEF PlanRoots, Inv
      <2>4. pc' \in PC /\ pc' \in Scanning
          BY <1>4 DEF PlanRoots, PC, Scanning
      <2>5. (scan'.targets # {}) = (pc' \in Scanning) /\ scan'.targets \subseteq Tree
          BY <2>3, <2>4, Facts
      <2>6. UNCHANGED <<system, delivered, inbox, rows, ckpt, gen, armed, due,
                        queue, faults, crashes>>
          BY <1>4 DEF PlanRoots
      <2> QED
          BY <2>1, <2>2, <2>3, <2>4, <2>5, <2>6, Facts, Frame
  <1>5. CASE PlanPaths
      <2>1. Plan(pend') /\ queue' \subseteq Tree
          BY <1>5, DuePlan DEF PlanPaths
      <2>2. legacy' \in BOOLEAN
          BY <1>5 DEF PlanPaths, needs_legacy_generation
      <2>3. pc' \in PC /\ pc' \notin Scanning /\ pc \notin Scanning
          BY <1>5 DEF PlanPaths, PC, Scanning
      <2>4. UNCHANGED <<system, delivered, inbox, rows, ckpt, gen, armed, due, scan,
                        faults, crashes>>
          BY <1>5 DEF PlanPaths
      <2> QED
          BY <2>1, <2>2, <2>3, <2>4, Facts, Frame
  <1> QED
      BY <1>1, <1>2, <1>3, <1>4, <1>5

\* The outcomes of a rescan of the roots, and the fallback of any scan.
LEMMA RootsStep ==
    ASSUME Inv, RootScan, ScanFallback \/ RootsComplete \/ RootsPartial \/ RootsFail
    PROVE  Inv'
  <1>1. CASE ScanFallback
      <2>1. scan' \in ScanType /\ scan'.targets = scan.targets
          BY <1>1, Facts, BeginScanType DEF ScanFallback, Inv
      <2>2. UNCHANGED <<system, delivered, inbox, worker, rows, ckpt, gen, faults, crashes>>
          BY <1>1 DEF ScanFallback
      <2>3. pc' = pc /\ pc \in PC
          BY <2>2 DEF worker, Inv, TypeOK
      <2> QED
          BY <2>1, <2>2, <2>3, Facts, Frame DEF worker
  <1>2. CASE RootsComplete
      <2>1. rows' \in [Paths -> Row] /\ gen' \in Nat /\ scan' = NoScan
          BY <1>2, ScanRootsCompleteType DEF RootsComplete, RootScan
      <2>2. Plan(pend')
          BY <1>2, Facts, EmptyType, ZenonT(60) DEF RootsComplete, Plan, PendingType, Deferred
      <2>3. pc' \in PC /\ pc' \notin Scanning
          BY <1>2 DEF RootsComplete, PC, Scanning
      <2>4. UNCHANGED <<system, delivered, inbox, ckpt, armed, due, legacy, queue,
                        faults, crashes>>
          BY <1>2 DEF RootsComplete
      <2> QED
          BY <2>1, <2>2, <2>3, <2>4, Facts, Frame
  <1>3. CASE RootsPartial
      <2> DEFINE p == [pend EXCEPT !.paths = {}, !.retry_paths = {}, !.retry_roots = FALSE]
      <2>1. PICK retry \in SUBSET (Tree \ Excluded) :
                ScanPartial(retry) /\ pend' = retain_incomplete(p, retry, Roots, gen + 1)
          BY <1>3 DEF RootsPartial
      <2>2. /\ rows' \in [Paths -> Row] /\ gen' \in Nat /\ scan' = NoScan
            /\ faults' \in 0 .. MaxFaults
          BY <2>1, ScanPartialType
      <2>3. Plan(p)
          BY Facts DEF Plan, PendingType, Deferred
      <2>4. Plan(pend')
          BY <2>1, <2>3, Facts, RetainType
      <2>5. pc' \in PC /\ pc' \notin Scanning
          BY <1>3 DEF RootsPartial, PC, Scanning
      <2>6. UNCHANGED <<system, delivered, inbox, ckpt, armed, due, legacy, queue, crashes>>
          BY <1>3 DEF RootsPartial
      <2> QED
          BY <2>2, <2>4, <2>5, <2>6, Facts, Frame
  <1>4. CASE RootsFail
      <2>1. faults' \in 0 .. MaxFaults
          BY <1>4, FaultType DEF RootsFail
      <2>2. Plan(pend') /\ queue' \subseteq Tree
          BY <1>4, Facts DEF RootsFail, Plan, PendingType, Deferred, fold_refresh_paths
      <2>3. pc' \in PC /\ pc' \notin Scanning /\ scan' = NoScan
          BY <1>4 DEF RootsFail, EndScan, PC, Scanning
      <2>4. UNCHANGED <<system, delivered, inbox, rows, ckpt, gen, armed, due, legacy, crashes>>
          BY <1>4 DEF RootsFail
      <2> QED
          BY <2>1, <2>2, <2>3, <2>4, Facts, Frame
  <1> QED
      BY <1>1, <1>2, <1>3, <1>4


\* A complete or failed refresh of one path touches only the retries.
LEMMA RetryPlan ==
    ASSUME NEW p, Plan(p), NEW S \in SUBSET Tree
    PROVE  /\ Plan([p EXCEPT !.retry_paths = S])
           /\ p.retry_paths \subseteq Tree
  BY TreeInPaths DEF Plan, PendingType, Deferred

\* The start and the outcomes of the refresh of one path.
LEMMA RefreshStep ==
    ASSUME Inv, \/ \E t \in queue : RefreshBegin(t)
                \/ \E t \in scan.targets :
                      \/ RefreshAbsent(t) \/ RefreshDir(t) \/ RefreshLeaf(t)
                      \/ RefreshPartialDir(t) \/ RefreshPartialLeaf(t) \/ RefreshFail(t)
    PROVE  Inv'
  <1>1. ASSUME NEW t \in queue, RefreshBegin(t) PROVE Inv'
      <2>1. Plan(pend')
          <3>1. pend' = pend \/ pend' = [pend EXCEPT !.retry_paths = pend.retry_paths \ Sub[t]]
              BY <1>1 DEF RefreshBegin
          <3>2. Plan(pend) /\ pend.retry_paths \ Sub[t] \in SUBSET Tree
              BY Facts, RetryPlan
          <3> QED
              BY <3>1, <3>2, RetryPlan
      <2>2. queue' \subseteq Tree /\ t \in Tree /\ pc \notin Scanning
          BY <1>1, Facts DEF RefreshBegin, Scanning
      <2>3. UNCHANGED <<system, delivered, inbox, rows, ckpt, gen, armed, due,
                        legacy, faults, crashes>>
          BY <1>1 DEF RefreshBegin
      <2>4. CASE t \in Excluded
          <3>1. pc' = pc /\ scan' = scan /\ pc \in PC
              BY <1>1, <2>4 DEF RefreshBegin, PC
          <3> QED
              BY <2>1, <2>2, <2>3, <3>1, Facts, Frame
      <2>5. CASE t \notin Excluded
          <3>1. scan' \in ScanType /\ scan'.targets = {t}
              BY <1>1, <2>2, <2>5, Facts, BeginScanType, ZenonT(60) DEF RefreshBegin, Inv
          <3>2. pc' \in PC /\ pc' \in Scanning
              BY <1>1, <2>5 DEF RefreshBegin, PC, Scanning
          <3>3. (scan'.targets # {}) = (pc' \in Scanning) /\ scan'.targets \subseteq Tree
              BY <2>2, <3>1, <3>2
          <3> QED
              BY <2>1, <2>2, <2>3, <3>1, <3>2, <3>3, Facts, Frame
      <2> QED
          BY <2>4, <2>5
  <1>2. ASSUME NEW t \in scan.targets, RefreshDone(t), rows' \in [Paths -> Row], gen' \in Nat
        PROVE  Inv'
      <2>1. Plan(pend')
          BY <1>2, Facts, RetryPlan DEF RefreshDone
      <2>2. pc' \in PC /\ pc' \notin Scanning /\ scan' = NoScan
          BY <1>2 DEF RefreshDone, EndScan, PC, Scanning
      <2>3. UNCHANGED <<system, delivered, inbox, ckpt, armed, due, legacy, queue,
                        faults, crashes>>
          BY <1>2 DEF RefreshDone
      <2> QED
          BY <1>2, <2>1, <2>2, <2>3, Facts, Frame
  <1>3. ASSUME NEW t \in scan.targets, RefreshAbsent(t) PROVE Inv'
      BY <1>2, <1>3, Facts, DeleteType DEF RefreshAbsent
  <1>4. ASSUME NEW t \in scan.targets, NEW obs \in Observations
        PROVE  \A p \in Walk(t, obs) \cup WalkAll({t}, obs) : obs[p] \in Vals
      <2>1. Walk(t, obs) \cup WalkAll({t}, obs) \subseteq Below(scan.targets)
          BY <1>4 DEF Walk, WalkAll, Below
      <2> QED
          BY <1>4, <2>1, ObservedVals DEF Inv
  <1>5. ASSUME NEW t \in scan.targets, RefreshDir(t) PROVE Inv'
      <2>1. PICK obs \in Observations :
                rows' = CompleteScan(rows, {t}, obs, gen + 1, scan.exact)
          BY <1>5 DEF RefreshDir
      <2>2. rows' \in [Paths -> Row]
          BY <1>4, <1>5, <2>1, Facts, ScanRowsType DEF ScanType
      <2> QED
          BY <1>2, <1>5, <2>2, Facts DEF RefreshDir
  <1>6. ASSUME NEW t \in scan.targets, RefreshLeaf(t) PROVE Inv'
      <2>1. PICK obs \in Observations :
                rows' = LeafScan(rows, t, Walk(t, obs), obs, gen + 1, scan.exact)
          BY <1>6 DEF RefreshLeaf
      <2>2. rows' \in [Paths -> Row]
          BY <1>4, <1>6, <2>1, Facts, ScanRowsType DEF ScanType
      <2> QED
          BY <1>2, <1>6, <2>2, Facts DEF RefreshLeaf
  <1>7. ASSUME NEW t \in scan.targets, RefreshPartialDir(t) PROVE Inv'
      <2>0. t \in Tree /\ Sub[t] \subseteq Tree
          BY <1>7, Facts, BelowTree DEF Below
      <2>1. PICK retry \in SUBSET (Sub[t] \ Excluded) :
                ScanPartial(retry) /\ pend' = retain_incomplete(pend, retry, {t}, gen + 1)
          BY <1>7 DEF RefreshPartialDir
      <2>2. /\ rows' \in [Paths -> Row] /\ gen' \in Nat /\ scan' = NoScan
            /\ faults' \in 0 .. MaxFaults
          BY <2>1, ScanPartialType
      <2>3. Plan(pend')
          BY <2>0, <2>1, Facts, RetainType
      <2>4. pc' \in PC /\ pc' \notin Scanning
          BY <1>7 DEF RefreshPartialDir, PC, Scanning
      <2>5. UNCHANGED <<system, delivered, inbox, ckpt, armed, due, legacy, queue, crashes>>
          BY <1>7 DEF RefreshPartialDir
      <2> QED
          BY <2>2, <2>3, <2>4, <2>5, Facts, Frame
  <1>8. ASSUME NEW t \in scan.targets, RefreshPartialLeaf(t) PROVE Inv'
      <2>0. t \in Tree /\ Sub[t] \subseteq Tree
          BY <1>8, Facts, BelowTree DEF Below
      <2>1. PICK retry \in SUBSET (Sub[t] \ Excluded) :
                /\ pend' = retain_incomplete(pend, retry, {}, gen + 1)
                /\ \E obs \in Observations : \E V \in SUBSET Walk(t, obs) :
                      rows' = LeafScan(rows, t, V, obs, gen + 1, FALSE)
          BY <1>8 DEF RefreshPartialLeaf
      <2>2. PICK obs \in Observations : \E V \in SUBSET Walk(t, obs) :
                rows' = LeafScan(rows, t, V, obs, gen + 1, FALSE)
          BY <2>1
      <2>3. PICK V \in SUBSET Walk(t, obs) :
                rows' = LeafScan(rows, t, V, obs, gen + 1, FALSE)
          BY <2>2
      <2>4. rows' \in [Paths -> Row]
          <3>1. \A p \in V \cup WalkAll({t}, obs) : obs[p] \in Vals
              BY <1>4, <1>8, <2>3
          <3> QED
              BY <2>3, <3>1, Facts, ScanRowsType
      <2>5. Plan(pend')
          BY <2>0, <2>1, Facts, RetainType
      <2>6. faults' \in 0 .. MaxFaults
          BY <1>8, FaultType DEF RefreshPartialLeaf
      <2>7. pc' \in PC /\ pc' \notin Scanning /\ scan' = NoScan /\ gen' = gen + 1
          BY <1>8 DEF RefreshPartialLeaf, EndScan, PC, Scanning
      <2>8. UNCHANGED <<system, delivered, inbox, ckpt, armed, due, legacy, queue, crashes>>
          BY <1>8 DEF RefreshPartialLeaf
      <2> QED
          BY <2>4, <2>5, <2>6, <2>7, <2>8, Facts, Frame
  <1>9. ASSUME NEW t \in scan.targets, RefreshFail(t) PROVE Inv'
      <2>1. Plan(pend')
          BY <1>9, Facts, RetryPlan DEF RefreshFail
      <2>2. faults' \in 0 .. MaxFaults
          BY <1>9, FaultType DEF RefreshFail
      <2>3. pc' \in PC /\ pc' \notin Scanning /\ scan' = NoScan
          BY <1>9 DEF RefreshFail, EndScan, PC, Scanning
      <2>4. UNCHANGED <<system, delivered, inbox, rows, ckpt, gen, armed, due,
                        legacy, queue, crashes>>
          BY <1>9 DEF RefreshFail
      <2> QED
          BY <2>1, <2>2, <2>3, <2>4, Facts, Frame
  <1> QED
      BY <1>1, <1>3, <1>5, <1>6, <1>7, <1>8, <1>9

\* The end of a turn: the bound, the deferred cleanups, the checkpoint.
LEMMA PersistStep ==
    ASSUME Inv, EndProcess \/ Cleanup \/ Mark \/ PersistFails
    PROVE  Inv'
  <1>1. CASE EndProcess
      <2>1. Plan(pend')
          BY <1>1, Facts, BoundType DEF EndProcess
      <2>2. /\ pc' \in PC /\ pc' \notin Scanning /\ pc \notin Scanning
            /\ armed' \in BOOLEAN /\ due' \in BOOLEAN /\ legacy' \in BOOLEAN
          BY <1>1, Facts, TurnType DEF EndProcess, PC, Scanning
      <2>3. UNCHANGED <<system, delivered, inbox, rows, ckpt, gen, queue, scan, faults, crashes>>
          BY <1>1 DEF EndProcess
      <2> QED
          BY <2>1, <2>2, <2>3, Facts, Frame
  <1>2. CASE Cleanup
      <2>1. rows' \in [Paths -> Row]
          <3>1. NoRow \in Row
              BY DEF NoRow, Row, Vals
          <3> QED
              BY <1>2, <3>1, Facts DEF Cleanup
      <2>2. Plan(pend')
          BY <1>2, Facts, EmptyType DEF Cleanup, Plan, PendingType, Deferred, EmptyPending
      <2>3. pc' \in PC /\ pc' \notin Scanning /\ pc \notin Scanning
          BY <1>2 DEF Cleanup, PC, Scanning
      <2>4. UNCHANGED <<system, delivered, inbox, ckpt, gen, armed, due, legacy,
                        queue, scan, faults, crashes>>
          BY <1>2 DEF Cleanup
      <2> QED
          BY <2>1, <2>2, <2>3, <2>4, Facts, Frame
  <1>3. CASE Mark
      <2>1. Plan(pend') /\ ckpt' \in Nat
          <3>1. \/ pend' = pend /\ ckpt' = ckpt
                \/ /\ ckpt' = pend.max_event_id
                   /\ pend' = [pend EXCEPT !.max_event_id = 0, !.checkpoint_reset = FALSE,
                                           !.checkpoint_invalidated = FALSE]
              BY <1>3 DEF Mark
          <3>2. Plan(pend) /\ pend.max_event_id \in Nat /\ ckpt \in Nat
              BY Facts DEF PendingType
          <3>3. Plan([pend EXCEPT !.max_event_id = 0, !.checkpoint_reset = FALSE,
                                  !.checkpoint_invalidated = FALSE])
              BY <3>2, WatermarkPlan
          <3> QED
              BY <3>1, <3>2, <3>3
      <2>2. /\ pc' \in PC /\ pc' \notin Scanning /\ pc \notin Scanning
            /\ armed' \in BOOLEAN /\ due' \in BOOLEAN /\ legacy' \in BOOLEAN
          BY <1>3, TurnType DEF Mark, Scanning
      <2>3. UNCHANGED <<system, delivered, inbox, rows, gen, queue, scan, faults, crashes>>
          BY <1>3 DEF Mark
      <2> QED
          BY <2>1, <2>2, <2>3, Facts, Frame
  <1>4. CASE PersistFails
      <2>1. faults' \in 0 .. MaxFaults
          BY <1>4, FaultType DEF PersistFails
      <2>2. /\ pc' \in PC /\ pc' \notin Scanning /\ pc \notin Scanning
            /\ armed' \in BOOLEAN /\ due' \in BOOLEAN /\ legacy' \in BOOLEAN
          BY <1>4, TurnType DEF PersistFails, Scanning
      <2>3. UNCHANGED <<system, delivered, inbox, pend, rows, ckpt, gen, queue, scan, crashes>>
          BY <1>4 DEF PersistFails
      <2> QED
          BY <2>1, <2>2, <2>3, Facts, Frame
  <1> QED
      BY <1>1, <1>2, <1>3, <1>4


-----------------------------------------------------------------------------
(* The inductive invariant.                                                *)

IInv == Inv /\ RootScan /\ EpochIds

\* Merging, bounding and retaining work never invent an event id.
LEMMA WatermarkKept ==
    ASSUME NEW p \in PendingType, NEW box \in InboxType
    PROVE  /\ merge_incoming(p, box).max_event_id \in {p.max_event_id, box.max_event_id}
           /\ enforce_worker_plan_bound(p).max_event_id = p.max_event_id
           /\ Due(p).max_event_id = p.max_event_id
           /\ \A retry, T, g : retain_incomplete(p, retry, T, g).max_event_id = p.max_event_id
           /\ \A q, id, gl, w : Push(box, q, id, gl, w).max_event_id \in {box.max_event_id, id}
  <1>1. merge_incoming(p, box).max_event_id \in {p.max_event_id, box.max_event_id}
      BY DEF merge_incoming, PendingType, Larger
  <1>2. enforce_worker_plan_bound(p).max_event_id = p.max_event_id
      BY DEF enforce_worker_plan_bound, PendingType
  <1>3. Due(p).max_event_id = p.max_event_id
      BY DEF Due, PendingType
  <1>4. \A retry, T, g : retain_incomplete(p, retry, T, g).max_event_id = p.max_event_id
      BY DEF retain_incomplete, PendingType
  <1>5. \A q, id, gl, w : Push(box, q, id, gl, w).max_event_id \in {box.max_event_id, id}
      <2> SUFFICES ASSUME NEW q, NEW id, NEW gl, NEW w
                   PROVE  Push(box, q, id, gl, w).max_event_id \in {box.max_event_id, id}
          OBVIOUS
      <2>1. /\ record_event(box, id, w).max_event_id \in {box.max_event_id, id}
            /\ record_event(box, id, w) =
                  [box EXCEPT !.max_event_id = IF w THEN id ELSE Larger(box.max_event_id, id),
                              !.checkpoint_reset = box.checkpoint_reset \/ w,
                              !.event_count = TRUE]
          BY DEF record_event, InboxType, Larger
      <2> QED
          BY <2>1 DEF Push, add_scoped, InboxType
  <1> QED
      BY <1>1, <1>2, <1>3, <1>4, <1>5

\* Where event ids flow in one step: from the system to the inbox, from the
\* inbox to the plan, from the plan to the stored checkpoint.
LEMMA IdFlow ==
    ASSUME Inv, Next
    PROVE  /\ ckpt' \in {0, ckpt, pend.max_event_id}
           /\ pend'.max_event_id \in {0, pend.max_event_id, inbox.max_event_id, CurrentId}
           /\ \/ inbox'.max_event_id \in {0, inbox.max_event_id}
              \/ \E k \in 0 .. Len(log) : inbox'.max_event_id = Id(k)
           /\ wrap' = 0 => wrap = 0
  <1>1. /\ pend \in PendingType /\ inbox \in InboxType
        /\ Len(log) \in Nat /\ wrap \in 0 .. Len(log) /\ delivered \in 0 .. Len(log)
        /\ EmptyPending \in PendingType
        /\ EmptyPending.max_event_id = 0 /\ EmptyInbox.max_event_id = 0
      BY EmptyType DEF Inv, TypeOK, EmptyPending, EmptyInbox
  <1>2. CASE \E p \in Tree : Mutate(p)
      BY <1>2 DEF Mutate, worker
  <1>3. CASE WrapIds
      BY <1>1, <1>3 DEF WrapIds, worker
  <1>4. CASE Deliver
      <2>1. PICK k \in delivered + 1 .. Len(log), p \in Paths, g \in BOOLEAN, w \in BOOLEAN :
                Accept(k, p, g, w)
          BY <1>4 DEF Deliver, DeliverPath, DeliverDropped, DeliverWrap
      <2>2. k \in 0 .. Len(log)
          BY <1>1, <2>1
      <2>3. inbox'.max_event_id \in {inbox.max_event_id, Id(k)}
          BY <1>1, <2>1, WatermarkKept DEF Accept
      <2>4. UNCHANGED <<ckpt, pend, wrap>>
          BY <2>1 DEF Accept, system, worker
      <2> QED
          BY <2>2, <2>3, <2>4
  <1>5. CASE Start
      BY <1>1, <1>5 DEF Start, StartFromCheckpoint, StartFullRescan, system, PendingType
  <1>6. CASE Boot
      <2>1. CASE BootComplete
          BY <2>1 DEF BootComplete, system
      <2>2. CASE BootMark
          BY <1>1, <2>2 DEF BootMark, system, PendingType
      <2>3. CASE BootPartial
          BY <1>1, <2>3, WatermarkKept DEF BootPartial, system
      <2> QED
          BY <1>6, <2>1, <2>2, <2>3 DEF Boot
  <1>7. CASE Crash
      BY <1>1, <1>7 DEF Crash, system
  <1>8. CASE Work
      <2>1. CASE TakeBatch
          <3>1. merge_incoming(pend, inbox) \in PendingType
              BY MergeType, InvPlan DEF Plan, Inv, TypeOK, Scoped
          <3> QED
              BY <1>1, <2>1, <3>1, WatermarkKept DEF TakeBatch, system
      <2>2. CASE Invalidate
          BY <1>1, <2>2 DEF Invalidate, system, PendingType
      <2>3. CASE InvalidateFails \/ PersistFails \/ ScanFallback
          BY <2>3 DEF InvalidateFails, PersistFails, ScanFallback, worker, system
      <2>4. CASE PlanRoots \/ PlanPaths
          <3>1. Due(pend) \in PendingType /\ Due(pend).max_event_id = pend.max_event_id
              BY <1>1 DEF Due, PendingType
          <3> QED
              BY <2>4, <3>1 DEF PlanRoots, PlanPaths, system, PendingType
      <2>5. CASE RootsComplete
          BY <1>1, <2>5 DEF RootsComplete, system, PendingType
      <2>6. CASE RootsPartial
          <3>1. [pend EXCEPT !.paths = {}, !.retry_paths = {}, !.retry_roots = FALSE] \in PendingType
              BY <1>1 DEF PendingType
          <3>2. [pend EXCEPT !.paths = {}, !.retry_paths = {},
                             !.retry_roots = FALSE].max_event_id = pend.max_event_id
              BY <1>1 DEF PendingType
          <3>3. PICK base \in PendingType, retry \in SUBSET Tree :
                    /\ base.max_event_id = pend.max_event_id
                    /\ pend' = retain_incomplete(base, retry, Roots, gen + 1)
              BY <2>6, <3>1, <3>2 DEF RootsPartial
          <3>4. pend'.max_event_id = pend.max_event_id
              BY <1>1, <3>3, WatermarkKept
          <3> QED
              BY <2>6, <3>4 DEF RootsPartial, system
      <2>7. CASE RootsFail
          BY <1>1, <2>7 DEF RootsFail, system, PendingType
      <2>8. ASSUME NEW t \in queue, RefreshBegin(t)
            PROVE  pend'.max_event_id = pend.max_event_id /\ UNCHANGED <<ckpt, inbox, wrap>>
          BY <1>1, <2>8 DEF RefreshBegin, system, PendingType
      <2>9. ASSUME NEW t \in scan.targets, RefreshDone(t) \/ RefreshFail(t)
            PROVE  pend'.max_event_id = pend.max_event_id /\ UNCHANGED <<ckpt, inbox, wrap>>
          BY <1>1, <2>9 DEF RefreshDone, RefreshFail, system, PendingType
      <2>10. ASSUME NEW t \in scan.targets, RefreshPartialDir(t) \/ RefreshPartialLeaf(t)
             PROVE  pend'.max_event_id = pend.max_event_id /\ UNCHANGED <<ckpt, inbox, wrap>>
          <3>1. \E retry, T : pend' = retain_incomplete(pend, retry, T, gen + 1)
              BY <2>10 DEF RefreshPartialDir, RefreshPartialLeaf
          <3>2. pend'.max_event_id = pend.max_event_id
              BY <1>1, <3>1, WatermarkKept
          <3> QED
              BY <2>10, <3>2 DEF RefreshPartialDir, RefreshPartialLeaf, system
      <2>11. CASE EndProcess
          BY <1>1, <2>11, WatermarkKept DEF EndProcess, system
      <2>12. CASE Cleanup
          BY <1>1, <2>12 DEF Cleanup, system, PendingType
      <2>13. CASE Mark
          BY <1>1, <2>13 DEF Mark, system, PendingType
      <2> QED
          BY <1>8, <2>1, <2>2, <2>3, <2>4, <2>5, <2>6, <2>7, <2>8, <2>9, <2>10, <2>11, <2>12, <2>13
          DEF Work, RefreshAbsent, RefreshDir, RefreshLeaf
  <1> QED
      BY <1>2, <1>3, <1>4, <1>5, <1>6, <1>7, <1>8 DEF Next

\* Until the counter wraps, every id in flight is of the first epoch.
LEMMA EpochStep == ASSUME Inv, EpochIds, Next PROVE EpochIds'
  <1> SUFFICES ASSUME wrap' = 0
               PROVE  /\ FirstEpoch(ckpt')
                      /\ FirstEpoch(pend'.max_event_id)
                      /\ FirstEpoch(inbox'.max_event_id)
      BY DEF EpochIds
  <1>1. wrap = 0
      BY IdFlow
  <1>2. \A k \in 0 .. Len(log) : FirstEpoch(Id(k))
      BY <1>1, WatcherAssumption DEF FirstEpoch, Id
  <1>3. FirstEpoch(CurrentId)
      BY <1>2 DEF CurrentId, Inv, TypeOK
  <1>4. FirstEpoch(0) /\ FirstEpoch(ckpt) /\ FirstEpoch(pend.max_event_id)
        /\ FirstEpoch(inbox.max_event_id)
      BY <1>1 DEF EpochIds, FirstEpoch
  <1> HIDE DEF FirstEpoch
  <1> QED
      BY <1>2, <1>3, <1>4, IdFlow

\* A boot scan and a recovery scan keep the roots as their targets.
LEMMA RootScanStep == ASSUME Inv, RootScan, Next PROVE RootScan'
  <1>1. scan \in ScanType
      BY DEF Inv, TypeOK
  <1>2. CASE \E p \in Tree : Mutate(p)
      <2>1. scan'.targets = scan.targets /\ pc' = pc
          BY <1>1, <1>2 DEF Mutate, worker, ScanType
      <2> QED
          BY <2>1 DEF RootScan
  <1>3. CASE WrapIds \/ Deliver
      BY <1>3 DEF WrapIds, Deliver, DeliverPath, DeliverDropped, DeliverWrap, Accept, worker, RootScan
  <1>4. CASE ScanFallback
      BY <1>4 DEF ScanFallback, BeginScan, worker, RootScan
  <1>5. CASE StartFullRescan \/ PlanRoots
      BY <1>5 DEF StartFullRescan, PlanRoots, BeginScan, RootScan
  <1>6. CASE Crash \/ StartFromCheckpoint \/ Boot
      BY <1>6 DEF Crash, StartFromCheckpoint, Boot, BootComplete, BootMark, BootPartial, RootScan
  <1>7. CASE \/ TakeBatch \/ Invalidate \/ InvalidateFails \/ PlanPaths
             \/ RootsComplete \/ RootsPartial \/ RootsFail
             \/ EndProcess \/ Cleanup \/ Mark \/ PersistFails
      BY <1>7 DEF TakeBatch, Invalidate, InvalidateFails, PlanPaths, RootsComplete,
                  RootsPartial, RootsFail, EndProcess, Cleanup, Mark, PersistFails, Turn, RootScan
  <1>8. CASE \E t \in queue : RefreshBegin(t)
      BY <1>8 DEF RefreshBegin, RootScan
  <1>9. CASE \E t \in scan.targets :
                 \/ RefreshAbsent(t) \/ RefreshDir(t) \/ RefreshLeaf(t)
                 \/ RefreshPartialDir(t) \/ RefreshPartialLeaf(t) \/ RefreshFail(t)
      BY <1>9 DEF RefreshAbsent, RefreshDir, RefreshLeaf, RefreshDone, RefreshPartialDir,
                  RefreshPartialLeaf, RefreshFail, RootScan
  <1> QED
      BY <1>2, <1>3, <1>4, <1>5, <1>6, <1>7, <1>8, <1>9 DEF Next, Start, Work

\* The initial state: indexed once, no checkpoint, no process.
LEMMA InitInv == ASSUME Init PROVE IInv
  <1>1. rows \in [Paths -> Row]
      <2>1. \A p \in WalkAll(Roots, fs) : fs[p] \in Vals
          BY DEF Init, FileSystems, WalkAll, Walk, Tree, Below
      <2> QED
          BY <2>1 DEF Init, Row, NoRow, Vals
  <1>2. Plan(pend) /\ inbox \in InboxType /\ inbox.paths \subseteq Tree
      BY EmptyType DEF Init, Plan
  <1>3. scan \in ScanType /\ scan.targets = {} /\ pc \in PC /\ pc \notin Scanning
      BY NoScanType DEF Init, PC, Scanning
  <1>4. log \in Seq(Tree \cup {Wrapped}) /\ Len(log) = 0
      BY DEF Init
  <1>5. TypeOK
      <2>1. armed \in BOOLEAN /\ due \in BOOLEAN /\ legacy \in BOOLEAN
          BY DEF Init
      <2>4. (scan.targets # {}) = (pc \in Scanning)
          BY <1>3
      <2>2. /\ wrap \in 0 .. Len(log) /\ delivered \in 0 .. Len(log)
            /\ ckpt \in Nat /\ gen \in Nat
            /\ faults \in 0 .. MaxFaults /\ crashes \in 0 .. MaxCrashes
          BY <1>4, WatcherAssumption DEF Init
      <2>3. fs \in FileSystems /\ queue \subseteq Paths
          BY DEF Init
      <2> QED
          BY <1>1, <1>2, <1>3, <1>4, <2>1, <2>2, <2>3, <2>4 DEF TypeOK, Plan
  <1>7. Scoped
      BY <1>2, <1>3 DEF Init, Scoped, NoScopeFailure, Plan
  <1>6. RootScan /\ EpochIds
      BY DEF Init, RootScan, EpochIds, FirstEpoch, EmptyPending, EmptyInbox
  <1> QED
      BY <1>5, <1>6, <1>7 DEF IInv, Inv

\* Every step keeps the invariant.
LEMMA NextInv == ASSUME IInv, [Next]_vars PROVE IInv'
  <1>1. CASE Next
      <2>1. Inv'
          BY <1>1, SystemStep, DeliverStep, BootStep, PlanStep, RootsStep, RefreshStep, PersistStep
          DEF IInv, Next, Work
      <2> QED
          BY <1>1, <2>1, EpochStep, RootScanStep DEF IInv
  <1>2. CASE UNCHANGED vars
      <2>1. Inv'
          BY <1>2 DEF vars, IInv, Inv, TypeOK, Scoped, NoScopeFailure, Deferred
      <2>2. RootScan' /\ EpochIds'
          BY <1>2 DEF vars, IInv, RootScan, EpochIds
      <2> QED
          BY <2>1, <2>2 DEF IInv
  <1> QED
      BY <1>1, <1>2

\* The state keeps its shape, whatever the interleaving of the system, the
\* stream, the worker, the faults and the crashes: in particular a restart
\* from a stored checkpoint resumes at a position of the log.
THEOREM TypeCorrect == Spec => []TypeOK
  <1>1. Init => IInv
      BY InitInv
  <1>2. IInv /\ [Next]_vars => IInv'
      BY NextInv
  <1>3. IInv => TypeOK
      BY DEF IInv, Inv
  <1> QED
      BY <1>1, <1>2, <1>3, PTL DEF Spec

\* No path outside the configured roots ever becomes work of the worker, so
\* its plan bound can always compress the plan into a recovery of the roots
\* (enforce_worker_plan_bound never sets worker_scope_failure).
THEOREM ScopeNeverFails == Spec => []NoScopeFailure
  <1>1. Init => IInv
      BY InitInv
  <1>2. IInv /\ [Next]_vars => IInv'
      BY NextInv
  <1>3. IInv => NoScopeFailure
      BY DEF IInv, Inv, Scoped
  <1> QED
      BY <1>1, <1>2, <1>3, PTL DEF Spec

-----------------------------------------------------------------------------
(* The turns of the worker and the event checkpoint.                       *)

\* Before the stream starts, the process holds no work: watch_index starts
\* with empty structures, and the boot scan only fills in the watermark.
Quiet ==
    /\ pc \notin Watching =>
          /\ inbox = EmptyInbox
          /\ ~armed
          /\ pend = [EmptyPending EXCEPT !.max_event_id = pend.max_event_id]
    /\ pc = "down" => pend.max_event_id = 0

\* What the worker still has to do at the points where a turn can end.
Turns ==
    /\ pc = "take" => (armed <=> has_pending(pend))
    /\ pc = "cleanup" => ~has_work(pend) /\ Deferred(pend) # {}
    /\ pc = "mark" => ~has_work(pend) /\ Deferred(pend) = {}

\* The system logs the wrap where it says, and no more than its bound.
LogShape ==
    /\ Len(log) <= MaxEvents
    /\ wrap # 0 => log[wrap] = Wrapped

\* An id that is absent, or that names a position up to n of the log.
Within(id, n) == id # 0 => LogPosition(id) <= n

\* Neither id is absent and the first is later in the log: never so.
InOrder(a, b) == a # 0 /\ b # 0 => LogPosition(a) <= LogPosition(b)

\* The stored id is no later than the plan's, nor that than the inbox's, and
\* all are within what was delivered.
Watermarks ==
    /\ Within(ckpt, Len(log))
    /\ pc # "down" => Within(ckpt, delivered)
    /\ Within(pend.max_event_id, delivered)
    /\ Within(inbox.max_event_id, delivered)
    /\ InOrder(ckpt, pend.max_event_id)
    /\ InOrder(ckpt, inbox.max_event_id)
    /\ InOrder(pend.max_event_id, inbox.max_event_id)

\* Once the wrap is delivered, an id of the old epoch is left only in the
\* plan, and only while the inbox holds the wrap that will replace it.
NewEpoch ==
    wrap # 0 /\ wrap <= delivered =>
        /\ inbox.max_event_id < Base
        /\ ~inbox.checkpoint_reset => pend.max_event_id < Base

CheckpointInv == IInv /\ Quiet /\ LogShape /\ Watermarks /\ NewEpoch

-----------------------------------------------------------------------------
(* The steps inside a turn.                                                *)

\* From the plan to the end of the last refresh.
Inner ==
    \/ PlanRoots \/ PlanPaths
    \/ RootsComplete \/ RootsPartial \/ RootsFail
    \/ \E t \in queue : RefreshBegin(t)
    \/ \E t \in scan.targets :
          \/ RefreshAbsent(t) \/ RefreshDir(t) \/ RefreshLeaf(t)
          \/ RefreshPartialDir(t) \/ RefreshPartialLeaf(t) \/ RefreshFail(t)

\* The scans of a turn move rows and debts, never ids.
LEMMA InnerStep ==
    ASSUME Inv, Inner
    PROVE  /\ UNCHANGED <<log, wrap, delivered, inbox, ckpt, armed>>
           /\ pend'.max_event_id = pend.max_event_id
           /\ pc \in {"plan", "roots_scan", "paths", "path_scan"}
           /\ pc' \in {"roots_scan", "paths", "path_scan"}
  <1>1. pend \in PendingType /\ inbox \in InboxType
      BY DEF Inv, TypeOK
  <1>2. CASE PlanRoots \/ PlanPaths
      <2>1. Due(pend) \in PendingType /\ Due(pend).max_event_id = pend.max_event_id
          BY <1>1 DEF Due, PendingType
      <2>2. pend'.max_event_id = pend.max_event_id
          BY <1>2, <2>1 DEF PlanRoots, PlanPaths, PendingType
      <2> QED
          BY <1>2, <2>2 DEF PlanRoots, PlanPaths, system
  <1>3. CASE RootsComplete \/ RootsFail
      <2>1. pend'.max_event_id = pend.max_event_id
          BY <1>1, <1>3 DEF RootsComplete, RootsFail, PendingType
      <2> QED
          BY <1>3, <2>1 DEF RootsComplete, RootsFail, system
  <1>4. CASE RootsPartial
      <2> DEFINE b == [pend EXCEPT !.paths = {}, !.retry_paths = {}, !.retry_roots = FALSE]
      <2>1. b \in PendingType /\ b.max_event_id = pend.max_event_id
          BY <1>1 DEF PendingType
      <2>2. PICK retry \in SUBSET (Tree \ Excluded) :
                pend' = retain_incomplete(b, retry, Roots, gen + 1)
          BY <1>4 DEF RootsPartial
      <2> HIDE DEF b
      <2>3. pend'.max_event_id = pend.max_event_id
          BY <1>1, <2>1, <2>2, WatermarkKept
      <2> QED
          BY <1>4, <2>3 DEF RootsPartial, system
  <1>5. ASSUME NEW t \in queue, RefreshBegin(t)
        PROVE  /\ UNCHANGED <<log, wrap, delivered, inbox, ckpt, armed>>
               /\ pend'.max_event_id = pend.max_event_id
               /\ pc = "paths" /\ pc' \in {"paths", "path_scan"}
      BY <1>1, <1>5 DEF RefreshBegin, system, PendingType
  <1>6. ASSUME NEW t \in scan.targets, RefreshDone(t) \/ RefreshFail(t)
        PROVE  /\ UNCHANGED <<log, wrap, delivered, inbox, ckpt, armed>>
               /\ pend'.max_event_id = pend.max_event_id
               /\ pc = "path_scan" /\ pc' = "paths"
      BY <1>1, <1>6 DEF RefreshDone, RefreshFail, system, PendingType
  <1>7. ASSUME NEW t \in scan.targets, RefreshPartialDir(t) \/ RefreshPartialLeaf(t)
        PROVE  /\ UNCHANGED <<log, wrap, delivered, inbox, ckpt, armed>>
               /\ pend'.max_event_id = pend.max_event_id
               /\ pc = "path_scan" /\ pc' = "paths"
      <2>1. \E retry, T : pend' = retain_incomplete(pend, retry, T, gen + 1)
          BY <1>7 DEF RefreshPartialDir, RefreshPartialLeaf
      <2>2. pend'.max_event_id = pend.max_event_id
          BY <1>1, <2>1, WatermarkKept
      <2> QED
          BY <1>7, <2>2 DEF RefreshPartialDir, RefreshPartialLeaf, system
  <1>8. CASE \E t \in queue : RefreshBegin(t)
      BY <1>5, <1>8
  <1>9. CASE \E t \in scan.targets :
                \/ RefreshAbsent(t) \/ RefreshDir(t) \/ RefreshLeaf(t)
                \/ RefreshPartialDir(t) \/ RefreshPartialLeaf(t) \/ RefreshFail(t)
      BY <1>6, <1>7, <1>9 DEF RefreshAbsent, RefreshDir, RefreshLeaf
  <1> QED
      BY <1>2, <1>3, <1>4, <1>8, <1>9 DEF Inner

\* Every step, grouped by what it does to the turn and to the ids.
LEMMA Steps ==
    ASSUME Next
    PROVE  \/ \E p \in Tree : Mutate(p)
           \/ WrapIds \/ Deliver \/ ScanFallback
           \/ StartFromCheckpoint \/ StartFullRescan
           \/ BootComplete \/ BootMark \/ BootPartial
           \/ TakeBatch \/ Invalidate \/ InvalidateFails
           \/ Inner
           \/ EndProcess \/ Cleanup \/ Mark \/ PersistFails
           \/ Crash
  BY DEF Next, Start, Boot, Work, Inner

\* The steps of the system, of the stream and the fallback of a scan leave
\* the worker where it is.
LEMMA OutsideStep ==
    ASSUME \/ \E p \in Tree : Mutate(p)
           \/ WrapIds \/ Deliver \/ ScanFallback
    PROVE  UNCHANGED <<pend, pc, armed, ckpt>>
  BY DEF Mutate, WrapIds, Deliver, DeliverPath, DeliverDropped, DeliverWrap, Accept,
         ScanFallback, worker

-----------------------------------------------------------------------------
(* The turns.                                                              *)

\* Before the stream starts nothing is admitted, and a crash forgets all.
LEMMA QuietStep == ASSUME Inv, Quiet, Next PROVE Quiet'
  <1> DEFINE Boots == {"down", "boot_scan", "boot_mark"}
  <1>0. \A s : s \in Boots => s \notin Watching
      BY DEF Watching
  <1>1. EmptyPending \in PendingType /\ EmptyPending.max_event_id = 0 /\ pend \in PendingType
      BY EmptyType DEF EmptyPending, Inv, TypeOK
  <1>2. CASE (\E p \in Tree : Mutate(p)) \/ WrapIds \/ ScanFallback
      <2>1. UNCHANGED <<pend, pc, armed, inbox>>
          BY <1>2 DEF Mutate, WrapIds, ScanFallback, worker
      <2> QED
          BY <2>1 DEF Quiet
  <1>3. CASE Deliver
      <2>1. pc \in Watching /\ pc' = pc /\ pc # "down"
          BY <1>3 DEF Deliver, DeliverPath, DeliverDropped, DeliverWrap, Accept, worker, Watching
      <2> QED
          BY <2>1 DEF Quiet
  <1>4. CASE Inner \/ TakeBatch \/ Invalidate \/ InvalidateFails \/ EndProcess \/ Cleanup
             \/ Mark \/ PersistFails \/ BootMark \/ BootPartial \/ StartFromCheckpoint
      <2>1. pc' \in Watching /\ pc' # "down"
          BY <1>4, InnerStep
          DEF TakeBatch, Invalidate, InvalidateFails, EndProcess, Cleanup, Mark, PersistFails,
              BootMark, BootPartial, StartFromCheckpoint, Turn, Watching, PC
      <2> QED
          BY <2>1 DEF Quiet
  <1>5. CASE StartFullRescan
      <2>1. /\ pc = "down" /\ pc' = "boot_scan" /\ UNCHANGED <<inbox, armed>>
            /\ pend' = [EmptyPending EXCEPT !.max_event_id = CurrentId]
          BY <1>5 DEF StartFullRescan
      <2>2. pend' = [EmptyPending EXCEPT !.max_event_id = pend'.max_event_id]
          BY <1>1, <2>1 DEF PendingType
      <2> QED
          BY <1>0, <2>1, <2>2 DEF Quiet
  <1>6. CASE BootComplete
      <2>1. pc = "boot_scan" /\ pc' = "boot_mark" /\ UNCHANGED <<inbox, armed, pend>>
          BY <1>6 DEF BootComplete
      <2> QED
          BY <1>0, <2>1 DEF Quiet
  <1>7. CASE Crash
      <2>1. pend' = EmptyPending /\ inbox' = EmptyInbox /\ armed' = FALSE
          BY <1>7 DEF Crash
      <2>2. pend' = [EmptyPending EXCEPT !.max_event_id = pend'.max_event_id]
          BY <1>1, <2>1 DEF PendingType
      <2> QED
          BY <1>1, <2>1, <2>2 DEF Quiet
  <1> QED
      BY Steps, <1>2, <1>3, <1>4, <1>5, <1>6, <1>7

\* Clearing or filling in the watermark of a plan without work.
LEMMA EmptyHasNothing ==
    ASSUME NEW id \in Nat
    PROVE  LET p == [EmptyPending EXCEPT !.max_event_id = id]
           IN  ~has_work(p) /\ Deferred(p) = {} /\ ~p.checkpoint_reset /\ p.max_event_id = id
  BY DEF EmptyPending, has_work, has_retries, Deferred

\* A walk that met errors hands something back for retry, which is work.
LEMMA RetainedIsWork ==
    ASSUME NEW p \in PendingType, NEW retry \in SUBSET Tree, retry # {}, NEW T, NEW g
    PROVE  has_work(retain_incomplete(p, retry, T, g))
  BY DEF retain_incomplete, PendingType, has_work, has_retries

\* A turn ends armed exactly when something is left to do.
LEMMA TurnsStep == ASSUME Inv, Quiet, Turns, Next PROVE Turns'
  <1>1. pend \in PendingType /\ pend.max_event_id \in Nat
      BY DEF Inv, TypeOK, PendingType
  <1>2. CASE (\E p \in Tree : Mutate(p)) \/ WrapIds \/ Deliver \/ ScanFallback
      <2>1. UNCHANGED <<pend, pc, armed>>
          BY <1>2, OutsideStep
      <2> QED
          BY <2>1 DEF Turns, Deferred
  <1>3. CASE Inner \/ TakeBatch \/ BootComplete \/ StartFullRescan \/ Crash
      <2>1. pc' \notin {"take", "cleanup", "mark"}
          BY <1>3, InnerStep DEF TakeBatch, BootComplete, StartFullRescan, Crash
      <2> QED
          BY <2>1 DEF Turns
  <1>4. CASE StartFromCheckpoint
      <2>1. pc = "down" /\ pc' = "take" /\ UNCHANGED <<pend, armed>>
          BY <1>4 DEF StartFromCheckpoint
      <2>2. ~armed /\ pend.max_event_id = 0 /\ pend = [EmptyPending EXCEPT !.max_event_id = 0]
          BY <2>1 DEF Quiet, Watching
      <2>3. ~has_pending(pend)
          BY <2>2, EmptyHasNothing DEF has_pending
      <2> QED
          BY <2>1, <2>2, <2>3 DEF Turns
  <1>5. CASE BootMark
      <2>1. /\ pc = "boot_mark" /\ pc' = "take" /\ armed' = armed
            /\ pend' = [pend EXCEPT !.max_event_id = 0]
          BY <1>5 DEF BootMark
      <2>2. ~armed /\ pend = [EmptyPending EXCEPT !.max_event_id = pend.max_event_id]
          BY <2>1 DEF Quiet, Watching
      <2>3. EmptyPending \in PendingType
          BY EmptyType
      <2>4. pend' = [EmptyPending EXCEPT !.max_event_id = 0]
          BY <1>1, <2>1, <2>2, <2>3 DEF PendingType
      <2>5. ~has_pending(pend')
          BY <2>4, EmptyHasNothing DEF has_pending
      <2> QED
          BY <2>1, <2>2, <2>5 DEF Turns
  <1>6. CASE BootPartial
      <2>1. PICK retry \in SUBSET (Tree \ Excluded) :
                ScanPartial(retry) /\ pend' = retain_incomplete(pend, retry, Roots, gen + 1)
          BY <1>6 DEF BootPartial
      <2>2. retry # {} /\ retry \in SUBSET Tree
          BY <2>1 DEF ScanPartial, PartialWalk
      <2>3. has_pending(pend')
          BY <1>1, <2>1, <2>2, RetainedIsWork DEF has_pending
      <2>4. pc' = "take" /\ armed' = TRUE
          BY <1>6 DEF BootPartial
      <2> QED
          BY <2>3, <2>4 DEF Turns
  <1>7. CASE Invalidate
      <2>1. ~pend.worker_scope_failure
          BY DEF Inv, Scoped, NoScopeFailure
      <2>2. pc' = "plan"
          BY <1>7, <2>1 DEF Invalidate
      <2> QED
          BY <2>2 DEF Turns
  <1>8. CASE InvalidateFails
      <2>1. pc' = "take" /\ armed' = TRUE /\ pend' = pend /\ pend.checkpoint_reset
          BY <1>8 DEF InvalidateFails, Turn, MustInvalidate
      <2>2. has_pending(pend')
          BY <2>1 DEF has_pending
      <2> QED
          BY <2>1, <2>2 DEF Turns
  <1>9. CASE EndProcess
      <2>1. CASE has_work(pend')
          <3>1. pc' = "take" /\ armed' = TRUE
              BY <1>9, <2>1 DEF EndProcess, Turn
          <3>2. has_pending(pend')
              BY <2>1 DEF has_pending
          <3> QED
              BY <3>1, <3>2 DEF Turns
      <2>2. CASE ~has_work(pend')
          <3>1. pc' = IF Deferred(pend') # {} THEN "cleanup" ELSE "mark"
              BY <1>9, <2>2 DEF EndProcess
          <3> QED
              BY <2>2, <3>1 DEF Turns
      <2> QED
          BY <2>1, <2>2
  <1>10. CASE Cleanup
      <2>1. /\ pc = "cleanup" /\ pc' = "mark"
            /\ pend' = [pend EXCEPT !.deferred_cleanups = EmptyPending.deferred_cleanups]
          BY <1>10 DEF Cleanup
      <2>2. ~has_work(pend) /\ EmptyPending.deferred_cleanups = [p \in Paths |-> 0]
          BY <2>1 DEF Turns, EmptyPending
      <2>3. ~has_work(pend') /\ Deferred(pend') = {}
          BY <1>1, <2>1, <2>2 DEF PendingType, has_work, has_retries, Deferred
      <2> QED
          BY <2>1, <2>3 DEF Turns
  <1>11. CASE Mark
      <2>1. pc' = "take" /\ armed' = FALSE /\ ~has_work(pend) /\ Deferred(pend) = {}
          BY <1>11 DEF Mark, Turn, Turns
      <2>2. CASE pend.max_event_id > 0 \/ pend.checkpoint_reset
          <3>1. pend' = [pend EXCEPT !.max_event_id = 0, !.checkpoint_reset = FALSE,
                                     !.checkpoint_invalidated = FALSE]
              BY <1>11, <2>2 DEF Mark
          <3>2. /\ ~has_work(pend') /\ Deferred(pend') = {}
                /\ ~pend'.checkpoint_reset /\ pend'.max_event_id = 0
              BY <1>1, <2>1, <3>1 DEF PendingType, has_work, has_retries, Deferred
          <3>3. ~has_pending(pend')
              BY <3>2 DEF has_pending
          <3> QED
              BY <2>1, <3>3 DEF Turns
      <2>3. CASE ~(pend.max_event_id > 0 \/ pend.checkpoint_reset)
          <3>1. pend' = pend
              BY <1>11, <2>3 DEF Mark
          <3>2. ~has_pending(pend')
              BY <2>1, <2>3, <3>1 DEF has_pending
          <3> QED
              BY <2>1, <3>2 DEF Turns
      <2> QED
          BY <2>2, <2>3
  <1>12. CASE PersistFails
      <2>1. pc' = "take" /\ armed' = TRUE /\ pend' = pend
          BY <1>12 DEF PersistFails, Turn
      <2>2. Deferred(pend) # {} \/ pend.max_event_id > 0 \/ pend.checkpoint_reset
          BY <1>12 DEF PersistFails, Turns
      <2>3. has_pending(pend')
          BY <2>1, <2>2 DEF has_pending
      <2> QED
          BY <2>1, <2>3 DEF Turns
  <1> QED
      BY Steps, <1>2, <1>3, <1>4, <1>5, <1>6, <1>7, <1>8, <1>9, <1>10, <1>11, <1>12

\* A worker between turns has a deadline exactly when it has work: a failed
\* scan, a failed write of the checkpoint or a deferred cleanup is never
\* forgotten, and an idle worker does not spin.
THEOREM RetryIsArmed == Spec => []RetryArmed
  <1>1. Init => IInv /\ Quiet /\ Turns
      <2>1. ASSUME Init PROVE Quiet /\ Turns
          <3>1. pc = "down" /\ inbox = EmptyInbox /\ armed = FALSE /\ pend = EmptyPending
              BY <2>1 DEF Init
          <3>2. EmptyPending \in PendingType /\ EmptyPending.max_event_id = 0
              BY EmptyType DEF EmptyPending
          <3>3. pend = [EmptyPending EXCEPT !.max_event_id = pend.max_event_id]
              BY <3>1, <3>2 DEF PendingType
          <3> QED
              BY <3>1, <3>2, <3>3 DEF Quiet, Turns
      <2> QED
          BY <2>1, InitInv
  <1>2. IInv /\ Quiet /\ Turns /\ [Next]_vars => IInv' /\ Quiet' /\ Turns'
      <2>1. ASSUME IInv, Quiet, Turns, Next PROVE Quiet' /\ Turns'
          BY <2>1, QuietStep, TurnsStep DEF IInv
      <2>2. ASSUME Quiet, Turns, UNCHANGED vars PROVE Quiet' /\ Turns'
          BY <2>2 DEF vars, Quiet, Turns, Deferred
      <2> QED
          BY <2>1, <2>2, NextInv
  <1>3. IInv /\ Turns => RetryArmed
      <2> SUFFICES ASSUME IInv, Turns, pc = "take" PROVE armed = has_pending(pend)
          BY DEF RetryArmed
      <2>1. armed \in BOOLEAN
          BY DEF IInv, Inv, TypeOK
      <2>2. has_pending(pend) \in BOOLEAN
          BY DEF has_pending
      <2>3. armed <=> has_pending(pend)
          BY DEF Turns
      <2> HIDE DEF has_pending
      <2> QED
          BY <2>1, <2>2, <2>3
  <1> QED
      BY <1>1, <1>2, <1>3, PTL DEF Spec

-----------------------------------------------------------------------------
(* Event ids and positions.                                                *)

\* The bounds a wrap depends on.
LEMMA LogFacts ==
    ASSUME Inv, LogShape
    PROVE  /\ Len(log) \in Nat /\ Len(log) < Base /\ Base \in Nat /\ Base > 0
           /\ wrap \in 0 .. Len(log) /\ delivered \in 0 .. Len(log)
           /\ ckpt \in Nat /\ pend.max_event_id \in Nat /\ inbox.max_event_id \in Nat
           /\ pend \in PendingType /\ inbox \in InboxType
           /\ log \in Seq(Tree \cup {Wrapped})
  <1>1. pend \in PendingType /\ inbox \in InboxType
      BY DEF Inv, TypeOK
  <1>2. pend.max_event_id \in Nat /\ inbox.max_event_id \in Nat
      BY <1>1 DEF PendingType, InboxType
  <1>3. log \in Seq(Tree \cup {Wrapped}) /\ Len(log) \in Nat
      BY DEF Inv, TypeOK
  <1> QED
      BY <1>1, <1>2, <1>3, WatcherAssumption DEF Inv, TypeOK, LogShape

\* The id of an event names its position, in the epoch of the event.
LEMMA IdPosition ==
    ASSUME Inv, LogShape, NEW k \in 0 .. Len(log)
    PROVE  /\ Id(k) \in Nat
           /\ LogPosition(Id(k)) = k
           /\ wrap # 0 /\ wrap <= k => Id(k) < Base
           /\ k = wrap /\ wrap # 0 => Id(k) = 0
  BY LogFacts DEF Id, LogPosition

\* A usable checkpoint is of the current epoch, and the replay starts there.
LEMMA UsablePosition ==
    ASSUME Inv, EpochIds, LogShape, ~CheckpointUnusable
    PROVE  Position(ckpt) = LogPosition(ckpt) /\ (wrap # 0 => ckpt < Base)
  BY LogFacts
  DEF CheckpointUnusable, CurrentId, Id, Position, LogPosition, EpochIds, FirstEpoch

\* The events are logged, and the wrap where it says.
LEMMA LogShapeStep == ASSUME Inv, LogShape, Next PROVE LogShape'
  <1>0. log \in Seq(Tree \cup {Wrapped}) /\ Len(log) \in Nat /\ wrap \in 0 .. Len(log)
      BY LogFacts
  <1>1. CASE \E p \in Tree : Mutate(p)
      <2>1. PICK p \in Tree : log' = Append(log, p) /\ Len(log) < MaxEvents /\ wrap' = wrap
          BY <1>1 DEF Mutate
      <2> QED
          BY <1>0, <2>1, WatcherAssumption DEF LogShape
  <1>2. CASE WrapIds
      BY <1>0, <1>2, WatcherAssumption DEF WrapIds, LogShape
  <1>3. CASE UNCHANGED <<log, wrap>>
      BY <1>3 DEF LogShape
  <1>4. \/ \E p \in Tree : Mutate(p)
        \/ WrapIds
        \/ UNCHANGED <<log, wrap>>
      BY Steps, InnerStep
      DEF Deliver, DeliverPath, DeliverDropped, DeliverWrap, Accept, ScanFallback,
          StartFromCheckpoint, StartFullRescan, BootComplete, BootMark, BootPartial, TakeBatch,
          Invalidate, InvalidateFails, EndProcess, Cleanup, Mark, PersistFails, Crash, system
  <1> QED
      BY <1>1, <1>2, <1>3, <1>4

\* What one event delivered up to k leaves in the inbox.
LEMMA DeliveredId ==
    ASSUME Inv, LogShape, Deliver
    PROVE  \E k \in delivered + 1 .. Len(log) :
              /\ delivered' = k
              /\ inbox'.max_event_id \in {inbox.max_event_id, Id(k)}
              /\ inbox.checkpoint_reset => inbox'.checkpoint_reset
              /\ delivered < wrap /\ wrap <= k =>
                    inbox'.max_event_id = 0 /\ inbox'.checkpoint_reset
              /\ UNCHANGED <<log, wrap, ckpt, pend, pc>>
  <1>1. PICK k \in delivered + 1 .. Len(log) :
            \/ \E p \in Paths : DeliverPath(k, p)
            \/ DeliverDropped(k)
            \/ DeliverWrap(k)
      BY DEF Deliver
  <1>2. PICK p \in Paths, g \in BOOLEAN, w \in BOOLEAN :
            /\ Accept(k, p, g, w)
            /\ ~w => Unwrapped(k)
            /\ w => g /\ k = delivered + 1
      BY <1>1 DEF DeliverPath, DeliverDropped, DeliverWrap
  <1> DEFINE r == record_event(inbox, Id(k), w)
             pushed == Push(inbox, p, Id(k), g, w)
  <1>3. /\ inbox \in InboxType /\ inbox.max_event_id \in Nat
        /\ delivered \in 0 .. Len(log) /\ wrap \in 0 .. Len(log) /\ Len(log) \in Nat
      BY LogFacts
  <1>4. /\ r.max_event_id = (IF w THEN Id(k) ELSE Larger(inbox.max_event_id, Id(k)))
        /\ r.checkpoint_reset <=> inbox.checkpoint_reset \/ w
        /\ r \in InboxType
      <2>1. Id(k) \in Nat
          BY <1>3, IdPosition
      <2> QED
          BY <1>3, <2>1 DEF record_event, InboxType, Larger
  <1>5. pushed.max_event_id = r.max_event_id /\ (pushed.checkpoint_reset <=> r.checkpoint_reset)
      <2> HIDE DEF r
      <2>1. add_scoped(inbox, p, Id(k), g, w) =
                IF g \/ subtree_targets(p) = {} THEN [r EXCEPT !.rescan_roots = TRUE, !.paths = {}]
                ELSE IF inbox.rescan_roots THEN r
                ELSE [r EXCEPT !.paths = r.paths \cup subtree_targets(p)]
          BY DEF add_scoped, r
      <2>2. /\ add_scoped(inbox, p, Id(k), g, w).max_event_id = r.max_event_id
            /\ add_scoped(inbox, p, Id(k), g, w).checkpoint_reset = r.checkpoint_reset
            /\ add_scoped(inbox, p, Id(k), g, w) \in InboxType
          BY <1>4, <2>1, TargetsScoped, TreeInPaths DEF InboxType
      <2> QED
          BY <2>2 DEF Push, InboxType
  <1>6. delivered < wrap /\ wrap <= k => w /\ g /\ k = wrap
      <2>1. delivered < wrap /\ wrap <= k => wrap \in delivered + 1 .. k
          BY <1>3
      <2>2. delivered < wrap /\ wrap <= k => ~Unwrapped(k)
          BY <1>3, <2>1 DEF Unwrapped, LogShape
      <2> QED
          BY <1>2, <1>3, <2>2
  <1>7. k = wrap /\ wrap # 0 => Id(k) = 0
      BY <1>3, IdPosition
  <1>8. inbox' = IF ~g /\ p \in Excluded THEN inbox ELSE pushed
      BY <1>2 DEF Accept
  <1>9. UNCHANGED <<log, wrap, ckpt, pend, pc>> /\ delivered' = k
      BY <1>2 DEF Accept, system, worker
  <1>10. Larger(inbox.max_event_id, Id(k)) \in {inbox.max_event_id, Id(k)}
      BY DEF Larger
  <1> HIDE DEF r, pushed
  <1>11. inbox'.max_event_id \in {inbox.max_event_id, Id(k)}
      BY <1>4, <1>5, <1>8, <1>10
  <1>12. inbox.checkpoint_reset => inbox'.checkpoint_reset
      BY <1>4, <1>5, <1>8
  <1>13. delivered < wrap /\ wrap <= k => inbox'.max_event_id = 0 /\ inbox'.checkpoint_reset
      BY <1>3, <1>4, <1>5, <1>6, <1>7, <1>8
  <1> QED
      BY <1>9, <1>11, <1>12, <1>13

\* The steps that leave the ids and the log alone.
LEMMA SameIds ==
    ASSUME Inv, Inner \/ ScanFallback \/ InvalidateFails \/ EndProcess \/ Cleanup
                \/ PersistFails \/ BootComplete \/ BootPartial
    PROVE  /\ UNCHANGED <<log, wrap, delivered, inbox, ckpt>>
           /\ pend'.max_event_id = pend.max_event_id
           /\ pc # "down"
  <1>1. pend \in PendingType /\ inbox \in InboxType
      BY DEF Inv, TypeOK
  <1>2. CASE Inner
      BY <1>2, InnerStep
  <1>3. CASE ScanFallback \/ InvalidateFails \/ PersistFails \/ BootComplete
      BY <1>3 DEF ScanFallback, InvalidateFails, PersistFails, BootComplete, worker, system, Scanning
  <1>4. CASE EndProcess
      BY <1>1, <1>4, WatermarkKept DEF EndProcess, system
  <1>5. CASE Cleanup
      BY <1>1, <1>5 DEF Cleanup, system, PendingType
  <1>6. CASE BootPartial
      BY <1>1, <1>6, WatermarkKept DEF BootPartial, system
  <1> QED
      BY <1>2, <1>3, <1>4, <1>5, <1>6

\* The stored, the planned and the admitted ids stay in order along the log,
\* and those of the old epoch go with the wrap.
LEMMA WatermarkStep ==
    ASSUME IInv, Quiet, LogShape, Watermarks, NewEpoch, Next
    PROVE  Watermarks' /\ NewEpoch'
  <1>0. Inv /\ EpochIds
      BY DEF IInv
  <1>1. /\ Len(log) \in Nat /\ Len(log) < Base /\ Base \in Nat /\ Base > 0
        /\ wrap \in 0 .. Len(log) /\ delivered \in 0 .. Len(log)
        /\ ckpt \in Nat /\ pend.max_event_id \in Nat /\ inbox.max_event_id \in Nat
        /\ pend \in PendingType /\ inbox \in InboxType
        /\ log \in Seq(Tree \cup {Wrapped})
      BY <1>0, LogFacts
  <1> USE DEF Watermarks, NewEpoch, Within, InOrder, LogPosition
  <1>2. CASE Inner \/ ScanFallback \/ InvalidateFails \/ EndProcess \/ Cleanup
             \/ PersistFails \/ BootComplete \/ BootPartial
      <2>1. /\ UNCHANGED <<log, wrap, delivered, inbox, ckpt>>
            /\ pend'.max_event_id = pend.max_event_id
            /\ pc # "down"
          BY <1>0, <1>2, SameIds
      <2> QED
          BY <1>1, <2>1
  <1>3. CASE Invalidate
      <2>1. /\ UNCHANGED <<log, wrap, delivered, inbox>> /\ ckpt' \in {0, ckpt}
            /\ pend'.max_event_id = pend.max_event_id
            /\ pc # "down"
          BY <1>1, <1>3 DEF Invalidate, system, PendingType
      <2> QED
          BY <1>1, <2>1
  <1>4. CASE BootMark \/ Mark
      <2>1. /\ UNCHANGED <<log, wrap, delivered, inbox>>
            /\ \/ ckpt' = ckpt /\ pend' = pend
               \/ ckpt' = pend.max_event_id /\ pend'.max_event_id = 0
            /\ pc # "down"
          BY <1>1, <1>4 DEF BootMark, Mark, system, PendingType
      <2> QED
          BY <1>1, <2>1
  <1>5. CASE TakeBatch
      <2>1. merge_incoming(pend, inbox) \in PendingType
          BY <1>0, Facts, MergeType DEF Plan
      <2>2. pend'.max_event_id = merge_incoming(pend, inbox).max_event_id
          BY <1>1, <1>5, <2>1, WatermarkKept DEF TakeBatch
      <2>3. pend'.max_event_id = IF inbox.checkpoint_reset THEN inbox.max_event_id
                                 ELSE Larger(pend.max_event_id, inbox.max_event_id)
          BY <1>1, <2>2 DEF merge_incoming, PendingType
      <2>4. inbox'.max_event_id = 0
          BY <1>5 DEF TakeBatch, EmptyInbox
      <2>5. UNCHANGED <<log, wrap, delivered, ckpt>> /\ pc # "down"
          BY <1>5 DEF TakeBatch, system
      <2> QED
          BY <1>1, <2>3, <2>4, <2>5 DEF Larger
  <1>6. CASE Deliver
      <2>1. PICK k \in delivered + 1 .. Len(log) :
                /\ delivered' = k
                /\ inbox'.max_event_id \in {inbox.max_event_id, Id(k)}
                /\ inbox.checkpoint_reset => inbox'.checkpoint_reset
                /\ delivered < wrap /\ wrap <= k =>
                      inbox'.max_event_id = 0 /\ inbox'.checkpoint_reset
                /\ UNCHANGED <<log, wrap, ckpt, pend, pc>>
          BY <1>0, <1>6, DeliveredId
      <2>2. k \in 0 .. Len(log) /\ delivered < k
          BY <1>1
      <2>3. /\ Id(k) \in Nat /\ LogPosition(Id(k)) = k
            /\ wrap # 0 /\ wrap <= k => Id(k) < Base
          BY <1>0, <2>2, IdPosition
      <2>4. pc # "down"
          BY <1>6 DEF Deliver, DeliverPath, DeliverDropped, DeliverWrap, Watching
      <2>5. Watermarks'
          <3>1. CASE inbox'.max_event_id = inbox.max_event_id
              BY <1>1, <2>1, <2>2, <2>4, <3>1
          <3>2. CASE inbox'.max_event_id = Id(k)
              <4>1. /\ Within(ckpt, Len(log)) /\ Within(ckpt, delivered)
                    /\ Within(pend.max_event_id, delivered)
                    /\ InOrder(ckpt, pend.max_event_id)
                  BY <2>4
              <4>2. /\ Within(ckpt, k) /\ Within(pend.max_event_id, k)
                    /\ Within(Id(k), k)
                    /\ InOrder(ckpt, Id(k)) /\ InOrder(pend.max_event_id, Id(k))
                  BY <1>1, <2>2, <2>3, <4>1
              <4> QED
                  BY <2>1, <3>2, <4>1, <4>2
          <3> QED
              BY <2>1, <3>1, <3>2
      <2>6. NewEpoch'
          BY <1>1, <2>1, <2>2, <2>3
      <2> QED
          BY <2>5, <2>6
  <1>7. CASE (\E p \in Tree : Mutate(p)) \/ WrapIds
      <2>1. Len(log') = Len(log) + 1 /\ UNCHANGED <<delivered, inbox, ckpt, pend, pc>>
          BY <1>1, <1>7 DEF Mutate, WrapIds, worker
      <2>2. wrap' = wrap \/ (wrap = 0 /\ wrap' = Len(log) + 1)
          BY <1>7 DEF Mutate, WrapIds
      <2>3. CASE wrap' = wrap
          BY <1>1, <2>1, <2>3
      <2>4. CASE wrap = 0 /\ wrap' = Len(log) + 1
          <3>1. FirstEpoch(ckpt) /\ FirstEpoch(pend.max_event_id) /\ FirstEpoch(inbox.max_event_id)
              BY <1>0, <2>4 DEF EpochIds
          <3> QED
              BY <1>1, <2>1, <2>4, <3>1 DEF FirstEpoch
      <2> QED
          BY <2>2, <2>3, <2>4
  <1>8. CASE StartFromCheckpoint
      <2>1. Position(ckpt) = LogPosition(ckpt) /\ (wrap # 0 => ckpt < Base)
          BY <1>0, <1>8, UsablePosition DEF StartFromCheckpoint
      <2>2. UNCHANGED <<log, wrap, inbox, ckpt, pend>> /\ delivered' = Position(ckpt)
          BY <1>8 DEF StartFromCheckpoint, system
      <2>3. pend.max_event_id = 0 /\ inbox.max_event_id = 0
          BY <1>8 DEF StartFromCheckpoint, Quiet, Watching, EmptyInbox
      <2> QED
          BY <1>1, <2>1, <2>2, <2>3
  <1>9. CASE StartFullRescan
      <2>1. /\ UNCHANGED <<log, wrap, inbox, ckpt>> /\ delivered' = Len(log)
            /\ pend'.max_event_id = CurrentId
          BY <1>9, EmptyType DEF StartFullRescan, system, PendingType
      <2>2. inbox.max_event_id = 0
          BY <1>9 DEF StartFullRescan, Quiet, Watching, EmptyInbox
      <2>3. /\ CurrentId \in Nat /\ LogPosition(CurrentId) = Len(log)
            /\ wrap # 0 => CurrentId < Base
          BY <1>0, <1>1, IdPosition DEF CurrentId
      <2> QED
          BY <1>1, <2>1, <2>2, <2>3
  <1>10. CASE Crash
      <2>1. /\ UNCHANGED <<log, wrap, ckpt>> /\ delivered' = 0 /\ pc' = "down"
            /\ pend'.max_event_id = 0 /\ inbox'.max_event_id = 0
          BY <1>10 DEF Crash, system, EmptyPending, EmptyInbox
      <2> QED
          BY <1>1, <2>1
  <1> QED
      BY Steps, <1>2, <1>3, <1>4, <1>5, <1>6, <1>7, <1>8, <1>9, <1>10

\* The stored checkpoint changes to an id only at the two marks.
LEMMA StoredByMark ==
    ASSUME Inv, Next, ckpt' # ckpt, ckpt' # 0
    PROVE  ckpt' = pend.max_event_id /\ pc # "down"
  <1>1. BootMark \/ Mark
      BY Steps, SameIds, OutsideStep
      DEF StartFromCheckpoint, StartFullRescan, TakeBatch, Invalidate, Crash
  <1> QED
      BY <1>1 DEF BootMark, Mark

\* The initial state has no checkpoint and an empty log.
LEMMA CheckpointInit == ASSUME Init PROVE CheckpointInv
  <1>1. IInv
      BY InitInv
  <1>2. /\ pc = "down" /\ inbox = EmptyInbox /\ armed = FALSE /\ pend = EmptyPending
        /\ log = <<>> /\ wrap = 0 /\ ckpt = 0
      BY DEF Init
  <1>3. EmptyPending \in PendingType /\ EmptyPending.max_event_id = 0 /\ EmptyInbox.max_event_id = 0
      BY EmptyType DEF EmptyPending, EmptyInbox
  <1>4. pend = [EmptyPending EXCEPT !.max_event_id = pend.max_event_id]
      BY <1>2, <1>3 DEF PendingType
  <1>5. Len(log) = 0 /\ MaxEvents \in Nat
      BY <1>2, WatcherAssumption
  <1> QED
      BY <1>1, <1>2, <1>3, <1>4, <1>5
      DEF CheckpointInv, Quiet, LogShape, Watermarks, NewEpoch, Within, InOrder

\* Every step keeps it.
LEMMA CheckpointNext == ASSUME CheckpointInv, [Next]_vars PROVE CheckpointInv'
  <1>1. CASE Next
      BY <1>1, NextInv, QuietStep, LogShapeStep, WatermarkStep DEF CheckpointInv, IInv
  <1>2. CASE UNCHANGED vars
      <2>1. IInv'
          BY <1>2, NextInv DEF CheckpointInv
      <2> QED
          BY <1>2, <2>1
          DEF vars, CheckpointInv, Quiet, LogShape, Watermarks, NewEpoch, Within, InOrder, LogPosition
  <1> QED
      BY <1>1, <1>2

\* A stored checkpoint never goes back in the log, never runs ahead of what
\* the stream delivered, and is of the new epoch once the worker has taken
\* the wrap: across crashes, replays, full rescans and failed writes
\* (record_event, merge_incoming, persist_checkpoint, resolve_since_when).
THEOREM CheckpointIsMonotone == Spec => CheckpointAdvances
  <1>1. Init => CheckpointInv
      BY CheckpointInit
  <1>2. CheckpointInv /\ [Next]_vars => CheckpointInv'
      BY CheckpointNext
  <1>3. CheckpointInv /\ [Next]_vars => [CheckpointStep]_vars
      <2> SUFFICES ASSUME CheckpointInv, Next, ckpt' # ckpt, ckpt' # 0
                   PROVE  /\ LogPosition(ckpt') <= delivered
                          /\ ckpt # 0 => LogPosition(ckpt) <= LogPosition(ckpt')
                          /\ wrap # 0 /\ wrap <= delivered /\ ~inbox.checkpoint_reset =>
                                ckpt' < Base
          BY DEF CheckpointStep
      <2>1. ckpt' = pend.max_event_id /\ pc # "down"
          BY StoredByMark DEF CheckpointInv, IInv
      <2> QED
          BY <2>1 DEF CheckpointInv, Watermarks, NewEpoch, Within, InOrder
  <1> QED
      BY <1>1, <1>2, <1>3, PTL DEF Spec, CheckpointAdvances
=============================================================================
