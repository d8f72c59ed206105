------------------------------ MODULE Watcher -------------------------------
(***************************************************************************)
(* `macevery watch`: the FSEvents callback, the bounded inbox, the worker  *)
(* that turns events into scanner transactions, and the event checkpoint   *)
(* that lets the next process replay what this one did not finish.         *)
(*                                                                         *)
(* Three actors: the system (changes files and numbers events), the        *)
(* callback (delivers a range of events to the inbox) and the worker.  The *)
(* database (rows, ckpt) and the system survive a crash of the process.    *)
(***************************************************************************)
EXTENDS Scanner, Sequences

CONSTANTS Kinds,       \* Kinds[p]: the values the system ever gives to p
          Aliases,     \* paths outside the trees that name the same files
          MaxPaths,    \* INBOX_MAX_PATHS
          Base,        \* the event id at which the model starts
          MaxEvents,   \* bound: events in the system log
          MaxFaults,   \* bound: failed or incomplete operations
          MaxCrashes   \* bound: ends of the watch process

\* In the system's log, the event that is at no path.
Wrapped == "ids_wrapped"

ASSUME WatcherAssumption ==
    /\ Kinds \in [Tree -> SUBSET Vals]
    /\ Wrapped \notin Paths
    /\ Aliases \subseteq Paths \ Tree
    \* An alias is above no root, and no pattern excludes the alias alone.
    /\ \A a \in Aliases : a \notin Excluded /\ Sub[a] \cap Roots = {}
    /\ MaxPaths \in Nat
    /\ Base \in Nat
    /\ MaxEvents \in Nat
    /\ MaxEvents < Base     \* a wrapped counter stays below the old ids
    /\ MaxFaults \in Nat
    /\ MaxCrashes \in Nat

VARIABLES
    fs,         \* the files, as the system has them
    log,        \* the events the system has numbered: the path of each
    wrap,       \* index in log of the EventIdsWrapped event, 0 if none
    delivered,  \* how many events of log the stream has delivered
    inbox,      \* EventInbox: the work admitted since the last take_batch
    pend,       \* the worker's PendingWork
    rows,       \* the files table
    ckpt,       \* meta watch_last_event_id, 0 if absent
    gen,        \* the last generation now_index_generation returned
    pc,         \* what the process does next
    armed,      \* retry_at is Some
    due,        \* retry_due of the batch being processed
    legacy,     \* legacy_generation of the batch being processed
    queue,      \* the folded paths the batch still has to refresh
    scan,       \* the running scan: targets, kind, values met so far
    faults,     \* number of faults so far
    crashes     \* number of crashes so far

system == <<fs, log, wrap>>
worker == <<pend, pc, armed, due, legacy, queue>>
vars == <<fs, log, wrap, delivered, inbox, pend, rows, ckpt, gen, pc, armed,
          due, legacy, queue, scan, faults, crashes>>

PC == {"down", "boot_scan", "boot_mark", "take", "invalidate", "plan",
       "roots_scan", "paths", "path_scan", "cleanup", "mark"}

Scanning == {"boot_scan", "roots_scan", "path_scan"}

\* Between the start of the stream and the end of the process.
Watching == PC \ {"down", "boot_scan", "boot_mark"}

-----------------------------------------------------------------------------
(* Event ids.  The counter starts again at 0 with the wrap event.          *)

Id(i) == IF wrap = 0 \/ i < wrap THEN Base + i ELSE i - wrap

\* FSEventsGetCurrentEventId
CurrentId == Id(Len(log))

\* resolve_since_when: FullRescan
CheckpointUnusable == ckpt = 0 \/ ckpt > CurrentId

\* A slip: the replay starts one event late.
PositionLate(id) == (IF wrap = 0 THEN id - Base ELSE wrap + id) + 1

\* The position in the log of an id of the current epoch.
Position(id) == IF wrap = 0 THEN id - Base ELSE wrap + id

-----------------------------------------------------------------------------
(* PendingWork and the inbox.                                              *)

EmptyInbox == [paths |-> {}, rescan_roots |-> FALSE, max_event_id |-> 0,
               checkpoint_reset |-> FALSE, event_count |-> FALSE]

EmptyPending ==
    [paths |-> {}, retry_paths |-> {}, rescan_roots |-> FALSE,
     retry_roots |-> FALSE, max_event_id |-> 0,
     deferred_cleanups |-> [p \in Paths |-> 0],
     checkpoint_reset |-> FALSE, checkpoint_invalidated |-> FALSE,
     full_recovery_obligation |-> FALSE, full_recovery_generation |-> FALSE,
     worker_scope_failure |-> FALSE]

Larger(a, b) == IF a > b THEN a ELSE b

\* A slip: the watermark is a maximum across the wrap.
record_event_max(box, id, wraps) ==
    [box EXCEPT !.max_event_id = Larger(@, id),
                !.checkpoint_reset = @ \/ wraps,
                !.event_count = TRUE]

\* record_event: a wrap restarts the watermark, any other event raises it.
record_event(box, id, wraps) ==
    [box EXCEPT !.max_event_id = IF wraps THEN id ELSE Larger(@, id),
                !.checkpoint_reset = @ \/ wraps,
                !.event_count = TRUE]

\* A global event and one outside the namespaces of the roots turn the work
\* into one recovery of every root.
add_scoped(box, p, id, global, wraps) ==
    LET recorded == record_event(box, id, wraps)
        targets  == subtree_targets(p)
    IN  IF global \/ targets = {} THEN [recorded EXCEPT !.rescan_roots = TRUE, !.paths = {}]
        ELSE IF box.rescan_roots THEN recorded
        ELSE [recorded EXCEPT !.paths = @ \cup targets]

\* push: so does an overflow of the inbox.
Push(box, p, id, global, wraps) ==
    LET added == add_scoped(box, p, id, global, wraps)
    IN  IF Cardinality(added.paths) > MaxPaths
          THEN [added EXCEPT !.rescan_roots = TRUE, !.paths = {}]
          ELSE added

Deferred(p) == {t \in Paths : p.deferred_cleanups[t] # 0}

merge_incoming(p, in) ==
    LET rescan == p.rescan_roots \/ in.rescan_roots
    IN  [p EXCEPT
            !.max_event_id = IF in.checkpoint_reset THEN in.max_event_id
                             ELSE Larger(@, in.max_event_id),
            !.checkpoint_reset = @ \/ in.checkpoint_reset,
            !.checkpoint_invalidated = @ /\ ~in.checkpoint_reset,
            !.rescan_roots = rescan,
            !.paths = IF p.worker_scope_failure THEN @
                      ELSE IF rescan THEN {} ELSE @ \cup in.paths]

has_retries(p) ==
    p.retry_roots \/ p.retry_paths # {} \/ p.full_recovery_obligation

\* A slip: every scan is exact.
needs_legacy_never(p) == FALSE

needs_legacy_generation(p) == Deferred(p) # {} \/ p.full_recovery_generation

\* A slip: retries do not block the checkpoint.
has_work_fresh(p) ==
    p.rescan_roots \/ p.paths # {} \/ p.worker_scope_failure

has_work(p) ==
    p.rescan_roots \/ p.paths # {} \/ has_retries(p) \/ p.worker_scope_failure

has_pending(p) ==
    has_work(p) \/ p.max_event_id > 0 \/ p.checkpoint_reset \/ Deferred(p) # {}

worker_plan_size(p) ==
    Cardinality(p.paths) + Cardinality(p.retry_paths) + Cardinality(Deferred(p))

\* enforce_worker_plan_bound.  It returns TRUE iff worker_scope_failure is
\* FALSE in its result: debt outside the roots stays, so a scope failure does.
enforce_worker_plan_bound(p) ==
    IF ~p.full_recovery_obligation /\ worker_plan_size(p) <= MaxPaths THEN p
    ELSE IF ~(p.paths \cup p.retry_paths \cup Deferred(p) \subseteq Tree)
    THEN [p EXCEPT !.worker_scope_failure = TRUE]
    ELSE [p EXCEPT !.full_recovery_obligation = TRUE,
                   !.full_recovery_generation = @ \/ Deferred(p) # {},
                   !.paths = {},
                   !.retry_paths = {},
                   !.deferred_cleanups = EmptyPending.deferred_cleanups,
                   !.retry_roots = TRUE]

retain_incomplete(p, retry, T, g) ==
    [p EXCEPT !.retry_paths = @ \cup retry,
              !.deferred_cleanups =
                  [t \in Paths |-> IF t \in T THEN Larger(@[t], g) ELSE @[t]]]

-----------------------------------------------------------------------------
(* The system and the stream (external).                                   *)

NoScan == [targets |-> {}, exact |-> FALSE, met |-> [p \in Paths |-> {}]]

\* A scan that starts now: it can meet any value a path holds from now on.
BeginScan(T, exact) ==
    [targets |-> T, exact |-> exact,
     met |-> [p \in Paths |-> IF p \in Below(T) THEN {fs[p]} ELSE {}]]

FileSystems ==
    {f \in [Tree -> Vals] : Coherent(f) /\ \A p \in Tree : f[p] \in Kinds[p]}

\* p is created, modified, removed, or renamed to or from with all that is
\* below it: one numbered event, at p.
Mutate(p) ==
    /\ Len(log) < MaxEvents
    /\ \E f \in FileSystems :
          /\ f[p] # fs[p]
          /\ \A q \in Tree \ Sub[p] : f[q] = fs[q]
          /\ fs' = f
          /\ scan' = [scan EXCEPT !.met =
                [q \in Paths |-> IF q \in Below(scan.targets)
                                 THEN @[q] \cup {f[q]} ELSE @[q]]]
    /\ log' = Append(log, p)
    /\ UNCHANGED <<wrap, delivered, inbox, worker, rows, ckpt, gen, faults, crashes>>

\* The event counter of the system starts again.
WrapIds ==
    /\ wrap = 0
    /\ Len(log) < MaxEvents
    /\ log' = Append(log, Wrapped)
    /\ wrap' = Len(log) + 1
    /\ UNCHANGED <<fs, delivered, inbox, worker, rows, ckpt, gen, scan, faults, crashes>>

\* A slip: recovery flags at an excluded path are filtered like any event.
AcceptFiltered(k, p, global, wraps) ==
    /\ delivered' = k
    /\ inbox' = IF p \in Excluded THEN inbox
                ELSE Push(inbox, p, Id(k), global, wraps)
    /\ UNCHANGED <<system, worker, rows, ckpt, gen, scan, faults, crashes>>

\* event_callback and EventFilter.accepts, for one event that stands for the
\* changes delivered+1 .. k: reported at p, or as dropped events (global).
Accept(k, p, global, wraps) ==
    /\ delivered' = k
    /\ inbox' = IF ~global /\ p \in Excluded THEN inbox
                ELSE Push(inbox, p, Id(k), global, wraps)
    /\ UNCHANGED <<system, worker, rows, ckpt, gen, scan, faults, crashes>>

\* The changes up to k, none of them the wrap.
Unwrapped(k) == \A i \in delivered + 1 .. k : log[i] # Wrapped

\* One event, or several coalesced into one at a common ancestor (a root's
\* parent included) or at an alias of the tree.
DeliverPath(k, p) ==
    /\ pc \in Watching
    /\ Unwrapped(k)
    /\ \/ p \in Aliases
       \/ \A i \in delivered + 1 .. k : log[i] \in Sub[p]
    /\ Accept(k, p, FALSE, FALSE)

\* UserDropped or KernelDropped: the changes up to k are reported as lost.
DeliverDropped(k) ==
    /\ pc \in Watching
    /\ Unwrapped(k)
    /\ \E p \in Paths : Accept(k, p, TRUE, FALSE)

DeliverWrap(k) ==
    /\ pc \in Watching
    /\ k = delivered + 1
    /\ log[k] = Wrapped
    /\ \E p \in Paths : Accept(k, p, TRUE, TRUE)

Deliver ==
    \E k \in delivered + 1 .. Len(log) :
        \/ \E p \in Paths : DeliverPath(k, p)
        \/ DeliverDropped(k)
        \/ DeliverWrap(k)

-----------------------------------------------------------------------------
(* Scans.  What a scan observes of a path is some value the path had while *)
(* the scan ran; SQLite makes its writes visible at the commit.            *)

Observations ==
    LET S == Below(scan.targets)
    IN  {o \in [S -> UNION {scan.met[p] : p \in S}] : \A p \in S : o[p] \in scan.met[p]}

Fault == faults < MaxFaults /\ faults' = faults + 1

EndScan == scan' = NoScan

\* refresh_roots without warnings: every root was there.
ScanRootsComplete ==
    \E obs \in Observations :
        /\ \A r \in Roots \ Excluded : obs[r] # "none"
        /\ rows' = CompleteScan(rows, Roots, obs, gen + 1, scan.exact)
        /\ gen' = gen + 1
        /\ EndScan

\* An exact scan met a warning, or more ids than its bitmap holds: its
\* transaction is rolled back and the same scan runs again, stamping rows.
ScanFallback ==
    /\ pc \in Scanning
    /\ scan.exact
    /\ scan' = BeginScan(scan.targets, FALSE)
    /\ UNCHANGED <<system, delivered, inbox, worker, rows, ckpt, gen, faults, crashes>>

\* A legacy scan with warnings commits what it saw; retry is what it did not.
ScanPartial(retry) ==
    /\ ~scan.exact
    /\ \E obs \in Observations : \E V \in SUBSET WalkAll(scan.targets, obs) :
          /\ PartialWalk(scan.targets, obs, V, retry)
          /\ rows' = Upsert(rows, V, obs, gen + 1, FALSE)
    /\ gen' = gen + 1
    /\ Fault
    /\ EndScan

-----------------------------------------------------------------------------
(* watch_index up to the start of the stream.                              *)

\* UseCheckpoint: the stream replays the events after the stored id.
StartFromCheckpoint ==
    /\ pc = "down"
    /\ ~CheckpointUnusable
    /\ delivered' = Position(ckpt)
    /\ pc' = "take"
    /\ UNCHANGED <<system, inbox, pend, rows, ckpt, gen, armed, due, legacy,
                   queue, scan, faults, crashes>>

\* FullRescan: the id is read before the scan, and the stream starts there.
StartFullRescan ==
    /\ pc = "down"
    /\ CheckpointUnusable
    /\ pend' = [EmptyPending EXCEPT !.max_event_id = CurrentId]
    /\ delivered' = Len(log)
    /\ scan' = BeginScan(Roots, TRUE)
    /\ pc' = "boot_scan"
    /\ UNCHANGED <<system, inbox, rows, ckpt, gen, armed, due, legacy, queue,
                   faults, crashes>>

BootComplete ==
    /\ pc = "boot_scan"
    /\ ScanRootsComplete
    /\ pc' = "boot_mark"
    /\ UNCHANGED <<system, delivered, inbox, pend, ckpt, armed, due, legacy,
                   queue, faults, crashes>>

BootMark ==
    /\ pc = "boot_mark"
    /\ ckpt' = pend.max_event_id
    /\ pend' = [pend EXCEPT !.max_event_id = 0]
    /\ pc' = "take"
    /\ UNCHANGED <<system, delivered, inbox, rows, gen, armed, due, legacy,
                   queue, scan, faults, crashes>>

BootPartial ==
    /\ pc = "boot_scan"
    /\ \E retry \in SUBSET (Tree \ Excluded) :
          /\ ScanPartial(retry)
          /\ pend' = retain_incomplete(pend, retry, Roots, gen + 1)
    /\ pc' = "take"
    /\ armed' = TRUE
    /\ UNCHANGED <<system, delivered, inbox, ckpt, due, legacy, queue, crashes>>

\* The process is gone: a crash, a failed boot scan or boot checkpoint, or a
\* closed inbox.
Crash ==
    /\ pc # "down"
    /\ crashes < MaxCrashes
    /\ crashes' = crashes + 1
    /\ pc' = "down"
    /\ inbox' = EmptyInbox
    /\ pend' = EmptyPending
    /\ armed' = FALSE
    /\ due' = FALSE
    /\ legacy' = FALSE
    /\ queue' = {}
    /\ EndScan
    /\ delivered' = 0
    /\ UNCHANGED <<system, rows, ckpt, gen, faults>>

-----------------------------------------------------------------------------
(* spawn_processor: one turn of the worker's loop.                         *)

\* A slip: only a due retry is armed again.
TurnIfDue(complete) ==
    /\ pc' = "take"
    /\ armed' = (~complete /\ due)
    /\ due' = FALSE
    /\ legacy' = FALSE

\* The turn ends; retry_at is Some iff something is left to do.
Turn(complete) ==
    /\ pc' = "take"
    /\ armed' = ~complete
    /\ due' = FALSE
    /\ legacy' = FALSE

\* A slip: only events wake the worker.
TakeBatchOnEvent ==
    /\ pc = "take"
    /\ inbox.event_count
    /\ due' = TRUE
    /\ pend' = enforce_worker_plan_bound(merge_incoming(pend, inbox))
    /\ inbox' = EmptyInbox
    /\ pc' = "invalidate"
    /\ UNCHANGED <<system, delivered, rows, ckpt, gen, armed, legacy, queue,
                   scan, faults, crashes>>

\* take_batch, merge_incoming and the plan bound.  With an empty inbox the
\* worker wakes at the deadline of its retry; events can wake it before.
TakeBatch ==
    /\ pc = "take"
    /\ inbox.event_count \/ armed
    /\ due' \in IF inbox.event_count /\ armed THEN BOOLEAN ELSE {TRUE}
    /\ pend' = enforce_worker_plan_bound(merge_incoming(pend, inbox))
    /\ inbox' = EmptyInbox
    /\ pc' = "invalidate"
    /\ UNCHANGED <<system, delivered, rows, ckpt, gen, armed, legacy, queue,
                   scan, faults, crashes>>

MustInvalidate == pend.checkpoint_reset /\ ~pend.checkpoint_invalidated

\* invalidate_wrapped_checkpoint
Invalidate ==
    /\ pc = "invalidate"
    /\ ckpt' = IF MustInvalidate THEN 0 ELSE ckpt
    /\ pend' = [pend EXCEPT !.checkpoint_invalidated = @ \/ MustInvalidate]
    /\ IF pend.worker_scope_failure
       THEN Turn(FALSE)
       ELSE pc' = "plan" /\ UNCHANGED <<armed, due, legacy>>
    /\ UNCHANGED <<system, delivered, inbox, rows, gen, queue, scan, faults, crashes>>

InvalidateFails ==
    /\ pc = "invalidate"
    /\ MustInvalidate
    /\ Fault
    /\ Turn(FALSE)
    /\ UNCHANGED <<system, delivered, inbox, pend, rows, ckpt, gen, queue, scan, crashes>>

\* process_pending: a due batch takes the retries with it.
Due(p) ==
    IF ~due THEN p
    ELSE [p EXCEPT !.paths = @ \cup p.retry_paths,
                   !.retry_paths = {},
                   !.rescan_roots = @ \/ p.retry_roots,
                   !.retry_roots = FALSE]

PlanRoots ==
    /\ pc = "plan"
    /\ Due(pend).rescan_roots
    /\ pend' = [Due(pend) EXCEPT !.rescan_roots = FALSE]
    /\ legacy' = needs_legacy_generation(pend)
    /\ scan' = BeginScan(Roots, ~legacy')
    /\ pc' = "roots_scan"
    /\ UNCHANGED <<system, delivered, inbox, rows, ckpt, gen, armed, due,
                   queue, faults, crashes>>

PlanPaths ==
    /\ pc = "plan"
    /\ ~Due(pend).rescan_roots
    /\ queue' = fold_refresh_paths(Due(pend).paths)
    /\ pend' = [Due(pend) EXCEPT !.paths = {}]
    /\ legacy' = needs_legacy_generation(pend)
    /\ pc' = "paths"
    /\ UNCHANGED <<system, delivered, inbox, rows, ckpt, gen, armed, due, scan,
                   faults, crashes>>

\* A complete rescan discharges every path and the compressed obligation, but
\* not the deferred cleanups of earlier partial scans.
RootsComplete ==
    /\ pc = "roots_scan"
    /\ ScanRootsComplete
    /\ pend' = [pend EXCEPT
                  !.paths = {}, !.retry_paths = {}, !.retry_roots = FALSE,
                  !.full_recovery_obligation = FALSE,
                  !.full_recovery_generation = @ /\ ~pend.full_recovery_obligation,
                  !.deferred_cleanups =
                      IF pend.full_recovery_obligation
                      THEN EmptyPending.deferred_cleanups ELSE @]
    /\ pc' = "paths"
    /\ UNCHANGED <<system, delivered, inbox, ckpt, armed, due, legacy, queue,
                   faults, crashes>>

RootsPartial ==
    /\ pc = "roots_scan"
    /\ \E retry \in SUBSET (Tree \ Excluded) :
          /\ ScanPartial(retry)
          /\ pend' = retain_incomplete(
                        [pend EXCEPT !.paths = {}, !.retry_paths = {},
                                     !.retry_roots = FALSE],
                        retry, Roots, gen + 1)
    /\ pc' = "paths"
    /\ UNCHANGED <<system, delivered, inbox, ckpt, armed, due, legacy, queue, crashes>>

\* The rescan waits for its retry; the fresh paths go on.
RootsFail ==
    /\ pc = "roots_scan"
    /\ Fault
    /\ queue' = fold_refresh_paths(pend.paths)
    /\ pend' = [pend EXCEPT !.retry_roots = TRUE, !.paths = {}]
    /\ pc' = "paths"
    /\ EndScan
    /\ UNCHANGED <<system, delivered, inbox, rows, ckpt, gen, armed, due,
                   legacy, crashes>>

\* refresh_path leaves an excluded path alone, and counts it as refreshed.
RefreshBegin(t) ==
    /\ pc = "paths"
    /\ queue' = queue \ {t}
    /\ IF t \in Excluded
       THEN /\ pend' = [pend EXCEPT !.retry_paths = @ \ Sub[t]]
            /\ UNCHANGED <<pc, scan>>
       ELSE /\ scan' = BeginScan({t}, ~legacy)
            /\ pc' = "path_scan"
            /\ UNCHANGED pend
    /\ UNCHANGED <<system, delivered, inbox, rows, ckpt, gen, armed, due,
                   legacy, faults, crashes>>

\* The first lstat of the target, before the transaction begins.
FirstStat(t, v) == v \in scan.met[t]

RefreshDone(t) ==
    /\ pc = "path_scan"
    /\ pend' = [pend EXCEPT !.retry_paths = @ \ Sub[t]]
    /\ pc' = "paths"
    /\ EndScan
    /\ UNCHANGED <<system, delivered, inbox, ckpt, armed, due, legacy, queue,
                   faults, crashes>>

\* NotFound: the whole namespace is absent.
RefreshAbsent(t) ==
    /\ RefreshDone(t)
    /\ FirstStat(t, "none")
    /\ rows' = delete_path_prefix(rows, t)
    /\ gen' = gen + 1

RefreshDir(t) ==
    /\ RefreshDone(t)
    /\ FirstStat(t, "dir")
    /\ \E obs \in Observations :
          /\ obs[t] # "none"
          /\ rows' = CompleteScan(rows, {t}, obs, gen + 1, scan.exact)
    /\ gen' = gen + 1

RefreshLeaf(t) ==
    /\ RefreshDone(t)
    /\ \E v \in Leaf : FirstStat(t, v)
    /\ \E obs \in Observations :
          /\ obs[t] # "none"
          /\ rows' = LeafScan(rows, t, Walk(t, obs), obs, gen + 1, scan.exact)
    /\ gen' = gen + 1

RefreshPartialDir(t) ==
    /\ pc = "path_scan"
    /\ FirstStat(t, "dir")
    /\ \E retry \in SUBSET (Sub[t] \ Excluded) :
          /\ ScanPartial(retry)
          /\ pend' = retain_incomplete(pend, retry, {t}, gen + 1)
    /\ pc' = "paths"
    /\ UNCHANGED <<system, delivered, inbox, ckpt, armed, due, legacy, queue, crashes>>

\* The target was a leaf, and the walk then meets errors: nothing is deferred.
RefreshPartialLeaf(t) ==
    /\ pc = "path_scan"
    /\ ~scan.exact
    /\ \E v \in Leaf : FirstStat(t, v)
    /\ \E retry \in SUBSET (Sub[t] \ Excluded) :
          /\ \E obs \in Observations : \E V \in SUBSET Walk(t, obs) :
                /\ PartialWalk({t}, obs, V, retry)
                /\ rows' = LeafScan(rows, t, V, obs, gen + 1, FALSE)
          /\ pend' = retain_incomplete(pend, retry, {}, gen + 1)
    /\ gen' = gen + 1
    /\ Fault
    /\ EndScan
    /\ pc' = "paths"
    /\ UNCHANGED <<system, delivered, inbox, ckpt, armed, due, legacy, queue, crashes>>

\* lstat or SQLite failed: the transaction is rolled back.
RefreshFail(t) ==
    /\ pc = "path_scan"
    /\ Fault
    /\ pend' = [pend EXCEPT !.retry_paths = @ \cup {t}]
    /\ pc' = "paths"
    /\ EndScan
    /\ UNCHANGED <<system, delivered, inbox, rows, ckpt, gen, armed, due,
                   legacy, queue, crashes>>

\* The plan bound again, then persist_checkpoint: outstanding work blocks it.
EndProcess ==
    /\ pc = "paths"
    /\ queue = {}
    /\ pend' = enforce_worker_plan_bound(pend)
    /\ IF has_work(pend') THEN Turn(FALSE)
       ELSE /\ pc' = IF Deferred(pend') # {} THEN "cleanup" ELSE "mark"
            /\ UNCHANGED <<armed, due, legacy>>
    /\ UNCHANGED <<system, delivered, inbox, rows, ckpt, gen, queue, scan,
                   faults, crashes>>

\* The deferred cleanups, in one transaction.
Cleanup ==
    /\ pc = "cleanup"
    /\ rows' = [p \in Paths |->
                  IF \E t \in Paths : p \in Sub[t] /\ rows[p].gen < pend.deferred_cleanups[t]
                  THEN NoRow ELSE rows[p]]
    /\ pend' = [pend EXCEPT !.deferred_cleanups = EmptyPending.deferred_cleanups]
    /\ pc' = "mark"
    /\ UNCHANGED <<system, delivered, inbox, ckpt, gen, armed, due, legacy,
                   queue, scan, faults, crashes>>

\* set_meta of the watermark.
Mark ==
    /\ pc = "mark"
    /\ IF pend.max_event_id > 0 \/ pend.checkpoint_reset
       THEN /\ ckpt' = pend.max_event_id
            /\ pend' = [pend EXCEPT !.max_event_id = 0, !.checkpoint_reset = FALSE,
                                    !.checkpoint_invalidated = FALSE]
       ELSE UNCHANGED <<ckpt, pend>>
    /\ Turn(TRUE)
    /\ UNCHANGED <<system, delivered, inbox, rows, gen, queue, scan, faults, crashes>>

PersistFails ==
    /\ \/ pc = "cleanup"
       \/ pc = "mark" /\ (pend.max_event_id > 0 \/ pend.checkpoint_reset)
    /\ Fault
    /\ Turn(FALSE)
    /\ UNCHANGED <<system, delivered, inbox, pend, rows, ckpt, gen, queue, scan, crashes>>

-----------------------------------------------------------------------------
Init ==
    /\ fs \in FileSystems
    /\ log = <<>>
    /\ wrap = 0
    /\ delivered = 0
    /\ inbox = EmptyInbox
    /\ pend = EmptyPending
    \* `macevery index` has run; no checkpoint is stored yet.
    /\ rows = [p \in Paths |-> IF p \in WalkAll(Roots, fs)
                               THEN [val |-> fs[p], gen |-> 1] ELSE NoRow]
    /\ ckpt = 0
    /\ gen = 1
    /\ pc = "down"
    /\ armed = FALSE
    /\ due = FALSE
    /\ legacy = FALSE
    /\ queue = {}
    /\ scan = NoScan
    /\ faults = 0
    /\ crashes = 0

Start == StartFromCheckpoint \/ StartFullRescan

Boot == BootComplete \/ BootMark \/ BootPartial

Work ==
    \/ TakeBatch \/ Invalidate \/ InvalidateFails
    \/ PlanRoots \/ PlanPaths
    \/ ScanFallback
    \/ RootsComplete \/ RootsPartial \/ RootsFail
    \/ \E t \in queue : RefreshBegin(t)
    \/ \E t \in scan.targets :
          \/ RefreshAbsent(t) \/ RefreshDir(t) \/ RefreshLeaf(t)
          \/ RefreshPartialDir(t) \/ RefreshPartialLeaf(t) \/ RefreshFail(t)
    \/ EndProcess \/ Cleanup \/ Mark \/ PersistFails

Next ==
    \/ \E p \in Tree : Mutate(p)
    \/ WrapIds
    \/ Deliver
    \/ Start \/ Boot \/ Work
    \/ Crash

\* FSEvents delivers, and the process and its worker thread run.
Spec ==
    /\ Init
    /\ [][Next]_vars
    /\ WF_vars(Deliver)
    /\ WF_vars(Start \/ Boot)
    /\ WF_vars(Work)

-----------------------------------------------------------------------------
InboxType ==
    [paths : SUBSET Paths, rescan_roots : BOOLEAN, max_event_id : Nat,
     checkpoint_reset : BOOLEAN, event_count : BOOLEAN]

PendingType ==
    [paths : SUBSET Paths, retry_paths : SUBSET Paths, rescan_roots : BOOLEAN,
     retry_roots : BOOLEAN, max_event_id : Nat,
     deferred_cleanups : [Paths -> Nat],
     checkpoint_reset : BOOLEAN, checkpoint_invalidated : BOOLEAN,
     full_recovery_obligation : BOOLEAN, full_recovery_generation : BOOLEAN,
     worker_scope_failure : BOOLEAN]

ScanType ==
    [targets : SUBSET Paths, exact : BOOLEAN, met : [Paths -> SUBSET Vals]]

\* Every variable keeps the shape the code gives it: positions lie in the log,
\* and a scan is running exactly in the three scanning states.
TypeOK ==
    /\ fs \in FileSystems
    /\ log \in Seq(Tree \cup {Wrapped})
    /\ wrap \in 0 .. Len(log)
    /\ delivered \in 0 .. Len(log)
    /\ inbox \in InboxType
    /\ pend \in PendingType
    /\ rows \in [Paths -> Row]
    /\ ckpt \in Nat
    /\ gen \in Nat
    /\ pc \in PC
    /\ armed \in BOOLEAN
    /\ due \in BOOLEAN
    /\ legacy \in BOOLEAN
    /\ queue \subseteq Paths
    /\ scan \in ScanType
    /\ (scan.targets # {}) = (pc \in Scanning)
    /\ faults \in 0 .. MaxFaults
    /\ crashes \in 0 .. MaxCrashes

-----------------------------------------------------------------------------
(* Correctness.                                                            *)

Stale(p) == rows[p].val # fs[p]

\* A change at or above p that the system numbered after position i.
LoggedAfter(i, p) ==
    \E j \in i + 1 .. Len(log) : log[j] # Wrapped /\ p \in Sub[log[j]]

\* Some part of the running process still owes p a refresh: the stream, the
\* inbox, the pending work, the batch in progress, or a deferred cleanup that
\* will delete the row of a file that is gone.
Owed(p) ==
    \/ LoggedAfter(delivered, p)
    \/ inbox.rescan_roots
    \/ p \in Below(inbox.paths)
    \/ pend.rescan_roots \/ pend.retry_roots \/ pend.full_recovery_obligation
    \/ p \in Below(pend.paths \cup pend.retry_paths \cup queue \cup scan.targets)
    \/ /\ fs[p] = "none"
       /\ \E t \in Paths : p \in Sub[t] /\ rows[p].gen < pend.deferred_cleanups[t]

\* No file is lost while the process runs: one that the index does not show as
\* it is, is owed a refresh, whatever replaced what at its path and above it,
\* however the scans raced the changes, failed in part, or were folded into a
\* recovery of the roots (process_pending, enforce_worker_plan_bound).
FilesKept ==
    pc # "down" => \A p \in Indexed : fs[p] # "none" /\ Stale(p) => Owed(p)

\* No path is a directory at one time and a leaf at another.
StableKinds == \A p \in Tree : "dir" \in Kinds[p] => Kinds[p] \cap Leaf = {}

\* No change is lost while the process runs: a row that differs from the file
\* system is owed a refresh, however the scan that wrote it raced the change,
\* failed in part, or was folded into a recovery of the roots
\* (process_pending, enforce_worker_plan_bound, EventInbox.push). It needs
\* StableKinds: refresh_path skips delete_path_prefix where the row of the
\* replaced directory does not say "dir", and nothing owes the rows below it.
NoLostChange == pc # "down" => \A p \in Indexed : Stale(p) => Owed(p)

\* No change is lost across a crash: what is stale now is either after the
\* stored checkpoint in the system's log, or the next process rescans
\* everything (persist_checkpoint, resolve_since_when).
CrashSafe ==
    \A p \in Indexed :
        Stale(p) => CheckpointUnusable \/ LoggedAfter(Position(ckpt), p)

\* The deferred cleanup and the checkpoint complete only once the incomplete
\* subtrees have recovered: while the stored checkpoint is usable, a row whose
\* file is gone lies below a change still to be replayed (persist_checkpoint).
CleanupBeforeCheckpoint ==
    \A p \in Indexed :
        rows[p].val # "none" /\ fs[p] = "none"
            => CheckpointUnusable \/ LoggedAfter(Position(ckpt), p)

\* Between turns the retry deadline is set exactly when something is left to
\* do: the worker neither forgets a failure nor spins on nothing
\* (retry_at in spawn_processor against has_pending).
RetryArmed == pc = "take" => armed = has_pending(pend)

\* "This cannot come from the guarded inbox": no path outside the roots ever
\* becomes debt of the worker (enforce_worker_plan_bound, subtree_targets).
NoScopeFailure ==
    /\ ~pend.worker_scope_failure
    /\ pend.paths \cup pend.retry_paths \cup Deferred(pend) \cup queue \subseteq Tree

\* The position in the log that a stored id names, whatever its epoch.
LogPosition(id) == IF id >= Base THEN id - Base ELSE wrap + id

\* A stored checkpoint never goes back, never runs ahead of what the stream
\* delivered, and is of the new epoch once the worker has seen the wrap
\* (record_event, merge_incoming, persist_checkpoint).
CheckpointStep ==
    ckpt' # ckpt /\ ckpt' # 0 =>
        /\ LogPosition(ckpt') <= delivered
        /\ ckpt # 0 => LogPosition(ckpt) <= LogPosition(ckpt')
        /\ wrap # 0 /\ wrap <= delivered /\ ~inbox.checkpoint_reset => ckpt' < Base

CheckpointAdvances == [][CheckpointStep]_vars

\* When the system, the faults and the crashes stop, the index becomes the
\* file system, and the worker goes back to sleep with nothing pending.
Converges ==
    <>[](/\ pc = "take"
         /\ ~armed
         /\ ~has_pending(pend)
         /\ \A p \in Indexed : ~Stale(p))
=============================================================================
