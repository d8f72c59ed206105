----------------------------- MODULE MemoryAudit -----------------------------
(***************************************************************************)
(* The service's memory evidence: what a refresh publishes, the bounded    *)
(* queue, and the timer thread that writes it (serve_memory.rs             *)
(* MemoryAudit; server.rs collect_memory, publish_memory, cache_memory,    *)
(* full_reload_with_capture, apply_delta_with_method).                     *)
(*                                                                         *)
(* The refresh holds the service's write lock, so there is one at a time;  *)
(* the audit's own lock covers publish, and the beginning and the end of a *)
(* flush but not its file writes.  A snapshot is its phase and the         *)
(* revision of the index it measured; an append ends as LogFile says.      *)
(***************************************************************************)
EXTENDS Naturals, Sequences, FiniteSets

CONSTANTS
    Pending,          \* PENDING_RECORDS
    PerWindow,        \* captures in a second
    Timers,           \* callers of start()
    MaxRevision, MaxTime, MaxFlushes   \* bounds

AuditAssumption ==
    /\ Pending \in Nat \ {0}
    /\ PerWindow \in Nat /\ PerWindow > 1   \* "a before/after pair"
    /\ MaxRevision \in Nat /\ MaxTime \in Nat /\ MaxFlushes \in Nat

VARIABLES
    now,       \* seconds
    service,   \* refresh: pc, revision of the loaded index (0 for none), ghosts
    audit,     \* State: latest, pending, window, captures, suppressed, failures, sequence
    started,   \* AtomicBool
    timer,     \* each timer thread: pc, records and sequence on its stack
    made,      \* records asked for so far: captures and idle ones
    lines      \* what the log file received

vars == <<now, service, audit, started, timer, made, lines>>

Snapshot(phase, rev) == [phase |-> phase, rev |-> rev]
Stopped == [pc |-> "off", records |-> <<>>, sequence |-> 0, suppressed |-> 0]

Init ==
    /\ now = 1 /\ started = FALSE /\ timer = [t \in Timers |-> Stopped] /\ made = 0
    /\ lines = <<>>
    /\ service = [pc |-> "idle", rev |-> 0, last |-> 0, fresh |-> FALSE, missed |-> FALSE]
    /\ audit = [latest |-> Snapshot("none", 0), pending |-> <<>>, window |-> 1, captures |-> 0,
                suppressed |-> 0, failures |-> 0, sequence |-> 0]

Tick == now < MaxTime /\ now' = now + 1 /\ UNCHANGED <<service, audit, started, timer, made, lines>>

-----------------------------------------------------------------------------
(* update_at *)

Windowed(a) == IF now > a.window THEN [a EXCEPT !.window = now, !.captures = 0] ELSE a
Full(a) == Windowed(a).captures >= PerWindow

\* cache_only
Cache(a, snapshot) == [a EXCEPT !.latest = snapshot]

\* publish: at most PerWindow captures a second; a full queue loses its oldest.
Publish(a, snapshot) ==
    LET w == Windowed(Cache(a, snapshot)) IN
    IF Full(a) THEN [w EXCEPT !.suppressed = @ + 1]
    ELSE LET full == Len(w.pending) = Pending IN
         [w EXCEPT !.captures = @ + 1,
                   !.suppressed = IF full THEN @ + 1 ELSE @,
                   !.pending = Append(IF full THEN Tail(@) ELSE @,
                                      [n |-> made + 1, idle |-> FALSE, snapshot |-> snapshot])]

\* publish_memory of a service state s.
Capture(phase, s) ==
    /\ audit' = Publish(audit, Snapshot(phase, s.rev)) /\ made' = made + 1 /\ service' = s

-----------------------------------------------------------------------------
(* The refresh *)

Threads == UNCHANGED <<now, started, timer, lines>>

Fresh(s) == [s EXCEPT !.fresh = Windowed(audit).captures = 0]

\* How the refresh ended is what the log is read for.
Outcome(phase, s) == Capture(phase, [s EXCEPT !.pc = "idle", !.missed = @ \/ (s.fresh /\ Full(audit))])

FullReload ==
    /\ service.pc = "idle" /\ Capture("full_before", [Fresh(service) EXCEPT !.pc = "drop"])
    /\ Threads

IncrementalRead ==
    /\ service.pc = "idle" /\ service.rev # 0
    /\ \/ Capture("incremental_before", [Fresh(service) EXCEPT !.pc = "apply"])
       \/ Capture("incremental_read_failed", service)
    /\ Threads

\* NeedsFullReload: nothing was changed since incremental_before.
Fallback == service' = [service EXCEPT !.pc = "drop"] /\ UNCHANGED <<audit, made>>

ApplyDelta ==
    /\ service.pc = "apply"
    /\ \/ /\ service.last < MaxRevision
          /\ LET r == service.last + 1 IN
             Outcome("incremental_after", [service EXCEPT !.rev = r, !.last = r])
       \/ Fallback
       \/ Capture("full_before", [service EXCEPT !.pc = "drop", !.fresh = FALSE])
       \/ Outcome("incremental_failed", [service EXCEPT !.rev = 0])
    /\ Threads

\* invalidate_backend
Drop ==
    /\ service.pc = "drop" /\ service' = [service EXCEPT !.pc = "cache", !.rev = 0]
    /\ UNCHANGED <<audit, made>> /\ Threads

\* cache_memory("full_loading")
CacheLoading ==
    /\ service.pc = "cache" /\ service' = [service EXCEPT !.pc = "load"]
    /\ audit' = Cache(audit, Snapshot("full_loading", service.rev)) /\ made' = made /\ Threads

Load ==
    /\ service.pc = "load"
    /\ \/ /\ service.last < MaxRevision
          /\ LET r == service.last + 1 IN
             Outcome("full_after", [service EXCEPT !.rev = r, !.last = r])
       \/ Outcome("full_failed", service)
    /\ Threads

-----------------------------------------------------------------------------
(* start and flush *)

Refresh == UNCHANGED <<now, service>>

\* swap: the first caller spawns the thread.
Start(t) ==
    /\ timer[t].pc = "off" /\ ~started /\ started' = TRUE
    /\ timer' = [timer EXCEPT ![t].pc = "sleep"]
    /\ Refresh /\ UNCHANGED <<audit, made, lines>>

\* Under the lock: everything pending and an idle record go to the stack.
Take(t) ==
    /\ timer[t].pc = "sleep" /\ audit.sequence < MaxFlushes
    /\ LET idle == [n |-> made + 1, idle |-> TRUE, snapshot |-> audit.latest] IN
       timer' = [timer EXCEPT ![t] = [pc |-> "write", records |-> Append(audit.pending, idle),
                                      sequence |-> audit.sequence,
                                      suppressed |-> audit.suppressed]]
    /\ audit' = [audit EXCEPT !.pending = <<>>] /\ made' = made + 1
    /\ Refresh /\ UNCHANGED <<started, lines>>

\* Without the lock: one append; after an error the rest is not tried.
WriteLine(t) ==
    /\ timer[t].pc = "write" /\ timer[t].records # <<>>
    /\ LET r == timer[t] IN
       \/ /\ lines' = Append(lines, [seq |-> r.sequence + 1, n |-> Head(r.records).n])
          /\ timer' = [timer EXCEPT ![t].records = Tail(@), ![t].sequence = @ + 1]
       \/ /\ lines' = lines
          /\ timer' = [timer EXCEPT ![t].sequence = @ + 1, ![t].pc = "failed"]
    /\ Refresh /\ UNCHANGED <<audit, started, made>>

\* A slip: the count is taken from the beginning of the flush.
SlipSettle(t) ==
    [audit EXCEPT !.sequence = timer[t].sequence,
                  !.suppressed = IF timer[t].pc = "failed"
                                   THEN timer[t].suppressed + Len(timer[t].records) ELSE @,
                  !.failures = IF timer[t].pc = "failed" THEN @ + 1 ELSE @]

\* Under the lock again: the sequence, and what an error left unwritten.
Settle(t) ==
    [audit EXCEPT !.sequence = timer[t].sequence,
                  !.suppressed = @ + (IF timer[t].pc = "failed" THEN Len(timer[t].records) ELSE 0),
                  !.failures = IF timer[t].pc = "failed" THEN @ + 1 ELSE @]

FlushEnds(t) ==
    /\ timer[t].pc = "failed" \/ (timer[t].pc = "write" /\ timer[t].records = <<>>)
    /\ audit' = Settle(t)
    /\ timer' = [timer EXCEPT ![t] = [Stopped EXCEPT !.pc = "sleep"]]
    /\ Refresh /\ UNCHANGED <<started, made, lines>>

Next ==
    \/ Tick \/ FullReload \/ IncrementalRead \/ ApplyDelta \/ Drop \/ CacheLoading \/ Load
    \/ \E t \in Timers : Start(t) \/ Take(t) \/ WriteLine(t) \/ FlushEnds(t)

Spec == Init /\ [][Next]_vars

-----------------------------------------------------------------------------
\* The records on the timer threads' stacks.
OnStacks == UNION {{t} \X (1 .. Len(timer[t].records)) : t \in Timers}

\* "Suppression/error counters are cumulative" (serve_memory.rs): every record that was
\* asked for is in the file, waiting, on its way, or in the suppressed count, whatever
\* was published while a flush wrote.
AllAccounted ==
    made = Len(lines) + Len(audit.pending) + audit.suppressed + Cardinality(OnStacks)

\* Lines are numbered upwards without repetition and tell of captures in the order
\* in which they were made.
LinesInOrder ==
    \A i, j \in 1 .. Len(lines) : i < j => lines[i].seq < lines[j].seq /\ lines[i].n < lines[j].n

\* A refresh that starts in a fresh window has its outcome captured ("a duplicate
\* full_before would consume the two-capture window and suppress a fast outcome",
\* server.rs:608).
OutcomeCaptured == ~service.missed

\* The snapshot an idle record repeats is the service's: no index while one is being
\* loaded or after a failed load, and between refreshes the index that answers.
LatestTruthful ==
    /\ service.pc = "load" => audit.latest = Snapshot("full_loading", 0)
    /\ service.pc = "idle" => audit.latest.rev = service.rev

\* All of it.
AuditSound == AllAccounted /\ LinesInOrder /\ OutcomeCaptured /\ LatestTruthful
=============================================================================
