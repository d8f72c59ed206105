----------------------------- MODULE TriggerLog -----------------------------
(***************************************************************************)
(* What the watcher's diagnostics tell of the events and of themselves     *)
(* (watch.rs TriggerLog, RawEventCounts, PendingWork).  The callback       *)
(* thread records events in the inbox; the worker takes whole batches,     *)
(* merges them and clears what a finished batch showed.  It writes at most *)
(* Records records in a window, of which Reserved are kept for recovery;   *)
(* an append ends as module LogFile says: written, or an error.  Time is   *)
(* counted in ticks; a record's text is left out.                          *)
(***************************************************************************)
EXTENDS Naturals, Sequences, FiniteSets

CONSTANTS
    Window,     \* LOG_WINDOW, in ticks
    Records,    \* LOG_RECORDS_PER_WINDOW
    Reserved,   \* slots an ordinary record may not take
    MaxCalls, MaxTime, MaxEvents   \* bounds

TriggerAssumption ==
    /\ Records \in Nat /\ Reserved \in Nat /\ Reserved < Records
    /\ Window \in Nat \ {0}

VARIABLES
    now,      \* Instant::now(), in ticks
    log,      \* TriggerLog: window, records, suppressed, oversized, io_failures, until
    inbox,    \* diagnostics of the batch the callback fills
    pending,  \* diagnostics of the worker's batch
    events,   \* the events behind the two, in delivery order
    calls,    \* outcome of every record() call so far: what it was and how it ended
    shown     \* the suppressed and oversized counts in the last record written

vars == <<now, log, inbox, pending, events, calls, shown>>

None == 0  \* no unavailable_until

\* "recover" asks for a scan of the roots, "outside" is under none of them.
Kinds == {"plain", "recover", "outside"}
NoEvent == [id |-> 0, kind |-> "none"]
NoDiagnostics == [count |-> 0, signals |-> 0, first |-> <<>>, last |-> NoEvent,
                  recovery |-> NoEvent]

Init ==
    /\ now = 1 /\ inbox = NoDiagnostics /\ pending = NoDiagnostics /\ calls = <<>>
    /\ events = [inbox |-> <<>>, pending |-> <<>>]
    /\ log = [window |-> 1, records |-> 0, suppressed |-> 0, oversized |-> 0, failures |-> 0,
              until |-> None]
    /\ shown = 0

Tick ==
    /\ now < MaxTime /\ now' = now + 1
    /\ UNCHANGED <<log, inbox, pending, events, calls, shown>>

-----------------------------------------------------------------------------
(* Diagnostics of a batch *)

Diagnostics == UNCHANGED <<now, log, calls, shown>>

Shorter(a, b) == IF a < b THEN a ELSE b

\* record_event and add_scoped
Add(d, e) ==
    [count |-> d.count + 1, signals |-> d.signals + (IF e.kind = "recover" THEN 1 ELSE 0),
     first |-> IF d.count < 3 THEN Append(d.first, e) ELSE d.first, last |-> e,
     recovery |-> IF e.kind = "outside" \/ (e.kind = "recover" /\ d.recovery = NoEvent)
                    THEN e ELSE d.recovery]

\* merge_incoming: free places among the first three go to the batch's first events.
Merge(d, b) ==
    [count |-> d.count + b.count, signals |-> d.signals + b.signals,
     first |-> d.first \o SubSeq(b.first, 1, Shorter(3 - Len(d.first), Len(b.first))),
     last |-> IF b.last = NoEvent THEN d.last ELSE b.last,
     recovery |-> IF d.recovery = NoEvent THEN b.recovery ELSE d.recovery]

Callback(e) ==
    /\ Len(events.inbox) + Len(events.pending) < MaxEvents
    /\ inbox' = Add(inbox, e) /\ events' = [events EXCEPT !.inbox = Append(@, e)]
    /\ pending' = pending /\ Diagnostics

\* take_batch: the whole inbox at once, an empty one after a timeout too.
Take ==
    /\ pending' = Merge(pending, inbox) /\ inbox' = NoDiagnostics
    /\ events' = [inbox |-> <<>>, pending |-> events.pending \o events.inbox]
    /\ Diagnostics

\* The batch is done: clear_diagnostics.
Clear ==
    /\ pending' = NoDiagnostics /\ events' = [events EXCEPT !.pending = <<>>]
    /\ inbox' = inbox /\ Diagnostics

-----------------------------------------------------------------------------
(* TriggerLog::record *)

\* A new window, when the old one is over.
Current == IF now - log.window >= Window THEN [log EXCEPT !.window = now, !.records = 0] ELSE log

Limit(priority) == IF priority THEN Records ELSE Records - Reserved

Refused(l, priority) == l.records >= Limit(priority) \/ (l.until # None /\ now < l.until)

Ended(priority, how) ==
    calls' = Append(calls, [priority |-> priority, how |-> how, window |-> Current.window])

\* Over the limit, or within the time an error asks to wait.
Suppress(priority) ==
    /\ Refused(Current, priority)
    /\ log' = [Current EXCEPT !.suppressed = @ + 1] /\ shown' = shown
    /\ Ended(priority, "suppressed")

\* Longer than LOG_RECORD_BYTES.
Oversized(priority) ==
    /\ ~Refused(Current, priority)
    /\ log' = [Current EXCEPT !.oversized = @ + 1] /\ shown' = shown
    /\ Ended(priority, "oversized")

\* The counters are in the line; they start again once it is written.
Written(priority) ==
    /\ ~Refused(Current, priority)
    /\ shown' = Current.suppressed + Current.oversized
    /\ log' = [Current EXCEPT !.records = @ + 1, !.suppressed = 0, !.oversized = 0,
                              !.failures = 0, !.until = None]
    /\ Ended(priority, "written")

\* A slip: only failures are counted.
SlipFailed(priority) ==
    /\ ~Refused(Current, priority)
    /\ log' = [Current EXCEPT !.records = @ + 1, !.failures = @ + 1, !.until = now + Window]
    /\ shown' = shown /\ Ended(priority, "failed")

Failed(priority) ==
    /\ ~Refused(Current, priority)
    /\ log' = [Current EXCEPT !.records = @ + 1, !.failures = @ + 1, !.suppressed = @ + 1,
                              !.until = now + Window]
    /\ shown' = shown /\ Ended(priority, "failed")

Record(priority) ==
    /\ Len(calls) < MaxCalls
    /\ Suppress(priority) \/ Oversized(priority) \/ Written(priority) \/ Failed(priority)
    /\ UNCHANGED <<now, inbox, pending, events>>

Next ==
    \/ Tick \/ Take \/ Clear
    \/ \E k \in Kinds, id \in 1 .. 2 : Callback([id |-> id, kind |-> k])
    \/ \E priority \in BOOLEAN : Record(priority)

Spec == Init /\ [][Next]_vars

-----------------------------------------------------------------------------
Lost(i) == calls[i].how # "written"

LastWritten(upTo) == {i \in 1 .. upTo : calls[i].how = "written"
                                        /\ \A j \in i + 1 .. upTo : Lost(j)}
Since(upTo) == IF LastWritten(upTo) = {} THEN 1 ELSE 1 + CHOOSE i \in LastWritten(upTo) : TRUE

\* The reader of the log can tell how much is missing: the suppressed and oversized
\* counts of a record are the calls that left no line since the one before it.
GapsCounted ==
    /\ log.suppressed + log.oversized = Len(calls) + 1 - Since(Len(calls))
    /\ calls # <<>> /\ ~Lost(Len(calls)) =>
          shown = Len(calls) - Since(Len(calls) - 1)

\* "Leave twenty slots for recovery starts/outcomes during ordinary storms"
\* (watch.rs): while the file can be written, a recovery record is refused only after
\* the reserved slots of its window went to recovery records.
RecoveryHeard ==
    \A i \in 1 .. Len(calls) :
        calls[i].priority /\ calls[i].how = "suppressed"
            /\ (\A j \in 1 .. i - 1 : calls[j].how # "failed") =>
        LET mine == {j \in 1 .. i - 1 : calls[j].window = calls[i].window /\ calls[j].priority
                                         /\ calls[j].how = "written"}
        IN  Cardinality(mine) >= Reserved

\* Batches merged one after another tell what one batch of all their events would:
\* how many there were and carried a recovery signal, the first three and the last in
\* delivery order (ids may wrap), and a recovery event whenever there was one.
EvidenceExact ==
    LET Summary(d, es) ==
            /\ d.count = Len(es) /\ d.first = SubSeq(es, 1, Shorter(3, Len(es)))
            /\ d.signals = Cardinality({i \in 1 .. Len(es) : es[i].kind = "recover"})
            /\ d.last = IF es = <<>> THEN NoEvent ELSE es[Len(es)]
            /\ LET reasons == {es[i] : i \in {j \in 1 .. Len(es) : es[j].kind # "plain"}}
               IN  IF reasons = {} THEN d.recovery = NoEvent ELSE d.recovery \in reasons
    IN  Summary(inbox, events.inbox) /\ Summary(pending, events.pending)
=============================================================================
