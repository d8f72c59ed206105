--------------------------- MODULE SearchService ----------------------------
(***************************************************************************)
(* `macevery serve`: request threads over one ServiceState behind a        *)
(* read-write lock.  A search takes a slot, checks the content stamp under *)
(* the read lock, refreshes the index under the write lock when the stamp  *)
(* has moved (from the journal, by comparing snapshots, or by a full       *)
(* load), and then searches under the read lock.  A forced reload takes    *)
(* the write lock and loads.  The writers of ContentJournal run beside it. *)
(***************************************************************************)
EXTENDS PackedIndex

CONSTANTS Searches,     \* the threads that serve /search
          Reloads,      \* the threads that serve /reload
          Statuses,     \* the threads that serve /status
          MaxSearches,  \* max_active_searches
          Requested,    \* "auto", "packed" (memory or compact) or "sqlite"
          PackedLimit,  \* records above which "auto" selects sqlite
          MaxFaults     \* bound: failed reads, loads and applies

Threads == Searches \cup Reloads \cup Statuses
NoThread == "no_thread"

ASSUME ServiceAssumption ==
    /\ Searches \cap Reloads = {} /\ Statuses \cap (Searches \cup Reloads) = {}
    /\ IsFiniteSet(Searches) /\ NoThread \notin Threads
    /\ MaxSearches \in Nat \ {0}
    /\ Requested \in {"auto", "packed", "sqlite"}
    /\ PackedLimit \in Nat
    /\ MaxFaults \in Nat

VARIABLES
    backend,    \* Backend: "packed", "sqlite" or "unavailable"
    index,      \* the packed index
    loaded,     \* loaded_stamp
    writer,     \* the thread that holds the write lock, or NoThread
    active,     \* SearchSlots.active
    pc,         \* what each thread does next
    seen,       \* the count each thread read from active
    opened,     \* the file that the thread with the write lock has open
    delta,      \* what the thread with the write lock read: target, changes
    asked,      \* the stamp of the database when the request began
    answer,     \* the answer of each thread
    faults

service == <<backend, index, loaded>>
read == <<opened, delta>>
svars == <<backend, index, loaded, writer, active, pc, seen, opened, delta, asked,
           answer, faults>>
vars == <<dbvars, svars>>

NoStamp == [file |-> 0, revision |-> 0]
NoDelta == [target |-> NoStamp, changes |-> [i \in {} |-> Absent]]

Goto(t, label) == pc' = [pc EXCEPT ![t] = label]

Fault == faults < MaxFaults /\ faults' = faults + 1

\* observer.content_stamp fails: no stamp table, or the file cannot be read.
Unobservable == db.schema = "none"

\* select_backend for a number of records.
select_backend(n) ==
    IF Requested # "auto" THEN Requested ELSE IF n > PackedLimit THEN "sqlite" ELSE "packed"

-----------------------------------------------------------------------------
(* Search slots: try_acquire_request_slot, its load and compare_exchange.  *)

Begin(t) ==
    /\ pc[t] = "start"
    /\ asked' = [asked EXCEPT ![t] = Stamp]
    /\ Goto(t, IF t \in Searches THEN "slot" ELSE "reload")
    /\ UNCHANGED <<dbvars, service, writer, active, seen, read, answer, faults>>

SlotLoad(t) ==
    /\ pc[t] = "slot"
    /\ seen' = [seen EXCEPT ![t] = active]
    /\ IF active >= MaxSearches
       THEN Goto(t, "done") /\ answer' = [answer EXCEPT ![t] = "busy"]
       ELSE Goto(t, "exchange") /\ UNCHANGED answer
    /\ UNCHANGED <<dbvars, service, writer, active, read, asked, faults>>

\* A slip: the count is stored without comparing.
SlotStore(t) ==
    /\ pc[t] = "exchange"
    /\ active' = seen[t] + 1
    /\ Goto(t, "check")
    /\ UNCHANGED <<dbvars, service, writer, seen, read, asked, answer, faults>>

SlotExchange(t) ==
    /\ pc[t] = "exchange"
    /\ IF active = seen[t]
       THEN active' = active + 1 /\ Goto(t, "check")
       ELSE UNCHANGED active /\ Goto(t, "slot")
    /\ UNCHANGED <<dbvars, service, writer, seen, read, asked, answer, faults>>

\* The response is written and the guard of the slot dropped.
Respond(t, what) ==
    /\ answer' = [answer EXCEPT ![t] = what]
    /\ active' = IF t \in Searches THEN active - 1 ELSE active
    /\ Goto(t, "done")

-----------------------------------------------------------------------------
(* ensure_fresh.                                                           *)

\* A slip: the identities of the files are not compared.
Stale_same_revision ==
    backend = "unavailable" \/ Unobservable \/ loaded.revision # db.revision

\* needs_reload
Stale == backend = "unavailable" \/ Unobservable \/ loaded # Stamp

\* A slip: without a stamp to compare the index passes for fresh.
Check_unobserved(t) ==
    /\ pc[t] = "check"
    /\ writer = NoThread
    /\ \/ Goto(t, IF Stale THEN "refresh" ELSE "search") /\ UNCHANGED faults
       \/ Fault /\ Goto(t, "search")
    /\ UNCHANGED <<dbvars, service, writer, active, seen, read, asked, answer>>

\* needs_reload under the read lock.  An error of the observer counts as stale.
Check(t) ==
    /\ pc[t] = "check"
    /\ writer = NoThread
    /\ \/ Goto(t, IF Stale THEN "refresh" ELSE "search") /\ UNCHANGED faults
       \/ Fault /\ Goto(t, "refresh")
    /\ UNCHANGED <<dbvars, service, writer, active, seen, read, asked, answer>>

\* The write lock of ensure_fresh and of /reload.
Lock(t) ==
    /\ pc[t] \in {"refresh", "reload"}
    /\ writer = NoThread
    /\ writer' = t
    /\ Goto(t, IF pc[t] = "refresh" THEN "recheck" ELSE "load")
    /\ UNCHANGED <<dbvars, service, active, seen, read, asked, answer, faults>>

Unlock == writer' = NoThread

\* reload_if_changed checks again: another thread may have refreshed.
Recheck(t) ==
    /\ pc[t] = "recheck"
    /\ \/ /\ ~Stale
          /\ Unlock
          /\ Goto(t, "search")
          /\ UNCHANGED faults
       \/ /\ \/ Stale /\ UNCHANGED faults
             \/ Fault
          /\ Goto(t, IF backend = "unavailable" THEN "load" ELSE "observe")
          /\ UNCHANGED writer
    /\ UNCHANGED <<dbvars, service, active, seen, read, asked, answer>>

\* The stamp is read once more, and decides between a delta and a full load.
Observe(t) ==
    /\ pc[t] = "observe"
    /\ \/ /\ Goto(t, IF Unobservable \/ loaded.file # ident \/ backend # "packed"
                     THEN "load" ELSE "open")
          /\ UNCHANGED faults
       \/ Fault /\ Goto(t, "load")
    /\ UNCHANGED <<dbvars, service, writer, active, seen, read, asked, answer>>

\* A slip: the error path keeps the search slot.
Fail_keeps_slot(t) ==
    /\ Fault
    /\ Unlock
    /\ answer' = [answer EXCEPT ![t] = "unavailable"]
    /\ Goto(t, "done")
    /\ UNCHANGED active

\* The answer that a failed refresh gives.
Fail(t) == Fault /\ Unlock /\ Respond(t, "unavailable")

-----------------------------------------------------------------------------
(* The incremental refresh: one read snapshot, then apply.                 *)

OpenReadOnly(t) ==
    /\ pc[t] = "open"
    /\ opened' = ident
    /\ Goto(t, "delta")
    /\ UNCHANGED <<dbvars, service, writer, active, seen, delta, asked, answer, faults>>

Take(t, changes) ==
    /\ pc[t] = "delta"
    /\ delta' = [target |-> StampOf(opened), changes |-> changes]
    /\ Goto(t, "apply")
    /\ UNCHANGED <<dbvars, service, writer, active, seen, opened, asked, answer, faults>>

\* content_stamp fails in the opened file.
Unstamped == dbs[opened].schema = "none"

\* file_changes_since answers.
ReadJournal(t) ==
    /\ ~Unstamped
    /\ Refusal(opened, loaded, FALSE) = ""
    /\ Take(t, Changes(opened, loaded))

\* A history gap: snapshot_diff compares every row in the same snapshot.
ReadSnapshot(t) ==
    /\ ~Unstamped
    /\ Refusal(opened, loaded, FALSE) = "history_gap"
    /\ ~DiffRefused(index, dbs[opened].files)
    /\ Take(t, Diff(index, dbs[opened].files))

\* A refusal of the journal, or of the comparison (its limits of rows, bytes
\* and time included), leads to a full load.
ReadRefused(t) ==
    /\ pc[t] = "delta"
    /\ ~Unstamped
    /\ \E large \in BOOLEAN : Refusal(opened, loaded, large) # ""
    /\ Goto(t, "load")
    /\ UNCHANGED <<dbvars, service, writer, active, seen, read, asked, answer, faults>>

\* The read fails: nothing has changed, the index keeps its old stamp.
ReadFails(t) ==
    /\ pc[t] = "delta"
    /\ IF Unstamped THEN Unlock /\ Respond(t, "unavailable") /\ UNCHANGED faults
                    ELSE Fail(t)
    /\ UNCHANGED <<dbvars, service, seen, read, asked>>

ApplyRefused(t) ==
    /\ pc[t] = "apply"
    /\ NeedsFullReload(index, delta.changes)
    /\ Goto(t, "load")
    /\ delta' = NoDelta
    /\ UNCHANGED <<dbvars, service, writer, active, seen, opened, asked, answer, faults>>

\* The stamp moves only after every change is in.
Apply(t) ==
    /\ pc[t] = "apply"
    /\ ~NeedsFullReload(index, delta.changes)
    /\ index' = Applied(index, delta.changes)
    /\ delta' = NoDelta
    /\ IF Requested = "auto" /\ select_backend(index'.len) = "sqlite"
       THEN Goto(t, "load") /\ UNCHANGED <<loaded, writer>>
       ELSE loaded' = delta.target /\ Unlock /\ Goto(t, "search")
    /\ UNCHANGED <<dbvars, backend, active, seen, opened, asked, answer, faults>>

\* Some changes are in, and then one fails: the index is dropped.
ApplyFails(t) ==
    /\ pc[t] = "apply"
    /\ ~NeedsFullReload(index, delta.changes)
    /\ delta.changes # NoDelta.changes
    /\ backend' = "unavailable"
    /\ index' = EmptyIndex
    /\ loaded' = NoStamp
    /\ delta' = NoDelta
    /\ Fail(t)
    /\ UNCHANGED <<dbvars, seen, opened, asked>>

-----------------------------------------------------------------------------
(* full_reload.                                                            *)

\* The old index is dropped first; then load_backend opens the database, and
\* sees whether it has to install the journal.
Load(t) ==
    /\ pc[t] = "load"
    /\ backend' = "unavailable"
    /\ index' = EmptyIndex
    /\ loaded' = NoStamp
    /\ opened' = ident
    /\ Goto(t, IF db.schema = "journal" THEN "fill" ELSE "migrate")
    /\ UNCHANGED <<dbvars, writer, active, seen, delta, asked, answer, faults>>

\* open_existing migrates whatever is at the path now.
LoadMigrate(t) ==
    /\ pc[t] = "migrate"
    /\ IF db.schema = "journal" THEN UNCHANGED dbvars ELSE Migrate
    /\ Goto(t, "reopen")
    /\ UNCHANGED <<service, writer, active, seen, read, asked, answer, faults>>

LoadReopen(t) ==
    /\ pc[t] = "reopen"
    /\ opened' = ident
    /\ Goto(t, "fill")
    /\ UNCHANGED <<dbvars, service, writer, active, seen, delta, asked, answer, faults>>

\* One read snapshot: the stamp, the choice of the backend and the rows.
Fill(t) ==
    /\ pc[t] = "fill"
    /\ ~Unstamped
    /\ backend' = select_backend(Cardinality(LiveIds(dbs[opened].files)))
    /\ index' = IF backend' = "packed" THEN load(dbs[opened].files) ELSE EmptyIndex
    /\ loaded' = StampOf(opened)
    /\ Unlock
    /\ IF t \in Searches THEN Goto(t, "search") /\ UNCHANGED <<active, answer>>
                         ELSE Respond(t, "reloaded")
    /\ UNCHANGED <<dbvars, seen, read, asked, faults>>

LoadFails(t) ==
    /\ pc[t] \in {"migrate", "reopen", "fill"}
    /\ IF pc[t] = "fill" /\ Unstamped
       THEN Unlock /\ Respond(t, "unavailable") /\ UNCHANGED faults
       ELSE Fail(t)
    /\ UNCHANGED <<dbvars, service, seen, read, asked>>

-----------------------------------------------------------------------------
\* The content a search sees, and the stamp of that content.  The sqlite
\* backend reads the file it has open as it is now.
View == IF backend = "packed" THEN Contents(index) ELSE dbs[loaded.file].files
ViewStamp == IF backend = "packed" THEN loaded
             ELSE [file |-> loaded.file, revision |-> dbs[loaded.file].revision]

Search(t) ==
    /\ pc[t] = "search"
    /\ writer = NoThread
    /\ Respond(t, IF backend = "unavailable" THEN "unavailable" ELSE "results")
    /\ UNCHANGED <<dbvars, service, writer, seen, read, asked, faults>>

\* A slip: a loaded index is reported as fresh.
Status_ready(t) ==
    /\ pc[t] = "status"
    /\ writer = NoThread
    /\ Respond(t, IF backend = "unavailable" THEN "stale" ELSE "fresh")
    /\ UNCHANGED <<dbvars, service, writer, seen, read, asked, faults>>

\* status_json under the read lock: ready, and loaded at the observed stamp.  An
\* error of the observer counts as stale.  Nothing is reloaded.
Status(t) ==
    /\ pc[t] = "status"
    /\ writer = NoThread
    /\ \/ Respond(t, IF Stale THEN "stale" ELSE "fresh") /\ UNCHANGED faults
       \/ Fault /\ Respond(t, "stale")
    /\ UNCHANGED <<dbvars, service, writer, seen, read, asked>>

Step(t) ==
    \/ Begin(t) \/ SlotLoad(t) \/ SlotExchange(t)
    \/ Check(t) \/ Lock(t) \/ Recheck(t) \/ Observe(t)
    \/ OpenReadOnly(t) \/ ReadJournal(t) \/ ReadSnapshot(t) \/ ReadRefused(t) \/ ReadFails(t)
    \/ ApplyRefused(t) \/ Apply(t) \/ ApplyFails(t)
    \/ Load(t) \/ LoadMigrate(t) \/ LoadReopen(t) \/ Fill(t) \/ LoadFails(t)
    \/ Search(t) \/ Status(t)

Database == DbNext /\ UNCHANGED svars

Next == Database \/ \E t \in Threads : Step(t)

\* ServiceState::load migrates the file and loads it; or the load fails, and then an
\* older file may have been installed since.
Init ==
    /\ DbInit
    /\ \/ /\ db.schema = "journal"
          /\ backend = select_backend(Cardinality(LiveIds(db.files)))
          /\ loaded = Stamp
          /\ index = IF backend = "packed" THEN load(db.files) ELSE EmptyIndex
       \/ backend = "unavailable" /\ loaded = NoStamp /\ index = EmptyIndex
    /\ writer = NoThread
    /\ active = 0
    /\ pc = [t \in Threads |-> IF t \in Statuses THEN "status" ELSE "start"]
    /\ seen = [t \in Threads |-> 0]
    /\ opened = 1
    /\ delta = NoDelta
    /\ asked = [t \in Threads |-> NoStamp]
    /\ answer = [t \in Threads |-> "none"]
    /\ faults = 0

\* Every request thread keeps running.
Spec == Init /\ [][Next]_vars /\ \A t \in Threads : WF_vars(Step(t))

-----------------------------------------------------------------------------
Labels == {"start", "slot", "exchange", "check", "refresh", "reload", "recheck", "observe",
           "open", "delta", "apply", "load", "migrate", "reopen", "fill", "search", "status",
           "done"}

Locked == {"recheck", "observe", "open", "delta", "apply", "load", "migrate", "reopen", "fill"}

Holding == {t \in Searches : pc[t] \notin {"start", "slot", "exchange", "done"}}

\* The lock is held exactly by the thread inside its section, an index that
\* is ready has a stamp of a database file that existed, and its counters are
\* what they count.
ServiceOK ==
    /\ pc \in [Threads -> Labels]
    /\ \A t \in Threads : pc[t] \in Locked <=> writer = t
    /\ backend # "unavailable" => loaded.file \in 1 .. ident
    /\ SlotsSorted(index)
    /\ CountersExact(index)

\* The count of active searches is exact and within its limit, whatever the
\* order of the loads, exchanges and releases.
SlotsExact == active = Cardinality(Holding) /\ active <= MaxSearches

\* The packed index is the files table as it was at the loaded stamp, after
\* any number of deltas, comparisons, failures and reloads; only inside the
\* write lock may it be on its way to the sqlite backend.
IndexIsSnapshot ==
    backend = "packed" /\ writer = NoThread
        => Contents(index) = history[loaded.file][loaded.revision]

\* No answer is older than its request: results come from a database file and
\* a revision that are at least those at the start of the request.
AnswersNotOlder ==
    [][\A t \in Searches :
          answer'[t] = "results" /\ answer[t] = "none" =>
              \/ ViewStamp.file > asked[t].file
              \/ /\ ViewStamp.file = asked[t].file
                 /\ ViewStamp.revision >= asked[t].revision]_vars

\* A status that says "ok" is true when it is given: the index that searches
\* would use holds the rows of the database at its path.
StatusTruthful ==
    [][\A t \in Statuses :
          answer'[t] = "fresh" /\ answer[t] = "none" => View = db.files]_vars

\* Every request is answered, and the lock and the slots are given back.
EveryRequestAnswered ==
    <>[](/\ \A t \in Threads : pc[t] = "done"
         /\ writer = NoThread
         /\ active = 0)
=============================================================================
