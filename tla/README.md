# MacEvery: TLA+ models, checks and proofs

MacEvery is a file name index for macOS. `macevery index` walks the configured
roots into an SQLite table; `macevery watch` keeps that table current from
FSEvents; `macevery serve` answers searches from a packed copy of the table in
memory, which it refreshes from a journal of changes; a SwiftUI application
starts and supervises the two processes. This directory models the parts of
the system whose correctness depends on order, failure and concurrency.

## 1. Inventory

| Component | State | Operations | Interacts with |
|---|---|---|---|
| FSEvents callback and inbox (`watch.rs` 242-736, 1926-2043) | inbox: paths, rescan flag, watermark, wrap flag | filter, scope, push, overflow | called by FSEvents; hands batches to the worker |
| Watch worker (`watch.rs` 275-549, 1362-1799) | `PendingWork`, retry deadline | take a batch, invalidate a wrapped checkpoint, rescan roots, refresh paths, retain failures, bound the plan, clean up, store the checkpoint | scanner, database |
| Watch boot (`watch.rs` 1138-1355, 1966-1986) | none of its own | choose replay or full scan, start the stream | FSEvents, scanner, database |
| Diagnostics (`watch.rs` 738-1085) | two rotating files, a rate window, counters | record, append, rotate | other watch processes, by the files |
| Scanner (`scanner.rs`) | none of its own | `index_paths`, `refresh_path`, `refresh_roots`, exact or by generation | file system, database |
| Database (`db.rs`, `sqlite.rs`) | `files`, `meta`, `file_changes` | upsert, scoped deletes, journal and its pruning, change query, compact copy | everything |
| Search service (`server.rs`) | the loaded index, its stamp, slots, active connections | accept, take a slot, check the stamp, reload, apply a delta, search | database, packed index |
| Packed index (`compact_index.rs`) | chunks of packed rows, escapes, prefixes, tombstones | build, find, delete, revive, append, snapshot diff, search | search service |
| Search ranking (`search.rs`, `db.rs` 860-1140) | bounded heap of hits, passes over the table | match, score, offer, compare paths | packed index, database |
| Query language (`model.rs`) | none | tokenize, recognise filters, normalise | ranking, command line, service |
| SQLite binding (`sqlite.rs`) | connections, statements, bound buffers | open, prepare, bind, step, reset, drop | database |
| Memory accounting (`serve_memory.rs`) | counters, a queue of records, a timer thread | publish, coalesce, flush | search service, its log file |
| Command line (`cli.rs`, `main.rs`, `config.rs`) | none | index, status, bootstrap, optimize, search, open, reveal | all |
| Process lifetime (`process_lifetime.rs`) | none | end with the parent | GUI |
| GUI (`macos/MacEveryApp.swift`) | generations of its requests, processes | decide at startup, rebuild, refresh status, supervise, present | command line, serve, watch |
| Benchmarks and tools (`bench.rs`, `tools/`), `macos.rs` | none | measure; open a file | |

What is hard in it, and what makes each part correct:

* **Watcher.** A scan reads files while they change and while their events are
  delivered; scans fail in part; the process ends anywhere; the id counter
  wraps; the inbox and the plan overflow. Correct means: a row that differs
  from the file system is always owed a refresh by something that still exists,
  in the running process (`NoLostChange`, and `FilesKept` for the files that are
  there) and, through the stored checkpoint, in the next one (`CrashSafe`); the checkpoint only advances; work left over
  always has a deadline; and in the end the index is the file system.
* **Database journal.** A reader asks for the changes since a revision while
  writers commit and the journal is pruned: the answer must be all of them or
  a refusal.
* **Search service.** Requests run on threads; each may find the index stale
  and refresh it; a refresh can fail half way; the number of searches and of
  connections is bounded.
* **Packed index.** Deletions leave tombstones, a row that comes back revives
  one, metadata outside the narrow ranges lives in escape tables with free
  lists, prefixes are interned: after any sequence of deltas the searchable
  rows must be those of the table.

* **Search ranking.** Hand-written substring search with a work budget, a glob
  walk, several passes over SQLite that must add up to one answer, bounded heaps
  that drop rows early, and a second implementation over packed rows: all of
  them have to return what scoring every row and sorting would.
* **Building and copying.** `index` commits its settings and an empty table
  before it scans; `optimize` copies a database that is written, replaced and
  read meanwhile; an update migrates a database that three processes open at
  once.
* **Connections.** Headers arrive in pieces, late or never; slots must come back
  however a handler ends.
* **Diagnostics.** Several processes append to the same files without waiting for
  each other; rates are limited; what is missing has to be counted.

## 2. Plan

Done:

1. `Scanner`, and `Watcher` on it: the core.
2. `WatcherProofs`: type correctness and scoping of the plan.
3. `ContentJournal`: revision, journal, pruning, migration,
   `file_changes_since`: a reader gets every change or a refusal.
4. `PackedIndex` on `ContentJournal`, and `SearchService` on both: threads,
   slots, stamps, incremental and full reload.
5. `MetadataBlock`: the numbers of packed rows, narrow codes, escapes and their
   free list.

6. `AbstractSearch`, what the service promises, and `SearchRefinement`, that
   `SearchService` implements it.
7. `PrefixPool`, and `RowText` on it: the texts of packed rows.
8. `Text`, `TextFind`, `PathOrder`, `Ranking`, and `SqlSearch` and
   `SqlCandidates` on them: matching, scoring, the bounded heaps, the SQL.
9. `IndexCommand` (building the index from the app and the command line),
   `CompactCopy`, `StaleSweep`, `SchemaMigration`, `SqlStatement`: the rest of the
   database's life.
10. `HttpService`, `HttpText`, `MemoryAudit`: the rest of the service.
11. `StreamSetup`, `Exclusions`, `TriggerLog`, `LogFile`: the rest of the watcher.
12. `QueryText`: the query language.

13. Proofs of the parts that build on each other: `WatcherProofs` and
    `RecoveryProofs` of the watcher and its checkpoint; `PackedProofs` of the
    journal and the packed index, and `ServiceProofs` on it, of the service and
    its refinement of `AbstractSearch` (section 5).
14. Proofs of the components that stand alone: `ConnectionProofs` of the
    connections, `MigrationProofs` of opening and migrating, `StoreProofs` of the
    prepared statements, the copy, the decision to rebuild, the upstream exclusions
    and the sweep of unseen rows, `ProcessProofs` of the stream's setup, the memory
    audit, the log files and the diagnostics; the last two also prove the suites'
    own properties, of the components side by side.

Not planned further; section 5 says what is only model-checked.

## 3. The modules

**`Scanner`** models namespaces first. A path is a model value and `Sub[p]` the
set of paths below it; the ancestors of a root and its aliases are paths as well,
because FSEvents reports at them. `subtree_targets` and `fold_refresh_paths`
are the code's. Exclusion is a set closed downwards, which is what
`ExcludeMatcher` computes by looking for its patterns anywhere in a path
(`MatcherClosed` of `Exclusions`, which is proved in `StoreProofs`).

It then models one scanner transaction on the `files` table. A file is
its kind and version, a row that value and its `indexed_at` generation.
`Walk` is what `scan_path_inner` visits, `PartialWalk` what it may visit and
hand back when it meets errors; `Upsert` is `FileUpsert` (an exact scan leaves
an unchanged row's generation alone, a legacy scan stamps every row);
`CompleteScan` and `LeafScan` add the deletions of `refresh_path` and
`refresh_roots`.

**`Watcher`** composes them with the system, the stream, the inbox, the worker
and the checkpoint.

| Variable | Code |
|---|---|
| `fs`, `log`, `wrap` | external: files, the numbered changes, the wrap of the counter |
| `delivered` | external: how far the stream has reported |
| `inbox` | `EventInbox` (its `PendingWork` and `event_count > 0`) |
| `pend` | the worker's `PendingWork` |
| `rows`, `ckpt` | tables `files` and `meta.watch_last_event_id` |
| `gen` | `next_index_generation` |
| `pc`, `due`, `legacy`, `queue`, `armed` | locals of `spawn_processor` and `process_pending_logged`; `armed` is `retry_at.is_some()` |
| `scan` | the transaction in progress: its targets, its kind, and for each path the values the path had since it began |

A scan takes two steps. It begins, and from then on every value a path takes is
added to `scan.met`; it ends, observing for each path any of the values met,
and commits. So a scan may see one directory before and another after the same
change, which is what a walk of a live file system does. Between the two, files
change, events are delivered, and the process may end, which rolls it back.

An event stands for the changes after the last delivered one up to some `k`:
one change, several coalesced at a common ancestor (also above a root), an
event at an alias, dropped events, or the wrap. Bounds by bytes, backoff
durations and the ids of `RootChanged` are left out, the diagnostics are a
module of their own; an error of the boot and a closed inbox end the process and
are `Crash`.

External assumptions: the system's log outlives the process and numbers
changes in order; the counter wraps at most once and stays below the old ids
(`MaxEvents < Base`); generations grow across processes, because they are
wall clock nanoseconds. `WatcherAssumption` also says of the aliases
(the other spelling of a root's files, `/private/tmp/x` for `/tmp/x`) that none
lies above a root, where it would be an ordinary ancestor, and that no pattern
excludes the alias: a pattern on that spelling alone, `/private/tmp` with the root
`/tmp`, silences the events of files that the scanner does index, and nothing
below holds for it.

**`ContentJournal`** models the database as its readers see it.

| Variable | Code |
|---|---|
| `dbs[i].files` | table `files`: a path and one metadata value by row id |
| `dbs[i].revision`, `.floor` | `macevery_content_state.revision`, `.journal_floor` |
| `dbs[i].journal` | `macevery_file_changes`: the ids each entry names |
| `dbs[i].schema` | which of the two migrations the file has |
| `dbs[i].since`, `history` | observers: where the journal began, the rows of every revision |
| `ident` | the identity of the file at the database path |

Each statement is one step with its triggers: `record_change` stands for the
BEFORE triggers (the victim of OR REPLACE) and the AFTER triggers (revision and
entry), and ends in `prune`. `Upsert` and `Delete` are the program's own
statements; `InsertOrReplace` and `MoveOrReplace`, with any id, are those the
triggers are written to survive and the tests exercise. `Migrate` is
`Database::open` on an older schema, `Install` the replacement of the file, by a
compact copy or an older file. `Refusal` and `Changes` are `file_changes_since`;
`Refusal` keeps the order of its tests, as an IF chain: a CASE with guards that
overlap would leave the choice open in a proof. A file identity is never used twice and
stands for the `database_id` as well; nobody writes to a file that has been
replaced; the writers' transactions are one statement long, which gives readers
more states to meet, not fewer.

**`PackedIndex`** models `CompactIndex` as operators on a record: `slots` in id
order with tombstones, and the counters. `NeedsFullReload` is the plan of
`apply_changes`, which changes nothing; `Applied` the second loop. `find_id` is
the binary search. Its loops are recursive functions of the number of turns, so
that they can be proved about. The four strings of a row are one unit, its metadata and
extension one value, so the budget for dead strings counts rows; what they are
made of is in `MetadataBlock`, `RowText` and `PrefixPool`. The extension budgets
are left out.

**`MetadataBlock`** models one block of packed numbers: `block` is the enum,
narrow (bases, codes, escapes, free list) or wide, `stored` what was written.
`Write` is `MetadataBlock::write` with `prepare`, the release of escapes before
any is taken, and the change to wide when `narrow_fits` fails or the allocator
gives the escape table more than it asked for. Codes are numbers with the escape
bit on top; an allocation failure drops the index and is `ApplyFails` or
`LoadFails` of the service.

**`SearchService`** composes both with the request threads.

| Variable | Code |
|---|---|
| `backend`, `index`, `loaded` | `ServiceState.backend`, its `CompactIndex`, `loaded_stamp` |
| `writer` | the write lock of `RwLock<ServiceState>`; a reader's section is one step |
| `active` | `SearchSlots.active` |
| `pc`, `seen`, `opened`, `delta` | where each thread is, and its locals |
| `asked`, `answer` | observers: the stamp when the request began, what it got |

Every read of the database or of its path is a step of its own (`Check`,
`Recheck`, `Observe`, `OpenReadOnly`, the snapshot reads, `Load`,
`LoadMigrate`, `LoadReopen`, `Fill`), so writers, replacements and other threads
come between any two; one read transaction is one step. A limit of bytes or
time may be hit or not (`ReadRefused`). Failures are actions with a bound
(`MaxFaults`). `/status` requests are threads too (`Statuses`). A slot is given
back with the answer; connections, headers and authorisation are in
`HttpService`. Poisoned locks are not modelled.

**`AbstractSearch`** says what a client may rely on: a search is refused or gets
the rows as they all stood together at one moment between its arrival and its
answer, and it gets one of the two. **`SearchRefinement`** adds two history
variables to `SearchService`, the contents the file at the database path had
since each search began and the content its answer showed, and maps: `content`
to the rows of the file at the path, `state` to where the thread is. `Implements`
is the whole abstract specification, its fairness included; `ASafety` is it
without the fairness, the part that is proved.

**`PrefixPool`** is the hash table of shared parent paths with open addressing:
values, slots, growth, refusal. Hashes are any function, allocations exact or
larger. **`RowText`** packs a row's four texts into arenas: which text is written
and which is a part of another, the two slices that are not stored but derived,
the parent in the pool, the extension's id, and the count of dead bytes over
rewriting, deletion and revival. Budgets are `PackedIndex`'s.

**`Text`** holds what texts (sequences of bytes) have in common and the reference
definitions of substring and glob. **`TextFind`** is the search over bytes: the
filter that compares a word at a time, Horspool with its budget of comparisons,
the linear fallback when it is spent, and the glob walk with one return point.
**`PathOrder`** compares two paths that are stored as a prefix and a suffix.
**`Ranking`** is matching and scoring with the code's numbers, its upper bounds
and the reference result; **`SqlSearch`** runs the passes of `search()` over a
read transaction beside writers, and the packed scan; **`SqlCandidates`** is the
translation of terms and filters to LIKE. Texts have been lowered before.

**`QueryText`** is `SearchOptions::normalized_at`: `tokenize_query`,
`parse_inline_filter`, `parse_relative_time`, and `terms` on the joined rest. A
text is a sequence of marks and words.

**`IndexCommand`** composes the app's startup and rebuild (generations, replies,
processes), the index command statement by statement, and the watcher reduced to
its promise: it replays the events after the checkpoint. **`CompactCopy`** is
`optimize` with its guards against a source that changes, is replaced, an output
that appears, a staged file that is exchanged, and a power loss before the
directory is synced. **`StaleSweep`** is one scan's transaction over byte paths:
the bitmap of seen ids, the ranges for "below this root", the pages of the
cleanup. Rows are keyed by the text by which the walk came to a file: it starts at a
root as it was given and joins names to it (`Walk`), and only the bounds of a
cleanup trim it (`Ranges`). Several texts may lead to one file (`SameFile`). So a
root given as `/a/` writes `/a/` and `/a/x` and removes the row `/a`, with its id;
a root given as `//` writes `//a` and removes `/a`. `SweepExact` says this: a finished
refresh leaves the texts of its own walk. `UnchangedRowsKept`, from the comment at
`scanner.rs:21`, is about rows that keep their text. **`SchemaMigration`** is `Database::open` on old files by several
processes. **`SqlStatement`** is the binding: which buffers statements point to,
what an error of any step leaves behind.

**`HttpService`** has the acceptor, the handlers and the clients: a header is
read in any pieces up to its limits, then authorised, routed and answered, and
the two kinds of slots are given back. **`HttpText`** is `parse_query` with
percent decoding and the JSON strings. **`MemoryAudit`** is publishing and
coalescing under the audit's lock beside a flush that writes outside it; the
audit is taken as enabled.

**`StreamSetup`** is the life of the FSEvents stream's objects: creation failing
anywhere, guards dropped in reverse order, the worker beside it.
**`Exclusions`** is `ExcludeMatcher` and the choice of directories FSEvents is
told to keep quiet about, over a tree with a symbolic link and a missing path.
**`TriggerLog`** is the rate window, the slots kept for recovery and the evidence
of events merged over batches; **`LogFile`** the rotation and rewriting of the
files by several processes, a file being its length and the records written to it.

## 4. The runs

Twelve runs: three of the watcher, two of the service and the journal, four
suites, and three more that are expected to fail, as is one of the watcher's. A **suite** checks small
components that do not interact with each other in one run: its specification is
their sum, a variable `part` says which component a behaviour is of, each
component is an `INSTANCE` with its own constants, and the variables of the others
rest at 0. A property of a suite says `part = "p" => P!Property`; nothing of a
component is changed by it. The suites that proofs are about, `MCIndexStore` and
`MCProcesses`, declare the constants of those components and get their values in
the cfg. Two components are there twice to keep the bounds apart: a behaviour of
`IndexCommand` has either crashes and failed scans or changes of files, one of
`TriggerLog` either calls or events.

### Watcher

The watcher's runs use one root `R`, a directory `D` in it and a file `C` in `D`: the
smallest tree with a scope above, at and below a change.

* **watcher** has behaviours of two kinds, which `part` tells apart.
  "crash": two events (changes or a wrap), one fault and one crash at
  any point, at most two paths in the inbox and the plan. One fault is enough
  for a retry, a deferred cleanup and a failed checkpoint; two events for a
  second change that races the first one's scan and for the overflow. Here the view
  replaces generations by their order against the deferred cleanups, the only
  comparison the code makes; the safety properties do not read more.
  "live": one event, two faults and one crash, without that view, for `Recovers`,
  which is `Converges` of these behaviours: the second fault hits the retry of the
  first. Only they are fair.
* **watcher_scope**: adds a parent `T` of the root, an alias `A` and an excluded
  file `X`, a bound of one path, and a directory that becomes a file. No crash.
  It checks `FilesKept`, the part of `NoLostChange` about files that are there:
  with directories that become files the other part, about rows whose file is
  gone, does not hold of the code (see Findings), although it takes a third event
  to show it.
* **watcher_orphan** is expected to fail: see Findings. In `watcher` the
  directory `D` never becomes a file; with that case included, `CrashSafe` fails
  exactly as `watcher_orphan` shows.

### Service and journal

* **service_refresh** has behaviours of the writers alone, `part` = "journal", and of
  the service beside them. The writers: two paths, two metadata values, two ids, four
  revisions, interval 2 and retention 1, from every table and every schema. Two
  prunings happen, ids are reused and replaced, the journal may be installed late
  and reaches one entry below its bound between prunings. A file that takes the place
  of another begins as one of these does, so one file is enough (`Install` is in the
  next run).
  The service: two searches on two slots and a status request, the same paths and
  ids with one metadata value, two revisions, one fault, a journal that is pruned at
  the second revision, budgets of one dead row and two dead strings, and `auto` with
  a limit of one packed record: deltas, snapshot comparisons, refusals of the plan,
  full loads and changes of the backend all occur, before and after each other; after
  a failed start the file may have an older schema, which a load migrates. Which value
  the one metadata is does not matter; it is `part`, so that the values stay
  interchangeable. The view `Reduced` drops the locals of threads that will not read
  them again, database files that are neither at the path, nor loaded, nor opened,
  and the history of revisions that no index holds and no copy brings back. No action
  and no property reads what it drops.
* **refinement**: one search and one forced reload, two database files with two
  revisions each, one row, one fault, without a view. Two files are enough for a
  replacement between any two steps of one refresh, also by an older file with an
  equal revision or an older schema; the run starts on an empty table of the current
  one. It checks `Implements`, the abstract
  specification with its liveness, and `EveryRequestAnswered`.

### Suites

* **packed_rows**. A metadata block of two fields and two rows with room for five,
  so at most three escapes, and four values of which a span holds up to three: values
  fall below or above a span and at the smallest number, and the free list grows to
  three. A prefix pool with four texts under every hash (one of them at either
  end of the table), whose ids run out at the
  fourth and whose limit is met at the third. Two slots of rows over seven rows with
  NULL and partly lowered texts, a trailing slash, a lower case of another length,
  and a pool that runs out.
* **texts**. Every text of up to eight bytes and pattern of up to five with three lanes to a
  word (globs: four and four), over two bytes that differ in the lowest bit, which
  is what makes the word filter mark false lanes. Every pair of split paths over
  five prefixes and suffixes of up to three bytes. Every choice of three rows out of nine
  against seventeen queries with a limit of two, and four databases with
  two commits between the passes. Every text of up to three bytes with the
  characters that LIKE treats specially, as term and filter, against every
  short path. Every query of four marks, filters with values of three symbols, and
  pairs of tokens in every way to write them. Query strings of two pairs with the
  separators in keys and values.
* **index_store**. The command and the app over three files and two roots: once with
  a crash and a failed scan, once with two changes of files (then `Refreshed` must
  hold). A copy beside two commits, which can change a value and change it
  back, and three interferences with its files. Two scans over `/a`, `/a.`, `/a0` and an entry
  of `/a`, by these texts and by those that the roots `/a/` and `//` lead to, from
  tables with rows under either, with two ids to a page of the bitmap and room for
  two pages. Three upserts over one set of statements, with a failing probe, write and
  lookup of the id. Three processes that open an old
  database of two ids, with three writes. Exclusions over paths of depth three with
  every symbolic link, with `Library` there or missing.
* **processes**. Two clients that send whole requests in any pieces, with the token
  in the header, in the body or in a second header; three clients on two request
  slots and one search slot. An audit whose queue holds two records, with two
  captures a second, two callers of `start` and six records. Two
  processes that write six records to files of three bytes. Five calls of the
  trigger log in windows of three records, and four events over merged batches. A
  stream with two roots and up to three exclusions, failing at any step.

Each suite states one property per component, made of the ones its module
defines and explains:

| Run | Property | Parts |
|---|---|---|
| packed_rows | `BlockExact` | `ValuesExact`, `EscapesOwned` of `MetadataBlock` |
| | `PoolSound` | `PoolFinds`, `ProbesEnd`, `PoolBounded` of `PrefixPool`, alone and under `RowText` |
| | `RowsExact` | `RowsReadBack`, `DeadBytesExact`, `PreflightSuffices` of `RowText` |
| texts | `MatchingExact` | `TypeOK` (no index outside the text), `FindExact`, `WorkBounded`, `GlobExact` of `TextFind` |
| | `OrderExact` | of `PathOrder` |
| | `SearchExact` | `SearchExact`, `NoVanishedRow` of `SqlSearch` |
| | `CandidatesExact` | `CandidatesCover`, `CandidatesExact` of `SqlCandidates` |
| | `QueryKept` | `QuotingKept`, `NothingIgnored`, `TimesPast` of `QueryText`; `QueryReadsBack`, `JsonReadsBack` of `HttpText` |
| index_store | `RebuildJustified` | `AutoRebuildOnlyWhenEmpty`, `ReplyWhole` of `IndexCommand` |
| | `Refreshed` | of `IndexCommand`, without crash and failure |
| | `CopySafe` | `SuccessIsQuiet`, `PublishedIsVerified`, `NoForeignCopy`, `NoClobber` of `CompactCopy` |
| | `SweepExact` | `SweepExact`, `UnchangedRowsKept` of `StaleSweep` |
| | `StatementSafe` | `BindingsOwned`, `NoOpenCursor`, `OnlyLookupKeepsError`, `NothingLeaks` of `SqlStatement` |
| | `MigrationSafe` | `Lowered`, `OpenMeansMigrated` and the steps of `Counts` of `SchemaMigration` |
| | `ExclusionsExact` | `UpstreamExact`, `MatcherClosed` of `Exclusions` |
| processes | `ConnectionsSound` | `HandlersBounded`, `ReadingBounded`, `NothingWithoutToken`, `TrafficBalanced` of `HttpService` |
| | `EveryConnectionEnds` | of `HttpService` |
| | `AuditSound` | `AllAccounted`, `LinesInOrder`, `OutcomeCaptured`, `LatestTruthful` of `MemoryAudit` |
| | `LogsKept` | `FilesBounded`, `NewestKept` of `LogFile` |
| | `TriggersTold` | `GapsCounted`, `RecoveryHeard`, `EvidenceExact` of `TriggerLog` |
| | `StreamSafe` | `NoDangling`, `NothingLeft` of `StreamSetup` |

### Runs that are expected to fail

* **index_interrupted**: the suite's `Refreshed` with a crash of the command.
* **upsert_retry**: `RetryBinds` of `SqlStatement`, with an error of any step.
* **glob_star_name**: `GlobIsWildcard` of `TextFind`, over texts and patterns of up to
  three bytes, the byte `*` included.

Section 6 has what they and `watcher_orphan` show.

### Deadlock

Deadlock is checked where the search of a text must reach its end (`packed_rows`,
`texts`); elsewhere the system may stop: with every bound used up the idle
watcher sleeps, the database has no more revisions and every request has its
answer.

### Fairness

FSEvents keeps delivering what it has numbered while a stream is open
(`Deliver`); the supervising application starts the process again and its boot
runs (`Start`, `Boot`); the worker thread runs (`Work`). The system, the faults
and the crashes have no fairness and are bounded, so `Recovers` says what
happens once they stop. No fairness is assumed of any one branch: a scan that
could fall back or fail may always do so while faults remain. That the worker's
own `Database::open` fails at its start (`watch.rs:1372`) is left out: its thread
ends there and the process goes on without it, so nothing would converge before
the next start. Of the service,
each request thread runs (`WF` of `Step(t)`); the read-write lock may favour any
thread, which is harmless because requests are finitely many. In `HttpService`
each connection's thread runs; nothing is assumed of clients, whose silence ends
in a read timeout, which is a step of the handler. In `IndexCommand` the app's
start, its replies, the command and the watcher's replay go on; changes, clicks,
crashes and failures need not happen.

## 5. What is proved

Eight modules hold theorems. Each result holds for every value of the constants:
every finite tree of paths with its roots, exclusions, aliases and kinds, every
number of threads, processes, connections, rows, revisions, files, faults and
crashes, and every limit. The assumptions are the ones the modules state about
their constants (`TreeAssumption`, `ExcludedAssumption`, `WatcherAssumption`,
`JournalAssumption`, `ServiceAssumption`, `MigrationAssumption`, `HttpAssumption`,
`StatementAssumption`, `CopyAssumption`, `IndexAssumption`, `SetupAssumption`,
`AuditAssumption`, `LogAssumption`, `TriggerAssumption`, `ExclusionsAssumption`,
`SweepAssumption`), which TLC evaluates in the runs. Every inductive invariant was
checked by TLC as well; the largest of these checks, of `ProcessInv` over the whole
run `processes`, had 2.4 million states, that of `StoreInv` over `index_store` 0.8
million.

Six assumptions say more than the sizes. `MigrationAssumption`: NULL is no path
and no text. `IndexAssumption`: a request names at least one root, as
`cmd_index` checks (`cli.rs:79`), and the app's own request is a rebuild
(`--rebuild`). `AuditAssumption`: a window has room for more than one capture, which
is what the constant's comment in the code asks of it. `TriggerAssumption`: some
records of a window are not reserved. `ExclusionsAssumption`: no pattern is empty,
which `ExcludeMatcher::new` sees to. `SweepAssumption`: the texts of paths are absolute,
the table starts with distinct ids, and `Zero` is the byte after `Slash`.

| Module | Theorem | States |
|---|---|---|
| `WatcherProofs` | `TypeCorrect` | `TypeOK` |
| | `ScopeNeverFails` | `NoScopeFailure` |
| | `RetryIsArmed` | `RetryArmed` |
| | `CheckpointIsMonotone` | `CheckpointAdvances` |
| `RecoveryProofs` | `NoFileIsLost` | `FilesKept` |
| | `NoChangeIsLost` | `NoLostChange`, given `StableKinds` |
| | `NoChangeIsLostByACrash` | `CrashSafe`, given `StableKinds` |
| | `NoFileIsLostByACrash` | the part of `CrashSafe` about files that are there |
| `PackedProofs` | `JournalTypeCorrect` | `DbTypeOK` |
| | `JournalIsComplete` | `JournalComplete` |
| | `JournalIsRetained` | `JournalRetained` |
| | `JournalStaysBounded` | `JournalBounded` |
| | `FindIdIsExact`, `LoadIsExact`, `DeltaIsExact` | what `find_id`, `load` and `apply_changes` compute |
| `ServiceProofs` | `ServiceIsSound` | `ServiceOK` |
| | `SlotsAreExact` | `SlotsExact` |
| | `IndexIsTheSnapshot` | `IndexIsSnapshot` |
| | `AnswersAreNotOlder` | `AnswersNotOlder` |
| | `StatusIsTruthful` | `StatusTruthful` |
| | `ServiceRefinesSearch` | `AbstractSearch!ASafety` |
| `MigrationProofs` | `Migrates` | `MigrationSafe` |
| `ConnectionProofs` | `Connects` | `ConnectionsSound` |
| `StoreProofs` | `Statements`, `StatementIsSafe` | `StatementSafe` |
| | `Copies`, `CopyIsSafe` | `CopySafe` |
| | `Rebuilds`, `RebuildsAreJustified` | `RebuildJustified` |
| | `Excludes`, `ExclusionsAreExact` | `ExclusionsExact` |
| | `Sweeps`, `SweepIsExact` | `SweepExact` |
| | `MigrationIsSafe` | `MigrationSafe` |
| `ProcessProofs` | `Streams`, `StreamIsSafe` | `StreamSafe` |
| | `Audits`, `AuditIsSound` | `AuditSound` |
| | `Logs`, `LogsAreKept` | `LogsKept` |
| | `Triggers`, `TriggersAreTold` | `TriggersTold` |
| | `ConnectionsAreSound` | `ConnectionsSound` |

Where there are two names, the first is about the component alone and the second
about the suite that the run checks, whose own property it states.

### The watcher

`TypeCorrect`. The clause that is not typing is `delivered \in 0 .. Len(log)`: a
process that starts from the stored checkpoint resumes at `Position(ckpt)`, and
that this is a position of the log is a fact about ids. The invariant is
strengthened by `EpochIds`: before the wrap the stored, the pending and the
received watermark are 0 or ids numbered from `Base`; `IdFlow` shows that ids
only move from the system to the inbox, the plan and the checkpoint.

`ScopeNeverFails`. Strengthened by `Scoped` (the inbox and the running scan stay
in the trees too) and `RootScan` (a boot or recovery scan is a scan of the roots,
so what it retains lies in the trees). The step proof has one lemma per group of
actions, each through `Frame`, which lists what a step must establish.

`RetryIsArmed`. Strengthened by `Quiet` (before the stream starts the process
holds no work) and `Turns` (what is left to do at each point where a turn ends).

`CheckpointIsMonotone`. `CheckpointInv` adds `Watermarks`: the stored id is not
after the plan's, nor that after the inbox's, all as positions of the log and
within what was delivered; and `NewEpoch`: once the wrap is delivered, an id of
the old epoch is left only in the plan, and only while the inbox holds the reset
that will replace it. Without `NewEpoch` the order of ids says nothing about the
order of events.

`NoFileIsLost` and the three others. `WatchInv` is `CheckpointInv`, `Turns` and
`RecoveryInv`. A change that is not yet in the index can be found in one of three
places, the `Views`: ahead of the worker (the stream or the inbox), after the
watermark of the plan, after the stored checkpoint. `RowsKept` says that a stale
row is covered in each view, in the first two possibly by a debt of the worker;
the third has to be without the debts, because a crash forgets them. `MetKept`
says the same of the values a running scan has met, so that any mixture of them
that it commits is covered. The deferred cleanups make the rest necessary: a
cleanup deletes by generation, so `DoomedKept` says that a row it would delete is
gone, or will be refreshed first; this holds because generations grow (`Gens`)
and because an exact scan, which leaves the generation of an unchanged row alone,
never runs below a deferred cleanup (`Batch`). `Parents` carries the condition on
kinds. The scans that commit are brought to one form (`Commits`), and one lemma
for each form of step (`Keeps`, `MarkKeeps`, `CommitKeeps`) carries the parts over.

`StableKinds`, no path is a directory at one time and a leaf at another, is a
condition on the file system and not on the program; it is needed, as the first
of the findings shows. What does not need it, the files that are there, is stated
without it (`FilesKept`, `FilesReplayed`).

### The journal

None of the properties is inductive; the invariant is `DbInv`: of every file,
`Covered` says that the journal has an entry exactly for the revisions after its
floor (`Entries`), that a row in which an older revision from the floor on
differs from now is named by an entry after that revision (`Named`), and that the
floor is where the journal began or at least the retention behind (`Reach`).
`PruneCovers` shows that the trigger's floor, the largest entry it removes, is
what keeps the first; `RecordCovers` that a statement which is `Honest` (rows
change only at the ids it names or replaces) extends the cover; one lemma per
statement shows that it is honest. `JournalStaysBounded` counts the entries
between the floor and the revision.

### The packed index and the service

`PackedProofs` is about loops. They are recursive functions of the number of
turns; `Recursion` shows that such a function exists and satisfies its equation,
and what a loop does is proved by refuting the least number of turns after which
it would be wrong, which needs no induction principle with an operator for a
parameter. `find_id` keeps the interval that holds the id; the turns of
`apply_changes` keep the rows before the turn patched, those after it untouched,
the slots sorted and the counters exact.

`ServiceInv` is `DbInv`, `Control` (the lock and the labels of the threads), `Slots`
(the count against the threads that hold a slot, and what a thread between its
load and its exchange has read), `Content` and `Age`. `Content` says of the index
that it is the snapshot of its stamp, and of each thread in the middle of a
refresh what the file it has opened and the delta it has read stand for; it rests
on `Forward`, that no step of the database takes back a file, a revision or the
rows of one. `Age` says how old what a thread has checked can be against its
request. The action properties follow from what a step may answer (`StepTells`).

`RefInv` adds what each waiting search will show (`SeenBy`): the content at the
path, what the index shows and what a refresh on its way will make it show are all
among the contents that were current since the search began. Then every step is
an arrival, an answer, a change of the content or a stutter of `AbstractSearch`.

### Migrations

`Migrates`. `Marked` orders the marks: a process is past a step only when the
step's mark is set, whoever set it, so an opened file has all of them. `Filling` is
about the late backfill: a row whose id was not given to another path holds NULL,
the full or the ASCII lower case of its own path; a batch that was read outside the
transaction names that path or nothing, and where it names nothing the row is
filled in already. Only with the last part does the mark say that nothing is left.
`StepCounts` is the action property: each statement that changes a row fires a
trigger that counts the difference, the late update included, because an opened
file has its triggers.

### Connections

`Connects`. `Counted` ties each counter to the set of connections it stands for: the
slots to `Holders`, the traffic counters to `Accepted` and `Counting`. `Moves` says
what a step of one connection does to the cardinality of such a set and is all
that the steps need of finite sets. That a slot is taken below the limit is a fact
about what the accepting thread loaded (`BelowLimit`) and the exchange, which fails
when the count has moved. `NothingWithoutToken` is inductive because a handler goes
on only with a header that is complete in what it has read; `Ends` and the lemmas on
the empty line show that what it takes for the header is the header of the message,
wherever reads were split.

### Statements, copies and the decision to rebuild

`Statements`. `Owned` says that a bound parameter has a buffer that its statement
keeps, and that a statement which is about to be bound keeps none; `Machines` and
`Opened` that a cursor or an error is left only where the next operation of the
upsert takes care of it, and an error of the id lookup, which nobody does. So
`OnlyLookupKeepsError` is what can be said of retries: an upsert is refused for an
earlier one's error only where the lookup of its id is about to be reset
(section 6).

`Copies`. The invariant follows the call through its steps. `HeldInv`: what the
source held from the first pin on has revisions from that pin's to the last, and a
revision has one content, so two equal pins leave room for no change. `ReadInv`:
what was compared is what the source held. `FilesInv` is about identities: the
opened file is the pinned one while it is in its place, and the output is it when
it has its identity. This needs a file that somebody puts in the place of the staged
one to be told from it for good, which device and inode number do as long as the
call keeps its file open. `WholeInv`: what reaches the output was synced.

`Rebuilds`. The app acts on a reply that was true when it was read. `ReadsInv` says
why it still is: a read that the app would use (`Current`) was begun in this process
of the app, after the last command; since then nothing has written the roots, as
the app runs a command or a watcher, never both, and the watcher only of an index
with roots (`Alone`). `WholeReads` carries what the second statement of a bootstrap
has seen.

### The exclusions and the sweep

`Excludes`. `PathsInv` says of each directory chosen so far that the matcher rejects
it, that it is its own canonical path and that no root is at or below it. A pattern
is a run of names anywhere in a path, so what occurs in a path occurs in every path
below it (`ExcludedBelow`); hence an event below a chosen directory is one that the
callback rejects.

`Sweeps`. Four facts about bytes carry it. `RangeIsBelow`: the interval from a root
with a slash up to the same text with the next byte holds exactly the paths below
the root. `TextInRange`: what a walk meets is in the range of its root, although the
range is that of the trimmed root (`TrimCuts`) and the walk's texts begin with the
root as it was given. `LessAsymmetric` and `RootFirst`: paths are ordered, and a root is before
all that is in its range. `PagesFirst`: a page that is shorter than `Batch` is the
last one. Of the table, `Sound` says that rows have ids of their own and
generations that have begun, and `Progress` what a refresh may have done so far.
`Walking` says that each file met has its row, with its id in the bitmap, and that
an id in the bitmap is that of a row that was met. So a row whose id is in the
bitmap stands for a file, whatever page finds it, and `Swept` needs to follow the
cursor only: what is in a range before it is gone or seen. Where the bitmap was
given up the scan runs again by generation, and `Renewed` follows the roots.
`FreshId` and `LaterGeneration` rest on the greatest element of a finite set, which
exists because the one that the fewest exceed is exceeded by none (`MaxIsGreatest`).

### The stream and the audit

`Streams`. `GuardsInv` says that the guards are those of the objects made so far, in
the order of their declaration; then one number, `Depth`, tells what is live
(`LiveInv`), where the function can be (`PlaceInv`), whether the exclusions exist
(`ExclusionInv`) and whether the inbox may be closed (`InboxInv`).

`Audits`. `OneTimer`: the first caller of `start` is the only one with a thread.
`CountInv` counts the records at each of the places where one can be; `OrderInv` says
that lines come before the records on the stack and those before the pending ones;
`NumberInv` whose number is the last while the thread writes without the lock;
`RefreshInv` that a refresh begun in a fresh window has used one capture of it.

### The log files and the diagnostics

`Logs`. `Locked` says that only the holder of the lock is past asking for it;
`Found` that what this writer has opened is still the file at the path, and that
its length is still what the writer saw, so the bound it compared with holds when
it writes. `NewestInv` follows the record written last through the rotation: it is
in the file at the path, or in the one rotated before it while the new file is
empty or not made; it needs `Bounded` to know that a file which is rotated holds
something.

`Triggers`. The calls so far are the history that the counters are compared with.
`Gaps` and `Shown` say of the counters what the property does; `Slots` that, until
an append fails, the slots taken in the window are its lines, and that those of
ordinary calls leave the reserve alone; `Windows` that no call is of a later
window, so a new one starts with no lines. The count of the signals in two
batches one after the other is the sum of theirs (`EventsJoin`), by a bijection
from the events of the second onto their places.

### The suites

A step of a suite is a step of the component that the behaviour is of, or leaves
its variables as they are: `StoreInv` and `ProcessInv` are, for each `part`, the
component's invariant, and start and go on as those do. `MigrationProofs` and
`ConnectionProofs` are used by `INSTANCE`, with the suites' constants, and the
lemmas `SameMigration`, `SameRequests` and `SameCrowd` show that the definitions
they are about are the suites'.

### Only model-checked

* Liveness, which is out of the prover's reach: `Recovers`,
  `EveryRequestAnswered`, `EveryConnectionEnds`, `Refreshed`, and the fairness in
  `Implements`.
* What compares an algorithm with a reference for every input up to a size, and
  would take an induction over the input: `MatchingExact`, `OrderExact`,
  `SearchExact`, `CandidatesExact` and `QueryKept` over texts; `PoolSound` over the
  probes of a table, `RowsExact` over the pieces of a row, `BlockExact` over the
  free list.

The bounds of their runs reach the boundary cases (section 4).

## 6. Findings

* **watcher_orphan** (code). `D` was a directory with rows below it and becomes
  a file. The boot scan is incomplete: it commits `D` as a file, defers the
  deletion of the old children and does not store a checkpoint over it. The
  process ends, and with it the deferred cleanup, which is only in memory. The
  event is replayed; `refresh_path` reads the row's previous kind, which is
  already `File`, so it does not delete the prefix; the batch is complete and
  the checkpoint passes the event. The rows of the old children stay until some
  other scan of the parent. The cause, a decision on the row's kind where a
  failed refresh has left the row behind the file system, needs no crash: `D`
  becomes a directory and its refresh fails, its child `C` is refreshed alone, so
  there is a row below a row that does not say directory; `D` becomes a file
  again, and the retry of `D` finds `previous_kind` = `File`, skips
  `delete_path_prefix` (`scanner.rs:113`) and is complete. TLC finds this as a
  violation of `NoLostChange` with three events, one fault and no crash; the
  attempt to prove `NoLostChange` for every tree is what led to it. The test
  `refresh_path_replacing_directory_with_file_removes_old_children`
  (`scanner.rs:727`) has the parent's row up to date.
* **index_interrupted** (code). A rebuild commits the empty table, then the roots,
  then the excludes, each alone, before the transaction that scans. A process that
  ends in between leaves an empty table with its roots and the old event
  checkpoint: the app sees roots and starts the watcher instead of an initial
  index, the watcher resumes from the checkpoint without a scan, and files that do
  not change stay out of the index.

* **upsert_retry** (code against a comment). `FileUpsert::upsert` consumes the error
  of a failed statement "so the first legal retry after caller rollback can bind
  normally" (`db.rs:229`). The probe and the write do; an error of the id lookup
  (`db.rs:237`) is returned by `?` before its statement is reset, and the next upsert
  on these statements fails in that reset, with the old error. Whatever fails, nothing
  else does this, and bindings, cursors and handles are sound (`StatementSafe`).
* **glob_star_name** (code against a document). `README.md:124` describes `*` in a
  term as a wildcard. `glob_match` compares the bytes of the pattern and of the text
  before it looks whether the pattern's is a star (`search.rs:988`), so a `*` in a
  name takes the star's place as a literal and there is no star to come back to: `*?`
  does not find the name `*`, nor `a*?` the name `a*`. A pattern with a single literal
  between its stars is answered by a shortcut of `PreparedGlob` and is not concerned:
  `*b` does find `*ab`. `GlobExact`, in the suite `texts`, is what holds of every text:
  an answer is never wrong, and none is missing where the text has no `*`.

Disagreements with a document or a comment that the models show but no run
records:

* `docs/architecture.md:42` says that must-scan events trigger a rescan of the
  roots; `action_for_flags` (`watch.rs:1957`) does so for dropped, wrapped and
  root-changed events only, and a `MustScanSubDirs` event refreshes the reported
  subtree (`add_scoped` of `Watcher`).
* `backfill_path_lower` (`db.rs:1730`) reads ids and paths outside the transaction
  in which it updates by id. A process that is open already may delete the row
  with the largest id and insert another path under it in between; the new row then
  gets the lower case of the old path until a scan rewrites it. `SchemaMigration`
  records such ids in `reassigned`, and `Lowered` excepts them.

## 7. Not modelled, and assumptions

* **Not modelled**: benchmarks and `tools/`, `macos.rs`, installers and the
  presentation part of the GUI (windows, menus, list selection), which keep no
  state the index depends on; wording, formatting, logging and statistics; the
  arithmetic of memory breakdowns, which nothing decides upon; row decoding in
  `sqlite.rs` beyond what the binding's buffers need; polling of the parent process
  (`process_lifetime.rs`), which ends the process and is `Crash` elsewhere.
* **Time**. `read_request` measures the total time with the wall clock; setting
  it back prolongs a request, which `HttpService` leaves out. Generations of scans
  are wall clock too, and there the model lets the clock go back (`StaleSweep`).
* **Texts** are bytes of ASCII, except `RowText`, where a lower case may have
  another length. `SqlCandidates` holds for absolute paths with a stored
  lower case and filters without a glob component; SQLite's LIKE and the in-memory
  match differ outside ASCII by design, and the code filters again. `QueryText`
  leaves out letter case and `--fuzzy`; a quoted plain term with spaces is split again
  by `terms`, which `QuotingKept` excepts. The GUI builds query strings with
  URLComponents, which leaves `+` alone; the service reads it as a space, so a
  `+` typed in the GUI is searched as a space (`HttpText` percent-codes it).
* **Locks** are never poisoned: a panic under the service's lock would end every
  later request with an error.
* The **memory audit** is taken as enabled; disabled, it has no state.
* **IndexCommand** has no scan warnings, which `Watcher` and `StaleSweep` have.
* `ExcludedAssumption` of `Scanner` (exclusion is closed downwards) is what
  `MatcherClosed` says of the real matcher, and `Excludes` proves.
