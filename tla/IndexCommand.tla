---------------------------- MODULE IndexCommand ----------------------------
(***************************************************************************)
(* Building the index: the app's startup decision (MacEveryApp.swift,      *)
(* bootstrapIfNeeded, refreshStatus, rebuildIndex), the index command it   *)
(* or the user runs (cli.rs cmd_index, scanner.rs index_paths, db.rs       *)
(* clear_index, set_roots, set_excludes) and the watcher it starts         *)
(* afterwards (watch.rs watch_index).                                      *)
(*                                                                         *)
(* Outside the scanning transaction every statement of the command commits *)
(* alone, so the app, the watcher and a crash can meet any state between   *)
(* two of them.  The watcher is its promise (module Watcher): it replays   *)
(* the events after the checkpoint it resumed from.  A file is present or  *)
(* absent; the command line is used while the app is closed.               *)
(***************************************************************************)
EXTENDS Naturals, FiniteSets

CONSTANTS
    Files, Roots, Patterns,
    RootOf, PatternOf,      \* the root a file is under, the pattern it matches
    Requests,               \* [roots, excl, rebuild] a command may be given
    DefaultRequest,         \* settings of a first launch, as a rebuild
    MaxChanges, MaxCrashes, MaxFailures, MaxClicks  \* bounds; clicks are the user's actions

IndexAssumption ==
    /\ RootOf \in [Files -> Roots] /\ PatternOf \in [Files -> Patterns]
    /\ Requests \subseteq [roots : SUBSET Roots \ {{}}, excl : SUBSET Patterns, rebuild : BOOLEAN]
    /\ DefaultRequest \in Requests /\ DefaultRequest.rebuild

VARIABLES
    fs,       \* files that exist
    events,   \* id of the last FSEvents event
    changed,  \* id of each file's last event
    db,       \* files, roots, excl, ckpt as committed
    lock,     \* the command holds the write transaction
    cmd,      \* the index command: pc, its request, and what it has still to insert
    app,      \* pc, indexReadGeneration, hasAttemptedInitialIndex, status known
    reads,    \* CLI reads of the app in flight
    watch,    \* the watcher: up, roots and excludes it runs with, last event applied
    bounds    \* changes, crashes, failures and clicks used

vars == <<fs, events, changed, db, lock, cmd, app, reads, watch, bounds>>

Idle == [pc |-> "none", req |-> DefaultRequest, left |-> {}, auto |-> FALSE]
NoRead == [pc |-> "none", gen |-> 0, snap |-> <<FALSE, {}>>, has |-> FALSE, roots |-> {},
           during |-> {}]
Down == [up |-> FALSE, roots |-> {}, excl |-> {}, pos |-> 0]
Closed == [pc |-> "off", gen |-> 0, attempted |-> FALSE, status |-> FALSE, indexing |-> FALSE]

Kinds == {"bootstrap", "status"}

Scope(roots, excl) == {f \in Files : RootOf[f] \in roots /\ PatternOf[f] \notin excl}

Init ==
    /\ fs \in SUBSET Files /\ events = 1 /\ changed = [f \in Files |-> 0]
    /\ db \in [files : {{}}, roots : {{}}, excl : {{}}, ckpt : {0}]
    /\ lock = FALSE /\ cmd = Idle /\ app = Closed
    /\ reads = [k \in Kinds |-> NoRead] /\ watch = Down
    /\ bounds = [changes |-> 0, crashes |-> 0, failures |-> 0, clicks |-> 0]

-----------------------------------------------------------------------------
(* The file system *)

Change(f) ==
    /\ bounds.changes < MaxChanges /\ bounds' = [bounds EXCEPT !.changes = @ + 1]
    /\ fs' = (IF f \in fs THEN fs \ {f} ELSE fs \cup {f})
    /\ events' = events + 1 /\ changed' = [changed EXCEPT ![f] = events + 1]
    /\ UNCHANGED <<db, lock, cmd, app, reads, watch>>

World == UNCHANGED <<fs, events, changed>>

-----------------------------------------------------------------------------
(* What a read of the app sees *)

Pair(d) == <<d.files # {}, d.roots>>

\* Reads in flight, and the contents they could have seen.
Observe(d) ==
    [k \in Kinds |-> IF reads[k].pc \in {"first", "second"}
                       THEN [reads[k] EXCEPT !.during = @ \cup {Pair(d)}] ELSE reads[k]]

StartRead(rs, k, gen) ==
    [rs EXCEPT ![k] = [NoRead EXCEPT !.pc = "first", !.gen = gen]]

\* bootstrap_status pins one snapshot; stats reads each table as it is by then.
RootsView(k) == IF k = "bootstrap" THEN reads[k].snap[2] ELSE db.roots

ReadFirst(k) ==
    /\ reads[k].pc = "first"
    /\ reads' = [reads EXCEPT ![k] = [reads[k] EXCEPT !.pc = "second", !.snap = Pair(db),
                                                      !.has = Pair(db)[1],
                                                      !.during = @ \cup {Pair(db)}]]
    /\ World /\ UNCHANGED <<db, lock, cmd, app, watch, bounds>>

ReadSecond(k) ==
    /\ reads[k].pc = "second"
    /\ reads' = [reads EXCEPT ![k] = [@ EXCEPT !.pc = "reply", !.roots = RootsView(k)]]
    /\ World /\ UNCHANGED <<db, lock, cmd, app, watch, bounds>>

-----------------------------------------------------------------------------
(* index_paths *)

StartCommand(req, auto) ==
    cmd' = [pc |-> IF req.rebuild THEN "clear_files" ELSE "del_roots", req |-> req,
            left |-> {}, auto |-> auto]

\* One autocommitted statement: d is what it commits.
Statement(d) ==
    /\ db' = d /\ reads' = Observe(d)
    /\ World /\ UNCHANGED <<lock, app, watch, bounds>>

\* clear_index: three statements, three commits.
Clear ==
    /\ ~lock
    /\ \/ cmd.pc = "clear_files" /\ Statement([db EXCEPT !.files = {}])
          /\ cmd' = [cmd EXCEPT !.pc = "clear_roots"]
       \/ cmd.pc = "clear_roots" /\ Statement([db EXCEPT !.roots = {}])
          /\ cmd' = [cmd EXCEPT !.pc = "clear_excl"]
       \/ cmd.pc = "clear_excl" /\ Statement([db EXCEPT !.excl = {}])
          /\ cmd' = [cmd EXCEPT !.pc = "del_roots"]

\* set_roots and set_excludes: delete all, then insert one by one.
Configure ==
    /\ ~lock
    /\ \/ cmd.pc = "del_roots" /\ Statement([db EXCEPT !.roots = {}])
          /\ cmd' = [cmd EXCEPT !.pc = "ins_roots", !.left = cmd.req.roots]
       \/ /\ cmd.pc = "ins_roots"
          /\ \E r \in cmd.left :
                /\ Statement([db EXCEPT !.roots = @ \cup {r}])
                /\ cmd' = [cmd EXCEPT !.left = @ \ {r},
                                      !.pc = IF cmd.left = {r} THEN "del_excl" ELSE @]
       \/ cmd.pc = "del_excl" /\ Statement([db EXCEPT !.excl = {}])
          /\ cmd' = [cmd EXCEPT !.pc = IF cmd.req.excl = {} THEN "begin" ELSE "ins_excl",
                                !.left = cmd.req.excl]
       \/ /\ cmd.pc = "ins_excl"
          /\ \E x \in cmd.left :
                /\ Statement([db EXCEPT !.excl = @ \cup {x}])
                /\ cmd' = [cmd EXCEPT !.left = @ \ {x},
                                      !.pc = IF cmd.left = {x} THEN "begin" ELSE @]

\* BEGIN IMMEDIATE.
BeginScan ==
    /\ cmd.pc = "begin" /\ ~lock /\ lock' = TRUE /\ cmd' = [cmd EXCEPT !.pc = "scan"]
    /\ World /\ UNCHANGED <<db, app, reads, watch, bounds>>

\* The scan of the roots, its stale cleanup unless it rebuilds, and COMMIT.  A
\* change during the walk has a later event than the checkpoint.
CommitScan ==
    /\ cmd.pc = "scan" /\ lock' = FALSE /\ cmd' = [cmd EXCEPT !.pc = "ok"]
    /\ LET seen  == fs \cap Scope(cmd.req.roots, cmd.req.excl)
           stale == IF cmd.req.rebuild THEN {} ELSE {f \in Files : RootOf[f] \in cmd.req.roots}
           d == [db EXCEPT !.files = (@ \ stale) \cup seen]
       IN  db' = d /\ reads' = Observe(d)
    /\ World /\ UNCHANGED <<app, watch, bounds>>

\* The scan fails: finish_write rolls back; the statements before it stand.
FailScan ==
    /\ cmd.pc = "scan" /\ bounds.failures < MaxFailures
    /\ bounds' = [bounds EXCEPT !.failures = @ + 1]
    /\ lock' = FALSE /\ cmd' = [cmd EXCEPT !.pc = "failed"]
    /\ World /\ UNCHANGED <<db, app, reads, watch>>

\* The user runs the command while the app is closed.
UserCommand ==
    /\ app.pc = "off" /\ cmd.pc = "none" /\ bounds.clicks < MaxClicks
    /\ bounds' = [bounds EXCEPT !.clicks = @ + 1]
    /\ \E r \in Requests : StartCommand(r, FALSE)
    /\ World /\ UNCHANGED <<db, lock, app, reads, watch>>

-----------------------------------------------------------------------------
(* The app *)

\* A slip: the stream starts from now although a checkpoint is stored.
SlipSince(ckpt) == events

\* resolve_since_when: the event id the stream resumes after.
Since(ckpt) == IF ckpt = 0 THEN events ELSE ckpt

\* Database::open, roots_and_excludes and the stored checkpoint, as watch_index
\* reads them; without a usable checkpoint it scans its roots and sets one.
StartWatcher(d) ==
    IF d.roots = {} \/ watch.up THEN watch' = watch /\ db' = d
    ELSE LET scope == Scope(d.roots, d.excl)
             under == {f \in Files : RootOf[f] \in d.roots} IN
         /\ watch' = [up |-> TRUE, roots |-> d.roots, excl |-> d.excl,
                      pos |-> Since(d.ckpt)]
         /\ db' = IF d.ckpt = 0
                    THEN [d EXCEPT !.files = (@ \ under) \cup (fs \cap scope), !.ckpt = events]
                    ELSE d

Launch ==
    /\ app.pc = "off" /\ cmd.pc = "none" /\ app' = [Closed EXCEPT !.pc = "on"]
    /\ reads' = StartRead([k \in Kinds |-> NoRead], "bootstrap", 0)
    /\ World /\ UNCHANGED <<db, lock, cmd, watch, bounds>>

\* rebuildIndex: reads begun before it are outdated, the watcher is stopped.
Rebuild(req, auto, attempted) ==
    /\ app' = [app EXCEPT !.gen = @ + 1, !.indexing = TRUE, !.attempted = attempted]
    /\ watch' = Down /\ StartCommand(req, auto)

ClickRebuild ==
    /\ app.pc = "on" /\ ~app.indexing /\ cmd.pc = "none" /\ bounds.clicks < MaxClicks
    /\ bounds' = [bounds EXCEPT !.clicks = @ + 1]
    /\ \E r \in {q \in Requests : q.rebuild} : Rebuild(r, FALSE, app.attempted)
    /\ World /\ UNCHANGED <<db, lock, reads>>

ClickRefresh ==
    /\ app.pc = "on" /\ reads["status"].pc = "none" /\ bounds.clicks < MaxClicks
    /\ bounds' = [bounds EXCEPT !.clicks = @ + 1]
    /\ reads' = StartRead(reads, "status", app.gen)
    /\ World /\ UNCHANGED <<db, lock, cmd, app, watch>>

\* A slip: a reply is used whatever happened since it was asked for.
SlipOutdated(k) == FALSE

\* guard generation == indexReadGeneration
Outdated(k) == reads[k].gen # app.gen

\* startInitialIndexIfNeeded
Empty(k) == ~reads[k].has /\ reads[k].roots = {} /\ ~app.attempted /\ ~app.indexing

\* A reply reaches the main queue.
Deliver(k) ==
    /\ reads[k].pc = "reply" /\ app.pc = "on"
    /\ LET rest == [reads EXCEPT ![k] = NoRead]
           ignored == \/ Outdated(k)
                      \/ app.indexing
                      \/ k = "bootstrap" /\ app.status
           known == app.status \/ (k = "status" /\ ~Outdated(k))
       IN  \/ /\ ignored /\ reads' = rest /\ app' = [app EXCEPT !.status = known]
              /\ UNCHANGED <<db, cmd, watch>>
           \/ /\ ~ignored /\ Empty(k) /\ reads' = rest
              /\ app' = [app EXCEPT !.gen = @ + 1, !.indexing = TRUE, !.attempted = TRUE,
                                    !.status = known]
              /\ watch' = Down /\ StartCommand(DefaultRequest, TRUE) /\ db' = db
           \/ /\ ~ignored /\ ~Empty(k) /\ cmd' = cmd /\ ~lock
              /\ IF reads[k].roots # {} THEN StartWatcher(db) ELSE UNCHANGED <<watch, db>>
              /\ app' = [app EXCEPT !.status = known]
              /\ reads' = IF k = "bootstrap" /\ ~reads[k].has /\ reads["status"].pc = "none"
                            THEN StartRead(rest, "status", app.gen) ELSE rest
    /\ World /\ UNCHANGED <<lock, bounds>>

\* The command's exit reaches the app, which asks for the status after a success.
CommandEnds ==
    /\ cmd.pc \in {"ok", "failed"} /\ cmd' = Idle
    /\ IF app.indexing
         THEN /\ app' = [app EXCEPT !.gen = @ + 1, !.indexing = FALSE]
              /\ reads' = IF cmd.pc = "ok" THEN StartRead(reads, "status", app.gen + 1) ELSE reads
         ELSE UNCHANGED <<app, reads>>
    /\ World /\ UNCHANGED <<db, lock, watch, bounds>>

\* Every process ends; an open transaction is rolled back.
Crash ==
    /\ bounds.crashes < MaxCrashes /\ bounds' = [bounds EXCEPT !.crashes = @ + 1]
    /\ app.pc = "on" \/ cmd.pc # "none"
    /\ cmd' = Idle /\ app' = Closed /\ watch' = Down /\ lock' = FALSE
    /\ reads' = [k \in Kinds |-> NoRead]
    /\ World /\ UNCHANGED db

-----------------------------------------------------------------------------
(* The watcher, as its own module promises *)

Replay ==
    /\ watch.up /\ watch.pos < events /\ ~lock
    /\ LET hit == {f \in Scope(watch.roots, watch.excl) : changed[f] > watch.pos}
           d == [db EXCEPT !.files = (@ \ hit) \cup (fs \cap hit), !.ckpt = events]
       IN  db' = d /\ reads' = Observe(d)
    /\ watch' = [watch EXCEPT !.pos = events]
    /\ World /\ UNCHANGED <<lock, cmd, app, bounds>>

Command == Clear \/ Configure \/ BeginScan \/ CommitScan \/ CommandEnds
Reply == \E k \in Kinds : ReadFirst(k) \/ ReadSecond(k) \/ Deliver(k)

Next ==
    \/ \E f \in Files : Change(f)
    \/ Command \/ FailScan \/ UserCommand \/ Reply
    \/ Launch \/ ClickRebuild \/ ClickRefresh \/ Crash \/ Replay

\* The app is opened again, its replies arrive, a running command goes on and
\* the watcher applies what FSEvents hands it.
Spec ==
    /\ Init /\ [][Next]_vars
    /\ WF_vars(Launch) /\ WF_vars(Reply) /\ WF_vars(Command) /\ WF_vars(Replay)

-----------------------------------------------------------------------------
\* The app rebuilds on its own accord only an index that has neither records nor
\* roots, not one whose contents arrived after the reply it acts on was read.
AutoRebuildOnlyWhenEmpty ==
    cmd.auto /\ cmd.pc = "clear_files" => db.files = {} /\ db.roots = {}

\* The bootstrap reply (has_records and the roots together) is one the database
\* really held while the command ran, although a rebuild commits each statement
\* of its own in between.
ReplyWhole ==
    reads["bootstrap"].pc = "reply" =>
        <<reads["bootstrap"].has, reads["bootstrap"].roots>> \in reads["bootstrap"].during

\* Both.
RebuildJustified == AutoRebuildOnlyWhenEmpty /\ ReplyWhole

InStep ==
    db.roots # {} => db.files \cap Scope(db.roots, db.excl) = fs \cap Scope(db.roots, db.excl)

\* "If a file is not indexed yet, rebuild or wait for the FSEvents watcher to
\* refresh it" (README.md:40): once changes stop, the configured part of the file
\* system and the index agree for good.
Refreshed == <>[]InStep
=============================================================================
