---------------------------- MODULE MCIndexStore ----------------------------
(* The life of the index in its database: built by the command and the app,   *)
(* refreshed by a scan, migrated, written through prepared statements, copied, *)
(* with part of the file system left out.  A behaviour is one of these.  What  *)
(* StoreProofs proves for every value is given its values in the cfg.          *)
EXTENDS Integers, Sequences

CONSTANTS
    Files, Roots, Patterns, RootOf, PatternOf, Requests, DefaultRequest,  \* IndexCommand
    MaxChanges, MaxCrashes, MaxFailures, MaxClicks,
    RowValues, ControlValues, MaxWrites, MaxInterference,                 \* CompactCopy
    Failing, MaxUpserts,                                                  \* SqlStatement
    Processes, Paths, AsciiPaths, MaxId, MaxUpdates, None,                \* SchemaMigration
    Names, MaxDepth, RootSets, Missing, Links, UserPatterns, Runtime,     \* Exclusions
    Relatives, DbDir, Limit,
    Universe, SweepRequests, Tables, Batch, PageBits, MaxPages, MaxScans, MaxClock  \* StaleSweep

VARIABLES
    part, bounds, pc,
    fs, events, changed, db, lock, cmd, app, reads, watch,
    source, path, target, output, staged, copy, held,
    disk, files, last, scan, old,
    handle, live, vm, bind, text, cur, rec, n,
    column, rows, backfilled, revised, journal, revision, batch, reassigned, writes,
    roots, excludes, missing, link, rest, selected

indexvars == <<fs, events, changed, db, lock, cmd, app, reads, watch>>
copyvars == <<source, path, target, output, staged, copy, held>>
sweepvars == <<disk, files, last, scan, old>>
stmtvars == <<handle, live, vm, bind, text, cur, rec, n>>
schemavars == <<column, rows, backfilled, revised, journal, revision, batch, reassigned, writes>>
pathvars == <<roots, excludes, missing, link, rest, selected>>

NoIndex ==
    /\ fs = 0 /\ events = 0 /\ changed = 0 /\ db = 0 /\ lock = 0 /\ cmd = 0 /\ app = 0
    /\ reads = 0 /\ watch = 0
NoCopy ==
    source = 0 /\ path = 0 /\ target = 0 /\ output = 0 /\ staged = 0 /\ copy = 0 /\ held = 0
NoSweep == disk = 0 /\ files = 0 /\ last = 0 /\ scan = 0 /\ old = 0
NoStmt ==
    handle = 0 /\ live = 0 /\ vm = 0 /\ bind = 0 /\ text = 0 /\ cur = 0 /\ rec = 0 /\ n = 0
NoSchema ==
    /\ column = 0 /\ rows = 0 /\ backfilled = 0 /\ revised = 0 /\ journal = 0 /\ revision = 0
    /\ batch = 0 /\ reassigned = 0 /\ writes = 0
NoPaths ==
    roots = 0 /\ excludes = 0 /\ missing = 0 /\ link = 0 /\ rest = 0 /\ selected = 0

-----------------------------------------------------------------------------
(* A plain file, a file in a folder that one of the requests excludes, and a  *)
(* file of a second root.                                                     *)

MCFiles == {"plain", "cached", "other"}
MCRootOf == [f \in MCFiles |-> IF f = "other" THEN "r2" ELSE "r1"]
MCPatternOf == [f \in MCFiles |-> IF f = "cached" THEN "cache" ELSE "name"]
MCDefault == [roots |-> {"r1"}, excl |-> {"cache"}, rebuild |-> TRUE]
MCRequests ==
    { MCDefault, [roots |-> {"r1", "r2"}, excl |-> {}, rebuild |-> TRUE],
      [roots |-> {"r1"}, excl |-> {}, rebuild |-> FALSE] }

\* Either with crashes and failed scans ("broken") or with changes ("changing").
Building == INSTANCE IndexCommand

-----------------------------------------------------------------------------
(* Two values of the rows and of the control metadata and two commits, so     *)
(* that either can change and come back during a copy.                        *)

Copying == INSTANCE CompactCopy

-----------------------------------------------------------------------------
(* A folder /a with an entry, and the siblings /a. and /a0, whose paths sort  *)
(* just before and at the end of its range; and the same files by the other   *)
(* texts that roots given as /a/ and // lead to.                              *)

Plain == {<<47, 97>>, <<47, 97, 46>>, <<47, 97, 47, 120>>, <<47, 97, 48>>}
MCUniverse == Plain \cup {<<47, 97, 47>>, <<47, 47>>} \cup {<<47>> \o p : p \in Plain}

MCSweepRequests ==
    { <<<<47, 97>>>>, <<<<47, 97, 47>>, <<47, 97, 47, 120>>>>,
      <<<<47, 97>>, <<47, 97, 47>>>>, <<<<47, 47>>>> }
MCIdOf == [p \in Plain \cup {<<47, 97, 47>>} |->
             CASE p = <<47, 97>> -> 1 [] p = <<47, 97, 46>> -> -1 [] p = <<47, 97, 48>> -> 2
               [] p = <<47, 97, 47>> -> 3 [] OTHER -> 4]
MCTables ==
    {[p \in P |-> MCIdOf[p]] : P \in {Plain, Plain \ {<<47, 97>>}, DOMAIN MCIdOf \ {<<47, 97>>},
                                     DOMAIN MCIdOf, {}}}

Sweep == INSTANCE StaleSweep WITH
    Star <- 42, Question <- 63, Slash <- 47, Zero <- 48, Requests <- SweepRequests

-----------------------------------------------------------------------------
(* Three upserts: a record, a failed one and the retry on the same statements. *)

Statement == INSTANCE SqlStatement

(* Three processes open a database of two ids; q is lowered alike by both.    *)

Schema == INSTANCE SchemaMigration WITH MaxWrites <- MaxUpdates

-----------------------------------------------------------------------------
(* A home directory "u" with "Library" excluded by name, ".codex" added by    *)
(* the watcher, a database below it, and a second root inside or beside.      *)

MCNames == {"u", "Library", "codex", "a"}
Inside == {<<"u">> \o p : p \in [1 .. 1 -> MCNames] \cup [1 .. 2 -> MCNames]}
Below(p, d) == Len(d) <= Len(p) /\ SubSeq(p, 1, Len(d)) = d
NoLink == [from |-> <<>>, to |-> <<>>]

MCRootSets ==
    {{<<"u">>}, {<<"u">>, <<"u", "Library", "a">>}, {<<"u", "a">>, <<"u", "Library">>}}
MCMissing == {<<>>, <<"u", "Library">>}
MCLinks == {NoLink} \cup {k \in [from : Inside \cup {<<"u">>}, to : Inside \cup {<<"a">>}] :
                             ~Below(k.to, k.from) /\ ~Below(k.from, k.to)}
MCUserPatterns == {<<"Library">>, <<"a", "Library">>}
MCRuntime == {<<"codex">>}
MCRelatives == <<<<"Library">>, <<"codex">>, <<"a", "Library">>>>
MCDbDir == <<"u", "a", "codex">>

Upstream == INSTANCE Exclusions WITH Patterns <- UserPatterns

-----------------------------------------------------------------------------
ASSUME PartsAssumption ==
    /\ Building!IndexAssumption /\ Copying!CopyAssumption
    /\ Sweep!SweepAssumption /\ Statement!StatementAssumption /\ Schema!MigrationAssumption
    /\ Upstream!ExclusionsAssumption

MCInit ==
    \/ part = "broken" /\ Building!Init /\ pc = 0 /\ NoCopy /\ NoSweep /\ NoStmt /\ NoSchema /\ NoPaths
    \/ part = "changing" /\ Building!Init /\ pc = 0
         /\ NoCopy /\ NoSweep /\ NoStmt /\ NoSchema /\ NoPaths
    \/ part = "copy" /\ Copying!Init /\ pc = 0 /\ NoIndex /\ NoSweep /\ NoStmt /\ NoSchema /\ NoPaths
    \/ part = "sweep" /\ Sweep!Init /\ bounds = 0 /\ pc = 0
         /\ NoIndex /\ NoCopy /\ NoStmt /\ NoSchema /\ NoPaths
    \/ part = "statement" /\ Statement!Init /\ bounds = 0
         /\ NoIndex /\ NoCopy /\ NoSweep /\ NoSchema /\ NoPaths
    \/ part = "schema" /\ Schema!Init /\ bounds = 0 /\ NoIndex /\ NoCopy /\ NoSweep /\ NoStmt /\ NoPaths
    \/ part = "paths" /\ Upstream!Init /\ bounds = 0 /\ pc = 0
         /\ NoIndex /\ NoCopy /\ NoSweep /\ NoStmt /\ NoSchema

ChangingStep(A) ==
    /\ part = "changing" /\ A /\ bounds'.crashes = 0 /\ bounds'.failures = 0
    /\ UNCHANGED <<part, pc, copyvars, sweepvars, stmtvars, schemavars, pathvars>>

MCNext ==
    \/ /\ part = "broken" /\ Building!Next /\ bounds'.changes = 0
       /\ UNCHANGED <<part, pc, copyvars, sweepvars, stmtvars, schemavars, pathvars>>
    \/ ChangingStep(Building!Next)
    \/ /\ part = "copy" /\ Copying!Next
       /\ UNCHANGED <<part, pc, indexvars, sweepvars, stmtvars, schemavars, pathvars>>
    \/ /\ part = "sweep" /\ Sweep!Next
       /\ UNCHANGED <<part, bounds, pc, indexvars, copyvars, stmtvars, schemavars, pathvars>>
    \/ /\ part = "statement" /\ Statement!Next
       /\ UNCHANGED <<part, bounds, indexvars, copyvars, sweepvars, schemavars, pathvars>>
    \/ /\ part = "schema" /\ Schema!Next
       /\ UNCHANGED <<part, bounds, indexvars, copyvars, sweepvars, stmtvars, pathvars>>
    \/ /\ part = "paths" /\ Upstream!Consider
       /\ UNCHANGED <<part, bounds, pc, indexvars, copyvars, sweepvars, stmtvars, schemavars>>

vars == <<part, bounds, pc, indexvars, copyvars, sweepvars, stmtvars, schemavars, pathvars>>

MCSpec ==
    /\ MCInit /\ [][MCNext]_vars
    /\ WF_vars(ChangingStep(Building!Launch)) /\ WF_vars(ChangingStep(Building!Reply))
    /\ WF_vars(ChangingStep(Building!Command)) /\ WF_vars(ChangingStep(Building!Replay))

-----------------------------------------------------------------------------
\* The app rebuilds on its own accord only an index that holds nothing, and the
\* bootstrap reply it decides by is one the database really held.
RebuildJustified == part \in {"broken", "changing"} => Building!RebuildJustified

\* Without a crash or a failed scan the configured part of the file system and
\* the index come to agree for good.
Refreshed == <>[](part = "changing" => Building!InStep)

\* optimize succeeds only over a source that was quiet, with a copy of it that is
\* still whole after a power loss; it passes off no other file as its copy, and never
\* overwrites what somebody else put at the output.
CopySafe ==
    /\ [](part = "copy" => Copying!SuccessIsQuiet /\ Copying!PublishedIsVerified)
    /\ [][part = "copy" => Copying!ReportsOwn /\ Copying!SparesOther]_vars

\* A finished scan leaves the rows below its roots as the disk was and others alone,
\* and does not rewrite a row whose file did not change.
SweepExact == part = "sweep" => Sweep!SweepExact /\ Sweep!UnchangedRowsKept

\* Through errors of any step, a parameter SQLite may read points into a buffer its
\* statement still owns, no read cursor stays open while the upsert writes, only an
\* error of the id lookup can reach a later upsert, and every way out closes what it
\* opened.
StatementSafe == part = "statement" => Statement!StatementSafe

\* Processes that open an old file together, and end anywhere, leave it migrated and
\* its rows with the lower case of their own paths, unless a row's id was given to
\* another path while a backfill, outside its transaction, still remembered it; while
\* one is open no row changes without a new revision.
MigrationSafe ==
    /\ [](part = "schema" => Schema!Lowered /\ Schema!OpenMeansMigrated)
    /\ [][part = "schema" => Schema!Counts]_vars

\* FSEvents is told to keep quiet only about what the callback would reject, and what
\* lies below an excluded path is excluded.
ExclusionsExact == part = "paths" => Upstream!UpstreamExact /\ Upstream!MatcherClosed
=============================================================================
