-------------------------- MODULE SchemaMigration ---------------------------
(***************************************************************************)
(* Database::open on a database of an older version (db.rs), by several    *)
(* processes at once: the watcher, the search service and the command line *)
(* start together after an update.  The column path_lower is added and     *)
(* filled in, then the revision triggers and the change journal are        *)
(* installed, each behind a mark that says it is done.  Every statement    *)
(* outside a transaction is a step, and a transaction is a step; a process *)
(* may fail or end between any two and open again.                         *)
(*                                                                         *)
(* lower(path) of SQLite knows ASCII only; Full is to_lowercase.           *)
(***************************************************************************)
EXTENDS Integers, FiniteSets, FiniteSetsExt

CONSTANTS
    Processes,
    Paths, AsciiPaths,  \* paths, and those that both lowerings treat alike
    MaxId,              \* bound: row ids
    MaxWrites,          \* bound: writes of opened processes
    None


VARIABLES
    column,      \* files has the column path_lower
    rows,        \* id -> [path, lower], or None
    backfilled,  \* schema_path_lower_backfilled_v2
    revised,     \* schema_content_revision_v1 and its triggers
    journal,     \* schema_file_changes_v1, its table and triggers
    revision,    \* of macevery_content_state
    pc,          \* what each process does next
    batch,       \* backfill_path_lower: the updates read, id -> path or None
    reassigned,  \* ids given to another path while a batch names them
    writes
store == <<column, rows, backfilled, revised, journal, revision>>
vars == <<store, pc, batch, reassigned, writes>>

Ids == 1 .. MaxId
Full(p) == <<"full", p>>
Ascii(p) == IF p \in AsciiPaths THEN Full(p) ELSE <<"ascii", p>>
Lowers == {None} \cup {Full(p) : p \in Paths} \cup {Ascii(p) : p \in Paths}

\* NULL is no path, no lower case of one, and no row.
MigrationAssumption ==
    /\ AsciiPaths \subseteq Paths /\ MaxId \in Nat /\ MaxWrites \in Nat
    /\ None \notin Paths
    /\ \A p \in Paths : None \notin {Full(p), Ascii(p)}
    /\ \A r \in [path : Paths, lower : Lowers] : r # None

Live == {i \in Ids : rows[i] # None}
NoBatch == [i \in Ids |-> None]

\* A slip: the update trigger does not compare path_lower.
SlipCounted(new) ==
    LET text(r) == IF r = None THEN None ELSE r.path
    IN  IF revised THEN revision + Cardinality({i \in Ids : text(new[i]) # text(rows[i])})
        ELSE revision

\* The triggers: one revision for each row that a statement changes.
Counted(new) ==
    IF revised THEN revision + Cardinality({i \in Ids : new[i] # rows[i]}) ELSE revision

Init ==
    /\ column \in BOOLEAN /\ revised \in BOOLEAN /\ journal \in BOOLEAN /\ backfilled \in BOOLEAN
    /\ journal => revised
    /\ revised \/ backfilled => column
    /\ \E f \in [Ids -> Paths \cup {None}], l \in [Ids -> Lowers] :
          /\ \A i, j \in Ids : f[i] = f[j] /\ f[i] # None => i = j
          /\ \A i \in Ids : \/ f[i] = None /\ l[i] = None
                            \/ /\ f[i] # None
                               /\ l[i] \in (IF backfilled THEN {} ELSE {None}) \cup
                                           (IF column THEN {Full(f[i])} ELSE {}) \cup
                                           (IF column /\ ~backfilled THEN {Ascii(f[i])} ELSE {})
          /\ rows = [i \in Ids |-> IF f[i] = None THEN None ELSE [path |-> f[i], lower |-> l[i]]]
    /\ revision = 0 /\ writes = 0 /\ reassigned = {}
    /\ pc = [p \in Processes |-> "down"]
    /\ batch = [p \in Processes |-> NoBatch]

Goto(p, l) == pc' = [pc EXCEPT ![p] = l]
Kept == UNCHANGED <<batch, reassigned, writes>>

\* CREATE TABLE IF NOT EXISTS, then has_column.
Open(p) ==
    /\ pc[p] = "down"
    /\ Goto(p, IF column THEN "backfill" ELSE "alter")
    /\ UNCHANGED store /\ Kept

\* ALTER TABLE: of two processes that saw no column, the second fails.
Alter(p) ==
    /\ pc[p] = "alter"
    /\ column' = TRUE
    /\ Goto(p, IF column THEN "down" ELSE "backfill")
    /\ UNCHANGED <<rows, backfilled, revised, journal, revision>> /\ Kept

\* get_meta
Backfill(p) ==
    /\ pc[p] = "backfill"
    /\ Goto(p, IF backfilled THEN "revise" ELSE "read")
    /\ UNCHANGED store /\ Kept

\* The SELECT of backfill_path_lower, which no transaction joins to the updates.
Read(p) ==
    LET found == {i \in Live : rows[i].lower \in {None, Ascii(rows[i].path)}}
    IN  /\ pc[p] = "read"
        /\ batch' = [batch EXCEPT ![p] = [i \in Ids |-> IF i \in found THEN rows[i].path ELSE None]]
        /\ Goto(p, IF found = {} THEN "mark" ELSE "update")
        /\ UNCHANGED <<store, reassigned, writes>>

\* The transaction of updates, by id.
Update(p) ==
    /\ pc[p] = "update"
    /\ rows' = [i \in Ids |-> IF i \in Live /\ batch[p][i] # None
                              THEN [rows[i] EXCEPT !.lower = Full(batch[p][i])] ELSE rows[i]]
    /\ revision' = Counted(rows')
    /\ batch' = [batch EXCEPT ![p] = NoBatch]
    /\ Goto(p, "mark")
    /\ UNCHANGED <<column, backfilled, revised, journal, reassigned, writes>>

\* set_meta
Mark(p) ==
    /\ pc[p] = "mark"
    /\ backfilled' = TRUE
    /\ Goto(p, "revise")
    /\ UNCHANGED <<column, rows, revised, journal, revision>> /\ Kept

\* init_content_revision: looks, and begins a transaction if need be.
Revise(p) ==
    /\ pc[p] = "revise"
    /\ Goto(p, IF revised THEN "journal" ELSE "install")
    /\ UNCHANGED store /\ Kept

\* The transaction looks again; the revision starts at 0 once.
Install(p) ==
    /\ pc[p] = "install"
    /\ revised' = TRUE
    /\ revision' = IF revised THEN revision ELSE 0
    /\ Goto(p, "journal")
    /\ UNCHANGED <<column, rows, backfilled, journal>> /\ Kept

\* init_file_changes: looks at the mark, the table and its triggers.
Journal(p) ==
    /\ pc[p] = "journal"
    /\ Goto(p, IF journal THEN "open" ELSE "triggers")
    /\ UNCHANGED store /\ Kept

\* Its transaction looks again, and replaces the revision triggers.
Triggers(p) ==
    /\ pc[p] = "triggers"
    /\ journal' = TRUE
    /\ Goto(p, "open")
    /\ UNCHANGED <<column, rows, backfilled, revised, revision>> /\ Kept

\* A statement fails, or the process ends; it opens the database again.
Fail(p) ==
    /\ pc[p] # "down"
    /\ Goto(p, "down")
    /\ batch' = [batch EXCEPT ![p] = NoBatch]
    /\ UNCHANGED <<store, reassigned, writes>>

\* An opened process upserts a path: its row, or the id above the largest.
Upsert(p, path) ==
    LET at == {i \in Live : rows[i].path = path}
        i  == IF at # {} THEN CHOOSE k \in at : TRUE ELSE Max(Live \cup {0}) + 1
    IN  /\ pc[p] = "open" /\ writes < MaxWrites /\ i <= MaxId
        /\ rows' = [rows EXCEPT ![i] = [path |-> path, lower |-> Full(path)]]
        /\ reassigned' = IF \E q \in Processes : batch[q][i] \notin {None, path}
                         THEN reassigned \cup {i} ELSE reassigned
        /\ revision' = Counted(rows') /\ writes' = writes + 1
        /\ UNCHANGED <<column, backfilled, revised, journal, pc, batch>>

\* An opened process deletes a row.
Remove(p) ==
    /\ pc[p] = "open" /\ writes < MaxWrites
    /\ \E i \in Live : rows' = [rows EXCEPT ![i] = None]
    /\ revision' = Counted(rows') /\ writes' = writes + 1
    /\ UNCHANGED <<column, backfilled, revised, journal, pc, batch, reassigned>>

Next ==
    \E p \in Processes :
        \/ Open(p) \/ Alter(p) \/ Backfill(p) \/ Read(p) \/ Update(p) \/ Mark(p)
        \/ Revise(p) \/ Install(p) \/ Journal(p) \/ Triggers(p) \/ Fail(p)
        \/ Remove(p) \/ \E path \in Paths : Upsert(p, path)

Spec == Init /\ [][Next]_vars

-----------------------------------------------------------------------------
\* Once the rows are marked as filled in, each holds the lower case of its own
\* path, through failures and other processes opening at the same time.  The
\* exception is a row whose id was given to another path between the read and
\* the updates of a process that is still opening.
Lowered ==
    backfilled => \A i \in Live \ reassigned : rows[i].lower = Full(rows[i].path)

\* What a process has opened is migrated: the search service may read stamps and
\* changes without looking for the triggers.
OpenMeansMigrated ==
    \A p \in Processes : pc[p] = "open" => column /\ backfilled /\ revised /\ journal

Counts ==
    (\E p \in Processes : pc[p] = "open") =>
        revision' >= revision /\ (rows' # rows => revision' > revision)

\* An old file that processes open together is left migrated, with the lower case of
\* its paths; and while one has it open, a row never changes, by a write or by the
\* late updates of another that is still opening, without a new revision, which never
\* goes back: a stamp that is equal means equal rows.
MigrationSafe == [](Lowered /\ OpenMeansMigrated) /\ [][Counts]_vars
=============================================================================
