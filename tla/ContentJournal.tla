--------------------------- MODULE ContentJournal ---------------------------
(***************************************************************************)
(* The index database as its readers see it: the files table, the content  *)
(* revision, and the bounded journal that the triggers on files keep, from *)
(* which a reader of an older revision asks what has changed.              *)
(*                                                                         *)
(* A statement on files is one step with all its triggers.  A transaction  *)
(* of several statements only hides the states between them, so readers    *)
(* here meet every state they can meet there.  The file at the database    *)
(* path can be replaced by another one: ident counts those files.          *)
(***************************************************************************)
EXTENDS Naturals, FiniteSets, FiniteSetsExt

CONSTANTS Names,        \* the paths of files: files.path
          Metas,        \* the metadata of files: kind, sizes, times, generation
          Absent,       \* no row
          MaxId,        \* bound: row ids
          MaxRevision,  \* bound: the content revision
          MaxIdent,     \* bound: database files
          Interval,     \* FILE_CHANGE_PRUNE_INTERVAL
          Retention,    \* FILE_CHANGE_RETENTION
          MaxSpan,      \* MAX_INCREMENTAL_EVENTS
          MaxIds        \* MAX_INCREMENTAL_IDS

Row == [path : Names, meta : Metas]

ASSUME JournalAssumption ==
    /\ Absent \notin Row
    /\ MaxId \in Nat
    /\ MaxRevision \in Nat
    /\ MaxIdent \in Nat \ {0}
    /\ Interval \in Nat \ {0}
    /\ Retention \in Nat
    /\ MaxSpan \in Nat
    /\ MaxIds \in Nat

Ids == 1 .. MaxId
Revisions == 1 .. MaxRevision
Idents == 1 .. MaxIdent

VARIABLES dbs,      \* the database files, by identity
          ident,    \* the identity of the file at the database path
          history   \* history[i][r]: the rows of file i at revision r

dbvars == <<dbs, ident, history>>

\* Rows with distinct paths (files.path is UNIQUE).
Tables ==
    {f \in [Ids -> Row \cup {Absent}] :
        \A i, j \in Ids : i # j /\ f[i] # Absent /\ f[j] # Absent
                             => f[i].path # f[j].path}

\* "none": no macevery_content_state; "revision": schema_content_revision_v1;
\* "journal": schema_file_changes_v1 as well.
Schemas == {"none", "revision", "journal"}

\* journal[r] holds the ids that entry r names, {} where there is no entry.
\* since is the revision at which the journal was installed.
DbType == [schema : Schemas, files : Tables, revision : 0 .. MaxRevision,
           journal : [Revisions -> SUBSET Ids], floor : 0 .. MaxRevision,
           since : 0 .. MaxRevision]

db == dbs[ident]

LiveIds(f) == {i \in Ids : f[i] # Absent}

EmptyJournal == [r \in Revisions |-> {}]

-----------------------------------------------------------------------------
(* The triggers.                                                           *)

\* A slip: the last entry outside the retention stays.
prune_one_less(d) ==
    LET old == {r \in Revisions : r + Retention < d.revision /\ d.journal[r] # {}}
    IN  IF d.revision % Interval # 0 THEN d
        ELSE [d EXCEPT
                !.journal = [r \in Revisions |-> IF r \in old THEN {} ELSE @[r]],
                !.floor = Max(old \cup {@})]

\* A slip: the entry that makes the retention full goes too.
prune_one_more(d) ==
    LET old == {r \in Revisions : r + Retention <= d.revision + 1 /\ d.journal[r] # {}}
    IN  IF d.revision % Interval # 0 THEN d
        ELSE [d EXCEPT
                !.journal = [r \in Revisions |-> IF r \in old THEN {} ELSE @[r]],
                !.floor = Max(old \cup {@})]

\* macevery_file_changes_prune_v1, after the insertion of entry d.revision.
prune(d) ==
    LET old == {r \in Revisions : r + Retention <= d.revision /\ d.journal[r] # {}}
    IN  IF d.revision % Interval # 0 THEN d
        ELSE [d EXCEPT
                !.journal = [r \in Revisions |-> IF r \in old THEN {} ELSE @[r]],
                !.floor = Max(old \cup {@})]

\* A slip: the row that OR REPLACE removed is not in the entry.
record_change_no_victim(d, f, named, victim) ==
    CASE d.schema = "none" -> [d EXCEPT !.files = f]
      [] d.schema = "revision" -> [d EXCEPT !.files = f, !.revision = @ + 1]
      [] OTHER -> prune([d EXCEPT !.files = f, !.revision = @ + 1,
                                  !.journal[d.revision + 1] = named])

\* A statement that leaves the rows f: named are the ids of OLD and NEW,
\* victim the id that the BEFORE trigger saved in journal_conflict_id.
record_change(d, f, named, victim) ==
    CASE d.schema = "none" -> [d EXCEPT !.files = f]
      [] d.schema = "revision" -> [d EXCEPT !.files = f, !.revision = @ + 1]
      [] OTHER -> prune([d EXCEPT !.files = f, !.revision = @ + 1,
                                  !.journal[d.revision + 1] = named \cup victim])

Commit(f, named, victim) ==
    /\ db.revision < MaxRevision
    /\ dbs' = [dbs EXCEPT ![ident] = record_change(@, f, named, victim)]
    /\ history' = [history EXCEPT ![ident][dbs'[ident].revision] = f]
    /\ UNCHANGED ident

-----------------------------------------------------------------------------
(* The statements of the writers.  The program itself writes with upserts  *)
(* and deletes; OR REPLACE is what the triggers are made to survive.       *)

At(f, p) == {i \in Ids : f[i] # Absent /\ f[i].path = p}

\* The id SQLite gives to a new row.
NewId(f, i) == i \in Ids /\ f[i] = Absent /\ \A j \in LiveIds(f) : j < i
                         /\ (i = 1 \/ i - 1 \in LiveIds(f))

\* INSERT ... ON CONFLICT(path) DO UPDATE.  Equal values leave the row, and
\* the revision, alone.
Upsert(p, m) ==
    \/ \E i \in At(db.files, p) :
          /\ db.files[i].meta # m
          /\ Commit([db.files EXCEPT ![i].meta = m], {i}, {})
    \/ /\ At(db.files, p) = {}
       /\ \E i \in Ids : /\ NewId(db.files, i)
                         /\ Commit([db.files EXCEPT ![i] = [path |-> p, meta |-> m]], {i}, {})

\* The rows once [path |-> p, meta |-> m] stands at id i and those of gone do not.
Put(f, i, p, m, gone) ==
    [j \in Ids |-> IF j = i THEN [path |-> p, meta |-> m]
                   ELSE IF j \in gone THEN Absent ELSE f[j]]

\* INSERT OR REPLACE with an id: the row that held the path, and the one that
\* held the id, go without a DELETE trigger.
InsertOrReplace(i, p, m) ==
    LET victim == At(db.files, p)
    IN  Commit(Put(db.files, i, p, m, victim), {i}, victim)

\* UPDATE OR REPLACE of the id and the path of row i.
MoveOrReplace(i, k, p) ==
    LET victim == At(db.files, p) \ {i}
    IN  /\ k # i \/ db.files[i].path # p
        /\ Commit(Put(db.files, k, p, db.files[i].meta, victim \cup {i}), {i, k}, victim)

Delete(i) == Commit([db.files EXCEPT ![i] = Absent], {i}, {})

-----------------------------------------------------------------------------
(* Schema and file changes.                                                *)

\* A slip: the floor stays where the earlier journal left it.
migrated_keeps_floor(d) ==
    [d EXCEPT !.schema = "journal", !.journal = EmptyJournal, !.since = d.revision]

\* init_content_revision and init_file_changes.
migrated(d) ==
    [d EXCEPT !.schema = "journal", !.journal = EmptyJournal,
              !.floor = d.revision, !.since = d.revision]

\* Some process opens the database with Database::open.
Migrate ==
    /\ db.schema # "journal"
    /\ dbs' = [dbs EXCEPT ![ident] = migrated(@)]
    /\ UNCHANGED <<ident, history>>

\* A copy of file i as it was at revision 0, with an older schema or a freshly
\* installed journal.
Backup(i, s) ==
    [schema |-> s, files |-> history[i][0], revision |-> 0, journal |-> EmptyJournal,
     floor |-> 0, since |-> 0]

\* Another file takes the path: a compact copy, or an older copy.
Install ==
    /\ ident < MaxIdent
    /\ ident' = ident + 1
    /\ \E d \in {db} \cup {Backup(ident, s) : s \in Schemas} :
          /\ dbs' = [dbs EXCEPT ![ident + 1] = d]
          /\ history' = [history EXCEPT ![ident + 1] =
                [r \in 0 .. MaxRevision |-> IF d = db THEN history[ident][r] ELSE d.files]]

-----------------------------------------------------------------------------
(* Readers.                                                                *)

\* content_stamp of file i.  The identity tells files apart, and a file keeps
\* its database_id, so one comparison stands for both.
StampOf(i) == [file |-> i, revision |-> dbs[i].revision]

Stamp == StampOf(ident)

\* The ids of the entries of d after revision b.
ChangedIds(d, b) == UNION {d.journal[r] : r \in b + 1 .. d.revision}

HistoryGap(d, b) ==
    \/ b < d.floor
    \/ \E r \in b + 1 .. d.revision : d.journal[r] = {}

\* file_changes_since on file i: why it refuses to answer for a base stamp, ""
\* if it answers.  large says that the changed rows exceed the payload bound.
Refusal(i, base, large) ==
    LET d == dbs[i]
    IN  IF base.file # i THEN "database_replaced"
        ELSE IF base.revision > d.revision THEN "revision_regressed"
        ELSE IF d.schema # "journal" THEN "journal_unavailable"
        ELSE IF base.revision = d.revision THEN ""
        ELSE IF base.revision < d.floor THEN "history_gap"
        ELSE IF d.revision - base.revision > MaxSpan THEN "event_limit"
        ELSE IF HistoryGap(d, base.revision) THEN "history_gap"
        ELSE IF Cardinality(ChangedIds(d, base.revision)) > MaxIds THEN "id_limit"
        ELSE IF large THEN "byte_limit"
        ELSE ""

\* The changes it answers: the current row, or Absent, of every changed id.
Changes(i, base) == [j \in ChangedIds(dbs[i], base.revision) |-> dbs[i].files[j]]

-----------------------------------------------------------------------------
Write ==
    \/ \E p \in Names, m \in Metas : Upsert(p, m) \/ \E i \in Ids : InsertOrReplace(i, p, m)
    \/ \E i \in LiveIds(db.files) :
          Delete(i) \/ \E k \in Ids, p \in Names : MoveOrReplace(i, k, p)

DbNext == Write \/ Migrate \/ Install

\* A first file with the current schema or an older one.
DbInit ==
    /\ ident = 1
    /\ \E f \in Tables, s \in Schemas :
          /\ dbs = [i \in Idents |-> [schema |-> s, files |-> f, revision |-> 0,
                                      journal |-> EmptyJournal, floor |-> 0, since |-> 0]]
          /\ history = [i \in Idents |-> [r \in 0 .. MaxRevision |-> f]]

DbSpec == DbInit /\ [][DbNext]_dbvars

-----------------------------------------------------------------------------
\* The state keeps its shape; the revision and the floor do not pass each other.
DbTypeOK ==
    /\ ident \in Idents
    /\ dbs \in [Idents -> DbType]
    /\ history \in [Idents -> [0 .. MaxRevision -> Tables]]
    /\ \A i \in Idents : dbs[i].since <= dbs[i].floor /\ dbs[i].floor <= dbs[i].revision

Patch(f, c) == [i \in Ids |-> IF i \in DOMAIN c THEN c[i] ELSE f[i]]

\* A reader gets every change or a refusal: whenever file_changes_since
\* answers for an older revision of this file, its changes turn the rows of
\* that revision into the rows of now, OR REPLACE victims and reused ids
\* included.
JournalComplete ==
    \A b \in 0 .. db.revision :
        LET base == [file |-> ident, revision |-> b]
        IN  Refusal(ident, base, FALSE) = ""
                => Patch(history[ident][b], Changes(ident, base)) = db.files

\* A reader that is at most Retention revisions behind, and not behind the
\* installation of the journal, never meets a history gap.
JournalRetained ==
    db.schema = "journal" =>
        \A b \in db.since .. db.revision : b + Retention >= db.revision => ~HistoryGap(db, b)

\* The journal stays below the retention plus one pruning interval.
JournalBounded ==
    Cardinality({r \in Revisions : db.journal[r] # {}}) < Retention + Interval
=============================================================================
