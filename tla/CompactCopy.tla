----------------------------- MODULE CompactCopy -----------------------------
(***************************************************************************)
(* macevery optimize: a compacted copy of a live index (cli.rs             *)
(* cmd_optimize, db.rs write_compacted_copy, verify_compacted_records,     *)
(* compact_control_pin, compact_staging_directory, open_read_only).        *)
(*                                                                         *)
(* The copy runs beside writers, checkpoints, a process that puts another  *)
(* database at the source's path, others that create files at the output   *)
(* or exchange the staged file, errors and a power loss.  A file is its    *)
(* identity and its data; a database's data are its rows, its content      *)
(* revision (one more at each change of a row, module ContentJournal) and  *)
(* its control metadata.  A file once moved away does not come back.       *)
(***************************************************************************)
EXTENDS Naturals

CONSTANTS
    RowValues, ControlValues,
    MaxWrites, MaxInterference   \* bounds on commits and on what others do to files

CopyAssumption ==
    /\ RowValues # {} /\ ControlValues # {}
    /\ MaxWrites \in Nat /\ MaxInterference \in Nat

VARIABLES
    source,    \* data of the database self.conn and source.conn have open
    path,      \* the source path: identity of the file there, its length and time
    target,    \* "plain", or "sidecar": a name SQLite reserves for the source
    output,    \* file at the output path
    staged,    \* file at the staging path
    copy,      \* the call: its pc and what it has read
    held,      \* data source held from the before pin to the after pin
    bounds     \* commits and interference so far

vars == <<source, path, target, output, staged, copy, held, bounds>>

Data == [rows : RowValues, rev : 0 .. MaxWrites, control : ControlValues]

\* Some other file's data.
Unrelated == [rows |-> CHOOSE r \in RowValues : TRUE, rev |-> MaxWrites + 1,
              control |-> CHOOSE c \in ControlValues : TRUE]

\* A file is torn when the power was lost before it was synced.
File(id, data) == [id |-> id, data |-> data, synced |-> FALSE, torn |-> FALSE]
NoFile == File("none", Unrelated)

\* compact_control_pin: one read snapshot of the revision and the control metadata.
ControlPin(d) == [rev |-> d.rev, control |-> d.control]

\* The pins of a call, before it takes them.
Fresh ==
    LET pin == ControlPin(Unrelated)
    IN  [pc |-> "preflight", sourceFile |-> [id |-> "none", stamp |-> 0], before |-> pin,
         copiedFile |-> "none", conn |-> Unrelated, copied |-> pin, after |-> pin,
         copiedAfter |-> pin]

Init ==
    /\ \E r \in RowValues, c \in ControlValues : source = [rows |-> r, rev |-> 0, control |-> c]
    /\ path = [id |-> "source", stamp |-> 0]
    /\ target \in {"plain", "sidecar"}
    /\ output \in {NoFile, File("other", Unrelated)} /\ staged = NoFile
    /\ copy = Fresh /\ held = {} /\ bounds = [writes |-> 0, others |-> 0]

-----------------------------------------------------------------------------
(* Everyone else *)

\* Between the first and the last pin of the source.
Copying == copy.pc \in {"vacuum", "sync", "pin", "check", "copied", "verify", "after"}

\* A commit of the watcher or of an index command: a row, or control metadata.
Write ==
    /\ bounds.writes < MaxWrites /\ bounds' = [bounds EXCEPT !.writes = @ + 1]
    /\ \/ \E r \in RowValues \ {source.rows} :
             source' = [source EXCEPT !.rows = r, !.rev = @ + 1]
       \/ \E c \in ControlValues \ {source.control} : source' = [source EXCEPT !.control = c]
    /\ held' = IF Copying THEN held \cup {source'} ELSE held
    /\ UNCHANGED <<path, target, output, staged, copy>>

Interfere == bounds.others < MaxInterference /\ bounds' = [bounds EXCEPT !.others = @ + 1]

\* A checkpoint writes the WAL's pages to the main file.
Checkpoint ==
    /\ Interfere /\ path.id = "source" /\ path' = [path EXCEPT !.stamp = 1 - @]
    /\ UNCHANGED <<source, target, output, staged, copy, held>>

\* Another database is renamed to the source's path.
ReplaceSource ==
    /\ Interfere /\ path.id = "source" /\ path' = [id |-> "newer", stamp |-> 0]
    /\ UNCHANGED <<source, target, output, staged, copy, held>>

\* Another process creates the output, or removes it.
TouchOutput ==
    /\ Interfere /\ output' = IF output.id = "none" THEN File("other", Unrelated) ELSE NoFile
    /\ UNCHANGED <<source, path, target, staged, copy, held>>

\* The staged file is exchanged for another database, a file of its own.
ReplaceStaged ==
    /\ Interfere /\ staged.id = "copy"
    /\ \E d \in Data : d.rev = 0 /\ staged' = File("foreign", d)
    /\ UNCHANGED <<source, path, target, output, copy, held>>

\* The machine stops: what was not synced is torn, the call is gone.
PowerLoss ==
    /\ Interfere /\ copy.pc \notin {"ok", "failed"}
    /\ LET after(f) == IF f.synced \/ f.id # "copy" THEN f ELSE [f EXCEPT !.torn = TRUE]
       IN  staged' = after(staged) /\ output' = after(output)
    /\ copy' = [copy EXCEPT !.pc = "failed"]
    /\ UNCHANGED <<source, path, target, held>>

-----------------------------------------------------------------------------
(* write_compacted_copy *)

Others == UNCHANGED <<source, path, target, bounds>>

\* Every error leaves the call; the staging directory is kept.
Fail ==
    /\ copy.pc \notin {"ok", "failed"} /\ copy' = [copy EXCEPT !.pc = "failed"]
    /\ Others /\ UNCHANGED <<output, staged, held>>

\* The step at pc: its check passes and it goes on with c, or it fails.
Step(pc, passes, c) ==
    /\ copy.pc = pc /\ passes /\ copy' = c
    /\ Others

SameFiles == UNCHANGED <<output, staged, held>>

\* The output is absent, and the path still names the file this handle opened.
Preflight ==
    /\ Step("preflight", output.id = "none" /\ path.id = "source",
            [copy EXCEPT !.pc = "sidecars", !.sourceFile = path])
    /\ SameFiles

\* A name that ends in -wal, -shm or -journal is refused when the rest names the source.
Sidecars ==
    /\ Step("sidecars", ~(target = "sidecar" /\ path.id = "source"),
            [copy EXCEPT !.pc = "open"])
    /\ SameFiles

\* open_read_only of the path: the identity before, after and of the handle agree.
Open ==
    /\ Step("open", path.id = "source", [copy EXCEPT !.pc = "before"])
    /\ SameFiles

\* The first pin.
Before ==
    /\ Step("before", TRUE, [copy EXCEPT !.pc = "vacuum", !.before = ControlPin(source)])
    /\ held' = {source} /\ UNCHANGED <<output, staged>>

\* VACUUM INTO an absent name in the staging directory, from one snapshot.
Vacuum ==
    /\ Step("vacuum", TRUE, [copy EXCEPT !.pc = "sync"])
    /\ staged' = File("copy", source) /\ UNCHANGED <<output, held>>

\* sync_all.
Sync ==
    /\ Step("sync", TRUE, [copy EXCEPT !.pc = "pin"])
    /\ staged' = [staged EXCEPT !.synced = TRUE] /\ UNCHANGED <<output, held>>

PinStaged ==
    /\ Step("pin", TRUE, [copy EXCEPT !.pc = "check", !.copiedFile = staged.id]) /\ SameFiles

\* The copy is opened, quick_check says ok.
OpenCopy ==
    /\ Step("check", ~staged.torn, [copy EXCEPT !.pc = "copied", !.conn = staged.data])
    /\ SameFiles

Copied ==
    /\ Step("copied", TRUE, [copy EXCEPT !.pc = "verify", !.copied = ControlPin(copy.conn)])
    /\ SameFiles

\* verify_compacted_records: all rows in id order, from a snapshot of each side.
Verify ==
    /\ Step("verify", copy.conn.rows = source.rows, [copy EXCEPT !.pc = "after"]) /\ SameFiles

After ==
    /\ Step("after", TRUE, [copy EXCEPT !.pc = "copied_after", !.after = ControlPin(source)])
    /\ SameFiles

CopiedAfter ==
    /\ Step("copied_after", TRUE, [copy EXCEPT !.pc = "compare",
                                               !.copiedAfter = ControlPin(copy.conn)])
    /\ SameFiles

\* A slip: the rows were compared, so the revision is taken for unchanged.
SlipUnchanged == copy.before.control = copy.after.control /\ copy.copied = copy.copiedAfter
                 /\ path = copy.sourceFile

\* The source's pins agree with each other and with the copy's, and its file is the same.
Unchanged ==
    /\ copy.before = copy.after /\ copy.copied = copy.before /\ copy.copiedAfter = copy.before
    /\ path = copy.sourceFile

Compare == Step("compare", Unchanged, [copy EXCEPT !.pc = "staged"]) /\ SameFiles

\* The staged path still names the pinned file.
Restage == Step("staged", staged.id = copy.copiedFile, [copy EXCEPT !.pc = "link"]) /\ SameFiles

\* hard_link fails when the output exists.
Link ==
    /\ Step("link", output.id = "none", [copy EXCEPT !.pc = "published"])
    /\ output' = staged /\ UNCHANGED <<staged, held>>

\* The output is the pinned file.
Published == Step("published", output.id = copy.copiedFile, [copy EXCEPT !.pc = "remove"]) /\ SameFiles

\* remove_dir_all of the staging directory, and the count of verified rows.
Remove ==
    /\ Step("remove", TRUE, [copy EXCEPT !.pc = "ok"])
    /\ staged' = NoFile /\ UNCHANGED <<output, held>>

Copy ==
    \/ Preflight \/ Sidecars \/ Open \/ Before \/ Vacuum \/ Sync \/ PinStaged \/ OpenCopy
    \/ Copied \/ Verify \/ After \/ CopiedAfter \/ Compare \/ Restage \/ Link \/ Published
    \/ Remove

Next ==
    \/ Copy \/ Fail \/ Write \/ Checkpoint \/ ReplaceSource \/ TouchOutput \/ ReplaceStaged
    \/ PowerLoss

Spec == Init /\ [][Next]_vars

-----------------------------------------------------------------------------
\* "Source activity detected across the copy rejects success" (db.rs:465): when
\* the call is about to report success, no row of the source changed from the first
\* pin to the second, not even away and back, and the copy it verified held the
\* rows, the revision and the control metadata the source had at both.
SuccessIsQuiet ==
    copy.pc \in {"remove", "ok"} =>
        /\ \A d, e \in held : d.rows = e.rows /\ d.rev = e.rev
        /\ copy.conn \in held /\ ControlPin(copy.conn) = copy.after

\* The file this call left at the output is the verified one, whole also after a
\* power loss, in a call that succeeds: what was checked is what was published.
PublishedIsVerified ==
    /\ copy.pc \in {"remove", "ok"} /\ output.id = "copy" => output.data = copy.conn
    /\ ~output.torn

ReportsOwn == copy'.pc = "remove" /\ copy.pc = "published" => output.data = copy.conn

\* A successful call reports the copy's own file: another database that took the
\* staged file's place at any moment is not passed off as the copy.
NoForeignCopy == [][ReportsOwn]_vars

SparesOther == output.id = "other" => output'.id \in {"other", "none"}

\* What somebody else put at the output path stays there (db.rs:629, "it never
\* overwrites an existing file"), also when it appears after the preflight.
NoClobber == [][SparesOther]_vars

\* All of it.
CopySafe == [](SuccessIsQuiet /\ PublishedIsVerified) /\ NoForeignCopy /\ NoClobber
=============================================================================
