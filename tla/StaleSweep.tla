----------------------------- MODULE StaleSweep -----------------------------
(***************************************************************************)
(* One scan's transaction statement by statement: the upserts with the     *)
(* bounded bitmap of row ids they saw, and the deletion of the rows that   *)
(* were not seen, in pages of the path index (db.rs SeenIds, FileUpsert,   *)
(* delete_unseen_under_roots, delete_stale_under_roots,                    *)
(* delete_path_prefix, path_prefix_bounds; scanner.rs refresh_path,        *)
(* refresh_roots, next_index_generation).                                  *)
(*                                                                         *)
(* Module Scanner says what such a scan does to the table; here paths are  *)
(* byte texts, so the ranges that stand for "below this root" are the      *)
(* code's, and so are the rows' keys: a row has the text by which the walk *)
(* came to its file, and a root given as "/a/" or "//" leads to other      *)
(* texts than "/a".  Only the bounds of a cleanup trim a root.  Exclusions *)
(* and what became of a single root that is no directory are Scanner's.    *)
(* Rows stamped by an earlier process carry older generations.             *)
(***************************************************************************)
EXTENDS Text

CONSTANTS
    Slash, Zero,        \* the bytes '/' and '0', its successor
    Universe,           \* texts of absolute paths, several for one file
    Requests,           \* sequences of roots to refresh, as they were given
    Tables,             \* tables the process may start with: ids of some paths
    Batch,              \* rows per page of the cleanup
    PageBits, MaxPages, \* ids per page of the bitmap, and its limit
    MaxScans, MaxClock  \* bounds (and one change of the disk per scan)

VARIABLES
    disk,      \* what each path leads to: a version of a file, or "none"
    files,     \* the files table: id, version and generation of each path's row
    last,      \* LAST_GENERATION
    scan,      \* the running refresh
    old        \* the table, and the disk, when the refresh began

vars == <<disk, files, last, scan, old>>

Versions == {"v1", "v2"}
Row(id, val, gen) == [id |-> id, val |-> val, gen |-> gen]
NoRow == Row(0, "none", 0)

Rows(t) == {p \in Universe : t[p] # NoRow}

Idle == [pc |-> "idle", roots |-> <<>>, exact |-> TRUE, gen |-> 0, todo |-> {}, warned |-> FALSE,
         seen |-> {}, pages |-> {}, exceeded |-> FALSE,
         root |-> 1, cursor |-> <<>>, first |-> TRUE, stale |-> {}, more |-> FALSE]

(* path_prefix_bounds *)

\* trim_end_matches('/'), except that the root directory stays.
Trim(root) ==
    LET ends == {n \in 0 .. Len(root) : \A i \in n + 1 .. Len(root) : root[i] = Slash}
    IN  IF Min(ends) = 0 THEN SubSeq(root, 1, 1) ELSE SubSeq(root, 1, Min(ends))

SweepAssumption ==
    /\ Slash \in Nat /\ Zero = Slash + 1
    /\ IsFiniteSet(Universe) /\ Universe \subseteq Seq(Nat)
    /\ \A p \in Universe : p # <<>> /\ p[1] = Slash
    /\ Requests \subseteq Seq(Universe) \ {<<>>}
    /\ \A t \in Tables :
          /\ DOMAIN t \subseteq Universe /\ \A p \in DOMAIN t : t[p] \in Int
          /\ \A p, q \in DOMAIN t : p # q => t[p] # t[q]
    /\ Batch \in Nat \ {0} /\ PageBits \in Nat \ {0} /\ MaxPages \in Nat
    /\ MaxScans \in Nat /\ MaxClock \in Nat

Lower(root) == IF root = <<Slash>> THEN root ELSE Append(root, Slash)
Upper(root) == [Lower(root) EXCEPT ![Len(Lower(root))] = Zero]

AtLeast(p, bound) == p = bound \/ LexLess(bound, p)

\* path = root OR (path >= lower AND path < upper)
InRange(p, root) == p = root \/ (AtLeast(p, Lower(root)) /\ LexLess(p, Upper(root)))

Ranges(roots) == {p \in Universe : \E i \in 1 .. Len(roots) : InRange(p, Trim(roots[i]))}

(* What a walk meets *)

\* Path::join puts a slash before a name, unless there is one.
Joined(p) == IF p[Len(p)] = Slash THEN p ELSE Append(p, Slash)

\* The texts of what is below p: names joined to it, one after the other.
Entries(p) ==
    {q \in Universe :
        /\ IsStrictPrefix(Joined(p), q) /\ q[Len(q)] # Slash
        /\ \A i \in Len(Joined(p)) .. Len(q) - 1 : q[i] = Slash => q[i + 1] # Slash}

\* The texts by which a walk of the roots comes to files.
Walk(roots) ==
    {p \in Universe : \E i \in 1 .. Len(roots) : p = roots[i] \/ p \in Entries(roots[i])}

\* What the kernel reads of a path: repeated slashes and those at its end are nothing.
Lookup(p) ==
    LET Reads(i) == p[i] = Slash => i < Len(p) /\ p[i + 1] # Slash
        at == SelectSeq([i \in 1 .. Len(p) |-> i], Reads)
    IN  [k \in DOMAIN at |-> p[at[k]]]

SameFile == [p \in Universe |-> {q \in Universe : Lookup(q) = Lookup(p)}]

\* A file has one state, nothing is below what is not there, and / always is.
Coherent(d) ==
    \A p \in Universe :
        /\ \A q \in SameFile[p] : d[p] = d[q]
        /\ d[p] = "none" => Lookup(p) # <<>> /\ \A q \in Entries(p) : d[q] = "none"

Init ==
    /\ disk = [p \in Universe |-> "v1"]
    /\ files \in {[p \in Universe |-> IF p \in DOMAIN t THEN Row(t[p], "v1", 1) ELSE NoRow]
                    : t \in Tables}
    /\ last = 1 /\ scan = Idle /\ old = [files |-> files, disk |-> disk]

-----------------------------------------------------------------------------
(* SeenIds *)

\* div_euclid: a divisor above zero rounds down.
Page(id) == id \div PageBits

See(s, id) ==
    IF Page(id) \in s.pages \/ Cardinality(s.pages) < MaxPages
      THEN [s EXCEPT !.seen = @ \cup {id}, !.pages = @ \cup {Page(id)}]
      ELSE [s EXCEPT !.exceeded = TRUE]

-----------------------------------------------------------------------------
(* The refresh *)

\* next_index_generation: later than every scan of this process.
Generation(wall) == Max({wall, last + 1})

\* lstat of a root finds nothing: refresh_path deletes, refresh_roots warns.
Gone(roots) == \E i \in 1 .. Len(roots) : disk[roots[i]] = "none"

\* BEGIN, the generation, and the upsert statement: exact with a bitmap, or legacy.
Start(roots, exact) ==
    \E wall \in 1 .. MaxClock :
        /\ last' = Generation(wall)
        /\ scan' = [Idle EXCEPT !.pc = IF Len(roots) = 1 /\ Gone(roots) THEN "gone" ELSE "walk",
                                !.roots = roots, !.exact = exact, !.gen = Generation(wall),
                                !.warned = Gone(roots),
                                !.todo = {p \in Walk(roots) : disk[p] # "none"}]

\* A refresh the watcher asks for; legacy while an older generation cleanup is due.
Begin ==
    /\ scan.pc = "idle" /\ last < MaxScans
    /\ \E r \in Requests, exact \in BOOLEAN : Start(r, exact)
    /\ old' = [files |-> files, disk |-> disk] /\ UNCHANGED <<disk, files>>

\* refresh_path of a path that is gone: delete_path_prefix, which trims it.
Vanished ==
    /\ scan.pc = "gone"
    /\ files' = [p \in Universe |-> IF InRange(p, Trim(scan.roots[1])) THEN NoRow ELSE files[p]]
    /\ scan' = [scan EXCEPT !.pc = "done", !.warned = FALSE] /\ UNCHANGED <<disk, last, old>>

\* INTEGER PRIMARY KEY: one more than the largest id.
NewId == Max({0} \cup {files[p].id : p \in Rows(files)}) + 1

\* An exact scan leaves a row whose fields are the same alone.
Stamps(p) == ~(scan.exact /\ files[p].val = disk[p])

\* What the walk may come to next: a directory is before its entries.
Nearest == {p \in scan.todo : \A q \in scan.todo : p \notin Entries(q)}

\* FileUpsert::upsert, keyed by the path; the exact one notes the id it finds
\* or writes.
Visit ==
    /\ scan.pc = "walk" /\ ~scan.exceeded
    /\ \E p \in Nearest :
          LET id == IF files[p] = NoRow THEN NewId ELSE files[p].id
              s  == [scan EXCEPT !.todo = @ \ {p}]
          IN  /\ files' = IF Stamps(p) THEN [files EXCEPT ![p] = Row(id, disk[p], scan.gen)]
                                       ELSE files
              /\ scan' = IF scan.exact THEN See(s, id) ELSE s
    /\ UNCHANGED <<disk, last, old>>

\* A path that cannot be read: a warning, and neither it nor its entries are visited.
Unreadable ==
    /\ scan.pc = "walk" /\ ~scan.exceeded
    /\ \E p \in Nearest :
          scan' = [scan EXCEPT !.todo = @ \ ({p} \cup Entries(p)), !.warned = TRUE]
    /\ UNCHANGED <<disk, files, last, old>>

\* The walk is over: an incomplete exact scan is rolled back and run again as a
\* legacy one; an incomplete legacy scan defers its cleanup.
Walked ==
    /\ scan.pc = "walk" /\ (scan.exceeded \/ scan.todo = {})
    /\ \/ /\ scan.exact /\ (scan.exceeded \/ scan.warned)
          /\ files' = old.files /\ Start(scan.roots, FALSE)
       \/ /\ scan.exact /\ ~(scan.exceeded \/ scan.warned) /\ UNCHANGED <<files, last>>
          /\ scan' = [scan EXCEPT !.pc = "select", !.cursor = Trim(scan.roots[1])]
       \/ /\ ~scan.exact /\ UNCHANGED <<files, last>>
          /\ scan' = [scan EXCEPT !.pc = IF scan.warned THEN "done" ELSE "stale"]
    /\ UNCHANGED <<disk, old>>

\* delete_stale_under_roots: one DELETE per root.
DeleteStale ==
    /\ scan.pc = "stale"
    /\ files' = [p \in Universe |->
                    IF files[p].gen < scan.gen /\ InRange(p, Trim(scan.roots[scan.root]))
                      THEN NoRow ELSE files[p]]
    /\ scan' = [scan EXCEPT !.root = @ + 1,
                            !.pc = IF scan.root = Len(scan.roots) THEN "done" ELSE @]
    /\ UNCHANGED <<disk, last, old>>

-----------------------------------------------------------------------------
(* delete_unseen_under_roots *)

\* A slip: descendants are everything between the root and the upper bound.
SlipCandidate(p, root) == AtLeast(p, scan.cursor) /\ LexLess(p, Upper(root))
                          /\ (LexLess(scan.cursor, p) \/ scan.first)

\* SCANNER_CANDIDATES_SQL without its LIMIT.
Candidate(p, root) ==
    /\ AtLeast(p, scan.cursor) /\ LexLess(p, Upper(root))
    /\ LexLess(scan.cursor, p) \/ scan.first
    /\ p = root \/ AtLeast(p, Lower(root))

\* ORDER BY path LIMIT: the first of the rows, in path order.
FirstPages(all) ==
    {page \in SUBSET all : /\ Cardinality(page) = Min({Batch, Cardinality(all)})
                           /\ \A p \in page, q \in all \ page : LexLess(p, q)}

\* Where the cursor is after a page: at its last row.
After(page) == {p \in page \cup {scan.cursor} : \A q \in page : AtLeast(p, q)}

\* One page of the candidates.
Select ==
    /\ scan.pc = "select"
    /\ LET all == {p \in Rows(files) : Candidate(p, Trim(scan.roots[scan.root]))}
       IN  \E page \in FirstPages(all) : \E top \in After(page) :
              scan' = [scan EXCEPT
                  !.pc = "delete", !.more = Cardinality(page) = Batch, !.cursor = top,
                  !.stale = {p \in page : files[p].id \notin scan.seen}]
    /\ UNCHANGED <<disk, files, last, old>>

\* The page's unseen rows, after its cursor is closed; then the next page or root.
DeletePage ==
    /\ scan.pc = "delete"
    /\ files' = [p \in Universe |-> IF p \in scan.stale THEN NoRow ELSE files[p]]
    /\ scan' = IF scan.more THEN [scan EXCEPT !.pc = "select", !.first = FALSE, !.stale = {}]
               ELSE IF scan.root = Len(scan.roots) THEN [scan EXCEPT !.pc = "done", !.stale = {}]
               ELSE [scan EXCEPT !.pc = "select", !.root = @ + 1, !.first = TRUE, !.stale = {},
                                 !.cursor = Trim(scan.roots[scan.root + 1])]
    /\ UNCHANGED <<disk, last, old>>

\* COMMIT.
Commit ==
    /\ scan.pc = "done" /\ scan' = Idle /\ UNCHANGED <<disk, files, last, old>>

\* An error: finish_write rolls back.
Fail ==
    /\ scan.pc # "idle" /\ scan' = Idle /\ files' = old.files /\ UNCHANGED <<disk, last, old>>

\* Between two refreshes a file is written, made, or removed with all that is below.
Change ==
    /\ scan.pc = "idle" /\ last < MaxScans /\ disk = old.disk
    /\ \E p \in Universe, v \in Versions \cup {"none"} :
          LET inside == UNION {Entries(q) : q \in SameFile[p]}
          IN  /\ v # disk[p]
              /\ disk' = [q \in Universe |->
                             IF q \in SameFile[p] \/ (v = "none" /\ q \in inside) THEN v
                             ELSE disk[q]]
              /\ Coherent(disk')
    /\ UNCHANGED <<files, last, scan, old>>

Refresh == Vanished \/ Visit \/ Walked \/ DeleteStale \/ Select \/ DeletePage \/ Commit

Next == Begin \/ Refresh \/ Unreadable \/ Fail \/ Change

Spec == Init /\ [][Next]_vars

-----------------------------------------------------------------------------
\* A refresh about to commit leaves, in the ranges of its roots, exactly the rows
\* of what its walk met, by the texts it met it by: a row that another spelling of a
\* root left there goes.  A scan that could not read everything deletes nothing and
\* leaves alone what it did not read; rows beside the roots, whose paths sort between a
\* root and its last descendant or just after it, are untouched; ids stay distinct.
SweepExact ==
    scan.pc = "done" =>
        LET found == {p \in Walk(scan.roots) : disk[p] # "none"}
        IN  /\ \A p \in found :
                  files[p].val = disk[p] \/ (scan.warned /\ files[p] = old.files[p])
            /\ \A p \in Universe \ found :
                  files[p] = IF p \in Ranges(scan.roots) /\ ~scan.warned THEN NoRow
                             ELSE old.files[p]
            /\ \A p, q \in Rows(files) : p # q => files[p].id # files[q].id

\* "Complete refreshes preserve unchanged rows" (scanner.rs:21): an exact scan
\* writes no row whose file is as it was, and a row's id survives every upsert, so
\* packed copies keyed by id stay valid.  (A row under another spelling is another
\* row: it was not unchanged, it goes.)
UnchangedRowsKept ==
    scan.pc \in {"select", "delete", "done"} =>
        \A p \in Rows(old.files) \cap Rows(files) :
            /\ files[p].id = old.files[p].id
            /\ scan.exact /\ old.files[p].val = disk[p] => files[p] = old.files[p]
=============================================================================
