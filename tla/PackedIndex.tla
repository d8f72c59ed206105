---------------------------- MODULE PackedIndex -----------------------------
(***************************************************************************)
(* The packed copy of the files table that the search service keeps in     *)
(* memory: physical slots in id order, tombstones for deleted rows, and    *)
(* the counters that decide when a delta is refused and all is reloaded.   *)
(*                                                                         *)
(* A row's path stands for its four strings, its meta for everything else. *)
(* The strings of one row count as one unit of dead_strings.               *)
(***************************************************************************)
EXTENDS ContentJournal, Sequences, SequencesExt

CONSTANTS MaxDeadRecords,   \* DeltaLimits.dead_records
          MaxDeadStrings,   \* DeltaLimits.dead_strings
          MaxDiffChanges    \* SnapshotDiffLimits.max_changes

ASSUME PackedAssumption ==
    /\ MaxDeadRecords \in Nat
    /\ MaxDeadStrings \in Nat
    /\ MaxDiffChanges \in Nat

\* strings counts every row ever packed into the arenas.
EmptyIndex ==
    [slots |-> <<>>, ids_sorted |-> TRUE, len |-> 0,
     dead_records |-> 0, dead_strings |-> 0, strings |-> 0]

\* append
Append1(ix, i, row) ==
    [ix EXCEPT !.ids_sorted = @ /\ (ix.slots = <<>> \/ Last(ix.slots).id < i),
               !.slots = Append(@, [id |-> i, row |-> row, live |-> TRUE]),
               !.len = @ + 1,
               !.strings = @ + 1]

\* CompactIndex::load: packed[n] holds the rows with ids up to n.
load(f) ==
    LET packed[n \in 0 .. MaxId] ==
            IF n = 0 THEN EmptyIndex
            ELSE IF f[n] = Absent THEN packed[n - 1]
            ELSE Append1(packed[n - 1], n, f[n])
    IN  packed[MaxId]

\* find_id: binary search in slots[low + 1 .. high]; 0 is None.
find_id(ix, i) ==
    LET n == Len(ix.slots)
        find[r \in (0 .. n) \X (0 .. n)] ==
            LET middle == r[1] + (r[2] - r[1]) \div 2
            IN  IF r[1] >= r[2] THEN 0
                ELSE IF ix.slots[middle + 1].id < i THEN find[<<middle + 1, r[2]>>]
                ELSE IF ix.slots[middle + 1].id > i THEN find[<<r[1], middle>>]
                ELSE middle + 1
    IN  find[<<0, n>>]

-----------------------------------------------------------------------------
(* apply_changes.  c maps ids to rows, or to Absent for a deletion.        *)

\* A new id that is not the largest cannot be put between the slots.
NonMonotonic(ix, c) ==
    \E i \in DOMAIN c : /\ c[i] # Absent
                        /\ find_id(ix, i) = 0
                        /\ ix.slots # <<>>
                        /\ i < Last(ix.slots).id

\* A slip: the bytes of a revived row stay counted as dead.
account_no_revival(ix, i, row) ==
    LET s == find_id(ix, i)
    IN  IF s = 0 THEN [ix EXCEPT !.len = IF row = Absent THEN @ ELSE @ + 1]
        ELSE LET old  == ix.slots[s]
                 same == row # Absent /\ row.path = old.row.path
             IN  IF row = Absent
                 THEN [ix EXCEPT !.dead_records = IF old.live THEN @ + 1 ELSE @,
                                 !.dead_strings = IF old.live THEN @ + 1 ELSE @,
                                 !.len = IF old.live THEN @ - 1 ELSE @]
                 ELSE [ix EXCEPT !.dead_records = IF old.live THEN @ ELSE @ - 1,
                                 !.dead_strings = IF old.live /\ ~same THEN @ + 1 ELSE @,
                                 !.len = IF old.live THEN @ ELSE @ + 1]

\* The counters the plan expects once the change of i to row is applied.
account(ix, i, row) ==
    LET s == find_id(ix, i)
    IN  IF s = 0 THEN [ix EXCEPT !.len = IF row = Absent THEN @ ELSE @ + 1]
        ELSE LET old  == ix.slots[s]
                 same == row # Absent /\ row.path = old.row.path
             IN  IF row = Absent
                 THEN [ix EXCEPT !.dead_records = IF old.live THEN @ + 1 ELSE @,
                                 !.dead_strings = IF old.live THEN @ + 1 ELSE @,
                                 !.len = IF old.live THEN @ - 1 ELSE @]
                 ELSE [ix EXCEPT !.dead_records = IF old.live THEN @ ELSE @ - 1,
                                 !.dead_strings = IF old.live THEN (IF same THEN @ ELSE @ + 1)
                                                  ELSE (IF same THEN @ - 1 ELSE @),
                                 !.len = IF old.live THEN @ ELSE @ + 1]

\* The plan looks every slot up before anything changes: planned[n] accounts for
\* the changes of ids up to n.
Planned(ix, c) ==
    LET planned[n \in 0 .. MaxId] ==
            IF n = 0 THEN ix
            ELSE IF n \notin DOMAIN c THEN planned[n - 1]
            ELSE account(planned[n - 1], n, c[n])
    IN  planned[MaxId]

OverBudget(ix, c) ==
    \/ Planned(ix, c).dead_records > MaxDeadRecords
    \/ Planned(ix, c).dead_strings > MaxDeadStrings

\* ApplyOutcome::NeedsFullReload, decided before any change.
NeedsFullReload(ix, c) == ~ix.ids_sorted \/ NonMonotonic(ix, c) \/ OverBudget(ix, c)

\* A slip: a row whose strings are unchanged only gets its metadata, and a
\* tombstone stays one.
ApplyOne_no_revival(ix, i, row, s) ==
    IF row = Absent THEN (IF s = 0 THEN ix ELSE [ix EXCEPT !.slots[s].live = FALSE])
    ELSE IF s = 0 THEN Append1(ix, i, row)
    ELSE IF ix.slots[s].row.path = row.path THEN [ix EXCEPT !.slots[s].row = row]
    ELSE [ix EXCEPT !.slots[s].row = row, !.slots[s].live = TRUE, !.strings = @ + 1]

\* One change carried out at the slot s the plan found for it.
ApplyOne(ix, i, row, s) ==
    IF row = Absent THEN (IF s = 0 THEN ix ELSE [ix EXCEPT !.slots[s].live = FALSE])
    ELSE IF s = 0 THEN Append1(ix, i, row)
    ELSE [ix EXCEPT !.slots[s].row = row,
                    !.slots[s].live = TRUE,
                    !.strings = IF ix.slots[s].row.path = row.path THEN @ ELSE @ + 1]

\* The changes of ids up to MaxId in ascending order, each at its planned slot.
Changed(ix, c) ==
    LET changed[n \in 0 .. MaxId] ==
            IF n = 0 THEN ix
            ELSE IF n \notin DOMAIN c THEN changed[n - 1]
            ELSE ApplyOne(changed[n - 1], n, c[n], find_id(ix, n))
    IN  changed[MaxId]

\* ApplyOutcome::Applied
Applied(ix, c) ==
    LET p == Planned(ix, c)
    IN  [Changed(ix, c) EXCEPT !.len = p.len, !.dead_records = p.dead_records,
                               !.dead_strings = p.dead_strings]

-----------------------------------------------------------------------------
(* snapshot_diff.                                                          *)

\* The live row of id i in the index.
Held(ix, i) ==
    LET S == {s \in DOMAIN ix.slots : ix.slots[s].id = i /\ ix.slots[s].live}
    IN  IF S = {} THEN Absent ELSE ix.slots[CHOOSE s \in S : TRUE].row

\* What a search of the index sees.
Contents(ix) == [i \in Ids |-> Held(ix, i)]

DiffIds(ix, f) == {i \in Ids : Held(ix, i) # f[i]}

\* A row whose id is in no slot and below the last one, or too many changes.
DiffRefused(ix, f) ==
    \/ ~ix.ids_sorted
    \/ NonMonotonic(ix, f)
    \/ Cardinality(DiffIds(ix, f)) > MaxDiffChanges

Diff(ix, f) == [i \in DiffIds(ix, f) |-> f[i]]

-----------------------------------------------------------------------------
\* The counters are what they count: the live rows, the tombstones, and the
\* packed strings that no live row uses.
CountersExact(ix) ==
    LET live == {s \in DOMAIN ix.slots : ix.slots[s].live}
    IN  /\ ix.len = Cardinality(live)
        /\ ix.dead_records = Len(ix.slots) - ix.len
        /\ ix.dead_strings = ix.strings - ix.len

\* Slots are in id order, which find_id depends on.
SlotsSorted(ix) ==
    ix.ids_sorted => \A s, t \in DOMAIN ix.slots : s < t => ix.slots[s].id < ix.slots[t].id
=============================================================================
