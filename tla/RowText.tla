------------------------------ MODULE RowText -------------------------------
(***************************************************************************)
(* The strings of the packed rows (compact_index.rs): four texts of a row, *)
(* the lowered path, the path, the basename and the lowered basename, are  *)
(* written to an arena so that a text that ends an earlier one is not      *)
(* written again.  A row keeps two slices, two lengths and two parents,    *)
(* from which the readers derive the other slices.  The parent directory   *)
(* of a path with capitals may come from the prefix pool instead.          *)
(*                                                                         *)
(* A slot s holds the row of id s.  Where a delta is refused for its       *)
(* budgets or the order of its ids is PackedIndex's subject; here a change *)
(* is one row, and what counts are its bytes.                              *)
(***************************************************************************)
EXTENDS PrefixPool

CONSTANTS
    Slash,        \* the byte '/'
    Rows,         \* rows of the files table: path, path_lower (empty: NULL),
                  \* basename, basename_lower, ext (NoExt: NULL)
    NoExt, NoRow,
    to_lowercase, \* of every path in Rows
    MIN_PREFIX_BYTES,
    ArenaBytes,   \* ARENA_BYTES
    SliceMax,     \* u32::MAX: the largest end of a slice
    MaxSlots, MaxArenas   \* bounds: slots, and arenas begun

RowTextAssumption == ArenaBytes <= SliceMax

VARIABLES
    table,      \* the row of each slot in the database, or NoRow
    index,      \* CompactIndex: arenas, records, extensions, dead_string_bytes
    last_prefix,\* of the builder while the index is loaded
    served      \* the index is loaded
vars == <<table, index, last_prefix, served, pool, hash>>

NO_TEXT_PARENT == 3

-----------------------------------------------------------------------------
(* Writing                                                                 *)

\* RowText::new and row_to_record: a NULL or empty path_lower is computed.
Lowered(row) == IF row.path_lower = <<>> THEN to_lowercase[row.path] ELSE row.path_lower

\* The four fields; the path without the prefix that the pool holds for it.
FieldsOf(row, prefix) ==
    << Lowered(row), SubSeq(row.path, Len(prefix) + 1, Len(row.path)),
       row.basename, row.basename_lower >>

\* RowLayout: the first earlier field that ends with field i, counted from 0.
Parent(fields, i) ==
    LET ends == {j \in 1 .. i - 1 : IsSuffix(fields[i], fields[j])}
    IN  IF ends = {} THEN NO_TEXT_PARENT ELSE Min(ends) - 1

Written(fields, i) == IF Parent(fields, i) = NO_TEXT_PARENT THEN Len(fields[i]) ELSE 0
Required(fields) == FoldLeft(+, 0, [i \in 1 .. 4 |-> Written(fields, i)])

LayoutFits(fields) ==
    (\A i \in 1 .. 4 : Len(fields[i]) <= SliceMax) /\ Required(fields) <= SliceMax

raw_layout_needs_exact_check(fields) ==
    FoldLeft(+, 0, [i \in 1 .. 4 |-> Len(fields[i])]) > SliceMax

\* RowText::new succeeds; decided before a delta changes anything.
Accepted(row) ==
    raw_layout_needs_exact_check(FieldsOf(row, <<>>)) => LayoutFits(FieldsOf(row, <<>>))

\* path.rfind('/'): the parent with its slash, if it is long enough to share.
ParentPath(path) ==
    LET slashes == {i \in DOMAIN path : path[i] = Slash}
        length  == IF slashes = {} THEN 0 ELSE Max(slashes)
    IN  IF length >= MIN_PREFIX_BYTES THEN SubSeq(path, 1, length) ELSE <<>>

Shares(row) == row.path # Lowered(row) /\ ParentPath(row.path) # <<>>
Hinted(p, row, hint) == hint < Len(p.values) /\ p.values[hint + 1] = ParentPath(row.path)

\* The pool after the row's parent was looked up by the hint or interned.
PoolFor(p, row, hint) ==
    IF ~Shares(row) \/ Hinted(p, row, hint) THEN p ELSE intern(p, ParentPath(row.path), 0)

\* The id of the row's prefix in that pool.
PrefixId(p, row, hint) ==
    IF ~Shares(row) THEN NO_PREFIX
    ELSE IF Hinted(p, row, hint) THEN hint
    ELSE lookup(p, ParentPath(row.path), hash[ParentPath(row.path)])

\* reserve_row: a row that does not fit what is left begins an arena, however
\* long it is.
NeedsArena(ix, bytes) == ix.arenas = <<>> \/ bytes > ArenaBytes - Len(Last(ix.arenas))
Reserved(ix, bytes) == IF NeedsArena(ix, bytes) THEN Append(ix.arenas, <<>>) ELSE ix.arenas

\* pack_record: the record and the arenas with its texts.
pack_record(ix, p, row, prefix, ext) ==
    LET f      == FieldsOf(row, Prefix(p, prefix))
        arenas == Reserved(ix, Required(f))
        base   == Len(Last(arenas))
        start[i \in 1 .. 4] ==
            IF Parent(f, i) = NO_TEXT_PARENT
              THEN base + FoldLeft(+, 0, [j \in 1 .. i - 1 |-> Written(f, j)])
              ELSE start[Parent(f, i) + 1] + Len(f[Parent(f, i) + 1]) - Len(f[i])
        text   == FoldLeft(LAMBDA t, i : IF Parent(f, i) = NO_TEXT_PARENT THEN t \o f[i] ELSE t,
                           <<>>, <<1, 2, 3, 4>>)
    IN  [arenas |-> [arenas EXCEPT ![Len(arenas)] = @ \o text],
         record |-> [path |-> [start |-> start[2], len |-> Len(row.path)],
                     path_lower |-> [start |-> start[1], len |-> Len(f[1])],
                     basename_len |-> Len(f[3]), basename_lower_len |-> Len(f[4]),
                     arena |-> Len(arenas), prefix |-> prefix, ext |-> ext, live |-> TRUE,
                     parents |-> <<Parent(f, 3), Parent(f, 4)>>]]

\* intern_extension: the dictionary and, from 1, the id in it; 0 is NO_EXTENSION.
Extended(exts, e) == IF e = NoExt \/ Contains(exts, e) THEN exts ELSE Append(exts, e)
ExtId(exts, e) == IF e = NoExt THEN 0 ELSE SelectInSeq(exts, LAMBDA x : x = e)

-----------------------------------------------------------------------------
(* Reading                                                                 *)

End(slice) == slice.start + slice.len
Suffix(slice, len) == [start |-> End(slice) - len, len |-> len]

\* get
Text(r, slice) == SubSeq(index.arenas[r.arena], slice.start + 1, End(slice))

\* record.path's length counts the shared prefix, its start does not.
path_suffix_slice(r) == [r.path EXCEPT !.len = @ - Len(Prefix(pool, r.prefix))]

basename_slice(r) ==
    CASE r.parents[1] = 0 -> Suffix(r.path_lower, r.basename_len)
      [] r.parents[1] = 1 -> Suffix(path_suffix_slice(r), r.basename_len)
      [] OTHER -> [start |-> Max({End(r.path_lower), End(path_suffix_slice(r))}),
                   len |-> r.basename_len]

basename_lower_slice(r) ==
    CASE r.parents[2] = 0 -> Suffix(r.path_lower, r.basename_lower_len)
      [] r.parents[2] = 1 -> Suffix(path_suffix_slice(r), r.basename_lower_len)
      [] r.parents[2] = 2 -> Suffix(basename_slice(r), r.basename_lower_len)
      [] OTHER -> [start |-> Max({End(r.path_lower), End(path_suffix_slice(r)),
                                  End(basename_slice(r))}),
                   len |-> r.basename_lower_len]

\* original_path
original_path(r) == Prefix(pool, r.prefix) \o Text(r, path_suffix_slice(r))

\* to_file_record: the texts of a row as searches and answers see them.
to_file_record(r) ==
    [path |-> original_path(r), path_lower |-> Text(r, r.path_lower),
     basename |-> Text(r, basename_slice(r)), basename_lower |-> Text(r, basename_lower_slice(r)),
     ext |-> IF r.ext = 0 THEN NoExt ELSE index.extensions[r.ext]]

\* A slip: the basename's own bytes are not looked at.
SlipRowStringBytes(r) == Max({End(path_suffix_slice(r)), End(r.path_lower)}) - r.path_lower.start

row_string_bytes(r) ==
    LET slices == {path_suffix_slice(r), r.path_lower, basename_slice(r), basename_lower_slice(r)}
    IN  Max({End(s) : s \in slices}) - Min({s.start : s \in slices})

same_strings(r, row) ==
    LET held == to_file_record(r)
    IN  /\ held.path = row.path /\ held.path_lower = Lowered(row)
        /\ held.basename = row.basename /\ held.basename_lower = row.basename_lower

-----------------------------------------------------------------------------
(* The index                                                               *)

Init ==
    /\ PoolInit
    /\ table = <<>>
    /\ index = [arenas |-> <<>>, records |-> <<>>, extensions |-> <<>>, dead_string_bytes |-> 0]
    /\ last_prefix = NO_PREFIX /\ served = FALSE

\* Both paths that write texts: the index with row packed for slot s.
Packed(row, s, hint, dead) ==
    LET p    == PoolFor(pool, row, hint)
        exts == Extended(index.extensions, row.ext)
        new  == pack_record(index, p, row, PrefixId(p, row, hint), ExtId(exts, row.ext))
    IN  /\ Len(new.arenas) <= MaxArenas
        /\ pool' = p
        /\ index' = [arenas |-> new.arenas, extensions |-> exts, dead_string_bytes |-> dead,
                     records |-> IF s > Len(index.records) THEN Append(index.records, new.record)
                                 ELSE [index.records EXCEPT ![s] = new.record]]
        /\ table' = IF s > Len(table) THEN Append(table, row) ELSE [table EXCEPT ![s] = row]
        /\ UNCHANGED hash

\* IndexBuilder::push, which remembers the last prefix.
Push(row) ==
    /\ ~served /\ Accepted(row) /\ Len(table) < MaxSlots
    /\ Packed(row, Len(table) + 1, last_prefix, 0)
    /\ last_prefix' = LET prefix == Last(index'.records).prefix
                      IN  IF prefix = NO_PREFIX THEN last_prefix ELSE prefix
    /\ UNCHANGED served

\* CompactIndex::load returns the builder's index.
Loaded ==
    /\ ~served /\ served' = TRUE /\ last_prefix' = NO_PREFIX
    /\ UNCHANGED <<table, index, pool, hash>>

\* A change of a delta: a new id.
AppendRow(row) ==
    /\ served /\ Accepted(row) /\ Len(table) < MaxSlots
    /\ Packed(row, Len(table) + 1, NO_PREFIX, index.dead_string_bytes)
    /\ UNCHANGED <<last_prefix, served>>

\* A change: other texts for a slot, live or a tombstone.
Rewrite(s, row) ==
    LET r == index.records[s]
    IN  /\ served /\ Accepted(row) /\ ~same_strings(r, row)
        /\ Packed(row, s, NO_PREFIX,
                  index.dead_string_bytes + IF r.live THEN row_string_bytes(r) ELSE 0)
        /\ UNCHANGED <<last_prefix, served>>

\* A change: the same texts; a tombstone is revived where it is.
Touch(s, row) ==
    LET r    == index.records[s]
        exts == Extended(index.extensions, row.ext)
    IN  /\ served /\ Accepted(row) /\ same_strings(r, row)
        /\ index' = [index EXCEPT
              !.extensions = exts,
              !.records[s].ext = ExtId(exts, row.ext), !.records[s].live = TRUE,
              !.dead_string_bytes = @ - IF r.live THEN 0 ELSE row_string_bytes(r)]
        /\ table' = [table EXCEPT ![s] = row]
        /\ UNCHANGED <<pool, hash, last_prefix, served>>

\* A change: the row is deleted and its slot becomes a tombstone.
Delete(s) ==
    LET r == index.records[s]
    IN  /\ served /\ r.live
        /\ index' = [index EXCEPT !.records[s].live = FALSE,
                                  !.dead_string_bytes = @ + row_string_bytes(r)]
        /\ table' = [table EXCEPT ![s] = NoRow]
        /\ UNCHANGED <<pool, hash, last_prefix, served>>

Next ==
    \/ \E row \in Rows : Push(row) \/ AppendRow(row)
    \/ Loaded
    \/ \E s \in DOMAIN index.records :
          Delete(s) \/ \E row \in Rows : Rewrite(s, row) \/ Touch(s, row)

Spec == Init /\ [][Next]_vars

-----------------------------------------------------------------------------
\* A live row reads back as the row of the database, text for text: through
\* shared suffixes, shared parents and texts written on their own, in its first
\* form or rewritten, revived and with other rows packed in between.
RowsReadBack ==
    \A s \in DOMAIN table : table[s] # NoRow =>
        /\ index.records[s].live
        /\ to_file_record(index.records[s]) = [table[s] EXCEPT !.path_lower = Lowered(table[s])]

\* The bytes counted as dead, on which the reload budget rests, are the bytes of
\* the arenas that no live row uses.
DeadBytesExact ==
    index.dead_string_bytes
      = FoldLeft(+, 0, [a \in DOMAIN index.arenas |-> Len(index.arenas[a])])
        - FoldLeft(+, 0, [s \in DOMAIN index.records |->
                            IF index.records[s].live THEN row_string_bytes(index.records[s]) ELSE 0])

\* A row that RowText::new accepts can be packed: after the preflight no slice of
\* it overflows, with its parent shared or not and whatever the arena holds.
PreflightSuffices ==
    \A row \in Rows : Accepted(row) =>
        LET p     == PoolFor(pool, row, NO_PREFIX)
            f     == FieldsOf(row, Prefix(p, PrefixId(p, row, NO_PREFIX)))
        IN  /\ LayoutFits(f)
            /\ Len(Last(Reserved(index, Required(f)))) + Required(f) <= SliceMax
=============================================================================
