--------------------------- MODULE MetadataBlock ----------------------------
(***************************************************************************)
(* The numbers of a block of packed rows.  A block starts narrow: a field  *)
(* is a short code, the distance from a base fixed by the first value of   *)
(* the field, or, outside that span, the index of an escape entry that     *)
(* holds the value.  Vacant escapes form a list inside the escape table.   *)
(* When the escapes would cost more than they save, the block becomes      *)
(* wide, once.  A slot is one of 0 .. Len(escapes) - 1, as in the code.    *)
(***************************************************************************)
EXTENDS Integers, Sequences, FiniteSets, SequencesExt

CONSTANTS FieldCount,   \* METADATA_FIELDS
          HalfRange,    \* 2^63: a value is an i64
          INLINE_SPAN,
          Capacity,     \* rows.capacity(): the rows of the block
          MaxRows,      \* bound: the rows pushed
          NoValue       \* None

Fields == 1 .. FieldCount
MinValue == -HalfRange
Values == MinValue .. HalfRange - 1
Input == [Fields -> Values \cup {NoValue}]

ASSUME MetadataAssumption ==
    /\ FieldCount \in Nat \ {0}
    /\ HalfRange \in Nat \ {0}
    /\ INLINE_SPAN \in Nat
    /\ Capacity \in Nat
    /\ MaxRows \in 0 .. Capacity
    /\ NoValue \notin Int

VARIABLES block,    \* MetadataBlock
          stored    \* what was last written to each row
vars == <<block, stored>>

\* The bit above every inline code.
ESCAPED_VALUE == INLINE_SPAN + 1
Escaped(code) == code >= ESCAPED_VALUE
SlotOf(code) == code - ESCAPED_VALUE

NarrowBlock ==
    [wide |-> FALSE, bases |-> [f \in Fields |-> 0], initialized |-> {}, rows |-> <<>>,
     escapes |-> <<>>, free_head |-> -1, free_count |-> 0]

WideBlock(values) == [wide |-> TRUE, values |-> values]

\* narrow_fits: four bytes a code and eight an escape, against eight a value.
narrow_fits(b, additional) ==
    4 * FieldCount * Capacity + 8 * (Len(b.escapes) + additional) + 8 * FieldCount
        <= 8 * FieldCount * Capacity

decode(b, code, f) ==
    IF Escaped(code) THEN b.escapes[SlotOf(code) + 1] ELSE b.bases[f] + code

\* MetadataBlock::value
value(b, row, f) == IF b.wide THEN b.values[row][f] ELSE decode(b, b.rows[row][f], f)

make_wide(b) ==
    WideBlock([row \in DOMAIN b.rows |-> [f \in Fields |-> decode(b, b.rows[row][f], f)]])

-----------------------------------------------------------------------------
(* prepare and write of NarrowMetadata.                                    *)

\* The first value of a field fixes its base, half a span below it.
prepare(b, in) ==
    LET first == {f \in Fields : in[f] # NoValue} \ b.initialized
        base(v) == IF v - INLINE_SPAN \div 2 < MinValue THEN MinValue ELSE v - INLINE_SPAN \div 2
    IN  [b EXCEPT !.initialized = @ \cup first,
                  !.bases = [f \in Fields |-> IF f \in first THEN base(in[f]) ELSE @[f]]]

\* The codes that prepare returns: Some for the fields that are Inline.
Inline(b, in, f) == in[f] = NoValue \/ in[f] - b.bases[f] \in 0 .. INLINE_SPAN

InlineCode(b, in, f) == IF in[f] = NoValue THEN 0 ELSE in[f] - b.bases[f]

\* A slip: the head of the list moves, the old head is not linked.
release_unlinked(b, in, old, f) ==
    IF ~(Escaped(old[f]) /\ Inline(b, in, f)) THEN b
    ELSE [b EXCEPT !.escapes[SlotOf(old[f]) + 1] = -1,
                   !.free_head = SlotOf(old[f]),
                   !.free_count = @ + 1]

\* The escape of a field that no longer needs one is put on the free list.
release(b, in, old, f) ==
    IF ~(Escaped(old[f]) /\ Inline(b, in, f)) THEN b
    ELSE [b EXCEPT !.escapes[SlotOf(old[f]) + 1] = b.free_head,
                   !.free_head = SlotOf(old[f]),
                   !.free_count = @ + 1]

\* An escape for field f: the one it has, a vacant one, or a new one.
obtain(b, old, f) ==
    IF Escaped(old[f]) THEN [block |-> b, slot |-> SlotOf(old[f])]
    ELSE IF b.free_head >= 0
    THEN [block |-> [b EXCEPT !.free_head = b.escapes[b.free_head + 1], !.free_count = @ - 1],
          slot |-> b.free_head]
    ELSE [block |-> [b EXCEPT !.escapes = Append(@, 0)], slot |-> Len(b.escapes)]

\* The code of field f joins those of the fields before it.
encode(done, in, old, f) ==
    IF Inline(done.block, in, f)
    THEN [done EXCEPT !.codes = Append(@, InlineCode(done.block, in, f))]
    ELSE LET o == obtain(done.block, old, f)
         IN  [block |-> [o.block EXCEPT !.escapes[o.slot + 1] = in[f]],
              codes |-> Append(done.codes, o.slot + ESCAPED_VALUE)]

\* Every release comes before the first escape is taken.
narrow_write(b, row, in, old) ==
    LET order == [f \in Fields |-> f]
        freed == FoldLeft(LAMBDA x, f : release(x, in, old, f), b, order)
        all   == FoldLeft(LAMBDA x, f : encode(x, in, old, f),
                          [block |-> freed, codes |-> <<>>], order)
    IN  [all.block EXCEPT !.rows = IF row > Len(@) THEN Append(@, all.codes)
                                   ELSE [@ EXCEPT ![row] = all.codes]]

-----------------------------------------------------------------------------
(* MetadataBlock::write, by push and update.                               *)

\* Escapes that the write needs beyond those it has or finds vacant.
Additional(b, in, old) ==
    LET needed == Cardinality({f \in Fields : ~Inline(b, in, f)})
        at_hand == Cardinality({f \in Fields : Escaped(old[f])}) + b.free_count
    IN  IF needed > at_hand THEN needed - at_hand ELSE 0

Set(s, row, x) == IF row > Len(s) THEN Append(s, x) ELSE [s EXCEPT ![row] = x]

wide_write(b, row, in) ==
    WideBlock(Set(b.values, row, [f \in Fields |-> IF in[f] = NoValue THEN 0 ELSE in[f]]))

\* overshoot: a growing escape table got more memory than it asked for.
Write(row, in, overshoot) ==
    /\ stored' = Set(stored, row, in)
    /\ IF block.wide THEN block' = wide_write(block, row, in) /\ ~overshoot
       ELSE LET b     == prepare(block, in)
                old   == IF row > Len(b.rows) THEN [f \in Fields |-> 0] ELSE b.rows[row]
                extra == Additional(b, in, old)
            IN  /\ overshoot => extra > 0
                /\ block' = IF narrow_fits(b, extra) /\ ~overshoot
                            THEN narrow_write(b, row, in, old)
                            ELSE wide_write(make_wide(b), row, in)

push(in, overshoot) == Len(stored) < MaxRows /\ Write(Len(stored) + 1, in, overshoot)

update(row, in, overshoot) == Write(row, in, overshoot)

Init ==
    /\ block = IF narrow_fits(NarrowBlock, 0) THEN NarrowBlock ELSE make_wide(NarrowBlock)
    /\ stored = <<>>

Next ==
    \E in \in Input, overshoot \in BOOLEAN :
        push(in, overshoot) \/ \E row \in DOMAIN stored : update(row, in, overshoot)

Spec == Init /\ [][Next]_vars

-----------------------------------------------------------------------------
\* Every value reads back as it was last written, through any sequence of
\* updates that escape, release, reuse and widen; what a NULL decodes to does
\* not matter, the row's presence bits say so.
ValuesExact ==
    \A row \in DOMAIN stored, f \in Fields :
        stored[row][f] # NoValue => value(block, row, f) = stored[row][f]

\* The k-th entry of the free list, from 0.
Vacant ==
    LET at[k \in 0 .. block.free_count] ==
            IF k = 0 THEN block.free_head
            ELSE IF at[k - 1] < 0 THEN -1 ELSE block.escapes[at[k - 1] + 1]
    IN  at

\* Every escape entry belongs to exactly one field of one row or to the free
\* list, the list has free_count entries and ends: nothing leaks, nothing is
\* shared.
EscapesOwned ==
    ~block.wide =>
        LET owners(s) == {x \in (DOMAIN block.rows) \X Fields :
                             block.rows[x[1]][x[2]] = s + ESCAPED_VALUE}
            free == {Vacant[k] : k \in 0 .. block.free_count - 1}
        IN  /\ Vacant[block.free_count] = -1
            /\ Cardinality(free) = block.free_count
            /\ \A s \in 0 .. Len(block.escapes) - 1 :
                  Cardinality(owners(s)) = IF s \in free THEN 0 ELSE 1
=============================================================================
