---------------------------- MODULE MCPackedRows ----------------------------
(* What packed rows are made of: a behaviour is one of a metadata block, of   *)
(* a prefix pool alone, or of rows whose texts share a small pool.            *)
EXTENDS MetadataBlock

CONSTANTS NoExt, NoRow

VARIABLES part, pool, hash, table, index, last_prefix, served
poolvars == <<pool, hash>>
rowvars == <<table, index, last_prefix, served>>

-----------------------------------------------------------------------------
(* Texts of one, two and three bytes and every hash of them; the ids run out  *)
(* at the fourth, and the limit at the third unless its allocations are exact. *)

(* One of the four texts hashes to the first or to the last place.            *)

Pool == INSTANCE PrefixPool WITH
    NO_PREFIX <- 4, Values <- {<<1>>, <<2>>, <<1, 2>>, <<1, 2, 1>>}, Hashes <- 8,
    FirstValues <- 1, FirstSlots <- 2, EntryBytes <- 4, SlotBytes <- 1, PoolBytes <- 3,
    Limit <- 36, Slack <- 1

-----------------------------------------------------------------------------
(* Bytes: 0 '/', 1 a, 2 b, 3 A, 6 '..', and 4 a capital whose lower case is   *)
(* the two bytes 2 5.                                                         *)

Row(path, lower, basename, basename_lower, ext) ==
    [path |-> path, path_lower |-> lower, basename |-> basename,
     basename_lower |-> basename_lower, ext |-> ext]

\* /a/b; /a/A; a name with the capital, its lower case NULL; the same as an older
\* version left it, lowered in ASCII only; a root given with a last slash, /A/;
\* a root that ends in .., whose basename is the whole path; and a row with room
\* for its texts only while it shares its parent.
MCRows ==
    { Row(<<0, 1, 0, 2>>, <<0, 1, 0, 2>>, <<2>>, <<2>>, NoExt),
      Row(<<0, 1, 0, 3>>, <<0, 1, 0, 1>>, <<3>>, <<1>>, 1),
      Row(<<0, 1, 0, 4>>, <<>>, <<4>>, <<2, 5>>, NoExt),
      Row(<<0, 1, 0, 4>>, <<0, 1, 0, 4>>, <<4>>, <<2, 5>>, 2),
      Row(<<0, 3, 0>>, <<0, 1, 0>>, <<3>>, <<1>>, NoExt),
      Row(<<0, 3, 0, 6>>, <<0, 1, 0, 6>>, <<0, 3, 0, 6>>, <<0, 1, 0, 6>>, NoExt),
      Row(<<0, 3, 0, 3, 1, 3>>, <<>>, <<3, 1, 3>>, <<1, 1, 1>>, NoExt) }

LowerByte(b) == CASE b = 3 -> <<1>> [] b = 4 -> <<2, 5>> [] OTHER -> <<b>>

Texts == INSTANCE RowText WITH
    NO_PREFIX <- 9, Values <- {<<0, 1, 0>>, <<0, 3, 0>>}, Hashes <- 1,
    FirstValues <- 1, FirstSlots <- 2, EntryBytes <- 1, SlotBytes <- 1, PoolBytes <- 1,
    Limit <- 7, Slack <- 0, Slash <- 0, Rows <- MCRows,
    to_lowercase <- [p \in {row.path : row \in MCRows} |->
                       FoldLeft(LAMBDA t, b : t \o LowerByte(b), <<>>, p)],
    MIN_PREFIX_BYTES <- 2, ArenaBytes <- 9, SliceMax <- 10, MaxSlots <- 2, MaxArenas <- 3

-----------------------------------------------------------------------------
ASSUME PartsAssumption == Pool!PoolAssumption /\ Texts!PoolAssumption /\ Texts!RowTextAssumption

NoRows == table = 0 /\ index = 0 /\ last_prefix = 0 /\ served = 0
NoPool == pool = 0 /\ hash = 0

MCInit ==
    \/ part = "block" /\ Init /\ NoRows /\ NoPool
    \/ part = "pool" /\ Pool!PoolInit /\ hash[<<1>>] \in {0, 7} /\ Init /\ NoRows
    \/ part = "rows" /\ Texts!Init /\ Init

MCNext ==
    /\ UNCHANGED part
    /\ \/ part = "block" /\ Next /\ UNCHANGED <<rowvars, poolvars>>
       \/ part = "pool" /\ Pool!Intern /\ UNCHANGED <<rowvars, vars>>
       \/ part = "rows" /\ Texts!Next /\ UNCHANGED vars

MCSpec == MCInit /\ [][MCNext]_<<part, vars, rowvars, poolvars>>

-----------------------------------------------------------------------------
\* A field of a row reads back as what was written last, through narrow codes,
\* escapes and the change to wide; and every escape is held by one field or is
\* free, however long rows escape, return and reuse them.
BlockExact == ValuesExact /\ EscapesOwned

\* A prefix is found under its own id if PrefixPool took it and under none
\* otherwise, through collisions and growth; half of the table stays free, so
\* insert_slot's probe ends; and what was really allocated stays under the limit.
PoolSound ==
    /\ part = "pool" => Pool!PoolFinds /\ Pool!ProbesEnd /\ Pool!PoolBounded
    /\ part = "rows" => Texts!PoolFinds /\ Texts!ProbesEnd /\ Texts!PoolBounded

\* A live packed row reads back as the row of the database, text for text; the
\* string bytes counted as dead are those no live row uses; and a row that
\* RowText::new accepts can be packed without a slice that overflows.
RowsExact ==
    part = "rows" => Texts!RowsReadBack /\ Texts!DeadBytesExact /\ Texts!PreflightSuffices
=============================================================================
