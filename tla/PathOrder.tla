----------------------------- MODULE PathOrder ------------------------------
(***************************************************************************)
(* PathView::cmp (search.rs): two paths, each stored as a shared prefix    *)
(* and a suffix, compared as if they were concatenated, without building   *)
(* either.  One step is one turn of the loop; Dictionary is the pool that  *)
(* owns the prefixes, so equal prefixes there are the same allocation.     *)
(***************************************************************************)
EXTENDS Text

CONSTANTS
    Dictionary,  \* the texts of the prefix pool
    Bytes, SuffixMax

VARIABLES
    left, right,  \* PathView: <<prefix, suffix>>
    l, r,         \* slice each cursor is in: 1, 2, or 3 past the end
    lo, ro,       \* bytes of that slice already compared
    order         \* "less", "equal", "greater", or "none" while comparing

vars == <<left, right, l, r, lo, ro, order>>

Views == Dictionary \X Texts(Bytes, SuffixMax)
Whole(v) == v[1] \o v[2]

Init ==
    /\ left \in Views /\ right \in Views
    /\ l = 1 /\ r = 1 /\ lo = 0 /\ ro = 0 /\ order = "none"

Compare(s, t) == IF s = t THEN "equal" ELSE IF LexLess(s, t) THEN "less" ELSE "greater"

\* A slip: the cursor is advanced at most once, so an empty slice stops it.
SlipSettled(v, k, o) == IF k < 3 /\ o = Len(v[k]) THEN <<k + 1, 0>> ELSE <<k, o>>

\* while l < 2 && lo == left[l].len(): the cursor past every used-up slice.
Settled(v, k, o) ==
    IF k < 3 /\ o = Len(v[k])
      THEN IF k = 1 /\ Len(v[2]) > 0 THEN <<2, 0>> ELSE <<3, 0>>
      ELSE <<k, o>>

\* Both views borrow the same prefix: only the suffixes are compared.
Shared ==
    /\ order = "none" /\ <<l, r, lo, ro>> = <<1, 1, 0, 0>> /\ left[1] = right[1]
    /\ order' = Compare(left[2], right[2])
    /\ UNCHANGED <<left, right, l, r, lo, ro>>

\* One turn of the loop: settle the cursors, then compare the longest run that
\* neither slice ends in.
Turn ==
    /\ order = "none" /\ left[1] # right[1]
    /\ LET a == Settled(left, l, lo)  b == Settled(right, r, ro) IN
       IF a[1] = 3 \/ b[1] = 3
         THEN /\ order' = (IF a[1] = b[1] THEN "equal" ELSE IF a[1] = 3 THEN "less" ELSE "greater")
              /\ UNCHANGED <<l, r, lo, ro>>
         ELSE LET run == Min({Len(left[a[1]]) - a[2], Len(right[b[1]]) - b[2]})
                  c   == Compare(SubSeq(left[a[1]], a[2] + 1, a[2] + run),
                                 SubSeq(right[b[1]], b[2] + 1, b[2] + run))
              IN  /\ order' = IF c = "equal" THEN "none" ELSE c
                  /\ l' = a[1] /\ r' = b[1] /\ lo' = a[2] + run /\ ro' = b[2] + run
    /\ UNCHANGED <<left, right>>

Decided == order # "none" /\ UNCHANGED vars

Next == Shared \/ Turn \/ Decided

Spec == Init /\ [][Next]_vars

\* The order of two views is the byte order of the whole paths, wherever each
\* path is split: an empty prefix, an empty suffix and a boundary inside the
\* other path's slice included.
OrderExact == order # "none" => order = Compare(Whole(left), Whole(right))
=============================================================================
