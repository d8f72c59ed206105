-------------------------------- MODULE Text --------------------------------
(***************************************************************************)
(* Byte texts, as the search sees them: where a needle occurs, what a      *)
(* wildcard pattern is made of and stands for, and the order of texts.     *)
(* TextFind checks the code's searches against FirstOccurrence and         *)
(* Wildcard; Ranking then uses those definitions for the searches.         *)
(***************************************************************************)
EXTENDS Integers, Sequences, SequencesExt, FiniteSetsExt

CONSTANTS Star, Question  \* the bytes of '*' and '?'

Absent == -1  \* None

Texts(alphabet, max) == UNION {[1 .. n -> alphabet] : n \in 0 .. max}

-----------------------------------------------------------------------------
(* Occurrences; offsets count bytes from 0 *)

\* haystack[k .. k + N] == needle
OccursAt(h, n, k) ==
    k + Len(n) <= Len(h) /\ \A j \in 1 .. Len(n) : h[k + j] = n[j]

FirstOccurrence(h, n, k) == OccursAt(h, n, k) /\ \A i \in 0 .. k - 1 : ~OccursAt(h, n, i)

\* The offset of the first occurrence, or Absent: what Finder::find returns.
Find(h, n) ==
    LET at == {k \in 0 .. Len(h) : OccursAt(h, n, k)}
    IN  IF at = {} THEN Absent ELSE Min(at)

Holds(h, n) == Find(h, n) # Absent

\* Byte order of two texts.
LexLess(s, t) ==
    \E k \in 0 .. Min({Len(s), Len(t)}) :
        /\ \A i \in 1 .. k : s[i] = t[i]
        /\ k < Len(t) /\ (k = Len(s) \/ s[k + 1] < t[k + 1])

-----------------------------------------------------------------------------
(* Glob patterns: PreparedGlob::new *)

\* pattern.split(['*', '?']).filter(non-empty): the maximal runs of literal
\* bytes, as (first, last) positions, in order.
IsWild(b) == b \in {Star, Question}

Literals(p) ==
    SetToSortSeq(
      {r \in (1 .. Len(p)) \X (1 .. Len(p)) :
          /\ r[1] <= r[2] /\ \A i \in r[1] .. r[2] : ~IsWild(p[i])
          /\ r[1] > 1 => IsWild(p[r[1] - 1])
          /\ r[2] < Len(p) => IsWild(p[r[2] + 1])},
      LAMBDA r, s : r[1] < s[1])

FirstLiteral(p) ==
    LET l == Literals(p) IN IF l = <<>> THEN <<>> ELSE SubSeq(p, l[1][1], l[1][2])

SingleLiteral(p) == Len(Literals(p)) <= 1 /\ \A i \in 1 .. Len(p) : p[i] # Question

AllStars(p) == \A i \in 1 .. Len(p) : p[i] = Star

\* What a wildcard pattern means: '*' stands for any bytes, '?' for one.
Wildcard(p, h) ==
    LET m[i \in 1 .. Len(p) + 1, k \in 0 .. Len(h)] ==
            IF i > Len(p) THEN k = Len(h)
            ELSE IF p[i] = Star THEN m[i + 1, k] \/ (k < Len(h) /\ m[i, k + 1])
            ELSE k < Len(h) /\ p[i] \in {Question, h[k + 1]} /\ m[i + 1, k + 1]
    IN  m[1, 0]
=============================================================================
