------------------------------ MODULE TextFind ------------------------------
(***************************************************************************)
(* Substring and wildcard search over the bytes of one lowered text        *)
(* (search.rs, ShortFinder, Finder, PreparedGlob, glob_match).             *)
(*                                                                         *)
(* A behaviour is one call: Finder::find(hay) for a plain pattern, or      *)
(* PreparedGlob::score(hay) for a glob, whose first literal is looked up   *)
(* by the same Finder before the pattern is matched.  The loops of the     *)
(* code are the steps: a word of Lanes candidate starts, one candidate of  *)
(* the word, one tail start, one Horspool alignment, one byte of the       *)
(* linear fallback, one iteration of glob_match.                           *)
(*                                                                         *)
(* ShortMax (7), Lanes (8) and Factor (4) are the literals of the code;    *)
(* smaller values make every loop run and every exit happen on texts of a  *)
(* few bytes.                                                              *)
(***************************************************************************)
EXTENDS Text

CONSTANTS
    Bytes,          \* the bytes of a text, which may hold a '*' too when a glob is matched
    ShortMax,       \* a needle of at most this many bytes is searched by words
    Lanes,          \* candidate starts examined by one word step
    Factor,         \* Horspool may compare Factor bytes per byte of the text
    HayMax, NeedleMax, GlobHayMax, GlobMax  \* bounds on the inputs

FinderAssumption ==
    /\ Bytes \subseteq 0 .. 255 /\ {Star, Question} \subseteq 0 .. 255
    /\ Star # Question
    /\ ShortMax \in Nat \ {0} /\ Lanes \in Nat \ {0} /\ Factor \in Nat

VARIABLES
    hay,      \* the text searched
    pattern,  \* the needle, or the glob pattern
    glob,     \* the call is PreparedGlob::score
    needle,   \* Finder.value: the pattern, or the glob's first literal
    pc,
    offset,   \* next start (find_bytes, find_long) or next byte (linear_find)
    lanes,    \* find_bytes: candidate lanes of the current word not yet compared
    compared, \* find_long: byte comparisons made so far
    matched,  \* linear_find: length of the needle prefix matched
    walk,     \* glob_match: positions h, p, the last star and match_after_star
    found,    \* offset Finder::find returned, or Absent
    result    \* score PreparedGlob::score returned, or Absent

vars == <<hay, pattern, glob, needle, pc, offset, lanes, compared, matched,
          walk, found, result>>

-----------------------------------------------------------------------------
(* Finder::new *)

\* skip[b]: how far Horspool moves when the window's last byte is b.
Skip(n, b) ==
    LET at == {i \in 1 .. Len(n) - 1 : n[i] = b}
    IN  IF at = {} THEN Len(n) ELSE Len(n) - Max(at)

\* The while loop that both the prefix table and linear_find run: from a match
\* of length m, fall back until byte b extends it.
Fall(n, pre, b, m) ==
    LET f[k \in 0 .. Len(n) - 1] ==
            IF k > 0 /\ b # n[k + 1] THEN f[pre[k]] ELSE k
    IN  f[m]

Extend(n, pre, b, m) ==
    LET k == Fall(n, pre, b, m) IN IF b = n[k + 1] THEN k + 1 ELSE k

Prefix(n) ==
    LET pre[i \in 1 .. Len(n)] ==
            IF i = 1 THEN 0 ELSE Extend(n, pre, n[i], pre[i - 1])
    IN  pre

-----------------------------------------------------------------------------
(* What the word filter of find_bytes sees *)

\* A slip: the borrow of a marked lane clears the lane above it.
SlipZeroLanes(w) == {i \in 0 .. Lanes - 1 : w[i] = 0 /\ (i = 0 \/ w[i - 1] # 0)}

\* zero_byte_mask: the subtraction marks every zero lane, and a borrow out of a
\* marked lane also marks a lane that holds 1.
ZeroLanes(w) ==
    LET marked[i \in 0 .. Lanes - 1] ==
            w[i] = 0 \/ (i > 0 /\ marked[i - 1] /\ w[i] = 1)
    IN  {i \in 0 .. Lanes - 1 : marked[i]}

\* first ^ self.first, by lanes, as far as the mask tells lanes apart: 0 when the
\* bytes agree, 1 when they differ in the lowest bit alone, 2 otherwise.
XorLanes(h, k, b) ==
    [i \in 0 .. Lanes - 1 |->
        IF h[k + i + 1] = b THEN 0
        ELSE IF h[k + i + 1] \div 2 = b \div 2 THEN 1 ELSE 2]

Candidates(h, n, k) ==
    ZeroLanes(XorLanes(h, k, n[1])) \cap ZeroLanes(XorLanes(h, k + Len(n) - 1, n[Len(n)]))

-----------------------------------------------------------------------------
\* Positions stay inside the text, the needle and the pattern: no step of a search
\* indexes past the bytes it was given.
TypeOK ==
    /\ hay \in Seq(Bytes \cup {Star}) /\ pattern \in Seq(Bytes \cup {Star, Question})
    /\ needle \in Seq(Bytes \cup {Star, Question}) /\ glob \in BOOLEAN
    /\ pc \in {"call", "find", "word", "lane", "tail", "align", "linear", "found",
               "match", "done"}
    /\ offset \in 0 .. Len(hay) /\ lanes \subseteq 0 .. Lanes - 1
    /\ compared \in Nat /\ matched \in 0 .. Len(needle)
    /\ walk \in [h : 0 .. Len(hay), p : 0 .. Len(pattern), star : Nat \cup {Absent},
                after : 0 .. Len(hay)]
    /\ found \in Nat \cup {Absent} /\ result \in Nat \cup {Absent}

Init ==
    /\ \/ glob = FALSE /\ hay \in Texts(Bytes, HayMax) /\ pattern \in Texts(Bytes, NeedleMax)
       \/ /\ glob = TRUE /\ hay \in Texts(Bytes \cup {Star}, GlobHayMax)
          /\ pattern \in Texts(Bytes \cup {Star, Question}, GlobMax)
          /\ \E i \in 1 .. Len(pattern) : IsWild(pattern[i])  \* has_glob_syntax
    /\ needle = <<>> /\ pc = "call"
    /\ offset = 0 /\ lanes = {} /\ compared = 0 /\ matched = 0
    /\ walk = [h |-> 0, p |-> 0, star |-> Absent, after |-> 0]
    /\ found = Absent /\ result = Absent

Unmoved == UNCHANGED <<hay, pattern, glob>>

\* Finder::find returns k; a plain call ends, a glob goes on to match.
Return(k) == found' = k /\ pc' = (IF glob THEN "found" ELSE "done")

\* PreparedGlob::score up to literal.find; Finder::find for a plain pattern.
Call ==
    /\ pc = "call"
    /\ \/ ~glob /\ needle' = pattern /\ pc' = "find" /\ UNCHANGED <<found, result>>
       \/ glob /\ AllStars(pattern) /\ result' = Len(pattern) /\ pc' = "done"
          /\ UNCHANGED <<needle, found>>
       \/ /\ glob /\ ~AllStars(pattern) /\ needle' = FirstLiteral(pattern)
          /\ IF needle' = <<>> THEN found' = 0 /\ pc' = "found"  \* no literal: start = 0
                               ELSE found' = found /\ pc' = "find"
          /\ UNCHANGED result
    /\ Unmoved /\ UNCHANGED <<offset, lanes, compared, matched, walk>>

\* Finder::find chooses by the needle's length; ShortFinder::find answers the
\* empty needle at once and hands one byte to the library's search.
Choose ==
    /\ pc = "find"
    /\ LET n == Len(needle) IN
       \/ n = 0 /\ Return(0)
       \/ /\ n = 1
          /\ LET at == {k \in 0 .. Len(hay) - 1 : OccursAt(hay, needle, k)}
             IN  Return(IF at = {} THEN Absent ELSE Min(at))
       \/ n > Len(hay) /\ n > 1 /\ Return(Absent)
       \/ n \in 2 .. ShortMax /\ n <= Len(hay) /\ pc' = "word" /\ found' = found
       \/ n > ShortMax /\ n > 1 /\ n <= Len(hay) /\ pc' = "align" /\ found' = found
    /\ Unmoved /\ UNCHANGED <<needle, offset, lanes, compared, matched, walk, result>>

Starts == Len(hay) - Len(needle) + 1

\* find_bytes, the head of the word loop.
Word ==
    /\ pc = "word"
    /\ IF Starts - offset >= Lanes
         THEN lanes' = Candidates(hay, needle, offset) /\ pc' = "lane"
         ELSE lanes' = lanes /\ pc' = "tail"
    /\ Unmoved /\ UNCHANGED <<needle, offset, compared, matched, walk, found, result>>

\* candidates &= candidates - 1
Rejected(l) == l \ {Min(l)}

\* The lowest candidate is compared in full.
Lane ==
    /\ pc = "lane"
    /\ \/ lanes = {} /\ offset' = offset + Lanes /\ pc' = "word" /\ UNCHANGED <<lanes, found>>
       \/ /\ lanes # {} /\ OccursAt(hay, needle, offset + Min(lanes))
          /\ Return(offset + Min(lanes)) /\ UNCHANGED <<lanes, offset>>
       \/ /\ lanes # {} /\ ~OccursAt(hay, needle, offset + Min(lanes))
          /\ lanes' = Rejected(lanes) /\ UNCHANGED <<pc, offset, found>>
    /\ Unmoved /\ UNCHANGED <<needle, compared, matched, walk, result>>

\* The starts after the last whole word, one by one.
Tail1 ==
    /\ pc = "tail"
    /\ \/ offset >= Starts /\ Return(Absent) /\ offset' = offset
       \/ offset < Starts /\ OccursAt(hay, needle, offset) /\ Return(offset) /\ offset' = offset
       \/ /\ offset < Starts /\ ~OccursAt(hay, needle, offset)
          /\ offset' = offset + 1 /\ UNCHANGED <<pc, found>>
    /\ Unmoved /\ UNCHANGED <<needle, lanes, compared, matched, walk, result>>

\* Bytes of the needle that agree with the window, from its end.
SuffixMatched(k) ==
    Max({j \in 0 .. Len(needle) :
            \A i \in Len(needle) - j + 1 .. Len(needle) : hay[k + i] = needle[i]})

\* find_long: the comparisons made exceed the budget.
Spent(c) == c > Factor * Len(hay)

\* find_long, one alignment: compare from the end, then move by skip, unless the
\* comparisons made so far exceed the budget.
Align ==
    /\ pc = "align"
    /\ LET n == Len(needle)  j == SuffixMatched(offset)
       IN  \/ offset > Len(hay) - n /\ Return(Absent) /\ UNCHANGED <<offset, compared>>
           \/ /\ offset <= Len(hay) - n /\ j = n
              /\ compared' = compared + n /\ Return(offset) /\ offset' = offset
           \/ /\ offset <= Len(hay) - n /\ j < n /\ found' = found
              /\ compared' = compared + j + 1
              /\ IF Spent(compared')
                   THEN pc' = "linear" /\ offset' = 0
                   ELSE pc' = pc /\ offset' = offset + Skip(needle, hay[offset + n])
    /\ Unmoved /\ UNCHANGED <<needle, lanes, matched, walk, result>>

\* linear_find, one byte of the text.
Linear ==
    /\ pc = "linear"
    /\ \/ offset = Len(hay) /\ Return(Absent) /\ UNCHANGED <<offset, matched>>
       \/ /\ offset < Len(hay)
          /\ matched' = Extend(needle, Prefix(needle), hay[offset + 1], matched)
          /\ offset' = offset + 1
          /\ IF matched' = Len(needle) THEN Return(offset' - matched') ELSE UNCHANGED <<pc, found>>
    /\ Unmoved /\ UNCHANGED <<needle, lanes, compared, walk, result>>

Score == 2 * found + Len(pattern)

\* PreparedGlob::score after literal.find: an absent literal, the single-literal
\* shortcut, or glob_match.
Decide ==
    /\ pc = "found"
    /\ LET whole == /\ pattern[1] = Star \/ IsPrefix(needle, hay)
                    /\ pattern[Len(pattern)] = Star \/ IsSuffix(needle, hay)
       IN  \/ found = Absent /\ pc' = "done" /\ result' = Absent
           \/ found # Absent /\ SingleLiteral(pattern) /\ pc' = "done"
              /\ result' = IF whole THEN Score ELSE Absent
           \/ found # Absent /\ ~SingleLiteral(pattern) /\ pc' = "match" /\ result' = result
    /\ Unmoved /\ UNCHANGED <<needle, offset, lanes, compared, matched, walk, found>>

\* One iteration of glob_match that does not return.
MatchWalk(w) ==
    IF w.p < Len(pattern) /\ pattern[w.p + 1] \in {Question, hay[w.h + 1]}
      THEN [w EXCEPT !.h = @ + 1, !.p = @ + 1]
    ELSE IF w.p < Len(pattern) /\ pattern[w.p + 1] = Star
      THEN [w EXCEPT !.star = w.p, !.after = w.h, !.p = @ + 1]
    ELSE [w EXCEPT !.p = w.star + 1, !.after = @ + 1, !.h = w.after + 1]

\* The walk has nowhere to go: no byte, no star here, no star before.
Stuck(w) ==
    /\ ~(w.p < Len(pattern) /\ pattern[w.p + 1] \in {Question, Star, hay[w.h + 1]})
    /\ w.star = Absent

\* glob_match: an iteration, or its return when the text is used up or stuck.
Match ==
    /\ pc = "match"
    /\ \/ walk.h < Len(hay) /\ ~Stuck(walk) /\ walk' = MatchWalk(walk)
          /\ UNCHANGED <<pc, result>>
       \/ walk.h < Len(hay) /\ Stuck(walk) /\ pc' = "done" /\ result' = Absent /\ walk' = walk
       \/ /\ walk.h = Len(hay) /\ pc' = "done" /\ walk' = walk
          /\ result' = IF \A i \in walk.p + 1 .. Len(pattern) : pattern[i] = Star
                         THEN Score ELSE Absent
    /\ Unmoved /\ UNCHANGED <<needle, offset, lanes, compared, matched, found>>

\* The call has returned.
Returned == pc = "done" /\ UNCHANGED vars

Steps == Call \/ Choose \/ Word \/ Lane \/ Tail1 \/ Align \/ Linear \/ Decide \/ Match
Next == Steps \/ Returned

Spec == Init /\ [][Next]_vars

-----------------------------------------------------------------------------
(* Properties *)

\* Finder::find returns the first byte offset at which the needle occurs and
\* nothing when it occurs nowhere, whichever of the four searches answered: the
\* word filter with its false candidates, the tail, the Horspool moves, or the
\* linear search after the budget is spent.
FindExact ==
    pc \in {"found", "done"} /\ ~(glob /\ AllStars(pattern)) =>
        IF found = Absent
          THEN \A k \in 0 .. Len(hay) : ~OccursAt(hay, needle, k)
          ELSE FirstOccurrence(hay, needle, found)

\* find_long never makes more than Factor comparisons per byte of the text and
\* one window more: the bound that the fallback to linear_find is for.
WorkBounded == compared <= Factor * Len(hay) + Len(needle)

\* "`*` and `?` work as filename/path wildcards" (README.md:124): PreparedGlob::score
\* answers exactly the texts the wildcard pattern stands for.  glob_match breaks it when
\* the text holds a '*': it compares bytes before it looks at a star (search.rs:988), so
\* a star of the pattern that meets one is used up as that byte.
GlobIsWildcard == pc = "done" /\ glob => ((result # Absent) <=> Wildcard(pattern, hay))

\* No answer is false, and none is missing for a text without a '*': the shortcuts for
\* stars alone, for a missing literal and for a single literal agree with glob_match,
\* and glob_match with the meaning of the pattern.  The score is that of the first
\* literal's first occurrence.
GlobExact ==
    pc = "done" /\ glob =>
        /\ result # Absent => Wildcard(pattern, hay)
        /\ Wildcard(pattern, hay) /\ (\A i \in 1 .. Len(hay) : hay[i] # Star) => result # Absent
        /\ result # Absent =>
             IF AllStars(pattern) THEN result = Len(pattern)
             ELSE \E k \in 0 .. Len(hay) :
                    /\ FirstOccurrence(hay, FirstLiteral(pattern), k)
                    /\ result = 2 * k + Len(pattern)
=============================================================================
