------------------------------ MODULE Ranking -------------------------------
(***************************************************************************)
(* PreparedQuery: which rows a query selects and how it scores them        *)
(* (search.rs).  The scores are the code's own numbers.                    *)
(*                                                                         *)
(* A row is a record                                                       *)
(*   id      the row's id                                                  *)
(*   pad     bytes of path in front of dir that no query mentions          *)
(*   dir     the directory part, up to and including its '/'               *)
(*   raw     the bytes stored as basename_lower                            *)
(*   utf8    raw is valid UTF-8; if not, it decodes to the empty text      *)
(*   name    the basename in path_lower, as it follows dir                 *)
(*   stored  path_lower is stored; if not, the path is lowered on read     *)
(*   ext (NoExt), kind, mtime (Absent)                                     *)
(* and a query is a record                                                 *)
(*   terms   texts, already lowered, with glob syntax or not               *)
(*   pathOnly, fuzzy                                                       *)
(*   exts, notExts, kinds, notKinds   filters, as sets                     *)
(*   after, before                    bounds on mtime, or Absent           *)
(*   paths, notPaths                  path filters [value, component]      *)
(***************************************************************************)
EXTENDS Text

CONSTANT Slash  \* the byte of '/'

PadByte == 1  \* below every byte of a dir, a name or a query

NoExt == ""  \* ext_lower is NULL

BaseOf(row) == IF row.utf8 THEN row.raw ELSE <<>>

\* The lowered path without its padding; offsets in it are shifted by pad.
PathOf(row) == row.dir \o row.name
PathLen(row) == row.pad + Len(PathOf(row))

IsGlob(t) == \E i \in 1 .. Len(t) : IsWild(t[i])

-----------------------------------------------------------------------------
(* Scores of one text; Absent for no match *)

Plus(score, n) == IF score = Absent THEN Absent ELSE score + n
OrElse(a, b) == IF a = Absent THEN b ELSE a
Least(a, b) == IF a < b THEN a ELSE b

FindAt(h, n, pad) == IF n = <<>> THEN 0 ELSE Plus(Find(h, n), pad)

\* As much padding as a pattern can tell apart, in front of a text.
Padded(p, h, pad) == [i \in 1 .. Least(pad, Len(p)) |-> PadByte] \o h

\* PreparedGlob::score on a text with padding.
GlobScore(p, h, pad) ==
    IF AllStars(p) THEN Len(p)
    ELSE IF ~Wildcard(p, Padded(p, h, pad)) THEN Absent
    ELSE 2 * FindAt(h, FirstLiteral(p), pad) + Len(p)

\* fuzzy_score: each byte of the needle at its first place after the one before.
FuzzyScore(h, n, pad) ==
    LET next(b, k) == LET at == {i \in k + 1 .. Len(h) : h[i] = b}
                      IN  IF at = {} THEN Absent ELSE Min(at)
        pos[i \in 1 .. Len(n)] ==
            IF i = 1 THEN next(n[1], 0)
            ELSE IF pos[i - 1] = Absent THEN Absent ELSE next(n[i], pos[i - 1])
        last == pos[Len(n)]
    IN  IF n = <<>> THEN 0
        ELSE IF last = Absent THEN Absent
        ELSE 3 * (pad + pos[1] - 1) + 5 * (last - pos[1] + 1 - Len(n)) + Len(n)

-----------------------------------------------------------------------------
(* Filters *)

\* PreparedQuery::matches_metadata
MatchesMetadata(q, row, ext) ==
    /\ q.kinds = {} \/ row.kind \in q.kinds
    /\ row.kind \notin q.notKinds
    /\ q.after # Absent => row.mtime # Absent /\ row.mtime >= q.after
    /\ q.before # Absent => row.mtime = Absent \/ row.mtime < q.before
    /\ q.exts = {} \/ ext \in q.exts
    /\ ext \notin q.notExts

\* path.split('/').filter(non-empty), of the unpadded part.
Components(p) ==
    {SubSeq(p, i, j) : <<i, j>> \in
        {r \in (1 .. Len(p)) \X (1 .. Len(p)) :
            /\ r[1] <= r[2] /\ \A k \in r[1] .. r[2] : p[k] # Slash
            /\ r[1] > 1 => p[r[1] - 1] = Slash
            /\ r[2] < Len(p) => p[r[2] + 1] = Slash}}

\* PreparedPathFilter::matches
PathFilterMatches(f, p, pad) ==
    LET text(t, component, d) ==
            IF IsGlob(f.value) THEN GlobScore(f.value, t, d) # Absent
            ELSE IF component THEN t = f.value ELSE Holds(t, f.value)
    IN  IF f.component THEN \E c \in Components(p) : text(c, TRUE, 0)
                       ELSE text(p, FALSE, pad)

-----------------------------------------------------------------------------
(* PreparedQuery::rank_lowered *)

TermScore(q, t, p, b, pad) ==
    LET inPath == FindAt(p, t, pad) IN
    IF IsGlob(t) /\ q.pathOnly THEN Plus(GlobScore(t, p, pad), 450)
    ELSE IF IsGlob(t) THEN OrElse(Plus(GlobScore(t, b, 0), 180), Plus(GlobScore(t, p, pad), 520))
    ELSE IF q.pathOnly THEN IF inPath = Absent THEN Absent ELSE 300 + Least(inPath, 500)
    ELSE IF b = t THEN 0
    ELSE IF IsPrefix(t, b) THEN 100 + Len(t)
    ELSE IF Holds(b, t) THEN 250 + Find(b, t)
    ELSE IF inPath # Absent THEN 550 + Least(inPath, 500)
    ELSE IF q.fuzzy THEN OrElse(Plus(FuzzyScore(b, t, 0), 1000), Plus(FuzzyScore(p, t, pad), 1900))
    ELSE Absent

RankLowered(q, p, b, pad, length, mtime) ==
    LET score(t) == TermScore(q, t, p, b, pad) IN
    IF \/ \E f \in q.paths : ~PathFilterMatches(f, p, pad)
       \/ \E f \in q.notPaths : PathFilterMatches(f, p, pad)
      THEN Absent
    ELSE IF q.terms = <<>> THEN 10000 - Least(IF mtime = Absent THEN 0 ELSE mtime, 9000)
    ELSE IF \E i \in 1 .. Len(q.terms) : score(q.terms[i]) = Absent THEN Absent
    ELSE FoldLeft(LAMBDA sum, t : sum + score(t), 0, q.terms) + Least(length, 500)

\* PreparedQuery::rank
Rank(q, row) ==
    IF MatchesMetadata(q, row, row.ext)
      THEN RankLowered(q, PathOf(row), BaseOf(row), row.pad, PathLen(row), row.mtime)
      ELSE Absent

\* The order of results (Ord for OwnedRankedHit and RankedHit): score, newer
\* first, shorter path, path, id; TRUE when hit a comes before hit b.
PathBefore(a, b) == IF a.pad = b.pad THEN LexLess(PathOf(a), PathOf(b)) ELSE a.pad > b.pad

Before(a, b) ==
    LET ta == a.row.mtime  tb == b.row.mtime
        la == PathLen(a.row)  lb == PathLen(b.row)
    IN  \/ a.score < b.score
        \/ a.score = b.score /\ ta > tb
        \/ a.score = b.score /\ ta = tb /\ la < lb
        \/ a.score = b.score /\ ta = tb /\ la = lb /\ PathBefore(a.row, b.row)
        \/ /\ a.score = b.score /\ ta = tb /\ la = lb
           /\ ~PathBefore(a.row, b.row) /\ ~PathBefore(b.row, a.row) /\ a.row.id < b.row.id

\* The hits of a set of rows, and the best of them in order.
HitsOf(q, rows) == {[score |-> Rank(q, r), row |-> r] : r \in {s \in rows : Rank(q, s) # Absent}}

Best(hits, limit) ==
    LET all == SetToSortSeq(hits, Before)
    IN  SubSeq(all, 1, Least(limit, Len(all)))
=============================================================================
