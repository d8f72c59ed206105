--------------------------- MODULE SqlCandidates ----------------------------
(***************************************************************************)
(* Database::candidate_records (db.rs): the rows that a query's filters    *)
(* and terms select when they are translated to SQL, a pattern to LIKE     *)
(* with '\' as its escape.  Ranking says which rows the query selects.     *)
(*                                                                         *)
(* A behaviour is one query against one row; the LIMIT is left out.        *)
(***************************************************************************)
EXTENDS Ranking

CONSTANTS Percent, Underscore, Backslash,  \* the bytes of '%', '_' and '\'
          Queries, Rows

VARIABLES query, row, verdict  \* "none", then whether the row is a candidate
vars == <<query, row, verdict>>

\* pattern LIKE with its escape, as SQLite has it; texts are lowered already.
Like(p, h) ==
    LET m[i \in 1 .. Len(p) + 2, k \in 0 .. Len(h)] ==
            IF i > Len(p) THEN k = Len(h)
            ELSE IF p[i] = Backslash
                 THEN i < Len(p) /\ k < Len(h) /\ h[k + 1] = p[i + 1] /\ m[i + 2, k + 1]
            ELSE IF p[i] = Percent THEN m[i + 1, k] \/ (k < Len(h) /\ m[i, k + 1])
            ELSE k < Len(h) /\ p[i] \in {Underscore, h[k + 1]} /\ m[i + 1, k + 1]
    IN  m[1, 0]

\* str::replace of a byte
Replace(t, byte, by) ==
    FoldLeft(LAMBDA out, b : out \o (IF b = byte THEN by ELSE <<b>>), <<>>, t)

escape_like(t) ==
    LET backslash == Replace(t, Backslash, <<Backslash, Backslash>>)
        percent   == Replace(backslash, Percent, <<Backslash, Percent>>)
    IN  Replace(percent, Underscore, <<Backslash, Underscore>>)

glob_to_like(t) ==
    FoldLeft(LAMBDA out, b :
               out \o (CASE b = Star -> <<Percent>>
                         [] b = Question -> <<Underscore>>
                         [] b \in {Backslash, Percent, Underscore} -> <<Backslash, b>>
                         [] OTHER -> <<b>>), <<>>, t)

TermLike(t) == IF IsGlob(t) THEN glob_to_like(t) ELSE <<Percent>> \o escape_like(t) \o <<Percent>>

path_filter_like(f) ==
    IF ~f.component THEN TermLike(f.value)
    ELSE IF IsGlob(f.value) THEN glob_to_like(<<Star, Slash>> \o f.value \o <<Slash, Star>>)
    ELSE <<Percent, Slash>> \o escape_like(f.value) \o <<Percent>>

\* A slip: an excluded component is left to its LIKE as well.
SlipPathClauses(q, path) ==
    /\ \A f \in q.paths : Like(path_filter_like(f), path)
    /\ \A f \in q.notPaths : ~Like(path_filter_like(f), path)

\* path_lower LIKE and NOT LIKE; an excluded component is left to the ranking.
PathClauses(q, path) ==
    /\ \A f \in q.paths : Like(path_filter_like(f), path)
    /\ \A f \in q.notPaths : ~f.component => ~Like(path_filter_like(f), path)

MetadataClauses(q, r) ==
    /\ q.exts # {} => r.ext \in q.exts /\ r.ext # NoExt
    /\ q.notExts # {} => r.ext = NoExt \/ r.ext \notin q.notExts
    /\ q.kinds # {} => r.kind \in q.kinds
    /\ q.notKinds # {} => r.kind \notin q.notKinds
    /\ q.after # Absent => r.mtime # Absent /\ r.mtime >= q.after
    /\ q.before # Absent => r.mtime = Absent \/ r.mtime < q.before

TermClauses(q, r) ==
    \A i \in 1 .. Len(q.terms) :
        \/ ~q.pathOnly /\ Like(TermLike(q.terms[i]), r.raw)
        \/ r.stored /\ Like(TermLike(q.terms[i]), PathOf(r))

\* The WHERE clause is true; no LIKE is of a path_lower that is NULL.
Candidate(q, r) ==
    /\ MetadataClauses(q, r) /\ TermClauses(q, r)
    /\ r.stored \/ (q.paths = {} /\ \A f \in q.notPaths : f.component)
    /\ PathClauses(q, PathOf(r))

Init == query \in Queries /\ row \in Rows /\ verdict = "none"

Select ==
    /\ verdict = "none"
    /\ verdict' = IF Candidate(query, row) THEN "candidate" ELSE "filtered"
    /\ UNCHANGED <<query, row>>

Selected == verdict # "none" /\ UNCHANGED vars

Next == Select \/ Selected

Spec == Init /\ [][Next]_vars

-----------------------------------------------------------------------------
ComponentGlob(q) == \E f \in q.paths : f.component /\ IsGlob(f.value)

\* No row that the query selects is filtered out, whatever '%', '_', '\', '*' and
\* '?' stand in the texts: LIKE is asked for as much as the search finds.  It
\* holds for rows with a stored lower path and no component filter with a
\* wildcard, whose LIKE wants a '/' behind the component.
CandidatesCover ==
    verdict # "none" /\ row.stored /\ ~ComponentGlob(query) /\ Rank(query, row) # Absent
      => verdict = "candidate"

\* Only component filters need the ranking after LIKE: without one, a candidate
\* is a row that the query selects.
CandidatesExact ==
    verdict = "candidate" /\ ~(\E f \in query.paths \cup query.notPaths : f.component)
      => Rank(query, row) # Absent
=============================================================================
