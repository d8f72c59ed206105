----------------------------- MODULE SqlSearch ------------------------------
(***************************************************************************)
(* One search: search() over the database, pass by pass in one read        *)
(* snapshot (search.rs, db.rs for_each_*_ref), or PackedIndex::search over *)
(* the packed rows (compact_index.rs).  A pass visits its candidate rows   *)
(* one by one; SQLite's order is not specified, so any row may be next.    *)
(* Other processes commit to the database while the search runs.           *)
(***************************************************************************)
EXTENDS Ranking

CONSTANTS
    Databases,   \* contents the database may have: sets of rows
    Queries,
    Limit,       \* effective_limit of the request
    ExtMax,      \* most extensions an indexed pass binds (128)
    WritesMax    \* bound: commits of other processes

SearchAssumption ==
    /\ Limit \in Nat \ {0} /\ ExtMax \in Nat /\ WritesMax \in Nat

VARIABLES
    rows,    \* the database's committed content
    utf8,    \* the database's encoding is UTF-8
    writes,
    query, pc,
    snap,    \* content of the search's read snapshot, or of the packed index
    pass,    \* the pass under way
    todo,    \* ids the pass has still to visit
    hits,    \* OwnedTopHits / TopHits, in order
    result

vars == <<rows, utf8, writes, query, pc, snap, pass, todo, hits, result>>

-----------------------------------------------------------------------------
(* What each pass may rely on *)

Nul == 0
Del == 127

\* sqlite_basename_prefix: the range [term, term with its last byte + 1).
PrefixTerm(q) ==
    IF q.pathOnly \/ Len(q.terms) # 1 THEN <<>>
    ELSE LET t == q.terms[1] IN
         IF IsGlob(t) \/ \E i \in 1 .. Len(t) : t[i] > Del \/ t[i] = Nul THEN <<>>
         ELSE IF t[Len(t)] = Del THEN <<>> ELSE t

Successor(t) == [t EXCEPT ![Len(t)] = @ + 1]

\* sqlite_term_literal: the term, or the longest literal of a glob, the last of
\* equals; <<>> when there is none.
TermLiteral(t) ==
    LET segments == [i \in 1 .. Len(Literals(t)) |->
                        SubSeq(t, Literals(t)[i][1], Literals(t)[i][2])]
        usable == SelectSeq(IF IsGlob(t) THEN segments ELSE <<t>>,
                            LAMBDA s : \A i \in 1 .. Len(s) : s[i] # Nul)
    IN  FoldLeft(LAMBDA best, s : IF Len(s) >= Len(best) THEN s ELSE best, <<>>, usable)

\* sqlite_selected_literal: the longest literal of any term, the last of equals,
\* with the bound sqlite_basename_literal gives its term.
Selected(q) ==
    FoldLeft(LAMBDA best, t :
               LET lit == TermLiteral(t)
               IN  IF lit # <<>> /\ Len(lit) >= Len(best.text)
                     THEN [text |-> lit, bound |-> IF IsGlob(t) THEN Len(t) + 520 ELSE 550]
                     ELSE best,
             [text |-> <<>>, bound |-> 0], q.terms)

\* for_each_extension_ref refuses an unsuitable list.
ExtUsable(q) == q.exts # {} /\ Cardinality(q.exts) <= ExtMax

\* The passes that apply to a query, in the order search() tries them.
Passes(q) ==
    IF ~utf8 THEN <<"all">>
    ELSE SelectSeq(<<"prefix", "ext", "base", "path", "all">>,
           LAMBDA p : \/ p = "prefix" /\ PrefixTerm(q) # <<>>
                      \/ p = "ext" /\ ExtUsable(q)
                      \/ p = "base" /\ ~q.pathOnly /\ Selected(q).text # <<>>
                      \/ p = "path" /\ ~q.fuzzy /\ Selected(q).text # <<>>
                      \/ p = "all")

\* path_may_contain: a row with no usable path_lower is always a candidate.
PathMayContain(row, literal) == ~row.stored \/ Holds(PathOf(row), literal)

\* The rows a pass reads from content db.
Candidates(p, q, db) ==
    LET literal == Selected(q).text
        lower == PrefixTerm(q)
    IN  CASE p = "prefix" -> {r \in db : ~LexLess(r.raw, lower) /\ LexLess(r.raw, Successor(lower))}
          [] p = "ext"    -> {r \in db : r.ext \in q.exts}
          [] p = "base"   -> {r \in db : Holds(r.raw, literal)}
          [] p = "path"   -> {r \in db : PathMayContain(r, literal)}
          [] OTHER        -> db

\* A candidate the pass hands to consider_record: the basename pass drops a row
\* whose decoded basename lacks the literal, and the path pass exactly the rest.
Considered(p, q, row) ==
    CASE p = "base" -> Holds(BaseOf(row), Selected(q).text)
      [] p = "path" -> q.pathOnly \/ ~Holds(BaseOf(row), Selected(q).text)
      [] OTHER      -> TRUE

-----------------------------------------------------------------------------
(* The bounded heaps *)

Insert(hs, hit) ==
    InsertAt(hs, 1 + Cardinality({i \in 1 .. Len(hs) : ~Before(hit, hs[i])}), hit)

\* OwnedTopHits::consider_record
Consider(hs, hit) ==
    IF hit.score = Absent THEN hs
    ELSE IF Len(hs) < Limit THEN Insert(hs, hit)
    ELSE IF Before(hit, Last(hs)) THEN Insert(Front(hs), hit) ELSE hs

\* TopHits::consider: a hit that loses by score, time and length is dropped
\* before its path is assembled.
PackedConsider(hs, hit) ==
    LET worst == Last(hs)
        loses == \/ hit.score > worst.score
                 \/ hit.score = worst.score /\ hit.row.mtime < worst.row.mtime
                 \/ /\ hit.score = worst.score /\ hit.row.mtime = worst.row.mtime
                    /\ PathLen(hit.row) > PathLen(worst.row)
    IN  IF hit.score = Absent \/ (Len(hs) >= Limit /\ loses) THEN hs
        ELSE IF Len(hs) < Limit THEN Insert(hs, hit)
        ELSE IF Before(hit, worst) THEN Insert(Front(hs), hit) ELSE hs

\* A slip: a full heap counts as proof.
SlipCompleteBelow(bound) == Len(hits) = Limit

\* OwnedTopHits::is_complete_below
CompleteBelow(bound) == Len(hits) = Limit /\ Last(hits).score < bound

-----------------------------------------------------------------------------
(* PackedIndex::search reads no text and no extension the query does not need *)

NeedsText(q) ==
    \/ q.paths # {} \/ q.notPaths # {}
    \/ \E i \in 1 .. Len(q.terms) : ~(IsGlob(q.terms[i]) /\ AllStars(q.terms[i]))

NeedsBasename(q) == ~q.pathOnly /\ q.terms # <<>> /\ NeedsText(q)

NeedsExtension(q) == q.exts # {} \/ q.notExts # {}

PackedRank(q, row) ==
    IF ~MatchesMetadata(q, row, IF NeedsExtension(q) THEN row.ext ELSE NoExt) THEN Absent
    ELSE RankLowered(q, IF NeedsText(q) THEN PathOf(row) ELSE <<>>,
                     IF NeedsBasename(q) THEN BaseOf(row) ELSE <<>>,
                     row.pad, PathLen(row), row.mtime)

-----------------------------------------------------------------------------
Init ==
    /\ rows \in Databases /\ utf8 \in BOOLEAN /\ query \in Queries
    /\ snap = rows /\ writes = 0 /\ pc = "idle" /\ pass = "none"
    /\ todo = {} /\ hits = <<>> /\ result = <<>>

\* Another process commits.
Write ==
    /\ pc \in {"idle", "scan", "packed"} /\ writes < WritesMax /\ writes' = writes + 1
    /\ rows' \in Databases \ {rows}
    /\ UNCHANGED <<utf8, query, pc, snap, pass, todo, hits, result>>

\* with_read_snapshot: what every statement of the search reads.
View == snap

StartPass(p, db, hs) ==
    /\ pass' = p /\ hits' = hs /\ todo' = {r.id : r \in Candidates(p, query, db)}

\* search(): BEGIN and the first statement pin the snapshot.
Begin ==
    /\ pc = "idle" /\ pc' = "scan" /\ snap' = rows
    /\ StartPass(Head(Passes(query)), rows, <<>>)
    /\ UNCHANGED <<rows, utf8, writes, query, result>>

\* The row with this id.
Fetched(id) == {r \in View : r.id = id}

\* One row of the pass; the path pass fetches it by id.
Visit ==
    /\ pc = "scan"
    /\ \E id \in todo :
        LET found == Fetched(id) IN
        /\ todo' = todo \ {id}
        /\ pc' = IF found = {} /\ pass = "path" THEN "failed" ELSE pc
        /\ hits' = IF found = {} \/ ~Considered(pass, query, CHOOSE r \in found : TRUE)
                     THEN hits
                     ELSE LET r == CHOOSE r \in found : TRUE
                          IN  Consider(hits, [score |-> Rank(query, r), row |-> r])
    /\ UNCHANGED <<rows, utf8, writes, query, snap, pass, result>>

\* The pass has proved its hits to be the answer.
Proved ==
    \/ pass = "prefix" /\ CompleteBelow(250)
    \/ pass = "base" /\ CompleteBelow(Selected(query).bound)
    \/ pass \in {"ext", "path", "all"}

Finish == pc' = "done" /\ result' = hits /\ UNCHANGED <<pass, todo, hits>>

\* The end of a pass: return, or go on to the next one; only the path pass adds
\* to the hits it finds, every other one starts anew.
EndPass ==
    /\ pc = "scan" /\ todo = {}
    /\ \/ Proved /\ Finish
       \/ /\ ~Proved
          /\ LET ps == Passes(query)
                 k  == CHOOSE i \in 1 .. Len(ps) : ps[i] = pass
                 p  == ps[k + 1]
             IN  StartPass(p, View, IF p = "path" THEN hits ELSE <<>>)
          /\ UNCHANGED <<pc, result>>
    /\ UNCHANGED <<rows, utf8, writes, query, snap>>

\* PackedIndex::search over an index loaded from the database.
BeginPacked ==
    /\ pc = "idle" /\ pc' = "packed" /\ snap' = rows
    /\ StartPass("all", rows, <<>>)
    /\ UNCHANGED <<rows, utf8, writes, query, result>>

\* Its rows come in the order they were packed.
VisitPacked ==
    /\ pc = "packed"
    /\ \/ /\ todo # {} /\ todo' = todo \ {Min(todo)}
          /\ LET r == CHOOSE s \in snap : s.id = Min(todo)
             IN  hits' = PackedConsider(hits, [score |-> PackedRank(query, r), row |-> r])
          /\ UNCHANGED <<pc, pass, result>>
       \/ todo = {} /\ Finish
    /\ UNCHANGED <<rows, utf8, writes, query, snap>>

Answered == pc \in {"done", "failed"} /\ UNCHANGED vars

Next == Write \/ Begin \/ Visit \/ EndPass \/ BeginPacked \/ VisitPacked \/ Answered

Spec == Init /\ [][Next]_vars

-----------------------------------------------------------------------------
\* A search answers with the best Limit rows of all the rows its query selects
\* in one committed content, in order and without duplicates: no bounded pass
\* stops before a row that would win, no two passes rank the same row, no row is
\* skipped because a column was NULL, malformed or read by an earlier pass, and
\* the packed index gives the same answer as the database.
SearchExact == pc = "done" => result = Best(HitsOf(query, snap), Limit)

\* The path pass never meets an id whose row is gone, whatever others commit
\* between its two statements.
NoVanishedRow == pc # "failed"
=============================================================================
