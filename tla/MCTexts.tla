------------------------------ MODULE MCTexts -------------------------------
(* Matching, ranking and the query language: a behaviour is one search of a   *)
(* text, one comparison of paths, one search of the index, one row against    *)
(* the SQL of a query, one typed query taken apart, or one query string.      *)
EXTENDS Ranking

a == 97
b == 98
c == 99

VARIABLES
    part, pc, query, result,
    hay, pattern, glob, needle, offset, lanes, compared, matched, walk, found,
    left, right, l, r, lo, ro, order,
    rows, utf8, writes, snap, pass, todo, hits,
    row, verdict,
    meant, tokens, out,
    pairs, rest, params

findvars == <<hay, pattern, glob, needle, offset, lanes, compared, matched, walk, found>>
ordervars == <<left, right, l, r, lo, ro, order>>
searchvars == <<rows, utf8, writes, snap, pass, todo, hits>>
rowvars == <<row, verdict>>
queryvars == <<meant, tokens, out>>
httpvars == <<pairs, rest, params>>

NoFind ==
    /\ hay = 0 /\ pattern = 0 /\ glob = 0 /\ needle = 0 /\ offset = 0 /\ lanes = 0
    /\ compared = 0 /\ matched = 0 /\ walk = 0 /\ found = 0
NoOrder == left = 0 /\ right = 0 /\ l = 0 /\ r = 0 /\ lo = 0 /\ ro = 0 /\ order = 0
NoSearch ==
    rows = 0 /\ utf8 = 0 /\ writes = 0 /\ snap = 0 /\ pass = 0 /\ todo = 0 /\ hits = 0
NoRow == row = 0 /\ verdict = 0
NoQuery == meant = 0 /\ tokens = 0 /\ out = 0
NoHttp == pairs = 0 /\ rest = 0 /\ params = 0

-----------------------------------------------------------------------------
(* 'b' and 'c' differ in the lowest bit only, so the word filter's borrow     *)
(* marks false candidates.                                                    *)

Locate == INSTANCE TextFind WITH
    Bytes <- {b, c}, ShortMax <- 3, Lanes <- 3, Factor <- 1,
    HayMax <- 8, NeedleMax <- 5, GlobHayMax <- 4, GlobMax <- 4

(* Empty, nested and diverging prefixes.                                      *)

Order == INSTANCE PathOrder WITH
    Dictionary <- {<<>>, <<a>>, <<a, b>>, <<b>>, <<a, b, a>>}, Bytes <- {a, b}, SuffixMax <- 3

-----------------------------------------------------------------------------
(* The rows hold "ab" at the start, inside and outside their basename, with   *)
(* paths short and long enough to cross each bound, a malformed basename and  *)
(* a path_lower that was never stored.                                        *)

RowOf(id, pad, dir, name, mtime, ext) ==
    [id |-> id, pad |-> pad, dir |-> dir, raw |-> name, utf8 |-> TRUE, name |-> name,
     stored |-> TRUE, ext |-> ext, kind |-> "file", mtime |-> mtime]

Root == <<Slash>>
InAB == <<Slash, a, b, Slash>>

MCRows ==
    { RowOf(1, 0, Root, <<a, b>>, 5, "x"),
      RowOf(2, 200, Root, <<a, b, b>>, 5, "y"),
      RowOf(3, 0, Root, <<c, a, b>>, 7, "x"),
      RowOf(4, 0, InAB, <<c>>, Absent, "x"),
      RowOf(5, 600, InAB, <<a, b>>, 6, NoExt),
      [RowOf(6, 0, Root, <<a, b>>, 4, "x") EXCEPT !.utf8 = FALSE, !.dir = InAB],
      [RowOf(7, 0, InAB, <<c, c>>, 7, "y") EXCEPT !.stored = FALSE, !.kind = "dir"],
      RowOf(8, 0, Root, <<a, c, b>>, 8, "x"),
      RowOf(9, 297, Root, <<c, a, b>>, 7, "x") }

Plain(t) ==
    [terms |-> t, pathOnly |-> FALSE, fuzzy |-> FALSE, exts |-> {}, notExts |-> {},
     kinds |-> {}, notKinds |-> {}, after |-> Absent, before |-> Absent,
     paths |-> {}, notPaths |-> {}]

MCQueries ==
    { Plain(<<>>), Plain(<<<<a, b>>>>), Plain(<<<<b>>, <<a>>>>), Plain(<<<<b, 0>>>>),
      Plain(<<<<a, 127>>>>),
      Plain(<<<<Star>>>>), Plain(<<<<Star, a, Question, b>>>>), Plain(<<<<a, Star, b, Star>>>>),
      Plain(<<<<Star, b>>, <<c>>>>),
      [Plain(<<<<a, b>>>>) EXCEPT !.fuzzy = TRUE],
      [Plain(<<<<a, b>>>>) EXCEPT !.pathOnly = TRUE],
      [Plain(<<<<Star, a, b, Star>>>>) EXCEPT !.pathOnly = TRUE, !.fuzzy = TRUE],
      [Plain(<<<<b>>>>) EXCEPT !.exts = {"x"}, !.before = 7],
      [Plain(<<<<b>>>>) EXCEPT !.exts = {"x", "y"}, !.notKinds = {"dir"}],
      [Plain(<<<<b>>>>) EXCEPT !.notExts = {"x"}, !.after = 5],
      [Plain(<<<<b>>>>) EXCEPT !.paths = {[value |-> <<a, b>>, component |-> TRUE]}],
      [Plain(<<<<b>>>>) EXCEPT !.notPaths = {[value |-> <<c, Star>>, component |-> TRUE]},
                               !.kinds = {"file"}] }

Search == INSTANCE SqlSearch WITH
    Databases <- kSubset(3, MCRows), Queries <- MCQueries, Limit <- 2, ExtMax <- 1, WritesMax <- 0

\* The same while other processes commit.
Written == INSTANCE SqlSearch WITH
    Databases <- {{w \in MCRows : w.id \in ids} : ids \in {{1, 4, 7}, {4, 6}, {3, 5, 6}, {2, 7, 8}}},
    Queries <- {Plain(<<<<a, b>>>>), Plain(<<<<Star, b, Star>>>>)},
    Limit <- 2, ExtMax <- 1, WritesMax <- 2

-----------------------------------------------------------------------------
(* Every text of up to three bytes as a term, a filter and an excluded        *)
(* filter, against every short absolute path; and the filters on kind,        *)
(* extension and time.                                                        *)

Percent == 37
Underscore == 95
Backslash == 92

Needles == Texts({a, Slash, Percent, Underscore, Backslash, Star, Question}, 3) \ {<<>>}
Paths ==
    {<<Slash>> \o t : t \in Texts({a, Slash, Percent, Underscore, Backslash}, 2)
                              \cup Texts({a, Slash, Underscore}, 3)}

BaseOfPath(p) == LET i == Max({0} \cup {k \in DOMAIN p : p[k] = Slash}) IN SubSeq(p, i + 1, Len(p))
RowAt(p, ext, kind, mtime, stored) ==
    [RowOf(1, 0, SubSeq(p, 1, Len(p) - Len(BaseOfPath(p))), BaseOfPath(p), mtime, ext)
       EXCEPT !.kind = kind, !.stored = stored]

NoTerm == Plain(<<>>)
TextQueries ==
    {[NoTerm EXCEPT !.terms = <<v>>, !.pathOnly = only] : v \in Needles, only \in BOOLEAN}
    \cup {[NoTerm EXCEPT !.paths = {[value |-> v, component |-> k]}] : v \in Needles, k \in BOOLEAN}
    \cup {[NoTerm EXCEPT !.notPaths = {[value |-> v, component |-> k]}] : v \in Needles, k \in BOOLEAN}

MetadataQueries ==
    {[NoTerm EXCEPT !.exts = e, !.notExts = ne, !.kinds = k, !.notKinds = nk, !.after = t, !.before = u] :
       e \in SUBSET {"x", "y"}, ne \in SUBSET {"x", "y"}, k \in SUBSET {"dir"}, nk \in SUBSET {"dir"},
       t \in {Absent, 1}, u \in {Absent, 2}}

MetadataRows == {RowAt(<<Slash, a>>, e, k, t, s) : e \in {NoExt, "x", "y"}, k \in {"file", "dir"},
                                                   t \in {Absent, 0, 1, 2}, s \in BOOLEAN}
TextRows == {RowAt(p, NoExt, "file", Absent, s) : p \in Paths, s \in BOOLEAN}

TextSql == INSTANCE SqlCandidates WITH Queries <- TextQueries, Rows <- TextRows
MetadataSql == INSTANCE SqlCandidates WITH Queries <- MetadataQueries, Rows <- MetadataRows

-----------------------------------------------------------------------------
(* Every query of four symbols, queries that begin with a filter's key, and   *)
(* pairs of short tokens written in every way.                                *)

Marks == {"sp", "q1", "q2", "bs", "tilde", "not", "colon", "x"}
Digits == {"one", "many", "huge"}
FilterValues == {"sp", "comma", "dot", "x", "file", "mo"} \cup Digits

\* Two runs of digits side by side would be one run.
DigitsMeet(u) == \E i \in 1 .. Len(u) - 1 : {u[i], u[i + 1]} \subseteq Digits

MCTyped ==
    Texts(Marks, 4)
    \cup {n \o <<k, "colon">> \o v : n \in {<<>>, <<"not">>},
                                     k \in {"ext", "kind", "path", "mtime", "x"},
                                     v \in {u \in Texts(FilterValues, 3) : ~DigitsMeet(u)}}
    \cup {<<"mtime", "colon", n, "sp", "mtime", "colon", m>> :
            n \in {"one", "many"}, m \in {"one", "huge"}}

Words == Texts({"sp", "q1", "q2", "bs", "x"}, 2) \ {<<>>}
MCMeant == {<<t, u>> : t, u \in Words} \cup {<<<<"path", "colon">> \o t>> : t \in Words}

Query == INSTANCE QueryText WITH Typed <- MCTyped, Meant <- MCMeant, Now <- 5, MaxInt <- 7

-----------------------------------------------------------------------------
(* Two pairs whose keys and values hold what means something in a query       *)
(* string or in JSON.                                                         *)

Http == INSTANCE HttpText WITH
    Bytes <- {27, 32, 34, 37, 38, 43, 61, 92, b}, Keys <- {38, 113}, MaxValue <- 2

-----------------------------------------------------------------------------
ASSUME PartsAssumption ==
    Locate!FinderAssumption /\ Search!SearchAssumption /\ Written!SearchAssumption
        /\ Query!QueryAssumption

MCInit ==
    \/ part = "find" /\ Locate!Init /\ query = 0 /\ NoOrder /\ NoSearch /\ NoRow /\ NoQuery /\ NoHttp
    \/ part = "order" /\ Order!Init /\ pc = 0 /\ query = 0 /\ result = 0
         /\ NoFind /\ NoSearch /\ NoRow /\ NoQuery /\ NoHttp
    \/ part = "search" /\ Search!Init /\ NoFind /\ NoOrder /\ NoRow /\ NoQuery /\ NoHttp
    \/ part = "written" /\ Written!Init /\ NoFind /\ NoOrder /\ NoRow /\ NoQuery /\ NoHttp
    \/ part = "sql" /\ (TextSql!Init \/ MetadataSql!Init) /\ pc = 0 /\ result = 0
         /\ NoFind /\ NoOrder /\ NoSearch /\ NoQuery /\ NoHttp
    \/ part = "query" /\ Query!Init /\ result = 0 /\ NoFind /\ NoOrder /\ NoSearch /\ NoRow /\ NoHttp
    \/ part = "http" /\ Http!Init /\ pc = 0 /\ query = 0 /\ result = 0
         /\ NoFind /\ NoOrder /\ NoSearch /\ NoRow /\ NoQuery

MCNext ==
    /\ UNCHANGED part
    /\ \/ part = "find" /\ Locate!Next
            /\ UNCHANGED <<query, ordervars, searchvars, rowvars, queryvars, httpvars>>
       \/ part = "order" /\ Order!Next
            /\ UNCHANGED <<pc, query, result, findvars, searchvars, rowvars, queryvars, httpvars>>
       \/ part = "search" /\ Search!Next
            /\ UNCHANGED <<findvars, ordervars, rowvars, queryvars, httpvars>>
       \/ part = "written" /\ Written!Next
            /\ UNCHANGED <<findvars, ordervars, rowvars, queryvars, httpvars>>
       \/ part = "sql" /\ TextSql!Next
            /\ UNCHANGED <<pc, result, findvars, ordervars, searchvars, queryvars, httpvars>>
       \/ part = "query" /\ Query!Next
            /\ UNCHANGED <<result, findvars, ordervars, searchvars, rowvars, httpvars>>
       \/ part = "http" /\ (Http!ParsePart \/ (rest = <<>> /\ UNCHANGED httpvars))
            /\ UNCHANGED <<pc, query, result, findvars, ordervars, searchvars, rowvars, queryvars>>

MCSpec == MCInit /\ [][MCNext]_<<part, pc, query, result, findvars, ordervars, searchvars,
                                 rowvars, queryvars, httpvars>>

-----------------------------------------------------------------------------
\* Finder::find returns the first occurrence, by words, by Horspool within its
\* budget or by the linear search after it, comparing a bounded number of bytes and
\* none outside the text; PreparedGlob, its shortcuts included, matches only what the
\* pattern matches, and all of it in a text without a '*'.
MatchingExact ==
    part = "find" =>
        Locate!TypeOK /\ Locate!FindExact /\ Locate!WorkBounded /\ Locate!GlobExact

\* Paths stored as prefix and suffix compare as their concatenations.
OrderExact == part = "order" => Order!OrderExact

\* search() over SQLite and over packed rows returns the best rows, in order, of one
\* moment: no row is ranked twice or dropped because it vanished between statements.
SearchExact ==
    /\ part = "search" => Search!SearchExact
    /\ part = "written" => Written!SearchExact /\ Written!NoVanishedRow

\* Every row that a query selects is among candidate_records, and none is whose
\* filters the query rejects.
CandidatesExact == part = "sql" => TextSql!CandidatesCover /\ TextSql!CandidatesExact

\* What a user means arrives: a query string and a JSON text read back, a quoted or
\* escaped token comes through tokenize_query whole, a typed token sets a filter or
\* is searched for, and mtime: never asks for the future.
QueryKept ==
    /\ part = "query" => Query!QuotingKept /\ Query!NothingIgnored /\ Query!TimesPast
    /\ part = "http" => Http!QueryReadsBack /\ Http!JsonReadsBack
=============================================================================
