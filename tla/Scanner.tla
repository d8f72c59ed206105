------------------------------ MODULE Scanner -------------------------------
(***************************************************************************)
(* The path namespaces the scanner and the watcher work on, and the        *)
(* database side of one scanner transaction: what a walk of the file       *)
(* system visits, and what the upserts and the deletions of refresh_path   *)
(* and refresh_roots leave in the files table.                             *)
(*                                                                         *)
(* A path is a model value; Sub[p] is the set of paths q with              *)
(* q.starts_with(p), p itself included.  Paths holds the indexed trees,    *)
(* and may also hold ancestors of a root ("/") and aliases (/private/tmp   *)
(* for /tmp) under which FSEvents can report a change.  A file is          *)
(* abstracted to its kind and version: "none" (absent), "dir" (Directory   *)
(* or App), or one of two versions of a leaf (File, Symlink, Other).  A    *)
(* row is that value and its indexed_at generation.                        *)
(***************************************************************************)
EXTENDS Naturals, FiniteSets

CONSTANTS Paths,     \* every path an event can name
          Roots,     \* the configured index roots
          Sub,       \* Sub[p]: the paths below p, p included
          Excluded   \* the paths ExcludeMatcher rejects

ASSUME TreeAssumption ==
    /\ IsFiniteSet(Paths)
    /\ Roots \subseteq Paths
    /\ Roots # {}
    /\ Sub \in [Paths -> SUBSET Paths]
    /\ \A p \in Paths : p \in Sub[p]
    /\ \A p, q \in Paths : q \in Sub[p] => Sub[q] \subseteq Sub[p]
    /\ \A p, q \in Paths : p \in Sub[q] /\ q \in Sub[p] => p = q
    /\ \A p, q \in Paths : \/ p \in Sub[q]
                           \/ q \in Sub[p]
                           \/ Sub[p] \cap Sub[q] = {}

\* ExcludeMatcher looks for its patterns anywhere in a path, so a path below
\* an excluded one is excluded.
ASSUME ExcludedAssumption ==
    /\ Excluded \subseteq Paths
    /\ \A p \in Excluded : Sub[p] \subseteq Excluded

Below(S) == UNION {Sub[p] : p \in S}

\* The namespaces of the index.
Tree == Below(Roots)

\* The paths the index is meant to hold.
Indexed == Tree \ Excluded

\* The paths that are in S and below no other path of S.
fold_refresh_paths(S) == {p \in S : \A a \in S : p \in Sub[a] => a = p}

\* A slip: an event outside the roots is refreshed where it is reported.
subtree_targets_verbatim(p) == {p}

\* What an event reported at p asks to refresh: p if it is in a tree, else
\* every root below p.  The empty set is the None of the code: no lexical
\* intersection with the roots.
subtree_targets(p) ==
    fold_refresh_paths({q \in {p} : q \in Tree} \cup {r \in Roots : r \in Sub[p]})

-----------------------------------------------------------------------------
(* The walk and what it leaves.                                            *)

Leaf == {"v1", "v2"}
Vals == Leaf \cup {"none", "dir"}
Row  == [val : Vals, gen : Nat]
NoRow == [val |-> "none", gen |-> 0]

\* A present child has a directory above it.
Coherent(f) == \A p, q \in Tree : q \in Sub[p] /\ q # p /\ f[q] # "none" => f[p] = "dir"

\* scan_path_inner: the paths below t a walk visits when it observes obs.
\* An excluded path is neither visited nor descended into.
Walk(t, obs) ==
    {p \in Sub[t] \ Excluded :
        /\ obs[p] # "none"
        /\ \A a \in Sub[t] : p \in Sub[a] /\ a # p => obs[a] = "dir"}

WalkAll(T, obs) == UNION {Walk(t, obs) : t \in T}

\* A walk that meets errors: V is what it visited, R the paths it hands back
\* for retry.  An unreadable path (lstat failed, or deeper than the limit) is
\* not in V; an unreadable directory is in V with some of its entries missing.
PartialWalk(T, obs, V, R) ==
    /\ R # {}
    /\ \A p \in WalkAll(T, obs) \ V : p \in Below(R)
    /\ \A p \in V \cup R : \A t \in T :
          p \in Sub[t] => \A a \in Sub[t] : p \in Sub[a] /\ a # p => a \in V
    /\ \A p \in V : (\E q \in Below(T) : q \in Sub[p] /\ q # p /\ q \in V \cup R)
                        => obs[p] = "dir"
    /\ \A p \in R \cap V : obs[p] = "dir"

\* FileUpsert: an exact scan leaves an unchanged row alone, generation
\* included, and remembers its id; a legacy scan stamps every row it visits.
Upsert(rows, V, obs, g, exact) ==
    [p \in Paths |->
        IF p \notin V THEN rows[p]
        ELSE IF exact /\ rows[p].val = obs[p] THEN rows[p]
        ELSE [val |-> obs[p], gen |-> g]]

delete_path_prefix(rows, t) ==
    [p \in Paths |-> IF p \in Sub[t] THEN NoRow ELSE rows[p]]

delete_unseen_under_roots(rows, T, seen) ==
    [p \in Paths |-> IF p \in Below(T) \ seen THEN NoRow ELSE rows[p]]

delete_stale_under_roots(rows, T, g) ==
    [p \in Paths |-> IF p \in Below(T) /\ rows[p].gen < g THEN NoRow ELSE rows[p]]

\* A walk of T without warnings, with its trailing cleanup.
CompleteScan(rows, T, obs, g, exact) ==
    LET V   == WalkAll(T, obs)
        new == Upsert(rows, V, obs, g, exact)
    IN  IF exact THEN delete_unseen_under_roots(new, T, V)
                 ELSE delete_stale_under_roots(new, T, g)

\* refresh_path when the first lstat of t found a leaf: a directory's old
\* rows go first, and there are no children to clean up afterwards.
LeafScan(rows, t, V, obs, g, exact) ==
    LET old == IF rows[t].val = "dir" THEN delete_path_prefix(rows, t) ELSE rows
    IN  Upsert(old, V, obs, g, exact)
=============================================================================
