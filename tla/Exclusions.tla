----------------------------- MODULE Exclusions -----------------------------
(***************************************************************************)
(* What the watcher leaves out.  ExcludeMatcher decides for the scanner    *)
(* and the event callback; upstream_exclusion_paths selects directories    *)
(* that FSEvents itself is told to keep quiet about, so that their events  *)
(* never reach the callback.                                               *)
(*                                                                         *)
(* A path is the sequence of its components.  The file system is whole     *)
(* but for one missing path and one symbolic link.                         *)
(***************************************************************************)
EXTENDS Naturals, Sequences, SequencesExt, FiniteSets

CONSTANTS Names,      \* component names
          MaxDepth,   \* bound: components of a path
          RootSets,   \* the sets of index roots to consider
          Missing,    \* the paths that may be missing, <<>> for none
          Links,      \* the symbolic links to consider, NoLink among them
          Patterns,   \* the patterns that users may exclude
          Runtime,    \* the patterns that runtime_excludes adds
          Relatives,  \* the candidates below a root: Library, .codex, ...
          DbDir,      \* the directory of the database
          Limit       \* the directories FSEvents takes: 8

ExclusionsAssumption ==
    /\ MaxDepth \in Nat /\ Limit \in Nat
    /\ Patterns \cup Runtime \cup {DbDir} \subseteq Seq(Names) \ {<<>>}
    /\ \A R \in RootSets : IsFiniteSet(R) /\ R \subseteq Seq(Names)
    /\ Relatives \in Seq(Seq(Names))

AllPaths == UNION {[1 .. n -> Names] : n \in 0 .. MaxDepth}
NoLink == [from |-> <<>>, to |-> <<>>]

VARIABLES roots, excludes,
          missing,    \* a path that does not exist
          link,       \* a symbolic link, or NoLink
          rest,       \* the candidates still to be looked at
          selected    \* the directories to exclude upstream

vars == <<roots, excludes, missing, link, rest, selected>>

\* Path::starts_with
Under(p, d) == IsPrefix(d, p)

\* fs::canonicalize for a path that exists.
canonicalize(p) ==
    IF link # NoLink /\ Under(p, link.from)
    THEN link.to \o SubSeq(p, Len(link.from) + 1, Len(p)) ELSE p

Exists(p) == missing = <<>> \/ ~Under(canonicalize(p), missing)

-----------------------------------------------------------------------------
(* ExcludeMatcher *)

\* new: the patterns, by their first component.
SuffixesOf(S, first) == {Tail(p) : p \in {q \in S : Head(q) = first}}

\* Some component begins a pattern and the next ones continue it.
is_excluded(S, path) ==
    \E i \in DOMAIN path : \E s \in SuffixesOf(S, path[i]) :
        i + Len(s) <= Len(path) /\ SubSeq(path, i + 1, i + Len(s)) = s

\* runtime_excludes
RuntimeExcludes == excludes \cup Runtime \cup {DbDir}

-----------------------------------------------------------------------------
(* upstream_exclusion_paths *)

\* A root that is an alias, or is gone, makes the set of candidates empty.
CanonicalRoots == \A r \in roots : Exists(r) /\ canonicalize(r) = r

\* The directory of the database, then each relative path below each root.
Candidates ==
    LET order == SetToSeq(roots)
        n == Cardinality(roots)
    IN  <<DbDir>> \o [k \in 1 .. n * Len(Relatives) |->
                        order[((k - 1) % n) + 1] \o Relatives[((k - 1) \div n) + 1]]

\* A slip: the candidate may be a symbolic link, or lead through one.
Eligible_alias(p) ==
    /\ p \notin ToSet(selected)
    /\ is_excluded(RuntimeExcludes, p)
    /\ Exists(p)
    /\ \E r \in roots : p # r /\ Under(p, r)
    /\ \A r \in roots : ~Under(r, p)

Eligible(p) ==
    /\ p \notin ToSet(selected)
    /\ is_excluded(RuntimeExcludes, p)
    /\ Exists(p) /\ canonicalize(p) = p
    /\ \E r \in roots : p # r /\ Under(p, r)
    /\ \A r \in roots : ~Under(r, p)

\* One turn of the loop over the candidates.
Consider ==
    /\ rest # <<>> /\ Len(selected) < Limit
    /\ rest' = Tail(rest)
    /\ selected' = IF Eligible(Head(rest)) THEN Append(selected, Head(rest)) ELSE selected
    /\ UNCHANGED <<roots, excludes, missing, link>>

Init ==
    /\ roots \in RootSets
    /\ excludes \in SUBSET Patterns
    /\ missing \in Missing
    /\ link \in Links
    /\ rest = IF CanonicalRoots THEN Candidates ELSE <<>>
    /\ selected = <<>>

Spec == Init /\ [][Consider]_vars

-----------------------------------------------------------------------------
\* FSEvents reports canonical paths, and is quiet below what it resolves the
\* excluded directories to.
Reported == {q \in AllPaths : Exists(q) /\ canonicalize(q) = q}

Quiet(q) == \E s \in ToSet(selected) : Under(q, canonicalize(s))

\* The upstream exclusion costs nothing: an event that never arrives is one
\* that the callback would have rejected, and no root is ever below a quiet
\* directory, whatever links, missing directories and nested roots there are.
UpstreamExact ==
    /\ \A q \in Reported : Quiet(q) => is_excluded(RuntimeExcludes, q)
    /\ \A r \in roots : ~Quiet(r)
    /\ Len(selected) <= Limit

\* What is directly, and so what is anywhere, below an excluded path is
\* excluded: a scan may skip a directory without looking inside, and the
\* callback agrees with it.
MatcherClosed ==
    \A p \in AllPaths, n \in Names :
        is_excluded(RuntimeExcludes, p) => is_excluded(RuntimeExcludes, Append(p, n))
=============================================================================
