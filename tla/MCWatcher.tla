----------------------------- MODULE MCWatcher ------------------------------
(* A root R, a directory D in it, a file C in D.  The wide instance adds T  *)
(* (the parent of R), A (an alias of R) and X (an excluded file in R).  A   *)
(* behaviour has more changes ("crash"), more faults ("live"), or whatever  *)
(* the bounds allow ("all").                                                *)
EXTENDS Watcher, Integers, TLC

CONSTANTS R, D, C, A, T, X, Parts

VARIABLE part

MCPaths == {R, D, C}
MCSub == (R :> {R, D, C}) @@ (D :> {D, C}) @@ (C :> {C})

WidePaths == {R, D, C, A, T, X}
WideSub == (T :> {T, R, D, C, X}) @@ (R :> {R, D, C, X}) @@ (D :> {D, C})
               @@ (C :> {C}) @@ (A :> {A}) @@ (X :> {X})

\* D is only ever a directory; a rename away and a new file make it a leaf.
MCKinds == (R :> {"dir"}) @@ (D :> {"none", "dir"}) @@ (C :> {"none", "v1"})
MCKindsSwap == (R :> {"dir"}) @@ (D :> {"v1", "dir"}) @@ (C :> {"none", "v1"})
WideKinds == (R :> {"dir"}) @@ (D :> {"v1", "dir"}) @@ (C :> {"none", "v1"})
                 @@ (X :> {"none", "v1"})

\* Only how the generations of the rows and of the deferred cleanups compare
\* matters: later generations are larger than all of them.
Debts == {pend.deferred_cleanups[t] : t \in Paths} \ {0}
Rank(g) == Cardinality({d \in Debts : d > g})
View == <<system, delivered, inbox,
          [pend EXCEPT !.deferred_cleanups = [t \in Paths |-> IF @[t] = 0 THEN -1 ELSE Rank(@[t])]],
          [p \in Paths |-> <<rows[p].val, Rank(rows[p].gen)>>],
          ckpt, pc, armed, due, legacy, queue, scan, faults, crashes>>

MCInit == Init /\ part \in Parts

MCNext ==
    /\ Next /\ part' = part
    /\ part = "crash" => faults' <= 1
    /\ part = "live" => Len(log') <= 1

mcvars == <<vars, part>>
Live(step) == part = "live" /\ step /\ part' = part

MCSpec ==
    /\ MCInit /\ [][MCNext]_mcvars
    /\ WF_mcvars(Live(Deliver)) /\ WF_mcvars(Live(Start \/ Boot)) /\ WF_mcvars(Live(Work))

\* Without fairness only the view's states are told apart.
PartView == <<part, IF part = "live" THEN vars ELSE View>>

\* When the system, the faults and the crashes stop, the index becomes the file
\* system, and the worker goes back to sleep with nothing pending.
Recovers == part = "live" => Converges
=============================================================================
