-------------------------- MODULE ConnectionProofs --------------------------
(***************************************************************************)
(* What is proved of HttpService for every number of connections, every    *)
(* set of messages and all limits: the counts are those of the handlers,   *)
(* a handler does not read for ever, and the token is asked for.           *)
(***************************************************************************)
EXTENDS HttpService, FiniteSetTheorems, WellFoundedInduction,
        SequenceTheorems, TLAPS

Labels == {"queued", "load", "exchange", "reading", "route", "slot", "search",
           "count_search", "work", "release", "count", "done"}
Counters == {"http_accepted", "http_completed", "http_rejected",
             "searches_started", "searches_completed"}

TypeOK ==
    /\ message \in [Clients -> Messages]
    /\ got \in [Clients -> Nat] /\ (\A c \in Clients : got[c] <= Len(message[c]))
    /\ age \in [Clients -> Nat]
    /\ pc \in [Clients -> Labels]
    /\ seen \in Nat /\ active \in Nat /\ searching \in Nat
    /\ traffic \in [Counters -> Nat]
    /\ DOMAIN answer = Clients

\* The connections that hold a request slot, those that are accepted and not yet
\* counted out, those that search, and those whose search is not yet counted out.
Holders == {"reading", "route", "slot", "search", "count_search", "work", "release"}
Accepted == Holders \cup {"load", "exchange", "count"}
Searchers == {"search"}
Counting == {"search", "count_search"}

At(f, L) == {c \in Clients : f[c] \in L}

\* Every count is that of the connections it stands for.
Counted ==
    /\ \A L \in {Holders, Accepted, Searchers, Counting} : IsFiniteSet(At(pc, L))
    /\ active = Cardinality(At(pc, Holders)) /\ active <= MaxRequests
    /\ searching = Cardinality(At(pc, Searchers)) /\ searching <= MaxSearches
    /\ traffic["http_accepted"] = traffic["http_rejected"] + traffic["http_completed"]
                                  + Cardinality(At(pc, Accepted))
    /\ traffic["searches_started"] = traffic["searches_completed"]
                                     + Cardinality(At(pc, Counting))

\* A slot is taken for a count below the limit.
BelowLimit == seen < MaxRequests

\* A handler starts to read with nothing.
Unread == \A c \in Clients : pc[c] \in {"queued", "load", "exchange"} => got[c] = 0 /\ age[c] = 0

Inv == TypeOK /\ Counted /\ BelowLimit /\ Unread /\ ReadingBounded /\ NothingWithoutToken

-----------------------------------------------------------------------------
(* Counting.                                                               *)

\* One connection moves: each set of labels gains or loses it.
LEMMA Moves ==
    ASSUME NEW f \in [Clients -> Labels], NEW c \in Clients, NEW l \in Labels, NEW L,
           IsFiniteSet(At(f, L))
    PROVE  LET g == [f EXCEPT ![c] = l]
           IN  /\ IsFiniteSet(At(g, L))
               /\ Cardinality(At(f, L)) \in Nat /\ Cardinality(At(g, L)) \in Nat
               /\ (l \in L <=> f[c] \in L) => Cardinality(At(g, L)) = Cardinality(At(f, L))
               /\ l \in L /\ f[c] \notin L => Cardinality(At(g, L)) = Cardinality(At(f, L)) + 1
               /\ l \notin L /\ f[c] \in L => Cardinality(At(g, L)) = Cardinality(At(f, L)) - 1
  <1> DEFINE g == [f EXCEPT ![c] = l]
             F == At(f, L)
             G == At(g, L)
  <1>1. Cardinality(F) \in Nat
      BY FS_CardinalityType
  <1>2. CASE l \in L <=> f[c] \in L
    <2>1. F = G
        BY <1>2 DEF At
    <2> QED
        BY <1>1, <1>2, <2>1
  <1>3. CASE l \in L /\ f[c] \notin L
    <2>1. G = F \cup {c} /\ c \notin F
        BY <1>3 DEF At
    <2>2. IsFiniteSet(G) /\ Cardinality(G) = Cardinality(F) + 1
        BY <2>1, FS_AddElement
    <2> QED
        BY <1>1, <1>3, <2>2
  <1>4. CASE l \notin L /\ f[c] \in L
    <2>1. G = F \ {c} /\ c \in F
        BY <1>4 DEF At
    <2>2. IsFiniteSet(G) /\ Cardinality(G) = Cardinality(F) - 1
        BY <2>1, FS_RemoveElement
    <2>3. Cardinality(G) \in Nat
        BY <2>2, FS_CardinalityType
    <2> QED
        BY <1>1, <1>4, <2>2, <2>3
  <1> QED
      BY <1>2, <1>3, <1>4

Cuts == {Holders, Accepted, Searchers, Counting}

\* A step that moves connection c to l moves every count by what l and its old label say.
LEMMA Shift ==
    ASSUME TypeOK, Counted, NEW c \in Clients, NEW l \in Labels, pc' = [pc EXCEPT ![c] = l]
    PROVE  \A L \in Cuts :
             /\ IsFiniteSet(At(pc', L))
             /\ Cardinality(At(pc, L)) \in Nat /\ Cardinality(At(pc', L)) \in Nat
             /\ (l \in L <=> pc[c] \in L) => Cardinality(At(pc', L)) = Cardinality(At(pc, L))
             /\ l \in L /\ pc[c] \notin L
                   => Cardinality(At(pc', L)) = Cardinality(At(pc, L)) + 1
             /\ l \notin L /\ pc[c] \in L
                   => Cardinality(At(pc', L)) = Cardinality(At(pc, L)) - 1
  <1> SUFFICES ASSUME NEW L \in Cuts
               PROVE  /\ IsFiniteSet(At(pc', L))
                      /\ Cardinality(At(pc, L)) \in Nat /\ Cardinality(At(pc', L)) \in Nat
                      /\ (l \in L <=> pc[c] \in L)
                            => Cardinality(At(pc', L)) = Cardinality(At(pc, L))
                      /\ l \in L /\ pc[c] \notin L
                            => Cardinality(At(pc', L)) = Cardinality(At(pc, L)) + 1
                      /\ l \notin L /\ pc[c] \in L
                            => Cardinality(At(pc', L)) = Cardinality(At(pc, L)) - 1
      OBVIOUS
  <1>1. IsFiniteSet(At(pc, L)) /\ pc \in [Clients -> Labels]
      BY DEF Counted, Cuts, TypeOK
  <1> QED
      BY <1>1, Moves

\* The counts after a step, from the cardinalities before and after it.
LEMMA CountedFrom ==
    ASSUME \A L \in Cuts : IsFiniteSet(At(pc', L)),
           active' = Cardinality(At(pc', Holders)), active' <= MaxRequests,
           searching' = Cardinality(At(pc', Searchers)), searching' <= MaxSearches,
           traffic'["http_accepted"] = traffic'["http_rejected"] + traffic'["http_completed"]
                                       + Cardinality(At(pc', Accepted)),
           traffic'["searches_started"] = traffic'["searches_completed"]
                                          + Cardinality(At(pc', Counting))
    PROVE  Counted'
  BY Zenon DEF Counted, Cuts, At

\* A step keeps the counts.
LEMMA StepCounted ==
    ASSUME HttpAssumption, TypeOK, Counted, BelowLimit, NEW c \in Clients, Step(c)
    PROVE  Counted'
  <1> DEFINE Num(f, L) == Cardinality(At(f, L))
             Tr == traffic
  <1>0. /\ active = Num(pc, Holders) /\ active <= MaxRequests
        /\ searching = Num(pc, Searchers) /\ searching <= MaxSearches
        /\ Tr["http_accepted"] = Tr["http_rejected"] + Tr["http_completed"] + Num(pc, Accepted)
        /\ Tr["searches_started"] = Tr["searches_completed"] + Num(pc, Counting)
        /\ MaxRequests \in Nat /\ MaxSearches \in Nat /\ active \in Nat /\ searching \in Nat
        /\ seen < MaxRequests /\ seen \in Nat
        /\ \A k \in Counters : Tr[k] \in Nat
        /\ Tr \in [Counters -> Nat]
      BY DEF Counted, HttpAssumption, TypeOK, BelowLimit
  <1>1. \A L \in Cuts : IsFiniteSet(At(pc, L))
      BY DEF Counted, Cuts
  <1>2. ASSUME pc' = pc, UNCHANGED <<active, searching, traffic>> PROVE Counted'
      BY <1>2, <1>0, <1>1, CountedFrom
  <1>3. ASSUME NEW l \in Labels, pc' = [pc EXCEPT ![c] = l],
               UNCHANGED <<active, searching, traffic>>,
               \A L \in Cuts : l \in L <=> pc[c] \in L
        PROVE  Counted'
    <2>1. \A L \in Cuts : IsFiniteSet(At(pc', L)) /\ Num(pc', L) = Num(pc, L)
        BY <1>3, Shift
    <2>2. /\ Num(pc', Holders) = Num(pc, Holders) /\ Num(pc', Searchers) = Num(pc, Searchers)
          /\ Num(pc', Accepted) = Num(pc, Accepted) /\ Num(pc', Counting) = Num(pc, Counting)
        BY <2>1 DEF Cuts
    <2>3. /\ active' = Num(pc', Holders) /\ active' <= MaxRequests
          /\ searching' = Num(pc', Searchers) /\ searching' <= MaxSearches
        BY <2>1, <2>2, <1>3, <1>0
    <2>4. /\ traffic'["http_accepted"] = traffic'["http_rejected"]
             + traffic'["http_completed"] + Num(pc', Accepted)
          /\ traffic'["searches_started"] = traffic'["searches_completed"]
             + Num(pc', Counting)
        BY <2>1, <2>2, <1>3, <1>0
    <2> QED
        BY <2>1, <2>3, <2>4, CountedFrom
  <1>4. CASE Accept(c)
    <2>1. /\ pc' = [pc EXCEPT ![c] = "load"] /\ pc[c] = "queued"
          /\ traffic' = [traffic EXCEPT !["http_accepted"] = @ + 1]
          /\ UNCHANGED <<active, searching>>
        BY <1>4 DEF Accept, Goto, Count
    <2>2. /\ Num(pc', Accepted) = Num(pc, Accepted) + 1 /\ Num(pc, Accepted) \in Nat
          /\ Num(pc', Holders) = Num(pc, Holders) /\ Num(pc', Searchers) = Num(pc, Searchers)
          /\ Num(pc', Counting) = Num(pc, Counting)
          /\ \A L \in Cuts : IsFiniteSet(At(pc', L))
        BY <2>1, Shift DEF Cuts, Holders, Accepted, Searchers, Counting, Labels
    <2>3. /\ active' = Num(pc', Holders) /\ active' <= MaxRequests
          /\ searching' = Num(pc', Searchers) /\ searching' <= MaxSearches
        BY <2>1, <2>2, <1>0
    <2>4. /\ traffic'["http_accepted"] = traffic'["http_rejected"]
             + traffic'["http_completed"] + Num(pc', Accepted)
          /\ traffic'["searches_started"] = traffic'["searches_completed"]
             + Num(pc', Counting)
        BY <2>1, <2>2, <1>0 DEF Counters
    <2> QED
        BY <2>2, <2>3, <2>4, CountedFrom
  <1>5. CASE SlotLoad(c)
    <2>1. CASE /\ pc' = [pc EXCEPT ![c] = "done"] /\ pc[c] = "load"
               /\ traffic' = [traffic EXCEPT !["http_rejected"] = @ + 1]
               /\ UNCHANGED <<active, searching>>
      <3>1. /\ Num(pc', Accepted) = Num(pc, Accepted) - 1 /\ Num(pc, Accepted) \in Nat
            /\ Num(pc', Holders) = Num(pc, Holders) /\ Num(pc', Searchers) = Num(pc, Searchers)
            /\ Num(pc', Counting) = Num(pc, Counting)
            /\ \A L \in Cuts : IsFiniteSet(At(pc', L))
          BY <2>1, Shift DEF Cuts, Holders, Accepted, Searchers, Counting, Labels
      <3>2. /\ active' = Num(pc', Holders) /\ active' <= MaxRequests
            /\ searching' = Num(pc', Searchers) /\ searching' <= MaxSearches
          BY <2>1, <3>1, <1>0
      <3>3. /\ traffic'["http_accepted"] = traffic'["http_rejected"]
               + traffic'["http_completed"] + Num(pc', Accepted)
            /\ traffic'["searches_started"] = traffic'["searches_completed"]
               + Num(pc', Counting)
          BY <2>1, <3>1, <1>0 DEF Counters
      <3> QED
          BY <3>1, <3>2, <3>3, CountedFrom
    <2>2. CASE /\ pc' = [pc EXCEPT ![c] = "exchange"] /\ pc[c] = "load"
               /\ UNCHANGED <<active, searching, traffic>>
        BY <2>2, <1>3 DEF Cuts, Holders, Accepted, Searchers, Counting, Labels
    <2> QED
        BY <2>1, <2>2, <1>5 DEF SlotLoad, Goto, Count
  <1>6. CASE SlotExchange(c)
    <2>1. CASE /\ pc' = [pc EXCEPT ![c] = "reading"] /\ pc[c] = "exchange" /\ active = seen
               /\ active' = active + 1 /\ UNCHANGED <<traffic, searching>>
      <3>1. /\ Num(pc', Holders) = Num(pc, Holders) + 1
            /\ Num(pc', Accepted) = Num(pc, Accepted) /\ Num(pc', Searchers) = Num(pc, Searchers)
            /\ Num(pc', Counting) = Num(pc, Counting)
            /\ \A L \in Cuts : IsFiniteSet(At(pc', L))
          BY <2>1, Shift DEF Cuts, Holders, Accepted, Searchers, Counting, Labels
      <3>2. /\ active' = Num(pc', Holders) /\ active' <= MaxRequests
            /\ searching' = Num(pc', Searchers) /\ searching' <= MaxSearches
          BY <2>1, <3>1, <1>0
      <3>3. /\ traffic'["http_accepted"] = traffic'["http_rejected"]
               + traffic'["http_completed"] + Num(pc', Accepted)
            /\ traffic'["searches_started"] = traffic'["searches_completed"]
               + Num(pc', Counting)
          BY <2>1, <3>1, <1>0
      <3> QED
          BY <3>1, <3>2, <3>3, CountedFrom
    <2>2. CASE /\ pc' = [pc EXCEPT ![c] = "load"] /\ pc[c] = "exchange"
               /\ UNCHANGED <<active, searching, traffic>>
        BY <2>2, <1>3 DEF Cuts, Holders, Accepted, Searchers, Counting, Labels
    <2> QED
        BY <2>1, <2>2, <1>6 DEF SlotExchange, Goto
  <1>7. CASE ReadSome(c)
    <2>1. pc[c] = "reading" /\ UNCHANGED <<active, searching, traffic>>
        BY <1>7 DEF ReadSome
    <2>2. \/ pc' = pc
          \/ \E l \in {"route", "release"} : pc' = [pc EXCEPT ![c] = l]
        BY <1>7, Zenon DEF ReadSome, Goto, Close
    <2> QED
        BY <2>1, <2>2, <1>2, <1>3 DEF Cuts, Holders, Accepted, Searchers, Counting, Labels
  <1>8. CASE ReadBlocks(c)
      BY <1>8, <1>2 DEF ReadBlocks
  <1>9. CASE ReadEnd(c) \/ ReadFails(c)
      BY <1>9, <1>3 DEF ReadEnd, ReadFails, Close, Goto, Cuts, Holders, Accepted, Searchers,
                        Counting, Labels
  <1>10. CASE Route(c)
    <2>1. pc[c] = "route" /\ UNCHANGED <<active, searching, traffic>>
        BY <1>10 DEF Route
    <2>2. \E l \in {"release", "slot", "work"} : pc' = [pc EXCEPT ![c] = l]
        BY <1>10, Zenon DEF Route, Respond, Goto
    <2> QED
        BY <2>1, <2>2, <1>3 DEF Cuts, Holders, Accepted, Searchers, Counting, Labels
  <1>11. CASE SearchSlot(c)
    <2>1. CASE /\ pc' = [pc EXCEPT ![c] = "release"] /\ pc[c] = "slot"
               /\ UNCHANGED <<active, searching, traffic>>
        BY <2>1, <1>3 DEF Cuts, Holders, Accepted, Searchers, Counting, Labels
    <2>2. CASE /\ pc' = [pc EXCEPT ![c] = "search"] /\ pc[c] = "slot"
               /\ ~(searching >= MaxSearches) /\ searching' = searching + 1
               /\ traffic' = [traffic EXCEPT !["searches_started"] = @ + 1]
               /\ UNCHANGED active
      <3>1. /\ Num(pc', Searchers) = Num(pc, Searchers) + 1
            /\ Num(pc', Counting) = Num(pc, Counting) + 1 /\ Num(pc, Counting) \in Nat
            /\ Num(pc', Holders) = Num(pc, Holders) /\ Num(pc', Accepted) = Num(pc, Accepted)
            /\ \A L \in Cuts : IsFiniteSet(At(pc', L))
          BY <2>2, Shift DEF Cuts, Holders, Accepted, Searchers, Counting, Labels
      <3>2. /\ active' = Num(pc', Holders) /\ active' <= MaxRequests
            /\ searching' = Num(pc', Searchers) /\ searching' <= MaxSearches
          BY <2>2, <3>1, <1>0
      <3>3. /\ traffic'["http_accepted"] = traffic'["http_rejected"]
               + traffic'["http_completed"] + Num(pc', Accepted)
            /\ traffic'["searches_started"] = traffic'["searches_completed"]
               + Num(pc', Counting)
          BY <2>2, <3>1, <1>0 DEF Counters
      <3> QED
          BY <3>1, <3>2, <3>3, CountedFrom
    <2> QED
        BY <2>1, <2>2, <1>11 DEF SearchSlot, Respond, Goto, Count
  <1>12. CASE Search(c)
    <2>1. /\ pc' = [pc EXCEPT ![c] = "count_search"] /\ pc[c] = "search"
          /\ searching' = searching - 1 /\ UNCHANGED <<active, traffic>>
        BY <1>12 DEF Search, Goto
    <2>2. /\ Num(pc', Searchers) = Num(pc, Searchers) - 1
          /\ Num(pc', Counting) = Num(pc, Counting)
          /\ Num(pc', Holders) = Num(pc, Holders) /\ Num(pc', Accepted) = Num(pc, Accepted)
          /\ \A L \in Cuts : IsFiniteSet(At(pc', L))
        BY <2>1, Shift DEF Cuts, Holders, Accepted, Searchers, Counting, Labels
    <2>3. /\ active' = Num(pc', Holders) /\ active' <= MaxRequests
          /\ searching' = Num(pc', Searchers) /\ searching' <= MaxSearches
        BY <2>1, <2>2, <1>0
    <2>4. /\ traffic'["http_accepted"] = traffic'["http_rejected"]
             + traffic'["http_completed"] + Num(pc', Accepted)
          /\ traffic'["searches_started"] = traffic'["searches_completed"]
             + Num(pc', Counting)
        BY <2>1, <2>2, <1>0
    <2> QED
        BY <2>2, <2>3, <2>4, CountedFrom
  <1>13. CASE CountSearch(c)
    <2>1. /\ pc' = [pc EXCEPT ![c] = "release"] /\ pc[c] = "count_search"
          /\ traffic' = [traffic EXCEPT !["searches_completed"] = @ + 1]
          /\ UNCHANGED <<active, searching>>
        BY <1>13 DEF CountSearch, Goto, Count
    <2>2. /\ Num(pc', Counting) = Num(pc, Counting) - 1 /\ Num(pc, Counting) \in Nat
          /\ Num(pc', Searchers) = Num(pc, Searchers)
          /\ Num(pc', Holders) = Num(pc, Holders) /\ Num(pc', Accepted) = Num(pc, Accepted)
          /\ \A L \in Cuts : IsFiniteSet(At(pc', L))
        BY <2>1, Shift DEF Cuts, Holders, Accepted, Searchers, Counting, Labels
    <2>3. /\ active' = Num(pc', Holders) /\ active' <= MaxRequests
          /\ searching' = Num(pc', Searchers) /\ searching' <= MaxSearches
        BY <2>1, <2>2, <1>0
    <2>4. /\ traffic'["http_accepted"] = traffic'["http_rejected"]
             + traffic'["http_completed"] + Num(pc', Accepted)
          /\ traffic'["searches_started"] = traffic'["searches_completed"]
             + Num(pc', Counting)
        BY <2>1, <2>2, <1>0 DEF Counters
    <2> QED
        BY <2>2, <2>3, <2>4, CountedFrom
  <1>14. CASE Work(c)
      BY <1>14, <1>3 DEF Work, Goto, Cuts, Holders, Accepted, Searchers, Counting, Labels
  <1>15. CASE Release(c)
    <2>1. /\ pc' = [pc EXCEPT ![c] = "count"] /\ pc[c] = "release"
          /\ active' = active - 1 /\ UNCHANGED <<traffic, searching>>
        BY <1>15 DEF Release, Goto
    <2>2. /\ Num(pc', Holders) = Num(pc, Holders) - 1
          /\ Num(pc', Accepted) = Num(pc, Accepted) /\ Num(pc', Searchers) = Num(pc, Searchers)
          /\ Num(pc', Counting) = Num(pc, Counting)
          /\ \A L \in Cuts : IsFiniteSet(At(pc', L))
        BY <2>1, Shift DEF Cuts, Holders, Accepted, Searchers, Counting, Labels
    <2>3. /\ active' = Num(pc', Holders) /\ active' <= MaxRequests
          /\ searching' = Num(pc', Searchers) /\ searching' <= MaxSearches
        BY <2>1, <2>2, <1>0
    <2>4. /\ traffic'["http_accepted"] = traffic'["http_rejected"]
             + traffic'["http_completed"] + Num(pc', Accepted)
          /\ traffic'["searches_started"] = traffic'["searches_completed"]
             + Num(pc', Counting)
        BY <2>1, <2>2, <1>0
    <2> QED
        BY <2>2, <2>3, <2>4, CountedFrom
  <1>16. CASE CountRequest(c)
    <2>1. /\ pc' = [pc EXCEPT ![c] = "done"] /\ pc[c] = "count"
          /\ traffic' = [traffic EXCEPT !["http_completed"] = @ + 1]
          /\ UNCHANGED <<active, searching>>
        BY <1>16 DEF CountRequest, Goto, Count
    <2>2. /\ Num(pc', Accepted) = Num(pc, Accepted) - 1 /\ Num(pc, Accepted) \in Nat
          /\ Num(pc', Holders) = Num(pc, Holders) /\ Num(pc', Searchers) = Num(pc, Searchers)
          /\ Num(pc', Counting) = Num(pc, Counting)
          /\ \A L \in Cuts : IsFiniteSet(At(pc', L))
        BY <2>1, Shift DEF Cuts, Holders, Accepted, Searchers, Counting, Labels
    <2>3. /\ active' = Num(pc', Holders) /\ active' <= MaxRequests
          /\ searching' = Num(pc', Searchers) /\ searching' <= MaxSearches
        BY <2>1, <2>2, <1>0
    <2>4. /\ traffic'["http_accepted"] = traffic'["http_rejected"]
             + traffic'["http_completed"] + Num(pc', Accepted)
          /\ traffic'["searches_started"] = traffic'["searches_completed"]
             + Num(pc', Counting)
        BY <2>1, <2>2, <1>0 DEF Counters
    <2> QED
        BY <2>2, <2>3, <2>4, CountedFrom
  <1> QED
      BY <1>4, <1>5, <1>6, <1>7, <1>8, <1>9, <1>10, <1>11, <1>12, <1>13, <1>14, <1>15, <1>16
         DEF Step

-----------------------------------------------------------------------------
(* Types, slots and reading.                                               *)

\* A step keeps the types.
LEMMA StepTypes ==
    ASSUME HttpAssumption, TypeOK, Counted', NEW c \in Clients, Step(c)
    PROVE  TypeOK'
  <1>0. /\ message \in [Clients -> Messages] /\ got \in [Clients -> Nat]
        /\ \A k \in Clients : got[k] <= Len(message[k])
        /\ age \in [Clients -> Nat] /\ pc \in [Clients -> Labels]
        /\ seen \in Nat /\ active \in Nat /\ searching \in Nat
        /\ traffic \in [Counters -> Nat] /\ DOMAIN answer = Clients
      BY DEF TypeOK
  <1>1. message' = message
      BY DEF Step, Accept, SlotLoad, SlotExchange, ReadSome, ReadBlocks, ReadEnd, ReadFails, Route,
             SearchSlot, Search, CountSearch, Work, Release, CountRequest
  <1>2. active' \in Nat /\ searching' \in Nat
      BY FS_CardinalityType DEF Counted
  <1>3. got' \in [Clients -> Nat] /\ age' \in [Clients -> Nat]
        /\ \A k \in Clients : got'[k] <= Len(message[k])
    <2>1. CASE ReadSome(c)
      <3>1. PICK n \in 1 .. Buffer, waited \in 0 .. 1 :
               /\ got[c] + n <= Len(message[c])
               /\ got' = [got EXCEPT ![c] = @ + n] /\ age' = [age EXCEPT ![c] = @ + waited]
          BY <2>1 DEF ReadSome
      <3>2. n \in Nat /\ waited \in Nat
          OBVIOUS
      <3> QED
          BY <3>1, <3>2, <1>0
    <2>2. CASE ReadBlocks(c)
        BY <2>2, <1>0 DEF ReadBlocks
    <2>3. CASE ~ReadSome(c) /\ ~ReadBlocks(c)
      <3>1. got' = got /\ age' = age
          BY <2>3 DEF Step, Accept, SlotLoad, SlotExchange, ReadEnd, ReadFails, Route,
                      SearchSlot, Search, CountSearch, Work, Release, CountRequest
      <3> QED
          BY <3>1, <1>0
    <2> QED
        BY <2>1, <2>2, <2>3
  <1>4. \/ pc' = pc
        \/ \E l \in Labels : pc' = [pc EXCEPT ![c] = l]
    <2>1. CASE Accept(c) \/ SlotLoad(c) \/ SlotExchange(c)
        BY <2>1, Zenon DEF Accept, SlotLoad, SlotExchange, Goto, Labels
    <2>2. CASE ReadSome(c) \/ ReadBlocks(c) \/ ReadEnd(c) \/ ReadFails(c)
        BY <2>2, Zenon DEF ReadSome, ReadBlocks, ReadEnd, ReadFails, Close, Goto, Labels
    <2>3. CASE Route(c)
        BY <2>3, Zenon DEF Route, Respond, Goto, Labels
    <2>4. CASE SearchSlot(c) \/ Search(c) \/ CountSearch(c)
        BY <2>4, Zenon DEF SearchSlot, Search, CountSearch, Respond, Goto, Labels
    <2>5. CASE Work(c) \/ Release(c) \/ CountRequest(c)
        BY <2>5, Zenon DEF Work, Release, CountRequest, Goto, Labels
    <2> QED
        BY <2>1, <2>2, <2>3, <2>4, <2>5 DEF Step
  <1>5. seen' \in Nat
      BY <1>0 DEF Step, Accept, SlotLoad, SlotExchange, ReadSome, ReadBlocks, ReadEnd, ReadFails,
             Route, SearchSlot, Search, CountSearch, Work, Release, CountRequest
  <1>6. \/ traffic' = traffic
        \/ \E k \in Counters : traffic' = [traffic EXCEPT ![k] = @ + 1]
    <2>1. CASE Accept(c) \/ SlotLoad(c) \/ SlotExchange(c)
        BY <2>1, Zenon DEF Accept, SlotLoad, SlotExchange, Count, Counters
    <2>2. CASE ReadSome(c) \/ ReadBlocks(c) \/ ReadEnd(c) \/ ReadFails(c)
        BY <2>2 DEF ReadSome, ReadBlocks, ReadEnd, ReadFails
    <2>3. CASE Route(c)
        BY <2>3 DEF Route
    <2>4. CASE SearchSlot(c) \/ Search(c) \/ CountSearch(c)
        BY <2>4, Zenon DEF SearchSlot, Search, CountSearch, Count, Counters
    <2>5. CASE Work(c) \/ Release(c) \/ CountRequest(c)
        BY <2>5, Zenon DEF Work, Release, CountRequest, Count, Counters
    <2> QED
        BY <2>1, <2>2, <2>3, <2>4, <2>5 DEF Step
  <1>7. \/ answer' = answer
        \/ \E a : answer' = [answer EXCEPT ![c] = a]
    <2>1. CASE Accept(c) \/ SlotLoad(c) \/ SlotExchange(c)
        BY <2>1, Zenon DEF Accept, SlotLoad, SlotExchange
    <2>2. CASE ReadSome(c) \/ ReadBlocks(c) \/ ReadEnd(c) \/ ReadFails(c)
        BY <2>2, Zenon DEF ReadSome, ReadBlocks, ReadEnd, ReadFails, Close
    <2>3. CASE Route(c)
        BY <2>3, Zenon DEF Route, Respond
    <2>4. CASE SearchSlot(c) \/ Search(c) \/ CountSearch(c)
        BY <2>4, Zenon DEF SearchSlot, Search, CountSearch, Respond
    <2>5. CASE Work(c) \/ Release(c) \/ CountRequest(c)
        BY <2>5, Zenon DEF Work, Release, CountRequest
    <2> QED
        BY <2>1, <2>2, <2>3, <2>4, <2>5 DEF Step
  <1>8. pc' \in [Clients -> Labels]
      BY <1>0, <1>4
  <1>9. traffic' \in [Counters -> Nat]
    <2>1. CASE traffic' = traffic
        BY <2>1, <1>0
    <2>2. ASSUME NEW k \in Counters, traffic' = [traffic EXCEPT ![k] = @ + 1]
          PROVE  traffic' \in [Counters -> Nat]
      <3>1. traffic[k] + 1 \in Nat
          BY <1>0
      <3> QED
          BY <2>2, <3>1, <1>0
    <2> QED
        BY <2>1, <2>2, <1>6
  <1>10. DOMAIN answer' = Clients
      BY <1>0, <1>7
  <1> QED
      BY <1>0, <1>1, <1>2, <1>3, <1>5, <1>8, <1>9, <1>10 DEF TypeOK

\* A step takes only counts below the limit.
LEMMA StepBelow ==
    ASSUME HttpAssumption, TypeOK, BelowLimit, NEW c \in Clients, Step(c)
    PROVE  BelowLimit'
  <1>1. CASE SlotLoad(c)
      BY <1>1 DEF SlotLoad, BelowLimit, TypeOK, HttpAssumption
  <1>2. CASE ~SlotLoad(c)
    <2>1. seen' = seen
        BY <1>2 DEF Step, Accept, SlotExchange, ReadSome, ReadBlocks, ReadEnd, ReadFails, Route,
                    SearchSlot, Search, CountSearch, Work, Release, CountRequest
    <2> QED
        BY <2>1 DEF BelowLimit
  <1> QED
      BY <1>1, <1>2

\* Nothing read holds no end of a header.
LEMMA NothingReadYet ==
    ASSUME HttpAssumption, TypeOK, NEW c \in Clients, got[c] = 0
    PROVE  ~HasTerminator(Data(c))
  <1>1. message[c] \in Seq(STRING)
      BY DEF HttpAssumption, TypeOK
  <1>2. Len(Data(c)) = 0
      BY <1>1 DEF Data
  <1> QED
      BY <1>2 DEF HasTerminator

\* A step keeps the bounds of reading.
LEMMA StepReading ==
    ASSUME HttpAssumption, TypeOK, Unread, ReadingBounded, NEW c \in Clients, Step(c)
    PROVE  Unread' /\ ReadingBounded'
  <1>0. /\ HeaderLimit \in Nat \ {0} /\ TotalTimeout \in Nat /\ Buffer \in Nat
        /\ got \in [Clients -> Nat] /\ age \in [Clients -> Nat] /\ pc \in [Clients -> Labels]
      BY DEF HttpAssumption, TypeOK
  <1> DEFINE Bounded(k) == /\ ~HasTerminator(Data(k))
                           /\ got[k] < HeaderLimit
                           /\ age[k] <= TotalTimeout + 1
             New == {"queued", "load", "exchange"}
  <1>1. ASSUME UNCHANGED <<message, got, age>>,
               \A k \in Clients : /\ pc'[k] \in New => pc[k] \in New
                                  /\ pc'[k] = "reading" => pc[k] \in New \cup {"reading"}
        PROVE  Unread' /\ ReadingBounded'
    <2>1. \A k \in Clients : pc[k] \in New => Bounded(k)
        BY <1>0, NothingReadYet DEF Unread
    <2>2. \A k \in Clients : pc[k] = "reading" => Bounded(k)
        BY DEF ReadingBounded
    <2>3. \A k \in Clients : pc'[k] = "reading" => Bounded(k)
        BY <1>1, <2>1, <2>2
    <2>4. ReadingBounded'
        BY <1>1, <2>3 DEF ReadingBounded, Data
    <2> QED
        BY <1>1, <2>4 DEF Unread
  <1>2. CASE ReadSome(c)
    <2>1. PICK n \in 1 .. Buffer, waited \in 0 .. 1 :
             /\ pc[c] = "reading" /\ age[c] <= TotalTimeout /\ message' = message
             /\ got' = [got EXCEPT ![c] = @ + n] /\ age' = [age EXCEPT ![c] = @ + waited]
             /\ \/ \E l \in {"route", "release"} : pc' = [pc EXCEPT ![c] = l]
                \/ /\ ~HasTerminator(SubSeq(message[c], 1, got[c] + n))
                   /\ ~(got'[c] >= HeaderLimit) /\ pc' = pc
        BY <1>2, Zenon DEF ReadSome, Goto, Close
    <2>2. /\ got'[c] = got[c] + n /\ got'[c] \in Nat
          /\ age'[c] = age[c] + waited /\ age[c] \in Nat
          /\ \A k \in Clients \ {c} : got'[k] = got[k] /\ age'[k] = age[k] /\ pc'[k] = pc[k]
        BY <2>1, <1>0
    <2>3. Unread'
        BY <2>1, <2>2, <1>0 DEF Unread
    <2>4. ASSUME NEW k \in Clients, pc'[k] = "reading"
          PROVE  /\ ~HasTerminator(SubSeq(message'[k], 1, got'[k])) /\ got'[k] < HeaderLimit
                 /\ age'[k] <= TotalTimeout + 1
      <3>1. CASE k # c
          BY <2>1, <2>2, <2>4, <3>1 DEF ReadingBounded, Data
      <3>2. CASE k = c
        <4>1. ~HasTerminator(SubSeq(message[c], 1, got'[c])) /\ ~(got'[c] >= HeaderLimit)
            BY <2>1, <2>2, <2>4, <3>2, <1>0
        <4>2. age'[c] <= TotalTimeout + 1
            BY <2>1, <2>2, <1>0
        <4> QED
            BY <4>1, <4>2, <2>1, <2>2, <3>2, <1>0
      <3> QED
          BY <3>1, <3>2
    <2> QED
        BY <2>3, <2>4 DEF ReadingBounded, Data
  <1>3. CASE ReadBlocks(c)
    <2>1. /\ pc[c] = "reading" /\ age[c] <= TotalTimeout /\ age' = [age EXCEPT ![c] = @ + 1]
          /\ UNCHANGED <<message, got, pc>>
        BY <1>3 DEF ReadBlocks
    <2>2. Unread'
        BY <2>1, <1>0 DEF Unread
    <2>3. \A k \in Clients : age'[k] <= TotalTimeout + 1 \/ age'[k] = age[k]
        BY <2>1, <1>0
    <2> QED
        BY <2>1, <2>2, <2>3 DEF ReadingBounded, Data
  <1>4. CASE SlotLoad(c) \/ SlotExchange(c)
    <2>1. UNCHANGED <<message, got, age>> /\ pc[c] \in New
        BY <1>4 DEF SlotLoad, SlotExchange
    <2>2. \E l \in Labels : pc' = [pc EXCEPT ![c] = l]
        BY <1>4, Zenon DEF SlotLoad, SlotExchange, Goto, Labels
    <2> QED
        BY <2>1, <2>2, <1>1, <1>0
  <1>5. CASE Accept(c)
      BY <1>5, <1>1, <1>0 DEF Accept, Goto
  <1>6. CASE \/ ReadEnd(c) \/ ReadFails(c) \/ Route(c) \/ SearchSlot(c) \/ Search(c)
             \/ CountSearch(c) \/ Work(c) \/ Release(c) \/ CountRequest(c)
    <2>1. UNCHANGED <<message, got, age>>
        BY <1>6 DEF ReadEnd, ReadFails, Route, SearchSlot, Search, CountSearch, Work, Release,
                    CountRequest
    <2>2. \E l \in Labels \ (New \cup {"reading"}) : pc' = [pc EXCEPT ![c] = l]
      <3>1. CASE ReadEnd(c) \/ ReadFails(c)
          BY <3>1 DEF ReadEnd, ReadFails, Close, Goto, Labels
      <3>2. CASE Route(c)
        <4>1. \E l \in {"release", "slot", "work"} : pc' = [pc EXCEPT ![c] = l]
            BY <3>2, Zenon DEF Route, Respond, Goto
        <4> QED
            BY <4>1 DEF Labels
      <3>3. CASE SearchSlot(c)
          BY <3>3 DEF SearchSlot, Respond, Goto, Labels
      <3>4. CASE Search(c) \/ CountSearch(c) \/ Release(c) \/ CountRequest(c)
          BY <3>4 DEF Search, CountSearch, Release, CountRequest, Goto, Labels
      <3>5. CASE Work(c)
          BY <3>5 DEF Work, Goto, Labels
      <3> QED
          BY <1>6, <3>1, <3>2, <3>3, <3>4, <3>5
    <2> QED
        BY <2>1, <2>2, <1>1, <1>0
  <1> QED
      BY <1>2, <1>3, <1>4, <1>5, <1>6 DEF Step

-----------------------------------------------------------------------------
(* The token.                                                              *)

Ends(m) == {i \in 1 .. Len(m) - 3 : SubSeq(m, i, i + 3) = Crlf \o Crlf}

\* A nonempty set of numbers has a least one.
LEMMA Least ==
    ASSUME NEW S \in SUBSET Nat, S # {}
    PROVE  \E y \in S : \A x \in S : y <= x
  <1> DEFINE R == OpToRel(<, Nat)
  <1>1. IsWellFoundedOn(R, Nat)
      BY NatLessThanWellFounded
  <1>2. PICK y \in S : \A x \in S : ~(<<x, y>> \in R)
    <2> HIDE DEF R
    <2> QED
        BY <1>1, WFMin
  <1>3. \A x \in S : ~(x < y)
      BY <1>2 DEF OpToRel
  <1>4. y \in Nat /\ \A x \in S : x \in Nat
      OBVIOUS
  <1> QED
      BY <1>3, <1>4

\* Two elements, twice.
LEMMA TwiceTwo ==
    ASSUME NEW S, NEW a \in Seq(S), Len(a) = 2
    PROVE  (a \o a)[1] = a[1] /\ (a \o a)[2] = a[2] /\ (a \o a)[3] = a[1] /\ (a \o a)[4] = a[2]
  <1>1. \A i \in 1 .. Len(a) + Len(a) : (a \o a)[i] = IF i <= Len(a) THEN a[i] ELSE a[i - Len(a)]
      BY ConcatProperties
  <1>2. \A i \in 1 .. 4 : (a \o a)[i] = IF i <= 2 THEN a[i] ELSE a[i - 2]
    <2>1. 2 + 2 = 4
        OBVIOUS
    <2> QED
        BY <1>1, <2>1, Zenon
  <1>3. 3 - 2 = 1 /\ 4 - 2 = 2
      OBVIOUS
  <1> QED
      BY <1>2, <1>3, SMTT(20)

\* The units of an empty line.
LEMMA EndUnits ==
    ASSUME NEW m \in Seq(STRING), NEW y \in Ends(m)
    PROVE  /\ y \in Nat /\ 1 <= y /\ y + 3 <= Len(m)
           /\ m[y] = "CR" /\ m[y + 1] = "LF" /\ m[y + 2] = "CR" /\ m[y + 3] = "LF"
  <1>1. y \in 1 .. Len(m) - 3 /\ Len(m) \in Nat
      BY DEF Ends
  <1>2. SubSeq(m, y, y + 3) = Crlf \o Crlf
      BY Zenon DEF Ends
  <1>3. Crlf \in Seq({"CR", "LF"}) /\ Len(Crlf) = 2
    <2>1. \A a, b : <<a, b>> \in Seq({a, b}) /\ Len(<<a, b>>) = 2
        OBVIOUS
    <2> QED
        BY <2>1, Zenon DEF Crlf
  <1>4. /\ (Crlf \o Crlf)[1] = Crlf[1] /\ (Crlf \o Crlf)[2] = Crlf[2]
        /\ (Crlf \o Crlf)[3] = Crlf[1] /\ (Crlf \o Crlf)[4] = Crlf[2]
      BY <1>3, TwiceTwo, Zenon
  <1>5. /\ SubSeq(m, y, y + 3)[1] = m[y] /\ SubSeq(m, y, y + 3)[2] = m[y + 1]
        /\ SubSeq(m, y, y + 3)[3] = m[y + 2] /\ SubSeq(m, y, y + 3)[4] = m[y + 3]
      BY <1>1
  <1>6. Crlf[1] = "CR" /\ Crlf[2] = "LF"
      BY DEF Crlf
  <1>7. m[y] = "CR" /\ m[y + 1] = "LF" /\ m[y + 2] = "CR" /\ m[y + 3] = "LF"
      BY <1>2, <1>4, <1>5, <1>6, Zenon
  <1>8. y \in Nat /\ 1 <= y /\ y + 3 <= Len(m)
      BY <1>1
  <1> QED
      BY <1>7, <1>8, Zenon

\* A line that holds a unit holds it after the line's start, and before a line end.
LEMMA LineUnit ==
    ASSUME NEW d, NEW s, LineAt(d, s) = "Authorization: token"
    PROVE  \E x \in s + 1 .. Len(d) : /\ d[x] = "Authorization: token"
                                      /\ \A k \in s + 1 .. x : d[k] # "LF"
  <1> DEFINE units == {i \in s + 1 .. Len(d) : /\ d[i] \notin {"CR", "LF"}
                                               /\ \A k \in s + 1 .. i : d[k] # "LF"}
  <1>1. LineAt(d, s) = IF units = {} THEN "" ELSE d[CHOOSE i \in units : TRUE]
      BY DEF LineAt
  <1>2. units # {}
      BY <1>1
  <1>3. (CHOOSE i \in units : TRUE) \in units
      BY <1>2
  <1> QED
      BY <1>1, <1>2, <1>3

\* The line after a line end is empty when the next units end it.
LEMMA EmptyLine ==
    ASSUME NEW d, NEW y \in Nat, y + 3 <= Len(d), Len(d) \in Nat,
           d[y + 2] = "CR", d[y + 3] = "LF"
    PROVE  LineAt(d, y + 1) = ""
  <1> DEFINE units == {i \in y + 1 + 1 .. Len(d) : /\ d[i] \notin {"CR", "LF"}
                                                   /\ \A k \in y + 1 + 1 .. i : d[k] # "LF"}
  <1>1. ASSUME NEW i \in units PROVE FALSE
    <2>1. i \in y + 2 .. Len(d)
        OBVIOUS
    <2>2. d[i] \notin {"CR", "LF"}
        OBVIOUS
    <2>3. i # y + 2 /\ i # y + 3
        BY <2>2, Zenon
    <2>4. y + 3 \in y + 1 + 1 .. i
        BY <2>1, <2>3
    <2>5. \A k \in y + 1 + 1 .. i : d[k] # "LF"
        OBVIOUS
    <2> QED
        BY <2>4, <2>5, Zenon
  <1>2. units = {}
      BY <1>1
  <1> QED
      BY <1>2 DEF LineAt

\* A text that is accepted for its token has it in the header of the message it starts.
LEMMA TokenInHeader ==
    ASSUME NEW m \in Seq(STRING), NEW n \in 0 .. Len(m),
           request_has_valid_token(SubSeq(m, 1, n))
    PROVE  \E i \in DOMAIN Header(m) : m[i] = "Authorization: token"
  <1>1. PICK d : d = SubSeq(m, 1, n)
      OBVIOUS
  <1>2. Len(d) = n /\ n \in Nat /\ Len(m) \in Nat /\ n <= Len(m)
      BY <1>1
  <1>e. \A i \in 1 .. n : d[i] = m[i]
      BY <1>1
  <1>3. PICK s \in LineStarts(d) \ {0} :
           /\ LineAt(d, s) = "Authorization: token"
           /\ \A r \in LineStarts(d) \ {0} : r < s => LineAt(d, r) \notin {"", "Authorization: other"}
      BY <1>1 DEF request_has_valid_token
  <1>4. s \in Nat /\ s < n
    <2>1. s \in 0 .. Len(d) - 1
        BY Zenon DEF LineStarts
    <2> QED
        BY <1>2, <2>1
  <1>5. PICK x \in s + 1 .. Len(d) : /\ d[x] = "Authorization: token"
                                     /\ \A k \in s + 1 .. x : d[k] # "LF"
      BY <1>3, LineUnit, Zenon
  <1>6. x \in Nat /\ s < x /\ x <= n /\ x \in 1 .. n
      BY <1>2, <1>4
  <1>7. m[x] = "Authorization: token"
      BY <1>e, <1>5, <1>6, Zenon
  <1>8. CASE Ends(m) = {}
    <2>1. Header(m) = m
        BY <1>8, Zenon DEF Header, Ends
    <2>2. x \in DOMAIN m
        BY <1>2, <1>6
    <2> QED
        BY <1>7, <2>1, <2>2, Zenon
  <1>9. CASE Ends(m) # {}
    <2>1. PICK y : /\ y = CHOOSE i \in Ends(m) : \A j \in Ends(m) : i <= j
                   /\ y \in Ends(m)
      <3>1. Ends(m) \in SUBSET Nat
          BY DEF Ends
      <3>2. \E i \in Ends(m) : \A j \in Ends(m) : i <= j
          BY <1>9, <3>1, Least
      <3> QED
          BY <3>2
    <2>2. Header(m) = SubSeq(m, 1, y)
        BY <1>9, <2>1, Zenon DEF Header, Ends
    <2>3. /\ y \in Nat /\ 1 <= y /\ y + 3 <= Len(m)
          /\ m[y] = "CR" /\ m[y + 1] = "LF" /\ m[y + 2] = "CR" /\ m[y + 3] = "LF"
        BY <2>1, EndUnits, Zenon
    <2>4. ~(y < x)
      <3> SUFFICES ASSUME y < x PROVE FALSE
          OBVIOUS
      <3>1. x # y + 1 /\ x # y + 2 /\ x # y + 3
          BY <1>7, <2>3, Zenon
      <3>2. y + 3 < x
          BY <1>6, <2>3, <3>1
      <3>3. y + 1 \in 1 .. n /\ y + 2 \in 1 .. n /\ y + 3 \in 1 .. n
          BY <1>2, <1>6, <2>3, <3>2
      <3>4. d[y + 1] = "LF" /\ d[y + 2] = "CR" /\ d[y + 3] = "LF"
          BY <1>e, <2>3, <3>3, Zenon
      <3>5. y + 3 \notin s + 1 .. x
          BY <1>5, <3>4, Zenon
      <3>6. y + 1 < s
          BY <1>4, <1>6, <2>3, <3>2, <3>5
      <3>7. y + 1 \in LineStarts(d) \ {0}
        <4>1. y + 1 \in 0 .. Len(d) - 1 /\ y + 1 # 0
            BY <1>2, <1>6, <2>3, <3>2
        <4> QED
            BY <3>4, <4>1, Zenon DEF LineStarts
      <3>8. LineAt(d, y + 1) = ""
        <4>1. y + 3 <= Len(d) /\ Len(d) \in Nat
            BY <1>2, <1>6, <2>3, <3>2
        <4> QED
            BY <2>3, <3>4, <4>1, EmptyLine, Zenon
      <3> QED
          BY <1>3, <3>6, <3>7, <3>8, Zenon
    <2>5. x \in DOMAIN Header(m)
      <3>1. DOMAIN SubSeq(m, 1, y) = 1 .. y
          BY <2>3
      <3>2. x \in 1 .. y
          BY <1>6, <2>3, <2>4
      <3> QED
          BY <2>2, <3>1, <3>2, Zenon
    <2> QED
        BY <1>7, <2>5, Zenon
  <1> QED
      BY <1>8, <1>9

\* A step serves nothing to a client whose header lacks the token.
LEMMA StepToken ==
    ASSUME HttpAssumption, TypeOK, NothingWithoutToken, NEW c \in Clients, Step(c)
    PROVE  NothingWithoutToken'
  <1> DEFINE Served(k) == answer[k] = "data" \/ pc[k] \in {"work", "slot", "search"}
             Entitled(k) == \E i \in DOMAIN Header(message[k]) :
                               message[k][i] = "Authorization: token"
  <1>0. /\ message' = message
        /\ DOMAIN answer = Clients /\ pc \in [Clients -> Labels]
      BY DEF TypeOK, Step, Accept, SlotLoad, SlotExchange, ReadSome, ReadBlocks, ReadEnd,
             ReadFails, Route, SearchSlot, Search, CountSearch, Work, Release, CountRequest
  <1>1. ASSUME \A k \in Clients : HasToken /\ Served(k)' => Served(k) \/ Entitled(k)
        PROVE  NothingWithoutToken'
      BY <1>1, <1>0 DEF NothingWithoutToken
  <1>2. CASE Route(c)
    <2>1. CASE Status(Data(c)) = "serve"
      <3>1. HasToken => request_has_valid_token(Data(c))
          BY <2>1 DEF Status
      <3>2. HasToken => Entitled(c)
        <4>1. message[c] \in Seq(STRING) /\ got[c] \in 0 .. Len(message[c])
            BY DEF HttpAssumption, TypeOK
        <4> QED
            BY <3>1, <4>1, TokenInHeader DEF Data
      <3>3. answer' = answer /\ \A k \in Clients \ {c} : pc'[k] = pc[k]
          BY <1>2, <2>1, <1>0 DEF Route, Goto
      <3> QED
          BY <3>2, <3>3, <1>1
    <2>2. CASE Status(Data(c)) # "serve"
      <3>1. PICK a \in {Status(Data(c)), "closed"} :
               answer' = [answer EXCEPT ![c] = a] /\ pc' = [pc EXCEPT ![c] = "release"]
          BY <1>2, <2>2 DEF Route, Respond, Goto
      <3>2. a # "data"
          BY <3>1 DEF Status
      <3> QED
          BY <3>1, <3>2, <1>0, <1>1
    <2> QED
        BY <2>1, <2>2
  <1>3. CASE SearchSlot(c) \/ Search(c) \/ Work(c)
    <2>1. Served(c) /\ \A k \in Clients \ {c} : answer'[k] = answer[k] /\ pc'[k] = pc[k]
        BY <1>3, <1>0 DEF SearchSlot, Search, Work, Respond, Goto
    <2> QED
        BY <2>1, <1>1
  <1>4. CASE ReadSome(c) \/ ReadFails(c)
    <2>1. \/ answer' = answer
          \/ answer' = [answer EXCEPT ![c] = "closed"]
        BY <1>4, Zenon DEF ReadSome, ReadFails, Close
    <2>2. \/ pc' = pc
          \/ \E l \in {"route", "release"} : pc' = [pc EXCEPT ![c] = l]
        BY <1>4, Zenon DEF ReadSome, ReadFails, Close, Goto
    <2> QED
        BY <2>1, <2>2, <1>0, <1>1
  <1>5. CASE Accept(c) \/ SlotLoad(c) \/ SlotExchange(c)
    <2>1. \/ answer' = answer
          \/ \E a \in {"503", "closed"} : answer' = [answer EXCEPT ![c] = a]
        BY <1>5, Zenon DEF Accept, SlotLoad, SlotExchange
    <2>2. \E l \in {"load", "exchange", "reading", "done"} : pc' = [pc EXCEPT ![c] = l]
        BY <1>5, Zenon DEF Accept, SlotLoad, SlotExchange, Goto
    <2> QED
        BY <2>1, <2>2, <1>0, <1>1
  <1>6. CASE ReadBlocks(c) \/ ReadEnd(c) \/ CountSearch(c) \/ Release(c) \/ CountRequest(c)
      BY <1>6, <1>0, <1>1 DEF ReadBlocks, ReadEnd, CountSearch, Release, CountRequest, Goto
  <1> QED
      BY <1>2, <1>3, <1>4, <1>5, <1>6 DEF Step

-----------------------------------------------------------------------------
(* The theorem.                                                            *)

\* Init satisfies the invariant.
LEMMA InitInv == ASSUME HttpAssumption, Init PROVE Inv
  <1>1. TypeOK
      BY DEF HttpAssumption, Init, TypeOK, Labels, Counters
  <1>2. \A L \in Cuts : At(pc, L) = {}
      BY DEF Init, At, Cuts, Holders, Accepted, Searchers, Counting
  <1>3. Counted
    <2>1. IsFiniteSet({}) /\ Cardinality({}) = 0
        BY FS_EmptySet
    <2>2. /\ At(pc, Holders) = {} /\ At(pc, Accepted) = {} /\ At(pc, Searchers) = {}
          /\ At(pc, Counting) = {}
        BY <1>2 DEF Cuts
    <2>3. active <= MaxRequests /\ searching <= MaxSearches
        BY DEF Init, HttpAssumption
    <2> QED
        BY <2>1, <2>2, <2>3 DEF Init, Counted
  <1>4. BelowLimit /\ Unread /\ ReadingBounded /\ NothingWithoutToken
      BY DEF HttpAssumption, Init, BelowLimit, Unread, ReadingBounded, NothingWithoutToken
  <1> QED
      BY <1>1, <1>3, <1>4 DEF Inv

\* A step, or none, keeps the invariant.
LEMMA StepInv == ASSUME HttpAssumption, Inv, [Next]_vars PROVE Inv'
  <1>1. CASE UNCHANGED vars
      BY <1>1 DEF vars, Inv, TypeOK, Counted, At, BelowLimit, Unread, ReadingBounded, Data,
                  NothingWithoutToken
  <1>2. ASSUME NEW c \in Clients, Step(c) PROVE Inv'
    <2>1. Counted'
        BY <1>2, StepCounted DEF Inv
    <2>2. TypeOK'
        BY <1>2, <2>1, StepTypes DEF Inv
    <2>3. BelowLimit'
        BY <1>2, StepBelow DEF Inv
    <2>4. Unread' /\ ReadingBounded'
        BY <1>2, StepReading DEF Inv
    <2>5. NothingWithoutToken'
        BY <1>2, StepToken DEF Inv
    <2> QED
        BY <2>1, <2>2, <2>3, <2>4, <2>5 DEF Inv
  <1> QED
      BY <1>1, <1>2 DEF Next

\* The invariant gives the counts and the balance of the traffic.
LEMMA InvSound == Inv => ConnectionsSound
  <1> SUFFICES ASSUME Inv PROVE ConnectionsSound
      OBVIOUS
  <1>1. HandlersBounded
    <2>1. Handling = At(pc, Holders)
        BY DEF Handling, At, Holders
    <2>2. {c \in Clients : pc[c] = "search"} = At(pc, Searchers)
        BY DEF At, Searchers
    <2> QED
        BY <2>1, <2>2 DEF Inv, Counted, HandlersBounded
  <1>2. TrafficBalanced
    <2> SUFFICES ASSUME \A c \in Clients : pc[c] = "done"
                 PROVE  /\ traffic["http_accepted"] = traffic["http_rejected"] + traffic["http_completed"]
                        /\ traffic["searches_started"] = traffic["searches_completed"]
                        /\ active = 0 /\ searching = 0
        BY DEF TrafficBalanced
    <2>1. \A L \in Cuts : At(pc, L) = {}
        BY DEF At, Cuts, Holders, Accepted, Searchers, Counting
    <2>2. /\ At(pc, Holders) = {} /\ At(pc, Accepted) = {} /\ At(pc, Searchers) = {}
          /\ At(pc, Counting) = {}
        BY <2>1 DEF Cuts
    <2>3. Cardinality({}) = 0
        BY FS_EmptySet
    <2>4. \A k \in Counters : traffic[k] \in Nat
        BY DEF Inv, TypeOK
    <2> QED
        BY <2>2, <2>3, <2>4 DEF Inv, Counted, Counters
  <1> QED
      BY <1>1, <1>2 DEF Inv, ConnectionsSound

\* For any number of connections and any messages (server.rs, serve, handle_stream):
\* the slots are those of the handlers, no handler reads beyond its limits, nothing is
\* served without the token, and the counters balance when all have ended.
THEOREM Connects == ASSUME HttpAssumption PROVE Spec => []ConnectionsSound
  <1>1. Init => Inv
      BY InitInv
  <1>2. Inv /\ [Next]_vars => Inv'
      BY StepInv
  <1> QED
      BY <1>1, <1>2, InvSound, PTL DEF Spec
=============================================================================
