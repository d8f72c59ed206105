-------------------------- MODULE SearchRefinement --------------------------
(***************************************************************************)
(* SearchService implements AbstractSearch.  Two history variables record  *)
(* what the mapping needs and the service does not keep: the contents that *)
(* the file at the database path had since each search began, and the      *)
(* content that its answer showed.  They restrict no step of the service.  *)
(***************************************************************************)
EXTENDS SearchService

VARIABLES during, shown

rvars == <<vars, during, shown>>

Waiting == {t \in Searches : pc[t] \notin {"start", "done"}}

RInit ==
    /\ Init
    /\ during = [t \in Searches |-> {}]
    /\ shown = [t \in Searches |-> {}]

\* What a step of the service adds to the history.
Recorded ==
    /\ during' = [t \in Searches |-> IF t \in Waiting' THEN during[t] \cup {db'.files}
                                     ELSE during[t]]
    /\ shown' = [t \in Searches |-> IF answer'[t] = "results" /\ answer[t] = "none"
                                    THEN {View} ELSE shown[t]]

RNext == Next /\ Recorded
RFair == \A t \in Threads : WF_rvars(Step(t) /\ Recorded)

RSpec == RInit /\ [][RNext]_rvars /\ RFair

Outcome(t) ==
    IF pc[t] = "start" THEN "idle"
    ELSE IF t \in Waiting THEN "waiting"
    ELSE IF answer[t] = "results" THEN "answered"
    ELSE "refused"

Abstract == INSTANCE AbstractSearch WITH
    Requests <- Searches,
    Rows <- Tables,
    content <- db.files,
    state <- [t \in Searches |-> Outcome(t)]

\* The service implements the abstract search: whatever refreshes, failures,
\* forced reloads and replaced database files come between, a search is
\* refused or shows one content of the database that was current while it
\* waited, and it gets one of the two.
Implements == Abstract!ASpec
=============================================================================
