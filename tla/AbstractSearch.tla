--------------------------- MODULE AbstractSearch ---------------------------
(***************************************************************************)
(* What `macevery serve` promises to whoever asks for a search, in terms   *)
(* of the database only: no index, stamps, locks or slots.  The rows of    *)
(* the database change at any time.  A request is refused, or it gets the  *)
(* rows as they all stood together at one moment between its arrival and   *)
(* its answer.  It gets one of the two in the end.                         *)
(***************************************************************************)
EXTENDS FiniteSets

CONSTANTS Requests,     \* the searches
          Rows          \* the possible contents of the database

VARIABLES content,      \* the rows of the database
          state,        \* what has become of each request
          during,       \* the contents the database had while it waited
          shown         \* the contents its answer shows: none or one

avars == <<content, state, during, shown>>

States == {"idle", "waiting", "answered", "refused"}

AInit ==
    /\ content \in Rows
    /\ state = [r \in Requests |-> "idle"]
    /\ during = [r \in Requests |-> {}]
    /\ shown = [r \in Requests |-> {}]

Ask(r) ==
    /\ state[r] = "idle"
    /\ state' = [state EXCEPT ![r] = "waiting"]
    /\ during' = [during EXCEPT ![r] = {content}]
    /\ UNCHANGED <<content, shown>>

Change ==
    /\ content' \in Rows
    /\ during' = [r \in Requests |-> IF state[r] = "waiting" THEN during[r] \cup {content'}
                                     ELSE during[r]]
    /\ UNCHANGED <<state, shown>>

Answer(r) ==
    /\ state[r] = "waiting"
    /\ state' = [state EXCEPT ![r] = "answered"]
    /\ \E c \in during[r] : shown' = [shown EXCEPT ![r] = {c}]
    /\ UNCHANGED <<content, during>>

Refuse(r) ==
    /\ state[r] = "waiting"
    /\ state' = [state EXCEPT ![r] = "refused"]
    /\ UNCHANGED <<content, during, shown>>

ANext == Change \/ \E r \in Requests : Ask(r) \/ Answer(r) \/ Refuse(r)

\* What never happens, and with the fairness what happens in the end.
ASafety == AInit /\ [][ANext]_avars
ASpec == ASafety /\ \A r \in Requests : WF_avars(Answer(r) \/ Refuse(r))
=============================================================================
