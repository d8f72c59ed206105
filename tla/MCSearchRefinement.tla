------------------------- MODULE MCSearchRefinement -------------------------
(* The service starts on an empty table of the current schema; rows come    *)
(* with the writers, older schemas when the file is replaced.               *)
EXTENDS SearchRefinement

MCInit == RInit /\ db.schema = "journal" /\ db.files = [i \in Ids |-> Absent]

MCSpec == MCInit /\ [][RNext]_rvars /\ RFair
=============================================================================
