-------------------------- MODULE MCSearchService ---------------------------
(* The writers of the database alone, through every state of the journal; or *)
(* request threads beside them, with fewer writes and one metadata, part.    *)
EXTENDS SearchService

CONSTANT ServiceMaxRevision     \* bound: the content revision beside the threads

VARIABLE part
mcvars == <<part, vars>>

Symmetry == Permutations(Names) \cup Permutations(Metas) \cup Permutations(Searches)

MCInit ==
    /\ Init
    /\ \/ part = "journal" /\ backend = "unavailable"
       \/ /\ part \in Metas
          /\ \A i \in LiveIds(db.files) : db.files[i].meta = part

\* What the service meets of the database.
Small ==
    /\ dbs'[ident'].revision <= ServiceMaxRevision
    /\ \A i \in LiveIds(dbs'[ident'].files) : dbs'[ident'].files[i].meta = part

MCNext ==
    /\ UNCHANGED part
    /\ \/ part = "journal" /\ Database
       \/ part \in Metas /\ Next /\ Small

MCSpec == MCInit /\ [][MCNext]_mcvars

\* The file at the path: nothing reads or writes the ones before it again.
Current == <<"journal", ident, db, history[ident]>>

\* What the rest of a behaviour can depend on: not the locals of a thread that
\* are dead, nor a file that is not at the path and that nobody has open, nor
\* the history that no index holds and no copy can bring back.
Opened == IF writer # NoThread /\ pc[writer] \in {"delta", "fill"} THEN opened ELSE 0
Reduced ==
    <<part, [i \in Idents |-> IF i \in {ident, loaded.file, Opened} THEN dbs[i] ELSE Absent],
      ident, history[ident][0],
      IF backend = "packed" THEN history[loaded.file][loaded.revision] ELSE Absent,
      backend, index, loaded, writer, active, pc, faults, Opened,
      [t \in Threads |-> IF pc[t] = "exchange" THEN seen[t] ELSE 0],
      [t \in Threads |-> IF pc[t] \in {"start", "done"} THEN NoStamp ELSE asked[t]],
      IF writer = NoThread THEN NoDelta ELSE delta>>

PartView == IF part = "journal" THEN Current ELSE Reduced
=============================================================================
