---------------------------- MODULE StoreProofs ----------------------------
(***************************************************************************)
(* What is proved of the parts that keep the index file: the binding's     *)
(* statements (SqlStatement), the compacted copy (CompactCopy), the app's  *)
(* decision to build an index (IndexCommand), the directories that are     *)
(* left out (Exclusions), the sweep of a scan's unseen rows (StaleSweep)   *)
(* and, from MigrationProofs, the migrations.  Each is proved of its       *)
(* component alone and of the index whose parts MCIndexStore puts side by  *)
(* side.                                                                   *)
(***************************************************************************)
EXTENDS MCIndexStore, FiniteSets, FiniteSetTheorems, SequenceTheorems,
        NaturalsInduction, WellFoundedInduction, TLAPS

-----------------------------------------------------------------------------
(* The statements of an upsert.                                            *)

Stmts == Statement!Stmts
Params == Statement!Params

StmtType ==
    /\ handle \in {"none", "raw", "open"}
    /\ live \subseteq Stmts
    /\ vm \in [Stmts -> {"ready", "row", "done", "error"}]
    /\ bind \in [Stmts -> [Params -> Nat]]
    /\ text \in [Stmts -> SUBSET Nat]
    /\ pc \in {"closed", "configure", "prepare", "idle", "drop",
               "reset", "bind", "step", "consume", "release"}
    /\ cur \in Stmts
    /\ rec \in Statement!Records
    /\ n \in Nat

\* What is bound is owned, in one buffer, and a statement about to be bound has none.
Owned ==
    /\ \A s \in Stmts :
          /\ \A p \in Params : bind[s][p] # 0 => bind[s][p] \in text[s]
          /\ \E b \in Nat : text[s] \subseteq {b}
    /\ pc = "bind" => bind[cur] = Statement!Unbound /\ text[cur] = {}

\* A cursor is open only to be closed, and only an id statement keeps its error.
Machines ==
    /\ \A s \in Stmts : vm[s] = "row" => pc = "release" /\ cur = s
    /\ \A s \in Stmts : vm[s] = "error" =>
          \/ pc = "consume" /\ cur = s
          \/ s = "id"

Opened ==
    /\ pc = "closed" => handle = "none"
    /\ pc \in {"closed", "configure", "drop"} => live = {}
    /\ pc \notin {"closed", "configure", "drop"} => handle = "open"

StmtInv == StmtType /\ Owned /\ Machines /\ Opened

\* The invariant holds of a binding that has nothing open.
LEMMA StmtStarts == ASSUME Statement!Init PROVE StmtInv
  <1> USE DEF Statement!Init, Stmts, Params, Statement!Stmts, Statement!Params,
              Statement!Unbound, Statement!Records
  <1>1. StmtType
      BY DEF StmtType
  <1>2. Owned
      BY DEF Owned
  <1>3. Machines /\ Opened
      BY DEF Machines, Opened
  <1> QED
      BY <1>1, <1>2, <1>3 DEF StmtInv

\* Reset leaves the bindings with their buffers or clears both.
LEMMA ResetOwned ==
    ASSUME StmtType, Owned, NEW s \in Stmts, Statement!Reset(s)
    PROVE  /\ vm' = [vm EXCEPT ![s] = "ready"]
           /\ bind' \in [Stmts -> [Params -> Nat]]
           /\ text' \in [Stmts -> SUBSET Nat]
           /\ \A q \in Stmts :
                 /\ \A p \in Params : bind'[q][p] # 0 => bind'[q][p] \in text'[q]
                 /\ \E b \in Nat : text'[q] \subseteq {b}
           /\ vm[s] # "error" => bind'[s] = Statement!Unbound /\ text'[s] = {}
  <1>1. Statement!Unbound \in [Params -> Nat] /\ \A p \in Params : Statement!Unbound[p] = 0
      BY DEF Statement!Unbound, Params
  <1>2. CASE vm[s] = "error"
      BY <1>2 DEF Statement!Reset, StmtType, Owned
  <1>3. CASE vm[s] # "error"
    <2>1. /\ bind' = [bind EXCEPT ![s] = Statement!Unbound]
          /\ text' = [text EXCEPT ![s] = {}]
        BY <1>3 DEF Statement!Reset
    <2> QED
        BY <1>1, <1>3, <2>1 DEF Statement!Reset, StmtType, Owned
  <1> QED
      BY <1>2, <1>3

\* Opening, preparing and closing keep the invariant.
LEMMA StmtLife ==
    ASSUME StmtInv, cur' = cur,
           \/ Statement!Open \/ Statement!Configure \/ Statement!Prepare
           \/ Statement!Finalize \/ Statement!Close
    PROVE  StmtInv'
  <1> USE DEF StmtInv, StmtType, Owned, Machines, Opened, Statement!Quiet
  <1>1. CASE Statement!Open
      BY <1>1 DEF Statement!Open
  <1>2. CASE Statement!Configure
      BY <1>2 DEF Statement!Configure
  <1>3. CASE Statement!Close
      BY <1>3 DEF Statement!Close
  <1>4. CASE Statement!Prepare
    <2>1. /\ vm' \in [Stmts -> {"ready", "row", "done", "error"}]
          /\ \A s \in Stmts : vm'[s] \in {vm[s], "ready"}
        BY <1>4 DEF Statement!Prepare, Stmts
    <2>2. live' \subseteq Stmts /\ (pc' = "drop" => live' = {})
        BY <1>4 DEF Statement!Prepare, Stmts
    <2>3. /\ pc = "prepare" /\ pc' \in {"prepare", "idle", "drop"}
          /\ handle' = handle /\ UNCHANGED <<bind, text, rec, n>>
        BY <1>4 DEF Statement!Prepare
    <2> QED
        BY <2>1, <2>2, <2>3
  <1>5. CASE Statement!Finalize
    <2>1. /\ bind' = [s \in Stmts |-> Statement!Unbound] /\ text' = [s \in Stmts |-> {}]
          /\ pc = "idle" /\ pc' = "drop" /\ live' = {} /\ UNCHANGED <<handle, vm, rec, n>>
        BY <1>5 DEF Statement!Finalize, Stmts
    <2>2. Statement!Unbound \in [Params -> Nat] /\ \A p \in Params : Statement!Unbound[p] = 0
        BY DEF Statement!Unbound, Params
    <2> QED
        BY <2>1, <2>2
  <1> QED
      BY <1>1, <1>2, <1>3, <1>4, <1>5

\* So do the steps of an upsert.
LEMMA StmtUpsert ==
    ASSUME Statement!StatementAssumption, StmtInv,
           \/ Statement!Upsert \/ Statement!ResetStep \/ Statement!BindStep
           \/ Statement!StepStep \/ Statement!Consume \/ Statement!Release
    PROVE  StmtInv'
  <1> USE DEF StmtInv, StmtType, Owned, Machines, Opened, Statement!Stay, Statement!Go,
              Statement!Give
  <1>1. CASE Statement!Upsert
    <2>1. "probe" \in Stmts
        BY DEF Stmts, Statement!Stmts
    <2> QED
        BY <1>1, <2>1 DEF Statement!Upsert
  <1>2. CASE Statement!ResetStep
    <2>1. Statement!Reset(cur) /\ pc = "reset" /\ UNCHANGED <<handle, live, rec, n>> /\ cur' = cur
          /\ pc' = IF vm[cur] = "error" THEN "idle" ELSE "bind"
        BY <1>2 DEF Statement!ResetStep
    <2>2. /\ vm' = [vm EXCEPT ![cur] = "ready"]
          /\ bind' \in [Stmts -> [Params -> Nat]]
          /\ text' \in [Stmts -> SUBSET Nat]
          /\ \A q \in Stmts :
                /\ \A p \in Params : bind'[q][p] # 0 => bind'[q][p] \in text'[q]
                /\ \E b \in Nat : text'[q] \subseteq {b}
          /\ vm[cur] # "error" => bind'[cur] = Statement!Unbound /\ text'[cur] = {}
        BY <2>1, ResetOwned
    <2>3. \A s \in Stmts : vm'[s] # "row" /\ (vm'[s] = "error" => s = "id")
        BY <2>1, <2>2
    <2> QED
        BY <2>1, <2>2, <2>3
  <1>3. CASE Statement!Consume
    <2>1. Statement!Reset(cur) /\ pc = "consume" /\ UNCHANGED <<handle, live, rec, n>>
          /\ cur' = cur /\ pc' = "idle"
        BY <1>3 DEF Statement!Consume
    <2>2. /\ vm' = [vm EXCEPT ![cur] = "ready"]
          /\ bind' \in [Stmts -> [Params -> Nat]]
          /\ text' \in [Stmts -> SUBSET Nat]
          /\ \A q \in Stmts :
                /\ \A p \in Params : bind'[q][p] # 0 => bind'[q][p] \in text'[q]
                /\ \E b \in Nat : text'[q] \subseteq {b}
          /\ vm[cur] # "error" => bind'[cur] = Statement!Unbound /\ text'[cur] = {}
        BY <2>1, ResetOwned
    <2>3. \A s \in Stmts : vm'[s] # "row" /\ (vm'[s] = "error" => s = "id")
        BY <2>1, <2>2
    <2> QED
        BY <2>1, <2>2, <2>3
  <1>4. CASE Statement!Release
    <2>1. Statement!Reset(cur) /\ pc = "release" /\ UNCHANGED <<handle, live, rec, n>>
          /\ cur' \in Stmts /\ pc' \in {"idle", "reset"}
        BY <1>4 DEF Statement!Release, Stmts, Statement!Stmts
    <2>2. /\ vm' = [vm EXCEPT ![cur] = "ready"]
          /\ bind' \in [Stmts -> [Params -> Nat]]
          /\ text' \in [Stmts -> SUBSET Nat]
          /\ \A q \in Stmts :
                /\ \A p \in Params : bind'[q][p] # 0 => bind'[q][p] \in text'[q]
                /\ \E b \in Nat : text'[q] \subseteq {b}
          /\ vm[cur] # "error" => bind'[cur] = Statement!Unbound /\ text'[cur] = {}
        BY <2>1, ResetOwned
    <2>3. \A s \in Stmts : vm'[s] # "row" /\ (vm'[s] = "error" => s = "id")
        BY <2>1, <2>2
    <2> QED
        BY <2>1, <2>2, <2>3
  <1>5. CASE Statement!BindStep
    <2>1. /\ pc = "bind" /\ vm' = vm /\ UNCHANGED <<handle, live, rec, n>> /\ cur' = cur
          /\ pc' \in {"idle", "step"} /\ Statement!BindContent(cur)
        BY <1>5 DEF Statement!BindStep
    <2>2. CASE rec.nul
        BY <2>1, <2>2 DEF Statement!BindContent
    <2>3. CASE ~rec.nul
      <3>1. PICK e \in {0, n} :
               /\ bind' = [bind EXCEPT ![cur] = [path |-> n, ext |-> e]]
               /\ text' = [text EXCEPT ![cur] = @ \cup {n}]
          BY <2>1, <2>3 DEF Statement!BindContent
      <3>2. [path |-> n, ext |-> e] \in [Params -> Nat]
            /\ \A p \in Params : [path |-> n, ext |-> e][p] \in {0, n}
          BY DEF Params, Statement!Params
      <3>3. text[cur] = {}
          BY <2>1
      <3> QED
          BY <2>1, <3>1, <3>2, <3>3
    <2> QED
        BY <2>2, <2>3
  <1>6. CASE Statement!StepStep
    <2>1. pc = "step" /\ UNCHANGED <<bind, text, handle, live, rec, n>>
        BY <1>6 DEF Statement!StepStep
    <2>2. /\ cur' \in Stmts
          /\ \/ vm' = [vm EXCEPT ![cur] = "row"] /\ pc' = "release" /\ cur' = cur
             \/ vm' = [vm EXCEPT ![cur] = "done"] /\ pc' \in {"release", "reset", "idle"}
             \/ /\ vm' = [vm EXCEPT ![cur] = "error"]
                /\ \/ cur = "id" /\ pc' = "idle"
                   \/ pc' = "consume" /\ cur' = cur
        BY <1>6 DEF Statement!StepStep, Stmts, Statement!Stmts
    <2>3. \A s \in Stmts : vm[s] # "row" /\ (vm[s] = "error" => s = "id")
        BY <2>1
    <2>4. CASE vm' = [vm EXCEPT ![cur] = "row"] /\ pc' = "release" /\ cur' = cur
        BY <2>1, <2>3, <2>4
    <2>5. CASE vm' = [vm EXCEPT ![cur] = "done"] /\ pc' \in {"release", "reset", "idle"}
        BY <2>1, <2>2, <2>3, <2>5
    <2>6. CASE /\ vm' = [vm EXCEPT ![cur] = "error"]
               /\ \/ cur = "id" /\ pc' = "idle"
                  \/ pc' = "consume" /\ cur' = cur
        BY <2>1, <2>2, <2>3, <2>6
    <2> QED
        BY <2>2, <2>4, <2>5, <2>6
  <1> QED
      BY <1>1, <1>2, <1>3, <1>4, <1>5, <1>6

\* The instance counts as this module does.
LEMMA SameCardinality == \A S : Statement!Cardinality(S) = Cardinality(S)
  BY DEF Statement!Cardinality, Cardinality

\* What the invariant says of an upsert.
LEMMA StmtInvSafe ==
    ASSUME StmtInv
    PROVE  Statement!StatementSafe
  <1>1. Statement!BindingsOwned
    <2>1. ASSUME NEW s \in Stmts PROVE Cardinality(text[s]) <= 1
      <3>1. PICK b \in Nat : text[s] \subseteq {b}
          BY DEF StmtInv, Owned
      <3>2. Cardinality(text[s]) <= Cardinality({b})
          BY <3>1, FS_Subset, FS_Singleton
      <3>3. Cardinality({b}) = 1
          BY FS_Singleton
      <3> QED
          BY <3>2, <3>3
    <2>2. \A s \in Stmts : \A p \in Params : bind[s][p] # 0 => bind[s][p] \in text[s]
        BY DEF StmtInv, Owned
    <2> QED
        BY <2>1, <2>2, SameCardinality DEF Statement!BindingsOwned, Stmts, Params
  <1>2. Statement!NoOpenCursor
      BY DEF StmtInv, StmtType, Machines, Statement!NoOpenCursor, Stmts, Statement!Stmts
  <1>3. Statement!NothingLeaks
      BY DEF StmtInv, Opened, Statement!NothingLeaks
  <1>4. Statement!OnlyLookupKeepsError
      BY DEF StmtInv, Machines, Statement!OnlyLookupKeepsError, Stmts, Statement!Stmts
  <1> QED
      BY <1>1, <1>2, <1>3, <1>4 DEF Statement!StatementSafe

\* Every step of the binding keeps the invariant.
LEMMA StmtStep ==
    ASSUME Statement!StatementAssumption, StmtInv, [Statement!Next]_(Statement!vars)
    PROVE  StmtInv'
  <1>1. CASE UNCHANGED Statement!vars
      BY <1>1 DEF Statement!vars, StmtInv, StmtType, Owned, Machines, Opened
  <1>2. CASE Statement!Next
      BY <1>2, StmtLife, StmtUpsert DEF Statement!Next
  <1> QED
      BY <1>1, <1>2

\* The invariant holds of every behaviour of the binding.
LEMMA StmtAlways ==
    ASSUME Statement!StatementAssumption
    PROVE  Statement!Spec => []StmtInv
  <1>1. StmtInv /\ [Statement!Next]_(Statement!vars) => StmtInv'
      BY StmtStep
  <1>2. Statement!Init => StmtInv
      BY StmtStarts
  <1> QED
      BY <1>1, <1>2, PTL DEF Statement!Spec

\* Whatever fails, the id lookup included, and however many upserts there are: bindings
\* point into owned buffers of which a statement keeps one, no cursor stays open, only
\* an error of the id lookup reaches a later upsert, and nothing leaks (db.rs
\* FileUpsert::upsert, sqlite.rs Statement).
THEOREM Statements ==
    ASSUME Statement!StatementAssumption
    PROVE  Statement!Spec => []Statement!StatementSafe
  <1>1. StmtInv => Statement!StatementSafe
      BY StmtInvSafe
  <1>2. Statement!Spec => []StmtInv
      BY StmtAlways
  <1> QED
      BY <1>1, <1>2, PTL

-----------------------------------------------------------------------------
(* The compacted copy.                                                     *)

SourceData == [rows : RowValues, rev : Nat, control : ControlValues]
Pin == [rev : Nat, control : ControlValues]
Place == [id : {"source", "newer", "none"}, stamp : Int]
FileType == [id : {"none", "other", "copy", "foreign"}, data : SourceData, synced : BOOLEAN,
             torn : BOOLEAN]

\* Where the call is, from its last step backwards.
Successful == {"remove", "ok"}
AtOutput == Successful \cup {"published"}
Compared == AtOutput \cup {"staged", "link"}
PinnedTwice == Compared \cup {"copied_after", "compare"}
RowsSeen == PinnedTwice \cup {"after"}
CopyPinned == RowsSeen \cup {"verify"}
CopyOpened == CopyPinned \cup {"copied"}
StagedPinned == CopyOpened \cup {"check"}
SyncedFile == StagedPinned \cup {"pin"}
SourcePinned == SyncedFile \cup {"sync", "vacuum"}
Pcs == SourcePinned \cup {"preflight", "sidecars", "open", "before", "failed"}

CallType == [pc : Pcs, sourceFile : Place, before : Pin,
             copiedFile : {"none", "other", "copy", "foreign"}, conn : SourceData,
             copied : Pin, after : Pin, copiedAfter : Pin]

CopyType ==
    /\ source \in SourceData /\ path \in Place
    /\ output \in FileType /\ staged \in FileType
    /\ copy \in CallType /\ held \subseteq SourceData

\* What the source held from the first pin on has revisions from that pin's to the
\* last, and a revision has one content.
HeldInv ==
    /\ copy.pc \in SourcePinned =>
          /\ \E d \in held : Copying!ControlPin(d) = copy.before
          /\ \A d \in held : copy.before.rev <= d.rev
          /\ \A d, e \in held : d.rev = e.rev => d.rows = e.rows
    /\ Copying!Copying => source \in held /\ \A d \in held : d.rev <= source.rev
    /\ copy.pc \in PinnedTwice => \A d \in held : d.rev <= copy.after.rev

\* What was read of the copy and compared.
ReadInv ==
    /\ copy.pc \in CopyPinned => copy.copied = Copying!ControlPin(copy.conn)
    /\ copy.pc \in RowsSeen => \E d \in held : d.rows = copy.conn.rows
    /\ copy.pc \in Compared => copy.before = copy.after /\ copy.copied = copy.before

\* The file that was pinned is the one that was opened while it is in its place, and
\* the output is it when it has its identity.
FilesInv ==
    /\ copy.pc \notin AtOutput \cup {"failed"} => output.id \in {"none", "other"}
    /\ copy.pc \in (SyncedFile \cup {"sync"}) \ Successful => staged.id \in {"copy", "foreign"}
    /\ copy.pc \in StagedPinned => copy.copiedFile \in {"copy", "foreign"}
    /\ copy.pc \in StagedPinned /\ copy.copiedFile = "foreign" => staged.id # "copy"
    /\ copy.pc \in CopyOpened /\ staged.id = copy.copiedFile => copy.conn = staged.data
    /\ copy.pc \in AtOutput /\ output.id = copy.copiedFile => copy.conn = output.data
    /\ copy.pc \in Successful /\ output.id = "copy" => copy.copiedFile = "copy"

\* What reaches the output was synced.
WholeInv ==
    /\ ~output.torn /\ (output.id = "copy" => output.synced)
    /\ copy.pc # "failed" => ~staged.torn
    /\ copy.pc \in SyncedFile /\ staged.id = "copy" => staged.synced

CopyInv == CopyType /\ HeldInv /\ ReadInv /\ FilesInv /\ WholeInv

\* The data of an unrelated file, and no file, are typed.
LEMMA UnrelatedType ==
    ASSUME Copying!CopyAssumption
    PROVE  /\ Copying!Unrelated \in SourceData /\ Copying!NoFile \in FileType
           /\ Copying!File("other", Copying!Unrelated) \in FileType
           /\ Copying!NoFile.id = "none" /\ Copying!NoFile.torn = FALSE
  <1>1. Copying!Unrelated \in SourceData
    <2>1. /\ (CHOOSE r \in RowValues : TRUE) \in RowValues
          /\ (CHOOSE c \in ControlValues : TRUE) \in ControlValues
          /\ MaxWrites + 1 \in Nat
        BY DEF Copying!CopyAssumption
    <2> QED
        BY <2>1 DEF Copying!Unrelated, SourceData
  <1> QED
      BY <1>1 DEF Copying!NoFile, Copying!File, FileType

\* What the types are made of.
LEMMA CopyTypes ==
    /\ {"preflight", "sidecars", "open", "before", "vacuum", "sync", "pin", "check", "copied",
        "verify", "after", "copied_after", "compare", "staged", "link", "published", "remove",
        "ok", "failed"} \subseteq Pcs
    /\ \A d \in SourceData : Copying!ControlPin(d) \in Pin
    /\ \A f \in FileType : f.id \in {"none", "other", "copy", "foreign"} /\ f.data \in SourceData
  <1>1. \A d \in SourceData : Copying!ControlPin(d) \in Pin
      BY DEF Copying!ControlPin, SourceData, Pin
  <1>2. \A f \in FileType : f.id \in {"none", "other", "copy", "foreign"} /\ f.data \in SourceData
      BY DEF FileType
  <1>3. {"preflight", "sidecars", "open", "before", "vacuum", "sync", "pin", "check", "copied",
         "verify", "after", "copied_after", "compare", "staged", "link", "published", "remove",
         "ok", "failed"} \subseteq Pcs
      BY DEF Successful, AtOutput, Compared, PinnedTwice, RowsSeen, CopyPinned, CopyOpened,
             StagedPinned, SyncedFile, SourcePinned, Pcs
  <1> QED
      BY <1>1, <1>2, <1>3

\* The calls' steps keep the call's type.
LEMMA CallTyped ==
    ASSUME CopyType, Copying!Copy
    PROVE  copy' \in CallType /\ source' = source /\ path' = path
  <1> USE CopyTypes DEF CopyType, CallType, Copying!Step, Copying!Others
  <1>1. CASE Copying!Preflight \/ Copying!Sidecars \/ Copying!Open
      BY <1>1 DEF Copying!Preflight, Copying!Sidecars, Copying!Open
  <1>2. CASE Copying!Before
      BY <1>2 DEF Copying!Before
  <1>3. CASE Copying!Vacuum \/ Copying!Sync
      BY <1>3 DEF Copying!Vacuum, Copying!Sync
  <1>4. CASE Copying!PinStaged
      BY <1>4 DEF Copying!PinStaged
  <1>5. CASE Copying!OpenCopy
      BY <1>5 DEF Copying!OpenCopy
  <1>6. CASE Copying!Copied
      BY <1>6 DEF Copying!Copied
  <1>7. CASE Copying!Verify
      BY <1>7 DEF Copying!Verify
  <1>8. CASE Copying!After
      BY <1>8 DEF Copying!After
  <1>9. CASE Copying!CopiedAfter
      BY <1>9 DEF Copying!CopiedAfter
  <1>10. CASE Copying!Compare \/ Copying!Restage \/ Copying!Link
      BY <1>10 DEF Copying!Compare, Copying!Restage, Copying!Link
  <1>11. CASE Copying!Published \/ Copying!Remove
      BY <1>11 DEF Copying!Published, Copying!Remove
  <1> QED
      BY <1>1, <1>2, <1>3, <1>4, <1>5, <1>6, <1>7, <1>8, <1>9, <1>10, <1>11 DEF Copying!Copy

\* What a step of the call does to the files.
LEMMA FilesTyped ==
    ASSUME Copying!CopyAssumption, CopyType, Copying!Copy
    PROVE  output' \in FileType /\ staged' \in FileType /\ held' \subseteq SourceData
  <1> USE DEF CopyType, Copying!Step, Copying!SameFiles
  <1>1. CASE Copying!Before \/ Copying!Link
    <2>1. CASE Copying!Before
        BY <2>1 DEF Copying!Before
    <2>2. CASE Copying!Link
        BY <2>2 DEF Copying!Link
    <2> QED
        BY <1>1, <2>1, <2>2
  <1>2. CASE Copying!Vacuum \/ Copying!Sync
    <2>1. CASE Copying!Vacuum
        BY <2>1 DEF Copying!Vacuum, Copying!File, FileType
    <2>2. CASE Copying!Sync
      <3>1. [staged EXCEPT !.synced = TRUE] \in FileType
          BY DEF FileType
      <3> QED
          BY <2>2, <3>1 DEF Copying!Sync
    <2> QED
        BY <1>2, <2>1, <2>2
  <1>3. CASE Copying!Remove
      BY <1>3, UnrelatedType DEF Copying!Remove
  <1>4. CASE UNCHANGED <<output, staged, held>>
      BY <1>4
  <1> QED
      BY <1>1, <1>2, <1>3, <1>4
      DEF Copying!Copy, Copying!Preflight, Copying!Sidecars, Copying!Open, Copying!PinStaged,
          Copying!OpenCopy, Copying!Copied, Copying!Verify, Copying!After, Copying!CopiedAfter,
          Copying!Compare, Copying!Restage, Copying!Published

\* What is not the call: others, an error, a power loss.
Elsewhere ==
    \/ Copying!Fail \/ Copying!Write \/ Copying!Checkpoint \/ Copying!ReplaceSource
    \/ Copying!TouchOutput \/ Copying!ReplaceStaged \/ Copying!PowerLoss

\* They leave the types.
LEMMA ElsewhereTyped ==
    ASSUME Copying!CopyAssumption, CopyType, Elsewhere PROVE CopyType'
  <1> USE DEF CopyType, Copying!Interfere
  <1>1. CASE Copying!Fail
    <2>1. copy' \in CallType
        BY <1>1, CopyTypes DEF Copying!Fail, CallType
    <2> QED
        BY <1>1, <2>1 DEF Copying!Fail, Copying!Others
  <1>2. CASE Copying!Write
    <2>1. source' \in SourceData
      <3>1. ASSUME NEW r \in RowValues
            PROVE  [source EXCEPT !.rows = r, !.rev = @ + 1] \in SourceData
        <4>1. source.rev + 1 \in Nat
            BY DEF SourceData
        <4>2. [source EXCEPT !.rows = r] \in SourceData
            BY DEF SourceData
        <4> QED
            BY <4>1, <4>2 DEF SourceData
      <3>2. \A c \in ControlValues : [source EXCEPT !.control = c] \in SourceData
          BY DEF SourceData
      <3> QED
          BY <1>2, <3>1, <3>2 DEF Copying!Write
    <2> QED
        BY <1>2, <2>1 DEF Copying!Write
  <1>3. CASE Copying!Checkpoint
      BY <1>3 DEF Copying!Checkpoint, Place
  <1>4. CASE Copying!ReplaceSource
      BY <1>4 DEF Copying!ReplaceSource, Place
  <1>5. CASE Copying!TouchOutput
      BY <1>5, UnrelatedType DEF Copying!TouchOutput
  <1>6. CASE Copying!ReplaceStaged
    <2>1. PICK d \in Copying!Data : staged' = Copying!File("foreign", d)
        BY <1>6 DEF Copying!ReplaceStaged
    <2>2. d \in SourceData
        BY <2>1 DEF Copying!Data, SourceData, Copying!CopyAssumption
    <2> QED
        BY <1>6, <2>1, <2>2 DEF Copying!ReplaceStaged, Copying!File, FileType
  <1>7. CASE Copying!PowerLoss
    <2>1. copy' \in CallType
        BY <1>7, CopyTypes DEF Copying!PowerLoss, CallType
    <2>2. staged' \in FileType /\ output' \in FileType
        BY <1>7 DEF Copying!PowerLoss, FileType
    <2> QED
        BY <1>7, <2>1, <2>2 DEF Copying!PowerLoss
  <1> QED
      BY <1>1, <1>2, <1>3, <1>4, <1>5, <1>6, <1>7 DEF Elsewhere

\* What was pinned and read so far stays right while the call goes on.
LEMMA CallHeld == ASSUME CopyType, HeldInv, Copying!Copy PROVE HeldInv'
  <1> USE DEF HeldInv, Copying!Copying, Copying!Step, Copying!Others, Copying!SameFiles, CopyType,
              CallType, Successful, AtOutput, Compared, PinnedTwice, RowsSeen, CopyPinned,
              CopyOpened, StagedPinned, SyncedFile, SourcePinned
  <1>1. CASE Copying!Before
      BY <1>1 DEF Copying!Before, Copying!ControlPin, SourceData
  <1>2. CASE Copying!After
      BY <1>2 DEF Copying!After, Copying!ControlPin
  <1>3. CASE Copying!Preflight
      BY <1>3 DEF Copying!Preflight
  <1>4. CASE Copying!Sidecars
      BY <1>4 DEF Copying!Sidecars
  <1>5. CASE Copying!Open
      BY <1>5 DEF Copying!Open
  <1>6. CASE Copying!Vacuum
      BY <1>6 DEF Copying!Vacuum
  <1>7. CASE Copying!Sync
      BY <1>7 DEF Copying!Sync
  <1>8. CASE Copying!PinStaged
      BY <1>8 DEF Copying!PinStaged
  <1>9. CASE Copying!OpenCopy
      BY <1>9 DEF Copying!OpenCopy
  <1>10. CASE Copying!Copied
      BY <1>10 DEF Copying!Copied
  <1>11. CASE Copying!Verify
      BY <1>11 DEF Copying!Verify
  <1>12. CASE Copying!CopiedAfter
      BY <1>12 DEF Copying!CopiedAfter
  <1>13. CASE Copying!Compare
      BY <1>13 DEF Copying!Compare
  <1>14. CASE Copying!Restage
      BY <1>14 DEF Copying!Restage
  <1>15. CASE Copying!Link
      BY <1>15 DEF Copying!Link
  <1>16. CASE Copying!Published
      BY <1>16 DEF Copying!Published
  <1>17. CASE Copying!Remove
      BY <1>17 DEF Copying!Remove
  <1> QED
      BY <1>1, <1>2, <1>3, <1>4, <1>5, <1>6, <1>7, <1>8, <1>9,
         <1>10, <1>11, <1>12, <1>13, <1>14, <1>15, <1>16, <1>17 DEF Copying!Copy

\* While the call copies, a commit is held; afterwards it is not looked at.
LEMMA ElsewhereHeld == ASSUME CopyType, HeldInv, Elsewhere PROVE HeldInv'
  <1>1. CASE Copying!Fail \/ Copying!PowerLoss
    <2>1. copy'.pc = "failed" /\ UNCHANGED <<source, held>>
        BY <1>1 DEF Copying!Fail, Copying!PowerLoss, Copying!Others, CopyType, CallType
    <2> QED
        BY <2>1 DEF HeldInv, Copying!Copying, Successful, AtOutput, Compared, PinnedTwice,
                    RowsSeen, CopyPinned, CopyOpened, StagedPinned, SyncedFile, SourcePinned
  <1>2. CASE UNCHANGED <<source, copy, held>>
      BY <1>2 DEF HeldInv, Copying!Copying
  <1>3. CASE Copying!Write
    <2>1. /\ copy' = copy /\ held' = IF Copying!Copying THEN held \cup {source'} ELSE held
          /\ source.rev \in Nat /\ held \subseteq SourceData
        BY <1>3 DEF Copying!Write, CopyType, SourceData
    <2>2. \/ source'.rev = source.rev + 1
          \/ source'.rev = source.rev /\ source'.rows = source.rows
        BY <1>3 DEF Copying!Write, CopyType, SourceData
    <2>3. \A d \in held : d.rev \in Nat
        BY <2>1 DEF SourceData
    <2>4. CASE ~Copying!Copying
        BY <2>1, <2>4 DEF HeldInv, Copying!Copying
    <2>5. CASE Copying!Copying
      <3>1. held' = held \cup {source'} /\ source \in held /\ \A d \in held : d.rev <= source.rev
          BY <2>1, <2>5 DEF HeldInv
      <3>2. copy.pc \in SourcePinned /\ copy.pc \notin PinnedTwice
          BY <2>5 DEF Copying!Copying, Successful, AtOutput, Compared, PinnedTwice, RowsSeen,
                      CopyPinned, CopyOpened, StagedPinned, SyncedFile, SourcePinned
      <3>3. copy.before.rev \in Nat
          BY DEF CopyType, CallType, Pin
      <3>4. /\ \E d \in held' : Copying!ControlPin(d) = copy.before
            /\ \A d \in held' : copy.before.rev <= d.rev
          BY <2>1, <2>2, <2>3, <3>1, <3>2, <3>3 DEF HeldInv
      <3>5. \A d, e \in held' : d.rev = e.rev => d.rows = e.rows
          BY <2>1, <2>2, <2>3, <3>1, <3>2 DEF HeldInv
      <3>6. source' \in held' /\ \A d \in held' : d.rev <= source'.rev
          BY <2>1, <2>2, <2>3, <3>1
      <3> QED
          BY <2>1, <3>2, <3>4, <3>5, <3>6 DEF HeldInv
    <2> QED
        BY <2>4, <2>5
  <1> QED
      BY <1>1, <1>2, <1>3
      DEF Elsewhere, Copying!Checkpoint, Copying!ReplaceSource, Copying!TouchOutput,
          Copying!ReplaceStaged

\* What was read of the copy and compared stays what it was.
LEMMA CopyRead ==
    ASSUME CopyType, HeldInv, ReadInv, Copying!Copy \/ Elsewhere
    PROVE  ReadInv'
  <1> USE DEF Successful, AtOutput, Compared, PinnedTwice, RowsSeen, CopyPinned, CopyOpened,
              StagedPinned, SyncedFile, SourcePinned
  <1>1. CASE Elsewhere
    <2>1. held \subseteq held'
        BY <1>1 DEF Elsewhere, Copying!Fail, Copying!Write, Copying!Checkpoint,
                    Copying!ReplaceSource, Copying!TouchOutput, Copying!ReplaceStaged,
                    Copying!PowerLoss
    <2>2. copy' = copy \/ copy'.pc = "failed"
        BY <1>1 DEF Elsewhere, Copying!Fail, Copying!Write, Copying!Checkpoint,
                    Copying!ReplaceSource, Copying!TouchOutput, Copying!ReplaceStaged,
                    Copying!PowerLoss, CopyType, CallType
    <2> QED
        BY <2>1, <2>2 DEF ReadInv
  <1>2. CASE Copying!Copy
    <2> USE DEF ReadInv, Copying!Step, Copying!SameFiles, CopyType, CallType
    <2>1. CASE Copying!Before
        BY <2>1 DEF Copying!Before
    <2>2. CASE Copying!Verify
        BY <2>2 DEF Copying!Verify, HeldInv, Copying!Copying
    <2>3. CASE Copying!Compare
        BY <2>3 DEF Copying!Compare, Copying!Unchanged
    <2>4. CASE Copying!Copied
        BY <2>4 DEF Copying!Copied
    <2>5. CASE Copying!Preflight \/ Copying!Sidecars \/ Copying!Open
        BY <2>5 DEF Copying!Preflight, Copying!Sidecars, Copying!Open
    <2>6. CASE Copying!Vacuum \/ Copying!Sync \/ Copying!PinStaged \/ Copying!OpenCopy
        BY <2>6 DEF Copying!Vacuum, Copying!Sync, Copying!PinStaged, Copying!OpenCopy
    <2>7. CASE Copying!After \/ Copying!CopiedAfter
        BY <2>7 DEF Copying!After, Copying!CopiedAfter
    <2>8. CASE Copying!Restage \/ Copying!Link \/ Copying!Published \/ Copying!Remove
        BY <2>8 DEF Copying!Restage, Copying!Link, Copying!Published, Copying!Remove
    <2> QED
        BY <1>2, <2>1, <2>2, <2>3, <2>4, <2>5, <2>6, <2>7, <2>8 DEF Copying!Copy
  <1> QED
      BY <1>1, <1>2

\* The file that was pinned is the one that was opened and published.
LEMMA CopyFiles ==
    ASSUME Copying!CopyAssumption, CopyType, FilesInv, Copying!Copy \/ Elsewhere
    PROVE  FilesInv'
  <1> USE DEF FilesInv, CopyType, CallType, Successful, AtOutput, Compared, PinnedTwice,
              RowsSeen, CopyPinned, CopyOpened, StagedPinned, SyncedFile, SourcePinned
  <1>1. CASE Elsewhere
    <2>1. CASE Copying!Fail
        BY <2>1 DEF Copying!Fail
    <2>2. CASE Copying!PowerLoss
        BY <2>2 DEF Copying!PowerLoss
    <2>3. CASE Copying!Write \/ Copying!Checkpoint \/ Copying!ReplaceSource
        BY <2>3 DEF Copying!Write, Copying!Checkpoint, Copying!ReplaceSource
    <2>4. CASE Copying!TouchOutput
      <3>1. output'.id \in {"none", "other"} /\ UNCHANGED <<staged, copy>>
          BY <2>4, UnrelatedType DEF Copying!TouchOutput, Copying!File
      <3> QED
          BY <3>1
    <2>5. CASE Copying!ReplaceStaged
      <3>1. staged.id = "copy" /\ staged'.id = "foreign" /\ UNCHANGED <<output, copy>>
          BY <2>5 DEF Copying!ReplaceStaged, Copying!File
      <3> QED
          BY <3>1
    <2> QED
        BY <1>1, <2>1, <2>2, <2>3, <2>4, <2>5 DEF Elsewhere
  <1>2. CASE Copying!Copy
    <2> USE DEF Copying!Step, Copying!SameFiles
    <2>1. CASE Copying!Before \/ Copying!Preflight \/ Copying!Sidecars \/ Copying!Open
      <3>1. CASE Copying!Before
          BY <3>1 DEF Copying!Before
      <3>2. CASE Copying!Preflight
          BY <3>2 DEF Copying!Preflight
      <3>3. CASE Copying!Sidecars
          BY <3>3 DEF Copying!Sidecars
      <3>4. CASE Copying!Open
          BY <3>4 DEF Copying!Open
      <3> QED
          BY <2>1, <3>1, <3>2, <3>3, <3>4
    <2>2. CASE Copying!Vacuum
        BY <2>2 DEF Copying!Vacuum, Copying!File
    <2>3. CASE Copying!Sync
      <3>1. staged'.id = staged.id
          BY <2>3 DEF Copying!Sync, FileType
      <3> QED
          BY <2>3, <3>1 DEF Copying!Sync
    <2>4. CASE Copying!PinStaged
        BY <2>4 DEF Copying!PinStaged
    <2>5. CASE Copying!OpenCopy
        BY <2>5 DEF Copying!OpenCopy
    <2>6. CASE Copying!Copied \/ Copying!Verify \/ Copying!CopiedAfter \/ Copying!Compare
        BY <2>6 DEF Copying!Copied, Copying!Verify, Copying!CopiedAfter, Copying!Compare
    <2>7. CASE Copying!After \/ Copying!Restage
        BY <2>7 DEF Copying!After, Copying!Restage
    <2>8. CASE Copying!Link
        BY <2>8 DEF Copying!Link
    <2>9. CASE Copying!Published
        BY <2>9 DEF Copying!Published
    <2>10. CASE Copying!Remove
      <3>1. staged'.id = "none"
          BY <2>10, UnrelatedType DEF Copying!Remove
      <3> QED
          BY <2>10, <3>1 DEF Copying!Remove
    <2> QED
        BY <1>2, <2>1, <2>2, <2>3, <2>4, <2>5, <2>6, <2>7, <2>8, <2>9, <2>10
        DEF Copying!Copy
  <1> QED
      BY <1>1, <1>2

\* What reaches the output was synced, so a power loss leaves it whole.
LEMMA CopyWhole ==
    ASSUME Copying!CopyAssumption, CopyType, FilesInv, WholeInv, Copying!Copy \/ Elsewhere
    PROVE  WholeInv'
  <1> USE DEF WholeInv, CopyType, CallType, FileType, Successful, AtOutput, Compared,
              PinnedTwice, RowsSeen, CopyPinned, CopyOpened, StagedPinned, SyncedFile,
              SourcePinned
  <1>1. CASE Elsewhere
    <2>1. CASE Copying!Fail
        BY <2>1 DEF Copying!Fail
    <2>2. CASE Copying!PowerLoss
        BY <2>2 DEF Copying!PowerLoss
    <2>3. CASE Copying!Write \/ Copying!Checkpoint \/ Copying!ReplaceSource
        BY <2>3 DEF Copying!Write, Copying!Checkpoint, Copying!ReplaceSource
    <2>4. CASE Copying!TouchOutput
      <3>1. output'.id \in {"none", "other"} /\ output'.torn = FALSE /\ UNCHANGED <<staged, copy>>
          BY <2>4, UnrelatedType DEF Copying!TouchOutput, Copying!File
      <3> QED
          BY <3>1
    <2>5. CASE Copying!ReplaceStaged
      <3>1. staged'.id = "foreign" /\ staged'.torn = FALSE /\ UNCHANGED <<output, copy>>
          BY <2>5 DEF Copying!ReplaceStaged, Copying!File
      <3> QED
          BY <3>1
    <2> QED
        BY <1>1, <2>1, <2>2, <2>3, <2>4, <2>5 DEF Elsewhere
  <1>2. CASE Copying!Copy
    <2> USE DEF Copying!Step, Copying!SameFiles
    <2>1. CASE Copying!Before \/ Copying!Preflight \/ Copying!Sidecars \/ Copying!Open
      <3>1. CASE Copying!Before
          BY <3>1 DEF Copying!Before
      <3>2. CASE Copying!Preflight
          BY <3>2 DEF Copying!Preflight
      <3>3. CASE Copying!Sidecars
          BY <3>3 DEF Copying!Sidecars
      <3>4. CASE Copying!Open
          BY <3>4 DEF Copying!Open
      <3> QED
          BY <2>1, <3>1, <3>2, <3>3, <3>4
    <2>2. CASE Copying!Vacuum
        BY <2>2 DEF Copying!Vacuum, Copying!File
    <2>3. CASE Copying!Sync
      <3>1. staged'.id = staged.id /\ staged'.torn = staged.torn /\ staged'.synced
          BY <2>3 DEF Copying!Sync
      <3> QED
          BY <2>3, <3>1 DEF Copying!Sync
    <2>4. CASE Copying!PinStaged \/ Copying!OpenCopy
        BY <2>4 DEF Copying!PinStaged, Copying!OpenCopy
    <2>5. CASE Copying!Copied \/ Copying!Verify \/ Copying!CopiedAfter \/ Copying!Compare
        BY <2>5 DEF Copying!Copied, Copying!Verify, Copying!CopiedAfter, Copying!Compare
    <2>6. CASE Copying!After \/ Copying!Restage \/ Copying!Published
        BY <2>6 DEF Copying!After, Copying!Restage, Copying!Published
    <2>7. CASE Copying!Link
        BY <2>7 DEF Copying!Link
    <2>8. CASE Copying!Remove
      <3>1. staged'.id = "none" /\ staged'.torn = FALSE
          BY <2>8, UnrelatedType DEF Copying!Remove
      <3> QED
          BY <2>8, <3>1 DEF Copying!Remove
    <2> QED
        BY <1>2, <2>1, <2>2, <2>3, <2>4, <2>5, <2>6, <2>7, <2>8 DEF Copying!Copy
  <1> QED
      BY <1>1, <1>2

\* The invariant holds when a call begins.
LEMMA CopyStarts == ASSUME Copying!CopyAssumption, Copying!Init PROVE CopyInv
  <1> USE UnrelatedType
  <1>1. copy = Copying!Fresh
      BY DEF Copying!Init
  <1>2. Copying!ControlPin(Copying!Unrelated) \in Pin
      BY CopyTypes
  <1>3. copy \in CallType /\ copy.pc = "preflight"
      BY <1>1, <1>2, CopyTypes DEF Copying!Fresh, CallType, Place
  <1>4. /\ output \in {Copying!NoFile, Copying!File("other", Copying!Unrelated)}
        /\ staged = Copying!NoFile /\ held = {}
      BY DEF Copying!Init
  <1>5. source \in SourceData /\ path \in Place
      BY DEF Copying!Init, SourceData, Place
  <1>6. CopyType
      BY <1>3, <1>4, <1>5 DEF CopyType
  <1>7. /\ output.id \in {"none", "other"} /\ output.torn = FALSE /\ staged.id = "none"
        /\ staged.torn = FALSE
    <2>1. \A d : LET f == Copying!File("other", d) IN f.id = "other" /\ f.torn = FALSE
        BY DEF Copying!File
    <2>2. /\ Copying!File("other", Copying!Unrelated).id = "other"
          /\ Copying!File("other", Copying!Unrelated).torn = FALSE
        BY <2>1
    <2>3. Copying!NoFile.id = "none" /\ Copying!NoFile.torn = FALSE
        OBVIOUS
    <2> QED
        BY <1>4, <2>2, <2>3
  <1>8. HeldInv /\ ReadInv /\ FilesInv /\ WholeInv
      BY <1>3, <1>4, <1>7
      DEF HeldInv, ReadInv, FilesInv, WholeInv, Copying!Copying, Successful, AtOutput, Compared,
          PinnedTwice, RowsSeen, CopyPinned, CopyOpened, StagedPinned, SyncedFile, SourcePinned
  <1> QED
      BY <1>6, <1>8 DEF CopyInv

\* What the invariant says of a call that is about to succeed.
LEMMA CopyInvSafe ==
    ASSUME CopyInv PROVE Copying!SuccessIsQuiet /\ Copying!PublishedIsVerified
  <1>1. CopyType /\ HeldInv /\ ReadInv /\ FilesInv /\ WholeInv
      BY DEF CopyInv
  <1>2. ASSUME copy.pc \in {"remove", "ok"}
        PROVE  /\ \A d, e \in held : d.rows = e.rows /\ d.rev = e.rev
               /\ copy.conn \in held /\ Copying!ControlPin(copy.conn) = copy.after
    <2>1. /\ copy.pc \in SourcePinned /\ copy.pc \in PinnedTwice /\ copy.pc \in CopyPinned
          /\ copy.pc \in RowsSeen /\ copy.pc \in Compared
        BY <1>2 DEF Successful, AtOutput, Compared, PinnedTwice, RowsSeen, CopyPinned,
                    CopyOpened, StagedPinned, SyncedFile, SourcePinned
    <2>2. /\ copy.before = copy.after /\ copy.copied = copy.before
          /\ copy.copied = Copying!ControlPin(copy.conn)
        BY <1>1, <2>1 DEF ReadInv
    <2>3. PICK d0 \in held : Copying!ControlPin(d0) = copy.before
        BY <1>1, <2>1 DEF HeldInv
    <2>4. PICK d1 \in held : d1.rows = copy.conn.rows
        BY <1>1, <2>1 DEF ReadInv
    <2>5. \A d \in held : d.rev \in Nat /\ copy.after.rev \in Nat /\ d \in SourceData
        BY <1>1 DEF CopyType, CallType, SourceData, Pin
    <2>6. \A d \in held : d.rev = copy.after.rev
      <3>1. \A d \in held : copy.after.rev <= d.rev /\ d.rev <= copy.after.rev
          BY <1>1, <2>1, <2>2 DEF HeldInv
      <3> QED
          BY <2>5, <3>1
    <2>7. \A d, e \in held : d.rows = e.rows /\ d.rev = e.rev
        BY <1>1, <2>1, <2>6 DEF HeldInv
    <2>8. /\ copy.conn \in SourceData /\ d0 \in SourceData /\ d0.rows = copy.conn.rows
          /\ d0.rev = copy.conn.rev /\ d0.control = copy.conn.control
        BY <1>1, <2>2, <2>3, <2>4, <2>5, <2>7 DEF CopyType, CallType, Copying!ControlPin
    <2>9. copy.conn = d0
        BY <2>8 DEF SourceData
    <2> QED
        BY <2>2, <2>7, <2>9
  <1>3. Copying!PublishedIsVerified
      BY <1>1 DEF FilesInv, WholeInv, Copying!PublishedIsVerified, Successful, AtOutput
  <1> QED
      BY <1>2, <1>3 DEF Copying!SuccessIsQuiet

\* A step keeps the invariant.
LEMMA CopyStep ==
    ASSUME Copying!CopyAssumption, CopyInv, [Copying!Next]_(Copying!vars) PROVE CopyInv'
  <1>1. CASE UNCHANGED Copying!vars
      BY <1>1 DEF Copying!vars, CopyInv, CopyType, HeldInv, ReadInv, FilesInv, WholeInv,
                  Copying!Copying
  <1>2. CASE Copying!Copy
    <2>1. CopyType'
        BY <1>2, CallTyped, FilesTyped DEF CopyInv, CopyType
    <2> QED
        BY <1>2, <2>1, CallHeld, CopyRead, CopyFiles, CopyWhole DEF CopyInv
  <1>3. CASE Elsewhere
      BY <1>3, ElsewhereTyped, ElsewhereHeld, CopyRead, CopyFiles, CopyWhole DEF CopyInv
  <1> QED
      BY <1>1, <1>2, <1>3 DEF Copying!Next, Elsewhere

\* A step reports the copy's own file, and spares what is at the output.
LEMMA CopyStepSafe ==
    ASSUME Copying!CopyAssumption, CopyInv, [Copying!Next]_(Copying!vars)
    PROVE  [Copying!ReportsOwn]_(Copying!vars) /\ [Copying!SparesOther]_(Copying!vars)
  <1>1. Copying!ReportsOwn \/ UNCHANGED Copying!vars
    <2> SUFFICES ASSUME copy'.pc = "remove", copy.pc = "published", Copying!Next
                 PROVE  output.data = copy.conn
        BY DEF Copying!ReportsOwn
    <2>1. copy \in CallType /\ copy' # copy
        BY DEF CopyInv, CopyType
    <2>2. ~Copying!Fail /\ ~Copying!PowerLoss
        BY <2>1 DEF Copying!Fail, Copying!PowerLoss, CallType
    <2>3. Copying!Copy
        BY <2>1, <2>2
        DEF Copying!Next, Copying!Write, Copying!Checkpoint, Copying!ReplaceSource,
            Copying!TouchOutput, Copying!ReplaceStaged
    <2>4. Copying!Published
        BY <2>3
        DEF Copying!Copy, Copying!Step, Copying!Preflight, Copying!Sidecars, Copying!Open,
            Copying!Before, Copying!Vacuum, Copying!Sync, Copying!PinStaged, Copying!OpenCopy,
            Copying!Copied, Copying!Verify, Copying!After, Copying!CopiedAfter, Copying!Compare,
            Copying!Restage, Copying!Link, Copying!Published, Copying!Remove
    <2> QED
        BY <2>4 DEF Copying!Published, Copying!Step, CopyInv, FilesInv, AtOutput
  <1>2. Copying!SparesOther \/ UNCHANGED Copying!vars
    <2> SUFFICES ASSUME output.id = "other", Copying!Next PROVE output'.id \in {"other", "none"}
        BY DEF Copying!SparesOther
    <2>1. CASE Copying!TouchOutput
        BY <2>1, UnrelatedType DEF Copying!TouchOutput, Copying!File
    <2>2. CASE Copying!PowerLoss
        BY <2>2 DEF Copying!PowerLoss, CopyInv, CopyType, FileType
    <2>3. CASE Copying!Link
        BY <2>3 DEF Copying!Link, Copying!Step
    <2>4. CASE output' = output
        BY <2>4
    <2> QED
        BY <2>1, <2>2, <2>3, <2>4
        DEF Copying!Next, Copying!Copy, Copying!Step, Copying!SameFiles, Copying!Preflight,
            Copying!Sidecars, Copying!Open, Copying!Before, Copying!Vacuum, Copying!Sync,
            Copying!PinStaged, Copying!OpenCopy, Copying!Copied, Copying!Verify, Copying!After,
            Copying!CopiedAfter, Copying!Compare, Copying!Restage, Copying!Published,
            Copying!Remove, Copying!Fail, Copying!Write, Copying!Checkpoint,
            Copying!ReplaceSource, Copying!ReplaceStaged
  <1> QED
      BY <1>1, <1>2

\* optimize succeeds only over a source that was quiet from the first pin to the second,
\* with a verified copy of it that is whole after a power loss; it passes off no other
\* file as its copy and never overwrites what is at the output: for any number of
\* commits, checkpoints, exchanged files and values of rows and control metadata.
THEOREM Copies ==
    ASSUME Copying!CopyAssumption
    PROVE  Copying!Spec => Copying!CopySafe
  <1>1. Copying!Init => CopyInv
      BY CopyStarts
  <1>2. CopyInv /\ [Copying!Next]_(Copying!vars) => CopyInv'
      BY CopyStep
  <1>3. CopyInv => Copying!SuccessIsQuiet /\ Copying!PublishedIsVerified
      BY CopyInvSafe
  <1>4. CopyInv /\ [Copying!Next]_(Copying!vars) =>
          [Copying!ReportsOwn]_(Copying!vars) /\ [Copying!SparesOther]_(Copying!vars)
      BY CopyStepSafe
  <1> QED
      BY <1>1, <1>2, <1>3, <1>4, PTL
      DEF Copying!Spec, Copying!CopySafe, Copying!NoForeignCopy, Copying!NoClobber

-----------------------------------------------------------------------------
(* The decision to build an index.                                         *)

Kinds == Building!Kinds
Seen == BOOLEAN \X SUBSET Roots
ReadType == [pc : {"none", "first", "second", "reply"}, gen : Nat, snap : Seen, has : BOOLEAN,
             roots : SUBSET Roots, during : SUBSET Seen]
CmdType == [pc : {"none", "clear_files", "clear_roots", "clear_excl", "del_roots", "ins_roots",
                  "del_excl", "ins_excl", "begin", "scan", "ok", "failed"},
            req : Requests, left : SUBSET (Roots \cup Patterns), auto : BOOLEAN]
Commands ==
    {c \in CmdType : /\ c.pc = "ins_roots" => c.left \subseteq Roots
                     /\ c.pc = "ins_excl" => c.left \subseteq Patterns}
AppType == [pc : {"off", "on"}, gen : Nat, attempted : BOOLEAN, status : BOOLEAN,
            indexing : BOOLEAN]
WatchType == [up : BOOLEAN, roots : SUBSET Roots, excl : SUBSET Patterns, pos : Nat]
DbType == [files : SUBSET Files, roots : SUBSET Roots, excl : SUBSET Patterns, ckpt : Nat]

BuildType ==
    /\ fs \subseteq Files /\ events \in Nat /\ db \in DbType /\ cmd \in Commands
    /\ app \in AppType /\ reads \in [Kinds -> ReadType] /\ watch \in WatchType

\* The app runs a command or a watcher, never both, and the watcher only of an index
\* with roots.
Alone ==
    /\ app.pc = "off" => ~watch.up /\ ~app.indexing
    /\ app.pc = "on" => (app.indexing <=> cmd.pc # "none")
    /\ watch.up => db.roots # {} /\ ~app.indexing

\* A read the app would still use was begun after the last command.
Current(k) == app.pc = "on" /\ ~app.indexing /\ reads[k].gen = app.gen

\* So what it has seen is what the database holds, as far as the decision goes.
ReadsInv ==
    \A k \in Kinds :
        /\ reads[k].gen <= app.gen
        /\ Current(k) /\ reads[k].pc \in {"second", "reply"} =>
              /\ reads[k].snap[2] = db.roots
              /\ db.roots = {} /\ ~reads[k].has => db.files = {}
        /\ Current(k) /\ reads[k].pc = "reply" => reads[k].roots = db.roots

\* The bootstrap reply is one of the contents the database had meanwhile.
WholeReads ==
    LET r == reads["bootstrap"] IN
    /\ r.pc \in {"second", "reply"} => <<r.has, r.snap[2]>> \in r.during
    /\ r.pc = "reply" => r.roots = r.snap[2]

BuildInv ==
    /\ BuildType /\ Alone /\ ReadsInv /\ WholeReads
    /\ Building!AutoRebuildOnlyWhenEmpty

\* The requests, and the contents as a reply tells them.
LEMMA RequestType ==
    ASSUME Building!IndexAssumption
    PROVE  /\ DefaultRequest \in Requests /\ DefaultRequest.rebuild
           /\ \A r \in Requests : r.roots \subseteq Roots /\ r.excl \subseteq Patterns
           /\ \A r, x : Building!Scope(r, x) \subseteq Files
  BY DEF Building!IndexAssumption, Building!Scope

\* A statement leaves a read in flight as it was, and notes what it could have seen.
LEMMA Observed ==
    ASSUME reads \in [Kinds -> ReadType], NEW d \in DbType, reads' = Building!Observe(d)
    PROVE  /\ reads' \in [Kinds -> ReadType]
           /\ \A k \in Kinds :
                 /\ reads'[k].pc = reads[k].pc /\ reads'[k].gen = reads[k].gen
                 /\ reads'[k].snap = reads[k].snap /\ reads'[k].has = reads[k].has
                 /\ reads'[k].roots = reads[k].roots /\ reads[k].during \subseteq reads'[k].during
  <1>1. Building!Pair(d) \in Seen
      BY DEF Building!Pair, Seen, DbType
  <1>2. \A k \in Kinds : reads'[k] = IF reads[k].pc \in {"first", "second"}
                                     THEN [reads[k] EXCEPT !.during = @ \cup {Building!Pair(d)}]
                                     ELSE reads[k]
      BY DEF Building!Observe, Kinds
  <1>3. ASSUME NEW r \in ReadType
        PROVE  LET o == [r EXCEPT !.during = @ \cup {Building!Pair(d)}]
               IN  /\ o \in ReadType /\ o.pc = r.pc /\ o.gen = r.gen /\ o.snap = r.snap
                   /\ o.has = r.has /\ o.roots = r.roots /\ r.during \subseteq o.during
      BY <1>1 DEF ReadType
  <1>4. reads' = [k \in Kinds |-> reads'[k]]
      BY DEF Building!Observe, Kinds
  <1>5. ASSUME NEW k \in Kinds
        PROVE  /\ reads'[k] \in ReadType
               /\ reads'[k].pc = reads[k].pc /\ reads'[k].gen = reads[k].gen
               /\ reads'[k].snap = reads[k].snap /\ reads'[k].has = reads[k].has
               /\ reads'[k].roots = reads[k].roots /\ reads[k].during \subseteq reads'[k].during
    <2>1. reads[k] \in ReadType
        OBVIOUS
    <2>2. CASE reads[k].pc \in {"first", "second"}
        BY <1>2, <1>3, <2>1, <2>2
    <2>3. CASE reads[k].pc \notin {"first", "second"}
        BY <1>2, <2>1, <2>3
    <2> QED
        BY <2>2, <2>3
  <1> QED
      BY <1>4, <1>5

\* A read that is started has seen nothing.
LEMMA ReadStarted ==
    ASSUME NEW rs \in [Kinds -> ReadType], NEW k \in Kinds, NEW g \in Nat
    PROVE  /\ Building!StartRead(rs, k, g) \in [Kinds -> ReadType]
           /\ \A j \in Kinds \ {k} : Building!StartRead(rs, k, g)[j] = rs[j]
           /\ Building!StartRead(rs, k, g)[k].pc = "first"
           /\ Building!StartRead(rs, k, g)[k].gen = g
  <1>1. Building!NoRead \in ReadType /\ Building!NoRead.pc = "none" /\ Building!NoRead.gen = 0
      BY DEF Building!NoRead, ReadType, Seen
  <1>2. [Building!NoRead EXCEPT !.pc = "first", !.gen = g] \in ReadType
      BY <1>1 DEF ReadType
  <1>3. /\ [Building!NoRead EXCEPT !.pc = "first", !.gen = g].pc = "first"
        /\ [Building!NoRead EXCEPT !.pc = "first", !.gen = g].gen = g
      BY <1>1 DEF ReadType
  <1> QED
      BY <1>2, <1>3 DEF Building!StartRead

\* No read.
LEMMA NoReadType ==
    /\ Building!NoRead \in ReadType /\ Building!NoRead.pc = "none" /\ Building!NoRead.gen = 0
    /\ [k \in Kinds |-> Building!NoRead] \in [Kinds -> ReadType]
  BY DEF Building!NoRead, ReadType, Seen

\* The command that is started.
LEMMA CommandStarted ==
    ASSUME NEW r \in Requests, NEW a \in BOOLEAN, Building!StartCommand(r, a)
    PROVE  cmd' \in Commands /\ cmd'.pc \in {"clear_files", "del_roots"} /\ cmd'.auto = a
           /\ (r.rebuild => cmd'.pc = "clear_files")
  BY DEF Building!StartCommand, CmdType, Commands

\* A watcher is started only of an index with roots, and leaves them.
LEMMA WatcherStarted ==
    ASSUME Building!IndexAssumption, BuildType, Building!StartWatcher(db)
    PROVE  /\ watch' \in WatchType /\ db' \in DbType /\ db'.roots = db.roots
           /\ db.roots = {} \/ watch.up => watch' = watch /\ db' = db
           /\ watch'.up => watch.up \/ db.roots # {}
  <1>1. CASE db.roots = {} \/ watch.up
      BY <1>1 DEF Building!StartWatcher, BuildType
  <1>2. CASE ~(db.roots = {} \/ watch.up)
    <2>1. /\ db.roots \subseteq Roots /\ db.excl \subseteq Patterns /\ db.files \subseteq Files
          /\ db.ckpt \in Nat /\ events \in Nat /\ fs \subseteq Files
        BY DEF BuildType, DbType
    <2>2. Building!Since(db.ckpt) \in Nat
        BY <2>1 DEF Building!Since
    <2>3. watch' = [up |-> TRUE, roots |-> db.roots, excl |-> db.excl,
                    pos |-> Building!Since(db.ckpt)]
        BY <1>2 DEF Building!StartWatcher
    <2>4. PICK f \in SUBSET Files : \/ db' = db
                                    \/ db' = [db EXCEPT !.files = f, !.ckpt = events]
      <3> DEFINE f == (db.files \ {g \in Files : RootOf[g] \in db.roots})
                        \cup (fs \cap Building!Scope(db.roots, db.excl))
      <3>1. f \in SUBSET Files
          BY <2>1
      <3>2. db' = db \/ db' = [db EXCEPT !.files = f, !.ckpt = events]
          BY <1>2 DEF Building!StartWatcher
      <3> QED
          BY <3>1, <3>2
    <2>5. db \in DbType
        BY DEF BuildType
    <2>6. [db EXCEPT !.files = f, !.ckpt = events] \in DbType
          /\ [db EXCEPT !.files = f, !.ckpt = events].roots = db.roots
        BY <2>1, <2>5 DEF DbType
    <2> QED
        BY <1>2, <2>1, <2>2, <2>3, <2>4, <2>5, <2>6 DEF WatchType
  <1> QED
      BY <1>1, <1>2

\* While a command runs there is no watcher, and no read the app will use.
LEMMA CommandAlone ==
    ASSUME BuildType, Alone, cmd.pc # "none"
    PROVE  ~watch.up /\ \A k \in Kinds : ~Current(k)
  BY DEF BuildType, AppType, Alone, Current

\* A statement of the command keeps the invariant.
LEMMA StatementKeeps ==
    ASSUME BuildInv, db' \in DbType, reads' = Building!Observe(db'),
           UNCHANGED <<fs, events, app, watch>>, cmd.pc # "none", cmd' \in Commands,
           cmd'.pc \notin {"none", "clear_files"}
    PROVE  BuildInv'
  <1>1. BuildType /\ Alone /\ ReadsInv /\ WholeReads
      BY DEF BuildInv
  <1>2. /\ reads' \in [Kinds -> ReadType]
        /\ \A k \in Kinds :
              /\ reads'[k].pc = reads[k].pc /\ reads'[k].gen = reads[k].gen
              /\ reads'[k].snap = reads[k].snap /\ reads'[k].has = reads[k].has
              /\ reads'[k].roots = reads[k].roots /\ reads[k].during \subseteq reads'[k].during
      BY <1>1, Observed DEF BuildType
  <1>3. ~watch.up /\ \A k \in Kinds : ~Current(k)
      BY <1>1, CommandAlone
  <1>4. BuildType' /\ Alone'
      BY <1>1, <1>2, <1>3 DEF BuildType, Alone
  <1>5. ReadsInv'
      BY <1>1, <1>2, <1>3 DEF ReadsInv, Current
  <1>6. WholeReads'
    <2>1. "bootstrap" \in Kinds
        BY DEF Kinds, Building!Kinds
    <2> QED
        BY <1>1, <1>2, <2>1 DEF WholeReads
  <1> QED
      BY <1>4, <1>5, <1>6 DEF BuildInv, Building!AutoRebuildOnlyWhenEmpty

\* Clearing the index and writing its settings.
LEMMA ClearKeeps == ASSUME BuildInv, Building!Clear PROVE BuildInv'
  <1>1. cmd \in CmdType /\ db \in DbType
      BY DEF BuildInv, BuildType, Commands
  <1>2. PICK l \in {"clear_roots", "clear_excl", "del_roots"} : cmd' = [cmd EXCEPT !.pc = l]
      BY DEF Building!Clear
  <1>3. /\ [db EXCEPT !.files = {}] \in DbType /\ [db EXCEPT !.roots = {}] \in DbType
        /\ [db EXCEPT !.excl = {}] \in DbType
      BY <1>1 DEF DbType
  <1>4. PICK d \in DbType : Building!Statement(d)
      BY <1>3 DEF Building!Clear
  <1>5. cmd' \in Commands /\ cmd'.pc = l
      BY <1>1, <1>2 DEF CmdType, Commands
  <1>6. cmd.pc # "none"
      BY DEF Building!Clear
  <1>7. /\ db' = d /\ reads' = Building!Observe(d) /\ UNCHANGED <<fs, events, app, watch>>
      BY <1>4 DEF Building!Statement, Building!World
  <1> QED
      BY <1>2, <1>5, <1>6, <1>7, StatementKeeps

\* The settings are deleted and inserted one by one.
LEMMA ConfigureKeeps ==
    ASSUME Building!IndexAssumption, BuildInv, Building!Configure PROVE BuildInv'
  <1>1. cmd \in CmdType /\ cmd \in Commands /\ db \in DbType
      BY DEF BuildInv, BuildType, Commands
  <1>2. cmd.req.roots \subseteq Roots /\ cmd.req.excl \subseteq Patterns
      BY <1>1, RequestType DEF CmdType
  <1>3. ASSUME NEW l, NEW x, cmd' = [cmd EXCEPT !.pc = l, !.left = x] ,
               \/ l = "ins_roots" /\ x \subseteq Roots
               \/ l = "ins_excl" /\ x \subseteq Patterns
               \/ l \in {"del_excl", "begin"} /\ x \subseteq Roots \cup Patterns
        PROVE  cmd' \in Commands /\ cmd'.pc \notin {"none", "clear_files"}
    <2>1. cmd' \in CmdType /\ cmd'.pc = l /\ cmd'.left = x
        BY <1>1, <1>3 DEF CmdType
    <2> QED
        BY <1>3, <2>1 DEF Commands
  <1>4. ASSUME NEW d \in DbType, Building!Statement(d), cmd.pc # "none", cmd' \in Commands,
               cmd'.pc \notin {"none", "clear_files"}
        PROVE  BuildInv'
    <2>1. /\ db' = d /\ reads' = Building!Observe(d) /\ UNCHANGED <<fs, events, app, watch>>
        BY <1>4 DEF Building!Statement, Building!World
    <2> QED
        BY <1>4, <2>1, StatementKeeps
  <1>5. CASE cmd.pc = "del_roots"
    <2>1. /\ Building!Statement([db EXCEPT !.roots = {}])
          /\ cmd' = [cmd EXCEPT !.pc = "ins_roots", !.left = cmd.req.roots]
        BY <1>5 DEF Building!Configure
    <2>2. [db EXCEPT !.roots = {}] \in DbType
        BY <1>1 DEF DbType
    <2> QED
        BY <1>2, <1>3, <1>4, <1>5, <2>1, <2>2
  <1>6. CASE cmd.pc = "ins_roots"
    <2>1. PICK r \in cmd.left :
             /\ Building!Statement([db EXCEPT !.roots = @ \cup {r}])
             /\ cmd' = [cmd EXCEPT !.left = @ \ {r},
                                   !.pc = IF cmd.left = {r} THEN "del_excl" ELSE @]
        BY <1>6 DEF Building!Configure
    <2>2. cmd.left \subseteq Roots
        BY <1>1, <1>6 DEF Commands
    <2>3. [db EXCEPT !.roots = @ \cup {r}] \in DbType
        BY <1>1, <2>1, <2>2 DEF DbType
    <2>4. cmd' = [cmd EXCEPT !.pc = IF cmd.left = {r} THEN "del_excl" ELSE "ins_roots",
                             !.left = cmd.left \ {r}]
        BY <1>1, <1>6, <2>1 DEF CmdType
    <2> QED
        BY <1>3, <1>4, <1>6, <2>1, <2>2, <2>3, <2>4
  <1>7. CASE cmd.pc = "del_excl"
    <2>1. /\ Building!Statement([db EXCEPT !.excl = {}])
          /\ cmd' = [cmd EXCEPT !.pc = IF cmd.req.excl = {} THEN "begin" ELSE "ins_excl",
                                !.left = cmd.req.excl]
        BY <1>7 DEF Building!Configure
    <2>2. [db EXCEPT !.excl = {}] \in DbType
        BY <1>1 DEF DbType
    <2> QED
        BY <1>2, <1>3, <1>4, <1>7, <2>1, <2>2
  <1>8. CASE cmd.pc = "ins_excl"
    <2>1. PICK x \in cmd.left :
             /\ Building!Statement([db EXCEPT !.excl = @ \cup {x}])
             /\ cmd' = [cmd EXCEPT !.left = @ \ {x},
                                   !.pc = IF cmd.left = {x} THEN "begin" ELSE @]
        BY <1>8 DEF Building!Configure
    <2>2. cmd.left \subseteq Patterns
        BY <1>1, <1>8 DEF Commands
    <2>3. [db EXCEPT !.excl = @ \cup {x}] \in DbType
        BY <1>1, <2>1, <2>2 DEF DbType
    <2>4. cmd' = [cmd EXCEPT !.pc = IF cmd.left = {x} THEN "begin" ELSE "ins_excl",
                             !.left = cmd.left \ {x}]
        BY <1>1, <1>8, <2>1 DEF CmdType
    <2> QED
        BY <1>3, <1>4, <1>8, <2>1, <2>2, <2>3, <2>4
  <1> QED
      BY <1>5, <1>6, <1>7, <1>8 DEF Building!Configure

\* The scan ends its transaction.
LEMMA CommitKeeps ==
    ASSUME Building!IndexAssumption, BuildInv, Building!CommitScan PROVE BuildInv'
  <1>1. cmd \in CmdType /\ db \in DbType /\ fs \subseteq Files
      BY DEF BuildInv, BuildType, Commands
  <1>2. cmd' \in Commands /\ cmd'.pc = "ok" /\ cmd.pc = "scan"
      BY <1>1 DEF Building!CommitScan, CmdType, Commands
  <1>3. PICK f \in SUBSET Files :
           /\ db' = [db EXCEPT !.files = f] /\ reads' = Building!Observe([db EXCEPT !.files = f])
    <2> DEFINE f == (db.files \ (IF cmd.req.rebuild THEN {}
                                 ELSE {g \in Files : RootOf[g] \in cmd.req.roots}))
                      \cup (fs \cap Building!Scope(cmd.req.roots, cmd.req.excl))
    <2>1. f \in SUBSET Files
        BY <1>1 DEF DbType
    <2>2. db' = [db EXCEPT !.files = f] /\ reads' = Building!Observe([db EXCEPT !.files = f])
        BY DEF Building!CommitScan
    <2> QED
        BY <2>1, <2>2
  <1>4. [db EXCEPT !.files = f] \in DbType
      BY <1>1 DEF DbType
  <1>5. UNCHANGED <<fs, events, app, watch>>
      BY DEF Building!CommitScan, Building!World
  <1> QED
      BY <1>2, <1>3, <1>4, <1>5, StatementKeeps

\* What leaves the database, the app, its reads and the watcher alone.
LEMMA QuietKeeps ==
    ASSUME BuildInv, UNCHANGED <<db, app, reads, watch>>, fs' \subseteq Files, events' \in Nat,
           cmd' \in Commands, app.pc = "on" => (cmd'.pc = "none" <=> cmd.pc = "none"),
           cmd' = cmd \/ ~(cmd'.auto /\ cmd'.pc = "clear_files")
    PROVE  BuildInv'
  BY DEF BuildInv, BuildType, Alone, ReadsInv, Current, WholeReads,
         Building!AutoRebuildOnlyWhenEmpty

\* A change of a file, and the beginning and the failure of a scan.
LEMMA WorldKeeps ==
    ASSUME BuildInv,
           (\E f \in Files : Building!Change(f)) \/ Building!BeginScan \/ Building!FailScan
    PROVE  BuildInv'
  <1>1. cmd \in CmdType /\ cmd \in Commands /\ fs \subseteq Files /\ events \in Nat
      BY DEF BuildInv, BuildType, Commands
  <1>2. CASE \E f \in Files : Building!Change(f)
    <2>1. /\ UNCHANGED <<db, app, reads, watch, cmd>> /\ fs' \subseteq Files
          /\ events' = events + 1
        BY <1>1, <1>2 DEF Building!Change
    <2>2. events' \in Nat
        BY <1>1, <2>1
    <2> QED
        BY <1>1, <2>1, <2>2, QuietKeeps
  <1>3. CASE Building!BeginScan
    <2>1. /\ UNCHANGED <<db, app, reads, watch, fs, events>> /\ cmd' = [cmd EXCEPT !.pc = "scan"]
          /\ cmd.pc = "begin"
        BY <1>3 DEF Building!BeginScan, Building!World
    <2>2. cmd' \in Commands /\ cmd'.pc = "scan"
        BY <1>1, <2>1 DEF CmdType, Commands
    <2> QED
        BY <1>1, <2>1, <2>2, QuietKeeps
  <1>4. CASE Building!FailScan
    <2>1. /\ UNCHANGED <<db, app, reads, watch, fs, events>>
          /\ cmd' = [cmd EXCEPT !.pc = "failed"] /\ cmd.pc = "scan"
        BY <1>4 DEF Building!FailScan, Building!World
    <2>2. cmd' \in Commands /\ cmd'.pc = "failed"
        BY <1>1, <2>1 DEF CmdType, Commands
    <2> QED
        BY <1>1, <2>1, <2>2, QuietKeeps
  <1> QED
      BY <1>2, <1>3, <1>4

\* A command the user runs while the app is closed.
LEMMA UserKeeps ==
    ASSUME Building!IndexAssumption, BuildInv, Building!UserCommand PROVE BuildInv'
  <1>1. PICK r \in Requests : Building!StartCommand(r, FALSE)
      BY DEF Building!UserCommand
  <1>2. cmd' \in Commands /\ cmd'.auto = FALSE
      BY <1>1, CommandStarted
  <1>3. /\ UNCHANGED <<db, app, reads, watch, fs, events>> /\ app.pc = "off"
      BY DEF Building!UserCommand, Building!World
  <1> QED
      BY <1>2, <1>3, QuietKeeps DEF BuildInv, BuildType

\* A rebuild stops the watcher, and what the app was reading is outdated.
LEMMA RebuildKeeps ==
    ASSUME BuildInv, app.pc = "on", ~app.indexing, NEW a \in BOOLEAN,
           app' \in AppType, app'.pc = "on", app'.gen = app.gen + 1, app'.indexing = TRUE,
           watch' = Building!Down, cmd' \in Commands, cmd'.pc = "clear_files", cmd'.auto = a,
           a => db.files = {} /\ db.roots = {},
           UNCHANGED <<fs, events, db>>,
           reads' \in [Kinds -> ReadType],
           \A k \in Kinds : reads'[k] = reads[k] \/ reads'[k] = Building!NoRead
    PROVE  BuildInv'
  <1>1. BuildType /\ Alone /\ ReadsInv /\ WholeReads
      BY DEF BuildInv
  <1>2. watch' \in WatchType /\ watch'.up = FALSE
      BY DEF Building!Down, WatchType
  <1>3. BuildType' /\ Alone'
      BY <1>1, <1>2 DEF BuildType, Alone
  <1>4. ReadsInv'
    <2>1. \A k \in Kinds : reads'[k].gen <= app.gen /\ reads'[k].gen \in Nat /\ app.gen \in Nat
        BY <1>1, NoReadType DEF BuildType, ReadType, AppType, ReadsInv
    <2> QED
        BY <2>1 DEF ReadsInv, Current
  <1>5. WholeReads'
    <2>1. "bootstrap" \in Kinds
        BY DEF Kinds, Building!Kinds
    <2> QED
        BY <1>1, <2>1, NoReadType DEF WholeReads
  <1> QED
      BY <1>3, <1>4, <1>5 DEF BuildInv, Building!AutoRebuildOnlyWhenEmpty

Begun(a, g, t) == [a EXCEPT !.gen = g, !.indexing = TRUE, !.attempted = t]

\* The app while it indexes.
LEMMA Indexing ==
    ASSUME NEW a \in AppType, NEW g \in Nat, NEW t \in BOOLEAN
    PROVE  /\ Begun(a, g, t) \in AppType /\ Begun(a, g, t).pc = a.pc
           /\ Begun(a, g, t).gen = g /\ Begun(a, g, t).indexing = TRUE
  <1> USE DEF Begun
  <1>1. [a EXCEPT !.gen = g] \in AppType
      BY DEF AppType
  <1>2. [a EXCEPT !.gen = g, !.indexing = TRUE] \in AppType
      BY <1>1 DEF AppType
  <1> QED
      BY <1>1, <1>2 DEF AppType

\* A rebuild the user asks for.
LEMMA ClickKeeps ==
    ASSUME Building!IndexAssumption, BuildInv, Building!ClickRebuild PROVE BuildInv'
  <1>1. PICK r \in Requests : r.rebuild /\ Building!Rebuild(r, FALSE, app.attempted)
      BY DEF Building!ClickRebuild
  <1>2. cmd' \in Commands /\ cmd'.auto = FALSE /\ cmd'.pc = "clear_files"
      BY <1>1, CommandStarted DEF Building!Rebuild
  <1>3. app \in AppType /\ app.gen \in Nat
      BY DEF BuildInv, BuildType, AppType
  <1>4. /\ app' \in AppType /\ app'.pc = app.pc /\ app'.gen = app.gen + 1 /\ app'.indexing = TRUE
    <2>1. app' = [app EXCEPT !.gen = @ + 1, !.indexing = TRUE, !.attempted = app.attempted]
        BY <1>1 DEF Building!Rebuild
    <2>2. app.gen + 1 \in Nat /\ app.attempted \in BOOLEAN
        BY <1>3 DEF AppType
    <2> QED
      <3>1. app' = Begun(app, app.gen + 1, app.attempted)
          BY <2>1 DEF Begun
      <3> QED
          BY <1>3, <2>2, <3>1, Indexing
  <1>5. /\ app.pc = "on" /\ ~app.indexing /\ UNCHANGED <<fs, events, db, reads>>
      BY DEF Building!ClickRebuild, Building!World
  <1>6. watch' = Building!Down
      BY <1>1 DEF Building!Rebuild
  <1> QED
      BY <1>2, <1>4, <1>5, <1>6, RebuildKeeps DEF BuildInv, BuildType

\* A step of a read changes that read only.
LEMMA ReadKeeps ==
    ASSUME BuildInv, UNCHANGED <<fs, events, db, cmd, app, watch>>, NEW k \in Kinds,
           NEW r \in ReadType, reads' = [reads EXCEPT ![k] = r], r.gen = reads[k].gen,
           Current(k) /\ r.pc \in {"second", "reply"} =>
              r.snap[2] = db.roots /\ (db.roots = {} /\ ~r.has => db.files = {}),
           Current(k) /\ r.pc = "reply" => r.roots = db.roots,
           k = "bootstrap" =>
              /\ r.pc \in {"second", "reply"} => <<r.has, r.snap[2]>> \in r.during
              /\ r.pc = "reply" => r.roots = r.snap[2]
    PROVE  BuildInv'
  <1>1. BuildType /\ Alone /\ ReadsInv /\ WholeReads
      BY DEF BuildInv
  <1>2. reads \in [Kinds -> ReadType]
      BY <1>1 DEF BuildType
  <1>3. BuildType' /\ Alone'
      BY <1>1, <1>2 DEF BuildType, Alone
  <1>4. reads'[k] = r /\ \A j \in Kinds \ {k} : reads'[j] = reads[j]
      BY <1>2
  <1>5. ReadsInv'
      BY <1>1, <1>4 DEF ReadsInv, Current
  <1>6. WholeReads'
    <2>1. "bootstrap" \in Kinds
        BY DEF Kinds, Building!Kinds
    <2> QED
        BY <1>1, <1>4, <2>1 DEF WholeReads
  <1> QED
      BY <1>3, <1>5, <1>6 DEF BuildInv, Building!AutoRebuildOnlyWhenEmpty

\* The two halves of a read.
LEMMA FirstKeeps ==
    ASSUME BuildInv, NEW k \in Kinds, Building!ReadFirst(k) PROVE BuildInv'
  <1>1. reads[k] \in ReadType /\ reads \in [Kinds -> ReadType] /\ db \in DbType
      BY DEF BuildInv, BuildType
  <1> DEFINE pair == Building!Pair(db)
             r == [reads[k] EXCEPT !.pc = "second", !.snap = pair, !.has = pair[1],
                                   !.during = @ \cup {pair}]
  <1>2. pair = <<db.files # {}, db.roots>> /\ pair[2] = db.roots /\ pair[1] = (db.files # {})
      BY DEF Building!Pair
  <1>3. pair \in Seen /\ pair[1] \in BOOLEAN
      BY <1>1, <1>2 DEF Seen, DbType
  <1>4. reads' = [reads EXCEPT ![k] = r] /\ UNCHANGED <<fs, events, db, cmd, app, watch>>
    <2>1. reads' = [reads EXCEPT ![k] = r]
        BY Zenon DEF Building!ReadFirst
    <2>2. UNCHANGED <<fs, events, db, cmd, app, watch>>
        BY DEF Building!ReadFirst, Building!World
    <2> QED
        BY <2>1, <2>2
  <1>5. /\ r \in ReadType /\ r.pc = "second" /\ r.gen = reads[k].gen /\ r.snap = pair
        /\ r.has = pair[1] /\ r.during = reads[k].during \cup {pair}
    <2> HIDE DEF pair
    <2>1. [reads[k] EXCEPT !.pc = "second", !.snap = pair] \in ReadType
        BY <1>1, <1>3 DEF ReadType
    <2>2. [reads[k] EXCEPT !.pc = "second", !.snap = pair, !.has = pair[1]] \in ReadType
        BY <1>3, <2>1 DEF ReadType
    <2>3. r \in ReadType
        BY <1>3, <2>2 DEF ReadType
    <2> QED
        BY <1>1, <2>3 DEF ReadType
  <1>6. <<r.has, r.snap[2]>> \in r.during
      BY <1>2, <1>5
  <1> HIDE DEF r, pair
  <1> QED
      BY <1>1, <1>2, <1>4, <1>5, <1>6, ReadKeeps

\* The roots of a bootstrap reply are those of its snapshot.
LEMMA SecondKeeps ==
    ASSUME BuildInv, NEW k \in Kinds, Building!ReadSecond(k) PROVE BuildInv'
  <1>1. reads[k] \in ReadType /\ reads \in [Kinds -> ReadType] /\ db \in DbType
      BY DEF BuildInv, BuildType
  <1> DEFINE r == [reads[k] EXCEPT !.pc = "reply", !.roots = Building!RootsView(k)]
  <1>2. reads' = [reads EXCEPT ![k] = r] /\ UNCHANGED <<fs, events, db, cmd, app, watch>>
        /\ reads[k].pc = "second"
      BY DEF Building!ReadSecond, Building!World
  <1>3. Building!RootsView(k) = IF k = "bootstrap" THEN reads[k].snap[2] ELSE db.roots
      BY DEF Building!RootsView
  <1>4. Building!RootsView(k) \subseteq Roots
      BY <1>1, <1>3 DEF ReadType, Seen, DbType
  <1>5. /\ r \in ReadType /\ r.pc = "reply" /\ r.gen = reads[k].gen /\ r.snap = reads[k].snap
        /\ r.has = reads[k].has /\ r.during = reads[k].during /\ r.roots = Building!RootsView(k)
      BY <1>1, <1>4 DEF ReadType
  <1>6. Current(k) => /\ r.snap[2] = db.roots
                      /\ db.roots = {} /\ ~r.has => db.files = {}
                      /\ r.roots = db.roots
      BY <1>2, <1>3, <1>5 DEF BuildInv, ReadsInv
  <1>7. k = "bootstrap" => <<r.has, r.snap[2]>> \in r.during /\ r.roots = r.snap[2]
      BY <1>2, <1>3, <1>5 DEF BuildInv, WholeReads
  <1> HIDE DEF r
  <1> QED
      BY <1>1, <1>2, <1>5, <1>6, <1>7, ReadKeeps

\* The app's start, and a read the user asks for.
LEMMA LaunchKeeps ==
    ASSUME BuildInv, Building!Launch \/ Building!ClickRefresh PROVE BuildInv'
  <1>1. /\ reads \in [Kinds -> ReadType] /\ app.gen \in Nat /\ app \in AppType
        /\ {"bootstrap", "status"} \subseteq Kinds /\ Kinds \subseteq {"bootstrap", "status"}
      BY DEF BuildInv, BuildType, AppType, Kinds, Building!Kinds
  <1>2. CASE Building!Launch
    <2>1. /\ app' = [Building!Closed EXCEPT !.pc = "on"] /\ app.pc = "off" /\ cmd.pc = "none"
          /\ reads' = Building!StartRead([k \in Kinds |-> Building!NoRead], "bootstrap", 0)
          /\ UNCHANGED <<fs, events, db, cmd, watch>>
        BY <1>2 DEF Building!Launch, Building!World, Kinds
    <2>2. /\ app' \in AppType /\ app'.pc = "on" /\ app'.gen = 0 /\ app'.indexing = FALSE
        BY <2>1 DEF Building!Closed, AppType
    <2>3. /\ reads' \in [Kinds -> ReadType] /\ reads'["bootstrap"].pc = "first"
          /\ reads'["bootstrap"].gen = 0
          /\ \A j \in Kinds \ {"bootstrap"} : reads'[j].pc = "none" /\ reads'[j].gen = 0
      <3> DEFINE rs == [k \in Kinds |-> Building!NoRead]
      <3>1. rs \in [Kinds -> ReadType] /\ \A j \in Kinds : rs[j] = Building!NoRead
          BY NoReadType
      <3>2. reads' = Building!StartRead(rs, "bootstrap", 0)
          BY <2>1
      <3> HIDE DEF rs
      <3> QED
          BY <1>1, <3>1, <3>2, ReadStarted, NoReadType
    <2>4. BuildType' /\ Alone'
        BY <2>1, <2>2, <2>3 DEF BuildInv, BuildType, Alone
    <2>5. ReadsInv' /\ WholeReads'
        BY <1>1, <2>2, <2>3 DEF ReadsInv, WholeReads
    <2> QED
        BY <2>1, <2>4, <2>5 DEF BuildInv, Building!AutoRebuildOnlyWhenEmpty
  <1>3. CASE Building!ClickRefresh
    <2>1. /\ reads' = Building!StartRead(reads, "status", app.gen)
          /\ UNCHANGED <<fs, events, db, cmd, app, watch>>
        BY <1>3 DEF Building!ClickRefresh, Building!World
    <2>2. /\ reads' \in [Kinds -> ReadType] /\ reads'["status"].pc = "first"
          /\ reads'["status"].gen = app.gen
          /\ reads'["bootstrap"] = reads["bootstrap"]
        BY <1>1, <2>1, ReadStarted
    <2>3. BuildType' /\ Alone'
        BY <2>1, <2>2 DEF BuildInv, BuildType, Alone
    <2>4. ReadsInv'
        BY <1>1, <2>1, <2>2 DEF BuildInv, ReadsInv, Current
    <2>5. WholeReads'
        BY <2>2 DEF BuildInv, WholeReads
    <2> QED
        BY <2>1, <2>3, <2>4, <2>5 DEF BuildInv, Building!AutoRebuildOnlyWhenEmpty
  <1> QED
      BY <1>2, <1>3

\* A reply the app takes or drops, which may start the watcher or another read.
LEMMA ReplyKeeps ==
    ASSUME BuildInv, UNCHANGED <<fs, events, cmd>>, cmd.pc = "none" \/ db' = db,
           app' \in AppType, app'.pc = "on", app.pc = "on", app'.gen = app.gen,
           app'.indexing = app.indexing,
           db' \in DbType, db'.roots = db.roots, db' = db \/ db.roots # {},
           watch' \in WatchType, watch'.up => db.roots # {} /\ ~app.indexing,
           reads' \in [Kinds -> ReadType],
           \A j \in Kinds : \/ reads'[j] = reads[j] \/ reads'[j] = Building!NoRead
                            \/ reads'[j].pc = "first" /\ reads'[j].gen = app.gen
    PROVE  BuildInv'
  <1>1. BuildType /\ Alone /\ ReadsInv /\ WholeReads
      BY DEF BuildInv
  <1>2. BuildType' /\ Alone'
      BY <1>1 DEF BuildType, Alone
  <1>3. ReadsInv'
    <2>1. app.gen \in Nat
        BY <1>1 DEF BuildType, AppType
    <2>2. ASSUME NEW j \in Kinds
          PROVE  /\ reads'[j].gen <= app'.gen
                 /\ Current(j)' /\ reads'[j].pc \in {"second", "reply"} =>
                      /\ reads'[j].snap[2] = db'.roots
                      /\ db'.roots = {} /\ ~reads'[j].has => db'.files = {}
                 /\ Current(j)' /\ reads'[j].pc = "reply" => reads'[j].roots = db'.roots
      <3>1. CASE reads'[j] = reads[j]
          BY <1>1, <3>1 DEF ReadsInv, Current
      <3>2. CASE reads'[j] = Building!NoRead
          BY <2>1, <3>2, NoReadType
      <3>3. CASE reads'[j].pc = "first" /\ reads'[j].gen = app.gen
          BY <2>1, <3>3
      <3> QED
          BY <3>1, <3>2, <3>3
    <2> QED
        BY <2>2 DEF ReadsInv
  <1>4. WholeReads'
    <2>1. "bootstrap" \in Kinds
        BY DEF Kinds, Building!Kinds
    <2> QED
        BY <1>1, <2>1, NoReadType DEF WholeReads
  <1> QED
      BY <1>1, <1>2, <1>3, <1>4 DEF BuildInv, Building!AutoRebuildOnlyWhenEmpty

\* A reply that reaches the app.
LEMMA DeliverKeeps ==
    ASSUME Building!IndexAssumption, BuildInv, NEW k \in Kinds, Building!Deliver(k)
    PROVE  BuildInv'
  <1> DEFINE others == [reads EXCEPT ![k] = Building!NoRead]
             ignored == \/ Building!Outdated(k) \/ app.indexing
                        \/ k = "bootstrap" /\ app.status
             known == app.status \/ (k = "status" /\ ~Building!Outdated(k))
  <1>1. /\ BuildType /\ Alone /\ ReadsInv /\ app \in AppType /\ app.gen \in Nat
        /\ reads \in [Kinds -> ReadType] /\ db \in DbType /\ cmd \in Commands
        /\ watch \in WatchType /\ app.status \in BOOLEAN
      BY DEF BuildInv, BuildType, AppType
  <1>2. app.pc = "on" /\ reads[k].pc = "reply" /\ UNCHANGED <<fs, events>>
      BY DEF Building!Deliver, Building!World
  <1>3. /\ others \in [Kinds -> ReadType]
        /\ \A j \in Kinds : others[j] = reads[j] \/ others[j] = Building!NoRead
      BY <1>1, NoReadType
  <1>4. known \in BOOLEAN
      BY <1>1
  <1>5. ASSUME app' = [app EXCEPT !.status = known]
        PROVE  /\ app' \in AppType /\ app'.pc = "on" /\ app'.gen = app.gen
               /\ app'.indexing = app.indexing
    <2> HIDE DEF known
    <2> QED
        BY <1>1, <1>2, <1>4, <1>5 DEF AppType
  <1>6. \/ /\ ignored /\ reads' = others /\ app' = [app EXCEPT !.status = known]
           /\ UNCHANGED <<db, cmd, watch>>
        \/ /\ ~ignored /\ Building!Empty(k) /\ reads' = others
           /\ app' = [app EXCEPT !.gen = @ + 1, !.indexing = TRUE, !.attempted = TRUE,
                                 !.status = known]
           /\ watch' = Building!Down /\ Building!StartCommand(DefaultRequest, TRUE) /\ db' = db
        \/ /\ ~ignored /\ ~Building!Empty(k) /\ cmd' = cmd
           /\ IF reads[k].roots # {} THEN Building!StartWatcher(db) ELSE UNCHANGED <<watch, db>>
           /\ app' = [app EXCEPT !.status = known]
           /\ \/ reads' = Building!StartRead(others, "status", app.gen) \/ reads' = others
      BY DEF Building!Deliver
  <1>7. ~ignored => Current(k) /\ cmd.pc = "none"
      BY <1>1, <1>2 DEF Current, Building!Outdated, Alone
  <1> HIDE DEF others, known, ignored
  <1>8. CASE /\ ignored /\ reads' = others /\ app' = [app EXCEPT !.status = known]
             /\ UNCHANGED <<db, cmd, watch>>
    <2>1. watch'.up => db.roots # {} /\ ~app.indexing
        BY <1>1, <1>8 DEF Alone
    <2> QED
        BY <1>1, <1>2, <1>3, <1>5, <1>8, <2>1, ReplyKeeps
  <1>9. CASE /\ ~ignored /\ Building!Empty(k) /\ reads' = others
             /\ app' = [app EXCEPT !.gen = @ + 1, !.indexing = TRUE, !.attempted = TRUE,
                                   !.status = known]
             /\ watch' = Building!Down /\ Building!StartCommand(DefaultRequest, TRUE) /\ db' = db
    <2>1. /\ ~reads[k].has /\ reads[k].roots = {} /\ ~app.indexing
        BY <1>9 DEF Building!Empty
    <2>2. db.roots = {} /\ db.files = {}
        BY <1>1, <1>2, <1>7, <1>9, <2>1 DEF ReadsInv
    <2>3. cmd' \in Commands /\ cmd'.pc = "clear_files" /\ cmd'.auto = TRUE
        BY <1>9, RequestType, CommandStarted
    <2>4. /\ app' \in AppType /\ app'.pc = "on" /\ app'.gen = app.gen + 1
          /\ app'.indexing = TRUE
      <3> DEFINE a == Begun(app, app.gen + 1, TRUE)
      <3>1. a \in AppType /\ a.pc = "on" /\ a.gen = app.gen + 1 /\ a.indexing = TRUE
        <4>1. app.gen + 1 \in Nat /\ TRUE \in BOOLEAN
            BY <1>1
        <4> QED
            BY <1>1, <1>2, <4>1, Indexing
      <3>2. app' = [a EXCEPT !.status = known]
          BY <1>9 DEF Begun
      <3> HIDE DEF a
      <3> QED
          BY <1>4, <3>1, <3>2 DEF AppType
    <2>5. UNCHANGED <<fs, events, db>>
        BY <1>2, <1>9
    <2> QED
        BY <1>2, <1>3, <1>9, <2>1, <2>2, <2>3, <2>4, <2>5, RebuildKeeps
  <1>10. CASE /\ ~ignored /\ ~Building!Empty(k) /\ cmd' = cmd
              /\ IF reads[k].roots # {} THEN Building!StartWatcher(db) ELSE UNCHANGED <<watch, db>>
              /\ app' = [app EXCEPT !.status = known]
              /\ \/ reads' = Building!StartRead(others, "status", app.gen) \/ reads' = others
    <2>1. /\ watch' \in WatchType /\ db' \in DbType /\ db'.roots = db.roots
          /\ db.roots = {} \/ watch.up => watch' = watch /\ db' = db
          /\ watch'.up => watch.up \/ db.roots # {}
        BY <1>1, <1>10, WatcherStarted
    <2>2. ~app.indexing
        BY <1>7, <1>10 DEF Current
    <2>3. watch'.up => db.roots # {}
        BY <1>1, <2>1 DEF Alone
    <2>4. /\ reads' \in [Kinds -> ReadType]
          /\ \A j \in Kinds : \/ reads'[j] = reads[j] \/ reads'[j] = Building!NoRead
                              \/ reads'[j].pc = "first" /\ reads'[j].gen = app.gen
      <3>1. "status" \in Kinds
          BY DEF Kinds, Building!Kinds
      <3> QED
          BY <1>1, <1>3, <1>10, <3>1, ReadStarted
    <2> QED
        BY <1>2, <1>5, <1>7, <1>10, <2>1, <2>2, <2>3, <2>4, ReplyKeeps
  <1> QED
      BY <1>6, <1>8, <1>9, <1>10

\* The command's end is told to the app that waits for it.
LEMMA EndKeeps ==
    ASSUME Building!IndexAssumption, BuildInv, Building!CommandEnds PROVE BuildInv'
  <1>1. /\ BuildType /\ Alone /\ ReadsInv /\ WholeReads /\ app \in AppType /\ app.gen \in Nat
        /\ reads \in [Kinds -> ReadType] /\ \A j \in Kinds : reads[j].gen \in Nat
      BY DEF BuildInv, BuildType, AppType, ReadType
  <1>2. /\ cmd' = Building!Idle /\ UNCHANGED <<fs, events, db, watch>> /\ cmd.pc # "none"
      BY DEF Building!CommandEnds, Building!World
  <1>3. cmd' \in Commands /\ cmd'.pc = "none"
      BY <1>2, RequestType DEF Building!Idle, CmdType, Commands
  <1>4. "status" \in Kinds /\ "bootstrap" \in Kinds /\ "status" # "bootstrap"
      BY DEF Kinds, Building!Kinds
  <1>5. CASE app.indexing
    <2>1. app' = [app EXCEPT !.gen = @ + 1, !.indexing = FALSE]
        BY <1>5 DEF Building!CommandEnds
    <2>2. app' \in AppType /\ app'.gen = app.gen + 1 /\ app'.indexing = FALSE /\ app'.pc = app.pc
      <3>1. app.gen + 1 \in Nat
          BY <1>1
      <3> QED
          BY <1>1, <2>1, <3>1 DEF AppType
    <2>3. reads' = Building!StartRead(reads, "status", app.gen + 1) \/ reads' = reads
        BY <1>5 DEF Building!CommandEnds
    <2>4. /\ reads' \in [Kinds -> ReadType] /\ reads'["bootstrap"] = reads["bootstrap"]
          /\ \A j \in Kinds : \/ reads'[j] = reads[j]
                              \/ reads'[j].pc = "first" /\ reads'[j].gen = app.gen + 1
      <3> DEFINE g == app.gen + 1
      <3>1. g \in Nat
          BY <1>1
      <3> HIDE DEF g
      <3>2. ASSUME reads' = Building!StartRead(reads, "status", g)
            PROVE  /\ reads' \in [Kinds -> ReadType] /\ reads'["bootstrap"] = reads["bootstrap"]
                   /\ \A j \in Kinds : \/ reads'[j] = reads[j]
                                       \/ reads'[j].pc = "first" /\ reads'[j].gen = g
        <4>1. /\ Building!StartRead(reads, "status", g) \in [Kinds -> ReadType]
              /\ \A j \in Kinds \ {"status"} :
                    Building!StartRead(reads, "status", g)[j] = reads[j]
              /\ Building!StartRead(reads, "status", g)["status"].pc = "first"
              /\ Building!StartRead(reads, "status", g)["status"].gen = g
            BY <1>1, <1>4, <3>1, ReadStarted
        <4> QED
            BY <1>4, <3>2, <4>1
      <3>3. CASE reads' = reads
          BY <1>1, <3>3
      <3> QED
          BY <2>3, <3>2, <3>3 DEF g
    <2>5. BuildType' /\ Alone'
        BY <1>1, <1>2, <1>3, <1>5, <2>2, <2>4 DEF BuildType, Alone
    <2>6. ReadsInv'
      <3>1. \A j \in Kinds : reads[j].gen <= app.gen
          BY <1>1 DEF ReadsInv
      <3> QED
          BY <1>1, <2>2, <2>4, <3>1 DEF ReadsInv, Current
    <2>7. WholeReads'
        BY <1>1, <2>4 DEF WholeReads
    <2> QED
        BY <1>3, <2>5, <2>6, <2>7 DEF BuildInv, Building!AutoRebuildOnlyWhenEmpty
  <1>6. CASE ~app.indexing
    <2>1. UNCHANGED <<app, reads>> /\ app.pc = "off"
        BY <1>1, <1>2, <1>6 DEF Building!CommandEnds, Alone, AppType
    <2> QED
        BY <1>1, <1>2, <1>3, <2>1, QuietKeeps DEF BuildType
  <1> QED
      BY <1>5, <1>6

\* Every process ends.
LEMMA CrashKeeps ==
    ASSUME Building!IndexAssumption, BuildInv, Building!Crash PROVE BuildInv'
  <1>1. /\ cmd' = Building!Idle /\ app' = Building!Closed /\ watch' = Building!Down
        /\ reads' = [k \in Kinds |-> Building!NoRead] /\ UNCHANGED <<fs, events, db>>
      BY DEF Building!Crash, Building!World, Kinds
  <1>2. cmd' \in Commands /\ cmd'.pc = "none"
      BY <1>1, RequestType DEF Building!Idle, CmdType, Commands
  <1>3. /\ app' \in AppType /\ app'.pc = "off" /\ app'.indexing = FALSE /\ app'.gen = 0
        /\ watch' \in WatchType /\ watch'.up = FALSE
      BY <1>1 DEF Building!Closed, AppType, Building!Down, WatchType
  <1>4. /\ reads' \in [Kinds -> ReadType]
        /\ \A k \in Kinds : reads'[k].pc = "none" /\ reads'[k].gen = 0
      BY <1>1, NoReadType
  <1>5. BuildType' /\ Alone'
      BY <1>1, <1>2, <1>3, <1>4 DEF BuildInv, BuildType, Alone
  <1>6. ReadsInv'
      BY <1>3, <1>4 DEF ReadsInv
  <1>7. WholeReads'
    <2>1. "bootstrap" \in Kinds
        BY DEF Kinds, Building!Kinds
    <2> QED
        BY <1>4, <2>1 DEF WholeReads
  <1> QED
      BY <1>2, <1>5, <1>6, <1>7 DEF BuildInv, Building!AutoRebuildOnlyWhenEmpty

\* The watcher changes records only, of an index with roots, while no command runs.
LEMMA ReplayKeeps == ASSUME BuildInv, Building!Replay PROVE BuildInv'
  <1>1. /\ BuildType /\ Alone /\ ReadsInv /\ WholeReads /\ db \in DbType /\ watch \in WatchType
        /\ fs \subseteq Files /\ events \in Nat
      BY DEF BuildInv, BuildType
  <1>2. /\ watch.up /\ watch' = [watch EXCEPT !.pos = events]
        /\ UNCHANGED <<fs, events, cmd, app>>
      BY DEF Building!Replay, Building!World
  <1>3. db.roots # {} /\ ~app.indexing /\ cmd.pc = "none"
      BY <1>1, <1>2 DEF Alone, BuildType, AppType
  <1>4. watch' \in WatchType /\ watch'.up
      BY <1>1, <1>2 DEF WatchType
  <1>5. PICK f \in SUBSET Files :
           /\ db' = [db EXCEPT !.files = f, !.ckpt = events]
           /\ reads' = Building!Observe([db EXCEPT !.files = f, !.ckpt = events])
    <2> DEFINE hit == {g \in Building!Scope(watch.roots, watch.excl) : changed[g] > watch.pos}
               f == (db.files \ hit) \cup (fs \cap hit)
    <2>1. f \in SUBSET Files
        BY <1>1 DEF DbType
    <2>2. /\ db' = [db EXCEPT !.files = f, !.ckpt = events]
          /\ reads' = Building!Observe([db EXCEPT !.files = f, !.ckpt = events])
        BY DEF Building!Replay
    <2> HIDE DEF f
    <2> QED
        BY <2>1, <2>2
  <1>6. db' \in DbType /\ db'.roots = db.roots
    <2>1. [db EXCEPT !.files = f] \in DbType
        BY <1>1 DEF DbType
    <2> QED
        BY <1>1, <1>5, <2>1 DEF DbType
  <1>7. /\ reads' \in [Kinds -> ReadType]
        /\ \A k \in Kinds :
              /\ reads'[k].pc = reads[k].pc /\ reads'[k].gen = reads[k].gen
              /\ reads'[k].snap = reads[k].snap /\ reads'[k].has = reads[k].has
              /\ reads'[k].roots = reads[k].roots /\ reads[k].during \subseteq reads'[k].during
    <2>1. reads' = Building!Observe(db')
        BY <1>5
    <2> QED
        BY <1>1, <1>6, <2>1, Observed DEF BuildType
  <1>8. BuildType' /\ Alone'
      BY <1>1, <1>2, <1>3, <1>4, <1>6, <1>7 DEF BuildType, Alone
  <1>9. ReadsInv'
      BY <1>1, <1>2, <1>3, <1>6, <1>7 DEF ReadsInv, Current
  <1>10. WholeReads'
    <2>1. "bootstrap" \in Kinds
        BY DEF Kinds, Building!Kinds
    <2> QED
        BY <1>1, <1>7, <2>1 DEF WholeReads
  <1> QED
      BY <1>2, <1>3, <1>8, <1>9, <1>10 DEF BuildInv, Building!AutoRebuildOnlyWhenEmpty

\* The first state.
LEMMA BuildStarts ==
    ASSUME Building!IndexAssumption, Building!Init PROVE BuildInv
  <1>1. /\ cmd = Building!Idle /\ app = Building!Closed /\ watch = Building!Down
        /\ reads = [k \in Kinds |-> Building!NoRead] /\ fs \subseteq Files /\ events = 1
        /\ db \in [files : {{}}, roots : {{}}, excl : {{}}, ckpt : {0}]
      BY DEF Building!Init, Kinds
  <1>2. cmd \in Commands /\ cmd.pc = "none"
      BY <1>1, RequestType DEF Building!Idle, CmdType, Commands
  <1>3. /\ app \in AppType /\ app.pc = "off" /\ app.indexing = FALSE /\ app.gen = 0
        /\ watch \in WatchType /\ watch.up = FALSE /\ db \in DbType
      BY <1>1 DEF Building!Closed, AppType, Building!Down, WatchType, DbType
  <1>4. /\ reads \in [Kinds -> ReadType]
        /\ \A k \in Kinds : reads[k].pc = "none" /\ reads[k].gen = 0
      BY <1>1, NoReadType
  <1>5. BuildType /\ Alone
      BY <1>1, <1>2, <1>3, <1>4 DEF BuildType, Alone
  <1>6. ReadsInv
      BY <1>3, <1>4 DEF ReadsInv
  <1>7. WholeReads
    <2>1. "bootstrap" \in Kinds
        BY DEF Kinds, Building!Kinds
    <2> QED
        BY <1>4, <2>1 DEF WholeReads
  <1> QED
      BY <1>2, <1>5, <1>6, <1>7 DEF BuildInv, Building!AutoRebuildOnlyWhenEmpty

\* Every step keeps it.
LEMMA BuildStep ==
    ASSUME Building!IndexAssumption, BuildInv, [Building!Next]_Building!vars PROVE BuildInv'
  <1>1. CASE \E f \in Files : Building!Change(f)
      BY <1>1, WorldKeeps
  <1>2. CASE Building!Command
      BY <1>2, ClearKeeps, ConfigureKeeps, WorldKeeps, CommitKeeps, EndKeeps DEF Building!Command
  <1>3. CASE Building!FailScan
      BY <1>3, WorldKeeps
  <1>4. CASE Building!UserCommand
      BY <1>4, UserKeeps
  <1>5. CASE Building!Reply
      BY <1>5, FirstKeeps, SecondKeeps, DeliverKeeps DEF Building!Reply, Kinds
  <1>6. CASE Building!Launch
      BY <1>6, LaunchKeeps
  <1>7. CASE Building!ClickRebuild
      BY <1>7, ClickKeeps
  <1>8. CASE Building!ClickRefresh
      BY <1>8, LaunchKeeps
  <1>9. CASE Building!Crash
      BY <1>9, CrashKeeps
  <1>10. CASE Building!Replay
      BY <1>10, ReplayKeeps
  <1>11. CASE UNCHANGED Building!vars
    <2>1. UNCHANGED <<fs, events, db, cmd, app, reads, watch>>
        BY <1>11 DEF Building!vars
    <2> QED
        BY <2>1 DEF BuildInv, BuildType, Alone, ReadsInv, Current, WholeReads,
                    Building!AutoRebuildOnlyWhenEmpty
  <1> QED
      BY <1>1, <1>2, <1>3, <1>4, <1>5, <1>6, <1>7, <1>8, <1>9, <1>10, <1>11 DEF Building!Next

\* What the invariant says of the properties.
LEMMA BuildInvSafe == ASSUME BuildInv PROVE Building!RebuildJustified
  BY DEF BuildInv, WholeReads, Building!RebuildJustified, Building!ReplyWhole

\* The app rebuilds on its own accord only an index that has neither records nor
\* roots, and a bootstrap reply is one the database really held: whatever the order
\* of replies, statements, crashes, clicks and the watcher's transactions.
THEOREM Rebuilds ==
    ASSUME Building!IndexAssumption PROVE Building!Spec => []Building!RebuildJustified
  <1>1. Building!Init => BuildInv
      BY BuildStarts
  <1>2. BuildInv /\ [Building!Next]_Building!vars => BuildInv'
      BY BuildStep
  <1>3. BuildInv => Building!RebuildJustified
      BY BuildInvSafe
  <1> QED
      BY <1>1, <1>2, <1>3, PTL DEF Building!Spec

-----------------------------------------------------------------------------
(* The directories that FSEvents keeps quiet about.                        *)

\* A pattern that occurs in a path occurs in every path below it.
LEMMA ExcludedBelow ==
    ASSUME NEW S, NEW p \in Seq(Names), NEW q \in Seq(Names), S \subseteq Seq(Names) \ {<<>>},
           Upstream!Under(q, p), Upstream!is_excluded(S, p)
    PROVE  Upstream!is_excluded(S, q)
  <1>1. /\ Len(p) <= Len(q) /\ Len(p) \in Nat /\ Len(q) \in Nat
        /\ \A i \in 1 .. Len(p) : p[i] = q[i]
    <2>1. Len(p) <= Len(q) /\ SubSeq(p, 1, Len(p)) = SubSeq(q, 1, Len(p))
        BY DEF Upstream!Under, Upstream!IsPrefix
    <2>2. ASSUME NEW i \in 1 .. Len(p)
          PROVE  p[i] = q[i]
      <3>1. Len(p) \in Nat /\ Len(q) \in Nat
          OBVIOUS
      <3>2. SubSeq(p, 1, Len(p))[i] = p[i] /\ SubSeq(q, 1, Len(p))[i] = q[i]
          BY <2>1, <3>1
      <3> QED
          BY <2>1, <3>2
    <2> QED
        BY <2>1, <2>2
  <1>i. PICK i \in DOMAIN p : \E s \in Upstream!SuffixesOf(S, p[i]) :
          i + Len(s) <= Len(p) /\ SubSeq(p, i + 1, i + Len(s)) = s
      BY DEF Upstream!is_excluded
  <1>2. PICK s \in Upstream!SuffixesOf(S, p[i]) :
          i + Len(s) <= Len(p) /\ SubSeq(p, i + 1, i + Len(s)) = s
      BY <1>i
  <1>3. s \in Seq(Names)
    <2>1. PICK w \in Seq(Names) \ {<<>>} : s = Tail(w)
        BY DEF Upstream!SuffixesOf
    <2> QED
        BY <2>1
  <1>4. i \in 1 .. Len(p) /\ i \in DOMAIN q /\ q[i] = p[i] /\ Len(s) \in Nat
      BY <1>1, <1>3
  <1>5. i + Len(s) <= Len(q) /\ SubSeq(q, i + 1, i + Len(s)) = SubSeq(p, i + 1, i + Len(s))
    <2>1. i \in Nat /\ i + Len(s) <= Len(p)
        BY <1>2, <1>4, <1>1
    <2>2. \A j \in (i + 1) .. (i + Len(s)) : p[j] = q[j]
        BY <1>1, <1>4, <2>1
    <2>3. ASSUME NEW a \in Nat, NEW b \in Nat, b <= Len(p), a >= 1,
                 \A j \in a .. b : p[j] = q[j]
          PROVE  SubSeq(q, a, b) = SubSeq(p, a, b)
      <3> DEFINE u == SubSeq(q, a, b)
                 v == SubSeq(p, a, b)
      <3>1. /\ u \in Seq(Names) /\ v \in Seq(Names)
            /\ Len(u) = IF a <= b THEN b - a + 1 ELSE 0
            /\ Len(v) = IF a <= b THEN b - a + 1 ELSE 0
          BY <2>3, <1>1
      <3>2. ASSUME NEW j \in 1 .. Len(u)
            PROVE  u[j] = v[j]
        <4>1. /\ u[j] = q[a + j - 1] /\ v[j] = p[a + j - 1]
              /\ a + j - 1 \in a .. b
            BY <2>3, <3>1, <1>1
        <4> QED
            BY <2>3, <4>1
      <3> HIDE DEF u, v
      <3>3. Len(u) = Len(v)
          BY <3>1
      <3>4. u = v
          BY <3>1, <3>2, <3>3, SeqEqual
      <3> QED
          BY <3>4 DEF u, v
    <2>4. /\ i + 1 \in Nat /\ i + Len(s) \in Nat /\ i + 1 >= 1
          /\ i + Len(s) <= Len(p) /\ i + Len(s) <= Len(q)
        BY <1>1, <1>4, <2>1
    <2>5. SubSeq(q, i + 1, i + Len(s)) = SubSeq(p, i + 1, i + Len(s))
        BY <2>2, <2>3, <2>4
    <2> QED
        BY <2>4, <2>5
  <1>6. s \in Upstream!SuffixesOf(S, q[i])
      BY <1>2, <1>4
  <1> QED
      BY <1>2, <1>4, <1>5, <1>6 DEF Upstream!is_excluded

PathsType ==
    /\ roots \in RootSets /\ excludes \subseteq UserPatterns
    /\ rest \in Seq(Seq(Names)) /\ selected \in Seq(Seq(Names))

\* Every selected directory is excluded, is no alias and has no root at it or below it.
PathsInv ==
    /\ PathsType
    /\ \A i \in 1 .. Len(selected) :
          /\ Upstream!is_excluded(Upstream!RuntimeExcludes, selected[i])
          /\ Upstream!canonicalize(selected[i]) = selected[i]
          /\ \A r \in roots : ~Upstream!Under(r, selected[i])
    /\ Len(selected) <= Limit

\* Rounding down stays below the number of times the divisor fits.
LEMMA QuotientBelow ==
    ASSUME NEW a \in Nat, NEW b \in Nat, NEW m \in Nat, a < b * m, b > 0
    PROVE  a \div b \in 0 .. m - 1
  <1>1. a \div b \in Nat
      BY SMTT(30)
  <1>2. a \div b < m
      BY SMTT(30)
  <1> QED
      BY <1>1, <1>2

\* The candidates are paths.
LEMMA CandidatesArePaths ==
    ASSUME Upstream!ExclusionsAssumption, roots \in RootSets
    PROVE  Upstream!Candidates \in Seq(Seq(Names))
  <1> DEFINE order == Upstream!SetToSeq(roots)
             size == Upstream!Cardinality(roots)
             m == Len(Relatives)
             one == [k \in 1 .. size * m |->
                        order[((k - 1) % size) + 1] \o Relatives[((k - 1) \div size) + 1]]
  <1>1. /\ IsFiniteSet(roots) /\ roots \subseteq Seq(Names)
        /\ Relatives \in Seq(Seq(Names)) /\ m \in Nat /\ DbDir \in Seq(Names)
    <2>1. IsFiniteSet(roots) = Upstream!IsFiniteSet(roots)
        BY DEF IsFiniteSet, Upstream!IsFiniteSet
    <2> QED
        BY <2>1 DEF Upstream!ExclusionsAssumption
  <1>2. size = Cardinality(roots) /\ size \in Nat
    <2>1. size = Cardinality(roots)
        BY DEF Upstream!Cardinality, Cardinality, IsFiniteSet, Upstream!IsFiniteSet
    <2> QED
        BY <1>1, <2>1, FS_CardinalityType
  <1>3. order \in [1 .. size -> roots]
    <2>1. \E f \in [1 .. size -> roots] : Upstream!IsInjective(f)
      <3>1. ExistsBijection(1 .. Cardinality(roots), roots)
          BY <1>1, FS_CardinalityType
      <3>2. PICK f \in Bijection(1 .. Cardinality(roots), roots) : TRUE
          BY <3>1 DEF ExistsBijection
      <3>3. f \in [1 .. size -> roots]
            /\ \A a, b \in 1 .. size : f[a] = f[b] => a = b
          BY <3>2, <1>2 DEF Bijection, Injection, IsInjective
      <3>4. DOMAIN f = 1 .. size
          BY <3>3
      <3>5. Upstream!IsInjective(f)
          BY <3>3, <3>4 DEF Upstream!IsInjective
      <3> QED
          BY <3>3, <3>5
    <2> QED
        BY <2>1 DEF Upstream!SetToSeq
  <1>4. ASSUME NEW k \in 1 .. size * m
        PROVE  order[((k - 1) % size) + 1] \o Relatives[((k - 1) \div size) + 1] \in Seq(Names)
    <2>1. size * m \in Nat /\ k \in Nat /\ 1 <= k /\ k <= size * m /\ size > 0
      <3>1. size = 0 => size * m = 0
          BY <1>1, <1>2
      <3> QED
          BY <1>1, <1>2, <3>1
    <2>2. (k - 1) % size \in 0 .. size - 1
        BY <1>2, <2>1
    <2>3. k - 1 \in Nat /\ k - 1 < size * m
        BY <2>1
    <2>4. (k - 1) \div size \in 0 .. m - 1
        BY <1>1, <1>2, <2>1, <2>3, QuotientBelow
    <2>5. ((k - 1) \div size) + 1 \in 1 .. m
        BY <2>4, <1>1
    <2>6. order[((k - 1) % size) + 1] \in Seq(Names)
        BY <2>2, <1>1, <1>2, <1>3
    <2>7. Relatives[((k - 1) \div size) + 1] \in Seq(Names)
        BY <2>5, <1>1
    <2> QED
        BY <2>6, <2>7
  <1>5. one \in Seq(Seq(Names))
    <2>1. size * m \in Nat
        BY <1>1, <1>2
    <2>2. ASSUME NEW N \in Nat, NEW f, f \in [1 .. N -> Seq(Names)]
          PROVE  f \in Seq(Seq(Names))
        BY <2>2
    <2>3. one \in [1 .. size * m -> Seq(Names)]
        BY <1>4
    <2> QED
        BY <2>1, <2>2, <2>3
  <1>6. Upstream!Candidates = <<DbDir>> \o one
      BY DEF Upstream!Candidates
  <1> HIDE DEF one
  <1>7. <<DbDir>> \in Seq(Seq(Names))
      BY <1>1
  <1> QED
      BY <1>5, <1>6, <1>7

\* The invariant holds before the first candidate.
LEMMA PathsStart ==
    ASSUME Upstream!ExclusionsAssumption, Upstream!Init PROVE PathsInv
  <1>1. rest \in Seq(Seq(Names)) /\ selected = <<>> /\ Len(selected) = 0
      BY CandidatesArePaths DEF Upstream!Init
  <1>2. Limit \in Nat
      BY DEF Upstream!ExclusionsAssumption
  <1> QED
      BY <1>1, <1>2 DEF Upstream!Init, PathsInv, PathsType

\* And one turn of the loop keeps it.
LEMMA PathsStep ==
    ASSUME Upstream!ExclusionsAssumption, PathsInv, [Upstream!Consider]_(Upstream!vars)
    PROVE  PathsInv'
  <1>1. CASE UNCHANGED Upstream!vars
      BY <1>1 DEF Upstream!vars, PathsInv, PathsType, Upstream!is_excluded, Upstream!SuffixesOf,
              Upstream!RuntimeExcludes, Upstream!canonicalize, Upstream!Under
  <1>2. CASE Upstream!Consider
    <2>1. /\ rest # <<>> /\ Len(selected) < Limit /\ rest' = Tail(rest)
          /\ UNCHANGED <<roots, excludes, link>>
        BY <1>2 DEF Upstream!Consider
    <2>2. PathsType /\ Head(rest) \in Seq(Names) /\ rest' \in Seq(Seq(Names))
          /\ Len(selected) \in Nat /\ Limit \in Nat
        BY <2>1 DEF PathsInv, PathsType, Upstream!ExclusionsAssumption
    <2>3. selected' \in Seq(Seq(Names)) /\ Len(selected') <= Limit
        BY <1>2, <2>1, <2>2 DEF Upstream!Consider, PathsType
    <2>4. ASSUME NEW i \in 1 .. Len(selected')
          PROVE  /\ Upstream!is_excluded(Upstream!RuntimeExcludes, selected'[i])
                 /\ Upstream!canonicalize(selected'[i]) = selected'[i]
                 /\ \A r \in roots : ~Upstream!Under(r, selected'[i])
      <3>1. CASE i \in 1 .. Len(selected) /\ selected'[i] = selected[i]
          BY <3>1 DEF PathsInv
      <3>2. CASE Upstream!Eligible(Head(rest)) /\ selected'[i] = Head(rest)
          BY <3>2 DEF Upstream!Eligible
      <3>3. \/ i \in 1 .. Len(selected) /\ selected'[i] = selected[i]
            \/ Upstream!Eligible(Head(rest)) /\ selected'[i] = Head(rest)
        <4>1. CASE ~Upstream!Eligible(Head(rest))
            BY <4>1, <1>2 DEF Upstream!Consider
        <4>2. CASE Upstream!Eligible(Head(rest))
          <5>1. selected' = Append(selected, Head(rest))
              BY <4>2, <1>2 DEF Upstream!Consider
          <5> QED
              BY <4>2, <5>1, <2>2 DEF PathsType
        <4> QED
            BY <4>1, <4>2
      <3> QED
          BY <3>1, <3>2, <3>3
    <2>5. ASSUME NEW i \in 1 .. Len(selected')
          PROVE  /\ Upstream!is_excluded(Upstream!RuntimeExcludes, selected[i])'
                 /\ (Upstream!canonicalize(selected[i]) = selected[i])'
                 /\ (\A r \in roots : ~Upstream!Under(r, selected[i]))'
        BY <2>1, <2>4 DEF Upstream!is_excluded, Upstream!SuffixesOf, Upstream!RuntimeExcludes,
                     Upstream!canonicalize, Upstream!Under
    <2> QED
        BY <2>1, <2>2, <2>3, <2>5 DEF PathsInv, PathsType
  <1> QED
      BY <1>1, <1>2

\* Nothing that is reported falls silent, and the matcher is closed downwards.
LEMMA PathsInvSafe ==
    ASSUME Upstream!ExclusionsAssumption, PathsInv
    PROVE  Upstream!UpstreamExact /\ Upstream!MatcherClosed
  <1> DEFINE S == Upstream!RuntimeExcludes
  <1>1. S \subseteq Seq(Names) \ {<<>>}
      BY DEF Upstream!RuntimeExcludes, Upstream!ExclusionsAssumption, PathsInv, PathsType
  <1>2. Upstream!AllPaths \subseteq Seq(Names)
      BY DEF Upstream!AllPaths, Upstream!ExclusionsAssumption
  <1>3. ASSUME NEW q, Upstream!Quiet(q)
        PROVE  \E s \in Seq(Names) : /\ Upstream!Under(q, s) /\ Upstream!is_excluded(S, s)
                                     /\ \A r \in roots : ~Upstream!Under(r, s)
    <2>1. PICK s \in Upstream!ToSet(selected) : Upstream!Under(q, Upstream!canonicalize(s))
        BY <1>3 DEF Upstream!Quiet
    <2>2. PICK i \in 1 .. Len(selected) : s = selected[i]
        BY <2>1 DEF Upstream!ToSet, PathsInv, PathsType
    <2> QED
        BY <2>1, <2>2 DEF PathsInv, PathsType
  <1>4. ASSUME NEW q \in Upstream!Reported, Upstream!Quiet(q)
        PROVE  Upstream!is_excluded(S, q)
    <2>1. q \in Seq(Names)
        BY <1>2 DEF Upstream!Reported
    <2> QED
        BY <1>1, <1>3, <1>4, <2>1, ExcludedBelow
  <1>5. \A r \in roots : ~Upstream!Quiet(r)
      BY <1>3
  <1>6. ASSUME NEW p \in Upstream!AllPaths, NEW x \in Names, Upstream!is_excluded(S, p)
        PROVE  Upstream!is_excluded(S, Append(p, x))
    <2>1. p \in Seq(Names) /\ Append(p, x) \in Seq(Names)
        BY <1>2
    <2>2. Upstream!Under(Append(p, x), p)
        BY <2>1 DEF Upstream!Under, Upstream!IsPrefix
    <2> QED
        BY <1>1, <1>6, <2>1, <2>2, ExcludedBelow
  <1> QED
      BY <1>4, <1>5, <1>6 DEF Upstream!UpstreamExact, Upstream!MatcherClosed, PathsInv

\* Whatever links, missing directories, patterns and nested roots there are: an event
\* that never arrives is one the callback would have rejected, no root is at or below
\* a quiet directory, and what is below an excluded path is excluded.
THEOREM Excludes ==
    ASSUME Upstream!ExclusionsAssumption
    PROVE  Upstream!Spec => [](Upstream!UpstreamExact /\ Upstream!MatcherClosed)
  <1>1. Upstream!Init => PathsInv
      BY PathsStart
  <1>2. PathsInv /\ [Upstream!Consider]_(Upstream!vars) => PathsInv'
      BY PathsStep
  <1>3. PathsInv => Upstream!UpstreamExact /\ Upstream!MatcherClosed
      BY PathsInvSafe
  <1> QED
      BY <1>1, <1>2, <1>3, PTL DEF Upstream!Spec

-----------------------------------------------------------------------------
(* The sweep of a scan's unseen rows.                                      *)

Table ==
    [Universe -> [id : Int, val : {"none", "v1", "v2"}, gen : Nat]]

ScanType ==
    [pc : {"idle", "gone", "walk", "select", "delete", "stale", "done"},
     roots : Seq(Universe), exact : BOOLEAN, gen : Nat, todo : SUBSET Universe,
     warned : BOOLEAN, seen : SUBSET Int, pages : SUBSET Int, exceeded : BOOLEAN,
     root : Nat, cursor : Seq(Nat), first : BOOLEAN, stale : SUBSET Universe, more : BOOLEAN]

SweepType ==
    /\ disk \in [Universe -> {"none", "v1", "v2"}] /\ Sweep!Coherent(disk)
    /\ files \in Table /\ last \in Nat /\ scan \in ScanType
    /\ scan.pc # "idle" => scan.roots # <<>> /\ scan.gen = last
    /\ scan.pc \in {"select", "delete", "stale"} => scan.root \in 1 .. Len(scan.roots)

\* Every row has an id of its own and was stamped by a scan that has begun.
Sound(t, g) ==
    /\ \A p, q \in Universe : p # q /\ t[p] # Sweep!NoRow /\ t[q] # Sweep!NoRow => t[p].id # t[q].id
    /\ \A p \in Universe : t[p].gen <= g /\ (t[p] # Sweep!NoRow => t[p].val # "none")

\* The range of the roots, what a walk of them finds, and what it has found.
Ranged(p, i) == Sweep!InRange(p, Sweep!Trim(scan.roots[i]))
InScope(p) == \E i \in 1 .. Len(scan.roots) : Ranged(p, i)
Found(p) == p \in Sweep!Walk(scan.roots) /\ disk[p] # "none"
Met(p) == Found(p) /\ p \notin scan.todo

\* A row the walk wrote or found as it was.
Written(p) ==
    /\ files[p].val = disk[p] /\ (~scan.exact => files[p].gen = scan.gen)
    /\ scan.exact /\ ~scan.exceeded => files[p].id \in scan.seen

\* What the scan has done to the table so far.
Progress ==
    /\ old.files \in Table /\ Sound(old.files, last - 1)
    /\ \A p \in Universe : ~InScope(p) => files[p] = old.files[p]
    /\ \A p \in Universe : files[p] # Sweep!NoRow /\ old.files[p] # Sweep!NoRow =>
          /\ files[p].id = old.files[p].id
          /\ scan.exact /\ old.files[p].val = disk[p] => files[p] = old.files[p]
    /\ \A p \in Universe : ~Found(p) => files[p] \in {Sweep!NoRow, old.files[p]}

\* While the walk goes on, what it has not reached is as it was.
Walking ==
    /\ scan.root = 1 /\ scan.first /\ (scan.exceeded => scan.exact)
    /\ \A p \in Universe : ~Met(p) => files[p] = old.files[p]
    /\ \A p \in scan.todo : Found(p)
    /\ \A p \in Universe : Met(p) =>
          Written(p) \/ (scan.warned /\ files[p] = old.files[p])
    /\ \A i \in scan.seen : \E p \in Universe :
          Met(p) /\ files[p] # Sweep!NoRow /\ files[p].id = i

\* After a complete walk every file has its row, and the bitmap has only their ids.
Complete ==
    /\ ~scan.warned /\ scan.todo = {} /\ ~(scan.exact /\ scan.exceeded)
    /\ \A p \in Universe : Met(p) => Written(p)
    /\ \A i \in scan.seen : \E p \in Universe :
          Met(p) /\ files[p] # Sweep!NoRow /\ files[p].id = i

\* A row that the cleanup need not look at again.
Cleaned(p) == files[p] = Sweep!NoRow \/ files[p].id \in scan.seen

\* The pages before the cursor are clean.
Swept ==
    /\ \A i \in 1 .. scan.root - 1 : \A p \in Universe : Ranged(p, i) => Cleaned(p)
    /\ scan.pc = "select" =>
          IF scan.first THEN scan.cursor = Sweep!Trim(scan.roots[scan.root])
          ELSE \A p \in Universe :
                  Ranged(p, scan.root) /\ ~Sweep!LexLess(scan.cursor, p) => Cleaned(p)
    /\ scan.pc = "delete" =>
          /\ \A p \in scan.stale : Ranged(p, scan.root) /\ files[p].id \notin scan.seen
          /\ \A p \in Universe :
                Ranged(p, scan.root) /\ (scan.more => ~Sweep!LexLess(scan.cursor, p))
                  => Cleaned(p) \/ p \in scan.stale

\* The ranges before the running one hold no row of an earlier generation.
Renewed ==
    \A i \in 1 .. scan.root - 1 : \A p \in Universe :
        Ranged(p, i) => files[p] = Sweep!NoRow \/ files[p].gen = scan.gen

SweepInv ==
    /\ SweepType /\ Sound(files, last)
    /\ scan.pc # "idle" => Progress
    /\ scan.pc = "gone" => Len(scan.roots) = 1 /\ Sweep!Gone(scan.roots) /\ files = old.files
    /\ scan.pc = "walk" => Walking
    /\ scan.pc \in {"select", "delete"} => scan.exact /\ Complete /\ Swept
    /\ scan.pc = "stale" => ~scan.exact /\ Complete /\ Renewed
    /\ scan.pc = "done" => Sweep!SweepExact

\* A set of natural numbers that is not empty has a least element.
LEMMA LeastNumber ==
    ASSUME NEW T \in SUBSET Nat, T # {}
    PROVE  \E x \in T : \A y \in T : x <= y
  <1> DEFINE R == {ss \in Nat \X Nat : ss[1] < ss[2]}
  <1>1. IsWellFoundedOn(R, Nat)
      BY NatLessThanWellFounded DEF OpToRel
  <1> HIDE DEF R
  <1>2. PICK x \in T : \A y \in T : ~(<<y, x>> \in R)
      BY <1>1, WFMin
  <1>3. ASSUME NEW y \in T PROVE x <= y
    <2>1. <<y, x>> \notin R
        BY <1>2
    <2>2. <<y, x>> \in Nat \X Nat /\ <<y, x>>[1] = y /\ <<y, x>>[2] = x
        OBVIOUS
    <2>3. ~(y < x)
        BY <2>1, <2>2 DEF R
    <2> QED
        BY <2>3
  <1> QED
      BY <1>3

\* Min is the least element of such a set.
LEMMA MinIsLeast ==
    ASSUME NEW T \in SUBSET Nat, T # {}
    PROVE  Sweep!Min(T) \in T /\ \A y \in T : Sweep!Min(T) <= y
  BY LeastNumber DEF Sweep!Min

\* A finite set of numbers that is not empty has a greatest element: the one that the
\* fewest exceed.
LEMMA MaxIsGreatest ==
    ASSUME NEW S \in SUBSET Int, IsFiniteSet(S), S # {}
    PROVE  Sweep!Max(S) \in S /\ \A y \in S : y <= Sweep!Max(S)
  <1> DEFINE above(x) == {y \in S : x < y}
             T == {Cardinality(above(x)) : x \in S}
  <1>1. \A x \in S : IsFiniteSet(above(x)) /\ Cardinality(above(x)) \in Nat
    <2>1. \A x \in S : above(x) \in SUBSET S
        OBVIOUS
    <2> QED
        BY <2>1, FS_Subset, FS_CardinalityType
  <1>2. PICK x \in S : \A y \in S : Cardinality(above(x)) <= Cardinality(above(y))
    <2>1. T \in SUBSET Nat /\ T # {}
        BY <1>1
    <2>2. PICK c \in T : \A d \in T : c <= d
        BY <2>1, LeastNumber
    <2> QED
        BY <2>2
  <1>3. ASSUME NEW y \in S PROVE y <= x
    <2>1. SUFFICES ASSUME x < y PROVE FALSE
        OBVIOUS
    <2>2. above(y) \in SUBSET above(x) /\ y \in above(x) /\ y \notin above(y)
      <3>1. x \in Int /\ y \in Int /\ ~(y < y)
          OBVIOUS
      <3>2. \A z \in S : y < z => x < z
          BY <2>1, <3>1
      <3> QED
          BY <2>1, <3>1, <3>2
    <2>3. Cardinality(above(y)) = Cardinality(above(x))
      <3>1. Cardinality(above(y)) <= Cardinality(above(x))
          BY <1>1, <2>2, FS_Subset
      <3> QED
          BY <1>1, <1>2, <3>1
    <2>4. above(y) = above(x)
        BY <1>1, <2>2, <2>3, FS_Subset
    <2> QED
        BY <2>2, <2>4
  <1>4. \E z \in S : \A y \in S : z >= y
      BY <1>3
  <1> QED
      BY <1>4 DEF Sweep!Max

-----------------------------------------------------------------------------
(* The order of paths and the range of a root.                             *)

\* LexLess without the bound on the first place that differs.
LEMMA LessAt ==
    ASSUME NEW s \in Seq(Nat), NEW t \in Seq(Nat)
    PROVE  Sweep!LexLess(s, t) <=>
             \E k \in Nat : /\ k <= Len(s) /\ k < Len(t) /\ \A i \in 1 .. k : s[i] = t[i]
                            /\ k = Len(s) \/ s[k + 1] < t[k + 1]
  <1> DEFINE m == Sweep!Min({Len(s), Len(t)})
  <1>1. /\ m \in {Len(s), Len(t)} /\ m <= Len(s) /\ m <= Len(t)
        /\ Len(s) \in Nat /\ Len(t) \in Nat
    <2>1. {Len(s), Len(t)} \in SUBSET Nat /\ {Len(s), Len(t)} # {}
        OBVIOUS
    <2> QED
        BY <2>1, MinIsLeast
  <1>2. \A k \in Nat : k <= Len(s) /\ k < Len(t) => k \in 0 .. m
      BY <1>1
  <1> HIDE DEF m
  <1>3. 0 .. m \subseteq Nat /\ \A k \in 0 .. m : k <= Len(s)
      BY <1>1
  <1> QED
      BY <1>2, <1>3 DEF Sweep!LexLess, m

\* Of two paths at most one is before the other.
LEMMA LessAsymmetric ==
    ASSUME NEW s \in Seq(Nat), NEW t \in Seq(Nat), Sweep!LexLess(s, t), Sweep!LexLess(t, s)
    PROVE  FALSE
  <1>1. PICK k \in Nat : /\ k <= Len(s) /\ k < Len(t) /\ \A i \in 1 .. k : s[i] = t[i]
                         /\ k = Len(s) \/ s[k + 1] < t[k + 1]
      BY LessAt
  <1>2. PICK j \in Nat : /\ j <= Len(t) /\ j < Len(s) /\ \A i \in 1 .. j : t[i] = s[i]
                         /\ j = Len(t) \/ t[j + 1] < s[j + 1]
      BY LessAt
  <1>3. /\ Len(s) \in Nat /\ Len(t) \in Nat
        /\ \A i \in 1 .. Len(s) : s[i] \in Nat
        /\ \A i \in 1 .. Len(t) : t[i] \in Nat
      OBVIOUS
  <1>4. CASE k < j
    <2>1. k + 1 \in 1 .. j /\ k # Len(s)
        BY <1>2, <1>3, <1>4
    <2> QED
        BY <1>1, <1>2, <1>3, <2>1
  <1>5. CASE j < k
    <2>1. j + 1 \in 1 .. k /\ j # Len(t)
        BY <1>1, <1>3, <1>5
    <2> QED
        BY <1>1, <1>2, <1>3, <2>1
  <1>6. CASE j = k
    <2>1. k + 1 \in 1 .. Len(s) /\ k + 1 \in 1 .. Len(t)
        BY <1>1, <1>2, <1>3, <1>6
    <2> QED
        BY <1>1, <1>2, <1>3, <1>6, <2>1
  <1> QED
      BY <1>4, <1>5, <1>6

\* A prefix byte by byte.
LEMMA PrefixAt ==
    ASSUME NEW s \in Seq(Nat), NEW t \in Seq(Nat)
    PROVE  Sweep!IsPrefix(s, t) <=> Len(s) <= Len(t) /\ \A i \in 1 .. Len(s) : s[i] = t[i]
  <1> SUFFICES ASSUME Len(s) <= Len(t)
               PROVE  SubSeq(s, 1, Len(s)) = SubSeq(t, 1, Len(s))
                        <=> \A i \in 1 .. Len(s) : s[i] = t[i]
      BY DEF Sweep!IsPrefix
  <1>1. /\ SubSeq(s, 1, Len(s)) \in Seq(Nat) /\ SubSeq(t, 1, Len(s)) \in Seq(Nat)
        /\ Len(SubSeq(s, 1, Len(s))) = Len(s) /\ Len(SubSeq(t, 1, Len(s))) = Len(s)
        /\ \A i \in 1 .. Len(s) : SubSeq(s, 1, Len(s))[i] = s[i] /\ SubSeq(t, 1, Len(s))[i] = t[i]
      OBVIOUS
  <1> DEFINE u == SubSeq(s, 1, Len(s))
             v == SubSeq(t, 1, Len(s))
  <1> HIDE DEF u, v
  <1>2. /\ u \in Seq(Nat) /\ v \in Seq(Nat) /\ Len(u) = Len(v) /\ Len(u) = Len(s)
        /\ \A i \in 1 .. Len(s) : u[i] = s[i] /\ v[i] = t[i]
      BY <1>1 DEF u, v
  <1>3. (\A i \in 1 .. Len(s) : s[i] = t[i]) => u = v
      BY <1>2, SeqEqual
  <1>4. u = v => \A i \in 1 .. Len(s) : s[i] = t[i]
      BY <1>2
  <1> QED
      BY <1>3, <1>4 DEF u, v

\* A path is never before one of its prefixes.
LEMMA PrefixFirst ==
    ASSUME NEW s \in Seq(Nat), NEW t \in Seq(Nat), Sweep!IsPrefix(s, t)
    PROVE  Sweep!AtLeast(t, s)
  <1>1. Len(s) <= Len(t) /\ \A i \in 1 .. Len(s) : s[i] = t[i]
      BY PrefixAt
  <1>2. CASE Len(s) < Len(t)
    <2>1. Sweep!LexLess(s, t)
        BY <1>1, <1>2, LessAt
    <2> QED
        BY <2>1 DEF Sweep!AtLeast
  <1>3. CASE Len(s) = Len(t)
    <2>1. s = t
        BY <1>1, <1>3, SeqEqual
    <2> QED
        BY <2>1 DEF Sweep!AtLeast
  <1> QED
      BY <1>1, <1>2, <1>3

\* The bounds of a root: the root and a slash, and its last byte raised.
LEMMA Bounds ==
    ASSUME NEW r \in Seq(Nat), r # <<>>
    PROVE  LET l == Sweep!Lower(r)
               u == Sweep!Upper(r)
           IN  /\ l \in Seq(Nat) /\ u \in Seq(Nat) /\ Len(l) \in Nat /\ Len(l) >= 1
               /\ Len(u) = Len(l) /\ l[Len(l)] = 47 /\ u[Len(l)] = 48
               /\ \A i \in 1 .. Len(l) - 1 : u[i] = l[i]
               /\ Len(r) <= Len(l) /\ \A i \in 1 .. Len(r) : l[i] = r[i]
               /\ Len(r) = Len(l) => r = <<47>>
               /\ Len(r) # Len(l) => Len(l) = Len(r) + 1
  <1> DEFINE l == Sweep!Lower(r)
             u == Sweep!Upper(r)
  <1>1. /\ l \in Seq(Nat) /\ Len(l) \in Nat /\ Len(l) >= 1 /\ l[Len(l)] = 47
        /\ Len(r) <= Len(l) /\ \A i \in 1 .. Len(r) : l[i] = r[i]
        /\ Len(r) = Len(l) => r = <<47>>
        /\ Len(r) # Len(l) => Len(l) = Len(r) + 1
    <2>1. CASE r = <<47>>
        BY <2>1 DEF Sweep!Lower
    <2>2. CASE r # <<47>>
      <3>1. l = Append(r, 47)
          BY <2>2 DEF Sweep!Lower
      <3> HIDE DEF l
      <3> QED
          BY <3>1
    <2> QED
        BY <2>1, <2>2
  <1>2. u = [l EXCEPT ![Len(l)] = 48]
      BY DEF Sweep!Upper
  <1> HIDE DEF l, u
  <1>3. /\ u \in Seq(Nat) /\ Len(u) = Len(l) /\ u[Len(l)] = 48
        /\ \A i \in 1 .. Len(l) - 1 : u[i] = l[i]
      BY <1>1, <1>2
  <1> QED
      BY <1>1, <1>3 DEF l, u

\* What lies between the bounds of a root is what is below it.
LEMMA RangeIsBelow ==
    ASSUME NEW r \in Seq(Nat), r # <<>>, NEW p \in Seq(Nat)
    PROVE  Sweep!InRange(p, r) <=> p = r \/ Sweep!IsPrefix(Sweep!Lower(r), p)
  <1> DEFINE l == Sweep!Lower(r)
             u == Sweep!Upper(r)
             m == Len(l)
  <1>1. /\ l \in Seq(Nat) /\ u \in Seq(Nat) /\ m \in Nat /\ m >= 1
        /\ Len(u) = m /\ l[m] = 47 /\ u[m] = 48 /\ \A i \in 1 .. m - 1 : u[i] = l[i]
      BY Bounds
  <1> HIDE DEF l, u
  <1>2. ASSUME Sweep!IsPrefix(l, p)
        PROVE  Sweep!AtLeast(p, l) /\ Sweep!LexLess(p, u)
    <2>1. m <= Len(p) /\ \A i \in 1 .. m : l[i] = p[i]
        BY <1>1, <1>2, PrefixAt
    <2>2. /\ m - 1 \in Nat /\ m - 1 <= Len(p) /\ m - 1 < Len(u)
          /\ \A i \in 1 .. m - 1 : p[i] = u[i]
          /\ p[(m - 1) + 1] < u[(m - 1) + 1]
      <3>1. (m - 1) + 1 = m /\ p[m] = 47
          BY <1>1, <2>1
      <3>2. p[(m - 1) + 1] < u[(m - 1) + 1]
          BY <1>1, <3>1
      <3>3. \A i \in 1 .. m - 1 : p[i] = l[i]
          BY <1>1, <2>1
      <3>4. \A i \in 1 .. m - 1 : p[i] = u[i]
          BY <1>1, <3>3
      <3>5. m - 1 \in Nat /\ m - 1 <= Len(p) /\ m - 1 < Len(u)
          BY <1>1, <2>1
      <3> QED
          BY <3>2, <3>4, <3>5
    <2>3. Sweep!LexLess(p, u)
        BY <1>1, <2>2, LessAt
    <2> QED
        BY <1>1, <1>2, <2>3, PrefixFirst
  <1>3. ASSUME Sweep!AtLeast(p, l), Sweep!LexLess(p, u)
        PROVE  Sweep!IsPrefix(l, p)
    <2>0. ~Sweep!LexLess(p, l)
      <3>1. CASE p = l
        <4>1. SUFFICES ASSUME Sweep!LexLess(p, l) PROVE FALSE
            OBVIOUS
        <4> QED
            BY <1>1, <3>1, <4>1, LessAsymmetric
      <3>2. CASE Sweep!LexLess(l, p)
          BY <1>1, <3>2, LessAsymmetric
      <3> QED
          BY <1>3, <3>1, <3>2 DEF Sweep!AtLeast
    <2>1. PICK k \in Nat : /\ k <= Len(p) /\ k < m /\ \A i \in 1 .. k : p[i] = u[i]
                           /\ k = Len(p) \/ p[k + 1] < u[k + 1]
        BY <1>1, <1>3, LessAt
    <2>2. \A i \in 1 .. k : p[i] = l[i]
        BY <1>1, <2>1
    <2>3. ~(k = Len(p) \/ p[k + 1] < l[k + 1])
      <3>1. SUFFICES ASSUME k = Len(p) \/ p[k + 1] < l[k + 1] PROVE Sweep!LexLess(p, l)
          BY <2>0
      <3>2. k \in Nat /\ k <= Len(p) /\ k < Len(l)
          BY <2>1
      <3> QED
          BY <1>1, <2>2, <3>1, <3>2, LessAt
    <2>4. k + 1 \in 1 .. Len(p) /\ k + 1 \in 1 .. m /\ Len(p) \in Nat
      <3>1. Len(p) \in Nat
          OBVIOUS
      <3>2. k < Len(p)
          BY <2>1, <2>3, <3>1
      <3>3. m \in Nat /\ k \in Nat /\ k < m
          BY <1>1, <2>1
      <3> QED
          BY <3>1, <3>2, <3>3
    <2>5. p[k + 1] \in Nat /\ l[k + 1] \in Nat /\ u[k + 1] \in Nat
      <3>1. p[k + 1] \in Nat
          BY <2>4
      <3>2. l[k + 1] \in Nat
          BY <1>1, <2>4
      <3>3. u \in Seq(Nat) /\ k + 1 \in 1 .. Len(u)
          BY <1>1, <2>4
      <3>4. u[k + 1] \in Nat
          BY <3>3
      <3> QED
          BY <3>1, <3>2, <3>4
    <2>6. k = m - 1
      <3>1. SUFFICES ASSUME k # m - 1 PROVE FALSE
          OBVIOUS
      <3>2. k + 1 \in 1 .. m - 1
          BY <1>1, <2>1, <3>1
      <3>3. u[k + 1] = l[k + 1]
          BY <1>1, <3>2
      <3> QED
          BY <2>1, <2>3, <2>5, <3>3
    <2>7. p[m] = l[m]
      <3>1. k + 1 = m
          BY <1>1, <2>6
      <3>2. p[m] \in Nat
          BY <2>5, <3>1
      <3>3. p[k + 1] < u[k + 1] /\ ~(p[k + 1] < l[k + 1])
          BY <2>1, <2>3
      <3>4. p[m] < 48 /\ ~(p[m] < 47)
          BY <1>1, <3>1, <3>3
      <3> QED
          BY <1>1, <3>2, <3>4
    <2>8. m <= Len(p) /\ \A i \in 1 .. m : l[i] = p[i]
        BY <1>1, <2>2, <2>4, <2>6, <2>7
    <2> QED
        BY <1>1, <2>8, PrefixAt
  <1> QED
      BY <1>2, <1>3 DEF Sweep!InRange, l, u

\* A root is before everything in its range, and its range ends after it.
LEMMA RootFirst ==
    ASSUME NEW r \in Seq(Nat), r # <<>>, NEW p \in Seq(Nat), Sweep!InRange(p, r)
    PROVE  Sweep!AtLeast(p, r) /\ Sweep!LexLess(p, Sweep!Upper(r))
  <1> DEFINE l == Sweep!Lower(r)
             u == Sweep!Upper(r)
  <1>1. /\ l \in Seq(Nat) /\ u \in Seq(Nat) /\ Len(l) \in Nat /\ Len(l) >= 1
        /\ Len(u) = Len(l) /\ l[Len(l)] = 47 /\ u[Len(l)] = 48
        /\ \A i \in 1 .. Len(l) - 1 : u[i] = l[i]
        /\ Len(r) <= Len(l) /\ \A i \in 1 .. Len(r) : l[i] = r[i]
        /\ Len(r) = Len(l) => r = <<47>>
        /\ Len(r) # Len(l) => Len(l) = Len(r) + 1
      BY Bounds
  <1> HIDE DEF l, u
  <1>2. CASE p = r
    <2>1. CASE Len(r) = Len(l)
      <3>1. 0 <= Len(p) /\ 0 < Len(u) /\ p[0 + 1] < u[0 + 1]
          BY <1>1, <1>2, <2>1
      <3>2. Sweep!LexLess(p, u)
          BY <1>1, <3>1, LessAt
      <3> QED
          BY <1>2, <3>2 DEF Sweep!AtLeast, u
    <2>2. CASE Len(r) # Len(l)
      <3>0. Len(r) \in Nat /\ Len(l) = Len(r) + 1
          BY <1>1, <2>2
      <3>1. Len(p) < Len(u) /\ \A i \in 1 .. Len(p) : p[i] = u[i]
        <4>1. \A i \in 1 .. Len(r) : i \in 1 .. Len(l) - 1
            BY <3>0
        <4> QED
            BY <1>1, <1>2, <3>0, <4>1
      <3>2. Sweep!LexLess(p, u)
        <4>1. /\ Len(p) \in Nat /\ Len(p) <= Len(p) /\ Len(p) < Len(u)
              /\ \A i \in 1 .. Len(p) : p[i] = u[i]
            BY <3>1
        <4> QED
            BY <1>1, <4>1, LessAt
      <3> QED
          BY <1>2, <3>2 DEF Sweep!AtLeast, u
    <2> QED
        BY <2>1, <2>2
  <1>3. CASE Sweep!IsPrefix(l, p) /\ p # r
    <2>1. Len(l) <= Len(p) /\ \A i \in 1 .. Len(l) : l[i] = p[i]
        BY <1>1, <1>3, PrefixAt
    <2>2. Len(r) <= Len(p) /\ \A i \in 1 .. Len(r) : r[i] = p[i]
        BY <1>1, <2>1
    <2>3. Sweep!AtLeast(p, r)
        BY <2>2, PrefixAt, PrefixFirst
    <2>4. Sweep!LexLess(p, u)
        BY <1>3 DEF Sweep!InRange, u
    <2> QED
        BY <2>3, <2>4 DEF u
  <1>4. p = r \/ Sweep!IsPrefix(l, p)
      BY RangeIsBelow DEF l
  <1> QED
      BY <1>2, <1>3, <1>4

\* Trimming leaves a path.
LEMMA TrimPath ==
    ASSUME NEW r \in Seq(Nat), r # <<>>
    PROVE  Sweep!Trim(r) \in Seq(Nat) /\ Sweep!Trim(r) # <<>>
  <1> DEFINE ends == {e \in 0 .. Len(r) : \A i \in e + 1 .. Len(r) : r[i] = 47}
  <1>1. ends \in SUBSET Nat /\ Len(r) \in ends /\ Len(r) \in Nat /\ Len(r) >= 1
      OBVIOUS
  <1>2. Sweep!Min(ends) \in ends
      BY <1>1, MinIsLeast
  <1>3. Sweep!Min(ends) \in 0 .. Len(r)
      BY <1>2
  <1>4. Sweep!Trim(r) = IF Sweep!Min(ends) = 0 THEN SubSeq(r, 1, 1)
                        ELSE SubSeq(r, 1, Sweep!Min(ends))
      BY DEF Sweep!Trim
  <1> HIDE DEF ends
  <1>5. ASSUME NEW k \in 1 .. Len(r)
        PROVE  SubSeq(r, 1, k) \in Seq(Nat) /\ SubSeq(r, 1, k) # <<>>
    <2>1. Len(SubSeq(r, 1, k)) = k /\ SubSeq(r, 1, k) \in Seq(Nat)
        BY <1>1
    <2> QED
        BY <2>1
  <1> QED
      BY <1>1, <1>3, <1>4, <1>5

\* Where trimming cuts a path: only slashes are behind it, and none is before it.
LEMMA TrimCuts ==
    ASSUME NEW r \in Seq(Nat), r # <<>>, r[1] = 47
    PROVE  \E k \in 1 .. Len(r) :
              /\ Sweep!Trim(r) = SubSeq(r, 1, k)
              /\ \A i \in k + 1 .. Len(r) : r[i] = 47
              /\ k = 1 \/ r[k] # 47
  <1> DEFINE ends == {e \in 0 .. Len(r) : \A i \in e + 1 .. Len(r) : r[i] = 47}
             e0 == Sweep!Min(ends)
  <1>1. ends \in SUBSET Nat /\ Len(r) \in ends /\ Len(r) \in Nat /\ Len(r) >= 1
      OBVIOUS
  <1>2. e0 \in ends /\ \A e \in ends : e0 <= e
      BY <1>1, MinIsLeast
  <1>3. Sweep!Trim(r) = IF e0 = 0 THEN SubSeq(r, 1, 1) ELSE SubSeq(r, 1, e0)
      BY DEF Sweep!Trim
  <1>4. e0 \in 0 .. Len(r) /\ \A i \in e0 + 1 .. Len(r) : r[i] = 47
      BY <1>2
  <1>5. ASSUME e0 # 0 PROVE r[e0] # 47
    <2>1. SUFFICES ASSUME r[e0] = 47 PROVE FALSE
        OBVIOUS
    <2>2. e0 - 1 \in 0 .. Len(r) /\ ~(e0 <= e0 - 1)
        BY <1>4, <1>5
    <2>3. \A i \in (e0 - 1) + 1 .. Len(r) : i = e0 \/ i \in e0 + 1 .. Len(r)
        BY <1>4, <1>5
    <2>4. \A i \in (e0 - 1) + 1 .. Len(r) : r[i] = 47
        BY <1>4, <2>1, <2>3
    <2>5. e0 - 1 \in ends
        BY <2>2, <2>4
    <2> QED
        BY <1>2, <2>2, <2>5
  <1> HIDE DEF e0
  <1>6. CASE e0 = 0
    <2>1. 1 \in 1 .. Len(r) /\ \A i \in 1 + 1 .. Len(r) : i \in e0 + 1 .. Len(r)
        BY <1>1, <1>6
    <2> QED
        BY <1>3, <1>4, <1>6, <2>1
  <1>7. CASE e0 # 0
    <2>1. e0 \in 1 .. Len(r)
        BY <1>4, <1>7
    <2> QED
        BY <1>3, <1>4, <1>5, <1>7, <2>1
  <1> QED
      BY <1>6, <1>7

\* A root, and every text of something below it, is in the root's range, whatever
\* slashes the root ends in.
LEMMA TextInRange ==
    ASSUME Sweep!SweepAssumption, NEW r \in Universe, NEW p \in Universe,
           p = r \/ p \in Sweep!Entries(r)
    PROVE  Sweep!InRange(p, Sweep!Trim(r))
  <1>1. /\ r \in Seq(Nat) /\ r # <<>> /\ r[1] = 47
        /\ p \in Seq(Nat) /\ p # <<>> /\ p[1] = 47
      BY DEF Sweep!SweepAssumption
  <1>2. Len(r) \in Nat /\ Len(r) >= 1 /\ Len(p) \in Nat /\ Len(p) >= 1
      BY <1>1
  <1>3. PICK k \in 1 .. Len(r) : /\ Sweep!Trim(r) = SubSeq(r, 1, k)
                                 /\ \A i \in k + 1 .. Len(r) : r[i] = 47
                                 /\ k = 1 \/ r[k] # 47
      BY <1>1, TrimCuts
  <1> DEFINE t == SubSeq(r, 1, k)
  <1>4. t \in Seq(Nat) /\ Len(t) = k /\ t # <<>> /\ \A i \in 1 .. k : t[i] = r[i]
      BY <1>1, <1>2
  <1> HIDE DEF t
  <1>5. Sweep!Trim(r) = t
      BY <1>3 DEF t
  <1>6. CASE t = <<47>>
    <2>1. Sweep!Lower(t) = <<47>>
        BY <1>6 DEF Sweep!Lower
    <2>2. Len(<<47>>) = 1 /\ <<47>> \in Seq(Nat) /\ \A i \in 1 .. 1 : <<47>>[i] = p[i]
        BY <1>1
    <2>3. Sweep!IsPrefix(<<47>>, p)
        BY <1>1, <1>2, <2>2, PrefixAt
    <2> QED
        BY <1>1, <1>4, <1>5, <2>1, <2>3, RangeIsBelow
  <1>7. CASE t # <<47>>
    <2> DEFINE l == Append(t, 47)
    <2>1. Sweep!Lower(t) = l
        BY <1>7 DEF Sweep!Lower
    <2>2. l \in Seq(Nat) /\ Len(l) = k + 1 /\ l[k + 1] = 47 /\ \A i \in 1 .. k : l[i] = r[i]
        BY <1>4
    <2>3. r[k] # 47
      <3>1. SUFFICES ASSUME k = 1, r[k] = 47 PROVE FALSE
          BY <1>3
      <3>2. t \in Seq(Nat) /\ Len(t) = 1 /\ t[1] = 47
          BY <1>4, <3>1
      <3>3. t = <<47>>
          BY <3>2
      <3> QED
          BY <1>7, <3>3
    <2> HIDE DEF l
    <2>4. CASE p = r /\ k = Len(r)
      <3>1. p = t
          BY <1>1, <1>4, <2>4, SeqEqual
      <3> QED
          BY <1>1, <1>4, <1>5, <3>1, RangeIsBelow
    <2>5. CASE p = r /\ k # Len(r)
      <3>1. k + 1 <= Len(p) /\ p[k + 1] = 47
          BY <1>2, <1>3, <2>5
      <3>2. \A i \in 1 .. k + 1 : i \in 1 .. k \/ i = k + 1
          OBVIOUS
      <3>3. Sweep!IsPrefix(l, p)
        <4>1. \A i \in 1 .. k + 1 : l[i] = p[i]
            BY <2>2, <2>5, <3>1, <3>2
        <4> QED
            BY <1>1, <2>2, <3>1, <4>1, PrefixAt
      <3> QED
          BY <1>1, <1>4, <1>5, <2>1, <3>3, RangeIsBelow
    <2>6. CASE p \in Sweep!Entries(r)
      <3> DEFINE j == Sweep!Joined(r)
      <3>1. Sweep!IsPrefix(j, p)
          BY <2>6 DEF Sweep!Entries, Sweep!IsStrictPrefix
      <3>2. /\ j \in Seq(Nat) /\ Len(j) >= k + 1 /\ j[k + 1] = 47
            /\ \A i \in 1 .. k : j[i] = r[i]
        <4>1. CASE k = Len(r)
          <5>1. j = Append(r, 47)
              BY <2>3, <4>1 DEF Sweep!Joined
          <5> HIDE DEF j
          <5> QED
              BY <1>1, <1>2, <4>1, <5>1
        <4>2. CASE k # Len(r)
          <5>1. Len(r) \in k + 1 .. Len(r) /\ k + 1 \in k + 1 .. Len(r)
              BY <1>2, <4>2
          <5>2. j = r
              BY <1>3, <5>1 DEF Sweep!Joined
          <5> HIDE DEF j
          <5> QED
              BY <1>1, <1>2, <1>3, <5>1, <5>2
        <4> QED
            BY <4>1, <4>2
      <3> HIDE DEF j
      <3>3. Len(j) <= Len(p) /\ \A i \in 1 .. Len(j) : j[i] = p[i]
          BY <1>1, <3>1, <3>2, PrefixAt
      <3>4. Len(j) \in Nat
          BY <3>2
      <3>5. \A i \in 1 .. k + 1 : i \in 1 .. Len(j) /\ (i \in 1 .. k \/ i = k + 1)
          BY <3>2, <3>4
      <3>6. k + 1 <= Len(p) /\ \A i \in 1 .. k + 1 : l[i] = p[i]
        <4>1. k + 1 <= Len(p)
            BY <1>1, <1>2, <3>2, <3>3, <3>4
        <4>2. \A i \in 1 .. k + 1 : j[i] = p[i]
            BY <3>3, <3>5
        <4>3. \A i \in 1 .. k + 1 : l[i] = j[i]
          <5> SUFFICES ASSUME NEW i \in 1 .. k + 1
                       PROVE  l[i] = j[i]
              OBVIOUS
          <5>1. CASE i \in 1 .. k
              BY <2>2, <3>2, <5>1
          <5>2. CASE i = k + 1
              BY <2>2, <3>2, <5>2
          <5> QED
              BY <3>5, <5>1, <5>2
        <4> QED
            BY <4>1, <4>2, <4>3
      <3>7. Sweep!IsPrefix(l, p)
          BY <1>1, <2>2, <3>6, PrefixAt
      <3> QED
          BY <1>1, <1>4, <1>5, <2>1, <3>7, RangeIsBelow
    <2> QED
        BY <2>4, <2>5, <2>6
  <1> QED
      BY <1>6, <1>7

\* So what a walk finds is in the ranges its cleanup may touch.
LEMMA FoundInScope ==
    ASSUME Sweep!SweepAssumption, scan.roots \in Seq(Universe), NEW p \in Universe, Found(p)
    PROVE  InScope(p)
  <1>1. PICK i \in 1 .. Len(scan.roots) :
          p = scan.roots[i] \/ p \in Sweep!Entries(scan.roots[i])
      BY DEF Found, Sweep!Walk
  <1>2. scan.roots[i] \in Universe
      OBVIOUS
  <1>3. Sweep!InRange(p, Sweep!Trim(scan.roots[i]))
      BY <1>1, <1>2, TextInRange
  <1> QED
      BY <1>3 DEF InScope, Ranged

\* A scan's generation is later than every one before it.
LEMMA LaterGeneration ==
    ASSUME Sweep!SweepAssumption, last \in Nat, NEW w \in 1 .. MaxClock
    PROVE  Sweep!Generation(w) \in Nat /\ Sweep!Generation(w) >= last + 1
  <1>1. {w, last + 1} \in SUBSET Int /\ {w, last + 1} # {} /\ w \in Nat
      BY DEF Sweep!SweepAssumption
  <1>2. IsFiniteSet({w, last + 1})
    <2>1. IsFiniteSet({w})
        BY FS_Singleton
    <2>2. {w, last + 1} = {w} \cup {last + 1}
        OBVIOUS
    <2> QED
        BY <2>1, <2>2, FS_AddElement
  <1>3. Sweep!Max({w, last + 1}) \in {w, last + 1} /\ last + 1 <= Sweep!Max({w, last + 1})
      BY <1>1, <1>2, MaxIsGreatest
  <1> QED
      BY <1>1, <1>3 DEF Sweep!Generation

\* A scan that begins on a sound table keeps the invariant.
LEMMA ScanStarts ==
    ASSUME Sweep!SweepAssumption, NEW rs \in Seq(Universe), rs # <<>>,
           NEW x \in BOOLEAN, Sweep!Start(rs, x), UNCHANGED disk, last \in Nat,
           disk \in [Universe -> {"none", "v1", "v2"}], Sweep!Coherent(disk),
           files' \in Table, Sound(files', last), old'.files = files'
    PROVE  SweepInv'
  <1>1. PICK w \in 1 .. MaxClock :
          /\ last' = Sweep!Generation(w)
          /\ scan' = [Sweep!Idle EXCEPT
                !.pc = IF Len(rs) = 1 /\ Sweep!Gone(rs) THEN "gone" ELSE "walk",
                !.roots = rs, !.exact = x, !.gen = Sweep!Generation(w),
                !.warned = Sweep!Gone(rs), !.todo = {p \in Sweep!Walk(rs) : disk[p] # "none"}]
      BY DEF Sweep!Start
  <1>2. last' \in Nat /\ last' >= last + 1
      BY <1>1, LaterGeneration
  <1>3. rs \in Seq(Universe) /\ rs # <<>>
      OBVIOUS
  <1>4. /\ scan'.pc = IF Len(rs) = 1 /\ Sweep!Gone(rs) THEN "gone" ELSE "walk"
        /\ scan'.roots = rs /\ scan'.exact = x /\ scan'.gen = last'
        /\ scan'.todo = {p \in Sweep!Walk(rs) : disk[p] # "none"} /\ scan'.seen = {}
        /\ scan'.root = 1 /\ scan'.first = TRUE /\ scan'.exceeded = FALSE
      BY <1>1 DEF Sweep!Idle
  <1>5. scan' \in ScanType
    <2>1. Sweep!Gone(rs) \in BOOLEAN
        BY DEF Sweep!Gone
    <2>2. scan'.todo \in SUBSET Universe
        BY <1>4 DEF Sweep!Walk
    <2>3. /\ <<>> \in Seq(Nat) /\ {} \in SUBSET Int /\ {} \in SUBSET Universe /\ 1 \in Nat
          /\ Sweep!Generation(w) \in Nat
        BY LaterGeneration
    <2> QED
        BY <1>1, <1>3, <1>4, <2>1, <2>2, <2>3 DEF ScanType, Sweep!Idle
  <1>6. SweepType'
      BY <1>2, <1>3, <1>4, <1>5 DEF SweepType, Sweep!Coherent
  <1>7. Sound(files', last') /\ Sound(files', last' - 1)
    <2>1. \A p \in Universe : files'[p].gen \in Nat /\ files'[p].gen <= last
        BY DEF Sound, Table
    <2>2. \A p \in Universe : files'[p].gen <= last' /\ files'[p].gen <= last' - 1
        BY <1>2, <2>1
    <2> QED
        BY <2>2 DEF Sound
  <1>8. \A p \in Universe : ~Met(p)'
      BY <1>4 DEF Met, Found
  <1>9. Progress'
      BY <1>7 DEF Progress
  <1>10. Walking'
    <2>1. \A p \in scan'.todo : Found(p)'
        BY <1>4 DEF Found
    <2> QED
        BY <1>4, <1>8, <2>1 DEF Walking
  <1>11. scan'.pc = "gone" => Len(scan'.roots) = 1 /\ Sweep!Gone(scan.roots)'
      BY <1>4 DEF Sweep!Gone
  <1> QED
      BY <1>4, <1>6, <1>7, <1>9, <1>10, <1>11 DEF SweepInv

\* The table starts with an id for each row.
LEMMA SweepStarts == ASSUME Sweep!SweepAssumption, Sweep!Init PROVE SweepInv
  <1>1. PICK t \in Tables :
          files = [p \in Universe |-> IF p \in DOMAIN t THEN Sweep!Row(t[p], "v1", 1)
                                                        ELSE Sweep!NoRow]
      BY DEF Sweep!Init
  <1>2. /\ \A p \in DOMAIN t : t[p] \in Int
        /\ \A p, q \in DOMAIN t : p # q => t[p] # t[q]
      BY DEF Sweep!SweepAssumption
  <1>3. files \in Table
      BY <1>1, <1>2 DEF Table, Sweep!Row, Sweep!NoRow
  <1>4. Sound(files, 1)
    <2>1. ASSUME NEW p \in Universe
          PROVE  /\ files[p] # Sweep!NoRow =>
                       p \in DOMAIN t /\ files[p].id = t[p] /\ files[p].val # "none"
                 /\ files[p].gen <= 1
        BY <1>1, <1>2 DEF Sweep!Row, Sweep!NoRow
    <2> QED
        BY <1>2, <2>1 DEF Sound
  <1>5. Sweep!Idle \in ScanType
      BY DEF Sweep!Idle, ScanType
  <1>6. disk \in [Universe -> {"none", "v1", "v2"}] /\ Sweep!Coherent(disk)
    <2>1. disk = [p \in Universe |-> "v1"]
        BY DEF Sweep!Init
    <2>2. \A p \in Universe : Sweep!SameFile[p] \subseteq Universe
        BY DEF Sweep!SameFile
    <2> QED
        BY <2>1, <2>2 DEF Sweep!Coherent
  <1>7. SweepType /\ scan.pc = "idle" /\ last = 1
      BY <1>3, <1>5, <1>6 DEF Sweep!Init, SweepType, Sweep!Idle
  <1> QED
      BY <1>4, <1>7 DEF SweepInv

\* A refresh begins.
LEMMA BeginKeeps ==
    ASSUME Sweep!SweepAssumption, SweepInv, Sweep!Begin PROVE SweepInv'
  <1>1. PICK rs \in SweepRequests, x \in BOOLEAN : Sweep!Start(rs, x)
      BY DEF Sweep!Begin
  <1>2. UNCHANGED <<disk, files>> /\ old'.files = files
      BY DEF Sweep!Begin
  <1>3. rs \in Seq(Universe) /\ rs # <<>>
      BY DEF Sweep!SweepAssumption
  <1> QED
      BY <1>1, <1>2, <1>3, ScanStarts DEF SweepInv, SweepType

\* The table is put back, or kept, and the refresh is over.
LEMMA IdleKeeps ==
    ASSUME SweepInv, Sweep!Fail \/ Sweep!Commit PROVE SweepInv'
  <1>1. scan' = Sweep!Idle /\ UNCHANGED <<disk, last>> /\ scan.pc # "idle"
      BY DEF Sweep!Fail, Sweep!Commit
  <1>2. Sweep!Idle \in ScanType /\ scan'.pc = "idle"
      BY <1>1 DEF Sweep!Idle, ScanType
  <1>3. files' \in Table /\ Sound(files', last)
    <2>1. CASE Sweep!Commit
        BY <2>1 DEF Sweep!Commit, SweepInv, SweepType
    <2>2. CASE Sweep!Fail
      <3>1. files' = old.files /\ old.files \in Table /\ Sound(old.files, last - 1) /\ last \in Nat
          BY <1>1, <2>2 DEF Sweep!Fail, SweepInv, SweepType, Progress
      <3>2. \A p \in Universe : old.files[p].gen \in Nat /\ old.files[p].gen <= last - 1
          BY <3>1 DEF Sound, Table
      <3>3. \A p \in Universe : old.files[p].gen <= last
          BY <3>1, <3>2
      <3> QED
          BY <3>1, <3>3 DEF Sound
    <2> QED
        BY <2>1, <2>2
  <1>4. SweepType'
      BY <1>1, <1>2, <1>3 DEF SweepInv, SweepType, Sweep!Coherent
  <1> QED
      BY <1>1, <1>2, <1>3, <1>4 DEF SweepInv

\* The file system changes between two refreshes.
LEMMA ChangeKeeps ==
    ASSUME SweepInv, Sweep!Change PROVE SweepInv'
  <1>1. scan.pc = "idle" /\ UNCHANGED <<files, last, scan, old>> /\ Sweep!Coherent(disk')
      BY DEF Sweep!Change
  <1>2. disk' \in [Universe -> {"none", "v1", "v2"}]
      BY DEF Sweep!Change, Sweep!Versions, SweepInv, SweepType
  <1>3. SweepType'
      BY <1>1, <1>2 DEF SweepInv, SweepType
  <1> QED
      BY <1>1, <1>3 DEF SweepInv

\* Once what was found has its row and nothing else has one in the ranges of the roots,
\* the sweep is exact.
LEMMA SweepFinishes ==
    ASSUME Sound(files', last'), Progress',
           \A p \in Universe : Found(p)' =>
               files'[p].val = disk'[p] \/ (scan'.warned /\ files'[p] = old'.files[p]),
           \A p \in Universe : InScope(p)' /\ ~Found(p)' =>
               files'[p] = IF scan'.warned THEN old'.files[p] ELSE Sweep!NoRow
    PROVE  Sweep!SweepExact'
  <1> DEFINE found == {p \in Sweep!Walk(scan'.roots) : disk'[p] # "none"}
  <1>1. Sweep!Walk(scan'.roots) \subseteq Universe
      BY DEF Sweep!Walk
  <1>2. \A p \in Universe : p \in found <=> Found(p)'
      BY DEF Found
  <1>3. \A p \in Universe : p \in Sweep!Ranges(scan'.roots) <=> InScope(p)'
      BY DEF Sweep!Ranges, InScope, Ranged
  <1>4. found \subseteq Universe
      BY <1>1
  <1> HIDE DEF found
  <1>5. \A p \in found :
          files'[p].val = disk'[p] \/ (scan'.warned /\ files'[p] = old'.files[p])
      BY <1>2, <1>4
  <1>6. \A p \in Universe \ found :
          files'[p] = IF p \in Sweep!Ranges(scan'.roots) /\ ~scan'.warned THEN Sweep!NoRow
                      ELSE old'.files[p]
    <2>1. \A p \in Universe : ~InScope(p)' => files'[p] = old'.files[p]
        BY DEF Progress
    <2> QED
        BY <1>2, <1>3, <2>1
  <1>7. \A p, q \in Universe : p # q /\ files'[p] # Sweep!NoRow /\ files'[q] # Sweep!NoRow
          => files'[p].id # files'[q].id
      BY DEF Sound
  <1>8. \A p, q \in {q \in Universe : files'[q] # Sweep!NoRow} :
          p # q => files'[p].id # files'[q].id
      BY <1>7
  <1> QED
      BY <1>5, <1>6, <1>8 DEF Sweep!SweepExact, Sweep!Rows, found

\* The rows at and below a root that is gone are deleted.
LEMMA VanishedKeeps ==
    ASSUME Sweep!SweepAssumption, SweepInv, Sweep!Vanished PROVE SweepInv'
  <1>1. /\ scan.pc = "gone" /\ UNCHANGED <<disk, last, old>>
        /\ files' = [p \in Universe |-> IF Sweep!InRange(p, Sweep!Trim(scan.roots[1]))
                                          THEN Sweep!NoRow ELSE files[p]]
        /\ scan' = [scan EXCEPT !.pc = "done", !.warned = FALSE]
      BY DEF Sweep!Vanished
  <1>2. /\ scan \in ScanType /\ files \in Table /\ last \in Nat /\ Sound(files, last)
        /\ files = old.files /\ Progress /\ Len(scan.roots) = 1 /\ Sweep!Gone(scan.roots)
        /\ scan.gen = last /\ scan.roots # <<>> /\ Sweep!Coherent(disk)
      BY <1>1 DEF SweepInv, SweepType
  <1>3. /\ scan' \in ScanType /\ scan'.pc = "done" /\ scan'.warned = FALSE
        /\ scan'.roots = scan.roots /\ scan'.exact = scan.exact /\ scan'.gen = scan.gen
      BY <1>1, <1>2 DEF ScanType
  <1>4. files' \in Table
      BY <1>1, <1>2 DEF Table, Sweep!NoRow, Sweep!Row
  <1>5. SweepType'
      BY <1>1, <1>2, <1>3, <1>4 DEF SweepInv, SweepType, Sweep!Coherent
  <1>6. \A p \in Universe : files'[p] \in {Sweep!NoRow, files[p]}
      BY <1>1
  <1>7. Sound(files', last')
    <2>1. Sweep!NoRow.gen = 0
        BY DEF Sweep!NoRow, Sweep!Row
    <2> QED
        BY <1>1, <1>2, <1>6, <2>1 DEF Sound
  <1>8. \A p \in Universe : InScope(p) <=> Sweep!InRange(p, Sweep!Trim(scan.roots[1]))
      BY <1>2 DEF InScope, Ranged
  <1>9. \A p \in Universe : InScope(p)' <=> InScope(p)
      BY <1>3 DEF InScope, Ranged
  <1>10. \A p \in Universe : ~Found(p) /\ ~Found(p)'
    <2> DEFINE r == scan.roots[1]
    <2>1. r \in Universe /\ disk[r] = "none" /\ \A i \in 1 .. Len(scan.roots) : scan.roots[i] = r
        BY <1>2 DEF ScanType, Sweep!Gone
    <2>2. \A p \in Sweep!Entries(r) : disk[p] = "none"
        BY <1>2, <2>1 DEF Sweep!Coherent
    <2>3. \A p \in Sweep!Walk(scan.roots) : disk[p] = "none"
        BY <2>1, <2>2 DEF Sweep!Walk
    <2> QED
        BY <1>1, <1>3, <2>3 DEF Found
  <1>11. Progress'
      BY <1>1, <1>2, <1>3, <1>6, <1>8, <1>9 DEF Progress
  <1>12. \A p \in Universe : InScope(p) => files'[p] = Sweep!NoRow
      BY <1>1, <1>8
  <1>13. Sweep!SweepExact'
      BY <1>3, <1>7, <1>9, <1>10, <1>11, <1>12, SweepFinishes
  <1> QED
      BY <1>3, <1>5, <1>7, <1>11, <1>13 DEF SweepInv

\* A path that cannot be read is not visited, and is warned of.
LEMMA UnreadableKeeps ==
    ASSUME Sweep!SweepAssumption, SweepInv, Sweep!Unreadable PROVE SweepInv'
  <1>1. PICK p \in scan.todo :
          scan' = [scan EXCEPT !.todo = @ \ ({p} \cup Sweep!Entries(p)), !.warned = TRUE]
      BY DEF Sweep!Unreadable, Sweep!Nearest
  <1>2. scan.pc = "walk" /\ UNCHANGED <<disk, files, last, old>>
      BY DEF Sweep!Unreadable
  <1>3. /\ scan \in ScanType /\ Sound(files, last) /\ Progress /\ Walking /\ SweepType
      BY <1>2 DEF SweepInv, SweepType
  <1> DEFINE lost == {p} \cup Sweep!Entries(p)
  <1> HIDE DEF lost
  <1>4. /\ scan' \in ScanType /\ scan'.pc = "walk" /\ scan'.warned = TRUE
        /\ scan'.todo = scan.todo \ lost /\ scan'.seen = scan.seen
        /\ scan'.roots = scan.roots /\ scan'.exact = scan.exact /\ scan'.gen = scan.gen
        /\ scan'.root = scan.root /\ scan'.first = scan.first /\ scan'.exceeded = scan.exceeded
    <2>1. scan' = [scan EXCEPT !.todo = @ \ lost, !.warned = TRUE]
        BY <1>1 DEF lost
    <2> QED
        BY <1>2, <1>3, <2>1 DEF ScanType
  <1>5. SweepType'
      BY <1>2, <1>3, <1>4 DEF SweepType, Sweep!Coherent
  <1>6. \A q \in Universe : (InScope(q)' <=> InScope(q)) /\ (Found(q)' <=> Found(q))
      BY <1>2, <1>4 DEF InScope, Ranged, Found
  <1>7. Progress'
      BY <1>2, <1>3, <1>4, <1>6 DEF Progress
  <1>8. \A q \in Universe : Met(q)' <=> Met(q) \/ q \in scan.todo \cap lost
    <2>1. \A q \in scan.todo : q \in Universe /\ Found(q)
        BY <1>3 DEF Walking, ScanType
    <2> QED
        BY <1>4, <1>6, <2>1 DEF Met
  <1>9. \A q \in scan.todo : files[q] = old.files[q]
      BY <1>3 DEF Met, ScanType, Walking
  <1>10. Walking'
    <2>1. \A q \in Universe : ~Met(q)' => files'[q] = old'.files[q]
        BY <1>2, <1>3, <1>8 DEF Walking
    <2>2. \A q \in scan'.todo : Found(q)'
        BY <1>3, <1>4, <1>6 DEF Walking, ScanType
    <2>3. ASSUME NEW q \in Universe, Met(q)'
          PROVE  Written(q)' \/ (scan'.warned /\ files'[q] = old'.files[q])
      <3>1. CASE q \in scan.todo
          BY <1>2, <1>4, <1>9, <3>1
      <3>2. CASE Met(q)
        <4>1. Written(q) \/ files[q] = old.files[q]
            BY <1>3, <3>2 DEF Walking
        <4> QED
            BY <1>2, <1>4, <4>1 DEF Written
      <3> QED
          BY <1>8, <2>3, <3>1, <3>2
    <2>4. \A i \in scan'.seen : \E q \in Universe :
             Met(q)' /\ files'[q] # Sweep!NoRow /\ files'[q].id = i
        BY <1>2, <1>3, <1>4, <1>8 DEF Walking
    <2> QED
        BY <1>3, <1>4, <2>1, <2>2, <2>3, <2>4 DEF Walking
  <1> QED
      BY <1>2, <1>3, <1>4, <1>5, <1>7, <1>10 DEF SweepInv

\* A new row's id is above every other.
LEMMA FreshId ==
    ASSUME Sweep!SweepAssumption, files \in Table
    PROVE  /\ Sweep!NewId \in Int
           /\ \A p \in Universe : files[p] # Sweep!NoRow => files[p].id # Sweep!NewId
  <1> DEFINE R == Sweep!Rows(files)
             I == {files[p].id : p \in R}
             S == {0} \cup I
  <1>1. R \in SUBSET Universe /\ IsFiniteSet(Universe)
    <2>1. IsFiniteSet(Universe) = Sweep!IsFiniteSet(Universe)
        BY DEF IsFiniteSet, Sweep!IsFiniteSet
    <2> QED
        BY <2>1 DEF Sweep!Rows, Sweep!SweepAssumption
  <1>2. IsFiniteSet(R)
      BY <1>1, FS_Subset
  <1>3. IsFiniteSet(I)
    <2>1. [p \in R |-> files[p].id] \in Surjection(R, I)
        BY DEF Surjection
    <2> QED
        BY <1>2, <2>1, FS_Surjection
  <1>4. IsFiniteSet(S)
    <2>1. S = I \cup {0}
        OBVIOUS
    <2> QED
        BY <1>3, <2>1, FS_AddElement
  <1>5. S \in SUBSET Int /\ S # {}
      BY <1>1 DEF Table
  <1>6. Sweep!Max(S) \in S /\ \A y \in S : y <= Sweep!Max(S)
      BY <1>4, <1>5, MaxIsGreatest
  <1>7. Sweep!NewId = Sweep!Max(S) + 1
      BY DEF Sweep!NewId
  <1>8. \A p \in Universe : files[p] # Sweep!NoRow => files[p].id \in S
      BY DEF Sweep!Rows
  <1> HIDE DEF S
  <1>9. \A y \in S : y \in Int /\ y # Sweep!Max(S) + 1
    <2>1. Sweep!Max(S) \in Int
        BY <1>5, <1>6
    <2> QED
        BY <1>5, <1>6, <2>1
  <1>10. Sweep!NewId \in Int /\ \A y \in S : y # Sweep!NewId
    <2>1. Sweep!Max(S) \in Int
        BY <1>5, <1>6
    <2> QED
        BY <1>7, <1>9, <2>1
  <1> QED
      BY <1>8, <1>10

\* The bitmap notes an id, or is given up.
LEMMA SeeNotes ==
    ASSUME Sweep!SweepAssumption, NEW s \in ScanType, NEW id \in Int, ~s.exceeded
    PROVE  LET v == Sweep!See(s, id)
           IN  /\ v \in ScanType /\ v.pc = s.pc /\ v.roots = s.roots /\ v.exact = s.exact
               /\ v.gen = s.gen /\ v.todo = s.todo /\ v.warned = s.warned
               /\ v.root = s.root /\ v.first = s.first
               /\ s.seen \subseteq v.seen /\ v.seen \subseteq s.seen \cup {id}
               /\ ~v.exceeded => id \in v.seen
  <1>1. Sweep!Page(id) \in Int
      BY DEF Sweep!Page, Sweep!SweepAssumption
  <1> DEFINE a == [s EXCEPT !.seen = @ \cup {id}, !.pages = @ \cup {Sweep!Page(id)}]
             b == [s EXCEPT !.exceeded = TRUE]
  <1>2. /\ a \in ScanType /\ a.pc = s.pc /\ a.roots = s.roots /\ a.exact = s.exact
        /\ a.gen = s.gen /\ a.todo = s.todo /\ a.warned = s.warned
        /\ a.root = s.root /\ a.first = s.first
        /\ a.seen = s.seen \cup {id}
      BY <1>1 DEF ScanType
  <1>3. /\ b \in ScanType /\ b.pc = s.pc /\ b.roots = s.roots /\ b.exact = s.exact
        /\ b.gen = s.gen /\ b.todo = s.todo /\ b.warned = s.warned
        /\ b.root = s.root /\ b.first = s.first
        /\ b.seen = s.seen /\ b.exceeded = TRUE
      BY DEF ScanType
  <1>4. Sweep!See(s, id) \in {a, b}
      BY DEF Sweep!See
  <1> HIDE DEF a, b
  <1> QED
      BY <1>2, <1>3, <1>4

\* One file of the walk gets its row, or keeps the one it has.
LEMMA VisitKeeps ==
    ASSUME Sweep!SweepAssumption, SweepInv, Sweep!Visit PROVE SweepInv'
  <1>1. scan.pc = "walk" /\ ~scan.exceeded /\ UNCHANGED <<disk, last, old>>
      BY DEF Sweep!Visit
  <1> DEFINE id(p) == IF files[p] = Sweep!NoRow THEN Sweep!NewId ELSE files[p].id
             without(p) == [scan EXCEPT !.todo = @ \ {p}]
  <1>2. PICK p \in scan.todo :
          /\ files' = IF Sweep!Stamps(p) THEN [files EXCEPT ![p] = Sweep!Row(id(p), disk[p], scan.gen)]
                                         ELSE files
          /\ scan' = IF scan.exact THEN Sweep!See(without(p), id(p)) ELSE without(p)
      BY DEF Sweep!Visit, Sweep!Nearest
  <1>3. /\ scan \in ScanType /\ files \in Table /\ last \in Nat /\ Sound(files, last)
        /\ Progress /\ Walking /\ SweepType /\ scan.gen = last
        /\ disk \in [Universe -> {"none", "v1", "v2"}]
      BY <1>1 DEF SweepInv, SweepType
  <1>4. /\ p \in Universe /\ Found(p) /\ disk[p] # "none" /\ ~Met(p) /\ InScope(p)
        /\ files[p] = old.files[p]
    <2>1. p \in Universe /\ Found(p) /\ ~Met(p) /\ scan.roots \in Seq(Universe)
        BY <1>2, <1>3 DEF ScanType, Walking, Met
    <2>2. InScope(p)
        BY <2>1, FoundInScope
    <2> QED
        BY <1>3, <2>1, <2>2 DEF Walking, Found
  <1>5. id(p) \in Int
      BY <1>3, <1>4, FreshId DEF Table
  <1>6. /\ scan' \in ScanType /\ scan'.pc = "walk" /\ scan'.roots = scan.roots
        /\ scan'.exact = scan.exact /\ scan'.gen = scan.gen /\ scan'.todo = scan.todo \ {p}
        /\ scan'.warned = scan.warned /\ scan'.root = scan.root /\ scan'.first = scan.first
        /\ scan.seen \subseteq scan'.seen /\ scan'.seen \subseteq scan.seen \cup {id(p)}
        /\ scan.exact /\ ~scan'.exceeded => id(p) \in scan'.seen
        /\ scan'.exceeded => scan.exact
    <2> DEFINE s == without(p)
    <2>1. /\ s \in ScanType /\ s.pc = "walk" /\ s.roots = scan.roots /\ s.exact = scan.exact
          /\ s.gen = scan.gen /\ s.todo = scan.todo \ {p} /\ s.warned = scan.warned
          /\ s.root = scan.root /\ s.first = scan.first /\ s.seen = scan.seen
          /\ s.exceeded = scan.exceeded /\ ~scan.exceeded
        BY <1>1, <1>3 DEF ScanType
    <2>2. scan' = IF scan.exact THEN Sweep!See(s, id(p)) ELSE s
        BY <1>2
    <2> HIDE DEF s, id
    <2>3. CASE scan.exact
        BY <1>1, <1>5, <2>1, <2>2, <2>3, SeeNotes
    <2>4. CASE ~scan.exact
        BY <2>1, <2>2, <2>4
    <2> QED
        BY <2>3, <2>4
  <1>7. /\ files' \in Table /\ \A q \in Universe : q # p => files'[q] = files[q]
        /\ files'[p].id = id(p) /\ files'[p].val = disk[p] /\ files'[p] # Sweep!NoRow
        /\ files'[p].gen <= last /\ (~scan.exact => files'[p].gen = scan.gen)
        /\ scan.exact /\ files[p].val = disk[p] => files'[p] = files[p]
    <2>1. CASE Sweep!Stamps(p)
      <3>1. files' = [files EXCEPT ![p] = Sweep!Row(id(p), disk[p], scan.gen)]
          BY <1>2, <2>1
      <3>2. Sweep!Row(id(p), disk[p], scan.gen) \in [id : Int, val : {"none", "v1", "v2"}, gen : Nat]
          BY <1>3, <1>4, <1>5 DEF Sweep!Row
      <3>3. /\ Sweep!Row(id(p), disk[p], scan.gen).id = id(p)
            /\ Sweep!Row(id(p), disk[p], scan.gen).val = disk[p]
            /\ Sweep!Row(id(p), disk[p], scan.gen).gen = scan.gen
            /\ Sweep!Row(id(p), disk[p], scan.gen) # Sweep!NoRow
          BY <1>4 DEF Sweep!Row, Sweep!NoRow
      <3> HIDE DEF id
      <3>4. files' \in Table /\ (\A q \in Universe : q # p => files'[q] = files[q])
            /\ files'[p] = Sweep!Row(id(p), disk[p], scan.gen)
          BY <1>3, <1>4, <3>1, <3>2 DEF Table
      <3>5. ~(scan.exact /\ files[p].val = disk[p])
          BY <2>1 DEF Sweep!Stamps
      <3> QED
          BY <1>3, <3>3, <3>4, <3>5
    <2>2. CASE ~Sweep!Stamps(p)
      <3>1. files' = files /\ scan.exact /\ files[p].val = disk[p]
          BY <1>2, <2>2 DEF Sweep!Stamps
      <3>2. files[p] # Sweep!NoRow
          BY <1>4, <3>1 DEF Sweep!NoRow, Sweep!Row
      <3> QED
          BY <1>3, <1>4, <3>1, <3>2 DEF Sound
    <2> QED
        BY <2>1, <2>2
  <1>8. files[p] # Sweep!NoRow => id(p) = files[p].id
      OBVIOUS
  <1>9. \A q \in Universe : files[q] # Sweep!NoRow /\ q # p => files[q].id # id(p)
      BY <1>3, <1>4, FreshId DEF Sound
  <1> HIDE DEF id
  <1>10. SweepType'
      BY <1>1, <1>3, <1>6, <1>7 DEF SweepType, Sweep!Coherent
  <1>11. Sound(files', last')
    <2>1. \A q, t \in Universe : q # t /\ files'[q] # Sweep!NoRow /\ files'[t] # Sweep!NoRow
             => files'[q].id # files'[t].id
        BY <1>3, <1>7, <1>9 DEF Sound
    <2>2. \A q \in Universe : /\ files'[q].gen <= last
                              /\ files'[q] # Sweep!NoRow => files'[q].val # "none"
        BY <1>3, <1>4, <1>7 DEF Sound
    <2> QED
        BY <1>1, <2>1, <2>2 DEF Sound
  <1>12. \A q \in Universe : (InScope(q)' <=> InScope(q)) /\ (Found(q)' <=> Found(q))
      BY <1>1, <1>6 DEF InScope, Ranged, Found
  <1>13. \A q \in Universe : Met(q)' <=> Met(q) \/ q = p
      BY <1>1, <1>4, <1>6, <1>12 DEF Met
  <1>14. Progress'
    <2>1. \A q \in Universe : ~InScope(q)' => files'[q] = old'.files[q]
        BY <1>1, <1>3, <1>4, <1>7, <1>12 DEF Progress
    <2>2. ASSUME NEW q \in Universe, files'[q] # Sweep!NoRow, old'.files[q] # Sweep!NoRow
          PROVE  /\ files'[q].id = old'.files[q].id
                 /\ scan'.exact /\ old'.files[q].val = disk'[q] => files'[q] = old'.files[q]
      <3>1. CASE q = p
          BY <1>1, <1>4, <1>6, <1>7, <1>8, <2>2, <3>1
      <3>2. CASE q # p
          BY <1>1, <1>3, <1>6, <1>7, <2>2, <3>2 DEF Progress
      <3> QED
          BY <3>1, <3>2
    <2>3. \A q \in Universe : ~Found(q)' => files'[q] \in {Sweep!NoRow, old'.files[q]}
        BY <1>1, <1>3, <1>4, <1>7, <1>12 DEF Progress
    <2> QED
        BY <1>1, <1>3, <2>1, <2>2, <2>3 DEF Progress
  <1>15. Walking'
    <2>1. \A q \in Universe : ~Met(q)' => files'[q] = old'.files[q]
        BY <1>1, <1>3, <1>7, <1>13 DEF Walking
    <2>2. \A q \in scan'.todo : Found(q)'
        BY <1>3, <1>6, <1>12 DEF Walking, ScanType
    <2>3. ASSUME NEW q \in Universe, Met(q)'
          PROVE  Written(q)' \/ (scan'.warned /\ files'[q] = old'.files[q])
      <3>1. CASE q = p
          BY <1>1, <1>6, <1>7, <3>1 DEF Written
      <3>2. CASE q # p
        <4>1. Written(q) \/ (scan.warned /\ files[q] = old.files[q])
            BY <1>3, <1>13, <2>3, <3>2 DEF Walking
        <4> QED
            BY <1>1, <1>6, <1>7, <3>2, <4>1 DEF Written
      <3> QED
          BY <3>1, <3>2
    <2>4. ASSUME NEW i \in scan'.seen
          PROVE  \E q \in Universe : Met(q)' /\ files'[q] # Sweep!NoRow /\ files'[q].id = i
      <3>1. CASE i = id(p)
          BY <1>4, <1>7, <1>13, <3>1
      <3>2. CASE i \in scan.seen
        <4>1. PICK q \in Universe : Met(q) /\ files[q] # Sweep!NoRow /\ files[q].id = i
            BY <1>3, <3>2 DEF Walking
        <4>2. q # p
            BY <1>4, <4>1
        <4> QED
            BY <1>7, <1>13, <4>1, <4>2
      <3> QED
          BY <1>6, <3>1, <3>2
    <2> QED
        BY <1>3, <1>6, <2>1, <2>2, <2>3, <2>4 DEF Walking
  <1> QED
      BY <1>6, <1>10, <1>11, <1>14, <1>15 DEF SweepInv

\* Every root is a path of its own.
LEMMA RootsArePaths ==
    ASSUME Sweep!SweepAssumption, scan \in ScanType, NEW i \in 1 .. Len(scan.roots)
    PROVE  Sweep!Trim(scan.roots[i]) \in Seq(Nat) /\ Sweep!Trim(scan.roots[i]) # <<>>
  <1>1. scan.roots[i] \in Universe
      BY DEF ScanType
  <1>2. scan.roots[i] \in Seq(Nat) /\ scan.roots[i] # <<>>
      BY <1>1 DEF Sweep!SweepAssumption
  <1> QED
      BY <1>2, TrimPath

\* The walk is over: it is run again, cleaned up after, or left as it is.
LEMMA WalkedKeeps ==
    ASSUME Sweep!SweepAssumption, SweepInv, Sweep!Walked PROVE SweepInv'
  <1>1. scan.pc = "walk" /\ (scan.exceeded \/ scan.todo = {}) /\ UNCHANGED <<disk, old>>
      BY DEF Sweep!Walked
  <1>2. /\ scan \in ScanType /\ files \in Table /\ last \in Nat /\ Sound(files, last)
        /\ Progress /\ Walking /\ SweepType /\ scan.gen = last /\ scan.roots # <<>>
        /\ scan.roots \in Seq(Universe)
      BY <1>1 DEF SweepInv, SweepType, ScanType
  <1>3. CASE files' = old.files /\ Sweep!Start(scan.roots, FALSE)
    <2>1. old.files \in Table /\ Sound(old.files, last - 1)
        BY <1>2 DEF Progress
    <2>2. \A p \in Universe : old.files[p].gen \in Nat /\ old.files[p].gen <= last - 1
        BY <2>1 DEF Sound, Table
    <2>3. \A p \in Universe : old.files[p].gen <= last
        BY <1>2, <2>2
    <2>4. Sound(old.files, last)
        BY <2>1, <2>3 DEF Sound
    <2> QED
        BY <1>1, <1>2, <1>3, <2>1, <2>4, ScanStarts DEF SweepType
  <1>4. ASSUME UNCHANGED <<files, last>>, scan' \in ScanType,
               scan'.roots = scan.roots, scan'.exact = scan.exact, scan'.gen = scan.gen,
               scan'.todo = scan.todo, scan'.seen = scan.seen, scan'.warned = scan.warned,
               scan'.exceeded = scan.exceeded, scan'.root = scan.root, scan'.first = scan.first
        PROVE  /\ SweepType' /\ Sound(files', last') /\ Progress'
               /\ \A p \in Universe : (InScope(p)' <=> InScope(p)) /\ (Found(p)' <=> Found(p))
                                        /\ (Met(p)' <=> Met(p))
               /\ scan.todo = {} /\ ~scan.warned /\ ~(scan.exact /\ scan.exceeded) => Complete'
    <2>1. \A p \in Universe : (InScope(p)' <=> InScope(p)) /\ (Found(p)' <=> Found(p))
                                        /\ (Met(p)' <=> Met(p))
        BY <1>1, <1>4 DEF InScope, Ranged, Found, Met
    <2>2. Len(scan.roots) \in Nat /\ Len(scan.roots) >= 1 /\ scan.root = 1
        BY <1>2 DEF Walking
    <2>3. SweepType'
        BY <1>1, <1>2, <1>4, <2>2 DEF SweepType, Sweep!Coherent
    <2>4. Progress'
        BY <1>1, <1>2, <1>4, <2>1 DEF Progress
    <2>5. ASSUME scan.todo = {}, ~scan.warned, ~(scan.exact /\ scan.exceeded) PROVE Complete'
      <3>1. \A p \in Universe : Met(p)' => Written(p)'
          BY <1>1, <1>2, <1>4, <2>1, <2>5 DEF Walking, Written
      <3>2. \A i \in scan'.seen : \E p \in Universe :
               Met(p)' /\ files'[p] # Sweep!NoRow /\ files'[p].id = i
          BY <1>2, <1>4, <2>1 DEF Walking
      <3> QED
          BY <1>4, <2>5, <3>1, <3>2 DEF Complete
    <2> QED
        BY <1>2, <1>4, <2>1, <2>3, <2>4, <2>5
  <1>5. CASE /\ scan.exact /\ ~(scan.exceeded \/ scan.warned) /\ UNCHANGED <<files, last>>
             /\ scan' = [scan EXCEPT !.pc = "select", !.cursor = Sweep!Trim(scan.roots[1])]
    <2>1. Sweep!Trim(scan.roots[1]) \in Seq(Nat)
      <3>1. 1 \in 1 .. Len(scan.roots)
          BY <1>2
      <3> QED
          BY <1>2, <3>1, RootsArePaths
    <2>2. /\ scan' \in ScanType /\ scan'.pc = "select" /\ scan'.cursor = Sweep!Trim(scan.roots[1])
          /\ scan'.roots = scan.roots /\ scan'.exact = scan.exact /\ scan'.gen = scan.gen
          /\ scan'.todo = scan.todo /\ scan'.seen = scan.seen /\ scan'.warned = scan.warned
          /\ scan'.exceeded = scan.exceeded /\ scan'.root = scan.root /\ scan'.first = scan.first
        BY <1>2, <1>5, <2>1 DEF ScanType
    <2>3. Complete' /\ SweepType' /\ Sound(files', last') /\ Progress'
        BY <1>1, <1>4, <1>5, <2>2
    <2>4. scan'.root = 1 /\ scan'.first
        BY <1>2, <2>2 DEF Walking
    <2>5. Swept'
        BY <2>2, <2>4 DEF Swept
    <2> QED
        BY <1>5, <2>2, <2>3, <2>5 DEF SweepInv
  <1>6. CASE /\ ~scan.exact /\ UNCHANGED <<files, last>>
             /\ scan' = [scan EXCEPT !.pc = IF scan.warned THEN "done" ELSE "stale"]
    <2>0. scan.warned \in BOOLEAN
        BY <1>2 DEF ScanType
    <2>1. /\ scan' \in ScanType /\ scan'.pc = IF scan.warned THEN "done" ELSE "stale"
          /\ scan'.roots = scan.roots /\ scan'.exact = scan.exact /\ scan'.gen = scan.gen
          /\ scan'.todo = scan.todo /\ scan'.seen = scan.seen /\ scan'.warned = scan.warned
          /\ scan'.exceeded = scan.exceeded /\ scan'.root = scan.root /\ scan'.first = scan.first
        BY <1>2, <1>6, <2>0 DEF ScanType
    <2>2. SweepType' /\ Sound(files', last') /\ Progress'
          /\ \A p \in Universe : (InScope(p)' <=> InScope(p)) /\ (Found(p)' <=> Found(p))
                                        /\ (Met(p)' <=> Met(p))
        BY <1>4, <1>6, <2>1
    <2>3. CASE scan.warned
      <3>0. scan.todo = {}
          BY <1>1, <1>2, <1>6 DEF Walking
      <3>1. \A p \in Universe : ~Found(p)' => files'[p] = old'.files[p]
          BY <1>1, <1>2, <1>6, <2>2 DEF Walking, Met
      <3>3. \A p \in Universe : Found(p)' =>
               files'[p].val = disk'[p] \/ (scan'.warned /\ files'[p] = old'.files[p])
          BY <1>1, <1>2, <1>6, <2>1, <2>2, <2>3, <3>0 DEF Walking, Met, Written
      <3>2. Sweep!SweepExact'
          BY <2>1, <2>2, <2>3, <3>1, <3>3, SweepFinishes
      <3> QED
          BY <2>1, <2>2, <2>3, <3>2 DEF SweepInv
    <2>4. CASE ~scan.warned
      <3>1. scan'.root = 1
          BY <1>2, <2>1 DEF Walking
      <3>2. Renewed'
          BY <3>1 DEF Renewed
      <3>3. Complete'
        <4>1. ~scan.exceeded /\ scan.todo = {}
            BY <1>1, <1>2, <1>6 DEF Walking
        <4> QED
            BY <1>4, <1>6, <2>1, <2>4, <4>1
      <3> QED
          BY <1>6, <2>1, <2>2, <2>4, <3>2, <3>3 DEF SweepInv
    <2> QED
        BY <2>3, <2>4
  <1> QED
      BY <1>3, <1>5, <1>6 DEF Sweep!Walked

\* Deleting rows below the roots of files the walk did not meet.
LEMMA DeletingKeeps ==
    ASSUME SweepType, Sound(files, last), Progress, Complete, UNCHANGED <<disk, last, old>>,
           files' \in Table, scan' \in ScanType,
           scan'.roots = scan.roots, scan'.exact = scan.exact, scan'.gen = scan.gen,
           scan'.todo = scan.todo, scan'.seen = scan.seen, scan'.warned = scan.warned,
           scan'.exceeded = scan.exceeded,
           \A p \in Universe : \/ files'[p] = files[p]
                               \/ files'[p] = Sweep!NoRow /\ InScope(p) /\ ~Met(p)
    PROVE  /\ Sound(files', last') /\ Progress' /\ Complete'
           /\ \A p \in Universe : (InScope(p)' <=> InScope(p)) /\ (Found(p)' <=> Found(p))
              /\ (Met(p)' <=> Met(p))
           /\ \A p \in Universe : Met(p) => files'[p] = files[p]
           /\ \A p \in Universe : \A i : Ranged(p, i)' <=> Ranged(p, i)
  <1>1. \A p \in Universe : (InScope(p)' <=> InScope(p)) /\ (Found(p)' <=> Found(p))
              /\ (Met(p)' <=> Met(p))
      BY DEF InScope, Ranged, Found, Met
  <1>2. \A p \in Universe : \A i : Ranged(p, i)' <=> Ranged(p, i)
      BY DEF Ranged
  <1>3. Sweep!NoRow.gen = 0 /\ last \in Nat
      BY DEF Sweep!NoRow, Sweep!Row, SweepType
  <1>4. Sound(files', last')
      BY <1>3 DEF Sound
  <1>5. Progress'
    <2>1. \A p \in Universe : ~Found(p) => files'[p] \in {Sweep!NoRow, old.files[p]}
        BY DEF Progress
    <2>2. \A p \in Universe : ~InScope(p) => files'[p] = old.files[p]
        BY DEF Progress
    <2>3. \A p \in Universe : files'[p] # Sweep!NoRow /\ old.files[p] # Sweep!NoRow =>
             /\ files'[p].id = old.files[p].id
             /\ scan.exact /\ old.files[p].val = disk[p] => files'[p] = old.files[p]
        BY DEF Progress
    <2> QED
        BY <1>1, <2>1, <2>2, <2>3 DEF Progress
  <1>6. \A p \in Universe : Met(p) => files'[p] = files[p]
      OBVIOUS
  <1>7. Complete'
    <2>1. \A p \in Universe : Met(p)' => Written(p)'
        BY <1>1, <1>6 DEF Complete, Written
    <2>2. \A i \in scan'.seen : \E p \in Universe :
             Met(p)' /\ files'[p] # Sweep!NoRow /\ files'[p].id = i
        BY <1>1, <1>6 DEF Complete
    <2> QED
        BY <2>1, <2>2 DEF Complete
  <1> QED
      BY <1>1, <1>2, <1>4, <1>5, <1>6, <1>7

\* A root's rows of earlier generations are deleted.
LEMMA DeleteStaleKeeps ==
    ASSUME Sweep!SweepAssumption, SweepInv, Sweep!DeleteStale PROVE SweepInv'
  <1>1. /\ scan.pc = "stale" /\ UNCHANGED <<disk, last, old>>
        /\ files' = [p \in Universe |->
              IF files[p].gen < scan.gen /\ Sweep!InRange(p, Sweep!Trim(scan.roots[scan.root]))
                THEN Sweep!NoRow ELSE files[p]]
        /\ scan' = [scan EXCEPT !.root = @ + 1,
                                !.pc = IF scan.root = Len(scan.roots) THEN "done" ELSE @]
      BY DEF Sweep!DeleteStale
  <1>2. /\ scan \in ScanType /\ files \in Table /\ last \in Nat /\ Sound(files, last)
        /\ SweepType /\ Progress /\ Complete /\ Renewed /\ ~scan.exact /\ scan.gen = last
        /\ scan.root \in 1 .. Len(scan.roots) /\ scan.roots # <<>>
      BY <1>1 DEF SweepInv, SweepType
  <1>3. /\ scan' \in ScanType /\ scan'.root = scan.root + 1
        /\ scan'.pc = IF scan.root = Len(scan.roots) THEN "done" ELSE "stale"
        /\ scan'.roots = scan.roots /\ scan'.exact = scan.exact /\ scan'.gen = scan.gen
        /\ scan'.todo = scan.todo /\ scan'.seen = scan.seen /\ scan'.warned = scan.warned
        /\ scan'.exceeded = scan.exceeded
    <2> DEFINE next == IF scan.root = Len(scan.roots) THEN "done" ELSE "stale"
    <2>1. scan.root + 1 \in Nat /\ next \in {"idle", "gone", "walk", "select", "delete", "stale", "done"}
        BY <1>2
    <2>2. scan' = [scan EXCEPT !.root = scan.root + 1, !.pc = next]
        BY <1>1, <1>2 DEF ScanType
    <2> HIDE DEF next
    <2>3. /\ scan' \in ScanType /\ scan'.root = scan.root + 1 /\ scan'.pc = next
          /\ scan'.roots = scan.roots /\ scan'.exact = scan.exact /\ scan'.gen = scan.gen
          /\ scan'.todo = scan.todo /\ scan'.seen = scan.seen /\ scan'.warned = scan.warned
          /\ scan'.exceeded = scan.exceeded
        BY <1>2, <2>1, <2>2 DEF ScanType
    <2> QED
        BY <2>3 DEF next
  <1>4. files' \in Table
      BY <1>1, <1>2 DEF Table, Sweep!NoRow, Sweep!Row
  <1>5. \A p \in Universe : \/ files'[p] = files[p]
                            \/ files'[p] = Sweep!NoRow /\ InScope(p) /\ ~Met(p)
    <2>1. SUFFICES ASSUME NEW p \in Universe, files[p].gen < scan.gen, Ranged(p, scan.root)
                   PROVE  InScope(p) /\ ~Met(p)
        BY <1>1 DEF Ranged
    <2>2. InScope(p)
        BY <1>2, <2>1 DEF InScope
    <2>3. Met(p) => files[p].gen = scan.gen
        BY <1>2 DEF Complete, Written
    <2>4. files[p].gen \in Nat
        BY <1>2 DEF Table
    <2> QED
        BY <1>2, <2>1, <2>2, <2>3, <2>4
  <1>6. /\ Sound(files', last') /\ Progress' /\ Complete'
        /\ \A p \in Universe : (InScope(p)' <=> InScope(p)) /\ (Found(p)' <=> Found(p))
              /\ (Met(p)' <=> Met(p))
        /\ \A p \in Universe : \A i : Ranged(p, i)' <=> Ranged(p, i)
      BY <1>1, <1>2, <1>3, <1>4, <1>5, DeletingKeeps
  <1>7. SweepType'
    <2>1. Len(scan.roots) \in Nat
        BY <1>2 DEF ScanType
    <2>2. scan'.pc = "stale" => scan'.root \in 1 .. Len(scan'.roots)
        BY <1>2, <1>3, <2>1
    <2> QED
        BY <1>1, <1>2, <1>3, <1>4, <2>2 DEF SweepType, Sweep!Coherent
  <1>8. \A i \in 1 .. scan.root : \A p \in Universe :
           Ranged(p, i) => files'[p] = Sweep!NoRow \/ files'[p].gen = scan.gen
    <2>1. ASSUME NEW i \in 1 .. scan.root, NEW p \in Universe, Ranged(p, i)
          PROVE  files'[p] = Sweep!NoRow \/ files'[p].gen = scan.gen
      <3>1. CASE i = scan.root
        <4>1. files[p].gen \in Nat /\ files[p].gen <= last
            BY <1>2 DEF Table, Sound
        <4> QED
            BY <1>1, <1>2, <2>1, <3>1, <4>1 DEF Ranged
      <3>2. CASE i # scan.root
        <4>1. i \in 1 .. scan.root - 1
            BY <1>2, <3>2
        <4>2. files[p] = Sweep!NoRow \/ files[p].gen = scan.gen
            BY <1>2, <2>1, <4>1 DEF Renewed
        <4> QED
            BY <1>5, <4>2
      <3> QED
          BY <3>1, <3>2
    <2> QED
        BY <2>1
  <1>9. CASE scan.root # Len(scan.roots)
    <2>1. scan'.root - 1 = scan.root
        BY <1>2, <1>3
    <2>2. Renewed'
        BY <1>3, <1>6, <1>8, <2>1 DEF Renewed
    <2> QED
        BY <1>2, <1>3, <1>6, <1>7, <1>9, <2>2 DEF SweepInv
  <1>10. CASE scan.root = Len(scan.roots)
    <2>1. ASSUME NEW p \in Universe, InScope(p)', ~Found(p)'
          PROVE  files'[p] = Sweep!NoRow
      <3>1. PICK i \in 1 .. scan.root : Ranged(p, i)
          BY <1>6, <1>10, <2>1 DEF InScope
      <3>2. files'[p] = Sweep!NoRow \/ files'[p].gen = scan.gen
          BY <1>8, <3>1
      <3>3. files'[p] \in {Sweep!NoRow, old.files[p]}
          BY <1>1, <1>6, <2>1 DEF Progress
      <3>4. old.files[p].gen \in Nat /\ old.files[p].gen <= last - 1
          BY <1>2 DEF Progress, Sound, Table
      <3>5. old.files[p].gen # scan.gen
          BY <1>2, <3>4
      <3> QED
          BY <3>2, <3>3, <3>5
    <2>2. \A p \in Universe : Found(p)' => files'[p].val = disk'[p]
        BY <1>2, <1>3, <1>6 DEF Complete, Written, Met
    <2>3. ~scan'.warned
        BY <1>2, <1>3 DEF Complete
    <2>4. Sweep!SweepExact'
        BY <1>3, <1>6, <2>1, <2>2, <2>3, SweepFinishes
    <2> QED
        BY <1>3, <1>6, <1>7, <1>10, <2>4 DEF SweepInv
  <1> QED
      BY <1>9, <1>10

-----------------------------------------------------------------------------
(* The pages of the cleanup.                                               *)

\* The size of a set in the words of the component and of the library.
LEMMA SameSize ==
    /\ \A S : IsFiniteSet(S) = Sweep!IsFiniteSet(S)
    /\ \A S : Sweep!Cardinality(S) = Cardinality(S)
  BY DEF IsFiniteSet, Sweep!IsFiniteSet, Sweep!Cardinality, Cardinality

\* A page that is not the last has as many rows as a page holds, and is before the
\* rows it leaves out.
LEMMA PagesFirst ==
    ASSUME Sweep!SweepAssumption, NEW all \in SUBSET Universe, NEW page \in Sweep!FirstPages(all)
    PROVE  /\ page \subseteq all
           /\ \A p \in page, q \in all \ page : Sweep!LexLess(p, q)
           /\ Sweep!Cardinality(page) = Batch => page # {}
           /\ Sweep!Cardinality(page) # Batch => page = all
  <1>1. /\ page \subseteq all /\ \A p \in page, q \in all \ page : Sweep!LexLess(p, q)
        /\ Sweep!Cardinality(page) = Sweep!Min({Batch, Sweep!Cardinality(all)})
      BY DEF Sweep!FirstPages
  <1>2. IsFiniteSet(all) /\ IsFiniteSet(page)
    <2>1. IsFiniteSet(Universe)
        BY SameSize DEF Sweep!SweepAssumption
    <2> QED
        BY <1>1, <2>1, FS_Subset
  <1>3. Batch \in Nat /\ Batch # 0
      BY DEF Sweep!SweepAssumption
  <1>4. Cardinality(all) \in Nat /\ Cardinality(page) \in Nat
      BY <1>2, FS_CardinalityType
  <1>5. Sweep!Min({Batch, Cardinality(all)}) \in {Batch, Cardinality(all)}
      BY <1>3, <1>4, MinIsLeast
  <1>6. Cardinality(page) \in {Batch, Cardinality(all)}
      BY <1>1, <1>5, SameSize
  <1>7. Cardinality(page) = Batch => page # {}
      BY <1>3, FS_EmptySet
  <1>8. Cardinality(page) # Batch => page = all
      BY <1>1, <1>2, <1>6, FS_Subset
  <1> QED
      BY <1>1, <1>7, <1>8, SameSize

\* The next page is read: the rows before its end that the scan did not see are the
\* ones to delete.
LEMMA SelectKeeps ==
    ASSUME Sweep!SweepAssumption, SweepInv, Sweep!Select PROVE SweepInv'
  <1> DEFINE root == Sweep!Trim(scan.roots[scan.root])
             all == {p \in Sweep!Rows(files) : Sweep!Candidate(p, root)}
  <1>1. scan.pc = "select" /\ UNCHANGED <<disk, files, last, old>>
      BY DEF Sweep!Select
  <1>2. PICK page \in Sweep!FirstPages(all) : \E t \in Sweep!After(page) :
          scan' = [scan EXCEPT
              !.pc = "delete", !.more = Sweep!Cardinality(page) = Batch, !.cursor = t,
              !.stale = {p \in page : files[p].id \notin scan.seen}]
      BY DEF Sweep!Select
  <1>3. PICK top \in Sweep!After(page) :
          scan' = [scan EXCEPT
              !.pc = "delete", !.more = Sweep!Cardinality(page) = Batch, !.cursor = top,
              !.stale = {p \in page : files[p].id \notin scan.seen}]
      BY <1>2
  <1>4. /\ scan \in ScanType /\ files \in Table /\ SweepType /\ Sound(files, last) /\ Progress
        /\ scan.exact /\ Complete /\ Swept /\ scan.root \in 1 .. Len(scan.roots)
      BY <1>1 DEF SweepInv, SweepType
  <1>5. root \in Seq(Nat) /\ root # <<>> /\ Universe \subseteq Seq(Nat)
      BY <1>4, RootsArePaths DEF Sweep!SweepAssumption
  <1>6. all \in SUBSET Universe
      BY DEF Sweep!Rows
  <1> HIDE DEF all
  <1>7. /\ page \subseteq all /\ page \subseteq Universe
        /\ \A p \in page, q \in all \ page : Sweep!LexLess(p, q)
        /\ Sweep!Cardinality(page) = Batch => page # {}
        /\ Sweep!Cardinality(page) # Batch => page = all
      BY <1>6, PagesFirst
  <1>8. top \in page \cup {scan.cursor} /\ \A q \in page : Sweep!AtLeast(top, q)
      BY DEF Sweep!After
  <1>9. top \in Seq(Nat) /\ scan.cursor \in Seq(Nat)
      BY <1>4, <1>5, <1>7, <1>8 DEF ScanType
  <1>10. /\ scan' \in ScanType /\ scan'.pc = "delete" /\ scan'.cursor = top
         /\ scan'.more = (Sweep!Cardinality(page) = Batch)
         /\ scan'.stale = {p \in page : files[p].id \notin scan.seen}
         /\ scan'.roots = scan.roots /\ scan'.exact = scan.exact /\ scan'.gen = scan.gen
         /\ scan'.todo = scan.todo /\ scan'.seen = scan.seen /\ scan'.warned = scan.warned
         /\ scan'.exceeded = scan.exceeded /\ scan'.root = scan.root
    <2> DEFINE more == Sweep!Cardinality(page) = Batch
               stale == {p \in page : files[p].id \notin scan.seen}
    <2>1. more \in BOOLEAN /\ stale \in SUBSET Universe
        BY <1>7
    <2>2. scan' = [scan EXCEPT !.pc = "delete", !.more = more, !.cursor = top, !.stale = stale]
        BY <1>3
    <2> HIDE DEF more, stale
    <2>3. /\ scan' \in ScanType /\ scan'.pc = "delete" /\ scan'.cursor = top
          /\ scan'.more = more /\ scan'.stale = stale
          /\ scan'.roots = scan.roots /\ scan'.exact = scan.exact /\ scan'.gen = scan.gen
          /\ scan'.todo = scan.todo /\ scan'.seen = scan.seen /\ scan'.warned = scan.warned
          /\ scan'.exceeded = scan.exceeded /\ scan'.root = scan.root
        BY <1>4, <1>9, <2>1, <2>2 DEF ScanType
    <2> QED
        BY <2>3 DEF more, stale
  <1>11. /\ SweepType' /\ Sound(files', last')
         /\ \A p \in Universe : (InScope(p)' <=> InScope(p)) /\ (Found(p)' <=> Found(p))
              /\ (Met(p)' <=> Met(p))
         /\ \A p \in Universe : Cleaned(p)' <=> Cleaned(p)
         /\ \A p \in Universe : \A i : Ranged(p, i)' <=> Ranged(p, i)
      BY <1>1, <1>4, <1>10 DEF SweepType, Sweep!Coherent, InScope, Ranged, Found, Met, Cleaned
  <1>12. Progress' /\ Complete'
    <2>1. Progress'
        BY <1>1, <1>4, <1>10, <1>11 DEF Progress
    <2>2. \A p \in Universe : Met(p)' => Written(p)'
        BY <1>1, <1>4, <1>10, <1>11 DEF Complete, Written
    <2> QED
        BY <1>1, <1>4, <1>10, <1>11, <2>1, <2>2 DEF Complete
  <1>13. \A p \in all : Ranged(p, scan.root)
      BY DEF all, Sweep!Candidate, Sweep!InRange, Ranged
  <1>14. ASSUME NEW p \in Universe, Ranged(p, scan.root), ~Cleaned(p),
                Sweep!Cardinality(page) = Batch => ~Sweep!LexLess(top, p)
         PROVE  p \in page
    <2>1. p \in Sweep!Rows(files) /\ p \in Seq(Nat)
        BY <1>5, <1>14 DEF Cleaned, Sweep!Rows
    <2>2. CASE p \in all
      <3>1. SUFFICES ASSUME p \notin page PROVE FALSE
          OBVIOUS
      <3>2. Sweep!Cardinality(page) = Batch
          BY <1>7, <2>2, <3>1
      <3>3. PICK q \in page : TRUE
          BY <1>7, <3>2
      <3>4. CASE top \in page
          BY <1>7, <1>14, <2>2, <3>1, <3>2, <3>4
      <3>5. CASE top \notin page
        <4>1. top = scan.cursor /\ Sweep!LexLess(q, top)
            BY <1>8, <3>3, <3>5 DEF Sweep!AtLeast
        <4>2. Sweep!AtLeast(q, scan.cursor) /\ q \in Seq(Nat)
            BY <1>5, <1>7, <3>3 DEF all, Sweep!Candidate
        <4>3. Sweep!LexLess(top, q)
            BY <3>3, <3>5, <4>1, <4>2 DEF Sweep!AtLeast
        <4> QED
            BY <1>9, <4>1, <4>2, <4>3, LessAsymmetric
      <3> QED
          BY <3>4, <3>5
    <2>3. CASE p \notin all
      <3>1. Sweep!InRange(p, root)
          BY <1>14 DEF Ranged
      <3>2. Sweep!AtLeast(p, root) /\ Sweep!LexLess(p, Sweep!Upper(root))
          BY <1>5, <2>1, <3>1, RootFirst
      <3>3. p = root \/ Sweep!AtLeast(p, Sweep!Lower(root))
          BY <3>1 DEF Sweep!InRange
      <3>4. ~Sweep!Candidate(p, root)
          BY <2>1, <2>3 DEF all
      <3> HIDE DEF root
      <3>5. CASE scan.first
        <4>1. scan.cursor = root
            BY <1>1, <1>4, <3>5 DEF Swept, root
        <4> QED
            BY <3>2, <3>3, <3>4, <3>5, <4>1 DEF Sweep!Candidate
      <3>6. CASE ~scan.first
        <4>1. ~Sweep!LexLess(scan.cursor, p)
            BY <3>2, <3>3, <3>4 DEF Sweep!Candidate, Sweep!AtLeast
        <4> QED
            BY <1>1, <1>4, <1>14, <3>6, <4>1 DEF Swept
      <3> QED
          BY <3>5, <3>6
    <2> QED
        BY <2>2, <2>3
  <1>15. Swept'
    <2>1. \A i \in 1 .. scan'.root - 1 : \A p \in Universe : Ranged(p, i)' => Cleaned(p)'
        BY <1>4, <1>10, <1>11 DEF Swept
    <2>2. \A p \in scan'.stale : Ranged(p, scan.root)' /\ files'[p].id \notin scan'.seen
        BY <1>1, <1>7, <1>10, <1>11, <1>13
    <2>3. \A p \in Universe :
             Ranged(p, scan.root)' /\ (scan'.more => ~Sweep!LexLess(scan'.cursor, p))
               => Cleaned(p)' \/ p \in scan'.stale
      <3>1. ASSUME NEW p \in Universe, Ranged(p, scan.root),
                   scan'.more => ~Sweep!LexLess(top, p), ~Cleaned(p)
            PROVE  p \in scan'.stale
        <4>1. p \in page
            BY <1>10, <1>14, <3>1
        <4> QED
            BY <1>10, <3>1, <4>1 DEF Cleaned
      <3> QED
          BY <1>10, <1>11, <3>1
    <2> QED
        BY <1>10, <2>1, <2>2, <2>3 DEF Swept
  <1> QED
      BY <1>4, <1>10, <1>11, <1>12, <1>15 DEF SweepInv

\* The page's unseen rows go, and the next page or the next root is turned to.
LEMMA DeletePageKeeps ==
    ASSUME Sweep!SweepAssumption, SweepInv, Sweep!DeletePage PROVE SweepInv'
  <1>1. /\ scan.pc = "delete" /\ UNCHANGED <<disk, last, old>>
        /\ files' = [p \in Universe |-> IF p \in scan.stale THEN Sweep!NoRow ELSE files[p]]
      BY DEF Sweep!DeletePage
  <1>2. /\ scan \in ScanType /\ files \in Table /\ last \in Nat /\ Sound(files, last)
        /\ SweepType /\ Progress /\ Complete /\ Swept /\ scan.exact /\ scan.gen = last
        /\ scan.root \in 1 .. Len(scan.roots) /\ Len(scan.roots) \in Nat /\ scan.roots # <<>>
      BY <1>1 DEF SweepInv, SweepType, ScanType
  <1> DEFINE more == [scan EXCEPT !.pc = "select", !.first = FALSE, !.stale = {}]
             over == [scan EXCEPT !.pc = "done", !.stale = {}]
             turn == [scan EXCEPT !.pc = "select", !.root = @ + 1, !.first = TRUE, !.stale = {},
                                  !.cursor = Sweep!Trim(scan.roots[scan.root + 1])]
  <1>3. scan' = IF scan.more THEN more ELSE IF scan.root = Len(scan.roots) THEN over ELSE turn
      BY DEF Sweep!DeletePage
  <1>4. scan.more =>
          /\ scan' \in ScanType /\ scan'.pc = "select" /\ scan'.first = FALSE
          /\ scan'.roots = scan.roots /\ scan'.exact = scan.exact /\ scan'.gen = scan.gen
          /\ scan'.todo = scan.todo /\ scan'.seen = scan.seen /\ scan'.warned = scan.warned
          /\ scan'.exceeded = scan.exceeded
          /\ scan'.root = scan.root /\ scan'.cursor = scan.cursor
      BY <1>2, <1>3 DEF ScanType
  <1>5. ~scan.more /\ scan.root = Len(scan.roots) =>
          /\ scan' \in ScanType /\ scan'.pc = "done"
          /\ scan'.roots = scan.roots /\ scan'.exact = scan.exact /\ scan'.gen = scan.gen
          /\ scan'.todo = scan.todo /\ scan'.seen = scan.seen /\ scan'.warned = scan.warned
          /\ scan'.exceeded = scan.exceeded
      BY <1>2, <1>3 DEF ScanType
  <1>6. ~scan.more /\ scan.root # Len(scan.roots) =>
          /\ scan' \in ScanType /\ scan'.pc = "select" /\ scan'.first = TRUE
          /\ scan'.roots = scan.roots /\ scan'.exact = scan.exact /\ scan'.gen = scan.gen
          /\ scan'.todo = scan.todo /\ scan'.seen = scan.seen /\ scan'.warned = scan.warned
          /\ scan'.exceeded = scan.exceeded
          /\ scan'.root = scan.root + 1 /\ scan'.root \in 1 .. Len(scan.roots)
          /\ scan'.cursor = Sweep!Trim(scan.roots[scan.root + 1])
    <2>1. SUFFICES ASSUME ~scan.more, scan.root # Len(scan.roots)
                   PROVE  /\ turn \in ScanType /\ turn.pc = "select" /\ turn.first = TRUE
                          /\ turn.roots = scan.roots /\ turn.exact = scan.exact
                          /\ turn.gen = scan.gen /\ turn.todo = scan.todo
                          /\ turn.seen = scan.seen /\ turn.warned = scan.warned
                          /\ turn.exceeded = scan.exceeded
                          /\ turn.root = scan.root + 1 /\ turn.root \in 1 .. Len(scan.roots)
                          /\ turn.cursor = Sweep!Trim(scan.roots[scan.root + 1])
      <3> HIDE DEF turn
      <3> QED
          BY <1>3
    <2>2. scan.root + 1 \in 1 .. Len(scan.roots) /\ scan.root + 1 \in Nat
        BY <1>2, <2>1
    <2>3. Sweep!Trim(scan.roots[scan.root + 1]) \in Seq(Nat)
        BY <1>2, <2>2, RootsArePaths
    <2> QED
        BY <1>2, <2>2, <2>3 DEF ScanType
  <1> HIDE DEF more, over, turn
  <1>7. /\ scan' \in ScanType /\ scan'.roots = scan.roots /\ scan'.exact = scan.exact
        /\ scan'.gen = scan.gen /\ scan'.todo = scan.todo /\ scan'.seen = scan.seen
        /\ scan'.warned = scan.warned /\ scan'.exceeded = scan.exceeded
      BY <1>4, <1>5, <1>6
  <1>8. files' \in Table
      BY <1>1, <1>2 DEF Table, Sweep!NoRow, Sweep!Row
  <1>9. \A p \in Universe : \/ files'[p] = files[p]
                            \/ files'[p] = Sweep!NoRow /\ InScope(p) /\ ~Met(p)
    <2>1. SUFFICES ASSUME NEW p \in Universe, p \in scan.stale PROVE InScope(p) /\ ~Met(p)
        BY <1>1
    <2>2. Ranged(p, scan.root) /\ files[p].id \notin scan.seen
        BY <1>1, <1>2, <2>1 DEF Swept
    <2>3. Met(p) => files[p].id \in scan.seen
        BY <1>2 DEF Complete, Written
    <2> QED
        BY <1>2, <2>2, <2>3 DEF InScope
  <1>10. /\ Sound(files', last') /\ Progress' /\ Complete'
         /\ \A p \in Universe : (InScope(p)' <=> InScope(p)) /\ (Found(p)' <=> Found(p))
              /\ (Met(p)' <=> Met(p))
         /\ \A p \in Universe : \A i : Ranged(p, i)' <=> Ranged(p, i)
      BY <1>1, <1>2, <1>7, <1>8, <1>9, DeletingKeeps
  <1>11. SweepType'
    <2>1. scan'.pc \in {"select", "done"} /\ (scan'.pc = "select" => scan'.root \in 1 .. Len(scan.roots))
        BY <1>2, <1>4, <1>5, <1>6
    <2> QED
        BY <1>1, <1>2, <1>7, <1>8, <2>1 DEF SweepType, Sweep!Coherent
  <1>12. \A p \in Universe : Cleaned(p) \/ p \in scan.stale => Cleaned(p)'
    <2>1. \A p \in Universe : Cleaned(p) => Cleaned(p)'
        BY <1>7, <1>9 DEF Cleaned
    <2> QED
        BY <1>1, <2>1 DEF Cleaned
  <1>13. \A i \in 1 .. scan.root - 1 : \A p \in Universe : Ranged(p, i) => Cleaned(p)'
      BY <1>2, <1>12 DEF Swept
  <1>14. \A p \in Universe :
           Ranged(p, scan.root) /\ (scan.more => ~Sweep!LexLess(scan.cursor, p)) => Cleaned(p)'
    <2>1. \A p \in Universe :
             Ranged(p, scan.root) /\ (scan.more => ~Sweep!LexLess(scan.cursor, p))
               => Cleaned(p) \/ p \in scan.stale
        BY <1>1, <1>2 DEF Swept
    <2> QED
        BY <1>12, <2>1
  <1>15. ~scan.more => \A i \in 1 .. scan.root : \A p \in Universe : Ranged(p, i) => Cleaned(p)'
    <2>1. \A i \in 1 .. scan.root : i \in 1 .. scan.root - 1 \/ i = scan.root
        BY <1>2
    <2> QED
        BY <1>13, <1>14, <2>1
  <1>16. CASE scan.more
    <2>1. scan'.root - 1 = scan.root - 1
        BY <1>4, <1>16
    <2>2. Swept'
        BY <1>4, <1>10, <1>13, <1>14, <1>16, <2>1 DEF Swept
    <2> QED
        BY <1>2, <1>4, <1>10, <1>11, <1>16, <2>2 DEF SweepInv
  <1>17. CASE ~scan.more /\ scan.root # Len(scan.roots)
    <2>1. scan'.root - 1 = scan.root
      <3>1. scan.root \in Nat
          BY <1>2
      <3>2. scan'.root = scan.root + 1
          BY <1>6, <1>17
      <3> QED
          BY <3>1, <3>2
    <2>2. Swept'
        BY <1>6, <1>10, <1>15, <1>17, <2>1 DEF Swept
    <2> QED
        BY <1>2, <1>6, <1>10, <1>11, <1>17, <2>2 DEF SweepInv
  <1>18. CASE ~scan.more /\ scan.root = Len(scan.roots)
    <2>1. ASSUME NEW p \in Universe, InScope(p)', ~Found(p)'
          PROVE  files'[p] = Sweep!NoRow
      <3>1. PICK i \in 1 .. scan.root : Ranged(p, i)
          BY <1>10, <1>18, <2>1 DEF InScope
      <3>2. Cleaned(p)'
          BY <1>10, <1>15, <1>18, <3>1
      <3>3. SUFFICES ASSUME files'[p] # Sweep!NoRow PROVE FALSE
          OBVIOUS
      <3>4. PICK q \in Universe : Met(q)' /\ files'[q] # Sweep!NoRow /\ files'[q].id = files'[p].id
          BY <1>10, <3>2, <3>3 DEF Cleaned, Complete
      <3>5. p = q
          BY <1>10, <3>3, <3>4 DEF Sound
      <3> QED
          BY <2>1, <3>4, <3>5 DEF Met
    <2>2. \A p \in Universe : Found(p)' => files'[p].val = disk'[p]
        BY <1>10 DEF Complete, Written, Met
    <2>3. ~scan'.warned
        BY <1>10 DEF Complete
    <2>4. Sweep!SweepExact'
        BY <1>7, <1>10, <2>1, <2>2, <2>3, SweepFinishes
    <2> QED
        BY <1>5, <1>10, <1>11, <1>18, <2>4 DEF SweepInv
  <1> QED
      BY <1>16, <1>17, <1>18

\* Every step of the refreshes keeps the invariant.
LEMMA SweepStep ==
    ASSUME Sweep!SweepAssumption, SweepInv, [Sweep!Next]_sweepvars PROVE SweepInv'
  <1>1. CASE Sweep!Begin
      BY <1>1, BeginKeeps
  <1>2. CASE Sweep!Vanished
      BY <1>2, VanishedKeeps
  <1>3. CASE Sweep!Visit
      BY <1>3, VisitKeeps
  <1>4. CASE Sweep!Walked
      BY <1>4, WalkedKeeps
  <1>5. CASE Sweep!DeleteStale
      BY <1>5, DeleteStaleKeeps
  <1>6. CASE Sweep!Select
      BY <1>6, SelectKeeps
  <1>7. CASE Sweep!DeletePage
      BY <1>7, DeletePageKeeps
  <1>8. CASE Sweep!Commit \/ Sweep!Fail
      BY <1>8, IdleKeeps
  <1>9. CASE Sweep!Unreadable
      BY <1>9, UnreadableKeeps
  <1>10. CASE Sweep!Change
      BY <1>10, ChangeKeeps
  <1>11. CASE UNCHANGED sweepvars
      BY <1>11 DEF sweepvars, SweepInv, SweepType, Sound, Progress, Walking, Complete, Swept,
                   Renewed, Written, Met, Found, InScope, Ranged, Cleaned, Sweep!Coherent,
                   Sweep!Gone, Sweep!SweepExact
  <1> QED
      BY <1>1, <1>2, <1>3, <1>4, <1>5, <1>6, <1>7, <1>8, <1>9, <1>10, <1>11
         DEF Sweep!Next, Sweep!Refresh

\* The invariant says what the run checks of a refresh.
LEMMA SweepInvSafe == SweepInv => Sweep!SweepExact /\ Sweep!UnchangedRowsKept
  <1>1. SweepInv => Sweep!SweepExact
      BY DEF SweepInv, Sweep!SweepExact
  <1>2. ASSUME SweepInv, scan.pc \in {"select", "delete", "done"}, NEW p \in Universe,
               files[p] # Sweep!NoRow, old.files[p] # Sweep!NoRow
        PROVE  /\ files[p].id = old.files[p].id
               /\ scan.exact /\ old.files[p].val = disk[p] => files[p] = old.files[p]
      BY <1>2 DEF SweepInv, Progress
  <1> QED
      BY <1>1, <1>2 DEF Sweep!UnchangedRowsKept, Sweep!Rows

\* Whatever the paths, the requests, the ids the table starts with, the size of a page
\* and the limit of the bitmap are, and however the disk changes between two refreshes:
\* a refresh commits the table its walk found below its roots, nothing else is touched,
\* a walk with a warning deletes nothing, and unchanged rows keep their ids and, under an
\* exact scan, their generations.
THEOREM Sweeps ==
    ASSUME Sweep!SweepAssumption
    PROVE  Sweep!Spec => [](Sweep!SweepExact /\ Sweep!UnchangedRowsKept)
  <1>1. Sweep!Init => SweepInv
      BY SweepStarts
  <1>2. SweepInv /\ [Sweep!Next]_Sweep!vars => SweepInv'
      BY SweepStep DEF Sweep!vars, sweepvars
  <1> QED
      BY <1>1, <1>2, SweepInvSafe, PTL DEF Sweep!Spec

-----------------------------------------------------------------------------
(* The parts side by side *)

Migrating == INSTANCE MigrationProofs WITH MaxWrites <- MaxUpdates

\* The proofs of MigrationProofs are about the migration of this index.
LEMMA SameMigration ==
    /\ Schema!MigrationAssumption => Migrating!MigrationAssumption
    /\ Schema!Init => Migrating!Init
    /\ [Schema!Next]_(Schema!vars) => [Migrating!Next]_(Migrating!vars)
    /\ Migrating!Lowered /\ Migrating!OpenMeansMigrated
         => Schema!Lowered /\ Schema!OpenMeansMigrated
    /\ [Migrating!Counts]_(Migrating!vars) => [Schema!Counts]_(Schema!vars)
  <1>1. Schema!MigrationAssumption => Migrating!MigrationAssumption
      BY DEF Schema!MigrationAssumption, Schema!Full, Schema!Ascii, Schema!Lowers,
             Migrating!MigrationAssumption, Migrating!Full, Migrating!Ascii,
             Migrating!Lowers
  <1>2. Schema!Init => Migrating!Init
      BY DEF Schema!Init, Schema!Ids, Schema!Full, Schema!Ascii, Schema!Lowers,
             Schema!NoBatch, Migrating!Init, Migrating!Ids, Migrating!Full,
             Migrating!Ascii, Migrating!Lowers, Migrating!NoBatch
  <1>3. [Schema!Next]_(Schema!vars) => [Migrating!Next]_(Migrating!vars)
      BY DEF Schema!vars, Schema!store, Schema!Ids, Schema!Full, Schema!Ascii,
             Schema!Lowers, Schema!Live, Schema!NoBatch, Schema!Counted, Schema!Goto,
             Schema!Kept, Schema!Open, Schema!Alter, Schema!Backfill, Schema!Read,
             Schema!Update, Schema!Mark, Schema!Revise, Schema!Install, Schema!Journal,
             Schema!Triggers, Schema!Fail, Schema!Upsert, Schema!Remove, Schema!Next,
             Schema!Max, Schema!Cardinality, Migrating!vars, Migrating!store,
             Migrating!Ids, Migrating!Full, Migrating!Ascii, Migrating!Lowers,
             Migrating!Live, Migrating!NoBatch, Migrating!Counted, Migrating!Goto,
             Migrating!Kept, Migrating!Open, Migrating!Alter, Migrating!Backfill,
             Migrating!Read, Migrating!Update, Migrating!Mark, Migrating!Revise,
             Migrating!Install, Migrating!Journal, Migrating!Triggers, Migrating!Fail,
             Migrating!Upsert, Migrating!Remove, Migrating!Next, Migrating!Max,
             Migrating!Cardinality
  <1>4. Migrating!Lowered /\ Migrating!OpenMeansMigrated
          => Schema!Lowered /\ Schema!OpenMeansMigrated
      BY DEF Schema!Lowered, Schema!OpenMeansMigrated, Schema!Live, Schema!Ids,
             Schema!Full, Migrating!Lowered, Migrating!OpenMeansMigrated,
             Migrating!Live, Migrating!Ids, Migrating!Full
  <1>5. [Migrating!Counts]_(Migrating!vars) => [Schema!Counts]_(Schema!vars)
      BY DEF Schema!Counts, Schema!vars, Schema!store, Migrating!Counts, Migrating!vars,
             Migrating!store
  <1> QED
      BY <1>1, <1>2, <1>3, <1>4, <1>5

\* The invariant of the part that the behaviour is about.
StoreInv ==
    /\ part \in {"broken", "changing"} => BuildInv
    /\ part = "copy" => CopyInv
    /\ part = "statement" => StmtInv
    /\ part = "schema" => Migrating!Inv
    /\ part = "paths" => PathsInv
    /\ part = "sweep" => SweepInv

\* Each part starts as it does alone.
LEMMA StoreStarts == ASSUME MCInit PROVE StoreInv
  <1>1. CASE part \in {"broken", "changing"}
    <2>1. Building!Init
        BY <1>1 DEF MCInit
    <2> QED
        BY <1>1, <2>1, BuildStarts, PartsAssumption DEF StoreInv
  <1>2. CASE part = "copy"
    <2>1. Copying!Init
        BY <1>2 DEF MCInit
    <2> QED
        BY <1>2, <2>1, CopyStarts, PartsAssumption DEF StoreInv
  <1>3. CASE part = "statement"
    <2>1. Statement!Init
        BY <1>3 DEF MCInit
    <2> QED
        BY <1>3, <2>1, StmtStarts DEF StoreInv
  <1>4. CASE part = "schema"
    <2>1. Schema!Init
        BY <1>4 DEF MCInit
    <2>2. Migrating!Init /\ Migrating!MigrationAssumption
        BY <2>1, SameMigration, PartsAssumption
    <2> QED
        BY <1>4, <2>2, Migrating!InitInv DEF StoreInv
  <1>5. CASE part = "paths"
    <2>1. Upstream!Init
        BY <1>5 DEF MCInit
    <2> QED
        BY <1>5, <2>1, PathsStart, PartsAssumption DEF StoreInv
  <1>6. CASE part = "sweep"
    <2>1. Sweep!Init
        BY <1>6 DEF MCInit
    <2> QED
        BY <1>6, <2>1, SweepStarts, PartsAssumption DEF StoreInv
  <1> QED
      BY <1>1, <1>2, <1>3, <1>4, <1>5, <1>6 DEF StoreInv

\* A step of the index is a step of its part: no other part touches its variables.
LEMMA PartSteps ==
    ASSUME [MCNext]_vars
    PROVE  /\ part' = part
           /\ part \in {"broken", "changing"} => [Building!Next]_(Building!vars)
           /\ part = "copy" => [Copying!Next]_(Copying!vars)
           /\ part = "statement" => [Statement!Next]_(Statement!vars)
           /\ part = "schema" => [Schema!Next]_(Schema!vars)
           /\ part = "paths" => [Upstream!Consider]_(Upstream!vars)
           /\ part = "sweep" => [Sweep!Next]_sweepvars
  <1>1. part' = part
      BY DEF MCNext, ChangingStep, vars
  <1>2. part \in {"broken", "changing"} => [Building!Next]_(Building!vars)
      BY DEF MCNext, ChangingStep, vars, indexvars, Building!vars
  <1>3. part = "copy" => [Copying!Next]_(Copying!vars)
      BY DEF MCNext, ChangingStep, vars, copyvars, Copying!vars
  <1>4. part = "statement" => [Statement!Next]_(Statement!vars)
      BY DEF MCNext, ChangingStep, vars, stmtvars, Statement!vars
  <1>5. part = "schema" => [Schema!Next]_(Schema!vars)
      BY DEF MCNext, ChangingStep, vars, schemavars, Schema!vars, Schema!store
  <1>6. part = "paths" => [Upstream!Consider]_(Upstream!vars)
      BY DEF MCNext, ChangingStep, vars, pathvars, Upstream!vars
  <1>7. part = "sweep" => [Sweep!Next]_sweepvars
      BY DEF MCNext, ChangingStep, vars
  <1> QED
      BY <1>1, <1>2, <1>3, <1>4, <1>5, <1>6, <1>7

\* And each part goes on as it does alone.
LEMMA StoreSteps == ASSUME StoreInv, [MCNext]_vars PROVE StoreInv'
  <1>1. part' = part
      BY PartSteps
  <1>2. CASE part \in {"broken", "changing"}
    <2>1. BuildInv'
        BY <1>2, PartSteps, BuildStep, PartsAssumption DEF StoreInv
    <2> QED
        BY <1>1, <1>2, <2>1 DEF StoreInv
  <1>3. CASE part = "copy"
    <2>1. CopyInv'
        BY <1>3, PartSteps, CopyStep, PartsAssumption DEF StoreInv
    <2> QED
        BY <1>1, <1>3, <2>1 DEF StoreInv
  <1>4. CASE part = "statement"
    <2>1. StmtInv'
        BY <1>4, PartSteps, StmtStep, PartsAssumption DEF StoreInv
    <2> QED
        BY <1>1, <1>4, <2>1 DEF StoreInv
  <1>5. CASE part = "schema"
    <2>1. Migrating!Inv'
        BY <1>5, PartSteps, SameMigration, Migrating!StepInv, PartsAssumption DEF StoreInv
    <2> QED
        BY <1>1, <1>5, <2>1 DEF StoreInv
  <1>6. CASE part = "paths"
    <2>1. PathsInv'
        BY <1>6, PartSteps, PathsStep, PartsAssumption DEF StoreInv
    <2> QED
        BY <1>1, <1>6, <2>1 DEF StoreInv
  <1>7. CASE part = "sweep"
    <2>1. SweepInv'
        BY <1>7, PartSteps, SweepStep, PartsAssumption DEF StoreInv
    <2> QED
        BY <1>1, <1>7, <2>1 DEF StoreInv
  <1> QED
      BY <1>1, <1>2, <1>3, <1>4, <1>5, <1>6, <1>7 DEF StoreInv

\* The invariant of the index file's parts.
LEMMA StoreAlways == MCSpec => []StoreInv
  <1>1. MCInit => StoreInv
      BY StoreStarts
  <1>2. StoreInv /\ [MCNext]_vars => StoreInv'
      BY StoreSteps
  <1> QED
      BY <1>1, <1>2, PTL DEF MCSpec

\* The app rebuilds only an index that holds nothing, by a reply the database really
\* gave, while the command, crashes and the watcher run (app.rs, main.rs).
THEOREM RebuildsAreJustified == MCSpec => []RebuildJustified
  <1>1. StoreInv => RebuildJustified
      BY BuildInvSafe DEF StoreInv, RebuildJustified
  <1> QED
      BY <1>1, StoreAlways, PTL

\* Whatever step fails, a statement owns what it binds, holds no cursor open, leaves no
\* error behind but the id lookup's, and closes what it opened (db.rs
\* FileUpsert::upsert, sqlite.rs Statement).
THEOREM StatementIsSafe == MCSpec => []StatementSafe
  <1>1. StoreInv => StatementSafe
      BY StmtInvSafe DEF StoreInv, StatementSafe
  <1> QED
      BY <1>1, StoreAlways, PTL

\* FSEvents keeps quiet only about what the callback would reject, never about a root
\* (watch.rs, upstream_exclusion_paths; scanner.rs, ExcludeMatcher).
THEOREM ExclusionsAreExact == MCSpec => []ExclusionsExact
  <1>1. StoreInv => ExclusionsExact
      BY PathsInvSafe, PartsAssumption DEF StoreInv, ExclusionsExact
  <1> QED
      BY <1>1, StoreAlways, PTL

\* A refresh commits below its roots exactly what its walk found, leaves what is beside
\* them alone, deletes nothing after a warning, and writes no unchanged row in an exact
\* scan (db.rs, SeenIds, delete_unseen_under_roots; scanner.rs, refresh_roots).
THEOREM SweepIsExact == MCSpec => []SweepExact
  <1>1. StoreInv => SweepExact
      BY SweepInvSafe DEF StoreInv, SweepExact
  <1> QED
      BY <1>1, StoreAlways, PTL

\* optimize succeeds over a quiet source, with a verified copy of its own, and spares
\* what others put at its output (db.rs, compact_copy).
THEOREM CopyIsSafe == MCSpec => CopySafe
  <1>1. StoreInv => (part = "copy" => Copying!SuccessIsQuiet /\ Copying!PublishedIsVerified)
      BY CopyInvSafe DEF StoreInv
  <1>2. StoreInv /\ [MCNext]_vars
          => [part = "copy" => Copying!ReportsOwn /\ Copying!SparesOther]_vars
    <2> SUFFICES ASSUME StoreInv, [MCNext]_vars, part = "copy", ~ UNCHANGED vars
                 PROVE  Copying!ReportsOwn /\ Copying!SparesOther
        OBVIOUS
    <2>1. [Copying!ReportsOwn]_(Copying!vars) /\ [Copying!SparesOther]_(Copying!vars)
        BY PartSteps, CopyStepSafe, PartsAssumption DEF StoreInv
    <2>2. ~ UNCHANGED Copying!vars
        BY DEF MCNext, ChangingStep, vars, copyvars, indexvars, sweepvars, stmtvars,
               schemavars, pathvars, Copying!vars
    <2> QED
        BY <2>1, <2>2
  <1> QED
      BY <1>1, <1>2, StoreAlways, PTL DEF CopySafe, MCSpec

\* Processes that open an old file together leave it migrated, and an open one sees
\* no row change without its revision (db.rs, Database::open).
THEOREM MigrationIsSafe == MCSpec => MigrationSafe
  <1>1. StoreInv => (part = "schema" => Schema!Lowered /\ Schema!OpenMeansMigrated)
      BY Migrating!InvSafe, SameMigration DEF StoreInv
  <1>2. StoreInv /\ [MCNext]_vars => [part = "schema" => Schema!Counts]_vars
    <2> SUFFICES ASSUME StoreInv, [MCNext]_vars, part = "schema", ~ UNCHANGED vars
                 PROVE  Schema!Counts
        OBVIOUS
    <2>1. Migrating!Inv /\ [Migrating!Next]_(Migrating!vars) /\ Migrating!MigrationAssumption
        BY PartSteps, SameMigration, PartsAssumption DEF StoreInv
    <2>2. [Schema!Counts]_(Schema!vars)
        BY <2>1, Migrating!StepCounts, SameMigration
    <2>3. ~ UNCHANGED Schema!vars
        BY DEF MCNext, ChangingStep, vars, copyvars, indexvars, sweepvars, stmtvars,
               schemavars, pathvars, Schema!vars, Schema!store
    <2> QED
        BY <2>2, <2>3
  <1> QED
      BY <1>1, <1>2, StoreAlways, PTL DEF MigrationSafe, MCSpec
=============================================================================
