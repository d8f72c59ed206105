---------------------------- MODULE SqlStatement ----------------------------
(***************************************************************************)
(* The SQLite binding under its busiest user: a connection, the prepared   *)
(* statements of the scanner's upsert, and what their bindings point to    *)
(* (sqlite.rs Connection, Statement; db.rs FileUpsert::upsert,             *)
(* bind_file_content, prepare_scanner_upsert).                             *)
(*                                                                         *)
(* bind_text hands SQLite a pointer into a buffer that Statement keeps in  *)
(* bound_text (destructor None: SQLite neither copies nor frees it).  A    *)
(* record is a path, which may hold a NUL byte, and an extension, which    *)
(* may be absent; a buffer is the number of the upsert that made it.       *)
(***************************************************************************)
EXTENDS Naturals, FiniteSets

CONSTANTS
    Failing,      \* statements whose step may report an error
    MaxUpserts    \* bound

Stmts == {"write", "probe", "id"}
StatementAssumption == Failing \subseteq Stmts /\ MaxUpserts \in Nat

VARIABLES
    handle,   \* the sqlite3* is open: "none", "raw" (not configured yet) or "open"
    live,     \* statements prepared and not finalized
    vm,       \* state of each statement's machine
    bind,     \* what each parameter is bound to: 0 for NULL, or a buffer
    text,     \* bound_text of each statement
    pc, cur,  \* operation of the running upsert and its statement, or the caller's
    rec,      \* the record it writes
    n         \* upserts begun

vars == <<handle, live, vm, bind, text, pc, cur, rec, n>>

Params == {"path", "ext"}
Records == [nul : BOOLEAN, ext : BOOLEAN]
Unbound == [p \in Params |-> 0]

Init ==
    /\ handle = "none" /\ live = {} /\ vm = [s \in Stmts |-> "ready"]
    /\ bind = [s \in Stmts |-> Unbound] /\ text = [s \in Stmts |-> {}]
    /\ pc = "closed" /\ cur = "probe" /\ rec = [nul |-> FALSE, ext |-> FALSE] /\ n = 0

-----------------------------------------------------------------------------
(* Connection *)

Quiet == UNCHANGED <<bind, text, rec, n>>

\* open_with_flags: on an error sqlite3_open_v2 leaves no handle, or one that is
\* closed at once.
Open ==
    /\ pc = "closed"
    /\ \/ handle' = "raw" /\ pc' = "configure"
       \/ UNCHANGED <<handle, pc>>
    /\ UNCHANGED <<live, vm>> /\ Quiet

\* busy_timeout and the PRAGMAs; the Connection exists by then, so an error drops it.
Configure ==
    /\ pc = "configure"
    /\ \/ handle' = "open" /\ pc' = "prepare"
       \/ handle' = "none" /\ pc' = "closed"
    /\ UNCHANGED <<live, vm>> /\ Quiet

\* prepare_scanner_upsert: an error drops the statements prepared so far.
Prepare ==
    /\ pc = "prepare"
    /\ \/ \E s \in Stmts \ live :
             /\ s # "write" => "write" \in live
             /\ s = "id" => "probe" \in live
             /\ live' = live \cup {s} /\ vm' = [vm EXCEPT ![s] = "ready"]
             /\ pc' = IF live' = Stmts THEN "idle" ELSE pc
       \/ live' = {} /\ pc' = "drop" /\ vm' = vm
    /\ handle' = handle /\ Quiet

\* Statement's Drop: sqlite3_finalize, then the fields and their buffers.
Finalize ==
    /\ pc = "idle" /\ live' = {} /\ pc' = "drop"
    /\ bind' = [s \in Stmts |-> Unbound] /\ text' = [s \in Stmts |-> {}]
    /\ UNCHANGED <<handle, vm, rec, n>>

\* Connection's Drop; sqlite3_close refuses while a statement lives.
Close ==
    /\ pc = "drop" /\ pc' = "closed" /\ handle' = "none"
    /\ UNCHANGED <<live, vm>> /\ Quiet

-----------------------------------------------------------------------------
(* Statement *)

\* A slip: the buffers go first.
SlipReset(s) ==
    /\ vm' = [vm EXCEPT ![s] = "ready"] /\ text' = [text EXCEPT ![s] = {}]
    /\ bind' = IF vm[s] = "error" THEN bind ELSE [bind EXCEPT ![s] = Unbound]

\* sqlite3_reset repeats the error of the last step, and then reset returns with the
\* bindings and their buffers in place; otherwise both are cleared, bindings first.
Reset(s) ==
    /\ vm' = [vm EXCEPT ![s] = "ready"]
    /\ IF vm[s] = "error" THEN UNCHANGED <<bind, text>>
       ELSE bind' = [bind EXCEPT ![s] = Unbound] /\ text' = [text EXCEPT ![s] = {}]

\* bind_file_content: in order, and an error ends it.
BindContent(s) ==
    IF rec.nul THEN UNCHANGED <<bind, text>>
    ELSE LET e == IF s # "id" /\ rec.ext THEN n ELSE 0 IN
         /\ bind' = [bind EXCEPT ![s] = [path |-> n, ext |-> e]]
         /\ text' = [text EXCEPT ![s] = @ \cup {n}]

-----------------------------------------------------------------------------
(* FileUpsert::upsert *)

Stay == UNCHANGED <<handle, live, rec, n>>

\* The next operation of the upsert, on statement s.
Go(op, s) == pc' = op /\ cur' = s

\* An error leaves upsert; its caller rolls the transaction back and may try again.
Give == pc' = "idle" /\ cur' = cur

Upsert ==
    /\ pc = "idle" /\ n < MaxUpserts /\ n' = n + 1 /\ rec' \in Records
    /\ Go("reset", "probe") /\ UNCHANGED <<handle, live, vm, bind, text>>

ResetStep ==
    /\ pc = "reset" /\ Reset(cur) /\ Stay
    /\ IF vm[cur] = "error" THEN Give ELSE Go("bind", cur)

BindStep ==
    /\ pc = "bind" /\ BindContent(cur) /\ vm' = vm /\ Stay
    /\ IF rec.nul THEN Give ELSE Go("step", cur)

\* sqlite3_step: a row, no (more) rows, or an error.
StepStep ==
    /\ pc = "step" /\ UNCHANGED <<bind, text>> /\ Stay
    /\ \/ /\ cur # "write" /\ vm' = [vm EXCEPT ![cur] = "row"] /\ Go("release", cur)
       \/ /\ vm' = [vm EXCEPT ![cur] = "done"]
          /\ CASE cur = "probe" -> Go("release", cur)
               [] cur = "write" -> Go("reset", "id")
               [] cur = "id"    -> Give
       \/ /\ cur \in Failing /\ vm' = [vm EXCEPT ![cur] = "error"]
          /\ IF cur = "id" THEN Give ELSE Go("consume", cur)

\* let _ = reset(): the error of the step is reported once more, to nobody.
Consume == pc = "consume" /\ Reset(cur) /\ Give /\ Stay

\* The read cursor is closed before the next write.
Release ==
    /\ pc = "release" /\ Reset(cur) /\ Stay
    /\ \/ vm[cur] = "row" /\ pc' = "idle" /\ cur' = cur
       \/ vm[cur] = "done" /\ Go("reset", "write")

Next ==
    \/ (Open \/ Configure \/ Prepare \/ Finalize \/ Close) /\ cur' = cur
    \/ Upsert \/ ResetStep \/ BindStep \/ StepStep \/ Consume \/ Release

Spec == Init /\ [][Next]_vars

-----------------------------------------------------------------------------
\* Whatever failed before, a parameter SQLite may read points into a buffer that the
\* statement still owns, and the buffers of a long scan do not pile up.
BindingsOwned ==
    \A s \in Stmts :
        /\ \A p \in Params : bind[s][p] # 0 => bind[s][p] \in text[s]
        /\ Cardinality(text[s]) <= 1

\* No read cursor stays open while the upsert writes or the caller goes on after it.
NoOpenCursor ==
    /\ pc = "step" /\ cur = "write" => vm["probe"] # "row" /\ vm["id"] # "row"
    /\ pc = "idle" => \A s \in Stmts : vm[s] # "row"

\* "so the first legal retry after caller rollback can bind normally" (db.rs:229):
\* an upsert never fails for what an earlier one reported.  The id lookup breaks it,
\* whose error returns from upsert before the reset that would consume it (db.rs:237).
RetryBinds == pc = "reset" => vm[cur] # "error"

\* Nothing else does: the probe and the write consume their errors before the caller
\* goes on, and only a lookup of the id can refuse an upsert for an earlier one's.
OnlyLookupKeepsError ==
    \A s \in Stmts : vm[s] = "error" => s = "id" \/ (pc = "consume" /\ cur = s)

\* Every way out of opening, preparing and dropping closes what it opened.
NothingLeaks == (pc = "closed" => handle = "none") /\ (live # {} => handle = "open")

\* All that holds whatever fails.
StatementSafe == BindingsOwned /\ NoOpenCursor /\ OnlyLookupKeepsError /\ NothingLeaks
=============================================================================
