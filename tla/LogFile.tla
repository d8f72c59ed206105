------------------------------- MODULE LogFile -------------------------------
(***************************************************************************)
(* The diagnostic files several processes append to: the trigger log and   *)
(* the memory log with their one rotation, and the startup summary that is *)
(* overwritten (watch.rs append_trigger_record, private_log_file,          *)
(* write_startup_summary; serve_memory.rs append_record, private_file).    *)
(*                                                                         *)
(* The lock is flock on a separate file that is never renamed; it is not   *)
(* waited for.  A file is its length and the records written to it, each   *)
(* whole or the part that a full disk or the end of a process left.        *)
(***************************************************************************)
EXTENDS Naturals, Sequences, FiniteSets

CONSTANTS
    Writers,
    FileBytes,      \* LOG_FILE_BYTES, FILE_BYTES
    Sizes,          \* lengths of records
    MaxRecords,     \* bound on records
    MaxFiles        \* bound on files created

LogAssumption ==
    /\ "none" \notin Writers /\ FileBytes \in Nat /\ Sizes \subseteq 1 .. FileBytes

VARIABLES
    mode,       \* "rotate", or "truncate" for the summary
    lock,       \* holder of the flock, or "none"
    current,    \* file at the path, 0 when there is none
    previous,   \* file at .jsonl.1
    data,       \* contents of every file ever created
    writer,     \* each process: pc, its descriptor, its record
    newest      \* the last record of which something was written

vars == <<mode, lock, current, previous, data, writer, newest>>

Idle == [pc |-> "idle", fd |-> 0, rec |-> 0, size |-> 0]
Empty == [bytes |-> 0, ids |-> <<>>]
Ids(f) == {data[f].ids[i] : i \in 1 .. Len(data[f].ids)}

Init ==
    /\ mode \in {"rotate", "truncate"} /\ lock = "none" /\ current = 0 /\ previous = 0
    /\ data = <<>> /\ writer = [w \in Writers |-> Idle] /\ newest = 0

Stored == UNION {Ids(f) : f \in 1 .. Len(data)}

At(w, pc) == writer[w].pc = pc
Set(w, r) == writer' = [writer EXCEPT ![w] = r]
Goto(w, pc) == Set(w, [writer[w] EXCEPT !.pc = pc])

\* A record to append; numbers are never used twice.
Begin(w, size) ==
    /\ At(w, "idle")
    /\ \E id \in 1 .. MaxRecords :
          /\ \A i \in 1 .. id - 1 : i \in Stored \cup {writer[v].rec : v \in Writers}
          /\ id \notin Stored \cup {writer[v].rec : v \in Writers}
          /\ Set(w, [pc |-> "lock", fd |-> 0, rec |-> id, size |-> size])
    /\ UNCHANGED <<mode, lock, current, previous, data, newest>>

\* A slip: the lock is asked for and the answer ignored.
SlipLock(w) ==
    /\ At(w, "lock") /\ lock' = (IF lock = "none" THEN w ELSE lock) /\ Goto(w, "open")
    /\ UNCHANGED <<mode, current, previous, data, newest>>

\* flock(LOCK_EX | LOCK_NB): somebody else's lock is an error.
Lock(w) ==
    /\ At(w, "lock")
    /\ \/ lock = "none" /\ lock' = w /\ Goto(w, "open")
       \/ lock # "none" /\ lock' = lock /\ Set(w, Idle)
    /\ UNCHANGED <<mode, current, previous, data, newest>>

\* Open for appending, creating the file when there is none.
OpenAs(w, pc) ==
    IF current # 0 THEN Set(w, [writer[w] EXCEPT !.pc = pc, !.fd = current])
                        /\ UNCHANGED <<current, data>>
    ELSE /\ Len(data) < MaxFiles
         /\ current' = Len(data) + 1 /\ data' = Append(data, Empty)
         /\ Set(w, [writer[w] EXCEPT !.pc = pc, !.fd = current'])

Open(w) == At(w, "open") /\ OpenAs(w, "size") /\ UNCHANGED <<mode, lock, previous, newest>>

\* The path still names the file that was opened, and the file is within its bound;
\* a record that does not fit any more asks for the rotation.
Size(w) ==
    /\ At(w, "size")
    /\ LET used == data[writer[w].fd].bytes IN
       Goto(w, IF used > FileBytes THEN "close"
               ELSE IF mode = "truncate" THEN "truncate"
               ELSE IF used + writer[w].size > FileBytes THEN "remove" ELSE "write")
    /\ UNCHANGED <<mode, lock, current, previous, data, newest>>

Remove(w) ==
    /\ At(w, "remove") /\ previous' = 0 /\ Goto(w, "rename")
    /\ UNCHANGED <<mode, lock, current, data, newest>>

Rename(w) ==
    /\ At(w, "rename") /\ previous' = current /\ current' = 0 /\ Goto(w, "reopen")
    /\ UNCHANGED <<mode, lock, data, newest>>

Reopen(w) == At(w, "reopen") /\ OpenAs(w, "write") /\ UNCHANGED <<mode, lock, previous, newest>>

\* set_len(0).
Truncate(w) ==
    /\ At(w, "truncate") /\ data' = [data EXCEPT ![writer[w].fd] = Empty] /\ Goto(w, "write")
    /\ UNCHANGED <<mode, lock, current, previous, newest>>

\* write_all: the whole record, or a part of it and an error.
Write(w) ==
    /\ At(w, "write")
    /\ LET r == writer[w] IN
       /\ \E n \in 1 .. r.size :
             data' = [data EXCEPT ![r.fd] = [bytes |-> @.bytes + n, ids |-> Append(@.ids, r.rec)]]
       /\ newest' = r.rec
    /\ Goto(w, "close") /\ UNCHANGED <<mode, lock, current, previous>>

\* Closing the lock's descriptor releases it; the end of a process does too, anywhere.
Close(w) ==
    /\ writer[w].pc \notin {"idle", "lock"} /\ Set(w, Idle)
    /\ lock' = IF lock = w THEN "none" ELSE lock
    /\ UNCHANGED <<mode, current, previous, data, newest>>

Next ==
    \E w \in Writers :
        \/ \E s \in Sizes : Begin(w, s)
        \/ Lock(w) \/ Open(w) \/ Size(w) \/ Remove(w) \/ Rename(w) \/ Reopen(w) \/ Truncate(w)
        \/ Write(w) \/ Close(w)

Spec == Init /\ [][Next]_vars

-----------------------------------------------------------------------------
\* Whatever the processes do, and wherever one ends, no file grows past its bound
\* and the summary holds what a single write left.
FilesBounded ==
    \A f \in 1 .. Len(data) :
        /\ data[f].bytes <= FileBytes
        /\ mode = "truncate" => Len(data[f].ids) <= 1

\* What was last written is in one of the two files a reader looks at, through every
\* rotation and every end of a process inside one.
NewestKept ==
    mode = "rotate" /\ newest # 0 =>
        \E f \in {current, previous} \ {0} : newest \in Ids(f)
=============================================================================
