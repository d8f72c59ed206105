----------------------------- MODULE MCProcesses -----------------------------
(* What runs around the index for as long as the processes live: the         *)
(* connections of the service, its memory audit, the diagnostics of the      *)
(* watcher, and the FSEvents stream.  A behaviour is one of these.  What      *)
(* ProcessProofs proves for every value is given its values in the cfg.      *)
EXTENDS Naturals, Sequences, SequencesExt

CONSTANTS
    Clients, Messages, HasToken, MaxRequests, MaxSearches,    \* HttpService
    HeaderLimit, Buffer, TotalTimeout,
    Crowd, CrowdMessages, CrowdHeader,                        \* HttpService again
    Pending, PerWindow, Timers, MaxRevision, MaxTime, MaxFlushes,   \* MemoryAudit
    MaxMade,                                                  \* bound on the records made
    Writers, FileBytes, Sizes, MaxRecords, MaxFiles,          \* LogFile
    Window, Records, Reserved, MaxCalls, MaxTicks, MaxBatched,  \* TriggerLog
    RootCount, ExclusionLimit, MaxEvents                      \* StreamSetup

VARIABLES
    part, pc, now, started, events,
    message, got, age, seen, active, searching, traffic, answer,
    service, audit, timer, made, lines,
    mode, lock, current, previous, data, writer, newest,
    log, inbox, pending, calls, shown,
    requested, live, owned, excluded, closed, worker

httpvars == <<message, got, age, seen, active, searching, traffic, answer>>
auditvars == <<service, audit, timer, made, lines>>
filevars == <<mode, lock, current, previous, data, writer, newest>>
triggervars == <<log, inbox, pending, calls, shown>>
setupvars == <<requested, live, owned, excluded, closed, worker>>
vars == <<part, pc, now, started, events, httpvars, auditvars, filevars, triggervars, setupvars>>

NoHttp ==
    /\ message = 0 /\ got = 0 /\ age = 0 /\ seen = 0 /\ active = 0 /\ searching = 0
    /\ traffic = 0 /\ answer = 0
NoAudit == service = 0 /\ audit = 0 /\ timer = 0 /\ made = 0 /\ lines = 0
NoFile ==
    /\ mode = 0 /\ lock = 0 /\ current = 0 /\ previous = 0 /\ data = 0 /\ writer = 0
    /\ newest = 0
NoTrigger == log = 0 /\ inbox = 0 /\ pending = 0 /\ calls = 0 /\ shown = 0
NoSetup ==
    requested = 0 /\ live = 0 /\ owned = 0 /\ excluded = 0 /\ closed = 0 /\ worker = 0

-----------------------------------------------------------------------------
(* Clients that send a whole request, the token in the body, in a second      *)
(* Authorization header, or bare line feeds; then three clients that fill the *)
(* two request slots, each with a short message after which it may close.     *)

Crlf == <<"CR", "LF">>
Request(text) == FoldLeft(LAMBDA m, l : m \o <<l>> \o Crlf, <<>>, text) \o Crlf

MCMessages ==
    {Request(<<"GET /search?q=a", "Authorization: token">>),
     Request(<<"POST /reload", "Authorization: token">>),
     Request(<<"POST /reload", "Authorization: other", "Authorization: token">>),
     Request(<<"GET /status">>) \o <<"Authorization: token">> \o Crlf,
     <<"GET /search", "LF", "Authorization: token", "LF", "LF", "CR">>}

Requests == INSTANCE HttpService

MCCrowdMessages == {<<"GET /search?q=a">>}

Crowded == INSTANCE HttpService WITH
    Clients <- Crowd, Messages <- CrowdMessages, HasToken <- FALSE, HeaderLimit <- CrowdHeader,
    Buffer <- 1, TotalTimeout <- 0

-----------------------------------------------------------------------------
(* A queue of two records and the code's two captures a second, so that three *)
(* captures in two seconds fill it; start is called twice.                    *)

Audit == INSTANCE MemoryAudit

(* Two processes, files of three bytes and records of one or two, so that     *)
(* every other record rotates.                                                *)

File == INSTANCE LogFile

(* A window of two ticks and three records, one of them reserved, so that     *)
(* storms, errors and new windows meet within five calls; then four events    *)
(* spread over batches, with the three first ones kept.                       *)

Trigger == INSTANCE TriggerLog WITH MaxTime <- MaxTicks, MaxEvents <- MaxBatched

Setup == INSTANCE StreamSetup

ASSUME PartsAssumption ==
    /\ Requests!HttpAssumption /\ Crowded!HttpAssumption /\ Audit!AuditAssumption
    /\ File!LogAssumption /\ Trigger!TriggerAssumption /\ Setup!SetupAssumption

-----------------------------------------------------------------------------
MCInit ==
    \/ /\ \/ part = "requests" /\ Requests!Init
          \/ part = "crowded" /\ Crowded!Init
       /\ now = 0 /\ started = 0 /\ events = 0 /\ NoAudit /\ NoFile /\ NoTrigger /\ NoSetup
    \/ /\ part = "audit" /\ Audit!Init
       /\ pc = 0 /\ events = 0 /\ NoHttp /\ NoFile /\ NoTrigger /\ NoSetup
    \/ /\ part = "file" /\ File!Init
       /\ pc = 0 /\ now = 0 /\ started = 0 /\ events = 0 /\ NoHttp /\ NoAudit /\ NoTrigger /\ NoSetup
    \/ /\ part \in {"trigger", "evidence"} /\ Trigger!Init
       /\ pc = 0 /\ started = 0 /\ NoHttp /\ NoAudit /\ NoFile /\ NoSetup
    \/ /\ part = "setup" /\ Setup!Init
       /\ now = 0 /\ NoHttp /\ NoAudit /\ NoFile /\ NoTrigger

CrowdedStep(A) ==
    /\ part = "crowded" /\ A
    /\ UNCHANGED <<part, now, started, events, auditvars, filevars, triggervars, setupvars>>

MCNext ==
    \/ /\ part = "requests" /\ Requests!Next
       /\ UNCHANGED <<part, now, started, events, auditvars, filevars, triggervars, setupvars>>
    \/ \E c \in Crowd : CrowdedStep(Crowded!Step(c))
    \/ /\ part = "audit" /\ Audit!Next /\ made' <= MaxMade
       /\ UNCHANGED <<part, pc, events, httpvars, filevars, triggervars, setupvars>>
    \/ /\ part = "file" /\ File!Next
       /\ UNCHANGED <<part, pc, now, started, events, httpvars, auditvars, triggervars, setupvars>>
    \/ /\ \/ /\ part = "trigger" /\ Trigger!Next
             /\ <<inbox, pending, events>>' = <<inbox, pending, events>>
          \/ /\ part = "evidence" /\ Trigger!Next
             /\ <<now, log, calls, shown>>' = <<now, log, calls, shown>>
       /\ UNCHANGED <<part, pc, started, httpvars, auditvars, filevars, setupvars>>
    \/ /\ part = "setup" /\ Setup!Next
       /\ UNCHANGED <<part, now, httpvars, auditvars, filevars, triggervars>>

MCSpec ==
    /\ MCInit /\ [][MCNext]_vars
    /\ \A c \in Crowd : WF_vars(CrowdedStep(Crowded!Step(c)))

-----------------------------------------------------------------------------
\* The counts of requests and searches are those of the handlers and within limits; a
\* handler waits for bytes only while the header is incomplete and within the limits
\* of size and time; only a client that sent the token in its header is served; once
\* every connection has ended the counters balance and no slot is held.
ConnectionsSound ==
    /\ part = "requests" => Requests!ConnectionsSound
    /\ part = "crowded" => Crowded!ConnectionsSound

\* Every connection ends, whatever its client does.
EveryConnectionEnds == \A c \in Crowd : <>(part = "crowded" => Crowded!Ended(c))

\* Every record the audit was asked for is in the file, waiting, on its way, or counted
\* as suppressed; lines are numbered upwards in the order of their captures; a refresh
\* in a fresh window has its outcome captured; an idle record repeats the service's
\* own state.
AuditSound == part = "audit" => Audit!AuditSound

\* No log file grows past its bound, and what was last written is in one of the two
\* files, through every rotation and wherever a process ends.
LogsKept == part = "file" => File!FilesBounded /\ File!NewestKept

\* A record counts the calls that left no line since the one before it, a recovery
\* record is refused only after the reserved slots went to such records, and merged
\* batches tell what one batch of all their events would.
TriggersTold ==
    part \in {"trigger", "evidence"} =>
        Trigger!GapsCounted /\ Trigger!RecoveryHeard /\ Trigger!EvidenceExact

\* What the stream points to outlives it, and however watch_index ends, it has
\* stopped the stream and released what it made.
StreamSafe == part = "setup" => Setup!StreamSafe
=============================================================================
