---------------------------- MODULE HttpService -----------------------------
(***************************************************************************)
(* The connections of `macevery serve`: one thread accepts them and spawns *)
(* a handler while fewer than MaxRequests run; a handler reads the header  *)
(* in whatever pieces it comes, checks the token, serves the path, and     *)
(* gives back its search slot and its request slot, however it ends.       *)
(* SearchService is what /search and /reload do inside a handler.          *)
(*                                                                         *)
(* A message is a sequence of units: a line without its end, "CR" or "LF". *)
(* Time passes in units of the read timeout.                               *)
(***************************************************************************)
EXTENDS Naturals, Sequences, SequencesExt, FiniteSets

CONSTANTS Clients,       \* the connections
          Messages,      \* what clients send, if they do not stop before the end
          HasToken,      \* MACEVERY_AUTH_TOKEN is set
          MaxRequests,   \* max_active_requests
          MaxSearches,   \* max_active_searches
          HeaderLimit,   \* REQUEST_HEADER_LIMIT, in units
          Buffer,        \* the size of one read, in units
          TotalTimeout   \* REQUEST_TOTAL_TIMEOUT, in read timeouts

HttpAssumption ==
    /\ Messages \subseteq Seq(STRING)
    /\ MaxRequests \in Nat \ {0} /\ MaxSearches \in Nat \ {0}
    /\ HeaderLimit \in Nat \ {0} /\ Buffer \in Nat \ {0} /\ TotalTimeout \in Nat

VARIABLES
    message,     \* what each client sends
    got,         \* how many units of it the handler has read
    age,         \* how long the handler has been reading
    pc,          \* where each connection is
    seen,        \* the count that the accepting thread loaded
    active,      \* the count of active requests
    searching,   \* SearchSlots.active
    traffic,     \* TrafficCounters
    answer       \* the status of the response, or "closed" without one

vars == <<message, got, age, pc, seen, active, searching, traffic, answer>>

Goto(c, label) == pc' = [pc EXCEPT ![c] = label]

\* fetch_add on one of the counters.
Count(which) == traffic' = [traffic EXCEPT ![which] = @ + 1]

-----------------------------------------------------------------------------
(* The accepting thread: serve and ActiveRequestGuard::http *)

Accepting == {c \in Clients : pc[c] \in {"load", "exchange"}}

Accept(c) ==
    /\ pc[c] = "queued" /\ Accepting = {}
    /\ Count("http_accepted")
    /\ Goto(c, "load")
    /\ UNCHANGED <<message, got, age, seen, active, searching, answer>>

\* The first half of try_acquire_request_slot, and the refusal of serve.
SlotLoad(c) ==
    /\ pc[c] = "load"
    /\ IF active >= MaxRequests
       THEN /\ Count("http_rejected")
            /\ Goto(c, "done")
            /\ \E a \in {"503", "closed"} : answer' = [answer EXCEPT ![c] = a]
            /\ UNCHANGED seen
       ELSE seen' = active /\ Goto(c, "exchange") /\ UNCHANGED <<traffic, answer>>
    /\ UNCHANGED <<message, got, age, active, searching>>

\* A slip: the count is stored, a release in between is lost.
SlotStore(c) ==
    /\ pc[c] = "exchange"
    /\ active' = seen + 1 /\ Goto(c, "reading")
    /\ UNCHANGED <<message, got, age, seen, searching, traffic, answer>>

\* A slip: a failed exchange is tried again with the count it failed for.
SlotExchange_no_reload(c) ==
    /\ pc[c] = "exchange"
    /\ IF active = seen THEN active' = active + 1 /\ Goto(c, "reading")
                        ELSE UNCHANGED <<active, pc>>
    /\ UNCHANGED <<message, got, age, seen, searching, traffic, answer>>

\* compare_exchange; a handler that ended in between makes it load again.
SlotExchange(c) ==
    /\ pc[c] = "exchange"
    /\ IF active = seen THEN active' = active + 1 /\ Goto(c, "reading")
                        ELSE UNCHANGED active /\ Goto(c, "load")
    /\ UNCHANGED <<message, got, age, seen, searching, traffic, answer>>

-----------------------------------------------------------------------------
(* read_request *)

Crlf == <<"CR", "LF">>
Data(c) == SubSeq(message[c], 1, got[c])

HasTerminator(d) ==
    \E i \in 1 .. Len(d) - 3 : SubSeq(d, i, i + 3) = Crlf \o Crlf

\* The handler ends with an error and without a response.
Close(c) == answer' = [answer EXCEPT ![c] = "closed"] /\ Goto(c, "release")

\* A read returns some bytes, at once or just before its timeout.
ReadSome(c) ==
    /\ pc[c] = "reading" /\ age[c] <= TotalTimeout
    /\ \E n \in 1 .. Buffer, waited \in 0 .. 1 :
          /\ got[c] + n <= Len(message[c])
          /\ got' = [got EXCEPT ![c] = @ + n]
          /\ age' = [age EXCEPT ![c] = @ + waited]
          /\ IF HasTerminator(SubSeq(message[c], 1, got[c] + n)) THEN Goto(c, "route") /\ UNCHANGED answer
             ELSE IF got'[c] >= HeaderLimit THEN Close(c)
             ELSE UNCHANGED <<pc, answer>>
    /\ UNCHANGED <<message, seen, active, searching, traffic>>

\* WouldBlock or TimedOut: the client is silent, now or for good.
ReadBlocks(c) ==
    /\ pc[c] = "reading" /\ age[c] <= TotalTimeout
    /\ age' = [age EXCEPT ![c] = @ + 1]
    /\ UNCHANGED <<message, got, pc, seen, active, searching, traffic, answer>>

\* The client closes its side, wherever it is: what came is the request.
ReadEnd(c) ==
    /\ pc[c] = "reading" /\ age[c] <= TotalTimeout
    /\ Goto(c, "route")
    /\ UNCHANGED <<message, got, age, seen, active, searching, traffic, answer>>

\* The total time is over, a read fails, or a timeout cannot be set.
ReadFails(c) ==
    /\ pc[c] = "reading"
    /\ Close(c)
    /\ UNCHANGED <<message, got, age, seen, active, searching, traffic>>

-----------------------------------------------------------------------------
(* handle_stream *)

\* str::lines: a line starts where the text does and after each line end, if the
\* text goes on there; "" is an empty line.
LineStarts(d) == {s \in 0 .. Len(d) - 1 : s = 0 \/ d[s] = "LF"}
LineAt(d, s) ==
    LET units == {i \in s + 1 .. Len(d) : /\ d[i] \notin {"CR", "LF"}
                                          /\ \A k \in s + 1 .. i : d[k] # "LF"}
    IN  IF units = {} THEN "" ELSE d[CHOOSE i \in units : TRUE]
RequestLine(d) == LineAt(d, 0)

\* The first Authorization header before the empty line decides.
request_has_valid_token(d) ==
    \E s \in LineStarts(d) \ {0} :
        /\ LineAt(d, s) = "Authorization: token"
        /\ \A r \in LineStarts(d) \ {0} :
              r < s => LineAt(d, r) \notin {"", "Authorization: other"}

Respond(c, status) ==
    /\ \E a \in {status, "closed"} : answer' = [answer EXCEPT ![c] = a]
    /\ Goto(c, "release")

\* A request that ends before it reaches the index, with its status.
Status(d) ==
    IF d = <<>> THEN "400"
    ELSE IF RequestLine(d) \notin {"GET /health", "GET /status", "POST /reload",
                                "GET /search?q=a", "GET /search", "GET /other"} THEN "405"
    ELSE IF RequestLine(d) = "GET /health" THEN "200"
    ELSE IF HasToken /\ ~request_has_valid_token(d) THEN "401"
    ELSE IF RequestLine(d) = "GET /other" THEN "404"
    ELSE IF RequestLine(d) = "GET /search" THEN "closed"   \* missing q parameter
    ELSE "serve"

Route(c) ==
    /\ pc[c] = "route"
    /\ LET status == Status(Data(c))
       IN  IF status # "serve" THEN Respond(c, status)
           ELSE /\ Goto(c, IF RequestLine(Data(c)) = "GET /search?q=a" THEN "slot" ELSE "work")
                /\ UNCHANGED answer
    /\ UNCHANGED <<message, got, age, seen, active, searching, traffic>>

\* search_slots.try_acquire, in one step: SearchService has its two halves.
SearchSlot(c) ==
    /\ pc[c] = "slot"
    /\ IF searching >= MaxSearches
       THEN Respond(c, "503") /\ UNCHANGED <<searching, traffic>>
       ELSE /\ searching' = searching + 1
            /\ Count("searches_started")
            /\ Goto(c, "search")
            /\ UNCHANGED answer
    /\ UNCHANGED <<message, got, age, seen, active>>

\* /search has its results or fails, is answered, and drops its search guard;
\* a panic or an error drops it without an answer.
Search(c) ==
    /\ pc[c] = "search"
    /\ \E a \in {"data", "503", "closed"} : answer' = [answer EXCEPT ![c] = a]
    /\ searching' = searching - 1
    /\ Goto(c, "count_search")
    /\ UNCHANGED <<message, got, age, seen, active, traffic>>

CountSearch(c) ==
    /\ pc[c] = "count_search"
    /\ Count("searches_completed")
    /\ Goto(c, "release")
    /\ UNCHANGED <<message, got, age, seen, active, searching, answer>>

\* /status and /reload.
Work(c) ==
    /\ pc[c] = "work"
    /\ \E a \in {"data", "closed"} \cup {b \in {"503"} : RequestLine(Data(c)) = "POST /reload"} :
          answer' = [answer EXCEPT ![c] = a]
    /\ Goto(c, "release")
    /\ UNCHANGED <<message, got, age, seen, active, searching, traffic>>

\* Drop for ActiveRequestGuard: the slot, then the counter.
Release(c) ==
    /\ pc[c] = "release"
    /\ active' = active - 1
    /\ Goto(c, "count")
    /\ UNCHANGED <<message, got, age, seen, searching, traffic, answer>>

CountRequest(c) ==
    /\ pc[c] = "count"
    /\ Count("http_completed")
    /\ Goto(c, "done")
    /\ UNCHANGED <<message, got, age, seen, active, searching, answer>>

-----------------------------------------------------------------------------
Init ==
    /\ message \in [Clients -> Messages]
    /\ got = [c \in Clients |-> 0]
    /\ age = [c \in Clients |-> 0]
    /\ pc = [c \in Clients |-> "queued"]
    /\ seen = 0 /\ active = 0 /\ searching = 0
    /\ traffic = [k \in {"http_accepted", "http_completed", "http_rejected",
                         "searches_started", "searches_completed"} |-> 0]
    /\ answer = [c \in Clients |-> "none"]

Step(c) ==
    \/ Accept(c) \/ SlotLoad(c) \/ SlotExchange(c)
    \/ ReadSome(c) \/ ReadBlocks(c) \/ ReadEnd(c) \/ ReadFails(c)
    \/ Route(c) \/ SearchSlot(c) \/ Search(c) \/ CountSearch(c) \/ Work(c)
    \/ Release(c) \/ CountRequest(c)

Next == \E c \in Clients : Step(c)

\* The threads of the service run; nothing is assumed of the clients.
Spec == Init /\ [][Next]_vars /\ \A c \in Clients : WF_vars(Step(c))

-----------------------------------------------------------------------------
Handling == {c \in Clients : pc[c] \in {"reading", "route", "slot", "search", "count_search",
                                        "work", "release"}}

\* The counts of requests and of searches are those of the running handlers
\* and within their limits, whatever the order of loads, exchanges and drops.
HandlersBounded ==
    /\ active = Cardinality(Handling) /\ active <= MaxRequests
    /\ searching = Cardinality({c \in Clients : pc[c] = "search"}) /\ searching <= MaxSearches

\* A handler waits for bytes only while the header is incomplete, below its
\* limit and within the total time plus one read: neither a slow client nor
\* one that splits the header anywhere holds it longer.
ReadingBounded ==
    \A c \in Clients : pc[c] = "reading" =>
        /\ ~HasTerminator(Data(c))
        /\ got[c] < HeaderLimit
        /\ age[c] <= TotalTimeout + 1

\* The header of a message: all up to the empty line.
Header(m) ==
    LET cut == {i \in 1 .. Len(m) - 3 : SubSeq(m, i, i + 3) = Crlf \o Crlf}
    IN  IF cut = {} THEN m ELSE SubSeq(m, 1, CHOOSE i \in cut : \A j \in cut : i <= j)

\* With a token configured, results, status and reloads go only to a client
\* that sent the token in its header, wherever its reads were split or ended.
NothingWithoutToken ==
    \A c \in Clients : HasToken /\ (answer[c] = "data" \/ pc[c] \in {"work", "slot", "search"})
        => \E i \in DOMAIN Header(message[c]) : message[c][i] = "Authorization: token"

\* Once every connection has ended, each accepted one is counted as rejected
\* or completed, each started search as completed, and no slot is held.
TrafficBalanced ==
    (\A c \in Clients : pc[c] = "done") =>
        /\ traffic["http_accepted"] = traffic["http_rejected"] + traffic["http_completed"]
        /\ traffic["searches_started"] = traffic["searches_completed"]
        /\ active = 0 /\ searching = 0

\* What the service keeps true of its connections, in any order of their steps.
ConnectionsSound ==
    HandlersBounded /\ ReadingBounded /\ NothingWithoutToken /\ TrafficBalanced

Ended(c) == pc[c] = "done"

\* Every connection ends, whatever its client does.
EveryConnectionEnds == \A c \in Clients : <>Ended(c)
=============================================================================
