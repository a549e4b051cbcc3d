----------------------------- MODULE HttpServer -----------------------------
(***************************************************************************)
(* The connections of the web server (http_server.c): callbacks that lwIP  *)
(* calls while the main loop polls it.  A connection collects one request, *)
(* handles it, sends the response as fast as the client acknowledges it,   *)
(* and is closed.  lwIP and the client are external: an action of theirs   *)
(* is one call of a callback.                                              *)
(*                                                                         *)
(* Lengths are in units of a few hundred bytes; a request is known by its  *)
(* kind, which fixes the lengths of its header and body.                   *)
(***************************************************************************)
EXTENDS Integers

CONSTANTS
    Conn,            \* bound: connections at a time
    Kind,            \* kinds of requests
    HeaderLen,       \* length of the header with its empty line, per kind
    ContentLen,      \* Content-Length, per kind
    RequestMax,      \* HTTP_REQUEST_MAX_SIZE
    ResponseLen,     \* length of the response, 0 if handle_request fails
    SendBuffer,      \* what tcp_sndbuf of a fresh connection returns
    IdlePollsMax     \* IDLE_POLLS_MAX

ASSUME KindAssumption ==
    /\ HeaderLen \in [Kind -> Nat \ {0}]
    /\ ContentLen \in [Kind -> Nat]
    /\ ResponseLen \in [Kind -> Nat]
ASSUME HttpSizeAssumption ==
    /\ RequestMax \in Nat \ {0} /\ SendBuffer \in Nat \ {0}
    /\ IdlePollsMax \in Nat

VARIABLES
    pcb,      \* "none", "open", or "closing": lwIP finishes without the server
    hooked,   \* the callbacks and tcp_arg are set
    state,    \* TCP_CONNECT_STATE_T of the connection, or Freed
    served    \* history: requests handled on the connection

httpVars == <<pcb, hooked, state, served>>

Freed == [kind |-> "freed"]

ConState(k) ==
    [kind |-> k, data_len |-> 0, header_complete |-> FALSE, processed |-> FALSE,
     total |-> 0, queued_len |-> 0, acked_len |-> 0, idle_polls |-> 0]

HttpInit ==
    /\ pcb = [c \in Conn |-> "none"]
    /\ hooked = [c \in Conn |-> FALSE]
    /\ state = [c \in Conn |-> Freed]
    /\ served = [c \in Conn |-> 0]

Live(c) == state[c] # Freed

\* lwIP calls back for c with its TCP_CONNECT_STATE_T.
Called(c) == hooked[c] /\ Live(c)

-----------------------------------------------------------------------------
(* Closing.                                                                *)

\* Mutant of Close: the callbacks stay set.
CloseHooked(c) ==
    /\ pcb' = [pcb EXCEPT ![c] = "closing"]
    /\ state' = [state EXCEPT ![c] = Freed]
    /\ UNCHANGED <<hooked, served>>

\* tcp_close_client_connection; when tcp_close fails the pcb is aborted.
Close(c) ==
    /\ \E to \in {"closing", "none"} : pcb' = [pcb EXCEPT ![c] = to]
    /\ hooked' = [hooked EXCEPT ![c] = FALSE]
    /\ state' = [state EXCEPT ![c] = Freed]
    /\ UNCHANGED served

\* The connection goes on with the state s.
GoOn(c, s) ==
    /\ state' = [state EXCEPT ![c] = s]
    /\ UNCHANGED <<pcb, hooked, served>>

-----------------------------------------------------------------------------
(* The response.                                                           *)

\* send_more from the state s: it queues what the send buffer takes, or less
\* when lwIP is short of memory; any other error closes the connection.
SendMore(c, s) ==
    \/ \E n \in 0 .. s.total - s.queued_len :
           /\ s.queued_len + n - s.acked_len =< SendBuffer
           /\ GoOn(c, [s EXCEPT !.queued_len = @ + n])
    \/ Close(c)

\* tcp_server_sent: the client has acknowledged len more.
Sent(c) ==
    /\ Called(c)
    /\ \E len \in 1 .. state[c].queued_len - state[c].acked_len :
           LET s == [state[c] EXCEPT !.acked_len = @ + len, !.idle_polls = 0]
           IN  IF s.acked_len >= s.total
               THEN Close(c)
               ELSE SendMore(c, s)
-----------------------------------------------------------------------------
(* The request.                                                            *)

\* tcp_server_accept
Accept(c, k) ==
    /\ pcb[c] = "none"
    /\ pcb' = [pcb EXCEPT ![c] = "open"]
    /\ hooked' = [hooked EXCEPT ![c] = TRUE]
    /\ state' = [state EXCEPT ![c] = ConState(k)]
    /\ served' = [served EXCEPT ![c] = 0]

\* The request is complete with s; handle_request answers it, or fails.
Handle(c, s) ==
    /\ served' = [served EXCEPT ![c] = @ + 1]
    /\ \E to \in {"open", "closing", "none"} :
           /\ ResponseLen[s.kind] = 0 => to # "open"
           /\ pcb' = [pcb EXCEPT ![c] = to]
           /\ hooked' = [hooked EXCEPT ![c] = (to = "open")]
           /\ IF to = "open"
              THEN \E n \in 0 .. ResponseLen[s.kind] :
                       /\ n =< SendBuffer
                       /\ state' = [state EXCEPT ![c] =
                              [s EXCEPT !.processed = TRUE, !.total = ResponseLen[s.kind],
                                        !.queued_len = n]]
              ELSE state' = [state EXCEPT ![c] = Freed]

TooLarge(k) == ContentLen[k] > RequestMax - HeaderLen[k]

\* Mutant of Collect: the size of the buffer is not checked.
CollectUnbounded(c, len) ==
    LET old == state[c]
        s == [old EXCEPT !.data_len = @ + len,
                         !.header_complete = @ \/ old.data_len + len >= HeaderLen[old.kind],
                         !.idle_polls = 0]
    IN  IF s.header_complete /\ s.data_len >= HeaderLen[s.kind] + ContentLen[s.kind]
        THEN Handle(c, s)
        ELSE GoOn(c, s)

\* The next len of the request are in.
Collect(c, len) ==
    LET old == state[c]
        s == [old EXCEPT !.data_len = @ + len,
                         !.header_complete = @ \/ old.data_len + len >= HeaderLen[old.kind],
                         !.idle_polls = 0]
    IN  IF \/ s.data_len > RequestMax
           \/ s.header_complete /\ ~old.header_complete /\ TooLarge(s.kind)
        THEN Close(c)
        ELSE IF s.header_complete /\ s.data_len >= HeaderLen[s.kind] + ContentLen[s.kind]
        THEN Handle(c, s)
        ELSE GoOn(c, s)

\* Mutant of Recv: a request is handled again with what follows it.
RecvAgain(c, len) ==
    /\ Called(c)
    /\ Collect(c, len)

\* tcp_server_recv with data; once the request is processed the rest is ignored.
Recv(c, len) ==
    /\ Called(c)
    /\ IF state[c].processed
       THEN GoOn(c, [state[c] EXCEPT !.idle_polls = 0])
       ELSE Collect(c, len)

\* tcp_server_recv without data: the client has closed its side.
RecvFin(c) == Called(c) /\ Close(c)

-----------------------------------------------------------------------------
(* Time and errors.                                                        *)

\* Mutant of Poll: a connection with a response under way is never idle.
PollProcessed(c) ==
    /\ Called(c)
    /\ LET s == [state[c] EXCEPT !.idle_polls = @ + 1]
       IN  IF state[c].processed THEN SendMore(c, state[c])
           ELSE IF s.idle_polls > IdlePollsMax THEN Close(c)
           ELSE GoOn(c, s)

\* tcp_server_poll
Poll(c) ==
    /\ Called(c)
    /\ LET s == [state[c] EXCEPT !.idle_polls = @ + 1]
       IN  IF s.idle_polls > IdlePollsMax THEN Close(c)
           ELSE IF s.processed THEN SendMore(c, s)
           ELSE GoOn(c, s)

\* tcp_server_err: lwIP has dropped the pcbs of S.
Drop(S) ==
    /\ pcb' = [c \in Conn |-> IF c \in S THEN "none" ELSE pcb[c]]
    /\ state' = [c \in Conn |-> IF c \in S /\ hooked[c] THEN Freed ELSE state[c]]
    /\ hooked' = [c \in Conn |-> hooked[c] /\ c \notin S]
    /\ UNCHANGED served

\* lwIP is done with a connection the server has closed.
Closed(c) ==
    /\ pcb[c] = "closing"
    /\ pcb' = [pcb EXCEPT ![c] = "none"]
    /\ UNCHANGED <<hooked, state, served>>

\* A reboot: lwIP starts with nothing.
HttpBooted ==
    /\ pcb' = [c \in Conn |-> "none"]
    /\ hooked' = [c \in Conn |-> FALSE]
    /\ state' = [c \in Conn |-> Freed]
    /\ served' = [c \in Conn |-> 0]

-----------------------------------------------------------------------------
HttpTypeOK ==
    /\ pcb \in [Conn -> {"none", "open", "closing"}]
    /\ hooked \in [Conn -> BOOLEAN]
    /\ served \in [Conn -> Nat]
    /\ \A c \in Conn : Live(c) =>
           LET s == state[c]
           IN  /\ s.kind \in Kind
               /\ s.data_len \in 0 .. RequestMax
               /\ s.total \in Nat /\ s.queued_len \in 0 .. s.total
               /\ s.acked_len \in 0 .. s.queued_len
               /\ s.queued_len - s.acked_len =< SendBuffer
               /\ s.idle_polls \in 0 .. IdlePollsMax

\* The state of a connection is released exactly when lwIP stops calling back
\* for it: no callback meets a freed state, and no state is left behind
\* (http_server.c 41-66, 295-312).
StateMatchesPcb ==
    \A c \in Conn : /\ hooked[c] => Live(c)
                    /\ Live(c) => pcb[c] = "open"

\* A request is handled once, whatever follows it on the connection and however
\* its response is retried, and a connection that has been served completely is
\* not left open (http_server.c 121-133, 224-285).
ServedOnce ==
    \A c \in Conn : /\ served[c] =< 1
                    /\ Live(c) => (state[c].processed <=> served[c] = 1)
                    /\ Live(c) /\ state[c].processed => state[c].acked_len < state[c].total
=============================================================================
