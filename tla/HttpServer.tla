----------------------------- MODULE HttpServer ------------------------------
(***************************************************************************)
(* The page server of httpserver.c: the callbacks lwIP calls for a         *)
(* connection on port 80, each with the http_state its accept allocated.   *)
(* A handler runs to its end before lwIP calls the next one.  lwIP itself, *)
(* the heap, the pool of packet buffers and the peer are external: they    *)
(* are what the callbacks can meet.                                        *)
(***************************************************************************)
EXTENDS Integers, FiniteSets, PacketPool

CONSTANTS
    HttpConns,      \* connections the pool of pcbs has room for
    PAGE,           \* strlen(BASIC_PAGE); a part is a byte
    SNDBUF,         \* parts the send buffer of a connection holds
    HEAP,           \* http_states the heap has room for
    MAX_FAILS       \* bound: calls of tcp_write and tcp_close that fail

ASSUME HttpAssumption ==
    /\ PAGE \in Nat \ {0} /\ SNDBUF \in Nat \ {0}
    /\ HEAP \in Nat /\ MAX_FAILS \in Nat

VARIABLES
    pcb,        \* "free", "open", or "closing" after tcp_close
    arg,        \* tcp_arg is an http_state, not NULL
    heap,       \* connections whose http_state is allocated
    file,       \* hs->file is not NULL
    left,       \* hs->left
    sentCb,     \* tcp_sent is http_sent
    recvCb,     \* tcp_recv is http_recv
    written,    \* parts of the page lwIP has taken
    unacked,    \* parts in the send buffer
    cut,        \* history: http_recv closed the connection
    pbufs,      \* packet buffers nobody has freed
    fails       \* bounded count of refused calls

httpVars == <<pcb, arg, heap, file, left, sentCb, recvCb, written, unacked, cut,
              pbufs, fails>>

HttpInit ==
    /\ pcb = [c \in HttpConns |-> "free"]
    /\ arg = [c \in HttpConns |-> FALSE] /\ heap = {}
    /\ file = [c \in HttpConns |-> FALSE] /\ left = [c \in HttpConns |-> 0]
    /\ sentCb = [c \in HttpConns |-> FALSE] /\ recvCb = [c \in HttpConns |-> FALSE]
    /\ written = [c \in HttpConns |-> 0] /\ unacked = [c \in HttpConns |-> 0]
    /\ cut = [c \in HttpConns |-> FALSE]
    /\ pbufs = 0 /\ fails = 0

-----------------------------------------------------------------------------
(* What several callbacks do.                                              *)

Sndbuf(c) == SNDBUF - unacked[c]

\* Mutant: what tcp_write refused counts as sent.
SendDataForgets(c, rest, room) ==
    LET len == IF room < rest THEN room ELSE rest
    IN  /\ left' = [left EXCEPT ![c] = rest - len]
        /\ \/ /\ written' = [written EXCEPT ![c] = @ + len]
              /\ unacked' = [unacked EXCEPT ![c] = SNDBUF - room + len]
              /\ UNCHANGED fails
           \/ /\ fails < MAX_FAILS /\ len > 0
              /\ fails' = fails + 1
              /\ unacked' = [unacked EXCEPT ![c] = SNDBUF - room]
              /\ UNCHANGED written

\* send_data, with "rest" parts left and room for "room": as much as the send
\* buffer takes, and nothing if tcp_write has no memory.
SendData(c, rest, room) ==
    LET len == IF room < rest THEN room ELSE rest
    IN  \/ /\ left' = [left EXCEPT ![c] = rest - len]
           /\ written' = [written EXCEPT ![c] = @ + len]
           /\ unacked' = [unacked EXCEPT ![c] = SNDBUF - room + len]
           /\ UNCHANGED fails
        \/ /\ fails < MAX_FAILS /\ len > 0
           /\ fails' = fails + 1
           /\ left' = [left EXCEPT ![c] = rest]
           /\ unacked' = [unacked EXCEPT ![c] = SNDBUF - room]
           /\ UNCHANGED written

\* tcp_close: without memory for the FIN the connection stays open.
TcpClose(c) ==
    \/ pcb' = [pcb EXCEPT ![c] = "closing"] /\ UNCHANGED fails
    \/ fails < MAX_FAILS /\ fails' = fails + 1 /\ UNCHANGED pcb

\* Mutant: lwIP still hands the freed http_state to the callbacks.
CloseConnKeepsArg(c) ==
    /\ sentCb' = [sentCb EXCEPT ![c] = FALSE]
    /\ recvCb' = [recvCb EXCEPT ![c] = FALSE]
    /\ heap' = heap \ {c}
    /\ TcpClose(c)
    /\ UNCHANGED arg

\* close_conn: tcp_poll and tcp_err stay as they are.  (InitTcpSocketConnect,
\* its last call, is about the flag of Sockets, which no http service reads.)
CloseConn(c) ==
    /\ arg' = [arg EXCEPT ![c] = FALSE]
    /\ sentCb' = [sentCb EXCEPT ![c] = FALSE]
    /\ recvCb' = [recvCb EXCEPT ![c] = FALSE]
    /\ heap' = heap \ {c}
    /\ TcpClose(c)

-----------------------------------------------------------------------------
(* The callbacks.                                                          *)

\* A connection lwIP has accepted; without an http_state it is dropped.
HttpAccept(c) ==
    /\ pcb[c] = "free" /\ BufferLeft(pbufs) /\ Cardinality(heap) < HEAP
    /\ pcb' = [pcb EXCEPT ![c] = "open"]
    /\ heap' = heap \cup {c} /\ arg' = [arg EXCEPT ![c] = TRUE]
    /\ file' = [file EXCEPT ![c] = FALSE] /\ left' = [left EXCEPT ![c] = 0]
    /\ recvCb' = [recvCb EXCEPT ![c] = TRUE]
    /\ sentCb' = [sentCb EXCEPT ![c] = FALSE]
    /\ written' = [written EXCEPT ![c] = 0]
    /\ unacked' = [unacked EXCEPT ![c] = 0]
    /\ cut' = [cut EXCEPT ![c] = FALSE]
    /\ UNCHANGED <<pbufs, fails>>

\* A frame is received only when the pool has a buffer for it.
Receives(c) == pcb[c] = "open" /\ BufferLeft(pbufs)

\* What hs->left starts from: strlen does not count the terminating 0, and the
\* -1 that is to leave it out ("DON't Transimt /0!!") takes the last byte away.
PageLeft == PAGE - 1

\* http_recv of "GET /": the page, as much of it as there is room for.  The
\* packet buffer of the request is not freed.
HttpGet(c) ==
    /\ Receives(c) /\ recvCb[c] /\ ~file[c]
    /\ file' = [file EXCEPT ![c] = TRUE]
    /\ SendData(c, PageLeft, Sndbuf(c))
    /\ sentCb' = [sentCb EXCEPT ![c] = TRUE]
    /\ pbufs' = pbufs + 1
    /\ UNCHANGED <<pcb, arg, heap, recvCb, cut>>

\* http_recv of anything else: another request, the peer's close, or what comes
\* behind the first part of a request, ends the connection.
HttpHangUp(c) ==
    /\ Receives(c) /\ recvCb[c]
    /\ CloseConn(c)
    /\ cut' = [cut EXCEPT ![c] = TRUE]
    /\ UNCHANGED <<file, left, written, unacked, pbufs>>

\* http_sent: the peer has acknowledged n parts.  (resetpage is 0 for good.)
HttpSent(c, n) ==
    /\ Receives(c) /\ sentCb[c] /\ n \in 1 .. unacked[c]
    /\ IF left[c] > 0
       THEN SendData(c, left[c], Sndbuf(c) + n)
            /\ UNCHANGED <<pcb, arg, heap, sentCb, recvCb>>
       ELSE CloseConn(c)
            /\ unacked' = [unacked EXCEPT ![c] = @ - n]
            /\ UNCHANGED <<left, written>>
    /\ UNCHANGED <<file, cut, pbufs>>

\* Mutant: the poll only retries the close.
HttpPollNoRetry(c) ==
    /\ pcb[c] = "open"
    /\ ~arg[c] /\ TcpClose(c)
    /\ UNCHANGED <<arg, heap, file, left, sentCb, recvCb, written, unacked, cut,
                   pbufs>>

\* http_poll, every five seconds: a close or a write that failed is tried again.
\* (On a connection that is closing tcp_close has no effect.)
HttpPoll(c) ==
    /\ pcb[c] = "open"
    /\ IF arg[c]
       THEN SendData(c, left[c], Sndbuf(c)) /\ UNCHANGED pcb
       ELSE TcpClose(c) /\ UNCHANGED <<left, written, unacked>>
    /\ UNCHANGED <<arg, heap, file, sentCb, recvCb, cut, pbufs>>

\* conn_err: lwIP has freed the pcb, after a reset or too many retries.
HttpConnErr(c) ==
    /\ pcb[c] # "free"
    /\ pcb' = [pcb EXCEPT ![c] = "free"]
    /\ heap' = IF arg[c] THEN heap \ {c} ELSE heap
    /\ arg' = [arg EXCEPT ![c] = FALSE]
    /\ UNCHANGED <<file, left, sentCb, recvCb, written, unacked, cut, pbufs, fails>>

\* The peer has acknowledged everything of a connection that was closed.
HttpClosed(c) ==
    /\ pcb[c] = "closing"
    /\ pcb' = [pcb EXCEPT ![c] = "free"]
    /\ UNCHANGED <<arg, heap, file, left, sentCb, recvCb, written, unacked, cut,
                   pbufs, fails>>

\* A frame there is no buffer for: no callback hears of it.
FrameDropped == ~BufferLeft(pbufs) /\ UNCHANGED httpVars

HttpNext ==
    \/ \E c \in HttpConns :
          \/ HttpAccept(c) \/ HttpGet(c) \/ HttpHangUp(c) \/ HttpPoll(c)
          \/ \E n \in 1 .. SNDBUF : HttpSent(c, n)
          \/ HttpConnErr(c) \/ HttpClosed(c)
    \/ FrameDropped

\* lwIP polls every connection, and a peer that is alive acknowledges.
HttpFairness ==
    \A c \in HttpConns : /\ WF_httpVars(HttpPoll(c))
                     /\ WF_httpVars(\E n \in 1 .. SNDBUF : HttpSent(c, n))

HttpSpec == HttpInit /\ [][HttpNext]_httpVars /\ HttpFairness

-----------------------------------------------------------------------------
(* Properties.                                                             *)

HttpTypeOK ==
    /\ pcb \in [HttpConns -> {"free", "open", "closing"}]
    /\ arg \in [HttpConns -> BOOLEAN] /\ heap \subseteq HttpConns
    /\ file \in [HttpConns -> BOOLEAN] /\ left \in [HttpConns -> 0 .. PAGE]
    /\ sentCb \in [HttpConns -> BOOLEAN] /\ recvCb \in [HttpConns -> BOOLEAN]
    /\ written \in [HttpConns -> 0 .. PAGE] /\ unacked \in [HttpConns -> 0 .. SNDBUF]
    /\ cut \in [HttpConns -> BOOLEAN]
    /\ pbufs \in 0 .. POOL /\ fails \in 0 .. MAX_FAILS

\* Whatever order requests, acknowledgements, closes that fail and errors come
\* in, lwIP holds the http_state of exactly the connections that are not closed
\* yet: none is freed twice or leaked, and no handler meets a freed one.
HeapMatchesConnections ==
    /\ heap = {c \in HttpConns : arg[c]}
    /\ \A c \in HttpConns : arg[c] => pcb[c] = "open"
    /\ \A c \in HttpConns : pcb[c] = "open" /\ (sentCb[c] \/ recvCb[c]) => arg[c]

\* A connection the server closes of its own accord was given the page but for
\* its last byte: nothing is lost to a full send buffer or a tcp_write that
\* failed, and nothing sent twice when a callback tries again.
PageButLastByte ==
    \A c \in HttpConns :
        pcb[c] = "closing" /\ file[c] /\ ~cut[c] => written[c] = PAGE - 1

\* A request that was taken is served to its end, through failed writes and
\* closes, unless the pool of packet buffers has run dry (no request's buffer
\* is ever freed).
PageIsServed ==
    \A c \in HttpConns :
        (file[c] /\ pcb[c] = "open")
           ~> (pcb[c] # "open" \/ pbufs = POOL)

=============================================================================
