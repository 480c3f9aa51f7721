---------------------------- MODULE NetworkProofs ----------------------------
(***************************************************************************)
(* What holds of Network for any number of connections, any lengths,       *)
(* timeouts and numbers of tries, and any width of the tick count.         *)
(***************************************************************************)
EXTENDS Network, TLAPS

-----------------------------------------------------------------------------
(* The page server: memory and pages of its connections.                   *)

\* The page but for its last byte is what lwIP has taken and what is left; a connection is given up or
\* closed only when nothing is left, unless it was cut.
PageAccounted ==
    \A c \in HttpConns :
        /\ ~file[c] => left[c] = 0 /\ written[c] = 0
        /\ file[c] => written[c] + left[c] = PageLeft
        /\ pcb[c] = "open" /\ ~arg[c] /\ file[c] /\ ~cut[c] => left[c] = 0
        /\ pcb[c] = "closing" => ~arg[c]
        /\ pcb[c] = "closing" /\ file[c] /\ ~cut[c] => left[c] = 0

HttpIInv == HttpTypeOK /\ HeapMatchesConnections /\ PageAccounted

-----------------------------------------------------------------------------

\* The page's account closes: no connection of the server's own closing has
\* anything left of what http_recv set out to send (httpserver.c, http_sent and
\* http_poll).
LEMMA AccountedIsWhole == ASSUME HttpIInv PROVE PageButLastByte
  BY HttpAssumption DEF HttpIInv, HttpTypeOK, PageAccounted, PageButLastByte, PageLeft

\* IAP_httpd_init: no connection, nothing allocated.
LEMMA HttpInitIInv == ASSUME HttpInit PROVE HttpIInv
  BY HttpAssumption, PoolAssumption
  DEF HttpInit, HttpIInv, HttpTypeOK, HeapMatchesConnections, PageAccounted

\* send_data: whatever tcp_write does, what is written and what is left stay
\* the page, within their bounds.
LEMMA SendDataCounts ==
  ASSUME HttpIInv, NEW c \in HttpConns,
         NEW rest \in 0 .. PAGE, NEW room \in 0 .. SNDBUF,
         written[c] + rest <= PAGE,
         SendData(c, rest, room)
  PROVE  \E l \in 0 .. rest, u \in 0 .. SNDBUF, w \in written[c] .. PAGE :
            /\ left' = [left EXCEPT ![c] = l]
            /\ written' = [written EXCEPT ![c] = w]
            /\ unacked' = [unacked EXCEPT ![c] = u]
            /\ w + l = written[c] + rest
            /\ fails' \in 0 .. MAX_FAILS
  <1> DEFINE len == IF room < rest THEN room ELSE rest
  <1>1. written[c] \in 0 .. PAGE /\ fails \in 0 .. MAX_FAILS
    BY DEF HttpIInv, HttpTypeOK
  <1>2. written \in [HttpConns -> 0 .. PAGE]
    BY DEF HttpIInv, HttpTypeOK
  <1>3. PAGE \in Nat /\ SNDBUF \in Nat /\ MAX_FAILS \in Nat
    BY HttpAssumption
  <1>4. len \in 0 .. rest /\ len \in 0 .. room
    BY <1>3
  <1>5. CASE /\ left' = [left EXCEPT ![c] = rest - len]
             /\ written' = [written EXCEPT ![c] = @ + len]
             /\ unacked' = [unacked EXCEPT ![c] = SNDBUF - room + len]
             /\ UNCHANGED fails
    <2> DEFINE l == rest - len
               u == SNDBUF - room + len
               w == written[c] + len
    <2>1. l \in 0 .. rest /\ u \in 0 .. SNDBUF /\ w \in written[c] .. PAGE
             /\ w + l = written[c] + rest
      BY <1>1, <1>3, <1>4
    <2>2. written' = [written EXCEPT ![c] = w]
      BY <1>5
    <2> HIDE DEF len, l, u, w
    <2> QED BY <1>5, <1>1, <2>1, <2>2 DEF l, u
  <1>6. CASE /\ fails < MAX_FAILS /\ len > 0
             /\ fails' = fails + 1
             /\ left' = [left EXCEPT ![c] = rest]
             /\ unacked' = [unacked EXCEPT ![c] = SNDBUF - room]
             /\ UNCHANGED written
    <2> DEFINE u == SNDBUF - room
               w == written[c]
    <2>1. u \in 0 .. SNDBUF /\ w \in written[c] .. PAGE /\ rest \in 0 .. rest
             /\ fails' \in 0 .. MAX_FAILS
      BY <1>1, <1>3, <1>6
    <2>2. written' = [written EXCEPT ![c] = w]
      BY <1>2, <1>6
    <2> HIDE DEF u, w
    <2> QED BY <1>6, <2>1, <2>2 DEF u, w
  <1> QED BY <1>5, <1>6 DEF SendData

\* Each callback keeps the invariant.
LEMMA AcceptStep ==
  ASSUME HttpIInv, NEW c \in HttpConns, HttpAccept(c) PROVE HttpIInv'
  BY HttpAssumption
  DEF HttpAccept, HttpIInv, HttpTypeOK, HeapMatchesConnections, PageAccounted

\* http_recv of "GET /".
LEMMA GetStep ==
  ASSUME HttpIInv, NEW c \in HttpConns, HttpGet(c) PROVE HttpIInv'
  <1>1. /\ Sndbuf(c) \in 0 .. SNDBUF /\ PageLeft \in 0 .. PAGE
        /\ written[c] + PageLeft <= PAGE
    BY HttpAssumption
    DEF Sndbuf, HttpIInv, HttpTypeOK, PageAccounted, HttpGet, PageLeft
  <1>2. PICK l \in 0 .. PageLeft, u \in 0 .. SNDBUF, w \in written[c] .. PAGE :
            /\ left' = [left EXCEPT ![c] = l]
            /\ written' = [written EXCEPT ![c] = w]
            /\ unacked' = [unacked EXCEPT ![c] = u]
            /\ w + l = written[c] + PageLeft
            /\ fails' \in 0 .. MAX_FAILS
    BY <1>1, SendDataCounts DEF HttpGet
  <1>3. written[c] = 0 /\ arg[c] /\ pcb[c] = "open"
    BY DEF HttpIInv, PageAccounted, HeapMatchesConnections, HttpGet, Receives
  <1>4. pbufs' \in 0 .. POOL
    BY PoolAssumption DEF HttpIInv, HttpTypeOK, HttpGet, Receives, BufferLeft
  <1>5. HttpTypeOK'
    BY HttpAssumption, <1>2, <1>3, <1>4 DEF HttpIInv, HttpTypeOK, HttpGet, PageLeft
  <1>6. HeapMatchesConnections'
    BY <1>3 DEF HttpIInv, HttpTypeOK, HeapMatchesConnections, HttpGet
  <1>7. PageAccounted'
    BY HttpAssumption, <1>2, <1>3
    DEF HttpIInv, HttpTypeOK, PageAccounted, HttpGet, PageLeft
  <1> QED BY <1>5, <1>6, <1>7 DEF HttpIInv

\* close_conn, whether tcp_close succeeds or not, leaves no http_state behind.
LEMMA CloseConnHeap ==
  ASSUME HttpIInv, NEW c \in HttpConns, pcb[c] = "open", CloseConn(c)
  PROVE  /\ HeapMatchesConnections'
         /\ pcb' \in [HttpConns -> {"free", "open", "closing"}]
         /\ arg' \in [HttpConns -> BOOLEAN] /\ heap' \subseteq HttpConns
         /\ sentCb' \in [HttpConns -> BOOLEAN] /\ recvCb' \in [HttpConns -> BOOLEAN]
         /\ fails' \in 0 .. MAX_FAILS
         /\ ~arg'[c] /\ pcb'[c] \in {"open", "closing"}
         /\ \A d \in HttpConns \ {c} : arg'[d] = arg[d] /\ pcb'[d] = pcb[d]
  BY HttpAssumption
  DEF CloseConn, TcpClose, HttpIInv, HttpTypeOK, HeapMatchesConnections

LEMMA HangUpStep ==
  ASSUME HttpIInv, NEW c \in HttpConns, HttpHangUp(c) PROVE HttpIInv'
  <1>1. pcb[c] = "open" /\ CloseConn(c)
    BY DEF HttpHangUp, Receives
  <1>2. HttpTypeOK'
    BY <1>1, CloseConnHeap DEF HttpIInv, HttpTypeOK, HttpHangUp
  <1>3. PageAccounted'
    BY <1>1, CloseConnHeap DEF HttpIInv, HttpTypeOK, PageAccounted, HttpHangUp
  <1> QED BY <1>1, <1>2, <1>3, CloseConnHeap DEF HttpIInv

\* http_sent goes on with the page, or closes the connection when none is left.
LEMMA SentStep ==
  ASSUME HttpIInv, NEW c \in HttpConns, NEW n \in 1 .. SNDBUF, HttpSent(c, n)
  PROVE  HttpIInv'
  <1> USE HttpAssumption
  <1>1. /\ pcb[c] = "open" /\ arg[c] /\ n \in 1 .. unacked[c]
        /\ unacked[c] \in 0 .. SNDBUF /\ left[c] \in 0 .. PAGE
    BY DEF HttpSent, Receives, HttpIInv, HttpTypeOK, HeapMatchesConnections
  <1>2. CASE left[c] > 0
    <2>1. /\ Sndbuf(c) + n \in 0 .. SNDBUF
          /\ written[c] + left[c] <= PAGE
          /\ SendData(c, left[c], Sndbuf(c) + n)
      BY <1>1, <1>2 DEF Sndbuf, HttpIInv, HttpTypeOK, PageAccounted, HttpSent, PageLeft
    <2>2. PICK l \in 0 .. left[c], u \in 0 .. SNDBUF, w \in written[c] .. PAGE :
              /\ left' = [left EXCEPT ![c] = l]
              /\ written' = [written EXCEPT ![c] = w]
              /\ unacked' = [unacked EXCEPT ![c] = u]
              /\ w + l = written[c] + left[c]
              /\ fails' \in 0 .. MAX_FAILS
      BY <1>1, <2>1, SendDataCounts
    <2>3. UNCHANGED <<pcb, arg, heap, sentCb, recvCb, file, cut, pbufs>>
      BY <1>2 DEF HttpSent
    <2>4. HttpTypeOK'
      BY <1>1, <2>2, <2>3 DEF HttpIInv, HttpTypeOK
    <2>5. HeapMatchesConnections'
      BY <2>3 DEF HttpIInv, HeapMatchesConnections
    <2>6. PageAccounted'
      BY <1>1, <1>2, <2>2, <2>3 DEF HttpIInv, HttpTypeOK, PageAccounted
    <2> QED BY <2>4, <2>5, <2>6 DEF HttpIInv
  <1>3. CASE left[c] = 0
    <2>1. /\ CloseConn(c)
          /\ unacked' = [unacked EXCEPT ![c] = @ - n]
          /\ UNCHANGED <<left, written, file, cut, pbufs>>
      BY <1>3 DEF HttpSent
    <2>2. HttpTypeOK'
      BY <1>1, <2>1, CloseConnHeap DEF HttpIInv, HttpTypeOK
    <2>3. PageAccounted'
      BY <1>1, <1>3, <2>1, CloseConnHeap DEF HttpIInv, PageAccounted
    <2> QED BY <1>1, <2>1, <2>2, <2>3, CloseConnHeap DEF HttpIInv
  <1> QED BY <1>1, <1>2, <1>3

\* http_poll tries again what failed: the page, or the close.
LEMMA PollStep ==
  ASSUME HttpIInv, NEW c \in HttpConns, HttpPoll(c) PROVE HttpIInv'
  <1> USE HttpAssumption
  <1>1. CASE arg[c]
    <2>1. /\ Sndbuf(c) \in 0 .. SNDBUF /\ left[c] \in 0 .. PAGE
          /\ written[c] + left[c] <= PAGE
          /\ SendData(c, left[c], Sndbuf(c))
      BY <1>1 DEF Sndbuf, HttpIInv, HttpTypeOK, PageAccounted, HttpPoll, PageLeft
    <2>2. PICK l \in 0 .. left[c], u \in 0 .. SNDBUF, w \in written[c] .. PAGE :
              /\ left' = [left EXCEPT ![c] = l]
              /\ written' = [written EXCEPT ![c] = w]
              /\ unacked' = [unacked EXCEPT ![c] = u]
              /\ w + l = written[c] + left[c]
              /\ fails' \in 0 .. MAX_FAILS
      BY <2>1, SendDataCounts
    <2>3. UNCHANGED <<pcb, arg, heap, sentCb, recvCb, file, cut, pbufs>>
      BY <1>1 DEF HttpPoll
    <2>4. HttpTypeOK'
      BY <2>1, <2>2, <2>3 DEF HttpIInv, HttpTypeOK
    <2>5. HeapMatchesConnections'
      BY <2>3 DEF HttpIInv, HeapMatchesConnections
    <2>6. PageAccounted'
      BY <1>1, <2>1, <2>2, <2>3 DEF HttpIInv, HttpTypeOK, PageAccounted
    <2> QED BY <2>4, <2>5, <2>6 DEF HttpIInv
  <1>2. CASE ~arg[c]
    BY <1>2 DEF HttpPoll, TcpClose, HttpIInv, HttpTypeOK, HeapMatchesConnections,
                PageAccounted
  <1> QED BY <1>1, <1>2

\* conn_err, and the end of a closed connection.
LEMMA EndStep ==
  ASSUME HttpIInv, NEW c \in HttpConns, HttpConnErr(c) \/ HttpClosed(c)
  PROVE  HttpIInv'
  <1>1. CASE HttpConnErr(c)
    <2>1. HttpTypeOK'
      BY <1>1 DEF HttpConnErr, HttpIInv, HttpTypeOK
    <2>2. HeapMatchesConnections'
      BY <1>1 DEF HttpConnErr, HttpIInv, HttpTypeOK, HeapMatchesConnections
    <2>3. PageAccounted'
      BY <1>1 DEF HttpConnErr, HttpIInv, HttpTypeOK, PageAccounted
    <2> QED BY <2>1, <2>2, <2>3 DEF HttpIInv
  <1>2. CASE HttpClosed(c)
    <2>1. HttpTypeOK'
      BY <1>2 DEF HttpClosed, HttpIInv, HttpTypeOK
    <2>2. HeapMatchesConnections'
      BY <1>2 DEF HttpClosed, HttpIInv, HttpTypeOK, HeapMatchesConnections
    <2>3. PageAccounted'
      BY <1>2 DEF HttpClosed, HttpIInv, HttpTypeOK, PageAccounted
    <2> QED BY <2>1, <2>2, <2>3 DEF HttpIInv
  <1> QED BY <1>1, <1>2

\* No callback, in any order, breaks the invariant.
LEMMA HttpNextIInv == ASSUME HttpIInv, [HttpNext]_httpVars PROVE HttpIInv'
  <1>1. CASE HttpNext /\ ~FrameDropped
    BY <1>1, AcceptStep, GetStep, HangUpStep, SentStep, PollStep, EndStep DEF HttpNext
  <1>2. CASE UNCHANGED httpVars
    BY <1>2 DEF httpVars, HttpIInv, HttpTypeOK, HeapMatchesConnections,
                PageAccounted
  <1> QED BY <1>1, <1>2 DEF FrameDropped

-----------------------------------------------------------------------------
(* The DHCP machine and the socket machine.                                *)

\* A static address is taken by the timeout only.
DhcpIInv ==
    /\ DhcpTypeOK
    /\ AddressSettled
    /\ DHCP_state \in {"DHCP_START", "DHCP_WAIT_ADDRESS"} => ip_addr # Static

\* A connected machine without a connection has lost it to a close.
FlagIsLostToClose ==
    machState = "CONNECTION" /\ ~tcpConnect /\ type \in TcpTypes => closed

SocketsIInv == SocketsTypeOK /\ DhcpIInv /\ FlagIsLostToClose

NetIInv == SocketsIInv /\ HttpIInv

-----------------------------------------------------------------------------
(* DHCP.                                                                   *)

LEMMA DhcpInitIInv == ASSUME DhcpInit PROVE DhcpIInv
  BY DhcpAssumption
  DEF DhcpInit, DhcpIInv, DhcpTypeOK, AddressSettled, DhcpStates, NoAddr, Leased,
      Static

\* dhcp_fine_tmr keeps the count of tries within its bound.
LEMMA TriesRange ==
  ASSUME DhcpTypeOK, NEW t \in Tries PROVE t \in 0 .. MAX_DHCP_TRIES + 1
  BY DhcpAssumption DEF DhcpTypeOK, Tries

\* LwIP_Periodic_Handle: every state of the DHCP machine keeps the invariant.
LEMMA PeriodicStep ==
  ASSUME DhcpIInv, TimerTicks \in 0 .. TICK_MODULUS - 1, LwIP_Periodic_Handle
  PROVE  DhcpIInv'
  <1> USE DhcpAssumption DEF DhcpIInv, DhcpTypeOK, AddressSettled, DhcpStates,
                             NoAddr, Leased, Static
  <1>1. CASE UNCHANGED dhcpVars
    BY <1>1 DEF dhcpVars
  <1>2. CASE DHCPfineTimer' = TimerTicks /\ DhcpStart
    BY <1>2 DEF DhcpStart, dhcp_start
  <1>3. CASE DHCPfineTimer' = TimerTicks /\ DhcpAssigned
    BY <1>3, TriesRange DEF DhcpAssigned
  <1>4. CASE DHCPfineTimer' = TimerTicks /\ DhcpTimeout
    BY <1>4, TriesRange DEF DhcpTimeout
  <1>5. CASE DHCPfineTimer' = TimerTicks /\ DhcpWaits
    BY <1>5, TriesRange DEF DhcpWaits
  <1>6. CASE DHCPfineTimer' = TimerTicks /\ DhcpSettled
    BY <1>6, TriesRange DEF DhcpSettled
  <1> QED BY <1>1, <1>2, <1>3, <1>4, <1>5, <1>6 DEF LwIP_Periodic_Handle

\* The server's answer, whenever it comes.
LEMMA LeaseStep == ASSUME DhcpIInv, LeaseArrives PROVE DhcpIInv'
  BY DEF LeaseArrives, DhcpIInv, DhcpTypeOK, AddressSettled, DhcpStates, NoAddr,
         Leased, Static

-----------------------------------------------------------------------------
(* SocketMachine.                                                          *)

\* tcpclient_init dials, and nothing else is connected at the start.
LEMMA ConnInitType ==
  ASSUME NEW t PROVE ConnInit(t) \in [Conns -> {"closed", "connecting", "open"}]
  <1> DEFINE state(c) == IF t = "TCP_CLIENT" /\ c = Dialled THEN "connecting"
                                                           ELSE "closed"
  <1>1. \A c \in Conns : state(c) \in {"closed", "connecting", "open"}
    OBVIOUS
  <1>2. ConnInit(t) = [c \in Conns |-> state(c)]
    BY DEF ConnInit
  <1> QED BY <1>1, <1>2

LEMMA SocketInitIInv == ASSUME SocketInit PROVE SocketsIInv
  <1>1. DhcpIInv
    BY DhcpInitIInv DEF SocketInit
  <1>2. conn \in [Conns -> {"closed", "connecting", "open"}]
    BY ConnInitType DEF SocketInit
  <1>3. SocketsTypeOK
    <2>1. /\ 0 \in 0 .. TICK_MODULUS - 1 /\ 0 \in 0 .. MAX_MSGS
          /\ 0 \in 0 .. MAX_RESETS /\ 0 \in 0 .. POOL
      BY DhcpAssumption, SocketsAssumption, PoolAssumption
    <2> QED BY <1>1, <1>2, <2>1 DEF SocketInit, SocketsTypeOK, DhcpIInv
  <1>4. FlagIsLostToClose
    BY DEF SocketInit, FlagIsLostToClose
  <1> QED BY <1>1, <1>3, <1>4 DEF SocketsIInv

\* What a frame does to the connections, and to the flag they share.
LEMMA PktStep ==
  ASSUME SocketsIInv, LwIP_Pkt_Handle
  PROVE  /\ DhcpIInv'
         /\ conn' \in [Conns -> {"closed", "connecting", "open"}]
         /\ tcpConnect' \in BOOLEAN /\ closed' \in BOOLEAN /\ doneLed' \in BOOLEAN
         /\ kept' \in 0 .. POOL
         /\ tcpConnect /\ ~tcpConnect' => closed'
         /\ closed => closed'
  <1> USE DEF SocketsIInv, SocketsTypeOK, recvVars
  <1>1. CASE tcpserver_accept /\ UNCHANGED dhcpVars
    BY <1>1 DEF tcpserver_accept, dhcpVars, DhcpIInv, DhcpTypeOK, AddressSettled
  <1>2. CASE client_connected /\ UNCHANGED dhcpVars
    BY <1>2, SocketsAssumption
    DEF client_connected, dhcpVars, DhcpIInv, DhcpTypeOK, AddressSettled
  <1>3. CASE BufferLeft(kept) /\ tcpserver_recv /\ UNCHANGED dhcpVars
    <2>0. kept' \in 0 .. POOL
      BY <1>3, PoolAssumption DEF tcpserver_recv, BufferLeft
    <2>1. /\ UNCHANGED <<tcpConnect, conn, closed>>
          /\ \E seg \in Segments :
                doneLed' = (CASE seg.cmd \in {"#", "2"} -> TRUE
                              [] seg.cmd = "NUL" -> doneLed
                              [] OTHER -> FALSE)
      BY <1>3 DEF tcpserver_recv
    <2>2. doneLed' \in BOOLEAN
      BY <2>1
    <2> QED BY <1>3, <2>0, <2>1, <2>2 DEF dhcpVars, DhcpIInv, DhcpTypeOK, AddressSettled
  <1>4. CASE TcpCloseConn /\ UNCHANGED dhcpVars
    BY <1>4 DEF TcpCloseConn, dhcpVars, DhcpIInv, DhcpTypeOK, AddressSettled
  <1>5. CASE OtherFrame /\ UNCHANGED dhcpVars
    BY <1>5 DEF OtherFrame, tcpVars, recvVars, dhcpVars, DhcpIInv, DhcpTypeOK, AddressSettled
  <1>6. CASE LeaseArrives /\ OtherFrame
    BY <1>6, LeaseStep DEF OtherFrame, tcpVars
  <1> QED BY <1>1, <1>2, <1>3, <1>4, <1>5, <1>6 DEF LwIP_Pkt_Handle

\* A frame: first the machine looks at the flag, then the callback may lower it.
LEMMA FrameStep == ASSUME SocketsIInv, FrameReceived PROVE SocketsIInv'
  <1>1. LwIP_Pkt_Handle /\ UNCHANGED <<lag, type, resets, TimerTicks>>
    BY DEF FrameReceived
  <1>2. /\ machState' \in {"INIT", "WAIT_CONNECTION", "CONNECTION"}
        /\ timer' \in 0 .. TICK_MODULUS - 1
        /\ ptcTimer' \in BOOLEAN /\ msgNbr' \in 0 .. MAX_MSGS
    <2> USE DEF SocketsIInv, SocketsTypeOK, socketVars, ptcVars
    <2>1. CASE TcpMachine /\ UNCHANGED ptcVars
      <3>1. machState' \in {"INIT", "WAIT_CONNECTION", "CONNECTION"}
               /\ (timer' = TimerTicks \/ timer' = timer)
        BY <2>1 DEF TcpMachine
      <3> QED BY <2>1, <3>1
    <2>2. CASE UdpMachine
      <3>1. 0 \in 0 .. MAX_MSGS
        BY SocketsAssumption
      <3> QED BY <2>2, <3>1 DEF UdpMachine
    <2> QED BY <2>1, <2>2 DEF FrameReceived
  <1>3. type \in TcpTypes /\ machState' = "CONNECTION" /\ ~tcpConnect
           => machState = "CONNECTION"
    BY DEF FrameReceived, TcpMachine, socketVars, TcpTypes, UdpTypes
  <1>4. SocketsTypeOK'
    BY <1>1, <1>2, PktStep DEF SocketsIInv, SocketsTypeOK, FrameReceived, DhcpIInv
  <1>5. FlagIsLostToClose'
    BY <1>1, <1>3, PktStep DEF SocketsIInv, SocketsTypeOK, FlagIsLostToClose
  <1> QED BY <1>1, <1>4, <1>5, PktStep DEF SocketsIInv

\* NVIC_SystemReset: everything starts again.
LEMMA ResetStep == ASSUME SocketsIInv, SystemReset PROVE SocketsIInv'
  <1>1. DhcpIInv'
    BY DhcpAssumption
    DEF SystemReset, DhcpIInv, DhcpTypeOK, AddressSettled, DhcpStates, NoAddr,
        Leased, Static
  <1>2. conn' \in [Conns -> {"closed", "connecting", "open"}]
    BY ConnInitType DEF SystemReset
  <1>3. SocketsTypeOK'
    <2>1. /\ 0 \in 0 .. TICK_MODULUS - 1 /\ 0 \in 0 .. MAX_MSGS /\ 0 \in 0 .. POOL
          /\ resets + 1 \in 0 .. MAX_RESETS
      BY DhcpAssumption, SocketsAssumption, PoolAssumption DEF SystemReset, SocketsIInv, SocketsTypeOK
    <2>2. turn' \in {"frame", "periodic"} /\ type' \in SocketTypes /\ resets' = resets + 1
      BY DEF SystemReset, SocketsIInv, SocketsTypeOK
    <2>3. /\ lag' = FALSE /\ machState' = "INIT" /\ timer' = 0 /\ TimerTicks' = 0
          /\ tcpConnect' = FALSE /\ closed' = FALSE /\ doneLed' = FALSE
          /\ ptcTimer' = FALSE /\ msgNbr' = 0 /\ kept' = 0
      BY DEF SystemReset
    <2> QED BY <1>1, <1>2, <2>1, <2>2, <2>3 DEF SocketsTypeOK, DhcpIInv
  <1>4. FlagIsLostToClose'
    BY DEF SystemReset, FlagIsLostToClose
  <1> QED BY <1>1, <1>3, <1>4 DEF SocketsIInv

\* The rest of SocketMachine, the tick, the timer of the messages and lwIP.
LEMMA OtherSteps ==
  ASSUME SocketsIInv,
         NoFrame \/ Periodic \/ SysTick \/ UpdSocketSend \/ ConnAborted
  PROVE  SocketsIInv'
  <1> USE DEF SocketsIInv
  <1>1. CASE NoFrame
    BY <1>1 DEF NoFrame, socketVars, tcpVars, recvVars, ptcVars, dhcpVars, SocketsTypeOK,
                DhcpIInv, DhcpTypeOK, AddressSettled, FlagIsLostToClose
  <1>2. CASE Periodic
    <2>1. DhcpIInv'
      BY <1>2, PeriodicStep DEF Periodic, SocketsTypeOK
    <2> QED BY <1>2, <2>1 DEF Periodic, socketVars, tcpVars, ptcVars, SocketsTypeOK,
                              DhcpIInv, FlagIsLostToClose
  <1>3. CASE SysTick
    <2>1. TimerTicks' \in 0 .. TICK_MODULUS - 1
      BY <1>3, DhcpAssumption DEF SysTick, SocketsTypeOK
    <2>2. DhcpIInv'
      BY <1>3 DEF SysTick, dhcpVars, DhcpIInv, DhcpTypeOK, AddressSettled
    <2> QED BY <1>3, <2>1, <2>2 DEF SysTick, socketVars, tcpVars, recvVars, ptcVars,
                                    SocketsTypeOK, DhcpIInv, FlagIsLostToClose
  <1>4. CASE UpdSocketSend
    <2>1. msgNbr' \in 0 .. MAX_MSGS
      BY <1>4, SocketsAssumption DEF UpdSocketSend, SocketsTypeOK
    <2>2. UNCHANGED <<turn, lag, type, socketVars, tcpVars, kept, doneLed, ptcTimer,
                      resets, TimerTicks, dhcpVars>>
      BY <1>4 DEF UpdSocketSend, recvVars
    <2> QED BY <2>1, <2>2 DEF socketVars, tcpVars, dhcpVars, SocketsTypeOK, DhcpIInv,
                              DhcpTypeOK, AddressSettled, FlagIsLostToClose
  <1>5. CASE ConnAborted
    BY <1>5 DEF ConnAborted, socketVars, recvVars, ptcVars, dhcpVars, SocketsTypeOK, DhcpIInv,
                DhcpTypeOK, AddressSettled, FlagIsLostToClose
  <1> QED BY <1>1, <1>2, <1>3, <1>4, <1>5

LEMMA SocketsNextIInv == ASSUME SocketsIInv, [Next]_vars PROVE SocketsIInv'
  <1>1. CASE UNCHANGED vars
    BY <1>1 DEF vars, socketVars, tcpVars, recvVars, ptcVars, dhcpVars, SocketsIInv,
                SocketsTypeOK, DhcpIInv, DhcpTypeOK, AddressSettled,
                FlagIsLostToClose
  <1>2. CASE Next
    BY <1>2, FrameStep, ResetStep, OtherSteps DEF Next
  <1> QED BY <1>1, <1>2

-----------------------------------------------------------------------------
(* The theorems.                                                           *)

LEMMA AlwaysNetIInv == NetSpec => []NetIInv
  <1>1. NetInit => NetIInv
    BY SocketInitIInv, HttpInitIInv DEF NetInit, NetIInv
  <1>2. NetIInv /\ [NetNext]_netVars => NetIInv'
    <2> SUFFICES ASSUME NetIInv, [NetNext]_netVars PROVE NetIInv'
      OBVIOUS
    <2>1. [Next]_vars /\ [HttpNext]_httpVars
      BY DEF NetNext, netVars
    <2> QED BY <2>1, SocketsNextIInv, HttpNextIInv DEF NetIInv
  <1> QED BY <1>1, <1>2, PTL DEF NetSpec

\* Whichever comes first, the server's answer or the last try, the address the
\* DHCP machine of netconf.c settles for is the one in use from then on.
THEOREM AddressStaysSettled == NetSpec => []AddressSettled
  <1>1. NetIInv => AddressSettled
    BY DEF NetIInv, SocketsIInv, DhcpIInv
  <1> QED BY <1>1, AlwaysNetIInv, PTL

\* The page server's heap: an http_state for each connection that may use it,
\* and for no other, in whatever order the callbacks of httpserver.c run.
THEOREM HeapCorrect == NetSpec => []HeapMatchesConnections
  <1>1. NetIInv => HeapMatchesConnections
    BY DEF NetIInv, HttpIInv
  <1> QED BY <1>1, AlwaysNetIInv, PTL

\* A connection the page server closes of its own accord was given the page but
\* for the last byte, which http_recv leaves out, however often tcp_write and
\* tcp_close refuse.
THEOREM PageCorrect == NetSpec => []PageButLastByte
  <1>1. NetIInv => PageButLastByte
    BY AccountedIsWhole DEF NetIInv
  <1> QED BY <1>1, AlwaysNetIInv, PTL

\* The board resets itself (ApplicationSocket.c) only after a peer has closed a
\* connection, however many connections share the flag.
THEOREM ResetCorrect == NetSpec => ResetOnlyAfterClose
  <1>1. NetIInv /\ [NetNext]_netVars => [resets' # resets => closed]_vars
    <2> SUFFICES ASSUME NetIInv, [NetNext]_netVars, resets' # resets PROVE closed
      OBVIOUS
    <2>1. [Next]_vars
      BY DEF NetNext, netVars
    <2>2. SystemReset
      BY <2>1 DEF Next, vars, FrameReceived, NoFrame, Periodic, SysTick,
                  UpdSocketSend, ConnAborted
    <2> QED BY <2>2 DEF SystemReset, NetIInv, SocketsIInv, FlagIsLostToClose
  <1> QED BY <1>1, AlwaysNetIInv, PTL DEF NetSpec, ResetOnlyAfterClose

\* A short segment that fits is answered whole, with either sign of a char.
LEMMA ShortAnswer ==
  ASSUME NEW seg \in Segments, NEW signed \in BOOLEAN,
         seg.tot < 128, seg.tot <= seg.room, seg.room >= 4
  PROVE  AnswerLength(seg, signed) = IF seg.cmd = "#" THEN 4 ELSE seg.tot
  <1>1. seg.tot \in Nat /\ seg.room \in Nat
    BY SocketsAssumption
  <1>2. ASSUME NEW n \in Nat, n < 128
        PROVE  n % 256 = n /\ n % 65536 = n /\ Char(n, signed) = n
    BY <1>2 DEF Char
  <1>3. Char(seg.tot, signed) = seg.tot
    BY <1>1, <1>2
  <1>4. ~(seg.room < Char(seg.tot, signed))
    BY <1>1, <1>3
  <1>5. CASE seg.cmd = "#"
    <2>1. Char(ProcessPtcCommand(seg.cmd, seg.tot), signed) % 65536 = 4
      BY <1>2, <1>5 DEF ProcessPtcCommand
    <2> QED BY <1>1, <1>3, <1>4, <1>5, <2>1 DEF AnswerLength
  <1>6. CASE seg.cmd # "#"
    <2>1. Char(ProcessPtcCommand(seg.cmd, seg.tot), signed) % 65536 = seg.tot
      BY <1>1, <1>2, <1>6 DEF ProcessPtcCommand
    <2> QED BY <1>1, <1>3, <1>4, <1>6, <2>1 DEF AnswerLength
  <1> QED BY <1>5, <1>6

\* No step of SocketMachine but tcpserver_recv leaves an answer.
LEMMA EchoStep == ASSUME EchoIsWholeOrNone, [Next]_vars PROVE EchoIsWholeOrNone'
  <1>1. \/ echo' = echo \/ echo' = <<>>
        \/ \E seg \in Segments, signed \in BOOLEAN :
              \E taken \in {AnswerLength(seg, signed), 0} : echo' = <<seg, taken>>
    BY DEF Next, vars, recvVars, FrameReceived, LwIP_Pkt_Handle, tcpserver_accept,
           client_connected, tcpserver_recv, TcpCloseConn, OtherFrame, SystemReset,
           NoFrame, Periodic, SysTick, UpdSocketSend, ConnAborted
  <1>2. CASE echo' = echo \/ echo' = <<>>
    BY <1>2 DEF EchoIsWholeOrNone
  <1>3. ASSUME NEW seg \in Segments, NEW signed \in BOOLEAN,
               NEW taken \in {AnswerLength(seg, signed), 0},
               echo' = <<seg, taken>>
        PROVE  EchoIsWholeOrNone'
    <2>1. echo'[1] = seg /\ echo'[2] = taken
      BY <1>3
    <2> QED BY <2>1, ShortAnswer DEF EchoIsWholeOrNone
  <1> QED BY <1>1, <1>2, <1>3

\* Segments of less than 128 bytes are echoed by tcpserver_recv
\* (tcpserverclient.c) whole or not at all, whatever the peers send and a char is.
THEOREM EchoCorrect == NetSpec => []EchoIsWholeOrNone
  <1>1. NetInit => EchoIsWholeOrNone
    BY DEF NetInit, SocketInit, EchoIsWholeOrNone
  <1>2. EchoIsWholeOrNone /\ [NetNext]_netVars => EchoIsWholeOrNone'
    <2> SUFFICES ASSUME EchoIsWholeOrNone, [NetNext]_netVars PROVE EchoIsWholeOrNone'
      OBVIOUS
    <2>1. [Next]_vars
      BY DEF NetNext, netVars
    <2> QED BY <2>1, EchoStep
  <1> QED BY <1>1, <1>2, PTL DEF NetSpec

\* Types: counters, lengths and machine states stay in their ranges.
THEOREM TypeCorrect == NetSpec => []TypeOK
  <1>1. NetIInv => TypeOK
    BY DEF NetIInv, SocketsIInv, HttpIInv, TypeOK
  <1> QED BY <1>1, AlwaysNetIInv, PTL

-----------------------------------------------------------------------------
(* PTC messages: what a receiver reads of the bytes.                       *)

LEMMA AppendedBytes ==
  ASSUME NEW value \in Nat, NEW size \in 1 .. 4
  PROVE  /\ AppendToBuffer(value, size) \in Seq(Int)
         /\ Len(AppendToBuffer(value, size)) = size
  BY SMT DEF AppendToBuffer, Bytes

LEMMA ConcatBytes ==
  ASSUME NEW s \in Seq(Int), NEW t \in Seq(Int)
  PROVE  /\ s \o t \in Seq(Int) /\ Len(s \o t) = Len(s) + Len(t)
         /\ \A k \in 1 .. Len(s) : (s \o t)[k] = s[k]
         /\ \A k \in 1 .. Len(t) : (s \o t)[Len(s) + k] = t[k]
  BY SMT

\* What was put into four bytes, two or one is read from them.
LEMMA FourBytes ==
  ASSUME NEW v \in Nat, ((v \div 256) \div 256) \div 256 < 256
  PROVE  LET b == AppendToBuffer(v, 4) IN
         ((b[1] * 256 + b[2]) * 256 + b[3]) * 256 + b[4] = v
  BY SMT DEF AppendToBuffer, Bytes

LEMMA TwoBytes ==
  ASSUME NEW v \in Nat, v \div 256 < 256
  PROVE  LET b == AppendToBuffer(v, 2) IN b[1] * 256 + b[2] = v
  BY SMT DEF AppendToBuffer, Bytes

LEMMA OneByte ==
  ASSUME NEW v \in Nat, v < 256
  PROVE  AppendToBuffer(v, 1)[1] = v
  BY SMT DEF AppendToBuffer, Bytes

\* Two strings of m and n bytes, one behind the other.
LEMMA Joined ==
  ASSUME NEW s \in Seq(Int), NEW t \in Seq(Int), NEW m \in Nat, NEW n \in Nat,
         Len(s) = m, Len(t) = n
  PROVE  /\ s \o t \in Seq(Int) /\ Len(s \o t) = m + n
         /\ \A k \in 1 .. m : (s \o t)[k] = s[k]
         /\ \A k \in 1 .. n : (s \o t)[m + k] = t[k]
  BY ConcatBytes, Zenon

\* A string of m bytes with a value of n bytes behind it.
LEMMA Appended ==
  ASSUME NEW s \in Seq(Int), NEW m \in Nat, Len(s) = m,
         NEW value \in Nat, NEW n \in 1 .. 4
  PROVE  LET all == s \o AppendToBuffer(value, n)
         IN  /\ all \in Seq(Int) /\ Len(all) = m + n
             /\ \A k \in 1 .. m : all[k] = s[k]
             /\ \A k \in 1 .. n : all[m + k] = AppendToBuffer(value, n)[k]
  <1>1. n \in Nat
    BY SMT
  <1>2. AppendToBuffer(value, n) \in Seq(Int) /\ Len(AppendToBuffer(value, n)) = n
    BY AppendedBytes, Zenon
  <1>3. PICK t \in Seq(Int) : t = AppendToBuffer(value, n) /\ Len(t) = n
    BY <1>2, Zenon
  <1>4. /\ s \o t \in Seq(Int) /\ Len(s \o t) = m + n
        /\ \A k \in 1 .. m : (s \o t)[k] = s[k]
        /\ \A k \in 1 .. n : (s \o t)[m + k] = t[k]
    BY <1>1, <1>3, SMT
  <1> QED BY <1>3, <1>4, Zenon

\* A header of fields with these values: the number is in the bytes 9 to 12 of
\* its 17.
LEMMA FieldsOfHeader ==
  ASSUME NEW v \in [1 .. 8 -> Nat]
  PROVE  LET start == AppendToBuffer(v[1], 1) \o AppendToBuffer(v[2], 2)
                      \o AppendToBuffer(v[3], 1) \o AppendToBuffer(v[4], 1)
                      \o AppendToBuffer(v[5], 3)
             all   == start \o AppendToBuffer(v[6], 4) \o AppendToBuffer(v[7], 4)
                      \o AppendToBuffer(v[8], 1)
         IN  /\ all \in Seq(Int) /\ Len(all) = 17
             /\ \A k \in 1 .. 4 : all[8 + k] = AppendToBuffer(v[6], 4)[k]
  <1> DEFINE B1 == AppendToBuffer(v[1], 1)
             B2 == B1 \o AppendToBuffer(v[2], 2)
             B3 == B2 \o AppendToBuffer(v[3], 1)
             B4 == B3 \o AppendToBuffer(v[4], 1)
             B5 == B4 \o AppendToBuffer(v[5], 3)
             B6 == B5 \o AppendToBuffer(v[6], 4)
             B7 == B6 \o AppendToBuffer(v[7], 4)
             B8 == B7 \o AppendToBuffer(v[8], 1)
  <1>1. B1 \in Seq(Int) /\ Len(B1) = 1
    <2>1. v[1] \in Nat /\ 1 \in 1 .. 4
      BY SMT
    <2> QED BY <2>1, AppendedBytes, Zenon
  <1>2. B2 \in Seq(Int) /\ Len(B2) = 3
    <2> HIDE DEF B1
    <2>1. v[2] \in Nat /\ 1 \in Nat /\ 2 \in 1 .. 4 /\ 1 + 2 = 3
      BY SMT
    <2> QED BY <1>1, <2>1, Appended, Zenon
  <1>3. B3 \in Seq(Int) /\ Len(B3) = 4
    <2> HIDE DEF B2
    <2>1. v[3] \in Nat /\ 3 \in Nat /\ 1 \in 1 .. 4 /\ 3 + 1 = 4
      BY SMT
    <2> QED BY <1>2, <2>1, Appended, Zenon
  <1>4. B4 \in Seq(Int) /\ Len(B4) = 5
    <2> HIDE DEF B3
    <2>1. v[4] \in Nat /\ 4 \in Nat /\ 1 \in 1 .. 4 /\ 4 + 1 = 5
      BY SMT
    <2> QED BY <1>3, <2>1, Appended, Zenon
  <1>5. B5 \in Seq(Int) /\ Len(B5) = 8
    <2> HIDE DEF B4
    <2>1. v[5] \in Nat /\ 5 \in Nat /\ 3 \in 1 .. 4 /\ 5 + 3 = 8
      BY SMT
    <2> QED BY <1>4, <2>1, Appended, Zenon
  <1>6. /\ B6 \in Seq(Int) /\ Len(B6) = 12
        /\ \A k \in 1 .. 4 : B6[8 + k] = AppendToBuffer(v[6], 4)[k]
    <2> HIDE DEF B5
    <2>1. v[6] \in Nat /\ 8 \in Nat /\ 4 \in 1 .. 4 /\ 8 + 4 = 12
      BY SMT
    <2> QED BY <1>5, <2>1, Appended, Zenon
  <1>7. /\ B7 \in Seq(Int) /\ Len(B7) = 16
        /\ \A k \in 1 .. 12 : B7[k] = B6[k]
    <2> HIDE DEF B6
    <2>1. v[7] \in Nat /\ 12 \in Nat /\ 4 \in 1 .. 4 /\ 12 + 4 = 16
      BY SMT
    <2> QED BY <1>6, <2>1, Appended, Zenon
  <1>8. /\ B8 \in Seq(Int) /\ Len(B8) = 17
        /\ \A k \in 1 .. 16 : B8[k] = B7[k]
    <2> HIDE DEF B7
    <2>1. v[8] \in Nat /\ 16 \in Nat /\ 1 \in 1 .. 4 /\ 16 + 1 = 17
      BY SMT
    <2> QED BY <1>7, <2>1, Appended, Zenon
  <1>9. ASSUME NEW k \in 1 .. 4 PROVE B8[8 + k] = AppendToBuffer(v[6], 4)[k]
    <2> HIDE DEF B8, B7, B6
    <2>1. 8 + k \in 1 .. 12 /\ 8 + k \in 1 .. 16
      BY SMT
    <2> QED BY <1>6, <1>7, <1>8, <2>1, Zenon
  <1> QED BY <1>8, <1>9, Zenon

LEMMA HeaderRead ==
  ASSUME NEW n \in Nat
  PROVE  /\ MsgHeader(n) \in Seq(Int) /\ Len(MsgHeader(n)) = 17
         /\ \A k \in 1 .. 4 : MsgHeader(n)[8 + k] = AppendToBuffer(n, 4)[k]
  <1> DEFINE v == <<2, 65535, 2, 9, 821, n, 0, 0>>
  <1>1. v \in [1 .. 8 -> Nat]
    BY SMT
  <1>2. MsgHeader(n) = (AppendToBuffer(v[1], 1) \o AppendToBuffer(v[2], 2)
                        \o AppendToBuffer(v[3], 1) \o AppendToBuffer(v[4], 1)
                        \o AppendToBuffer(v[5], 3)) \o AppendToBuffer(v[6], 4)
                       \o AppendToBuffer(v[7], 4) \o AppendToBuffer(v[8], 1)
    BY SMT DEF MsgHeader, HeaderStart
  <1>3. v[6] = n
    BY SMT
  <1> HIDE DEF v
  <1> QED BY <1>1, <1>2, <1>3, FieldsOfHeader, Zenon

LEMMA LigFields ==
  ASSUME NEW a \in Nat, NEW b \in Nat, NEW c \in Seq(Int), NEW d \in Seq(Int),
         Len(c) = 7, Len(d) = 6
  PROVE  LET all == AppendToBuffer(a, 2) \o AppendToBuffer(b, 4) \o c \o d
         IN  all \in Seq(Int) /\ Len(all) = 19
  <1> DEFINE B1 == AppendToBuffer(a, 2)
             B2 == B1 \o AppendToBuffer(b, 4)
             B3 == B2 \o c
  <1>1. B1 \in Seq(Int) /\ Len(B1) = 2
    <2>1. 2 \in 1 .. 4
      BY SMT
    <2> QED BY <2>1, AppendedBytes, Zenon
  <1>2. B2 \in Seq(Int) /\ Len(B2) = 6
    <2> HIDE DEF B1
    <2>1. 2 \in Nat /\ 4 \in 1 .. 4 /\ 2 + 4 = 6
      BY SMT
    <2> QED BY <1>1, <2>1, Appended, Zenon
  <1>3. B3 \in Seq(Int) /\ Len(B3) = 13
    <2> HIDE DEF B2
    <2>1. 6 \in Nat /\ 7 \in Nat /\ 6 + 7 = 13
      BY SMT
    <2> QED BY <1>2, <2>1, Joined, Zenon
  <1>4. B3 \o d \in Seq(Int) /\ Len(B3 \o d) = 19
    <2> HIDE DEF B3
    <2>1. 13 \in Nat /\ 6 \in Nat /\ 13 + 6 = 19
      BY SMT
    <2> QED BY <1>3, <2>1, Joined, Zenon
  <1> QED BY <1>4, Zenon

LEMMA LigLength == LigMsgHeader \in Seq(Int) /\ Len(LigMsgHeader) = 19
  <1> DEFINE a == 65535
             b == 13
             c == <<2, 77, 1, 3, 3, 47, 0>>
             d == <<0, 0, 0, 0, 0, 0>>
  <1>1. a \in Nat /\ b \in Nat
    BY SMT
  <1>2. c \in Seq(Int) /\ Len(c) = 7 /\ d \in Seq(Int) /\ Len(d) = 6
    BY SMT
  <1>3. LigMsgHeader = ((AppendToBuffer(a, 2) \o AppendToBuffer(b, 4)) \o c) \o d
    BY SMT DEF LigMsgHeader
  <1> HIDE DEF a, b, c, d
  <1> QED BY <1>1, <1>2, <1>3, LigFields, Zenon

\* The tag is in the first two bytes of the seven, its value in the last.
LEMMA FieldsOfTag ==
  ASSUME NEW tag \in Nat, NEW one \in Nat, NEW value \in Nat
  PROVE  LET all == AppendToBuffer(tag, 2) \o AppendToBuffer(one, 4)
                    \o AppendToBuffer(value, 1)
         IN  /\ all \in Seq(Int) /\ Len(all) = 7
             /\ \A k \in 1 .. 2 : all[k] = AppendToBuffer(tag, 2)[k]
             /\ all[7] = AppendToBuffer(value, 1)[1]
  <1> DEFINE B1 == AppendToBuffer(tag, 2)
             B2 == B1 \o AppendToBuffer(one, 4)
             B3 == B2 \o AppendToBuffer(value, 1)
  <1>1. B1 \in Seq(Int) /\ Len(B1) = 2
    <2>1. 2 \in 1 .. 4
      BY SMT
    <2> QED BY <2>1, AppendedBytes, Zenon
  <1>2. /\ B2 \in Seq(Int) /\ Len(B2) = 6
        /\ \A k \in 1 .. 2 : B2[k] = B1[k]
    <2> HIDE DEF B1
    <2>1. 2 \in Nat /\ 4 \in 1 .. 4 /\ 2 + 4 = 6
      BY SMT
    <2> QED BY <1>1, <2>1, Appended, Zenon
  <1>3. /\ B3 \in Seq(Int) /\ Len(B3) = 7
        /\ \A k \in 1 .. 6 : B3[k] = B2[k]
        /\ \A k \in 1 .. 1 : B3[6 + k] = AppendToBuffer(value, 1)[k]
    <2> HIDE DEF B2
    <2>1. 6 \in Nat /\ 1 \in 1 .. 4 /\ 6 + 1 = 7
      BY SMT
    <2> QED BY <1>2, <2>1, Appended, Zenon
  <1>4. ASSUME NEW k \in 1 .. 2 PROVE B3[k] = B1[k]
    <2> HIDE DEF B3, B2, B1
    <2>1. k \in 1 .. 6
      BY SMT
    <2> QED BY <1>2, <1>3, <2>1, Zenon
  <1>5. 1 \in 1 .. 1 /\ 6 + 1 = 7
    BY SMT
  <1>6. B3[7] = AppendToBuffer(value, 1)[1]
    BY <1>3, <1>5, Zenon
  <1> QED BY <1>3, <1>4, <1>6, Zenon

LEMMA TagRead ==
  ASSUME NEW tag \in Nat, NEW value \in Nat
  PROVE  /\ PtcTag(tag, value) \in Seq(Int) /\ Len(PtcTag(tag, value)) = 7
         /\ \A k \in 1 .. 2 : PtcTag(tag, value)[k] = AppendToBuffer(tag, 2)[k]
         /\ PtcTag(tag, value)[7] = AppendToBuffer(value, 1)[1]
  <1>1. 1 \in Nat
    BY SMT
  <1> QED BY <1>1, FieldsOfTag, Zenon DEF PtcTag

\* The two headers and the tag, one behind the other.
LEMMA PartsOfPacket ==
  ASSUME NEW H \in Seq(Int), NEW L \in Seq(Int), NEW T \in Seq(Int),
         Len(H) = 17, Len(L) = 19, Len(T) = 7
  PROVE  LET P == (H \o L) \o T
         IN  /\ \A k \in 1 .. 17 : P[k] = H[k]
             /\ \A k \in 1 .. 7 : P[36 + k] = T[k]
  <1> DEFINE HL == H \o L
             P  == HL \o T
  <1>1. /\ HL \in Seq(Int) /\ Len(HL) = Len(H) + Len(L)
        /\ \A k \in 1 .. Len(H) : HL[k] = H[k]
    BY ConcatBytes, Zenon
  <1>2. /\ \A k \in 1 .. Len(HL) : P[k] = HL[k]
        /\ \A k \in 1 .. Len(T) : P[Len(HL) + k] = T[k]
    <2> HIDE DEF HL
    <2> QED BY <1>1, ConcatBytes, Zenon
  <1> HIDE DEF HL, P
  <1>3. Len(HL) = 36
    BY <1>1, SMT
  <1>4. \A k \in 1 .. 17 : k \in 1 .. 36
    BY SMT
  <1>5. \A k \in 1 .. 17 : P[k] = H[k]
    BY <1>1, <1>2, <1>3, <1>4, Zenon
  <1>6. \A k \in 1 .. 7 : P[36 + k] = T[k]
    BY <1>2, <1>3, Zenon
  <1> QED BY <1>5, <1>6, Zenon DEF P, HL

\* A receiver reads the number, the tag and the value that were sent.
LEMMA PacketRead ==
  ASSUME NEW n \in Nat, ((n \div 256) \div 256) \div 256 < 256,
         NEW tag \in Nat, tag \div 256 < 256, NEW value \in Nat, value < 256
  PROVE  /\ MsgNbrOf(BuildPtcPacket(n, tag, value)) = n
         /\ TagOf(BuildPtcPacket(n, tag, value)) = tag
         /\ ValueOf(BuildPtcPacket(n, tag, value)) = value
  <1> DEFINE H == MsgHeader(n)
             L == LigMsgHeader
             T == PtcTag(tag, value)
             P == (H \o L) \o T
  <1>1. /\ H \in Seq(Int) /\ Len(H) = 17
        /\ \A k \in 1 .. 4 : H[8 + k] = AppendToBuffer(n, 4)[k]
    BY HeaderRead, Zenon
  <1>2. L \in Seq(Int) /\ Len(L) = 19
    BY LigLength, Zenon
  <1>3. /\ T \in Seq(Int) /\ Len(T) = 7
        /\ \A k \in 1 .. 2 : T[k] = AppendToBuffer(tag, 2)[k]
        /\ T[7] = AppendToBuffer(value, 1)[1]
    BY TagRead, Zenon
  <1>4. BuildPtcPacket(n, tag, value) = P
    BY Zenon DEF BuildPtcPacket
  <1> HIDE DEF H, L, T
  <1>5. /\ \A k \in 1 .. 17 : P[k] = H[k]
        /\ \A k \in 1 .. 7 : P[36 + k] = T[k]
    BY <1>1, <1>2, <1>3, PartsOfPacket, Zenon
  <1> HIDE DEF P
  <1>6. MsgNbrOf(P) = n
    <2>1. ASSUME NEW k \in 1 .. 4 PROVE P[8 + k] = AppendToBuffer(n, 4)[k]
      <3>1. 8 + k \in 1 .. 17
        BY SMT
      <3> QED BY <1>1, <1>5, <3>1, Zenon
    <2>2. /\ 1 \in 1 .. 4 /\ 2 \in 1 .. 4 /\ 3 \in 1 .. 4 /\ 4 \in 1 .. 4
          /\ 8 + 1 = 9 /\ 8 + 2 = 10 /\ 8 + 3 = 11 /\ 8 + 4 = 12
      BY SMT
    <2> DEFINE b == AppendToBuffer(n, 4)
    <2>3. P[9] = b[1] /\ P[10] = b[2] /\ P[11] = b[3] /\ P[12] = b[4]
      BY <2>1, <2>2, Zenon
    <2>4. ((b[1] * 256 + b[2]) * 256 + b[3]) * 256 + b[4] = n
      BY FourBytes
    <2> QED BY <2>3, <2>4, Zenon DEF MsgNbrOf
  <1>7. TagOf(P) = tag
    <2>1. 1 \in 1 .. 2 /\ 2 \in 1 .. 2 /\ 1 \in 1 .. 7 /\ 2 \in 1 .. 7
          /\ 36 + 1 = 37 /\ 36 + 2 = 38
      BY SMT
    <2> DEFINE b == AppendToBuffer(tag, 2)
    <2>2. P[37] = b[1] /\ P[38] = b[2]
      BY <1>3, <1>5, <2>1, Zenon
    <2>3. b[1] * 256 + b[2] = tag
      BY TwoBytes
    <2> QED BY <2>2, <2>3, Zenon DEF TagOf
  <1>8. ValueOf(P) = value
    <2>1. 7 \in 1 .. 7 /\ 36 + 7 = 43
      BY SMT
    <2>2. AppendToBuffer(value, 1)[1] = value
      BY OneByte
    <2> QED BY <1>3, <1>5, <2>1, <2>2, Zenon DEF ValueOf
  <1> QED BY <1>4, <1>6, <1>7, <1>8, Zenon

\* Messages are sent once the machine is connected for good; the last one sent
\* has no later number than was counted, which is even between two sendings.
WireFollowsCount ==
    /\ ptcTimer \/ wire # <<>> => type \in UdpTypes /\ machState = "CONNECTION"
    /\ msgNbr % 2 = 0
    /\ wire # <<>> => /\ MsgNbrOf(wire[Len(wire)]) \in Int
                      /\ MsgNbrOf(wire[Len(wire)]) <= msgNbr

\* What one call of the timer sends, and what of it arrives.
LEMMA SendStep ==
  ASSUME SocketsIInv, WireFollowsCount, UpdSocketSend, wire' # wire,
         NEW k \in DOMAIN wire'
  PROVE  /\ wire' # <<>>
         /\ LET number == MsgNbrOf(wire'[k]) IN
            /\ number \in {msgNbr + 1, msgNbr + 2}
            /\ k = Len(wire') \/ number = msgNbr + 1
            /\ k > 1 => number = msgNbr + 2 /\ MsgNbrOf(wire'[k - 1]) = msgNbr + 1
            /\ number = msgNbr + 1 => /\ TagOf(wire'[k]) = EMP_THROTTLE_POS
                                      /\ ValueOf(wire'[k]) = 4
            /\ number = msgNbr + 2 => /\ TagOf(wire'[k]) = EMP_REVERSER_DIR
                                      /\ ValueOf(wire'[k]) = 1
  <1> DEFINE t == BuildPtcPacket(msgNbr + 1, EMP_THROTTLE_POS, 4)
             r == BuildPtcPacket(msgNbr + 2, EMP_REVERSER_DIR, 1)
  <1>1. wire' = <<t, r>> \/ wire' = <<t>> \/ wire' = <<r>>
    BY DEF UpdSocketSend
  <1>2. msgNbr \in Nat /\ msgNbr + 2 <= MAX_MSGS /\ MAX_MSGS \in Nat
    BY SocketsAssumption DEF UpdSocketSend, SocketsIInv, SocketsTypeOK
  <1>3. ASSUME NEW n \in Nat, n <= MAX_MSGS
        PROVE  ((n \div 256) \div 256) \div 256 < 256
    BY <1>2, <1>3, SocketsAssumption, SMT
  <1>4. MsgNbrOf(t) = msgNbr + 1 /\ TagOf(t) = EMP_THROTTLE_POS /\ ValueOf(t) = 4
    <2>1. msgNbr + 1 \in Nat /\ msgNbr + 1 <= MAX_MSGS
      BY <1>2, SMT
    <2>2. EMP_THROTTLE_POS \in Nat /\ EMP_THROTTLE_POS \div 256 < 256
      BY SMT DEF EMP_THROTTLE_POS
    <2>3. 4 \in Nat /\ 4 < 256
      BY SMT
    <2> QED BY <1>3, <2>1, <2>2, <2>3, PacketRead, Zenon
  <1>5. MsgNbrOf(r) = msgNbr + 2 /\ TagOf(r) = EMP_REVERSER_DIR /\ ValueOf(r) = 1
    <2>1. msgNbr + 2 \in Nat /\ msgNbr + 2 <= MAX_MSGS
      BY <1>2, SMT
    <2>2. EMP_REVERSER_DIR \in Nat /\ EMP_REVERSER_DIR \div 256 < 256
      BY SMT DEF EMP_REVERSER_DIR
    <2>3. 1 \in Nat /\ 1 < 256
      BY SMT
    <2> QED BY <1>3, <2>1, <2>2, <2>3, PacketRead, Zenon
  <1> HIDE DEF t, r
  <1>6. CASE wire' = <<t, r>>
    <2>1. k \in {1, 2} /\ Len(wire') = 2 /\ wire'[1] = t /\ wire'[2] = r
      BY <1>6
    <2> QED BY <1>2, <1>4, <1>5, <1>6, <2>1, SMT
  <1>7. CASE wire' = <<t>>
    <2>1. k = 1 /\ Len(wire') = 1 /\ wire'[1] = t
      BY <1>7
    <2> QED BY <1>2, <1>4, <1>7, <2>1, SMT
  <1>8. CASE wire' = <<r>>
    <2>1. k = 1 /\ Len(wire') = 1 /\ wire'[1] = r
      BY <1>8
    <2> QED BY <1>2, <1>5, <1>8, <2>1, SMT
  <1> QED BY <1>1, <1>6, <1>7, <1>8

\* Only UpdSocketSend puts something on the wire.
LEMMA WireIsLeft ==
  ASSUME WireFollowsCount, [Next]_vars, ~UpdSocketSend
  PROVE  WireFollowsCount' /\ (wire' = wire \/ wire' = <<>>)
  <1>1. CASE FrameReceived
    <2>1. CASE TcpMachine /\ UNCHANGED ptcVars /\ type \in TcpTypes
      BY <1>1, <2>1 DEF FrameReceived, TcpMachine, ptcVars, socketVars, WireFollowsCount,
                        TcpTypes, UdpTypes
    <2>2. CASE UdpMachine
      BY <1>1, <2>2, 0 % 2 = 0
      DEF FrameReceived, UdpMachine, ptcVars, socketVars, WireFollowsCount
    <2> QED BY <1>1, <2>1, <2>2 DEF FrameReceived
  <1>2. CASE SystemReset
    BY <1>2, 0 % 2 = 0 DEF SystemReset, WireFollowsCount
  <1>3. CASE NoFrame \/ Periodic \/ SysTick \/ ConnAborted \/ UNCHANGED vars
    <2>1. UNCHANGED <<type, machState, ptcTimer, msgNbr, wire>>
      BY <1>3 DEF NoFrame, Periodic, SysTick, ConnAborted, vars, socketVars, ptcVars
    <2> QED BY <2>1 DEF WireFollowsCount
  <1> QED BY <1>1, <1>2, <1>3 DEF Next

LEMMA WireStep ==
  ASSUME SocketsIInv, WireFollowsCount, [Next]_vars
  PROVE  WireFollowsCount'
  <1>1. CASE ~UpdSocketSend
    BY <1>1, WireIsLeft
  <1>2. CASE UpdSocketSend
    <2>1. /\ ptcTimer /\ ptcTimer' = ptcTimer /\ type' = type
          /\ machState' = machState /\ msgNbr' = msgNbr + 2 /\ msgNbr \in Nat
      BY <1>2 DEF UpdSocketSend, socketVars, SocketsIInv, SocketsTypeOK
    <2>2. msgNbr' % 2 = 0
      BY <2>1, SMT DEF WireFollowsCount
    <2>3. CASE wire' = wire
      <3>1. wire # <<>> => MsgNbrOf(wire[Len(wire)]) <= msgNbr + 2
        BY <2>1, SMT DEF WireFollowsCount
      <3> QED BY <2>1, <2>2, <2>3, <3>1, Zenon DEF WireFollowsCount
    <2>4. CASE wire' # wire
      <3>1. Len(wire') \in DOMAIN wire'
        BY <1>2, <2>4 DEF UpdSocketSend
      <3> DEFINE last == MsgNbrOf(wire'[Len(wire')])
      <3>2. last \in {msgNbr + 1, msgNbr + 2}
        BY <1>2, <2>4, <3>1, SendStep, Zenon
      <3>3. last \in Int /\ last <= msgNbr'
        <4> HIDE DEF last
        <4> QED BY <2>1, <3>2, SMT
      <3> QED BY <2>1, <2>2, <3>3, Zenon DEF WireFollowsCount
    <2> QED BY <2>3, <2>4
  <1> QED BY <1>1, <1>2

\* A receiver of the PTC messages (AppPtcMessaging.c) reads numbers that rise,
\* whatever is lost, and under each the tag and the value it was sent with.
THEOREM PtcCorrect == NetSpec => PtcMessagesInOrder
  <1> DEFINE InOrder ==
        wire' # wire =>
          \A k \in DOMAIN wire' :
             LET number == MsgNbrOf(wire'[k])
             IN  /\ wire # <<>> => number > MsgNbrOf(wire[Len(wire)])
                 /\ k > 1 => number > MsgNbrOf(wire'[k - 1])
                 /\ TagOf(wire'[k]) = IF number % 2 = 1 THEN EMP_THROTTLE_POS
                                      ELSE EMP_REVERSER_DIR
                 /\ ValueOf(wire'[k]) = IF number % 2 = 1 THEN 4 ELSE 1
  <1>1. NetInit => WireFollowsCount
    BY 0 % 2 = 0 DEF NetInit, SocketInit, WireFollowsCount
  <1>2. NetIInv /\ WireFollowsCount /\ [NetNext]_netVars => WireFollowsCount'
    <2> SUFFICES ASSUME NetIInv, WireFollowsCount, [NetNext]_netVars
                 PROVE  WireFollowsCount'
      OBVIOUS
    <2>1. [Next]_vars /\ SocketsIInv
      BY DEF NetNext, netVars, NetIInv
    <2> QED BY <2>1, WireStep
  <1>3. NetIInv /\ WireFollowsCount /\ [NetNext]_netVars => [InOrder]_vars
    <2> SUFFICES ASSUME NetIInv, WireFollowsCount, [NetNext]_netVars, wire' # wire,
                        NEW k \in DOMAIN wire'
                 PROVE  LET number == MsgNbrOf(wire'[k])
                        IN  /\ wire # <<>> => number > MsgNbrOf(wire[Len(wire)])
                            /\ k > 1 => number > MsgNbrOf(wire'[k - 1])
                            /\ TagOf(wire'[k]) = IF number % 2 = 1 THEN EMP_THROTTLE_POS
                                                 ELSE EMP_REVERSER_DIR
                            /\ ValueOf(wire'[k]) = IF number % 2 = 1 THEN 4 ELSE 1
      BY Zenon
    <2>1. [Next]_vars /\ SocketsIInv
      BY DEF NetNext, netVars, NetIInv
    <2>2. UpdSocketSend
      <3>1. wire' # <<>>
        OBVIOUS
      <3> QED BY <2>1, <3>1, WireIsLeft
    <2> DEFINE number == MsgNbrOf(wire'[k])
               before == MsgNbrOf(wire'[k - 1])
               last   == MsgNbrOf(wire[Len(wire)])
    <2>3. /\ number \in {msgNbr + 1, msgNbr + 2}
          /\ k > 1 => number = msgNbr + 2 /\ before = msgNbr + 1
          /\ number = msgNbr + 1 => /\ TagOf(wire'[k]) = EMP_THROTTLE_POS
                                    /\ ValueOf(wire'[k]) = 4
          /\ number = msgNbr + 2 => /\ TagOf(wire'[k]) = EMP_REVERSER_DIR
                                    /\ ValueOf(wire'[k]) = 1
      BY <2>1, <2>2, SendStep, Zenon
    <2>4. wire # <<>> => last \in Int /\ last <= msgNbr
      BY Zenon DEF WireFollowsCount
    <2>5. msgNbr \in Nat /\ msgNbr % 2 = 0
      BY <2>1 DEF SocketsIInv, SocketsTypeOK, WireFollowsCount
    <2>6. /\ number = msgNbr + 1 <=> number % 2 = 1
          /\ number = msgNbr + 2 <=> number % 2 # 1
      <3> HIDE DEF number
      <3> QED BY <2>3, <2>5, SMT
    <2>7. /\ wire # <<>> => number > last
          /\ k > 1 => number > before
      <3> HIDE DEF number, last, before
      <3> QED BY <2>3, <2>4, <2>5, SMT
    <2> QED BY <2>3, <2>6, <2>7, Zenon
  <1>4. PtcMessagesInOrder <=> [][InOrder]_vars
    BY PTL DEF PtcMessagesInOrder
  <1> QED BY <1>1, <1>2, <1>3, <1>4, AlwaysNetIInv, PTL DEF NetSpec

=============================================================================
