------------------------------ MODULE Sockets --------------------------------
(***************************************************************************)
(* SocketMachine (ApplicationSocket.c) with the services it drives: the    *)
(* TCP server and client of tcpserverclient.c, the UDP client and server   *)
(* of udpserverclient.c, PTC messages, and the DHCP machine of Dhcp.       *)
(*                                                                         *)
(* A call of SocketMachine first takes a received frame, if there is one,  *)
(* then runs the periodic handlers.  The timer of the PTC messages fires   *)
(* from the tick, between the two or after.  Which service runs is a       *)
(* constant of InitSocketMachine; here it is any.  lwIP, the peers and the  *)
(* driver are external.                                                    *)
(***************************************************************************)
EXTENDS Dhcp, PtcMessage, PacketPool, FiniteSets

CONSTANTS
    Conns,          \* connections lwIP has room for
    Dialled,        \* the one tcpclient_init opens
    WAIT_TICKS,     \* 5000 ms, in ticks
    Segments,       \* [cmd, tot, room]: what comes in on a connection: its
                    \* first byte, its length, the room in the send buffer
    MAX_MSGS,       \* bound: PTC messages, which msgNbr (Int32U) counts
    MAX_RESETS      \* bound: resets of the board

ASSUME SocketsAssumption ==
    /\ Dialled \in Conns /\ WAIT_TICKS \in Nat
    /\ \A seg \in Segments : seg.tot \in Nat /\ seg.room \in Nat
    /\ MAX_MSGS \in Nat /\ ((MAX_MSGS \div 256) \div 256) \div 256 < 256
    /\ MAX_RESETS \in Nat

SocketTypes == {"HTTP_SERVER", "TCP_SERVER", "TCP_CLIENT", "UDP_SERVER",
                "UDP_CLIENT"}
TcpTypes == {"TCP_SERVER", "TCP_CLIENT"}
UdpTypes == {"UDP_SERVER", "UDP_CLIENT"}

EMP_REVERSER_DIR == 4131
EMP_THROTTLE_POS == 4135

VARIABLES
    turn,           \* "frame", "periodic": where SocketMachine is
    lag,            \* the tick came since the last periodic call
    type, machState, tcpConnect, timer,     \* SocketData
    conn,           \* lwIP: "closed", "connecting", "open"
    echo,           \* the segment a call took and the length it answered, or <<>>
    kept,           \* packet buffers of segments, which nobody frees
    doneLed,        \* DONE_STATUS_LED, which PTC commands switch
    ptcTimer,       \* TIMER_PTC_MSG runs
    msgNbr,         \* PtcMessage.mgsHeader.msgNbr
    wire,           \* the PTC packets sent last
    resets,         \* bounded count of resets
    closed          \* history: the peer closed a connection since boot

socketVars == <<machState, timer>>
tcpVars == <<tcpConnect, conn, closed>>
ptcVars == <<ptcTimer, msgNbr, wire>>
recvVars == <<echo, kept, doneLed>>
vars == <<turn, lag, type, socketVars, tcpVars, recvVars, ptcVars, resets,
          TimerTicks, dhcpVars>>

\* tcpclient_init dials at once; nobody hears if that fails.
ConnInit(t) == [c \in Conns |-> IF t = "TCP_CLIENT" /\ c = Dialled
                                THEN "connecting" ELSE "closed"]

\* InitSocketMachine, InitSocket
SocketInit ==
    /\ turn = "frame" /\ lag = FALSE
    /\ type \in SocketTypes
    /\ machState = "INIT" /\ timer = 0
    /\ tcpConnect = FALSE /\ conn = ConnInit(type) /\ closed = FALSE
    /\ echo = <<>> /\ kept = 0 /\ doneLed = FALSE
    /\ ptcTimer = FALSE /\ msgNbr = 0 /\ wire = <<>>
    /\ resets = 0
    /\ TimerTicks = 0 /\ DhcpInit

-----------------------------------------------------------------------------
(* TCP: the callbacks.  LwIP_Pkt_Handle calls one of them, or none.        *)

\* tcpserver_accept: one flag for all connections.
tcpserver_accept ==
    \E c \in Conns :
        /\ type = "TCP_SERVER" /\ conn[c] = "closed"
        /\ conn' = [conn EXCEPT ![c] = "open"]
        /\ tcpConnect' = TRUE
        /\ UNCHANGED <<closed, recvVars>>

\* client_connected; the greeting it sends is left out.
client_connected ==
    /\ conn[Dialled] = "connecting"
    /\ conn' = [conn EXCEPT ![Dialled] = "open"]
    /\ tcpConnect' = TRUE
    /\ UNCHANGED <<closed, recvVars>>

\* A value kept in a char of the build, signed or not.
Char(n, signed) == IF signed /\ n % 256 >= 128 THEN (n % 256) - 256 ELSE n % 256

\* ProcessPtcCommand answers '#' with the four bytes of TimerTicks, whatever
\* room there is, and anything else by itself.
ProcessPtcCommand(cmd, len) == IF cmd = "#" THEN 4 ELSE len % 256

\* Mutant: the test of the send buffer is turned round.
AnswerLengthLonger(seg, signed) ==
    LET tot == Char(seg.tot, signed)
        len == IF seg.room > tot THEN Char(seg.room, signed) ELSE tot
        out == Char(ProcessPtcCommand(seg.cmd, len), signed) % 65536
    IN  IF out <= seg.room THEN out ELSE 0

\* What tcpserver_recv hands to tcp_write and has taken, if there is memory for
\* it: whole or, beyond the send buffer, not at all.
AnswerLength(seg, signed) ==
    LET tot == Char(seg.tot, signed)
        len == IF seg.room < tot THEN Char(seg.room, signed) ELSE tot
        out == Char(ProcessPtcCommand(seg.cmd, len), signed) % 65536
    IN  IF out <= seg.room THEN out ELSE 0

\* tcpserver_recv of a segment: it is answered in place, or not at all when
\* tcp_write has no memory, which nobody is told.  Its buffer is not freed.
tcpserver_recv ==
    \E c \in Conns, seg \in Segments, signed \in BOOLEAN :
        /\ conn[c] = "open"
        /\ \E taken \in {AnswerLength(seg, signed), 0} : echo' = <<seg, taken>>
        /\ kept' = kept + 1
        /\ doneLed' = (CASE seg.cmd \in {"#", "2"} -> TRUE
                         [] seg.cmd = "NUL" -> doneLed
                         [] OTHER -> FALSE)
        /\ UNCHANGED <<tcpConnect, conn, closed>>

\* close_conn, when the peer has closed: the flag goes down for all.
TcpCloseConn ==
    \E c \in Conns :
        /\ conn[c] = "open"
        /\ conn' = [conn EXCEPT ![c] = "closed"]
        /\ tcpConnect' = FALSE
        /\ closed' = TRUE
        /\ UNCHANGED recvVars

\* A frame of no concern to the services, or one there is no buffer for.
OtherFrame == UNCHANGED <<tcpVars, recvVars>>

\* The frame is lwIP's: the server's answer to DHCP, or any other.
LwIP_Pkt_Handle ==
    \/ /\ BufferLeft(kept)
       /\ tcpserver_accept \/ client_connected \/ tcpserver_recv \/ TcpCloseConn
       /\ UNCHANGED dhcpVars
    \/ BufferLeft(kept) /\ LeaseArrives /\ OtherFrame
    \/ OtherFrame /\ UNCHANGED dhcpVars

-----------------------------------------------------------------------------
(* The machines: each looks at its state only when a frame was received.   *)

\* Mutant: connected without a connection.
TcpMachineTrusts ==
    \/ /\ machState = "INIT"
       /\ machState' = "WAIT_CONNECTION" /\ timer' = TimerTicks
    \/ /\ machState = "WAIT_CONNECTION"
       /\ machState' = "CONNECTION" /\ UNCHANGED timer
    \/ /\ machState = "CONNECTION" /\ tcpConnect
       /\ UNCHANGED socketVars

\* TcpSocketMachine, but for the step that resets the board.
TcpMachine ==
    \/ /\ machState = "INIT"
       /\ machState' = "WAIT_CONNECTION" /\ timer' = TimerTicks
    \/ /\ machState = "WAIT_CONNECTION"
       /\ machState' = (IF tcpConnect THEN "CONNECTION" ELSE
                        IF Since(timer) > WAIT_TICKS THEN "INIT" ELSE machState)
       /\ UNCHANGED timer
    \/ /\ machState = "CONNECTION" /\ tcpConnect
       /\ UNCHANGED socketVars

\* UdpSocketMachine: the second frame starts the PTC messages.
UdpMachine ==
    \/ /\ machState = "INIT"
       /\ machState' = "WAIT_CONNECTION" /\ timer' = TimerTicks
       /\ msgNbr' = 0 /\ UNCHANGED <<ptcTimer, wire>>      \* InitPtcMessage
    \/ /\ machState = "WAIT_CONNECTION"
       /\ machState' = "CONNECTION" /\ timer' = TimerTicks
       /\ ptcTimer' = TRUE /\ UNCHANGED <<msgNbr, wire>>
    \/ /\ machState = "CONNECTION"
       /\ UNCHANGED <<socketVars, ptcVars>>

\* A frame was received.
FrameReceived ==
    /\ turn = "frame" /\ turn' = "periodic"
    /\ \/ type \in TcpTypes /\ TcpMachine /\ UNCHANGED ptcVars
       \/ type \in UdpTypes /\ UdpMachine
    /\ LwIP_Pkt_Handle
    /\ UNCHANGED <<lag, type, resets, TimerTicks>>

\* The connection the machine counted on is gone: NVIC_SystemReset, before the
\* frame is looked at.
SystemReset ==
    /\ turn = "frame"
    /\ type \in TcpTypes /\ machState = "CONNECTION" /\ ~tcpConnect
    /\ resets < MAX_RESETS /\ resets' = resets + 1
    /\ machState' = "INIT" /\ timer' = 0
    /\ tcpConnect' = FALSE /\ conn' = ConnInit(type) /\ closed' = FALSE
    /\ echo' = <<>> /\ kept' = 0 /\ doneLed' = FALSE
    /\ ptcTimer' = FALSE /\ msgNbr' = 0 /\ wire' = <<>>
    /\ lag' = FALSE /\ TimerTicks' = 0
    /\ DHCPfineTimer' = 0 /\ DHCP_state' = "DHCP_START"
    /\ IPaddress' = NoAddr /\ ip_addr' = NoAddr /\ dhcp' = "NULL" /\ tries' = 0
    /\ UNCHANGED <<turn, type>>

NoFrame ==
    /\ turn = "frame" /\ turn' = "periodic"
    /\ UNCHANGED <<lag, type, socketVars, tcpVars, recvVars, ptcVars, resets,
                   TimerTicks, dhcpVars>>

Periodic ==
    /\ turn = "periodic" /\ turn' = "frame"
    /\ LwIP_Periodic_Handle
    /\ lag' = FALSE
    /\ echo' = <<>>
    /\ UNCHANGED <<type, socketVars, tcpVars, kept, doneLed, ptcVars, resets,
                   TimerTicks>>

-----------------------------------------------------------------------------
(* Between the steps of SocketMachine.                                     *)

\* The loop is fast: a tick (500 ms) in a pass at most.
SysTick ==
    /\ ~lag /\ lag' = TRUE
    /\ TimerTicks' = (TimerTicks + 1) % TICK_MODULUS
    /\ UNCHANGED <<turn, type, socketVars, tcpVars, recvVars, ptcVars, resets,
                   dhcpVars>>

\* UpdSocketSend: two messages, each lost if lwIP has no buffer for it.
UpdSocketSend ==
    /\ ptcTimer /\ msgNbr + 2 <= MAX_MSGS
    /\ msgNbr' = msgNbr + 2
    /\ LET throttle == BuildPtcPacket(msgNbr + 1, EMP_THROTTLE_POS, 4)
           reverser == BuildPtcPacket(msgNbr + 2, EMP_REVERSER_DIR, 1)
       IN  wire' \in {<<throttle, reverser>>, <<throttle>>, <<reverser>>, wire}
    /\ UNCHANGED <<turn, lag, type, socketVars, tcpVars, recvVars, ptcTimer,
                   resets, TimerTicks, dhcpVars>>

\* A connection ends without a close: a reset of the peer, a dial that fails,
\* retries run out.  No callback is registered for that.
ConnAborted ==
    /\ turn = "frame"
    /\ \E c \in Conns : /\ conn[c] # "closed"
                        /\ conn' = [conn EXCEPT ![c] = "closed"]
    /\ UNCHANGED <<turn, lag, type, socketVars, tcpConnect, closed, recvVars,
                   ptcVars, resets, TimerTicks, dhcpVars>>

Next == \/ FrameReceived \/ SystemReset \/ NoFrame \/ Periodic
        \/ SysTick \/ UpdSocketSend \/ ConnAborted

\* The loop and the tick go on, and a DHCP request that is not answered times
\* out sooner or later.
Fairness ==
    /\ WF_turn(FrameReceived \/ NoFrame \/ Periodic)
    /\ WF_TimerTicks(SysTick)
    /\ SF_tries(Periodic)

Spec == SocketInit /\ [][Next]_vars /\ Fairness

-----------------------------------------------------------------------------
(* Properties.                                                             *)

SocketsTypeOK ==
    /\ turn \in {"frame", "periodic"} /\ lag \in BOOLEAN
    /\ type \in SocketTypes
    /\ machState \in {"INIT", "WAIT_CONNECTION", "CONNECTION"}
    /\ timer \in 0 .. TICK_MODULUS - 1 /\ TimerTicks \in 0 .. TICK_MODULUS - 1
    /\ tcpConnect \in BOOLEAN /\ closed \in BOOLEAN /\ doneLed \in BOOLEAN
    /\ conn \in [Conns -> {"closed", "connecting", "open"}]
    /\ kept \in 0 .. POOL
    /\ ptcTimer \in BOOLEAN /\ msgNbr \in 0 .. MAX_MSGS /\ resets \in 0 .. MAX_RESETS
    /\ DhcpTypeOK

\* However many connections share the one flag, and however they end, the board
\* resets itself only when a peer has closed a connection since it started.
ResetOnlyAfterClose == [][resets' # resets => closed]_vars

\* A segment shorter than 128 bytes that fits the send buffer is answered whole,
\* '#' by four bytes, whichever sign a char has in the build, or not at all,
\* when tcp_write has no memory; never in part, and never by more than came.
EchoIsWholeOrNone ==
    echo # <<>> /\ echo[1].tot < 128 /\ echo[1].tot <= echo[1].room
       /\ echo[1].room >= 4
       => echo[2] \in {0, IF echo[1].cmd = "#" THEN 4 ELSE echo[1].tot}

\* What a receiver of the PTC messages reads: numbers that rise, whatever is
\* lost between them, the throttle under the odd and the reverser under the
\* even ones.
PtcMessagesInOrder ==
    [][wire' # wire =>
         \A k \in DOMAIN wire' :
            LET number == MsgNbrOf(wire'[k])
            IN  /\ wire # <<>> => number > MsgNbrOf(wire[Len(wire)])
                /\ k > 1 => number > MsgNbrOf(wire'[k - 1])
                /\ TagOf(wire'[k]) = IF number % 2 = 1 THEN EMP_THROTTLE_POS
                                     ELSE EMP_REVERSER_DIR
                /\ ValueOf(wire'[k]) = IF number % 2 = 1 THEN 4 ELSE 1]_vars

\* Once DHCP runs the board comes by an address, the server's or its own, even
\* if nobody answers; or it is reset.
BoardGetsAddress == dhcp = "running" ~> (ip_addr # NoAddr \/ dhcp = "NULL")

=============================================================================
