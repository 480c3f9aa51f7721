------------------------------- MODULE Network -------------------------------
(***************************************************************************)
(* The network services of the board: those SocketMachine drives, or the   *)
(* page server.                                                            *)
(***************************************************************************)
EXTENDS Sockets, HttpServer

netVars == <<vars, httpVars>>

\* InitSocketMachine starts one service.
NetInit == SocketInit /\ HttpInit

\* InitSocket leaves callBackPtr NULL for the page server, so SocketMachine does
\* nothing for it: its frames are handed to lwIP by some other loop.
HasMachine == type # "HTTP_SERVER"

NetNext ==
    \/ HasMachine /\ Next /\ UNCHANGED httpVars
    \/ ~HasMachine /\ HttpNext /\ UNCHANGED vars

\* Fairness of Sockets where SocketMachine has a machine to call, and of the
\* page server.
NetFairness ==
    /\ WF_turn(HasMachine /\ (FrameReceived \/ NoFrame \/ Periodic))
    /\ WF_TimerTicks(HasMachine /\ SysTick)
    /\ SF_tries(HasMachine /\ Periodic)
    /\ HttpFairness

NetSpec == NetInit /\ [][NetNext]_netVars /\ NetFairness

TypeOK == SocketsTypeOK /\ HttpTypeOK

=============================================================================
