-------------------------------- MODULE Dhcp ---------------------------------
(***************************************************************************)
(* LwIP_Periodic_Handle and the DHCP machine of netconf.c: the board asks  *)
(* for an address and settles for a static one after some tries.  lwIP's   *)
(* client, which counts the tries and hears the server, is external.       *)
(* tcp_tmr and etharp_tmr, the other periodic calls, are lwIP's own.       *)
(***************************************************************************)
EXTENDS Integers

CONSTANTS
    TICK_MODULUS,           \* 2^32, the width of TimerTicks
    DHCP_FINE_TIMER_MSECS,  \* in ticks
    MAX_DHCP_TRIES

ASSUME DhcpAssumption ==
    /\ TICK_MODULUS \in Nat \ {0}
    /\ DHCP_FINE_TIMER_MSECS \in 1 .. TICK_MODULUS - 1
    /\ MAX_DHCP_TRIES \in Nat

\* Addresses: none, one the server leases, the static one of the board.
NoAddr == "0.0.0.0"
Leased == "leased"
Static == "static"

DhcpStates == {"DHCP_START", "DHCP_WAIT_ADDRESS", "DHCP_ADDRESS_ASSIGNED",
               "DHCP_TIMEOUT"}

VARIABLES
    TimerTicks,
    DHCPfineTimer,
    DHCP_state,
    IPaddress,
    ip_addr,        \* netif.ip_addr
    dhcp,           \* netif.dhcp: "NULL", "running" or "stopped"
    tries           \* netif.dhcp->tries

dhcpVars == <<DHCPfineTimer, DHCP_state, IPaddress, ip_addr, dhcp, tries>>

\* LwIP_Init, and the initial values of netconf.c.
DhcpInit ==
    /\ DHCPfineTimer = 0
    /\ DHCP_state = "DHCP_START"
    /\ IPaddress = NoAddr /\ ip_addr = NoAddr
    /\ dhcp = "NULL" /\ tries = 0

Since(then) == (TimerTicks - then) % TICK_MODULUS

-----------------------------------------------------------------------------
(* lwIP.                                                                   *)

\* dhcp_start: netif.dhcp stays NULL when there is no memory for it.
dhcp_start ==
    /\ dhcp' \in {"running", "NULL"}
    /\ tries' = 0
    /\ UNCHANGED ip_addr

\* dhcp_fine_tmr: a request may have timed out, and is tried again.
Tries == IF dhcp = "running" /\ tries <= MAX_DHCP_TRIES THEN {tries, tries + 1}
         ELSE {tries}

\* What reading netif.dhcp->tries gives; there is no telling with a NULL.
TriesRead(t) == IF dhcp = "NULL" THEN {0, MAX_DHCP_TRIES + 1} ELSE {t}

\* The server's answer binds the address, whenever it comes.
LeaseArrives ==
    /\ dhcp = "running"
    /\ ip_addr' = Leased
    /\ UNCHANGED <<DHCPfineTimer, DHCP_state, IPaddress, dhcp, tries>>

-----------------------------------------------------------------------------
(* LwIP_DHCP_Process_Handle.                                               *)

DhcpStart ==
    /\ DHCP_state = "DHCP_START"
    /\ dhcp_start
    /\ IPaddress' = NoAddr
    /\ DHCP_state' = "DHCP_WAIT_ADDRESS"

DhcpAssigned ==
    /\ DHCP_state = "DHCP_WAIT_ADDRESS" /\ ip_addr # NoAddr
    /\ IPaddress' = ip_addr
    /\ DHCP_state' = "DHCP_ADDRESS_ASSIGNED"
    /\ dhcp' = (IF dhcp = "NULL" THEN dhcp ELSE "stopped")
    /\ tries' \in Tries
    /\ UNCHANGED ip_addr

\* Mutant: the client is left running behind the static address.
DhcpTimeoutRuns ==
    /\ DHCP_state = "DHCP_WAIT_ADDRESS" /\ ip_addr = NoAddr
    /\ tries' \in Tries
    /\ \E t \in TriesRead(tries') : t > MAX_DHCP_TRIES
    /\ IPaddress' = ip_addr
    /\ DHCP_state' = "DHCP_TIMEOUT"
    /\ ip_addr' = Static
    /\ UNCHANGED dhcp

\* After too many tries the client is stopped and the static address taken.
\* IPaddress stays 0.
DhcpTimeout ==
    /\ DHCP_state = "DHCP_WAIT_ADDRESS" /\ ip_addr = NoAddr
    /\ tries' \in Tries
    /\ \E t \in TriesRead(tries') : t > MAX_DHCP_TRIES
    /\ IPaddress' = ip_addr
    /\ DHCP_state' = "DHCP_TIMEOUT"
    /\ dhcp' = (IF dhcp = "NULL" THEN dhcp ELSE "stopped")
    /\ ip_addr' = Static

\* Mutant: every pass asks from the beginning.
DhcpWaitsAnew ==
    /\ DHCP_state = "DHCP_WAIT_ADDRESS" /\ ip_addr = NoAddr
    /\ tries' = 0
    /\ IPaddress' = ip_addr
    /\ UNCHANGED <<DHCP_state, ip_addr, dhcp>>

DhcpWaits ==
    /\ DHCP_state = "DHCP_WAIT_ADDRESS" /\ ip_addr = NoAddr
    /\ tries' \in Tries
    /\ \E t \in TriesRead(tries') : t <= MAX_DHCP_TRIES
    /\ IPaddress' = ip_addr
    /\ UNCHANGED <<DHCP_state, ip_addr, dhcp>>

\* The address is settled: only lwIP's own timer runs on.
DhcpSettled ==
    /\ DHCP_state \in {"DHCP_ADDRESS_ASSIGNED", "DHCP_TIMEOUT"}
    /\ tries' \in Tries
    /\ UNCHANGED <<DHCP_state, IPaddress, ip_addr, dhcp>>

\* LwIP_Periodic_Handle
LwIP_Periodic_Handle ==
    \/ /\ Since(DHCPfineTimer) >= DHCP_FINE_TIMER_MSECS
       /\ DHCPfineTimer' = TimerTicks
       /\ \/ DhcpStart \/ DhcpAssigned \/ DhcpTimeout \/ DhcpWaits
          \/ DhcpSettled
    \/ /\ Since(DHCPfineTimer) < DHCP_FINE_TIMER_MSECS
       /\ UNCHANGED dhcpVars

-----------------------------------------------------------------------------
(* Properties.                                                             *)

DhcpTypeOK ==
    /\ DHCPfineTimer \in 0 .. TICK_MODULUS - 1
    /\ DHCP_state \in DhcpStates
    /\ IPaddress \in {NoAddr, Leased} /\ ip_addr \in {NoAddr, Leased, Static}
    /\ dhcp \in {"NULL", "running", "stopped"}
    /\ tries \in 0 .. MAX_DHCP_TRIES + 1

\* Whichever comes first, the server's answer or the last try, the address the
\* machine settles for is the one in use from then on: an answer that comes
\* after the timeout does not replace the static address.
AddressSettled ==
    /\ DHCP_state = "DHCP_ADDRESS_ASSIGNED" => ip_addr = Leased /\ IPaddress = Leased
    /\ DHCP_state = "DHCP_TIMEOUT" => ip_addr = Static /\ dhcp # "running"

=============================================================================
