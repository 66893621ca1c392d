------------------------------ MODULE NetLoop -------------------------------
(* net/net.c: NetLoop() runs one network command after the other: TFTPGET,  *)
(* PING and DHCP, each a set of handlers for packets and timeouts that      *)
(* share one timer, one UDP handler, one packet buffer and one ARP wait.    *)
(* Time is left out: an armed timer may have run out at any poll.           *)
EXTENDS NetArp

CONSTANTS Envs,             \* the settings that are used, see Init
          TIMEOUT_COUNT,    \* of TFTP
          MaxBlocks         \* bound: data packets that a server sends

VARIABLES
  pc,                       \* where NetLoop() is; "prompt": not running
  protocol,                 \* its argument
  netretry, ethrotate,      \* environment variables,
  ipaddr,                   \*   whether "ipaddr" is set,
  noMac,                    \*   and the devices without an Ethernet address
  NetTryCount, NetRestarted, NetDevExists, net_state,
  timeHandler, udp_packet_handler,
  TftpTimeoutCount, blocks, \* of TFTP
  dhcp_state                \* of DHCP

protos == <<TftpTimeoutCount, blocks, dhcp_state>>
settings == <<netretry, ethrotate, noMac>>
command == <<protocol, settings, ipaddr>>
again == <<eth, NetTryCount, net_state, timeHandler, udp_packet_handler>>
vars == <<pc, command, NetRestarted, NetDevExists, NetOurIP, again, protos, arpVars>>

ASSUME LoopAssumption == TIMEOUT_COUNT \in Nat /\ MaxBlocks \in Nat

Protocols == {"TFTPGET", "PING", "DHCP"}
retrycnt == [no |-> 0, once |-> 1, twice |-> 2]
MaxTry == 2   \* bound: NetTryCount is not read beyond the largest retrycnt,
              \* and TftpTimeoutCount not beyond TIMEOUT_COUNT + 1

Init ==
  /\ pc = "prompt" /\ protocol = "PING"
  /\ \E env \in Envs :
       /\ netretry = env.netretry /\ ethrotate = env.ethrotate
       /\ ipaddr = env.ipaddr /\ noMac = env.noMac
  /\ eth = [cur |-> 1, active |-> {}, first_failed |-> NONE, NetRestartWrap |-> FALSE]
  /\ NetOurIP = FALSE
  /\ NetTryCount = 1 /\ NetRestarted = FALSE /\ NetDevExists = FALSE
  /\ net_state = "CONTINUE"
  /\ timeHandler = "none" /\ udp_packet_handler = "dummy"
  /\ TftpTimeoutCount = 0 /\ blocks = 0 /\ dhcp_state = "INIT"
  /\ ArpInit

-----------------------------------------------------------------------------
StartAgainNoHalt(handler) ==
  \E up \in SUBSET Devices :
    /\ NetTryCount' = Min({NetTryCount + 1, MaxTry})
    /\ eth' = eth_init(eth_try_another(eth, ethrotate, ~NetRestarted), ethrotate, up)
    /\ net_state' = "RESTART" /\ timeHandler' = handler
    /\ UNCHANGED udp_packet_handler

StartAgainNoTimer(handler) ==
  \E up \in SUBSET Devices :
    LET e == eth_init(eth_try_another(eth_halt(eth), ethrotate, ~NetRestarted), ethrotate, up)
    IN /\ NetTryCount' = Min({NetTryCount + 1, MaxTry})
       /\ eth' = [e EXCEPT !.NetRestartWrap = FALSE]
       /\ net_state' = IF e.NetRestartWrap THEN net_state ELSE "RESTART"
       /\ timeHandler' = handler
       /\ UNCHANGED udp_packet_handler

(* NetStartAgain(), with `handler` the timeHandler that it finds.  The      *)
(* result of eth_init() is not looked at.  When the devices have gone round *)
(* the loop waits before it restarts, still in its state.                   *)
NetStartAgain(handler) ==
  IF netretry # "yes" /\ NetTryCount >= retrycnt[netretry]
  THEN /\ eth' = eth_halt(eth)
       /\ net_state' = "FAIL"
       /\ timeHandler' = handler
       /\ UNCHANGED <<udp_packet_handler, NetTryCount>>
  ELSE \E up \in SUBSET Devices :
       LET e == eth_init(eth_try_another(eth_halt(eth), ethrotate, ~NetRestarted), ethrotate, up)
       IN /\ NetTryCount' = Min({NetTryCount + 1, MaxTry})
          /\ eth' = [e EXCEPT !.NetRestartWrap = FALSE]
          /\ IF ~e.NetRestartWrap
             THEN /\ net_state' = "RESTART" /\ timeHandler' = handler
                  /\ UNCHANGED udp_packet_handler
             ELSE IF NetDevExists
             THEN /\ timeHandler' = "startAgainTimeout"
                  /\ udp_packet_handler' = "dummy"
                  /\ UNCHANGED net_state
             ELSE /\ net_state' = "FAIL" /\ timeHandler' = handler
                  /\ UNCHANGED udp_packet_handler

TftpStartKeepsEther ==
  /\ timeHandler' = "TftpTimeout" /\ udp_packet_handler' = "TftpHandler"
  /\ TftpTimeoutCount' = 0 /\ blocks' = 0
  /\ NetSendUDPPacket(NetServerEther, Server)

(* TftpStart(): the address of the server is always asked for anew.         *)
TftpStart ==
  /\ timeHandler' = "TftpTimeout" /\ udp_packet_handler' = "TftpHandler"
  /\ TftpTimeoutCount' = 0 /\ blocks' = 0
  /\ NetSendUDPPacket(NoHost, Server)

ping_start ==
  /\ timeHandler' = "ping_timeout"
  /\ ping_send
  /\ UNCHANGED <<udp_packet_handler, protos>>

BootpRequest ==
  /\ timeHandler' = "BootpTimeout" /\ udp_packet_handler' = "DhcpHandler"
  /\ dhcp_state' = "SELECTING"
  /\ SendBroadcast
  /\ UNCHANGED <<TftpTimeoutCount, blocks>>

-----------------------------------------------------------------------------
(* The command: NetLoop() up to `restart:`.  NetInitLoop() reads "ipaddr"    *)
(* again when any variable of the environment has changed.                  *)
NetLoopStart(p) ==
  /\ pc = "prompt"
  /\ protocol' = p
  /\ NetOurIP' \in {NetOurIP, ipaddr}
  /\ NetRestarted' = FALSE /\ NetDevExists' = FALSE /\ NetTryCount' = 1
  /\ \E ethact \in Devices, up \in SUBSET Devices :
       LET e == eth_set_current(eth_halt(eth), ethact)
           i == eth_init(e, ethrotate, up)
           ok == Usable(e, ethrotate, up) # {}
       IN /\ eth' = IF ok THEN i ELSE eth_halt(i)
          /\ pc' = IF ok THEN "restart" ELSE "prompt"
          /\ net_state' = IF ok THEN "CONTINUE" ELSE net_state
  /\ wire' = [to |-> NoHost, mac |-> NoHost]
  /\ UNCHANGED <<settings, ipaddr, timeHandler, udp_packet_handler, protos,
                 NetTxPacket, arpWait, NetArpWaitPacketMAC, NetServerEther>>

(* From `restart:` to the loop.  Rotating the devices sets "ethact", so the *)
(* environment is read again.                                               *)
Restart ==
  /\ pc = "restart"
  /\ \E ours \in {NetOurIP, ipaddr} :
     \/ /\ protocol # "DHCP" /\ ~ours           \* net_check_prereq() is 1
        /\ eth' = eth_halt(eth)
        /\ pc' = "prompt"
        /\ NetOurIP' = ours
        /\ UNCHANGED <<NetDevExists, NetTryCount, net_state, timeHandler,
                       udp_packet_handler, protos, arpVars>>
     \/ /\ protocol = "DHCP" \/ ours
        /\ eth.cur \in noMac                    \* net_check_prereq() is 2
        /\ NetStartAgain(timeHandler)
        /\ pc' = "rx"
        /\ NetOurIP' = ours
        /\ UNCHANGED <<NetDevExists, protos, arpVars>>
     \/ /\ protocol = "DHCP" \/ ours
        /\ eth.cur \notin noMac
        /\ NetDevExists' = TRUE
        /\ NetOurIP' = (ours /\ protocol # "DHCP")
        /\ \/ protocol = "TFTPGET" /\ TftpStart /\ UNCHANGED dhcp_state
           \/ protocol = "PING" /\ ping_start
           \/ protocol = "DHCP" /\ BootpRequest
        /\ pc' = "rx"
        /\ UNCHANGED <<eth, NetTryCount, net_state>>
  /\ UNCHANGED <<command, NetRestarted>>

-----------------------------------------------------------------------------
(* eth_rx(): at most one packet, of a device that is up.                    *)
Rx ==
  /\ pc = "rx" /\ pc' = "poll"
  /\ UNCHANGED <<command, NetRestarted, NetDevExists>>
Arrives == Rx /\ eth.cur \in eth.active

NoPacket ==
  /\ Rx
  /\ UNCHANGED <<NetOurIP, again, protos, arpVars>>

ArpReply ==
  /\ Arrives
  /\ \E from \in Hosts : ArpReceive(from)
  /\ UNCHANGED <<NetOurIP, again, protos>>

(* ping_receive().                                                          *)
PingReply ==
  /\ Arrives
  /\ protocol = "PING" /\ wire.to = Peer
  /\ net_state' = "SUCCESS"
  /\ UNCHANGED <<NetOurIP, eth, NetTryCount, timeHandler, udp_packet_handler,
                 protos, arpVars>>

(* TftpHandler(), as the loop sees it: the next block is asked for, the     *)
(* file is complete, or an error ends or restarts the command.              *)
TftpPacket ==
  /\ Arrives
  /\ udp_packet_handler = "TftpHandler" /\ wire.to = Server
  /\ UNCHANGED NetOurIP
  /\ \/ /\ blocks < MaxBlocks /\ blocks' = blocks + 1
        /\ timeHandler' = "TftpTimeout"
        /\ NetSendUDPPacket(NetServerEther, Server)
        /\ UNCHANGED <<TftpTimeoutCount, dhcp_state, eth, NetTryCount,
                       net_state, udp_packet_handler>>
     \/ /\ net_state' = "SUCCESS"
        /\ timeHandler' = "TftpTimeout"
        /\ NetSendUDPPacket(NetServerEther, Server)
        /\ UNCHANGED <<protos, eth, NetTryCount, udp_packet_handler>>
     \/ /\ eth' = eth_halt(eth)
        /\ net_state' = "FAIL"
        /\ UNCHANGED <<protos, NetTryCount, timeHandler, udp_packet_handler, arpVars>>
     \/ NetStartAgain(timeHandler) /\ UNCHANGED <<protos, arpVars>>

(* DhcpHandler(): an offer, or the acknowledgement with net_auto_load().    *)
DhcpPacket ==
  /\ Arrives
  /\ udp_packet_handler = "DhcpHandler"
  /\ UNCHANGED <<eth, NetTryCount>>
  /\ \/ /\ dhcp_state = "SELECTING"
        /\ dhcp_state' = "REQUESTING"
        /\ timeHandler' = "BootpTimeout"
        /\ SendBroadcast
        /\ UNCHANGED <<NetOurIP, net_state, udp_packet_handler, TftpTimeoutCount,
                       blocks>>
     \/ /\ dhcp_state = "REQUESTING"
        /\ NetOurIP' = TRUE
        /\ dhcp_state' = "BOUND"
        /\ \/ /\ net_state' = "SUCCESS"              \* "autoload" is no
              /\ NetServerEther' = Gateway             \* which has answered
              /\ UNCHANGED <<timeHandler, udp_packet_handler, TftpTimeoutCount, blocks,
                             NetTxPacket, arpWait, NetArpWaitPacketMAC, wire>>
           \/ TftpStart /\ UNCHANGED net_state

-----------------------------------------------------------------------------
(* ctrlc(): the only way out that also cancels the ARP wait.                *)
Ctrlc ==
  /\ pc = "poll" /\ pc' = "prompt"
  /\ NetArpWaitPacketIP' = NoHost
  /\ timeHandler' = "none" /\ udp_packet_handler' = "dummy"
  /\ eth' = eth_halt(eth)
  /\ UNCHANGED <<command, NetRestarted, NetDevExists, NetOurIP, NetTryCount, net_state,
                  protos, NetTxPacket, NetArpWaitReplyIP, NetArpWaitTry,
                 NetArpWaitPacketMAC, NetServerEther, wire>>

ArpTimeoutLate ==
  /\ NetArpWaitPacketIP # NoHost
  /\ IF NetArpWaitTry + 1 > ARP_TIMEOUT_COUNT
     THEN /\ NetArpWaitTry' = 0
          /\ NetStartAgain(timeHandler)
          /\ UNCHANGED <<NetArpWaitPacketIP, NetArpWaitReplyIP>>
     ELSE /\ NetArpWaitTry' = NetArpWaitTry + 1
          /\ ArpRequest(NetArpWaitPacketIP)
          /\ UNCHANGED again
  /\ UNCHANGED <<NetTxPacket, NetArpWaitPacketMAC, NetServerEther, wire>>

(* ArpTimeoutCheck() after ARP_TIMEOUT: the wait is not given up with the   *)
(* attempt, and its timer is not set anew.                                  *)
ArpTimeout ==
  /\ NetArpWaitPacketIP # NoHost
  /\ IF NetArpWaitTry + 1 >= ARP_TIMEOUT_COUNT
     THEN /\ NetArpWaitTry' = 0
          /\ NetStartAgain(timeHandler)
          /\ UNCHANGED <<NetArpWaitPacketIP, NetArpWaitReplyIP>>
     ELSE /\ NetArpWaitTry' = NetArpWaitTry + 1
          /\ ArpRequest(NetArpWaitPacketIP)
          /\ UNCHANGED again
  /\ UNCHANGED <<NetTxPacket, NetArpWaitPacketMAC, NetServerEther, wire>>

ArpTimeoutCheck ==
  /\ pc = "poll" /\ pc' = "timer"
  /\ UNCHANGED <<command, NetRestarted, NetDevExists, NetOurIP, protos>>
  /\ ArpTimeout \/ UNCHANGED <<again, arpVars>>

-----------------------------------------------------------------------------
(* The timeout handlers, called with timeHandler already cleared.           *)
startAgainTimeout ==
  /\ net_state' = "RESTART"
  /\ timeHandler' = "none"
  /\ UNCHANGED <<eth, NetTryCount, udp_packet_handler, protos, arpVars>>

ping_timeout ==
  /\ eth' = eth_halt(eth)
  /\ net_state' = "FAIL"
  /\ timeHandler' = "none"
  /\ UNCHANGED <<NetTryCount, udp_packet_handler, protos, arpVars>>

TftpTimeoutNoCount ==
  /\ timeHandler' = "TftpTimeout"
  /\ NetSendUDPPacket(NetServerEther, Server)
  /\ UNCHANGED <<protos, eth, NetTryCount, net_state, udp_packet_handler>>

TftpTimeout ==
  IF TftpTimeoutCount + 1 > TIMEOUT_COUNT
  THEN /\ TftpTimeoutCount' = Min({TftpTimeoutCount + 1, TIMEOUT_COUNT + 1})
       /\ NetStartAgain("none")
       /\ UNCHANGED <<blocks, dhcp_state, arpVars>>
  ELSE /\ TftpTimeoutCount' = Min({TftpTimeoutCount + 1, TIMEOUT_COUNT + 1})
       /\ timeHandler' = "TftpTimeout"
       /\ NetSendUDPPacket(NetServerEther, Server)
       /\ UNCHANGED <<blocks, dhcp_state, eth, NetTryCount, net_state,
                      udp_packet_handler>>

BootpExpired == NetStartAgain("none") /\ UNCHANGED <<protos, arpVars>>

BootpTimeout ==
  \/ BootpExpired                                     \* after TIMEOUT_MS
  \/ BootpRequest /\ UNCHANGED <<eth, NetTryCount, net_state>>

TimerStep ==
  /\ pc = "timer" /\ pc' = "switch"
  /\ UNCHANGED <<command, NetRestarted, NetDevExists, NetOurIP>>

Timeout ==
  /\ TimerStep
  /\ \/ timeHandler = "startAgainTimeout" /\ startAgainTimeout
     \/ timeHandler = "ping_timeout" /\ ping_timeout
     \/ timeHandler = "TftpTimeout" /\ TftpTimeout
     \/ timeHandler = "BootpTimeout" /\ BootpTimeout

NoTimeout ==
  /\ TimerStep
  /\ UNCHANGED <<again, protos, arpVars>>

(* switch (net_state), and after a load netboot_update_env().               *)
Switch ==
  /\ pc = "switch"
  /\ UNCHANGED <<protocol, settings, NetDevExists, NetOurIP, NetTryCount,
                 protos, arpVars>>
  /\ \/ /\ net_state = "RESTART"
        /\ NetRestarted' = TRUE /\ net_state' = "CONTINUE" /\ pc' = "restart"
        /\ UNCHANGED <<eth, timeHandler, udp_packet_handler, ipaddr>>
     \/ /\ net_state \in {"SUCCESS", "FAIL"}
        /\ timeHandler' = "none" /\ udp_packet_handler' = "dummy"
        /\ eth' = IF net_state = "SUCCESS" THEN eth_halt(eth) ELSE eth
        /\ pc' = "prompt"
        /\ ipaddr' = (ipaddr \/ (net_state = "SUCCESS" /\ protocol # "PING" /\ NetOurIP))
        /\ UNCHANGED <<NetRestarted, net_state>>
     \/ /\ net_state = "CONTINUE"
        /\ pc' = "rx"
        /\ UNCHANGED <<NetRestarted, eth, net_state, timeHandler, udp_packet_handler, ipaddr>>

Loop ==
  \/ Restart
  \/ NoPacket \/ ArpReply \/ PingReply \/ TftpPacket \/ DhcpPacket
  \/ Ctrlc \/ ArpTimeoutCheck
  \/ Timeout \/ NoTimeout
  \/ Switch

Next == Loop \/ \E p \in Protocols : NetLoopStart(p)

(* The loop is polled for ever, an armed timer runs out in time, and so     *)
(* does the time of a DHCP attempt.                                         *)
Spec ==
  /\ Init /\ [][Next]_vars
  /\ WF_vars(Loop) /\ SF_vars(Timeout)
  /\ SF_vars(TimerStep /\ timeHandler = "BootpTimeout" /\ BootpExpired)

-----------------------------------------------------------------------------
NetTypeOK ==
  /\ pc \in {"prompt", "restart", "rx", "poll", "timer", "switch"}
  /\ protocol \in Protocols
  /\ eth \in Eth
  /\ NetTryCount \in 1 .. MaxTry
  /\ net_state \in {"CONTINUE", "RESTART", "SUCCESS", "FAIL"}
  /\ NetArpWaitTry \in {1} \cup 0 .. ARP_TIMEOUT_COUNT - 1
  /\ NetArpWaitPacketIP \in {NoHost, Server, Peer}
  /\ NetServerEther \in Hosts \cup {NoHost}
  /\ TftpTimeoutCount \in 0 .. TIMEOUT_COUNT + 1

(* A packet goes to the station that is the next hop to its destination,    *)
(* although the buffer, the ARP wait and NetServerEther are shared by the   *)
(* commands and outlive them.  Not so when a device has no Ethernet         *)
(* address: no protocol is started on it, and the reply to an ARP request   *)
(* of an earlier command sends whatever was last put into the buffer.       *)
SentToNextHop == noMac = {} => wire.mac = Station(wire.to)

(* While NetLoop() goes on a timer is armed, so it cannot wait for ever for *)
(* a packet that does not come.                                             *)
TimerIsArmed == (pc = "rx" /\ net_state = "CONTINUE") => timeHandler # "none"

(* At most the current device is up: the devices are halted before          *)
(* NetStartAgain() and NetLoop() take another one.                          *)
OneDeviceUp == eth.active \subseteq {eth.cur}

(* Unless "netretry" says so, no command is retried for ever.               *)
CommandEnds == (pc # "prompt" /\ netretry # "yes") ~> (pc = "prompt")

(* README, netretry=once: a command is given up after an attempt with every *)
(* interface.  NetTryCount counts the attempts.                             *)
OnceTriesAll ==
  (pc = "prompt" /\ net_state = "FAIL" /\ netretry = "once" /\ ethrotate
   /\ protocol = "DHCP" /\ dhcp_state # "BOUND")
    => NetTryCount >= NDevs
=============================================================================
