------------------------------- MODULE NetArp -------------------------------
(* net/arp.c, and NetSendUDPPacket() of net/net.c: the one packet buffer,   *)
(* which waits in place while the station to send it to is asked for.       *)
EXTENDS NetEth

CONSTANTS Server, Peer,     \* the TFTP server, and the host that is pinged
          Gateway,          \* "gatewayip"
          Remote,           \* the hosts that are not on our subnet
          NoHost, Bcast,
          ARP_TIMEOUT_COUNT

Hosts == {Server, Peer, Gateway}

ASSUME ArpAssumption ==
  /\ Server \notin {Peer, Gateway, NoHost, Bcast}
  /\ Peer \notin {Gateway, NoHost, Bcast}
  /\ Gateway \notin {NoHost, Bcast}
  /\ NoHost # Bcast
  /\ Remote \subseteq {Server, Peer}
  /\ ARP_TIMEOUT_COUNT \in Nat \ {0}

VARIABLES
  eth,              \* the devices
  NetOurIP,         \* whether our address is known
  NetTxPacket,      \* the host that the packet in the buffer is for
  NetArpWaitPacketIP, NetArpWaitReplyIP, NetArpWaitTry,
  NetArpWaitPacketMAC,   \* whether it points to NetServerEther; else NULL
  NetServerEther,   \* the station that NetServerEther is the address of
  wire              \* the last packet sent by a device: to whom, to which station

arpWait == <<NetArpWaitPacketIP, NetArpWaitReplyIP, NetArpWaitTry>>
arpVars == <<NetTxPacket, arpWait, NetArpWaitPacketMAC, NetServerEther, wire>>

Station(ip) == IF ip \in Remote THEN Gateway ELSE ip

ArpInit ==
  /\ NetTxPacket = NoHost
  /\ NetArpWaitPacketIP = NoHost /\ NetArpWaitReplyIP = NoHost /\ NetArpWaitTry = 0
  /\ NetArpWaitPacketMAC = FALSE
  /\ NetServerEther = NoHost
  /\ wire = [to |-> NoHost, mac |-> NoHost]

(* A halted device sends nothing.                                           *)
NetSendPacket(ip, station) ==
  wire' = IF eth.cur \in eth.active THEN [to |-> ip, mac |-> station] ELSE wire

(* ArpRequest(): without an address of ours no host is on our subnet.       *)
ArpRequest(ip) ==
  /\ NetArpWaitPacketIP' = ip
  /\ NetArpWaitReplyIP' = IF NetOurIP' THEN Station(ip) ELSE Gateway

(* NetSendUDPPacket(ether, ip, ...), with ether what NetServerEther holds.  *)
NetSendUDPPacket(ether, ip) ==
  /\ NetTxPacket' = ip
  /\ NetServerEther' = ether
  /\ IF ether = NoHost
     THEN /\ NetArpWaitPacketMAC' = TRUE /\ NetArpWaitTry' = 1
          /\ ArpRequest(ip)
          /\ UNCHANGED wire
     ELSE /\ NetSendPacket(ip, ether)
          /\ UNCHANGED <<arpWait, NetArpWaitPacketMAC>>

(* ping_send(), which leaves NetArpWaitPacketMAC as it is.                  *)
ping_send ==
  /\ NetTxPacket' = Peer
  /\ NetArpWaitTry' = 1
  /\ ArpRequest(Peer)
  /\ UNCHANGED <<NetArpWaitPacketMAC, NetServerEther, wire>>

(* The broadcast of BootpRequest() and DhcpSendRequestPkt().                *)
SendBroadcast ==
  /\ NetTxPacket' = Bcast
  /\ NetSendPacket(Bcast, Bcast)
  /\ UNCHANGED <<arpWait, NetArpWaitPacketMAC, NetServerEther>>

(* ArpReceive(): a reply of the host that was asked for.  Requests of other *)
(* hosts are answered from the buffer they came in and change nothing.      *)
ArpReceive(from) ==
  /\ NetOurIP /\ NetArpWaitPacketIP # NoHost
  /\ from = NetArpWaitReplyIP
  /\ NetServerEther' = IF NetArpWaitPacketMAC THEN from ELSE NetServerEther
  /\ NetSendPacket(NetTxPacket, from)
  /\ NetArpWaitPacketIP' = NoHost
  /\ NetArpWaitPacketMAC' = FALSE
  /\ UNCHANGED <<NetTxPacket, NetArpWaitReplyIP, NetArpWaitTry>>
=============================================================================
