-------------------------------- MODULE Dhcp --------------------------------
(***************************************************************************)
(* The DHCP client of net/bootp.c, with the servers and the network around *)
(* it.  Packets are lost, delayed, repeated and reordered, also from one   *)
(* dhcp command to the next: what was sent stays on the wire and may be    *)
(* received any number of times, or never.                                 *)
(*                                                                         *)
(* A server has one address for us.  It offers the address on DISCOVER;    *)
(* on a REQUEST addressed to it, it commits the address and sends ACK, or  *)
(* NAK when another client took the address in between (the servers are    *)
(* not part of this repository).  An address, and a gateway, is named by   *)
(* the server that hands it out.                                           *)
(***************************************************************************)
EXTENDS Naturals, Sequences, FiniteSets

CONSTANTS
    Servers,
    GatewayServers, \* the servers that send option 3
    None,           \* address 0
    IdCacheSize,    \* CONFIG_BOOTP_ID_CACHE_SIZE
    FirstTimeout, MaxTimeout, RequestTimeout, TimeoutTime, \* in units of 250 ms
    MaxCommands,    \* bound: commands, and restarts of a command
    MaxAnswers      \* bound: different answers the servers send

ASSUME DhcpAssumption ==
    /\ GatewayServers \subseteq Servers
    /\ None \notin Servers
    /\ IdCacheSize \in Nat \ {0}
    /\ {FirstTimeout, MaxTimeout, RequestTimeout, TimeoutTime, MaxCommands,
        MaxAnswers} \subseteq Nat \ {0}
    /\ FirstTimeout <= MaxTimeout

VARIABLES
    bootp_ids,
    dhcp_state,
    NetDHCPServerIP,
    NetOurIP,
    NetOurGatewayIP,
    bootp_timeout,
    timer,          \* the time limit BootpTimeout() is set to, 0 if it is not
    elapsed,        \* time since bootp_start
    loop,           \* NetLoop(): "idle", "running", "restart"
    commands,
    lastId,         \* the BootpID last used
    firstId,        \* history: the first BootpID of this command
    answered,       \* history: the BootpID of the answer last acted on
    wire,
    owner           \* server |-> who has its address: "free", "us", "other"

dhcpVars == <<bootp_ids, dhcp_state, NetDHCPServerIP, NetOurIP, NetOurGatewayIP,
              bootp_timeout, timer, elapsed, loop, commands, lastId, firstId, answered,
              wire, owner>>

Discover(id) == [type |-> "DISCOVER", id |-> id]
Request(id, s, ip) == [type |-> "REQUEST", id |-> id, server |-> s, ip |-> ip]
Answer(type, id, s) ==
    [type |-> type, id |-> id, server |-> s, yiaddr |-> IF type = "NAK" THEN None ELSE s]

Answers == {p \in wire : p.type \in {"OFFER", "ACK", "NAK"}}

-----------------------------------------------------------------------------
(* The client *)

(* The ids of the last IdCacheSize requests.                                *)
bootp_add_id(ids, id) ==
    IF Len(ids) >= IdCacheSize THEN Append(Tail(ids), id) ELSE Append(ids, id)

bootp_match_id(id) == \E n \in DOMAIN bootp_ids : bootp_ids[n] = id

(* DhcpOptionsProcess(): an option that is not in the packet leaves its     *)
(* variable as it was.                                                      *)
DhcpOptionsProcess(p) ==
    /\ NetDHCPServerIP' = p.server
    /\ NetOurGatewayIP' = IF p.server \in GatewayServers THEN p.server ELSE NetOurGatewayIP

(* BootpRequest(): a new id, and DISCOVER to everybody.                     *)
BootpRequest(ids, timeout) ==
    /\ lastId' = lastId + 1
    /\ bootp_ids' = bootp_add_id(ids, lastId')
    /\ bootp_timeout' = timeout
    /\ timer' = timeout
    /\ dhcp_state' = "SELECTING"
    /\ wire' = wire \cup {Discover(lastId')}

(* Mutant: BootpReset() keeps the ids.                                     *)
IdsKeptAtReset == bootp_ids

(* The ids BootpReset() leaves.                                             *)
IdsAfterReset == <<>>

(* NetLoop(DHCP), and its restart: BootpReset(), no address, DhcpRequest(). *)
DhcpStart ==
    /\ loop \in {"idle", "restart"}
    /\ commands < MaxCommands
    /\ commands' = commands + 1
    /\ loop' = "running"
    /\ elapsed' = 0
    /\ NetOurIP' = None
    /\ BootpRequest(IdsAfterReset, FirstTimeout)
    /\ firstId' = lastId'
    /\ UNCHANGED <<NetDHCPServerIP, NetOurGatewayIP, answered, owner>>

(* BootpTimeout(): the time is up and NetStartAgain() starts again, or      *)
(* ends the command when netretry says so; or a new request with twice the  *)
(* timeout.                                                                 *)
GiveUp ==
    /\ loop = "running" /\ timer # 0
    /\ elapsed + timer >= TimeoutTime
    /\ loop' \in {"restart", "idle"}
    /\ UNCHANGED <<bootp_ids, dhcp_state, NetDHCPServerIP, NetOurIP, NetOurGatewayIP,
                   bootp_timeout, timer, elapsed, commands, lastId, firstId, answered,
                   wire, owner>>

Retry ==
    /\ loop = "running" /\ timer # 0
    /\ elapsed + timer < TimeoutTime
    /\ elapsed' = elapsed + timer
    /\ BootpRequest(bootp_ids,
                    IF 2 * bootp_timeout > MaxTimeout THEN MaxTimeout ELSE 2 * bootp_timeout)
    /\ UNCHANGED <<NetDHCPServerIP, NetOurIP, NetOurGatewayIP, loop, commands, firstId,
                   answered, owner>>

(* Mutant: no timeout while REQUESTING.                                    *)
TakeOfferNoTimeout(p) ==
    /\ dhcp_state = "SELECTING"
    /\ dhcp_state' = "REQUESTING"
    /\ DhcpOptionsProcess(p)
    /\ timer' = 0
    /\ elapsed' = elapsed
    /\ wire' = wire \cup {Request(p.id, NetDHCPServerIP', p.yiaddr)}
    /\ UNCHANGED <<NetOurIP, loop>>

(* DhcpHandler() while SELECTING: whatever it is, it is taken as an offer.  *)
(* It came some time before the timer ran out.                              *)
TakeOffer(p) ==
    /\ dhcp_state = "SELECTING"
    /\ dhcp_state' = "REQUESTING"
    /\ DhcpOptionsProcess(p)
    /\ timer' = RequestTimeout
    /\ \E t \in 0 .. timer : elapsed' = elapsed + t
    /\ wire' = wire \cup {Request(p.id, NetDHCPServerIP', p.yiaddr)}
    /\ UNCHANGED <<NetOurIP, loop>>

(* Mutant: the ACK's options are not read.                                 *)
TakeAckNoOptions(p) ==
    /\ dhcp_state = "REQUESTING"
    /\ p.type = "ACK"
    /\ dhcp_state' = "BOUND"
    /\ NetOurIP' = p.yiaddr
    /\ loop' = "idle"
    /\ UNCHANGED <<NetDHCPServerIP, NetOurGatewayIP, timer, elapsed, wire>>

(* DhcpHandler() while REQUESTING: only an ACK counts.  The client is bound *)
(* and the command over (autoload=no).                                      *)
TakeAck(p) ==
    /\ dhcp_state = "REQUESTING"
    /\ p.type = "ACK"
    /\ dhcp_state' = "BOUND"
    /\ DhcpOptionsProcess(p)
    /\ NetOurIP' = p.yiaddr
    /\ loop' = "idle"
    /\ UNCHANGED <<timer, elapsed, wire>>

(* What both have in common: BootpCheckPkt(), and no packet without an      *)
(* address.                                                                 *)
Filtered(p) ==
    /\ loop = "running"
    /\ bootp_match_id(p.id)
    /\ p.yiaddr # None
    /\ answered' = p.id
    /\ UNCHANGED <<bootp_ids, bootp_timeout, commands, lastId, firstId, owner>>

DhcpHandler == \E p \in Answers : Filtered(p) /\ (TakeOffer(p) \/ TakeAck(p))

(* ctrl-C *)
Interrupt ==
    /\ loop = "running"
    /\ loop' = "idle"
    /\ UNCHANGED <<bootp_ids, dhcp_state, NetDHCPServerIP, NetOurIP, NetOurGatewayIP,
                   bootp_timeout, timer, elapsed, commands, lastId, firstId, answered,
                   wire, owner>>

-----------------------------------------------------------------------------
(* The servers *)

ServerSends(p) ==
    /\ Cardinality(Answers) < MaxAnswers
    /\ wire' = wire \cup {p}

others == <<bootp_ids, dhcp_state, NetDHCPServerIP, NetOurIP, NetOurGatewayIP,
            bootp_timeout, timer, elapsed, loop, commands, lastId, firstId, answered>>

ServerOffers(s) ==
    /\ owner[s] # "other"
    /\ \E p \in wire : p.type = "DISCOVER" /\ ServerSends(Answer("OFFER", p.id, s))
    /\ UNCHANGED <<others, owner>>

ServerAcks(s) ==
    /\ owner[s] # "other"
    /\ \E p \in wire :
          /\ p.type = "REQUEST" /\ p.server = s /\ p.ip = s
          /\ ServerSends(Answer("ACK", p.id, s))
    /\ owner' = [owner EXCEPT ![s] = "us"]
    /\ UNCHANGED others

ServerNaks(s) ==
    /\ owner[s] = "other"
    /\ \E p \in wire :
          /\ p.type = "REQUEST" /\ p.server = s
          /\ ServerSends(Answer("NAK", p.id, s))
    /\ UNCHANGED <<others, owner>>

AddressTaken(s) ==
    /\ owner[s] = "free"
    /\ owner' = [owner EXCEPT ![s] = "other"]
    /\ UNCHANGED <<others, wire>>

-----------------------------------------------------------------------------
DhcpInit ==
    /\ bootp_ids = <<>>
    /\ dhcp_state = "INIT"
    /\ NetDHCPServerIP = None
    /\ NetOurIP = None
    /\ NetOurGatewayIP = None
    /\ bootp_timeout = 0
    /\ timer = 0
    /\ elapsed = 0
    /\ loop = "idle"
    /\ commands = 0
    /\ lastId = 0
    /\ firstId = 0
    /\ answered = 0
    /\ wire = {}
    /\ owner = [s \in Servers |-> "free"]

DhcpNext ==
    \/ DhcpStart
    \/ GiveUp
    \/ Retry
    \/ DhcpHandler
    \/ Interrupt
    \/ \E s \in Servers :
          ServerOffers(s) \/ ServerAcks(s) \/ ServerNaks(s) \/ AddressTaken(s)

(* NetLoop() polls the timer: a timeout that is set runs out and is served. *)
DhcpSpec == DhcpInit /\ [][DhcpNext]_dhcpVars /\ WF_dhcpVars(GiveUp \/ Retry)

-----------------------------------------------------------------------------
(* An answer to a request of an earlier dhcp command, or of the same one    *)
(* before a restart, is never acted on: BootpReset() forgets the old ids,   *)
(* and whatever moved the client past SELECTING belongs to this command.    *)
NoStaleAnswer ==
    dhcp_state \in {"REQUESTING", "BOUND"} => answered \in firstId .. lastId

(* When DhcpHandler() reports the client bound, the address it uses is      *)
(* committed to us by the server that DhcpOptionsProcess() recorded, and    *)
(* the gateway is that server's if it sends one at all: although the answer *)
(* may be of another server than the one last requested from, and offers    *)
(* taken on the way have set the same variables.                            *)
LeasedToUs ==
    dhcp_state = "BOUND" /\ NetOurIP # None =>
        /\ owner[NetOurIP] = "us"
        /\ NetDHCPServerIP = NetOurIP
        /\ NetOurIP \in GatewayServers => NetOurGatewayIP = NetOurIP

(* A dhcp command does not wait for ever, whatever is lost: every state of  *)
(* the client has a timeout set, and the retries of BootpTimeout() end.     *)
DhcpEnds == (loop = "running") ~> (loop # "running")
=============================================================================
