----------------------------- MODULE Protocols ------------------------------
(* The two clients of a network command that loads or stores a file: the    *)
(* DHCP client, which gets the addresses, and TFTP, which moves the file.   *)
(* They run one after the other and share no state that is modelled here; a *)
(* behaviour is one of `client_of`.                                         *)
EXTENDS Tftp, Dhcp

VARIABLE client_of

protocolVars == <<client_of, vars, dhcpVars>>

(* No file is transferred under "DHCP": one stands for all.                 *)
ProtocolInit ==
    /\ client_of \in {"TFTP", "DHCP"}
    /\ Init
    /\ client_of = "DHCP" => TftpWriting /\ \A n \in PutLens : len <= n
    /\ DhcpInit

Transferring(A) == client_of = "TFTP" /\ A /\ UNCHANGED <<client_of, dhcpVars>>
Configuring(A) == client_of = "DHCP" /\ A /\ UNCHANGED <<client_of, vars>>

ProtocolNext == Transferring(Next) \/ Configuring(DhcpNext)

(* NetLoop() keeps polling the timer and acts on RESTART.                   *)
ProtocolSpec ==
    /\ ProtocolInit /\ [][ProtocolNext]_protocolVars
    /\ WF_protocolVars(Transferring(TftpTimeout))
    /\ WF_protocolVars(Transferring(Restart))
    /\ WF_protocolVars(Configuring(GiveUp \/ Retry))

-----------------------------------------------------------------------------
(* With a bounded number of retries a transfer by TFTP ends, with success   *)
(* or not, whatever packets are lost and however often it is restarted; but *)
(* for a put of so many blocks that their numbers wrap around, which goes   *)
(* on as long as the server acknowledges what it gets.                      *)
TransferEnds ==
    client_of = "TFTP" =>
        (TftpWriting /\ Wraps) \/ <>(net_state \in {"SUCCESS", "FAIL"})
=============================================================================
