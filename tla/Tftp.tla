-------------------------------- MODULE Tftp --------------------------------
(* net/tftp.c: a file is fetched from, or written to, a TFTP server over a  *)
(* network that loses, delays and reorders packets and delivers those that  *)
(* are sent again after later ones.  The server is external.  A block is    *)
(* BlkSize units long; the last one of a file is shorter, possibly empty.   *)
EXTENDS Integers

CONSTANTS SequenceSize,    \* TFTP_SEQUENCE_SIZE: block numbers are modulo this
          TIMEOUT_COUNT,   \* timeouts before the transfer is restarted
          GetLens, PutLens,\* lengths of the files fetched and written
          MaxTids,         \* bound: transfers the server begins per attempt
          MaxTries         \* "netretry": restarts before NetLoop() fails

BlkSize == 2

ASSUME TftpAssumption ==
  /\ SequenceSize \in Nat /\ SequenceSize > 2
  /\ TIMEOUT_COUNT \in Nat /\ MaxTids \in Nat \ {0} /\ MaxTries \in Nat \ {0}
  /\ GetLens \subseteq Nat /\ PutLens \subseteq Nat

VARIABLES
  TftpWriting, len,       \* what is transferred; len is that of the file
  TftpState, TftpRemotePort, TftpBlock, TftpLastBlock, TftpBlockWrap,
  TftpTimeoutCount, TftpFinalBlock,
  NetBootFileXferSize,    \* of a file fetched
  mem,                    \* the memory at load_addr: what each block holds
  net_state, tries,       \* of NetLoop()
  toClient, toServer,     \* packets on the way, or lost
  srv,                    \* external: the transfers the server has begun
  abs,                    \* history: TftpBlock without the wrap-around
  late                    \* history: a packet from before was taken for new

client == <<TftpState, TftpRemotePort, TftpBlock, TftpLastBlock, TftpBlockWrap,
            TftpTimeoutCount, TftpFinalBlock, NetBootFileXferSize, mem, abs>>
vars == <<TftpWriting, len, client, net_state, tries, toClient, toServer, srv, late>>

Tids == 1 .. MaxTids
NoTransfers == [t \in Tids |-> [answer |-> "none", n |-> 0, good |-> TRUE]]
WELL_KNOWN_PORT == 0
Seq16(n) == n % SequenceSize

(* The blocks of the file: block n, counted from 1, holds its own number.   *)
Blocks == (len \div BlkSize) + 1
MemIdx == -1 .. (2 * SequenceSize) + Blocks   \* bound: the blocks of memory
MaxBlock == Blocks + 1   \* bound: blocks that a put sends after repeated OACKs
Wraps == Blocks >= SequenceSize
BlockLen(n) == IF n = Blocks THEN len % BlkSize ELSE BlkSize

load_blockNext(block, wrap) == (block + (wrap * SequenceSize)) + 1

(* load_block(): the part of the memory that is sent as a block.            *)
load_block(block, wrap) == (block - 1 + (wrap * SequenceSize)) + 1

(* Mutant: a full block counts as the last one too.                         *)
FinalOrFull(n) == BlockLen(n) <= BlkSize

(* loaded < toload, in TftpSend().                                          *)
Final(n) == BlockLen(n) < BlkSize

(* TftpSend() in the given state.                                           *)
TftpSend(state, port, block, wrap, n) ==
  toServer' = toServer \cup
    {IF state \in {"SEND_RRQ", "SEND_WRQ"} THEN [type |-> "REQ"]
     ELSE IF TftpWriting
     THEN [type |-> "DATA", tid |-> port, n |-> n,
           holds |-> load_block(block, wrap), size |-> BlockLen(load_block(block, wrap))]
     ELSE [type |-> "ACK", tid |-> port, n |-> n]}

(* TftpStart(), with the part of NetLoop() from `restart:`.  TftpOurPort is *)
(* taken from the clock or from "tftpsrcp".  If it is another one, what is  *)
(* still on the way is dropped by the first test of TftpHandler(), and the  *)
(* server's transfers are forgotten; if it is the same, both go on.         *)
TftpStart(same) ==
  /\ TftpState' = IF TftpWriting THEN "SEND_WRQ" ELSE "SEND_RRQ"
  /\ TftpRemotePort' = WELL_KNOWN_PORT
  /\ TftpBlock' = 0
  /\ abs' = 0
  /\ TftpTimeoutCount' = 0
  /\ IF TftpWriting
     THEN TftpLastBlock' = 0 /\ TftpBlockWrap' = 0 /\ TftpFinalBlock' = FALSE
     ELSE UNCHANGED <<TftpLastBlock, TftpBlockWrap, TftpFinalBlock>>
  /\ NetBootFileXferSize' = 0
  /\ IF same
     THEN toServer' = toServer \cup {[type |-> "REQ"]} /\ UNCHANGED <<toClient, srv>>
     ELSE toServer' = {[type |-> "REQ"]} /\ toClient' = {} /\ srv' = NoTransfers
  /\ UNCHANGED mem

Init ==
  /\ TftpWriting \in BOOLEAN
  /\ len \in IF TftpWriting THEN PutLens ELSE GetLens
  /\ TftpState = IF TftpWriting THEN "SEND_WRQ" ELSE "SEND_RRQ"
  /\ TftpRemotePort = WELL_KNOWN_PORT
  /\ TftpBlock = 0 /\ TftpLastBlock = 0 /\ TftpBlockWrap = 0
  /\ TftpTimeoutCount = 0 /\ TftpFinalBlock = FALSE
  /\ NetBootFileXferSize = 0
  /\ mem = [i \in MemIdx |-> 0]
  /\ net_state = "CONTINUE" /\ tries = 1
  /\ toClient = {} /\ toServer = {[type |-> "REQ"]}
  /\ srv = NoTransfers
  /\ abs = 0 /\ late = FALSE

-----------------------------------------------------------------------------
(* NetStartAgain(), as far as it concerns this transfer.                    *)
NetStartAgain ==
  IF tries >= MaxTries THEN net_state' = "FAIL" /\ UNCHANGED tries
  ELSE net_state' = "RESTART" /\ tries' = tries + 1

Restart ==
  /\ net_state = "RESTART"
  /\ net_state' = "CONTINUE"
  /\ \E same \in BOOLEAN : TftpStart(same)
  /\ UNCHANGED <<TftpWriting, len, tries, late>>

(* A packet for TftpHandler().  After the first answer the other end must   *)
(* use the port it has answered from.                                       *)
Receive(p) ==
  /\ net_state = "CONTINUE"
  /\ p \in toClient
  /\ toClient' = toClient \ {p}
  /\ UNCHANGED <<TftpWriting, len, srv>>
Accepts(t) == TftpState \in {"SEND_RRQ", "SEND_WRQ"} \/ t = TftpRemotePort

Ignored(p) ==
  /\ Receive(p)
  /\ ~Accepts(p.tid) \/ (p.type = "ACK" /\ ~TftpWriting)
  /\ UNCHANGED <<client, net_state, tries, toServer, late>>

(* case TFTP_OACK.                                                          *)
HandleOack(p) ==
  /\ Receive(p) /\ Accepts(p.tid)
  /\ p.type = "OACK"
  /\ TftpWriting => abs < MaxBlock
  /\ TftpRemotePort' = p.tid
  /\ TftpState' = IF TftpWriting THEN "DATA" ELSE "OACK"
  /\ TftpBlock' = IF TftpWriting THEN TftpBlock + 1 ELSE TftpBlock
  /\ abs' = IF TftpWriting THEN abs + 1 ELSE abs
  /\ TftpSend(TftpState', p.tid, TftpBlock', TftpBlockWrap, abs')
  /\ TftpFinalBlock' = (TftpWriting /\ Final(load_block(TftpBlock', TftpBlockWrap)))
  /\ late' = (late \/ (TftpState = "DATA" /\ (TftpWriting \/ Wraps)))
  /\ UNCHANGED <<TftpLastBlock, TftpBlockWrap, TftpTimeoutCount,
                 NetBootFileXferSize, mem, net_state, tries>>

(* update_block_number(): block number 0 means a wrap-around.               *)
Wrapped(block) == block = 0 /\ TftpLastBlock # 0

(* case TFTP_ACK, of a put.  The state does not change: after an ACK that   *)
(* answers the request itself the request is sent again.                    *)
HandleAck(p) ==
  LET block == Seq16(p.n + 1)
      wrap == IF Wrapped(block) THEN TftpBlockWrap + 1 ELSE TftpBlockWrap
      next == load_block(block, wrap)
  IN
  /\ Receive(p) /\ Accepts(p.tid)
  /\ p.type = "ACK" /\ TftpWriting
  /\ p.n < MaxBlock
  /\ late' = (late \/ p.n # IF TftpState = "DATA" THEN abs ELSE 0)
  /\ IF TftpFinalBlock
     THEN /\ net_state' = "SUCCESS"
          /\ UNCHANGED <<client, toServer>>
     ELSE /\ TftpBlock' = block
          /\ abs' = p.n + 1
          /\ TftpBlockWrap' = wrap
          /\ TftpTimeoutCount' = IF Wrapped(block) THEN 0 ELSE TftpTimeoutCount
          /\ IF TftpBlock = Seq16(p.n)
             THEN /\ TftpSend(TftpState, TftpRemotePort, block, wrap, p.n + 1)
                  /\ TftpFinalBlock' = IF TftpState = "DATA"
                                       THEN Final(next)
                                       ELSE TftpFinalBlock
             ELSE UNCHANGED <<toServer, TftpFinalBlock>>
          /\ UNCHANGED <<TftpState, TftpRemotePort, TftpLastBlock,
                         NetBootFileXferSize, mem, net_state>>
  /\ UNCHANGED tries

OffsetNoWrap(block, wrap) == block - 1

(* store_block(): where the data goes, and the size of the file so far.     *)
Offset(block, wrap) == block - 1 + (wrap * SequenceSize)
NewSize(block, wrap, size) ==
  LET s == (Offset(block, wrap) * BlkSize) + size
  IN IF NetBootFileXferSize < s THEN s ELSE NetBootFileXferSize

(* case TFTP_DATA, of a get: the block number is taken over, then the       *)
(* packet may turn out to begin a transfer, to be the same block again, or  *)
(* to be a block to store and acknowledge.                                  *)
HandleData(p) ==
  LET block == Seq16(p.n)
      first == TftpState \in {"SEND_RRQ", "OACK"}
      wrap == IF first THEN 0
              ELSE IF Wrapped(block) THEN TftpBlockWrap + 1 ELSE TftpBlockWrap
      last == IF first THEN 0 ELSE TftpLastBlock
      fresh == block # last /\ (first => block = 1)
  IN
  /\ Receive(p) /\ Accepts(p.tid)
  /\ p.type = "DATA" /\ ~TftpWriting
  /\ fresh => Offset(block, wrap) \in MemIdx
  /\ TftpBlock' = block
  /\ abs' = p.n
  /\ TftpState' = "DATA"
  /\ TftpRemotePort' = p.tid
  /\ TftpBlockWrap' = wrap
  /\ TftpTimeoutCount' = IF Wrapped(block) THEN 0 ELSE TftpTimeoutCount
  /\ TftpFinalBlock' = IF first THEN FALSE ELSE TftpFinalBlock
  /\ TftpLastBlock' = IF fresh THEN block ELSE last
  /\ IF ~fresh THEN UNCHANGED <<mem, NetBootFileXferSize, toServer>>
     ELSE /\ mem' = [mem EXCEPT ![Offset(block, wrap)] = p.holds]
          /\ NetBootFileXferSize' = NewSize(block, wrap, p.size)
          /\ TftpSend("DATA", p.tid, block, wrap, p.n)
  /\ late' = (late \/ (Wraps /\ p.n \notin IF first THEN {1} ELSE {abs, abs + 1}))
  /\ IF first /\ block # 1 THEN NetStartAgain
     ELSE /\ net_state' = IF fresh /\ p.size < BlkSize THEN "SUCCESS" ELSE net_state
          /\ UNCHANGED tries

(* case TFTP_ERROR, from transfer t of the server at any time: no such file *)
(* and no permission are final.                                             *)
HandleError(t, retry) ==
  /\ net_state = "CONTINUE"
  /\ srv[t].answer # "none"
  /\ Accepts(t)
  /\ IF retry THEN NetStartAgain ELSE net_state' = "FAIL" /\ UNCHANGED tries
  /\ UNCHANGED <<TftpWriting, len, client, toClient, toServer, srv, late>>

(* icmp_handler(): no port at the other end any more.                       *)
HandleIcmp ==
  /\ net_state = "CONTINUE"
  /\ NetStartAgain
  /\ UNCHANGED <<TftpWriting, len, client, toClient, toServer, srv, late>>

TftpTimeoutNoCount ==
  /\ net_state = "CONTINUE"
  /\ TftpSend(TftpState, TftpRemotePort, TftpBlock, TftpBlockWrap, abs)
  /\ UNCHANGED <<TftpWriting, len, client, net_state, tries, toClient, srv, late>>

TftpTimeout ==
  /\ net_state = "CONTINUE"
  /\ TftpTimeoutCount' = TftpTimeoutCount + 1
  /\ IF TftpTimeoutCount' > TIMEOUT_COUNT
     THEN NetStartAgain /\ UNCHANGED <<toServer, TftpFinalBlock>>
     ELSE /\ TftpSend(TftpState, TftpRemotePort, TftpBlock, TftpBlockWrap, abs)
          /\ TftpFinalBlock' =
               IF TftpWriting /\ TftpState = "DATA"
               THEN Final(load_block(TftpBlock, TftpBlockWrap))
               ELSE TftpFinalBlock
          /\ UNCHANGED <<net_state, tries>>
  /\ UNCHANGED <<TftpWriting, len, TftpState, TftpRemotePort, TftpBlock,
                 TftpLastBlock, TftpBlockWrap, NetBootFileXferSize, mem,
                 toClient, srv, abs, late>>

-----------------------------------------------------------------------------
(* External: the server.  A transfer t of it has `n` as the last block sent *)
(* (get) or stored (put).  It answers a request with or without options.    *)
FileBlock(t, n) ==
  [type |-> "DATA", tid |-> t, n |-> n, holds |-> n, size |-> BlockLen(n)]
Ack(t, n) == [type |-> "ACK", tid |-> t, n |-> n]

(* What a transfer sends last.                                              *)
LastSent(s, t) ==
  IF s[t].answer = "options" /\ s[t].n = 0 THEN [type |-> "OACK", tid |-> t]
  ELSE IF TftpWriting THEN Ack(t, s[t].n) ELSE FileBlock(t, s[t].n)

ServerRequest(t, answer) ==
  /\ [type |-> "REQ"] \in toServer
  /\ srv[t].answer = "none" /\ \A u \in 1 .. t - 1 : srv[u].answer # "none"
  /\ srv' = [srv EXCEPT ![t].answer = answer,
                        ![t].n = IF answer = "plain" /\ ~TftpWriting THEN 1 ELSE 0]
  /\ toClient' = toClient \cup {LastSent(srv', t)}
  /\ toServer' = toServer \ {[type |-> "REQ"]}
  /\ UNCHANGED <<TftpWriting, len, client, net_state, tries, late>>

(* An acknowledgement with the number of the last block: the next one.      *)
ServerAck(p) ==
  /\ p \in toServer /\ p.type = "ACK"
  /\ Seq16(p.n) = Seq16(srv[p.tid].n) /\ srv[p.tid].n < Blocks
  /\ srv' = [srv EXCEPT ![p.tid].n = @ + 1]
  /\ toClient' = toClient \cup {FileBlock(p.tid, srv[p.tid].n + 1)}
  /\ toServer' = toServer \ {p}
  /\ late' = (late \/ p.n # srv[p.tid].n)
  /\ UNCHANGED <<TftpWriting, len, client, net_state, tries>>

(* The block that is due is stored, and acknowledged; the last one again.   *)
(* A block that is shorter than the others has ended the file.              *)
Stored(t) == srv[t].n = Blocks /\ srv[t].good
ServerData(p) ==
  LET due == srv[p.tid].n + 1 IN
  /\ p \in toServer /\ p.type = "DATA"
  /\ Seq16(p.n) \in {Seq16(due - 1)} \cup IF Stored(p.tid) THEN {} ELSE {Seq16(due)}
  /\ srv' = IF Seq16(p.n) = Seq16(due - 1) THEN srv
            ELSE [srv EXCEPT ![p.tid].n = due,
                             ![p.tid].good = @ /\ p.holds = due /\ p.size = BlockLen(due)]
  /\ toClient' = toClient \cup {Ack(p.tid, srv'[p.tid].n)}
  /\ toServer' = toServer \ {p}
  /\ UNCHANGED <<TftpWriting, len, client, net_state, tries, late>>

(* It sends its last packet of a transfer again.                            *)
ServerAgain(t) ==
  /\ srv[t].answer # "none"
  /\ toClient' = toClient \cup {LastSent(srv, t)}
  /\ UNCHANGED <<TftpWriting, len, client, net_state, tries, toServer, srv, late>>

Server ==
  /\ net_state = "CONTINUE"
  /\ \/ \E t \in Tids, a \in {"options", "plain"} : ServerRequest(t, a)
     \/ \E p \in toServer : ServerAck(p) \/ ServerData(p)
     \/ \E t \in Tids : ServerAgain(t)

TftpHandler(p) ==
  Ignored(p) \/ HandleOack(p) \/ HandleAck(p) \/ HandleData(p)

Next ==
  \/ \E p \in toClient : TftpHandler(p)
  \/ \E t \in Tids, retry \in BOOLEAN : HandleError(t, retry)
  \/ HandleIcmp
  \/ TftpTimeout
  \/ Restart
  \/ Server

(* NetLoop() keeps polling the timer and acts on RESTART.                   *)
Spec == Init /\ [][Next]_vars /\ WF_vars(TftpTimeout) /\ WF_vars(Restart)

-----------------------------------------------------------------------------
(* When a get ends with success the file is in memory, complete, in order   *)
(* and with its length, however packets were lost, delayed or repeated.     *)
(* Once the block numbers have wrapped around this needs that no packet     *)
(* from before is taken for a new one.                                      *)
LoadedIsFile ==
  net_state = "SUCCESS" /\ ~TftpWriting /\ ~late =>
    /\ NetBootFileXferSize = len
    /\ \A n \in 1 .. Blocks : mem[n - 1] = n

(* When a put ends with success the server has stored the whole file, if    *)
(* every acknowledgement that was taken belongs to what was just sent, the  *)
(* request or a block.                                                      *)
PutIsStored == net_state = "SUCCESS" /\ TftpWriting /\ ~late => Stored(TftpRemotePort)

(* A put sends under each number the block of the file that has it, also    *)
(* when it sends one again and after a restart - up to the wrap-around of   *)
(* the numbers.  From there on it does not: TftpLastBlock stays 0 in a put, *)
(* so update_block_number() does not notice that the number has wrapped,    *)
(* and the file is sent again from before its beginning.                    *)
PutSendsFile ==
  ~late => \A p \in toServer :
    p.type = "DATA" /\ p.n < SequenceSize => p.holds = p.n
=============================================================================
