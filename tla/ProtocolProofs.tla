--------------------------- MODULE ProtocolProofs ---------------------------
(* Proofs about a transfer by net/tftp.c, for files of every length, every  *)
(* number of transfers the server begins and of retries: a file fetched is  *)
(* complete in memory, and a file written is stored by the server.  And     *)
(* about the DHCP client, for every set of servers, every size of the cache *)
(* of ids, all timeouts and any number of commands.                         *)
EXTENDS Tftp, Dhcp, TLAPS

InMem(m) == mem[m - 1] = m

(* The block stored last, from its number and the count of wrap-arounds.    *)
LastStored == (TftpBlockWrap * SequenceSize) + TftpLastBlock

Answered(t) == t \in Tids /\ srv[t].answer # "none"

SrvInv ==
  /\ DOMAIN srv = Tids
  /\ \A t \in Tids : /\ srv[t] \in [answer : {"none", "options", "plain"}, n : Nat,
                                    good : BOOLEAN]
                     /\ srv[t].answer = "none" => srv[t].n = 0

-----------------------------------------------------------------------------
(* A get.  The server has sent a block only when those before it are in     *)
(* memory, and the client acknowledges no block that is not.                *)
GetPackets ==
  /\ \A p \in toClient :
       /\ Answered(p.tid)
       /\ \/ p = [type |-> "OACK", tid |-> p.tid]
          \/ p.n \in 1 .. srv[p.tid].n /\ p = FileBlock(p.tid, p.n)
  /\ \A p \in toServer :
       \/ p = [type |-> "REQ"]
       \/ /\ p = [type |-> "ACK", tid |-> p.tid, n |-> p.n]
          /\ Answered(p.tid) /\ p.n \in Nat
          /\ \A m \in 1 .. p.n : InMem(m)

GetServer ==
  \A t \in Tids : /\ srv[t].n <= Blocks
                  /\ srv[t].answer = "plain" => srv[t].n > 0
                  /\ \A m \in 1 .. srv[t].n - 1 : InMem(m)

GetClient ==
  /\ TftpState \in {"SEND_RRQ", "OACK", "DATA"}
  /\ TftpState # "SEND_RRQ" => Answered(TftpRemotePort)
  /\ NetBootFileXferSize \in 0 .. len
  /\ abs \in Nat
  /\ net_state = "CONTINUE" => \A m \in 1 .. abs : InMem(m)
  /\ net_state = "CONTINUE" /\ TftpState = "DATA" =>
       /\ TftpBlockWrap \in Nat /\ TftpLastBlock \in 0 .. SequenceSize - 1
       /\ LastStored \in 1 .. Blocks /\ InMem(LastStored)
       /\ IF Wraps THEN LastStored = abs ELSE TftpBlockWrap = 0

Loaded == NetBootFileXferSize = len /\ \A n \in 1 .. Blocks : InMem(n)

GetInv ==
  /\ DOMAIN mem = MemIdx
  /\ GetPackets /\ GetServer /\ GetClient
  /\ net_state = "SUCCESS" => Loaded

-----------------------------------------------------------------------------
(* A put.  Nothing is sent but requests and blocks of the file under their  *)
(* numbers, and no block is acknowledged that is not stored.                *)
BlockSent(p) ==
  /\ p.type = "DATA" /\ Answered(p.tid) /\ p.n \in Nat
  /\ p.holds = Seq16(p.n) /\ p.size = BlockLen(p.holds)

PutPackets ==
  /\ \A p \in toClient :
       /\ Answered(p.tid)
       /\ \/ p = [type |-> "OACK", tid |-> p.tid]
          \/ p.n \in 0 .. srv[p.tid].n /\ p = Ack(p.tid, p.n)
  /\ \A p \in toServer :
       p = [type |-> "REQ"] \/ BlockSent(p)

PutClient ==
  /\ TftpState \in {"SEND_WRQ", "DATA"}
  /\ TftpLastBlock = 0 /\ TftpBlockWrap = 0
  /\ abs \in Nat /\ TftpBlock = Seq16(abs)
  /\ TftpState = "SEND_WRQ" => abs <= 1 /\ ~TftpFinalBlock
  /\ TftpState = "DATA" => Answered(TftpRemotePort)

(* A file whose numbers do not wrap around is stored as it is, and the last *)
(* block sent is its last one when the client takes it for that.            *)
PutTurn ==
  /\ Wraps => ~TftpFinalBlock
  /\ ~Wraps => /\ \A t \in Tids : srv[t].good /\ srv[t].n <= Blocks
               /\ abs <= Blocks + 1
               /\ TftpFinalBlock => abs = Blocks

PutInv ==
  /\ PutPackets /\ PutClient /\ PutTurn
  /\ net_state = "SUCCESS" => Stored(TftpRemotePort)

-----------------------------------------------------------------------------
TInv ==
  /\ TftpWriting \in BOOLEAN /\ len \in Nat
  /\ ~late => SrvInv /\ IF TftpWriting THEN PutInv ELSE GetInv

-----------------------------------------------------------------------------
(* The block numbers *)

(* A remainder is what is left of a multiple.                               *)
LEMMA Remainder ==
  ASSUME NEW s \in Nat \ {0}, NEW w \in Nat, NEW r \in 0 .. s - 1
  PROVE  ((w * s) + r) % s = r
<1> DEFINE a == (w * s) + r
           q == a \div s
<1>1. a \in Nat /\ q \in Nat /\ a % s \in 0 .. s - 1
  OBVIOUS
<1>2. a = (s * q) + (a % s)
  <2>1. a \in Nat
    BY <1>1, Zenon
  <2> HIDE DEF a
  <2> QED
    BY <2>1
<1>3. ~(q < w)
  <2> SUFFICES ASSUME q + 1 <= w PROVE FALSE
    BY <1>1
  <2>1. s * (q + 1) <= s * w /\ s * (q + 1) = (s * q) + s /\ s * w = w * s
    BY <1>1
  <2> DEFINE x == s * q
             y == w * s
             z == a % s
  <2>2. x \in Int /\ y \in Int /\ z \in Int /\ x + s <= y /\ y + r = x + z /\ z < s
    BY <1>1, <1>2, <2>1
  <2> HIDE DEF x, y, z
  <2> QED
    BY <2>2
<1>4. ~(w < q)
  <2> SUFFICES ASSUME w + 1 <= q PROVE FALSE
    BY <1>1
  <2>1. s * (w + 1) <= s * q /\ s * (w + 1) = (w * s) + s
    BY <1>1
  <2> DEFINE x == s * q
             y == w * s
             z == a % s
  <2>2. x \in Int /\ y \in Int /\ z \in Int /\ y + s <= x /\ y + r = x + z /\ z >= 0
    BY <1>1, <1>2, <2>1
  <2> HIDE DEF x, y, z
  <2> QED
    BY <2>2
<1>5. q = w
  BY <1>1, <1>3, <1>4
<1>6. (w * s) + r = (w * s) + (a % s)
  <2>1. s * w = w * s
    OBVIOUS
  <2> QED
    BY <1>2, <1>5, <2>1, Zenon
<1> DEFINE y == w * s
           z == a % s
<1>7. y \in Int /\ z \in Int /\ y + r = y + z
  BY <1>1, <1>6
<1> HIDE DEF y, z
<1>8. r = z
  BY <1>7
<1> QED
  BY <1>8, Zenon DEF z

(* Small numbers are their own remainders.                                  *)
LEMMA SmallSeq16 ==
  ASSUME NEW n \in Nat
  PROVE  Seq16(n) \in 0 .. SequenceSize - 1 /\ (n < SequenceSize => Seq16(n) = n)
BY TftpAssumption DEF Seq16

(* The block after number a, counted w times around with remainder r: it    *)
(* has another number, and store_block() puts it where it belongs.          *)
LEMMA NextBlock ==
  ASSUME NEW w \in Nat, NEW r \in 0 .. SequenceSize - 1,
         NEW a, a = (w * SequenceSize) + r
  PROVE  LET b == Seq16(a + 1)
             v == IF b = 0 /\ r # 0 THEN w + 1 ELSE w
         IN  /\ a \in Nat /\ Seq16(a) = r
             /\ b \in 0 .. SequenceSize - 1 /\ b # r /\ v \in Nat
             /\ Offset(b, v) = a
             /\ (v * SequenceSize) + b = a + 1
<1> DEFINE s == SequenceSize
           x == w * s
           y == (w + 1) * s
<1>1. s \in Nat /\ s > 2
  BY TftpAssumption, Zenon
<1>2. x \in Nat /\ y = x + s /\ a = x + r /\ y \in Nat
  BY <1>1
<1>3. Seq16(a) = r
  BY <1>1, Remainder DEF Seq16
<1>4. CASE r < s - 1
  <2>1. r + 1 \in 0 .. s - 1 /\ a + 1 = x + (r + 1)
    BY <1>1, <1>2, <1>4
  <2>2. Seq16(a + 1) = r + 1
    BY <1>1, <2>1, Remainder DEF Seq16
  <2> HIDE DEF x, y
  <2>3. Offset(r + 1, w) = a /\ x + (r + 1) = a + 1
    BY <1>1, <1>2 DEF Offset, x
  <2> QED
    BY <1>1, <1>2, <1>3, <2>1, <2>2, <2>3 DEF x
<1>5. CASE r = s - 1
  <2>1. a + 1 = y + 0 /\ 0 \in 0 .. s - 1 /\ w + 1 \in Nat
    BY <1>1, <1>2, <1>5
  <2>2. Seq16(a + 1) = 0
    BY <1>1, <2>1, Remainder DEF Seq16
  <2> HIDE DEF x, y
  <2>3. Offset(0, w + 1) = a /\ y + 0 = a + 1
    BY <1>1, <1>2, <1>5 DEF Offset, y
  <2> QED
    BY <1>1, <1>2, <1>3, <1>5, <2>1, <2>2, <2>3 DEF y
<1> QED
  BY <1>1, <1>4, <1>5

(* The blocks of a file make up its length.                                 *)
LEMMA FileBlocks ==
  ASSUME len \in Nat
  PROVE  /\ Blocks \in Nat \ {0}
         /\ \A n \in 1 .. Blocks : /\ BlockLen(n) \in Nat
                                   /\ (n - 1) * BlkSize + BlockLen(n) <= len
         /\ (Blocks - 1) * BlkSize + BlockLen(Blocks) = len
         /\ \A n : Final(n) <=> n = Blocks
         /\ \A n \in 1 .. Blocks : n - 1 \in MemIdx
BY TftpAssumption DEF Blocks, BlockLen, BlkSize, Final, MemIdx

(* They do not change.                                                      *)
LEMMA SameFile ==
  ASSUME len' = len
  PROVE  /\ Blocks' = Blocks /\ (Wraps' <=> Wraps) /\ MemIdx' = MemIdx
         /\ \A n : BlockLen(n)' = BlockLen(n)
         /\ \A t, n : FileBlock(t, n)' = FileBlock(t, n)
BY Zenon DEF Blocks, Wraps, MemIdx, BlockLen, FileBlock

-----------------------------------------------------------------------------
(* The steps of a get *)

GetState == len \in Nat /\ ~TftpWriting /\ SrvInv /\ GetInv
getVars == <<TftpState, TftpRemotePort, TftpLastBlock, TftpBlockWrap,
             NetBootFileXferSize, mem, abs>>

(* What a step keeps that leaves the client and the memory as they are.     *)
LEMMA GetClientSame ==
  ASSUME GetState, UNCHANGED <<TftpWriting, len, getVars, net_state>>,
         \A t \in Tids : Answered(t) => Answered(t)'
  PROVE  /\ DOMAIN mem' = MemIdx' /\ GetClient'
         /\ (net_state = "SUCCESS" => Loaded)'
         /\ \A m : InMem(m)' = InMem(m)
         /\ abs' = abs /\ TftpState' = TftpState
<1>1. /\ UNCHANGED <<TftpState, TftpRemotePort, TftpLastBlock, TftpBlockWrap,
                     NetBootFileXferSize, mem, abs, len, net_state>>
  BY Zenon DEF getVars
<1>2. Blocks' = Blocks /\ (Wraps' <=> Wraps) /\ MemIdx' = MemIdx
  BY <1>1, SameFile, Zenon
<1>3. \A m : InMem(m)' = InMem(m)
  BY <1>1, Zenon DEF InMem
<1>4. DOMAIN mem' = MemIdx' /\ (net_state = "SUCCESS" => Loaded)'
  BY <1>1, <1>2, Zenon DEF GetState, GetInv, Loaded, InMem
<1>5. GetClient'
  <2>1. TftpState # "SEND_RRQ" => Answered(TftpRemotePort)'
    BY <1>1, Zenon DEF GetState, GetInv, GetClient, Answered
  <2> QED
    BY <1>1, <1>2, <2>1, Zenon DEF GetState, GetInv, GetClient, InMem, LastStored
<1> QED
  BY <1>1, <1>3, <1>4, <1>5, Zenon

(* A packet that is dropped, or of which nothing is taken over.             *)
LEMMA GetIgnored ==
  ASSUME GetState, NEW p \in toClient, Ignored(p)
  PROVE  SrvInv' /\ GetInv'
<1>1. /\ UNCHANGED <<TftpWriting, len, client, net_state, srv, toServer>>
      /\ toClient' \subseteq toClient
  BY Zenon DEF Ignored, Receive
<1>2. \A t : Answered(t)' = Answered(t)
  BY <1>1, Zenon DEF Answered
<1>3. GetPackets'
  BY <1>1, <1>2, SameFile DEF GetState, GetInv, GetPackets, InMem, client
<1>4. GetServer'
  BY <1>1, SameFile, Zenon DEF GetState, GetInv, GetServer, InMem, client
<1> QED
  BY <1>1, <1>2, <1>3, <1>4, GetClientSame, Zenon DEF GetState, GetInv, SrvInv, client,
     getVars

(* The transfer fails or is begun again.                                    *)
LEMMA GetStops ==
  ASSUME GetState, NetStartAgain \/ net_state' = "FAIL",
         UNCHANGED <<TftpWriting, len, TftpState, TftpRemotePort, TftpBlockWrap,
                     TftpLastBlock, NetBootFileXferSize, mem, abs, srv, toServer, toClient>>
  PROVE  SrvInv' /\ GetInv'
<1>1. net_state' \in {"FAIL", "RESTART"}
  BY Zenon DEF NetStartAgain
<1>2. \A t : Answered(t)' = Answered(t)
  BY Zenon DEF Answered
<1>3. GetPackets'
  BY <1>2, SameFile DEF GetState, GetInv, GetPackets, InMem
<1>4. GetServer'
  BY SameFile, Zenon DEF GetState, GetInv, GetServer, InMem
<1>5. GetClient'
  BY <1>1, <1>2, SameFile, Zenon DEF GetState, GetInv, GetClient, Answered
<1> QED
  BY <1>1, <1>3, <1>4, <1>5, SameFile, Zenon DEF GetState, GetInv, SrvInv

(* NetLoop() begins again: the memory keeps what it has.                    *)
LEMMA GetRestart ==
  ASSUME GetState, Restart
  PROVE  SrvInv' /\ GetInv'
<1>1. /\ TftpState' = "SEND_RRQ" /\ abs' = 0 /\ NetBootFileXferSize' = 0
      /\ mem' = mem /\ net_state' = "CONTINUE" /\ len' = len
  BY Zenon DEF Restart, TftpStart, GetState
<1>2. /\ Blocks' = Blocks /\ (Wraps' <=> Wraps) /\ MemIdx' = MemIdx /\ Blocks \in Nat
      /\ \A t, n : FileBlock(t, n)' = FileBlock(t, n)
  BY <1>1, SameFile, FileBlocks, Zenon DEF GetState
<1>3. GetClient'
  BY <1>1 DEF GetClient, GetState
<1>4. CASE /\ toServer' = toServer \cup {[type |-> "REQ"]}
           /\ UNCHANGED <<toClient, srv>>
  <2>1. SrvInv'
    BY <1>4, Zenon DEF GetState, SrvInv
  <2>2. GetPackets'
    BY <1>1, <1>2, <1>4, Zenon DEF GetState, GetInv, GetPackets, Answered, InMem
  <2>3. GetServer'
    BY <1>1, <1>2, <1>4, Zenon DEF GetState, GetInv, GetServer, InMem
  <2> QED
    BY <1>1, <1>2, <1>3, <2>1, <2>2, <2>3, Zenon DEF GetState, GetInv
<1>5. CASE toServer' = {[type |-> "REQ"]} /\ toClient' = {} /\ srv' = NoTransfers
  <2>1. SrvInv'
    BY <1>5, Zenon DEF SrvInv, NoTransfers
  <2>2. GetPackets'
    BY <1>5, Zenon DEF GetPackets
  <2>3. GetServer'
    BY <1>2, <1>5 DEF GetServer, NoTransfers
  <2> QED
    BY <1>1, <1>2, <1>3, <2>1, <2>2, <2>3, Zenon DEF GetState, GetInv
<1> QED
  BY <1>4, <1>5, Zenon DEF Restart, TftpStart

(* The server answers a request.                                            *)
LEMMA GetRequest ==
  ASSUME GetState, NEW t \in Tids, NEW answer \in {"options", "plain"},
         ServerRequest(t, answer)
  PROVE  SrvInv' /\ GetInv'
<1> DEFINE n0 == IF answer = "plain" THEN 1 ELSE 0
<1>1. /\ UNCHANGED <<TftpWriting, len, client, net_state>>
      /\ srv[t].answer = "none" /\ srv[t].n = 0
      /\ srv' = [srv EXCEPT ![t].answer = answer, ![t].n = n0]
      /\ toClient' = toClient \cup {LastSent(srv', t)}
      /\ toServer' = toServer \ {[type |-> "REQ"]}
  BY Zenon DEF ServerRequest, GetState, SrvInv
<1>2. /\ srv'[t] = [answer |-> answer, n |-> n0, good |-> srv[t].good]
      /\ \A u \in Tids : u # t => srv'[u] = srv[u]
  BY <1>1, Zenon DEF GetState, SrvInv
<1>3. SrvInv'
  BY <1>1, <1>2 DEF GetState, SrvInv
<1>4. \A u : Answered(u) => Answered(u)' /\ srv'[u] = srv[u]
  BY <1>1, <1>2, Zenon DEF Answered
<1>5. Answered(t)'
  BY <1>2 DEF Answered
<1>6. /\ Blocks' = Blocks /\ (Wraps' <=> Wraps) /\ Blocks \in Nat \ {0}
      /\ \A u, n : FileBlock(u, n)' = FileBlock(u, n)
      /\ abs' = abs /\ mem' = mem /\ TftpState' = TftpState
  BY <1>1, SameFile, FileBlocks, Zenon DEF GetState, client
<1>7. LastSent(srv', t) = IF answer = "options" THEN [type |-> "OACK", tid |-> t]
                          ELSE FileBlock(t, 1)
  BY <1>2 DEF LastSent, GetState
<1>8. GetPackets'
  <2>1. ASSUME NEW p \in toClient'
        PROVE  /\ Answered(p.tid)'
               /\ \/ p = [type |-> "OACK", tid |-> p.tid]
                  \/ p.n \in 1 .. srv'[p.tid].n /\ p = FileBlock(p.tid, p.n)
    <3>1. CASE p \in toClient
      BY <1>4, <3>1, Zenon DEF GetState, GetInv, GetPackets
    <3>2. CASE p = LastSent(srv', t)
      BY <1>2, <1>5, <1>7, <3>2 DEF FileBlock
    <3> QED
      BY <1>1, <2>1, <3>1, <3>2, Zenon
  <2> QED
    BY <1>1, <1>4, <1>6, <2>1, Zenon DEF GetState, GetInv, GetPackets, InMem
<1>9. GetServer'
  BY <1>2, <1>6 DEF GetState, GetInv, GetServer, InMem
<1> QED
  BY <1>1, <1>3, <1>4, <1>8, <1>9, GetClientSame, Zenon DEF GetInv, client, getVars

(* The server takes an acknowledgement and sends the next block.            *)
LEMMA GetNextBlock ==
  ASSUME GetState, NEW p \in toServer, ServerAck(p), ~late'
  PROVE  SrvInv' /\ GetInv'
<1> DEFINE t == p.tid
<1>1. /\ UNCHANGED <<TftpWriting, len, client, net_state>>
      /\ p.type = "ACK" /\ srv[t].n < Blocks
      /\ srv' = [srv EXCEPT ![t].n = @ + 1]
      /\ toClient' = toClient \cup {FileBlock(t, srv[t].n + 1)}
      /\ toServer' = toServer \ {p}
  BY Zenon DEF ServerAck
<1>2. p.n = srv[t].n
  BY Zenon  DEF ServerAck
<1>3. Answered(t) /\ p.n \in Nat /\ \A m \in 1 .. p.n : InMem(m)
  BY <1>1 DEF GetState, GetInv, GetPackets
<1>4. /\ srv'[t] = [srv[t] EXCEPT !.n = @ + 1] /\ srv'[t].n = srv[t].n + 1
      /\ srv'[t].answer = srv[t].answer /\ srv[t].n \in Nat /\ t \in Tids
      /\ \A u \in Tids : u # t => srv'[u] = srv[u]
  BY <1>1, <1>3, Zenon DEF GetState, SrvInv, Answered
<1> HIDE DEF t
<1>5. SrvInv'
  BY <1>1, <1>3, <1>4 DEF GetState, SrvInv, Answered
<1>6. \A u : Answered(u) => Answered(u)' /\ srv'[u].n \in Nat /\ srv'[u].n >= srv[u].n
  BY <1>4 DEF Answered, GetState, SrvInv
<1>7. /\ Blocks' = Blocks /\ (Wraps' <=> Wraps) /\ Blocks \in Nat \ {0}
      /\ \A u, n : FileBlock(u, n)' = FileBlock(u, n)
      /\ abs' = abs /\ mem' = mem /\ TftpState' = TftpState
  BY <1>1, SameFile, FileBlocks, Zenon DEF GetState, client
<1>8. GetPackets'
  <2>1. ASSUME NEW x \in toClient'
        PROVE  /\ Answered(x.tid)'
               /\ \/ x = [type |-> "OACK", tid |-> x.tid]
                  \/ x.n \in 1 .. srv'[x.tid].n /\ x = FileBlock(x.tid, x.n)
    <3>1. CASE x \in toClient
      <4>1. /\ Answered(x.tid)
            /\ \/ x = [type |-> "OACK", tid |-> x.tid]
               \/ x.n \in 1 .. srv[x.tid].n /\ x = FileBlock(x.tid, x.n)
        BY <3>1, Zenon DEF GetState, GetInv, GetPackets
      <4>2. srv[x.tid].n \in Nat /\ srv'[x.tid].n \in Nat /\ srv'[x.tid].n >= srv[x.tid].n
        BY <1>6, <4>1, Zenon DEF GetState, SrvInv, Answered
      <4> QED
        BY <1>6, <4>1, <4>2
    <3>2. CASE x = FileBlock(t, srv[t].n + 1)
      <4>1. x.tid = t /\ x.n = srv[t].n + 1
        BY <3>2, Zenon DEF FileBlock
      <4> QED
        <5>1. Answered(t)'
          BY <1>3, <1>6, Zenon
        <5>2. x.n \in 1 .. srv'[t].n
          BY <1>4, <4>1
        <5> QED
          BY <3>2, <4>1, <5>1, <5>2 DEF Answered
    <3> QED
      BY <1>1, <2>1, <3>1, <3>2, Zenon DEF t
  <2> QED
    BY <1>1, <1>6, <1>7, <2>1, Zenon DEF GetState, GetInv, GetPackets, InMem
<1>9. GetServer'
  <2> SUFFICES ASSUME NEW u \in Tids
               PROVE  /\ srv'[u].n <= Blocks
                      /\ srv'[u].answer = "plain" => srv'[u].n > 0
                      /\ \A m \in 1 .. srv'[u].n - 1 : InMem(m)
    BY <1>7, Zenon DEF GetServer, InMem
  <2>1. CASE u = t
    <3>1. srv'[u].n - 1 = p.n /\ srv'[u].n <= Blocks /\ srv'[u].n > 0
      BY <1>1, <1>2, <1>4, <1>7, <2>1 DEF t
    <3> QED
      BY <1>3, <3>1, Zenon
  <2>2. CASE u # t
    BY <1>4, <2>2, Zenon DEF GetState, GetInv, GetServer
  <2> QED
    BY <2>1, <2>2, Zenon
<1> QED
  BY <1>1, <1>5, <1>6, <1>8, <1>9, GetClientSame, Zenon DEF GetInv, client, getVars

(* The server sends the last block of a transfer again.                     *)
LEMMA GetAgain ==
  ASSUME GetState, NEW t \in Tids, ServerAgain(t)
  PROVE  SrvInv' /\ GetInv'
<1>1. /\ UNCHANGED <<TftpWriting, len, client, net_state, srv, toServer>>
      /\ Answered(t) /\ toClient' = toClient \cup {LastSent(srv, t)}
  BY Zenon DEF ServerAgain, Answered
<1>2. \A u : Answered(u)' = Answered(u)
  BY <1>1, Zenon DEF Answered
<1>3. LastSent(srv, t) = [type |-> "OACK", tid |-> t]
      \/ (srv[t].n > 0 /\ srv[t].n \in Nat /\ LastSent(srv, t) = FileBlock(t, srv[t].n))
  <2>1. srv[t].answer \in {"options", "plain"} /\ srv[t].n \in Nat
    BY <1>1, Zenon DEF GetState, SrvInv, Answered
  <2>2. srv[t].answer = "plain" => srv[t].n > 0
    BY Zenon DEF GetState, GetInv, GetServer
  <2> QED
    BY <2>1, <2>2 DEF LastSent, GetState
<1>4. GetPackets'
  <2>1. ASSUME NEW p \in toClient'
        PROVE  /\ Answered(p.tid)
               /\ \/ p = [type |-> "OACK", tid |-> p.tid]
                  \/ p.n \in 1 .. srv[p.tid].n /\ p = FileBlock(p.tid, p.n)
    <3>1. CASE p \in toClient
      BY <3>1, Zenon DEF GetState, GetInv, GetPackets
    <3>2. CASE p = LastSent(srv, t)
      BY <1>1, <1>3, <3>2 DEF FileBlock
    <3> QED
      BY <1>1, <2>1, <3>1, <3>2, Zenon
  <2> QED
    BY <1>1, <1>2, <2>1, SameFile DEF GetState, GetInv, GetPackets, InMem, client
<1>5. GetServer'
  BY <1>1, SameFile, Zenon DEF GetState, GetInv, GetServer, InMem, client
<1> QED
  BY <1>1, <1>2, <1>4, <1>5, GetClientSame, Zenon DEF GetState, GetInv, SrvInv, client,
     getVars

(* The client sends its request, or acknowledges what it has in memory.     *)
LEMMA GetSends ==
  ASSUME GetState, NEW x, toServer' = toServer \cup {x}, mem' = mem, srv' = srv,
         \/ x = [type |-> "REQ"]
         \/ /\ x = [type |-> "ACK", tid |-> x.tid, n |-> abs]
            /\ Answered(x.tid) /\ \A m \in 1 .. abs : InMem(m)
  PROVE  \A p \in toServer' :
           \/ p = [type |-> "REQ"]
           \/ /\ p = [type |-> "ACK", tid |-> p.tid, n |-> p.n]
              /\ Answered(p.tid)' /\ p.n \in Nat
              /\ \A m \in 1 .. p.n : InMem(m)'
<1>1. abs \in Nat
  BY Zenon DEF GetState, GetInv, GetClient
<1>2. \A u : Answered(u)' = Answered(u) /\ InMem(u)' = InMem(u)
  BY Zenon DEF Answered, InMem
<1>3. ASSUME NEW p \in toServer' 
      PROVE  \/ p = [type |-> "REQ"]
             \/ /\ p = [type |-> "ACK", tid |-> p.tid, n |-> p.n]
                /\ Answered(p.tid) /\ p.n \in Nat
                /\ \A m \in 1 .. p.n : InMem(m)
  <2>1. CASE p \in toServer
    BY <2>1, Zenon DEF GetState, GetInv, GetPackets
  <2>2. CASE p = x
    <3>1. CASE x = [type |-> "REQ"]
      BY <2>2, <3>1, Zenon
    <3>2. CASE x # [type |-> "REQ"]
      <4>1. x.n = abs /\ x = [type |-> "ACK", tid |-> x.tid, n |-> x.n]
        BY <3>2
      <4> QED
        BY <1>1, <2>2, <3>2, <4>1, Zenon
    <3> QED
      BY <3>1, <3>2, Zenon
  <2> QED
    BY <1>3, <2>1, <2>2, Zenon
<1> QED
  BY <1>2, <1>3, Zenon DEF Answered

(* A timeout: the last packet is sent again, or the transfer begun again.   *)
LEMMA GetTimeout ==
  ASSUME GetState, TftpTimeout
  PROVE  SrvInv' /\ GetInv'
<1>1. /\ UNCHANGED <<TftpWriting, len, toClient, srv>> /\ UNCHANGED getVars
      /\ UNCHANGED <<TftpState, TftpRemotePort, TftpLastBlock, TftpBlockWrap,
                     NetBootFileXferSize, mem, abs>>
      /\ net_state = "CONTINUE"
  BY Zenon DEF TftpTimeout, getVars
<1>2. CASE NetStartAgain /\ toServer' = toServer
  BY <1>1, <1>2, GetStops, Zenon
<1>3. CASE ~(NetStartAgain /\ toServer' = toServer)
  <2>1. /\ net_state' = net_state
        /\ TftpSend(TftpState, TftpRemotePort, TftpBlock, TftpBlockWrap, abs)
    BY <1>3, Zenon DEF TftpTimeout
  <2> DEFINE x == IF TftpState = "SEND_RRQ" THEN [type |-> "REQ"]
                  ELSE [type |-> "ACK", tid |-> TftpRemotePort, n |-> abs]
  <2>2. toServer' = toServer \cup {x}
    BY <2>1, Zenon DEF TftpSend, GetState, GetInv, GetClient
  <2>3. \/ x = [type |-> "REQ"]
        \/ /\ x = [type |-> "ACK", tid |-> x.tid, n |-> abs]
           /\ Answered(x.tid) /\ \A m \in 1 .. abs : InMem(m)
    BY <1>1, Zenon DEF GetState, GetInv, GetClient
  <2> HIDE DEF x
  <2>4. \A u : Answered(u)' = Answered(u)
    BY <1>1, Zenon DEF Answered
  <2>5. GetPackets'
    BY <1>1, <2>2, <2>3, <2>4, GetSends, SameFile DEF GetState, GetInv, GetPackets
  <2>6. GetServer'
    BY <1>1, SameFile, Zenon DEF GetState, GetInv, GetServer, InMem
  <2> QED
    BY <1>1, <2>1, <2>4, <2>5, <2>6, GetClientSame, Zenon DEF GetState, GetInv, SrvInv
<1> QED
  BY <1>2, <1>3, Zenon

(* An OACK is acknowledged with the last block's number.                    *)
LEMMA GetOack ==
  ASSUME GetState, NEW p \in toClient, HandleOack(p), ~late'
  PROVE  SrvInv' /\ GetInv'
<1>1. /\ UNCHANGED <<TftpWriting, len, srv, NetBootFileXferSize, mem, net_state, abs>>
      /\ TftpState' = "OACK" /\ TftpRemotePort' = p.tid /\ net_state = "CONTINUE"
      /\ toClient' \subseteq toClient /\ p.type = "OACK"
  BY Zenon DEF HandleOack, Receive, GetState
<1>2. toServer' = toServer \cup {[type |-> "ACK", tid |-> p.tid, n |-> abs]}
  BY <1>1, Zenon DEF HandleOack, TftpSend, GetState
<1>3. \A u : Answered(u)' = Answered(u) /\ InMem(u)' = InMem(u)
  BY <1>1, Zenon DEF Answered, InMem
<1>4. Answered(p.tid) /\ \A m \in 1 .. abs : InMem(m)
  BY <1>1, Zenon DEF GetState, GetInv, GetClient, GetPackets
<1> DEFINE x == [type |-> "ACK", tid |-> p.tid, n |-> abs]
<1>5. x = [type |-> "ACK", tid |-> x.tid, n |-> abs] /\ x.tid = p.tid
  OBVIOUS
<1> HIDE DEF x
<1>6. toServer' = toServer \cup {x}
  BY <1>2, Zenon DEF x
<1>7. GetPackets'
  BY <1>1, <1>3, <1>4, <1>5, <1>6, GetSends, SameFile DEF GetState, GetInv, GetPackets
<1>8. GetServer'
  BY <1>1, SameFile, Zenon DEF GetState, GetInv, GetServer, InMem
<1>9. GetClient'
  BY <1>1, <1>3, <1>4, Zenon DEF GetState, GetInv, GetClient, Answered
<1> QED
  BY <1>1, <1>7, <1>8, <1>9, SameFile, Zenon DEF GetState, GetInv, SrvInv

(* What TftpHandler() computes for a data packet.                           *)
First == TftpState \in {"SEND_RRQ", "OACK"}
WrapFor(block) == IF First THEN 0
                  ELSE IF Wrapped(block) THEN TftpBlockWrap + 1 ELSE TftpBlockWrap
LastSeen == IF First THEN 0 ELSE TftpLastBlock

(* A block that may arrive now is the one stored last, or is stored where   *)
(* it belongs.                                                              *)
LEMMA DataBlock ==
  ASSUME GetState, net_state = "CONTINUE", NEW n \in 1 .. Blocks,
         First => Seq16(n) = 1, Wraps => n \in IF First THEN {1} ELSE {abs, abs + 1}
  PROVE  /\ WrapFor(Seq16(n)) \in Nat /\ Seq16(n) \in 0 .. SequenceSize - 1
         /\ (WrapFor(Seq16(n)) * SequenceSize) + Seq16(n) = n
         /\ ~Wraps => WrapFor(Seq16(n)) = 0
         /\ IF Seq16(n) # LastSeen THEN Offset(Seq16(n), WrapFor(Seq16(n))) = n - 1
            ELSE InMem(n)
<1>1. /\ Blocks \in Nat /\ SequenceSize \in Nat /\ SequenceSize > 2 /\ n \in Nat
      /\ abs \in Nat
  BY FileBlocks, TftpAssumption DEF GetState, GetInv, GetClient
<1>2. Seq16(n) \in 0 .. SequenceSize - 1 /\ (n < SequenceSize => Seq16(n) = n)
  BY <1>1, SmallSeq16, Zenon
<1>3. ~Wraps => n < SequenceSize
  BY <1>1 DEF Wraps
<1>4. Wraps => IF First THEN n = 1 ELSE n = abs \/ n = abs + 1
  BY Zenon
<1>5. 0 * SequenceSize = 0
  BY <1>1
<1>6. CASE First
  <2>1. n = 1
    <3>1. CASE Wraps
      BY <1>1, <1>4, <1>6, <3>1
    <3>2. CASE ~Wraps
      BY <1>2, <1>3, <1>6, <3>2, Zenon
    <3> QED
      BY <3>1, <3>2, Zenon
  <2>2. Offset(1, 0) = 0
    BY <1>5 DEF Offset
  <2> QED
    BY <1>2, <1>5, <1>6, <2>1, <2>2 DEF WrapFor, LastSeen
<1>7. CASE ~First
  <2>1. /\ TftpBlockWrap \in Nat /\ TftpLastBlock \in 0 .. SequenceSize - 1
        /\ LastStored \in 1 .. Blocks /\ InMem(LastStored)
        /\ IF Wraps THEN LastStored = abs ELSE TftpBlockWrap = 0
    BY <1>7, Zenon DEF GetState, GetInv, GetClient, First
  <2>2. LastSeen = TftpLastBlock
    BY <1>7, Zenon DEF LastSeen
  <2>3. CASE n = LastStored
    <3>1. Seq16(n) = TftpLastBlock
      <4>1. Seq16(LastStored) = TftpLastBlock
        BY <2>1, NextBlock DEF LastStored
      <4> QED
        BY <2>3, <4>1, Zenon
    <3>2. WrapFor(Seq16(n)) = TftpBlockWrap
      BY <1>7, <3>1, Zenon DEF WrapFor, Wrapped
    <3> QED
      BY <2>1, <2>2, <2>3, <3>1, <3>2, Zenon DEF LastStored
  <2>4. CASE n # LastStored /\ Wraps
    <3>1. n = LastStored + 1
      BY <1>1, <1>4, <1>7, <2>1, <2>4
    <3>2. WrapFor(Seq16(n)) = IF Seq16(n) = 0 /\ TftpLastBlock # 0
                              THEN TftpBlockWrap + 1 ELSE TftpBlockWrap
      BY <1>7, Zenon DEF WrapFor, Wrapped
    <3>3. LET b == Seq16(LastStored + 1)
              v == IF b = 0 /\ TftpLastBlock # 0 THEN TftpBlockWrap + 1 ELSE TftpBlockWrap
          IN  /\ b # TftpLastBlock /\ v \in Nat
              /\ Offset(b, v) = LastStored
              /\ (v * SequenceSize) + b = LastStored + 1
      BY <2>1, NextBlock DEF LastStored
    <3> DEFINE v == WrapFor(Seq16(n))
    <3>4. /\ Seq16(n) # TftpLastBlock /\ v \in Nat
          /\ Offset(Seq16(n), v) = LastStored
          /\ (v * SequenceSize) + Seq16(n) = n
      BY <3>1, <3>2, <3>3, Zenon
    <3>5. LastStored = n - 1
      BY <1>1, <2>1, <3>1
    <3> HIDE DEF v
    <3> QED
      BY <1>2, <2>2, <2>4, <3>4, <3>5, Zenon DEF v
  <2>5. CASE n # LastStored /\ ~Wraps
    <3>1. Seq16(n) = n /\ TftpBlockWrap = 0 /\ LastStored = TftpLastBlock
      BY <1>1, <1>2, <1>3, <1>5, <2>1, <2>5 DEF LastStored
    <3>2. WrapFor(Seq16(n)) = 0
      BY <1>1, <1>7, <3>1 DEF WrapFor, Wrapped
    <3>3. Offset(n, 0) = n - 1 /\ (0 * SequenceSize) + n = n
      BY <1>1, <1>5 DEF Offset
    <3> QED
      BY <1>2, <2>2, <2>5, <3>1, <3>2, <3>3
  <2> QED
    BY <2>3, <2>4, <2>5, Zenon
<1> QED
  BY <1>6, <1>7, Zenon

(* A data packet.                                                           *)
LEMMA GetData ==
  ASSUME GetState, NEW p \in toClient, HandleData(p), ~late'
  PROVE  SrvInv' /\ GetInv'
<1> DEFINE n == p.n
           t == p.tid
           block == Seq16(n)
           wrap == WrapFor(block)
           fresh == block # LastSeen /\ (First => block = 1)
<1>1. /\ UNCHANGED <<TftpWriting, len, srv>> /\ net_state = "CONTINUE"
      /\ toClient' \subseteq toClient /\ p.type = "DATA"
      /\ abs' = n /\ TftpState' = "DATA" /\ TftpRemotePort' = t
      /\ TftpBlockWrap' = wrap /\ TftpLastBlock' = IF fresh THEN block ELSE LastSeen
      /\ IF ~fresh THEN UNCHANGED <<mem, NetBootFileXferSize, toServer>>
         ELSE /\ mem' = [mem EXCEPT ![Offset(block, wrap)] = p.holds]
              /\ NetBootFileXferSize' = NewSize(block, wrap, p.size)
              /\ TftpSend("DATA", t, block, wrap, n)
      /\ IF First /\ block # 1 THEN NetStartAgain
         ELSE net_state' = IF fresh /\ p.size < BlkSize THEN "SUCCESS" ELSE net_state
  BY Zenon DEF HandleData, Receive, First, WrapFor, LastSeen
<1>2. Wraps => n \in IF First THEN {1} ELSE {abs, abs + 1}
  BY Zenon DEF HandleData, First
<1>3. /\ Answered(t) /\ t \in Tids /\ n \in 1 .. srv[t].n /\ p = FileBlock(t, n)
      /\ srv[t].n \in Nat /\ srv[t].n <= Blocks /\ Blocks \in Nat /\ len \in Nat
      /\ abs \in Nat /\ p.holds = n /\ p.size = BlockLen(n)
      /\ \A m \in 1 .. n - 1 : InMem(m)
  <2>1. Answered(t) /\ n \in 1 .. srv[t].n /\ p = FileBlock(t, n)
    BY <1>1 DEF GetState, GetInv, GetPackets
  <2>2. /\ t \in Tids /\ srv[t].n \in Nat /\ srv[t].n <= Blocks /\ Blocks \in Nat
        /\ len \in Nat /\ abs \in Nat
    BY <2>1, FileBlocks, Zenon DEF GetState, GetInv, GetServer, SrvInv, GetClient, Answered
  <2>3. p.holds = n /\ p.size = BlockLen(n)
    BY <2>1 DEF FileBlock
  <2>4. \A m \in 1 .. srv[t].n - 1 : InMem(m)
    BY <2>2, Zenon DEF GetState, GetInv, GetServer
  <2> QED
    BY <2>1, <2>2, <2>3, <2>4
<1>4. n \in Nat /\ n \in 1 .. Blocks /\ n <= srv[t].n
  BY SMTT(30), <1>3
<1> HIDE DEF n, t
<1>5. \A u : Answered(u)' = Answered(u)
  BY <1>1, Zenon DEF Answered
<1>6. /\ Blocks' = Blocks /\ (Wraps' <=> Wraps) /\ MemIdx' = MemIdx
      /\ \A u, m : FileBlock(u, m)' = FileBlock(u, m)
  BY <1>1, SameFile, Zenon
<1>7. SrvInv'
  BY <1>1, Zenon DEF GetState, SrvInv
<1>8. CASE First /\ block # 1
  <2>1. /\ UNCHANGED <<mem, NetBootFileXferSize, toServer>>
        /\ net_state' \in {"FAIL", "RESTART"}
    BY <1>1, <1>8, Zenon DEF NetStartAgain
  <2>2. GetPackets'
    BY <1>1, <1>5, <1>6, <2>1, Zenon DEF GetState, GetInv, GetPackets, InMem
  <2>3. GetServer'
    BY <1>1, <1>6, <2>1, Zenon DEF GetState, GetInv, GetServer, InMem
  <2>4. GetClient'
    BY <1>1, <1>3, <1>4, <1>5, <2>1, Zenon DEF GetState, GetInv, GetClient, Answered
  <2> QED
    BY <1>6, <1>7, <2>1, <2>2, <2>3, <2>4, Zenon DEF GetState, GetInv
<1>9. CASE First => block = 1
  <2>1. /\ wrap \in Nat /\ block \in 0 .. SequenceSize - 1
        /\ (wrap * SequenceSize) + block = n
        /\ ~Wraps => wrap = 0
        /\ IF block # LastSeen THEN Offset(block, wrap) = n - 1 ELSE InMem(n)
    BY SMTT(30), <1>1, <1>2, <1>3, <1>4, <1>9, DataBlock
  <2>2. TftpLastBlock' = block /\ LastStored' = n
    BY <1>1, <1>9, <2>1, Zenon DEF LastStored
  <2>3. fresh <=> block # LastSeen
    BY <1>9, Zenon
  <2> HIDE DEF block, wrap, fresh
  <2>4. n - 1 \in MemIdx /\ DOMAIN mem = MemIdx
    BY <1>4, FileBlocks, Zenon DEF GetState, GetInv
  <2>5. DOMAIN mem' = MemIdx' /\ InMem(n)' /\ \A m \in Int : InMem(m) => InMem(m)'
    <3>1. CASE fresh
      <4>1. mem' = [mem EXCEPT ![n - 1] = n]
        BY <1>1, <1>3, <2>1, <2>3, <3>1, Zenon
      <4>2. \A m \in Int : m # n => m - 1 # n - 1
        BY <1>4
      <4>3. \A m : InMem(m)' = (mem'[m - 1] = m)
        BY Zenon  DEF InMem
      <4> QED
        BY SMTT(30), <1>4, <1>6, <2>4, <4>1, <4>2 DEF InMem
    <3>2. CASE ~fresh
      BY <1>1, <1>6, <2>1, <2>3, <2>4, <3>2, Zenon DEF InMem
    <3> QED
      BY <3>1, <3>2, Zenon
  <2>6. \A m \in 1 .. n : InMem(m)'
    BY <1>3, <1>4, <2>5
  <2>7. NetBootFileXferSize' \in 0 .. len
        /\ (fresh /\ p.size < BlkSize => n = Blocks /\ NetBootFileXferSize' = len)
    <3>1. NetBootFileXferSize \in 0 .. len
      BY Zenon DEF GetState, GetInv, GetClient
    <3>2. /\ BlockLen(n) \in Nat /\ (n - 1) * BlkSize + BlockLen(n) <= len
          /\ (BlockLen(n) < BlkSize => n = Blocks /\ (n - 1) * BlkSize + BlockLen(n) = len)
      BY <1>4, FileBlocks, Zenon DEF GetState, Final
    <3>3. CASE fresh
      <4>1. NetBootFileXferSize' =
              LET s == ((n - 1) * BlkSize) + BlockLen(n)
              IN  IF NetBootFileXferSize < s THEN s ELSE NetBootFileXferSize
        BY <1>1, <1>3, <2>1, <2>3, <3>3, Zenon DEF NewSize
      <4> QED
        BY SMTT(30), <1>3, <1>4, <3>1, <3>2, <4>1 DEF BlkSize
    <3>4. CASE ~fresh
      BY <1>1, <3>1, <3>4, Zenon
    <3> QED
      BY <3>3, <3>4, Zenon
  <2>8. net_state' = "SUCCESS" => Loaded'
    BY <1>1, <1>6, <1>9, <2>6, <2>7, Zenon DEF Loaded, block
  <2>9. GetClient'
    BY <1>1, <1>3, <1>4, <1>5, <1>6, <2>1, <2>2, <2>5, <2>6, <2>7, Zenon DEF GetClient, Answered
  <2>10. GetServer'
    <3> SUFFICES ASSUME NEW u \in Tids
                 PROVE  \A m \in 1 .. srv[u].n - 1 : InMem(m)'
      BY <1>1, <1>6, Zenon DEF GetState, GetInv, GetServer
    <3>1. srv[u].n \in Nat /\ \A m \in 1 .. srv[u].n - 1 : InMem(m)
      BY Zenon  DEF GetState, GetInv, GetServer, SrvInv
    <3> QED
      BY SMTT(30), <2>5, <3>1
  <2>11. toServer' \subseteq toServer \cup {[type |-> "ACK", tid |-> t, n |-> n]}
    BY <1>1, Zenon DEF TftpSend, GetState
  <2>12. GetPackets'
    <3>1. ASSUME NEW x \in toServer'
          PROVE  \/ x = [type |-> "REQ"]
                 \/ /\ x = [type |-> "ACK", tid |-> x.tid, n |-> x.n]
                    /\ Answered(x.tid) /\ x.n \in Nat
                    /\ \A m \in 1 .. x.n : InMem(m)'
      <4>1. CASE x \in toServer
        BY SMTT(30), <2>5, <4>1 DEF GetState, GetInv, GetPackets
      <4>2. CASE x = [type |-> "ACK", tid |-> t, n |-> n]
        BY <1>3, <1>4, <2>6, <4>2, Zenon
      <4> QED
        BY <2>11, <3>1, <4>1, <4>2, Zenon
    <3> QED
      BY <1>1, <1>5, <1>6, <3>1, Zenon DEF GetState, GetInv, GetPackets
  <2> QED
    BY <1>7, <2>5, <2>8, <2>9, <2>10, <2>12, Zenon DEF GetInv
<1> QED
  BY <1>8, <1>9, Zenon

-----------------------------------------------------------------------------
(* The steps of a put *)

PutState == len \in Nat /\ TftpWriting /\ SrvInv /\ PutInv
putVars == <<TftpState, TftpRemotePort, TftpBlock, TftpLastBlock, TftpBlockWrap,
             TftpFinalBlock, abs>>

(* The block of the file that is sent without a wrap-around.                *)
LEMMA PutBlock ==
  ASSUME NEW b \in Nat
  PROVE  load_block(b, 0) = b
<1>1. 0 * SequenceSize = 0
  BY SMTT(30), TftpAssumption
<1> QED
  BY <1>1 DEF load_block

(* A block that is taken for the last one is the last one, if the numbers   *)
(* do not wrap around; if they do none is.                                  *)
LEMMA LastBlock ==
  ASSUME len \in Nat, NEW n \in Nat, Final(Seq16(n))
  PROVE  ~Wraps /\ (n <= Blocks + 1 => n = Blocks)
<1>1. Seq16(n) = Blocks /\ Blocks \in Nat \ {0} /\ SequenceSize \in Nat /\ SequenceSize > 2
  BY FileBlocks, TftpAssumption, Zenon
<1>2. Seq16(n) \in 0 .. SequenceSize - 1 /\ (n < SequenceSize => Seq16(n) = n)
  BY SmallSeq16, Zenon
<1>3. Seq16(SequenceSize) = 0
  BY SMTT(30), <1>1 DEF Seq16
<1>4. ~Wraps
  BY <1>1, <1>2 DEF Wraps
<1>5. ASSUME n <= Blocks + 1
      PROVE  n = Blocks
  <2>1. n < SequenceSize \/ n = SequenceSize
    BY <1>1, <1>2, <1>5
  <2> QED
    BY <1>1, <1>2, <1>3, <2>1, Zenon
<1> QED
  BY <1>4, <1>5, Zenon

(* The server and the packets when the client sends its request or a block, *)
(* or nothing.                                                              *)
LEMMA PutSends ==
  ASSUME PutState, UNCHANGED <<len, srv>>, toClient' \subseteq toClient,
         NEW x, x = [type |-> "REQ"] \/ BlockSent(x), toServer' \subseteq toServer \cup {x}
  PROVE  SrvInv' /\ PutPackets'
<1>1. \A u : Answered(u)' = Answered(u)
  BY Zenon DEF Answered
<1>2. \A n : BlockLen(n)' = BlockLen(n)
  BY SameFile, Zenon
<1>3. \A p : BlockSent(p)' = BlockSent(p)
  BY <1>1, <1>2, Zenon DEF BlockSent, Seq16
<1>4. \A p \in toServer' : p = [type |-> "REQ"] \/ BlockSent(p)
  BY Zenon DEF PutState, PutInv, PutPackets
<1> QED
  BY <1>1, <1>3, <1>4, Zenon DEF PutState, PutInv, PutPackets, SrvInv, Ack

(* A step of which client and server keep nothing: a packet is dropped, the *)
(* transfer fails or is to begin again.                                     *)
LEMMA PutIdle ==
  ASSUME PutState, UNCHANGED <<TftpWriting, len, srv, toServer>>, UNCHANGED putVars,
         toClient' \subseteq toClient,
         net_state' = net_state \/ net_state' \in {"FAIL", "RESTART"}
  PROVE  SrvInv' /\ PutInv'
<1>1. UNCHANGED <<TftpState, TftpRemotePort, TftpBlock, TftpLastBlock, TftpBlockWrap,
                  TftpFinalBlock, abs>>
  BY Zenon DEF putVars
<1>2. Blocks' = Blocks /\ (Wraps' <=> Wraps)
  BY SameFile, Zenon
<1>3. SrvInv' /\ PutPackets'
  BY PutSends, Zenon
<1>4. PutClient'
  BY <1>1, Zenon DEF PutState, PutInv, PutClient, Answered, Seq16
<1>5. PutTurn'
  BY <1>1, <1>2, Zenon DEF PutState, PutInv, PutTurn
<1>6. (net_state = "SUCCESS" => Stored(TftpRemotePort))'
  BY <1>1, <1>2, Zenon DEF PutState, PutInv, Stored
<1> QED
  BY <1>3, <1>4, <1>5, <1>6, Zenon DEF PutInv

(* NetLoop() begins again, on the same port or on another one.              *)
LEMMA PutRestart ==
  ASSUME PutState, Restart
  PROVE  SrvInv' /\ PutInv'
<1>1. /\ TftpState' = "SEND_WRQ" /\ abs' = 0 /\ TftpBlock' = 0 /\ TftpLastBlock' = 0
      /\ TftpBlockWrap' = 0 /\ TftpFinalBlock' = FALSE
      /\ net_state' = "CONTINUE" /\ len' = len
  BY Zenon DEF Restart, TftpStart, PutState
<1>2. Seq16(0) = 0
  BY SmallSeq16, TftpAssumption
<1>3. Blocks' = Blocks /\ (Wraps' <=> Wraps) /\ Blocks \in Nat \ {0}
  BY <1>1, SameFile, FileBlocks, Zenon DEF PutState
<1>4. PutClient'
  BY <1>1, <1>2 DEF PutClient, Seq16
<1>5. 0 <= Blocks + 1 /\ 0 <= Blocks
  BY <1>3
<1>6. CASE /\ toServer' = toServer \cup {[type |-> "REQ"]}
           /\ UNCHANGED <<toClient, srv>>
  <2>1. SrvInv' /\ PutPackets'
    BY <1>1, <1>6, PutSends, Zenon
  <2>2. PutTurn'
    BY <1>1, <1>3, <1>5, <1>6, Zenon DEF PutState, PutInv, PutTurn
  <2> QED
    BY <1>1, <1>4, <2>1, <2>2, Zenon DEF PutInv
<1>7. CASE toServer' = {[type |-> "REQ"]} /\ toClient' = {} /\ srv' = NoTransfers
  <2>1. SrvInv'
    BY <1>7, Zenon DEF SrvInv, NoTransfers
  <2>2. PutPackets'
    BY <1>7, Zenon DEF PutPackets
  <2>3. PutTurn'
    BY <1>1, <1>3, <1>5, <1>7, Zenon DEF PutTurn, NoTransfers
  <2> QED
    BY <1>1, <1>4, <2>1, <2>2, <2>3, Zenon DEF PutInv
<1> QED
  BY <1>6, <1>7, Zenon DEF Restart, TftpStart

(* A timeout: the last packet is sent again, or the transfer begun again.   *)
LEMMA PutTimeout ==
  ASSUME PutState, TftpTimeout
  PROVE  SrvInv' /\ PutInv'
<1>1. /\ UNCHANGED <<TftpWriting, len, toClient, srv, TftpState, TftpRemotePort, TftpBlock,
                     TftpLastBlock, TftpBlockWrap, abs>>
      /\ net_state = "CONTINUE"
  BY Zenon DEF TftpTimeout
<1>2. CASE NetStartAgain /\ UNCHANGED <<toServer, TftpFinalBlock>>
  <2>1. net_state' \in {"FAIL", "RESTART"}
    BY <1>2, Zenon DEF NetStartAgain
  <2> QED
    BY <1>1, <1>2, <2>1, PutIdle, Zenon DEF putVars
<1>3. CASE ~(NetStartAgain /\ UNCHANGED <<toServer, TftpFinalBlock>>)
  <2>1. /\ net_state' = net_state
        /\ TftpSend(TftpState, TftpRemotePort, TftpBlock, TftpBlockWrap, abs)
        /\ TftpFinalBlock' = IF TftpState = "DATA"
                             THEN Final(load_block(TftpBlock, TftpBlockWrap))
                             ELSE TftpFinalBlock
    BY <1>3, Zenon DEF TftpTimeout, PutState
  <2>2. /\ TftpState \in {"SEND_WRQ", "DATA"} /\ abs \in Nat /\ TftpBlockWrap = 0
        /\ TftpBlock = Seq16(abs) /\ (TftpState = "DATA" => Answered(TftpRemotePort))
    BY Zenon DEF PutState, PutInv, PutClient
  <2>3. load_block(TftpBlock, TftpBlockWrap) = Seq16(abs)
    <3>1. Seq16(abs) \in Nat
      BY <2>2, SmallSeq16
    <3> QED
      BY <2>2, <3>1, PutBlock, Zenon
  <2> DEFINE x == IF TftpState = "SEND_WRQ" THEN [type |-> "REQ"]
                  ELSE [type |-> "DATA", tid |-> TftpRemotePort, n |-> abs,
                        holds |-> Seq16(abs), size |-> BlockLen(Seq16(abs))]
  <2>4. toServer' = toServer \cup {x}
    BY <2>1, <2>2, <2>3, Zenon DEF TftpSend, PutState
  <2>5. x = [type |-> "REQ"] \/ BlockSent(x)
    BY <2>2, Zenon DEF BlockSent
  <2> HIDE DEF x
  <2>6. SrvInv' /\ PutPackets'
    BY <1>1, <2>4, <2>5, PutSends, Zenon
  <2>7. PutClient'
    BY <1>1, <2>1, <2>2, Zenon DEF PutState, PutInv, PutClient, Answered, Seq16
  <2>8. PutTurn'
    <3>1. TftpFinalBlock' => TftpFinalBlock \/ Final(Seq16(abs))
      BY <2>1, <2>3, Zenon
    <3> QED
      BY <1>1, <2>2, <3>1, LastBlock, SameFile, Zenon DEF PutState, PutInv, PutTurn
  <2> QED
    BY <1>1, <2>1, <2>6, <2>7, <2>8, Zenon DEF PutInv
<1> QED
  BY <1>2, <1>3, Zenon

(* The server answers a request, or sends its last packet again.            *)
LEMMA PutAnswer ==
  ASSUME PutState, net_state = "CONTINUE", NEW t \in Tids,
         (\E a \in {"options", "plain"} : ServerRequest(t, a)) \/ ServerAgain(t)
  PROVE  SrvInv' /\ PutInv'
<1>1. /\ UNCHANGED <<TftpWriting, len, net_state, TftpState, TftpRemotePort, TftpBlock,
                     TftpLastBlock, TftpBlockWrap, TftpFinalBlock, abs>>
      /\ toServer' \subseteq toServer
      /\ toClient' = toClient \cup {LastSent(srv', t)}
  BY Zenon  DEF ServerRequest, ServerAgain, client
<1>2. /\ DOMAIN srv' = Tids
      /\ \A u \in Tids : /\ srv'[u].n = srv[u].n /\ srv'[u].good = srv[u].good
                         /\ u # t => srv'[u] = srv[u]
      /\ srv'[t] = [answer |-> srv'[t].answer, n |-> srv[t].n, good |-> srv[t].good]
      /\ srv'[t].answer \in {"options", "plain"}
  <2>1. \A u \in Tids : srv[u] \in [answer : {"none", "options", "plain"}, n : Nat,
                                    good : BOOLEAN]
    BY Zenon  DEF PutState, SrvInv
  <2>2. CASE ServerAgain(t)
    <3>1. srv' = srv /\ srv[t].answer # "none"
      BY <2>2, Zenon DEF ServerAgain
    <3> QED
      BY <2>1, <3>1, Zenon DEF PutState, SrvInv
  <2>3. ASSUME NEW a \in {"options", "plain"}, ServerRequest(t, a)
        PROVE  /\ DOMAIN srv' = Tids
               /\ \A u \in Tids : /\ srv'[u].n = srv[u].n /\ srv'[u].good = srv[u].good
                                  /\ u # t => srv'[u] = srv[u]
               /\ srv'[t] = [answer |-> a, n |-> srv[t].n, good |-> srv[t].good]
    <3>1. srv' = [srv EXCEPT ![t].answer = a, ![t].n = 0] /\ srv[t].n = 0
      BY <2>3, Zenon DEF ServerRequest, PutState, SrvInv
    <3> QED
      BY Zenon, <2>1, <3>1 DEF PutState, SrvInv
  <2> QED
    BY <2>2, <2>3
<1>3. SrvInv'
  BY <1>2 DEF PutState, SrvInv
<1>4. Answered(t)' /\ \A u : Answered(u) => Answered(u)'
  BY <1>2, Zenon DEF Answered
<1>5. /\ Blocks' = Blocks /\ (Wraps' <=> Wraps) /\ \A n : BlockLen(n)' = BlockLen(n)
  BY <1>1, SameFile, Zenon
<1>6. LastSent(srv', t) \in {[type |-> "OACK", tid |-> t], Ack(t, srv'[t].n)}
  BY Zenon  DEF LastSent, PutState
<1>7. PutPackets'
  <2>1. ASSUME NEW p \in toClient'
        PROVE  /\ Answered(p.tid)'
               /\ \/ p = [type |-> "OACK", tid |-> p.tid]
                  \/ p.n \in 0 .. srv'[p.tid].n /\ p = Ack(p.tid, p.n)
    <3>1. CASE p \in toClient
      BY <1>2, <1>4, <3>1, Zenon DEF PutState, PutInv, PutPackets, Answered
    <3>2. CASE p = [type |-> "OACK", tid |-> t]
      BY <1>4, <3>2, Zenon
    <3>3. CASE p = Ack(t, srv'[t].n)
      <4>1. p.tid = t /\ p.n = srv'[t].n /\ srv'[t].n \in Nat
        <5>1. p.tid = t /\ p.n = srv'[t].n
          BY <3>3, Zenon DEF Ack
        <5>2. srv'[t].n \in Nat
          BY <1>3, Zenon DEF SrvInv
        <5> QED
          BY <5>1, <5>2, Zenon
      <4>2. p.n \in 0 .. p.n
        BY SMTT(30), <4>1
      <4> QED
        BY <1>4, <3>3, <4>1, <4>2, Zenon
    <3> QED
      BY <1>1, <1>6, <2>1, <3>1, <3>2, <3>3, Zenon
  <2> QED
    BY <1>1, <1>4, <1>5, <2>1, Zenon DEF PutState, PutInv, PutPackets, BlockSent, Ack, Seq16
<1>8. PutClient'
  <2>1. PutClient
    BY Zenon DEF PutState, PutInv
  <2> QED
    BY <1>1, <1>2, <1>4, <2>1, Zenon DEF PutClient, Answered, Seq16
<1>9. PutTurn'
  BY <1>1, <1>2, <1>5, Zenon DEF PutState, PutInv, PutTurn
<1> QED
  BY <1>1, <1>3, <1>7, <1>8, <1>9, Zenon DEF PutInv

(* The server takes a block that is due and acknowledges it, or the last    *)
(* one again.  Without a wrap-around the number of the block that is due is *)
(* that of no other block of the file.                                      *)
LEMMA PutData ==
  ASSUME PutState, net_state = "CONTINUE", NEW p \in toServer, ServerData(p)
  PROVE  SrvInv' /\ PutInv'
<1> DEFINE t == p.tid
           due == srv[t].n + 1
<1>1. /\ UNCHANGED <<TftpWriting, len, net_state, TftpState, TftpRemotePort, TftpBlock,
                     TftpLastBlock, TftpBlockWrap, TftpFinalBlock, abs>>
      /\ toServer' \subseteq toServer /\ p.type = "DATA"
      /\ toClient' = toClient \cup {Ack(t, srv'[t].n)}
  BY Zenon DEF ServerData, client
<1>2. Answered(t) /\ p.n \in Nat /\ p.holds = Seq16(p.n) /\ p.size = BlockLen(p.holds)
  BY SMTT(30), <1>1 DEF PutState, PutInv, PutPackets, BlockSent
<1>3. t \in Tids /\ srv[t].n \in Nat /\ due \in Nat
  BY <1>2 DEF PutState, SrvInv, Answered
<1>4. /\ Blocks' = Blocks /\ (Wraps' <=> Wraps) /\ \A n : BlockLen(n)' = BlockLen(n)
      /\ Blocks \in Nat \ {0} /\ SequenceSize \in Nat /\ SequenceSize > 2
  BY <1>1, SameFile, FileBlocks, TftpAssumption, Zenon DEF PutState
<1>5. /\ DOMAIN srv' = Tids /\ srv'[t].answer = srv[t].answer
      /\ srv'[t] \in [answer : {"none", "options", "plain"}, n : Nat, good : BOOLEAN]
      /\ \A u \in Tids : u # t => srv'[u] = srv[u]
      /\ \/ srv'[t] = srv[t]
         \/ /\ ~Stored(t) /\ Seq16(p.n) = Seq16(due) /\ srv'[t].n = due
            /\ srv'[t].good = (srv[t].good /\ p.holds = due /\ p.size = BlockLen(due))
  <2>1. srv[t] \in [answer : {"none", "options", "plain"}, n : Nat, good : BOOLEAN]
    BY <1>3, Zenon DEF PutState, SrvInv
  <2>2. CASE srv' = srv
    BY <2>1, <2>2, Zenon DEF PutState, SrvInv
  <2>3. CASE srv' # srv
    <3>1. /\ ~Stored(t) /\ Seq16(p.n) = Seq16(due)
          /\ srv' = [srv EXCEPT ![t].n = due,
                      ![t].good = @ /\ p.holds = due /\ p.size = BlockLen(due)]
      BY <2>3, Zenon DEF ServerData
    <3> DEFINE g == srv[t].good /\ p.holds = due /\ p.size = BlockLen(due)
    <3>2. srv'[t] = [answer |-> srv[t].answer, n |-> due, good |-> g]
      BY <1>3, <2>1, <3>1, Zenon DEF PutState, SrvInv
    <3>3. g \in BOOLEAN
      OBVIOUS
    <3> HIDE DEF g
    <3>4. /\ srv'[t].answer = srv[t].answer /\ srv'[t].n = due /\ srv'[t].good = g
          /\ srv'[t] \in [answer : {"none", "options", "plain"}, n : Nat, good : BOOLEAN]
      BY <1>3, <2>1, <3>2, <3>3
    <3>5. DOMAIN srv' = Tids /\ \A u \in Tids : u # t => srv'[u] = srv[u]
      BY <3>1, Zenon DEF PutState, SrvInv
    <3> QED
      BY <3>1, <3>4, <3>5, Zenon DEF g
  <2> QED
    BY <2>2, <2>3, Zenon
<1> HIDE DEF t, due
<1>6. SrvInv'
  BY <1>2, <1>3, <1>5, Zenon DEF PutState, SrvInv, Answered
<1>7. \A u : Answered(u) => Answered(u)'
  BY <1>5, Zenon DEF Answered
<1>8. \A u \in Tids : srv'[u].n \in Nat /\ srv[u].n \in Nat /\ srv[u].n <= srv'[u].n
  BY <1>3, <1>5 DEF PutState, SrvInv, due
<1>9. PutPackets'
  <2>1. ASSUME NEW x \in toClient'
        PROVE  /\ Answered(x.tid)'
               /\ \/ x = [type |-> "OACK", tid |-> x.tid]
                  \/ x.n \in 0 .. srv'[x.tid].n /\ x = Ack(x.tid, x.n)
    <3>1. CASE x \in toClient
      <4>1. /\ Answered(x.tid)
            /\ \/ x = [type |-> "OACK", tid |-> x.tid]
               \/ x.n \in 0 .. srv[x.tid].n /\ x = Ack(x.tid, x.n)
        BY <3>1, Zenon DEF PutState, PutInv, PutPackets
      <4>2. x.tid \in Tids
        BY <4>1, Zenon DEF Answered
      <4> QED
        BY <1>7, <1>8, <4>1, <4>2
    <3>2. CASE x = Ack(t, srv'[t].n)
      <4>1. x.tid = t /\ x.n = srv'[t].n
        BY <3>2, Zenon DEF Ack
      <4> QED
        BY SMTT(30), <1>2, <1>3, <1>7, <1>8, <3>2, <4>1
    <3> QED
      BY <1>1, <2>1, <3>1, <3>2, Zenon
  <2> QED
    BY <1>1, <1>4, <1>7, <2>1, Zenon DEF PutState, PutInv, PutPackets, BlockSent, Ack, Seq16
<1>10. PutClient'
  BY <1>1, <1>7, Zenon DEF PutState, PutInv, PutClient, Answered, Seq16
<1>11. ASSUME ~Wraps
       PROVE  srv'[t].good /\ srv'[t].n <= Blocks
  <2>1. srv[t].good /\ srv[t].n <= Blocks
    BY <1>3, <1>11, Zenon DEF PutState, PutInv, PutTurn
  <2>2. CASE srv'[t] = srv[t]
    BY <2>1, <2>2, Zenon
  <2>3. CASE srv'[t] # srv[t]
    <3>1. srv[t].n # Blocks
      BY <1>5, <2>1, <2>3, Zenon DEF Stored
    <3>2. due <= Blocks /\ due < SequenceSize
      BY <1>3, <1>4, <1>11, <2>1, <3>1 DEF due, Wraps
    <3>3. p.holds = due
      BY <1>2, <1>3, <1>5, <2>3, <3>2, SmallSeq16, Zenon
    <3> QED
      BY <1>2, <1>5, <2>1, <2>3, <3>2, <3>3, Zenon
  <2> QED
    BY <2>2, <2>3, Zenon
<1>12. PutTurn'
  BY <1>1, <1>4, <1>5, <1>11, Zenon DEF PutState, PutInv, PutTurn
<1> QED
  BY <1>1, <1>6, <1>9, <1>10, <1>12, Zenon DEF PutInv

(* An OACK that answers the request: the first block is sent.               *)
LEMMA PutOack ==
  ASSUME PutState, NEW p \in toClient, HandleOack(p), ~late'
  PROVE  SrvInv' /\ PutInv'
<1> DEFINE n == abs + 1
           x == [type |-> "DATA", tid |-> p.tid, n |-> n, holds |-> Seq16(n),
                 size |-> BlockLen(Seq16(n))]
<1>1. /\ UNCHANGED <<TftpWriting, len, srv, net_state, TftpLastBlock, TftpBlockWrap>>
      /\ TftpState' = "DATA" /\ TftpRemotePort' = p.tid /\ net_state = "CONTINUE"
      /\ toClient' \subseteq toClient /\ abs' = n /\ TftpBlock' = TftpBlock + 1
      /\ TftpSend(TftpState', p.tid, TftpBlock', TftpBlockWrap, abs')
      /\ TftpFinalBlock' = (TftpWriting /\ Final(load_block(TftpBlock', TftpBlockWrap)))
  BY Zenon DEF HandleOack, Receive, PutState
<1>2. TftpState = "SEND_WRQ"
  BY Zenon DEF HandleOack, PutState, PutInv, PutClient
<1>3. /\ abs \in Nat /\ abs <= 1 /\ TftpLastBlock = 0 /\ TftpBlockWrap = 0
      /\ TftpBlock = Seq16(abs) /\ Answered(p.tid)
  BY <1>2, Zenon DEF PutState, PutInv, PutClient, PutPackets
<1>4. /\ Blocks' = Blocks /\ (Wraps' <=> Wraps) /\ Blocks \in Nat \ {0} /\ len \in Nat
  BY <1>1, SameFile, FileBlocks, Zenon DEF PutState
<1>5. n \in Nat /\ n <= Blocks + 1 /\ TftpBlock + 1 = n /\ Seq16(n) = n
  <2>1. SequenceSize \in Nat /\ SequenceSize > 2
    BY TftpAssumption, Zenon
  <2>2. abs < SequenceSize /\ n < SequenceSize /\ n \in Nat /\ n <= Blocks + 1
    BY <1>3, <1>4, <2>1
  <2> QED
    BY <1>3, <2>2, SmallSeq16, Zenon
<1>6. load_block(TftpBlock', TftpBlockWrap) = Seq16(n)
  BY <1>1, <1>3, <1>5, PutBlock, Zenon
<1> HIDE DEF n
<1>7. toServer' = toServer \cup {x}
  BY <1>1, <1>6 DEF TftpSend, PutState
<1>8. BlockSent(x)
  BY <1>3, <1>5, Zenon DEF BlockSent
<1> HIDE DEF x
<1>9. SrvInv' /\ PutPackets'
  BY <1>1, <1>7, <1>8, PutSends, Zenon
<1>10. PutClient'
  BY <1>1, <1>3, <1>5, Zenon DEF PutClient, Answered, Seq16
<1>11. PutTurn'
  <2>1. TftpFinalBlock' => Final(Seq16(n))
    BY <1>1, <1>6, Zenon
  <2> QED
    BY <1>1, <1>4, <1>5, <2>1, LastBlock, Zenon DEF PutState, PutInv, PutTurn
<1> QED
  BY <1>1, <1>9, <1>10, <1>11, Zenon DEF PutInv

(* An acknowledgement of what was just sent: the next block is sent, or the *)
(* request again, or the transfer is done.                                  *)
LEMMA PutAck ==
  ASSUME PutState, NEW p \in toClient, HandleAck(p), ~late'
  PROVE  SrvInv' /\ PutInv'
<1> DEFINE n == p.n + 1
<1>1. /\ UNCHANGED <<TftpWriting, len, srv>> /\ net_state = "CONTINUE"
      /\ toClient' \subseteq toClient /\ p.type = "ACK" /\ Accepts(p.tid)
      /\ p.n = IF TftpState = "DATA" THEN abs ELSE 0
  BY Zenon DEF HandleAck, Receive
<1>2. /\ TftpState \in {"SEND_WRQ", "DATA"} /\ abs \in Nat
      /\ TftpLastBlock = 0 /\ TftpBlockWrap = 0
      /\ TftpBlock = Seq16(abs) /\ (TftpState = "DATA" => Answered(TftpRemotePort))
      /\ (TftpState = "SEND_WRQ" => abs <= 1 /\ ~TftpFinalBlock)
  BY Zenon DEF PutState, PutInv, PutClient
<1>3. Answered(p.tid) /\ p.n \in 0 .. srv[p.tid].n
  BY <1>1 DEF PutState, PutInv, PutPackets
<1>4. /\ Blocks' = Blocks /\ (Wraps' <=> Wraps) /\ Blocks \in Nat \ {0} /\ len \in Nat
  BY <1>1, SameFile, FileBlocks, Zenon DEF PutState
<1>5. /\ p.tid \in Tids /\ srv[p.tid].n \in Nat /\ p.n \in Nat /\ n \in Nat
      /\ p.n <= srv[p.tid].n
  <2>1. p.tid \in Tids /\ srv[p.tid].n \in Nat
    BY <1>3, Zenon DEF Answered, PutState, SrvInv
  <2> QED
    BY <1>3, <2>1
<1>6. ~Wraps => /\ n <= Blocks + 1 /\ srv[p.tid].good
                /\ (p.n = Blocks => srv[p.tid].n = Blocks)
  <2>1. ~Wraps => srv[p.tid].good /\ srv[p.tid].n <= Blocks
    BY <1>5, Zenon DEF PutState, PutInv, PutTurn
  <2> QED
    BY <1>4, <1>5, <2>1
<1>7. CASE TftpFinalBlock
  <2>1. /\ UNCHANGED <<TftpState, TftpRemotePort, TftpBlock, TftpLastBlock,
                       TftpBlockWrap, TftpFinalBlock, abs, toServer>>
        /\ net_state' = "SUCCESS"
    BY <1>7, Zenon DEF HandleAck, client
  <2>2. TftpState = "DATA" /\ p.tid = TftpRemotePort
    BY <1>1, <1>2, <1>7, Zenon DEF Accepts
  <2>3. ~Wraps /\ abs = Blocks
    BY <1>7, Zenon DEF PutState, PutInv, PutTurn
  <2>4. Stored(TftpRemotePort)'
    BY <1>1, <1>4, <1>6, <2>1, <2>2, <2>3, Zenon DEF Stored
  <2>5. SrvInv' /\ PutPackets'
    BY <1>1, <2>1, PutSends, Zenon
  <2>6. PutClient'
    BY <1>1, <2>1, Zenon DEF PutState, PutInv, PutClient, Answered, Seq16
  <2>7. PutTurn'
    BY <1>1, <1>4, <2>1, Zenon DEF PutState, PutInv, PutTurn
  <2> QED
    BY <2>4, <2>5, <2>6, <2>7, Zenon DEF PutInv
<1>8. CASE ~TftpFinalBlock
  <2> DEFINE resend == TftpBlock = Seq16(p.n)
  <2>1. Seq16(n) \in Nat /\ ~Wrapped(Seq16(n))
    BY <1>2, <1>5, SmallSeq16 DEF Wrapped
  <2>2. load_block(Seq16(n), TftpBlockWrap) = Seq16(n)
    BY <1>2, <2>1, PutBlock, Zenon
  <2>3. /\ UNCHANGED <<TftpState, TftpRemotePort, TftpLastBlock, TftpBlockWrap, net_state>>
        /\ TftpBlock' = Seq16(n) /\ abs' = n
        /\ IF resend
           THEN /\ TftpSend(TftpState, TftpRemotePort, Seq16(n), TftpBlockWrap, n)
                /\ TftpFinalBlock' = IF TftpState = "DATA"
                                     THEN Final(load_block(Seq16(n), TftpBlockWrap))
                                     ELSE TftpFinalBlock
           ELSE UNCHANGED <<toServer, TftpFinalBlock>>
    BY <1>8, <2>1, Zenon DEF HandleAck
  <2> DEFINE x == IF TftpState = "SEND_WRQ" THEN [type |-> "REQ"]
                  ELSE [type |-> "DATA", tid |-> TftpRemotePort, n |-> n,
                        holds |-> Seq16(n), size |-> BlockLen(Seq16(n))]
  <2> HIDE DEF n, resend
  <2>4. toServer' \subseteq toServer \cup {x}
    BY <1>2, <2>2, <2>3, Zenon DEF TftpSend, PutState
  <2>5. x = [type |-> "REQ"] \/ BlockSent(x)
    BY <1>2, <1>5, Zenon DEF BlockSent
  <2> HIDE DEF x
  <2>6. SrvInv' /\ PutPackets'
    BY <1>1, <2>4, <2>5, PutSends, Zenon
  <2>7. TftpFinalBlock' => TftpState = "DATA" /\ Final(Seq16(n))
    BY <1>2, <1>8, <2>2, <2>3, Zenon
  <2>8. TftpState = "SEND_WRQ" => n <= 1
    BY <1>1 DEF n
  <2>9. PutClient'
    BY <1>1, <1>2, <1>5, <2>3, <2>7, <2>8, Zenon DEF PutClient, Answered, Seq16
  <2>10. PutTurn'
    BY <1>1, <1>4, <1>5, <1>6, <2>3, <2>7, LastBlock, Zenon DEF PutState, PutInv, PutTurn
  <2> QED
    BY <1>1, <2>3, <2>6, <2>9, <2>10, Zenon DEF PutInv
<1> QED
  BY <1>7, <1>8, Zenon

-----------------------------------------------------------------------------
(* The whole transfer *)

(* Once a packet from before was taken for new it stays so, and no step     *)
(* changes what is transferred.                                             *)
LEMMA Keeps ==
  ASSUME [Next]_vars
  PROVE  TftpWriting' = TftpWriting /\ len' = len /\ (~late' => ~late)
<1>1. ASSUME NEW p \in toClient, TftpHandler(p)
      PROVE  TftpWriting' = TftpWriting /\ len' = len /\ (~late' => ~late)
  <2>1. CASE Ignored(p)
    BY <2>1, Zenon DEF Ignored, Receive
  <2>2. CASE HandleOack(p)
    BY <2>2, Zenon DEF HandleOack, Receive
  <2>3. CASE HandleAck(p)
    BY <2>3, Zenon DEF HandleAck, Receive
  <2>4. CASE HandleData(p)
    BY <2>4, Zenon DEF HandleData, Receive
  <2> QED
    BY <1>1, <2>1, <2>2, <2>3, <2>4, Zenon DEF TftpHandler
<1>2. ASSUME NEW t \in Tids, NEW retry \in BOOLEAN, HandleError(t, retry)
      PROVE  TftpWriting' = TftpWriting /\ len' = len /\ (~late' => ~late)
  BY <1>2, Zenon DEF HandleError
<1>3. CASE HandleIcmp
  BY <1>3, Zenon DEF HandleIcmp
<1>4. CASE TftpTimeout
  BY <1>4, Zenon DEF TftpTimeout
<1>5. CASE Restart
  BY <1>5, Zenon DEF Restart
<1>6. CASE Server
  <2>1. ASSUME NEW t \in Tids, NEW a \in {"options", "plain"}, ServerRequest(t, a)
        PROVE  TftpWriting' = TftpWriting /\ len' = len /\ (~late' => ~late)
    BY <2>1, Zenon DEF ServerRequest
  <2>2. ASSUME NEW p \in toServer, ServerAck(p)
        PROVE  TftpWriting' = TftpWriting /\ len' = len /\ (~late' => ~late)
    BY <2>2, Zenon DEF ServerAck
  <2>3. ASSUME NEW p \in toServer, ServerData(p)
        PROVE  TftpWriting' = TftpWriting /\ len' = len /\ (~late' => ~late)
    BY <2>3, Zenon DEF ServerData
  <2>4. ASSUME NEW t \in Tids, ServerAgain(t)
        PROVE  TftpWriting' = TftpWriting /\ len' = len /\ (~late' => ~late)
    BY <2>4, Zenon DEF ServerAgain
  <2> QED
    BY <1>6, <2>1, <2>2, <2>3, <2>4, Zenon DEF Server
<1>7. CASE UNCHANGED vars
  BY <1>7, Zenon DEF vars
<1> QED
  BY <1>1, <1>2, <1>3, <1>4, <1>5, <1>6, <1>7, Zenon DEF Next

(* The beginning of a transfer.                                             *)
LEMMA TftpInitInv ==
  Init => TInv
<1> SUFFICES ASSUME Init PROVE TInv
  OBVIOUS
<1>1. TftpWriting \in BOOLEAN /\ len \in Nat
  BY TftpAssumption, Zenon DEF Init
<1>2. SrvInv
  BY Zenon DEF Init, SrvInv, NoTransfers
<1>3. Blocks \in Nat \ {0} /\ MaxTids \in Nat /\ SequenceSize \in Nat \ {0}
  BY <1>1, FileBlocks, TftpAssumption
<1>4. ~TftpWriting => GetInv
  <2> SUFFICES ASSUME ~TftpWriting PROVE GetInv
    BY Zenon
  <2>1. GetPackets /\ DOMAIN mem = MemIdx
    BY Zenon DEF Init, GetPackets
  <2>2. GetServer
    BY SMTT(30), <1>3 DEF Init, GetServer, NoTransfers
  <2>3. GetClient
    BY SMTT(30), <1>1 DEF Init, GetClient
  <2> QED
    BY <2>1, <2>2, <2>3, Zenon DEF Init, GetInv
<1>5. TftpWriting => PutInv
  <2> SUFFICES ASSUME TftpWriting PROVE PutInv
    BY Zenon
  <2>1. PutPackets
    BY Zenon DEF Init, PutPackets
  <2>2. TftpBlock = Seq16(0)
    BY <1>3, SmallSeq16 DEF Init
  <2>3. PutClient
    BY SMTT(30), <2>2 DEF Init, PutClient
  <2>4. PutTurn
    <3>1. 0 <= Blocks + 1 /\ 0 <= Blocks
      BY <1>3
    <3> QED
      BY <3>1, Zenon DEF Init, PutTurn, NoTransfers
  <2> QED
    BY <2>1, <2>3, <2>4, Zenon DEF Init, PutInv
<1> QED
  BY <1>1, <1>2, <1>4, <1>5, Zenon DEF TInv

(* The steps of a get, together.                                            *)
LEMMA GetStep ==
  ASSUME GetState, [Next]_vars, ~late'
  PROVE  SrvInv' /\ GetInv'
<1>1. ASSUME NEW p \in toClient, TftpHandler(p)
      PROVE  SrvInv' /\ GetInv'
  <2>1. ~HandleAck(p)
    BY Zenon DEF HandleAck, GetState
  <2> QED
    BY <1>1, <2>1, GetIgnored, GetOack, GetData, Zenon DEF TftpHandler
<1>2. ASSUME (\E t \in Tids, retry \in BOOLEAN : HandleError(t, retry)) \/ HandleIcmp
      PROVE  SrvInv' /\ GetInv'
  <2>1. /\ NetStartAgain \/ net_state' = "FAIL"
        /\ UNCHANGED <<TftpWriting, len, TftpState, TftpRemotePort, TftpBlockWrap,
                       TftpLastBlock, NetBootFileXferSize, mem, abs, srv, toServer, toClient>>
    BY <1>2, Zenon DEF HandleError, HandleIcmp, client
  <2> QED
    BY <2>1, GetStops, Zenon
<1>3. CASE TftpTimeout
  BY <1>3, GetTimeout, Zenon
<1>4. CASE Restart
  BY <1>4, GetRestart, Zenon
<1>5. CASE Server
  <2>1. ASSUME NEW p \in toServer
        PROVE  ~ServerData(p)
    <3>1. p.type # "DATA"
      BY SMTT(30) DEF GetState, GetInv, GetPackets
    <3> QED
      BY <3>1, Zenon DEF ServerData
  <2> QED
    BY <1>5, <2>1, GetRequest, GetNextBlock, GetAgain, Zenon DEF Server
<1>6. CASE UNCHANGED vars
  <2>1. UNCHANGED <<TftpWriting, len, client, net_state, srv, toServer, toClient>>
    BY <1>6, Zenon DEF vars
  <2> QED
    BY Zenon, <2>1 DEF GetState, GetInv, SrvInv, GetPackets, GetServer, GetClient, Loaded,
       Answered, InMem, LastStored, Blocks, Wraps, FileBlock, BlockLen, MemIdx,
       client
<1> QED
  BY <1>1, <1>2, <1>3, <1>4, <1>5, <1>6, Zenon DEF Next

(* The steps of a put, together.                                            *)
LEMMA PutStep ==
  ASSUME PutState, [Next]_vars, ~late'
  PROVE  SrvInv' /\ PutInv'
<1>1. ASSUME NEW p \in toClient, TftpHandler(p)
      PROVE  SrvInv' /\ PutInv'
  <2>1. ~HandleData(p)
    BY Zenon DEF HandleData, PutState
  <2>2. CASE Ignored(p)
    <3>1. /\ UNCHANGED <<TftpWriting, len, srv, toServer>> /\ UNCHANGED putVars
          /\ toClient' \subseteq toClient /\ net_state' = net_state
      BY <2>2, Zenon DEF Ignored, Receive, client, putVars
    <3> QED
      BY <3>1, PutIdle, Zenon
  <2> QED
    BY <1>1, <2>1, <2>2, PutOack, PutAck, Zenon DEF TftpHandler
<1>2. ASSUME (\E t \in Tids, retry \in BOOLEAN : HandleError(t, retry)) \/ HandleIcmp
      PROVE  SrvInv' /\ PutInv'
  <2>1. /\ UNCHANGED <<TftpWriting, len, srv, toServer, toClient>> /\ UNCHANGED putVars
        /\ net_state' \in {"FAIL", "RESTART"}
    BY <1>2, Zenon DEF HandleError, HandleIcmp, NetStartAgain, client, putVars
  <2> QED
    BY <2>1, PutIdle, Zenon
<1>3. CASE TftpTimeout
  BY <1>3, PutTimeout, Zenon
<1>4. CASE Restart
  BY <1>4, PutRestart, Zenon
<1>5. CASE Server
  <2>1. ASSUME NEW p \in toServer
        PROVE  ~ServerAck(p)
    <3>1. p.type # "ACK"
      BY DEF PutState, PutInv, PutPackets, BlockSent
    <3> QED
      BY <3>1, Zenon DEF ServerAck
  <2> QED
    BY <1>5, <2>1, PutAnswer, PutData, Zenon DEF Server
<1>6. CASE UNCHANGED vars
  <2>1. /\ UNCHANGED <<TftpWriting, len, srv, toServer, toClient>> /\ UNCHANGED putVars
        /\ net_state' = net_state
    BY <1>6, Zenon DEF vars, client, putVars
  <2> QED
    BY <2>1, PutIdle, Zenon
<1> QED
  BY <1>1, <1>2, <1>3, <1>4, <1>5, <1>6, Zenon DEF Next

(* Every step keeps the invariant.                                          *)
LEMMA TftpStep ==
  TInv /\ [Next]_vars => TInv'
<1> SUFFICES ASSUME TInv, [Next]_vars PROVE TInv'
  OBVIOUS
<1>1. /\ TftpWriting' \in BOOLEAN /\ len' \in Nat
      /\ TftpWriting' <=> TftpWriting
  BY Keeps DEF TInv
<1>2. ASSUME ~late'
      PROVE  SrvInv' /\ IF TftpWriting' THEN PutInv' ELSE GetInv'
  <2>1. ~late
    BY <1>2, Keeps, Zenon
  <2>2. CASE TftpWriting
    <3>1. PutState
      BY <2>1, <2>2, Zenon DEF TInv, PutState
    <3> QED
      BY <1>1, <1>2, <2>2, <3>1, PutStep, Zenon
  <2>3. CASE ~TftpWriting
    <3>1. GetState
      BY <2>1, <2>3, Zenon DEF TInv, GetState
    <3> QED
      BY <1>1, <1>2, <2>3, <3>1, GetStep, Zenon
  <2> QED
    BY <2>2, <2>3, Zenon
<1> QED
  BY <1>1, <1>2, Zenon DEF TInv

(* So the invariant holds throughout a transfer.                            *)
LEMMA TftpHolds == Spec => []TInv
BY TftpInitInv, TftpStep, PTL DEF Spec

(* tftp.c: when a get ends with success the file is in memory, complete, in *)
(* order and with its length, for a file of every length, whatever the      *)
(* network loses, delays and reorders and either end sends again.           *)
THEOREM FetchedIsFile == Spec => []LoadedIsFile
<1>1. TInv => LoadedIsFile
  BY Zenon DEF TInv, GetInv, Loaded, InMem, LoadedIsFile
<1> QED
  BY <1>1, TftpHolds, PTL

(* tftp.c: when a put ends with success the server has stored every block   *)
(* of the file, if every acknowledgement that was taken belongs to what was *)
(* just sent, the request or a block.                                       *)
THEOREM WrittenIsStored == Spec => []PutIsStored
<1>1. TInv => PutIsStored
  BY Zenon DEF TInv, PutInv, PutIsStored
<1> QED
  BY <1>1, TftpHolds, PTL

(* tftp.c: a put sends under each number the block of the file that has it, *)
(* also when it sends one again and after a restart, up to the wrap-around  *)
(* of the numbers.                                                          *)
THEOREM SentIsFile == Spec => []PutSendsFile
<1>1. TInv => PutSendsFile
  <2> SUFFICES ASSUME TInv, ~late, NEW p \in toServer, p.type = "DATA",
                      p.n < SequenceSize
               PROVE  p.holds = p.n
    BY Zenon  DEF PutSendsFile
  <2>1. TftpWriting
    BY SMTT(30) DEF TInv, GetInv, GetPackets
  <2>2. p.n \in Nat /\ p.holds = Seq16(p.n)
    BY <2>1 DEF TInv, PutInv, PutPackets, BlockSent
  <2> QED
    BY <2>2, SmallSeq16, Zenon
<1> QED
  BY <1>1, TftpHolds, PTL

-----------------------------------------------------------------------------
(* The ids and times of the client, and the size of its cache.              *)
IdsOK ==
    /\ lastId \in Nat /\ firstId \in Nat /\ answered \in Nat
    /\ firstId <= lastId
    /\ bootp_ids \in Seq(Nat)
    /\ Len(bootp_ids) <= IdCacheSize

(* The cache holds ids of this command only: this is what makes             *)
(* bootp_match_id() keep old answers out.                                   *)
IdsCurrent == \A n \in 1 .. Len(bootp_ids) : bootp_ids[n] \in firstId .. lastId

(* The strengthening of NoStaleAnswer that every step preserves.            *)
IdInv == IdsOK /\ IdsCurrent /\ NoStaleAnswer

(* A server that has sent an ACK has committed its address, for good.       *)
AcksCommit ==
    /\ DOMAIN owner = Servers
    /\ \A p \in wire :
          p.type = "ACK" => /\ p.server \in Servers
                            /\ p.yiaddr = p.server
                            /\ owner[p.server] = "us"

(* The strengthening of LeasedToUs that every step preserves.               *)
LeaseInv == AcksCommit /\ LeasedToUs

-----------------------------------------------------------------------------
(* bootp_add_id() keeps the cache within its size, and adds nothing but the *)
(* new id.                                                                  *)
LEMMA AddIdKeeps ==
    ASSUME NEW ids \in Seq(Nat), NEW id \in Nat, Len(ids) <= IdCacheSize
    PROVE  /\ bootp_add_id(ids, id) \in Seq(Nat)
           /\ Len(bootp_add_id(ids, id)) <= IdCacheSize
           /\ \A n \in 1 .. Len(bootp_add_id(ids, id)) :
                 \/ bootp_add_id(ids, id)[n] = id
                 \/ \E m \in 1 .. Len(ids) : bootp_add_id(ids, id)[n] = ids[m]
  <1>0. IdCacheSize \in Nat \ {0}
    BY DhcpAssumption
  <1>1. CASE Len(ids) >= IdCacheSize
    <2>1. ids # <<>> /\ Len(ids) = IdCacheSize
      BY <1>0, <1>1
    <2>2. /\ Tail(ids) \in Seq(Nat) /\ Len(Tail(ids)) = Len(ids) - 1
          /\ \A n \in 1 .. Len(Tail(ids)) : Tail(ids)[n] = ids[n + 1]
      BY <2>1
    <2>3. bootp_add_id(ids, id) = Append(Tail(ids), id)
      BY <1>1 DEF bootp_add_id
    <2>4. /\ Append(Tail(ids), id) \in Seq(Nat)
          /\ Len(Append(Tail(ids), id)) = Len(ids)
          /\ \A n \in 1 .. Len(ids) - 1 : Append(Tail(ids), id)[n] = ids[n + 1]
          /\ Append(Tail(ids), id)[Len(ids)] = id
      BY <2>1, <2>2
    <2> QED
      BY <1>0, <2>1, <2>3, <2>4
  <1>2. CASE ~(Len(ids) >= IdCacheSize)
    <2>1. bootp_add_id(ids, id) = Append(ids, id)
      BY <1>2 DEF bootp_add_id
    <2> QED
      BY <1>0, <1>2, <2>1
  <1> QED
    BY <1>1, <1>2

(* BootpRequest() leaves ids of this command in the cache, whether it       *)
(* starts one (BootpReset() has emptied the cache) or repeats a request.    *)
LEMMA RequestKeepsIds ==
    ASSUME IdsOK, NEW ids \in Seq(Nat), Len(ids) <= IdCacheSize, NEW t,
           BootpRequest(ids, t), firstId' \in Nat, firstId' <= lastId + 1,
           answered' = answered,
           \A n \in 1 .. Len(ids) : ids[n] \in firstId' .. lastId
    PROVE  IdInv'
  <1>1. lastId \in Nat /\ lastId' = lastId + 1 /\ answered \in Nat
    BY DEF IdsOK, BootpRequest
  <1>2. bootp_ids' = bootp_add_id(ids, lastId')
    BY DEF BootpRequest
  <1>3. /\ bootp_ids' \in Seq(Nat)
        /\ Len(bootp_ids') <= IdCacheSize
        /\ \A n \in 1 .. Len(bootp_ids') :
              bootp_ids'[n] = lastId' \/ \E m \in 1 .. Len(ids) : bootp_ids'[n] = ids[m]
    BY <1>1, <1>2, AddIdKeeps
  <1>4. IdsOK'
    BY <1>1, <1>3 DEF IdsOK
  <1>5. IdsCurrent'
    <2> SUFFICES ASSUME NEW n \in 1 .. Len(bootp_ids')
                 PROVE  bootp_ids'[n] \in firstId' .. lastId'
      BY DEF IdsCurrent
    <2>1. CASE bootp_ids'[n] = lastId'
      BY <1>1, <2>1
    <2>2. CASE \E m \in 1 .. Len(ids) : bootp_ids'[n] = ids[m]
      <3>1. bootp_ids'[n] \in firstId' .. lastId
        BY <2>2
      <3> QED
        BY <1>1, <3>1
    <2> QED
      BY <1>3, <2>1, <2>2
  <1>6. NoStaleAnswer'
    BY DEF BootpRequest, NoStaleAnswer
  <1> QED
    BY <1>4, <1>5, <1>6 DEF IdInv

(* Every step preserves the invariant of the ids.                           *)
LEMMA IdStep == IdInv /\ [DhcpNext]_dhcpVars => IdInv'
  <1> SUFFICES ASSUME IdInv, [DhcpNext]_dhcpVars PROVE IdInv'
    OBVIOUS
  <1> USE DEF IdInv
  <1>1. CASE DhcpStart
    <2>1. /\ BootpRequest(<<>>, FirstTimeout)
          /\ firstId' = lastId' /\ answered' = answered
      BY <1>1 DEF DhcpStart, IdsAfterReset
    <2>2. lastId \in Nat /\ lastId' = lastId + 1
      BY <2>1 DEF BootpRequest, IdsOK
    <2>3. <<>> \in Seq(Nat) /\ Len(<<>>) = 0 /\ 0 <= IdCacheSize
      BY DhcpAssumption
    <2>4. \A n \in 1 .. Len(<<>>) : <<>>[n] \in firstId' .. lastId
      BY <2>3
    <2>5. firstId' \in Nat /\ firstId' <= lastId + 1 /\ Len(<<>>) <= IdCacheSize
      BY <2>1, <2>2, <2>3
    <2> QED
      BY <2>1, <2>3, <2>4, <2>5, RequestKeepsIds, Zenon
  <1>2. CASE Retry
    <2>1. PICK t : BootpRequest(bootp_ids, t)
      BY <1>2 DEF Retry
    <2>2. firstId' = firstId /\ answered' = answered
      BY <1>2 DEF Retry
    <2>3. /\ firstId \in Nat /\ lastId \in Nat /\ firstId <= lastId + 1
          /\ bootp_ids \in Seq(Nat) /\ Len(bootp_ids) <= IdCacheSize
      BY DEF IdsOK
    <2> QED
      BY <2>1, <2>2, <2>3, RequestKeepsIds DEF IdsCurrent
  <1>3. CASE DhcpHandler
    <2>1. PICK p \in Answers : Filtered(p) /\ (TakeOffer(p) \/ TakeAck(p))
      BY <1>3 DEF DhcpHandler
    <2>2. /\ answered' = p.id
          /\ UNCHANGED <<bootp_ids, lastId, firstId>>
      BY <2>1 DEF Filtered
    <2>3. p.id \in firstId .. lastId
      BY <2>1 DEF Filtered, bootp_match_id, IdsOK, IdsCurrent
    <2> QED
      BY <2>2, <2>3 DEF IdsOK, IdsCurrent, NoStaleAnswer
  <1>4. CASE UNCHANGED <<bootp_ids, dhcp_state, lastId, firstId, answered>>
    BY <1>4 DEF IdsOK, IdsCurrent, NoStaleAnswer
  <1>5. DhcpStart \/ Retry \/ DhcpHandler
        \/ UNCHANGED <<bootp_ids, dhcp_state, lastId, firstId, answered>>
    BY DEF DhcpNext, dhcpVars, GiveUp, Interrupt, ServerOffers, ServerAcks,
           ServerNaks, AddressTaken, others
  <1> QED
    BY <1>1, <1>2, <1>3, <1>4, <1>5

(* No dhcp command acts on an answer to a request of an earlier one,        *)
(* however many commands there are and however long answers are delayed:    *)
(* bootp_match_id() looks only at ids that BootpReset() has let in since.   *)
THEOREM StaleAnswersIgnored == DhcpSpec => []NoStaleAnswer
  <1>1. DhcpInit => IdInv
    BY DhcpAssumption DEF DhcpInit, IdInv, IdsOK, IdsCurrent, NoStaleAnswer
  <1>2. IdInv => NoStaleAnswer
    BY DEF IdInv
  <1> QED
    BY <1>1, <1>2, IdStep, PTL DEF DhcpSpec

-----------------------------------------------------------------------------
(* A step of the client or the servers that adds no ACK, and changes no     *)
(* owner "us", leaves every ACK under way committed.                        *)
LEMMA CommitsStay ==
    ASSUME AcksCommit, owner' = owner, NEW p, wire' = wire \cup {p},
           p.type # "ACK"
    PROVE  AcksCommit'
  BY DEF AcksCommit

(* Every step preserves the invariant of the leases.                        *)
LEMMA LeaseStep == LeaseInv /\ [DhcpNext]_dhcpVars => LeaseInv'
  <1> SUFFICES ASSUME LeaseInv, [DhcpNext]_dhcpVars PROVE LeaseInv'
    OBVIOUS
  <1> USE DEF LeaseInv
  <1>1. CASE DhcpStart \/ Retry
    <2>1. /\ owner' = owner /\ dhcp_state' = "SELECTING"
          /\ wire' = wire \cup {Discover(lastId')}
      BY <1>1 DEF DhcpStart, Retry, BootpRequest
    <2>2. Discover(lastId').type # "ACK"
      BY DEF Discover
    <2> QED
      BY <2>1, <2>2, CommitsStay DEF LeasedToUs
  <1>2. CASE DhcpHandler
    <2>1. PICK p \in Answers : Filtered(p) /\ (TakeOffer(p) \/ TakeAck(p))
      BY <1>2 DEF DhcpHandler
    <2>2. owner' = owner /\ p \in wire
      BY <2>1 DEF Filtered, Answers
    <2>3. CASE TakeOffer(p)
      <3> DEFINE q == Request(p.id, NetDHCPServerIP', p.yiaddr)
      <3>1. wire' = wire \cup {q} /\ q.type # "ACK"
        BY <2>3 DEF TakeOffer, Request
      <3>2. dhcp_state' = "REQUESTING"
        BY <2>3 DEF TakeOffer
      <3> QED
        BY <2>2, <3>1, <3>2, CommitsStay DEF LeasedToUs
    <2>4. CASE TakeAck(p)
      <3>1. /\ p.type = "ACK" /\ wire' = wire
            /\ NetOurIP' = p.yiaddr
            /\ DhcpOptionsProcess(p)
        BY <2>4 DEF TakeAck
      <3>2. p.yiaddr = p.server /\ owner[p.server] = "us"
        BY <2>2, <3>1 DEF AcksCommit
      <3>3. AcksCommit'
        BY <2>2, <3>1 DEF AcksCommit
      <3>4. LeasedToUs'
        BY <2>2, <3>1, <3>2 DEF LeasedToUs, DhcpOptionsProcess
      <3> QED
        BY <3>3, <3>4
    <2> QED
      BY <2>1, <2>3, <2>4
  <1>3. ASSUME NEW s \in Servers, ServerOffers(s) \/ ServerNaks(s)
        PROVE  LeaseInv'
    <2>1. PICK q : wire' = wire \cup {q} /\ q.type # "ACK"
      BY <1>3 DEF ServerOffers, ServerNaks, ServerSends, Answer
    <2>2. owner' = owner /\ UNCHANGED others
      BY <1>3 DEF ServerOffers, ServerNaks
    <2> QED
      BY <2>1, <2>2, CommitsStay DEF LeasedToUs, others
  <1>4. ASSUME NEW s \in Servers, ServerAcks(s)
        PROVE  LeaseInv'
    <2>1. PICK id : wire' = wire \cup {Answer("ACK", id, s)}
      BY <1>4 DEF ServerAcks, ServerSends
    <2>2. owner' = [owner EXCEPT ![s] = "us"] /\ UNCHANGED others
      BY <1>4 DEF ServerAcks
    <2>3. /\ Answer("ACK", id, s).server = s
          /\ Answer("ACK", id, s).yiaddr = s
      BY DEF Answer
    <2>4. AcksCommit'
      BY <2>1, <2>2, <2>3 DEF AcksCommit
    <2>5. LeasedToUs'
      BY <2>2 DEF LeasedToUs, others, AcksCommit
    <2> QED
      BY <2>4, <2>5
  <1>5. ASSUME NEW s \in Servers, AddressTaken(s)
        PROVE  LeaseInv'
    <2>1. /\ owner[s] = "free" /\ wire' = wire
          /\ owner' = [owner EXCEPT ![s] = "other"] /\ UNCHANGED others
      BY <1>5 DEF AddressTaken
    <2>2. AcksCommit'
      BY <2>1 DEF AcksCommit
    <2>3. LeasedToUs'
      BY <2>1 DEF LeasedToUs, others, AcksCommit
    <2> QED
      BY <2>2, <2>3
  <1>6. CASE UNCHANGED <<dhcp_state, NetDHCPServerIP, NetOurIP, NetOurGatewayIP,
                         wire, owner>>
    BY <1>6 DEF AcksCommit, LeasedToUs
  <1>7. \/ DhcpStart \/ Retry \/ DhcpHandler
        \/ \E s \in Servers :
              ServerOffers(s) \/ ServerAcks(s) \/ ServerNaks(s) \/ AddressTaken(s)
        \/ UNCHANGED <<dhcp_state, NetDHCPServerIP, NetOurIP, NetOurGatewayIP, wire,
                       owner>>
    BY DEF DhcpNext, dhcpVars, GiveUp, Interrupt
  <1> QED
    BY <1>1, <1>2, <1>3, <1>4, <1>5, <1>6, <1>7

(* A client that DhcpHandler() reports bound uses an address that its       *)
(* server has committed to it, whichever of the servers' answers come late, *)
(* twice, or in another order, and whatever other clients do.               *)
THEOREM BoundIsLeased == DhcpSpec => []LeasedToUs
  <1>1. DhcpInit => LeaseInv
    BY DEF DhcpInit, LeaseInv, AcksCommit, LeasedToUs
  <1>2. LeaseInv => LeasedToUs
    BY DEF LeaseInv
  <1> QED
    BY <1>1, <1>2, LeaseStep, PTL DEF DhcpSpec
=============================================================================
