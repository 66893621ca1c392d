-------------------------- MODULE NetDeviceProofs ---------------------------
(* Proofs about the network devices and what drives them.  The Ethernet     *)
(* driver of fec_mxc.c: the receive ring, for every size of the ring and of *)
(* a line of the cache, and fec_send().  Then the network loop, for every   *)
(* number of devices, every set of settings and all limits of the           *)
(* protocols.                                                               *)
EXTENDS FecRx, FecTx, NetLoop, TLAPS

(* The first descriptor the controller has filled and not got back.  The    *)
(* driver gives descriptors back by whole lines.                            *)
LineStart == rbd_index - (rbd_index % DescsPerLine)
Base == IF rxpc = "enable" THEN NextDesc(rbd_index) ELSE LineStart

(* How far descriptor i is ahead of b on the ring.                          *)
AheadOf(b, i) == IF b <= i THEN i - b ELSE i - b + FEC_RBD_NUM

Full == hwIndex = Base /\ rbd[Base] # "EMPTY"

Statuses == {"EMPTY", "GOOD", "ERR"}
Pcs == {"off", "restart", "halted", "idle", "status", "buffer", "copy", "receive",
        "clean", "flush", "enable"}

RTInv ==
  /\ rbd \in [Descs -> Statuses]
  /\ hwIndex \in Descs /\ rbd_index \in Descs
  /\ DOMAIN rbdCache = Lines
  /\ rxpc \in Pcs
  /\ rdar \in BOOLEAN /\ phyUp \in BOOLEAN

(* The descriptors that hold frames are those from Base to the controller's *)
(* place, or all.                                                           *)
RingInv ==
  Running => \A i \in Descs :
    rbd[i] # "EMPTY" <=> Full \/ AheadOf(Base, i) < AheadOf(Base, hwIndex)

(* The descriptor that fec_recv() is dealing with holds a frame; but not    *)
(* when the device was started inside NetReceive(): it goes on as if with   *)
(* descriptor 0 then, which is not the last one of its line.                *)
HeldInv ==
  /\ rxpc \in {"buffer", "copy", "receive", "flush"} => rbd[rbd_index] # "EMPTY"
  /\ rxpc = "clean" => \/ rbd[rbd_index] # "EMPTY"
                       \/ rbd_index % DescsPerLine # DescsPerLine - 1
  /\ rxpc \in {"flush", "enable"} => rbd_index % DescsPerLine = DescsPerLine - 1

(* A stale copy of a line shows descriptors as empty, never as full.        *)
CacheInv ==
  /\ \A l \in Lines : rbdCache[l] # NoLine =>
       \A i \in DescsOf(l) : rbdCache[l][i] # "EMPTY" => rbdCache[l][i] = rbd[i]
  /\ rxpc = "flush" =>
       rbdCache[Line(rbd_index)] = [i \in DescsOf(Line(rbd_index)) |-> "EMPTY"]

(* The controller has gone to sleep because the ring was full; since then   *)
(* the line at its place may have been given back.                          *)
SleepInv ==
  Running /\ phyUp /\ ~rdar =>
    rbd[hwIndex] # "EMPTY" \/ (rxpc = "enable" /\ hwIndex = LineStart)

RInv == RTInv /\ RingInv /\ HeldInv /\ CacheInv /\ SleepInv

-----------------------------------------------------------------------------
(* fec_send() while no wait has timed out.                                  *)
AllClear == [i \in Tbds |-> FALSE]
Only(t) == [i \in Tbds |-> i = t]

TTInv ==
  /\ packet \in Nat /\ framesSent \in Seq(Nat)
  /\ hwNext \in Tbds /\ tbd_index \in Tbds
  /\ ready \in [Tbds -> BOOLEAN]
  /\ txpc \in {"idle", "flush", "enable", "tdar", "ready"}

(* Before the controller has sent the frame, and after it has.              *)
NotSent == hwNext = tbd_index /\ clearing = {} /\ packet = Len(framesSent) + 1
Sent == hwNext # tbd_index /\ clearing \subseteq {tbd_index}
        /\ ready = [i \in Tbds |-> i \in clearing]
        /\ packet = Len(framesSent) /\ packet > 0

TurnInv ==
  /\ txpc = "idle" => /\ hwNext = tbd_index /\ clearing = {} /\ ~tdar
                      /\ ready = AllClear /\ copy \in {<<>>, AllClear}
                      /\ packet = Len(framesSent)
  /\ txpc = "flush" => NotSent /\ ~tdar /\ ready = AllClear
                       /\ copy = Only(tbd_index)
  /\ txpc = "enable" => NotSent /\ ~tdar /\ ready = Only(tbd_index)
  /\ txpc = "tdar" => Sent \/ (NotSent /\ tdar /\ ready = Only(tbd_index))
  /\ txpc = "ready" => Sent /\ ~tdar

WireInv ==
  /\ \A n \in DOMAIN framesSent : framesSent[n] = n
  /\ ok \subseteq 1 .. Len(framesSent)

TxInv == ~timeouts => TTInv /\ TurnInv /\ WireInv

-----------------------------------------------------------------------------
(* Division of a natural number by the size of a line, and its uniqueness.  *)
LEMMA Division ==
  ASSUME NEW i \in Nat, NEW d \in Nat \ {0}
  PROVE  /\ i \div d \in Nat /\ i % d \in 0 .. d - 1
         /\ i = d * (i \div d) + (i % d)
  OBVIOUS

(* Quotient and remainder are the only such pair.                           *)
LEMMA UniqueDivision ==
  ASSUME NEW d \in Nat \ {0}, NEW q \in Nat, NEW r \in 0 .. d - 1,
         NEW i \in Nat, i = d * q + r
  PROVE  i \div d = q /\ i % d = r
<1>1. /\ i \div d \in Nat /\ i % d \in 0 .. d - 1
      /\ i = d * (i \div d) + (i % d)
  BY Division, Zenon
<1>2. ~(i \div d < q)
  <2> SUFFICES ASSUME i \div d + 1 <= q PROVE FALSE
    BY <1>1
  <2>1. d * (i \div d + 1) <= d * q
    BY <1>1
  <2>2. d * (i \div d + 1) = d * (i \div d) + d
    BY <1>1
  <2> QED
    BY <1>1, <2>1, <2>2
<1>3. ~(q < i \div d)
  <2> SUFFICES ASSUME q + 1 <= i \div d PROVE FALSE
    BY <1>1
  <2>1. d * (q + 1) <= d * (i \div d)
    BY <1>1
  <2>2. d * (q + 1) = d * q + d
    OBVIOUS
  <2> QED
    BY <1>1, <2>1, <2>2
<1> QED
  BY <1>1, <1>2, <1>3

(* The numbers that divide to q.                                            *)
LEMMA InLine ==
  ASSUME NEW d \in Nat \ {0}, NEW q \in Nat, NEW j \in Nat
  PROVE  j \div d = q <=> d * q <= j /\ j < d * q + d
<1> DEFINE p == d * q
<1> DEFINE r == j % d
<1>1. /\ p \in Nat /\ r \in 0 .. d - 1 /\ j \div d \in Nat
      /\ j = d * (j \div d) + r
  <2>1. p \in Nat
    OBVIOUS
  <2> HIDE DEF p
  <2> QED
    BY <2>1, Division, Zenon
<1>2. ASSUME j \div d = q PROVE p <= j /\ j < p + d
  <2>1. j = p + r
    BY <1>1, <1>2, Zenon
  <2> HIDE DEF p, r
  <2> QED
    BY <1>1, <2>1
<1>3. ASSUME p <= j, j < p + d PROVE j \div d = q
  <2> DEFINE s == j - p
  <2>1. s \in 0 .. d - 1 /\ j = p + s
    <3> HIDE DEF p
    <3> QED
      BY <1>1, <1>3
  <2> HIDE DEF s
  <2> QED
    BY <2>1, UniqueDivision, Zenon
<1> QED
  BY <1>2, <1>3, Zenon

(* The descriptors of the line of descriptor i, and the descriptor after i. *)
LEMMA NextIs ==
  ASSUME NEW i \in Descs
  PROVE  /\ NextDesc(i) \in Descs
         /\ NextDesc(i) = IF i = FEC_RBD_NUM - 1 THEN 0 ELSE i + 1
  BY RingAssumption DEF NextDesc, Descs

(* The cache line of a descriptor, and the descriptors on it.               *)
LEMMA Lined ==
  ASSUME NEW i \in Descs
  PROVE  /\ i % DescsPerLine \in 0 .. DescsPerLine - 1
         /\ i % DescsPerLine <= i
         /\ i - (i % DescsPerLine) + DescsPerLine <= FEC_RBD_NUM
         /\ Line(i) \in Lines
         /\ DescsOf(Line(i)) =
              {j \in Descs : /\ i - (i % DescsPerLine) <= j
                             /\ j < i - (i % DescsPerLine) + DescsPerLine}
<1> DEFINE L == DescsPerLine
<1> DEFINE q == i \div L
<1> DEFINE n == FEC_RBD_NUM \div L
<1>1. L \in Nat \ {0} /\ FEC_RBD_NUM \in Nat \ {0} /\ FEC_RBD_NUM % L = 0
  BY RingAssumption, Zenon
<1>2. i \in Nat /\ i < FEC_RBD_NUM
  BY <1>1 DEF Descs
<1>3. q \in Nat /\ i % L \in 0 .. L - 1 /\ i = L * q + (i % L)
  BY <1>1, <1>2, Division, Zenon
<1>4. n \in Nat /\ FEC_RBD_NUM = L * n
  BY <1>1, Division
<1> HIDE DEF L, q, n
<1>5. q < n
  <2> SUFFICES ASSUME n <= q PROVE FALSE
    BY <1>3, <1>4
  <2>1. L * n <= L * q
    BY <1>1, <1>3, <1>4
  <2> QED
    BY <1>1, <1>2, <1>3, <1>4, <2>1
<1>6. L * (q + 1) <= L * n /\ L * (q + 1) = L * q + L
  BY <1>1, <1>3, <1>4, <1>5
<1>7. i - (i % L) = L * q /\ L * q + L <= FEC_RBD_NUM /\ L * q \in Nat
  BY <1>1, <1>3, <1>4, <1>6
<1>8. ASSUME NEW j \in Descs
      PROVE  j \div L = q <=> L * q <= j /\ j < L * q + L
  <2>1. j \in Nat
    BY <1>1 DEF Descs
  <2> QED
    BY <1>1, <1>3, <2>1, InLine, Zenon
<1>9. Line(i) = q /\ q \in Lines
  BY <1>1, <1>3, <1>4, <1>5 DEF Line, Lines, L, q, n
<1>10. DescsOf(Line(i)) = {j \in Descs : L * q <= j /\ j < L * q + L}
  BY <1>8, <1>9, Zenon DEF DescsOf, Line, L
<1>11. /\ i % L \in 0 .. L - 1 /\ i % L <= i
       /\ i - (i % L) + L <= FEC_RBD_NUM
  <2> DEFINE r == i % L
  <2> DEFINE p == L * q
  <2>1. r \in 0 .. L - 1 /\ p \in Nat /\ i = p + r /\ p + L <= FEC_RBD_NUM
    BY <1>3, <1>7, Zenon
  <2> HIDE DEF r, p
  <2>2. r \in 0 .. L - 1 /\ r <= i /\ i - r + L <= FEC_RBD_NUM
    BY <1>1, <2>1
  <2> QED
    BY <2>2, Zenon DEF r
<1> QED
  BY <1>7, <1>9, <1>10, <1>11, Zenon DEF L

(* The next descriptor is on the same line, or the first one of a line.     *)
LEMMA NextLined ==
  ASSUME NEW i \in Descs
  PROVE  IF i % DescsPerLine = DescsPerLine - 1
         THEN NextDesc(i) % DescsPerLine = 0
         ELSE /\ NextDesc(i) = i + 1
              /\ (i + 1) % DescsPerLine = (i % DescsPerLine) + 1
<1> DEFINE L == DescsPerLine
<1> DEFINE q == i \div L
<1> DEFINE r == i % L
<1> DEFINE p == L * q
<1>1. L \in Nat \ {0} /\ FEC_RBD_NUM \in Nat \ {0} /\ i \in Nat
  BY RingAssumption DEF Descs
<1>2. q \in Nat /\ r \in 0 .. L - 1 /\ i = p + r
  BY <1>1, Division, Zenon
<1>3. p \in Nat /\ L * (q + 1) = p + L
  BY <1>1, <1>2
<1>4. i - r + L <= FEC_RBD_NUM
  BY Lined, Zenon
<1>5. ASSUME r = L - 1 PROVE NextDesc(i) % L = 0
  <2>1. i + 1 = L * (q + 1) + 0 /\ 0 \in 0 .. L - 1 /\ q + 1 \in Nat
    <3> HIDE DEF L, q, r
    <3> QED
      BY <1>1, <1>2, <1>3, <1>5
  <2>2. (i + 1) % L = 0
    <3> HIDE DEF L, q, r, p
    <3>1. i + 1 \in Nat
      BY <1>1
    <3> QED
      BY <1>1, <2>1, <3>1, UniqueDivision
  <2>3. 0 = L * 0 + 0 /\ 0 \in 0 .. L - 1 /\ 0 \in Nat
    BY <1>1
  <2>4. 0 % L = 0
    BY <1>1, <2>3, UniqueDivision
  <2> HIDE DEF L
  <2> QED
    BY <2>2, <2>4, NextIs, Zenon
<1>6. ASSUME r # L - 1 PROVE NextDesc(i) = i + 1 /\ (i + 1) % L = r + 1
  <2>1. /\ i + 1 = p + (r + 1) /\ r + 1 \in 0 .. L - 1 /\ i + 1 \in Nat
        /\ i # FEC_RBD_NUM - 1
    <3> HIDE DEF L, q, r, p
    <3> QED
      BY <1>1, <1>2, <1>3, <1>4, <1>6
  <2>2. (i + 1) % L = r + 1
    <3> DEFINE i1 == i + 1
    <3> DEFINE r1 == r + 1
    <3>1. i1 = L * q + r1 /\ r1 \in 0 .. L - 1 /\ i1 \in Nat
      BY <2>1, Zenon
    <3>2. L \in Nat \ {0} /\ q \in Nat
      BY <1>1, <1>2, Zenon
    <3> HIDE DEF L, q, i1, r1
    <3>3. i1 % L = r1
      BY <3>1, <3>2, UniqueDivision
    <3> QED
      BY <3>3, Zenon DEF i1, r1
  <2> QED
    BY <2>1, <2>2, NextIs, Zenon
<1> QED
  BY <1>5, <1>6, Zenon

(* Distances on the ring.                                                   *)
LEMMA Distances ==
  ASSUME NEW b \in Descs, NEW h \in Descs
  PROVE  /\ AheadOf(b, h) \in 0 .. FEC_RBD_NUM - 1
         /\ AheadOf(b, h) = 0 <=> h = b
         /\ \A i \in Descs : AheadOf(b, i) = AheadOf(b, h) => i = h
         /\ IF NextDesc(h) = b THEN AheadOf(b, h) = FEC_RBD_NUM - 1
            ELSE AheadOf(b, NextDesc(h)) = AheadOf(b, h) + 1
         /\ (h - b) % FEC_RBD_NUM = AheadOf(b, h)
<1>1. (h - b) % FEC_RBD_NUM = AheadOf(b, h)
  BY RingAssumption DEF AheadOf, Descs
<1> QED
  BY <1>1, RingAssumption, NextIs DEF AheadOf, Descs

(* The same when the line that starts at s has been given back.             *)
LEMMA DistancesAfter ==
  ASSUME NEW r \in Descs, NEW i \in Descs,
         r % DescsPerLine = DescsPerLine - 1
  PROVE  LET s == r - (r % DescsPerLine) IN
         /\ s \in Descs
         /\ i \in DescsOf(Line(r)) <=> AheadOf(s, i) < DescsPerLine
         /\ AheadOf(NextDesc(r), i) =
              IF i \in DescsOf(Line(r))
              THEN AheadOf(s, i) - DescsPerLine + FEC_RBD_NUM
              ELSE AheadOf(s, i) - DescsPerLine
<1> DEFINE s == r - (r % DescsPerLine)
<1>1. /\ s \in Descs /\ r = s + DescsPerLine - 1
      /\ s + DescsPerLine <= FEC_RBD_NUM
  BY Lined, RingAssumption DEF Descs
<1>2. i \in DescsOf(Line(r)) <=> s <= i /\ i < s + DescsPerLine
  BY Lined, Zenon
<1>3. NextDesc(r) = IF s + DescsPerLine = FEC_RBD_NUM THEN 0
                    ELSE s + DescsPerLine
  <2> HIDE DEF s
  <2> QED
    BY <1>1, NextIs, RingAssumption DEF Descs
<1> HIDE DEF s
<1>4. i \in DescsOf(Line(r)) <=> AheadOf(s, i) < DescsPerLine
  BY <1>1, <1>2, RingAssumption DEF AheadOf, Descs
<1>5. AheadOf(NextDesc(r), i) =
        IF i \in DescsOf(Line(r))
        THEN AheadOf(s, i) - DescsPerLine + FEC_RBD_NUM
        ELSE AheadOf(s, i) - DescsPerLine
  BY <1>1, <1>2, <1>3, RingAssumption DEF AheadOf, Descs
<1> QED
  BY <1>1, <1>4, <1>5, Zenon DEF s

-----------------------------------------------------------------------------
(* The receive ring *)

(* The line that the driver is on.                                          *)
LEMMA BaseIs ==
  ASSUME RTInv
  PROVE  /\ LineStart \in Descs /\ Base \in Descs /\ LineStart <= rbd_index
         /\ Line(rbd_index) \in Lines
         /\ DescsOf(Line(rbd_index)) =
              {i \in Descs : LineStart <= i /\ i < LineStart + DescsPerLine}
<1>1. rbd_index \in Descs
  BY Zenon DEF RTInv
<1>2. LineStart \in Descs /\ LineStart <= rbd_index
  <2> DEFINE m == rbd_index % DescsPerLine
  <2>1. m \in 0 .. DescsPerLine - 1 /\ m <= rbd_index
    BY <1>1, Lined, Zenon
  <2>2. LineStart = rbd_index - m
    BY Zenon DEF LineStart
  <2> HIDE DEF m
  <2> QED
    BY <1>1, <2>1, <2>2, RingAssumption DEF Descs
<1> QED
  BY <1>1, <1>2, Lined, NextIs, Zenon DEF Base, LineStart

(* A descriptor the controller stands at holds a frame only if all do.      *)
LEMMA FullThere ==
  ASSUME RTInv, RingInv, Running, rbd[hwIndex] # "EMPTY"
  PROVE  Full
<1>1. hwIndex \in Descs /\ AheadOf(Base, hwIndex) \in 0 .. FEC_RBD_NUM - 1
  BY BaseIs, Distances, Zenon DEF RTInv
<1> QED
  BY <1>1, RingAssumption DEF RingInv

(* What fec_recv() reads of its descriptor is the truth unless it is empty. *)
LEMMA StatusIs ==
  ASSUME RTInv, CacheInv
  PROVE  SeenRbd(Line(rbd_index))[rbd_index] \in {"EMPTY", rbd[rbd_index]}
<1>1. /\ rbd_index \in Descs /\ Line(rbd_index) \in Lines
      /\ rbd_index \in DescsOf(Line(rbd_index))
  BY BaseIs, Zenon DEF RTInv, DescsOf
<1> QED
  BY <1>1, Zenon DEF CacheInv, SeenRbd

(* While the driver has written a line, every descriptor of it is its own:  *)
(* the last one holds a frame, and the controller fills them in turn.       *)
LEMMA OursWhileWritten ==
  ASSUME RTInv, RingInv, HeldInv, rxpc = "flush"
  PROVE  \A i \in DescsOf(Line(rbd_index)) : rbd[i] # "EMPTY"
<1> SUFFICES ASSUME NEW i \in DescsOf(Line(rbd_index))
             PROVE  rbd[i] # "EMPTY"
  OBVIOUS
<1>1. i \in Descs /\ LineStart <= i /\ i < LineStart + DescsPerLine
  BY BaseIs, Zenon
<1>2. /\ rbd_index \in Descs /\ hwIndex \in Descs /\ LineStart \in Descs
      /\ rbd[rbd_index] # "EMPTY" /\ Running /\ Base = LineStart
      /\ rbd_index % DescsPerLine = DescsPerLine - 1
  BY BaseIs, Zenon DEF RTInv, HeldInv, Running, Base
<1>3. rbd_index = LineStart + DescsPerLine - 1
  BY <1>2, RingAssumption DEF LineStart, Descs
<1>4. /\ AheadOf(LineStart, i) <= AheadOf(LineStart, rbd_index)
      /\ AheadOf(LineStart, i) \in Int /\ AheadOf(LineStart, rbd_index) \in Int
      /\ AheadOf(LineStart, hwIndex) \in Int
  BY <1>1, <1>2, <1>3, RingAssumption DEF AheadOf, Descs
<1>5. CASE Full
  BY <1>1, <1>2, <1>5, Zenon DEF RingInv
<1>6. CASE ~Full
  <2>1. AheadOf(LineStart, rbd_index) < AheadOf(LineStart, hwIndex)
    BY <1>2, <1>6, Zenon DEF RingInv
  <2>2. AheadOf(LineStart, i) < AheadOf(LineStart, hwIndex)
    BY <1>4, <2>1
  <2> QED
    BY <1>1, <1>2, <2>2, Zenon DEF RingInv
<1> QED
  BY <1>5, <1>6, Zenon

(* The ring is empty after a start.                                         *)
LEMMA EmptyRing ==
  ASSUME FEC_RBD_NUM \in Nat
  PROVE  0 \in Descs /\ 0 % DescsPerLine = 0
<1>1. 0 = DescsPerLine * 0 + 0 /\ 0 \in 0 .. DescsPerLine - 1 /\ 0 \in Nat
  BY RingAssumption
<1> QED
  BY <1>1, RingAssumption, UniqueDivision DEF Descs

(* The receive ring after fec_rbd_init().                                   *)
LEMMA RxInitInv == RxInit => RInv
<1> SUFFICES ASSUME RxInit PROVE RInv
  OBVIOUS
<1>1. 0 \in Descs
  BY EmptyRing, RingAssumption, Zenon
<1>2. /\ rbd \in [Descs -> Statuses] /\ hwIndex \in Descs
      /\ rbd_index \in Descs /\ DOMAIN rbdCache = Lines /\ rxpc \in Pcs
  BY <1>1, Zenon DEF RxInit, Statuses, Pcs
<1>3. rdar \in BOOLEAN /\ phyUp \in BOOLEAN
  BY Zenon  DEF RxInit
<1>4. RTInv
  BY <1>2, <1>3, Zenon  DEF RTInv
<1> QED
  BY <1>4, Zenon DEF RInv, RxInit, RingInv, HeldInv, CacheInv, SleepInv, Running

(* No step leaves the types.                                                *)
LEMMA RxTypeStep ==
  ASSUME RTInv, CacheInv, RxNext
  PROVE  RTInv'
<1>1. 0 \in Descs /\ NextDesc(hwIndex) \in Descs /\ NextDesc(rbd_index) \in Descs
  BY EmptyRing, NextIs, RingAssumption, Zenon DEF RTInv
<1>2. hwIndex' \in Descs /\ rbd_index' \in Descs
  BY <1>1, Zenon
  DEF RTInv, RxNext, Controller, FecRecv, Store, Sleep, Babble, Evict,
      InvalidateRbd, ReadStatus, InvalidateData, PassUp, NetReceiveReturns,
      HaltInReceive, ReturnHalted, InitInReceive, CleanLine, FlushLine,
      EnableRx, HaltOnBabr, EthHalt, FecHalt, FecInit
<1>3. DOMAIN rbdCache' = Lines
  BY Zenon DEF RTInv, RxNext, Controller, FecRecv, Store, Sleep, Babble, Evict,
         InvalidateRbd, ReadStatus, InvalidateData, PassUp, NetReceiveReturns,
         HaltInReceive, ReturnHalted, InitInReceive, CleanLine, FlushLine,
         EnableRx, HaltOnBabr, EthHalt, FecHalt, FecInit
<1>4. rxpc' \in Pcs
  BY Zenon DEF RTInv, RxNext, Controller, FecRecv, Store, Sleep, Babble, Evict,
         InvalidateRbd, ReadStatus, InvalidateData, PassUp, NetReceiveReturns,
         HaltInReceive, ReturnHalted, InitInReceive, CleanLine, FlushLine,
         EnableRx, HaltOnBabr, EthHalt, FecHalt, FecInit, Pcs
<1>5. rdar' \in BOOLEAN /\ phyUp' \in BOOLEAN
  BY Zenon 
  DEF RTInv, RxNext, Controller, FecRecv, Store, Sleep, Babble, Evict,
      InvalidateRbd, ReadStatus, InvalidateData, PassUp, NetReceiveReturns,
      HaltInReceive, ReturnHalted, InitInReceive, CleanLine, FlushLine,
      EnableRx, HaltOnBabr, EthHalt, FecHalt, FecInit
<1>6. rbd' \in [Descs -> Statuses]
  <2>1. CASE \E r, d \in BOOLEAN : Store(r, d)
    BY <2>1, Zenon DEF RTInv, Store, Statuses
  <2>2. CASE FlushLine
    <3>1. rbd' = [i \in Descs |-> IF i \in DescsOf(Line(rbd_index))
                                  THEN rbdCache[Line(rbd_index)][i] ELSE rbd[i]]
      BY <2>2, Zenon DEF FlushLine
    <3>2. \A i \in DescsOf(Line(rbd_index)) :
            rbdCache[Line(rbd_index)][i] = "EMPTY"
      BY <2>2, Zenon DEF FlushLine, CacheInv
    <3> QED
      BY <3>1, <3>2, Zenon DEF RTInv, Statuses
  <2>3. CASE \E from, to \in Pcs, up \in BOOLEAN : FecInit(from, to, up)
    BY <2>3, Zenon DEF FecInit, Statuses
  <2>4. CASE UNCHANGED rbd
    BY <2>4, Zenon DEF RTInv
  <2> QED
    BY <2>1, <2>2, <2>3, <2>4, Zenon
    DEF RxNext, Controller, FecRecv, Sleep, Babble, Evict, InvalidateRbd,
        ReadStatus, InvalidateData, PassUp, NetReceiveReturns, HaltInReceive,
        ReturnHalted, InitInReceive, CleanLine, EnableRx, HaltOnBabr, EthHalt,
        FecHalt, Pcs
<1> QED
  BY <1>2, <1>3, <1>4, <1>5, <1>6, Zenon  DEF RTInv

(* A frame is stored.                                                       *)
LEMMA StoreKeeps ==
  ASSUME RInv, RTInv', NEW r \in BOOLEAN, NEW d \in BOOLEAN, Store(r, d)
  PROVE  RInv'
<1>t. RTInv /\ RingInv /\ HeldInv /\ CacheInv /\ SleepInv
  BY Zenon DEF RInv
<1>1. /\ Running /\ rdar /\ rbd[hwIndex] = "EMPTY" /\ hwIndex \in Descs
      /\ rbd \in [Descs -> Statuses] /\ rbd' \in [Descs -> Statuses]
      /\ hwIndex' = NextDesc(hwIndex) /\ rbd'[hwIndex] # "EMPTY"
      /\ \A i \in Descs : i # hwIndex => rbd'[i] = rbd[i]
      /\ UNCHANGED <<rdar, rbd_index, rxpc, phyUp>>
  BY <1>t, Zenon DEF Store, RTInv
<1>2. /\ LineStart' = LineStart /\ Base' = Base /\ Base \in Descs /\ Running'
      /\ LineStart \in Descs /\ rbd_index \in Descs
  BY <1>1, <1>t, BaseIs, Zenon DEF LineStart, Base, Running, RTInv
<1>3. RingInv'
  <2>1. ~Full
    BY <1>1, Zenon DEF Full
  <2>2. \A i \in Descs :
          rbd[i] # "EMPTY" <=> AheadOf(Base, i) < AheadOf(Base, hwIndex)
    BY <1>t, <1>1, <2>1, Zenon DEF RingInv
  <2>3. CASE NextDesc(hwIndex) = Base
    <3>1. \A i \in Descs : rbd'[i] # "EMPTY"
      <4> SUFFICES ASSUME NEW i \in Descs, i # hwIndex
                   PROVE  rbd[i] # "EMPTY"
        BY <1>1, Zenon
      <4>1. /\ AheadOf(Base, hwIndex) = FEC_RBD_NUM - 1
            /\ AheadOf(Base, i) \in 0 .. FEC_RBD_NUM - 1
            /\ AheadOf(Base, i) # AheadOf(Base, hwIndex)
        BY <1>1, <1>2, <2>3, Distances, Zenon
      <4> QED
        BY <2>2, <4>1, RingAssumption
    <3>2. Full'
      BY <1>1, <1>2, <2>3, <3>1, Zenon DEF Full
    <3> QED
      BY <3>1, <3>2, Zenon DEF RingInv
  <2>4. CASE NextDesc(hwIndex) # Base
    <3>1. ~Full'
      BY <1>1, <1>2, <2>4, Zenon DEF Full
    <3>2. AheadOf(Base, hwIndex') = AheadOf(Base, hwIndex) + 1
      BY <1>1, <1>2, <2>4, Distances, Zenon
    <3>3. ASSUME NEW i \in Descs
          PROVE  rbd'[i] # "EMPTY" <=> AheadOf(Base, i) < AheadOf(Base, hwIndex')
      <4>1. /\ AheadOf(Base, i) \in Int /\ AheadOf(Base, hwIndex) \in Int
            /\ AheadOf(Base, i) = AheadOf(Base, hwIndex) => i = hwIndex
        BY <1>1, <1>2, Distances, RingAssumption
      <4>2. CASE i = hwIndex
        BY <1>1, <3>2, <4>1, <4>2
      <4>3. CASE i # hwIndex
        BY <1>1, <2>2, <3>2, <4>1, <4>3
      <4> QED
        BY <4>2, <4>3, Zenon
    <3> QED
      BY <1>2, <3>1, <3>3, Zenon DEF RingInv, AheadOf
  <2> QED
    BY <2>3, <2>4, Zenon
<1>4. HeldInv'
  BY <1>t, <1>1, <1>2, Zenon DEF HeldInv, Running
<1>5. CacheInv'
  <2> DEFINE l == Line(hwIndex)
  <2>1. /\ rbdCache' = [rbdCache EXCEPT ![l] = IF r THEN SeenRbd(l) ELSE NoLine]
        /\ DOMAIN rbdCache = Lines
    BY <1>t, Zenon DEF Store, RTInv
  <2>2. ASSUME NEW k \in Lines, rbdCache'[k] # NoLine, NEW i \in DescsOf(k),
               rbdCache'[k][i] # "EMPTY"
        PROVE  rbdCache'[k][i] = rbd'[i]
    <3>1. i \in Descs
      BY Zenon DEF DescsOf
    <3>2. rbdCache'[k][i] = rbd[i]
      <4>1. CASE k = l
        <5>1. rbdCache'[k] = SeenRbd(k)
          BY <2>1, <2>2, <4>1, Zenon
        <5> QED
          BY <5>1, <2>2, <1>t, Zenon DEF SeenRbd, CacheInv
      <4>2. CASE k # l
        BY <2>1, <2>2, <4>2, <1>t, Zenon DEF CacheInv
      <4> QED
        BY <4>1, <4>2, Zenon
    <3> QED
      BY <1>1, <2>2, <3>1, <3>2, Zenon
  <2>3. rxpc' = "flush" =>
          rbdCache'[Line(rbd_index)] = [i \in DescsOf(Line(rbd_index)) |-> "EMPTY"]
    <3> SUFFICES ASSUME rxpc = "flush"
                 PROVE  rbdCache'[Line(rbd_index)] = rbdCache[Line(rbd_index)]
      BY <1>t, <1>1, Zenon DEF CacheInv
    <3>1. \A i \in DescsOf(Line(rbd_index)) : rbd[i] # "EMPTY"
      BY <1>t, OursWhileWritten, Zenon DEF HeldInv
    <3>2. Line(rbd_index) # l /\ Line(rbd_index) \in Lines
      BY <1>t, <1>1, <3>1, BaseIs, Zenon DEF DescsOf
    <3> QED
      BY <2>1, <3>2, Zenon
  <2> QED
    BY <1>1, <2>2, <2>3, Zenon DEF CacheInv
<1>6. SleepInv'
  BY <1>1, Zenon DEF SleepInv
<1> QED
  BY <1>3, <1>4, <1>5, <1>6, Zenon DEF RInv

(* A line is given back.                                                    *)
LEMMA FlushKeeps ==
  ASSUME RInv, RTInv', FlushLine
  PROVE  RInv'
<1> DEFINE line == DescsOf(Line(rbd_index))
<1>t. RTInv /\ RingInv /\ HeldInv /\ CacheInv /\ SleepInv
  BY Zenon DEF RInv
<1>1. /\ rxpc = "flush" /\ rxpc' = "enable" /\ Running /\ Running'
      /\ UNCHANGED <<hwIndex, rdar, rbd_index, phyUp>>
      /\ rbd_index \in Descs /\ hwIndex \in Descs /\ line \subseteq Descs
      /\ rbdCache' = [rbdCache EXCEPT ![Line(rbd_index)] = NoLine]
      /\ DOMAIN rbdCache = Lines /\ rbd_index % DescsPerLine = DescsPerLine - 1
  BY <1>t, Zenon DEF FlushLine, RTInv, Running, HeldInv, DescsOf
<1>2. /\ \A i \in line : rbd'[i] = "EMPTY"
      /\ \A i \in Descs : i \notin line => rbd'[i] = rbd[i]
  <2>1. rbd' = [i \in Descs |-> IF i \in line
                                THEN rbdCache[Line(rbd_index)][i] ELSE rbd[i]]
    BY Zenon DEF FlushLine
  <2>2. \A i \in line : rbdCache[Line(rbd_index)][i] = "EMPTY"
    BY <1>t, <1>1, Zenon DEF CacheInv
  <2> QED
    BY <1>1, <2>1, <2>2, Zenon
<1>3. \A i \in line : rbd[i] # "EMPTY"
  BY <1>t, <1>1, OursWhileWritten, Zenon
<1>4. /\ Base = LineStart /\ LineStart \in Descs /\ LineStart \in line
      /\ Base' = NextDesc(rbd_index) /\ NextDesc(rbd_index) \in Descs
      /\ LineStart' = LineStart
  BY <1>t, <1>1, BaseIs, NextIs, RingAssumption DEF Base, LineStart, Descs
<1> DEFINE s == LineStart
<1> DEFINE n == NextDesc(rbd_index)
<1>5. ASSUME NEW i \in Descs
      PROVE  /\ i \in line <=> AheadOf(s, i) < DescsPerLine
             /\ AheadOf(n, i) = IF i \in line
                              THEN AheadOf(s, i) - DescsPerLine + FEC_RBD_NUM
                              ELSE AheadOf(s, i) - DescsPerLine
             /\ AheadOf(s, i) \in 0 .. FEC_RBD_NUM - 1
             /\ AheadOf(s, i) = 0 <=> i = s
             /\ AheadOf(n, i) = 0 <=> i = n
  BY <1>1, <1>4, DistancesAfter, Distances, Zenon DEF LineStart
<1>6. \A i \in Descs : rbd[i] # "EMPTY" <=>
        hwIndex = s \/ AheadOf(s, i) < AheadOf(s, hwIndex)
  BY <1>t, <1>1, <1>3, <1>4, Zenon DEF RingInv, Full
<1>7. hwIndex # s => AheadOf(s, hwIndex) >= DescsPerLine
  <2>1. hwIndex # s => rbd[hwIndex] = "EMPTY"
    BY <1>1, <1>5, <1>6, RingAssumption
  <2> QED
    BY <1>1, <1>3, <1>5, <2>1, RingAssumption
<1> HIDE DEF line, s, n
<1>8. RingInv'
  <2>1. ~Full'
    <3> SUFFICES ASSUME hwIndex = n, n \notin line, rbd[n] # "EMPTY" PROVE FALSE
      BY <1>1, <1>2, <1>4, Zenon DEF Full, n
    <3>1. n \in Descs /\ AheadOf(n, n) = 0 /\ AheadOf(s, n) = DescsPerLine
      BY <1>4, <1>5, RingAssumption DEF n
    <3> QED
      BY <1>5, <1>6, <3>1, RingAssumption, Zenon
  <2>2. ASSUME NEW i \in Descs
        PROVE  rbd'[i] # "EMPTY" <=> AheadOf(n, i) < AheadOf(n, hwIndex)
    <3>1. CASE i \in line
      BY <1>1, <1>2, <1>5, <1>7, <3>1, RingAssumption
    <3>2. CASE i \notin line
      <4>1. CASE hwIndex = s
        BY <1>1, <1>2, <1>4, <1>5, <1>6, <3>2, <4>1, RingAssumption DEF s
      <4>2. CASE hwIndex # s
        BY <1>1, <1>2, <1>5, <1>6, <1>7, <3>2, <4>2, RingAssumption
      <4> QED
        BY <4>1, <4>2, Zenon
    <3> QED
      BY <3>1, <3>2, Zenon
  <2> QED
    BY <1>1, <1>4, <2>1, <2>2, Zenon DEF RingInv, n, AheadOf
<1>9. HeldInv'
  BY <1>t, <1>1, Zenon DEF HeldInv
<1>10. CacheInv'
  <2>1. ASSUME NEW k \in Lines, rbdCache'[k] # NoLine, NEW i \in DescsOf(k),
               rbdCache'[k][i] # "EMPTY"
        PROVE  rbdCache'[k][i] = rbd'[i]
    <3>1. k # Line(rbd_index) /\ rbdCache'[k] = rbdCache[k]
      BY <1>1, <2>1, Zenon
    <3>2. i \in Descs /\ i \notin line
      BY <3>1, Zenon DEF DescsOf, line
    <3> QED
      BY <1>t, <1>2, <2>1, <3>1, <3>2, Zenon DEF CacheInv
  <2> QED
    BY <1>1, <2>1, Zenon DEF CacheInv
<1>11. SleepInv'
  <2> SUFFICES ASSUME phyUp, ~rdar PROVE hwIndex = LineStart
    BY <1>1, <1>4, Zenon DEF SleepInv
  <2>1. rbd[hwIndex] # "EMPTY"
    BY <1>t, <1>1, Zenon DEF SleepInv
  <2>2. Full
    BY <1>t, <1>1, <2>1, FullThere, Zenon
  <2> QED
    BY <1>4, <2>2, Zenon DEF Full
<1> QED
  BY <1>8, <1>9, <1>10, <1>11, Zenon DEF RInv

(* fec_recv() goes on to the next descriptor.                               *)
LEMMA EnableKeeps ==
  ASSUME RInv, RTInv', EnableRx
  PROVE  RInv'
<1>t. RTInv /\ RingInv /\ HeldInv /\ CacheInv /\ SleepInv
  BY Zenon DEF RInv
<1>1. /\ rxpc' = "idle" /\ Running /\ Running' /\ rdar' /\ rbd_index \in Descs
      /\ rbd_index' = NextDesc(rbd_index)
      /\ UNCHANGED <<rbd, rbdCache, hwIndex>>
  BY <1>t, Zenon DEF EnableRx, Running, RTInv
<1>2. Base' = Base
  <2>1. CASE rxpc = "enable"
    <3>1. NextDesc(rbd_index) % DescsPerLine = 0
      BY <1>t, <1>1, <2>1, NextLined, Zenon DEF HeldInv
    <3>2. NextDesc(rbd_index) \in Descs
      BY <1>1, NextIs, Zenon
    <3>3. LineStart' = NextDesc(rbd_index)
      BY <1>1, <3>1, <3>2, RingAssumption DEF LineStart, Descs
    <3> QED
      BY <1>1, <2>1, <3>3, Zenon DEF Base
  <2>2. CASE rxpc = "clean" /\ rbd_index % DescsPerLine # DescsPerLine - 1
    <3> DEFINE m == rbd_index % DescsPerLine
    <3>1. /\ NextDesc(rbd_index) = rbd_index + 1
          /\ (rbd_index + 1) % DescsPerLine = m + 1
      BY <1>1, <2>2, NextLined, Zenon
    <3>2. m \in 0 .. DescsPerLine - 1
      BY <1>1, Lined, Zenon
    <3>3. rbd_index' = rbd_index + 1
      BY <1>1, <3>1, Zenon
    <3>4. LineStart' = LineStart
      <4>1. LineStart' = (rbd_index + 1) - ((rbd_index + 1) % DescsPerLine)
        BY <3>3, Zenon  DEF LineStart
      <4>2. LineStart = rbd_index - m
        BY Zenon  DEF LineStart
      <4>3. rbd_index \in Int /\ m \in Int
        BY <1>1, <3>2, RingAssumption DEF Descs
      <4> HIDE DEF m
      <4> QED
        BY <3>1, <4>1, <4>2, <4>3
    <3> QED
      BY <1>1, <2>2, <3>4, Zenon DEF Base
  <2> QED
    BY <2>1, <2>2, Zenon DEF EnableRx
<1>3. RingInv'
  BY <1>t, <1>1, <1>2, Zenon DEF RingInv, Full, AheadOf
<1>4. HeldInv'
  BY <1>1, Zenon DEF HeldInv
<1>5. CacheInv'
  BY <1>t, <1>1, Zenon DEF CacheInv
<1>6. SleepInv'
  BY <1>1, Zenon DEF SleepInv
<1> QED
  BY <1>3, <1>4, <1>5, <1>6, Zenon DEF RInv

(* The steps that change neither the descriptors nor a place in the ring.   *)
LEMMA OthersKeep ==
  ASSUME RInv, RTInv', UNCHANGED <<rbd, hwIndex, rbd_index, phyUp>>,
         rxpc = "enable" <=> rxpc' = "enable", Running <=> Running',
         rxpc' \in {"buffer", "copy", "receive", "flush"} => rbd[rbd_index] # "EMPTY",
         rxpc' = "clean" => \/ rbd[rbd_index] # "EMPTY"
                            \/ rbd_index % DescsPerLine # DescsPerLine - 1,
         rxpc' = "flush" => rbd_index % DescsPerLine = DescsPerLine - 1,
         CacheInv', ~rdar' => ~rdar \/ rbd[hwIndex] # "EMPTY"
  PROVE  RInv'
<1>1. LineStart' = LineStart /\ Base' = Base
  BY Zenon DEF LineStart, Base
<1>2. RingInv'
  BY <1>1, Zenon DEF RInv, RingInv, Full, AheadOf
<1>3. HeldInv'
  BY <1>1, Zenon DEF RInv, HeldInv
<1>4. SleepInv'
  BY <1>1, Zenon DEF RInv, SleepInv
<1> QED
  BY <1>2, <1>3, <1>4, Zenon DEF RInv

(* The device is started.                                                   *)
LEMMA StartKeeps ==
  ASSUME RTInv', NEW from, NEW to \in {"idle", "clean"}, NEW up \in BOOLEAN,
         FecInit(from, to, up)
  PROVE  RInv'
<1>1. 0 \in Descs /\ 0 % DescsPerLine = 0
  BY EmptyRing, RingAssumption, Zenon
<1>2. /\ rxpc' \in {"idle", "clean"} /\ hwIndex' = 0 /\ rbd_index' = 0
      /\ rbd' = [i \in Descs |-> "EMPTY"]
      /\ rbdCache' = [l \in Lines |-> NoLine]
  BY Zenon DEF FecInit
<1>3. phyUp' = rdar'
  BY Zenon  DEF FecInit
<1>4. LineStart' = 0 /\ Base' = 0
  <2>1. LineStart' = 0 - (0 % DescsPerLine)
    BY <1>2, Zenon  DEF LineStart
  <2> QED
    BY <1>1, <1>2, <2>1 DEF Base
<1>5. RingInv'
  BY <1>1, <1>2, <1>4, RingAssumption DEF RingInv, Full, AheadOf, Descs
<1>6. HeldInv'
  <2>1. 0 # DescsPerLine - 1
    BY RingAssumption
  <2> QED
    BY <1>1, <1>2, <2>1, Zenon DEF HeldInv
<1>7. CacheInv'
  BY <1>2, Zenon DEF CacheInv
<1>8. SleepInv'
  BY <1>3, Zenon DEF SleepInv
<1> QED
  BY <1>5, <1>6, <1>7, <1>8, Zenon DEF RInv

(* Every step of the controller, of the cache and of the driver keeps the   *)
(* invariant.                                                               *)
LEMMA RxStep == RInv /\ [RxNext]_rxVars => RInv'
<1> SUFFICES ASSUME RInv, [RxNext]_rxVars PROVE RInv'
  OBVIOUS
<1>t. RTInv /\ CacheInv /\ HeldInv
  BY Zenon  DEF RInv
<1>0. CASE UNCHANGED rxVars
  BY <1>0 DEF rxVars, RInv, RTInv, RingInv, HeldInv, CacheInv, SleepInv, Running,
              Full, Base, LineStart, AheadOf
<1> SUFFICES ASSUME RxNext PROVE RInv'
  BY <1>0, Zenon
<1>u. RTInv'
  BY <1>t, RxTypeStep, Zenon
<1>1. CASE \E r, d \in BOOLEAN : Store(r, d)
  BY <1>1, <1>u, StoreKeeps, Zenon
<1>2. CASE FlushLine
  BY <1>2, <1>u, FlushKeeps, Zenon
<1>3. CASE EnableRx
  BY <1>3, <1>u, EnableKeeps, Zenon
<1>4. CASE \E from \in Pcs, to \in {"idle", "clean"}, up \in BOOLEAN :
             FecInit(from, to, up)
  BY <1>4, <1>u, StartKeeps, Zenon
<1>5. CASE EthHalt \/ HaltOnBabr \/ HaltInReceive \/ ReturnHalted
  <2>1. /\ ~Running' /\ rxpc' \in {"off", "restart", "halted"}
        /\ UNCHANGED <<rbd, rbdCache>>
    BY <1>5, Zenon
    DEF EthHalt, HaltOnBabr, HaltInReceive, ReturnHalted, FecHalt, Running
  <2>2. CacheInv'
    BY <1>t, <2>1, Zenon DEF CacheInv
  <2> QED
    BY <1>u, <2>1, <2>2, Zenon DEF RInv, RingInv, HeldInv, SleepInv
<1>6. CASE Sleep \/ Babble
  <2>1. /\ UNCHANGED <<rbd, rbdCache, hwIndex, rbd_index, phyUp, rxpc>>
        /\ ~rdar' => ~rdar \/ rbd[hwIndex] # "EMPTY"
    BY <1>6 DEF Sleep, Babble
  <2>2. CacheInv' /\ (Running <=> Running')
    BY <1>t, <2>1, Zenon DEF CacheInv, Running
  <2> QED
    BY <1>t, <1>u, <2>1, <2>2, OthersKeep, Zenon DEF HeldInv
<1>7. CASE InvalidateRbd \/ \E l \in Lines : Evict(l)
  <2>1. PICK l \in Lines :
          /\ rbdCache' = [rbdCache EXCEPT ![l] = NoLine]
          /\ rxpc' = "flush" => l # Line(rbd_index)
    BY <1>7, <1>t, BaseIs, Zenon DEF InvalidateRbd, Evict, Dirty
  <2>2. /\ UNCHANGED <<rbd, hwIndex, rbd_index, phyUp, rdar>>
        /\ rxpc' = rxpc \/ (rxpc = "idle" /\ rxpc' = "status")
    BY <1>7, Zenon DEF InvalidateRbd, Evict
  <2>3. CacheInv'
    <3>1. DOMAIN rbdCache = Lines /\ Line(rbd_index) \in Lines
      BY <1>t, BaseIs, Zenon DEF RTInv
    <3> QED
      BY <1>t, <2>1, <2>2, <3>1, Zenon DEF CacheInv
  <2> QED
    BY <1>t, <1>u, <2>2, <2>3, OthersKeep, Zenon DEF HeldInv, Running
<1>8. CASE ReadStatus
  <2>1. /\ UNCHANGED <<rbd, rbdCache, hwIndex, rbd_index, phyUp, rdar>>
        /\ rxpc = "status" /\ rxpc' \in {"idle", "buffer", "clean"}
    BY <1>8, Zenon DEF ReadStatus
  <2>2. rxpc' # "idle" => rbd[rbd_index] # "EMPTY"
    BY <1>8, <1>t, StatusIs, Zenon DEF ReadStatus
  <2>3. CacheInv'
    BY <1>t, <2>1, Zenon DEF CacheInv
  <2> QED
    BY <1>u, <2>1, <2>2, <2>3, OthersKeep, Zenon DEF Running
<1>9. CASE InvalidateData \/ PassUp \/ NetReceiveReturns
  <2>1. /\ UNCHANGED <<rbd, rbdCache, hwIndex, rbd_index, phyUp, rdar>>
        /\ rxpc \in {"buffer", "copy", "receive"}
        /\ rxpc' \in {"copy", "receive", "clean"}
    BY <1>9, Zenon DEF InvalidateData, PassUp, NetReceiveReturns
  <2>2. CacheInv' /\ rbd[rbd_index] # "EMPTY"
    BY <1>t, <2>1, Zenon DEF CacheInv, HeldInv
  <2> QED
    BY <1>u, <2>1, <2>2, OthersKeep, Zenon DEF Running
<1>10. CASE CleanLine
  <2>1. /\ UNCHANGED <<rbd, hwIndex, rbd_index, phyUp, rdar>>
        /\ rxpc = "clean" /\ rxpc' = "flush"
        /\ rbd_index % DescsPerLine = DescsPerLine - 1
        /\ rbdCache' = [rbdCache EXCEPT ![Line(rbd_index)] =
                          [i \in DescsOf(Line(rbd_index)) |-> "EMPTY"]]
    BY <1>10, Zenon DEF CleanLine
  <2>2. CacheInv'
    <3>1. DOMAIN rbdCache = Lines /\ Line(rbd_index) \in Lines
      BY <1>t, BaseIs, Zenon DEF RTInv
    <3> QED
      BY <1>t, <2>1, <3>1, Zenon DEF CacheInv
  <2>3. rbd[rbd_index] # "EMPTY"
    BY <1>t, <2>1, Zenon DEF HeldInv
  <2> QED
    BY <1>u, <2>1, <2>2, <2>3, OthersKeep, Zenon DEF Running
<1> QED
  BY <1>1, <1>2, <1>3, <1>4, <1>5, <1>6, <1>7, <1>8, <1>9, <1>10, Zenon
  DEF RxNext, Controller, FecRecv, InitInReceive, Pcs

(* A controller that sleeps is woken by a later step of fec_recv(), for     *)
(* every size of ring and line: no interleaving of its going to sleep with  *)
(* the driver's clearing and enabling loses the wake-up.                    *)
THEOREM SleeperIsWoken == RxSpec => []WillBeWoken
<1>1. RInv => WillBeWoken
  <2> SUFFICES ASSUME RInv, Running, phyUp, ~rdar, rxpc # "enable"
               PROVE  rbd[rbd_index] # "EMPTY"
    BY Zenon DEF WillBeWoken
  <2>1. RTInv /\ RingInv /\ rbd[hwIndex] # "EMPTY" /\ rbd_index \in Descs
    BY Zenon DEF RInv, SleepInv, RTInv
  <2>2. Full
    BY <2>1, FullThere, Zenon
  <2> QED
    BY <2>1, <2>2, Zenon DEF RingInv
<1> QED
  BY <1>1, RxInitInv, RxStep, PTL DEF RxSpec

(* The controller never touches a line of descriptors while fec_recv() has  *)
(* it in the cache, written and not flushed.                                *)
THEOREM WrittenLineIsKept == RxSpec => []WrittenLineIsOurs
<1>1. RInv => WrittenLineIsOurs
  BY OursWhileWritten, Zenon DEF RInv, HeldInv, WrittenLineIsOurs
<1> QED
  BY <1>1, RxInitInv, RxStep, PTL DEF RxSpec

(* A running receiver loses a frame only when at most the descriptors of    *)
(* one line are not waiting to be read.                                     *)
THEOREM LossMeansFull == RxSpec => []LosesOnlyWhenFull
<1>1. RInv => LosesOnlyWhenFull
  <2> SUFFICES ASSUME RInv, Running, phyUp, ~rdar \/ rbd[hwIndex] # "EMPTY"
               PROVE  Waiting >= FEC_RBD_NUM - DescsPerLine
    BY Zenon DEF LosesOnlyWhenFull, RInv, RTInv
  <2>t. /\ RTInv /\ RingInv /\ HeldInv /\ SleepInv
        /\ rbd_index \in Descs /\ hwIndex \in Descs
    BY Zenon DEF RInv, RTInv
  <2>n. /\ FEC_RBD_NUM \in Nat \ {0} /\ DescsPerLine \in Nat \ {0}
        /\ LineStart \in Descs /\ LineStart <= rbd_index
        /\ rbd_index < LineStart + DescsPerLine
        /\ LineStart + DescsPerLine <= FEC_RBD_NUM
    <3> DEFINE m == rbd_index % DescsPerLine
    <3>1. /\ m \in 0 .. DescsPerLine - 1 /\ m <= rbd_index
          /\ rbd_index - m + DescsPerLine <= FEC_RBD_NUM
      BY <2>t, Lined, Zenon
    <3>2. LineStart = rbd_index - m
      BY Zenon  DEF LineStart
    <3> HIDE DEF m
    <3> QED
      BY <2>t, <3>1, <3>2, RingAssumption DEF Descs
  <2>1. Pending0 \in Descs
    BY <2>t, NextIs, Zenon DEF Pending0
  <2>2. Waiting = IF rbd[Pending0] = "EMPTY" THEN 0
                  ELSE IF hwIndex = Pending0 THEN FEC_RBD_NUM
                  ELSE AheadOf(Pending0, hwIndex)
    BY <2>t, <2>1, Distances DEF Waiting
  <2>3. CASE Full
    <3>1. hwIndex = Base /\ \A i \in Descs : rbd[i] # "EMPTY"
      BY <2>t, <2>3, Zenon DEF Full, RingInv
    <3>2. CASE rxpc = "enable"
      BY <2>2, <2>n, <2>1, <3>1, <3>2 DEF Pending0, Base
    <3>3. CASE rxpc # "enable"
      <4>1. hwIndex = LineStart
        BY <3>1, <3>3, Zenon DEF Base
      <4>2. Pending0 \in {rbd_index, NextDesc(rbd_index)}
        BY Zenon DEF Pending0
      <4>3. hwIndex # Pending0 =>
              AheadOf(Pending0, hwIndex) >= FEC_RBD_NUM - DescsPerLine
        BY <2>t, <2>n, <4>1, <4>2, NextIs DEF AheadOf, Descs
      <4> QED
        BY <2>1, <2>2, <2>n, <3>1, <4>3
    <3> QED
      BY <3>2, <3>3, Zenon
  <2>4. CASE ~Full
    <3>1. rxpc = "enable" /\ hwIndex = LineStart
      BY <2>t, <2>4, FullThere, Zenon DEF SleepInv
    <3>2. rbd_index = LineStart + DescsPerLine - 1
      <4>1. rbd_index % DescsPerLine = DescsPerLine - 1
        BY <2>t, <3>1, Zenon DEF HeldInv
      <4> QED
        BY <2>t, <2>n, <4>1 DEF LineStart, Descs
    <3>3. Pending0 = NextDesc(rbd_index)
      BY <3>1, Zenon DEF Pending0
    <3>4. AheadOf(Pending0, hwIndex) >= FEC_RBD_NUM - DescsPerLine
      BY <2>t, <2>n, <3>1, <3>2, <3>3, NextIs DEF AheadOf, Descs
    <3>5. CASE FEC_RBD_NUM = DescsPerLine
      BY <2>n, <2>2, <3>4, <3>5
    <3>6. CASE FEC_RBD_NUM # DescsPerLine
      <4>1. Base = Pending0 /\ AheadOf(Pending0, Pending0) = 0
        BY <2>1, <3>1, <3>3, Distances, Zenon DEF Base
      <4>2. AheadOf(Pending0, hwIndex) \in Int
        BY <2>t, <2>n, <2>1 DEF AheadOf, Descs
      <4>3. 0 < AheadOf(Pending0, hwIndex)
        <5> DEFINE d == AheadOf(Pending0, hwIndex)
        <5>1. d \in Int /\ d >= FEC_RBD_NUM - DescsPerLine
          BY <3>4, <4>2, Zenon
        <5>2. FEC_RBD_NUM - DescsPerLine > 0
          BY <2>n, <3>6, RingAssumption DEF Descs
        <5> HIDE DEF d
        <5>3. 0 < d
          BY <2>n, <5>1, <5>2
        <5> QED
          BY <5>3, Zenon DEF d
      <4>4. AheadOf(Base, Pending0) < AheadOf(Base, hwIndex)
        BY <4>1, <4>3, Zenon
      <4>5. rbd[Pending0] # "EMPTY"
        BY <2>t, <2>1, <4>4, Zenon DEF RingInv
      <4> QED
        BY <2>n, <2>2, <3>4, <4>2, <4>5
    <3> QED
      BY <3>5, <3>6, Zenon
  <2> QED
    BY <2>3, <2>4, Zenon
<1> QED
  BY <1>1, RxInitInv, RxStep, PTL DEF RxSpec

-----------------------------------------------------------------------------
(* fec_send() *)

(* A step of the controller while no wait has timed out: it sends the frame *)
(* whose turn it is, or puts TDAR or READY back.                            *)
LEMMA TxControllerKeeps ==
  ASSUME TTInv, TurnInv, WireInv, ~timeouts, TxController
  PROVE  TTInv' /\ TurnInv' /\ WireInv'
<1>1. CASE Transmit
  <2>1. txpc = "tdar" /\ NotSent /\ ready = Only(tbd_index) /\ tdar
    BY <1>1, Zenon DEF Transmit, TTInv, TurnInv, Sent, NotSent, Only, AllClear, Tbds
  <2>2. /\ framesSent' = Append(framesSent, packet) /\ packet = Len(framesSent) + 1
        /\ packet' = packet /\ framesSent \in Seq(Nat) /\ packet \in Nat
    BY <1>1, <2>1, Zenon DEF Transmit, NotSent, TTInv
  <2>3. ready' = Only(tbd_index) /\ ready' \in [Tbds -> BOOLEAN]
    BY <1>1, <2>1, Zenon DEF Transmit, NotSent, Only, Tbds
  <2>4. Sent'
    BY <1>1, <2>1, <2>2, <2>3 DEF Transmit, NotSent, Sent, Only, TTInv, Tbds
  <2>5. TTInv'
    BY <1>1, <2>2, <2>3 DEF Transmit, TTInv, Tbds
  <2>6. TurnInv'
    BY <1>1, <2>1, <2>4, Zenon DEF Transmit, TurnInv
  <2>7. WireInv'
    BY SMTT(30), <1>1, <2>2 DEF Transmit, WireInv
  <2> QED
    BY <2>5, <2>6, <2>7, Zenon
<1>2. CASE ClearTdar
  <2>1. txpc = "tdar" /\ Sent
    BY <1>2, Zenon DEF ClearTdar, TTInv, TurnInv, Sent, NotSent, Only, AllClear, Tbds
  <2> QED
    BY <1>2, <2>1, Zenon DEF ClearTdar, TTInv, TurnInv, WireInv, Sent, Tbds
<1>3. CASE ClearReady
  <2>1. txpc \in {"tdar", "ready"} /\ Sent
    BY <1>3, Zenon DEF ClearReady, TTInv, TurnInv, Sent, NotSent
  <2>2. ready' = [i \in Tbds |-> i \in {}] /\ ready' \in [Tbds -> BOOLEAN]
    <3>1. \A i \in Tbds : ready[i] => i \in clearing
      BY <2>1, Zenon DEF Sent
    <3>2. \A i \in Tbds : (ready[i] /\ i \notin clearing) <=> (i \in {})
      BY <3>1, Zenon
    <3>3. ready' = [i \in Tbds |-> ready[i] /\ i \notin clearing]
      BY <1>3, Zenon DEF ClearReady
    <3> QED
      BY <3>2, <3>3
  <2>3. Sent'
    BY <1>3, <2>1, <2>2, Zenon DEF ClearReady, Sent
  <2> QED
    BY <1>3, <2>1, <2>2, <2>3, Zenon DEF ClearReady, TTInv, TurnInv, WireInv
<1> QED
  BY <1>1, <1>2, <1>3, Zenon DEF TxController

(* A step of fec_send() itself that does not time out.                      *)
LEMMA FecSendKeeps ==
  ASSUME TTInv, TurnInv, WireInv,
         WriteTbd \/ FlushTbds \/ EnableTx \/ TdarIsClear \/ ReadyIsClear
  PROVE  TTInv' /\ TurnInv' /\ WireInv'
<1>1. CASE WriteTbd
  <2>1. /\ txpc = "idle" /\ hwNext = tbd_index /\ clearing = {} /\ ~tdar
        /\ ready = AllClear /\ copy \in {<<>>, AllClear} /\ packet = Len(framesSent)
    BY <1>1, Zenon DEF WriteTbd, TurnInv
  <2>2. Seen = AllClear
    BY <2>1, Zenon DEF Seen
  <2>3. copy' = Only(tbd_index)
    BY <1>1, <2>2, Zenon DEF WriteTbd, TTInv, AllClear, Only, Tbds
  <2>4. TTInv' /\ WireInv'
    BY <1>1 DEF WriteTbd, TTInv, WireInv
  <2>5. NotSent'
    BY <1>1, <2>1, Zenon DEF WriteTbd, NotSent, TTInv
  <2>6. ready' = AllClear' /\ copy' = Only(tbd_index)' /\ ~tdar' /\ txpc' = "flush"
    BY <1>1, <2>1, <2>3, Zenon DEF WriteTbd, AllClear, Only
  <2> QED
    BY <2>4, <2>5, <2>6, Zenon DEF TurnInv
<1>2. CASE FlushTbds
  <2>1. txpc = "flush" /\ NotSent /\ ~tdar /\ copy = Only(tbd_index)
    BY <1>2, Zenon DEF FlushTbds, TurnInv
  <2>2. Only(tbd_index) \in [Tbds -> BOOLEAN]
    BY Zenon DEF Only
  <2> QED
    BY <1>2, <2>1, <2>2, Zenon DEF FlushTbds, TTInv, TurnInv, WireInv, NotSent, Only
<1>3. CASE EnableTx
  BY <1>3, Zenon DEF EnableTx, TTInv, TurnInv, WireInv, NotSent, Only
<1>4. CASE TdarIsClear
  BY <1>4, Zenon DEF TdarIsClear, TTInv, TurnInv, WireInv, Sent
<1>5. CASE ReadyIsClear
  <2>1. txpc = "ready" /\ Sent /\ ~tdar /\ ~ready[tbd_index] /\ tbd_index \in Tbds
    BY <1>5, Zenon DEF ReadyIsClear, TurnInv, TTInv
  <2>2. clearing = {} /\ ready = AllClear
    <3>1. ready[tbd_index] <=> tbd_index \in clearing
      BY <2>1, Zenon DEF Sent
    <3>2. clearing = {}
      BY <2>1, <3>1, Zenon DEF Sent
    <3>3. \A i \in Tbds : (i \in clearing) = FALSE
      BY <3>2
    <3> QED
      BY <2>1, <3>2, <3>3, Zenon DEF Sent, AllClear
  <2>3. /\ tbd_index' = 1 - tbd_index /\ txpc' = "idle" /\ ok' = ok \cup {packet}
        /\ copy' = ready
        /\ UNCHANGED <<ready, packet, hwNext, tdar, clearing, framesSent>>
    BY <1>5, Zenon DEF ReadyIsClear, Return
  <2>4. tbd_index' = hwNext /\ packet \in 1 .. Len(framesSent)
    BY <2>1, <2>3 DEF Sent, TTInv, Tbds
  <2> QED
    <3>1. TTInv'
      BY <2>3, <2>4, Zenon DEF TTInv
    <3>2. WireInv'
      BY <2>3, <2>4, Zenon DEF WireInv
    <3>3. TurnInv'
      BY <2>1, <2>2, <2>3, <2>4, Zenon DEF TurnInv, AllClear, Sent
    <3> QED
      BY <3>1, <3>2, <3>3, Zenon
<1> QED
  BY <1>1, <1>2, <1>3, <1>4, <1>5, Zenon

(* Every step of the sender and of the controller keeps the invariant.      *)
LEMMA TxStep == TxInv /\ [TxNext]_txVars => TxInv'
<1> SUFFICES ASSUME TxInv, [TxNext]_txVars, ~timeouts'
             PROVE  TTInv' /\ TurnInv' /\ WireInv'
  BY Zenon DEF TxInv
<1>1. CASE RestartTx
  BY <1>1 DEF RestartTx, TTInv, TurnInv, WireInv, AllClear, Tbds
<1>2. CASE ~timeouts /\ TxController
  BY <1>2, TxControllerKeeps, Zenon DEF TxInv
<1>3. CASE ~timeouts /\
           (WriteTbd \/ FlushTbds \/ EnableTx \/ TdarIsClear \/ ReadyIsClear)
  BY <1>3, FecSendKeeps, Zenon DEF TxInv
<1>4. CASE ~timeouts /\ (LoadTbds \/ EvictTbds)
  BY SMTT(30), <1>4 DEF TxInv, LoadTbds, EvictTbds, TTInv, TurnInv, WireInv, Sent, NotSent,
      Only, AllClear, Tbds
<1>5. CASE ~timeouts /\ UNCHANGED txVars
  BY <1>5, Zenon DEF TxInv, txVars, TTInv, TurnInv, WireInv, Sent, NotSent, Only, AllClear
<1>6. CASE TdarTimeout \/ ReadyTimeout
  BY <1>6, Zenon  DEF TdarTimeout, ReadyTimeout, Return
<1>7. CASE timeouts /\ ~RestartTx /\ ~(TdarTimeout \/ ReadyTimeout)
  BY <1>7, Zenon  DEF TxNext, TxController, FecSend, Transmit, ClearTdar, ClearReady,
      LoadTbds, EvictTbds, WriteTbd, FlushTbds, EnableTx, TdarIsClear, ReadyIsClear,
      Return, txVars
<1> QED
  BY <1>1, <1>2, <1>3, <1>4, <1>5, <1>6, <1>7, Zenon DEF TxNext, FecSend

(* Until a wait of fec_send() times out, every frame goes out once and in   *)
(* order, and those reported as sent have gone out.                         *)
THEOREM FramesSentOnce == TxSpec => []SentOnce
<1>1. TxInit => TxInv
  BY DEF TxInit, TxInv, TTInv, TurnInv, WireInv, AllClear, Tbds
<1>2. TxInv => SentOnce
  <2> SUFFICES ASSUME TTInv, WireInv
               PROVE  /\ \A m, n \in DOMAIN framesSent : m < n => framesSent[m] < framesSent[n]
                      /\ ok \subseteq OnWire
    BY Zenon DEF TxInv, SentOnce
  <2>1. DOMAIN framesSent = 1 .. Len(framesSent)
    BY DEF TTInv
  <2> QED
    BY <2>1, Zenon DEF WireInv, OnWire
<1> QED
  BY <1>1, <1>2, TxStep, PTL DEF TxSpec

-----------------------------------------------------------------------------
(* The network loop.                                                        *)
INSTANCE WellFoundedInduction

(* NetLoop() is in its loop, and is to stay there.                          *)
InLoop == pc \in {"rx", "poll", "timer", "switch"}
GoesOn == InLoop /\ net_state = "CONTINUE"

TimerInv == GoesOn => timeHandler # "none"

LoopInv == NetTypeOK /\ OneDeviceUp /\ TimerInv

(* Which handlers can be set while which command runs.  Those of a command  *)
(* that NetLoop() left early outlive it; those of DHCP do not.              *)
HandlerInv ==
  /\ udp_packet_handler = "DhcpHandler" => protocol = "DHCP" /\ pc # "prompt"
  /\ InLoop /\ timeHandler = "BootpTimeout" => protocol = "DHCP"
  /\ timeHandler = "TftpTimeout" =>
       udp_packet_handler = "TftpHandler" /\ NetTxPacket = Server
  /\ udp_packet_handler = "TftpHandler" /\ wire.to = Server => NetTxPacket = Server
  /\ protocol = "PING" => wire.to # Server /\ (InLoop => NetTxPacket = Peer)
  /\ pc \in {"restart", "rx"} => net_state = "CONTINUE"

(* While TFTP may send to it, NetServerEther is the station of the server,  *)
(* or is being asked for.                                                   *)
EtherInv ==
  udp_packet_handler = "TftpHandler" /\ NetTxPacket = Server =>
    NetServerEther \in {NoHost, Station(Server)}

(* A pending ARP request that a reply can complete is for the packet in the *)
(* buffer: while DHCP keeps its own packets there, no reply is taken.       *)
WaitInv ==
  GoesOn /\ NetOurIP =>
    /\ timeHandler # "BootpTimeout" /\ udp_packet_handler # "DhcpHandler"
    /\ NetArpWaitPacketIP # NoHost =>
         /\ NetArpWaitPacketIP = NetTxPacket
         /\ NetArpWaitReplyIP = Station(NetTxPacket)

(* The strengthening of SentToNextHop that every step preserves.            *)
SInv == HandlerInv /\ EtherInv /\ WaitInv /\ wire.mac = Station(wire.to)
SendInv == noMac = {} => SInv

-----------------------------------------------------------------------------
USE NDevsAssumption, ArpAssumption, LoopAssumption

(* A device further on in the ring is a device.                             *)
LEMMA AheadType ==
  ASSUME NEW d \in Devices, NEW k \in Nat
  PROVE  Ahead(d, k) \in Devices
BY DEF Ahead, Devices

(* A set of natural numbers has a least one.                                *)
LEMMA MinType ==
  ASSUME NEW S \in SUBSET Nat, S # {}
  PROVE  Min(S) \in S
<1> DEFINE Less == {ss \in Nat \X Nat : ss[1] < ss[2]}
<1>1. IsWellFoundedOn(Less, Nat)
  BY NatLessThanWellFounded, Zenon DEF OpToRel
<1>2. \E x \in S : \A y \in S : ~(<<y, x>> \in Less)
  <2> HIDE DEF Less
  <2> QED
    BY <1>1, WFMin , Zenon
<1>3. PICK x \in S : \A y \in S : ~(<<y, x>> \in Less)
  BY <1>2, Zenon
<1>4. ASSUME NEW y \in S PROVE x <= y
  <2>1. ~(<<y, x>> \in Less) /\ <<y, x>> \in Nat \X Nat
    BY <1>3, Zenon
  <2>2. <<y, x>>[1] = y /\ <<y, x>>[2] = x
    OBVIOUS
  <2> QED
    BY <2>1, <2>2
<1> QED
  BY <1>4, Zenon  DEF Min

(* eth_halt() leaves no device up if only the current one was.              *)
LEMMA HaltType ==
  ASSUME NEW e \in Eth, e.active \subseteq {e.cur}
  PROVE  /\ eth_halt(e) \in Eth
         /\ eth_halt(e).active = {}
BY Zenon DEF eth_halt, Eth

(* eth_try_another() changes the current device and not what is up.         *)
LEMMA AnotherType ==
  ASSUME NEW e \in Eth, NEW r, NEW f
  PROVE  /\ eth_try_another(e, r, f) \in Eth
         /\ eth_try_another(e, r, f).active = e.active
<1>1. Ahead(e.cur, 1) \in Devices
  BY AheadType, Zenon DEF Eth
<1> DEFINE failed == IF f THEN e.cur ELSE e.first_failed
           wrap == e.NetRestartWrap \/ failed = Ahead(e.cur, 1)
<1>2. failed \in 0 .. NDevs
  BY DEF Eth, Devices
<1>3. wrap \in BOOLEAN
  BY Zenon
<1>4. eth_try_another(e, r, f) =
        IF ~r THEN e
        ELSE [e EXCEPT !.cur = Ahead(e.cur, 1), !.first_failed = failed,
                       !.NetRestartWrap = wrap]
  BY Zenon DEF eth_try_another
<1> HIDE DEF failed, wrap
<1> QED
  BY <1>1, <1>2, <1>3, <1>4, Zenon  DEF Eth

(* eth_init() leaves at most the device up that it made the current one.    *)
LEMMA InitType ==
  ASSUME NEW e \in Eth, e.active = {}, NEW r, NEW up
  PROVE  /\ eth_init(e, r, up) \in Eth
         /\ eth_init(e, r, up).active \subseteq {eth_init(e, r, up).cur}
<1> DEFINE ks == Usable(e, r, up)
           k == IF ks # {} THEN Min(ks) ELSE IF r THEN NDevs ELSE 0
<1>1. ks \in SUBSET Nat
  BY DEF Usable
<1>2. k \in Nat
  BY <1>1, MinType, Zenon
<1>3. Ahead(e.cur, k) \in Devices
  BY <1>2, AheadType, Zenon DEF Eth
<1> QED
  BY <1>3, Zenon DEF eth_init, Eth, Devices

(* A counter that is kept below its bound.                                  *)
LEMMA MinTry ==
  ASSUME NEW n \in Nat, NEW m \in Nat
  PROVE  Min({n, m}) = IF n <= m THEN n ELSE m
BY DEF Min

(* NetStartAgain() halts the device it found, and so leaves at most the new *)
(* one up; when it does not end or restart the command, it arms a timer.    *)
LEMMA StartAgain ==
  ASSUME eth \in Eth, OneDeviceUp, NetTryCount \in 1 .. MaxTry,
         net_state \in {"CONTINUE", "RESTART", "SUCCESS", "FAIL"},
         NEW h, NetStartAgain(h)
  PROVE  /\ eth' \in Eth
         /\ OneDeviceUp'
         /\ NetTryCount' \in 1 .. MaxTry
         /\ net_state' \in {"CONTINUE", "RESTART", "SUCCESS", "FAIL"}
         /\ net_state' = "CONTINUE" => timeHandler' # "none"
<1>1. eth_halt(eth) \in Eth /\ eth_halt(eth).active = {}
  BY HaltType, Zenon DEF OneDeviceUp
<1>2. CASE netretry # "yes" /\ NetTryCount >= retrycnt[netretry]
  BY <1>1, <1>2, Zenon DEF NetStartAgain, OneDeviceUp
<1>3. CASE ~(netretry # "yes" /\ NetTryCount >= retrycnt[netretry])
  <2> DEFINE t == eth_try_another(eth_halt(eth), ethrotate, ~NetRestarted)
             e(up) == eth_init(t, ethrotate, up)
  <2>1. PICK up \in SUBSET Devices :
          /\ NetTryCount' = Min({NetTryCount + 1, MaxTry})
          /\ eth' = [e(up) EXCEPT !.NetRestartWrap = FALSE]
          /\ IF ~e(up).NetRestartWrap
             THEN net_state' = "RESTART"
             ELSE IF NetDevExists
             THEN timeHandler' = "startAgainTimeout" /\ UNCHANGED net_state
             ELSE net_state' = "FAIL"
    BY <1>3, Zenon  DEF NetStartAgain
  <2>2. t \in Eth /\ t.active = {}
    BY <1>1, AnotherType, Zenon
  <2>3. e(up) \in Eth /\ e(up).active \subseteq {e(up).cur}
    BY <2>2, InitType, Zenon
  <2>4. eth' \in Eth /\ OneDeviceUp'
    <3> HIDE DEF e
    <3> QED
      BY <2>1, <2>3, Zenon  DEF Eth, OneDeviceUp
  <2>5. NetTryCount' \in 1 .. MaxTry
    <3>1. NetTryCount + 1 \in Nat /\ MaxTry \in Nat
      BY DEF MaxTry
    <3>2. NetTryCount' = IF NetTryCount + 1 <= MaxTry THEN NetTryCount + 1 ELSE MaxTry
      BY <2>1, <3>1, MinTry, Zenon
    <3> QED
      BY <3>2 DEF MaxTry
  <2> HIDE DEF e
  <2> QED
    BY <2>1, <2>4, <2>5, Zenon
<1> QED
  BY <1>2, <1>3, Zenon

(* The loop's invariant holds before the first command.                     *)
LEMMA LoopInit == Init => LoopInv
<1> SUFFICES ASSUME Init PROVE LoopInv
  OBVIOUS
<1>1. eth \in Eth /\ OneDeviceUp
  BY DEF Init, Eth, Devices, OneDeviceUp, NONE
<1> QED
  BY <1>1 DEF Init, ArpInit, LoopInv, NetTypeOK, TimerInv, GoesOn, InLoop,
              Protocols, MaxTry

(* What a packet sent by a protocol leaves of the types.                    *)
LEMMA SendType ==
  ASSUME NetTypeOK, NEW ether \in Hosts \cup {NoHost},
         NetSendUDPPacket(ether, Server) \/ ping_send \/ SendBroadcast
  PROVE  /\ NetArpWaitTry' \in {1} \cup 0 .. ARP_TIMEOUT_COUNT - 1
         /\ NetArpWaitPacketIP' \in {NoHost, Server, Peer}
         /\ NetServerEther' \in Hosts \cup {NoHost}
BY Zenon DEF NetTypeOK, NetSendUDPPacket, ping_send, SendBroadcast, ArpRequest, arpWait

(* TftpStart() keeps the types and arms its timer.                          *)
LEMMA TftpStartType ==
  ASSUME NetTypeOK, TftpStart
  PROVE  /\ NetArpWaitTry' \in {1} \cup 0 .. ARP_TIMEOUT_COUNT - 1
         /\ NetArpWaitPacketIP' \in {NoHost, Server, Peer}
         /\ NetServerEther' \in Hosts \cup {NoHost}
         /\ TftpTimeoutCount' \in 0 .. TIMEOUT_COUNT + 1
         /\ timeHandler' = "TftpTimeout"
BY SendType DEF TftpStart

(* The command starts with every device halted but the one eth_init() found.*)
LEMMA StartStep == LoopInv /\ (\E p \in Protocols : NetLoopStart(p)) => LoopInv'
<1> SUFFICES ASSUME LoopInv, NEW p \in Protocols, NetLoopStart(p)
             PROVE  LoopInv'
  OBVIOUS
<1>1. PICK ethact \in Devices, up \in SUBSET Devices :
        LET e == eth_set_current(eth_halt(eth), ethact)
            i == eth_init(e, ethrotate, up)
            any == Usable(e, ethrotate, up) # {}
        IN /\ eth' = IF any THEN i ELSE eth_halt(i)
           /\ pc' = IF any THEN "restart" ELSE "prompt"
           /\ net_state' = IF any THEN "CONTINUE" ELSE net_state
  BY Zenon  DEF NetLoopStart
<1> DEFINE e == eth_set_current(eth_halt(eth), ethact)
           i == eth_init(e, ethrotate, up)
<1>2. eth_halt(eth) \in Eth /\ eth_halt(eth).active = {}
  BY HaltType, Zenon DEF LoopInv, NetTypeOK, OneDeviceUp
<1>3. e \in Eth /\ e.active = {}
  BY <1>2, Zenon DEF eth_set_current, Eth
<1>4. i \in Eth /\ i.active \subseteq {i.cur}
  BY <1>3, InitType, Zenon
<1>5. eth_halt(i) \in Eth /\ eth_halt(i).active = {}
  BY <1>4, HaltType, Zenon
<1>6. eth' = i \/ eth' = eth_halt(i)
  BY <1>1, Zenon
<1>7. eth' \in Eth /\ OneDeviceUp'
  BY <1>4, <1>5, <1>6, Zenon DEF OneDeviceUp
<1>8. pc' \in {"restart", "prompt"} /\ net_state' \in {"CONTINUE", net_state}
  BY <1>1, Zenon
<1> QED
  BY <1>7, <1>8 DEF LoopInv, NetTypeOK, TimerInv, GoesOn, InLoop, NetLoopStart,
                    MaxTry, arpWait, protos

(* The start of an attempt keeps the loop's invariant.                      *)
LEMMA RestartStep == LoopInv /\ Restart => LoopInv'
<1> SUFFICES ASSUME LoopInv, Restart PROVE LoopInv'
  OBVIOUS
<1> USE DEF LoopInv, NetTypeOK, TimerInv, GoesOn, InLoop, arpVars, arpWait,
            protos, command
<1>1. PICK ours \in {NetOurIP, ipaddr} :
        \/ /\ eth' = eth_halt(eth) /\ pc' = "prompt"
           /\ UNCHANGED <<NetTryCount, net_state, protos, arpVars>>
        \/ /\ NetStartAgain(timeHandler) /\ pc' = "rx"
           /\ UNCHANGED <<protos, arpVars>>
        \/ /\ \/ TftpStart
              \/ ping_start
              \/ BootpRequest
           /\ pc' = "rx"
           /\ UNCHANGED <<eth, NetTryCount, net_state>>
  BY Zenon  DEF Restart
<1>2. protocol' = protocol
  BY Zenon DEF Restart
<1>3. CASE eth' = eth_halt(eth) /\ pc' = "prompt"
           /\ UNCHANGED <<NetTryCount, net_state, protos, arpVars>>
  <2>1. eth' \in Eth /\ OneDeviceUp'
    BY <1>3, HaltType, Zenon DEF OneDeviceUp
  <2> QED
    BY <1>2, <1>3, <2>1, Zenon
<1>4. CASE NetStartAgain(timeHandler) /\ pc' = "rx" /\ UNCHANGED <<protos, arpVars>>
  BY <1>2, <1>4, StartAgain, Zenon
<1>5. CASE TftpStart /\ pc' = "rx" /\ UNCHANGED <<eth, NetTryCount, net_state>>
  BY <1>2, <1>5, TftpStartType, Zenon DEF OneDeviceUp
<1>6. CASE ping_start /\ pc' = "rx" /\ UNCHANGED <<eth, NetTryCount, net_state>>
  BY <1>2, <1>6, SendType, Zenon DEF OneDeviceUp, ping_start
<1>7. CASE BootpRequest /\ pc' = "rx" /\ UNCHANGED <<eth, NetTryCount, net_state>>
  BY <1>2, <1>7, SendType, Zenon DEF OneDeviceUp, BootpRequest
<1> QED
  BY <1>1, <1>3, <1>4, <1>5, <1>6, <1>7, Zenon

(* So does every packet, or none,                                           *)
LEMMA ReceiveStep ==
  LoopInv /\ (NoPacket \/ ArpReply \/ PingReply \/ TftpPacket \/ DhcpPacket) => LoopInv'
<1> SUFFICES ASSUME LoopInv,
                    NoPacket \/ ArpReply \/ PingReply \/ TftpPacket \/ DhcpPacket
             PROVE  LoopInv'
  OBVIOUS
<1> USE DEF LoopInv, NetTypeOK, TimerInv, GoesOn, InLoop, arpVars, arpWait,
            protos, command, again, OneDeviceUp
<1>1. pc' = "poll" /\ protocol' = protocol /\ pc = "rx"
  BY Zenon  DEF NoPacket, ArpReply, PingReply, TftpPacket, DhcpPacket, Arrives, Rx
<1>2. CASE NoPacket
  BY <1>1, <1>2, Zenon DEF NoPacket
<1>3. CASE ArpReply
  BY <1>1, <1>3, Zenon DEF ArpReply, ArpReceive
<1>4. CASE PingReply
  BY <1>1, <1>4, Zenon DEF PingReply
<1>5. CASE TftpPacket
  <2>1. \/ /\ timeHandler' = "TftpTimeout"
           /\ NetSendUDPPacket(NetServerEther, Server)
           /\ net_state' \in {net_state, "SUCCESS"}
           /\ UNCHANGED <<TftpTimeoutCount, eth, NetTryCount>>
        \/ /\ eth' = eth_halt(eth) /\ net_state' = "FAIL"
           /\ UNCHANGED <<protos, NetTryCount, arpVars>>
        \/ NetStartAgain(timeHandler) /\ UNCHANGED <<protos, arpVars>>
    BY <1>5, Zenon DEF TftpPacket
  <2>2. CASE /\ timeHandler' = "TftpTimeout"
             /\ NetSendUDPPacket(NetServerEther, Server)
             /\ net_state' \in {net_state, "SUCCESS"}
             /\ UNCHANGED <<TftpTimeoutCount, eth, NetTryCount>>
    BY <1>1, <2>2, SendType, Zenon
  <2>3. CASE /\ eth' = eth_halt(eth) /\ net_state' = "FAIL"
             /\ UNCHANGED <<protos, NetTryCount, arpVars>>
    <3>1. eth' \in Eth /\ OneDeviceUp'
      BY <2>3, HaltType, Zenon
    <3> QED
      BY <1>1, <2>3, <3>1, Zenon
  <2>4. CASE NetStartAgain(timeHandler) /\ UNCHANGED <<protos, arpVars>>
    BY <1>1, <2>4, StartAgain, Zenon
  <2> QED
    BY <2>1, <2>2, <2>3, <2>4, Zenon
<1>6. CASE DhcpPacket
  <2>1. \/ SendBroadcast /\ timeHandler' = "BootpTimeout"
             /\ UNCHANGED <<net_state, TftpTimeoutCount>>
        \/ /\ net_state' = "SUCCESS" /\ NetServerEther' = Gateway
           /\ UNCHANGED <<TftpTimeoutCount, arpWait>>
        \/ TftpStart /\ UNCHANGED net_state
    BY <1>6, Zenon DEF DhcpPacket
  <2>2. UNCHANGED <<eth, NetTryCount>>
    BY <1>6, Zenon DEF DhcpPacket
  <2>3. CASE SendBroadcast /\ timeHandler' = "BootpTimeout"
             /\ UNCHANGED <<net_state, TftpTimeoutCount>>
    BY <1>1, <2>2, <2>3, SendType, Zenon
  <2>4. CASE /\ net_state' = "SUCCESS" /\ NetServerEther' = Gateway
             /\ UNCHANGED <<TftpTimeoutCount, arpWait>>
    BY <1>1, <2>2, <2>4, Zenon DEF Hosts
  <2>5. CASE TftpStart /\ UNCHANGED net_state
    BY <1>1, <2>2, <2>5, TftpStartType, Zenon
  <2> QED
    BY <2>1, <2>3, <2>4, <2>5, Zenon
<1> QED
  BY <1>2, <1>3, <1>4, <1>5, <1>6, Zenon

(* ctrl-C and the timeouts of ARP,                                          *)
LEMMA PollStep == LoopInv /\ (Ctrlc \/ ArpTimeoutCheck) => LoopInv'
<1> SUFFICES ASSUME LoopInv, Ctrlc \/ ArpTimeoutCheck PROVE LoopInv'
  BY Zenon
<1> USE DEF LoopInv, NetTypeOK, TimerInv, GoesOn, InLoop, arpVars, arpWait,
            protos, command, again, OneDeviceUp
<1>1. CASE Ctrlc
  <2>1. eth' \in Eth /\ OneDeviceUp'
    BY <1>1, HaltType, Zenon DEF Ctrlc
  <2> QED
    BY <1>1, <2>1, Zenon DEF Ctrlc
<1>2. CASE ArpTimeoutCheck /\ UNCHANGED <<again, arpVars>>
  BY <1>2, Zenon DEF ArpTimeoutCheck
<1>3. CASE ArpTimeoutCheck /\ ArpTimeout
  <2>1. pc = "poll" /\ pc' = "timer" /\ UNCHANGED <<protocol, TftpTimeoutCount>>
    BY <1>3, Zenon DEF ArpTimeoutCheck
  <2>2. CASE NetArpWaitTry + 1 >= ARP_TIMEOUT_COUNT
    <3>1. NetStartAgain(timeHandler) /\ NetArpWaitTry' = 0
          /\ UNCHANGED <<NetArpWaitPacketIP, NetServerEther>>
      BY <1>3, <2>2, Zenon DEF ArpTimeout
    <3> QED
      BY <2>1, <3>1, StartAgain
  <2>3. CASE ~(NetArpWaitTry + 1 >= ARP_TIMEOUT_COUNT)
    BY SMTT(30), <1>3, <2>1, <2>3 DEF ArpTimeout, ArpRequest
  <2> QED
    BY <2>2, <2>3, Zenon
<1> QED
  BY <1>1, <1>2, <1>3, Zenon DEF ArpTimeoutCheck

(* the timeout handlers,                                                    *)
LEMMA TimerStepInv == LoopInv /\ (Timeout \/ NoTimeout) => LoopInv'
<1> SUFFICES ASSUME LoopInv, Timeout \/ NoTimeout PROVE LoopInv'
  OBVIOUS
<1> USE DEF LoopInv, NetTypeOK, TimerInv, GoesOn, InLoop, arpVars, arpWait,
            protos, command, again, OneDeviceUp
<1>1. pc = "timer" /\ pc' = "switch" /\ protocol' = protocol
  BY Zenon DEF Timeout, NoTimeout, TimerStep
<1>2. CASE NoTimeout
  BY <1>1, <1>2, Zenon DEF NoTimeout
<1>3. CASE Timeout /\ startAgainTimeout
  BY <1>1, <1>3, Zenon DEF startAgainTimeout
<1>4. CASE Timeout /\ ping_timeout
  <2>1. eth' \in Eth /\ OneDeviceUp'
    BY <1>4, HaltType, Zenon DEF ping_timeout
  <2> QED
    BY <1>1, <1>4, <2>1, Zenon DEF ping_timeout
<1>5. CASE Timeout /\ TftpTimeout
  <2>1. TftpTimeoutCount' \in 0 .. TIMEOUT_COUNT + 1
    <3>1. TftpTimeoutCount' = Min({TftpTimeoutCount + 1, TIMEOUT_COUNT + 1})
      BY <1>5, Zenon DEF TftpTimeout
    <3> QED
      BY <3>1, MinTry
  <2>2. CASE TftpTimeoutCount + 1 > TIMEOUT_COUNT
    <3>1. NetStartAgain("none") /\ UNCHANGED arpVars
      BY <1>5, <2>2, Zenon DEF TftpTimeout
    <3> QED
      BY <1>1, <2>1, <3>1, StartAgain, Zenon
  <2>3. CASE ~(TftpTimeoutCount + 1 > TIMEOUT_COUNT)
    BY <1>1, <1>5, <2>1, <2>3, SendType, Zenon DEF TftpTimeout
  <2> QED
    BY <2>2, <2>3, Zenon
<1>6. CASE Timeout /\ BootpTimeout
  <2>1. CASE BootpExpired
    BY <1>1, <2>1, StartAgain, Zenon DEF BootpExpired
  <2>2. CASE BootpRequest /\ UNCHANGED <<eth, NetTryCount, net_state>>
    BY <1>1, <2>2, SendType, Zenon DEF BootpRequest
  <2> QED
    BY <1>6, <2>1, <2>2, Zenon DEF BootpTimeout
<1> QED
  BY <1>2, <1>3, <1>4, <1>5, <1>6, Zenon DEF Timeout

(* the end of a turn of the loop,                                           *)
LEMMA SwitchStep == LoopInv /\ Switch => LoopInv'
<1> SUFFICES ASSUME LoopInv, Switch PROVE LoopInv'
  OBVIOUS
<1>1. eth' \in Eth /\ OneDeviceUp'
  BY HaltType, Zenon DEF Switch, LoopInv, NetTypeOK, OneDeviceUp
<1> QED
  BY <1>1, Zenon DEF Switch, LoopInv, NetTypeOK, TimerInv, GoesOn, InLoop, arpVars,
              arpWait, protos

(* and so every step.                                                       *)
LEMMA LoopStep == LoopInv /\ [Next]_vars => LoopInv'
<1>1. LoopInv /\ UNCHANGED vars => LoopInv'
  BY Zenon DEF LoopInv, NetTypeOK, TimerInv, GoesOn, InLoop, OneDeviceUp, vars, command,
         again, protos, arpVars, arpWait
<1> QED
  BY <1>1, StartStep, RestartStep, ReceiveStep, PollStep, TimerStepInv, SwitchStep, Zenon
     DEF Next, Loop

(* The variables of the network loop keep their types, NetArpWaitTry and    *)
(* TftpTimeoutCount their limits.                                           *)
THEOREM NetTypeCorrect == Spec => []NetTypeOK
<1>1. LoopInv => NetTypeOK
  BY Zenon DEF LoopInv
<1> QED
  BY <1>1, LoopInit, LoopStep, PTL DEF Spec

(* Whatever devices fail and however they are rotated, at most the current  *)
(* device is up: NetStartAgain() and NetLoop() halt it before they leave it.*)
THEOREM AtMostOneUp == Spec => []OneDeviceUp
<1>1. LoopInv => OneDeviceUp
  BY Zenon DEF LoopInv
<1> QED
  BY <1>1, LoopInit, LoopStep, PTL DEF Spec

(* NetLoop() never waits for a packet without a timer.                      *)
THEOREM NeverWaitsUntimed == Spec => []TimerIsArmed
<1>1. LoopInv => TimerIsArmed
  BY Zenon DEF LoopInv, TimerInv, TimerIsArmed, GoesOn, InLoop
<1> QED
  BY <1>1, LoopInit, LoopStep, PTL DEF Spec

-----------------------------------------------------------------------------
(* The invariant of what is sent holds before the first command.            *)
LEMMA SendInit == Init => SInv
BY DEF Init, ArpInit, SInv, HandlerInv, EtherInv, WaitInv, GoesOn, InLoop, Station

(* What NetStartAgain() does to the handlers.                               *)
LEMMA AgainHandlers ==
  ASSUME NEW h, NetStartAgain(h)
  PROVE  /\ \/ timeHandler' = h /\ UNCHANGED udp_packet_handler
            \/ timeHandler' = "startAgainTimeout" /\ udp_packet_handler' = "dummy"
         /\ \/ net_state' \in {"FAIL", "RESTART"}
            \/ timeHandler' = "startAgainTimeout" /\ UNCHANGED net_state
<1>1. CASE netretry # "yes" /\ NetTryCount >= retrycnt[netretry]
  BY <1>1, Zenon DEF NetStartAgain
<1>2. CASE ~(netretry # "yes" /\ NetTryCount >= retrycnt[netretry])
  BY <1>2, Zenon  DEF NetStartAgain
<1> QED
  BY <1>1, <1>2, Zenon

(* A step of the loop that sends nothing and at most ends the command or    *)
(* takes handlers away.                                                     *)
Frame ==
  /\ InLoop /\ pc' \in {"poll", "timer", "switch"}
  /\ net_state' \in {net_state, "SUCCESS", "FAIL", "RESTART"}
  /\ timeHandler' \in {timeHandler, "none", "startAgainTimeout"}
  /\ udp_packet_handler' \in {udp_packet_handler, "dummy"}
  /\ timeHandler' = "TftpTimeout" => UNCHANGED udp_packet_handler
  /\ UNCHANGED <<protocol, NetOurIP, NetTxPacket, NetArpWaitPacketIP,
                 NetArpWaitReplyIP, NetServerEther, wire>>

(* Such a step keeps the invariant.                                         *)
LEMMA SendFrame == ASSUME SInv, Frame PROVE SInv'
<1>1. HandlerInv'
  BY Zenon DEF SInv, Frame, HandlerInv, InLoop
<1>2. EtherInv' /\ wire'.mac = Station(wire'.to)
  BY Zenon DEF SInv, Frame, EtherInv, Station
<1>3. WaitInv'
  BY Zenon DEF SInv, Frame, WaitInv, GoesOn, InLoop, Station
<1> QED
  BY <1>1, <1>2, <1>3, Zenon DEF SInv

(* NetStartAgain() is such a step, if it finds a handler that may stay.     *)
LEMMA AgainFrame ==
  ASSUME NEW h \in {timeHandler, "none"}, NetStartAgain(h),
         InLoop, pc' \in {"poll", "timer", "switch"},
         UNCHANGED <<protocol, NetOurIP, NetTxPacket, NetArpWaitPacketIP,
                     NetArpWaitReplyIP, NetServerEther, wire>>
  PROVE  Frame
<1>1. /\ timeHandler' \in {timeHandler, "none", "startAgainTimeout"}
      /\ udp_packet_handler' \in {udp_packet_handler, "dummy"}
      /\ timeHandler' = "TftpTimeout" => UNCHANGED udp_packet_handler
      /\ net_state' \in {net_state, "FAIL", "RESTART"}
  BY AgainHandlers, Zenon
<1> QED
  BY <1>1, Zenon DEF Frame

(* TFTP sends its next packet, or the last one again, to the server.        *)
LEMMA SendTftp ==
  ASSUME SInv, InLoop, pc' \in {"poll", "timer", "switch"},
         udp_packet_handler = "TftpHandler", NetTxPacket = Server,
         NetSendUDPPacket(NetServerEther, Server),
         timeHandler' = "TftpTimeout", net_state' \in {net_state, "SUCCESS"},
         UNCHANGED <<udp_packet_handler, protocol, NetOurIP>>
  PROVE  SInv'
<1>1. protocol # "PING"
  BY Zenon DEF SInv, HandlerInv
<1>2. NetTxPacket' = Server /\ NetServerEther' = NetServerEther
  BY Zenon DEF NetSendUDPPacket
<1>3. NetServerEther \in {NoHost, Station(Server)}
  BY Zenon DEF SInv, EtherInv
<1>4. wire'.mac = Station(wire'.to)
  BY <1>3 DEF SInv, NetSendUDPPacket, NetSendPacket
<1>5. HandlerInv'
  BY <1>1, <1>2, Zenon DEF SInv, HandlerInv, InLoop
<1>6. EtherInv'
  BY <1>2, <1>3, Zenon DEF EtherInv, Station
<1>7. WaitInv'
  BY Zenon DEF SInv, WaitInv, GoesOn, InLoop, Station, NetSendUDPPacket, ArpRequest, arpWait
<1> QED
  BY <1>4, <1>5, <1>6, <1>7, Zenon DEF SInv

(* TftpStart() with our address known.                                      *)
LEMMA SendTftpStart ==
  ASSUME SInv, TftpStart, NetOurIP', protocol' # "PING", pc' \in {"rx", "poll"},
         net_state' = "CONTINUE"
  PROVE  SInv'
<1>1. /\ timeHandler' = "TftpTimeout" /\ udp_packet_handler' = "TftpHandler"
      /\ NetTxPacket' = Server /\ NetServerEther' = NoHost /\ wire' = wire
      /\ NetArpWaitPacketIP' = Server /\ NetArpWaitReplyIP' = Station(Server)
  BY Zenon DEF TftpStart, NetSendUDPPacket, ArpRequest
<1>2. HandlerInv'
  BY <1>1, Zenon DEF HandlerInv, InLoop
<1>3. EtherInv' /\ wire'.mac = Station(wire'.to)
  BY <1>1, Zenon DEF SInv, EtherInv, Station
<1>4. WaitInv'
  BY <1>1, Zenon DEF WaitInv, Station
<1> QED
  BY <1>2, <1>3, <1>4, Zenon DEF SInv

(* DHCP broadcasts, while no reply to an ARP request can be taken.          *)
LEMMA SendDhcp ==
  ASSUME SInv, SendBroadcast, protocol' = "DHCP",
         timeHandler' = "BootpTimeout", udp_packet_handler' = "DhcpHandler",
         pc' # "prompt", pc' \in {"restart", "rx"} => net_state' = "CONTINUE",
         ~NetOurIP' \/ net_state' # "CONTINUE"
  PROVE  SInv'
<1>1. wire'.mac = Station(wire'.to)
  BY Zenon DEF SInv, SendBroadcast, NetSendPacket, Station
<1>2. HandlerInv' /\ EtherInv'
  BY Zenon DEF HandlerInv, EtherInv
<1>3. WaitInv'
  BY Zenon DEF WaitInv, GoesOn
<1> QED
  BY <1>1, <1>2, <1>3, Zenon DEF SInv

(* A new command forgets nothing that an earlier one has left,              *)
LEMMA SendStartStep == SInv /\ (\E p \in Protocols : NetLoopStart(p)) => SInv'
<1> SUFFICES ASSUME SInv, NEW p \in Protocols, NetLoopStart(p) PROVE SInv'
  OBVIOUS
<1>1. /\ pc = "prompt"
      /\ pc' = "prompt" \/ (pc' = "restart" /\ net_state' = "CONTINUE")
      /\ wire' = [to |-> NoHost, mac |-> NoHost]
      /\ UNCHANGED <<timeHandler, udp_packet_handler, NetTxPacket, NetServerEther>>
  BY Zenon DEF NetLoopStart
<1>2. HandlerInv'
  BY <1>1, Zenon  DEF SInv, HandlerInv, InLoop
<1>3. EtherInv' /\ WaitInv' /\ wire'.mac = Station(wire'.to)
  BY <1>1, Zenon DEF SInv, EtherInv, WaitInv, GoesOn, InLoop, Station
<1> QED
  BY <1>2, <1>3, Zenon DEF SInv

(* and the start of an attempt replaces what must not be used.              *)
LEMMA SendRestartStep == SInv /\ noMac = {} /\ Restart => SInv'
<1> SUFFICES ASSUME SInv, noMac = {}, Restart PROVE SInv'
  OBVIOUS
<1>1. /\ pc = "restart" /\ protocol' = protocol
      /\ \/ /\ protocol # "DHCP" /\ pc' = "prompt"
            /\ UNCHANGED <<timeHandler, udp_packet_handler, arpVars>>
         \/ /\ pc' = "rx" /\ UNCHANGED net_state
            /\ \/ protocol = "TFTPGET" /\ TftpStart /\ NetOurIP'
               \/ protocol = "PING" /\ ping_start /\ NetOurIP'
               \/ protocol = "DHCP" /\ BootpRequest /\ ~NetOurIP'
  BY Zenon  DEF Restart, command
<1>2. net_state = "CONTINUE"
  BY <1>1, Zenon DEF SInv, HandlerInv
<1>3. CASE /\ protocol # "DHCP" /\ pc' = "prompt"
           /\ UNCHANGED <<timeHandler, udp_packet_handler, arpVars>>
  <2>1. HandlerInv'
    BY <1>1, <1>3, Zenon  DEF SInv, HandlerInv, InLoop, arpVars
  <2>2. EtherInv' /\ WaitInv' /\ wire'.mac = Station(wire'.to)
    BY <1>3, Zenon DEF SInv, EtherInv, WaitInv, GoesOn, InLoop, Station, arpVars
  <2> QED
    BY <2>1, <2>2, Zenon DEF SInv
<1>4. CASE pc' = "rx" /\ UNCHANGED net_state /\ protocol = "TFTPGET" /\ TftpStart /\ NetOurIP'
  BY <1>1, <1>2, <1>4, SendTftpStart, Zenon
<1>5. CASE pc' = "rx" /\ UNCHANGED net_state /\ protocol = "PING" /\ ping_start /\ NetOurIP'
  <2>1. /\ timeHandler' = "ping_timeout" /\ UNCHANGED udp_packet_handler
        /\ NetTxPacket' = Peer /\ UNCHANGED wire
        /\ NetArpWaitPacketIP' = Peer /\ NetArpWaitReplyIP' = Station(Peer)
    BY <1>5, Zenon DEF ping_start, ping_send, ArpRequest
  <2>2. HandlerInv'
    BY <1>1, <1>2, <1>5, <2>1, Zenon DEF SInv, HandlerInv, InLoop
  <2>3. EtherInv' /\ wire'.mac = Station(wire'.to)
    BY <2>1, Zenon DEF SInv, EtherInv, Station
  <2>4. WaitInv'
    BY <1>1, <1>5, <2>1, <2>2, Zenon DEF SInv, HandlerInv, WaitInv, Station
  <2> QED
    BY <2>2, <2>3, <2>4, Zenon DEF SInv
<1>6. CASE pc' = "rx" /\ UNCHANGED net_state /\ protocol = "DHCP" /\ BootpRequest /\ ~NetOurIP'
  BY <1>1, <1>2, <1>6, SendDhcp, Zenon DEF BootpRequest
<1> QED
  BY <1>1, <1>3, <1>4, <1>5, <1>6, Zenon

(* A packet is answered to the station that it is for.                      *)
LEMMA SendReceiveStep ==
  SInv /\ (NoPacket \/ ArpReply \/ PingReply \/ TftpPacket \/ DhcpPacket) => SInv'
<1> SUFFICES ASSUME SInv,
                    NoPacket \/ ArpReply \/ PingReply \/ TftpPacket \/ DhcpPacket
             PROVE  SInv'
  OBVIOUS
<1>1. pc = "rx" /\ pc' = "poll" /\ protocol' = protocol
  <2>1. Rx
    BY Zenon DEF NoPacket, ArpReply, PingReply, TftpPacket, DhcpPacket, Arrives
  <2> QED
    BY <2>1, Zenon  DEF Rx, command
<1>2. InLoop /\ net_state = "CONTINUE"
  BY <1>1, Zenon DEF SInv, HandlerInv, InLoop
<1>3. CASE NoPacket \/ PingReply
  <2>1. Frame
    BY <1>1, <1>2, <1>3, Zenon  DEF NoPacket, PingReply, Frame, again, arpVars, arpWait
  <2> QED
    BY <2>1, SendFrame , Zenon
<1>4. CASE ArpReply
  <2>1. PICK from \in Hosts : ArpReceive(from)
    BY <1>4, Zenon DEF ArpReply
  <2>2. UNCHANGED <<NetOurIP, net_state, timeHandler, udp_packet_handler, NetTxPacket>>
    BY <1>4, <2>1, Zenon  DEF ArpReply, ArpReceive, again
  <2>3. NetOurIP /\ NetArpWaitPacketIP' = NoHost /\ from = Station(NetTxPacket)
    BY <1>2, <2>1, Zenon DEF SInv, WaitInv, GoesOn, ArpReceive
  <2>4. wire' \in {wire, [to |-> NetTxPacket, mac |-> from]}
    BY <2>1, Zenon DEF ArpReceive, NetSendPacket
  <2>5. NetServerEther' \in {NetServerEther, from}
    BY <2>1, Zenon DEF ArpReceive
  <2>6. HandlerInv'
    BY <1>1, <1>2, <2>2, <2>4 DEF SInv, HandlerInv, InLoop
  <2>7. EtherInv'
    BY <2>2, <2>3, <2>5, Zenon DEF SInv, EtherInv, Station
  <2>8. WaitInv' /\ wire'.mac = Station(wire'.to)
    BY <1>2, <2>2, <2>3, <2>4 DEF SInv, WaitInv, GoesOn, Station
  <2> QED
    BY <2>6, <2>7, <2>8, Zenon DEF SInv
<1>5. CASE TftpPacket
  <2>1. /\ udp_packet_handler = "TftpHandler" /\ UNCHANGED NetOurIP
        /\ NetTxPacket = Server
    BY <1>5, Zenon  DEF TftpPacket, SInv, HandlerInv
  <2>2. \/ /\ timeHandler' = "TftpTimeout"
           /\ NetSendUDPPacket(NetServerEther, Server)
           /\ net_state' \in {net_state, "SUCCESS"}
           /\ UNCHANGED udp_packet_handler
        \/ /\ net_state' = "FAIL"
           /\ UNCHANGED <<timeHandler, udp_packet_handler, arpVars>>
        \/ NetStartAgain(timeHandler) /\ UNCHANGED arpVars
    BY <1>5, Zenon DEF TftpPacket
  <2>3. CASE /\ timeHandler' = "TftpTimeout"
             /\ NetSendUDPPacket(NetServerEther, Server)
             /\ net_state' \in {net_state, "SUCCESS"}
             /\ UNCHANGED udp_packet_handler
    BY <1>1, <1>2, <2>1, <2>3, SendTftp, Zenon
  <2>4. CASE /\ net_state' = "FAIL"
             /\ UNCHANGED <<timeHandler, udp_packet_handler, arpVars>>
    BY <1>1, <1>2, <2>1, <2>4, SendFrame, Zenon DEF Frame, arpVars, arpWait
  <2>5. CASE NetStartAgain(timeHandler) /\ UNCHANGED arpVars
    BY <1>1, <1>2, <2>1, <2>5, AgainFrame, SendFrame, Zenon DEF arpVars, arpWait
  <2> QED
    BY <2>2, <2>3, <2>4, <2>5 , Zenon
<1>6. CASE DhcpPacket
  <2>1. udp_packet_handler = "DhcpHandler" /\ protocol = "DHCP"
    BY <1>6, Zenon DEF DhcpPacket, SInv, HandlerInv
  <2>2. ~NetOurIP
    BY <1>2, <2>1, Zenon DEF SInv, WaitInv, GoesOn
  <2>3. \/ /\ SendBroadcast /\ timeHandler' = "BootpTimeout"
           /\ UNCHANGED <<NetOurIP, net_state, udp_packet_handler>>
        \/ /\ net_state' = "SUCCESS"
           /\ UNCHANGED <<timeHandler, udp_packet_handler, NetTxPacket, wire>>
        \/ TftpStart /\ NetOurIP' = TRUE /\ UNCHANGED net_state
    BY <1>6, Zenon DEF DhcpPacket
  <2>4. CASE /\ SendBroadcast /\ timeHandler' = "BootpTimeout"
             /\ UNCHANGED <<NetOurIP, net_state, udp_packet_handler>>
    BY <1>1, <2>1, <2>2, <2>4, SendDhcp, Zenon
  <2>5. CASE /\ net_state' = "SUCCESS"
             /\ UNCHANGED <<timeHandler, udp_packet_handler, NetTxPacket, wire>>
    <3>1. HandlerInv'
      BY <1>1, <2>1, <2>5, Zenon DEF SInv, HandlerInv
    <3>2. EtherInv' /\ WaitInv' /\ wire'.mac = Station(wire'.to)
      BY <2>1, <2>5, Zenon DEF SInv, EtherInv, WaitInv, GoesOn, Station
    <3> QED
      BY <3>1, <3>2, Zenon DEF SInv
  <2>6. CASE TftpStart /\ NetOurIP' = TRUE /\ UNCHANGED net_state
    BY <1>1, <1>2, <2>1, <2>6, SendTftpStart, Zenon
  <2> QED
    BY <2>3, <2>4, <2>5, <2>6 , Zenon
<1> QED
  BY <1>3, <1>4, <1>5, <1>6 , Zenon

(* An ARP request is repeated for the same packet.                          *)
LEMMA SendPollStep == SInv /\ (Ctrlc \/ ArpTimeoutCheck) => SInv'
<1> SUFFICES ASSUME SInv, Ctrlc \/ ArpTimeoutCheck PROVE SInv'
  OBVIOUS
<1>1. CASE Ctrlc
  <2>1. /\ pc' = "prompt" /\ UNCHANGED <<protocol, wire>>
        /\ timeHandler' = "none" /\ udp_packet_handler' = "dummy"
    BY <1>1, Zenon DEF Ctrlc, command
  <2>2. HandlerInv' /\ EtherInv'
    BY <2>1, Zenon DEF SInv, HandlerInv, EtherInv, InLoop
  <2>3. WaitInv' /\ wire'.mac = Station(wire'.to)
    BY <2>1, Zenon DEF SInv, WaitInv, GoesOn, InLoop, Station
  <2> QED
    BY <2>2, <2>3, Zenon DEF SInv
<1>2. CASE ArpTimeoutCheck
  <2>1. /\ pc = "poll" /\ pc' = "timer" /\ UNCHANGED <<protocol, NetOurIP>>
        /\ InLoop
    BY <1>2, Zenon DEF ArpTimeoutCheck, command, InLoop
  <2>2. CASE UNCHANGED <<again, arpVars>>
    BY <2>1, <2>2, SendFrame, Zenon DEF Frame, again, arpVars, arpWait
  <2>3. CASE ArpTimeout /\ NetArpWaitTry + 1 >= ARP_TIMEOUT_COUNT
    <3>1. /\ NetStartAgain(timeHandler)
          /\ UNCHANGED <<NetTxPacket, NetArpWaitPacketIP, NetArpWaitReplyIP,
                         NetServerEther, wire>>
      BY <2>3, Zenon DEF ArpTimeout
    <3> QED
      BY <2>1, <3>1, AgainFrame, SendFrame, Zenon
  <2>4. CASE ArpTimeout /\ ~(NetArpWaitTry + 1 >= ARP_TIMEOUT_COUNT)
    <3>1. /\ ArpRequest(NetArpWaitPacketIP)
          /\ UNCHANGED <<net_state, timeHandler, udp_packet_handler, NetTxPacket,
                         NetServerEther, wire>>
          /\ NetArpWaitPacketIP # NoHost
      BY <2>4, Zenon DEF ArpTimeout, again
    <3>2. HandlerInv'
      BY <2>1, <3>1, Zenon  DEF SInv, HandlerInv, InLoop
    <3>3. EtherInv' /\ wire'.mac = Station(wire'.to)
      BY <3>1, Zenon DEF SInv, EtherInv, Station
    <3>4. WaitInv'
      BY <2>1, <3>1, Zenon DEF SInv, WaitInv, GoesOn, ArpRequest, Station
    <3> QED
      BY <3>2, <3>3, <3>4, Zenon DEF SInv
  <2> QED
    BY <1>2, <2>2, <2>3, <2>4, Zenon DEF ArpTimeoutCheck
<1> QED
  BY <1>1, <1>2, Zenon

(* What is sent again after a timeout goes to the same station.             *)
LEMMA SendTimerStep == SInv /\ (Timeout \/ NoTimeout) => SInv'
<1> SUFFICES ASSUME SInv, Timeout \/ NoTimeout PROVE SInv'
  OBVIOUS
<1>1. pc = "timer" /\ pc' = "switch" /\ UNCHANGED <<protocol, NetOurIP>>
  BY Zenon DEF Timeout, NoTimeout, TimerStep, command
<1>2. InLoop
  BY <1>1, Zenon DEF InLoop
<1>3. CASE NoTimeout \/ startAgainTimeout \/ ping_timeout
  <2>1. Frame
    BY <1>1, <1>2, <1>3, Zenon DEF NoTimeout, startAgainTimeout, ping_timeout, Frame,
                            again, arpVars, arpWait
  <2> QED
    BY <2>1, SendFrame, Zenon
<1>4. CASE timeHandler = "TftpTimeout" /\ TftpTimeout
  <2>1. CASE TftpTimeoutCount + 1 > TIMEOUT_COUNT
    <3>1. NetStartAgain("none") /\ UNCHANGED arpVars
      BY <1>4, <2>1, Zenon DEF TftpTimeout
    <3> QED
      BY <1>1, <1>2, <3>1, AgainFrame, SendFrame, Zenon DEF arpVars, arpWait
  <2>2. CASE ~(TftpTimeoutCount + 1 > TIMEOUT_COUNT)
    <3>1. /\ timeHandler' = "TftpTimeout"
          /\ NetSendUDPPacket(NetServerEther, Server)
          /\ UNCHANGED <<net_state, udp_packet_handler>>
      BY <1>4, <2>2, Zenon DEF TftpTimeout
    <3>2. udp_packet_handler = "TftpHandler" /\ NetTxPacket = Server
      BY <1>4, Zenon DEF SInv, HandlerInv
    <3> QED
      BY <1>1, <1>2, <3>1, <3>2, SendTftp, Zenon
  <2> QED
    BY <2>1, <2>2, Zenon
<1>5. CASE timeHandler = "BootpTimeout" /\ BootpTimeout
  <2>1. CASE BootpExpired
    BY <1>1, <1>2, <2>1, AgainFrame, SendFrame, Zenon DEF BootpExpired, arpVars, arpWait
  <2>2. CASE BootpRequest /\ UNCHANGED net_state
    <3>1. protocol = "DHCP" /\ (~NetOurIP \/ net_state # "CONTINUE")
      BY <1>2, <1>5, Zenon DEF SInv, HandlerInv, WaitInv, GoesOn
    <3> QED
      BY <1>1, <2>2, <3>1, SendDhcp, Zenon DEF BootpRequest
  <2> QED
    BY <1>5, <2>1, <2>2, Zenon DEF BootpTimeout
<1> QED
  BY <1>3, <1>4, <1>5, Zenon DEF Timeout

(* The end of a command leaves its wait, and no handler of DHCP.            *)
LEMMA SendSwitchStep == SInv /\ Switch => SInv'
<1> SUFFICES ASSUME SInv, Switch PROVE SInv'
  OBVIOUS
<1>1. /\ pc = "switch"
      /\ UNCHANGED <<protocol, NetOurIP, NetTxPacket, NetArpWaitPacketIP,
                     NetArpWaitReplyIP, NetServerEther, wire>>
      /\ \/ pc' = "restart" /\ net_state' = "CONTINUE"
            /\ UNCHANGED <<timeHandler, udp_packet_handler>>
         \/ pc' = "prompt" /\ timeHandler' = "none" /\ udp_packet_handler' = "dummy"
         \/ pc' = "rx" /\ net_state = "CONTINUE"
            /\ UNCHANGED <<net_state, timeHandler, udp_packet_handler>>
  BY Zenon DEF Switch, arpVars, arpWait
<1>2. HandlerInv'
  BY <1>1, Zenon DEF SInv, HandlerInv, InLoop
<1>3. EtherInv' /\ wire'.mac = Station(wire'.to)
  BY <1>1, Zenon DEF SInv, EtherInv, Station
<1>4. WaitInv'
  BY <1>1, Zenon DEF SInv, WaitInv, GoesOn, InLoop, Station
<1> QED
  BY <1>2, <1>3, <1>4, Zenon DEF SInv

(* The settings do not change.                                              *)
LEMMA SameDevices == [Next]_vars => UNCHANGED noMac
<1> USE DEF command, settings
<1>1. Restart \/ Switch \/ (\E p \in Protocols : NetLoopStart(p)) => UNCHANGED noMac
  BY Zenon  DEF Restart, Switch, NetLoopStart
<1>2. Rx => UNCHANGED noMac
  BY Zenon DEF Rx
<1>3. NoPacket \/ ArpReply \/ PingReply \/ TftpPacket \/ DhcpPacket => Rx
  BY Zenon  DEF NoPacket, ArpReply, PingReply, TftpPacket, DhcpPacket, Arrives
<1>4. Ctrlc \/ ArpTimeoutCheck \/ Timeout \/ NoTimeout => UNCHANGED noMac
  BY Zenon  DEF Ctrlc, ArpTimeoutCheck, Timeout, NoTimeout, TimerStep
<1>5. UNCHANGED vars => UNCHANGED noMac
  BY Zenon DEF vars
<1> QED
  BY <1>1, <1>2, <1>3, <1>4, <1>5, Zenon  DEF Next, Loop

(* Every step keeps the invariant of what is sent.                          *)
LEMMA SendStep == SendInv /\ [Next]_vars => SendInv'
<1> SUFFICES ASSUME SendInv, [Next]_vars, noMac' = {} PROVE SInv'
  BY Zenon DEF SendInv
<1>1. noMac = {} /\ SInv
  BY SameDevices, Zenon DEF SendInv
<1>2. ASSUME UNCHANGED vars PROVE SInv'
  <2>1. UNCHANGED <<pc, protocol, net_state, timeHandler, udp_packet_handler,
                    NetOurIP, NetTxPacket, NetArpWaitPacketIP,
                    NetArpWaitReplyIP, NetServerEther, wire>>
    BY <1>2, Zenon DEF vars, command, again, arpVars, arpWait
  <2>2. HandlerInv'
    BY <1>1, <2>1, Zenon  DEF SInv, HandlerInv, InLoop
  <2>3. EtherInv' /\ wire'.mac = Station(wire'.to)
    BY <1>1, <2>1, Zenon DEF SInv, EtherInv, Station
  <2>4. WaitInv'
    BY <1>1, <2>1, Zenon DEF SInv, WaitInv, GoesOn, InLoop, Station
  <2> QED
    BY <2>2, <2>3, <2>4, Zenon DEF SInv
<1> QED
  BY <1>1, <1>2, SendStartStep, SendRestartStep, SendReceiveStep,
     SendPollStep, SendTimerStep, SendSwitchStep, Zenon DEF Next, Loop

(* On devices that have an Ethernet address every packet goes to the next   *)
(* hop of its destination, although NetTxPacket, the ARP wait and           *)
(* NetServerEther are shared by all commands and outlive them.              *)
THEOREM PacketsReachNextHop == Spec => []SentToNextHop
<1>1. Init => SendInv
  BY SendInit, Zenon DEF SendInv
<1>2. SendInv => SentToNextHop
  BY Zenon DEF SendInv, SInv, SentToNextHop
<1> QED
  BY <1>1, <1>2, SendStep, PTL DEF Spec
=============================================================================
