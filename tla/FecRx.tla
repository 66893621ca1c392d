------------------------------- MODULE FecRx --------------------------------
(***************************************************************************)
(* Reception by the i.MX Ethernet controller, drivers/net/fec_mxc.c: a     *)
(* ring of buffer descriptors that the controller fills by DMA and the     *)
(* driver empties, on a processor whose data cache does not see the DMA.   *)
(*                                                                         *)
(* A line of the cache holds DescsPerLine descriptors.  The processor may  *)
(* load a line, or drop one it holds, at any moment.  A copy that equals   *)
(* memory makes no difference, so a copy is kept from the moment DMA       *)
(* changes the memory under it.  The driver must invalidate a line before  *)
(* it reads what DMA wrote, and may write descriptors back only by whole   *)
(* lines.  A line the driver is writing is assumed to stay in the cache    *)
(* until the driver flushes it: the code depends on that.                  *)
(*                                                                         *)
(* Frames are told apart by a number that the stored frames take in turn,  *)
(* modulo FrameNumbers, from the last start on.  A frame that is not       *)
(* stored leaves no trace.                                                 *)
(***************************************************************************)
EXTENDS Integers, Sequences

CONSTANTS
    FEC_RBD_NUM,        \* descriptors of the ring
    DescsPerLine,       \* RXDESC_PER_CACHELINE
    FrameNumbers,       \* frames told apart: more than the ring holds
    BadFrames           \* those the controller marks as faulty

ASSUME RingAssumption ==
    /\ DescsPerLine \in Nat \ {0, 1}
    /\ FEC_RBD_NUM \in Nat \ {0}
    /\ FEC_RBD_NUM % DescsPerLine = 0
    /\ FrameNumbers \in Nat /\ FrameNumbers > FEC_RBD_NUM + 1
    /\ BadFrames \subseteq 1 .. FrameNumbers

VARIABLES
    rbd,        \* descriptors in memory: "EMPTY", "GOOD" (LAST), "ERR"
    data,       \* the frame in each descriptor's buffer, in memory
    rbdCache,   \* line |-> the processor's copy where it differs from memory
    dataCache,  \* descriptor |-> the same for its buffer
    hwIndex,    \* the controller's place in the ring
    rdar,       \* r_des_active: the controller looks for empty descriptors
    babr,       \* ievent: a frame was too long
    rbd_index,
    rxpc,       \* where fec_recv() is
    stored,     \* the number of the last frame stored
    passed,     \* the last frame passed to NetReceive()
    phyUp,      \* phy_startup() succeeded at the last start
    processed   \* history: the full descriptors fec_recv() has dealt with

rxVars == <<rbd, data, rbdCache, dataCache, hwIndex, rdar, babr, rbd_index, rxpc,
            stored, passed, phyUp, processed>>

Descs == 0 .. FEC_RBD_NUM - 1
Lines == 0 .. FEC_RBD_NUM \div DescsPerLine - 1
Line(i) == i \div DescsPerLine
DescsOf(l) == {i \in Descs : Line(i) = l}
NextDesc(i) == (i + 1) % FEC_RBD_NUM

Running == rxpc \notin {"off", "restart", "halted"}

NoLine == <<>>
NoData == -1
Wiped == 0

Frames == 1 .. FrameNumbers
NextFrame(f) == (f % FrameNumbers) + 1

(* What the processor sees: its copy, or memory when it has none.           *)
SeenRbd(l) ==
    IF rbdCache[l] = NoLine THEN [i \in DescsOf(l) |-> rbd[i]] ELSE rbdCache[l]

SeenData(i) == IF dataCache[i] = NoData THEN data[i] ELSE dataCache[i]

-----------------------------------------------------------------------------
(* The controller *)

(* A frame is stored.  The processor may have the line and the buffer in    *)
(* its cache, where they are now stale.                                     *)
Store(rbdLoaded, dataLoaded) ==
    LET l == Line(hwIndex)
    IN  /\ Running /\ rdar /\ rbd[hwIndex] = "EMPTY"
        /\ stored' = NextFrame(stored)
        /\ data' = [data EXCEPT ![hwIndex] = stored']
        /\ rbd' = [rbd EXCEPT ![hwIndex] = IF stored' \in BadFrames THEN "ERR" ELSE "GOOD"]
        /\ hwIndex' = NextDesc(hwIndex)
        /\ rbdCache' = IF rbdLoaded THEN [rbdCache EXCEPT ![l] = SeenRbd(l)] 
                       ELSE [rbdCache EXCEPT ![l] = NoLine]
        /\ dataCache' = IF dataLoaded THEN [dataCache EXCEPT ![hwIndex] = SeenData(hwIndex)]
                        ELSE [dataCache EXCEPT ![hwIndex] = NoData]
        /\ UNCHANGED <<rdar, babr, rbd_index, rxpc, passed, phyUp, processed>>

(* The controller goes to sleep at a descriptor that is not empty.          *)
Sleep ==
    /\ rdar /\ rbd[hwIndex] # "EMPTY"
    /\ rdar' = FALSE
    /\ UNCHANGED <<rbd, data, rbdCache, dataCache, hwIndex, babr, rbd_index, rxpc,
                   stored, passed, phyUp, processed>>

(* A frame longer than the controller takes raises BABR.                    *)
Babble ==
    /\ Running /\ ~babr
    /\ babr' = TRUE
    /\ UNCHANGED <<rbd, data, rbdCache, dataCache, hwIndex, rdar, rbd_index, rxpc,
                   stored, passed, phyUp, processed>>

-----------------------------------------------------------------------------
(* The processor's cache *)

(* The line fec_recv() has written and not flushed yet.                     *)
Dirty(l) == rxpc = "flush" /\ l = Line(rbd_index)

Evict(l) ==
    /\ rbdCache[l] # NoLine /\ ~Dirty(l)
    /\ rbdCache' = [rbdCache EXCEPT ![l] = NoLine]
    /\ UNCHANGED <<rbd, data, dataCache, hwIndex, rdar, babr, rbd_index, rxpc, stored,
                   passed, phyUp, processed>>

-----------------------------------------------------------------------------
(* fec_recv *)

(* The events are read and cleared, and the line of the next descriptor is  *)
(* invalidated.                                                             *)
InvalidateRbd ==
    /\ rxpc = "idle" /\ ~babr
    /\ rbdCache' = [rbdCache EXCEPT ![Line(rbd_index)] = NoLine]
    /\ rxpc' = "status"
    /\ UNCHANGED <<rbd, data, dataCache, hwIndex, rdar, babr, rbd_index, stored,
                   passed, phyUp, processed>>

(* Mutant: fec_recv() does not step over a faulty frame.                    *)
ReadStatusStays ==
    LET status == SeenRbd(Line(rbd_index))[rbd_index]
    IN  /\ rxpc = "status"
        /\ rxpc' = IF status = "GOOD" THEN "buffer" ELSE "idle"
        /\ UNCHANGED <<rbd, data, rbdCache, dataCache, hwIndex, rdar, babr, rbd_index,
                       stored, passed, phyUp, processed>>

(* The descriptor's status is read; an empty one ends the call.             *)
ReadStatus ==
    LET l == Line(rbd_index)
        status == SeenRbd(l)[rbd_index]
    IN  /\ rxpc = "status"
        /\ rxpc' = IF status = "EMPTY" THEN "idle"
                   ELSE IF status = "GOOD" THEN "buffer" ELSE "clean"
        /\ processed' = IF status = "ERR" THEN processed \cup {rbd_index} ELSE processed
        /\ UNCHANGED <<rbd, data, rbdCache, dataCache, hwIndex, rdar, babr, rbd_index,
                       stored, passed, phyUp>>

(* Mutant: the buffer is read as the cache has it.                          *)
InvalidateNothing ==
    /\ rxpc = "buffer"
    /\ rxpc' = "copy"
    /\ UNCHANGED <<rbd, data, rbdCache, dataCache, hwIndex, rdar, babr, rbd_index,
                   stored, passed, phyUp, processed>>

InvalidateData ==
    /\ rxpc = "buffer"
    /\ dataCache' = [dataCache EXCEPT ![rbd_index] = NoData]
    /\ rxpc' = "copy"
    /\ UNCHANGED <<rbd, data, rbdCache, hwIndex, rdar, babr, rbd_index, stored,
                   passed, phyUp, processed>>

(* The frame is copied and passed to NetReceive(), ...                      *)
PassUp ==
    /\ rxpc = "copy"
    /\ passed' = SeenData(rbd_index)
    /\ processed' = processed \cup {rbd_index}
    /\ rxpc' = "receive"
    /\ UNCHANGED <<rbd, data, rbdCache, dataCache, hwIndex, rdar, babr, rbd_index,
                   stored, phyUp>>

(* ... which most often just returns.                                       *)
NetReceiveReturns ==
    /\ rxpc = "receive"
    /\ rxpc' = "clean"
    /\ UNCHANGED <<rbd, data, rbdCache, dataCache, hwIndex, rdar, babr, rbd_index,
                   stored, passed, phyUp, processed>>

(* Mutant: every descriptor is given back at once, with the line it is in.  *)
CleanEach ==
    LET l == Line(rbd_index)
    IN  /\ rxpc = "clean"
        /\ rbdCache' = [rbdCache EXCEPT ![l] = [SeenRbd(l) EXCEPT ![rbd_index] = "EMPTY"]]
        /\ rxpc' = "flush"
        /\ UNCHANGED <<rbd, data, dataCache, hwIndex, rdar, babr, rbd_index, stored,
                       passed, phyUp, processed>>

(* The last descriptor of a line: fec_rbd_clean() on the whole line.        *)
CleanLine ==
    LET l == Line(rbd_index)
    IN  /\ rxpc = "clean"
        /\ rbd_index % DescsPerLine = DescsPerLine - 1
        /\ rbdCache' = [rbdCache EXCEPT ![l] = [i \in DescsOf(l) |-> "EMPTY"]]
        /\ rxpc' = "flush"
        /\ UNCHANGED <<rbd, data, dataCache, hwIndex, rdar, babr, rbd_index, stored,
                       passed, phyUp, processed>>

(* The line is written to memory and dropped.                               *)
FlushLine ==
    LET l == Line(rbd_index)
    IN  /\ rxpc = "flush"
        /\ rbd' = [i \in Descs |-> IF i \in DescsOf(l) THEN rbdCache[l][i] ELSE rbd[i]]
        /\ rbdCache' = [rbdCache EXCEPT ![l] = NoLine]
        /\ processed' = processed \ DescsOf(l)
        /\ rxpc' = "enable"
        /\ UNCHANGED <<data, dataCache, hwIndex, rdar, babr, rbd_index, stored,
                       passed, phyUp>>

(* Mutants: the receiver is woken at the end of the ring only; never.       *)
EnableRxAtEnd ==
    /\ \/ rxpc = "enable"
       \/ rxpc = "clean" /\ rbd_index % DescsPerLine # DescsPerLine - 1
    /\ rdar' = (rdar \/ rbd_index = FEC_RBD_NUM - 1)
    /\ rbd_index' = NextDesc(rbd_index)
    /\ rxpc' = "idle"
    /\ UNCHANGED <<rbd, data, rbdCache, dataCache, hwIndex, babr, stored, passed,
                   phyUp, processed>>

EnableRxNever ==
    /\ \/ rxpc = "enable"
       \/ rxpc = "clean" /\ rbd_index % DescsPerLine # DescsPerLine - 1
    /\ rbd_index' = NextDesc(rbd_index)
    /\ rxpc' = "idle"
    /\ UNCHANGED <<rbd, data, rbdCache, dataCache, hwIndex, rdar, babr, stored, passed,
                   phyUp, processed>>

(* fec_rx_task_enable(), and on to the next descriptor.                     *)
EnableRx ==
    /\ \/ rxpc = "enable"
       \/ rxpc = "clean" /\ rbd_index % DescsPerLine # DescsPerLine - 1
    /\ rdar' = TRUE
    /\ rbd_index' = NextDesc(rbd_index)
    /\ rxpc' = "idle"
    /\ UNCHANGED <<rbd, data, rbdCache, dataCache, hwIndex, babr, stored, passed,
                   phyUp, processed>>
-----------------------------------------------------------------------------
(* fec_halt and fec_init *)

FecHalt(from, to) ==
    /\ rxpc = from
    /\ rdar' = FALSE
    /\ hwIndex' = 0
    /\ rbd_index' = 0
    /\ rxpc' = to
    /\ UNCHANGED <<rbd, data, rbdCache, dataCache, babr, stored, passed, phyUp,
                   processed>>

(* Between two commands the device is stopped; ...                          *)
EthHalt == FecHalt("idle", "off")

(* ... fec_recv() stops and starts it when it finds BABR; ...               *)
HaltOnBabr == babr /\ FecHalt("idle", "restart")

(* ... and so may a handler of the frame, by NetStartAgain().               *)
HaltInReceive == FecHalt("receive", "halted")

(* fec_rbd_init() wipes the buffers, fec_open() empties the descriptors;    *)
(* both flush.  The receiver is woken unless phy_startup() fails, which     *)
(* fec_init() does not report.                                              *)
FecInit(from, to, up) ==
    /\ rxpc = from
    /\ rbd' = [i \in Descs |-> "EMPTY"]
    /\ data' = [i \in Descs |-> Wiped]
    /\ rbdCache' = [l \in Lines |-> NoLine]
    /\ dataCache' = [i \in Descs |-> NoData]
    /\ hwIndex' = 0
    /\ rbd_index' = 0
    /\ babr' = FALSE
    /\ rdar' = up
    /\ phyUp' = up
    /\ rxpc' = to
    /\ stored' = FrameNumbers
    /\ passed' = Wiped
    /\ processed' = {}

(* The handler has started the device: fec_recv() goes on as if it had      *)
(* dealt with descriptor 0 of the new ring.                                 *)
InitInReceive(up) == FecInit("halted", "clean", up)

(* The handler has given up, or turned to another device: fec_recv() ends   *)
(* on a halted controller, which takes no wake-up.                          *)
ReturnHalted ==
    /\ rxpc = "halted"
    /\ rbd_index' = NextDesc(rbd_index)
    /\ rxpc' = "off"
    /\ UNCHANGED <<rbd, data, rbdCache, dataCache, hwIndex, rdar, babr, stored, passed,
                   phyUp, processed>>

RxInit ==
    /\ rbd = [i \in Descs |-> "EMPTY"]
    /\ data = [i \in Descs |-> Wiped]
    /\ rbdCache = [l \in Lines |-> NoLine]
    /\ dataCache = [i \in Descs |-> NoData]
    /\ hwIndex = 0
    /\ rdar = FALSE
    /\ babr = FALSE
    /\ rbd_index = 0
    /\ rxpc = "off"
    /\ stored = FrameNumbers
    /\ passed = Wiped
    /\ phyUp = FALSE
    /\ processed = {}

Controller ==
    \/ \E r, d \in BOOLEAN : Store(r, d)
    \/ Sleep
    \/ Babble

(* fec_recv() in the order of its statements; it is polled by the net loop. *)
FecRecv ==
    \/ InvalidateRbd
    \/ ReadStatus
    \/ InvalidateData
    \/ PassUp
    \/ NetReceiveReturns \/ HaltInReceive \/ ReturnHalted
    \/ \E up \in BOOLEAN : InitInReceive(up)
    \/ CleanLine
    \/ FlushLine
    \/ EnableRx
    \/ HaltOnBabr
    \/ \E up \in BOOLEAN : FecInit("restart", "idle", up)

RxNext ==
    \/ \E l \in Lines : Evict(l)
    \/ Controller
    \/ FecRecv
    \/ EthHalt
    \/ \E up \in BOOLEAN : FecInit("off", "idle", up)

(* The net loop keeps calling fec_recv(), which takes its steps.            *)
RxSpec == RxInit /\ [][RxNext]_rxVars /\ WF_rxVars(FecRecv)

-----------------------------------------------------------------------------
(* Properties *)

(* The first descriptor fec_recv() has not dealt with yet.                  *)
Pending0 ==
    IF rxpc \in {"receive", "clean", "flush", "enable"} THEN NextDesc(rbd_index)
    ELSE rbd_index

(* How many descriptors hold a frame that fec_recv() has still to come to.  *)
Waiting ==
    IF ~Running \/ rbd[Pending0] = "EMPTY" THEN 0
    ELSE IF hwIndex = Pending0 THEN FEC_RBD_NUM
    ELSE (hwIndex - Pending0) % FEC_RBD_NUM

(* The good frames among them, in the order of the ring.                    *)
WaitingFrames ==
    LET at(n) == (Pending0 + n - 1) % FEC_RBD_NUM
        good == SelectSeq([n \in 1 .. Waiting |-> at(n)], LAMBDA i : rbd[i] = "GOOD")
    IN  [n \in DOMAIN good |-> data[good[n]]]

(* The ring implements a queue: no frame is passed up twice, out of order   *)
(* or from stale memory, and none that waits is lost before the device is   *)
(* stopped, also when it is stopped and started inside NetReceive().  The   *)
(* first frame after such a start does not wait: fec_recv() never comes to  *)
(* descriptor 0 in that round, see LineIsProcessed.                         *)
Fifo == INSTANCE NetFifo WITH
            Frames <- Frames, Capacity <- FEC_RBD_NUM, Nothing <- Wiped,
            queue <- WaitingFrames, delivered <- passed, up <- Running

ImplementsFifo == Fifo!FifoSpec

(* "The solution is to mark the whole cache line when all descriptors in    *)
(* the cache line are processed" (fec_recv()): the line that is marked free *)
(* holds no frame that fec_recv() has not dealt with.                       *)
LineIsProcessed ==
    rxpc = "flush" => DescsOf(Line(rbd_index)) \subseteq processed

(* The controller sleeps only while a later step of fec_recv() will wake    *)
(* it: there is a frame to be taken, or a call is past its status check.    *)
(* When the PHY did not start it need not be woken.                         *)
WillBeWoken ==
    Running /\ phyUp /\ ~rdar =>
        \/ rbd[rbd_index] # "EMPTY"
        \/ rxpc = "enable"

(* The controller never touches a line of descriptors that the driver has   *)
(* written and not flushed yet: all of it still belongs to the driver.      *)
WrittenLineIsOurs ==
    rxpc = "flush" => \A i \in DescsOf(Line(rbd_index)) : rbd[i] # "EMPTY"

(* A running receiver cannot store, and so loses, a frame only when all but *)
(* one line of its descriptors hold frames that wait.                       *)
LosesOnlyWhenFull ==
    Running /\ phyUp /\ ~(rdar /\ rbd[hwIndex] = "EMPTY") =>
        Waiting >= FEC_RBD_NUM - DescsPerLine

(* The number of the frame that waits longest is in the half h of Frames.   *)
WaitsIn(h) == WaitingFrames # <<>> /\ Head(WaitingFrames) \in h

(* A frame that waits is taken, or the device is stopped: as frames are     *)
(* taken in the order of their numbers, the longest waiting one does not    *)
(* stay in either half of the numbers.  And a receiver that sleeps is       *)
(* woken.  A frame in descriptor 0 after a start inside NetReceive() does   *)
(* not wait, and is never taken.                                            *)
EventuallyTaken ==
    /\ \A h \in {1 .. FrameNumbers \div 2, FrameNumbers \div 2 + 1 .. FrameNumbers} :
          WaitsIn(h) ~> ~WaitsIn(h)
    /\ phyUp /\ ~rdar ~> rdar \/ ~Running
=============================================================================
