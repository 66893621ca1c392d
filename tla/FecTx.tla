------------------------------- MODULE FecTx --------------------------------
(***************************************************************************)
(* Transmission by the i.MX Ethernet controller, fec_send() of             *)
(* drivers/net/fec_mxc.c: two buffer descriptors in one line of the cache, *)
(* used in turn, and one packet buffer, which the network stack fills anew *)
(* for every frame.                                                        *)
(*                                                                         *)
(* The controller reads READY of the next descriptor before it has cleared *)
(* READY of the one it sent, and clears TDAR before either (the notes on   *)
(* fec_tbd_init() and in fec_send()).  It may take longer over a frame     *)
(* than fec_send() waits (flow control, no link).                          *)
(***************************************************************************)
EXTENDS Naturals, Sequences

CONSTANT MaxSends       \* bound: frames handed to fec_send()

VARIABLES
    ready,      \* READY of the two descriptors, in memory
    copy,       \* the processor's copy of the two, <<>> if it has none
    packet,     \* the frame in the packet buffer
    hwNext,     \* the descriptor the controller looks at next
    tdar,       \* x_des_active: the controller is at work
    clearing,   \* the descriptors sent whose READY is not cleared yet
    tbd_index,
    txpc,       \* where fec_send() is
    framesSent, \* history: the frames sent
    ok,         \* history: frames for which fec_send() returned 0
    timeouts    \* history: some fec_send() timed out since the last start

txVars == <<ready, copy, packet, hwNext, tdar, clearing, tbd_index, txpc, framesSent, ok,
            timeouts>>

Tbds == {0, 1}

Seen == IF copy = <<>> THEN ready ELSE copy

-----------------------------------------------------------------------------
(* The controller *)

(* A frame goes out.  READY of the one before is cleared at the latest now. *)
Transmit ==
    /\ tdar /\ ready[hwNext]
    /\ framesSent' = Append(framesSent, packet)
    /\ ready' = [i \in Tbds |-> ready[i] /\ i \notin clearing]
    /\ clearing' = {hwNext}
    /\ hwNext' = 1 - hwNext
    /\ UNCHANGED <<copy, packet, tdar, tbd_index, txpc, ok, timeouts>>

ClearTdar ==
    /\ tdar /\ ~ready[hwNext]
    /\ tdar' = FALSE
    /\ UNCHANGED <<ready, copy, packet, hwNext, clearing, tbd_index, txpc, framesSent, ok,
                   timeouts>>

ClearReady ==
    /\ clearing # {}
    /\ ready' = [i \in Tbds |-> ready[i] /\ i \notin clearing]
    /\ clearing' = {}
    /\ UNCHANGED <<copy, packet, hwNext, tdar, tbd_index, txpc, framesSent, ok, timeouts>>

(* The processor's cache; a line being written stays until it is flushed.   *)
LoadTbds ==
    /\ copy = <<>>
    /\ copy' = ready
    /\ UNCHANGED <<ready, packet, hwNext, tdar, clearing, tbd_index, txpc, framesSent, ok,
                   timeouts>>

EvictTbds ==
    /\ copy # <<>> /\ txpc # "flush"
    /\ copy' = <<>>
    /\ UNCHANGED <<ready, packet, hwNext, tdar, clearing, tbd_index, txpc, framesSent, ok,
                   timeouts>>

-----------------------------------------------------------------------------
(* fec_send *)

(* The next frame is in the packet buffer; its descriptor is set up in the  *)
(* cache.                                                                   *)
WriteTbd ==
    /\ txpc = "idle" /\ packet < MaxSends
    /\ packet' = packet + 1
    /\ copy' = [Seen EXCEPT ![tbd_index] = TRUE]
    /\ txpc' = "flush"
    /\ UNCHANGED <<ready, hwNext, tdar, clearing, tbd_index, framesSent, ok, timeouts>>

(* Both descriptors are flushed, and read back.                             *)
FlushTbds ==
    /\ txpc = "flush"
    /\ ready' = copy
    /\ txpc' = "enable"
    /\ UNCHANGED <<copy, packet, hwNext, tdar, clearing, tbd_index, framesSent, ok, timeouts>>

EnableTx ==
    /\ txpc = "enable"
    /\ tdar' = TRUE
    /\ txpc' = "tdar"
    /\ UNCHANGED <<ready, copy, packet, hwNext, clearing, tbd_index, framesSent, ok, timeouts>>

TdarIsClear ==
    /\ txpc = "tdar" /\ ~tdar
    /\ txpc' = "ready"
    /\ UNCHANGED <<ready, copy, packet, hwNext, tdar, clearing, tbd_index, framesSent, ok,
                   timeouts>>

(* The way out: the other descriptor is next.                               *)
Return(success) ==
    /\ tbd_index' = 1 - tbd_index
    /\ ok' = IF success THEN ok \cup {packet} ELSE ok
    /\ timeouts' = (timeouts \/ ~success)
    /\ txpc' = "idle"

(* Mutant: it is waited for without end.                                    *)
TdarWaits ==
    /\ txpc = "tdar" /\ tdar /\ ready[hwNext]
    /\ UNCHANGED txVars

(* The controller is still busy with a frame when the wait is over.         *)
TdarTimeout ==
    /\ txpc = "tdar" /\ tdar /\ ready[hwNext]
    /\ Return(FALSE)
    /\ UNCHANGED <<ready, copy, packet, hwNext, tdar, clearing, framesSent>>

(* Mutant: READY is not looked at once TDAR is clear.                       *)
ReadyIgnored ==
    /\ txpc = "ready"
    /\ Return(TRUE)
    /\ UNCHANGED <<ready, copy, packet, hwNext, tdar, clearing, framesSent>>

(* The line is invalidated and read until READY is clear, ...               *)
ReadyIsClear ==
    /\ txpc = "ready" /\ ~ready[tbd_index]
    /\ copy' = ready
    /\ Return(TRUE)
    /\ UNCHANGED <<ready, packet, hwNext, tdar, clearing, framesSent>>

(* ... or the wait is over and the controller is not about to clear it.     *)
ReadyTimeout ==
    /\ txpc = "ready" /\ ready[tbd_index] /\ tbd_index \notin clearing
    /\ copy' = ready
    /\ Return(FALSE)
    /\ UNCHANGED <<ready, packet, hwNext, tdar, clearing, framesSent>>

(* fec_halt() and fec_init() between two commands.                          *)
RestartTx ==
    /\ txpc = "idle"
    /\ ready' = [i \in Tbds |-> FALSE]
    /\ copy' = <<>>
    /\ hwNext' = 0 /\ tbd_index' = 0
    /\ tdar' = FALSE
    /\ clearing' = {}
    /\ packet' = 0 /\ framesSent' = <<>> /\ ok' = {} /\ timeouts' = FALSE
    /\ UNCHANGED txpc

TxInit ==
    /\ ready = [i \in Tbds |-> FALSE]
    /\ copy = <<>>
    /\ packet = 0
    /\ hwNext = 0 /\ tbd_index = 0
    /\ tdar = FALSE
    /\ clearing = {}
    /\ txpc = "idle"
    /\ framesSent = <<>> /\ ok = {} /\ timeouts = FALSE

TxController == Transmit \/ ClearTdar \/ ClearReady

FecSend ==
    \/ FlushTbds \/ EnableTx \/ TdarIsClear \/ TdarTimeout \/ ReadyIsClear
    \/ ReadyTimeout

TxNext == TxController \/ FecSend \/ WriteTbd \/ RestartTx \/ LoadTbds \/ EvictTbds

(* fec_send() takes its steps, and the controller puts READY and TDAR back; *)
(* over a frame it may take for ever.                                       *)
TxSpec ==
    /\ TxInit /\ [][TxNext]_txVars
    /\ WF_txVars(FecSend) /\ WF_txVars(ClearTdar) /\ WF_txVars(ClearReady)

-----------------------------------------------------------------------------
(* Properties *)

OnWire == {framesSent[n] : n \in DOMAIN framesSent}

(* Until a wait times out every frame goes out once and in order, and the   *)
(* frames for which fec_send() returned 0 have gone out.  After a timeout   *)
(* neither holds until the device is started again: the late clearing of    *)
(* READY meets the stale copy that the next call flushes, and the driver    *)
(* and the controller no longer agree on whose turn it is.                  *)
SentOnce ==
    ~timeouts =>
        /\ \A m, n \in DOMAIN framesSent : m < n => framesSent[m] < framesSent[n]
        /\ ok \subseteq OnWire

(* fec_send() returns, also when the controller never finishes a frame.     *)
SendReturns == txpc # "idle" ~> txpc = "idle"
=============================================================================
