------------------------------ MODULE NetPath -------------------------------
(* What lies between the wire and the protocols: the ring of received       *)
(* frames, the descriptors of frames to be sent and the reassembly of       *)
(* datagrams.  The three share no state, and a behaviour is one of `side`.  *)
EXTENDS FecRx, FecTx, IpDefrag

VARIABLE side

pathVars == <<side, rxVars, txVars, defragVars>>

PathInit ==
    /\ side \in {"receive", "transmit", "reassemble"}
    /\ RxInit
    /\ TxInit
    /\ DefragInit

Receiving(A) == side = "receive" /\ A /\ UNCHANGED <<side, txVars, defragVars>>
Sending(A) == side = "transmit" /\ A /\ UNCHANGED <<side, rxVars, defragVars>>
Reassembling(A) == side = "reassemble" /\ A /\ UNCHANGED <<side, rxVars, txVars>>

PathNext == Receiving(RxNext) \/ Sending(TxNext) \/ Reassembling(DefragNext)

(* The net loop polls fec_recv(), which takes its steps; so does            *)
(* fec_send(), and the controller puts READY and TDAR back.  Over a frame   *)
(* it may take for ever.                                                    *)
PathSpec ==
    /\ PathInit /\ [][PathNext]_pathVars
    /\ WF_pathVars(Receiving(FecRecv))
    /\ WF_pathVars(Sending(FecSend))
    /\ WF_pathVars(Sending(ClearTdar))
    /\ WF_pathVars(Sending(ClearReady))
=============================================================================
