------------------------------ MODULE NetFifo -------------------------------
(***************************************************************************)
(* What a network device promises of reception: while it is up, frames     *)
(* wait in a bounded queue and are handed up in the order in which they    *)
(* came, each once.  Only when it is stopped are the frames that wait      *)
(* forgotten; starting it numbers the frames anew.                         *)
(***************************************************************************)
EXTENDS Naturals, Sequences

CONSTANTS Frames, Capacity, Nothing

VARIABLES
    queue,
    delivered,      \* the last frame handed up
    up              \* the device runs

fifoVars == <<queue, delivered, up>>

FifoInit == queue = <<>> /\ delivered = Nothing /\ up = FALSE

Put(f) ==
    /\ up /\ Len(queue) < Capacity
    /\ queue' = Append(queue, f)
    /\ UNCHANGED <<delivered, up>>

Get ==
    /\ up /\ queue # <<>>
    /\ delivered' = Head(queue)
    /\ queue' = Tail(queue)
    /\ UNCHANGED up

Stop ==
    /\ up
    /\ up' = FALSE
    /\ queue' = <<>>
    /\ UNCHANGED delivered

Start ==
    /\ ~up
    /\ up' = TRUE
    /\ queue' = <<>>
    /\ delivered' = Nothing

FifoNext == (\E f \in Frames : Put(f)) \/ Get \/ Stop \/ Start

FifoSpec == FifoInit /\ [][FifoNext]_fifoVars
=============================================================================
