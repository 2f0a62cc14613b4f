-------------------------------- MODULE FifoList --------------------------------
(***************************************************************************)
(* What Paging counts on from the replacement list of frame.c: a sequence   *)
(* of frames, oldest first.                                                 *)
(***************************************************************************)
EXTENDS Queues

CONSTANT Frame

VARIABLE fifo

Init == fifo = <<>>

addFifo(f) == ~On(f, fifo) /\ fifo' = Append(fifo, f)

removeFifo == fifo # <<>> /\ fifo' = Tail(fifo)

deleteFifo(f) == On(f, fifo) /\ fifo' = Unlink(fifo, f)

Next == removeFifo \/ \E f \in Frame : addFifo(f) \/ deleteFifo(f)

\* "Or nothing changes" is said first as well, so that TLC looks for no call where there was none.
Spec == Init /\ [][fifo' = fifo \/ Next]_fifo
=================================================================================
