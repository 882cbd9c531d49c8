---------------------------- MODULE BoundedFifo ----------------------------
(***************************************************************************)
(* What every dual-clock FIFO of the SoC promises its two endpoints: a     *)
(* queue of at most Depth entries, read in the order it was written, that  *)
(* a reset of either endpoint may empty but nothing may reorder, duplicate *)
(* or lose.  `taken' is the value handed to the reader by its last take.   *)
(***************************************************************************)
EXTENDS Naturals, Sequences

CONSTANTS Data, Depth, NoData

VARIABLES queue, taken

fifoVars == <<queue, taken>>

FifoInit == queue = <<>> /\ taken = NoData

Put(d) == /\ Len(queue) < Depth
          /\ queue' = Append(queue, d)
          /\ taken' = taken

Get == /\ queue # <<>>
       /\ queue' = Tail(queue)
       /\ taken' = Head(queue)

\* Both endpoints' clocks rise together.
PutGet(d) == /\ queue # <<>>
             /\ Len(queue) < Depth
             /\ queue' = Append(Tail(queue), d)
             /\ taken' = Head(queue)

Flush == queue' = <<>> /\ taken' = NoData

FifoNext == \/ \E d \in Data : Put(d) \/ PutGet(d)
            \/ Get
            \/ Flush

FifoSpec == FifoInit /\ [][FifoNext]_fifoVars
=============================================================================
