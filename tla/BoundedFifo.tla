---------------------------- MODULE BoundedFifo ----------------------------
(***************************************************************************)
(* What include/commpipe.h promises to the threads it connects: a first-in *)
(* first-out queue of words.  A word is put only while fewer than Capacity *)
(* words are queued, and a reader obtains the oldest word that is queued.  *)
(* CommPipe implements this specification (see PipeFifo there).            *)
(***************************************************************************)
EXTENDS Naturals, Sequences

CONSTANTS Capacity,     \* words the pipe holds: size - 1, one slot stays free
          Word          \* the values written

VARIABLES queue,        \* words written and not yet read, oldest first
          delivered     \* words obtained by the reader, in the order it got them

fifoVars == <<queue, delivered>>

FifoInit == queue = <<>> /\ delivered = <<>>

Put(v) ==
    /\ Len(queue) < Capacity
    /\ queue' = Append(queue, v)
    /\ UNCHANGED delivered

Take ==
    /\ queue # <<>>
    /\ delivered' = Append(delivered, Head(queue))
    /\ queue' = Tail(queue)

FifoNext == Take \/ \E v \in Word : Put(v)

FifoSpec == FifoInit /\ [][FifoNext]_fifoVars
=============================================================================
