------------------------------ MODULE FrameFifos ------------------------------
(***************************************************************************)
(* The CircularFifo of every UdpReceiver: a pair of queues of frames, the  *)
(* free ones on their way to the receiving thread and the filled ones on   *)
(* their way to the assembling thread.  Each queue has one thread at each  *)
(* end and is the atomic one of BoundedFifo, which ProducerConsumerQueue   *)
(* implements; a loop that spins on a queue is an action that waits.       *)
(*                                                                         *)
(* A frame is the memory it owns, one of Buffer, for that is what the      *)
(* moves in and out of a queue hand on; what the memory holds is the frame *)
(* number of its packets.                                                  *)
(***************************************************************************)
EXTENDS Integers, Sequences, SequencesExt, FiniteSets

CONSTANTS NumReceivers,  \* the receivers, in the order the assembler has their fifos
          FifoSize,      \* fifo_size; one slot of each queue stays unused
          MaxFrame       \* the bound on frame numbers

ASSUME NumReceiversAssumption == NumReceivers \in Nat /\ NumReceivers >= 1
ASSUME FifoSizeAssumption == FifoSize \in Nat /\ FifoSize >= 2
ASSUME MaxFrameAssumption == MaxFrame \in Nat /\ MaxFrame >= 1

VARIABLES free, filled,  \* free_slots and filled_slots of each receiver's fifo
          content        \* the frame number in each buffer, 0 when never filled

fifoVars == <<free, filled, content>>

Receiver == 1 .. NumReceivers
Buffer   == 1 .. FifoSize - 1
NoBuffer == 0     \* no memory

\* What a frame that owned b owns after std::move, which swaps it with none.
Copied(b) == b
Moved(b) == NoBuffer

\* The constructor fills the free queue.
FifoInit ==
    /\ free = [r \in Receiver |-> [i \in Buffer |-> i]]
    /\ filled = [r \in Receiver |-> << >>]
    /\ content = [r \in Receiver |-> [b \in Buffer |-> 0]]

PopFree(r) == /\ free[r] # << >>
              /\ free' = [free EXCEPT ![r] = Tail(@)]

PopValue(r) == /\ filled[r] # << >>
               /\ filled' = [filled EXCEPT ![r] = Tail(@)]

PushFree(r, b) == /\ Len(free[r]) < FifoSize - 1
                  /\ free' = [free EXCEPT ![r] = Append(@, b)]

PushValue(r, b) == /\ Len(filled[r]) < FifoSize - 1
                   /\ filled' = [filled EXCEPT ![r] = Append(@, b)]
=============================================================================
