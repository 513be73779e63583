----------------------------- MODULE BoundedFifo -----------------------------
(***************************************************************************)
(* What a queue between one producer and one consumer promises, with no    *)
(* word about how: it holds at most Capacity items, hands them over in the *)
(* order they were put in, each one once, and releases the ones left in it *)
(* when it is destroyed.  ProducerConsumerQueue implements it.             *)
(***************************************************************************)
EXTENDS Naturals, Sequences

CONSTANTS Item,      \* what the queue carries
          Blank,     \* the content of a variable no item was read into yet
          Capacity   \* the most items it holds at a time

VARIABLES items,     \* the items in the queue, oldest first
          record,    \* the item the consumer received last
          alive      \* false once the queue is destroyed

vars == <<items, record, alive>>

Init == items = << >> /\ record = Blank /\ alive = TRUE

\* The producer's write succeeds: there is room, the item goes in last.
Put(x) == /\ alive /\ Len(items) < Capacity
          /\ items' = Append(items, x)
          /\ UNCHANGED <<record, alive>>

\* The consumer's read succeeds: it receives the oldest item.
Take == /\ alive /\ items # << >>
        /\ record' = Head(items)
        /\ items' = Tail(items)
        /\ UNCHANGED alive

\* The consumer drops the oldest item without receiving it.
Discard == /\ alive /\ items # << >>
           /\ items' = Tail(items)
           /\ UNCHANGED <<record, alive>>

\* The queue is destroyed together with the items left in it.
Destroy == /\ alive
           /\ alive' = FALSE
           /\ items' = << >>
           /\ UNCHANGED record

Next == (\E x \in Item : Put(x)) \/ Take \/ Discard \/ Destroy

Spec == Init /\ [][Next]_vars
=============================================================================
