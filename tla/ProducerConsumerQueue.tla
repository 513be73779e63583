------------------------ MODULE ProducerConsumerQueue ------------------------
(***************************************************************************)
(* folly::ProducerConsumerQueue, the lock-free ring between one producer   *)
(* and one consumer that both halves of a CircularFifo are made of.        *)
(*                                                                         *)
(* A step is one access to memory the other thread may see: the acquire    *)
(* load of the other side's index, the construction, the move or the       *)
(* destruction of a record, the release store of the own index.  A thread  *)
(* is the only writer of its own index, so the relaxed load of that index  *)
(* is part of the step that follows it.                                    *)
(*                                                                         *)
(* An acquire load need not return the latest value stored: it returns any *)
(* value no older than the last one this thread saw.  wView and rView are  *)
(* what each thread saw last of the other's index.  What a thread may      *)
(* touch is decided by its view, which is what acquire and release give.   *)
(***************************************************************************)
EXTENDS Integers, Sequences

CONSTANTS Item,    \* the values of the record type T
          Size,    \* size_, the number of slots of the ring
          Raw,     \* a slot with no object in it
          Shell    \* an object with no item: default constructed or moved from

\* The constructor asserts size >= 2.
ASSUME SizeAssumption == Size \in Nat /\ Size >= 2
ASSUME ItemAssumption == Raw \notin Item /\ Shell \notin Item /\ Raw # Shell

VARIABLES readIndex, writeIndex, records,
          wpc,      \* where the producer is in write()
          wItem,    \* the argument of that write()
          wView,    \* the readIndex_ the producer saw last
          wGuess,   \* what sizeGuess() last told the producer, -1 when nothing
          wRoom,    \* isFull() told the producer there is room
          rpc,      \* where the consumer is in read() or popFront()
          record,   \* the consumer's variable read() moves into
          rView,    \* the writeIndex_ the consumer saw last
          rGuess,   \* what sizeGuess() last told the consumer, -1 when nothing
          rSome,    \* isEmpty() or frontPtr() told the consumer there is an item
          front,    \* the slot frontPtr() points to, -1 for nullptr
          alive     \* false once the destructor has run

pVars == <<wpc, wItem, wView, wGuess, wRoom>>
cVars == <<rpc, record, rView, rGuess, rSome, front>>
vars  == <<readIndex, writeIndex, records, alive, pVars, cVars>>

Slot == 0 .. Size - 1

\* nextRecord: the slot after i, wrapping to 0.
SuccNoWrap(i) == i + 1
Succ(i) == IF i + 1 = Size THEN 0 ELSE i + 1

\* How many steps of Succ lead from slot a to slot b.
Ahead(a, b) == IF a <= b THEN b - a ELSE b - a + Size

\* The tests of write() and of read() on the two indices they loaded.
FullOneLate(w, r) == w + 1 = r
Full(w, r) == Succ(w) = r
EmptyOneEarly(r, w) == r = w \/ Succ(r) = w
Empty(r, w) == r = w

\* The arithmetic of sizeGuess() on the two indices it loaded.
SizeUnwrapped(w, r) == LET ret == w - r IN IF ret < 0 THEN 0 ELSE ret
SizeOf(w, r) == LET ret == w - r IN IF ret < 0 THEN ret + Size ELSE ret

\* The values a load may return when the thread last saw "seen" and the
\* latest store is "latest": that one and those between, in store order.
Visible(seen, latest) == {i \in Slot : Ahead(seen, i) <= Ahead(seen, latest)}

Length == Ahead(readIndex, writeIndex)
-----------------------------------------------------------------------------
Init == /\ readIndex = 0 /\ writeIndex = 0
        /\ records = [s \in Slot |-> Raw]
        /\ wpc = "idle" /\ wItem = Shell /\ wView = 0 /\ wGuess = -1 /\ wRoom = FALSE
        /\ rpc = "idle" /\ record = Shell /\ rView = 0 /\ rGuess = -1 /\ rSome = FALSE
        /\ front = -1
        /\ alive = TRUE

(***************************************************************************)
(* The producer.                                                           *)
(***************************************************************************)
ProducerIdle == alive /\ wpc = "idle"
ConsumerIdle == alive /\ rpc = "idle"

\* write(): the load of readIndex_ leaves the slot after the next one free.
WriteHasRoom(x) ==
    /\ ProducerIdle
    /\ wView' \in Visible(wView, readIndex)
    /\ ~Full(writeIndex, wView')
    /\ wpc' = "construct" /\ wItem' = x
    /\ UNCHANGED <<readIndex, writeIndex, records, alive, wGuess, wRoom, cVars>>

\* write() returns false: the queue is full as far as the producer sees.
WriteFull ==
    /\ ProducerIdle
    /\ wView' \in Visible(wView, readIndex)
    /\ Full(writeIndex, wView')
    /\ UNCHANGED <<readIndex, writeIndex, records, alive, wpc, wItem, wGuess, wRoom, cVars>>

\* write(): placement new in the slot at writeIndex_.
WriteConstruct ==
    /\ wpc = "construct"
    /\ records' = [records EXCEPT ![writeIndex] = wItem]
    /\ wpc' = "publish"
    /\ UNCHANGED <<readIndex, writeIndex, alive, wItem, wView, wGuess, wRoom, cVars>>

\* write(): the release store of writeIndex_, then return true.
WritePublish ==
    /\ wpc = "publish"
    /\ writeIndex' = Succ(writeIndex)
    /\ wpc' = "idle" /\ wItem' = Shell /\ wGuess' = -1 /\ wRoom' = FALSE
    /\ UNCHANGED <<readIndex, records, alive, wView, cVars>>

\* sizeGuess() called by the producer.
ProducerSizeGuess ==
    /\ ProducerIdle
    /\ wView' \in Visible(wView, readIndex)
    /\ wGuess' = SizeOf(writeIndex, wView')
    /\ UNCHANGED <<readIndex, writeIndex, records, alive, wpc, wItem, wRoom, cVars>>

\* isFull() called by the producer; there is room when it returns false.
ProducerIsFullWithoutNext ==
    /\ ProducerIdle
    /\ wView' \in Visible(wView, readIndex)
    /\ wRoom' = (writeIndex # wView' )
    /\ UNCHANGED <<readIndex, writeIndex, records, alive, wpc, wItem, wGuess, cVars>>
ProducerIsFull ==
    /\ ProducerIdle
    /\ wView' \in Visible(wView, readIndex)
    /\ wRoom' = (Succ(writeIndex) # wView')
    /\ UNCHANGED <<readIndex, writeIndex, records, alive, wpc, wItem, wGuess, cVars>>

(***************************************************************************)
(* The consumer.                                                           *)
(***************************************************************************)
\* read(): the load of writeIndex_ shows an item.
ReadHasItem ==
    /\ ConsumerIdle
    /\ rView' \in Visible(rView, writeIndex)
    /\ ~Empty(readIndex, rView')
    /\ rpc' = "take" /\ front' = -1
    /\ UNCHANGED <<readIndex, writeIndex, records, alive, record, rGuess, rSome, pVars>>

\* read() returns false: the queue is empty as far as the consumer sees.
ReadEmpty ==
    /\ ConsumerIdle
    /\ rView' \in Visible(rView, writeIndex)
    /\ Empty(readIndex, rView')
    /\ UNCHANGED <<readIndex, writeIndex, records, alive, rpc, record, rGuess, rSome, front, pVars>>

\* read(): record = std::move(records_[currentRead]).
ReadTake ==
    /\ rpc = "take"
    /\ record' = records[readIndex]
    /\ records' = [records EXCEPT ![readIndex] = Shell]
    /\ rpc' = "destroy"
    /\ UNCHANGED <<readIndex, writeIndex, alive, rView, rGuess, rSome, front, pVars>>

\* read() and popFront(): records_[currentRead].~T().
ReadDestroy ==
    /\ rpc \in {"destroy", "drop"}
    /\ records' = [records EXCEPT ![readIndex] = Raw]
    /\ rpc' = "publish"
    /\ UNCHANGED <<readIndex, writeIndex, alive, record, rView, rGuess, rSome, front, pVars>>

\* read() and popFront(): the release store of readIndex_.
ReadPublish ==
    /\ rpc = "publish"
    /\ readIndex' = Succ(readIndex)
    /\ rpc' = "idle" /\ rGuess' = -1 /\ rSome' = FALSE
    /\ UNCHANGED <<writeIndex, records, alive, record, rView, front, pVars>>

\* frontPtr(): a pointer to the oldest item, for use in place, or nullptr.
FrontPtr ==
    /\ ConsumerIdle
    /\ rView' \in Visible(rView, writeIndex)
    /\ rSome' = (readIndex # rView')
    /\ front' = IF readIndex # rView' THEN readIndex ELSE -1
    /\ UNCHANGED <<readIndex, writeIndex, records, alive, rpc, record, rGuess, pVars>>

\* popFront(), whose precondition is a queue the consumer knows not empty.
PopFront ==
    /\ ConsumerIdle /\ rSome
    /\ rView' \in Visible(rView, writeIndex)
    /\ rpc' = "drop" /\ front' = -1
    /\ UNCHANGED <<readIndex, writeIndex, records, alive, record, rGuess, rSome, pVars>>

\* sizeGuess() called by the consumer.
ConsumerSizeGuess ==
    /\ ConsumerIdle
    /\ rView' \in Visible(rView, writeIndex)
    /\ rGuess' = SizeOf(rView', readIndex)
    /\ UNCHANGED <<readIndex, writeIndex, records, alive, rpc, record, rSome, front, pVars>>

\* isEmpty() called by the consumer.
ConsumerIsEmpty ==
    /\ ConsumerIdle
    /\ rView' \in Visible(rView, writeIndex)
    /\ rSome' = (readIndex # rView')
    /\ UNCHANGED <<readIndex, writeIndex, records, alive, rpc, record, rGuess, front, pVars>>

(***************************************************************************)
(* The destructor: one thread, no call under way; it destroys the records  *)
(* from readIndex_ up to writeIndex_.                                      *)
(***************************************************************************)
Unread == {s \in Slot : Ahead(readIndex, s) < Length}

Destruct ==
    /\ ProducerIdle /\ ConsumerIdle
    /\ alive' = FALSE
    /\ records' = [s \in Slot |-> IF s \in Unread THEN Raw ELSE records[s]]
    /\ front' = -1 /\ rSome' = FALSE /\ rGuess' = -1 /\ wGuess' = -1 /\ wRoom' = FALSE
    /\ UNCHANGED <<readIndex, writeIndex, wpc, wItem, wView, rpc, record, rView>>

Producer == \/ \E x \in Item : WriteHasRoom(x)
            \/ WriteFull \/ WriteConstruct \/ WritePublish
            \/ ProducerSizeGuess \/ ProducerIsFull

Consumer == \/ ReadHasItem \/ ReadEmpty \/ ReadTake \/ ReadDestroy \/ ReadPublish
            \/ FrontPtr \/ PopFront \/ ConsumerSizeGuess \/ ConsumerIsEmpty

Next == Producer \/ Consumer \/ Destruct

Spec == Init /\ [][Next]_vars

(***************************************************************************)
(* A call, once begun, runs on; the consumer comes back to read(), as the  *)
(* pop loops of CircularFifo do, and a store becomes visible in the end,   *)
(* so that a read() of a queue with an item in it finds one at last.       *)
(***************************************************************************)
FairSpec == /\ Spec
            /\ WF_vars(WriteConstruct \/ WritePublish)
            /\ WF_vars(ReadHasItem)
            /\ WF_vars(ReadTake \/ ReadDestroy \/ ReadPublish)
-----------------------------------------------------------------------------
(***************************************************************************)
(* Properties.                                                             *)
(***************************************************************************)
TypeOK ==
    /\ readIndex \in Slot /\ writeIndex \in Slot
    /\ records \in [Slot -> Item \cup {Raw, Shell}]
    /\ wpc \in {"idle", "construct", "publish"}
    /\ wItem \in Item \cup {Shell} /\ wView \in Slot
    /\ wGuess \in -1 .. Size - 1 /\ wRoom \in BOOLEAN
    /\ rpc \in {"idle", "take", "destroy", "drop", "publish"}
    /\ record \in Item \cup {Shell} /\ rView \in Slot
    /\ rGuess \in -1 .. Size - 1 /\ rSome \in BOOLEAN
    /\ front \in -1 .. Size - 1
    /\ alive \in BOOLEAN

(***************************************************************************)
(* No object is built over another one or destroyed twice, whatever stale  *)
(* index a thread acted on: the producer constructs in raw memory, the     *)
(* consumer moves out of and destroys a slot that holds an object, and     *)
(* after the destructor no slot holds one.  (write, read, ~Queue)          *)
(***************************************************************************)
LifetimeSafe ==
    /\ wpc = "construct" => records[writeIndex] = Raw
    /\ rpc \in {"take", "drop"} => records[readIndex] \in Item
    /\ rpc = "destroy" => records[readIndex] = Shell
    /\ ~alive => \A s \in Slot : records[s] = Raw

(***************************************************************************)
(* The comment of sizeGuess(): for the consumer the true size may be more, *)
(* for the producer it may be less than what it was told, and that stays   *)
(* so while the other thread works on, until the caller moves its index.   *)
(***************************************************************************)
GuessBounds ==
    /\ wGuess # -1 => Length <= wGuess
    /\ rGuess # -1 => rGuess <= Length

(***************************************************************************)
(* Check then act: after isFull() returned false no load that a later      *)
(* write() may make finds the queue full, and after isEmpty() returned     *)
(* false or frontPtr() a pointer no read() or popFront() finds it empty.   *)
(***************************************************************************)
AnswersHold ==
    /\ wRoom => \A v \in Visible(wView, readIndex) : ~Full(writeIndex, v)
    /\ rSome => \A v \in Visible(rView, writeIndex) : ~Empty(readIndex, v)

\* What frontPtr() points to is an item, and the producer never touches it
\* while the consumer uses it in place.
FrontStable ==
    [][front # -1 /\ front' = front => /\ records[front] \in Item
                                       /\ records'[front] = records[front]]_vars

(***************************************************************************)
(* The queue implements BoundedFifo.  An item is in the queue from the     *)
(* release store of writeIndex_ until it is moved out or destroyed.        *)
(***************************************************************************)
First == IF rpc \in {"destroy", "publish"} THEN Succ(readIndex) ELSE readIndex
Wrap(k) == IF k >= Size THEN k - Size ELSE k
Contents == IF alive THEN [k \in 1 .. Ahead(First, writeIndex) |-> records[Wrap(First + k - 1)]]
                     ELSE << >>

Fifo == INSTANCE BoundedFifo WITH items <- Contents, Capacity <- Size - 1, Blank <- Shell

\* Every step is a step of the abstract queue or none: items come out once
\* each, in the order they went in, never more than Size - 1 at a time.
ImplementsFifo == Fifo!Spec

\* An item written leaves its slot in the end, wherever the indices wrap.
Drained == \A s \in Slot : records[s] \in Item ~> records[s] = Raw
=============================================================================
