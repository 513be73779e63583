------------------------------ MODULE CircularFifo ------------------------------
(***************************************************************************)
(* CircularFifo: a pool of items that go round between a writing thread    *)
(* and a reading one.  The writer takes free items and passes them on      *)
(* filled; the reader takes the filled ones and gives them back, or skips  *)
(* them with next().  Each half is a queue with one thread at each end,    *)
(* atomic as in BoundedFifo, and a loop that spins on one is an action     *)
(* that waits.  FifoViews, which implements this module, adds that a       *)
(* thread may see an old index of the other.                               *)
(*                                                                         *)
(* The clients are open: each thread makes any call that fits its role at  *)
(* any moment.  It may be careless, too: destroy an item it has in hand,   *)
(* as UdpReceiver does with incomplete frames, or push one that is not     *)
(* from the pool, as the tests do.                                         *)
(***************************************************************************)
EXTENDS Integers, Sequences

CONSTANT Size     \* fifo_size; one slot of each queue stays unused

ASSUME SizeAssumption == Size \in Nat /\ Size >= 2

VARIABLES free, filled,   \* free_slots and filled_slots
          wItem, rItem,   \* the item the writer, the reader has in hand
          nItem,          \* the variable "it" of a next() under way
          stopped,        \* what the reader hands to pop_value(wait, stopped)
          careless        \* a thread has been, which the code does not record

vars == <<free, filled, wItem, rItem, nItem, stopped, careless>>

Pool == 1 .. Size - 1
None == 0      \* a variable that was moved from, or not yet used
Own  == -1     \* a default constructed item, or one the writer made itself

Init == /\ free = [i \in Pool |-> i] /\ filled = << >>
        /\ wItem = None /\ rItem = None /\ nItem = None
        /\ stopped = FALSE /\ careless = FALSE

HasRoom(queue) == Len(queue) < Size - 1

(***************************************************************************)
(* The writer.                                                             *)
(***************************************************************************)
\* pop_free()
PopFree == /\ wItem = None /\ free # << >>
           /\ wItem' = Head(free) /\ free' = Tail(free)
           /\ UNCHANGED <<filled, rItem, nItem, stopped, careless>>

\* push_value(std::move(item))
PushValueCopied == /\ wItem # None /\ HasRoom(filled)
                   /\ filled' = Append(filled, wItem)
                   /\ UNCHANGED <<free, wItem, rItem, nItem, stopped, careless>>
PushValue == /\ wItem # None /\ HasRoom(filled)
             /\ filled' = Append(filled, wItem) /\ wItem' = None
             /\ UNCHANGED <<free, rItem, nItem, stopped, careless>>

\* push_value(...) with something that is not from the pool.
PushOwn == /\ HasRoom(filled)
           /\ filled' = Append(filled, Own)
           /\ careless' = TRUE
           /\ UNCHANGED <<free, wItem, rItem, nItem, stopped>>

\* The item in hand is destroyed.
WriterDrops == /\ wItem # None
               /\ wItem' = None
               /\ careless' = TRUE
               /\ UNCHANGED <<free, filled, rItem, nItem, stopped>>

(***************************************************************************)
(* The reader.                                                             *)
(***************************************************************************)
Reading == nItem = None     \* no next() under way

\* pop_value() and pop_value(wait, stopped) find an item.
PopValue == /\ Reading /\ rItem = None /\ filled # << >>
            /\ rItem' = Head(filled) /\ filled' = Tail(filled)
            /\ UNCHANGED <<free, wItem, nItem, stopped, careless>>

\* pop_value(wait, stopped) found none and is stopped: it returns the
\* default constructed v.  An item may have come before it looked at stopped.
PopNothing == /\ Reading /\ rItem = None /\ stopped
              /\ rItem' = Own
              /\ UNCHANGED <<free, filled, wItem, nItem, stopped, careless>>

\* push_free(std::move(item))
PushFree == /\ Reading /\ rItem # None /\ HasRoom(free)
            /\ free' = Append(free, rItem) /\ rItem' = None
            /\ careless' = (careless \/ rItem = Own)
            /\ UNCHANGED <<filled, wItem, nItem, stopped>>

\* The item in hand is destroyed, as is right for a default constructed one.
ReaderDrops == /\ Reading /\ rItem # None
               /\ rItem' = None
               /\ careless' = (careless \/ rItem \in Pool)
               /\ UNCHANGED <<free, filled, wItem, nItem, stopped>>

\* next(): the item at the front is read.  If there is none, it returns false.
NextRead == /\ Reading /\ filled # << >>
            /\ nItem' = Head(filled) /\ filled' = Tail(filled)
            /\ UNCHANGED <<free, wItem, rItem, stopped, careless>>

\* next(): one attempt to give it back; without room "it" is destroyed.
NextWriteSkipped(room) == /\ nItem # None
                          /\ nItem' = None
                          /\ UNCHANGED <<free, filled, wItem, rItem, stopped, careless>>
NextWrite(room) == /\ nItem # None
                   /\ free' = IF room THEN Append(free, nItem) ELSE free
                   /\ nItem' = None
                   /\ UNCHANGED <<filled, wItem, rItem, stopped, careless>>

\* What the attempt finds.  That there is no room may be old news, but only
\* where a thread was careless, as FifoViews shows.
Finds(room) == IF room THEN HasRoom(free) ELSE ~HasRoom(free) \/ careless

\* Another thread sets the flag.
Stop == /\ ~stopped /\ stopped' = TRUE
        /\ UNCHANGED <<free, filled, wItem, rItem, nItem, careless>>

Writer == PopFree \/ PushValue \/ PushOwn \/ WriterDrops
Reader == \/ PopValue \/ PopNothing \/ PushFree \/ ReaderDrops \/ NextRead
          \/ \E room \in BOOLEAN : Finds(room) /\ NextWrite(room)
Next   == Writer \/ Reader \/ Stop

Spec == Init /\ [][Next]_vars
-----------------------------------------------------------------------------
(***************************************************************************)
(* Properties.                                                             *)
(***************************************************************************)
InFifo == Pool \cup {Own}

TypeOK ==
    /\ free \in Seq(InFifo) /\ filled \in Seq(InFifo)
    /\ Len(free) <= Size - 1 /\ Len(filled) <= Size - 1
    /\ wItem \in InFifo \cup {None} /\ rItem \in InFifo \cup {None} /\ nItem \in InFifo \cup {None}
    /\ stopped \in BOOLEAN /\ careless \in BOOLEAN

Places == free \o filled \o <<wItem, rItem, nItem>>

\* An item of the pool is in one place at a time, so that the thread that
\* has it in hand, or looks at it through frontPtr(), has it for itself.
OneOwner ==
    \A i, j \in DOMAIN Places : Places[i] = Places[j] /\ Places[i] \in Pool => i = j

\* Both at once: every variable has its type, every item of the pool one owner.
Owned == TypeOK /\ OneOwner

\* Unless a thread is careless nothing gets lost on the way round, in
\* particular not in a next() that finds no room among the free items.
Conserved == ~careless => \A b \in Pool : \E i \in DOMAIN Places : Places[i] = b

\* Unless a thread is careless what came out of the fifo fits back in: the
\* loops of push_value and push_free never spin.
PushesFit == ~careless => /\ wItem \in Pool => HasRoom(filled)
                          /\ rItem \in Pool \/ nItem \in Pool => HasRoom(free)

\* Unless a thread is careless every item passed on reaches the reader or,
\* skipped, the writer again.
Circulates ==
    \A b \in Pool : filled # << >> /\ filled[Len(filled)] = b ~> rItem = b \/ wItem = b \/ careless
=============================================================================
