------------------------------- MODULE FifoViews -------------------------------
(***************************************************************************)
(* CircularFifo over queues whose threads do not see at once what the      *)
(* other did.                                                              *)
(*                                                                         *)
(* write() compares with the readIndex_ it loads, which may be an old one: *)
(* some of the reads the other thread has done are unseen, and the queue   *)
(* looks fuller than it is.  A loop then spins some more, but next() tries *)
(* once.  What bounds the number is that every read() that succeeds has    *)
(* loaded a writeIndex_ with acquire: the thread has then seen all that    *)
(* the other one did before it wrote that item with release.               *)
(*                                                                         *)
(* A read() that fails for an old writeIndex_ is a wait, or PopNothing.    *)
(***************************************************************************)
EXTENDS CircularFifo

VARIABLES unseenFree,    \* reads of free_slots the reader has not seen
          unseenFilled,  \* reads of filled_slots the writer has not seen
          (* For each item in the queue, how often the thread that wrote it *)
          (* has since read the other queue.                                *)
          sinceFree, sinceFilled

viewVars == <<unseenFree, unseenFilled, sinceFree, sinceFilled>>
allVars  == <<vars, viewVars>>

\* The constructor runs before there are two threads.
ViewInit == /\ Init
            /\ unseenFree = 0 /\ unseenFilled = 0
            /\ sinceFree = [i \in Pool |-> 0] /\ sinceFilled = << >>

\* How many remain unseen after the oldest item of a queue has been read.
AcquiredRelaxed(unseen, since) == 0 .. unseen
Acquired(unseen, since) == {n \in 0 .. unseen : n <= Head(since)}

\* Size - 1 stands for any larger number: no more reads can be unseen.
OneMore(since) ==
    [k \in DOMAIN since |-> IF since[k] < Size - 1 THEN since[k] + 1 ELSE Size - 1]

\* read() by the writer and by the reader.
ReadsFree ==
    /\ unseenFilled' \in Acquired(unseenFilled, sinceFree)
    /\ unseenFree' = unseenFree + 1
    /\ sinceFree' = Tail(sinceFree) /\ sinceFilled' = OneMore(sinceFilled)
ReadsFilled ==
    /\ unseenFree' \in Acquired(unseenFree, sinceFilled)
    /\ unseenFilled' = unseenFilled + 1
    /\ sinceFilled' = Tail(sinceFilled) /\ sinceFree' = OneMore(sinceFree)

\* What write() takes for room in a queue of which n reads are unseen.
SeesRoom(queue, n) == Len(queue) + n < Size - 1

\* write() that finds room, by the writer and by the reader.
WritesFilled ==
    /\ unseenFilled' \in 0 .. unseenFilled
    /\ SeesRoom(filled, unseenFilled')
    /\ sinceFilled' = Append(sinceFilled, 0)
    /\ UNCHANGED <<unseenFree, sinceFree>>
WritesFree ==
    /\ unseenFree' \in 0 .. unseenFree
    /\ SeesRoom(free, unseenFree')
    /\ sinceFree' = Append(sinceFree, 0)
    /\ UNCHANGED <<unseenFilled, sinceFilled>>

\* next(): its one attempt.
GiveBack ==
    \E n \in 0 .. unseenFree :
        /\ NextWrite(SeesRoom(free, n))
        /\ unseenFree' = n
        /\ sinceFree' = IF SeesRoom(free, n) THEN Append(sinceFree, 0) ELSE sinceFree
        /\ UNCHANGED <<unseenFilled, sinceFilled>>

Fills == PopFree /\ ReadsFree
Passes == PushValue /\ WritesFilled
Receives == PopValue /\ ReadsFilled
Returns == PushFree /\ WritesFree

ViewNext ==
    \/ Fills \/ Passes \/ Receives \/ Returns \/ GiveBack
    \/ PushOwn /\ WritesFilled
    \/ NextRead /\ ReadsFilled
    \/ (WriterDrops \/ PopNothing \/ ReaderDrops \/ Stop) /\ UNCHANGED viewVars

ViewSpec == ViewInit /\ [][ViewNext]_allVars

(***************************************************************************)
(* Both threads go on: the writer fills and passes on, the reader reads    *)
(* and gives back.  A store is seen at last, so a read() that is tried     *)
(* again and again succeeds, even where pop_value returns in between       *)
(* because it is stopped.                                                  *)
(***************************************************************************)
FairSpec == /\ ViewSpec
            /\ WF_allVars(Fills \/ Passes)
            /\ WF_allVars(Returns \/ GiveBack \/ (rItem = Own /\ ReaderDrops /\ UNCHANGED viewVars))
            /\ SF_allVars(Receives)
-----------------------------------------------------------------------------
(***************************************************************************)
(* Properties.                                                             *)
(***************************************************************************)
\* Unless a thread is careless what came out of the fifo is seen to fit back
\* in, however old the index that write() loads: push_value and push_free
\* never spin, and the one attempt of next() succeeds.
RoomIsSeen ==
    ~careless => /\ wItem \in Pool => SeesRoom(filled, unseenFilled)
                 /\ rItem \in Pool \/ nItem \in Pool => SeesRoom(free, unseenFree)

\* What the threads do not see makes no difference to the fifo: it behaves as
\* one over atomic queues.
ViewsAreHarmless == Spec
=============================================================================
