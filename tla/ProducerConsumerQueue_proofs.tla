--------------------- MODULE ProducerConsumerQueue_proofs ---------------------
(***************************************************************************)
(* The safety of ProducerConsumerQueue for a ring of any size, any items   *)
(* and any stale loads, and that it implements BoundedFifo.                *)
(***************************************************************************)
EXTENDS ProducerConsumerQueue, SequenceTheorems, TLAPS

(***************************************************************************)
(* The inductive invariant.                                                *)
(***************************************************************************)
\* What each thread saw last of the other's index was stored not long ago:
\* going round the ring one meets wView, readIndex, writeIndex in this order,
\* and readIndex, rView, writeIndex.
ViewsInOrder ==
    /\ Ahead(wView, readIndex) <= Ahead(wView, writeIndex)
    /\ Ahead(readIndex, rView) <= Ahead(readIndex, writeIndex)

\* A call under way, and an answer given, rest on what the thread saw.
ViewsAllow ==
    /\ wpc # "idle" \/ wRoom => Succ(writeIndex) # wView
    /\ rpc # "idle" \/ rSome \/ front # -1 => readIndex # rView
    /\ front # -1 => front = readIndex /\ rpc = "idle"
    /\ wpc # "idle" => wItem \in Item
    /\ ~alive => wpc = "idle" /\ rpc = "idle" /\ front = -1

\* What the slot s holds.
Holds(s) ==
    IF s = readIndex /\ rpc = "destroy" THEN records[s] = Shell
    ELSE IF s = readIndex /\ rpc = "publish" THEN records[s] = Raw
    ELSE IF Ahead(readIndex, s) < Ahead(readIndex, writeIndex) THEN records[s] \in Item
    ELSE IF s = writeIndex /\ wpc = "publish" THEN records[s] = wItem
    ELSE records[s] = Raw

SlotsHold == \A s \in Slot : IF alive THEN Holds(s) ELSE records[s] = Raw

IInv == TypeOK /\ ViewsInOrder /\ ViewsAllow /\ SlotsHold /\ GuessBounds

\* The type invariant in parts that the provers take one at a time.
FlagsOK   == wRoom \in BOOLEAN /\ rSome \in BOOLEAN /\ alive \in BOOLEAN
IndicesOK == readIndex \in Slot /\ writeIndex \in Slot /\ wView \in Slot /\ rView \in Slot
AnswersOK == wGuess \in -1 .. Size - 1 /\ rGuess \in -1 .. Size - 1 /\ front \in -1 .. Size - 1
StepsOK   == /\ wpc \in {"idle", "construct", "publish"}
             /\ rpc \in {"idle", "take", "destroy", "drop", "publish"}
ItemsOK   == /\ records \in [Slot -> Item \cup {Raw, Shell}]
             /\ wItem \in Item \cup {Shell} /\ record \in Item \cup {Shell}

\* TypeOK is its parts.
LEMMA TypeParts == TypeOK <=> FlagsOK /\ IndicesOK /\ AnswersOK /\ StepsOK /\ ItemsOK
BY DEF TypeOK, FlagsOK, IndicesOK, AnswersOK, StepsOK, ItemsOK
-----------------------------------------------------------------------------
(***************************************************************************)
(* Going round the ring.                                                   *)
(***************************************************************************)
\* Succ stays on the ring.
LEMMA SuccInSlot == ASSUME NEW a \in Slot PROVE Succ(a) \in Slot /\ Succ(a) # a
BY SizeAssumption DEF Slot, Succ

\* Ahead counts fewer steps than the ring has slots, and none for the same slot only.
LEMMA AheadRange == ASSUME NEW a \in Slot, NEW b \in Slot
                    PROVE /\ Ahead(a, b) \in 0 .. Size - 1
                          /\ Ahead(a, b) = 0 <=> a = b
BY SizeAssumption DEF Slot, Ahead

\* A step of the further slot.
LEMMA AheadSucc == ASSUME NEW a \in Slot, NEW b \in Slot, Succ(b) # a
                   PROVE Ahead(a, Succ(b)) = Ahead(a, b) + 1
BY SizeAssumption DEF Slot, Ahead, Succ

\* A step of the nearer slot.
LEMMA SuccAhead == ASSUME NEW a \in Slot, NEW b \in Slot, a # b
                   PROVE Ahead(Succ(a), b) = Ahead(a, b) - 1
BY SizeAssumption DEF Slot, Ahead, Succ

\* sizeGuess() computes how far the one index is ahead of the other.
LEMMA SizeIsAhead == ASSUME NEW w \in Slot, NEW r \in Slot
                     PROVE SizeOf(w, r) = Ahead(r, w)
BY SizeAssumption DEF Slot, Ahead, SizeOf
\* Different slots are ahead by different numbers.
LEMMA SameAhead ==
    ASSUME NEW a \in Slot, NEW b \in Slot, NEW c \in Slot, Ahead(a, b) = Ahead(a, c)
    PROVE b = c
BY SizeAssumption DEF Slot, Ahead

\* From a slot back to itself it is once round the ring.
LEMMA AllRound == ASSUME NEW a \in Slot PROVE Ahead(Succ(a), a) = Size - 1
BY SizeAssumption DEF Slot, Ahead, Succ

\* What the loads of the other side's index may return.
LEMMA VisibleRange ==
    ASSUME NEW seen \in Slot, NEW latest \in Slot, NEW v \in Visible(seen, latest)
    PROVE  v \in Slot /\ Ahead(seen, v) <= Ahead(seen, latest)
BY DEF Visible

\* A newer view of the reader's index is still behind it.
LEMMA NewerView ==
    ASSUME NEW seen \in Slot, NEW r \in Slot, NEW w \in Slot, NEW v \in Slot,
           Ahead(seen, r) <= Ahead(seen, w), Ahead(seen, v) <= Ahead(seen, r)
    PROVE  /\ Ahead(v, r) <= Ahead(v, w)
           /\ Ahead(r, w) <= Ahead(v, w)
           /\ Succ(w) # seen => Succ(w) # v
BY SizeAssumption DEF Slot, Ahead, Succ

\* A newer view of the writer's index is no further back.
LEMMA NewerEnd ==
    ASSUME NEW seen \in Slot, NEW r \in Slot, NEW w \in Slot, NEW v \in Slot,
           Ahead(r, seen) <= Ahead(r, w), Ahead(seen, v) <= Ahead(seen, w)
    PROVE  /\ Ahead(r, v) <= Ahead(r, w)
           /\ r # seen => r # v
BY SizeAssumption DEF Slot, Ahead

\* The writer steps on, not onto what it saw of the reader.
LEMMA WriterSteps ==
    ASSUME NEW seen \in Slot, NEW r \in Slot, NEW w \in Slot, NEW v \in Slot,
           Ahead(seen, r) <= Ahead(seen, w), Ahead(r, v) <= Ahead(r, w), Succ(w) # seen
    PROVE  /\ Ahead(seen, r) <= Ahead(seen, Succ(w))
           /\ Ahead(r, Succ(w)) = Ahead(r, w) + 1
           /\ Ahead(r, v) <= Ahead(r, Succ(w))
           /\ Succ(w) # r
BY SizeAssumption DEF Slot, Ahead, Succ

\* The reader steps on, not past what it saw of the writer.
LEMMA ReaderSteps ==
    ASSUME NEW seen \in Slot, NEW r \in Slot, NEW w \in Slot, NEW v \in Slot,
           Ahead(seen, r) <= Ahead(seen, w), Ahead(r, v) <= Ahead(r, w), r # v
    PROVE  /\ Ahead(seen, Succ(r)) <= Ahead(seen, w)
           /\ Ahead(Succ(r), v) <= Ahead(Succ(r), w)
           /\ Ahead(Succ(r), w) = Ahead(r, w) - 1
           /\ r # w
BY SizeAssumption DEF Slot, Ahead, Succ

-----------------------------------------------------------------------------
\* A thread that has seen an item is right: the ring is not empty.
LEMMA NotEmpty ==
    ASSUME IInv, readIndex # rView
    PROVE  readIndex # writeIndex /\ Ahead(readIndex, readIndex) < Ahead(readIndex,
          writeIndex)
<1>1. readIndex \in Slot /\ rView \in Slot /\ writeIndex \in Slot BY TypeParts DEF IInv,
      IndicesOK
<1>2. Ahead(readIndex, readIndex) < Ahead(readIndex, writeIndex)
  BY <1>1, AheadRange, SizeAssumption DEF ViewsInOrder, IInv
<1> QED BY <1>1, <1>2, AheadRange, SizeAssumption

\* And until it takes the item, the item is there.
LEMMA FrontHolds ==
    ASSUME IInv, alive, readIndex # rView, rpc \notin {"destroy", "publish"}
    PROVE  records[readIndex] \in Item /\ readIndex # writeIndex
<1> QED BY NotEmpty, TypeParts DEF IInv, SlotsHold, Holds, IndicesOK

\* The queue starts empty.
LEMMA InitIInv == Init => IInv
<1> SUFFICES ASSUME Init PROVE IInv OBVIOUS
<1> USE SizeAssumption, ItemAssumption DEF Init
<1>1. FlagsOK BY DEF FlagsOK
<1>2. IndicesOK BY DEF IndicesOK, Slot
<1>3. AnswersOK BY DEF AnswersOK
<1>4. StepsOK BY DEF StepsOK
<1>5. ItemsOK BY DEF ItemsOK
<1>6. TypeOK BY <1>1, <1>2, <1>3, <1>4, <1>5, TypeParts
<1>7. ViewsInOrder BY DEF ViewsInOrder, Ahead
<1>8. ViewsAllow BY Zenon DEF ViewsAllow
<1>9. GuessBounds BY DEF GuessBounds
<1>10. SlotsHold BY DEF SlotsHold, Holds, Slot, Ahead
<1> QED BY <1>6, <1>7, <1>8, <1>9, <1>10 DEF IInv

\* The flags stay Booleans.
LEMMA FlagsStep == TypeOK /\ [Next]_vars => FlagsOK'
<1> SUFFICES ASSUME FlagsOK, [Next]_vars PROVE FlagsOK' BY TypeParts
<1> QED BY DEF FlagsOK, Next, Producer, WriteHasRoom, WriteFull, WriteConstruct,
      WritePublish, ProducerSizeGuess, ProducerIsFull, cVars, Consumer, ReadHasItem,
      ReadEmpty, ReadTake, ReadDestroy, ReadPublish, FrontPtr, PopFront,
      ConsumerSizeGuess, ConsumerIsEmpty, pVars, Destruct, vars

\* The indices and the views of them stay on the ring.
LEMMA IndicesStep == TypeOK /\ [Next]_vars => IndicesOK'
<1> SUFFICES ASSUME IndicesOK, [Next]_vars PROVE IndicesOK' BY TypeParts
<1> QED BY SuccInSlot, VisibleRange DEF IndicesOK, Next, Producer, WriteHasRoom,
      WriteFull, WriteConstruct, WritePublish, ProducerSizeGuess, ProducerIsFull, cVars,
      Consumer, ReadHasItem, ReadEmpty, ReadTake, ReadDestroy, ReadPublish, FrontPtr,
      PopFront, ConsumerSizeGuess, ConsumerIsEmpty, pVars, Destruct, vars

\* The threads stay within their calls.
LEMMA StepsStep == TypeOK /\ [Next]_vars => StepsOK'
<1> SUFFICES ASSUME StepsOK, [Next]_vars PROVE StepsOK' BY TypeParts
<1> QED BY DEF StepsOK, Next, Producer, WriteHasRoom, WriteFull, WriteConstruct,
      WritePublish, ProducerSizeGuess, ProducerIsFull, cVars, Consumer, ReadHasItem,
      ReadEmpty, ReadTake, ReadDestroy, ReadPublish, FrontPtr, PopFront,
      ConsumerSizeGuess, ConsumerIsEmpty, pVars, Destruct, vars

\* Guesses and the front pointer stay in range.
LEMMA AnswersStep == TypeOK /\ [Next]_vars => AnswersOK'
<1> SUFFICES ASSUME AnswersOK, IndicesOK, IndicesOK',
      [Next]_vars PROVE AnswersOK' BY TypeParts, IndicesStep
<1> USE SizeAssumption DEF AnswersOK, IndicesOK
<1>1. CASE ProducerSizeGuess
  <2>1. wGuess' \in 0 .. Size - 1 BY <1>1, SizeIsAhead, AheadRange DEF ProducerSizeGuess
  <2> QED BY <1>1, <2>1 DEF ProducerSizeGuess, cVars
<1>2. CASE ConsumerSizeGuess
  <2>1. rGuess' \in 0 .. Size - 1 BY <1>2, SizeIsAhead, AheadRange DEF ConsumerSizeGuess
  <2> QED BY <1>2, <2>1 DEF ConsumerSizeGuess, pVars
<1>3. CASE FrontPtr
  <2>1. front' \in -1 .. Size - 1 BY <1>3 DEF FrontPtr, Slot
  <2> QED BY <1>3, <2>1 DEF FrontPtr, pVars
<1>4. ASSUME ~ProducerSizeGuess, ~ConsumerSizeGuess, ~FrontPtr
      PROVE  wGuess' \in {wGuess, -1} /\ rGuess' \in {rGuess, -1} /\ front' \in {front,
            -1}
  BY <1>4 DEF Next, Producer, WriteHasRoom, WriteFull, WriteConstruct, WritePublish,
        ProducerIsFull, cVars, Consumer, ReadHasItem, ReadEmpty, ReadTake, ReadDestroy,
        ReadPublish, PopFront, ConsumerIsEmpty, pVars, Destruct, vars
<1> QED BY <1>1, <1>2, <1>3, <1>4

\* No variable of the type T is ever left without an object.
LEMMA ItemsStep == IInv /\ [Next]_vars => ItemsOK'
<1> SUFFICES ASSUME IInv, TypeOK, ItemsOK, IndicesOK,
      [Next]_vars PROVE ItemsOK' BY TypeParts DEF IInv
<1> USE DEF ItemsOK, IndicesOK
<1>1. ASSUME NEW x \in Item, WriteHasRoom(x) PROVE ItemsOK' BY <1>1 DEF WriteHasRoom,
      cVars
<1>2. CASE WriteConstruct BY <1>2 DEF WriteConstruct, cVars
<1>3. CASE ReadTake
  <2>1. records[readIndex] \in Item BY <1>3, FrontHolds DEF IInv, ViewsAllow, ReadTake
  <2> QED BY <1>3, <2>1 DEF ReadTake, pVars
<1>4. CASE ReadDestroy BY <1>4 DEF ReadDestroy, pVars
<1>5. CASE Destruct BY <1>5 DEF Destruct
<1>6. CASE WritePublish BY <1>6 DEF WritePublish, cVars
<1>7. ASSUME \A x \in Item : ~WriteHasRoom(x), ~WriteConstruct, ~ReadTake, ~ReadDestroy,
      ~Destruct, ~WritePublish
      PROVE  UNCHANGED <<records, wItem, record>>
  BY <1>7 DEF Next, Producer, WriteFull, ProducerSizeGuess, ProducerIsFull, cVars,
        Consumer, ReadHasItem, ReadEmpty, ReadPublish, FrontPtr, PopFront,
        ConsumerSizeGuess, ConsumerIsEmpty, pVars, vars
<1> QED BY <1>1, <1>2, <1>3, <1>4, <1>5, <1>6, <1>7

\* The views stay in order: a view only gets newer, and an index moves only
\* where the view of its thread allows.
LEMMA ViewsStep == IInv /\ [Next]_vars => ViewsInOrder'
<1> SUFFICES ASSUME TypeOK, ViewsInOrder, ViewsAllow, IndicesOK,
      [Next]_vars PROVE ViewsInOrder' BY TypeParts DEF IInv
<1> USE DEF ViewsInOrder, IndicesOK
<1>1. CASE WritePublish
  BY <1>1, WriterSteps DEF WritePublish, ViewsAllow, cVars
<1>2. CASE ReadPublish
  BY <1>2, ReaderSteps DEF ReadPublish, ViewsAllow, pVars
<1>3. ASSUME wView' \in Visible(wView, readIndex), UNCHANGED <<readIndex, writeIndex,
      rView>>
      PROVE  ViewsInOrder'
  BY <1>3, VisibleRange, NewerView
<1>4. ASSUME rView' \in Visible(rView, writeIndex), UNCHANGED <<readIndex, writeIndex,
      wView>>
      PROVE  ViewsInOrder'
  BY <1>4, VisibleRange, NewerEnd
<1>5. CASE UNCHANGED <<readIndex, writeIndex, wView, rView>>
  BY <1>5
<1> QED BY <1>1, <1>2, <1>3, <1>4, <1>5 DEF Next, Producer, WriteHasRoom, WriteFull,
      WriteConstruct, ProducerSizeGuess, ProducerIsFull, cVars, Consumer, ReadHasItem,
      ReadEmpty, ReadTake, ReadDestroy, FrontPtr, PopFront, ConsumerSizeGuess,
      ConsumerIsEmpty, pVars, Destruct, vars

\* What a thread saw goes on to support what it does, for a newer view of
\* the other side shows more room or more items.
LEMMA AllowStep == IInv /\ [Next]_vars => ViewsAllow'
<1> SUFFICES ASSUME TypeOK, ViewsInOrder, ViewsAllow, IndicesOK,
      [Next]_vars PROVE ViewsAllow' BY TypeParts DEF IInv
<1> USE DEF ViewsAllow, IndicesOK
<1>1. ASSUME NEW x \in Item, WriteHasRoom(x) PROVE ViewsAllow'
  BY <1>1 DEF WriteHasRoom, ProducerIdle, Full, cVars
<1>2. CASE WriteFull
  BY <1>2, VisibleRange, NewerView DEF WriteFull, ProducerIdle, ViewsInOrder, cVars
<1>3. CASE WriteConstruct BY <1>3 DEF WriteConstruct, cVars
<1>4. CASE WritePublish BY <1>4 DEF WritePublish, cVars
<1>5. CASE ProducerSizeGuess
  BY <1>5, VisibleRange, NewerView DEF ProducerSizeGuess, ProducerIdle, ViewsInOrder,
        cVars
<1>6. CASE ProducerIsFull BY <1>6 DEF ProducerIsFull, ProducerIdle, cVars
<1>7. CASE ReadHasItem BY <1>7 DEF ReadHasItem, ConsumerIdle, Empty, pVars
<1>8. CASE ReadEmpty
  BY <1>8, VisibleRange, NewerEnd DEF ReadEmpty, ConsumerIdle, ViewsInOrder, pVars
<1>9. CASE ReadTake BY <1>9 DEF ReadTake, pVars
<1>10. CASE ReadDestroy BY <1>10 DEF ReadDestroy, pVars
<1>11. CASE ReadPublish BY <1>11 DEF ReadPublish, pVars
<1>12. CASE FrontPtr BY <1>12 DEF FrontPtr, ConsumerIdle, pVars
<1>13. CASE PopFront
  BY <1>13, VisibleRange, NewerEnd DEF PopFront, ConsumerIdle, ViewsInOrder, pVars
<1>14. CASE ConsumerSizeGuess
  BY <1>14, VisibleRange, NewerEnd DEF ConsumerSizeGuess, ConsumerIdle, ViewsInOrder,
        pVars
<1>15. CASE ConsumerIsEmpty
  <2>1. readIndex # rView => readIndex # rView'
    BY <1>15, VisibleRange, NewerEnd DEF ConsumerIsEmpty, ViewsInOrder
  <2> QED BY <1>15, <2>1 DEF ConsumerIsEmpty, ConsumerIdle, pVars
<1>16. CASE Destruct BY <1>16 DEF Destruct, ProducerIdle, ConsumerIdle
<1>17. CASE UNCHANGED vars BY <1>17 DEF vars, pVars, cVars
<1> QED BY <1>1, <1>2, <1>3, <1>4, <1>5, <1>6, <1>7, <1>8, <1>9, <1>10, <1>11, <1>12,
      <1>13, <1>14, <1>15, <1>16, <1>17 DEF Next, Producer, Consumer

\* A guess stays a bound while the other thread works on.
LEMMA GuessStep == IInv /\ [Next]_vars => GuessBounds'
<1> SUFFICES ASSUME TypeOK, ViewsInOrder, ViewsAllow, GuessBounds, IndicesOK, AnswersOK,
      [Next]_vars
             PROVE GuessBounds' BY TypeParts DEF IInv
<1> USE DEF GuessBounds, IndicesOK, AnswersOK, Length
<1>1. Length \in 0 .. Size - 1 BY AheadRange
<1>2. CASE ProducerSizeGuess
  BY <1>2, VisibleRange, NewerView, SizeIsAhead DEF ProducerSizeGuess, ViewsInOrder, cVars
<1>3. CASE ConsumerSizeGuess
  BY <1>3, VisibleRange, NewerEnd, SizeIsAhead DEF ConsumerSizeGuess, ViewsInOrder, pVars
<1>4. CASE WritePublish
  BY <1>1, <1>4, WriterSteps, SizeAssumption DEF WritePublish, ViewsInOrder, ViewsAllow,
        cVars
<1>5. CASE ReadPublish
  BY <1>1, <1>5, ReaderSteps, SizeAssumption DEF ReadPublish, ViewsInOrder, ViewsAllow,
        pVars
<1>6. ASSUME ~ProducerSizeGuess, ~ConsumerSizeGuess, ~WritePublish, ~ReadPublish
      PROVE  /\ UNCHANGED <<readIndex, writeIndex>>
             /\ wGuess' \in {wGuess, -1} /\ rGuess' \in {rGuess, -1}
  BY <1>6 DEF Next, Producer, WriteHasRoom, WriteFull, WriteConstruct, ProducerIsFull,
        cVars, Consumer, ReadHasItem, ReadEmpty, ReadTake, ReadDestroy, FrontPtr,
        PopFront, ConsumerIsEmpty, pVars, Destruct, vars
<1> QED BY <1>2, <1>3, <1>4, <1>5, <1>6

\* Every slot holds what the two indices say it does.
LEMMA SlotsStep == IInv /\ [Next]_vars => SlotsHold'
<1> SUFFICES ASSUME IInv, [Next]_vars, NEW s \in Slot
             PROVE  (IF alive THEN Holds(s) ELSE records[s] = Raw)'
  BY DEF SlotsHold
<1> USE DEF IndicesOK, ItemsOK, StepsOK
<1>0. TypeOK /\ IndicesOK /\ ItemsOK /\ StepsOK BY TypeParts DEF IInv
<1>h. IF alive THEN Holds(s) ELSE records[s] = Raw BY DEF IInv, SlotsHold
<1>1. ASSUME NEW x \in Item, WriteHasRoom(x) PROVE (Holds(s) /\ alive)'
  BY <1>h, <1>1 DEF WriteHasRoom, ProducerIdle, Holds, cVars
<1>2. CASE WriteConstruct
  <2>1. alive /\ records[writeIndex] = Raw
    BY <1>0, <1>2, AheadRange, NotEmpty, SizeAssumption DEF WriteConstruct, IInv,
          ViewsAllow, SlotsHold, Holds
  <2>2. ~(Ahead(readIndex, writeIndex) < Ahead(readIndex, writeIndex))
    BY <1>0, AheadRange, SizeAssumption
  <2>3. rpc \in {"destroy", "publish"} => readIndex # writeIndex
    BY NotEmpty DEF IInv, ViewsAllow
  <2>4. CASE s = writeIndex
    BY <1>0, <1>2, <2>1, <2>2, <2>3, <2>4 DEF WriteConstruct, Holds, cVars
  <2>5. CASE s # writeIndex
    BY <1>0, <1>h, <1>2, <2>1, <2>5 DEF WriteConstruct, Holds, cVars
  <2> QED BY <2>4, <2>5
<1>3. CASE WritePublish
  <2>1. /\ alive /\ wItem \in Item /\ Succ(writeIndex) # readIndex
        /\ Ahead(readIndex, writeIndex') = Ahead(readIndex, writeIndex) + 1
    BY <1>0, <1>3, WriterSteps DEF WritePublish, IInv, ViewsAllow, ViewsInOrder
  <2>2. rpc \in {"destroy", "publish"} => readIndex # writeIndex
    BY NotEmpty DEF IInv, ViewsAllow
  <2>3. CASE s = writeIndex
    <3>1. records[s] = wItem
      BY <1>0, <1>h, <1>3, <2>1, <2>2, <2>3, AheadRange, SizeAssumption DEF WritePublish,
            Holds
    <3> QED BY <1>0, <1>3, <2>1, <2>2, <2>3, <3>1, AheadRange,
          SizeAssumption DEF WritePublish, Holds, cVars
  <2>4. CASE s # writeIndex
    <3>1. Ahead(readIndex, s) < Ahead(readIndex, writeIndex) <=> Ahead(readIndex,
          s) < Ahead(readIndex, writeIndex')
      BY <1>0, <2>1, <2>4, SameAhead, AheadRange, SizeAssumption
    <3> QED BY <1>0, <1>h, <1>3, <2>1, <2>4, <3>1 DEF WritePublish, Holds, cVars
  <2> QED BY <2>3, <2>4
<1>4. CASE ReadTake
  <2>1. alive BY <1>4 DEF ReadTake, IInv, ViewsAllow
  <2> QED BY <1>0, <1>h, <1>4, <2>1 DEF ReadTake, Holds, pVars
<1>5. CASE ReadDestroy
  <2>1. alive BY <1>5 DEF ReadDestroy, IInv, ViewsAllow
  <2> QED BY <1>0, <1>h, <1>5, <2>1 DEF ReadDestroy, Holds, pVars
<1>6. CASE ReadPublish
  <2>1. alive /\ Ahead(readIndex', writeIndex) = Ahead(readIndex,
        writeIndex) - 1 /\ readIndex # writeIndex
    BY <1>0, <1>6, ReaderSteps DEF ReadPublish, IInv, ViewsAllow, ViewsInOrder
  <2>2. CASE s = readIndex
    <3>1. ~(Ahead(readIndex', s) < Ahead(readIndex', writeIndex))
      BY <1>0, <1>6, <2>1, <2>2, AllRound, AheadRange, SizeAssumption DEF ReadPublish
    <3> QED BY <1>0, <1>h, <1>6, <2>1, <2>2, <3>1 DEF ReadPublish, Holds, pVars
  <2>3. CASE s # readIndex
    <3>1. Ahead(readIndex, s) < Ahead(readIndex, writeIndex) <=> Ahead(readIndex',
          s) < Ahead(readIndex', writeIndex)
      BY <1>0, <1>6, <2>1, <2>3, SuccAhead, AheadRange, SizeAssumption DEF ReadPublish
    <3> QED BY <1>0, <1>h, <1>6, <2>1, <2>3, <3>1 DEF ReadPublish, Holds, pVars
  <2> QED BY <2>2, <2>3
<1>7. CASE Destruct
  BY <1>0, <1>h, <1>7 DEF Destruct, ProducerIdle, ConsumerIdle, Unread, Length, Holds
<1>8. CASE ReadHasItem \/ PopFront
  BY <1>h, <1>8 DEF ReadHasItem, PopFront, ConsumerIdle, Holds, pVars
<1>9. CASE UNCHANGED <<readIndex, writeIndex, records, alive, wpc, wItem, rpc>>
  BY <1>h, <1>9 DEF Holds
<1> QED BY <1>1, <1>2, <1>3, <1>4, <1>5, <1>6, <1>7, <1>8, <1>9 DEF Next, Producer,
      WriteFull, ProducerSizeGuess, ProducerIsFull, cVars, Consumer, ReadEmpty, FrontPtr,
      ConsumerSizeGuess, ConsumerIsEmpty, pVars, vars

\* IInv is inductive.
LEMMA StepIInv == IInv /\ [Next]_vars => IInv'
<1> SUFFICES ASSUME IInv, [Next]_vars PROVE IInv' OBVIOUS
<1>1. TypeOK BY DEF IInv
<1>2. FlagsOK' /\ IndicesOK' /\ AnswersOK' /\ StepsOK' /\ ItemsOK'
  BY <1>1, FlagsStep, IndicesStep, AnswersStep, StepsStep, ItemsStep
<1>3. TypeOK' BY <1>2 DEF TypeOK, FlagsOK, IndicesOK, AnswersOK, StepsOK, ItemsOK
<1> QED BY <1>3, ViewsStep, AllowStep, GuessStep, SlotsStep DEF IInv

\* IInv holds throughout.
THEOREM Invariance == Spec => []IInv
BY InitIInv, StepIInv, PTL DEF Spec

(***************************************************************************)
(* The variables have their types, for a queue of any size.                *)
(***************************************************************************)
THEOREM TypeCorrect == Spec => []TypeOK
<1>1. IInv => TypeOK BY DEF IInv
<1> QED BY <1>1, Invariance, PTL

(***************************************************************************)
(* write() never constructs over an object, read() and popFront() take and *)
(* destroy one that is there, and ~ProducerConsumerQueue leaves none.      *)
(***************************************************************************)
THEOREM LifetimesSafe == Spec => []LifetimeSafe
<1>1. IInv => LifetimeSafe
  <2> SUFFICES ASSUME IInv PROVE LifetimeSafe OBVIOUS
  <2> USE DEF IInv
  <2>1. IndicesOK BY TypeParts
  <2>2. ASSUME wpc = "construct" PROVE records[writeIndex] = Raw
    <3>1. rpc # "idle" => readIndex # writeIndex BY NotEmpty DEF ViewsAllow
    <3>2. ~(Ahead(readIndex, writeIndex) < Ahead(readIndex, writeIndex))
      BY <2>1, AheadRange, SizeAssumption DEF IndicesOK
    <3>3. alive BY <2>2 DEF ViewsAllow
    <3> QED BY <2>1, <2>2, <3>1, <3>2, <3>3 DEF SlotsHold, Holds, IndicesOK
  <2>3. ASSUME rpc \in {"take", "drop"} PROVE records[readIndex] \in Item
    BY <2>3, FrontHolds DEF ViewsAllow
  <2>4. ASSUME rpc = "destroy" PROVE records[readIndex] = Shell
    BY <2>1, <2>4 DEF SlotsHold, Holds, ViewsAllow, IndicesOK
  <2>5. ASSUME ~alive PROVE \A s \in Slot : records[s] = Raw
    BY <2>5 DEF SlotsHold
  <2> QED BY <2>2, <2>3, <2>4, <2>5 DEF LifetimeSafe
<1> QED BY <1>1, Invariance, PTL

(***************************************************************************)
(* sizeGuess() bounds the true size from the side its comment states.      *)
(***************************************************************************)
THEOREM GuessesBound == Spec => []GuessBounds
<1>1. IInv => GuessBounds BY DEF IInv
<1> QED BY <1>1, Invariance, PTL

(***************************************************************************)
(* Room seen by isFull() and an item seen by isEmpty() or frontPtr() are   *)
(* there for the next call, whatever it loads.                             *)
(***************************************************************************)
THEOREM AnswersStay == Spec => []AnswersHold
<1>1. IInv => AnswersHold
  <2> SUFFICES ASSUME IInv PROVE AnswersHold OBVIOUS
  <2> USE DEF IInv
  <2>1. IndicesOK BY TypeParts
  <2>2. ASSUME wRoom, NEW v \in Visible(wView, readIndex) PROVE ~Full(writeIndex, v)
    BY <2>1, <2>2, VisibleRange, NewerView DEF Full, ViewsInOrder, ViewsAllow, IndicesOK
  <2>3. ASSUME rSome, NEW v \in Visible(rView, writeIndex) PROVE ~Empty(readIndex, v)
    BY <2>1, <2>3, VisibleRange, NewerEnd DEF Empty, ViewsInOrder, ViewsAllow, IndicesOK
  <2> QED BY <2>2, <2>3 DEF AnswersHold
<1> QED BY <1>1, Invariance, PTL

(***************************************************************************)
(* The item frontPtr() points to stays untouched while it is used.         *)
(***************************************************************************)
THEOREM FrontUntouched == Spec => FrontStable
<1>1. IInv /\ [Next]_vars => [front # -1 /\ front' = front => /\ records[front] \in Item
                                                          /\ records'[front] = records[front]]_vars
  <2> SUFFICES ASSUME IInv, Next, front # -1, front' = front
               PROVE  records[front] \in Item /\ records'[front] = records[front]
    OBVIOUS
  <2>1. /\ alive /\ front = readIndex /\ rpc = "idle"
        /\ records[readIndex] \in Item /\ readIndex # writeIndex
    BY FrontHolds DEF IInv, ViewsAllow
  <2>2. IndicesOK /\ ItemsOK BY TypeParts DEF IInv
  <2>3. CASE WriteConstruct
    BY <2>1, <2>2, <2>3 DEF WriteConstruct, IndicesOK, ItemsOK
  <2>4. CASE UNCHANGED records BY <2>1, <2>4
  <2> QED BY <2>1, <2>3, <2>4 DEF Next, Producer, WriteHasRoom, WriteFull, WritePublish,
        ProducerSizeGuess, ProducerIsFull, Consumer, ReadHasItem, ReadEmpty, ReadTake,
        ReadDestroy, ReadPublish, FrontPtr, PopFront, ConsumerSizeGuess, ConsumerIsEmpty,
        Destruct
<1> QED BY <1>1, Invariance, PTL DEF Spec, FrontStable
-----------------------------------------------------------------------------
(***************************************************************************)
(* ProducerConsumerQueue implements BoundedFifo, whatever its size and the *)
(* items: every step puts, takes, discards, destroys or is invisible.      *)
(***************************************************************************)
\* The n slots of a ring from the slot a on, as a sequence.
Ring(recs, a, n) == [k \in 1 .. n |-> recs[Wrap(a + k - 1)]]

\* The length of Contents while the queue is alive.
Count == Ahead(First, writeIndex)

\* Wrap leads from a slot to the one that is ahead by so many steps.
LEMMA WrapAhead ==
    ASSUME NEW a \in Slot, NEW k \in 1 .. Size
    PROVE  /\ Wrap(a + k - 1) \in Slot
           /\ Ahead(a, Wrap(a + k - 1)) = k - 1
BY SizeAssumption DEF Wrap, Ahead, Slot

\* The slot right behind n slots is the one that is n ahead.
LEMMA WrapEnd ==
    ASSUME NEW a \in Slot, NEW b \in Slot
    PROVE  Wrap(a + Ahead(a, b)) = b
BY SizeAssumption DEF Wrap, Ahead, Slot

\* One slot on, everything is one step nearer.
LEMMA WrapSucc ==
    ASSUME NEW a \in Slot, NEW k \in 1 .. Size - 1
    PROVE  Wrap(Succ(a) + k - 1) = Wrap(a + (k + 1) - 1)
BY SizeAssumption DEF Wrap, Succ, Slot

\* A ring of items is a sequence of them.
LEMMA RingIsSeq ==
    ASSUME NEW recs, NEW a \in Slot, NEW n \in 0 .. Size - 1,
           \A k \in 1 .. n : recs[Wrap(a + k - 1)] \in Item
    PROVE  /\ Ring(recs, a, n) \in Seq(Item)
           /\ Len(Ring(recs, a, n)) = n
           /\ \A k \in 1 .. n : Ring(recs, a, n)[k] = recs[Wrap(a + k - 1)]
<1>1. Ring(recs, a, n) \in [1 .. n -> Item] BY DEF Ring
<1>2. n \in Nat BY SizeAssumption
<1> QED BY <1>1, <1>2 DEF Ring

\* One more slot at the far end appends its item.
LEMMA RingAppend ==
    ASSUME NEW recs, NEW a \in Slot, NEW w \in Slot, Ahead(a, w) < Size - 1,
           \A k \in 1 .. Ahead(a, w) : recs[Wrap(a + k - 1)] \in Item,
           recs[w] \in Item
    PROVE  Ring(recs, a, Ahead(a, w) + 1) = Append(Ring(recs, a, Ahead(a, w)), recs[w])
<1> DEFINE n == Ahead(a, w)
           s == Ring(recs, a, n)
           t == Ring(recs, a, n + 1)
<1>1. n \in 0 .. Size - 1 /\ n + 1 \in 0 .. Size - 1 BY AheadRange, SizeAssumption
<1>2. recs[Wrap(a + (n + 1) - 1)] = recs[w]
  <2>1. a + (n + 1) - 1 = a + Ahead(a, w) BY <1>1, SizeAssumption DEF Slot
  <2> QED BY <2>1, WrapEnd
<1>3. \A k \in 1 .. n + 1 : recs[Wrap(a + k - 1)] \in Item
  <2> SUFFICES ASSUME NEW k \in 1 .. n + 1 PROVE recs[Wrap(a + k - 1)] \in Item OBVIOUS
  <2>1. k \in 1 .. n \/ k = n + 1 BY <1>1, SizeAssumption
  <2> QED BY <2>1, <1>2
<1> HIDE DEF n
<1>4. s \in Seq(Item) /\ Len(s) = n /\ \A k \in 1 .. n : s[k] = recs[Wrap(a + k - 1)]
  <2>1. \A k \in 1 .. n : recs[Wrap(a + k - 1)] \in Item BY <1>1, <1>3, SizeAssumption
  <2> QED BY <1>1, <2>1, RingIsSeq
<1>5. t \in Seq(Item) /\ Len(t) = n + 1 /\ \A k \in 1 .. n + 1 : t[k] = recs[Wrap(a + k - 1)]
  BY <1>1, <1>3, RingIsSeq
<1> HIDE DEF s, t
<1>6. /\ Append(s, recs[w]) \in Seq(Item) /\ Len(Append(s, recs[w])) = n + 1
      /\ \A k \in 1 .. n : Append(s, recs[w])[k] = s[k]
      /\ Append(s, recs[w])[n + 1] = recs[w]
  BY <1>4, AppendProperties
<1>7. \A k \in 1 .. n + 1 : t[k] = Append(s, recs[w])[k]
  <2> SUFFICES ASSUME NEW k \in 1 .. n + 1 PROVE t[k] = Append(s, recs[w])[k] OBVIOUS
  <2>1. CASE k \in 1 .. n
    <3>1. t[k] = recs[Wrap(a + k - 1)] BY <1>5
    <3>2. s[k] = recs[Wrap(a + k - 1)] BY <1>4, <2>1
    <3> QED BY <1>6, <2>1, <3>1, <3>2
  <2>2. CASE k = n + 1
    <3>1. t[n + 1] = recs[Wrap(a + (n + 1) - 1)] BY <1>5, <2>2
    <3> QED BY <1>2, <1>6, <2>2, <3>1
  <2>3. k \in 1 .. n \/ k = n + 1 BY <1>1, SizeAssumption
  <2> QED BY <2>1, <2>2, <2>3
<1>8. t = Append(s, recs[w]) BY <1>5, <1>6, <1>7, SeqEqual
<1> QED BY <1>8 DEF s, t, n

\* One slot fewer at the near end takes the head off.
LEMMA RingTail ==
    ASSUME NEW recs, NEW a \in Slot, NEW n \in 1 .. Size - 1,
           \A k \in 1 .. n : recs[Wrap(a + k - 1)] \in Item
    PROVE  /\ Ring(recs, a, n) # << >>
           /\ Head(Ring(recs, a, n)) = recs[a]
           /\ Ring(recs, Succ(a), n - 1) = Tail(Ring(recs, a, n))
<1> DEFINE s == Ring(recs, a, n)
           t == Ring(recs, Succ(a), n - 1)
<1>1. \A k \in 1 .. n - 1 : recs[Wrap(Succ(a) + k - 1)] = recs[Wrap(a + (k + 1) - 1)]
  BY WrapSucc, SizeAssumption
<1>2. s \in Seq(Item) /\ Len(s) = n /\ \A k \in 1 .. n : s[k] = recs[Wrap(a + k - 1)]
  BY RingIsSeq, SizeAssumption
<1>3. \A k \in 1 .. n - 1 : recs[Wrap(Succ(a) + k - 1)] \in Item
  BY <1>1, SizeAssumption
<1>4. /\ t \in Seq(Item) /\ Len(t) = n - 1
      /\ \A k \in 1 .. n - 1 : t[k] = recs[Wrap(Succ(a) + k - 1)]
  <2>1. Succ(a) \in Slot /\ n - 1 \in 0 .. Size - 1 BY SuccInSlot, SizeAssumption
  <2> QED BY <1>3, <2>1, RingIsSeq
<1>5. Wrap(a + 1 - 1) = a BY SizeAssumption DEF Wrap, Slot
<1> HIDE DEF s, t
<1>6. s # << >> BY <1>2, EmptySeq, SizeAssumption
<1>7. Head(s) = recs[a] BY <1>2, <1>5, <1>6, SizeAssumption
<1>8. Tail(s) \in Seq(Item) /\ Len(Tail(s)) = n - 1 /\ \A k \in 1 .. n - 1 : Tail(s)[k] = s[k + 1]
  BY <1>2, <1>6, HeadTailProperties
<1>9. \A k \in 1 .. n - 1 : t[k] = Tail(s)[k]
  <2> SUFFICES ASSUME NEW k \in 1 .. n - 1 PROVE t[k] = Tail(s)[k] OBVIOUS
  <2>1. k + 1 \in 1 .. n BY SizeAssumption
  <2>2. t[k] = recs[Wrap(a + (k + 1) - 1)] BY <1>1, <1>4
  <2>3. Tail(s)[k] = s[k + 1] BY <1>8
  <2> QED BY <1>2, <2>1, <2>2, <2>3
<1>10. t = Tail(s) BY <1>4, <1>8, <1>9, SeqEqual
<1> QED BY <1>6, <1>7, <1>10 DEF s, t
-----------------------------------------------------------------------------
\* What the contents of a live queue are.
LEMMA InRing ==
    ASSUME IInv, alive
    PROVE  /\ First \in Slot
           /\ Count \in 0 .. Size - 1
           /\ Contents = Ring(records, First, Count)
           /\ \A k \in 1 .. Count : /\ Wrap(First + k - 1) \in Slot
                                    /\ Wrap(First + k - 1) # writeIndex
                                    /\ First # readIndex => Wrap(First + k - 1) # readIndex
                                    /\ records[Wrap(First + k - 1)] \in Item
           /\ rpc # "idle" => readIndex # writeIndex /\ Ahead(Succ(readIndex), writeIndex) = Ahead(readIndex, writeIndex) - 1
<1>1. IndicesOK BY TypeParts DEF IInv
<1>2. rpc # "idle" => readIndex # writeIndex BY NotEmpty DEF IInv, ViewsAllow
<1>3. First \in Slot BY <1>1, SuccInSlot DEF First, IndicesOK
<1>4. Count \in 0 .. Size - 1 BY <1>1, <1>3, AheadRange DEF Count, IndicesOK
<1>5. rpc # "idle" => Ahead(Succ(readIndex), writeIndex) = Ahead(readIndex, writeIndex) - 1
  BY <1>1, <1>2, SuccAhead DEF IndicesOK
<1>6. ASSUME NEW k \in 1 .. Count
      PROVE  /\ Wrap(First + k - 1) \in Slot
             /\ Wrap(First + k - 1) # writeIndex
             /\ First # readIndex => Wrap(First + k - 1) # readIndex
             /\ records[Wrap(First + k - 1)] \in Item
  <2> DEFINE s == Wrap(First + k - 1)
  <2>1. s \in Slot /\ Ahead(First, s) = k - 1 BY <1>3, <1>4, WrapAhead, SizeAssumption
  <2>2. Ahead(First, s) < Ahead(First, writeIndex) BY <2>1, <1>4, SizeAssumption DEF Count
  <2>3. s # writeIndex BY <2>2, <1>1, <1>3, AheadRange, SizeAssumption DEF IndicesOK
  <2> HIDE DEF s
  <2>4. CASE First = readIndex
    <3>1. rpc \notin {"destroy", "publish"} BY <1>1, <2>4, SuccInSlot DEF First, IndicesOK
    <3>2. records[s] \in Item BY <2>1, <2>2, <2>4, <3>1 DEF IInv, SlotsHold, Holds
    <3> QED BY <2>1, <2>3, <2>4, <3>2 DEF s
  <2>5. CASE First # readIndex
    <3>1. rpc \in {"destroy", "publish"} /\ First = Succ(readIndex) BY <2>5 DEF First
    <3>2. Ahead(First, readIndex) = Size - 1 BY <1>1, <3>1, AllRound DEF IndicesOK
    <3>3. s # readIndex BY <1>4, <2>2, <3>2, SizeAssumption DEF Count
    <3>4. Ahead(First, s) = Ahead(readIndex, s) - 1 BY <1>1, <2>1, <3>1, <3>3, SuccAhead DEF IndicesOK
    <3>5. Ahead(readIndex, s) < Ahead(readIndex, writeIndex)
      BY <1>1, <1>5, <2>1, <2>2, <3>1, <3>4, AheadRange, SizeAssumption DEF IndicesOK
    <3>6. records[s] \in Item BY <2>1, <3>3, <3>5 DEF IInv, SlotsHold, Holds
    <3> QED BY <2>1, <2>3, <3>3, <3>6 DEF s
  <2> QED BY <2>4, <2>5
<1> QED BY <1>2, <1>3, <1>4, <1>5, <1>6 DEF Contents, Ring, Count
-----------------------------------------------------------------------------
\* The queue starts empty.
LEMMA FifoInit == Init => Fifo!Init
<1> SUFFICES ASSUME Init PROVE Fifo!Init OBVIOUS
<1>1. First = 0 /\ Ahead(First, writeIndex) = 0 BY DEF Init, First, Ahead
<1>2. Contents = << >> BY <1>1 DEF Contents, Init
<1> QED BY <1>2 DEF Fifo!Init, Init

\* Every step is one of the abstract queue or invisible in it.
LEMMA FifoStep == IInv /\ IInv' /\ [Next]_vars => [Fifo!Next]_(Fifo!vars)
<1> SUFFICES ASSUME IInv, IInv', [Next]_vars PROVE [Fifo!Next]_(Fifo!vars) OBVIOUS
<1> USE SizeAssumption
<1>0. IndicesOK /\ ItemsOK BY TypeParts DEF IInv
<1>1. ASSUME UNCHANGED <<alive, record, First, writeIndex, records>>
      PROVE  UNCHANGED Fifo!vars
  BY <1>1 DEF Fifo!vars, Contents
<1>2. CASE WriteConstruct
  <2>1. alive /\ UNCHANGED <<alive, record, First, writeIndex>>
    BY <1>2 DEF WriteConstruct, cVars, First, IInv, ViewsAllow
  <2>2. ASSUME NEW k \in 1 .. Count PROVE records'[Wrap(First + k - 1)] = records[Wrap(First + k - 1)]
    BY <1>0, <1>2, <2>1, InRing DEF WriteConstruct, ItemsOK
  <2>3. Contents' = Contents BY <2>1, <2>2 DEF Contents, Count
  <2> QED BY <2>1, <2>3 DEF Fifo!vars
<1>3. CASE WritePublish
  <2>1. alive /\ UNCHANGED <<alive, record, First, records>> /\ writeIndex' = Succ(writeIndex)
    BY <1>3 DEF WritePublish, cVars, First, IInv, ViewsAllow
  <2>2. records[writeIndex] \in Item
    BY <1>0, <1>3, <2>1, InRing, AheadRange DEF WritePublish, IInv, SlotsHold, Holds, ViewsAllow, IndicesOK
  <2>3. Succ(writeIndex) # readIndex
    BY <1>0, <1>3, WriterSteps DEF WritePublish, IInv, ViewsAllow, ViewsInOrder, IndicesOK
  <2>4. Succ(writeIndex) # First
    BY <1>0, <2>1, <2>3, InRing DEF First, Succ, IndicesOK, Slot
  <2>5. Ahead(First, Succ(writeIndex)) = Count + 1
    BY <1>0, <2>1, <2>4, InRing, AheadSucc DEF Count, IndicesOK
  <2>6. Count < Size - 1
    BY <1>0, <2>1, <2>5, InRing, AheadRange, SuccInSlot DEF IndicesOK
  <2>7. Contents = Ring(records, First, Count) /\ Len(Contents) = Count
    <3>1. First \in Slot /\ Count \in 0 .. Size - 1 /\ Contents = Ring(records, First, Count)
      BY <2>1, InRing
    <3>2. \A k \in 1 .. Count : records[Wrap(First + k - 1)] \in Item
      BY <2>1, InRing
    <3> QED BY <3>1, <3>2, RingIsSeq
  <2>8. Contents' = Ring(records, First, Count + 1)
    BY <2>1, <2>5 DEF Contents, Ring
  <2>9. Contents' = Append(Contents, records[writeIndex])
    BY <1>0, <2>1, <2>2, <2>6, <2>7, <2>8, InRing, RingAppend DEF Count, IndicesOK
  <2> QED BY <2>1, <2>2, <2>6, <2>7, <2>9 DEF Fifo!Next, Fifo!Put
<1>4. ASSUME alive, UNCHANGED <<alive, readIndex, writeIndex>>, rpc \in {"take", "drop"},
             First' = Succ(readIndex),
             \A s \in Slot : s # readIndex => records'[s] = records[s]
      PROVE  /\ Contents # << >> /\ Contents' = Tail(Contents)
             /\ Head(Contents) = records[readIndex]
  <2>1. First = readIndex BY <1>4 DEF First
  <2>2. Count \in 1 .. Size - 1 /\ Ahead(First', writeIndex) = Count - 1
    BY <1>0, <1>4, <2>1, InRing, AheadRange DEF Count, IndicesOK
  <2>3. /\ Ring(records, readIndex, Count) # << >>
        /\ Head(Ring(records, readIndex, Count)) = records[readIndex]
        /\ Ring(records, Succ(readIndex), Count - 1) = Tail(Ring(records, readIndex, Count))
    BY <1>0, <1>4, <2>1, <2>2, InRing, RingTail DEF IndicesOK
  <2>4. ASSUME NEW k \in 1 .. Count - 1
        PROVE  records'[Wrap(Succ(readIndex) + k - 1)] = records[Wrap(Succ(readIndex) + k - 1)]
    <3> DEFINE s == Wrap(Succ(readIndex) + k - 1)
    <3>1. s \in Slot /\ Ahead(Succ(readIndex), s) = k - 1
      BY <1>0, <2>2, SuccInSlot, WrapAhead DEF IndicesOK
    <3>2. s # readIndex BY <1>0, <2>2, <3>1, AllRound DEF IndicesOK
    <3> QED BY <1>4, <3>1, <3>2
  <2>5. Contents' = Ring(records, Succ(readIndex), Count - 1)
    BY <1>4, <2>2, <2>4 DEF Contents, Ring
  <2> QED BY <1>4, <2>1, <2>3, <2>5, InRing
<1>5. CASE ReadTake
  <2>1. /\ alive /\ UNCHANGED <<alive, readIndex, writeIndex>> /\ rpc = "take"
        /\ First' = Succ(readIndex) /\ record' = records[readIndex]
        /\ \A s \in Slot : s # readIndex => records'[s] = records[s]
    BY <1>0, <1>5 DEF ReadTake, pVars, First, IInv, ViewsAllow, ItemsOK
  <2> QED BY <1>4, <2>1 DEF Fifo!Next, Fifo!Take
<1>6. CASE ReadDestroy
  <2>1. /\ alive /\ UNCHANGED <<alive, readIndex, writeIndex, record>>
        /\ First' = Succ(readIndex)
        /\ \A s \in Slot : s # readIndex => records'[s] = records[s]
    BY <1>0, <1>6 DEF ReadDestroy, pVars, First, IInv, ViewsAllow, ItemsOK
  <2>2. CASE rpc = "drop"
    BY <1>4, <2>1, <2>2 DEF Fifo!Next, Fifo!Discard
  <2>3. CASE rpc = "destroy"
    <3>1. First = Succ(readIndex) /\ First # readIndex
      BY <1>0, <2>3, SuccInSlot DEF First, IndicesOK
    <3>2. ASSUME NEW k \in 1 .. Count PROVE records'[Wrap(First + k - 1)] = records[Wrap(First + k - 1)]
      BY <2>1, <3>1, InRing
    <3>3. Contents' = Contents BY <2>1, <3>1, <3>2 DEF Contents, Count
    <3> QED BY <2>1, <3>3 DEF Fifo!vars
  <2> QED BY <1>6, <2>2, <2>3 DEF ReadDestroy
<1>7. CASE ReadPublish
  <2>1. UNCHANGED <<alive, record, First, writeIndex, records>>
    BY <1>7 DEF ReadPublish, pVars, First
  <2> QED BY <1>1, <2>1
<1>8. CASE Destruct
  <2>1. alive /\ ~alive' /\ UNCHANGED record BY <1>8 DEF Destruct, ProducerIdle
  <2>2. Contents' = << >> BY <2>1 DEF Contents
  <2> QED BY <2>1, <2>2 DEF Fifo!Next, Fifo!Destroy
<1>9. ASSUME ~WriteConstruct, ~WritePublish, ~ReadTake, ~ReadDestroy, ~ReadPublish, ~Destruct
      PROVE  UNCHANGED <<alive, record, First, writeIndex, records>>
  BY <1>9 DEF Next, Producer, WriteHasRoom, WriteFull, ProducerSizeGuess, ProducerIsFull, cVars,
       Consumer, ReadHasItem, ReadEmpty, FrontPtr, PopFront, ConsumerSizeGuess, ConsumerIsEmpty,
       ConsumerIdle, pVars, vars, First
<1> QED BY <1>1, <1>2, <1>3, <1>5, <1>6, <1>7, <1>8, <1>9

(***************************************************************************)
(* Items come out once each, in the order in which they went in, and at    *)
(* most Size - 1 are in the queue, with any interleaving of the two        *)
(* threads and any stale loads: the queue implements BoundedFifo.          *)
(***************************************************************************)
THEOREM Implementation == Spec => ImplementsFifo
BY FifoInit, FifoStep, Invariance, PTL DEF Spec, ImplementsFifo, Fifo!Spec
=============================================================================
