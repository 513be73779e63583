-------------------------- MODULE CircularFifo_proofs --------------------------
(***************************************************************************)
(* Theorems about CircularFifo, for every size and any clients: each item  *)
(* of the pool has one owner, and unless a thread is careless none gets    *)
(* lost and none fails to fit back in.  And about FifoViews: that a thread *)
(* sees an old index of the other makes no difference to that.             *)
(***************************************************************************)
EXTENDS FifoViews, SharedLemmas

-----------------------------------------------------------------------------
(***************************************************************************)
(* The inductive invariant.                                                *)
(***************************************************************************)
\* The five places an item b can be in.
Queued(b)  == b \in ToSet(free) \/ b \in ToSet(filled)
InHand(b)  == b = wItem \/ b = rItem \/ b = nItem

\* No item is twice in a queue, and none is in two places.
QueuesApart == /\ Once(free, Pool) /\ Once(filled, Pool)
               /\ ToSet(free) \cap ToSet(filled) \cap Pool = {}
HandsApart ==
    /\ wItem \in Pool => ~Queued(wItem) /\ wItem # rItem /\ wItem # nItem
    /\ rItem \in Pool => ~Queued(rItem) /\ rItem # nItem
    /\ nItem \in Pool => ~Queued(nItem)

\* Unless a thread was careless every item is somewhere, and nothing foreign
\* is anywhere but in the reader's hand, where pop_value(wait, stopped) puts it.
AllThere == ~careless => \A b \in Pool : Queued(b) \/ InHand(b)
NoneForeign == ~careless => ~Queued(Own) /\ wItem # Own /\ nItem # Own

IInv == TypeOK /\ QueuesApart /\ HandsApart /\ AllThere /\ NoneForeign
-----------------------------------------------------------------------------
\* The pool is finite, and has Size - 1 items.
LEMMA PoolSize == IsFiniteSet(Pool) /\ Cardinality(Pool) = Size - 1
<1>1. 1 \in Int /\ Size - 1 \in Int /\ ~(1 > Size - 1) BY SizeAssumption
<1>2. IsFiniteSet(1 .. Size - 1) /\ Cardinality(1 .. Size - 1) = IF 1 > Size - 1 THEN 0 ELSE (Size - 1) - 1 + 1
  BY <1>1, FS_Interval
<1> QED BY <1>1, <1>2 DEF Pool

\* An item that is not in a queue of items of the pool fits in.
LEMMA RoomForOne ==
    ASSUME NEW q \in Seq(InFifo), Once(q, Pool), Own \notin ToSet(q),
           NEW b \in Pool, b \notin ToSet(q)
    PROVE  HasRoom(q)
<1>1. ToSet(q) \subseteq Pool \ {b} BY InSet DEF InFifo
<1>2. q \in Seq(Pool)
  <2>1. \A i \in 1 .. Len(q) : q[i] \in Pool BY <1>1 DEF ToSet
  <2> QED BY <2>1
<1>3. IsFiniteSet(Pool \ {b}) /\ Cardinality(Pool \ {b}) = Size - 2
  <2>1. IsFiniteSet(Pool \ {b})
        /\ Cardinality(Pool \ {b}) = IF b \in Pool THEN Cardinality(Pool) - 1 ELSE Cardinality(Pool)
    BY PoolSize, FS_RemoveElement
  <2> QED BY <2>1, PoolSize, SizeAssumption
<1>4. Len(q) <= Size - 2 BY <1>1, <1>2, <1>3, OnceLen
<1> QED BY <1>2, <1>4, SizeAssumption DEF HasRoom

\* In a state of the invariant what came out of the fifo fits back in.
LEMMA Fits == IInv => PushesFit
<1> SUFFICES ASSUME IInv, ~careless PROVE /\ wItem \in Pool => HasRoom(filled)
                                          /\ rItem \in Pool \/ nItem \in Pool => HasRoom(free)
  BY DEF PushesFit
<1>1. /\ free \in Seq(InFifo) /\ Once(free, Pool) /\ Own \notin ToSet(free)
      /\ filled \in Seq(InFifo) /\ Once(filled, Pool) /\ Own \notin ToSet(filled)
  BY DEF IInv, TypeOK, QueuesApart, NoneForeign, Queued
<1>2. /\ wItem \in Pool => wItem \notin ToSet(filled)
      /\ rItem \in Pool => rItem \notin ToSet(free)
      /\ nItem \in Pool => nItem \notin ToSet(free)
  BY DEF IInv, HandsApart, Queued
<1> QED BY <1>1, <1>2, RoomForOne
-----------------------------------------------------------------------------
\* At first all items are free.
LEMMA InitInvariant == Init => IInv
<1> SUFFICES ASSUME Init PROVE IInv OBVIOUS
<1>1. free \in Seq(InFifo) /\ Len(free) = Size - 1 /\ DOMAIN free = Pool /\ \A i \in Pool : free[i] = i
  BY SizeAssumption DEF Init, Pool, InFifo
<1>2. ToSet(free) = Pool BY <1>1 DEF ToSet
<1>3. filled \in Seq(InFifo) /\ Len(filled) = 0 /\ ToSet(filled) = {} /\ Once(filled, Pool)
  BY DEF Init, ToSet, Once
<1>4. Once(free, Pool) BY <1>1 DEF Once
<1>5. None \notin Pool /\ Own \notin Pool BY SizeAssumption DEF None, Own, Pool
<1>6. TypeOK
  <2>1. Len(free) <= Size - 1 /\ Len(filled) <= Size - 1 BY <1>1, <1>3, SizeAssumption
  <2>2. /\ wItem \in InFifo \cup {None} /\ rItem \in InFifo \cup {None} /\ nItem \in InFifo \cup {None}
        /\ stopped \in BOOLEAN /\ careless \in BOOLEAN
    BY DEF Init
  <2> QED BY <1>1, <1>3, <2>1, <2>2 DEF TypeOK
<1>7. QueuesApart BY <1>2, <1>3, <1>4 DEF QueuesApart
<1>8. HandsApart BY <1>5 DEF HandsApart, Init
<1>9. AllThere BY <1>2 DEF AllThere, Queued
<1>10. NoneForeign BY <1>2, <1>3, <1>5 DEF NoneForeign, Queued, Init, None, Own
<1> QED BY <1>6, <1>7, <1>8, <1>9, <1>10 DEF IInv

\* What a step that takes the head of a queue and one that puts something at
\* its end do to the queue.
LEMMA Taking ==
    ASSUME NEW q \in Seq(InFifo), q # << >>, Once(q, Pool), Len(q) <= Size - 1
    PROVE  /\ Head(q) \in InFifo /\ Tail(q) \in Seq(InFifo) /\ Len(Tail(q)) <= Size - 1
           /\ ToSet(q) = ToSet(Tail(q)) \cup {Head(q)} /\ Once(Tail(q), Pool)
           /\ Head(q) \in Pool => Head(q) \notin ToSet(Tail(q))
<1> HIDE DEF InFifo
<1>1. Len(q) \in Nat OBVIOUS
<1> QED BY <1>1, TailOnce, SizeAssumption

LEMMA Putting ==
    ASSUME NEW q \in Seq(InFifo), HasRoom(q), Once(q, Pool),
           NEW b \in InFifo, b \in Pool => b \notin ToSet(q)
    PROVE  /\ Append(q, b) \in Seq(InFifo) /\ Len(Append(q, b)) <= Size - 1
           /\ ToSet(Append(q, b)) = ToSet(q) \cup {b} /\ Once(Append(q, b), Pool)
<1>1. Len(q) \in Nat OBVIOUS
<1> QED BY <1>1, AppendOnce, SizeAssumption DEF HasRoom

\* Every step keeps it.
LEMMA NextInvariant == IInv /\ [Next]_vars => IInv'
<1> SUFFICES ASSUME IInv, [Next]_vars PROVE IInv' OBVIOUS
<1> USE DEF IInv
<1>0. None \notin Pool /\ Own \notin Pool /\ None # Own BY SizeAssumption DEF None, Own, Pool
<1>1. CASE PopFree
  <2>1. /\ Head(free) \in InFifo /\ Tail(free) \in Seq(InFifo) /\ Len(Tail(free)) <= Size - 1
        /\ ToSet(free) = ToSet(Tail(free)) \cup {Head(free)} /\ Once(Tail(free), Pool)
        /\ Head(free) \in Pool => Head(free) \notin ToSet(Tail(free))
    BY <1>1, Taking DEF PopFree, TypeOK, QueuesApart
  <2>2. TypeOK' BY <1>1, <2>1 DEF TypeOK, PopFree
  <2>3. QueuesApart' BY <1>1, <2>1 DEF QueuesApart, PopFree
  <2>4. HandsApart' BY <1>1, <2>1 DEF QueuesApart, HandsApart, Queued, PopFree
  <2>5. AllThere' BY <1>0, <1>1, <2>1 DEF AllThere, Queued, InHand, PopFree
  <2>6. NoneForeign' BY <1>1, <2>1 DEF NoneForeign, Queued, PopFree
  <2> QED BY <2>2, <2>3, <2>4, <2>5, <2>6
<1>2. CASE PushValue
  <2>1. /\ Append(filled, wItem) \in Seq(InFifo) /\ Len(Append(filled, wItem)) <= Size - 1
        /\ ToSet(Append(filled, wItem)) = ToSet(filled) \cup {wItem}
        /\ Once(Append(filled, wItem), Pool)
    BY <1>2, Putting DEF PushValue, TypeOK, QueuesApart, HandsApart, Queued
  <2>2. TypeOK' BY <1>2, <2>1 DEF TypeOK, PushValue
  <2>3. QueuesApart' BY <1>2, <2>1 DEF QueuesApart, HandsApart, Queued, PushValue
  <2>4. HandsApart' BY <1>0, <1>2, <2>1 DEF HandsApart, Queued, PushValue
  <2>5. AllThere' BY <1>2, <2>1 DEF AllThere, Queued, InHand, PushValue
  <2>6. NoneForeign' BY <1>0, <1>2, <2>1 DEF NoneForeign, Queued, PushValue
  <2> QED BY <2>2, <2>3, <2>4, <2>5, <2>6
<1>3. CASE PushOwn
  <2>1. /\ Append(filled, Own) \in Seq(InFifo) /\ Len(Append(filled, Own)) <= Size - 1
        /\ ToSet(Append(filled, Own)) = ToSet(filled) \cup {Own}
        /\ Once(Append(filled, Own), Pool)
    <3>1. Own \in InFifo BY DEF InFifo
    <3> QED BY <1>0, <1>3, <3>1, Putting DEF PushOwn, TypeOK, QueuesApart
  <2>2. TypeOK' BY <1>3, <2>1 DEF TypeOK, PushOwn
  <2>3. QueuesApart' BY <1>0, <1>3, <2>1 DEF QueuesApart, PushOwn
  <2>4. HandsApart' BY <1>0, <1>3, <2>1 DEF HandsApart, Queued, PushOwn
  <2> QED BY <1>3, <2>2, <2>3, <2>4 DEF AllThere, NoneForeign, PushOwn
<1>4. CASE WriterDrops
  <2>1. TypeOK' BY <1>4 DEF TypeOK, WriterDrops
  <2>2. QueuesApart' BY <1>4 DEF QueuesApart, WriterDrops
  <2>3. HandsApart' BY <1>0, <1>4 DEF HandsApart, Queued, WriterDrops
  <2> QED BY <1>4, <2>1, <2>2, <2>3 DEF AllThere, NoneForeign, WriterDrops
<1>5. ASSUME filled # << >>
      PROVE  /\ Head(filled) \in InFifo /\ Tail(filled) \in Seq(InFifo) /\ Len(Tail(filled)) <= Size - 1
             /\ ToSet(filled) = ToSet(Tail(filled)) \cup {Head(filled)} /\ Once(Tail(filled), Pool)
             /\ Head(filled) \in Pool => Head(filled) \notin ToSet(Tail(filled))
  BY <1>5, Taking DEF TypeOK, QueuesApart
<1>6. CASE PopValue
  <2>1. TypeOK' BY <1>5, <1>6 DEF TypeOK, PopValue
  <2>2. QueuesApart' BY <1>5, <1>6 DEF QueuesApart, PopValue
  <2>3. HandsApart' BY <1>0, <1>5, <1>6 DEF QueuesApart, HandsApart, Queued, PopValue, Reading
  <2>4. AllThere' BY <1>0, <1>5, <1>6 DEF AllThere, Queued, InHand, PopValue
  <2>5. NoneForeign' BY <1>5, <1>6 DEF NoneForeign, Queued, PopValue
  <2> QED BY <2>1, <2>2, <2>3, <2>4, <2>5
<1>7. CASE PopNothing
  <2>1. TypeOK' BY <1>7 DEF TypeOK, PopNothing, InFifo
  <2>2. QueuesApart' BY <1>7 DEF QueuesApart, PopNothing
  <2>3. HandsApart' BY <1>0, <1>7 DEF HandsApart, Queued, PopNothing
  <2>4. AllThere' BY <1>0, <1>7 DEF AllThere, Queued, InHand, PopNothing
  <2>5. NoneForeign' BY <1>7 DEF NoneForeign, Queued, PopNothing
  <2> QED BY <2>1, <2>2, <2>3, <2>4, <2>5
<1>8. CASE PushFree
  <2>1. /\ Append(free, rItem) \in Seq(InFifo) /\ Len(Append(free, rItem)) <= Size - 1
        /\ ToSet(Append(free, rItem)) = ToSet(free) \cup {rItem}
        /\ Once(Append(free, rItem), Pool)
    BY <1>8, Putting DEF PushFree, TypeOK, QueuesApart, HandsApart, Queued
  <2>2. TypeOK' BY <1>8, <2>1 DEF TypeOK, PushFree
  <2>3. QueuesApart' BY <1>8, <2>1 DEF QueuesApart, HandsApart, Queued, PushFree
  <2>4. HandsApart' BY <1>0, <1>8, <2>1 DEF HandsApart, Queued, PushFree
  <2>5. AllThere' BY <1>8, <2>1 DEF AllThere, Queued, InHand, PushFree
  <2>6. NoneForeign' BY <1>0, <1>8, <2>1 DEF NoneForeign, Queued, PushFree
  <2> QED BY <2>2, <2>3, <2>4, <2>5, <2>6
<1>9. CASE ReaderDrops
  <2>1. rItem \in Pool \/ rItem = Own BY <1>9 DEF ReaderDrops, TypeOK, InFifo
  <2>2. TypeOK' BY <1>9 DEF TypeOK, ReaderDrops
  <2>3. QueuesApart' BY <1>9 DEF QueuesApart, ReaderDrops
  <2>4. HandsApart' BY <1>0, <1>9 DEF HandsApart, Queued, ReaderDrops
  <2>5. AllThere' BY <1>0, <1>9, <2>1 DEF AllThere, Queued, InHand, ReaderDrops
  <2>6. NoneForeign' BY <1>9 DEF NoneForeign, Queued, ReaderDrops
  <2> QED BY <2>2, <2>3, <2>4, <2>5, <2>6
<1>10. CASE NextRead
  <2>1. TypeOK' BY <1>5, <1>10 DEF TypeOK, NextRead
  <2>2. QueuesApart' BY <1>5, <1>10 DEF QueuesApart, NextRead
  <2>3. HandsApart' BY <1>0, <1>5, <1>10 DEF QueuesApart, HandsApart, Queued, NextRead
  <2>4. AllThere' BY <1>0, <1>5, <1>10 DEF AllThere, Queued, InHand, NextRead, Reading
  <2>5. NoneForeign' BY <1>5, <1>10 DEF NoneForeign, Queued, NextRead
  <2> QED BY <2>1, <2>2, <2>3, <2>4, <2>5
<1>11. ASSUME NEW room \in BOOLEAN, Finds(room), NextWrite(room) PROVE IInv'
  <2>1. CASE room
    <3>1. HasRoom(free) BY <1>11, <2>1 DEF Finds
    <3>2. /\ Append(free, nItem) \in Seq(InFifo) /\ Len(Append(free, nItem)) <= Size - 1
          /\ ToSet(Append(free, nItem)) = ToSet(free) \cup {nItem}
          /\ Once(Append(free, nItem), Pool)
      BY <1>11, <3>1, Putting DEF NextWrite, TypeOK, QueuesApart, HandsApart, Queued
    <3>3. free' = Append(free, nItem) BY <1>11, <2>1 DEF NextWrite
    <3>4. TypeOK' BY <1>11, <3>2, <3>3 DEF TypeOK, NextWrite
    <3>5. QueuesApart' BY <1>11, <3>2, <3>3 DEF QueuesApart, HandsApart, Queued, NextWrite
    <3>6. HandsApart' BY <1>0, <1>11, <3>2, <3>3 DEF HandsApart, Queued, NextWrite
    <3>7. AllThere' BY <1>11, <3>2, <3>3 DEF AllThere, Queued, InHand, NextWrite
    <3>8. NoneForeign' BY <1>0, <1>11, <3>2, <3>3 DEF NoneForeign, Queued, NextWrite
    <3> QED BY <3>4, <3>5, <3>6, <3>7, <3>8
  <2>2. CASE ~room
    <3>1. free' = free BY <1>11, <2>2 DEF NextWrite
    <3>2. careless \* there would be room
      <4>1. nItem \in Pool \/ nItem = Own BY <1>11 DEF NextWrite, TypeOK, InFifo
      <4> QED BY <1>11, <2>2, <4>1, Fits DEF Finds, PushesFit, NoneForeign
    <3>3. TypeOK' BY <1>11, <3>1 DEF TypeOK, NextWrite
    <3>4. QueuesApart' BY <1>11, <3>1 DEF QueuesApart, NextWrite
    <3>5. HandsApart' BY <1>0, <1>11, <3>1 DEF HandsApart, Queued, NextWrite
    <3> QED BY <1>11, <3>2, <3>3, <3>4, <3>5 DEF AllThere, NoneForeign, NextWrite
  <2> QED BY <2>1, <2>2
<1>12. CASE Stop
  BY <1>12 DEF Stop, TypeOK, QueuesApart, HandsApart, AllThere, NoneForeign, Queued, InHand
<1>13. CASE UNCHANGED vars
  BY <1>13 DEF vars, TypeOK, QueuesApart, HandsApart, AllThere, NoneForeign, Queued, InHand
<1> QED BY <1>1, <1>2, <1>3, <1>4, <1>6, <1>7, <1>8, <1>9, <1>10, <1>11, <1>12, <1>13
        DEF Next, Writer, Reader

\* IInv is an invariant.
THEOREM Invariance == Spec => []IInv
BY InitInvariant, NextInvariant, PTL DEF Spec
-----------------------------------------------------------------------------
\* The items in hand, one after the other.
Hands == <<wItem, rItem, nItem>>

\* The places as the properties list them are those of the invariant.
LEMMA PlacesApart == IInv => Once(Places, Pool) /\ ToSet(Places) = ToSet(free) \cup ToSet(filled) \cup {wItem, rItem, nItem}
<1> SUFFICES ASSUME IInv
             PROVE  Once(Places, Pool) /\ ToSet(Places) = ToSet(free) \cup ToSet(filled) \cup {wItem, rItem, nItem}
  OBVIOUS
<1> DEFINE S == InFifo \cup {None}
           q == free \o filled
<1>1. free \in Seq(S) /\ filled \in Seq(S) /\ Hands \in Seq(S) BY DEF IInv, TypeOK, Hands
<1>2. q \in Seq(S) /\ ToSet(q) = ToSet(free) \cup ToSet(filled) /\ Once(q, Pool)
  BY <1>1, ConcatOnce DEF IInv, QueuesApart
<1>3. ToSet(Hands) = {wItem, rItem, nItem}
  <2>1. DOMAIN Hands = {1, 2, 3} /\ Hands[1] = wItem /\ Hands[2] = rItem /\ Hands[3] = nItem BY DEF Hands
  <2> QED BY <2>1 DEF ToSet
<1>4. Once(Hands, Pool)
  <2>1. DOMAIN Hands = {1, 2, 3} /\ Hands[1] = wItem /\ Hands[2] = rItem /\ Hands[3] = nItem BY DEF Hands
  <2> QED BY <2>1 DEF Once, IInv, HandsApart
<1>5. ToSet(q) \cap ToSet(Hands) \cap Pool = {} BY <1>2, <1>3 DEF IInv, HandsApart, Queued
<1>6. ToSet(q \o Hands) = ToSet(q) \cup ToSet(Hands) /\ Once(q \o Hands, Pool)
  <2> HIDE DEF q
  <2> QED BY <1>1, <1>2, <1>4, <1>5, ConcatOnce
<1> QED BY <1>2, <1>3, <1>6 DEF Places, Hands

(***************************************************************************)
(* Every variable has its type, and every item of the pool one owner: the  *)
(* thread that has it in hand, or looks at it through frontPtr(), has it   *)
(* for itself, even where a thread is careless.                            *)
(***************************************************************************)
THEOREM OneOwnerEach == Spec => []Owned
<1>1. IInv => Owned BY PlacesApart DEF IInv, Owned, OneOwner, Once
<1> QED BY <1>1, Invariance, PTL

\* Unless a thread is careless no item gets lost on the way round, in
\* particular not in a next() that would find no room among the free items.
THEOREM NothingLost == Spec => []Conserved
<1>1. ASSUME IInv, ~careless, NEW b \in Pool PROVE \E i \in DOMAIN Places : Places[i] = b
  <2>1. b \in ToSet(Places) BY <1>1, PlacesApart DEF IInv, AllThere, Queued, InHand
  <2> QED BY <2>1 DEF ToSet
<1>2. IInv => Conserved BY <1>1 DEF Conserved
<1> QED BY <1>2, Invariance, PTL

\* Unless a thread is careless what came out of the fifo fits back in: the
\* loops of push_value and push_free never spin.
THEOREM PushesNeverSpin == Spec => []PushesFit
BY Fits, Invariance, PTL

-----------------------------------------------------------------------------
(***************************************************************************)
(* What the threads do not see.                                            *)
(***************************************************************************)
\* How many items of the pool a thread has in hand.
InWriter == IF wItem \in Pool THEN 1 ELSE 0
InReader == (IF rItem \in Pool THEN 1 ELSE 0) + (IF nItem \in Pool THEN 1 ELSE 0)

\* Full and empty can be told apart whatever a thread sees: no more reads are
\* unseen than there are slots to spare.
ViewsTyped ==
    /\ unseenFree \in Nat /\ Len(free) + unseenFree <= Size - 1
    /\ unseenFilled \in Nat /\ Len(filled) + unseenFilled <= Size - 1
    /\ sinceFree \in Seq(Nat) /\ Len(sinceFree) = Len(free)
    /\ sinceFilled \in Seq(Nat) /\ Len(sinceFilled) = Len(filled)

\* Careful threads put each item they read in the other queue.  So what a
\* thread has read since it wrote an item lies behind that item, or is in its
\* hand; and what the other thread has not seen of that is no more.
Behind == ~careless =>
    /\ unseenFree <= Len(filled) + InWriter
    /\ unseenFilled <= Len(free) + InReader
    /\ \A k \in 1 .. Len(filled) : sinceFilled[k] <= Len(filled) - k + InWriter
    /\ \A k \in 1 .. Len(free) : sinceFree[k] <= Len(free) - k + InReader
    /\ Len(free) + Len(filled) + InWriter + InReader = Size - 1

VInv == ViewsTyped /\ Behind

LEMMA OneMoreTyped ==
    ASSUME NEW s \in Seq(Nat)
    PROVE  /\ OneMore(s) \in Seq(Nat) /\ Len(OneMore(s)) = Len(s)
           /\ \A k \in 1 .. Len(s) : OneMore(s)[k] \in Nat /\ OneMore(s)[k] <= s[k] + 1
<1>1. Size - 1 \in Nat BY SizeAssumption
<1>2. DOMAIN s = 1 .. Len(s) /\ Len(s) \in Nat /\ \A k \in 1 .. Len(s) : s[k] \in Nat OBVIOUS
<1>3. \A k \in 1 .. Len(s) : OneMore(s)[k] \in Nat /\ OneMore(s)[k] <= s[k] + 1
  BY <1>1, <1>2 DEF OneMore
<1>4. OneMore(s) = [k \in 1 .. Len(s) |-> OneMore(s)[k]] BY <1>2 DEF OneMore
<1>5. OneMore(s) \in [1 .. Len(s) -> Nat] BY <1>3, <1>4
<1>6. OneMore(s) \in Seq(Nat) /\ Len(OneMore(s)) = Len(s)
  <2> DEFINE t == OneMore(s)
  <2> HIDE DEF t
  <2>1. t \in [1 .. Len(s) -> Nat] BY <1>5 DEF t
  <2>2. t \in Seq(Nat) /\ Len(t) = Len(s) BY <1>2, <2>1, SMTT(60)
  <2> QED BY <2>2 DEF t
<1> QED BY <1>3, <1>6

LEMMA ViewInitInvariant == ViewInit => VInv
<1> SUFFICES ASSUME ViewInit PROVE VInv OBVIOUS
<1>1. /\ free \in Seq(Nat) /\ Len(free) = Size - 1 /\ sinceFree \in Seq(Nat) /\ Len(sinceFree) = Size - 1
      /\ \A k \in 1 .. Size - 1 : sinceFree[k] = 0
  BY SizeAssumption DEF ViewInit, Init, Pool
<1>2. filled = << >> /\ sinceFilled = << >> /\ unseenFree = 0 /\ unseenFilled = 0 BY DEF ViewInit, Init
<1>3. InWriter = 0 /\ InReader = 0 BY DEF ViewInit, Init, InWriter, InReader, None, Pool
<1>4. ViewsTyped BY <1>1, <1>2, SizeAssumption DEF ViewsTyped
<1>5. Behind BY <1>1, <1>2, <1>3, SizeAssumption DEF Behind
<1> QED BY <1>4, <1>5 DEF VInv

\* Unless a thread was careless, what is in hand or at the front is an item
\* of the pool.
LEMMA OfPool ==
    ASSUME IInv, ~careless
    PROVE  /\ wItem \in Pool \cup {None} /\ nItem \in Pool \cup {None}
           /\ free # << >> => Head(free) \in Pool
           /\ filled # << >> => Head(filled) \in Pool
<1>1. /\ free \in Seq(InFifo) /\ filled \in Seq(InFifo)
      /\ wItem \in InFifo \cup {None} /\ nItem \in InFifo \cup {None}
      /\ Own \notin ToSet(free) /\ Own \notin ToSet(filled) /\ wItem # Own /\ nItem # Own
  BY DEF IInv, TypeOK, NoneForeign, Queued
<1>2. free # << >> => Head(free) \in ToSet(free) /\ Head(free) \in InFifo BY <1>1 DEF ToSet
<1>3. filled # << >> => Head(filled) \in ToSet(filled) /\ Head(filled) \in InFifo BY <1>1 DEF ToSet
<1> QED BY <1>1, <1>2, <1>3 DEF InFifo

\* What came out of the fifo is seen to fit back in.
LEMMA Seen == IInv /\ VInv => RoomIsSeen
<1> SUFFICES ASSUME IInv, VInv, ~careless
             PROVE  /\ wItem \in Pool => SeesRoom(filled, unseenFilled)
                    /\ rItem \in Pool \/ nItem \in Pool => SeesRoom(free, unseenFree)
  BY DEF RoomIsSeen
<1>1. /\ Len(free) \in Nat /\ Len(filled) \in Nat /\ unseenFree \in Nat /\ unseenFilled \in Nat
      /\ Size \in Nat /\ InWriter \in Nat /\ InReader \in Nat
  BY SizeAssumption DEF IInv, TypeOK, VInv, ViewsTyped, InWriter, InReader
<1>2. /\ unseenFree <= Len(filled) + InWriter /\ unseenFilled <= Len(free) + InReader
      /\ Len(free) + Len(filled) + InWriter + InReader = Size - 1
  BY DEF VInv, Behind
<1>3. (wItem \in Pool => InWriter = 1) /\ (rItem \in Pool \/ nItem \in Pool => InReader >= 1)
  BY DEF InWriter, InReader
<1> QED BY <1>1, <1>2, <1>3 DEF SeesRoom

\* Every step is one of the fifo over atomic queues, or changes nothing there.
LEMMA ViewStep == IInv /\ VInv /\ [ViewNext]_allVars => [Next]_vars
<1> SUFFICES ASSUME IInv, VInv, [ViewNext]_allVars PROVE [Next]_vars OBVIOUS
<1>1. CASE GiveBack
  <2>1. PICK n \in 0 .. unseenFree : NextWrite(SeesRoom(free, n)) BY <1>1 DEF GiveBack
  <2>2. /\ Len(free) \in Nat /\ unseenFree \in Nat /\ Size \in Nat
    BY SizeAssumption DEF IInv, TypeOK, VInv, ViewsTyped
  <2>3. CASE SeesRoom(free, n)
    <3>1. HasRoom(free) BY <2>2, <2>3 DEF SeesRoom, HasRoom
    <3>2. NextWrite(TRUE) BY <2>1, <2>3
    <3> QED BY <3>1, <3>2 DEF Finds, Next, Reader
  <2>4. CASE ~SeesRoom(free, n)
    <3>1. careless
      <4> SUFFICES ASSUME ~careless PROVE FALSE OBVIOUS
      <4>1. nItem \in Pool BY <2>1, OfPool DEF NextWrite
      <4>2. SeesRoom(free, unseenFree) BY <4>1, Seen DEF RoomIsSeen
      <4> QED BY <2>2, <2>4, <4>2 DEF SeesRoom
    <3>2. NextWrite(FALSE) BY <2>1, <2>4 DEF NextWrite
    <3> QED BY <3>1, <3>2 DEF Finds, Next, Reader
  <2> QED BY <2>3, <2>4
<1>2. CASE UNCHANGED allVars BY <1>2 DEF allVars
<1> QED BY <1>1, <1>2 DEF ViewNext, Fills, Passes, Receives, Returns, Next, Writer, Reader

LEMMA TailOf ==
    ASSUME NEW S, NEW s \in Seq(S), s # << >>
    PROVE  /\ Tail(s) \in Seq(S) /\ Len(Tail(s)) = Len(s) - 1 /\ Len(s) \in Nat /\ Len(s) >= 1
           /\ Head(s) = s[1] /\ \A k \in 1 .. Len(s) - 1 : Tail(s)[k] = s[k + 1]
OBVIOUS

LEMMA AppendOf ==
    ASSUME NEW S, NEW s \in Seq(S), NEW x \in S
    PROVE  /\ Append(s, x) \in Seq(S) /\ Len(Append(s, x)) = Len(s) + 1 /\ Len(s) \in Nat
           /\ Append(s, x)[Len(s) + 1] = x /\ \A k \in 1 .. Len(s) : Append(s, x)[k] = s[k]
OBVIOUS

\* A step that reads the head of a queue with q items, each of which has behind
\* it what was read since; g is how many items are in the other thread's hand.
LEMMA HeadKeeps ==
    ASSUME NEW q \in Nat, q >= 1, NEW s \in Seq(Nat), Len(s) = q, NEW g \in Nat,
           \A k \in 1 .. q : s[k] <= q - k + g
    PROVE  /\ Head(s) \in Nat /\ Head(s) <= q - 1 + g
           /\ \A k \in 1 .. q - 1 : Tail(s)[k] <= q - 1 - k + g
<1>1. s # << >> /\ Head(s) = s[1] /\ \A k \in 1 .. Len(s) - 1 : Tail(s)[k] = s[k + 1]
  <2>1. s # << >> OBVIOUS
  <2> QED BY <2>1, TailOf
<1>2. Head(s) \in Nat /\ Head(s) <= q - 1 + g BY <1>1
<1>3. \A k \in 1 .. q - 1 : Tail(s)[k] <= q - 1 - k + g
  <2> TAKE k \in 1 .. q - 1
  <2>1. k \in 1 .. Len(s) - 1 /\ k + 1 \in 1 .. q OBVIOUS
  <2>2. Tail(s)[k] = s[k + 1] BY <1>1, <2>1
  <2>3. s[k + 1] <= q - (k + 1) + g BY <2>1
  <2> QED BY <2>2, <2>3
<1> QED BY <1>2, <1>3

\* To the thread that reads, the item it has now in hand is one more behind
\* those it wrote.
LEMMA MoreKeeps ==
    ASSUME NEW p \in Nat, NEW s \in Seq(Nat), Len(s) = p, NEW h \in Nat, NEW h1, h1 = h + 1,
           \A k \in 1 .. p : s[k] <= p - k + h
    PROVE  \A k \in 1 .. p : OneMore(s)[k] <= p - k + h1
<1> TAKE k \in 1 .. p
<1>1. OneMore(s)[k] \in Nat /\ OneMore(s)[k] <= s[k] + 1 BY OneMoreTyped
<1>2. s[k] \in Nat /\ s[k] <= p - k + h OBVIOUS
<1> DEFINE m == OneMore(s)[k]
           n == s[k]
<1>3. m \in Nat /\ m <= n + 1 /\ n \in Nat /\ n <= p - k + h BY <1>1, <1>2
<1> HIDE DEF m, n
<1>4. m <= p - k + h1 BY <1>3
<1> QED BY <1>4 DEF m

\* To the thread that writes, the item it had in hand is now behind those.
LEMMA LastKeeps ==
    ASSUME NEW q \in Nat, NEW s \in Seq(Nat), Len(s) = q, NEW g1 \in Nat,
           \A k \in 1 .. q : s[k] <= q - k + g1 + 1
    PROVE  \A k \in 1 .. q + 1 : Append(s, 0)[k] <= q + 1 - k + g1
<1>1. Append(s, 0)[Len(s) + 1] = 0 /\ \A k \in 1 .. Len(s) : Append(s, 0)[k] = s[k] BY AppendOf
<1> TAKE k \in 1 .. q + 1
<1>2. CASE k \in 1 .. q
  <2>1. Append(s, 0)[k] = s[k] /\ s[k] \in Nat BY <1>1, <1>2
  <2>2. s[k] <= q - k + g1 + 1 BY <1>2
  <2> QED BY <2>1, <2>2
<1>3. CASE k = q + 1
  <2>1. Append(s, 0)[k] = 0 BY <1>1, <1>3
  <2> QED BY <1>3, <2>1
<1> QED BY <1>2, <1>3

\* Every step keeps it.
LEMMA ViewNextInvariant == IInv /\ VInv /\ [ViewNext]_allVars => VInv'
<1> SUFFICES ASSUME IInv, VInv, [ViewNext]_allVars PROVE VInv' OBVIOUS
<1>1. /\ None \notin Pool /\ Own \notin Pool /\ None # Own /\ Size \in Nat /\ Size >= 2
      /\ free \in Seq(InFifo) /\ filled \in Seq(InFifo) /\ Len(free) \in Nat /\ Len(filled) \in Nat
      /\ unseenFree \in Nat /\ unseenFilled \in Nat /\ sinceFree \in Seq(Nat) /\ sinceFilled \in Seq(Nat)
      /\ Len(sinceFree) = Len(free) /\ Len(sinceFilled) = Len(filled)
      /\ Len(free) + unseenFree <= Size - 1 /\ Len(filled) + unseenFilled <= Size - 1
  BY SizeAssumption DEF None, Own, Pool, IInv, TypeOK, VInv, ViewsTyped
<1>2. InWriter \in Nat /\ InReader \in Nat BY DEF InWriter, InReader
<1>3. CASE Fills
  <2>1. /\ wItem = None /\ free # << >> /\ wItem' = Head(free) /\ free' = Tail(free)
        /\ UNCHANGED <<filled, rItem, nItem, careless>>
        /\ unseenFilled' \in Acquired(unseenFilled, sinceFree) /\ unseenFree' = unseenFree + 1
        /\ sinceFree' = Tail(sinceFree) /\ sinceFilled' = OneMore(sinceFilled)
    BY <1>3 DEF Fills, PopFree, ReadsFree
  <2>2. sinceFree # << >> /\ Len(free) >= 1 /\ Len(free') = Len(free) - 1 BY <1>1, <2>1
  <2>3. ViewsTyped'
    <3>1. sinceFree' \in Seq(Nat) /\ Len(sinceFree') = Len(free') BY <1>1, <2>1, <2>2
    <3>2. sinceFilled' \in Seq(Nat) /\ Len(sinceFilled') = Len(filled') BY <1>1, <2>1, OneMoreTyped
    <3>3. unseenFilled' \in 0 .. unseenFilled BY <2>1 DEF Acquired
    <3>4. /\ unseenFree' \in Nat /\ Len(free') + unseenFree' <= Size - 1
          /\ unseenFilled' \in Nat /\ Len(filled') + unseenFilled' <= Size - 1
      BY <1>1, <2>1, <2>2, <3>3
    <3> QED BY <3>1, <3>2, <3>4 DEF ViewsTyped
  <2>4. ASSUME ~careless PROVE Behind'
    <3>1. InWriter' = InWriter + 1 /\ InReader' = InReader /\ InWriter' \in Nat
      BY <1>1, <2>1, <2>4, OfPool DEF InWriter, InReader
    <3>2. /\ unseenFree <= Len(filled) + InWriter /\ unseenFilled <= Len(free) + InReader
          /\ \A k \in 1 .. Len(filled) : sinceFilled[k] <= Len(filled) - k + InWriter
          /\ \A k \in 1 .. Len(free) : sinceFree[k] <= Len(free) - k + InReader
          /\ Len(free) + Len(filled) + InWriter + InReader = Size - 1
      BY <2>4 DEF VInv, Behind
    <3>3. /\ unseenFree + 1 <= Len(filled) + InWriter'
          /\ unseenFilled' <= Len(free') + InReader
          /\ \A k \in 1 .. Len(filled) : OneMore(sinceFilled)[k] <= Len(filled) - k + InWriter'
          /\ \A k \in 1 .. Len(free') : Tail(sinceFree)[k] <= Len(free') - k + InReader
      <4>1. unseenFree + 1 <= Len(filled) + InWriter' BY <1>1, <1>2, <3>1, <3>2
      <4>2. /\ Head(sinceFree) \in Nat /\ Head(sinceFree) <= Len(free) - 1 + InReader
            /\ \A k \in 1 .. Len(free) - 1 : Tail(sinceFree)[k] <= Len(free) - 1 - k + InReader
        BY <1>1, <1>2, <2>2, <3>2, HeadKeeps
      <4>3. unseenFilled' \in Nat /\ unseenFilled' <= Head(sinceFree) BY <1>1, <2>1 DEF Acquired
      <4>4. unseenFilled' <= Len(free) - 1 + InReader BY <1>1, <1>2, <4>2, <4>3
      <4>5. \A k \in 1 .. Len(filled) : OneMore(sinceFilled)[k] <= Len(filled) - k + InWriter'
        BY <1>1, <1>2, <3>1, <3>2, MoreKeeps
      <4> QED BY <2>2, <4>1, <4>2, <4>4, <4>5
    <3>4. Len(free') + Len(filled') + InWriter' + InReader' = Size - 1
      BY <1>1, <1>2, <2>1, <2>2, <3>1, <3>2
    <3> QED BY <2>1, <3>1, <3>3, <3>4 DEF Behind
  <2>5. careless' = careless BY <2>1
  <2>6. Behind' BY <2>4, <2>5 DEF Behind
  <2> QED BY <2>3, <2>6 DEF VInv
<1>4. ASSUME filled # << >>, filled' = Tail(filled), UNCHANGED <<free, wItem, careless>>,
             ~careless => InReader' = InReader + 1, ReadsFilled
      PROVE  VInv'
  <2>1. /\ unseenFree' \in Acquired(unseenFree, sinceFilled) /\ unseenFilled' = unseenFilled + 1
        /\ sinceFilled' = Tail(sinceFilled) /\ sinceFree' = OneMore(sinceFree)
    BY <1>4 DEF ReadsFilled
  <2>2. sinceFilled # << >> /\ Len(filled) >= 1 /\ Len(filled') = Len(filled) - 1 BY <1>1, <1>4
  <2>3. ViewsTyped'
    <3>1. sinceFilled' \in Seq(Nat) /\ Len(sinceFilled') = Len(filled') BY <1>1, <2>1, <2>2
    <3>2. sinceFree' \in Seq(Nat) /\ Len(sinceFree') = Len(free') BY <1>1, <1>4, <2>1, OneMoreTyped
    <3>3. unseenFree' \in 0 .. unseenFree BY <2>1 DEF Acquired
    <3>4. /\ unseenFree' \in Nat /\ Len(free') + unseenFree' <= Size - 1
          /\ unseenFilled' \in Nat /\ Len(filled') + unseenFilled' <= Size - 1
      BY <1>1, <1>4, <2>1, <2>2, <3>3
    <3> QED BY <3>1, <3>2, <3>4 DEF ViewsTyped
  <2>4. ASSUME ~careless PROVE Behind'
    <3>1. InReader' = InReader + 1 /\ InReader' \in Nat BY <1>2, <1>4, <2>4
    <3>2. InWriter' = InWriter BY <1>4 DEF InWriter
    <3>3. /\ unseenFree <= Len(filled) + InWriter /\ unseenFilled <= Len(free) + InReader
          /\ \A k \in 1 .. Len(filled) : sinceFilled[k] <= Len(filled) - k + InWriter
          /\ \A k \in 1 .. Len(free) : sinceFree[k] <= Len(free) - k + InReader
          /\ Len(free) + Len(filled) + InWriter + InReader = Size - 1
      BY <2>4 DEF VInv, Behind
    <3>4. /\ unseenFilled + 1 <= Len(free) + InReader'
          /\ unseenFree' <= Len(filled') + InWriter
          /\ \A k \in 1 .. Len(free) : OneMore(sinceFree)[k] <= Len(free) - k + InReader'
          /\ \A k \in 1 .. Len(filled') : Tail(sinceFilled)[k] <= Len(filled') - k + InWriter
      <4>1. unseenFilled + 1 <= Len(free) + InReader' BY <1>1, <1>2, <3>1, <3>3
      <4>2. /\ Head(sinceFilled) \in Nat /\ Head(sinceFilled) <= Len(filled) - 1 + InWriter
            /\ \A k \in 1 .. Len(filled) - 1 : Tail(sinceFilled)[k] <= Len(filled) - 1 - k + InWriter
        BY <1>1, <1>2, <2>2, <3>3, HeadKeeps
      <4>3. unseenFree' \in Nat /\ unseenFree' <= Head(sinceFilled) BY <1>1, <2>1 DEF Acquired
      <4>4. unseenFree' <= Len(filled) - 1 + InWriter BY <1>1, <1>2, <4>2, <4>3
      <4>5. \A k \in 1 .. Len(free) : OneMore(sinceFree)[k] <= Len(free) - k + InReader'
        BY <1>1, <1>2, <3>1, <3>3, MoreKeeps
      <4> QED BY <2>2, <4>1, <4>2, <4>4, <4>5
    <3>5. Len(free') + Len(filled') + InWriter' + InReader' = Size - 1
      BY <1>1, <1>2, <1>4, <2>2, <3>1, <3>2, <3>3
    <3> QED BY <1>4, <2>1, <3>2, <3>4, <3>5 DEF Behind
  <2>5. careless' = careless BY <1>4
  <2>6. Behind' BY <2>4, <2>5 DEF Behind
  <2> QED BY <2>3, <2>6 DEF VInv
<1>5. ASSUME filled # << >>, ~careless PROVE Head(filled) \in Pool BY <1>5, OfPool
<1>6. CASE Receives
  <2>1. ~careless => InReader' = InReader + 1
    BY <1>1, <1>5, <1>6 DEF Receives, PopValue, InReader, Reading
  <2> QED BY <1>4, <1>6, <2>1 DEF Receives, PopValue
<1>7. CASE NextRead /\ ReadsFilled
  <2>1. ~careless => InReader' = InReader + 1
    BY <1>1, <1>5, <1>7 DEF NextRead, InReader, Reading
  <2> QED BY <1>4, <1>7, <2>1 DEF NextRead
<1>8. ASSUME NEW x, HasRoom(filled), filled' = Append(filled, x), UNCHANGED <<free, rItem, nItem>>,
             ~careless' => ~careless /\ InWriter' = InWriter - 1, WritesFilled
      PROVE  VInv'
  <2>1. /\ unseenFilled' \in 0 .. unseenFilled /\ SeesRoom(filled, unseenFilled')
        /\ sinceFilled' = Append(sinceFilled, 0) /\ UNCHANGED <<unseenFree, sinceFree>>
    BY <1>8 DEF WritesFilled
  <2>2. Len(filled') = Len(filled) + 1 BY <1>1, <1>8
  <2>3. ViewsTyped'
    <3>1. sinceFilled' \in Seq(Nat) /\ Len(sinceFilled') = Len(filled') BY <1>1, <2>1, <2>2
    <3>2. unseenFilled' \in Nat /\ Len(filled') + unseenFilled' <= Size - 1
      BY <1>1, <2>1, <2>2 DEF SeesRoom
    <3> QED BY <1>1, <1>8, <2>1, <3>1, <3>2 DEF ViewsTyped
  <2>4. ASSUME ~careless' PROVE Behind'
    <3>1. InWriter' = InWriter - 1 /\ InWriter' \in Nat
      <4>1. InWriter' \in Nat BY DEF InWriter
      <4> QED BY <1>8, <2>4, <4>1
    <3>2. InReader' = InReader BY <1>8 DEF InReader
    <3>3. /\ unseenFree <= Len(filled) + InWriter /\ unseenFilled <= Len(free) + InReader
          /\ \A k \in 1 .. Len(filled) : sinceFilled[k] <= Len(filled) - k + InWriter
          /\ \A k \in 1 .. Len(free) : sinceFree[k] <= Len(free) - k + InReader
          /\ Len(free) + Len(filled) + InWriter + InReader = Size - 1
      BY <1>8, <2>4 DEF VInv, Behind
    <3>4. /\ unseenFree <= Len(filled') + InWriter'
          /\ unseenFilled' <= Len(free) + InReader
          /\ \A k \in 1 .. Len(filled') : Append(sinceFilled, 0)[k] <= Len(filled') - k + InWriter'
      <4>1. unseenFree <= Len(filled') + InWriter' BY <1>1, <1>2, <2>2, <3>1, <3>3
      <4>2. unseenFilled' <= Len(free) + InReader BY <1>1, <1>2, <2>1, <3>3
      <4>3. \A k \in 1 .. Len(filled) : sinceFilled[k] <= Len(filled) - k + InWriter' + 1
        BY <1>1, <1>2, <3>1, <3>3
      <4>4. \A k \in 1 .. Len(filled) + 1 : Append(sinceFilled, 0)[k] <= Len(filled) + 1 - k + InWriter'
        BY <1>1, <3>1, <4>3, LastKeeps
      <4> DEFINE UpTo(m) == \A k \in 1 .. m : Append(sinceFilled, 0)[k] <= m - k + InWriter'
      <4>5. UpTo(Len(filled) + 1) BY <1>1, <3>1, <4>4
      <4> HIDE DEF UpTo
      <4>6. UpTo(Len(filled')) BY <2>2, <4>5
      <4> QED BY <4>1, <4>2, <4>6 DEF UpTo
    <3>5. Len(free') + Len(filled') + InWriter' + InReader' = Size - 1
      BY <1>1, <1>2, <1>8, <2>2, <3>1, <3>2, <3>3
    <3> QED BY <1>8, <2>1, <3>2, <3>3, <3>4, <3>5 DEF Behind
  <2>5. Behind' BY <2>4 DEF Behind
  <2> QED BY <2>3, <2>5 DEF VInv
<1>9. CASE Passes
  <2>1. ~careless' => ~careless /\ InWriter' = InWriter - 1
    BY <1>1, <1>9, OfPool DEF Passes, PushValue, InWriter
  <2> QED BY <1>8, <1>9, <2>1 DEF Passes, PushValue
<1>10. CASE PushOwn /\ WritesFilled
  BY <1>8, <1>10 DEF PushOwn
<1>11. ASSUME NEW x, NEW n \in 0 .. unseenFree, SeesRoom(free, n), unseenFree' = n,
              free' = Append(free, x), UNCHANGED <<filled, wItem>>,
              ~careless' => ~careless /\ InReader' = InReader - 1,
              sinceFree' = Append(sinceFree, 0), UNCHANGED <<unseenFilled, sinceFilled>>
       PROVE  VInv'
  <2>1. Len(free') = Len(free) + 1 BY <1>1, <1>11
  <2>2. ViewsTyped'
    <3>1. sinceFree' \in Seq(Nat) /\ Len(sinceFree') = Len(free') BY <1>1, <1>11, <2>1
    <3>2. unseenFree' \in Nat /\ Len(free') + unseenFree' <= Size - 1
      BY <1>1, <1>11, <2>1 DEF SeesRoom
    <3> QED BY <1>1, <1>11, <3>1, <3>2 DEF ViewsTyped
  <2>3. ASSUME ~careless' PROVE Behind'
    <3>1. InReader' = InReader - 1 /\ InReader' \in Nat
      <4>1. InReader' \in Nat BY DEF InReader
      <4> QED BY <1>11, <2>3, <4>1
    <3>2. InWriter' = InWriter BY <1>11 DEF InWriter
    <3>3. /\ unseenFree <= Len(filled) + InWriter /\ unseenFilled <= Len(free) + InReader
          /\ \A k \in 1 .. Len(filled) : sinceFilled[k] <= Len(filled) - k + InWriter
          /\ \A k \in 1 .. Len(free) : sinceFree[k] <= Len(free) - k + InReader
          /\ Len(free) + Len(filled) + InWriter + InReader = Size - 1
      BY <1>11, <2>3 DEF VInv, Behind
    <3>4. /\ unseenFilled <= Len(free') + InReader'
          /\ unseenFree' <= Len(filled) + InWriter
          /\ \A k \in 1 .. Len(free') : Append(sinceFree, 0)[k] <= Len(free') - k + InReader'
      <4>1. unseenFilled <= Len(free') + InReader' BY <1>1, <1>2, <2>1, <3>1, <3>3
      <4>2. unseenFree' <= Len(filled) + InWriter BY <1>1, <1>2, <1>11, <3>3
      <4>3. \A k \in 1 .. Len(free) : sinceFree[k] <= Len(free) - k + InReader' + 1
        BY <1>1, <1>2, <3>1, <3>3
      <4>4. \A k \in 1 .. Len(free) + 1 : Append(sinceFree, 0)[k] <= Len(free) + 1 - k + InReader'
        BY <1>1, <3>1, <4>3, LastKeeps
      <4> DEFINE UpTo(m) == \A k \in 1 .. m : Append(sinceFree, 0)[k] <= m - k + InReader'
      <4>5. UpTo(Len(free) + 1) BY <1>1, <3>1, <4>4
      <4> HIDE DEF UpTo
      <4>6. UpTo(Len(free')) BY <2>1, <4>5
      <4> QED BY <4>1, <4>2, <4>6 DEF UpTo
    <3>5. Len(free') + Len(filled') + InWriter' + InReader' = Size - 1
      BY <1>1, <1>2, <1>11, <2>1, <3>1, <3>2, <3>3
    <3> QED BY <1>11, <3>2, <3>3, <3>4, <3>5 DEF Behind
  <2>4. Behind' BY <2>3 DEF Behind
  <2> QED BY <2>2, <2>4 DEF VInv
<1>12. CASE Returns
  <2>1. ~careless' => ~careless /\ InReader' = InReader - 1
    <3> SUFFICES ASSUME ~careless' PROVE ~careless /\ InReader' = InReader - 1 OBVIOUS
    <3>1. /\ rItem # None /\ rItem' = None /\ nItem' = nItem
          /\ careless' = (careless \/ rItem = Own)
      BY <1>12 DEF Returns, PushFree
    <3>2. rItem \in Pool /\ ~careless BY <3>1 DEF IInv, TypeOK, InFifo
    <3> QED BY <1>1, <3>1, <3>2 DEF InReader
  <2> QED BY <1>11, <1>12, <2>1 DEF Returns, PushFree, WritesFree
<1>13. CASE GiveBack
  <2>1. PICK n \in 0 .. unseenFree :
            /\ NextWrite(SeesRoom(free, n)) /\ unseenFree' = n
            /\ sinceFree' = IF SeesRoom(free, n) THEN Append(sinceFree, 0) ELSE sinceFree
            /\ UNCHANGED <<unseenFilled, sinceFilled>>
    BY <1>13 DEF GiveBack
  <2>2. nItem # None /\ nItem' = None /\ UNCHANGED <<filled, wItem, rItem, careless>>
    BY <2>1 DEF NextWrite
  <2>3. ~careless => nItem \in Pool BY <2>2, OfPool
  <2>4. CASE SeesRoom(free, n)
    <3>1. ~careless' => ~careless /\ InReader' = InReader - 1 BY <1>1, <2>2, <2>3 DEF InReader
    <3>2. free' = Append(free, nItem) /\ sinceFree' = Append(sinceFree, 0)
      BY <2>1, <2>4 DEF NextWrite
    <3> QED BY <1>11, <2>1, <2>2, <2>4, <3>1, <3>2
  <2>5. CASE ~SeesRoom(free, n)
    <3>1. careless
      <4> SUFFICES ASSUME ~careless PROVE FALSE OBVIOUS
      <4>1. SeesRoom(free, unseenFree) BY <2>3, Seen DEF RoomIsSeen
      <4> QED BY <1>1, <2>5, <4>1 DEF SeesRoom
    <3>2. free' = free /\ sinceFree' = sinceFree BY <2>1, <2>5 DEF NextWrite
    <3>3. Behind' BY <2>2, <3>1 DEF Behind
    <3>4. ViewsTyped' BY <1>1, <2>1, <2>2, <3>2 DEF ViewsTyped
    <3> QED BY <3>3, <3>4 DEF VInv
  <2> QED BY <2>4, <2>5
<1>14. ASSUME UNCHANGED <<free, filled, viewVars>>,
              ~careless' => ~careless /\ InWriter' = InWriter /\ InReader' = InReader
       PROVE  VInv'
  <2>1. ViewsTyped' BY <1>14 DEF VInv, ViewsTyped, viewVars
  <2>2. Behind' BY <1>14 DEF VInv, Behind, viewVars
  <2> QED BY <2>1, <2>2 DEF VInv
<1>15. CASE WriterDrops /\ UNCHANGED viewVars BY <1>14, <1>15 DEF WriterDrops
<1>16. CASE PopNothing /\ UNCHANGED viewVars
  BY <1>1, <1>14, <1>16 DEF PopNothing, InWriter, InReader
<1>17. CASE ReaderDrops /\ UNCHANGED viewVars
  BY <1>1, <1>14, <1>17 DEF ReaderDrops, InWriter, InReader
<1>18. CASE Stop /\ UNCHANGED viewVars BY <1>14, <1>18 DEF Stop, InWriter, InReader
<1>19. CASE UNCHANGED allVars BY <1>14, <1>19 DEF allVars, vars, InWriter, InReader
<1> QED BY <1>3, <1>6, <1>7, <1>9, <1>10, <1>12, <1>13, <1>15, <1>16, <1>17, <1>18, <1>19 DEF ViewNext

THEOREM ViewInvariance == ViewSpec => [](IInv /\ VInv)
<1>1. ViewInit => IInv /\ VInv BY InitInvariant, ViewInitInvariant DEF ViewInit
<1>2. IInv /\ VInv /\ [ViewNext]_allVars => IInv' /\ VInv'
  BY ViewStep, NextInvariant, ViewNextInvariant
<1> QED BY <1>1, <1>2, PTL DEF ViewSpec

(***************************************************************************)
(* A thread may see an old index of the other, and the fifo behaves as one *)
(* over queues in which it does not.  In particular the one attempt of     *)
(* next() does not fail for an old index unless a thread was careless.     *)
(***************************************************************************)
THEOREM ViewsHarmless == ViewSpec => ViewsAreHarmless
<1>1. ViewInit => Init BY DEF ViewInit
<1>2. IInv /\ VInv /\ [ViewNext]_allVars => [Next]_vars BY ViewStep
<1> QED BY <1>1, <1>2, ViewInvariance, PTL DEF ViewSpec, Spec, ViewsAreHarmless

\* Unless a thread is careless what came out of the fifo is seen to fit back
\* in: push_value and push_free never spin, however old the index they load.
THEOREM RoomSeen == ViewSpec => []RoomIsSeen
BY Seen, ViewInvariance, PTL
====
