-------------------------- MODULE FrameCounter_proofs --------------------------
(***************************************************************************)
(* Theorems about FrameGrabber and, built on them, about FrameCounter, for *)
(* any number of packets and frames and any networks.                      *)
(***************************************************************************)
EXTENDS FrameCounter, FiniteSetTheorems, TLAPS

(***************************************************************************)
(* The inductive invariant of FrameGrabber.                                *)
(***************************************************************************)
Filled == pc \in {"loop", "recv"}
OnlyLoss == Faults \subseteq {"loss"}

\* How the parts of a call go together.
CallKept ==
    /\ pc # "idle" => ~cached
    /\ ~cached => ~cacheReal
    /\ pc = "first" => received = {} /\ got = 0
    /\ Filled => /\ got >= 1 /\ received \subseteq 0 .. got - 1
                 /\ \A i \in 0 .. got - 1 : slots[i] \in Packet

\* Of the packets counted, the cached one may not have come from the socket, nor
\* the one after which the loop is left.
CountKept ==
    LET fake == got - Cardinality(received)
    IN  /\ pc = "recv" => fake <= 1
        /\ pc = "loop" => fake <= IF stopped THEN 2 ELSE 1

\* Where packets can only get lost, all packets counted are from the socket, in
\* rising order, and no more are missing behind one of them than behind a later one.
Gap(i) == slots[i].num - i
LossKept ==
    OnlyLoss => /\ cached => cacheReal /\ cache = last
                /\ Filled => /\ received = 0 .. got - 1 /\ slots[got - 1] = last
                             /\ \A i \in 0 .. got - 1 : 0 <= Gap(i) /\ Gap(i) <= Gap(got - 1)
                /\ Returned => ret = NumPackets - Cardinality(received)

\* What RecvInto does not tell: the latest frame the socket delivered a packet of is
\* the one being filled, or a later one; and without faults packets follow each other.
SeenKept ==
    /\ pc # "idle" => ret = -1
    /\ ~R!Silent => /\ cached => cache.frame <= last.frame
                    /\ Filled => cur <= last.frame
    /\ Faults = {} => /\ cached => cache.num = 0 /\ cache.frame >= 1
                      /\ Filled => Gap(got - 1) = Gap(0) /\ cur >= 1

GInv == /\ TypeOK /\ SlotsFit /\ NothingVanishes /\ MissingNearlyRight /\ CompleteIsWhole
        /\ CallKept /\ CountKept /\ LossKept
(***************************************************************************)
(* What FrameCounter adds to it.                                           *)
(***************************************************************************)
CounterTyped ==
    /\ step \in {"loop", "recv", "done", "exit"} /\ (pc # "idle" => step = "recv")
    /\ step = "recv" /\ pc = "idle" => ret # -1
    /\ frames_received \in Nat /\ total_missing_packets \in Nat /\ frame_nr \in Int

\* The packets in the frames whose missing packets have been added up.
Summed == IF step = "recv" /\ pc = "idle" THEN handed - Cardinality(received) ELSE handed
SumKept ==
    LET missing == frames_received * NumPackets - Summed
    IN  /\ total_missing_packets <= missing
        /\ missing <= total_missing_packets + (IF OnlyLoss THEN 0 ELSE 2 * frames_received)

\* Where packets can only get lost, the packets to come are of frames above n.
Rising(n) == IF cached THEN cache.frame > n ELSE \A p \in Sent : Follows(p, last) => p.frame > n
NumbersKept ==
    OnlyLoss => /\ ~stopped
                /\ step = "loop" \/ pc = "first" => Rising(frame_nr)
                /\ Filled => cur > frame_nr
                /\ step = "recv" /\ pc = "idle" => slots[0].frame > frame_nr /\ Rising(slots[0].frame)

CInv == GInv /\ CounterTyped /\ SumKept /\ NumbersKept
-----------------------------------------------------------------------------
(***************************************************************************)
(* The steps of FrameGrabber.                                              *)
(***************************************************************************)
\* The slots a call has filled can be counted.
LEMMA Counted ==
    ASSUME NEW S \in SUBSET Index
    PROVE  /\ IsFiniteSet(S) /\ Cardinality(S) \in Nat
           /\ \A n \in 0 .. NumPackets : /\ S \subseteq 0 .. n - 1 => Cardinality(S) <= n
                                         /\ S = 0 .. n - 1 => Cardinality(S) = n
                                         /\ n \in Index /\ n \notin S
                                                => Cardinality(S \cup {n}) = Cardinality(S) + 1
           /\ Cardinality({}) = 0
<1> USE NumPacketsAssumption DEF Index
<1>1. IsFiniteSet(S)
  <2>1. IsFiniteSet(Index) BY FS_Interval
  <2> QED BY <2>1, FS_Subset
<1>2. Cardinality(S) \in Nat BY <1>1, FS_CardinalityType
<1>3. ASSUME NEW n \in 0 .. NumPackets
      PROVE  /\ S \subseteq 0 .. n - 1 => Cardinality(S) <= n
             /\ S = 0 .. n - 1 => Cardinality(S) = n
             /\ n \in Index /\ n \notin S => Cardinality(S \cup {n}) = Cardinality(S) + 1
  <2>1. IsFiniteSet(0 .. n - 1) /\ Cardinality(0 .. n - 1) = n BY FS_Interval
  <2>2. S \subseteq 0 .. n - 1 => Cardinality(S) <= n
    <3>1. S \in SUBSET (0 .. n - 1) => Cardinality(S) <= Cardinality(0 .. n - 1)
      BY <2>1, FS_Subset, Zenon
    <3> QED BY <2>1, <3>1, Zenon
  <2>3. n \in Index /\ n \notin S => Cardinality(S \cup {n}) = Cardinality(S) + 1
    BY <1>1, FS_AddElement
  <2> QED BY <2>1, <2>2, <2>3
<1> QED BY <1>1, <1>2, <1>3, FS_EmptySet

LEMMA GrabberInit == Init => GInv
<1> SUFFICES ASSUME Init PROVE GInv OBVIOUS
<1> USE NumPacketsAssumption, MaxFrameAssumption DEF Init
<1>1. 0 \in Index /\ Zero \in Packet BY DEF Zero, Packet, Index
<1>2. TypeOK
  <2>1. slots \in [Index -> Packet \cup {Unread}] /\ cache \in Packet /\ last \in Packet
    BY <1>1 DEF Memory
  <2>2. cur \in 0 .. MaxFrame /\ got \in 0 .. NumPackets /\ ret \in -1 .. NumPackets OBVIOUS
  <2>3. received \in SUBSET Index /\ taken \in Nat /\ handed \in Nat OBVIOUS
  <2> QED BY <2>1, <2>2, <2>3 DEF TypeOK
<1>3. Cardinality({}) = 0 BY FS_EmptySet
<1>4. SlotsFit /\ MissingNearlyRight /\ CompleteIsWhole /\ CallKept /\ CountKept /\ LossKept
  BY DEF SlotsFit, MissingNearlyRight, CompleteIsWhole, CallKept, CountKept, LossKept, Returned, Filled
<1>5. NothingVanishes BY DEF NothingVanishes
<1> QED BY <1>2, <1>4, <1>5 DEF GInv

\* request_stop() is called from another thread.
LEMMA BeingStopped == GInv /\ RequestStop /\ UNCHANGED Faults => GInv'
<1> SUFFICES ASSUME GInv, RequestStop, UNCHANGED Faults PROVE GInv' OBVIOUS
<1> USE DEF RequestStop, call
<1>1. TypeOK' BY DEF GInv, TypeOK
<1>2. /\ SlotsFit' /\ NothingVanishes' /\ MissingNearlyRight' /\ CompleteIsWhole'
      /\ CallKept' /\ LossKept'
  BY DEF GInv, SlotsFit, NothingVanishes, MissingNearlyRight, CompleteIsWhole, CallKept, LossKept,
         Returned, Filled, OnlyLoss, Gap
<1>3. CountKept'
  <2>1. received \in SUBSET Index /\ got \in Nat BY DEF GInv, TypeOK
  <2>2. Cardinality(received) \in Nat BY <2>1, Counted
  <2> QED BY <2>1, <2>2 DEF GInv, CountKept
<1> QED BY <1>1, <1>2, <1>3 DEF GInv

\* recv_into is called.
LEMMA Calling ==
    ASSUME GInv, NEW memory \in [Index -> Packet \cup {Unread}], CallWith(memory), UNCHANGED Faults
    PROVE  GInv'
<1> USE NumPacketsAssumption DEF CallWith
<1>0. TypeOK /\ CallKept /\ NothingVanishes /\ LossKept BY DEF GInv
<1>1. 0 \in Index /\ Zero \in Packet BY MaxFrameAssumption DEF Zero, Packet, Index
<1>2. Cardinality({}) = 0 /\ Cardinality({0}) = 1 BY FS_EmptySet, FS_Singleton
<1>3. CASE cached /\ Begin([memory EXCEPT ![0] = cache], IF cacheReal THEN {0} ELSE {})
  <2> USE <1>3 DEF Begin
  <2>1. slots' \in [Index -> Packet \cup {Unread}] /\ slots'[0] = cache /\ cache \in Packet
    BY <1>0, <1>1 DEF TypeOK
  <2>2. received' \in SUBSET Index /\ received' \subseteq {0}
        /\ (cacheReal => Cardinality(received') = 1) /\ (~cacheReal => Cardinality(received') = 0)
    BY <1>1, <1>2
  <2>3. cur' \in 0 .. MaxFrame BY <2>1 DEF Packet
  <2>4. TypeOK'
    <3>1. got' \in 0 .. NumPackets OBVIOUS
    <3>2. ret' \in -1 .. NumPackets OBVIOUS
    <3> QED BY <1>0, <1>1, <2>1, <2>2, <2>3, <3>1, <3>2 DEF TypeOK
  <2>5. \A i \in 0 .. got' - 1 : i = 0 OBVIOUS
  <2>6. SlotsFit' BY <2>1, <2>5 DEF SlotsFit, Returned
  <2>7. NothingVanishes' BY <1>0, <2>2 DEF TypeOK, NothingVanishes
  <2>8. MissingNearlyRight' /\ CompleteIsWhole'
    BY DEF MissingNearlyRight, CompleteIsWhole, Returned
  <2>9. CallKept' BY <2>1, <2>2, <2>5 DEF CallKept, Filled
  <2>10. CountKept' BY <1>0, <2>2 DEF CountKept, TypeOK
  <2>11. LossKept'
    <3>1. ~Returned' /\ ~cached' BY DEF Returned
    <3>2. ASSUME OnlyLoss
          PROVE  /\ received' = 0 .. 0 /\ slots'[0] = last
                 /\ slots'[0].num - 0 \in Nat
      BY <1>0, <2>1, <3>1, <1>3, <3>2 DEF LossKept, Packet, Index
    <3> QED BY <2>5, <3>1, <3>2 DEF LossKept, OnlyLoss, Gap
  <2> QED BY <2>4, <2>6, <2>7, <2>8, <2>9, <2>10, <2>11 DEF GInv
<1>4. CASE ~cached /\ slots' = memory /\ received' = {} /\ pc' = "first" /\ got' = 0 /\ ret' = -1 /\ UNCHANGED cur
  <2> USE <1>4
  <2>1. TypeOK'
    <3>1. slots' \in [Index -> Packet \cup {Unread}] /\ cache' \in Packet /\ received' \in SUBSET Index
      BY <1>1
    <3>2. got' \in 0 .. NumPackets /\ ret' \in -1 .. NumPackets OBVIOUS
    <3>3. cached' \in BOOLEAN /\ cacheReal' \in BOOLEAN /\ stopped' \in BOOLEAN OBVIOUS
    <3> QED BY <1>0, <3>1, <3>2, <3>3 DEF TypeOK
  <2>2. NothingVanishes' BY <1>0, <1>2 DEF CallKept, NothingVanishes, TypeOK
  <2> QED BY <2>1, <2>2 DEF GInv, SlotsFit, MissingNearlyRight, CompleteIsWhole, CallKept, CountKept,
                            LossKept, Returned, Filled
<1> QED BY <1>3, <1>4

\* The first packet comes.
LEMMA FirstComing == GInv /\ FirstPacket /\ UNCHANGED Faults => GInv'
<1> SUFFICES ASSUME GInv, FirstPacket, UNCHANGED Faults PROVE GInv' OBVIOUS
<1> USE NumPacketsAssumption
<1>0. TypeOK /\ CallKept /\ NothingVanishes BY DEF GInv
<1>1. PICK p \in Sent : ReceivePacket(p) /\ Begin([slots EXCEPT ![0] = p], {0}) BY DEF FirstPacket
<1> USE <1>1 DEF FirstPacket, Begin
<1>2. 0 \in Index /\ p \in Packet BY DEF Sent, Packet, Index
<1>3. Cardinality({}) = 0 /\ Cardinality({0}) = 1 BY FS_EmptySet, FS_Singleton
<1>4. slots' \in [Index -> Packet \cup {Unread}] /\ slots'[0] = p BY <1>0, <1>2 DEF TypeOK
<1>5. last' \in Packet /\ taken' = taken + 1 BY <1>0, <1>2 DEF ReceivePacket, TypeOK
<1>6. \A i \in 0 .. got' - 1 : i = 0 OBVIOUS
<1>7. TypeOK'
  <2>1. cur' \in 0 .. MaxFrame BY <1>2, <1>4 DEF Packet
  <2>2. got' \in 0 .. NumPackets /\ received' \in SUBSET Index BY <1>2
  <2>3. ret' \in -1 .. NumPackets OBVIOUS
  <2> QED BY <1>0, <1>4, <1>5, <2>1, <2>2, <2>3 DEF TypeOK
<1>8. SlotsFit' BY <1>4, <1>6 DEF SlotsFit, Returned
<1>9. NothingVanishes' BY <1>0, <1>3, <1>5 DEF TypeOK, NothingVanishes, CallKept
<1>10. MissingNearlyRight' /\ CompleteIsWhole' BY DEF MissingNearlyRight, CompleteIsWhole, Returned
<1>11. CallKept' BY <1>0, <1>2, <1>4, <1>6 DEF CallKept, Filled
<1>12. CountKept' BY <1>3 DEF CountKept
<1>13. LossKept'
  <2>1. ~Returned' /\ ~cached' BY <1>0 DEF Returned, CallKept
  <2>2. OnlyLoss => last' = p BY DEF OnlyLoss, ReceivePacket, Arriving
  <2>3. p.num - 0 \in Nat BY <1>2 DEF Packet, Index
  <2>4. received' = 0 .. got' - 1 OBVIOUS
  <2> QED BY <1>4, <1>6, <2>1, <2>2, <2>3, <2>4 DEF LossKept, OnlyLoss, Gap
<1> QED BY <1>7, <1>8, <1>9, <1>10, <1>11, <1>12, <1>13 DEF GInv

\* It does not come.
LEMMA FirstNotComing == GInv /\ FirstFailed /\ UNCHANGED Faults => GInv'
<1> SUFFICES ASSUME GInv, FirstFailed, UNCHANGED Faults PROVE GInv' OBVIOUS
<1> USE NumPacketsAssumption DEF FirstFailed
<1>0. TypeOK /\ CallKept /\ NothingVanishes BY DEF GInv
<1>1. Cardinality({}) = 0 BY FS_EmptySet
<1>2. slots' \in [Index -> Packet \cup {Unread}]
  <2>1. 0 \in Index BY DEF Index
  <2>2. PICK p \in {slots[0]} \cup Short : slots' = [slots EXCEPT ![0] = p] OBVIOUS
  <2>3. p \in Packet \cup {Unread} BY <1>0, <2>1, <2>2 DEF TypeOK, Short, Sent, Packet
  <2> QED BY <1>0, <2>2, <2>3 DEF TypeOK
<1>3. pc = "first" /\ received = {} /\ ~cached /\ UNCHANGED <<received, cached, cacheReal, got, cache, last>>
  BY <1>0 DEF CallKept
<1>4. CASE stopped
  <2>1. pc' = "idle" /\ ret' = NumPackets /\ handed' = handed + Cardinality(received)
    BY <1>4 DEF Return
  <2>2. TypeOK'
    <3>1. ret' \in -1 .. NumPackets BY <2>1
    <3>2. handed' \in Nat BY <1>0, <1>1, <1>3, <2>1 DEF TypeOK
    <3> QED BY <1>0, <1>2, <2>1, <3>1, <3>2 DEF TypeOK
  <2>3. SlotsFit' BY <2>1 DEF SlotsFit, Returned
  <2>4. NothingVanishes' BY <1>0, <1>1, <1>3, <2>1 DEF NothingVanishes, TypeOK
  <2>5. MissingNearlyRight' BY <1>1, <1>3, <2>1 DEF MissingNearlyRight
  <2>6. CompleteIsWhole' BY <2>1 DEF CompleteIsWhole, Returned
  <2>7. CallKept' /\ CountKept' BY <1>0, <1>3, <2>1 DEF CallKept, CountKept, Filled
  <2>8. LossKept' BY <1>1, <1>3, <2>1 DEF LossKept, Filled
  <2> QED BY <2>2, <2>3, <2>4, <2>5, <2>6, <2>7, <2>8 DEF GInv
<1>5. CASE ~stopped
  <2>1. UNCHANGED <<pc, ret, handed>> BY <1>5
  <2>2. TypeOK' BY <1>0, <1>2, <2>1 DEF TypeOK
  <2>3. NothingVanishes' BY <1>0, <2>1 DEF NothingVanishes
  <2>4. CallKept' BY <1>0, <1>3, <2>1 DEF CallKept, Filled
  <2> QED BY <1>3, <2>1, <2>2, <2>3, <2>4 DEF GInv, SlotsFit, MissingNearlyRight, CompleteIsWhole,
             CountKept, LossKept, Returned, Filled
<1> QED BY <1>4, <1>5

\* The head of the loop over the other packets.
LEMMA Looping == GInv /\ Loop /\ UNCHANGED Faults => GInv'
<1> SUFFICES ASSUME GInv, Loop, UNCHANGED Faults PROVE GInv' OBVIOUS
<1> USE NumPacketsAssumption DEF Loop
<1>0. TypeOK /\ SlotsFit /\ CallKept /\ CountKept /\ NothingVanishes /\ LossKept BY DEF GInv
<1>1. /\ pc = "loop" /\ got \in 1 .. NumPackets /\ received \subseteq 0 .. got - 1 /\ ~cached
      /\ \A i \in 0 .. got - 1 : slots[i] \in Packet /\ slots[i].frame = cur
  BY <1>0 DEF CallKept, SlotsFit, Filled, TypeOK
<1> PICK n : n = Cardinality(received) OBVIOUS
<1>2. n \in Nat /\ n <= got /\ (received = 0 .. got - 1 => n = got)
  BY <1>0, <1>1, Counted DEF TypeOK
<1>3. got - n <= 2 /\ (~stopped => got - n <= 1) BY <1>0, <1>1, <1>2 DEF CountKept
<1>4. CASE Incomplete /\ ~stopped
  <2> USE <1>4 DEF Incomplete
  <2>1. pc' = "recv" /\ UNCHANGED <<ret, handed>> OBVIOUS
  <2>2. TypeOK' BY <1>0, <2>1 DEF TypeOK
  <2>3. SlotsFit' BY <1>1, <2>1 DEF SlotsFit, Returned
  <2>4. NothingVanishes' BY <1>0, <2>1 DEF NothingVanishes
  <2>5. CallKept' BY <1>0, <1>1, <2>1 DEF CallKept, Filled
  <2>6. CountKept' BY <1>3, <2>1 DEF CountKept
  <2>7. LossKept'
    <3>1. OnlyLoss' = OnlyLoss /\ ~Returned' /\ Filled' /\ Filled BY <1>1, <2>1 DEF OnlyLoss, Returned, Filled
    <3> QED BY <1>0, <3>1 DEF LossKept, Gap
  <2>8. MissingNearlyRight' /\ CompleteIsWhole' BY <2>1 DEF MissingNearlyRight, CompleteIsWhole, Returned
  <2> QED BY <2>2, <2>3, <2>4, <2>5, <2>6, <2>7, <2>8 DEF GInv
<1>5. CASE ~(Incomplete /\ ~stopped)
  <2>1. /\ pc' = "idle" /\ ret' = NumPackets - got /\ handed' = handed + n
        /\ UNCHANGED <<stopped, cache, cached, slots, cur, got, last, received, cacheReal, taken>>
    BY <1>5 DEF Return, Missing
  <2>2. TypeOK'
    <3>1. ret' \in -1 .. NumPackets BY <1>1, <2>1
    <3>2. handed' \in Nat BY <1>0, <1>2, <2>1 DEF TypeOK
    <3> QED BY <1>0, <2>1, <3>1, <3>2 DEF TypeOK
  <2>3. ret' = 0 => got = NumPackets BY <1>1, <2>1
  <2>4. got = NumPackets => \A i \in Index : i \in 0 .. got - 1 BY DEF Index
  <2>5. 0 \in 0 .. got - 1 BY <1>1
  <2>6. SlotsFit' BY <1>1, <2>1, <2>3, <2>4, <2>5 DEF SlotsFit
  <2>7. NothingVanishes' BY <1>0, <1>1, <1>2, <2>1 DEF NothingVanishes, TypeOK
  <2>8. MissingNearlyRight' BY <1>1, <1>2, <1>3, <2>1 DEF MissingNearlyRight
  <2>9. CompleteIsWhole'
    <3> SUFFICES ASSUME OnlyLoss, ret' = 0, NEW i \in Index
                 PROVE  slots[i] = [frame |-> slots[0].frame, num |-> i]
      BY <2>1 DEF CompleteIsWhole, OnlyLoss
    <3>1. got = NumPackets /\ i \in 0 .. got - 1 /\ got - 1 \in 0 .. got - 1 BY <1>1, <2>3, <2>4
    <3>2. slots[i] \in Packet /\ slots[got - 1] \in Packet /\ slots[i].frame = slots[0].frame
      BY <1>1, <2>5, <3>1
    <3>3. 0 <= Gap(i) /\ Gap(i) <= Gap(got - 1) BY <1>0, <1>1, <3>1 DEF LossKept, Filled
    <3>4. slots[i].num = i BY <3>1, <3>2, <3>3 DEF Gap, Packet, Index
    <3> QED BY <3>2, <3>4 DEF Packet
  <2>10. CallKept' /\ CountKept' BY <1>0, <2>1 DEF CallKept, CountKept, Filled
  <2>11. LossKept'
    <3>1. OnlyLoss' => received = 0 .. got - 1 BY <1>0, <1>1 DEF LossKept, Filled, OnlyLoss
    <3> QED BY <1>1, <1>2, <2>1, <3>1 DEF LossKept, Filled
  <2> QED BY <2>2, <2>6, <2>7, <2>8, <2>9, <2>10, <2>11 DEF GInv
<1> QED BY <1>4, <1>5

\* What is in the slot after an attempt to receive is judged.
LEMMA Judging ==
    ASSUME GInv, UNCHANGED <<Faults, cur>>, pc = "recv", NEW p \in Packet, NEW real \in BOOLEAN, Judge(p, real),
           last' \in Packet, taken' = (IF real THEN taken + 1 ELSE taken),
           stopped' \in BOOLEAN, stopped' = stopped \/ stopped', real \/ stopped',
           OnlyLoss => real /\ Follows(p, last) /\ last' = p
    PROVE  GInv'
<1> USE NumPacketsAssumption DEF Judge
<1>0. TypeOK /\ SlotsFit /\ CallKept /\ CountKept /\ NothingVanishes /\ LossKept BY DEF GInv
<1>1. /\ got \in 1 .. NumPackets - 1 /\ received \subseteq 0 .. got - 1 /\ ~cached
      /\ \A i \in 0 .. got - 1 : slots[i] \in Packet /\ slots[i].frame = cur
  BY <1>0 DEF CallKept, SlotsFit, Filled, TypeOK
<1> PICK n : n = Cardinality(received) OBVIOUS
<1>2. /\ n \in Nat /\ n <= got /\ (received = 0 .. got - 1 => n = got)
      /\ got \in Index /\ Cardinality(received \cup {got}) = n + 1
  <2>1. got \in Index /\ got \notin received BY <1>1 DEF Index
  <2> QED BY <1>0, <1>1, <2>1, Counted DEF TypeOK
<1>3. got - n <= 1 BY <1>0, <1>1, <1>2 DEF CountKept
<1>4. CASE SameFrame(p)
  <2> USE <1>4 DEF SameFrame
  <2>1. /\ slots' = [slots EXCEPT ![got] = p] /\ got' = got + 1 /\ pc' = "loop"
        /\ received' = (IF real THEN received \cup {got} ELSE received)
        /\ UNCHANGED <<cache, cached, cacheReal, ret, handed>>
    OBVIOUS
  <2>2. slots' \in [Index -> Packet \cup {Unread}] /\ slots'[got] = p
        /\ \A i \in 0 .. got - 1 : slots'[i] = slots[i]
    <3>1. \A i \in 0 .. got - 1 : i \in Index /\ i # got BY <1>1 DEF Index
    <3> QED BY <1>0, <1>2, <2>1, <3>1 DEF TypeOK
  <2>3. Cardinality(received') = IF real THEN n + 1 ELSE n BY <1>2, <2>1
  <2>4. TypeOK'
    <3>1. got' \in 0 .. NumPackets BY <1>1, <2>1
    <3>2. received' \in SUBSET Index BY <1>0, <1>2, <2>1 DEF TypeOK
    <3>3. taken' \in Nat BY <1>0 DEF TypeOK
    <3> QED BY <1>0, <2>1, <2>2, <3>1, <3>2, <3>3 DEF TypeOK
  <2>5. \A i \in 0 .. got' - 1 : i = got \/ i \in 0 .. got - 1 BY <1>1, <2>1
  <2>6. SlotsFit' BY <1>1, <2>1, <2>2, <2>5 DEF SlotsFit, Returned
  <2>7. NothingVanishes' BY <1>0, <1>1, <1>2, <2>1, <2>3 DEF NothingVanishes, TypeOK
  <2>8. MissingNearlyRight' /\ CompleteIsWhole' BY <2>1 DEF MissingNearlyRight, CompleteIsWhole, Returned
  <2>9. CallKept'
    <3>1. received' \subseteq 0 .. got' - 1 /\ got' >= 1 BY <1>1, <2>1
    <3>2. \A i \in 0 .. got' - 1 : slots'[i] \in Packet BY <1>1, <2>2, <2>5
    <3> QED BY <1>0, <1>1, <2>1, <3>1, <3>2 DEF CallKept, Filled
  <2>10. CountKept' BY <1>1, <1>2, <1>3, <2>1, <2>3 DEF CountKept
  <2>11. LossKept'
    <3> SUFFICES ASSUME OnlyLoss
                 PROVE  /\ received' = 0 .. got' - 1 /\ slots'[got' - 1] = last'
                        /\ \A i \in 0 .. got' - 1 : 0 <= Gap(i)' /\ Gap(i)' <= slots'[got].num - got
      BY <1>1, <2>1 DEF LossKept, OnlyLoss, Filled, Returned, Gap
    <3>1. /\ received = 0 .. got - 1 /\ slots[got - 1] = last
          /\ \A i \in 0 .. got - 1 : 0 <= Gap(i) /\ Gap(i) <= Gap(got - 1)
      BY <1>0 DEF LossKept, Filled
    <3>2. got - 1 \in 0 .. got - 1 BY <1>1
    <3>3. p.num > slots[got - 1].num
      <4>1. slots[got - 1] \in Packet /\ slots[got - 1].frame = p.frame BY <1>1, <3>2
      <4> QED BY <3>1, <4>1 DEF Follows, Packet
    <3>4. slots[got - 1].num \in Nat /\ p.num \in Nat BY <1>1, <3>2 DEF Packet, Index
    <3>5. Gap(got - 1) <= p.num - got /\ 0 <= p.num - got
      BY <1>1, <3>1, <3>2, <3>3, <3>4 DEF Gap
    <3>6. \A i \in 0 .. got - 1 : Gap(i)' = Gap(i) /\ Gap(i) \in Int
      <4> TAKE i \in 0 .. got - 1
      <4>1. slots'[i] = slots[i] /\ slots[i].num \in Int BY <1>1, <2>2 DEF Packet, Index
      <4> QED BY <4>1 DEF Gap
    <3>7. Gap(got - 1) \in Int /\ p.num - got \in Int BY <1>1, <3>2, <3>4, <3>6
    <3>8. ASSUME NEW i \in 0 .. got' - 1 PROVE 0 <= Gap(i)' /\ Gap(i)' <= slots'[got].num - got
      <4>1. CASE i = got
        <5>1. slots'[i].num - i = p.num - got BY <2>2, <4>1
        <5> QED BY <2>2, <3>5, <3>7, <4>1, <5>1 DEF Gap
      <4>2. CASE i # got
        <5>1. i \in 0 .. got - 1 BY <2>5, <4>2
        <5> HIDE DEF Gap
        <5>2. 0 <= Gap(i) /\ Gap(i) <= Gap(got - 1) /\ Gap(i) \in Int /\ Gap(i)' = Gap(i) BY <3>1, <3>6, <5>1
        <5> QED BY <2>2, <3>5, <3>7, <5>2
      <4> QED BY <4>1, <4>2
    <3>9. received' = 0 .. got' - 1 BY <1>1, <2>1, <3>1
    <3>10. slots'[got' - 1] = last' BY <1>1, <2>1, <2>2
    <3> QED BY <3>8, <3>9, <3>10
  <2> QED BY <2>4, <2>6, <2>7, <2>8, <2>9, <2>10, <2>11 DEF GInv
<1>5. CASE ~SameFrame(p)
  <2>1. /\ slots' = [slots EXCEPT ![got] = Zero] /\ pc' = "idle" /\ ret' = NumPackets - got
        /\ handed' = handed + n /\ cache' = p /\ cached' = TRUE /\ cacheReal' = real
        /\ UNCHANGED <<got, received>>
    BY <1>5 DEF Keep, Return, Missing
  <2>2. slots' \in [Index -> Packet \cup {Unread}]
    <3>1. Zero \in Packet BY MaxFrameAssumption DEF Zero, Packet, Index
    <3> QED BY <1>0, <2>1, <3>1 DEF TypeOK
  <2>3. TypeOK'
    <3>1. ret' \in -1 .. NumPackets BY <1>1, <2>1
    <3>2. handed' \in Nat /\ taken' \in Nat BY <1>0, <1>2, <2>1 DEF TypeOK
    <3> QED BY <1>0, <2>1, <2>2, <3>1, <3>2 DEF TypeOK
  <2>4. ret' # 0 BY <1>1, <2>1
  <2>5. SlotsFit' /\ CompleteIsWhole' BY <2>1, <2>4 DEF SlotsFit, CompleteIsWhole
  <2>6. NothingVanishes' BY <1>0, <1>1, <1>2, <2>1 DEF NothingVanishes, TypeOK
  <2>7. MissingNearlyRight' BY <1>1, <1>2, <1>3, <2>1 DEF MissingNearlyRight
  <2>8. CallKept' /\ CountKept' BY <2>1 DEF CallKept, CountKept, Filled
  <2>9. LossKept'
    <3>1. OnlyLoss' => received = 0 .. got - 1 BY <1>0 DEF LossKept, Filled, OnlyLoss
    <3>2. OnlyLoss' = OnlyLoss BY DEF OnlyLoss
    <3> QED BY <1>1, <1>2, <2>1, <3>1, <3>2 DEF LossKept, Filled
  <2> QED BY <2>3, <2>5, <2>6, <2>7, <2>8, <2>9 DEF GInv
<1> QED BY <1>4, <1>5

LEMMA Receiving == GInv /\ (NextPacket \/ NextFailed) /\ UNCHANGED Faults => GInv'
<1> SUFFICES ASSUME GInv, NextPacket \/ NextFailed, UNCHANGED Faults PROVE GInv' OBVIOUS
<1>0. TypeOK /\ SlotsFit BY DEF GInv
<1>1. CASE NextPacket
  <2>1. PICK p \in Sent : ReceivePacket(p) /\ Judge(p, TRUE) BY <1>1 DEF NextPacket
  <2>2. p \in Packet BY MaxFrameAssumption DEF Sent, Packet
  <2>3. last' \in Packet /\ taken' = taken + 1 BY <1>0, <2>1, <2>2 DEF ReceivePacket, TypeOK
  <2>4. OnlyLoss => Follows(p, last) /\ last' = p BY <2>1 DEF OnlyLoss, ReceivePacket, Arriving
  <2>5. pc = "recv" /\ UNCHANGED <<cur, stopped>> /\ stopped' \in BOOLEAN
    BY <1>0, <1>1 DEF NextPacket, TypeOK
  <2> QED BY <2>1, <2>2, <2>3, <2>4, <2>5, Judging
<1>2. CASE NextFailed
  <2>1. PICK p \in LeftBehind(got) : Judge(p, FALSE) BY <1>2 DEF NextFailed
  <2>2. p \in Packet
    <3>1. got \in Index
      BY <1>0, <1>2, NumPacketsAssumption DEF NextFailed, SlotsFit, TypeOK, Index
    <3>2. slots[got] \in Packet \cup {Unread} BY <1>0, <3>1 DEF TypeOK
    <3>3. \A q \in Held(got) : q \in Packet BY <3>1, <3>2 DEF Held, Packet
    <3>4. \A q \in Short : q \in Packet BY MaxFrameAssumption DEF Short, Sent, Packet
    <3> QED BY <2>1, <3>3, <3>4 DEF LeftBehind
  <2>3. ~OnlyLoss BY <2>1 DEF OnlyLoss, LeftBehind, Short
  <2>4. last' \in Packet BY <1>0, <1>2 DEF NextFailed, TypeOK
  <2>5. pc = "recv" /\ UNCHANGED <<cur, taken>> /\ stopped' = TRUE BY <1>2 DEF NextFailed, GiveUp
  <2> QED BY <2>1, <2>2, <2>3, <2>4, <2>5, Judging
<1> QED BY <1>1, <1>2

\* Every step keeps the invariant.
LEMMA GrabberStep == GInv /\ [Next]_vars => GInv'
<1> SUFFICES ASSUME GInv, [Next]_vars PROVE GInv' OBVIOUS
<1>1. CASE UNCHANGED vars
  <2> USE <1>1 DEF vars, call
  <2>1. TypeOK' /\ SlotsFit' /\ NothingVanishes' /\ MissingNearlyRight'
    BY DEF GInv, TypeOK, SlotsFit, NothingVanishes, MissingNearlyRight, Returned
  <2>2. CompleteIsWhole' /\ CallKept' /\ CountKept' /\ LossKept'
    BY DEF GInv, CompleteIsWhole, CallKept, CountKept, LossKept, Returned, Filled, OnlyLoss, Gap
  <2> QED BY <2>1, <2>2 DEF GInv
<1>2. CASE Call /\ UNCHANGED Faults
  <2>1. \A memory \in {Memory, slots} : memory \in [Index -> Packet \cup {Unread}]
    BY DEF Memory, GInv, TypeOK
  <2> QED BY <1>2, <2>1, Calling DEF Call
<1> QED BY <1>1, <1>2, BeingStopped, FirstComing, FirstNotComing, Looping, Receiving DEF Next

(***************************************************************************)
(* The theorems about FrameGrabber.                                        *)
(***************************************************************************)
\* GInv is an invariant.
THEOREM GrabberInvariance == Spec => []GInv
BY GrabberInit, GrabberStep, PTL DEF Spec

\* Every variable of recv_into keeps its type: it never writes behind the
\* frame's memory.  The packets it counts are there and carry one frame number.
THEOREM WritesFit == Spec => []InFrame
<1>1. GInv => InFrame BY DEF GInv, InFrame
<1> QED BY <1>1, GrabberInvariance, PTL

\* No packet that recvfrom delivers is lost between two calls of recv_into.
THEOREM PacketsKept == Spec => []NothingVanishes
<1>1. GInv => NothingVanishes BY DEF GInv
<1> QED BY <1>1, GrabberInvariance, PTL

\* What recv_into returns is at most two below the number of packets missing.
THEOREM ReturnNearlyRight == Spec => []MissingNearlyRight
<1>1. GInv => MissingNearlyRight BY DEF GInv
<1> QED BY <1>1, GrabberInvariance, PTL

\* A frame returned as complete over a network that only loses packets holds
\* each packet in its place.
THEOREM CompleteFramesWhole == Spec => []CompleteIsWhole
<1>1. GInv => CompleteIsWhole BY DEF GInv
<1> QED BY <1>1, GrabberInvariance, PTL
-----------------------------------------------------------------------------
(***************************************************************************)
(* FrameGrabber implements RecvInto.                                       *)
(***************************************************************************)
\* Without faults the packet due is the next of its frame, or begins a new one.
LEMMA Due ==
    ASSUME TypeOK, NEW p \in Arriving, Faults = {}
    PROVE  \/ p.frame = last.frame /\ p.num = last.num + 1
           \/ p.frame = last.frame + 1 /\ p.num = 0 /\ (last.frame = 0 \/ last.num = NumPackets - 1)
<1> USE NumPacketsAssumption, MaxFrameAssumption
<1>1. last.frame \in 0 .. MaxFrame /\ last.num \in Index BY DEF TypeOK, Packet
<1>2. /\ p.frame \in 1 .. MaxFrame /\ p.num \in Index /\ Follows(p, last)
      /\ \A q \in Sent : Follows(q, last) => p = q \/ Follows(q, p)
  BY DEF Arriving, Sent
<1> DEFINE nextnum == [frame |-> last.frame, num |-> last.num + 1]
           nextframe == [frame |-> last.frame + 1, num |-> 0]
<1>3. CASE last.frame # 0 /\ last.num # NumPackets - 1
  <2>1. nextnum \in Sent /\ Follows(nextnum, last) BY <1>1, <1>3 DEF Sent, Follows, Index
  <2>2. p = nextnum \/ Follows(nextnum, p) BY <1>2, <2>1
  <2> QED BY <1>1, <1>2, <2>2 DEF Follows, Index
<1>4. CASE last.frame = 0 \/ last.num = NumPackets - 1
  <2>1. p.frame > last.frame BY <1>1, <1>2, <1>4 DEF Follows, Index
  <2>2. nextframe \in Sent /\ Follows(nextframe, last) BY <1>1, <1>2, <2>1 DEF Sent, Follows, Index
  <2>3. p = nextframe \/ Follows(nextframe, p) BY <1>2, <2>2
  <2> QED BY <1>1, <1>2, <1>4, <2>1, <2>3 DEF Follows, Index
<1> QED BY <1>3, <1>4

\* What receiving a packet does to the latest frame seen.
LEMMA Latest ==
    ASSUME TypeOK, NEW p \in Packet, ReceivePacket(p)
    PROVE  /\ last'.frame = R!Newest(last.frame, p.frame)
           /\ last'.frame >= p.frame /\ last'.frame >= last.frame
           /\ p.frame \in 1 .. MaxFrame /\ last.frame \in 0 .. MaxFrame
           /\ "disorder" \notin Faults => last' = p /\ Follows(p, last) /\ p.frame >= last.frame
<1>1. last.frame \in 0 .. MaxFrame /\ last.num \in Index BY DEF TypeOK, Packet
<1>2. p.frame \in 1 .. MaxFrame /\ p.num \in Index BY MaxFrameAssumption DEF ReceivePacket, Arriving, Sent
<1>3. last' = IF Follows(p, last) THEN p ELSE last BY DEF ReceivePacket
<1>4. "disorder" \notin Faults => Follows(p, last) BY DEF ReceivePacket, Arriving
<1> QED BY <1>1, <1>2, <1>3, <1>4, NumPacketsAssumption, MaxFrameAssumption
        DEF Follows, R!Newest, Index

LEMMA SeenStart == Init => SeenKept
BY DEF Init, SeenKept, Filled

LEMMA SeenStep == GInv /\ SeenKept /\ [Next]_vars => SeenKept'
<1> SUFFICES ASSUME GInv, SeenKept, [Next]_vars PROVE SeenKept' OBVIOUS
<1> USE NumPacketsAssumption
<1>0. TypeOK /\ SlotsFit /\ CallKept /\ LossKept BY DEF GInv
<1>1. UNCHANGED Faults /\ R!Silent' = R!Silent BY DEF Next, vars, R!Silent
<1>2. CASE UNCHANGED vars BY <1>1, <1>2 DEF vars, call, SeenKept, Filled, Gap
<1>3. CASE RequestStop BY <1>1, <1>3 DEF RequestStop, call, SeenKept, Filled, Gap
<1>4. CASE Call
  <2>1. PICK memory \in {Memory, slots} : CallWith(memory) BY <1>4 DEF Call
  <2>2. cached' = FALSE /\ last' = last BY <2>1 DEF CallWith
  <2>3. CASE ~cached
    <3>1. pc' = "first" /\ ret' = -1 BY <2>1, <2>3 DEF CallWith
    <3> QED BY <1>1, <2>2, <3>1 DEF SeenKept, Filled
  <2>4. CASE cached
    <3>1. slots' = [memory EXCEPT ![0] = cache] /\ got' = 1 /\ pc' = "loop" /\ ret' = -1
          /\ cur' = [memory EXCEPT ![0] = cache][0].frame
      BY <2>1, <2>4 DEF CallWith, Begin
    <3>2. memory \in [Index -> Packet \cup {Unread}] /\ 0 \in Index BY <1>0 DEF Memory, TypeOK, Index
    <3>3. cur' = cache.frame BY <3>1, <3>2
    <3> QED BY <1>1, <2>2, <2>4, <3>1, <3>3 DEF SeenKept, Filled
  <2> QED BY <2>3, <2>4
<1>5. CASE FirstPacket
  <2>1. PICK p \in Sent : ReceivePacket(p) /\ Begin([slots EXCEPT ![0] = p], {0})
    BY <1>5 DEF FirstPacket
  <2>2. p \in Packet BY MaxFrameAssumption DEF Sent, Packet
  <2>3. last'.frame >= p.frame /\ p.frame >= 1 BY <1>0, <2>1, <2>2, Latest
  <2>4. 0 \in Index BY DEF Index
  <2>5. cur' = p.frame /\ got' = 1 /\ pc' = "loop" /\ ret' = -1
    BY <1>0, <2>1, <2>4 DEF Begin, TypeOK
  <2>6. ~cached' BY <1>0, <1>5 DEF FirstPacket, CallKept
  <2> QED BY <1>1, <2>3, <2>5, <2>6 DEF SeenKept, Filled
<1>6. CASE FirstFailed
  <2>1. pc' \in {"first", "idle"} /\ (pc' # "idle" => ret' = ret) /\ pc # "idle" /\ UNCHANGED <<cached, cache, last>>
    BY <1>6 DEF FirstFailed, Return
  <2> QED BY <1>1, <2>1 DEF SeenKept, Filled
<1>7. CASE Loop
  <2>1. /\ pc' \in {"recv", "idle"} /\ (pc' # "idle" => ret' = ret) /\ pc = "loop"
        /\ UNCHANGED <<cached, cache, last, cur, slots, got>>
    BY <1>7 DEF Loop, Return
  <2> QED BY <1>1, <2>1 DEF SeenKept, Filled, Gap
<1>8. CASE NextPacket
  <2>1. PICK p \in Sent : ReceivePacket(p) /\ Judge(p, TRUE) BY <1>8 DEF NextPacket
  <2>2. p \in Packet BY MaxFrameAssumption DEF Sent, Packet
  <2>3. last'.frame >= p.frame /\ last'.frame >= last.frame /\ last.frame \in Int /\ p.frame \in Int
        /\ last'.frame \in Int /\ p.frame >= 1
    BY <1>0, <2>1, <2>2, Latest DEF R!Newest
  <2>4. pc = "recv" /\ ~cached /\ cur' = cur /\ cur \in Int /\ ret = -1
    BY <1>0, <1>8 DEF NextPacket, CallKept, TypeOK, SeenKept
  <2>5. got \in Index /\ 0 \in Index /\ got >= 1 /\ got # 0
    BY <1>0, <2>4 DEF SlotsFit, CallKept, Filled, TypeOK, Index
  <2>6. ~R!Silent => cur <= last.frame BY <2>4 DEF SeenKept, Filled
  <2>7. Faults = {} => /\ last = slots[got - 1] /\ Gap(got - 1) = Gap(0) /\ cur = last.frame
                       /\ slots[0].num \in Int /\ last.num \in Int
    <3>1. 0 \in 0 .. got - 1 /\ got - 1 \in 0 .. got - 1 BY <2>5 DEF Index
    <3>2. slots[0] \in Packet /\ slots[got - 1] \in Packet /\ slots[got - 1].frame = cur
      BY <1>0, <2>4, <3>1 DEF CallKept, SlotsFit, Filled
    <3>3. Faults = {} => last = slots[got - 1] /\ Gap(got - 1) = Gap(0)
      BY <1>0, <2>4 DEF LossKept, OnlyLoss, SeenKept, Filled
    <3> QED BY <3>2, <3>3 DEF Packet, Index
  <2>8. CASE SameFrame(p)
    <3>1. /\ slots' = [slots EXCEPT ![got] = p] /\ got' = got + 1 /\ pc' = "loop"
          /\ UNCHANGED <<cache, cached, ret>>
      BY <2>1, <2>8 DEF Judge
    <3>2. slots'[got] = p /\ slots'[0] = slots[0] BY <1>0, <2>5, <3>1 DEF TypeOK
    <3>3. ~R!Silent => cur' <= last'.frame BY <2>3, <2>4, <2>6
    <3>4. Faults = {} => (Gap(got - 1) = Gap(0))'
      <4> SUFFICES ASSUME Faults = {} PROVE slots'[got].num - got = slots'[0].num - 0
        BY <2>5, <3>1 DEF Gap, Index
      <4>1. p.frame = last.frame BY <2>7, <2>8 DEF SameFrame
      <4>2. p.num = last.num + 1 BY <1>0, <2>1, <2>3, <4>1, Due DEF ReceivePacket
      <4>3. last.num - (got - 1) = slots[0].num BY <2>5, <2>7 DEF Gap
      <4> QED BY <2>5, <2>7, <3>2, <4>2, <4>3 DEF Index
    <3> QED BY <1>1, <2>4, <3>1, <3>3, <3>4 DEF SeenKept, Filled
  <2>9. CASE ~SameFrame(p)
    <3>1. cache' = p /\ cached' = TRUE /\ pc' = "idle" BY <2>1, <2>9 DEF Judge, Keep, Return
    <3>2. Faults = {} => p.num = 0
      BY <1>0, <2>1, <2>7, <2>9, Due DEF SameFrame, ReceivePacket
    <3> QED BY <1>1, <2>3, <3>1, <3>2 DEF SeenKept, Filled
  <2> QED BY <2>8, <2>9
<1>9. CASE NextFailed
  <2>1. PICK p \in LeftBehind(got) : Judge(p, FALSE) BY <1>9 DEF NextFailed
  <2>2. R!Silent /\ Faults # {} BY <2>1 DEF R!Silent, LeftBehind, Short
  <2>3. pc' # "idle" => pc = "recv" /\ ret' = ret BY <1>9, <2>1 DEF NextFailed, Judge, Return
  <2> QED BY <1>1, <2>2, <2>3 DEF SeenKept
<1> QED BY <1>2, <1>3, <1>4, <1>5, <1>6, <1>7, <1>8, <1>9 DEF Next

\* Every step of recv_into is one that RecvInto allows, or none at all.
Allowed == AsSeen' \in R!Steps(AsSeen) \cup R!Enter(AsSeen) \cup {R!RequestStop(AsSeen)}

\* The fields of AsSeen.
Fields ==
    /\ AsSeen \in R!Grabber
    /\ AsSeen.pc = (IF Filling THEN "fill" ELSE pc) /\ AsSeen.stopped = stopped
    /\ AsSeen.cached = (IF cached THEN cache.frame ELSE R!None)
    /\ AsSeen.cur = cur /\ AsSeen.lost = (ret # 0) /\ AsSeen.seen = last.frame /\ AsSeen.tail = Rest

LEMMA Seen == TypeOK => Fields
<1> SUFFICES ASSUME TypeOK PROVE Fields OBVIOUS
<1>1. Rest \in {"none", "left", "begun"} BY DEF Rest
<1>2. (IF Filling THEN "fill" ELSE pc) \in {"idle", "first", "fill"} BY DEF Filling, TypeOK
<1>3. (IF cached THEN cache.frame ELSE R!None) \in R!None .. MaxFrame
  BY MaxFrameAssumption DEF TypeOK, Packet, R!None
<1>4. stopped \in BOOLEAN /\ cur \in 0 .. MaxFrame /\ last.frame \in 0 .. MaxFrame
      /\ (ret # 0) \in BOOLEAN
  BY DEF TypeOK, Packet
<1>5. AsSeen \in R!Grabber BY <1>1, <1>2, <1>3, <1>4 DEF AsSeen, R!Grabber
<1> QED BY <1>5 DEF AsSeen, Fields

LEMMA SeenAfter == TypeOK' => Fields'
BY Seen, PTL

\* A packet that does not belong to the frame ends the call.
LEMMA Cutting ==
    ASSUME GInv, SeenKept, UNCHANGED Faults, NextPacket, NEW p \in Packet, ReceivePacket(p), Judge(p, TRUE),
           ~SameFrame(p)
    PROVE  Allowed
<1> USE NumPacketsAssumption, MaxFrameAssumption
<1>0. TypeOK /\ SlotsFit /\ CallKept /\ LossKept BY DEF GInv
<1>1. pc = "recv" /\ ~cached /\ ret = -1 /\ got \in 1 .. NumPackets - 1 /\ UNCHANGED <<cur, stopped>>
  BY <1>0 DEF NextPacket, CallKept, SlotsFit, Filled, TypeOK, SeenKept
<1>2. cached' = TRUE /\ cache' = p /\ pc' = "idle" /\ ret' = NumPackets - got
  BY DEF Judge, Keep, Return, Missing
<1>3. /\ last'.frame = R!Newest(last.frame, p.frame) /\ p.frame \in 1 .. MaxFrame
      /\ last.frame \in 0 .. MaxFrame
      /\ "disorder" \notin Faults => Follows(p, last) /\ p.frame >= last.frame
  BY <1>0, Latest
<1>4. Rest' = "none" BY <1>2 DEF Rest, Filling
<1>5. AsSeen.pc = "fill" /\ AsSeen.seen = last.frame /\ AsSeen.tail = Rest
  BY <1>0, <1>1, Seen DEF Fields, Filling
<1>6. AsSeen' = [AsSeen EXCEPT !.pc = "idle", !.cached = p.frame,
                               !.seen = R!Newest(AsSeen.seen, p.frame), !.tail = "none"]
  <2>1. Fields /\ Fields' BY <1>0, Seen, SeenAfter, GrabberStep DEF GInv, Next
  <2>2. ~Filling' /\ Filling /\ ret' # 0 BY <1>1, <1>2 DEF Filling
  <2>3. /\ AsSeen'.pc = "idle" /\ AsSeen'.stopped = AsSeen.stopped /\ AsSeen'.cached = p.frame
        /\ AsSeen'.cur = AsSeen.cur /\ AsSeen'.seen = R!Newest(AsSeen.seen, p.frame)
        /\ AsSeen'.tail = "none"
    BY <1>1, <1>2, <1>3, <1>4, <2>1, <2>2 DEF Fields
  <2>4. AsSeen'.lost = AsSeen.lost BY <1>1, <2>1, <2>2 DEF Fields
  <2>5. AsSeen \in R!Grabber /\ AsSeen' \in R!Grabber BY <2>1 DEF Fields
  <2> QED BY <2>3, <2>4, <2>5 DEF R!Grabber
<1>7. OnlyLoss => slots[got - 1] = last /\ last.frame = cur
  <2>1. got - 1 \in 0 .. got - 1 BY <1>1
  <2> QED BY <1>0, <1>1, <2>1 DEF LossKept, SlotsFit, Filled
<1>8. Faults = {} => Rest = "begun" /\ p.frame = last.frame + 1
  <2> SUFFICES ASSUME Faults = {} PROVE Rest = "begun" /\ p.frame = last.frame + 1 OBVIOUS
  <2>1. last = slots[got - 1] /\ last.frame = cur /\ cur # p.frame
    BY <1>7 DEF OnlyLoss, SameFrame
  <2>2. p.frame = last.frame + 1 /\ (last.frame = 0 \/ last.num = NumPackets - 1)
    BY <1>0, <2>1, Due DEF ReceivePacket
  <2>3. last.num - (got - 1) = slots[0].num - 0
    BY <1>1, <2>1 DEF SeenKept, Filled, Gap
  <2>4. last \in Packet /\ slots[0] \in Packet
    <3>1. 0 \in 0 .. got - 1 BY <1>1
    <3> QED BY <1>0, <1>1, <3>1 DEF CallKept, TypeOK, Filled
  <2>5. last.frame # 0 BY <1>1, <2>1 DEF SeenKept, Filled
  <2>6. slots[0].num # 0 BY <1>1, <2>2, <2>3, <2>4, <2>5 DEF Packet, Index
  <2> QED BY <1>1, <2>2, <2>6 DEF Rest, Filling
<1>9. /\ Faults # {} \/ AsSeen.tail = "begun"
      /\ p.frame \in IF R!Messy THEN 0 .. MaxFrame ELSE R!Later(AsSeen.seen)
  <2>1. CASE R!Messy BY <1>3, <1>5, <1>8, <2>1
  <2>2. CASE ~R!Messy
    <3>1. "disorder" \notin Faults BY <2>2 DEF R!Messy
    <3>2. OnlyLoss BY <1>0, <2>2, NetworksAssumption DEF OnlyLoss, R!Messy, R!Silent, TypeOK
    <3>3. p.frame > last.frame BY <1>3, <1>7, <3>1, <3>2 DEF SameFrame
    <3> QED BY <1>3, <1>5, <1>8, <2>2, <3>3 DEF R!Later
  <2> QED BY <2>1, <2>2
<1>10. AsSeen' \in R!Cut(AsSeen) BY <1>5, <1>6, <1>9 DEF R!Cut
<1> QED BY <1>10 DEF Allowed, R!Steps

\* recv_into is called, and has or gets its first packet.
LEMMA Entering ==
    ASSUME GInv, SeenKept, Fields, Fields', UNCHANGED Faults, NEW memory \in {Memory, slots}, CallWith(memory)
    PROVE  Allowed
<1> USE NumPacketsAssumption
<1>0. TypeOK BY DEF GInv
<1>1. /\ pc = "idle" /\ stopped' = FALSE /\ cached' = FALSE /\ last' = last /\ ret' = -1
      /\ pc' = (IF cached THEN "loop" ELSE "first")
      /\ cached => /\ slots' = [memory EXCEPT ![0] = cache]
                   /\ cur' = [memory EXCEPT ![0] = cache][0].frame
      /\ ~cached => cur' = cur
  BY DEF CallWith, Begin
<1>2. memory \in [Index -> Packet \cup {Unread}] /\ 0 \in Index /\ cache \in Packet
  BY <1>0 DEF Memory, TypeOK, Index
<1>3. cached => slots'[0] = cache /\ cur' = cache.frame BY <1>1, <1>2
<1>4. Rest' = Rest
  <2>1. CASE cached
    <3>1. ~Filling /\ Filling' BY <1>1, <2>1 DEF Filling
    <3>2. ~(Faults' = {} /\ slots'[0].num # 0) BY <1>3, <2>1 DEF SeenKept
    <3> QED BY <2>1, <3>1, <3>2 DEF Rest
  <2>2. CASE ~cached BY <1>1, <2>2 DEF Rest, Filling
  <2> QED BY <2>1, <2>2
<1>5. AsSeen.pc = "idle" /\ AsSeen.cached = (IF cached THEN cache.frame ELSE R!None)
      /\ (AsSeen.cached = R!None <=> ~cached)
  BY <1>1, <1>2, MaxFrameAssumption DEF Fields, Filling, Packet, R!None
<1>6. AsSeen' = [AsSeen EXCEPT !.stopped = FALSE, !.cached = R!Forgotten(AsSeen.cached), !.lost = TRUE,
                    !.pc = IF AsSeen.cached = R!None THEN "first" ELSE "fill",
                    !.cur = IF AsSeen.cached = R!None THEN AsSeen.cur ELSE AsSeen.cached]
  <2>1. /\ AsSeen'.stopped = FALSE /\ AsSeen'.cached = R!None /\ AsSeen'.seen = AsSeen.seen
        /\ AsSeen'.tail = AsSeen.tail
    BY <1>1, <1>4 DEF Fields
  <2>2. AsSeen'.lost = TRUE
    <3>1. ret' # 0 BY <1>1
    <3> QED BY <3>1 DEF Fields
  <2>3. AsSeen'.pc = IF AsSeen.cached = R!None THEN "first" ELSE "fill"
    BY <1>1, <1>5 DEF Fields, Filling
  <2>4. AsSeen'.cur = IF AsSeen.cached = R!None THEN AsSeen.cur ELSE AsSeen.cached
    BY <1>1, <1>3, <1>5 DEF Fields
  <2>5. AsSeen \in R!Grabber /\ AsSeen' \in R!Grabber BY DEF Fields
  <2> QED BY <2>1, <2>2, <2>3, <2>4, <2>5 DEF R!Grabber, R!Forgotten
<1>7. AsSeen' \in R!Enter(AsSeen) BY <1>5, <1>6 DEF R!Enter
<1> QED BY <1>7 DEF Allowed

LEMMA Beginning ==
    ASSUME GInv, SeenKept, Fields, Fields', UNCHANGED Faults, FirstPacket
    PROVE  Allowed
<1> USE NumPacketsAssumption, MaxFrameAssumption
<1>0. TypeOK /\ CallKept BY DEF GInv
<1>1. PICK p \in Sent : ReceivePacket(p) /\ Begin([slots EXCEPT ![0] = p], {0}) BY DEF FirstPacket
<1>2. 0 \in Index /\ p \in Packet BY DEF Sent, Packet, Index
<1>3. /\ pc = "first" /\ ~cached /\ ret = -1 /\ pc' = "loop" /\ ret' = -1 /\ ~cached' /\ stopped' = stopped
      /\ slots'[0] = p /\ cur' = p.frame
  BY <1>0, <1>1, <1>2 DEF FirstPacket, CallKept, SeenKept, Begin, TypeOK
<1>4. /\ last'.frame = R!Newest(last.frame, p.frame) /\ p.frame \in 1 .. MaxFrame
      /\ last.frame \in 0 .. MaxFrame
      /\ "disorder" \notin Faults => Follows(p, last) /\ p.frame >= last.frame
  BY <1>0, <1>1, <1>2, Latest
<1>5. /\ AsSeen.pc = "first" /\ AsSeen.seen = last.frame
      /\ AsSeen.tail = IF last.frame # 0 /\ last.num # NumPackets - 1 THEN "left" ELSE "none"
  BY <1>3 DEF Fields, Filling, Rest
<1>6. p.frame \in R!Arriving(AsSeen)
  <2>1. CASE "disorder" \in Faults BY <1>4, <2>1 DEF R!Arriving
  <2>2. CASE "disorder" \notin Faults /\ p.frame = last.frame
    <3>1. last.num # NumPackets - 1
      BY <1>0, <1>2, <1>4, <2>2 DEF Follows, TypeOK, Packet, Index
    <3> QED BY <1>4, <1>5, <2>2, <3>1 DEF R!Arriving
  <2>3. CASE "disorder" \notin Faults /\ p.frame # last.frame
    <3>1. p.frame > last.frame BY <1>4, <2>3
    <3>2. Faults = {} => p.frame = last.frame + 1 BY <1>0, <1>1, <2>3, Due DEF ReceivePacket
    <3>3. p.frame \in R!Later(AsSeen.seen) BY <1>4, <1>5, <3>1, <3>2 DEF R!Later
    <3> QED BY <2>3, <3>3 DEF R!Arriving
  <2> QED BY <2>1, <2>2, <2>3
<1>7. Rest' = IF Faults = {} /\ p.frame = AsSeen.seen THEN "begun" ELSE "none"
  <2>1. Rest' = IF Faults = {} /\ p.num # 0 THEN "begun" ELSE "none" BY <1>3 DEF Rest, Filling
  <2>2. Faults = {} => (p.num # 0 <=> p.frame = last.frame)
    <3>1. Faults = {} => \/ p.frame = last.frame /\ p.num = last.num + 1
                         \/ p.frame = last.frame + 1 /\ p.num = 0
      BY <1>0, <1>1, Due DEF ReceivePacket
    <3>2. last.num \in Nat BY <1>0 DEF TypeOK, Packet, Index
    <3> QED BY <1>4, <3>1, <3>2
  <2> QED BY <1>5, <2>1, <2>2
<1>8. AsSeen' = [AsSeen EXCEPT !.pc = "fill", !.cur = p.frame, !.seen = R!Newest(AsSeen.seen, p.frame),
                    !.tail = IF Faults = {} /\ p.frame = AsSeen.seen THEN "begun" ELSE "none"]
  <2>1. /\ AsSeen'.pc = "fill" /\ AsSeen'.stopped = AsSeen.stopped /\ AsSeen'.cached = AsSeen.cached
        /\ AsSeen'.cur = p.frame /\ AsSeen'.seen = R!Newest(AsSeen.seen, p.frame)
    BY <1>3, <1>4, <1>5 DEF Fields, Filling
  <2>2. AsSeen'.lost = AsSeen.lost BY <1>3 DEF Fields
  <2>3. AsSeen'.tail = Rest' BY DEF Fields
  <2>4. AsSeen \in R!Grabber /\ AsSeen' \in R!Grabber BY DEF Fields
  <2> QED BY <1>7, <2>1, <2>2, <2>3, <2>4 DEF R!Grabber
<1>9. AsSeen' \in R!FirstPacket(AsSeen) BY <1>5, <1>6, <1>8 DEF R!FirstPacket
<1> QED BY <1>9 DEF Allowed, R!Steps

\* The loop over the other packets ends.
LEMMA LoopEnding ==
    ASSUME GInv, SeenKept, Fields, Fields', UNCHANGED Faults, Loop, pc' = "idle"
    PROVE  Allowed
<1> USE NumPacketsAssumption, MaxFrameAssumption
<1>0. TypeOK /\ CallKept /\ LossKept BY DEF GInv
<1>1. /\ pc = "loop" /\ ret = -1 /\ ~cached /\ got \in 1 .. NumPackets /\ ret' = NumPackets - got
      /\ got = NumPackets \/ stopped
      /\ UNCHANGED <<stopped, cached, cur, last>>
  BY <1>0 DEF Loop, Return, Missing, Incomplete, CallKept, SeenKept, TypeOK, Filled
<1>2. AsSeen.pc = "fill" /\ AsSeen.stopped = stopped BY <1>1 DEF Fields, Filling
<1>3. Rest' = IF last.frame # 0 /\ last.num # NumPackets - 1 THEN "left" ELSE "none"
  BY <1>1 DEF Rest, Filling
<1>4. /\ AsSeen'.pc = "idle" /\ AsSeen'.stopped = AsSeen.stopped /\ AsSeen'.cached = AsSeen.cached
      /\ AsSeen'.cur = AsSeen.cur /\ AsSeen'.seen = AsSeen.seen /\ AsSeen'.tail = Rest'
  BY <1>1 DEF Fields, Filling
<1>5. AsSeen \in R!Grabber /\ AsSeen' \in R!Grabber BY DEF Fields
<1>6. CASE got = NumPackets
  <2>1. AsSeen'.lost = FALSE
    <3>1. ret' = 0 BY <1>1, <1>6
    <3> QED BY <3>1 DEF Fields
  <2>2. AsSeen' = [AsSeen EXCEPT !.pc = "idle", !.lost = FALSE, !.tail = Rest']
    BY <1>4, <1>5, <2>1 DEF R!Grabber
  <2>3. ~R!Messy => Rest' = "none"
    <3> SUFFICES ASSUME ~R!Messy PROVE last.num = NumPackets - 1 BY <1>3
    <3>1. OnlyLoss BY <1>0, NetworksAssumption DEF OnlyLoss, R!Messy, R!Silent, TypeOK
    <3>2. got - 1 \in 0 .. got - 1 BY <1>1
    <3>3. slots[got - 1] = last /\ Gap(got - 1) >= 0
      BY <1>0, <1>1, <3>1, <3>2 DEF LossKept, Filled, Gap
    <3> QED BY <1>0, <1>6, <3>3 DEF Gap, TypeOK, Packet, Index
  <2>4. AsSeen' \in R!Whole(AsSeen) BY <1>2, <1>3, <2>2, <2>3 DEF R!Whole
  <2> QED BY <2>4 DEF Allowed, R!Steps
<1>7. CASE got # NumPackets
  <2>1. AsSeen'.lost = AsSeen.lost
    <3>1. ret # 0 /\ ret' # 0 BY <1>1, <1>7
    <3> QED BY <3>1 DEF Fields
  <2>2. AsSeen' = [AsSeen EXCEPT !.pc = "idle", !.tail = Rest']
    BY <1>4, <1>5, <2>1 DEF R!Grabber
  <2>3. AsSeen' \in R!GivenUp(AsSeen) BY <1>1, <1>2, <1>3, <1>7, <2>2 DEF R!GivenUp
  <2> QED BY <2>3 DEF Allowed, R!Steps
<1> QED BY <1>6, <1>7

\* A packet of the frame comes, which RecvInto does not tell unless it is newer than
\* all before.
LEMMA Adding ==
    ASSUME GInv, SeenKept, Fields, Fields', UNCHANGED Faults, NextPacket, NEW p \in Packet, ReceivePacket(p),
           Judge(p, TRUE), SameFrame(p)
    PROVE  Allowed \/ AsSeen' = AsSeen
<1> USE NumPacketsAssumption, MaxFrameAssumption
<1>0. TypeOK /\ SlotsFit /\ CallKept BY DEF GInv
<1>1. /\ pc = "recv" /\ ~cached /\ ret' = ret /\ got \in 1 .. NumPackets - 1 /\ pc' = "loop"
      /\ slots' = [slots EXCEPT ![got] = p] /\ UNCHANGED <<cur, stopped, cached, cache>>
  BY <1>0 DEF NextPacket, CallKept, SlotsFit, Filled, TypeOK, SeenKept, Judge
<1>2. slots'[0] = slots[0] BY <1>0, <1>1 DEF TypeOK, Index
<1>3. Rest' = Rest BY <1>1, <1>2 DEF Rest, Filling
<1>4. last'.frame = R!Newest(last.frame, cur) /\ last.frame \in Int /\ cur \in Int
  BY <1>0, Latest DEF SameFrame, TypeOK
<1>5. /\ AsSeen'.pc = AsSeen.pc /\ AsSeen'.stopped = AsSeen.stopped /\ AsSeen'.cached = AsSeen.cached
      /\ AsSeen'.cur = AsSeen.cur /\ AsSeen'.tail = AsSeen.tail
      /\ AsSeen'.seen = R!Newest(AsSeen.seen, AsSeen.cur)
  BY <1>1, <1>3, <1>4 DEF Fields, Filling
<1>6. AsSeen'.lost = AsSeen.lost BY <1>1 DEF Fields
<1>7. AsSeen \in R!Grabber /\ AsSeen' \in R!Grabber BY DEF Fields
<1>8. CASE R!Silent
  <2>1. AsSeen' = [AsSeen EXCEPT !.seen = R!Newest(AsSeen.seen, AsSeen.cur)]
    BY <1>5, <1>6, <1>7 DEF R!Grabber
  <2>2. AsSeen.pc = "fill" BY <1>1 DEF Fields, Filling
  <2>3. AsSeen' \in R!Failed(AsSeen) BY <1>8, <2>1, <2>2 DEF R!Failed
  <2> QED BY <2>3 DEF Allowed, R!Steps
<1>9. CASE ~R!Silent
  <2>1. AsSeen'.seen = AsSeen.seen
    BY <1>1, <1>4, <1>5, <1>9 DEF R!Newest, SeenKept, Filled, Fields
  <2> QED BY <1>5, <1>6, <1>7, <2>1 DEF R!Grabber
<1> QED BY <1>8, <1>9

\* No packet comes, and what lies in the slot is taken for one.
LEMMA Failing ==
    ASSUME GInv, SeenKept, Fields, Fields', UNCHANGED Faults, NextFailed
    PROVE  Allowed
<1> USE NumPacketsAssumption, MaxFrameAssumption
<1>0. TypeOK /\ SlotsFit /\ CallKept BY DEF GInv
<1>1. PICK p \in LeftBehind(got) : Judge(p, FALSE) BY DEF NextFailed
<1>2. pc = "recv" /\ ~cached /\ ret = -1 /\ got \in 1 .. NumPackets - 1 /\ UNCHANGED <<cur, last>>
      /\ stopped' = TRUE
  BY <1>0 DEF NextFailed, GiveUp, CallKept, SlotsFit, Filled, TypeOK, SeenKept
<1>3. R!Silent /\ Faults # {} BY <1>1 DEF R!Silent, LeftBehind, Short
<1>4. AsSeen.pc = "fill" /\ Rest = "none" BY <1>2, <1>3 DEF Fields, Filling, Rest
<1>5. AsSeen \in R!Grabber /\ AsSeen' \in R!Grabber BY DEF Fields
<1>6. CASE SameFrame(p)
  <2>1. pc' = "loop" /\ UNCHANGED <<cached, cache, ret>> BY <1>1, <1>6 DEF Judge
  <2>2. Rest' = "none" BY <1>3, <2>1 DEF Filling, Rest
  <2>3. /\ AsSeen'.pc = "fill" /\ AsSeen'.stopped = TRUE /\ AsSeen'.cached = AsSeen.cached
        /\ AsSeen'.cur = AsSeen.cur /\ AsSeen'.seen = AsSeen.seen /\ AsSeen'.tail = AsSeen.tail
    BY <1>2, <1>4, <2>1, <2>2 DEF Fields, Filling
  <2>4. AsSeen'.lost = AsSeen.lost BY <2>1 DEF Fields
  <2>5. AsSeen' = [AsSeen EXCEPT !.stopped = TRUE] BY <1>4, <1>5, <2>3, <2>4 DEF R!Grabber
  <2>6. AsSeen' \in R!Failed(AsSeen) BY <1>3, <1>4, <2>5 DEF R!Failed
  <2> QED BY <2>6 DEF Allowed, R!Steps
<1>7. CASE ~SameFrame(p)
  <2>1. pc' = "idle" /\ cached' = TRUE /\ cache' = p /\ ret' = NumPackets - got
    BY <1>1, <1>7 DEF Judge, Keep, Return, Missing
  <2>2. Rest' = "none" BY <2>1 DEF Filling, Rest
  <2>3. p.frame \in 0 .. MaxFrame
    <3>1. GInv' BY GrabberStep DEF Next
    <3>2. cache' \in Packet BY <3>1 DEF GInv, TypeOK
    <3> QED BY <2>1, <3>2 DEF Packet
  <2>4. /\ AsSeen'.pc = "idle" /\ AsSeen'.stopped = TRUE /\ AsSeen'.cached = p.frame
        /\ AsSeen'.cur = AsSeen.cur /\ AsSeen'.seen = AsSeen.seen /\ AsSeen'.tail = "none"
    BY <1>2, <2>1, <2>2 DEF Fields, Filling
  <2>5. AsSeen'.lost = AsSeen.lost
    <3>1. ret # 0 /\ ret' # 0 BY <1>2, <2>1
    <3> QED BY <3>1 DEF Fields
  <2>6. AsSeen' = [AsSeen EXCEPT !.stopped = TRUE, !.pc = "idle", !.cached = p.frame, !.tail = "none"]
    BY <1>5, <2>4, <2>5 DEF R!Grabber
  <2>7. AsSeen' \in R!Failed(AsSeen) BY <1>3, <1>4, <2>3, <2>6 DEF R!Failed
  <2> QED BY <2>7 DEF Allowed, R!Steps
<1> QED BY <1>6, <1>7

LEMMA Mapped == GInv /\ SeenKept /\ [Next]_vars => [Allowed]_AsSeen
<1> SUFFICES ASSUME GInv, SeenKept, [Next]_vars PROVE Allowed \/ AsSeen' = AsSeen OBVIOUS
<1>0. TypeOK BY DEF GInv
<1>1. Fields /\ Fields' BY <1>0, Seen, SeenAfter, GrabberStep DEF GInv
<1>2. AsSeen \in R!Grabber /\ AsSeen' \in R!Grabber BY <1>1 DEF Fields
<1>3. CASE UNCHANGED vars BY <1>3 DEF vars, call, AsSeen, Filling, Rest
<1>4. CASE RequestStop /\ UNCHANGED Faults
  <2>1. stopped' = TRUE /\ UNCHANGED <<cache, cached, slots, cur, pc, ret, last, Faults>>
    BY <1>4 DEF RequestStop, call
  <2>2. /\ AsSeen'.pc = AsSeen.pc /\ AsSeen'.stopped = TRUE /\ AsSeen'.cached = AsSeen.cached
        /\ AsSeen'.cur = AsSeen.cur /\ AsSeen'.seen = AsSeen.seen /\ AsSeen'.tail = AsSeen.tail
    BY <1>1, <2>1 DEF Fields, Filling, Rest
  <2>3. AsSeen'.lost = AsSeen.lost BY <1>1, <2>1 DEF Fields
  <2>4. AsSeen' = R!RequestStop(AsSeen) BY <1>2, <2>2, <2>3 DEF R!Grabber, R!RequestStop
  <2> QED BY <2>4 DEF Allowed
<1>5. CASE Call /\ UNCHANGED Faults BY <1>1, <1>5, Entering DEF Call
<1>6. CASE FirstPacket /\ UNCHANGED Faults BY <1>1, <1>6, Beginning
<1>7. CASE FirstFailed /\ UNCHANGED Faults
  <2>1. pc = "first" /\ ~cached /\ ret = -1 /\ UNCHANGED <<stopped, cached, cache, cur, last>>
    BY <1>7 DEF GInv, CallKept, FirstFailed, SeenKept
  <2>2. /\ IF stopped THEN pc' = "idle" /\ ret' = NumPackets ELSE pc' = pc /\ ret' = ret
        /\ ret # 0 /\ ret' # 0
    BY <1>7, <2>1, NumPacketsAssumption DEF FirstFailed, Return
  <2>3. Rest' = Rest BY <2>1, <2>2 DEF Rest, Filling
  <2>4. /\ AsSeen'.stopped = AsSeen.stopped /\ AsSeen'.cached = AsSeen.cached
        /\ AsSeen'.cur = AsSeen.cur /\ AsSeen'.seen = AsSeen.seen /\ AsSeen'.tail = AsSeen.tail
        /\ AsSeen.pc = "first" /\ AsSeen'.pc = (IF stopped THEN "idle" ELSE "first")
        /\ AsSeen.stopped = stopped
    BY <1>1, <2>1, <2>2, <2>3 DEF Fields, Filling
  <2>5. AsSeen'.lost = AsSeen.lost BY <1>1, <2>2 DEF Fields
  <2>6. CASE stopped
    <3>1. AsSeen' = [AsSeen EXCEPT !.pc = "idle"] BY <1>2, <2>4, <2>5, <2>6 DEF R!Grabber
    <3>2. AsSeen' \in R!FirstStopped(AsSeen) BY <2>4, <2>6, <3>1 DEF R!FirstStopped
    <3> QED BY <3>2 DEF Allowed, R!Steps
  <2>7. CASE ~stopped BY <1>2, <2>4, <2>5, <2>7 DEF R!Grabber
  <2> QED BY <2>6, <2>7
<1>8. CASE Loop /\ UNCHANGED Faults
  <2>1. CASE pc' = "idle" BY <1>1, <1>8, <2>1, LoopEnding
  <2>2. CASE pc' # "idle"
    <3>1. pc = "loop" /\ pc' = "recv" /\ UNCHANGED <<stopped, cached, cache, cur, last, ret, slots, Faults>>
      BY <1>8, <2>2 DEF Loop, Return
    <3>2. AsSeen' = AsSeen BY <3>1 DEF AsSeen, Filling, Rest
    <3> QED BY <3>2
  <2> QED BY <2>1, <2>2
<1>9. CASE NextPacket /\ UNCHANGED Faults
  <2>1. PICK p \in Sent : ReceivePacket(p) /\ Judge(p, TRUE) BY <1>9 DEF NextPacket
  <2>2. p \in Packet BY MaxFrameAssumption DEF Sent, Packet
  <2> QED BY <1>1, <1>9, <2>1, <2>2, Adding, Cutting
<1>10. CASE NextFailed /\ UNCHANGED Faults BY <1>1, <1>10, Failing
<1> QED BY <1>3, <1>4, <1>5, <1>6, <1>7, <1>8, <1>9, <1>10 DEF Next

\* recv_into does to its caller nothing that RecvInto does not allow, so that
\* what holds of UdpReceiver over RecvInto holds of it over recv_into.
THEOREM GrabberImplements == Spec => ImplementsRecvInto
<1>1. Init => AsSeen = R!New
  <2> SUFFICES ASSUME Init PROVE AsSeen = R!New OBVIOUS
  <2>1. (ret # 0) = TRUE /\ ~Filling /\ ~cached /\ Rest = "none" BY DEF Init, Filling, Rest, Zero
  <2> QED BY <2>1 DEF Init, AsSeen, Zero, R!New, R!None
<1>2. Spec => []SeenKept
  <2>1. SeenKept /\ GInv /\ [Next]_vars => SeenKept' BY SeenStep
  <2> QED BY <2>1, SeenStart, GrabberInvariance, PTL DEF Spec
<1>3. [Allowed]_AsSeen
         => [AsSeen' \in R!Steps(AsSeen) \cup R!Enter(AsSeen) \cup {R!RequestStop(AsSeen)}]_AsSeen
  BY DEF Allowed
<1> QED BY <1>1, <1>2, <1>3, Mapped, GrabberInvariance, PTL DEF Spec, ImplementsRecvInto
-----------------------------------------------------------------------------
(***************************************************************************)
(* The steps of FrameCounter.                                              *)
(***************************************************************************)
\* Its steps are steps of FrameGrabber, or leave that alone.
LEMMA CounterGrabs == GInv /\ [CounterNext]_<<vars, progVars>> => GInv'
<1> SUFFICES ASSUME GInv, [CounterNext]_<<vars, progVars>> PROVE GInv' OBVIOUS
<1>1. CASE UNCHANGED vars BY <1>1, GrabberStep
<1>2. CASE CallAgain /\ UNCHANGED Faults
  <2>1. slots \in [Index -> Packet \cup {Unread}] BY DEF GInv, TypeOK
  <2>2. CallWith(slots) BY <1>2 DEF CallAgain
  <2> QED BY <1>2, <2>1, <2>2, Calling
<1>3. CASE Running /\ UNCHANGED Faults BY <1>3, GrabberStep DEF Running, Next
<1> QED BY <1>1, <1>2, <1>3 DEF CounterNext, Report, Summary

LEMMA CounterStart == CounterInit => CInv
<1> SUFFICES ASSUME CounterInit PROVE CInv OBVIOUS
<1>1. GInv BY GrabberInit DEF CounterInit
<1>2. CounterTyped /\ SumKept
  BY NumPacketsAssumption DEF CounterTyped, SumKept, Summed, CounterInit, Init
<1>3. NumbersKept
  BY DEF NumbersKept, Rising, Filled, Sent, Follows, CounterInit, Init, Zero
<1> QED BY <1>1, <1>2, <1>3 DEF CInv

\* recv_into is called with the same frame again.
LEMMA CounterCalls == CInv /\ CallAgain /\ UNCHANGED Faults => CInv'
<1> SUFFICES ASSUME CInv, CallAgain, UNCHANGED Faults PROVE CInv' OBVIOUS
<1> USE DEF CallAgain, CallWith
<1>0. TypeOK /\ LossKept BY DEF CInv, GInv
<1>1. GInv' BY CounterGrabs DEF CInv, CounterNext
<1>2. pc = "idle" /\ pc' \in {"first", "loop"} /\ cached' = FALSE BY DEF Begin
<1>3. CounterTyped' BY <1>2 DEF CInv, CounterTyped
<1>4. SumKept'
  <2>1. UNCHANGED <<frames_received, total_missing_packets, handed>> /\ OnlyLoss' = OnlyLoss
    BY DEF OnlyLoss
  <2>2. Summed = handed /\ Summed' = handed' BY <1>2 DEF Summed
  <2> QED BY <2>1, <2>2 DEF CInv, SumKept
<1>5. NumbersKept'
  <2> SUFFICES ASSUME OnlyLoss
               PROVE  /\ ~stopped' /\ (pc' = "first" => Rising(frame_nr)')
                      /\ (pc' = "loop" => cur' > frame_nr)
    BY <1>2 DEF NumbersKept, OnlyLoss, Filled
  <2>1. Rising(frame_nr) BY DEF CInv, NumbersKept
  <2>2. pc' = "first" => Rising(frame_nr)'
    <3>1. pc' = "first" => ~cached BY DEF Begin
    <3> QED BY <1>2, <2>1, <3>1 DEF Rising
  <2>3. pc' = "loop" => cur' > frame_nr
    <3> SUFFICES ASSUME pc' = "loop" PROVE cur' > frame_nr OBVIOUS
    <3>1. cached /\ cur' = [slots EXCEPT ![0] = cache][0].frame BY DEF Begin
    <3>2. 0 \in Index BY NumPacketsAssumption DEF Index
    <3>3. [slots EXCEPT ![0] = cache][0] = cache BY <1>0, <3>2 DEF TypeOK
    <3> QED BY <2>1, <3>1, <3>3 DEF Rising
  <2> QED BY <2>2, <2>3
<1> QED BY <1>1, <1>3, <1>4, <1>5 DEF CInv

\* recv_into runs.
LEMMA CounterRuns == CInv /\ Running /\ UNCHANGED Faults => CInv'
<1> SUFFICES ASSUME CInv, Running, UNCHANGED Faults PROVE CInv' OBVIOUS
<1> USE NumPacketsAssumption DEF Running, progVars
<1>0. /\ GInv /\ TypeOK /\ SlotsFit /\ CallKept /\ LossKept /\ CounterTyped /\ SumKept /\ NumbersKept
      /\ OnlyLoss' = OnlyLoss
  BY DEF CInv, GInv, OnlyLoss
<1>1. GInv' BY <1>0, GrabberStep DEF Next
<1>2. TypeOK' BY <1>1 DEF GInv
<1>3. pc # "idle" /\ step = "recv" /\ step' = "recv" /\ Summed = handed
  BY <1>0 DEF FirstPacket, FirstFailed, Loop, NextPacket, NextFailed, CounterTyped, Summed
<1>4. pc' = "idle" => /\ ret' \in 0 .. NumPackets
                      /\ handed' = handed + Cardinality(received) /\ received' = received
  <2>1. CASE FirstPacket BY <2>1 DEF FirstPacket, Begin
  <2>2. CASE FirstFailed BY <1>3, <2>2 DEF FirstFailed, Return
  <2>3. CASE Loop BY <1>0, <1>3, <2>3 DEF Loop, Return, Missing, TypeOK
  <2>4. CASE NextPacket \/ NextFailed
    <3> SUFFICES ASSUME pc' = "idle"
                 PROVE  ret' = NumPackets - got /\ handed' = handed + Cardinality(received) /\ received' = received
      BY <1>0 DEF TypeOK
    <3>1. PICK p : \E real \in BOOLEAN : Judge(p, real) BY <2>4 DEF NextPacket, NextFailed
    <3>2. ~SameFrame(p) BY <3>1 DEF Judge
    <3> QED BY <3>1, <3>2 DEF Judge, Return, Missing
  <2> QED BY <2>1, <2>2, <2>3, <2>4
<1>5. pc' # "idle" => handed' = handed
  <2>1. CASE FirstPacket BY <2>1 DEF FirstPacket
  <2>2. CASE FirstFailed BY <2>2 DEF FirstFailed, Return
  <2>3. CASE Loop BY <2>3 DEF Loop, Return
  <2>4. CASE NextPacket \/ NextFailed BY <2>4 DEF NextPacket, NextFailed, Judge, Return
  <2> QED BY <2>1, <2>2, <2>3, <2>4
<1>6. CounterTyped' BY <1>0, <1>3, <1>4 DEF CounterTyped
<1>7. SumKept'
  <2>1. Summed' = handed
    <3>1. CASE pc' # "idle" BY <1>3, <1>5, <3>1 DEF Summed
    <3>2. CASE pc' = "idle"
      <4> PICK n : n = Cardinality(received) OBVIOUS
      <4>1. n \in Nat BY <1>0, Counted DEF TypeOK
      <4>2. Summed' = handed' - Cardinality(received') BY <1>3, <3>2 DEF Summed
      <4>3. handed' = handed + n /\ received' = received BY <1>4, <3>2
      <4>4. Cardinality(received') = n BY <4>3
      <4>5. Summed' = handed' - n BY <4>2, <4>4
      <4> QED BY <1>0, <4>1, <4>3, <4>5 DEF TypeOK
    <3> QED BY <3>1, <3>2
  <2>2. UNCHANGED <<frames_received, total_missing_packets>> OBVIOUS
  <2> QED BY <1>0, <1>3, <2>1, <2>2 DEF SumKept
<1>8. NumbersKept'
  <2> SUFFICES ASSUME OnlyLoss
               PROVE  /\ ~stopped' /\ (pc' = "first" => Rising(frame_nr)')
                      /\ (Filled' => cur' > frame_nr)
                      /\ (pc' = "idle" => slots'[0].frame > frame_nr /\ Rising(slots[0].frame)')
    BY <1>0, <1>3 DEF NumbersKept
  <2>0. ~stopped /\ frame_nr \in Int BY <1>0 DEF NumbersKept, CounterTyped
  <2>1. Short = {} /\ LeftBehind(got) = {} BY DEF OnlyLoss, Short, LeftBehind
  <2>2. CASE FirstPacket
    <3>1. PICK p \in Sent : ReceivePacket(p) /\ Begin([slots EXCEPT ![0] = p], {0})
      BY <2>2 DEF FirstPacket
    <3>2. Follows(p, last) BY <3>1 DEF ReceivePacket, Arriving, OnlyLoss
    <3>3. p.frame > frame_nr
      BY <1>0, <2>2, <3>2 DEF FirstPacket, NumbersKept, Rising, CallKept
    <3>4. 0 \in Index BY DEF Index
    <3>5. cur' = p.frame BY <1>0, <3>1, <3>4 DEF Begin, TypeOK
    <3>6. pc' = "loop" /\ stopped' = stopped BY <2>2, <3>1 DEF Begin, FirstPacket
    <3> QED BY <2>0, <3>3, <3>5, <3>6
  <2>3. CASE FirstFailed
    <3> USE <2>3 DEF FirstFailed
    <3>1. pc' = "first" /\ UNCHANGED <<stopped, cached, cache, last>> BY <2>0
    <3> QED BY <1>0, <2>0, <3>1 DEF NumbersKept, Rising, Filled
  <2>4. CASE Loop \/ NextPacket
    <3>1. Filled /\ cur > frame_nr /\ stopped' = stopped /\ pc' # "first" /\ ~cached /\ cur' = cur
      BY <1>0, <2>4 DEF Loop, NextPacket, Judge, Return, NumbersKept, Filled, CallKept
    <3>2. /\ got \in 1 .. NumPackets /\ 0 \in 0 .. got - 1 /\ got - 1 \in 0 .. got - 1
          /\ slots[got - 1] = last /\ last \in Packet /\ last.frame = cur
      BY <1>0, <3>1 DEF CallKept, TypeOK, SlotsFit, LossKept, Filled
    <3>3. slots[0].frame = cur BY <1>0, <3>1, <3>2 DEF SlotsFit, Filled
    <3>4. ASSUME pc' = "idle" PROVE slots'[0].frame = cur /\ Rising(cur)'
      <4>1. CASE Loop
        <5>1. got = NumPackets /\ UNCHANGED <<cached, last, slots>>
          BY <2>0, <3>2, <3>4, <4>1 DEF Loop, Incomplete
        <5>2. 0 <= Gap(got - 1) BY <1>0, <3>1, <3>2 DEF LossKept, Filled
        <5>3. last.num >= NumPackets - 1
          BY <3>2, <5>1, <5>2 DEF Gap, Packet, Index
        <5>4. \A p \in Sent : Follows(p, last) => p.frame > cur
          BY <3>2, <5>3, MaxFrameAssumption DEF Follows, Sent, Packet, Index
        <5> QED BY <3>1, <3>3, <5>1, <5>4 DEF Rising
      <4>2. CASE NextPacket
        <5>1. PICK p \in Sent : ReceivePacket(p) /\ Judge(p, TRUE) BY <4>2 DEF NextPacket
        <5>2. ~SameFrame(p) BY <3>4, <5>1 DEF Judge
        <5>3. cached' = TRUE /\ cache' = p /\ slots' = [slots EXCEPT ![got] = Zero]
          BY <5>1, <5>2 DEF Judge, Keep
        <5>4. Follows(p, last) BY <5>1 DEF ReceivePacket, Arriving, OnlyLoss
        <5>5. p.frame > cur
          BY <3>2, <5>2, <5>4, MaxFrameAssumption DEF Follows, SameFrame, Sent, Packet, Index
        <5>6. slots'[0] = slots[0]
          BY <1>0, <3>2, <5>3 DEF TypeOK, Index
        <5> QED BY <3>1, <3>3, <5>3, <5>5, <5>6 DEF Rising
      <4> QED BY <2>4, <4>1, <4>2
    <3>5. pc' = "idle" => Rising(slots[0].frame)' BY <3>1, <3>4 DEF Rising
    <3> QED BY <2>0, <3>1, <3>4, <3>5
  <2>5. CASE NextFailed BY <2>1, <2>5 DEF NextFailed
  <2> QED BY <2>2, <2>3, <2>4, <2>5
<1> QED BY <1>1, <1>6, <1>7, <1>8 DEF CInv

\* The program adds up what recv_into returned.
LEMMA CounterReports == CInv /\ Report /\ UNCHANGED Faults => CInv' /\ (OnlyLoss => frame_nr' > frame_nr)
<1> SUFFICES ASSUME CInv, Report, UNCHANGED Faults
             PROVE  CInv' /\ (OnlyLoss => frame_nr' > frame_nr) OBVIOUS
<1> USE NumPacketsAssumption DEF Report
<1>0. /\ TypeOK /\ LossKept /\ MissingNearlyRight /\ CounterTyped /\ SumKept /\ NumbersKept
      /\ OnlyLoss' = OnlyLoss /\ UNCHANGED vars
  BY DEF CInv, GInv, OnlyLoss
<1>1. GInv' BY CounterGrabs DEF CInv, CounterNext
<1>2. ret \in 0 .. NumPackets /\ Returned BY <1>0 DEF CounterTyped, TypeOK, Returned
<1>3. 0 \in Index BY DEF Index
<1>4. slots[0].frame \in Int BY <1>0, <1>3 DEF TypeOK, Packet, Unread
<1>5. UNCHANGED <<pc, ret, received, handed, stopped, cached, cache, last, slots>>
  BY <1>0 DEF vars, call
<1>6. CounterTyped' BY <1>0, <1>2, <1>4, <1>5 DEF CounterTyped, MissingTotal, FrameNumber
<1>7. SumKept'
  <2> PICK n : n = Cardinality(received) OBVIOUS
  <2> PICK k : k = frames_received * NumPackets OBVIOUS
  <2>1. n \in Nat /\ k \in Int /\ frames_received \in Nat /\ handed \in Nat /\ total_missing_packets \in Nat
    BY <1>0, Counted DEF TypeOK, CounterTyped
  <2>2. (frames_received + 1) * NumPackets = k + NumPackets BY <2>1
  <2>3. ret <= NumPackets - n /\ NumPackets - n <= ret + (IF OnlyLoss THEN 0 ELSE 2)
    BY <1>0, <1>2, <2>1 DEF MissingNearlyRight, LossKept
  <2>4. /\ total_missing_packets <= k - (handed - n)
        /\ k - (handed - n) <= total_missing_packets + (IF OnlyLoss THEN 0 ELSE 2 * frames_received)
    BY <1>0 DEF SumKept, Summed
  <2>5. /\ total_missing_packets' = total_missing_packets + ret /\ Summed' = handed
        /\ frames_received' = frames_received + 1
    BY <1>5 DEF MissingTotal, Summed
  <2>6. /\ total_missing_packets' <= (k + NumPackets) - handed
        /\ (k + NumPackets) - handed <= total_missing_packets' + (IF OnlyLoss THEN 0 ELSE 2 * (frames_received + 1))
    BY <1>2, <2>1, <2>3, <2>4, <2>5
  <2>7. frames_received' * NumPackets = k + NumPackets BY <2>2, <2>5
  <2>8. (frames_received * NumPackets - Summed)' = (k + NumPackets) - handed BY <2>5, <2>7, Zenon
  <2> HIDE DEF Report
  <2> QED BY <1>0, <2>5, <2>6, <2>8 DEF SumKept
<1>8. OnlyLoss => slots[0].frame > frame_nr /\ Rising(slots[0].frame) BY <1>0 DEF NumbersKept
<1>9. NumbersKept'
  <2>1. OnlyLoss => Rising(frame_nr)' BY <1>5, <1>8 DEF Rising, FrameNumber
  <2>2. ~Filled' BY <1>5 DEF Filled
  <2> QED BY <1>0, <1>5, <2>1, <2>2 DEF NumbersKept
<1> QED BY <1>1, <1>6, <1>7, <1>8, <1>9 DEF CInv, FrameNumber

LEMMA CounterStep == CInv /\ [CounterNext]_<<vars, progVars>> => CInv'
<1> SUFFICES ASSUME CInv, [CounterNext]_<<vars, progVars>> PROVE CInv' OBVIOUS
<1>1. CASE Summary \/ UNCHANGED <<vars, progVars>>
  <2>1. GInv' BY CounterGrabs DEF CInv
  <2>2. /\ UNCHANGED <<vars, frames_received, total_missing_packets, frame_nr>>
        /\ UNCHANGED step \/ (step = "loop" /\ step' = "done")
    BY <1>1 DEF Summary, progVars
  <2>3. CounterTyped' /\ SumKept'
    BY <2>2 DEF CInv, CounterTyped, SumKept, Summed, OnlyLoss, vars, call
  <2>4. NumbersKept' BY <2>2 DEF CInv, NumbersKept, Rising, Filled, OnlyLoss, vars, call
  <2> QED BY <2>1, <2>3, <2>4 DEF CInv
<1> QED BY <1>1, CounterCalls, CounterRuns, CounterReports DEF CounterNext
(***************************************************************************)
(* The theorems about FrameCounter.                                        *)
(***************************************************************************)
\* CInv is an invariant.
THEOREM CounterInvariance == CounterSpec => []CInv
BY CounterStart, CounterStep, PTL DEF CounterSpec

\* The sum the program prints is exact as long as packets only get lost, and
\* never off by more than two packets for each frame.
THEOREM SumsUp == CounterSpec => []SumTrue
<1>1. CInv => SumTrue BY DEF CInv, SumKept, SumTrue, Summed, OnlyLoss
<1> QED BY <1>1, CounterInvariance, PTL

\* No frame is reported twice or after a later one, as long as packets only
\* get lost.
THEOREM FramesRise == CounterSpec => NumbersIncrease
<1>1. CInv /\ [CounterNext]_<<vars, progVars>>
         => [Report /\ Faults \subseteq {"loss"} => frame_nr' > frame_nr]_<<vars, progVars>>
  <2> SUFFICES ASSUME CInv, [CounterNext]_<<vars, progVars>>, Report, Faults \subseteq {"loss"},
                      ~UNCHANGED <<vars, progVars>>
               PROVE  frame_nr' > frame_nr
    OBVIOUS
  <2>1. UNCHANGED Faults BY DEF CounterNext
  <2> QED BY <2>1, CounterReports DEF OnlyLoss
<1> QED BY <1>1, CounterInvariance, PTL DEF CounterSpec, NumbersIncrease
=============================================================================
