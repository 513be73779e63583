----------------------------- MODULE FrameGrabber -----------------------------
(***************************************************************************)
(* FrameGrabber::recv_into, which collects the packets of one frame from   *)
(* the UDP socket, over UdpSocket::receivePacket and what the network may  *)
(* do to the packets.                                                      *)
(*                                                                         *)
(* The detector sends the frames 1 .. MaxFrame in order, each as the       *)
(* packets 0 .. NumPackets - 1.  A packet is its header: frame number and  *)
(* packet number.  The caller hands in a frame whose memory may hold       *)
(* anything: RawFrameData is not initialised, and frames are used again.   *)
(*                                                                         *)
(* request_stop() comes from another thread at any moment.  Every other    *)
(* variable is private to the receiving thread, so a step runs from one    *)
(* read of stopped_ or call of recvfrom to the next.                       *)
(***************************************************************************)
EXTENDS Integers, FiniteSets

CONSTANTS NumPackets,   \* RawFrameType::num_packets
          MaxFrame,     \* the bound on frame numbers: how many frames are sent
          MaxTaken,     \* the bound on how many packets the socket delivers
          Networks      \* for each network to look at, what may go wrong on it

ASSUME NumPacketsAssumption == NumPackets \in Nat /\ NumPackets >= 1
ASSUME MaxFrameAssumption == MaxFrame \in Nat /\ MaxFrame >= 1
ASSUME MaxTakenAssumption == MaxTaken \in Nat
ASSUME NetworksAssumption == Networks \subseteq SUBSET {"loss", "disorder", "timeout", "short"}

VARIABLES stopped,   \* stopped_
          cache,     \* packet_buffer while it is cached, which is when it is read
          cached,    \* first_packet_cached
          slots,     \* the packets of the frame being filled
          cur,       \* currentFrameNumber
          got,       \* numPacketsReceived; dst points to slots[got]
          pc,        \* "idle" outside recv_into, "first", "loop" or "recv" in it
          ret,       \* what recv_into returned, -1 during a call
          Faults,    \* what may go wrong on the network, which stays the same
          last,      \* the packet the socket delivered last
          (* What really happened, which the code does not record. *)
          received,  \* the slots this call filled with a packet from the socket
          cacheReal, \* packet_buffer came from the socket
          taken,     \* packets the socket has delivered, over all calls
          handed     \* those of them that are in a frame already returned

call == <<cur, got, pc, ret>>
vars == <<stopped, cache, cached, slots, call, Faults, last, received, cacheReal, taken, handed>>

Index  == 0 .. NumPackets - 1
Packet == [frame : 0 .. MaxFrame, num : Index]
Zero   == [frame |-> 0, num |-> 0]

\* Memory may hold any frame number.  Which one is settled when it is read.
Unread == [frame |-> -1, num |-> 0]
Memory == [i \in Index |-> Unread]

Sent == [frame : 1 .. MaxFrame, num : Index]

Follows(p, q) == q.frame < p.frame \/ (q.frame = p.frame /\ q.num < p.num)

\* The packets recvfrom may deliver next: those sent after the last one, the
\* very next unless packets get lost, and late or repeated ones with disorder.
Arriving ==
    LET ahead == {p \in Sent : Follows(p, last)}
        due   == {p \in ahead : "loss" \in Faults \/ \A q \in ahead : p = q \/ Follows(q, p)}
    IN  IF taken = MaxTaken THEN {}
        ELSE due \cup (IF "disorder" \in Faults THEN Sent \ ahead ELSE {})

\* receivePacket returns true: a whole packet p is in the slot.
ReceivePacket(p) ==
    /\ p \in Arriving
    /\ last' = (IF Follows(p, last) THEN p ELSE last)
    /\ taken' = taken + 1

\* What slot i holds when it is read without a packet having been written there.
Held(i) == IF slots[i] = Unread THEN [frame : 0 .. MaxFrame, num : {i}] ELSE {slots[i]}

\* receivePacket returns false, and this is what the slot may hold then: after
\* a datagram of another size that datagram's start, after a timeout what it
\* held before.
Short == IF "short" \in Faults THEN Sent ELSE {}
LeftBehind(i) == (IF "timeout" \in Faults THEN Held(i) ELSE {}) \cup Short
-----------------------------------------------------------------------------
Init == /\ Faults \in Networks
        /\ stopped = FALSE /\ cached = FALSE
        /\ cache = Zero
        /\ slots = Memory
        /\ cur = 0 /\ got = 0 /\ pc = "idle" /\ ret = -1
        /\ last = Zero
        /\ received = {} /\ cacheReal = FALSE /\ taken = 0 /\ handed = 0

\* request_stop(), from another thread.
RequestStop == /\ ~stopped
               /\ stopped' = TRUE
               /\ UNCHANGED <<cache, cached, slots, call, last, received, cacheReal, taken, handed>>

\* The first packet is in slot 0 of s; "fresh" are the slots of s that came
\* from the socket.
Begin(s, fresh) ==
    /\ slots' = s /\ received' = fresh
    /\ cur' = s[0].frame /\ got' = 1 /\ pc' = "loop" /\ ret' = -1

\* recv_into(frame) is called with a frame that holds memory.  A packet left
\* over from the last call is its first one.
CallWith(memory) ==
    /\ pc = "idle"
    /\ stopped' = FALSE
    /\ cached' = FALSE /\ cacheReal' = FALSE
    /\ \/ /\ cached
          /\ Begin([memory EXCEPT ![0] = cache], IF cacheReal THEN {0} ELSE {})
       \/ /\ ~cached
          /\ slots' = memory /\ received' = {} /\ pc' = "first" /\ got' = 0 /\ ret' = -1
          /\ UNCHANGED cur
    /\ cache' = Zero
    /\ UNCHANGED <<last, taken, handed>>

\* It is called with the frame of the last call again, or with one whose
\* memory holds anything.
Call == \E memory \in {Memory, slots} : CallWith(memory)

Return(missing) == pc' = "idle" /\ ret' = missing /\ handed' = handed + Cardinality(received)

\* The loop that waits for the first packet gets it.
FirstPacket ==
    /\ pc = "first"
    /\ \E p \in Sent : ReceivePacket(p) /\ Begin([slots EXCEPT ![0] = p], {0})
    /\ UNCHANGED <<stopped, cache, cached, cacheReal, handed>>

\* It does not, for between two frames the sender may be silent for as long
\* as it likes: the loop tries again, or gives up when asked to stop.
FirstFailedUnheard ==
    /\ pc = "first"
    /\ \E p \in {slots[0]} \cup Short : slots' = [slots EXCEPT ![0] = p]
    /\ UNCHANGED <<pc, ret, handed, stopped, cache, cached, cur, got, last, received, cacheReal, taken>>
FirstFailed ==
    /\ pc = "first"
    /\ \E p \in {slots[0]} \cup Short : slots' = [slots EXCEPT ![0] = p]
    /\ IF stopped THEN Return(NumPackets) ELSE UNCHANGED <<pc, ret, handed>>
    /\ UNCHANGED <<stopped, cache, cached, cur, got, last, received, cacheReal, taken>>

\* The count of packets is below the number a frame has.
IncompleteOneMore == got <= NumPackets
Incomplete == got < NumPackets

\* What recv_into computes to return.
Missing == NumPackets - got

\* The head of the loop over the other packets, left when the frame is full
\* or stopped_ is set.
Loop ==
    /\ pc = "loop"
    /\ IF Incomplete /\ ~stopped THEN pc' = "recv" /\ UNCHANGED <<ret, handed>>
                                 ELSE Return(Missing)
    /\ UNCHANGED <<stopped, cache, cached, slots, cur, got, last, received, cacheReal, taken>>

\* The packet p carries the number of the frame being filled.
SameFrameOrLater(p) == p.frame >= cur
SameFrame(p) == p.frame = cur

\* The packet p is kept for the next call.
KeepNothing(p, real) == UNCHANGED <<cache, cached, cacheReal>>
Keep(p, real) == cache' = p /\ cached' = TRUE /\ cacheReal' = real

\* The comparison after the attempt to receive, which is made of p, whatever
\* is in the slot: p belongs to this frame, or it is taken for the first
\* packet of the next one.  "real" says that p came from the socket.
Judge(p, real) ==
    IF SameFrame(p)
    THEN /\ slots' = [slots EXCEPT ![got] = p]
         /\ got' = got + 1 /\ pc' = "loop"
         /\ received' = IF real THEN received \cup {got} ELSE received
         /\ UNCHANGED <<cache, cached, cacheReal, ret, handed>>
    ELSE /\ Keep(p, real)
         /\ slots' = [slots EXCEPT ![got] = Zero]
         /\ Return(Missing)
         /\ UNCHANGED <<got, received>>

\* receivePacket succeeds for a further packet.
NextPacket ==
    /\ pc = "recv"
    /\ \E p \in Sent : ReceivePacket(p) /\ Judge(p, TRUE)
    /\ UNCHANGED <<stopped, cur>>

\* No more packets of this frame are expected.
GoOn == UNCHANGED stopped
GiveUp == stopped' = TRUE

\* It fails.  The break leaves the inner loop only, so what lies in the slot
\* is judged like a packet.
NextFailedRetries ==
    /\ pc = "recv"
    /\ \E p \in LeftBehind(got) : slots' = [slots EXCEPT ![got] = p]
    /\ UNCHANGED <<stopped, cache, cached, call, last, received, cacheReal, taken, handed>>
NextFailed ==
    /\ pc = "recv"
    /\ GiveUp
    /\ \E p \in LeftBehind(got) : Judge(p, FALSE)
    /\ UNCHANGED <<cur, last, taken>>

Next == /\ \/ RequestStop \/ Call \/ FirstPacket \/ FirstFailed
           \/ Loop \/ NextPacket \/ NextFailed
        /\ UNCHANGED Faults

Spec == Init /\ [][Next]_vars

(***************************************************************************)
(* recv_into runs on, and recvfrom returns: SO_RCVTIMEO is one second.     *)
(***************************************************************************)
FairSpec == /\ Spec
            /\ WF_vars((FirstPacket \/ FirstFailed) /\ UNCHANGED Faults)
            /\ WF_vars((Loop \/ NextPacket \/ NextFailed) /\ UNCHANGED Faults)
-----------------------------------------------------------------------------
(***************************************************************************)
(* Properties.                                                             *)
(***************************************************************************)
TypeOK ==
    /\ Faults \in Networks
    /\ stopped \in BOOLEAN /\ cached \in BOOLEAN /\ cacheReal \in BOOLEAN
    /\ cache \in Packet /\ slots \in [Index -> Packet \cup {Unread}] /\ last \in Packet
    /\ cur \in 0 .. MaxFrame /\ got \in 0 .. NumPackets
    /\ pc \in {"idle", "first", "loop", "recv"} /\ ret \in -1 .. NumPackets
    /\ received \in SUBSET Index
    /\ taken \in Nat /\ handed \in Nat

Returned == pc = "idle" /\ ret # -1

\* The write position never leaves the frame, and what is counted is there:
\* the slots before it carry the number of the frame.
SlotsFit ==
    /\ pc = "recv" => got < NumPackets
    /\ pc \in {"loop", "recv"} => \A i \in 0 .. got - 1 : slots[i].frame = cur
    /\ Returned /\ ret = 0 => \A i \in Index : slots[i].frame = slots[0].frame

\* Both at once: every variable has its type, and the frame holds what it should.
InFrame == TypeOK /\ SlotsFit

\* No packet the socket delivered vanishes: it is in a frame returned to the
\* caller, in the frame being filled, or kept for the next call.
NothingVanishes ==
    taken = handed + (IF pc = "idle" THEN 0 ELSE Cardinality(received))
                   + (IF cached /\ cacheReal THEN 1 ELSE 0)

\* The number of missing packets recv_into returns is never too high, and
\* at most two too low, whatever the network does.
MissingNearlyRight ==
    Returned => LET missing == NumPackets - Cardinality(received)
                IN  ret <= missing /\ missing <= ret + 2

\* As long as packets only get lost and the sender does not fall silent within
\* a frame, a frame with nothing missing holds each of its packets in its place.
CompleteIsWhole ==
    Faults \subseteq {"loss"} /\ Returned /\ ret = 0 =>
        \A i \in Index : slots[i] = [frame |-> slots[0].frame, num |-> i]

\* Where a sender may fall silent within a frame recv_into still returns, once
\* it has the first packet.
FrameEnds == "timeout" \in Faults /\ pc \in {"loop", "recv"} ~> pc = "idle"

\* There a stop requested while recv_into runs makes it return, even if no
\* packet ever comes.
StopIsHeard == "timeout" \in Faults /\ stopped /\ pc # "idle" ~> pc = "idle"
(***************************************************************************)
(* What UdpReceiver relies on: recv_into, packet by packet, does nothing   *)
(* that RecvInto does not allow.  Packets behind the last one received     *)
(* are left for the next call.                                             *)
(***************************************************************************)
R == INSTANCE RecvInto

Filling == pc \in {"loop", "recv"}

Rest == IF ~Filling /\ ~cached /\ last.frame # 0 /\ last.num # NumPackets - 1 THEN "left"
        ELSE IF Filling /\ Faults = {} /\ slots[0].num # 0 THEN "begun"
        ELSE "none"

AsSeen == [pc |-> IF Filling THEN "fill" ELSE pc, stopped |-> stopped,
           cached |-> IF cached THEN cache.frame ELSE R!None,
           cur |-> cur, lost |-> ret # 0, seen |-> last.frame, tail |-> Rest]

ImplementsRecvInto ==
    /\ AsSeen = R!New
    /\ [][AsSeen' \in R!Steps(AsSeen) \cup R!Enter(AsSeen) \cup {R!RequestStop(AsSeen)}]_AsSeen
-----------------------------------------------------------------------------
(***************************************************************************)
(* What a comment in the source says and the code does not do.             *)
(***************************************************************************)
\* "We timed out assume no more pkgs": every packet counted was received.
CountedWasReceived == Returned => NumPackets - ret <= Cardinality(received)
=============================================================================
