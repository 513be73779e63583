------------------------------- MODULE RecvInto -------------------------------
(***************************************************************************)
(* FrameGrabber::recv_into as its caller sees it: which frame a call ends  *)
(* up with, whether packets of it are missing, which frame it has begun to *)
(* read ahead, and what a stop does to it.  The packets of a frame after   *)
(* the first are not told apart.                                           *)
(*                                                                         *)
(* A grabber is a record, and Steps(g) is the set of records one step of   *)
(* recv_into, or of the network, leads to.  FrameGrabber implements it;    *)
(* UdpReceiver makes its calls to it.                                      *)
(***************************************************************************)
EXTENDS Integers

CONSTANTS MaxFrame,   \* the bound on frame numbers
          Faults      \* what may go wrong on the way to the socket

None == -1

Grabber == [pc : {"idle", "first", "fill"},
            stopped : BOOLEAN,            \* stopped_
            cached : None .. MaxFrame,    \* the frame of packet_buffer, None when not cached
            cur : 0 .. MaxFrame,          \* currentFrameNumber
            lost : BOOLEAN,               \* the call returned missing packets
            seen : 0 .. MaxFrame,         \* the latest frame a packet was received of
            tail : {"none", "left", "begun"}]

New == [pc |-> "idle", stopped |-> FALSE, cached |-> None, cur |-> 0,
        lost |-> TRUE, seen |-> 0, tail |-> "none"]

\* A call given up leaves packets behind, which the next call may begin with.
\* Where nothing else goes wrong, only those make a frame incomplete.
Silent == "timeout" \in Faults \/ "short" \in Faults
Messy  == Silent \/ "disorder" \in Faults

\* The later frames the next packet may belong to.
Later(seen) == IF Faults = {} THEN {seen + 1} \cap (1 .. MaxFrame) ELSE seen + 1 .. MaxFrame

Arriving(g) ==
    IF "disorder" \in Faults THEN 1 .. MaxFrame
    ELSE Later(g.seen) \cup (IF g.tail = "left" THEN {g.seen} ELSE {})

Newest(a, b) == IF a < b THEN b ELSE a

\* first_packet_cached = false
Remembered(cached) == cached
Forgotten(cached) == None

\* recv_into is called: stopped_ is reset, whoever set it.
Enter(g) ==
    {[g EXCEPT !.stopped = FALSE, !.cached = Forgotten(@), !.lost = TRUE,
               !.pc = IF g.cached = None THEN "first" ELSE "fill",
               !.cur = IF g.cached = None THEN g.cur ELSE g.cached] : x \in {g.pc} \cap {"idle"}}

\* The first packet arrives, of frame f.
FirstPacket(g) ==
    {[g EXCEPT !.pc = "fill", !.cur = f, !.seen = Newest(g.seen, f),
               !.tail = IF Faults = {} /\ f = g.seen THEN "begun" ELSE "none"] :
        f \in IF g.pc = "first" THEN Arriving(g) ELSE {}}

\* No packet comes, and the wait for the first one ends when stopped_ is set.
FirstStopped(g) ==
    IF g.pc = "first" /\ g.stopped THEN {[g EXCEPT !.pc = "idle"]} ELSE {}

\* The call returns a frame with nothing missing.
Whole(g) ==
    {[g EXCEPT !.pc = "idle", !.lost = FALSE, !.tail = t] :
        t \in IF g.pc # "fill" THEN {} ELSE IF Messy THEN {"none", "left"} ELSE {"none"}}

\* A packet of another frame ends the call and is kept.
Cut(g) ==
    {[g EXCEPT !.pc = "idle", !.cached = f, !.seen = Newest(g.seen, f), !.tail = "none"] :
        f \in IF g.pc = "fill" /\ (Faults # {} \/ g.tail = "begun")
              THEN (IF Messy THEN 0 .. MaxFrame ELSE Later(g.seen)) ELSE {}}

\* The loop ends because stopped_ is set.
GivenUp(g) ==
    {[g EXCEPT !.pc = "idle", !.tail = t] :
        t \in IF g.pc = "fill" /\ g.stopped THEN {"none", "left"} ELSE {}}

\* A timeout or a short datagram sets stopped_; what lies in the slot is
\* judged like a packet, of this frame or of another.
Failed(g) ==
    IF g.pc = "fill" /\ Silent
    THEN {[g EXCEPT !.stopped = TRUE],
          [g EXCEPT !.seen = Newest(g.seen, g.cur)]}
         \cup {[g EXCEPT !.stopped = TRUE, !.pc = "idle", !.cached = f, !.tail = "none"] :
                  f \in 0 .. MaxFrame}
    ELSE {}

Steps(g) == FirstPacket(g) \cup FirstStopped(g) \cup Whole(g) \cup Cut(g) \cup GivenUp(g) \cup Failed(g)

\* request_stop().
RequestStop(g) == [g EXCEPT !.stopped = TRUE]
=============================================================================
