----------------------------- MODULE FrameCounter -----------------------------
(***************************************************************************)
(* The program of apps/counter.cpp: it calls recv_into with one and the    *)
(* same frame until it has as many frames as its argument asks for,        *)
(* reports the number of each and sums up what is missing.  Nobody stops   *)
(* it.                                                                     *)
(***************************************************************************)
EXTENDS FrameGrabber, Sequences

CONSTANTS Default,   \* n_frames without an argument
          MaxArg,    \* the bound on the argument
          SizeBits   \* the width of size_t

ASSUME DefaultAssumption == Default \in Nat
ASSUME MaxArgAssumption == MaxArg \in Nat
ASSUME SizeBitsAssumption == SizeBits \in Nat

VARIABLES argv, step, n_frames, frames_received, total_missing_packets,
          frame_nr   \* the number reported last, 0 before the first

progVars == <<argv, step, n_frames, frames_received, total_missing_packets, frame_nr>>

\* parse_args(): atoi() goes into a size_t.
SizeT(n) == n % 2 ^ SizeBits

CounterInit ==
    /\ Init
    /\ argv \in {<< >>, <<1, 1>>} \cup {<<n>> : n \in -1 .. MaxArg}
    /\ n_frames = (IF argv = << >> THEN Default ELSE SizeT(argv[1]))
    /\ step = (IF Len(argv) > 1 THEN "exit" ELSE "loop")
    /\ frames_received = 0 /\ total_missing_packets = 0 /\ frame_nr = 0

\* The condition of the loop, frameNumber() and the new sum.
MoreOrSame == frames_received <= n_frames
More == frames_received < n_frames
LastFrameNumber == slots[NumPackets - 1].frame
FrameNumber == slots[0].frame
MissingNow == ret
MissingTotal == total_missing_packets + ret

\* The head of the loop, and recv_into is called with the frame.
CallAgain ==
    /\ step = "loop" /\ More
    /\ CallWith(slots)
    /\ step' = "recv"
    /\ UNCHANGED <<argv, n_frames, frames_received, total_missing_packets, frame_nr>>

\* recv_into runs.
Running ==
    /\ FirstPacket \/ FirstFailed \/ Loop \/ NextPacket \/ NextFailed
    /\ UNCHANGED progVars

\* It has returned: frameNumber() is reported and the packets are added up.
Report ==
    /\ step = "recv" /\ pc = "idle"
    /\ frame_nr' = FrameNumber
    /\ frames_received' = frames_received + 1
    /\ total_missing_packets' = MissingTotal
    /\ step' = "loop"
    /\ UNCHANGED <<argv, n_frames, vars>>

\* The summary is printed and the program ends.
Summary ==
    /\ step = "loop" /\ ~More
    /\ step' = "done"
    /\ UNCHANGED <<argv, n_frames, frames_received, total_missing_packets, frame_nr, vars>>

CounterNext == (CallAgain \/ Running \/ Report \/ Summary) /\ UNCHANGED Faults

(***************************************************************************)
(* The program runs on, and recvfrom returns.                              *)
(***************************************************************************)
CounterSpec == /\ CounterInit /\ [][CounterNext]_<<vars, progVars>>
               /\ WF_<<vars, progVars>>(CounterNext)
-----------------------------------------------------------------------------
(***************************************************************************)
(* Properties.                                                             *)
(***************************************************************************)
\* As long as packets only get lost, no frame is reported twice and none
\* after a later one, although the frame and the cached packet are used again.
NumbersIncrease ==
    [][Report /\ Faults \subseteq {"loss"} => frame_nr' > frame_nr]_<<vars, progVars>>

\* What has been added up agrees with the packets the socket delivered: exactly
\* as long as packets only get lost, within two for each frame otherwise.
SumTrue ==
    step = "loop" =>
        LET missing == frames_received * NumPackets - handed
            off == IF Faults \subseteq {"loss"} THEN 0 ELSE 2 * frames_received
        IN  total_missing_packets <= missing /\ missing <= total_missing_packets + off

\* On a network without faults the program ends once the frames it was
\* asked for have been sent.
CounterEnds ==
    Faults = {} /\ argv \in {<<n>> : n \in 0 .. MaxFrame} ~> step = "done"
=============================================================================
