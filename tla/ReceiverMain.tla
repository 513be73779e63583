----------------------------- MODULE ReceiverMain -----------------------------
(***************************************************************************)
(* The whole of apps/receiver.cpp, on top of the threads of ReceiverApp:   *)
(* what fails before and while the threads are started, the key 's' with   *)
(* the counters it shows, and the mode of the terminal.                    *)
(*                                                                         *)
(* The receiving thread updates each counter of UdpReceiver by itself, and *)
(* main loads them in an order C++ leaves open, so that what main shows    *)
(* never was the state of the receiver at one moment.                      *)
(***************************************************************************)
EXTENDS ReceiverApp

CONSTANTS NumPackets,  \* RawFrameType::num_packets
          CountBits    \* the width of the counters

ASSUME OneReceiver == NumReceivers = 1
ASSUME NumPacketsAssumption == NumPackets \in Nat \ {0}
ASSUME CountBitsAssumption == CountBits \in Nat

VARIABLES counters,  \* complete_frames_, last_frame_, total_lost_packets_
          tally,     \* the next of them receivePackets updates after a recv_into
          stage,     \* where main is
          terminal,  \* "line" mode, or "direct" with no echo
          reading,   \* the counters main has yet to load for 's'
          shown,     \* what it shows
          before     \* how things were when 's' was pressed, which no code records

mainVars == <<counters, tally, stage, terminal, reading, shown, before>>

Counter == {"complete", "last", "lost"}
R == 1     \* the receiver r of main
Zeros == [c \in Counter |-> 0]

\* Buffers of the pool that were destroyed.
Gone == Cardinality(Buffer) - InPlace(R)

Now == [complete |-> counters["complete"], gone |-> Gone]
NoStatus == shown' = Zeros /\ before' = [complete |-> 0, gone |-> 0]

MainInit == /\ Init
            /\ counters = Zeros /\ tally = "lost"
            /\ stage = "begin" /\ terminal = "line"
            /\ reading = {} /\ shown = Zeros /\ before = [complete |-> 0, gone |-> 0]

Running == stage \in {"run", "status"}
At(here, next) == stage = here /\ stage' = next
(***************************************************************************)
(* main() before and after the threads.                                    *)
(***************************************************************************)
\* direct_input()
DirectInput == /\ At("begin", "construct")
               /\ terminal' = "direct"
               /\ UNCHANGED <<vars, counters, tally, reading, shown, before>>

\* UdpReceiver r and FrameAssembler a; the constructor of r may throw.
ConstructObjects == /\ At("construct", "run") \/ At("construct", "leave")
                    /\ UNCHANGED <<vars, counters, tally, terminal, reading, shown, before>>

\* start() throws for want of a thread, and a and r are destroyed.  When it
\* is a.start(), the thread of r runs, and that terminates the program.
StartThrows == /\ mpc = "start"
               /\ At("run", IF rpc[R] = "off" THEN "leave" ELSE "terminated")
               /\ UNCHANGED <<vars, counters, tally, terminal, reading, shown, before>>

\* The block is left after 'q', a and r are destroyed with no thread left.
LeaveBlock == /\ mpc = "exit" /\ At("run", "leave")
              /\ UNCHANGED <<vars, counters, tally, terminal, reading, shown, before>>

\* reset_terminal(), and main returns.
ResetTerminal == /\ At("leave", "over")
                 /\ terminal' = "line"
                 /\ UNCHANGED <<vars, counters, tally, reading, shown, before>>
(***************************************************************************)
(* The key 's'.                                                            *)
(***************************************************************************)
PressS == /\ mpc = "listen" /\ At("run", "status")
          /\ reading' = Counter /\ before' = Now
          /\ UNCHANGED <<vars, counters, tally, terminal, shown>>

\* complete_frames(), last_frame() and lost_packets(), in any order.
Load == /\ \E c \in reading : /\ shown' = [shown EXCEPT ![c] = counters[c]]
                              /\ reading' = reading \ {c}
        /\ UNCHANGED <<vars, counters, tally, stage, terminal, before>>

\* They are printed, and main waits for the next key.
ShowStatus == /\ reading = {} /\ At("status", "run")
              /\ NoStatus
              /\ UNCHANGED <<vars, counters, tally, terminal, reading>>
(***************************************************************************)
(* The counters.                                                           *)
(***************************************************************************)
Tallying(c, value, next) ==
    /\ Running /\ rpc[R] = "account" /\ tally = c
    /\ counters' = [counters EXCEPT ![c] = value % 2 ^ CountBits]
    /\ tally' = next
    /\ UNCHANGED <<vars, stage, terminal, reading, shown, before>>

\* total_lost_packets_ += missing_packets, one at least unless the frame is whole.
AddWholeOnly ==
    Tallying("lost", counters["lost"], IF grabber[R].lost THEN "done" ELSE "complete")
AddLost ==
    \E missing \in IF grabber[R].lost THEN 1 .. NumPackets ELSE {0} :
        Tallying("lost", counters["lost"] + missing,
                 IF grabber[R].lost THEN "done" ELSE "complete")

\* complete_frames_ += 1
AddComplete == Tallying("complete", counters["complete"] + 1, "last")

\* last_frame_ = raw_frame.frameNumber()
NoteNothing == Tallying("last", counters["last"], "done")
NoteLast == Tallying("last", content[R][raw[R]], "done")

\* The threads and main as in ReceiverApp, once the objects are constructed
\* and unless the program is terminated.
Receives == /\ Running /\ Receiving(R)
            /\ rpc[R] = "account" => tally = "done"
            /\ tally' = IF rpc[R] = "account" THEN "lost" ELSE tally
            /\ UNCHANGED <<counters, stage, terminal, reading, shown, before>>
Assembles == Running /\ Assembling /\ UNCHANGED mainVars
Mains     == stage = "run" /\ Main /\ UNCHANGED mainVars
PressQ    == stage = "run" /\ Quit /\ UNCHANGED <<network, mainVars>>

MainRuns == \/ DirectInput \/ ConstructObjects \/ LeaveBlock \/ ResetTerminal
            \/ Load \/ ShowStatus \/ Mains
ReceiverRuns == Receives \/ AddLost \/ AddComplete \/ NoteLast

MainNext == MainRuns \/ StartThrows \/ PressS \/ PressQ \/ ReceiverRuns \/ Assembles

(***************************************************************************)
(* Main and the threads run on; no key need be pressed.                    *)
(***************************************************************************)
MainSpec == /\ MainInit /\ [][MainNext]_<<vars, mainVars>>
            /\ WF_<<vars, mainVars>>(MainRuns)
            /\ WF_<<vars, mainVars>>(ReceiverRuns)
            /\ WF_<<vars, mainVars>>(Assembles)
-----------------------------------------------------------------------------
(***************************************************************************)
(* Properties.                                                             *)
(***************************************************************************)
\* When main returns no thread is left and the terminal is as it was before.
\* The one way to be terminated is a second start() that throws.
CleanEnd ==
    /\ stage = "over" => /\ terminal = "line"
                         /\ rpc[R] \in {"off", "done"} /\ apc \in {"off", "done"}
    /\ stage = "terminated" => rpc[R] # "off" /\ apc = "off"

\* Where frames come in order, 's' never shows more complete frames than fit
\* before the last frame it shows, but for the one that is being counted and
\* those completed while it was loading the counters.
StatusTrue ==
    network \subseteq {"loss"} /\ stage = "status" /\ reading = {} =>
        shown["complete"] <= shown["last"] + 1 + (counters["complete"] - before.complete)

\* A buffer leaves the pool of a running program only after lost_packets() has
\* grown, so that 's' shows at least as many lost packets as buffers were gone
\* when it was pressed.
LossIsShown ==
    /\ apc # "done" => Gone <= counters["lost"]
    /\ stage = "status" /\ reading = {} => before.gone <= shown["lost"]

\* 'q' ends the program, unless all buffers are destroyed, or the detector is
\* silent and the request to stop was lost.
Dry  == rpc[R] = "pop" /\ InPlace(R) = 0
Deaf == rpc[R] = "recv" /\ G!Steps(grabber[R]) = {}
QuitEndsOrStuck == mpc = "stop" ~> [](stage = "over") \/ []Dry \/ []Deaf
=============================================================================
