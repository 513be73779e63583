---------------------------- MODULE FrameAssembler ----------------------------
(***************************************************************************)
(* FrameAssembler::assemble, the thread that takes one frame from every    *)
(* fifo, drops frames until all have the same number, processes them and   *)
(* gives them back.                                                        *)
(***************************************************************************)
EXTENDS FrameFifos

VARIABLES asmStopped,  \* stopped of the FrameAssembler
          apc,         \* where the thread is in assemble()
          at,          \* the index i of its loops
          frames,      \* frames[i]: the buffer it owns
          numbers,     \* frame_numbers
          processed    \* the frames processed so far, which the code does not record

assemblerVars == <<asmStopped, apc, at, frames, numbers, processed>>

AssemblerInit ==
    /\ asmStopped = FALSE /\ apc = "off" /\ at = 1
    /\ frames = [r \in Receiver |-> NoBuffer]
    /\ numbers = [r \in Receiver |-> 0]
    /\ processed = {}

\* start() creates the thread.
StartAssembling ==
    /\ apc = "off" /\ apc' = "check"
    /\ UNCHANGED <<asmStopped, at, frames, numbers, processed, fifoVars>>

\* assemble() returns, and the frames it has in hand are destroyed.
Leave == /\ apc' = "done" /\ at' = 1
         /\ frames' = [r \in Receiver |-> NoBuffer]

\* The head of the loop.
CheckAsmStopped ==
    /\ apc = "check"
    /\ IF asmStopped THEN Leave ELSE apc' = "pop" /\ at' = 1 /\ UNCHANGED frames
    /\ UNCHANGED <<asmStopped, numbers, processed, fifoVars>>

\* pop_value(wait, stopped) finds a frame in the fifo at i.
TakeFrame ==
    /\ apc = "pop"
    /\ PopValue(at)
    /\ frames' = [frames EXCEPT ![at] = Head(filled[at])]
    /\ apc' = "popped"
    /\ UNCHANGED <<asmStopped, at, numbers, processed, free, content>>

\* It has found none, and stopped is set.  A frame may have come in between.
TakeNothingNever == FALSE
TakeNothing ==
    /\ apc = "pop" /\ asmStopped
    /\ apc' = "popped"
    /\ UNCHANGED <<asmStopped, at, frames, numbers, processed, fifoVars>>

\* What follows the pop: return if stopped, else on to the next fifo.
NoteNumber ==
    /\ apc = "popped"
    /\ IF asmStopped THEN Leave /\ UNCHANGED numbers
       ELSE /\ numbers' = [numbers EXCEPT ![at] = content[at][frames[at]]]
            /\ IF at = NumReceivers THEN apc' = "align" /\ at' = 1
                                    ELSE apc' = "pop" /\ at' = at + 1
            /\ UNCHANGED frames
    /\ UNCHANGED <<asmStopped, processed, fifoVars>>

AllCaughtUp == \A r \in Receiver : numbers[1] <= numbers[r]
AllEqual == \A r, s \in Receiver : numbers[r] = numbers[s]

\* min_element: the first of the lowest numbers.
HighestAt == CHOOSE r \in Receiver : \A s \in Receiver :
                numbers[r] > numbers[s] \/ (numbers[r] = numbers[s] /\ r <= s)
LowestAt == CHOOSE r \in Receiver : \A s \in Receiver :
                numbers[r] < numbers[s] \/ (numbers[r] = numbers[s] /\ r <= s)

\* The numbers differ: the lowest frame is given back unused.
DropLowest ==
    /\ apc = "align" /\ ~AllEqual
    /\ PushFree(LowestAt, frames[LowestAt])
    /\ frames' = [frames EXCEPT ![LowestAt] = Moved(@)]
    /\ at' = LowestAt /\ apc' = "repop"
    /\ UNCHANGED <<asmStopped, numbers, processed, filled, content>>

\* pop_value() gets another one in its place, after as long a spin as it takes.
TakeAnother ==
    /\ apc = "repop"
    /\ PopValue(at)
    /\ frames' = [frames EXCEPT ![at] = Head(filled[at])]
    /\ numbers' = [numbers EXCEPT ![at] = content[at][Head(filled[at])]]
    /\ apc' = "align" /\ at' = 1
    /\ UNCHANGED <<asmStopped, processed, free, content>>

\* All numbers are equal: the frame gets processed.
BeginFrame ==
    /\ apc = "align" /\ AllEqual
    /\ processed' = processed \cup {numbers[1]}
    /\ apc' = "process" /\ at' = 1
    /\ UNCHANGED <<asmStopped, frames, numbers, fifoVars>>

\* The part from the fifo at i is assembled and given back.
ProcessPart ==
    /\ apc = "process"
    /\ PushFree(at, frames[at])
    /\ frames' = [frames EXCEPT ![at] = Moved(@)]
    /\ IF at = NumReceivers THEN apc' = "check" /\ at' = 1
                            ELSE at' = at + 1 /\ UNCHANGED apc
    /\ UNCHANGED <<asmStopped, numbers, processed, filled, content>>

Assemble == \/ CheckAsmStopped \/ TakeFrame \/ TakeNothing \/ NoteNumber
            \/ DropLowest \/ TakeAnother \/ BeginFrame \/ ProcessPart

\* stop(), up to the join, which waits for apc = "done".
SetAsmStopped ==
    /\ asmStopped' = TRUE
    /\ UNCHANGED <<apc, at, frames, numbers, processed, fifoVars>>
=============================================================================
