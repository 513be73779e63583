------------------------------ MODULE ReceiverApp ------------------------------
(***************************************************************************)
(* The program of apps/receiver.cpp: main starts the receivers and the     *)
(* assembler, listens for 'q', and stops them one after the other.  With   *)
(* NumReceivers = 1 it is that program; with more, the assembler has the   *)
(* fifos of several receivers (FrameAssembler::push_back), as the comment  *)
(* in main intends, and main stops each of them in turn.                   *)
(***************************************************************************)
EXTENDS UdpReceiver, FrameAssembler

VARIABLES mpc,   \* where main is
          mat    \* the receiver main starts or stops

vars == <<network, fifoVars, receiverVars, assemblerVars, mpc, mat>>

Init == /\ FifoInit /\ ReceiverInit /\ AssemblerInit
        /\ mpc = "start" /\ mat = 1

\* r.start()
MainStartsReceiver ==
    /\ mpc = "start" /\ mat <= NumReceivers
    /\ StartReceiving(mat)
    /\ mat' = mat + 1
    /\ UNCHANGED <<assemblerVars, mpc>>

\* a.start()
MainStartsAssembler ==
    /\ mpc = "start" /\ mat > NumReceivers
    /\ StartAssembling
    /\ mpc' = "listen" /\ mat' = 1
    /\ UNCHANGED receiverVars

\* The user presses 'q'.
Quit ==
    /\ mpc = "listen"
    /\ mpc' = "stop"
    /\ UNCHANGED <<fifoVars, receiverVars, assemblerVars, mat>>

\* r.stop(): stopped = true, request_stop(), join().
MainStopsReceiver ==
    /\ mpc = "stop"
    /\ SetStopped(mat)
    /\ mpc' = "request"
    /\ UNCHANGED <<assemblerVars, mat>>

MainRequestsStop ==
    /\ mpc = "request"
    /\ RequestStop(mat)
    /\ mpc' = "join"
    /\ UNCHANGED <<assemblerVars, mat>>

MainJoinsReceiver ==
    /\ mpc = "join" /\ rpc[mat] = "done"
    /\ IF mat = NumReceivers THEN mpc' = "stopAssembler" /\ mat' = 1
                             ELSE mpc' = "stop" /\ mat' = mat + 1
    /\ UNCHANGED <<fifoVars, receiverVars, assemblerVars>>

\* a.stop(): stopped = true, join().
MainStopsAssembler ==
    /\ mpc = "stopAssembler"
    /\ SetAsmStopped
    /\ mpc' = "joinAssembler"
    /\ UNCHANGED <<receiverVars, mat>>

MainLeavesAssembler ==
    /\ mpc = "joinAssembler"
    /\ mpc' = "exit"
    /\ UNCHANGED <<fifoVars, receiverVars, assemblerVars, mat>>
MainJoinsAssembler ==
    /\ mpc = "joinAssembler" /\ apc = "done"
    /\ mpc' = "exit"
    /\ UNCHANGED <<fifoVars, receiverVars, assemblerVars, mat>>

Main == /\ \/ MainStartsReceiver \/ MainStartsAssembler
           \/ MainStopsReceiver \/ MainRequestsStop \/ MainJoinsReceiver
           \/ MainStopsAssembler \/ MainJoinsAssembler
        /\ UNCHANGED network

Receiving(r) == (Receive(r) \/ SendOn(r)) /\ UNCHANGED <<network, assemblerVars, mpc, mat>>
Assembling == Assemble /\ UNCHANGED <<network, receiverVars, mpc, mat>>

Next == Main \/ (Quit /\ UNCHANGED network) \/ Assembling \/ \E r \in Receiver : Receiving(r)

Spec == Init /\ [][Next]_vars

(***************************************************************************)
(* The threads are scheduled, and packets that are sent get received.      *)
(* Nobody has to press 'q'.                                                *)
(***************************************************************************)
FairSpec == /\ Spec
            /\ WF_vars(Main) /\ WF_vars(Assembling)
            /\ \A r \in Receiver : WF_vars(Receiving(r))
-----------------------------------------------------------------------------
(***************************************************************************)
(* Properties.                                                             *)
(***************************************************************************)
TypeOK ==
    /\ free \in [Receiver -> Seq(Buffer)] /\ filled \in [Receiver -> Seq(Buffer)]
    /\ content \in [Receiver -> [Buffer -> 0 .. MaxFrame]]
    /\ stopped \in [Receiver -> BOOLEAN] /\ grabber \in [Receiver -> G!Grabber]
    /\ rpc \in [Receiver -> {"off", "check", "pop", "call", "recv", "account", "push", "done"}]
    /\ raw \in [Receiver -> Buffer \cup {NoBuffer}]
    /\ delivered \in [Receiver -> SUBSET (0 .. MaxFrame)]
    /\ asmStopped \in BOOLEAN /\ at \in Receiver
    /\ apc \in {"off", "check", "pop", "popped", "align", "repop", "process", "done"}
    /\ frames \in [Receiver -> Buffer \cup {NoBuffer}]
    /\ numbers \in [Receiver -> 0 .. MaxFrame]
    /\ processed \in SUBSET (0 .. MaxFrame)
    /\ mpc \in {"start", "listen", "stop", "request", "join", "stopAssembler", "joinAssembler", "exit"}
    /\ mat \in 1 .. (IF mpc = "start" THEN NumReceivers + 1 ELSE NumReceivers)

\* Every place a buffer of receiver r can be in.
Places(r) == free[r] \o filled[r] \o <<raw[r]>> \o <<frames[r]>>
InPlace(r) == Cardinality({i \in DOMAIN Places(r) : Places(r)[i] # NoBuffer})

\* The receiving thread never writes to memory that the assembling thread
\* reads or that waits in a queue: a buffer has one owner at a time.
OneOwner ==
    \A r \in Receiver : LET p == Places(r) IN
        \A i, j \in DOMAIN p : p[i] = p[j] => i = j \/ p[i] = NoBuffer

\* Both at once: every variable has its type, every buffer one owner.
Owned == TypeOK /\ OneOwner

\* push_value and push_free never find the queue full, so their loops never spin.
PushesFit ==
    /\ \A r \in Receiver : rpc[r] = "push" => Len(filled[r]) < FifoSize - 1
    /\ \A r \in Receiver : frames[r] # NoBuffer => Len(free[r]) < FifoSize - 1

\* The parts of a frame that get processed all have the same number, and
\* memory still holds what it held when the numbers were compared.
Aligned ==
    apc = "process" => \A r \in at .. NumReceivers :
        content[r][frames[r]] = numbers[1]

InHand(r, f) == \/ \E i \in DOMAIN filled[r] : content[r][filled[r][i]] = f
                \/ frames[r] # NoBuffer /\ content[r][frames[r]] = f

\* The assembler drops no frame that all receivers deliver: it is processed,
\* or every part of it is still to be had.
NoMatchLost ==
    \A f \in 1 .. MaxFrame :
        (\A r \in Receiver : f \in delivered[r])
            => \/ f \in processed \/ apc = "done"
               \/ \A r \in Receiver : InHand(r, f)

\* Frames are processed in the order of their numbers, none twice.
InOrder ==
    [][BeginFrame => \A f \in processed : f < numbers[1]]_vars

\* A frame that all receivers deliver gets processed, unless the user quits.
MatchProcessed ==
    \A f \in 1 .. MaxFrame :
        (\A r \in Receiver : f \in delivered[r])
            ~> f \in processed \/ mpc \notin {"start", "listen"}

\* The threads use the fifos as CircularFifo assumes: one of them at each end
\* of a queue, and what is pushed is what was popped.  They are careless only
\* in that memory of the pool gets destroyed.
Fifo(r) == INSTANCE CircularFifo WITH
               Size <- FifoSize, free <- free[r], filled <- filled[r], wItem <- raw[r],
               rItem <- frames[r], nItem <- NoBuffer, stopped <- asmStopped,
               careless <- InPlace(r) # Cardinality(Buffer)

\* \A r \in Receiver : Fifo(r)!Spec, with the quantifier inside.
FifosKept == /\ \A r \in Receiver : Fifo(r)!Init
             /\ [][\A r \in Receiver : [Fifo(r)!Next]_(Fifo(r)!vars)]_vars

\* 'q' ends the program.
QuitEnds == mpc = "stop" ~> mpc = "exit"

\* stop() of the assembler ends it.
AssemblerStops == mpc = "joinAssembler" ~> mpc = "exit"
=============================================================================
