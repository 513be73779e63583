-------------------------- MODULE ReceiverApp_proofs --------------------------
(***************************************************************************)
(* Theorems about ReceiverApp, for any number of receivers, any size of    *)
(* the pools and any networks.                                             *)
(***************************************************************************)
EXTENDS ReceiverApp, SharedLemmas

(***************************************************************************)
(* The inductive invariant.                                                *)
(***************************************************************************)
\* A receiving thread owns a buffer from pop_free to push_value.
HasRaw(r) == rpc[r] \in {"call", "recv", "account", "push"}
RawKept == \A r \in Receiver : IF HasRaw(r) THEN raw[r] \in Buffer ELSE raw[r] = NoBuffer

\* The frames of which the assembling thread has noted the number.
Noted(r) == \/ apc = "pop" /\ r < at
            \/ apc = "popped" /\ r < at
            \/ apc = "align"
            \/ apc = "repop" /\ r # at
            \/ apc = "process" /\ r >= at

\* The one it has just popped: nothing, if the pop was stopped.
Popped(r) == apc = "popped" /\ r = at

FramesKept ==
    /\ \A r \in Receiver : /\ Noted(r) => frames[r] \in Buffer /\ numbers[r] = content[r][frames[r]]
                           /\ Noted(r) \/ Popped(r) \/ frames[r] = NoBuffer
    /\ apc = "popped" => frames[at] \in Buffer \/ asmStopped
    /\ apc = "process" => AllEqual

\* No buffer of a receiver is in two places.
Queued(r, b) == b \in ToSet(free[r]) \/ b \in ToSet(filled[r])
Apart(r) == /\ Once(free[r], Buffer) /\ Once(filled[r], Buffer)
            /\ ToSet(free[r]) \cap ToSet(filled[r]) = {}
            /\ raw[r] \in Buffer => ~Queued(r, raw[r]) /\ raw[r] # frames[r]
            /\ frames[r] \in Buffer => ~Queued(r, frames[r])
BuffersApart == \A r \in Receiver : Apart(r)

\* How far main is tells which threads run.
ThreadsKept ==
    /\ mpc = "start" => apc = "off" /\ \A r \in Receiver : r >= mat => rpc[r] = "off"
    /\ mpc = "listen" => mat = 1
    /\ mpc \in {"stop", "request", "join"} => \A r \in Receiver : r < mat => rpc[r] = "done"
    /\ mpc \in {"stopAssembler", "joinAssembler", "exit"} => \A r \in Receiver : rpc[r] = "done"
    /\ mpc = "exit" => apc = "done"
    /\ asmStopped => mpc \in {"joinAssembler", "exit"}

IInv == TypeOK /\ RawKept /\ FramesKept /\ BuffersApart /\ ThreadsKept
-----------------------------------------------------------------------------
\* What a grabber does leaves it a grabber.
LEMMA GrabberTyped ==
    ASSUME NEW g \in G!Grabber
    PROVE  /\ G!Enter(g) \subseteq G!Grabber
           /\ G!Steps(g) \subseteq G!Grabber
           /\ G!RequestStop(g) \in G!Grabber
           /\ [g EXCEPT !.seen = 0] \in G!Grabber
<1> USE MaxFrameAssumption DEF G!Grabber, G!None
<1>1. G!Later(g.seen) \subseteq 0 .. MaxFrame BY DEF G!Later
<1>2. G!Arriving(g) \subseteq 0 .. MaxFrame BY <1>1 DEF G!Arriving
<1>3. \A f \in 0 .. MaxFrame : G!Newest(g.seen, f) \in 0 .. MaxFrame BY DEF G!Newest
<1>4. G!Enter(g) \subseteq G!Grabber BY DEF G!Enter, G!Forgotten
<1>5. G!FirstPacket(g) \subseteq G!Grabber
  <2>1. ASSUME NEW f \in 0 .. MaxFrame, NEW t \in {"none", "begun"}
        PROVE  [g EXCEPT !.pc = "fill", !.cur = f, !.seen = G!Newest(g.seen, f), !.tail = t] \in G!Grabber
    BY <1>3
  <2> HIDE DEF G!Grabber
  <2> QED BY <1>2, <2>1 DEF G!FirstPacket
<1>6. G!FirstStopped(g) \subseteq G!Grabber BY DEF G!FirstStopped
<1>7. G!Whole(g) \subseteq G!Grabber
  <2>1. ASSUME NEW t \in {"none", "left"}
        PROVE  [g EXCEPT !.pc = "idle", !.lost = FALSE, !.tail = t] \in G!Grabber
    OBVIOUS
  <2> HIDE DEF G!Grabber
  <2> QED BY <2>1 DEF G!Whole
<1>8. G!Cut(g) \subseteq G!Grabber
  <2>1. ASSUME NEW f \in 0 .. MaxFrame
        PROVE  [g EXCEPT !.pc = "idle", !.cached = f, !.seen = G!Newest(g.seen, f), !.tail = "none"] \in G!Grabber
    <3>1. f \in -1 .. MaxFrame OBVIOUS
    <3> QED BY <1>3, <3>1
  <2> HIDE DEF G!Grabber
  <2> QED BY <1>1, <2>1 DEF G!Cut
<1>9. G!GivenUp(g) \subseteq G!Grabber
  <2>1. ASSUME NEW t \in {"none", "left"} PROVE [g EXCEPT !.pc = "idle", !.tail = t] \in G!Grabber OBVIOUS
  <2> HIDE DEF G!Grabber
  <2> QED BY <2>1 DEF G!GivenUp
<1>10. G!Failed(g) \subseteq G!Grabber
  <2>1. [g EXCEPT !.stopped = TRUE] \in G!Grabber OBVIOUS
  <2>2. [g EXCEPT !.seen = G!Newest(g.seen, g.cur)] \in G!Grabber BY <1>3
  <2>3. \A f \in 0 .. MaxFrame :
            [g EXCEPT !.stopped = TRUE, !.pc = "idle", !.cached = f, !.tail = "none"] \in G!Grabber
    <3> TAKE f \in 0 .. MaxFrame
    <3>1. f \in -1 .. MaxFrame OBVIOUS
    <3> QED BY <3>1
  <2> HIDE DEF G!Grabber
  <2> QED BY <2>1, <2>2, <2>3 DEF G!Failed
<1>11. G!RequestStop(g) \in G!Grabber BY DEF G!RequestStop
<1> QED BY <1>4, <1>5, <1>6, <1>7, <1>8, <1>9, <1>10, <1>11 DEF G!Steps

\* min_element finds the first of the lowest numbers.
LEMMA LowestFound ==
    ASSUME numbers \in [Receiver -> 0 .. MaxFrame]
    PROVE  /\ LowestAt \in Receiver
           /\ \A s \in Receiver : numbers[LowestAt] <= numbers[s]
<1> USE NumReceiversAssumption, MaxFrameAssumption
<1> DEFINE N == {numbers[r] : r \in Receiver}
<1>1. PICK m \in N : \A n \in N : m <= n
  <2>1. 1 \in Receiver BY DEF Receiver
  <2>2. N \in SUBSET Nat /\ N # {} BY <2>1
  <2> HIDE DEF N
  <2> QED BY <2>2, Lowest
<1> DEFINE T == {r \in Receiver : numbers[r] = m}
<1>2. PICK x \in T : \A y \in T : x <= y
  <2>1. T \in SUBSET Nat BY DEF Receiver
  <2>2. T # {} OBVIOUS
  <2> HIDE DEF T
  <2> QED BY <2>1, <2>2, Lowest
<1>3. \A s \in Receiver : numbers[x] < numbers[s] \/ (numbers[x] = numbers[s] /\ x <= s)
  <2> SUFFICES ASSUME NEW s \in Receiver
               PROVE  numbers[x] < numbers[s] \/ (numbers[x] = numbers[s] /\ x <= s)
    OBVIOUS
  <2>1. numbers[x] = m /\ m <= numbers[s] BY <1>1, <1>2
  <2>2. numbers[s] = m => x <= s BY <1>2
  <2>3. numbers[x] \in Nat /\ numbers[s] \in Nat OBVIOUS
  <2> QED BY <2>1, <2>2, <2>3
<1>4. x \in Receiver OBVIOUS
<1>5. /\ LowestAt \in Receiver
      /\ \A s \in Receiver : \/ numbers[LowestAt] < numbers[s]
                             \/ numbers[LowestAt] = numbers[s] /\ LowestAt <= s
  BY <1>3, <1>4 DEF LowestAt
<1> QED BY <1>5
-----------------------------------------------------------------------------
\* What TypeOK says of the fifos and of the two threads' buffers.
LEMMA Typed ==
    ASSUME TypeOK, NEW r \in Receiver
    PROVE  /\ free[r] \in Seq(Buffer) /\ filled[r] \in Seq(Buffer)
           /\ ToSet(free[r]) \subseteq Buffer /\ ToSet(filled[r]) \subseteq Buffer
           /\ NoBuffer \notin Buffer
<1>1. free[r] \in Seq(Buffer) /\ filled[r] \in Seq(Buffer) BY DEF TypeOK
<1> HIDE DEF Buffer
<1>2. ToSet(free[r]) \subseteq Buffer /\ ToSet(filled[r]) \subseteq Buffer BY <1>1, InSet
<1>3. NoBuffer \notin Buffer BY DEF NoBuffer, Buffer
<1> QED BY <1>1, <1>2, <1>3

\* At first all buffers are free.
LEMMA InitInvariant == Init => IInv
<1> SUFFICES ASSUME Init PROVE IInv OBVIOUS
<1> USE NumReceiversAssumption, FifoSizeAssumption, MaxFrameAssumption
<1>1. [i \in Buffer |-> i] \in Seq(Buffer) BY DEF Buffer
<1>2. << >> \in Seq(Buffer) OBVIOUS
<1>3. TypeOK
  <2>1. free \in [Receiver -> Seq(Buffer)] /\ filled \in [Receiver -> Seq(Buffer)]
    BY <1>1, <1>2 DEF Init, FifoInit
  <2>2. content \in [Receiver -> [Buffer -> 0 .. MaxFrame]] BY DEF Init, FifoInit
  <2>3. stopped \in [Receiver -> BOOLEAN] BY DEF Init, ReceiverInit
  <2>4. grabber \in [Receiver -> G!Grabber]
    <3>1. G!New \in G!Grabber BY DEF G!New, G!Grabber, G!None
    <3> QED BY <3>1 DEF Init, ReceiverInit
  <2>5. /\ rpc \in [Receiver -> {"off", "check", "pop", "call", "recv", "account", "push", "done"}]
        /\ raw \in [Receiver -> Buffer \cup {NoBuffer}]
        /\ delivered \in [Receiver -> SUBSET (0 .. MaxFrame)]
    BY DEF Init, ReceiverInit
  <2>6. /\ asmStopped \in BOOLEAN /\ at \in Receiver
        /\ apc \in {"off", "check", "pop", "popped", "align", "repop", "process", "done"}
        /\ frames \in [Receiver -> Buffer \cup {NoBuffer}]
        /\ numbers \in [Receiver -> 0 .. MaxFrame]
        /\ processed \in SUBSET (0 .. MaxFrame)
    <3>1. 0 \in 0 .. MaxFrame /\ 1 \in Receiver BY DEF Receiver
    <3> QED BY <3>1 DEF Init, AssemblerInit
  <2>7. mpc = "start" /\ mat \in 1 .. NumReceivers + 1 BY DEF Init
  <2> QED BY <2>1, <2>2, <2>3, <2>4, <2>5, <2>6, <2>7 DEF TypeOK
<1>4. RawKept BY DEF RawKept, HasRaw, Init, ReceiverInit
<1>5. FramesKept BY DEF FramesKept, Noted, Popped, Init, AssemblerInit
<1>6. BuffersApart
  <2> SUFFICES ASSUME NEW r \in Receiver PROVE Apart(r) BY DEF BuffersApart
  <2>1. free[r] = [i \in Buffer |-> i] /\ filled[r] = << >> BY DEF Init, FifoInit
  <2>2. raw[r] = NoBuffer /\ frames[r] = NoBuffer BY DEF Init, ReceiverInit, AssemblerInit
  <2>3. Once(free[r], Buffer) BY <2>1 DEF Once
  <2>4. Once(filled[r], Buffer) /\ ToSet(filled[r]) = {} BY <2>1 DEF Once, ToSet
  <2>5. NoBuffer \notin Buffer BY DEF NoBuffer, Buffer
  <2> QED BY <2>2, <2>3, <2>4, <2>5 DEF Apart
<1>7. ThreadsKept BY DEF ThreadsKept, Init, ReceiverInit, AssemblerInit
<1> QED BY <1>3, <1>4, <1>5, <1>6, <1>7 DEF IInv
-----------------------------------------------------------------------------
(***************************************************************************)
(* Steps that leave the buffers where they are.                            *)
(***************************************************************************)
\* The buffers stay apart.
LEMMA StayApart ==
    BuffersApart /\ UNCHANGED <<free, filled, raw, frames>> => BuffersApart'
BY DEF BuffersApart, Apart, Queued

\* What the assembling thread has in hand stays as it is.
LEMMA FramesStay ==
    /\ FramesKept /\ UNCHANGED <<apc, at, frames, numbers>> /\ (asmStopped => asmStopped')
    /\ \A r \in Receiver : frames[r] \in Buffer => content'[r][frames[r]] = content[r][frames[r]]
    => FramesKept'
BY DEF FramesKept, Noted, Popped, AllEqual

\* Main starts and stops the threads.
LEMMA MainStep == IInv /\ ((Main \/ Quit) /\ UNCHANGED network) => IInv'
<1> SUFFICES ASSUME IInv, Main \/ Quit PROVE IInv' OBVIOUS
<1> USE NumReceiversAssumption DEF Receiver
<1>0. TypeOK /\ RawKept /\ FramesKept /\ BuffersApart /\ ThreadsKept BY DEF IInv
<1>1. CASE MainStartsReceiver
  <2> USE <1>1 DEF MainStartsReceiver, StartReceiving, Goto
  <2>1. mat \in Receiver BY <1>0 DEF TypeOK
  <2>2. TypeOK'
    <3>1. rpc' \in [Receiver -> {"off", "check", "pop", "call", "recv", "account", "push", "done"}]
      BY <1>0, <2>1 DEF TypeOK
    <3>2. mpc' = "start" /\ mat' \in 1 .. NumReceivers + 1 BY <1>0, <2>1 DEF TypeOK, assemblerVars
    <3> QED BY <1>0, <3>1, <3>2 DEF TypeOK, fifoVars, assemblerVars
  <2>3. RawKept' BY <1>0, <2>1 DEF TypeOK, RawKept, HasRaw
  <2>4. FramesKept' BY <1>0, FramesStay DEF assemblerVars, fifoVars
  <2>5. BuffersApart' BY <1>0, StayApart DEF assemblerVars, fifoVars
  <2>6. ThreadsKept' BY <1>0, <2>1 DEF TypeOK, ThreadsKept, assemblerVars
  <2> QED BY <2>2, <2>3, <2>4, <2>5, <2>6 DEF IInv
<1>2. CASE MainStartsAssembler
  <2> USE <1>2 DEF MainStartsAssembler, StartAssembling
  <2>1. TypeOK' BY <1>0 DEF TypeOK, fifoVars, receiverVars
  <2>2. RawKept' BY <1>0 DEF RawKept, HasRaw, receiverVars
  <2>3. FramesKept' BY <1>0 DEF FramesKept, Noted, Popped, fifoVars
  <2>4. BuffersApart' BY <1>0, StayApart DEF fifoVars, receiverVars
  <2>5. ThreadsKept' BY <1>0 DEF ThreadsKept
  <2> QED BY <2>1, <2>2, <2>3, <2>4, <2>5 DEF IInv
<1>3. CASE Quit
  <2> USE <1>3 DEF Quit, fifoVars, receiverVars, assemblerVars
  <2>1. TypeOK' BY <1>0 DEF TypeOK
  <2>2. RawKept' BY <1>0 DEF RawKept, HasRaw
  <2>3. FramesKept' BY <1>0, FramesStay
  <2>4. BuffersApart' BY <1>0, StayApart
  <2>5. ThreadsKept' BY <1>0 DEF TypeOK, ThreadsKept
  <2> QED BY <2>1, <2>2, <2>3, <2>4, <2>5 DEF IInv
<1>4. CASE MainStopsReceiver
  <2> USE <1>4 DEF MainStopsReceiver, SetStopped, fifoVars, assemblerVars
  <2>1. mat \in Receiver BY <1>0 DEF TypeOK
  <2>2. TypeOK' BY <1>0, <2>1 DEF TypeOK
  <2>3. RawKept' BY <1>0 DEF RawKept, HasRaw
  <2>4. FramesKept' BY <1>0, FramesStay
  <2>5. BuffersApart' BY <1>0, StayApart
  <2>6. ThreadsKept' BY <1>0 DEF TypeOK, ThreadsKept
  <2> QED BY <2>2, <2>3, <2>4, <2>5, <2>6 DEF IInv
<1>5. CASE MainRequestsStop
  <2> USE <1>5 DEF MainRequestsStop, RequestStop, fifoVars, assemblerVars
  <2>1. mat \in Receiver BY <1>0 DEF TypeOK
  <2>2. grabber' \in [Receiver -> G!Grabber] BY <1>0, <2>1, GrabberTyped DEF TypeOK
  <2>3. TypeOK' BY <1>0, <2>1, <2>2 DEF TypeOK
  <2>4. RawKept' BY <1>0 DEF RawKept, HasRaw
  <2>5. FramesKept' BY <1>0, FramesStay
  <2>6. BuffersApart' BY <1>0, StayApart
  <2>7. ThreadsKept' BY <1>0 DEF TypeOK, ThreadsKept
  <2> QED BY <2>3, <2>4, <2>5, <2>6, <2>7 DEF IInv
<1>6. CASE MainJoinsReceiver
  <2> USE <1>6 DEF MainJoinsReceiver, fifoVars, receiverVars, assemblerVars
  <2>1. mat \in Receiver /\ rpc[mat] = "done" BY <1>0 DEF TypeOK
  <2>2. RawKept' BY <1>0 DEF RawKept, HasRaw
  <2>3. FramesKept' BY <1>0, FramesStay
  <2>4. BuffersApart' BY <1>0, StayApart
  <2>5. CASE mat = NumReceivers
    <3>1. mpc' = "stopAssembler" /\ mat' = 1 BY <2>5
    <3>2. TypeOK' BY <1>0, <3>1 DEF TypeOK
    <3>3. \A r \in Receiver : rpc[r] = "done" BY <1>0, <2>1, <2>5 DEF ThreadsKept
    <3>4. ThreadsKept' BY <1>0, <3>1, <3>3 DEF TypeOK, ThreadsKept
    <3> QED BY <2>2, <2>3, <2>4, <3>2, <3>4 DEF IInv
  <2>6. CASE mat # NumReceivers
    <3>1. mpc' = "stop" /\ mat' = mat + 1 /\ mat + 1 \in 1 .. NumReceivers BY <2>1, <2>6
    <3>2. TypeOK' BY <1>0, <3>1 DEF TypeOK
    <3>3. \A r \in Receiver : r < mat + 1 => rpc[r] = "done" BY <1>0, <2>1 DEF ThreadsKept
    <3>4. ThreadsKept' BY <1>0, <3>1, <3>3 DEF TypeOK, ThreadsKept
    <3> QED BY <2>2, <2>3, <2>4, <3>2, <3>4 DEF IInv
  <2> QED BY <2>5, <2>6
<1>7. CASE MainStopsAssembler
  <2> USE <1>7 DEF MainStopsAssembler, SetAsmStopped, fifoVars, receiverVars
  <2>1. TypeOK' BY <1>0 DEF TypeOK
  <2>2. RawKept' BY <1>0 DEF RawKept, HasRaw
  <2>3. FramesKept' BY <1>0, FramesStay
  <2>4. BuffersApart' BY <1>0, StayApart
  <2>5. ThreadsKept' BY <1>0 DEF TypeOK, ThreadsKept
  <2> QED BY <2>1, <2>2, <2>3, <2>4, <2>5 DEF IInv
<1>8. CASE MainJoinsAssembler
  <2> USE <1>8 DEF MainJoinsAssembler, fifoVars, receiverVars, assemblerVars
  <2>1. TypeOK' BY <1>0 DEF TypeOK
  <2>2. RawKept' BY <1>0 DEF RawKept, HasRaw
  <2>3. FramesKept' BY <1>0, FramesStay
  <2>4. BuffersApart' BY <1>0, StayApart
  <2>5. ThreadsKept' BY <1>0 DEF TypeOK, ThreadsKept
  <2> QED BY <2>1, <2>2, <2>3, <2>4, <2>5 DEF IInv
<1> QED BY <1>1, <1>2, <1>3, <1>4, <1>5, <1>6, <1>7, <1>8 DEF Main
-----------------------------------------------------------------------------
(***************************************************************************)
(* Steps of the receiving threads.                                         *)
(***************************************************************************)
\* A thread that runs and goes on is none that main waits for in vain.
LEMMA ThreadsRun ==
    ASSUME ThreadsKept, UNCHANGED <<mpc, mat, apc, asmStopped>>, NEW r \in Receiver,
           rpc[r] \notin {"off", "done"}, \A s \in Receiver : s # r => rpc'[s] = rpc[s]
    PROVE  ThreadsKept'
BY DEF ThreadsKept

\* Only the buffer in the hands of the receiving thread changes its content.
LEMMA ContentStays ==
    ASSUME IInv, NEW r \in Receiver, NEW f \in 0 .. MaxFrame, HasRaw(r),
           content' = [content EXCEPT ![r][raw[r]] = f] \/ content' = content
    PROVE  /\ content' \in [Receiver -> [Buffer -> 0 .. MaxFrame]]
           /\ \A s \in Receiver, b \in Buffer :
                 s # r \/ b # raw[r] => content'[s][b] = content[s][b]
           /\ \A s \in Receiver : frames[s] \in Buffer => content'[s][frames[s]] = content[s][frames[s]]
<1> HIDE DEF Receiver
<1>1. raw[r] \in Buffer BY DEF IInv, RawKept
<1>2. content \in [Receiver -> [Buffer -> 0 .. MaxFrame]] BY DEF IInv, TypeOK
<1>3. frames[r] \in Buffer => frames[r] # raw[r] BY <1>1 DEF IInv, BuffersApart, Apart
<1> HIDE DEF Buffer
<1>4. content' \in [Receiver -> [Buffer -> 0 .. MaxFrame]] BY <1>1, <1>2
<1>5. \A s \in Receiver, b \in Buffer : s # r \/ b # raw[r] => content'[s][b] = content[s][b]
  BY <1>1, <1>2
<1> QED BY <1>3, <1>4, <1>5

\* What the grabber may do while it fills the buffer in hand.
LEMMA Grabbing ==
    ASSUME IInv, NEW r \in Receiver, HasRaw(r), NEW g \in G!Grabber, Grab(r, g),
           UNCHANGED assemblerVars,
           NEW step \in {"recv", "account"}, Goto(r, step), UNCHANGED <<mpc, mat>>
    PROVE  IInv'
<1> USE DEF Grab, Goto, assemblerVars
<1>0. TypeOK /\ RawKept /\ FramesKept /\ BuffersApart /\ ThreadsKept BY DEF IInv
<1>1. g.cur \in 0 .. MaxFrame BY DEF G!Grabber
<1>2. /\ content' \in [Receiver -> [Buffer -> 0 .. MaxFrame]]
      /\ \A s \in Receiver : frames[s] \in Buffer => content'[s][frames[s]] = content[s][frames[s]]
  BY <1>1, ContentStays
<1>3. TypeOK' BY <1>0, <1>2 DEF TypeOK
<1>4. RawKept' BY <1>0 DEF RawKept, HasRaw, TypeOK
<1>5. FramesKept' BY <1>0, <1>2, FramesStay
<1>6. BuffersApart' BY <1>0, StayApart
<1>7. ThreadsKept'
  <2>1. rpc[r] \notin {"off", "done"} BY DEF HasRaw
  <2>2. \A s \in Receiver : s # r => rpc'[s] = rpc[s] BY <1>0 DEF TypeOK
  <2> QED BY <1>0, <2>1, <2>2, ThreadsRun
<1> QED BY <1>3, <1>4, <1>5, <1>6, <1>7 DEF IInv

LEMMA ReceiverStep == ASSUME IInv, NEW r \in Receiver, Receiving(r) PROVE IInv'
<1> USE DEF Receiving, assemblerVars, Goto
<1>0. TypeOK /\ RawKept /\ FramesKept /\ BuffersApart /\ ThreadsKept BY DEF IInv
<1>1. CASE CheckStopped(r)
  <2> USE <1>1 DEF CheckStopped, fifoVars
  <2>1. TypeOK' BY <1>0 DEF TypeOK
  <2>2. RawKept' BY <1>0 DEF RawKept, HasRaw, TypeOK
  <2>3. FramesKept' BY <1>0, FramesStay
  <2>4. BuffersApart' BY <1>0, StayApart
  <2>5. \A s \in Receiver : s # r => rpc'[s] = rpc[s] BY <1>0 DEF TypeOK
  <2>6. ThreadsKept' BY <1>0, <2>5, ThreadsRun
  <2> QED BY <2>1, <2>2, <2>3, <2>4, <2>6 DEF IInv
<1>2. CASE TakeFree(r)
  <2> USE <1>2 DEF TakeFree, PopFree
  <2>1. /\ Head(free[r]) \in Buffer /\ Tail(free[r]) \in Seq(Buffer)
        /\ ToSet(free[r]) = ToSet(Tail(free[r])) \cup {Head(free[r])} /\ Once(Tail(free[r]), Buffer)
        /\ Head(free[r]) \notin ToSet(Tail(free[r]))
    <3>1. free[r] \in Seq(Buffer) /\ Once(free[r], Buffer) BY <1>0 DEF TypeOK, BuffersApart, Apart
    <3> HIDE DEF Buffer
    <3> QED BY <3>1, TailOnce
  <2>2. TypeOK' BY <1>0, <2>1 DEF TypeOK
  <2>3. RawKept' BY <1>0, <2>1 DEF RawKept, HasRaw, TypeOK
  <2>4. FramesKept' BY <1>0, FramesStay
  <2>5. BuffersApart'
    <3> SUFFICES ASSUME NEW s \in Receiver PROVE Apart(s)' BY DEF BuffersApart
    <3>1. Apart(s) BY <1>0 DEF BuffersApart
    <3>2. CASE s # r
      <4>1. free'[s] = free[s] /\ raw'[s] = raw[s] BY <1>0, <3>2 DEF TypeOK
      <4> QED BY <3>1, <4>1 DEF Apart, Queued
    <3>3. CASE s = r
      <4>1. free'[s] = Tail(free[s]) /\ raw'[s] = Head(free[s]) BY <1>0, <3>3 DEF TypeOK
      <4>2. Head(free[s]) # frames[s] BY <2>1, <3>1, <3>3 DEF Apart, Queued
      <4> QED BY <2>1, <3>1, <3>3, <4>1, <4>2 DEF Apart, Queued
    <3> QED BY <3>2, <3>3
  <2>6. \A s \in Receiver : s # r => rpc'[s] = rpc[s] BY <1>0 DEF TypeOK
  <2>7. ThreadsKept' BY <1>0, <2>6, ThreadsRun
  <2> QED BY <2>2, <2>3, <2>4, <2>5, <2>7 DEF IInv
<1>3. CASE CallRecvInto(r)
  <2>1. PICK g \in G!Enter(grabber[r]) : Grab(r, g) BY <1>3 DEF CallRecvInto
  <2>2. g \in G!Grabber BY <1>0, GrabberTyped DEF TypeOK
  <2>3. HasRaw(r) /\ Goto(r, "recv") BY <1>3 DEF CallRecvInto, HasRaw
  <2> QED BY <2>1, <2>2, <2>3, Grabbing
<1>4. CASE RunRecvInto(r)
  <2>1. PICK g \in G!Steps(grabber[r]) : Grab(r, g) /\ Goto(r, IF g.pc = "idle" THEN "account" ELSE "recv")
    BY <1>4 DEF RunRecvInto
  <2>2. g \in G!Grabber BY <1>0, GrabberTyped DEF TypeOK
  <2>3. HasRaw(r) BY <1>4 DEF RunRecvInto, HasRaw
  <2>4. CASE g.pc = "idle"
    <3>1. Goto(r, "account") BY <2>1, <2>4
    <3> QED BY <2>1, <2>2, <2>3, <3>1, Grabbing
  <2>5. CASE g.pc # "idle"
    <3>1. Goto(r, "recv") BY <2>1, <2>5
    <3> QED BY <2>1, <2>2, <2>3, <3>1, Grabbing
  <2> QED BY <2>4, <2>5
<1>5. CASE Account(r)
  <2> USE <1>5 DEF Account, fifoVars
  <2>1. TypeOK' BY <1>0 DEF TypeOK
  <2>2. RawKept'
    <3>1. \A s \in Receiver : s # r => rpc'[s] = rpc[s] /\ raw'[s] = raw[s] BY <1>0 DEF TypeOK
    <3>2. IF grabber[r].lost THEN raw'[r] = NoBuffer /\ rpc'[r] = "check"
                             ELSE raw'[r] = raw[r] /\ rpc'[r] = "push"
      BY <1>0 DEF TypeOK
    <3>3. HasRaw(r) BY DEF HasRaw
    <3> QED BY <1>0, <3>1, <3>2, <3>3 DEF RawKept, HasRaw
  <2>3. FramesKept' BY <1>0, FramesStay
  <2>4. BuffersApart'
    <3> SUFFICES ASSUME NEW s \in Receiver PROVE Apart(s)' BY DEF BuffersApart
    <3>1. Apart(s) BY <1>0 DEF BuffersApart
    <3>2. raw'[s] = raw[s] \/ raw'[s] = NoBuffer BY <1>0 DEF TypeOK
    <3>3. NoBuffer \notin Buffer BY <1>0, Typed
    <3> QED BY <3>1, <3>2, <3>3 DEF Apart, Queued
  <2>5. \A s \in Receiver : s # r => rpc'[s] = rpc[s] BY <1>0 DEF TypeOK
  <2>6. ThreadsKept' BY <1>0, <2>5, ThreadsRun
  <2> QED BY <2>1, <2>2, <2>3, <2>4, <2>6 DEF IInv
<1>6. CASE PassOn(r)
  <2> USE <1>6 DEF PassOn, PushValue, Moved
  <2>0. raw[r] \in Buffer BY <1>0 DEF RawKept, HasRaw
  <2>1. /\ Append(filled[r], raw[r]) \in Seq(Buffer)
        /\ ToSet(Append(filled[r], raw[r])) = ToSet(filled[r]) \cup {raw[r]}
        /\ Once(Append(filled[r], raw[r]), Buffer)
    <3>1. filled[r] \in Seq(Buffer) /\ Once(filled[r], Buffer) /\ raw[r] \notin ToSet(filled[r])
      BY <1>0, <2>0 DEF TypeOK, BuffersApart, Apart, Queued
    <3> HIDE DEF Buffer
    <3> QED BY <2>0, <3>1, AppendOnce
  <2>2. TypeOK'
    <3>1. filled' \in [Receiver -> Seq(Buffer)] BY <1>0, <2>1 DEF TypeOK
    <3>2. raw' \in [Receiver -> Buffer \cup {NoBuffer}] BY <1>0 DEF TypeOK
    <3>3. content[r][raw[r]] \in 0 .. MaxFrame BY <1>0, <2>0 DEF TypeOK
    <3>4. delivered' \in [Receiver -> SUBSET (0 .. MaxFrame)] BY <1>0, <3>3 DEF TypeOK
    <3>5. rpc' \in [Receiver -> {"off", "check", "pop", "call", "recv", "account", "push", "done"}]
      BY <1>0 DEF TypeOK
    <3> QED BY <1>0, <3>1, <3>2, <3>4, <3>5 DEF TypeOK
  <2>3. RawKept' BY <1>0 DEF RawKept, HasRaw, TypeOK
  <2>4. FramesKept' BY <1>0, FramesStay
  <2>5. BuffersApart'
    <3> SUFFICES ASSUME NEW s \in Receiver PROVE Apart(s)' BY DEF BuffersApart
    <3>1. Apart(s) BY <1>0 DEF BuffersApart
    <3>2. CASE s # r
      <4>1. filled'[s] = filled[s] /\ raw'[s] = raw[s] BY <1>0, <3>2 DEF TypeOK
      <4> QED BY <3>1, <4>1 DEF Apart, Queued
    <3>3. CASE s = r
      <4>1. filled'[s] = Append(filled[s], raw[s]) /\ raw'[s] = NoBuffer BY <1>0, <3>3 DEF TypeOK
      <4>2. NoBuffer \notin Buffer BY <1>0, Typed
      <4> QED BY <2>0, <2>1, <3>1, <3>3, <4>1, <4>2 DEF Apart, Queued
    <3> QED BY <3>2, <3>3
  <2>6. \A s \in Receiver : s # r => rpc'[s] = rpc[s] BY <1>0 DEF TypeOK
  <2>7. ThreadsKept' BY <1>0, <2>6, ThreadsRun
  <2> QED BY <2>2, <2>3, <2>4, <2>5, <2>7 DEF IInv
<1>7. CASE SendOn(r)
  <2> USE <1>7 DEF SendOn, fifoVars
  <2>1. grabber' \in [Receiver -> G!Grabber] BY <1>0, GrabberTyped DEF TypeOK
  <2>2. TypeOK' BY <1>0, <2>1 DEF TypeOK
  <2>3. RawKept' BY <1>0 DEF RawKept, HasRaw
  <2>4. FramesKept' BY <1>0, FramesStay
  <2>5. BuffersApart' BY <1>0, StayApart
  <2>6. ThreadsKept' BY <1>0 DEF ThreadsKept
  <2> QED BY <2>2, <2>3, <2>4, <2>5, <2>6 DEF IInv
<1> QED BY <1>1, <1>2, <1>3, <1>4, <1>5, <1>6, <1>7 DEF Receive
-----------------------------------------------------------------------------
(***************************************************************************)
(* Steps of the assembling thread.                                         *)
(***************************************************************************)
\* It takes the frame at the front of a fifo.
LEMMA TakingFilled ==
    ASSUME IInv, NEW r \in Receiver, filled[r] # << >>, frames[r] = NoBuffer,
           filled' = [filled EXCEPT ![r] = Tail(@)],
           frames' = [frames EXCEPT ![r] = Head(filled[r])], UNCHANGED <<free, raw>>
    PROVE  /\ Head(filled[r]) \in Buffer /\ Tail(filled[r]) \in Seq(Buffer)
           /\ ToSet(filled[r]) = ToSet(Tail(filled[r])) \cup {Head(filled[r])}
           /\ BuffersApart'
<1>0. TypeOK /\ BuffersApart BY DEF IInv
<1>1. filled[r] \in Seq(Buffer) /\ Once(filled[r], Buffer) BY <1>0 DEF TypeOK, BuffersApart, Apart
<1>2. /\ Head(filled[r]) \in Buffer /\ Tail(filled[r]) \in Seq(Buffer)
      /\ ToSet(filled[r]) = ToSet(Tail(filled[r])) \cup {Head(filled[r])}
      /\ Once(Tail(filled[r]), Buffer) /\ Head(filled[r]) \notin ToSet(Tail(filled[r]))
  <2> HIDE DEF Buffer
  <2> QED BY <1>1, TailOnce
<1>3. ASSUME NEW s \in Receiver PROVE Apart(s)'
  <2>1. Apart(s) BY <1>0 DEF BuffersApart
  <2>2. CASE s # r
    <3>1. filled'[s] = filled[s] /\ frames'[s] = frames[s] BY <1>0, <2>2 DEF TypeOK
    <3> QED BY <2>1, <3>1 DEF Apart, Queued
  <2>3. CASE s = r
    <3>1. filled'[s] = Tail(filled[s]) /\ frames'[s] = Head(filled[s]) BY <1>0, <2>3 DEF TypeOK
    <3>2. Head(filled[s]) # raw[s] BY <1>2, <2>1, <2>3 DEF Apart, Queued
    <3>3. Head(filled[s]) \notin ToSet(free[s]) BY <1>2, <2>1, <2>3 DEF Apart
    <3> QED BY <1>2, <2>1, <2>3, <3>1, <3>2, <3>3 DEF Apart, Queued
  <2> QED BY <2>2, <2>3
<1> QED BY <1>2, <1>3 DEF BuffersApart

\* It gives a frame back.
LEMMA GivingBack ==
    ASSUME IInv, NEW r \in Receiver, frames[r] \in Buffer, PushFree(r, frames[r]),
           frames' = [frames EXCEPT ![r] = Moved(@)], UNCHANGED <<filled, raw>>
    PROVE  /\ free' \in [Receiver -> Seq(Buffer)]
           /\ ToSet(free'[r]) = ToSet(free[r]) \cup {frames[r]}
           /\ BuffersApart'
<1> USE DEF PushFree, Moved
<1>0. TypeOK /\ BuffersApart BY DEF IInv
<1>1. /\ Append(free[r], frames[r]) \in Seq(Buffer)
      /\ ToSet(Append(free[r], frames[r])) = ToSet(free[r]) \cup {frames[r]}
      /\ Once(Append(free[r], frames[r]), Buffer)
  <2>1. free[r] \in Seq(Buffer) /\ Once(free[r], Buffer) /\ frames[r] \notin ToSet(free[r])
    BY <1>0 DEF TypeOK, BuffersApart, Apart, Queued
  <2> HIDE DEF Buffer
  <2> QED BY <2>1, AppendOnce
<1>2. free' \in [Receiver -> Seq(Buffer)] /\ free'[r] = Append(free[r], frames[r])
  BY <1>0, <1>1 DEF TypeOK
<1>3. ASSUME NEW s \in Receiver PROVE Apart(s)'
  <2>1. Apart(s) BY <1>0 DEF BuffersApart
  <2>2. CASE s # r
    <3>1. free'[s] = free[s] /\ frames'[s] = frames[s] BY <1>0, <2>2 DEF TypeOK
    <3> QED BY <2>1, <3>1 DEF Apart, Queued
  <2>3. CASE s = r
    <3>1. free'[s] = Append(free[s], frames[s]) /\ frames'[s] = NoBuffer BY <1>0, <2>3 DEF TypeOK
    <3>2. NoBuffer \notin Buffer BY <1>0, Typed
    <3> QED BY <1>1, <2>1, <2>3, <3>1, <3>2 DEF Apart, Queued
  <2> QED BY <2>2, <2>3
<1> QED BY <1>1, <1>2, <1>3 DEF BuffersApart

\* It ends, and what it has in hand is destroyed.
LEMMA Leaving ==
    ASSUME IInv, apc \notin {"off", "done"}, Leave,
           UNCHANGED <<free, filled, content, raw, rpc, asmStopped, mpc, mat>>
    PROVE  /\ at' \in Receiver /\ frames' \in [Receiver -> Buffer \cup {NoBuffer}]
           /\ FramesKept' /\ BuffersApart' /\ ThreadsKept'
<1> USE DEF Leave
<1>0. TypeOK /\ BuffersApart /\ ThreadsKept BY DEF IInv
<1>1. at' \in Receiver BY NumReceiversAssumption DEF Receiver
<1>2. FramesKept' BY DEF FramesKept, Noted, Popped
<1>3. BuffersApart'
  <2>1. \A r \in Receiver : frames'[r] \notin Buffer BY <1>0, Typed
  <2>2. \A r \in Receiver : raw[r] \in Buffer => raw[r] # frames'[r] BY <2>1
  <2> QED BY <1>0, <2>1, <2>2 DEF BuffersApart, Apart, Queued
<1>4. ThreadsKept' BY <1>0 DEF ThreadsKept
<1> QED BY <1>1, <1>2, <1>3, <1>4

LEMMA AssemblerStep == IInv /\ Assembling => IInv'
<1> SUFFICES ASSUME IInv, Assembling PROVE IInv' OBVIOUS
<1> USE NumReceiversAssumption DEF Assembling, receiverVars, fifoVars
<1>0. TypeOK /\ RawKept /\ FramesKept /\ BuffersApart /\ ThreadsKept BY DEF IInv
<1>1. RawKept' BY <1>0 DEF RawKept, HasRaw
<1>2. ASSUME UNCHANGED asmStopped, apc \notin {"off", "done"} PROVE ThreadsKept'
  BY <1>0, <1>2 DEF ThreadsKept
<1>3. CASE CheckAsmStopped
  <2> USE <1>3 DEF CheckAsmStopped
  <2>1. CASE asmStopped
    <3>1. at' \in Receiver /\ frames' \in [Receiver -> Buffer \cup {NoBuffer}] /\ FramesKept' /\ BuffersApart'
      BY <2>1, Leaving
    <3>2. TypeOK' BY <1>0, <2>1, <3>1 DEF TypeOK, Leave
    <3> QED BY <1>1, <1>2, <3>1, <3>2 DEF IInv
  <2>2. CASE ~asmStopped
    <3>1. at' = 1 /\ apc' = "pop" /\ UNCHANGED frames BY <2>2
    <3>2. TypeOK' BY <1>0, <3>1 DEF TypeOK, Receiver
    <3>3. FramesKept' BY <1>0, <3>1 DEF FramesKept, Noted, Popped, Receiver
    <3>4. BuffersApart' BY <1>0, <3>1, StayApart
    <3> QED BY <1>1, <1>2, <3>2, <3>3, <3>4 DEF IInv
  <2> QED BY <2>1, <2>2
<1>4. CASE TakeFrame
  <2> USE <1>4 DEF TakeFrame, PopValue
  <2>1. at \in Receiver /\ frames[at] = NoBuffer
    BY <1>0 DEF TypeOK, FramesKept, Noted, Popped, Receiver
  <2>2. /\ Head(filled[at]) \in Buffer /\ Tail(filled[at]) \in Seq(Buffer) /\ BuffersApart'
    BY <2>1, TakingFilled
  <2>3. TypeOK' BY <1>0, <2>1, <2>2 DEF TypeOK
  <2>4. frames'[at] \in Buffer /\ \A r \in Receiver : r # at => frames'[r] = frames[r]
    BY <1>0, <2>1, <2>2 DEF TypeOK
  <2>5. \A r \in Receiver : r < at => r # at BY DEF Receiver
  <2>6. FramesKept' BY <1>0, <2>1, <2>4, <2>5 DEF FramesKept, Noted, Popped
  <2> QED BY <1>1, <1>2, <2>2, <2>3, <2>6 DEF IInv
<1>5. CASE TakeNothing
  <2> USE <1>5 DEF TakeNothing
  <2>1. TypeOK' BY <1>0 DEF TypeOK
  <2>2. FramesKept' BY <1>0 DEF FramesKept, Noted, Popped
  <2>3. BuffersApart' BY <1>0, StayApart
  <2> QED BY <1>1, <1>2, <2>1, <2>2, <2>3 DEF IInv
<1>6. CASE NoteNumber
  <2> USE <1>6 DEF NoteNumber
  <2>1. CASE asmStopped
    <3>1. at' \in Receiver /\ frames' \in [Receiver -> Buffer \cup {NoBuffer}] /\ FramesKept' /\ BuffersApart'
      BY <2>1, Leaving
    <3>2. TypeOK' BY <1>0, <2>1, <3>1 DEF TypeOK, Leave
    <3> QED BY <1>1, <1>2, <3>1, <3>2 DEF IInv
  <2>2. CASE ~asmStopped
    <3>1. at \in Receiver /\ frames[at] \in Buffer BY <1>0, <2>2 DEF TypeOK, FramesKept
    <3>2. content[at][frames[at]] \in 0 .. MaxFrame BY <1>0, <3>1 DEF TypeOK
    <3>3. numbers' \in [Receiver -> 0 .. MaxFrame] BY <1>0, <2>2, <3>1, <3>2 DEF TypeOK
    <3>4. \A r \in Receiver : r = at \/ Noted(r) => numbers'[r] = content[r][frames[r]]
      BY <1>0, <2>2, <3>1 DEF TypeOK, FramesKept
    <3>5. BuffersApart' BY <1>0, <2>2, StayApart
    <3>6. CASE at = NumReceivers
      <4>1. apc' = "align" /\ at' = 1 /\ UNCHANGED frames BY <2>2, <3>6
      <4>2. \A r \in Receiver : r < at \/ r = at BY <3>6 DEF Receiver
      <4>3. FramesKept' BY <1>0, <3>1, <3>4, <4>1, <4>2 DEF FramesKept, Noted, Popped
      <4>4. 1 \in Receiver BY DEF Receiver
      <4>5. TypeOK' BY <1>0, <3>3, <4>1, <4>4 DEF TypeOK
      <4> QED BY <1>1, <1>2, <3>5, <4>3, <4>5 DEF IInv
    <3>7. CASE at # NumReceivers
      <4>1. apc' = "pop" /\ at' = at + 1 /\ UNCHANGED frames BY <2>2, <3>7
      <4>2. at + 1 \in Receiver /\ \A r \in Receiver : r < at + 1 => r < at \/ r = at
        BY <3>1, <3>7 DEF Receiver
      <4>3. \A r \in Receiver : r < at => r < at + 1 BY <3>1 DEF Receiver
      <4>4. at < at + 1 BY <3>1 DEF Receiver
      <4>5. FramesKept' BY <1>0, <3>1, <3>4, <4>1, <4>2, <4>3, <4>4 DEF FramesKept, Noted, Popped
      <4>6. TypeOK' BY <1>0, <3>3, <4>1, <4>2 DEF TypeOK
      <4> QED BY <1>1, <1>2, <3>5, <4>5, <4>6 DEF IInv
    <3> QED BY <3>6, <3>7
  <2> QED BY <2>1, <2>2
<1>7. CASE DropLowest
  <2> USE <1>7 DEF DropLowest
  <2>1. LowestAt \in Receiver BY <1>0, LowestFound DEF TypeOK
  <2>2. frames[LowestAt] \in Buffer BY <1>0, <2>1 DEF FramesKept, Noted
  <2>3. free' \in [Receiver -> Seq(Buffer)] /\ BuffersApart' BY <2>1, <2>2, GivingBack
  <2>4. TypeOK' BY <1>0, <2>1, <2>3 DEF TypeOK, Moved
  <2>5. FramesKept' BY <1>0, <2>1 DEF TypeOK, FramesKept, Noted, Popped, Moved
  <2> QED BY <1>1, <1>2, <2>3, <2>4, <2>5 DEF IInv
<1>8. CASE TakeAnother
  <2> USE <1>8 DEF TakeAnother, PopValue
  <2>1. at \in Receiver /\ frames[at] = NoBuffer
    BY <1>0 DEF TypeOK, FramesKept, Noted, Popped
  <2>2. /\ Head(filled[at]) \in Buffer /\ Tail(filled[at]) \in Seq(Buffer) /\ BuffersApart'
    BY <2>1, TakingFilled
  <2>3. content[at][Head(filled[at])] \in 0 .. MaxFrame BY <1>0, <2>1, <2>2 DEF TypeOK
  <2>4. 1 \in Receiver BY DEF Receiver
  <2>5. TypeOK' BY <1>0, <2>1, <2>2, <2>3, <2>4 DEF TypeOK
  <2>6. FramesKept' BY <1>0, <2>1, <2>2 DEF TypeOK, FramesKept, Noted, Popped
  <2> QED BY <1>1, <1>2, <2>2, <2>5, <2>6 DEF IInv
<1>9. CASE BeginFrame
  <2> USE <1>9 DEF BeginFrame
  <2>1. 1 \in Receiver /\ numbers[1] \in 0 .. MaxFrame BY <1>0 DEF Receiver, TypeOK
  <2>2. TypeOK' BY <1>0, <2>1 DEF TypeOK
  <2>3. FramesKept' BY <1>0 DEF FramesKept, Noted, Popped, AllEqual, Receiver
  <2>4. BuffersApart' BY <1>0, StayApart
  <2> QED BY <1>1, <1>2, <2>2, <2>3, <2>4 DEF IInv
<1>10. CASE ProcessPart
  <2> USE <1>10 DEF ProcessPart
  <2>1. at \in Receiver /\ frames[at] \in Buffer BY <1>0 DEF TypeOK, FramesKept, Noted, Receiver
  <2>2. free' \in [Receiver -> Seq(Buffer)] /\ BuffersApart' BY <2>1, GivingBack
  <2>3. frames' \in [Receiver -> Buffer \cup {NoBuffer}] /\ frames'[at] = NoBuffer
        /\ \A r \in Receiver : r # at => frames'[r] = frames[r]
    BY <1>0, <2>1 DEF TypeOK, Moved
  <2>4. CASE at = NumReceivers
    <3>1. apc' = "check" /\ at' = 1 /\ 1 \in Receiver BY <2>4 DEF Receiver
    <3>2. TypeOK' BY <1>0, <2>2, <2>3, <3>1 DEF TypeOK
    <3>3. \A r \in Receiver : r # at => ~(r >= at) BY <2>4 DEF Receiver
    <3>4. FramesKept' BY <1>0, <2>3, <3>1, <3>3 DEF FramesKept, Noted, Popped
    <3> QED BY <1>1, <1>2, <2>2, <3>2, <3>4 DEF IInv
  <2>5. CASE at # NumReceivers
    <3>1. apc' = "process" /\ at' = at + 1 /\ at + 1 \in Receiver BY <2>1, <2>5 DEF Receiver
    <3>2. TypeOK' BY <1>0, <2>2, <2>3, <3>1 DEF TypeOK
    <3>3. \A r \in Receiver : r >= at + 1 <=> r >= at /\ r # at BY <2>1 DEF Receiver
    <3>4. FramesKept' BY <1>0, <2>3, <3>1, <3>3 DEF FramesKept, Noted, Popped, AllEqual
    <3> QED BY <1>1, <1>2, <2>2, <3>2, <3>4 DEF IInv
  <2> QED BY <2>4, <2>5
<1> QED BY <1>3, <1>4, <1>5, <1>6, <1>7, <1>8, <1>9, <1>10 DEF Assemble

\* Every step keeps the invariant.
LEMMA NextInvariant == IInv /\ [Next]_vars => IInv'
<1> SUFFICES ASSUME IInv, [Next]_vars PROVE IInv' OBVIOUS
<1>1. CASE UNCHANGED vars
  <2> USE <1>1 DEF vars, fifoVars, receiverVars, assemblerVars
  <2>1. TypeOK' BY DEF IInv, TypeOK
  <2>2. RawKept' BY DEF IInv, RawKept, HasRaw
  <2>3. FramesKept' BY FramesStay DEF IInv
  <2>4. BuffersApart' BY StayApart DEF IInv
  <2>5. ThreadsKept' BY DEF IInv, ThreadsKept
  <2> QED BY <2>1, <2>2, <2>3, <2>4, <2>5 DEF IInv
<1>2. CASE Main BY <1>2, MainStep DEF Main
<1> QED BY <1>1, <1>2, MainStep, ReceiverStep, AssemblerStep DEF Next

\* IInv is an invariant.
THEOREM Invariance == Spec => []IInv
BY InitInvariant, NextInvariant, PTL DEF Spec
-----------------------------------------------------------------------------
(***************************************************************************)
(* What follows from the invariant.                                        *)
(***************************************************************************)
\* The buffers of a receiver that have not been destroyed.
InPool(r) == (ToSet(free[r]) \cup ToSet(filled[r]) \cup {raw[r], frames[r]}) \cap Buffer

\* The places as the properties list them hold each buffer at most once.
LEMMA PlacesApart ==
    ASSUME IInv, NEW r \in Receiver
    PROVE  /\ Places(r) \in Seq(Buffer \cup {NoBuffer})
           /\ Once(Places(r), Buffer)
           /\ ToSet(Places(r)) \cap Buffer = InPool(r)
<1> DEFINE S == Buffer \cup {NoBuffer}
           u == <<raw[r]>>
           v == <<frames[r]>>
           q == free[r] \o filled[r]
<1>1. /\ free[r] \in Seq(Buffer) /\ filled[r] \in Seq(Buffer) /\ raw[r] \in S /\ frames[r] \in S
      /\ Apart(r)
  BY DEF IInv, TypeOK, BuffersApart
<1>2. /\ free[r] \in Seq(S) /\ filled[r] \in Seq(S) /\ u \in Seq(S) /\ v \in Seq(S)
      /\ ToSet(u) = {raw[r]} /\ ToSet(v) = {frames[r]} /\ Once(u, Buffer) /\ Once(v, Buffer)
  BY <1>1 DEF ToSet, Once
<1>3. q \in Seq(S) /\ ToSet(q) = ToSet(free[r]) \cup ToSet(filled[r]) /\ Once(q, Buffer)
  <2> HIDE DEF S
  <2> QED BY <1>1, <1>2, ConcatOnce DEF Apart
<1>4. /\ q \o u \in Seq(S) /\ ToSet(q \o u) = ToSet(q) \cup {raw[r]} /\ Once(q \o u, Buffer)
  <2>1. ToSet(q) \cap ToSet(u) \cap Buffer = {} BY <1>1, <1>2, <1>3 DEF Apart, Queued
  <2> HIDE DEF S, q, u
  <2>2. q \o u \in Seq(S) /\ ToSet(q \o u) = ToSet(q) \cup ToSet(u) /\ Once(q \o u, Buffer)
    BY <1>2, <1>3, <2>1, ConcatOnce
  <2> QED BY <1>2, <2>2
<1>5. /\ (q \o u) \o v \in Seq(S) /\ ToSet((q \o u) \o v) = ToSet(q) \cup {raw[r]} \cup {frames[r]}
      /\ Once((q \o u) \o v, Buffer)
  <2> DEFINE w == q \o u
  <2>1. /\ w \in Seq(S) /\ ToSet(w) = ToSet(q) \cup {raw[r]} /\ Once(w, Buffer)
        /\ ToSet(w) \cap ToSet(v) \cap Buffer = {}
    BY <1>1, <1>2, <1>3, <1>4 DEF Apart, Queued
  <2>2. v \in Seq(S) /\ ToSet(v) = {frames[r]} /\ Once(v, Buffer) BY <1>2
  <2> SUFFICES /\ w \o v \in Seq(S) /\ ToSet(w \o v) = ToSet(w) \cup ToSet(v)
               /\ Once(w \o v, Buffer)
    BY <2>1, <2>2
  <2> HIDE DEF S, v, w
  <2> QED BY <2>1, <2>2, ConcatOnce
<1>6. Places(r) = (q \o u) \o v BY DEF Places
<1> QED BY <1>3, <1>5, <1>6 DEF InPool

(***************************************************************************)
(* The receiving thread never writes to memory that the assembling thread  *)
(* reads or that waits in a queue: every variable has its type, and every  *)
(* buffer one owner, in each of the pools.                                 *)
(***************************************************************************)
THEOREM OneOwnerEach == Spec => []Owned
<1>1. ASSUME IInv, NEW r \in Receiver,
             NEW i \in DOMAIN Places(r), NEW j \in DOMAIN Places(r), Places(r)[i] = Places(r)[j]
      PROVE  i = j \/ Places(r)[i] = NoBuffer
  <2>1. Places(r)[i] \in Buffer \cup {NoBuffer} BY <1>1, PlacesApart
  <2> QED BY <1>1, <2>1, PlacesApart DEF Once
<1>2. IInv => Owned BY <1>1 DEF IInv, Owned, OneOwner
<1> QED BY <1>2, Invariance, PTL

\* A queue of buffers has room for one that is not in it.
LEMMA RoomForOne ==
    ASSUME NEW q \in Seq(Buffer), Once(q, Buffer), NEW b \in Buffer, b \notin ToSet(q)
    PROVE  Len(q) < FifoSize - 1
<1>1. IsFiniteSet(Buffer) /\ Cardinality(Buffer) = FifoSize - 1
  <2>1. 1 \in Int /\ FifoSize - 1 \in Int /\ ~(1 > FifoSize - 1) BY FifoSizeAssumption
  <2>2. /\ IsFiniteSet(1 .. FifoSize - 1)
        /\ Cardinality(1 .. FifoSize - 1) = IF 1 > FifoSize - 1 THEN 0 ELSE (FifoSize - 1) - 1 + 1
    BY <2>1, FS_Interval
  <2> QED BY <2>1, <2>2 DEF Buffer
<1>2. IsFiniteSet(Buffer \ {b}) /\ Cardinality(Buffer \ {b}) = FifoSize - 2
  <2>1. IsFiniteSet(Buffer \ {b})
        /\ Cardinality(Buffer \ {b}) = IF b \in Buffer THEN Cardinality(Buffer) - 1 ELSE Cardinality(Buffer)
    BY <1>1, FS_RemoveElement
  <2> QED BY <1>1, <2>1, FifoSizeAssumption
<1>3. ToSet(q) \subseteq Buffer \ {b}
  <2> HIDE DEF Buffer
  <2> QED BY InSet
<1>4. Len(q) <= FifoSize - 2
  <2> HIDE DEF Buffer
  <2> QED BY <1>2, <1>3, OnceLen
<1> QED BY <1>4, FifoSizeAssumption

\* push_value and push_free never find the queue full, so their loops never
\* spin, however many frames were dropped or destroyed before.
THEOREM PushesNeverSpin == Spec => []PushesFit
<1>1. ASSUME IInv, NEW r \in Receiver
      PROVE  /\ rpc[r] = "push" => Len(filled[r]) < FifoSize - 1
             /\ frames[r] # NoBuffer => Len(free[r]) < FifoSize - 1
  <2>1. /\ free[r] \in Seq(Buffer) /\ filled[r] \in Seq(Buffer) /\ frames[r] \in Buffer \cup {NoBuffer}
        /\ Apart(r) /\ (rpc[r] = "push" => raw[r] \in Buffer)
    BY <1>1 DEF IInv, TypeOK, BuffersApart, RawKept, HasRaw
  <2> QED BY <2>1, RoomForOne DEF Apart, Queued
<1>2. IInv => PushesFit BY <1>1 DEF PushesFit
<1> QED BY <1>2, Invariance, PTL

\* The parts of a frame that get processed all have the same number, and the
\* memory still holds what it held when the numbers were compared.
THEOREM PartsAligned == Spec => []Aligned
<1>1. ASSUME IInv, apc = "process", NEW r \in at .. NumReceivers
      PROVE  content[r][frames[r]] = numbers[1]
  <2>1. at \in Receiver BY <1>1 DEF IInv, TypeOK
  <2>2. r \in Receiver /\ r >= at /\ 1 \in Receiver BY <2>1, NumReceiversAssumption DEF Receiver
  <2> QED BY <1>1, <2>2 DEF IInv, FramesKept, Noted, AllEqual
<1>2. IInv => Aligned BY <1>1 DEF Aligned
<1> QED BY <1>2, Invariance, PTL
-----------------------------------------------------------------------------
(***************************************************************************)
(* The threads use each fifo as CircularFifo assumes.                      *)
(***************************************************************************)
\* The writer or the reader of the fifo of r has been careless.
Careless(r) == InPlace(r) # Cardinality(Buffer)

\* That is when buffers of r have been destroyed.
CarelessMeans == \A r \in Receiver : Careless(r) <=> InPool(r) # Buffer

LEMMA CarelessIsLoss == IInv => CarelessMeans
<1> SUFFICES ASSUME IInv, NEW r \in Receiver PROVE Careless(r) <=> InPool(r) # Buffer
  BY DEF CarelessMeans
<1>1. /\ Places(r) \in Seq(Buffer \cup {NoBuffer}) /\ Once(Places(r), Buffer)
      /\ ToSet(Places(r)) \cap Buffer = InPool(r)
  BY PlacesApart
<1>2. {i \in DOMAIN Places(r) : Places(r)[i] # NoBuffer} = Where(Places(r), Buffer)
  BY <1>1, Typed DEF IInv, Where
<1>3. Cardinality(Where(Places(r), Buffer)) = Cardinality(InPool(r))
  <2> HIDE DEF Places, Buffer
  <2> QED BY <1>1, OnceCount
<1>4. IsFiniteSet(Buffer) BY FifoSizeAssumption, FS_Interval DEF Buffer
<1>5. InPool(r) \in SUBSET Buffer BY DEF InPool
<1>6. Cardinality(InPool(r)) = Cardinality(Buffer) => InPool(r) = Buffer BY <1>4, <1>5, FS_Subset
<1> QED BY <1>2, <1>3, <1>6 DEF Careless, InPlace

\* At first each fifo is as CircularFifo begins.
LEMMA FifosInit == Init => \A r \in Receiver : Fifo(r)!Init
<1> SUFFICES ASSUME Init, NEW r \in Receiver PROVE Fifo(r)!Init OBVIOUS
<1>1. IInv BY InitInvariant
<1>2. free[r] = [i \in Buffer |-> i] /\ filled[r] = << >> BY DEF Init, FifoInit
<1>3. raw[r] = NoBuffer /\ frames[r] = NoBuffer /\ asmStopped = FALSE
  BY DEF Init, ReceiverInit, AssemblerInit
<1>4. InPool(r) = Buffer
  <2>1. ToSet(free[r]) = Buffer BY <1>2 DEF ToSet
  <2> QED BY <2>1 DEF InPool
<1>5. ~Careless(r) BY <1>1, <1>4, CarelessIsLoss DEF CarelessMeans
<1> QED BY <1>2, <1>3, <1>5 DEF Fifo!Init, Fifo!Pool, Fifo!None, Buffer, NoBuffer, Careless

\* Every step is one of CircularFifo in each fifo, or invisible there.
LEMMA FifosStep ==
    IInv /\ CarelessMeans /\ CarelessMeans' /\ [Next]_vars
        => \A r \in Receiver : [Fifo(r)!Next]_(Fifo(r)!vars)
<1> SUFFICES ASSUME IInv, CarelessMeans, CarelessMeans', [Next]_vars, NEW r \in Receiver
             PROVE  [Fifo(r)!Next]_(Fifo(r)!vars)
  OBVIOUS
<1>0. TypeOK /\ RawKept /\ FramesKept /\ BuffersApart /\ ThreadsKept BY DEF IInv
<1>1. /\ free[r] \in Seq(Buffer) /\ filled[r] \in Seq(Buffer)
      /\ ToSet(free[r]) \subseteq Buffer /\ ToSet(filled[r]) \subseteq Buffer
      /\ NoBuffer \notin Buffer /\ Once(free[r], Buffer) /\ Once(filled[r], Buffer)
      /\ Apart(r)
  BY <1>0, Typed DEF BuffersApart, Apart
<1>2. (Careless(r) <=> InPool(r) # Buffer) /\ (Careless(r)' <=> InPool(r)' # Buffer)
  BY DEF CarelessMeans
<1>3. ASSUME NEW q \in Seq(Buffer), q # << >>, Once(q, Buffer)
      PROVE  Head(q) \in Buffer /\ ToSet(q) = ToSet(Tail(q)) \cup {Head(q)}
  <2> HIDE DEF Buffer
  <2> QED BY <1>3, TailOnce
<1>4. ASSUME NEW q \in Seq(Buffer), NEW b \in Buffer, Once(q, Buffer), b \notin ToSet(q)
      PROVE  ToSet(Append(q, b)) = ToSet(q) \cup {b}
  <2> HIDE DEF Buffer
  <2> QED BY <1>4, AppendOnce
<1>5. ASSUME UNCHANGED <<free[r], filled[r], raw[r], frames[r], asmStopped>>
      PROVE  UNCHANGED Fifo(r)!vars
  <2>1. Places(r)' = Places(r) BY <1>5 DEF Places
  <2>2. InPlace(r)' = InPlace(r) BY <2>1 DEF InPlace
  <2> QED BY <1>5, <2>2 DEF Fifo!vars
\* The receiving thread.
<1>6. ASSUME NEW s \in Receiver, Receiving(s), s # r PROVE UNCHANGED Fifo(r)!vars
  <2>1. UNCHANGED <<free[r], filled[r], raw[r], frames[r], asmStopped>>
    BY <1>0, <1>6 DEF TypeOK, Receiving, Receive, assemblerVars, fifoVars, CheckStopped, TakeFree,
       PopFree, CallRecvInto, RunRecvInto, Grab, Account, PassOn, PushValue, Goto, SendOn
  <2> QED BY <1>5, <2>1
<1>7. CASE TakeFree(r) /\ UNCHANGED assemblerVars
  <2> USE <1>7 DEF TakeFree, PopFree, assemblerVars
  <2>1. raw[r] = NoBuffer BY <1>0 DEF RawKept, HasRaw
  <2>2. free'[r] = Tail(free[r]) /\ raw'[r] = Head(free[r]) BY <1>0 DEF TypeOK
  <2>3. InPool(r)' = InPool(r) BY <1>1, <1>3, <2>1, <2>2 DEF InPool
  <2>4. Fifo(r)!PopFree
    BY <1>2, <2>1, <2>2, <2>3 DEF Fifo!PopFree, Fifo!None, NoBuffer, Careless
  <2> QED BY <2>4 DEF Fifo!Next, Fifo!Writer
<1>8. CASE Account(r) /\ UNCHANGED assemblerVars
  <2> USE <1>8 DEF Account, fifoVars, assemblerVars
  <2>1. CASE UNCHANGED raw BY <1>5, <2>1
  <2>2. CASE ~UNCHANGED raw
    <3>1. raw[r] \in Buffer /\ raw'[r] = NoBuffer BY <1>0, <2>2 DEF RawKept, HasRaw, TypeOK
    <3>2. raw[r] \notin InPool(r)'
      BY <1>1, <3>1 DEF InPool, Apart, Queued
    <3>3. Careless(r)' BY <1>2, <3>1, <3>2
    <3>4. Fifo(r)!WriterDrops
      BY <1>1, <3>1, <3>3 DEF Fifo!WriterDrops, Fifo!None, NoBuffer, Careless
    <3> QED BY <3>4 DEF Fifo!Next, Fifo!Writer
  <2> QED BY <2>1, <2>2
<1>9. CASE PassOn(r) /\ UNCHANGED assemblerVars
  <2> USE <1>9 DEF PassOn, PushValue, Moved, assemblerVars
  <2>1. raw[r] \in Buffer /\ raw[r] \notin ToSet(filled[r])
    BY <1>0, <1>1 DEF RawKept, HasRaw, Apart, Queued
  <2>2. filled'[r] = Append(filled[r], raw[r]) /\ raw'[r] = NoBuffer BY <1>0 DEF TypeOK
  <2>3. InPool(r)' = InPool(r) BY <1>1, <1>4, <2>1, <2>2 DEF InPool
  <2>4. Fifo(r)!PushValue
    BY <1>1, <1>2, <2>1, <2>2, <2>3 DEF Fifo!PushValue, Fifo!None, Fifo!HasRoom, NoBuffer, Careless
  <2> QED BY <2>4 DEF Fifo!Next, Fifo!Writer
<1>10. CASE Receiving(r)
  <2>1. CASE TakeFree(r) \/ Account(r) \/ PassOn(r) BY <1>7, <1>8, <1>9, <1>10, <2>1 DEF Receiving
  <2>2. CASE CheckStopped(r) \/ CallRecvInto(r) \/ RunRecvInto(r) \/ SendOn(r)
    <3>1. UNCHANGED <<free, filled, raw, frames, asmStopped>>
      BY <1>10, <2>2 DEF Receiving, CheckStopped, CallRecvInto, RunRecvInto, SendOn, Grab, fifoVars, assemblerVars
    <3> QED BY <1>5, <3>1
  <2> QED BY <1>10, <2>1, <2>2 DEF Receiving, Receive
\* The assembling thread.
<1>11. ASSUME NEW s \in Receiver, frames[s] = NoBuffer, PopValue(s),
              frames' = [frames EXCEPT ![s] = Head(filled[s])], UNCHANGED <<free, raw, asmStopped>>
       PROVE  [Fifo(r)!Next]_(Fifo(r)!vars)
  <2> USE <1>11 DEF PopValue
  <2>1. CASE s # r
    <3>1. filled'[r] = filled[r] /\ frames'[r] = frames[r] BY <1>0, <2>1 DEF TypeOK
    <3> QED BY <1>5, <3>1
  <2>2. CASE s = r
    <3>1. filled'[r] = Tail(filled[r]) /\ frames'[r] = Head(filled[r]) BY <1>0, <2>2 DEF TypeOK
    <3>2. InPool(r)' = InPool(r) BY <1>1, <1>3, <2>2, <3>1 DEF InPool
    <3>3. Fifo(r)!PopValue
      BY <1>2, <2>2, <3>1, <3>2 DEF Fifo!PopValue, Fifo!Reading, Fifo!None, NoBuffer, Careless
    <3> QED BY <3>3 DEF Fifo!Next, Fifo!Reader
  <2> QED BY <2>1, <2>2
<1>12. ASSUME NEW s \in Receiver, frames[s] \in Buffer, PushFree(s, frames[s]),
              frames' = [frames EXCEPT ![s] = Moved(@)], UNCHANGED <<filled, raw, asmStopped>>
       PROVE  [Fifo(r)!Next]_(Fifo(r)!vars)
  <2> USE <1>12 DEF PushFree, Moved
  <2>1. CASE s # r
    <3>1. free'[r] = free[r] /\ frames'[r] = frames[r] BY <1>0, <2>1 DEF TypeOK
    <3> QED BY <1>5, <3>1
  <2>2. CASE s = r
    <3>1. free'[r] = Append(free[r], frames[r]) /\ frames'[r] = NoBuffer BY <1>0, <2>2 DEF TypeOK
    <3>2. frames[r] \notin ToSet(free[r]) BY <1>1, <2>2 DEF Apart, Queued
    <3>3. InPool(r)' = InPool(r) BY <1>1, <1>4, <2>2, <3>1, <3>2 DEF InPool
    <3>4. frames[r] # -1 BY <2>2 DEF Buffer
    <3>5. Fifo(r)!PushFree
      BY <1>1, <1>2, <2>2, <3>1, <3>3, <3>4
         DEF Fifo!PushFree, Fifo!Reading, Fifo!None, Fifo!Own, Fifo!HasRoom, NoBuffer, Careless
    <3> QED BY <3>5 DEF Fifo!Next, Fifo!Reader
  <2> QED BY <2>1, <2>2
<1>13. ASSUME Leave, UNCHANGED <<free, filled, raw, asmStopped>>
       PROVE  [Fifo(r)!Next]_(Fifo(r)!vars)
  <2>1. frames'[r] = NoBuffer BY <1>13 DEF Leave
  <2>2. CASE frames[r] = NoBuffer BY <1>5, <1>13, <2>1, <2>2
  <2>3. CASE frames[r] # NoBuffer
    <3>1. frames[r] \in Buffer BY <1>0, <2>3 DEF TypeOK
    <3>2. frames[r] \notin InPool(r)' BY <1>1, <1>13, <2>1, <3>1 DEF InPool, Apart, Queued
    <3>3. Careless(r)' BY <1>2, <3>1, <3>2
    <3>4. Fifo(r)!ReaderDrops
      BY <1>13, <2>1, <3>1, <3>3, <2>3
         DEF Fifo!ReaderDrops, Fifo!Reading, Fifo!None, Fifo!Pool, NoBuffer, Careless, Buffer
    <3> QED BY <3>4 DEF Fifo!Next, Fifo!Reader
  <2> QED BY <2>2, <2>3
<1>14. CASE Assembling
  <2> USE <1>14, NumReceiversAssumption DEF Assembling, receiverVars, fifoVars
  <2>1. CASE CheckAsmStopped
    <3>1. UNCHANGED <<free, filled, raw, asmStopped>> /\ (Leave \/ UNCHANGED frames)
      BY <2>1 DEF CheckAsmStopped
    <3> QED BY <1>5, <1>13, <3>1
  <2>2. CASE TakeFrame
    <3>1. at \in Receiver /\ frames[at] = NoBuffer
      BY <1>0, <2>2 DEF TakeFrame, TypeOK, FramesKept, Noted, Popped, Receiver
    <3> QED BY <1>11, <2>2, <3>1 DEF TakeFrame
  <2>3. CASE NoteNumber
    <3>1. UNCHANGED <<free, filled, raw, asmStopped>> /\ (Leave \/ UNCHANGED frames)
      BY <2>3 DEF NoteNumber
    <3> QED BY <1>5, <1>13, <3>1
  <2>4. CASE DropLowest
    <3>1. LowestAt \in Receiver BY <1>0, LowestFound DEF TypeOK
    <3>2. frames[LowestAt] \in Buffer BY <1>0, <2>4, <3>1 DEF DropLowest, FramesKept, Noted
    <3> QED BY <1>12, <2>4, <3>1, <3>2 DEF DropLowest
  <2>5. CASE TakeAnother
    <3>1. at \in Receiver /\ frames[at] = NoBuffer
      BY <1>0, <2>5 DEF TakeAnother, TypeOK, FramesKept, Noted, Popped
    <3> QED BY <1>11, <2>5, <3>1 DEF TakeAnother
  <2>6. CASE ProcessPart
    <3>1. at \in Receiver /\ frames[at] \in Buffer
      BY <1>0, <2>6 DEF ProcessPart, TypeOK, FramesKept, Noted, Receiver
    <3> QED BY <1>12, <2>6, <3>1 DEF ProcessPart
  <2>7. CASE TakeNothing \/ BeginFrame
    BY <1>5, <2>7 DEF TakeNothing, BeginFrame
  <2> QED BY <2>1, <2>2, <2>3, <2>4, <2>5, <2>6, <2>7 DEF Assemble
\* Main.
<1>15. CASE MainStopsAssembler
  <2> USE <1>15 DEF MainStopsAssembler, SetAsmStopped, receiverVars, fifoVars
  <2>1. ~asmStopped /\ asmStopped' = TRUE BY <1>0 DEF TypeOK, ThreadsKept
  <2>2. Places(r)' = Places(r) BY DEF Places
  <2>3. Careless(r)' = Careless(r) BY <2>2 DEF Careless, InPlace
  <2>4. Fifo(r)!Stop BY <2>1, <2>3 DEF Fifo!Stop, Careless
  <2> QED BY <2>4 DEF Fifo!Next
<1>16. CASE (Main \/ Quit) /\ ~MainStopsAssembler
  <2>1. UNCHANGED <<free, filled, raw, frames, asmStopped>>
    BY <1>16 DEF Main, Quit, MainStartsReceiver, StartReceiving, MainStartsAssembler, StartAssembling,
       MainStopsReceiver, SetStopped, MainRequestsStop, RequestStop, MainJoinsReceiver,
       MainJoinsAssembler, fifoVars, receiverVars, assemblerVars
  <2> QED BY <1>5, <2>1
<1>17. CASE UNCHANGED vars
  BY <1>5, <1>17 DEF vars, fifoVars, receiverVars, assemblerVars
<1> QED BY <1>6, <1>10, <1>14, <1>15, <1>16, <1>17 DEF Next

(***************************************************************************)
(* The threads use each fifo as CircularFifo assumes: one of them at each  *)
(* end of a queue, and what is pushed is what was popped.                  *)
(***************************************************************************)
THEOREM Implementation == Spec => FifosKept
<1>1. Init => \A r \in Receiver : Fifo(r)!Init BY FifosInit
<1>2. Spec => []CarelessMeans BY Invariance, CarelessIsLoss, PTL
<1>3. IInv /\ CarelessMeans /\ CarelessMeans' /\ [Next]_vars
        => [\A r \in Receiver : [Fifo(r)!Next]_(Fifo(r)!vars)]_vars
  BY FifosStep
<1> QED BY <1>1, <1>2, <1>3, Invariance, PTL DEF Spec, FifosKept
-----------------------------------------------------------------------------
(***************************************************************************)
(* The order of the frames, on a network that can lose packets and do      *)
(* nothing else to them: receivers deliver ever higher numbers, and the    *)
(* assembling thread keeps to their order.                                 *)
(***************************************************************************)
Orderly == network \subseteq {"loss"}

\* The number at position i of the filled queue of r, and that of its frame in hand.
Waiting(r, i) == content[r][filled[r][i]]
Holding(r) == content[r][frames[r]]

\* What the grabber of r is to collect next lies above all it has collected.
Above(r, n) == \A f \in delivered[r] : f < n
Collected(r) == grabber[r].pc = "fill" \/ (rpc[r] \in {"account", "push"} /\ ~grabber[r].lost)
Upward(r) ==
    LET g == grabber[r]
    IN  /\ g.pc # "idle" <=> rpc[r] = "recv"
        /\ g.pc # "idle" => g.lost /\ g.cached = G!None
        /\ rpc[r] = "push" => ~g.lost
        /\ \A f \in delivered[r] : f <= g.seen
        /\ g.cached # G!None => g.cached = g.seen /\ Above(r, g.seen) /\ g.tail # "left"
        /\ g.tail = "left" => Above(r, g.seen)
        /\ Collected(r) => /\ g.cached = G!None /\ g.tail # "left"
                           /\ content[r][raw[r]] = g.seen /\ g.cur = g.seen /\ Above(r, g.seen)

\* The frames of r wait in the order of their numbers, the one in hand in front.
Queueing(r) ==
    /\ \A i, j \in DOMAIN filled[r] : i < j => Waiting(r, i) < Waiting(r, j)
    /\ \A i \in DOMAIN filled[r] : Waiting(r, i) \in delivered[r]
    /\ frames[r] \in Buffer => /\ Holding(r) \in delivered[r]
                               /\ \A i \in DOMAIN filled[r] : Holding(r) < Waiting(r, i)

\* What has been processed lies below all that waits.
Past(r) ==
    \A p \in processed :
        /\ p \in delivered[r]
        /\ \A i \in DOMAIN filled[r] : p < Waiting(r, i)
        /\ frames[r] \in Buffer => IF apc = "process" THEN p <= Holding(r) ELSE p < Holding(r)

\* Frame f is not lost to the assembler: unless it has passed at some receiver
\* without being delivered, all parts delivered are to be had.
Kept(f) == \/ f \in processed \/ apc = "done"
           \/ \A r \in Receiver : f \in delivered[r] => InHand(r, f)
           \/ \E r \in Receiver : f \notin delivered[r] /\ \E d \in delivered[r] : f < d

OInv == /\ Orderly
        /\ \A r \in Receiver : Upward(r) /\ Queueing(r) /\ Past(r)
        /\ apc = "process" => numbers[1] \in processed
        /\ \A f \in 0 .. MaxFrame : Kept(f)
-----------------------------------------------------------------------------
\* At first nothing has a number.
LEMMA OrderInit == Init /\ Orderly => OInv
<1> SUFFICES ASSUME Init, Orderly PROVE OInv OBVIOUS
<1> USE DEF Init, ReceiverInit, FifoInit, AssemblerInit
<1>1. ASSUME NEW r \in Receiver PROVE Upward(r) /\ Queueing(r) /\ Past(r)
  <2>1. Upward(r) BY DEF Upward, Collected, Above, G!New, G!None
  <2>2. frames[r] \notin Buffer BY DEF NoBuffer, Buffer
  <2> QED BY <2>1, <2>2 DEF Queueing, Past
<1>2. ASSUME NEW f \in 0 .. MaxFrame PROVE Kept(f) BY DEF Kept
<1> QED BY <1>1, <1>2 DEF OInv

\* What IInv says of the numbers.
LEMMA NumbersTyped ==
    ASSUME IInv
    PROVE  /\ \A r \in Receiver : /\ delivered[r] \in SUBSET (0 .. MaxFrame) /\ delivered[r] \in SUBSET Nat
                                  /\ filled[r] \in Seq(Buffer)
                                  /\ grabber[r] \in G!Grabber /\ grabber[r].seen \in Nat
                                  /\ frames[r] \in Buffer \cup {NoBuffer} /\ NoBuffer \notin Buffer
           /\ \A r \in Receiver, b \in Buffer : content[r][b] \in 0 .. MaxFrame /\ content[r][b] \in Nat
           /\ \A r \in Receiver : \A i \in DOMAIN filled[r] :
                  filled[r][i] \in Buffer /\ Waiting(r, i) \in 0 .. MaxFrame /\ Waiting(r, i) \in Nat
           /\ processed \in SUBSET (0 .. MaxFrame) /\ processed \in SUBSET Nat
<1> USE MaxFrameAssumption
<1>1. TypeOK BY DEF IInv
<1>2. \A r \in Receiver : /\ delivered[r] \in SUBSET (0 .. MaxFrame) /\ delivered[r] \in SUBSET Nat
                          /\ filled[r] \in Seq(Buffer)
  <2>1. \A r \in Receiver : filled[r] \in Seq(Buffer) BY <1>1 DEF TypeOK
  <2>2. \A r \in Receiver : delivered[r] \in SUBSET (0 .. MaxFrame) BY <1>1 DEF TypeOK
  <2>3. 0 .. MaxFrame \subseteq Nat OBVIOUS
  <2> QED BY <2>1, <2>2, <2>3
<1>3. \A r \in Receiver : grabber[r] \in G!Grabber /\ grabber[r].seen \in Nat
  BY <1>1 DEF TypeOK, G!Grabber
<1>4. \A r \in Receiver : frames[r] \in Buffer \cup {NoBuffer} /\ NoBuffer \notin Buffer
  BY <1>1, Typed DEF TypeOK
<1>5. \A r \in Receiver, b \in Buffer : content[r][b] \in 0 .. MaxFrame /\ content[r][b] \in Nat
  BY <1>1 DEF TypeOK
<1>6. \A r \in Receiver : \A i \in DOMAIN filled[r] :
          filled[r][i] \in Buffer /\ Waiting(r, i) \in 0 .. MaxFrame /\ Waiting(r, i) \in Nat
  <2> HIDE DEF Buffer
  <2> QED BY <1>2, <1>5 DEF Waiting
<1>7. processed \in SUBSET (0 .. MaxFrame) /\ processed \in SUBSET Nat BY <1>1 DEF TypeOK
<1> QED BY <1>2, <1>3, <1>4, <1>5, <1>6, <1>7

\* Where what waits stays as it is.
LEMMA LineStays ==
    ASSUME IInv, NEW r \in Receiver, UNCHANGED <<filled[r], frames[r], delivered[r]>>,
           \A b \in Buffer : b \in ToSet(filled[r]) \/ b = frames[r] => content'[r][b] = content[r][b]
    PROVE  /\ Queueing(r) => Queueing(r)'
           /\ UNCHANGED <<processed, apc>> /\ Past(r) => Past(r)'
           /\ \A f : InHand(r, f)' <=> InHand(r, f)
<1>1. \A i \in DOMAIN filled[r] : filled[r][i] \in Buffer /\ filled[r][i] \in ToSet(filled[r])
  BY NumbersTyped DEF ToSet
<1>2. \A i \in DOMAIN filled[r] : Waiting(r, i)' = Waiting(r, i) BY <1>1 DEF Waiting
<1>3. frames[r] \in Buffer => Holding(r)' = Holding(r) BY DEF Holding
<1>4. Queueing(r) => Queueing(r)' BY <1>2, <1>3 DEF Queueing
<1>5. UNCHANGED <<processed, apc>> /\ Past(r) => Past(r)' BY <1>2, <1>3 DEF Past
<1>6. \A f : InHand(r, f)' <=> InHand(r, f)
  BY <1>2, <1>3, NumbersTyped DEF InHand, Waiting, Holding
<1> QED BY <1>4, <1>5, <1>6

\* What is there of frame f stays there.
LEMMA KeptStays ==
    ASSUME NEW f, Kept(f), processed \subseteq processed', apc = "done" => apc' = "done",
           UNCHANGED delivered, \A r \in Receiver : InHand(r, f) => InHand(r, f)'
    PROVE  Kept(f)'
BY DEF Kept
-----------------------------------------------------------------------------
\* A step of the receiving thread of r is invisible at the other receivers,
\* and the frames the assembling thread may get hold of stay as they are.
LEMMA ReceivingIsLocal ==
    ASSUME IInv, NEW r \in Receiver, Receiving(r)
    PROVE  /\ \A s \in Receiver : s # r =>
                  UNCHANGED <<grabber[s], rpc[s], raw[s], content[s], delivered[s], filled[s]>>
           /\ UNCHANGED <<network, processed, apc, frames, numbers, asmStopped>>
           /\ \A s \in Receiver : \A b \in Buffer :
                  b \in ToSet(filled[s]) \/ b = frames[s] => content'[s][b] = content[s][b]
<1> USE DEF Receiving, assemblerVars
<1>1. TypeOK /\ RawKept /\ BuffersApart BY DEF IInv
<1>2. \A s \in Receiver : s # r => UNCHANGED <<grabber[s], rpc[s], raw[s], delivered[s], filled[s]>>
  BY <1>1 DEF TypeOK, Receive, CheckStopped, TakeFree, CallRecvInto, RunRecvInto, Grab, Account, PassOn,
     PushValue, SendOn, Goto, fifoVars
<1>3. \/ content' = content
      \/ HasRaw(r) /\ \E f : content' = [content EXCEPT ![r][raw[r]] = f]
  BY DEF Receive, CheckStopped, TakeFree, CallRecvInto, RunRecvInto, Grab, Account, PassOn,
     PushValue, SendOn, fifoVars, HasRaw
<1>4. \A s \in Receiver : s # r => content'[s] = content[s] BY <1>1, <1>3 DEF TypeOK
<1>5. \A b \in Buffer : b # raw[r] \/ ~HasRaw(r) => content'[r][b] = content[r][b]
  BY <1>1, <1>3 DEF TypeOK
<1>6. HasRaw(r) => raw[r] \notin ToSet(filled[r]) /\ raw[r] # frames[r]
  BY <1>1 DEF RawKept, BuffersApart, Apart, Queued
<1> QED BY <1>2, <1>4, <1>5, <1>6

\* The receiving thread goes on without passing a frame on.
LEMMA CollectingStep ==
    ASSUME IInv, OInv, NEW r \in Receiver, Receiving(r), ~PassOn(r)
    PROVE  OInv'
<1> USE DEF Receiving
<1>1. TypeOK /\ RawKept BY DEF IInv
<1>2. /\ UNCHANGED <<network, processed, apc, frames, numbers, filled, delivered>>
      /\ \A s \in Receiver : \A b \in Buffer :
             b \in ToSet(filled[s]) \/ b = frames[s] => content'[s][b] = content[s][b]
      /\ \A s \in Receiver : s # r => UNCHANGED <<grabber[s], rpc[s], raw[s], content[s]>>
  <2>1. UNCHANGED <<filled, delivered>>
    BY DEF Receive, CheckStopped, TakeFree, PopFree, CallRecvInto, RunRecvInto, Grab, Account, SendOn, fifoVars
  <2> QED BY <2>1, ReceivingIsLocal
<1>3. \A s \in Receiver : Queueing(s)' /\ Past(s)' BY <1>2, LineStays DEF OInv
<1>4. \A f \in 0 .. MaxFrame : Kept(f)' BY <1>2, LineStays, KeptStays DEF OInv
<1>5. ASSUME NEW s \in Receiver, s # r PROVE Upward(s)'
  <2>1. Upward(s) BY DEF OInv
  <2> QED BY <1>2, <1>5, <2>1 DEF Upward, Collected, Above
<1>6. Upward(r)'
  <2> DEFINE g == grabber[r]
  <2>1. Upward(r) /\ delivered'[r] = delivered[r] BY <1>2 DEF OInv
  <2>2. g \in G!Grabber BY <1>1 DEF TypeOK
  <2>3. Faults \subseteq {"loss"} /\ ~G!Silent /\ ~G!Messy /\ ~Endless
    BY DEF OInv, Orderly, Faults, G!Silent, G!Messy, Endless
  <2>4. delivered[r] \in SUBSET Nat BY NumbersTyped
  <2>5. CASE CheckStopped(r)
    <3>1. rpc'[r] \in {"pop", "done"} /\ rpc[r] = "check" /\ grabber'[r] = g
      BY <1>1, <2>5 DEF CheckStopped, Goto, TypeOK
    <3> QED BY <2>1, <3>1 DEF Upward, Collected, Above
  <2>6. CASE TakeFree(r)
    <3>1. rpc'[r] = "call" /\ rpc[r] = "pop" /\ grabber'[r] = g
      BY <1>1, <2>6 DEF TakeFree, Goto, TypeOK
    <3> QED BY <2>1, <3>1 DEF Upward, Collected, Above
  <2>7. CASE CallRecvInto(r)
    <3>1. PICK h \in G!Enter(g) : Grab(r, h) BY <2>7 DEF CallRecvInto
    <3>2. rpc'[r] = "recv" /\ rpc[r] = "call" /\ grabber'[r] = h /\ raw'[r] = raw[r]
      BY <1>1, <2>7, <3>1 DEF CallRecvInto, Goto, Grab, TypeOK
    <3>3. h.pc = "fill" => content'[r][raw[r]] = h.cur
      BY <1>1, <2>7, <3>1 DEF Grab, CallRecvInto, RawKept, HasRaw, TypeOK
    <3>4. /\ h.pc \in {"first", "fill"} /\ h.lost /\ h.cached = G!None /\ h.seen = g.seen /\ h.tail = g.tail
          /\ h.pc = "fill" => g.cached # G!None /\ h.cur = g.cached
      BY <2>2, <3>1 DEF G!Enter, G!Forgotten, G!Grabber
    <3> QED BY <2>1, <3>2, <3>3, <3>4 DEF Upward, Collected, Above
  <2>8. CASE RunRecvInto(r)
    <3>1. PICK h \in G!Steps(g) : Grab(r, h) /\ Goto(r, IF h.pc = "idle" THEN "account" ELSE "recv")
      BY <2>8 DEF RunRecvInto
    <3>2. /\ rpc'[r] = (IF h.pc = "idle" THEN "account" ELSE "recv") /\ rpc[r] = "recv"
          /\ grabber'[r] = h /\ raw'[r] = raw[r]
      BY <1>1, <2>8, <3>1 DEF RunRecvInto, Goto, Grab, TypeOK
    <3>3. IF h.pc = "fill" THEN content'[r][raw[r]] = h.cur ELSE content'[r] = content[r]
      BY <1>1, <2>8, <3>1 DEF Grab, RunRecvInto, RawKept, HasRaw, TypeOK
    <3>4. g.pc # "idle" /\ g.lost /\ g.cached = G!None BY <2>1, <3>2 DEF Upward
    <3>5. h \notin G!Failed(g) BY <2>3 DEF G!Failed
    <3>6. CASE h \in G!FirstPacket(g)
      <4>1. PICK f \in G!Arriving(g) :
               /\ g.pc = "first"
               /\ h = [g EXCEPT !.pc = "fill", !.cur = f, !.seen = G!Newest(g.seen, f),
                                !.tail = IF Faults = {} /\ f = g.seen THEN "begun" ELSE "none"]
        BY <3>6 DEF G!FirstPacket
      <4>2. f \in Nat /\ (f > g.seen \/ (f = g.seen /\ g.tail = "left"))
        BY <2>2, <2>3, <4>1, MaxFrameAssumption DEF G!Arriving, G!Later, G!Grabber
      <4>3. /\ h.pc = "fill" /\ h.cur = f /\ h.seen = f /\ h.tail # "left"
            /\ h.lost = g.lost /\ h.cached = g.cached
        BY <2>2, <4>1, <4>2 DEF G!Newest, G!Grabber
      <4>4. Above(r, f)
        BY <2>1, <2>2, <2>4, <4>2 DEF Upward, Above, G!Grabber
      <4> QED BY <2>1, <2>4, <3>2, <3>3, <3>4, <4>2, <4>3, <4>4 DEF Upward, Collected, Above
    <3>7. CASE h \in G!FirstStopped(g)
      <4>1. h.pc = "idle" /\ h.lost = g.lost /\ h.cached = g.cached /\ h.seen = g.seen /\ h.tail = g.tail
        BY <2>2, <3>7 DEF G!FirstStopped, G!Grabber
      <4> QED BY <2>1, <3>2, <3>4, <4>1 DEF Upward, Collected, Above
    <3>8. CASE h \in G!Whole(g)
      <4>1. /\ g.pc = "fill" /\ h.pc = "idle" /\ h.lost = FALSE /\ h.tail = "none"
            /\ h.cached = g.cached /\ h.seen = g.seen /\ h.cur = g.cur
        BY <2>2, <2>3, <3>8 DEF G!Whole, G!Grabber
      <4> QED BY <2>1, <3>2, <3>3, <3>4, <4>1 DEF Upward, Collected, Above
    <3>9. CASE h \in G!Cut(g)
      <4>1. PICK f \in G!Later(g.seen) :
                /\ g.pc = "fill"
                /\ h = [g EXCEPT !.pc = "idle", !.cached = f, !.seen = G!Newest(g.seen, f), !.tail = "none"]
        BY <2>3, <3>9 DEF G!Cut
      <4>2. f \in Nat /\ f > g.seen BY <2>2, <4>1, MaxFrameAssumption DEF G!Later, G!Grabber
      <4>3. h.pc = "idle" /\ h.lost = g.lost /\ h.cached = f /\ h.seen = f /\ h.tail = "none"
        BY <2>2, <4>1, <4>2 DEF G!Newest, G!Grabber
      <4>4. Above(r, f) BY <2>1, <2>2, <2>4, <4>2 DEF Upward, Above, G!Grabber
      <4> QED BY <2>1, <2>4, <3>2, <3>4, <4>2, <4>3, <4>4 DEF Upward, Collected, Above
    <3>10. CASE h \in G!GivenUp(g)
      <4>1. /\ g.pc = "fill" /\ h.pc = "idle" /\ h.lost = g.lost /\ h.tail \in {"none", "left"}
            /\ h.cached = g.cached /\ h.seen = g.seen
        BY <2>2, <3>10 DEF G!GivenUp, G!Grabber
      <4> QED BY <2>1, <3>2, <3>4, <4>1 DEF Upward, Collected, Above
    <3> QED BY <3>1, <3>5, <3>6, <3>7, <3>8, <3>9, <3>10 DEF G!Steps
  <2>9. CASE Account(r)
    <3>1. /\ rpc[r] = "account" /\ grabber'[r] = g /\ content' = content
          /\ rpc'[r] = (IF g.lost THEN "check" ELSE "push")
          /\ ~g.lost => raw'[r] = raw[r]
      BY <1>1, <2>9 DEF Account, Goto, TypeOK, fifoVars
    <3> QED BY <2>1, <3>1 DEF Upward, Collected, Above
  <2> QED BY <2>3, <2>5, <2>6, <2>7, <2>8, <2>9 DEF Receive, SendOn
<1>7. Orderly' BY <1>2 DEF Orderly, OInv
<1>8. (apc = "process" => numbers[1] \in processed)' BY <1>2 DEF OInv
<1>9. \A s \in Receiver : Upward(s)' BY <1>5, <1>6
<1> QED BY <1>3, <1>4, <1>7, <1>8, <1>9 DEF OInv

\* It passes a frame on, with a number above all that came before.
LEMMA PassingOn ==
    ASSUME IInv, OInv, NEW r \in Receiver, Receiving(r), PassOn(r)
    PROVE  OInv'
<1> USE DEF Receiving
<1>1. TypeOK /\ RawKept BY DEF IInv
<1> PICK n, k : n = content[r][raw[r]] /\ k = Len(filled[r]) + 1 OBVIOUS
<1>2. /\ UNCHANGED <<network, processed, apc, frames, numbers, content, grabber>>
      /\ \A s \in Receiver : s # r => UNCHANGED <<rpc[s], raw[s], delivered[s], filled[s]>>
  BY ReceivingIsLocal DEF PassOn
<1>3. /\ delivered'[r] = delivered[r] \cup {n} /\ filled'[r] = Append(filled[r], raw[r])
      /\ rpc[r] = "push" /\ rpc'[r] = "check" /\ raw[r] \in Buffer
  BY <1>1 DEF TypeOK, PassOn, PushValue, Goto, RawKept, HasRaw
<1>4. /\ grabber[r].cached = G!None /\ grabber[r].tail # "left" /\ grabber[r].pc = "idle"
      /\ n = grabber[r].seen /\ Above(r, n)
  BY <1>3 DEF OInv, Upward, Collected
<1>5. n \in Nat /\ n \in 0 .. MaxFrame BY <1>3, NumbersTyped
<1>6. delivered[r] \in SUBSET Nat /\ filled[r] \in Seq(Buffer) /\ k \in Nat BY NumbersTyped
<1>7. /\ DOMAIN filled[r] = 1 .. k - 1 /\ DOMAIN filled'[r] = 1 .. k
      /\ \A i \in 1 .. k - 1 : filled'[r][i] = filled[r][i]
      /\ filled'[r][k] = raw[r]
  <2> HIDE DEF Buffer
  <2> QED BY <1>3, <1>6
<1>8. (\A i \in 1 .. k - 1 : Waiting(r, i)' = Waiting(r, i)) /\ Waiting(r, k)' = n
  <2>1. content' = content BY <1>2
  <2>2. ASSUME NEW i \in 1 .. k - 1 PROVE Waiting(r, i)' = Waiting(r, i)
    <3>1. filled'[r][i] = filled[r][i] BY <1>7
    <3> QED BY <2>1, <3>1 DEF Waiting
  <2>3. Waiting(r, k)' = n
    <3>1. filled'[r][k] = raw[r] BY <1>7
    <3> QED BY <2>1, <3>1 DEF Waiting
  <2> QED BY <2>2, <2>3
<1>9. frames'[r] = frames[r] /\ Holding(r)' = Holding(r) BY <1>2 DEF Holding
<1>10. ASSUME NEW s \in Receiver PROVE Upward(s)' /\ Queueing(s)' /\ Past(s)'
  <2>1. Upward(s) /\ Queueing(s) /\ Past(s) BY DEF OInv
  <2>2. CASE s # r
    <3>1. Upward(s)' BY <1>2, <2>1, <2>2 DEF Upward, Collected, Above
    <3> QED BY <1>2, <2>1, <2>2, <3>1, LineStays
  <2>3. CASE s = r
    <3>1. Upward(s)' BY <1>2, <1>3, <1>4, <1>5, <1>6, <2>1, <2>3 DEF Upward, Collected, Above
    <3>2. \A i \in 1 .. k - 1 : Waiting(r, i) \in delivered[r] /\ Waiting(r, i) < n
      BY <1>4, <1>7, <2>1, <2>3 DEF Queueing, Above
    <3>3. \A i \in 1 .. k : i = k \/ i \in 1 .. k - 1 BY <1>6
    <3>4. \A i, j \in 1 .. k : i < j => Waiting(r, i)' < Waiting(r, j)'
      <4> SUFFICES ASSUME NEW i \in 1 .. k, NEW j \in 1 .. k, i < j
                   PROVE  Waiting(r, i)' < Waiting(r, j)'
        OBVIOUS
      <4>1. i \in 1 .. k - 1 BY <1>6
      <4>2. CASE j = k BY <1>8, <3>2, <4>1, <4>2
      <4>3. CASE j # k
        <5>1. j \in 1 .. k - 1 BY <3>3, <4>3
        <5> QED BY <1>7, <1>8, <2>1, <2>3, <4>1, <5>1 DEF Queueing
      <4> QED BY <4>2, <4>3
    <3>5. \A i \in 1 .. k : Waiting(r, i)' \in delivered'[r] BY <1>3, <1>8, <3>2, <3>3
    <3>6. frames[r] \in Buffer => /\ Holding(r) \in delivered[r] /\ Holding(r) < n
                                  /\ \A i \in 1 .. k : Holding(r) < Waiting(r, i)'
      BY <1>4, <1>7, <1>8, <2>1, <2>3, <3>3 DEF Queueing, Above
    <3>7. Queueing(s)' BY <1>3, <1>7, <1>9, <2>3, <3>4, <3>5, <3>6 DEF Queueing
    <3>8. \A p \in processed : p \in delivered[r] /\ p < n /\ \A i \in 1 .. k : p < Waiting(r, i)'
      BY <1>4, <1>7, <1>8, <2>1, <2>3, <3>3 DEF Past, Above
    <3>9. Past(s)' BY <1>2, <1>3, <1>7, <1>9, <2>1, <2>3, <3>8 DEF Past
    <3> QED BY <2>3, <3>1, <3>7, <3>9
  <2> QED BY <2>2, <2>3
<1>11. ASSUME NEW f \in 0 .. MaxFrame PROVE Kept(f)'
  <2>1. Kept(f) BY DEF OInv
  <2>2. \A s \in Receiver : InHand(s, f) => InHand(s, f)'
    <3> SUFFICES ASSUME NEW s \in Receiver, InHand(s, f) PROVE InHand(s, f)' OBVIOUS
    <3>1. CASE s # r BY <1>2, <3>1 DEF InHand
    <3>2. CASE s = r
      <4>1. \A i \in 1 .. k - 1 : i \in 1 .. k BY <1>6
      <4> QED BY <1>2, <1>7, <3>2, <4>1 DEF InHand
    <3> QED BY <3>1, <3>2
  <2>3. f = n => InHand(r, f)'
    <3>1. k \in 1 .. k BY <1>6
    <3> QED BY <1>2, <1>7, <3>1 DEF InHand
  <2>4. \A s \in Receiver : f \in delivered'[s] => f \in delivered[s] \/ (s = r /\ f = n)
    BY <1>2, <1>3
  <2>5. \A s \in Receiver : delivered[s] \subseteq delivered'[s] BY <1>2, <1>3
  <2>6. CASE f \in processed \/ apc = "done" BY <1>2, <2>6 DEF Kept
  <2>7. CASE \A s \in Receiver : f \in delivered[s] => InHand(s, f)
    BY <2>2, <2>3, <2>4, <2>7 DEF Kept
  <2>8. CASE \E s \in Receiver : f \notin delivered[s] /\ \E d \in delivered[s] : f < d
    <3>1. PICK s \in Receiver : f \notin delivered[s] /\ \E d \in delivered[s] : f < d BY <2>8
    <3>2. PICK d \in delivered[s] : f < d BY <3>1
    <3>3. s = r => f # n BY <1>4, <1>5, <1>6, <3>1, <3>2 DEF Above
    <3> QED BY <2>4, <2>5, <3>1, <3>2, <3>3 DEF Kept
  <2> QED BY <2>1, <2>6, <2>7, <2>8 DEF Kept
<1>12. Orderly' BY <1>2 DEF Orderly, OInv
<1>13. (apc = "process" => numbers[1] \in processed)' BY <1>2 DEF OInv
<1> QED BY <1>10, <1>11, <1>12, <1>13 DEF OInv
-----------------------------------------------------------------------------
\* The assembling thread takes the frame at the front of a fifo.
LEMMA Fetching ==
    ASSUME IInv, OInv, NEW r \in Receiver, frames[r] = NoBuffer, filled[r] # << >>,
           filled' = [filled EXCEPT ![r] = Tail(@)], frames' = [frames EXCEPT ![r] = Head(filled[r])],
           UNCHANGED <<content, delivered, processed>>, apc' # "process", apc # "process"
    PROVE  /\ \A s \in Receiver : Queueing(s)' /\ Past(s)'
           /\ \A s \in Receiver, f \in 0 .. MaxFrame : InHand(s, f) => InHand(s, f)'
<1>1. TypeOK BY DEF IInv
<1>2. filled[r] \in Seq(Buffer) BY NumbersTyped
<1> PICK k : k = Len(filled[r]) OBVIOUS
<1>3. /\ k \in Nat /\ k >= 1 /\ DOMAIN filled[r] = 1 .. k
      /\ filled[r][1] \in Buffer
  <2> HIDE DEF Buffer
  <2>1. Len(filled[r]) \in Nat /\ Len(filled[r]) # 0 BY <1>2, EmptySeq
  <2> QED BY <1>2, <2>1
<1>4. /\ filled'[r] = Tail(filled[r]) /\ frames'[r] = filled[r][1]
      /\ \A s \in Receiver : s # r => UNCHANGED <<filled[s], frames[s]>>
  BY <1>1, <1>2 DEF TypeOK
<1>5. DOMAIN filled'[r] = 1 .. k - 1 /\ \A i \in 1 .. k - 1 : filled'[r][i] = filled[r][i + 1]
  <2> HIDE DEF Buffer
  <2>1. filled[r] \in Seq(Buffer) /\ filled[r] # << >> BY <1>2
  <2>2. /\ Tail(filled[r]) \in Seq(Buffer) /\ Len(Tail(filled[r])) = Len(filled[r]) - 1
        /\ \A i \in 1 .. Len(filled[r]) - 1 : Tail(filled[r])[i] = filled[r][i + 1]
    BY <2>1, HeadTailProperties
  <2>3. DOMAIN Tail(filled[r]) = 1 .. Len(Tail(filled[r])) BY <2>2
  <2> QED BY <1>4, <2>2, <2>3
<1>6. \A i \in 1 .. k - 1 : i + 1 \in 1 .. k /\ Waiting(r, i)' = Waiting(r, i + 1)
  <2> TAKE i \in 1 .. k - 1
  <2>1. content' = content /\ filled'[r][i] = filled[r][i + 1] BY <1>5
  <2> QED BY <1>3, <2>1 DEF Waiting
<1>7. Holding(r)' = Waiting(r, 1) BY <1>4 DEF Holding, Waiting
<1>8. 1 \in 1 .. k BY <1>3
<1>9. ASSUME NEW s \in Receiver PROVE Queueing(s)' /\ Past(s)'
  <2>1. Queueing(s) /\ Past(s) BY DEF OInv
  <2>2. CASE s # r
    <3>1. Queueing(s)' BY <1>4, <2>1, <2>2, LineStays
    <3>2. Past(s)' BY <1>4, <2>1, <2>2 DEF Past, Waiting, Holding
    <3> QED BY <3>1, <3>2
  <2>3. CASE s = r
    <3>1. \A i, j \in 1 .. k - 1 : i < j => Waiting(r, i)' < Waiting(r, j)'
      <4> SUFFICES ASSUME NEW i \in 1 .. k - 1, NEW j \in 1 .. k - 1, i < j
                   PROVE  Waiting(r, i)' < Waiting(r, j)'
        OBVIOUS
      <4>1. i + 1 < j + 1 OBVIOUS
      <4> QED BY <1>3, <1>6, <2>1, <2>3, <4>1 DEF Queueing
    <3>2. \A i \in 1 .. k - 1 : Waiting(r, i)' \in delivered[r] /\ Waiting(r, 1) < Waiting(r, i)'
      <4> TAKE i \in 1 .. k - 1
      <4>1. 1 < i + 1 OBVIOUS
      <4> QED BY <1>3, <1>6, <1>8, <2>1, <2>3, <4>1 DEF Queueing
    <3>3. Waiting(r, 1) \in delivered[r] BY <1>3, <1>8, <2>1, <2>3 DEF Queueing
    <3>4. Queueing(s)' BY <1>5, <1>7, <2>3, <3>1, <3>2, <3>3 DEF Queueing
    <3>5. \A p \in processed : /\ p \in delivered[r] /\ p < Waiting(r, 1)
                               /\ \A i \in 1 .. k - 1 : p < Waiting(r, i)'
      BY <1>3, <1>6, <1>8, <2>1, <2>3 DEF Past
    <3>6. Past(s)' BY <1>5, <1>7, <2>3, <3>5 DEF Past
    <3> QED BY <3>4, <3>6
  <2> QED BY <2>2, <2>3
<1>10. ASSUME NEW s \in Receiver, NEW f \in 0 .. MaxFrame, InHand(s, f) PROVE InHand(s, f)'
  <2>1. CASE s # r BY <1>4, <1>10, <2>1 DEF InHand
  <2>2. CASE s = r
    <3>1. PICK i \in 1 .. k : content[r][filled[r][i]] = f BY <1>3, <1>10, <2>2 DEF InHand
    <3>2. CASE i = 1
      <4>1. frames'[r] # NoBuffer BY <1>3, <1>4, NumbersTyped
      <4> QED BY <1>4, <2>2, <3>1, <3>2, <4>1 DEF InHand
    <3>3. CASE i # 1
      <4>1. i - 1 \in 1 .. k - 1 /\ (i - 1) + 1 = i BY <1>3, <3>3
      <4>2. content'[r][filled'[r][i - 1]] = f BY <1>5, <3>1, <4>1
      <4> QED BY <1>5, <2>2, <4>1, <4>2 DEF InHand
    <3> QED BY <3>2, <3>3
  <2> QED BY <2>1, <2>2
<1> QED BY <1>9, <1>10

\* It gives a frame back that has been processed, or that some receiver lacks.
LEMMA Returning ==
    ASSUME IInv, OInv, NEW r \in Receiver, frames[r] \in Buffer,
           frames' = [frames EXCEPT ![r] = Moved(@)],
           UNCHANGED <<content, delivered, filled, processed>>, apc # "done",
           \/ Holding(r) \in processed
           \/ \E s \in Receiver : frames[s] \in Buffer /\ Holding(r) < Holding(s)
    PROVE  /\ \A s \in Receiver : Queueing(s)'
           /\ \A f \in 0 .. MaxFrame : Kept(f)'
<1>1. TypeOK BY DEF IInv
<1>2. frames'[r] = NoBuffer /\ \A s \in Receiver : s # r => frames'[s] = frames[s]
  BY <1>1 DEF TypeOK, Moved
<1>3. ASSUME NEW s \in Receiver PROVE Queueing(s)'
  <2>1. Queueing(s) BY DEF OInv
  <2>2. CASE s # r BY <1>2, <2>1, <2>2, LineStays
  <2>3. CASE s = r BY <1>2, <2>1, <2>3, NumbersTyped DEF Queueing, Waiting
  <2> QED BY <2>2, <2>3
<1>4. ASSUME NEW f \in 0 .. MaxFrame PROVE Kept(f)'
  <2>1. Kept(f) BY DEF OInv
  <2>2. \A s \in Receiver : InHand(s, f) => InHand(s, f)' \/ (s = r /\ f = Holding(r))
    BY <1>2 DEF InHand, Holding
  <2>3. CASE f \in processed \/ \E s \in Receiver : f \notin delivered[s] /\ \E d \in delivered[s] : f < d
    BY <2>3 DEF Kept
  <2>4. CASE /\ \A s \in Receiver : f \in delivered[s] => InHand(s, f)
             /\ f \notin processed
    <3>1. CASE f # Holding(r) BY <2>2, <2>4, <3>1 DEF Kept
    <3>2. CASE f = Holding(r)
      <4>1. PICK s \in Receiver : frames[s] \in Buffer /\ f < Holding(s) BY <2>4, <3>2
      <4>2. Holding(s) \in delivered[s] /\ \A i \in DOMAIN filled[s] : Holding(s) < Waiting(s, i)
        BY <4>1 DEF OInv, Queueing
      <4>3. Holding(s) \in Nat /\ f \in Nat /\ \A i \in DOMAIN filled[s] : Waiting(s, i) \in Nat
        BY <4>1, <3>2, NumbersTyped DEF Holding
      <4>4. f # Holding(s) /\ \A i \in DOMAIN filled[s] : f # Waiting(s, i) BY <4>1, <4>2, <4>3
      <4>5. ~InHand(s, f) BY <4>4 DEF InHand, Holding, Waiting
      <4>6. f \notin delivered[s] BY <2>4, <4>5
      <4>7. delivered'[s] = delivered[s] OBVIOUS
      <4> QED BY <4>1, <4>2, <4>6, <4>7 DEF Kept
    <3> QED BY <3>1, <3>2
  <2> QED BY <2>1, <2>3, <2>4 DEF Kept
<1> QED BY <1>3, <1>4

\* No step of the assembling thread loses a frame or gets ahead of one.
LEMMA AssemblingInOrder == IInv /\ OInv /\ Assembling => OInv'
<1> SUFFICES ASSUME IInv, OInv, Assembling PROVE OInv' OBVIOUS
<1> USE NumReceiversAssumption DEF Assembling, receiverVars, fifoVars
<1>0. TypeOK /\ FramesKept BY DEF IInv
<1>1. UNCHANGED <<network, grabber, rpc, raw, delivered, content>>
  BY DEF Assemble, CheckAsmStopped, TakeFrame, TakeNothing, NoteNumber, DropLowest, TakeAnother,
     BeginFrame, ProcessPart
<1>2. \A s \in Receiver : Upward(s)' BY <1>1 DEF OInv, Upward, Collected, Above
<1>3. Orderly' BY <1>1 DEF OInv, Orderly
<1>4. NoBuffer \notin Buffer BY DEF NoBuffer, Buffer
\* No thread at work holds a frame.
<1>5. ASSUME Leave, UNCHANGED <<filled, processed>> PROVE OInv'
  <2> USE <1>5 DEF Leave
  <2>1. ASSUME NEW s \in Receiver PROVE Queueing(s)' /\ Past(s)'
    <3>1. frames'[s] = NoBuffer OBVIOUS
    <3> QED BY <1>1, <1>4, <3>1 DEF OInv, Queueing, Past, Waiting
  <2>2. \A f \in 0 .. MaxFrame : Kept(f)' BY DEF Kept
  <2> QED BY <1>2, <1>3, <2>1, <2>2 DEF OInv
<1>6. ASSUME UNCHANGED <<filled, processed, frames>>, apc # "process", apc' \notin {"process", "done"}, apc # "done"
      PROVE  OInv'
  <2>1. ASSUME NEW s \in Receiver PROVE Queueing(s)' /\ Past(s)'
    BY <1>1, <1>6 DEF OInv, Queueing, Past, Waiting, Holding
  <2>2. \A f \in 0 .. MaxFrame : Kept(f)' BY <1>1, <1>6, KeptStays DEF OInv, InHand
  <2> QED BY <1>2, <1>3, <1>6, <2>1, <2>2 DEF OInv
<1>7. CASE CheckAsmStopped
  <2>1. CASE asmStopped BY <1>5, <1>7, <2>1 DEF CheckAsmStopped
  <2>2. CASE ~asmStopped BY <1>6, <1>7, <2>2 DEF CheckAsmStopped
  <2> QED BY <2>1, <2>2
<1>8. CASE TakeFrame \/ TakeAnother
  <2> USE <1>8 DEF TakeFrame, TakeAnother, PopValue
  <2>1. at \in Receiver /\ frames[at] = NoBuffer
    <3>1. at \in Receiver BY <1>0 DEF TypeOK
    <3>2. ~Noted(at) /\ ~Popped(at) BY <3>1 DEF Noted, Popped, Receiver
    <3> QED BY <1>0, <3>1, <3>2 DEF FramesKept
  <2>2. apc' \in {"popped", "align"} /\ apc \in {"pop", "repop"} /\ UNCHANGED processed OBVIOUS
  <2>3. /\ \A s \in Receiver : Queueing(s)' /\ Past(s)'
        /\ \A s \in Receiver, f \in 0 .. MaxFrame : InHand(s, f) => InHand(s, f)'
    BY <1>1, <2>1, <2>2, Fetching
  <2>4. \A f \in 0 .. MaxFrame : Kept(f)' BY <1>1, <2>2, <2>3, KeptStays DEF OInv
  <2> QED BY <1>2, <1>3, <2>2, <2>3, <2>4 DEF OInv
<1>9. CASE TakeNothing BY <1>6, <1>9 DEF TakeNothing
<1>10. CASE NoteNumber
  <2>1. CASE asmStopped BY <1>5, <1>10, <2>1 DEF NoteNumber
  <2>2. CASE ~asmStopped
    <3>1. apc' \in {"align", "pop"} /\ apc = "popped" /\ UNCHANGED <<frames, processed, filled>>
      BY <1>10, <2>2 DEF NoteNumber
    <3> QED BY <1>6, <3>1
  <2> QED BY <2>1, <2>2
<1>11. CASE DropLowest
  <2> USE <1>11 DEF DropLowest
  <2>1. LowestAt \in Receiver /\ \A s \in Receiver : numbers[LowestAt] <= numbers[s]
    BY <1>0, LowestFound DEF TypeOK
  <2>2. \A s \in Receiver : frames[s] \in Buffer /\ numbers[s] = Holding(s)
    BY <1>0 DEF FramesKept, Noted, Holding
  <2>3. \A s \in Receiver : numbers[s] \in Nat BY <1>0 DEF TypeOK
  <2>4. \E s \in Receiver : Holding(LowestAt) < Holding(s)
    BY <2>1, <2>2, <2>3 DEF AllEqual
  <2>5. (\A s \in Receiver : Queueing(s)') /\ (\A f \in 0 .. MaxFrame : Kept(f)')
    BY <1>1, <2>1, <2>2, <2>4, Returning
  <2>6. \A s \in Receiver : Past(s)'
    <3> SUFFICES ASSUME NEW s \in Receiver PROVE Past(s)' OBVIOUS
    <3>1. frames'[s] \in Buffer => frames'[s] = frames[s] BY <1>0, <1>4, <2>1 DEF TypeOK, Moved
    <3> QED BY <1>1, <3>1 DEF OInv, Past, Waiting, Holding
  <2> QED BY <1>2, <1>3, <2>5, <2>6 DEF OInv
<1>12. CASE BeginFrame
  <2> USE <1>12 DEF BeginFrame
  <2>1. \A s \in Receiver : frames[s] \in Buffer /\ numbers[1] = Holding(s)
    <3>1. 1 \in Receiver BY DEF Receiver
    <3> QED BY <1>0, <3>1 DEF FramesKept, Noted, Holding, AllEqual
  <2>2. ASSUME NEW s \in Receiver PROVE Queueing(s)' /\ Past(s)'
    <3>1. Queueing(s) /\ Past(s) BY DEF OInv
    <3>2. frames[s] \in Buffer /\ numbers[1] = Holding(s) BY <2>1
    <3>3. Holding(s)' = Holding(s) /\ \A i \in DOMAIN filled[s] : Waiting(s, i)' = Waiting(s, i)
      BY <1>1 DEF Holding, Waiting
    <3>4. Holding(s) \in Nat /\ processed \in SUBSET Nat BY <3>2, NumbersTyped DEF Holding
    <3>5. Queueing(s)' BY <1>1, <3>1, <3>3 DEF Queueing
    <3>6. \A p \in processed \cup {Holding(s)} :
             p \in delivered[s] /\ p <= Holding(s) /\ \A i \in DOMAIN filled[s] : p < Waiting(s, i)
      <4>1. \A p \in processed : p \in delivered[s] /\ p < Holding(s)
                                /\ \A i \in DOMAIN filled[s] : p < Waiting(s, i)
        BY <3>1, <3>2 DEF Past
      <4>2. ASSUME NEW p \in processed PROVE p <= Holding(s)
        <5>1. p \in Nat /\ Holding(s) \in Nat /\ p < Holding(s) BY <3>4, <4>1
        <5> HIDE DEF Holding
        <5> QED BY <5>1
      <4>3. Holding(s) \in delivered[s] /\ Holding(s) <= Holding(s)
            /\ \A i \in DOMAIN filled[s] : Holding(s) < Waiting(s, i)
        BY <3>1, <3>2, <3>4 DEF Queueing
      <4> QED BY <4>1, <4>2, <4>3
    <3>7. Past(s)' BY <1>1, <3>2, <3>3, <3>6 DEF Past
    <3> QED BY <3>5, <3>7
  <2>3. \A f \in 0 .. MaxFrame : Kept(f)' BY <1>1, KeptStays DEF OInv, InHand
  <2> QED BY <1>2, <1>3, <2>2, <2>3 DEF OInv
<1>13. CASE ProcessPart
  <2> USE <1>13 DEF ProcessPart
  <2>1. at \in Receiver /\ frames[at] \in Buffer BY <1>0 DEF TypeOK, FramesKept, Noted, Receiver
  <2>2. Holding(at) \in processed
    <3>1. 1 \in Receiver /\ Noted(at) BY <2>1 DEF Noted, Receiver
    <3>2. Holding(at) = numbers[1] BY <1>0, <2>1, <3>1 DEF FramesKept, AllEqual, Holding
    <3> QED BY <3>2 DEF OInv
  <2>3. (\A s \in Receiver : Queueing(s)') /\ (\A f \in 0 .. MaxFrame : Kept(f)')
    BY <1>1, <2>1, <2>2, Returning
  <2>4. \A s \in Receiver : frames'[s] \in Buffer => frames'[s] = frames[s] /\ s # at
    BY <1>0, <1>4, <2>1 DEF TypeOK, Moved
  <2>5. apc' # "process" => \A s \in Receiver : frames'[s] \notin Buffer
    <3> SUFFICES ASSUME apc' # "process", NEW s \in Receiver, s # at PROVE frames[s] \notin Buffer
      BY <2>4
    <3>1. at = NumReceivers OBVIOUS
    <3>2. ~(s >= at) BY <3>1 DEF Receiver
    <3> QED BY <1>0, <1>4, <3>2 DEF FramesKept, Noted, Popped
  <2>6. \A s \in Receiver : Past(s)' BY <1>1, <2>4, <2>5 DEF OInv, Past, Waiting, Holding
  <2>7. (apc = "process" => numbers[1] \in processed)' BY DEF OInv
  <2> QED BY <1>2, <1>3, <2>3, <2>6, <2>7 DEF OInv
<1> QED BY <1>7, <1>8, <1>9, <1>10, <1>11, <1>12, <1>13 DEF Assemble
-----------------------------------------------------------------------------
\* Main starts and stops the threads.
LEMMA MainInOrder == IInv /\ OInv /\ (Main \/ Quit) /\ UNCHANGED network => OInv'
<1> SUFFICES ASSUME IInv, OInv, Main \/ Quit, UNCHANGED network PROVE OInv' OBVIOUS
<1> USE DEF Main, MainStartsReceiver, StartReceiving, MainStartsAssembler, StartAssembling, MainStopsReceiver,
        SetStopped, MainRequestsStop, RequestStop, MainJoinsReceiver, MainStopsAssembler, SetAsmStopped,
        MainJoinsAssembler, Quit
<1>0. TypeOK BY DEF IInv
<1>1. /\ UNCHANGED <<delivered, content, filled, frames, processed, numbers, raw>>
      /\ apc' = apc \/ (apc = "off" /\ apc' = "check")
  BY DEF fifoVars, receiverVars, assemblerVars
<1>2. ASSUME NEW s \in Receiver PROVE Upward(s)'
  <2>1. Upward(s) BY DEF OInv
  <2>2. /\ rpc'[s] = rpc[s] \/ (rpc[s] = "off" /\ rpc'[s] = "check")
        /\ grabber'[s] = grabber[s] \/ grabber'[s] = G!RequestStop(grabber[s])
    BY <1>0 DEF TypeOK, Goto, receiverVars
  <2>3. grabber'[s].pc = grabber[s].pc /\ grabber'[s].lost = grabber[s].lost
        /\ grabber'[s].cached = grabber[s].cached /\ grabber'[s].seen = grabber[s].seen
        /\ grabber'[s].tail = grabber[s].tail /\ grabber'[s].cur = grabber[s].cur
    <3>1. grabber[s] \in G!Grabber BY <1>0 DEF TypeOK
    <3>2. \A g \in G!Grabber : LET h == G!RequestStop(g)
                               IN  /\ h.pc = g.pc /\ h.lost = g.lost /\ h.cached = g.cached
                                   /\ h.seen = g.seen /\ h.tail = g.tail /\ h.cur = g.cur
      BY DEF G!RequestStop, G!Grabber
    <3> QED BY <2>2, <3>1, <3>2
  <2> QED BY <1>1, <2>1, <2>2, <2>3 DEF Upward, Collected, Above
<1>3. ASSUME NEW s \in Receiver PROVE Queueing(s)' /\ Past(s)'
  BY <1>1 DEF OInv, Queueing, Past, Waiting, Holding
<1>4. \A f \in 0 .. MaxFrame : Kept(f)' BY <1>1, KeptStays DEF OInv, InHand
<1> QED BY <1>1, <1>2, <1>3, <1>4 DEF OInv, Orderly

\* Every step keeps the order.
LEMMA OrderStep == IInv /\ OInv /\ [Next]_vars => OInv'
<1> SUFFICES ASSUME IInv, OInv, [Next]_vars PROVE OInv' OBVIOUS
<1>1. CASE UNCHANGED vars
  <2> USE <1>1 DEF vars, fifoVars, receiverVars, assemblerVars
  <2>1. ASSUME NEW s \in Receiver PROVE Upward(s)' /\ Queueing(s)' /\ Past(s)'
    BY DEF OInv, Upward, Collected, Above, Queueing, Past, Waiting, Holding
  <2>2. \A f \in 0 .. MaxFrame : Kept(f)' BY KeptStays DEF OInv, InHand
  <2> QED BY <2>1, <2>2 DEF OInv, Orderly
<1>2. CASE Main BY <1>2, MainInOrder DEF Main
<1> QED BY <1>1, <1>2, MainInOrder, AssemblingInOrder, CollectingStep, PassingOn DEF Next

\* OInv is an invariant where packets can only get lost.
THEOREM Ordered == Spec /\ Orderly => []OInv
<1>1. Spec => []IInv BY Invariance
<1> QED BY <1>1, OrderInit, OrderStep, PTL DEF Spec

\* The frames are processed in the order of their numbers, none twice: what
\* BeginFrame takes lies above all that was processed before.
THEOREM ProcessedInOrder == Spec /\ Orderly => InOrder
<1>1. IInv /\ OInv /\ BeginFrame => \A f \in processed : f < numbers[1]
  <2> SUFFICES ASSUME IInv, OInv, BeginFrame PROVE \A f \in processed : f < numbers[1] OBVIOUS
  <2> USE NumReceiversAssumption DEF BeginFrame
  <2>1. 1 \in Receiver BY DEF Receiver
  <2>2. frames[1] \in Buffer /\ numbers[1] = Holding(1)
    BY <2>1 DEF IInv, FramesKept, Noted, Holding
  <2> QED BY <2>1, <2>2 DEF OInv, Past
<1> QED BY <1>1, Invariance, Ordered, PTL DEF Spec, InOrder

\* The assembler drops no frame that all receivers deliver.
THEOREM NoMatchDropped == Spec /\ Orderly => []NoMatchLost
<1>1. IInv /\ OInv => NoMatchLost
  <2> SUFFICES ASSUME IInv, OInv, NEW f \in 1 .. MaxFrame, \A r \in Receiver : f \in delivered[r],
                      f \notin processed, apc # "done"
               PROVE  \A r \in Receiver : InHand(r, f)
    BY DEF NoMatchLost
  <2>1. f \in 0 .. MaxFrame OBVIOUS
  <2> QED BY <2>1 DEF OInv, Kept
<1> QED BY <1>1, Invariance, Ordered, PTL
-----------------------------------------------------------------------------
(***************************************************************************)
(* A stop() that nothing ends.                                             *)
(***************************************************************************)
\* The assembler waits, while it aligns, for a frame of a receiver that has
\* none left, and main waits for the assembler.
Stranded == mpc = "joinAssembler" /\ apc = "repop" /\ filled[at] = << >>

\* Once the assembler is stranded it stays so for ever, and stop() never ends:
\* pop_value() without a flag does not see that it is stopped.
THEOREM StrandedForEver == Spec => [](Stranded => []Stranded)
<1>1. IInv /\ Stranded /\ [Next]_vars => Stranded'
  <2> SUFFICES ASSUME IInv, Stranded, [Next]_vars PROVE Stranded' OBVIOUS
  <2>1. \A r \in Receiver : rpc[r] = "done" BY DEF IInv, ThreadsKept, Stranded
  <2>2. ASSUME NEW r \in Receiver, Receiving(r) PROVE Stranded'
    <3>1. SendOn(r)
      BY <2>1, <2>2 DEF Receiving, Receive, CheckStopped, TakeFree, CallRecvInto, RunRecvInto, Account, PassOn
    <3> QED BY <2>2, <3>1 DEF SendOn, Receiving, Stranded, fifoVars, assemblerVars
  <2>3. ~Assembling
    BY DEF Stranded, Assembling, Assemble, CheckAsmStopped, TakeFrame, TakeNothing, NoteNumber, DropLowest,
           TakeAnother, BeginFrame, ProcessPart, PopValue
  <2>4. ~Main /\ ~Quit
    BY DEF Stranded, Main, MainStartsReceiver, MainStartsAssembler, MainStopsReceiver, MainRequestsStop,
           MainJoinsReceiver, MainStopsAssembler, MainJoinsAssembler, Quit
  <2>5. CASE UNCHANGED vars BY <2>5 DEF vars, fifoVars, assemblerVars, Stranded
  <2> QED BY <2>2, <2>3, <2>4, <2>5 DEF Next
<1> QED BY <1>1, Invariance, PTL DEF Spec
=============================================================================
