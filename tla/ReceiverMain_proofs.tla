-------------------------- MODULE ReceiverMain_proofs --------------------------
(***************************************************************************)
(* Theorems about ReceiverMain, for any size of the pool, any number of    *)
(* packets and any networks.                                               *)
(***************************************************************************)
EXTENDS ReceiverMain, ReceiverApp_proofs

allVars == <<vars, mainVars>>

(***************************************************************************)
(* The inductive invariants.                                               *)
(***************************************************************************)
MainTyped ==
    /\ counters \in [Counter -> Nat] /\ shown \in [Counter -> Nat]
    /\ reading \in SUBSET Counter
    /\ before \in [complete : Nat, gone : Int]
    /\ tally \in {"lost", "complete", "last", "done"}

\* Where main is tells which threads there are.
StagesKept ==
    /\ stage \in {"begin", "construct", "run", "status", "leave", "over", "terminated"}
    /\ stage \in {"begin", "construct"} => rpc[R] = "off" /\ apc = "off"
    /\ stage = "status" => mpc = "listen"
    /\ stage \in {"leave", "over"} => rpc[R] \in {"off", "done"} /\ apc \in {"off", "done"}
    /\ stage = "over" => terminal = "line"
    /\ stage = "terminated" => rpc[R] # "off" /\ apc = "off"
    /\ apc = "done" => asmStopped

\* The counters are updated while the receiving thread accounts for a frame.
TallyKept ==
    /\ tally # "lost" => rpc[R] = "account"
    /\ tally \in {"complete", "last"} => ~grabber[R].lost

MInv == MainTyped /\ StagesKept /\ TallyKept

\* The frame in hand has been counted as lost, and not yet been destroyed.
Doomed == rpc[R] = "account" /\ grabber[R].lost /\ tally = "done"
Losses == IF Doomed THEN Gone + 1 ELSE Gone

\* Every buffer destroyed by the receiving thread cost one lost packet at least,
\* and one frame's packets at most.
LostKept ==
    /\ apc # "done" => Losses <= counters["lost"]
    /\ counters["lost"] <= Losses * NumPackets
    /\ stage = "status" => /\ before.gone <= counters["lost"]
                           /\ "lost" \in reading \/ before.gone <= shown["lost"]

\* Frame numbers begin with 1.
Begun ==
    LET g == grabber[R]
    IN  g.seen = 0 => /\ g.cached = G!None /\ g.tail = "none" /\ g.pc # "fill"
                      /\ ~Collected(R)

\* The number of the frame in hand has been noted.
NowNoted == rpc[R] = "push" \/ (rpc[R] = "account" /\ tally = "done" /\ ~grabber[R].lost)

\* There are no more complete frames than numbers up to the last one noted.
Noting ==
    LET complete == counters["complete"]
        latest   == counters["last"]
    IN  /\ latest <= MaxFrame
        /\ IF NowNoted THEN latest = content[R][raw[R]] ELSE latest = 0 \/ latest \in delivered[R]
        /\ complete <= (IF tally = "last" THEN latest + 1 ELSE latest)

\* Nor had been when 's' was pressed, nor are in what it has loaded so far.
CountsKept ==
    /\ Noting
    /\ stage = "status" => /\ before.complete <= counters["complete"]
                           /\ before.complete <= counters["last"] + 1
                           /\ "complete" \in reading \/ shown["complete"] <= counters["complete"]
                           /\ "last" \in reading \/ before.complete <= shown["last"] + 1
-----------------------------------------------------------------------------
\* There is the one receiver.
LEMMA One == Receiver = {1} /\ R \in Receiver
BY OneReceiver DEF Receiver, R

(***************************************************************************)
(* The program does with the threads nothing that ReceiverApp does not:    *)
(* the theorems about that hold here.                                      *)
(***************************************************************************)
LEMMA StepsAsApp == [MainNext]_allVars => [Next]_vars
<1> SUFFICES ASSUME [MainNext]_allVars PROVE [Next]_vars OBVIOUS
<1>1. CASE Receives
  <2>1. \E r \in Receiver : Receiving(r) BY <1>1, One DEF Receives
  <2> QED BY <2>1 DEF Next
<1>2. CASE Assembles \/ Mains \/ PressQ BY <1>2 DEF Assembles, Mains, PressQ, Next
<1>3. CASE /\ MainNext /\ ~(Receives \/ Assembles \/ Mains \/ PressQ)
  <2>1. UNCHANGED vars
    BY <1>3 DEF MainNext, MainRuns, ReceiverRuns, DirectInput, ConstructObjects, LeaveBlock, ResetTerminal,
                Load, ShowStatus, StartThrows, PressS, AddLost, AddComplete, NoteLast, Tallying
  <2> QED BY <2>1
<1>4. CASE UNCHANGED allVars BY <1>4 DEF allVars
<1> QED BY <1>1, <1>2, <1>3, <1>4

THEOREM MainIsApp == MainSpec => Spec
<1>1. MainInit => Init BY DEF MainInit
<1>2. [MainNext]_<<vars, mainVars>> => [Next]_vars BY StepsAsApp DEF allVars
<1> QED BY <1>1, <1>2, PTL DEF MainSpec, Spec
-----------------------------------------------------------------------------
(***************************************************************************)
(* How main ends.                                                          *)
(***************************************************************************)
LEMMA MainStart == MainInit => MInv
<1> SUFFICES ASSUME MainInit PROVE MInv OBVIOUS
<1> USE DEF MainInit, Init
<1>1. rpc[R] = "off" /\ apc = "off" BY One DEF ReceiverInit, AssemblerInit
<1>2. MainTyped BY DEF MainTyped, Zeros
<1>3. StagesKept BY <1>1 DEF StagesKept
<1>4. TallyKept BY DEF TallyKept
<1> QED BY <1>2, <1>3, <1>4 DEF MInv

\* A step of the assembling thread.
LEMMA AssemblerAlone ==
    ASSUME Assembling
    PROVE  /\ apc # "off" /\ apc' # "off" /\ apc # "done"
           /\ apc' = "done" => asmStopped
           /\ asmStopped' = asmStopped /\ UNCHANGED <<network, receiverVars, content, mpc, mat>>
BY DEF Assembling, Assemble, CheckAsmStopped, TakeFrame, TakeNothing, NoteNumber, DropLowest, TakeAnother,
       BeginFrame, ProcessPart, Leave, fifoVars, PopValue, PushFree

\* A step of the receiving thread.
LEMMA ReceiverAlone ==
    ASSUME TypeOK, Receiving(R)
    PROVE  /\ UNCHANGED <<network, assemblerVars, mpc, mat>>
           /\ \/ rpc' = rpc /\ grabber'[R].lost = grabber[R].lost
              \/ rpc[R] \notin {"account", "off"} /\ rpc'[R] # "off"
              \/ rpc[R] = "account" /\ rpc'[R] \in {"check", "push"} /\ grabber' = grabber
<1>1. /\ R \in Receiver /\ grabber \in [Receiver -> G!Grabber]
      /\ rpc \in [Receiver -> {"off", "check", "pop", "call", "recv", "account", "push", "done"}]
  BY One DEF TypeOK
<1>2. CASE Receive(R)
  BY <1>1, <1>2 DEF Receiving, Receive, CheckStopped, TakeFree, CallRecvInto, RunRecvInto, Account, PassOn, Goto
<1>3. CASE SendOn(R) BY <1>1, <1>3 DEF SendOn, Receiving
<1> QED BY <1>2, <1>3 DEF Receiving

\* A step of main or of the user.
LEMMA MainAlone ==
    ASSUME TypeOK, Main \/ Quit
    PROVE  /\ rpc[R] # "off" => rpc'[R] = rpc[R]
           /\ grabber'[R] = grabber[R] \/ grabber'[R] = G!RequestStop(grabber[R])
           /\ grabber'[R].lost = grabber[R].lost
           /\ rpc[R] = "off" => rpc'[R] \in {"off", "check"}
           /\ asmStopped => asmStopped'
           /\ apc' # apc => apc' # "done"
           /\ UNCHANGED <<content, raw, delivered>>
<1>1. /\ R \in Receiver /\ grabber \in [Receiver -> G!Grabber]
      /\ rpc \in [Receiver -> {"off", "check", "pop", "call", "recv", "account", "push", "done"}]
  BY One DEF TypeOK
<1>2. G!RequestStop(grabber[R]).lost = grabber[R].lost BY <1>1 DEF G!RequestStop, G!Grabber
<1>3. CASE MainStartsReceiver
  BY <1>1, <1>3 DEF MainStartsReceiver, StartReceiving, Goto, assemblerVars, fifoVars
<1>4. CASE MainStartsAssembler BY <1>4 DEF MainStartsAssembler, StartAssembling, receiverVars, fifoVars
<1>5. CASE MainRequestsStop
  BY <1>1, <1>2, <1>5 DEF MainRequestsStop, RequestStop, assemblerVars, fifoVars
<1>6. CASE MainStopsAssembler BY <1>6 DEF MainStopsAssembler, SetAsmStopped, receiverVars, fifoVars
<1>7. CASE MainStopsReceiver BY <1>7 DEF MainStopsReceiver, SetStopped, assemblerVars, fifoVars
<1>8. CASE MainJoinsReceiver \/ MainJoinsAssembler \/ Quit
  BY <1>8 DEF MainJoinsReceiver, MainJoinsAssembler, Quit, receiverVars, assemblerVars, fifoVars
<1> QED BY <1>3, <1>4, <1>5, <1>6, <1>7, <1>8 DEF Main

\* The counters have room for one value at least, and small values stay what they are.
LEMMA Width ==
    /\ 2 ^ CountBits \in Nat /\ 2 ^ CountBits >= 1
    /\ \A n \in Nat : n % 2 ^ CountBits \in Nat /\ (n < 2 ^ CountBits => n % 2 ^ CountBits = n)
<1> USE CountBitsAssumption
<1> DEFINE S == 1 .. CountBits
<1>1. IsFiniteSet(S) /\ Cardinality(S) = CountBits BY FS_Interval
<1>2. IsFiniteSet(SUBSET S) /\ Cardinality(SUBSET S) = 2 ^ CountBits
  <2> HIDE DEF S
  <2> QED BY <1>1, FS_SUBSET
<1>3. {} \in SUBSET S OBVIOUS
<1>4. Cardinality(SUBSET S) \in Nat /\ Cardinality(SUBSET S) # 0
  <2> HIDE DEF S
  <2> QED BY <1>2, <1>3, FS_CardinalityType, FS_EmptySet
<1> PICK W : W = 2 ^ CountBits OBVIOUS
<1>5. W \in Nat /\ W >= 1 BY <1>2, <1>4
<1>6. \A n \in Nat : n % W \in Nat /\ (n < W => n % W = n) BY <1>5
<1> QED BY <1>5, <1>6

\* The buffers of the pool are counted.
LEMMA GoneIs ==
    IInv => /\ InPlace(R) = Cardinality(InPool(R))
            /\ Gone = Cardinality(Buffer) - Cardinality(InPool(R))
            /\ IsFiniteSet(Buffer) /\ InPool(R) \in SUBSET Buffer
            /\ Cardinality(Buffer) \in Nat /\ Cardinality(InPool(R)) \in Nat
            /\ Gone \in Nat
<1> SUFFICES ASSUME IInv
             PROVE  /\ InPlace(R) = Cardinality(InPool(R))
                    /\ Gone = Cardinality(Buffer) - Cardinality(InPool(R))
                    /\ IsFiniteSet(Buffer) /\ InPool(R) \in SUBSET Buffer
                    /\ Cardinality(Buffer) \in Nat /\ Cardinality(InPool(R)) \in Nat
                    /\ Gone \in Nat
  OBVIOUS
<1>1. /\ Places(R) \in Seq(Buffer \cup {NoBuffer}) /\ Once(Places(R), Buffer)
      /\ ToSet(Places(R)) \cap Buffer = InPool(R)
  BY PlacesApart, One
<1>2. {i \in DOMAIN Places(R) : Places(R)[i] # NoBuffer} = Where(Places(R), Buffer)
  BY <1>1, Typed, One DEF IInv, Where
<1>3. Cardinality(Where(Places(R), Buffer)) = Cardinality(InPool(R))
  <2> HIDE DEF Places, Buffer
  <2> QED BY <1>1, OnceCount
<1>4. IsFiniteSet(Buffer) BY FifoSizeAssumption, FS_Interval DEF Buffer
<1>5. InPool(R) \in SUBSET Buffer BY DEF InPool
<1>6. /\ Cardinality(Buffer) \in Nat /\ Cardinality(InPool(R)) \in Nat
      /\ Cardinality(InPool(R)) <= Cardinality(Buffer)
  BY <1>4, <1>5, FS_Subset, FS_CardinalityType
<1>7. /\ InPlace(R) = Cardinality(InPool(R))
      /\ Gone = Cardinality(Buffer) - Cardinality(InPool(R))
  BY <1>2, <1>3 DEF Gone, InPlace
<1> QED BY <1>4, <1>5, <1>6, <1>7

LEMMA MainKeeps == IInv /\ MInv /\ [MainNext]_allVars => MInv'
<1> SUFFICES ASSUME IInv, MInv, [MainNext]_allVars PROVE MInv' OBVIOUS
<1>0. TypeOK /\ ThreadsKept /\ MainTyped /\ StagesKept /\ TallyKept BY DEF IInv, MInv
<1>1. CASE UNCHANGED allVars
  BY <1>0, <1>1 DEF allVars, vars, mainVars, receiverVars, assemblerVars, MInv, MainTyped, StagesKept, TallyKept
<1>2. CASE DirectInput \/ ConstructObjects \/ LeaveBlock \/ ResetTerminal \/ StartThrows
  <2>1. UNCHANGED <<vars, counters, tally, reading, shown, before>>
    BY <1>2 DEF DirectInput, ConstructObjects, LeaveBlock, ResetTerminal, StartThrows
  <2>2. MainTyped' /\ TallyKept'
    BY <1>0, <2>1 DEF MainTyped, TallyKept, vars, receiverVars
  <2>3. StagesKept'
    <3>1. UNCHANGED <<rpc, apc, mpc, asmStopped>> BY <2>1 DEF vars, receiverVars, assemblerVars
    <3>2. mpc = "start" => apc = "off" BY <1>0 DEF ThreadsKept
    <3>3. mpc = "exit" => rpc[R] = "done" /\ apc = "done" BY <1>0, One DEF ThreadsKept
    <3>4. CASE DirectInput BY <1>0, <3>1, <3>4 DEF StagesKept, DirectInput, At
    <3>5. CASE ConstructObjects BY <1>0, <3>1, <3>5 DEF StagesKept, ConstructObjects, At
    <3>6. CASE LeaveBlock BY <1>0, <3>1, <3>3, <3>6 DEF StagesKept, LeaveBlock, At
    <3>7. CASE ResetTerminal BY <1>0, <3>1, <3>7 DEF StagesKept, ResetTerminal, At
    <3>8. CASE StartThrows BY <1>0, <3>1, <3>2, <3>8 DEF StagesKept, StartThrows, At
    <3> QED BY <1>2, <3>4, <3>5, <3>6, <3>7, <3>8
  <2> QED BY <2>2, <2>3 DEF MInv
<1>3. CASE PressS \/ Load \/ ShowStatus
  <2>1. UNCHANGED <<vars, counters, tally, terminal>> BY <1>3 DEF PressS, Load, ShowStatus
  <2>2. TallyKept' BY <1>0, <2>1 DEF TallyKept, vars, receiverVars
  <2>3. MainTyped'
    <3>1. CASE PressS
      <4>1. Gone \in Int BY GoneIs
      <4>2. Now \in [complete : Nat, gone : Int] BY <1>0, <4>1 DEF Now, MainTyped, Counter
      <4> QED BY <1>0, <3>1, <4>2 DEF MainTyped, PressS
    <3>2. CASE Load BY <1>0, <3>2 DEF MainTyped, Load
    <3>3. CASE ShowStatus BY <1>0, <3>3 DEF MainTyped, ShowStatus, NoStatus, Zeros
    <3> QED BY <1>3, <3>1, <3>2, <3>3
  <2>4. StagesKept'
    <3>1. UNCHANGED <<rpc, apc, mpc, asmStopped>> BY <2>1 DEF vars, receiverVars, assemblerVars
    <3>2. \/ stage = "run" /\ stage' = "status" /\ mpc = "listen"
          \/ stage' = stage \/ (stage = "status" /\ stage' = "run")
      BY <1>3 DEF PressS, Load, ShowStatus, At
    <3> QED BY <1>0, <2>1, <3>1, <3>2 DEF StagesKept
  <2> QED BY <2>2, <2>3, <2>4 DEF MInv
<1>4. CASE AddLost \/ AddComplete \/ NoteLast
  <2>1. rpc[R] = "account" /\ UNCHANGED <<vars, stage, terminal, reading, shown, before>>
    BY <1>4 DEF AddLost, AddComplete, NoteLast, Tallying
  <2>2. StagesKept' BY <1>0, <2>1 DEF StagesKept, vars, receiverVars, assemblerVars
  <2>3. PICK c \in Counter, n \in Nat :
            /\ counters' = [counters EXCEPT ![c] = n % 2 ^ CountBits]
            /\ \/ tally' = "done"
               \/ tally' = "complete" /\ ~grabber[R].lost
               \/ tally' = "last" /\ tally = "complete"
    <3>1. CASE AddLost
      <4>1. PICK m \in IF grabber[R].lost THEN 1 .. NumPackets ELSE {0} :
                /\ counters' = [counters EXCEPT !["lost"] = (counters["lost"] + m) % 2 ^ CountBits]
                /\ tally' = IF grabber[R].lost THEN "done" ELSE "complete"
        BY <3>1 DEF AddLost, Tallying
      <4>2. counters["lost"] + m \in Nat BY <1>0, NumPacketsAssumption DEF MainTyped, Counter
      <4>3. "lost" \in Counter BY DEF Counter
      <4> QED BY <4>1, <4>2, <4>3
    <3>2. CASE AddComplete
      <4>1. counters["complete"] + 1 \in Nat /\ "complete" \in Counter BY <1>0 DEF MainTyped, Counter
      <4> QED BY <3>2, <4>1 DEF AddComplete, Tallying
    <3>3. CASE NoteLast
      <4>1. raw[R] \in Buffer BY <2>1, One DEF IInv, RawKept, HasRaw
      <4>2. content[R][raw[R]] \in Nat BY <1>0, <4>1, One, MaxFrameAssumption DEF TypeOK
      <4>3. "last" \in Counter BY DEF Counter
      <4> QED BY <3>3, <4>2, <4>3 DEF NoteLast, Tallying
    <3> QED BY <1>4, <3>1, <3>2, <3>3
  <2>4. n % 2 ^ CountBits \in Nat BY Width
  <2>5. MainTyped' BY <1>0, <2>1, <2>3, <2>4 DEF MainTyped
  <2>6. TallyKept' BY <1>0, <2>1, <2>3 DEF TallyKept, vars, receiverVars
  <2> QED BY <2>2, <2>5, <2>6 DEF MInv
<1>5. CASE Receives
  <2>1. Running /\ Receiving(R) /\ (rpc[R] = "account" => tally = "done")
        /\ tally' = (IF rpc[R] = "account" THEN "lost" ELSE tally)
        /\ UNCHANGED <<counters, stage, terminal, reading, shown, before>>
    BY <1>5 DEF Receives
  <2>2. UNCHANGED <<apc, asmStopped, mpc>> BY <1>0, <2>1, ReceiverAlone DEF assemblerVars
  <2>3. MainTyped' BY <1>0, <2>1 DEF MainTyped
  <2>4. StagesKept' BY <1>0, <2>1, <2>2 DEF StagesKept, Running
  <2>5. TallyKept' BY <1>0, <2>1, ReceiverAlone DEF TallyKept
  <2> QED BY <2>3, <2>4, <2>5 DEF MInv
<1>6. CASE Assembles
  <2>1. Running /\ Assembling /\ UNCHANGED mainVars BY <1>6 DEF Assembles
  <2>2. UNCHANGED <<rpc, grabber, mpc, asmStopped>> /\ (apc' = "done" => asmStopped)
    BY <2>1, AssemblerAlone DEF receiverVars
  <2>3. MainTyped' /\ TallyKept' BY <1>0, <2>1, <2>2 DEF MainTyped, TallyKept, mainVars
  <2>4. StagesKept' BY <1>0, <2>1, <2>2 DEF StagesKept, Running, mainVars
  <2> QED BY <2>3, <2>4 DEF MInv
<1>7. CASE Mains \/ PressQ
  <2>1. stage = "run" /\ (Main \/ Quit) /\ UNCHANGED mainVars BY <1>7 DEF Mains, PressQ
  <2>2. /\ rpc[R] # "off" => rpc'[R] = rpc[R]
        /\ grabber'[R].lost = grabber[R].lost
        /\ asmStopped => asmStopped'
        /\ apc' # apc => apc' # "done"
    BY <1>0, <2>1, MainAlone
  <2>3. MainTyped' /\ TallyKept' BY <1>0, <2>1, <2>2 DEF MainTyped, TallyKept, mainVars
  <2>4. StagesKept' BY <1>0, <2>1, <2>2 DEF StagesKept, mainVars
  <2> QED BY <2>3, <2>4 DEF MInv
<1> QED BY <1>1, <1>2, <1>3, <1>4, <1>5, <1>6, <1>7 DEF MainNext, MainRuns, ReceiverRuns

THEOREM MainInvariance == MainSpec => []MInv
<1>1. IInv /\ MInv /\ [MainNext]_<<vars, mainVars>> => MInv' BY MainKeeps DEF allVars
<1> QED BY <1>1, MainStart, MainIsApp, Invariance, PTL DEF MainSpec

\* When main returns no thread is left and the terminal is as it was before;
\* the one way to be terminated is a second start() that throws.
THEOREM EndsCleanly == MainSpec => []CleanEnd
<1>1. MInv => CleanEnd BY DEF MInv, StagesKept, CleanEnd
<1> QED BY <1>1, MainInvariance, PTL
-----------------------------------------------------------------------------
(***************************************************************************)
(* The count of lost packets.                                              *)
(***************************************************************************)
\* recv_into runs as long as the thread is in its call.
Calls == grabber[R].pc # "idle" <=> rpc[R] = "recv"

LEMMA CallsStart == Init => Calls
BY One DEF Init, ReceiverInit, Calls, G!New

LEMMA CallsStep == IInv /\ Calls /\ [Next]_vars => Calls'
<1> SUFFICES ASSUME IInv, Calls, [Next]_vars PROVE Calls' OBVIOUS
<1>1. /\ TypeOK /\ R \in Receiver /\ grabber \in [Receiver -> G!Grabber]
      /\ rpc \in [Receiver -> {"off", "check", "pop", "call", "recv", "account", "push", "done"}]
  BY One DEF IInv, TypeOK
<1>2. CASE UNCHANGED vars \/ Assembling
  <2>1. UNCHANGED <<grabber, rpc>> BY <1>2 DEF vars, Assembling, receiverVars
  <2> QED BY <2>1 DEF Calls
<1>3. CASE Main \/ Quit
  <2>1. G!RequestStop(grabber[R]).pc = grabber[R].pc BY <1>1 DEF G!RequestStop, G!Grabber
  <2>2. rpc[R] = "off" => rpc'[R] \in {"off", "check"} BY <1>1, <1>3, MainAlone
  <2>3. grabber'[R].pc = grabber[R].pc BY <1>1, <1>3, <2>1, MainAlone
  <2>4. rpc[R] # "off" => rpc'[R] = rpc[R] BY <1>1, <1>3, MainAlone
  <2> QED BY <2>2, <2>3, <2>4 DEF Calls
<1>4. CASE Receiving(R)
  <2> USE DEF Calls, Goto
  <2>1. CASE CheckStopped(R) \/ TakeFree(R) \/ Account(R) \/ PassOn(R)
    BY <1>1, <2>1 DEF CheckStopped, TakeFree, Account, PassOn
  <2>2. CASE CallRecvInto(R)
    <3>1. PICK h \in G!Enter(grabber[R]) : Grab(R, h) BY <2>2 DEF CallRecvInto
    <3>2. grabber'[R] = h /\ rpc'[R] = "recv" BY <1>1, <2>2, <3>1 DEF CallRecvInto, Grab
    <3>3. h.pc \in {"first", "fill"} BY <1>1, <3>1 DEF G!Enter, G!Grabber
    <3> QED BY <3>2, <3>3
  <2>3. CASE RunRecvInto(R)
    <3>1. PICK h \in G!Steps(grabber[R]) :
              Grab(R, h) /\ Goto(R, IF h.pc = "idle" THEN "account" ELSE "recv")
      BY <2>3 DEF RunRecvInto
    <3>2. grabber'[R] = h /\ rpc'[R] = (IF h.pc = "idle" THEN "account" ELSE "recv")
      BY <1>1, <2>3, <3>1 DEF RunRecvInto, Grab
    <3> QED BY <3>2
  <2>4. CASE SendOn(R)
    <3>1. grabber'[R].pc = grabber[R].pc /\ rpc' = rpc BY <1>1, <2>4 DEF SendOn, G!Grabber
    <3> QED BY <3>1
  <2> QED BY <1>4, <2>1, <2>2, <2>3, <2>4 DEF Receiving, Receive
<1> QED BY <1>2, <1>3, <1>4, One DEF Next, R

\* Which buffers of the pool a step destroys.
PoolLoses ==
    \/ InPool(R)' = InPool(R)
    \/ /\ Account(R) /\ grabber[R].lost
       /\ raw[R] \in InPool(R) /\ InPool(R)' = InPool(R) \ {raw[R]}
    \/ apc' = "done" /\ InPool(R)' \in SUBSET InPool(R)

\* The frame that was lost is destroyed.
LEMMA Destroying ==
    ASSUME IInv, Receiving(R), Account(R), grabber[R].lost
    PROVE  raw[R] \in InPool(R) /\ InPool(R)' = InPool(R) \ {raw[R]}
<1>1. TypeOK /\ RawKept /\ Apart(R) /\ R \in Receiver BY One DEF IInv, BuffersApart
<1>2. raw[R] \in Buffer /\ raw'[R] = NoBuffer /\ UNCHANGED <<free, filled, frames>>
  BY <1>1 DEF RawKept, HasRaw, TypeOK, Account, Receiving, assemblerVars, fifoVars
<1>3. NoBuffer \notin Buffer BY <1>1, Typed
<1> QED BY <1>1, <1>2, <1>3 DEF InPool, Apart, Queued

LEMMA PoolStep == IInv /\ [Next]_vars => PoolLoses
<1> SUFFICES ASSUME IInv, [Next]_vars PROVE PoolLoses OBVIOUS
<1>0. TypeOK /\ RawKept /\ FramesKept /\ BuffersApart /\ R \in Receiver BY One DEF IInv
<1>1. /\ free[R] \in Seq(Buffer) /\ filled[R] \in Seq(Buffer)
      /\ ToSet(free[R]) \subseteq Buffer /\ ToSet(filled[R]) \subseteq Buffer
      /\ NoBuffer \notin Buffer /\ Once(free[R], Buffer) /\ Once(filled[R], Buffer)
      /\ Apart(R)
  BY <1>0, Typed DEF BuffersApart, Apart
<1>2. ASSUME NEW q \in Seq(Buffer), q # << >>, Once(q, Buffer)
      PROVE  Head(q) \in Buffer /\ ToSet(q) = ToSet(Tail(q)) \cup {Head(q)}
  <2> HIDE DEF Buffer
  <2> QED BY <1>2, TailOnce
<1>3. ASSUME NEW q \in Seq(Buffer), NEW b \in Buffer, Once(q, Buffer), b \notin ToSet(q)
      PROVE  ToSet(Append(q, b)) = ToSet(q) \cup {b}
  <2> HIDE DEF Buffer
  <2> QED BY <1>3, AppendOnce
<1>4. ASSUME UNCHANGED <<free, filled, raw, frames>> PROVE PoolLoses
  BY <1>4 DEF InPool, PoolLoses
<1>5. CASE Receiving(R)
  <2> USE <1>5 DEF Receiving, assemblerVars
  <2>1. CASE TakeFree(R)
    <3>1. raw[R] = NoBuffer /\ free[R] # << >> /\ UNCHANGED <<filled, frames>>
      BY <1>0, <2>1 DEF RawKept, HasRaw, TakeFree, PopFree
    <3>2. free'[R] = Tail(free[R]) /\ raw'[R] = Head(free[R])
      BY <1>0, <2>1 DEF TypeOK, TakeFree, PopFree
    <3> QED BY <1>1, <1>2, <3>1, <3>2 DEF InPool, PoolLoses
  <2>2. CASE Account(R)
    <3>1. CASE ~grabber[R].lost BY <1>4, <2>2, <3>1 DEF Account, fifoVars
    <3>2. CASE grabber[R].lost BY <1>5, <2>2, <3>2, Destroying DEF PoolLoses
    <3> QED BY <3>1, <3>2
  <2>3. CASE PassOn(R)
    <3>1. raw[R] \in Buffer /\ raw[R] \notin ToSet(filled[R]) /\ UNCHANGED <<free, frames>>
      BY <1>0, <1>1, <2>3 DEF RawKept, HasRaw, Apart, Queued, PassOn
    <3>2. filled'[R] = Append(filled[R], raw[R]) /\ raw'[R] = NoBuffer
      BY <1>0, <2>3 DEF TypeOK, PassOn, PushValue, Moved
    <3> QED BY <1>1, <1>3, <3>1, <3>2 DEF InPool, PoolLoses
  <2>4. CASE CheckStopped(R) \/ CallRecvInto(R) \/ RunRecvInto(R) \/ SendOn(R)
    BY <1>4, <2>4 DEF CheckStopped, CallRecvInto, RunRecvInto, SendOn, Grab, fifoVars
  <2> QED BY <2>1, <2>2, <2>3, <2>4 DEF Receive
<1>6. ASSUME frames[R] = NoBuffer, PopValue(R),
             frames' = [frames EXCEPT ![R] = Head(filled[R])], UNCHANGED <<free, raw>>
      PROVE  PoolLoses
  <2>1. filled'[R] = Tail(filled[R]) /\ frames'[R] = Head(filled[R]) /\ filled[R] # << >>
    BY <1>0, <1>6 DEF TypeOK, PopValue
  <2> QED BY <1>1, <1>2, <1>6, <2>1 DEF InPool, PoolLoses
<1>7. ASSUME frames[R] \in Buffer, PushFree(R, frames[R]),
             frames' = [frames EXCEPT ![R] = Moved(@)], UNCHANGED <<filled, raw>>
      PROVE  PoolLoses
  <2>1. free'[R] = Append(free[R], frames[R]) /\ frames'[R] = NoBuffer
    BY <1>0, <1>7 DEF TypeOK, PushFree, Moved
  <2>2. frames[R] \notin ToSet(free[R]) BY <1>1, <1>7 DEF Apart, Queued
  <2> QED BY <1>1, <1>3, <1>7, <2>1, <2>2 DEF InPool, PoolLoses
<1>8. ASSUME Leave, UNCHANGED <<free, filled, raw>> PROVE PoolLoses
  BY <1>1, <1>0, <1>8 DEF Leave, InPool, PoolLoses
<1>9. CASE Assembling
  <2> USE <1>9 DEF Assembling, receiverVars, fifoVars
  <2>0. at = R BY <1>0, One DEF TypeOK, R
  <2>1. CASE CheckAsmStopped
    <3>1. UNCHANGED <<free, filled, raw>> /\ (Leave \/ UNCHANGED frames) BY <2>1 DEF CheckAsmStopped
    <3> QED BY <1>4, <1>8, <3>1
  <2>2. CASE TakeFrame
    <3>1. frames[R] = NoBuffer
      BY <1>0, <2>0, <2>2, NumReceiversAssumption DEF TakeFrame, TypeOK, FramesKept, Noted, Popped, Receiver
    <3> QED BY <1>6, <2>0, <2>2, <3>1 DEF TakeFrame
  <2>3. CASE NoteNumber
    <3>1. UNCHANGED <<free, filled, raw>> /\ (Leave \/ UNCHANGED frames) BY <2>3 DEF NoteNumber
    <3> QED BY <1>4, <1>8, <3>1
  <2>4. CASE DropLowest
    <3>1. LowestAt \in Receiver BY <1>0, LowestFound DEF TypeOK
    <3>2. LowestAt = R BY <3>1, One DEF R
    <3>3. frames[R] \in Buffer BY <1>0, <2>4 DEF DropLowest, FramesKept, Noted
    <3> QED BY <1>7, <2>4, <3>2, <3>3 DEF DropLowest
  <2>5. CASE TakeAnother
    <3>1. frames[R] = NoBuffer
      BY <1>0, <2>0, <2>5 DEF TakeAnother, TypeOK, FramesKept, Noted, Popped
    <3> QED BY <1>6, <2>0, <2>5, <3>1 DEF TakeAnother
  <2>6. CASE ProcessPart
    <3>1. frames[R] \in Buffer
      BY <1>0, <2>0, <2>6, NumReceiversAssumption DEF ProcessPart, TypeOK, FramesKept, Noted, Receiver
    <3> QED BY <1>7, <2>0, <2>6, <3>1 DEF ProcessPart
  <2>7. CASE TakeNothing \/ BeginFrame BY <1>4, <2>7 DEF TakeNothing, BeginFrame
  <2> QED BY <2>1, <2>2, <2>3, <2>4, <2>5, <2>6, <2>7 DEF Assemble
<1>10. CASE Main \/ Quit
  <2>1. UNCHANGED <<free, filled, raw, frames>>
    BY <1>10 DEF Main, Quit, MainStartsReceiver, StartReceiving, MainStartsAssembler, StartAssembling,
       MainStopsReceiver, SetStopped, MainRequestsStop, RequestStop, MainJoinsReceiver, MainStopsAssembler,
       SetAsmStopped, MainJoinsAssembler, fifoVars, receiverVars, assemblerVars
  <2> QED BY <1>4, <2>1
<1>11. CASE UNCHANGED vars
  BY <1>4, <1>11 DEF vars, fifoVars, receiverVars, assemblerVars
<1> QED BY <1>5, <1>9, <1>10, <1>11, One DEF Next, R

\* How many buffers are gone after a step.
LEMMA GoneStep ==
    ASSUME IInv, [Next]_vars
    PROVE  /\ Gone \in Nat /\ Gone' \in Nat
           /\ Gone <= Cardinality(Buffer)
           /\ Receiving(R) /\ Account(R) /\ grabber[R].lost => Gone' = Gone + 1
           /\ \/ Gone' = Gone
              \/ Account(R) /\ grabber[R].lost
              \/ apc' = "done" /\ Gone' >= Gone
<1>1. /\ Gone = Cardinality(Buffer) - Cardinality(InPool(R))
      /\ IsFiniteSet(Buffer) /\ InPool(R) \in SUBSET Buffer
      /\ Cardinality(Buffer) \in Nat /\ Cardinality(InPool(R)) \in Nat /\ Gone \in Nat
  BY GoneIs
<1>2. IInv' BY NextInvariant
<1>3. /\ Gone' = Cardinality(Buffer) - Cardinality(InPool(R)')
      /\ InPool(R)' \in SUBSET Buffer
      /\ Cardinality(InPool(R)') \in Nat /\ Gone' \in Nat
  <2>1. (IInv => /\ Gone = Cardinality(Buffer) - Cardinality(InPool(R))
                 /\ InPool(R) \in SUBSET Buffer
                 /\ Cardinality(InPool(R)) \in Nat /\ Gone \in Nat)'
    BY GoneIs, PTL
  <2> QED BY <1>2, <2>1
<1>4. IsFiniteSet(InPool(R)) BY <1>1, FS_Subset
<1>5. Receiving(R) /\ Account(R) /\ grabber[R].lost => Gone' = Gone + 1
  <2> SUFFICES ASSUME Receiving(R), Account(R), grabber[R].lost PROVE Gone' = Gone + 1 OBVIOUS
  <2>1. raw[R] \in InPool(R) /\ InPool(R)' = InPool(R) \ {raw[R]} BY Destroying
  <2>2. Cardinality(InPool(R)') = Cardinality(InPool(R)) - 1 BY <1>4, <2>1, FS_RemoveElement
  <2> QED BY <1>1, <1>3, <2>2
<1>6. \/ Gone' = Gone
      \/ Account(R) /\ grabber[R].lost
      \/ apc' = "done" /\ Gone' >= Gone
  <2>1. CASE InPool(R)' = InPool(R) BY <1>1, <1>3, <2>1
  <2>2. CASE Account(R) /\ grabber[R].lost BY <2>2
  <2>3. CASE apc' = "done" /\ InPool(R)' \in SUBSET InPool(R)
    <3>1. Cardinality(InPool(R)') <= Cardinality(InPool(R)) BY <1>4, <2>3, FS_Subset
    <3> QED BY <1>1, <1>3, <2>3, <3>1
  <2> QED BY <2>1, <2>2, <2>3, PoolStep DEF PoolLoses
<1> QED BY <1>1, <1>3, <1>5, <1>6

\* Frames and packets are counted without overflow.
WideEnough == FifoSize * NumPackets < 2 ^ CountBits

LEMMA LostStart == MainInit => LostKept
<1> SUFFICES ASSUME MainInit PROVE LostKept OBVIOUS
<1>1. Init /\ counters["lost"] = 0 /\ stage = "begin" /\ tally = "lost"
  BY DEF MainInit, Zeros, Counter
<1>2. Gone = 0
  <2>1. free[R] = [i \in Buffer |-> i] /\ DOMAIN free[R] = Buffer BY <1>1, One DEF Init, FifoInit
  <2>2. InPool(R) = Buffer
    <3> HIDE DEF Buffer
    <3> QED BY <2>1 DEF InPool, ToSet
  <2>3. IInv BY <1>1, InitInvariant
  <2> QED BY <2>2, <2>3, GoneIs
<1>3. Losses = 0 BY <1>1, <1>2 DEF Losses, Doomed
<1>4. 0 * NumPackets = 0 BY NumPacketsAssumption
<1> QED BY <1>1, <1>3, <1>4 DEF LostKept

LEMMA LostStep ==
    ASSUME WideEnough, IInv, MInv, Calls, LostKept, [MainNext]_allVars
    PROVE  LostKept'
<1>1. TypeOK /\ ThreadsKept /\ MainTyped /\ StagesKept /\ TallyKept BY DEF IInv, MInv
<1>2. /\ counters["lost"] \in Nat /\ Gone \in Nat /\ Gone' \in Nat /\ Gone <= Cardinality(Buffer)
      /\ Losses \in Nat /\ Losses' \in Nat
  BY <1>1, GoneStep, StepsAsApp DEF MainTyped, Counter, Losses
<1>3. ASSUME NEW a \in Nat, NEW b \in Nat, a <= b PROVE a * NumPackets <= b * NumPackets
  BY <1>3, NumPacketsAssumption
<1>4. \A a \in Nat : (a + 1) * NumPackets = a * NumPackets + NumPackets BY NumPacketsAssumption
<1>5. (Gone + 1) * NumPackets < 2 ^ CountBits
  <2>1. Gone + 1 <= FifoSize
    <3>1. Cardinality(Buffer) = FifoSize - 1 BY FifoSizeAssumption, FS_Interval DEF Buffer
    <3> QED BY <1>2, <3>1, FifoSizeAssumption
  <2>2. (Gone + 1) * NumPackets <= FifoSize * NumPackets BY <1>2, <1>3, <2>1, FifoSizeAssumption
  <2> PICK big : big = 2 ^ CountBits OBVIOUS
  <2>3. big \in Nat BY Width
  <2>4. (Gone + 1) * NumPackets \in Nat /\ FifoSize * NumPackets \in Nat
    BY <1>2, FifoSizeAssumption, NumPacketsAssumption
  <2>5. FifoSize * NumPackets < big BY DEF WideEnough
  <2> QED BY <2>2, <2>3, <2>4, <2>5
<1>6. ASSUME Losses' >= Losses, Losses' = Losses \/ apc' = "done", apc = "done" => apc' = "done",
             UNCHANGED <<counters, stage, reading, shown, before>>
      PROVE  LostKept'
  <2>1. Losses * NumPackets <= Losses' * NumPackets BY <1>2, <1>3, <1>6
  <2>2. \A a \in Nat : a * NumPackets \in Nat BY NumPacketsAssumption
  <2>3. Losses * NumPackets \in Nat /\ Losses' * NumPackets \in Nat BY <1>2, <2>2
  <2> QED BY <1>2, <1>6, <2>1, <2>3 DEF LostKept
<1>7. CASE AddLost
  <2>1. /\ tally = "lost" /\ tally' = (IF grabber[R].lost THEN "done" ELSE "complete")
        /\ rpc[R] = "account" /\ UNCHANGED <<vars, stage, terminal, reading, shown, before>>
    BY <1>7 DEF AddLost, Tallying
  <2>2. PICK m \in IF grabber[R].lost THEN 1 .. NumPackets ELSE {0} :
            counters' = [counters EXCEPT !["lost"] = (counters["lost"] + m) % 2 ^ CountBits]
    BY <1>7 DEF AddLost, Tallying
  <2>3. Losses = Gone /\ Losses' = Gone + (IF grabber[R].lost THEN 1 ELSE 0)
    <3>1. Gone' = Gone BY <2>1 DEF Gone, InPlace, Places, vars, fifoVars, receiverVars, assemblerVars
    <3>2. ~Doomed BY <2>1 DEF Doomed
    <3>3. Doomed' <=> grabber[R].lost BY <2>1 DEF Doomed, vars, receiverVars
    <3> QED BY <1>2, <3>1, <3>2, <3>3 DEF Losses
  <2>4. counters["lost"] <= Gone * NumPackets BY <2>3 DEF LostKept
  <2>5. /\ m \in Nat /\ counters["lost"] + m \in Nat
        /\ m >= (IF grabber[R].lost THEN 1 ELSE 0)
        /\ counters["lost"] + m <= (Gone + 1) * NumPackets
        /\ counters["lost"] + m <= Losses' * NumPackets
    <3>1. m \in Nat /\ m <= NumPackets /\ m >= (IF grabber[R].lost THEN 1 ELSE 0)
          /\ (grabber[R].lost \/ m = 0)
      BY NumPacketsAssumption
    <3>2. (Gone + 1) * NumPackets = Gone * NumPackets + NumPackets BY <1>2, <1>4
    <3>3. Gone * NumPackets \in Nat BY <1>2, NumPacketsAssumption
    <3>4. Losses' * NumPackets = (IF grabber[R].lost THEN (Gone + 1) * NumPackets ELSE Gone * NumPackets)
      <4>1. Losses' = (IF grabber[R].lost THEN Gone + 1 ELSE Gone) BY <1>2, <2>3
      <4> QED BY <4>1
    <3> PICK k : k = Gone * NumPackets OBVIOUS
    <3> PICK n : n = (Gone + 1) * NumPackets OBVIOUS
    <3>5. k \in Nat /\ n = k + NumPackets /\ NumPackets \in Nat BY <3>2, <3>3, NumPacketsAssumption
    <3>6. counters["lost"] \in Nat /\ counters["lost"] <= k BY <1>2, <2>4
    <3>7. counters["lost"] + m <= n /\ (grabber[R].lost \/ counters["lost"] + m <= k)
      BY <3>1, <3>5, <3>6
    <3> QED BY <3>1, <3>4, <3>6, <3>7
  <2>6. (counters["lost"] + m) % 2 ^ CountBits = counters["lost"] + m
    <3> PICK big : big = 2 ^ CountBits OBVIOUS
    <3>1. big \in Nat /\ (Gone + 1) * NumPackets < big /\ (Gone + 1) * NumPackets \in Nat
      BY <1>2, <1>5, Width, NumPacketsAssumption
    <3>2. counters["lost"] + m < big BY <2>5, <3>1
    <3> QED BY <2>5, <3>2, Width
  <2>7. counters'["lost"] = counters["lost"] + m BY <1>1, <2>2, <2>6 DEF MainTyped, Counter
  <2>8. apc' = apc BY <2>1 DEF vars, assemblerVars
  <2>9. shown["lost"] \in Nat /\ before.gone \in Int BY <1>1 DEF MainTyped, Counter
  <2>10. apc # "done" => Gone <= counters["lost"] BY <2>3 DEF LostKept
  <2>11. Losses' * NumPackets \in Int BY <1>2, NumPacketsAssumption
  <2> QED BY <1>2, <2>1, <2>3, <2>5, <2>7, <2>8, <2>9, <2>10, <2>11 DEF LostKept
<1>8. CASE AddComplete \/ NoteLast
  <2>1. /\ counters'["lost"] = counters["lost"] /\ ~grabber[R].lost
        /\ UNCHANGED <<vars, stage, terminal, reading, shown, before>>
    <3>1. tally \in {"complete", "last"} BY <1>8 DEF AddComplete, NoteLast, Tallying
    <3>2. PICK c, n : c \in {"complete", "last"} /\ counters' = [counters EXCEPT ![c] = n]
      BY <1>8 DEF AddComplete, NoteLast, Tallying
    <3> QED BY <1>1, <1>8, <3>1, <3>2 DEF AddComplete, NoteLast, Tallying, TallyKept, MainTyped, Counter
  <2>2. Gone' = Gone BY <2>1 DEF Gone, InPlace, Places, vars, fifoVars, receiverVars, assemblerVars
  <2>3. Losses' = Losses BY <2>1, <2>2 DEF Losses, Doomed, vars, receiverVars
  <2>4. apc' = apc BY <2>1 DEF vars, assemblerVars
  <2> QED BY <2>1, <2>2, <2>3, <2>4 DEF LostKept
<1>9. CASE Receives
  <2>1. /\ Receiving(R) /\ (rpc[R] = "account" => tally = "done")
        /\ tally' = (IF rpc[R] = "account" THEN "lost" ELSE tally)
        /\ UNCHANGED <<counters, stage, terminal, reading, shown, before>>
    BY <1>9 DEF Receives
  <2>2. apc' = apc BY <2>1 DEF Receiving, assemblerVars
  <2>3. ~Doomed'
    <3>1. CASE rpc[R] = "account" BY <2>1, <3>1 DEF Doomed
    <3>2. CASE rpc[R] # "account" BY <1>1, <2>1, <3>2 DEF Doomed, TallyKept
    <3> QED BY <3>1, <3>2
  <2>4. CASE rpc[R] = "account"
    <3>1. Account(R)
      BY <2>1, <2>4 DEF Receiving, Receive, CheckStopped, TakeFree, CallRecvInto, RunRecvInto, PassOn, SendOn, Calls
    <3>2. CASE grabber[R].lost
      <4>1. Gone' = Gone + 1 BY <2>1, <3>1, <3>2, GoneStep, StepsAsApp
      <4>2. Doomed BY <2>1, <2>4, <3>2 DEF Doomed
      <4>3. Losses' = Losses BY <1>2, <2>3, <4>1, <4>2 DEF Losses
      <4> QED BY <1>2, <1>6, <2>1, <2>2, <4>3
    <3>3. CASE ~grabber[R].lost
      <4>1. Gone' = Gone \/ (apc' = "done" /\ Gone' >= Gone) BY <3>3, GoneStep, StepsAsApp
      <4>2. ~Doomed BY <3>3 DEF Doomed
      <4>3. Losses' = Gone' /\ Losses = Gone BY <1>2, <2>3, <4>2 DEF Losses
      <4> QED BY <1>2, <1>6, <2>1, <2>2, <4>1, <4>3
    <3> QED BY <3>2, <3>3
  <2>5. CASE rpc[R] # "account"
    <3>1. Gone' = Gone \/ (apc' = "done" /\ Gone' >= Gone) BY <2>5, GoneStep, StepsAsApp DEF Account
    <3>2. Losses' = Gone' /\ Losses = Gone BY <1>2, <2>3, <2>5 DEF Losses, Doomed
    <3> QED BY <1>2, <1>6, <2>1, <2>2, <3>1, <3>2
  <2> QED BY <2>4, <2>5
<1>10. CASE Assembles \/ Mains \/ PressQ
  <2>1. UNCHANGED mainVars /\ (Assembling \/ Main \/ Quit) BY <1>10 DEF Assembles, Mains, PressQ
  <2>2. /\ grabber'[R].lost = grabber[R].lost /\ (apc = "done" => apc' = "done")
        /\ rpc[R] # "off" => rpc'[R] = rpc[R]
    <3>1. CASE Assembling BY <3>1, AssemblerAlone DEF receiverVars
    <3>2. CASE Main \/ Quit
      <4>1. apc = "done" => apc' = "done"
        BY <3>2 DEF Main, Quit, MainStartsReceiver, MainStartsAssembler, StartAssembling, MainStopsReceiver,
           MainRequestsStop, MainJoinsReceiver, MainStopsAssembler, SetAsmStopped, MainJoinsAssembler, assemblerVars
      <4> QED BY <1>1, <3>2, <4>1, MainAlone
    <3> QED BY <2>1, <3>1, <3>2
  <2>3. Doomed' <=> Doomed BY <1>1, <2>1, <2>2 DEF Doomed, TallyKept, mainVars
  <2>4. ~Account(R)
    <3>1. ASSUME Account(R) PROVE FALSE
      <4>1. rpc[R] = "account" /\ rpc'[R] # "account"
        BY <1>1, <3>1, One DEF Account, Goto, TypeOK
      <4> QED BY <2>2, <4>1
    <3> QED BY <3>1
  <2>5. Gone' = Gone \/ (apc' = "done" /\ Gone' >= Gone) BY <2>4, GoneStep, StepsAsApp
  <2>6. Losses' >= Losses /\ (Losses' = Losses \/ apc' = "done")
    <3>1. \/ Losses = Gone /\ Losses' = Gone'
          \/ Losses = Gone + 1 /\ Losses' = Gone' + 1
      BY <2>3 DEF Losses
    <3>2. Gone' >= Gone BY <1>2, <2>5
    <3>3. Gone \in Nat /\ Gone' \in Nat BY <1>2
    <3>4. Losses' >= Losses BY <3>1, <3>2, <3>3
    <3>5. Losses' = Losses \/ apc' = "done" BY <2>5, <3>1
    <3> QED BY <3>4, <3>5
  <2> QED BY <1>6, <2>1, <2>2, <2>6 DEF mainVars
<1>11. CASE DirectInput \/ ConstructObjects \/ LeaveBlock \/ ResetTerminal \/ StartThrows \/ PressS \/ Load
            \/ ShowStatus \/ UNCHANGED allVars
  <2>1. UNCHANGED <<vars, counters, tally>>
    BY <1>11 DEF DirectInput, ConstructObjects, LeaveBlock, ResetTerminal, StartThrows, PressS, Load, ShowStatus,
                 allVars, mainVars
  <2>2. Gone' = Gone BY <2>1 DEF Gone, InPlace, Places, vars, fifoVars, receiverVars, assemblerVars
  <2>3. Losses' = Losses BY <2>1, <2>2 DEF Losses, Doomed, vars, receiverVars
  <2>4. apc' = apc BY <2>1 DEF vars, assemblerVars
  <2>5. stage' = "status" => /\ before'.gone <= counters["lost"]
                             /\ "lost" \in reading' \/ before'.gone <= shown'["lost"]
    <3>1. CASE DirectInput \/ ConstructObjects \/ LeaveBlock \/ ResetTerminal \/ StartThrows \/ ShowStatus
      BY <3>1 DEF DirectInput, ConstructObjects, LeaveBlock, ResetTerminal, StartThrows, ShowStatus, At
    <3>2. CASE UNCHANGED allVars BY <3>2 DEF allVars, mainVars, LostKept
    <3>3. CASE PressS
      <4>1. apc # "done" BY <1>1, <3>3 DEF PressS, ThreadsKept, StagesKept
      <4>2. Gone <= counters["lost"] BY <1>2, <4>1 DEF LostKept, Losses
      <4> QED BY <3>3, <4>2 DEF PressS, Now, Counter
    <3>4. CASE Load
      <4>1. PICK c \in reading : shown' = [shown EXCEPT ![c] = counters[c]] /\ reading' = reading \ {c}
        BY <3>4 DEF Load
      <4>2. stage' = stage /\ before' = before BY <3>4 DEF Load
      <4>3. CASE c = "lost" BY <1>1, <4>1, <4>2, <4>3 DEF LostKept, MainTyped, Counter
      <4>4. CASE c # "lost" BY <1>1, <4>1, <4>2, <4>4 DEF LostKept, MainTyped, Counter
      <4> QED BY <4>3, <4>4
    <3> QED BY <1>11, <3>1, <3>2, <3>3, <3>4
  <2> QED BY <2>1, <2>3, <2>4, <2>5 DEF LostKept
<1> QED BY <1>7, <1>8, <1>9, <1>10, <1>11 DEF MainNext, MainRuns, ReceiverRuns

\* Counters that are wide enough show a lost packet for every buffer that is gone.
THEOREM LossShown == ASSUME WideEnough PROVE MainSpec => []LossIsShown
<1>1. MainInit => LostKept /\ Calls BY LostStart, CallsStart DEF MainInit
<1>2. IInv /\ MInv /\ Calls /\ LostKept /\ [MainNext]_<<vars, mainVars>> => LostKept'
  BY WideEnough, LostStep DEF allVars
<1>3. IInv /\ Calls /\ [MainNext]_<<vars, mainVars>> => Calls' BY CallsStep, StepsAsApp DEF allVars
<1>4. IInv /\ MInv /\ LostKept => LossIsShown
  <2>1. IInv /\ MInv /\ LostKept => (apc # "done" => Gone <= counters["lost"])
    <3> SUFFICES ASSUME IInv, MInv, LostKept, apc # "done" PROVE Gone <= counters["lost"] OBVIOUS
    <3>1. Gone \in Nat /\ counters["lost"] \in Nat BY GoneIs DEF MInv, MainTyped, Counter
    <3>2. Losses <= counters["lost"] BY DEF LostKept
    <3> QED BY <3>1, <3>2 DEF Losses
  <2> QED BY <2>1 DEF LostKept, LossIsShown
<1> QED BY <1>1, <1>2, <1>3, <1>4, MainIsApp, Invariance, MainInvariance, PTL DEF MainSpec
-----------------------------------------------------------------------------
(***************************************************************************)
(* The count of complete frames, where frames come in order.               *)
(***************************************************************************)
\* The first frame received has a number above 0.
LEMMA BegunStart == Init => Begun
BY One DEF Init, ReceiverInit, Begun, Collected, G!New, G!None

LEMMA BegunStep == IInv /\ OInv /\ Begun /\ [Next]_vars => Begun'
<1> SUFFICES ASSUME IInv, OInv, Begun, [Next]_vars PROVE Begun' OBVIOUS
<1>1. /\ TypeOK /\ Upward(R) /\ R \in Receiver /\ grabber \in [Receiver -> G!Grabber]
      /\ rpc \in [Receiver -> {"off", "check", "pop", "call", "recv", "account", "push", "done"}]
  BY One DEF IInv, OInv, TypeOK
<1> DEFINE g == grabber[R]
<1>2. g \in G!Grabber /\ g.seen \in Nat BY <1>1, MaxFrameAssumption DEF G!Grabber
<1>3. Faults \subseteq {"loss"} /\ ~G!Silent /\ ~G!Messy /\ ~Endless
  BY DEF OInv, Orderly, Faults, G!Silent, G!Messy, Endless
<1>4. CASE UNCHANGED vars \/ Assembling
  <2>1. UNCHANGED <<grabber, rpc>> BY <1>4 DEF vars, Assembling, receiverVars
  <2> QED BY <2>1 DEF Begun, Collected
<1>5. CASE Main \/ Quit
  <2>1. /\ grabber'[R] = g \/ grabber'[R] = G!RequestStop(g)
        /\ rpc'[R] = rpc[R] \/ rpc'[R] \in {"off", "check"}
    BY <1>1, <1>5, MainAlone
  <2>2. LET h == grabber'[R]
        IN  h.seen = g.seen /\ h.cached = g.cached /\ h.tail = g.tail /\ h.pc = g.pc /\ h.lost = g.lost
    BY <1>2, <2>1 DEF G!RequestStop, G!Grabber
  <2> QED BY <2>1, <2>2 DEF Begun, Collected
<1>6. CASE Receiving(R)
  <2>1. CASE CheckStopped(R) \/ TakeFree(R) \/ PassOn(R)
    <3>1. grabber' = grabber /\ rpc'[R] \in {"done", "pop", "call", "check"}
      BY <1>1, <2>1 DEF CheckStopped, TakeFree, PassOn, Goto
    <3> QED BY <3>1 DEF Begun, Collected
  <2>2. CASE CallRecvInto(R)
    <3>1. PICK h \in G!Enter(g) : Grab(R, h) BY <2>2 DEF CallRecvInto
    <3>2. grabber'[R] = h /\ rpc'[R] = "recv" BY <1>1, <2>2, <3>1 DEF CallRecvInto, Grab, Goto
    <3>3. /\ h.seen = g.seen /\ h.tail = g.tail /\ h.cached = G!None
          /\ g.cached = G!None => h.pc = "first"
      BY <1>2, <3>1 DEF G!Enter, G!Forgotten, G!Grabber
    <3> QED BY <3>2, <3>3 DEF Begun, Collected
  <2>3. CASE RunRecvInto(R)
    <3>1. PICK h \in G!Steps(g) : Grab(R, h) /\ Goto(R, IF h.pc = "idle" THEN "account" ELSE "recv")
      BY <2>3 DEF RunRecvInto
    <3>2. /\ grabber'[R] = h /\ rpc[R] = "recv"
          /\ rpc'[R] = (IF h.pc = "idle" THEN "account" ELSE "recv")
      BY <1>1, <2>3, <3>1 DEF RunRecvInto, Goto, Grab
    <3>3. g.pc # "idle" /\ g.lost BY <1>1, <3>2 DEF Upward
    <3>4. h \notin G!Failed(g) BY <1>3 DEF G!Failed
    <3>5. CASE h \in G!FirstPacket(g)
      <4>1. PICK f \in G!Arriving(g) :
                h = [g EXCEPT !.pc = "fill", !.cur = f, !.seen = G!Newest(g.seen, f),
                              !.tail = IF Faults = {} /\ f = g.seen THEN "begun" ELSE "none"]
        BY <3>5 DEF G!FirstPacket
      <4>2. f \in Nat /\ (f > g.seen \/ (f = g.seen /\ g.tail = "left"))
        BY <1>2, <1>3, <4>1, MaxFrameAssumption DEF G!Arriving, G!Later, G!Grabber
      <4>3. h.seen = f BY <1>2, <4>1, <4>2 DEF G!Newest, G!Grabber
      <4>4. f # 0 BY <1>2, <4>2 DEF Begun
      <4> QED BY <3>2, <4>3, <4>4 DEF Begun
    <3>6. CASE h \in G!FirstStopped(g)
      <4>1. h.pc = "idle" /\ h.lost = g.lost /\ h.cached = g.cached /\ h.seen = g.seen /\ h.tail = g.tail
        BY <1>2, <3>6 DEF G!FirstStopped, G!Grabber
      <4> QED BY <3>2, <3>3, <4>1 DEF Begun, Collected
    <3>7. CASE h \in G!Whole(g) \/ h \in G!GivenUp(g)
      <4>1. g.pc = "fill" /\ h.seen = g.seen
        BY <1>2, <3>7 DEF G!Whole, G!GivenUp, G!Grabber
      <4> QED BY <3>2, <4>1 DEF Begun
    <3>8. CASE h \in G!Cut(g)
      <4>1. PICK f \in G!Later(g.seen) :
                h = [g EXCEPT !.pc = "idle", !.cached = f, !.seen = G!Newest(g.seen, f), !.tail = "none"]
        BY <1>3, <3>8 DEF G!Cut
      <4>2. f \in Nat /\ f > g.seen BY <1>2, <4>1, MaxFrameAssumption DEF G!Later
      <4>3. h.seen = f /\ f # 0 BY <1>2, <4>1, <4>2 DEF G!Newest, G!Grabber
      <4> QED BY <3>2, <4>3 DEF Begun
    <3> QED BY <3>1, <3>4, <3>5, <3>6, <3>7, <3>8 DEF G!Steps
  <2>4. CASE Account(R)
    <3>1. grabber' = grabber /\ rpc[R] = "account" /\ rpc'[R] = (IF g.lost THEN "check" ELSE "push")
      BY <1>1, <2>4 DEF Account, Goto
    <3> QED BY <3>1 DEF Begun, Collected
  <2> QED BY <1>3, <1>6, <2>1, <2>2, <2>3, <2>4 DEF Receiving, Receive, SendOn
<1> QED BY <1>4, <1>5, <1>6, One DEF Next, R

\* Where a whole frame is in hand, it has a higher number than any before.
LEMMA HigherNumber ==
    ASSUME IInv, OInv, Begun, Collected(R)
    PROVE  /\ content[R][raw[R]] \in 1 .. MaxFrame
           /\ \A f \in delivered[R] \cup {0} : f < content[R][raw[R]]
<1>1. TypeOK /\ Upward(R) /\ R \in Receiver BY One DEF IInv, OInv
<1>2. grabber[R].seen \in 0 .. MaxFrame BY <1>1 DEF TypeOK, G!Grabber
<1>3. content[R][raw[R]] = grabber[R].seen /\ Above(R, grabber[R].seen) BY <1>1 DEF Upward
<1>4. grabber[R].seen # 0 BY DEF Begun
<1> QED BY <1>2, <1>3, <1>4, MaxFrameAssumption DEF Above

\* Frame numbers are noted without overflow.
WideNumbers == MaxFrame < 2 ^ CountBits

LEMMA CountsStart == MainInit => CountsKept
<1> SUFFICES ASSUME MainInit PROVE CountsKept OBVIOUS
<1>1. /\ counters["complete"] = 0 /\ counters["last"] = 0 /\ tally = "lost" /\ stage = "begin"
      /\ rpc[R] = "off"
  BY One DEF MainInit, Init, ReceiverInit, Zeros, Counter
<1> QED BY <1>1, MaxFrameAssumption DEF CountsKept, Noting, NowNoted

\* The numbers of 's' stay in order while the counters grow.
LEMMA StatusStays ==
    ASSUME MInv, CountsKept, Noting', UNCHANGED <<stage, reading, shown, before>>,
           counters'["complete"] \in Nat, counters'["last"] \in Nat,
           counters["complete"] <= counters'["complete"], counters["last"] <= counters'["last"]
    PROVE  CountsKept'
<1>1. /\ counters["complete"] \in Nat /\ counters["last"] \in Nat
      /\ shown["complete"] \in Nat /\ shown["last"] \in Nat /\ before.complete \in Nat
  BY DEF MInv, MainTyped, Counter
<1>2. stage' = "status" => /\ before'.complete <= counters'["complete"]
                           /\ before'.complete <= counters'["last"] + 1
                           /\ "complete" \in reading' \/ shown'["complete"] <= counters'["complete"]
                           /\ "last" \in reading' \/ before'.complete <= shown'["last"] + 1
  BY <1>1 DEF CountsKept
<1> QED BY <1>2 DEF CountsKept

LEMMA CountsStep ==
    ASSUME WideNumbers, IInv, OInv, Begun, MInv, CountsKept, [MainNext]_allVars
    PROVE  CountsKept'
<1> USE MaxFrameAssumption
<1>1. /\ TypeOK /\ MainTyped /\ StagesKept /\ TallyKept /\ Upward(R) /\ R \in Receiver
      /\ rpc \in [Receiver -> {"off", "check", "pop", "call", "recv", "account", "push", "done"}]
  BY One DEF IInv, MInv, OInv, TypeOK
<1>2. /\ counters["complete"] \in Nat /\ counters["last"] \in Nat
      /\ DOMAIN counters = {"complete", "last", "lost"}
  BY <1>1 DEF MainTyped, Counter
<1>3. \A n \in Nat : n <= MaxFrame => n % 2 ^ CountBits = n
  <2> PICK big : big = 2 ^ CountBits OBVIOUS
  <2>1. big \in Nat /\ MaxFrame < big BY Width DEF WideNumbers
  <2>2. \A n \in Nat : n < big => n % big = n BY Width
  <2> QED BY <2>1, <2>2
<1>4. Noting BY DEF CountsKept
<1>5. ASSUME UNCHANGED counters, Noting', UNCHANGED <<stage, reading, shown, before>>
      PROVE  CountsKept'
  BY <1>2, <1>5, StatusStays
<1>6. CASE AddLost
  <2>1. /\ tally = "lost" /\ tally' = (IF grabber[R].lost THEN "done" ELSE "complete")
        /\ rpc[R] = "account" /\ UNCHANGED <<vars, stage, terminal, reading, shown, before>>
    BY <1>6 DEF AddLost, Tallying
  <2>2. counters'["complete"] = counters["complete"] /\ counters'["last"] = counters["last"]
    <3>1. PICK n : counters' = [counters EXCEPT !["lost"] = n] BY <1>6 DEF AddLost, Tallying
    <3> QED BY <1>2, <3>1
  <2>3. ~NowNoted /\ ~NowNoted' BY <2>1 DEF NowNoted, vars, receiverVars
  <2>4. Noting' BY <1>4, <2>1, <2>2, <2>3 DEF Noting, vars, receiverVars
  <2> QED BY <1>2, <2>1, <2>2, <2>4, StatusStays
<1>7. CASE AddComplete \/ NoteLast
  <2>1. /\ tally \in {"complete", "last"} /\ rpc[R] = "account"
        /\ UNCHANGED <<vars, stage, terminal, reading, shown, before>>
    BY <1>7 DEF AddComplete, NoteLast, Tallying
  <2>2. ~grabber[R].lost /\ Collected(R) /\ ~NowNoted BY <1>1, <2>1 DEF TallyKept, Collected, NowNoted
  <2> DEFINE n == content[R][raw[R]]
  <2>3. n \in Nat /\ n <= MaxFrame /\ counters["last"] < n
    <3>1. n \in 1 .. MaxFrame /\ \A f \in delivered[R] \cup {0} : f < n BY <2>2, HigherNumber
    <3>2. counters["last"] \in delivered[R] \cup {0} BY <1>4, <2>2 DEF Noting
    <3> QED BY <3>1, <3>2
  <2>4. UNCHANGED <<content, raw, delivered, grabber, rpc>> BY <2>1 DEF vars, fifoVars, receiverVars
  <2>5. CASE AddComplete
    <3>1. tally = "complete" /\ tally' = "last" BY <2>5 DEF AddComplete, Tallying
    <3>2. counters["complete"] <= counters["last"] BY <1>4, <3>1 DEF Noting
    <3>3. counters["complete"] + 1 \in Nat /\ counters["complete"] + 1 <= MaxFrame BY <1>2, <2>3, <3>2
    <3>4. (counters["complete"] + 1) % 2 ^ CountBits = counters["complete"] + 1 BY <1>3, <3>3
    <3>5. counters' = [counters EXCEPT !["complete"] = counters["complete"] + 1]
      BY <2>5, <3>4 DEF AddComplete, Tallying
    <3>6. counters'["complete"] = counters["complete"] + 1 /\ counters'["last"] = counters["last"]
      BY <1>2, <3>5
    <3>7. ~NowNoted' BY <2>1, <2>4, <3>1 DEF NowNoted
    <3>8. Noting' BY <1>2, <1>4, <2>2, <2>4, <3>1, <3>2, <3>6, <3>7 DEF Noting
    <3>9. counters["complete"] <= counters'["complete"] /\ counters["last"] <= counters'["last"]
      BY <1>2, <3>6
    <3> QED BY <1>2, <2>1, <3>6, <3>8, <3>9, StatusStays
  <2>6. CASE NoteLast
    <3>1. tally = "last" /\ tally' = "done" BY <2>6 DEF NoteLast, Tallying
    <3>2. n % 2 ^ CountBits = n BY <1>3, <2>3
    <3>3. counters' = [counters EXCEPT !["last"] = n] BY <2>6, <3>2 DEF NoteLast, Tallying
    <3>4. counters'["complete"] = counters["complete"] /\ counters'["last"] = n BY <1>2, <3>3
    <3>5. NowNoted' BY <2>1, <2>2, <2>4, <3>1 DEF NowNoted
    <3>6. counters["complete"] <= counters["last"] + 1 BY <1>4, <3>1 DEF Noting
    <3>7. Noting' BY <1>2, <2>3, <2>4, <3>1, <3>4, <3>5, <3>6 DEF Noting
    <3>8. counters["complete"] <= counters'["complete"] /\ counters["last"] <= counters'["last"]
      BY <1>2, <2>3, <3>4
    <3> QED BY <1>2, <2>1, <2>3, <3>4, <3>7, <3>8, StatusStays
  <2> QED BY <1>7, <2>5, <2>6
<1>8. CASE Receives
  <2>1. /\ Receiving(R) /\ (rpc[R] = "account" => tally = "done")
        /\ tally' = (IF rpc[R] = "account" THEN "lost" ELSE tally)
        /\ UNCHANGED <<counters, stage, terminal, reading, shown, before>>
    BY <1>8 DEF Receives
  <2>2. tally' = "lost" /\ tally # "last" BY <1>1, <2>1 DEF TallyKept
  <2>3. CASE Account(R)
    <3>1. /\ rpc[R] = "account" /\ rpc'[R] = (IF grabber[R].lost THEN "check" ELSE "push")
          /\ UNCHANGED <<content, delivered>> /\ (~grabber[R].lost => raw' = raw)
      BY <1>1, <2>3 DEF Account, Goto, fifoVars
    <3>2. NowNoted <=> ~grabber[R].lost BY <2>1, <3>1 DEF NowNoted
    <3>3. NowNoted' <=> ~grabber[R].lost BY <2>2, <3>1 DEF NowNoted
    <3>4. Noting' BY <1>4, <2>1, <2>2, <3>1, <3>2, <3>3 DEF Noting
    <3> QED BY <1>5, <2>1, <3>4
  <2>4. CASE PassOn(R)
    <3>1. /\ rpc[R] = "push" /\ rpc'[R] = "check"
          /\ delivered'[R] = delivered[R] \cup {content[R][raw[R]]}
      BY <1>1, <2>4 DEF PassOn, Goto, TypeOK
    <3>2. NowNoted /\ ~NowNoted' BY <3>1 DEF NowNoted
    <3>3. Noting' BY <1>4, <2>1, <2>2, <3>1, <3>2 DEF Noting
    <3> QED BY <1>5, <2>1, <3>3
  <2>5. CASE CheckStopped(R) \/ TakeFree(R) \/ CallRecvInto(R) \/ RunRecvInto(R)
    <3>1. /\ rpc[R] \notin {"account", "push"} /\ rpc'[R] # "push" /\ UNCHANGED delivered
      BY <1>1, <2>5 DEF CheckStopped, TakeFree, CallRecvInto, RunRecvInto, Goto, Grab
    <3>2. ~NowNoted /\ ~NowNoted' BY <2>2, <3>1 DEF NowNoted
    <3>3. Noting' BY <1>4, <2>1, <2>2, <3>1, <3>2 DEF Noting
    <3> QED BY <1>5, <2>1, <3>3
  <2>6. ~SendOn(R) BY DEF OInv, Orderly, SendOn, Endless
  <2> QED BY <2>1, <2>3, <2>4, <2>5, <2>6 DEF Receiving, Receive
<1>9. CASE Assembles \/ Mains \/ PressQ
  <2>1. UNCHANGED mainVars /\ (Assembling \/ Main \/ Quit) BY <1>9 DEF Assembles, Mains, PressQ
  <2>2. /\ UNCHANGED <<content, raw, delivered>> /\ grabber'[R].lost = grabber[R].lost
        /\ rpc'[R] = rpc[R] \/ (rpc[R] = "off" /\ rpc'[R] \in {"off", "check"})
    <3>1. CASE Assembling BY <3>1, AssemblerAlone DEF receiverVars
    <3>2. CASE Main \/ Quit BY <1>1, <3>2, MainAlone
    <3> QED BY <2>1, <3>1, <3>2
  <2>3. NowNoted' <=> NowNoted BY <2>1, <2>2 DEF NowNoted, mainVars
  <2>4. Noting' BY <1>4, <2>1, <2>2, <2>3 DEF Noting, mainVars
  <2> QED BY <1>5, <2>1, <2>4 DEF mainVars
<1>10. CASE DirectInput \/ ConstructObjects \/ LeaveBlock \/ ResetTerminal \/ StartThrows \/ PressS \/ Load
            \/ ShowStatus \/ UNCHANGED allVars
  <2>1. UNCHANGED <<vars, counters, tally>>
    BY <1>10 DEF DirectInput, ConstructObjects, LeaveBlock, ResetTerminal, StartThrows, PressS, Load, ShowStatus,
                 allVars, mainVars
  <2>2. NowNoted' <=> NowNoted BY <2>1 DEF NowNoted, vars, receiverVars
  <2>3. Noting' BY <1>4, <2>1, <2>2 DEF Noting, vars, fifoVars, receiverVars
  <2>4. stage' = "status" => /\ before'.complete <= counters["complete"]
                             /\ before'.complete <= counters["last"] + 1
                             /\ "complete" \in reading' \/ shown'["complete"] <= counters["complete"]
                             /\ "last" \in reading' \/ before'.complete <= shown'["last"] + 1
    <3>1. CASE DirectInput \/ ConstructObjects \/ LeaveBlock \/ ResetTerminal \/ StartThrows \/ ShowStatus
      BY <3>1 DEF DirectInput, ConstructObjects, LeaveBlock, ResetTerminal, StartThrows, ShowStatus, At
    <3>2. CASE UNCHANGED allVars BY <3>2 DEF allVars, mainVars, CountsKept
    <3>3. CASE PressS
      <4>1. counters["complete"] <= counters["last"] + 1 BY <1>2, <1>4 DEF Noting
      <4> QED BY <1>2, <3>3, <4>1 DEF PressS, Now, Counter
    <3>4. CASE Load
      <4>1. PICK c \in reading : shown' = [shown EXCEPT ![c] = counters[c]] /\ reading' = reading \ {c}
        BY <3>4 DEF Load
      <4>2. stage' = stage /\ before' = before BY <3>4 DEF Load
      <4>3. c \in Counter /\ \A d \in Counter : shown'[d] = IF d = c THEN counters[c] ELSE shown[d]
        BY <1>1, <4>1 DEF MainTyped
      <4> QED BY <1>2, <4>1, <4>2, <4>3 DEF CountsKept, Counter
    <3> QED BY <1>10, <3>1, <3>2, <3>3, <3>4
  <2> QED BY <2>1, <2>3, <2>4 DEF CountsKept
<1> QED BY <1>6, <1>7, <1>8, <1>9, <1>10 DEF MainNext, MainRuns, ReceiverRuns

\* Counters that are wide enough agree with one another where frames come in order.
THEOREM StatusShown == ASSUME WideNumbers PROVE MainSpec => []StatusTrue
<1>1. MainInit => CountsKept /\ Begun BY CountsStart, BegunStart DEF MainInit
<1>2. IInv /\ OInv /\ Begun /\ MInv /\ CountsKept /\ [MainNext]_<<vars, mainVars>> => CountsKept'
  BY WideNumbers, CountsStep DEF allVars
<1>3. IInv /\ OInv /\ Begun /\ [MainNext]_<<vars, mainVars>> => Begun' BY BegunStep, StepsAsApp DEF allVars
<1>4. MInv /\ CountsKept => StatusTrue
  <2> SUFFICES ASSUME MInv, CountsKept PROVE StatusTrue OBVIOUS
  <2>1. /\ counters["complete"] \in Nat /\ shown["complete"] \in Nat /\ shown["last"] \in Nat
        /\ before.complete \in Nat
    BY DEF MInv, MainTyped, Counter
  <2> QED BY <2>1 DEF CountsKept, StatusTrue
<1>5. ~Orderly => StatusTrue BY DEF Orderly, StatusTrue
<1>6. [MainNext]_<<vars, mainVars>> => UNCHANGED network
  BY StepsAsApp DEF allVars, Next, vars, Main, Assembling, Receiving, Quit
<1>7. UNCHANGED network => (Orderly' <=> Orderly) BY DEF Orderly
<1>8. MainSpec /\ ~Orderly => []StatusTrue BY <1>5, <1>6, <1>7, PTL DEF MainSpec
<1>9. MainSpec /\ Orderly => []StatusTrue
  BY <1>1, <1>2, <1>3, <1>4, MainIsApp, Ordered, Invariance, MainInvariance, PTL DEF MainSpec
<1> QED BY <1>8, <1>9, PTL
-----------------------------------------------------------------------------
(***************************************************************************)
(* What keeps 'q' from ending the program keeps it for ever.               *)
(***************************************************************************)
\* Nothing is put back into a pool that is empty.
LEMMA DryStep == IInv /\ Dry /\ [Next]_vars => Dry'
<1> SUFFICES ASSUME IInv, Dry, [Next]_vars PROVE Dry' OBVIOUS
<1>1. /\ TypeOK /\ IInv' /\ rpc[R] = "pop" /\ InPlace(R) = 0
      /\ rpc \in [Receiver -> {"off", "check", "pop", "call", "recv", "account", "push", "done"}]
  BY NextInvariant DEF IInv, TypeOK, Dry
<1>2. /\ IsFiniteSet(Buffer) /\ InPool(R) \in SUBSET Buffer /\ Cardinality(InPool(R)) = 0
  BY <1>1, GoneIs
<1>3. InPool(R) = {}
  <2>1. IsFiniteSet(InPool(R)) BY <1>2, FS_Subset
  <2> QED BY <1>2, <2>1, FS_EmptySet
<1>4. InPool(R)' = {} BY <1>1, <1>3, PoolStep DEF PoolLoses, Account
<1>5. InPlace(R)' = 0
  <2>1. (IInv => InPlace(R) = Cardinality(InPool(R)))' BY GoneIs, PTL
  <2> QED BY <1>1, <1>4, <2>1, FS_EmptySet
<1>6. rpc'[R] = "pop"
  <2>1. ~TakeFree(R)
    <3>1. free[R] \in Seq(Buffer) /\ ToSet(free[R]) \subseteq Buffer BY <1>1, One, Typed
    <3>2. \A b \in Buffer : b \notin ToSet(free[R]) BY <1>3 DEF InPool, Queued
    <3>3. ToSet(free[R]) = {} BY <3>1, <3>2
    <3>4. free[R] # << >> => free[R][1] \in ToSet(free[R])
      <4> HIDE DEF Buffer
      <4> QED BY <3>1 DEF ToSet
    <3> QED BY <3>3, <3>4 DEF TakeFree, PopFree
  <2>2. CASE Receiving(R)
    BY <1>1, <2>1, <2>2 DEF Receiving, Receive, CheckStopped, CallRecvInto, RunRecvInto, Account, PassOn, SendOn
  <2>3. CASE Main \/ Quit BY <1>1, <2>3, MainAlone
  <2>4. CASE Assembling \/ UNCHANGED vars BY <1>1, <2>4 DEF Assembling, vars, receiverVars
  <2> QED BY <2>2, <2>3, <2>4, One DEF Next, R
<1> QED BY <1>5, <1>6 DEF Dry

\* Once all buffers are destroyed, and the thread of the receiver is to take
\* one, it spins for ever, and whatever key is pressed main does not return.
THEOREM DryForEver == MainSpec => [](Dry => [](Dry /\ stage # "over"))
<1>1. IInv /\ Dry /\ [MainNext]_<<vars, mainVars>> => Dry' BY DryStep, StepsAsApp DEF allVars
<1>2. Dry /\ CleanEnd => stage # "over" BY DEF Dry, CleanEnd
<1> QED BY <1>1, <1>2, MainIsApp, Invariance, EndsCleanly, PTL DEF MainSpec

\* The request to stop has been made and lost, and no packet comes any more.
Unheard == Deaf /\ mpc = "join" /\ ~Endless

\* Once it is unheard recv_into waits for ever, and main for its thread.
THEOREM UnheardForEver == MainSpec => [](Unheard => [](Unheard /\ stage # "over"))
<1>1. IInv /\ Unheard /\ [Next]_vars => Unheard'
  <2> SUFFICES ASSUME IInv, Unheard, [Next]_vars PROVE Unheard' OBVIOUS
  <2>1. mat = R /\ rpc[R] = "recv" BY OneReceiver DEF IInv, TypeOK, Unheard, Deaf, R
  <2>2. ~Receiving(R)
    BY <2>1 DEF Unheard, Deaf, Receiving, Receive, CheckStopped, TakeFree, CallRecvInto, RunRecvInto, Account,
       PassOn, SendOn
  <2>3. ~Main /\ ~Quit
    BY <2>1 DEF Unheard, Main, MainStartsReceiver, MainStartsAssembler, MainStopsReceiver, MainRequestsStop,
       MainJoinsReceiver, MainStopsAssembler, MainJoinsAssembler, Quit
  <2>4. CASE Assembling \/ UNCHANGED vars
    <3>1. UNCHANGED <<rpc, grabber, mpc, network>> BY <2>4 DEF Assembling, vars, receiverVars
    <3>2. G!Steps(grabber[R])' = G!Steps(grabber[R])
      BY <3>1 DEF G!Steps, G!FirstPacket, G!FirstStopped, G!Whole, G!Cut, G!GivenUp, G!Failed,
                  G!Arriving, G!Later, G!Silent, G!Messy, G!Newest, Faults
    <3> QED BY <3>1, <3>2 DEF Unheard, Deaf, Endless
  <2> QED BY <2>2, <2>3, <2>4, One DEF Next, R
<1>2. IInv /\ Unheard /\ [MainNext]_<<vars, mainVars>> => Unheard' BY <1>1, StepsAsApp DEF allVars
<1>3. Unheard /\ CleanEnd => stage # "over" BY DEF Unheard, Deaf, CleanEnd
<1> QED BY <1>2, <1>3, MainIsApp, Invariance, EndsCleanly, PTL DEF MainSpec
=============================================================================
