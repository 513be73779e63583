------------------------------- MODULE Lifecycle -------------------------------
(***************************************************************************)
(* The life of UdpReceivers and of a FrameAssembler that reads from their  *)
(* fifos: start(), stop(), push_back() and the destructors, in any order a *)
(* client may call them, against what the threads still do.  The socket of *)
(* a receiver is opened and closed as in UdpSocket; what the threads do    *)
(* with frames is in UdpReceiver and FrameAssembler.                       *)
(*                                                                         *)
(* A std::thread that is assigned to or destroyed while it is joinable     *)
(* ends the program.  The code expects its clients to keep some rules,     *)
(* none of which it checks: start() once, and on an assembler with a fifo; *)
(* stop() once, after start(); push_back() before start(); no destructor   *)
(* between start() and stop(), nor of a receiver an assembler reads from.  *)
(* A client that breaks one is careless.                                   *)
(***************************************************************************)
EXTENDS UdpSocket, Sequences, SequencesExt

CONSTANTS Assembler,  \* the FrameAssembler
          MaxFifos    \* the bound on push_backs

ASSUME AssemblerAssumption == Assembler \notin Object
ASSUME MaxFifosAssumption == MaxFifos \in Nat

VARIABLES thread,    \* receiving_thread, processing_thread: joinable unless "none"
          stopped,   \* stopped, of each of them
          fifos,     \* fifos of the assembler, as the receivers they are in
          sized,     \* the size of frames and frame_numbers in assemble()
          joining,   \* whose thread stop() waits for
          outcome,   \* "fine", "terminated" by std::terminate, or "undefined"
          (* What the code does not record. *)
          called,    \* what the client called last: "new", "started" or "stopped"
          careless   \* the client has broken a rule

history  == <<called, careless>>
lifeVars == <<thread, stopped, fifos, sized, joining, outcome, history>>

Worker == Receiver \cup {Assembler}
Nobody == "nobody"

ASSUME NobodyAssumption == Nobody \notin Worker

LifeInit == /\ Init
            /\ thread = [w \in Worker |-> "none"] /\ called = [w \in Worker |-> "new"]
            /\ stopped = [w \in Worker |-> FALSE]
            /\ fifos = << >> /\ sized = 0
            /\ joining = Nobody /\ outcome = "fine" /\ careless = FALSE

Exists(w) == w \in Receiver => life[w] = "live"

\* The client can make a call.
Free(w) == joining = Nobody /\ outcome = "fine" /\ Exists(w)

\* The call it makes is within the rules or not.
Note(w, call, kept) == /\ called' = [called EXCEPT ![w] = call]
                       /\ careless' = (careless \/ ~kept)

\* joinable(); never so if the threads were detached.
JoinableNever(w) == FALSE
Joinable(w) == thread[w] # "none"

\* start() and a destructor find the thread joinable.
Terminates(w) == /\ Joinable(w) /\ outcome' = "terminated"
                 /\ UNCHANGED <<vars, thread, stopped, fifos, sized, joining>>

\* start()
MayStart(w) == called[w] = "new" /\ (w = Assembler => fifos # << >>)
StartRunning(w) ==
    /\ Free(w) /\ Terminates(w)
    /\ Note(w, "started", MayStart(w))
Start(w) ==
    /\ Free(w) /\ ~Joinable(w)
    /\ thread' = [thread EXCEPT ![w] = "begun"]
    /\ Note(w, "started", MayStart(w))
    /\ UNCHANGED <<vars, stopped, fifos, sized, joining, outcome>>

\* stop(), in which join() throws if there is no thread.
Stop(w) ==
    /\ Free(w)
    /\ stopped' = [stopped EXCEPT ![w] = TRUE]
    /\ joining' = IF Joinable(w) THEN w ELSE Nobody
    /\ Note(w, "stopped", called[w] = "started")
    /\ UNCHANGED <<vars, thread, fifos, sized, outcome>>
Join(w) ==
    /\ joining = w /\ thread[w] = "ended"
    /\ thread' = [thread EXCEPT ![w] = "none"]
    /\ joining' = Nobody
    /\ UNCHANGED <<vars, stopped, fifos, sized, outcome, history>>

\* push_back(), or construction from a receiver.
PushBack(r) ==
    /\ Free(r) /\ Len(fifos) < MaxFifos
    /\ fifos' = Append(fifos, r)
    /\ careless' = (careless \/ called[Assembler] # "new")
    /\ UNCHANGED <<vars, thread, stopped, sized, joining, outcome, called>>

\* The destructors.
MayDestroy(w) == called[w] # "started" /\ w \notin ToSet(fifos)
DestroyRunning(w) ==
    /\ Free(w) /\ Terminates(w)
    /\ Note(w, "new", MayDestroy(w))
DestroyReceiver(r) ==
    /\ Free(r) /\ ~Joinable(r) /\ Destroy(r)
    /\ stopped' = [stopped EXCEPT ![r] = FALSE]
    /\ Note(r, "new", MayDestroy(r))
    /\ UNCHANGED <<thread, fifos, sized, joining, outcome>>
DestroyAssembler ==
    /\ Free(Assembler) /\ ~Joinable(Assembler)
    /\ stopped' = [stopped EXCEPT ![Assembler] = FALSE]
    /\ fifos' = << >> /\ sized' = 0
    /\ Note(Assembler, "new", MayDestroy(Assembler))
    /\ UNCHANGED <<vars, thread, joining, outcome>>

\* A thread begins.  That of the assembler sizes its vectors.
Begin(w) ==
    /\ outcome = "fine" /\ thread[w] = "begun"
    /\ thread' = [thread EXCEPT ![w] = "running"]
    /\ sized' = IF w = Assembler THEN Len(fifos) ELSE sized
    /\ UNCHANGED <<vars, stopped, fifos, joining, outcome, history>>

\* The loop of a thread ends when it sees the flag.
End(w) ==
    /\ outcome = "fine" /\ thread[w] = "running" /\ stopped[w]
    /\ thread' = [thread EXCEPT ![w] = "ended"]
    /\ UNCHANGED <<vars, stopped, fifos, sized, joining, outcome, history>>

\* A round of assemble() uses every fifo, and a place in frames for each.
\* Without any, allEqual is false and the index of the lowest is past the end.
RoundGoesWrong ==
    /\ outcome = "fine" /\ thread[Assembler] = "running"
    /\ \/ fifos = << >> \/ Len(fifos) > sized
       \/ \E r \in ToSet(fifos) : life[r] # "live"
    /\ outcome' = "undefined"
    /\ UNCHANGED <<vars, thread, stopped, fifos, sized, joining, history>>

\* What concerns the sockets only.
Handle == /\ Free(Assembler) /\ UNCHANGED lifeVars
          /\ Move \/ \E o \in Object : Construct(o) \/ (o \notin Receiver /\ Destroy(o))

LifeNext ==
    \/ \E w \in Worker : \/ StartRunning(w) \/ Start(w) \/ Stop(w) \/ Join(w)
                         \/ DestroyRunning(w) \/ Begin(w) \/ End(w)
    \/ \E r \in Receiver : PushBack(r) \/ DestroyReceiver(r)
    \/ DestroyAssembler \/ RoundGoesWrong \/ Handle

LifeSpec == LifeInit /\ [][LifeNext]_<<vars, lifeVars>>
-----------------------------------------------------------------------------
(***************************************************************************)
(* Properties.                                                             *)
(***************************************************************************)
LifeTypeOK ==
    /\ TypeOK
    /\ thread \in [Worker -> {"none", "begun", "running", "ended"}]
    /\ called \in [Worker -> {"new", "started", "stopped"}]
    /\ stopped \in [Worker -> BOOLEAN] /\ careless \in BOOLEAN
    /\ fifos \in Seq(Receiver) /\ sized \in 0 .. MaxFifos
    /\ joining \in Worker \cup {Nobody} /\ outcome \in {"fine", "terminated", "undefined"}

\* Descriptors have one owner and are closed in the end (see UdpSocket), in
\* objects of every kind together, and every variable has its type.
DescriptorsOwned == LifeTypeOK /\ OneOwner /\ NoOrphan

\* The rules are enough: a client that keeps them never has the program
\* terminated, never has the assembler use memory that is not there, and
\* never has a thread end that it did not stop.
RulesSuffice ==
    ~careless => /\ outcome = "fine"
                 /\ \A w \in Worker : thread[w] = "ended" => joining = w

\* Whatever the client does, a receiving thread has its socket: it never reads
\* from a descriptor that was closed or that meanwhile belongs to another.
ThreadHasSocket ==
    \A r \in Receiver : thread[r] # "none" =>
        /\ life[r] = "live" /\ opened[sock[r].fd] = sock[r].size
        /\ \A o \in Object \ {r} : ~Holds(o, sock[r].fd)
=============================================================================
