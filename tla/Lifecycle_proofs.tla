---------------------------- MODULE Lifecycle_proofs ----------------------------
(***************************************************************************)
(* Theorems about Lifecycle, for any number of receivers, grabbers, packet *)
(* sources and descriptors, and for any clients.                           *)
(***************************************************************************)
EXTENDS Lifecycle, SharedLemmas

(***************************************************************************)
(* The inductive invariant.                                                *)
(***************************************************************************)
\* What a place in memory knows of a descriptor, by how far its constructor is.
\* Only an object another one was moved from has none.
SocketsKept ==
    \A o \in Object :
        /\ life[o] = "none" => sock[o] = Empty
        /\ life[o] # "none" /\ (life[o] # "live" \/ o \notin Movable) => sock[o].fd # NoFd
        /\ sock[o].fd # NoFd => sock[o].size # Closed

\* The thread of a receiver does not outlive it.
ThreadsLive == \A r \in Receiver : thread[r] # "none" => life[r] = "live"

\* What a client that keeps the rules can rely on.
WorkerKept(w) ==
    /\ called[w] = "new" => thread[w] = "none" /\ ~stopped[w]
    /\ called[w] = "started" => thread[w] \in {"begun", "running"} /\ ~stopped[w]
    /\ called[w] = "stopped" => thread[w] = "none" \/ joining = w
FifosKept ==
    /\ called[Assembler] # "new" => fifos # << >>
    /\ thread[Assembler] = "running" => sized = Len(fifos)
    /\ \A r \in ToSet(fifos) : life[r] = "live"
RulesKept == ~careless => outcome = "fine" /\ FifosKept /\ \A w \in Worker : WorkerKept(w)

SInv == TypeOK /\ OneOwner /\ NoOrphan /\ SocketsKept
IInv == LifeTypeOK /\ Len(fifos) <= MaxFifos /\ SInv /\ ThreadsLive /\ RulesKept
-----------------------------------------------------------------------------
(***************************************************************************)
(* The sockets.                                                            *)
(***************************************************************************)
\* The lowest descriptor not open is one that is not open.
LEMMA LowestUnused ==
    ASSUME NEW T \in SUBSET Fd, T # {}
    PROVE  Min(T) \in T
<1>1. T \in SUBSET Nat BY MaxFdAssumption DEF Fd
<1> QED BY <1>1, Lowest DEF Min

\* An object gets a descriptor that was not open.
LEMMA Opening == ASSUME SInv, NEW o \in Object, NEW n \in PacketSize \cup {Sending}, OpenSocket(o, n)
                 PROVE  SInv'
<1> DEFINE unused == {fd \in Fd : opened[fd] = Closed}
<1> PICK fd : fd = Min(unused) OBVIOUS
<1> USE PacketSizeAssumption, MaxFdAssumption
<1>1. fd \in Fd /\ opened[fd] = Closed
  <2>1. unused # {} BY DEF OpenSocket
  <2>2. unused \in SUBSET Fd OBVIOUS
  <2> HIDE DEF unused
  <2>3. fd \in unused BY <2>1, <2>2, LowestUnused
  <2> QED BY <2>3 DEF unused
<1>2. TypeOK /\ OneOwner /\ NoOrphan /\ SocketsKept BY DEF SInv
<1>3. /\ life[o] = "none" /\ life' = [life EXCEPT ![o] = IF o \in Source THEN "connect" ELSE "bind"]
      /\ opened' = [opened EXCEPT ![fd] = n] /\ sock' = [sock EXCEPT ![o] = [fd |-> fd, size |-> n]]
      /\ UNCHANGED orphan
  BY DEF OpenSocket
<1>4. n # Closed /\ fd # NoFd BY <1>1 DEF Closed, Sending, NoFd, Fd
<1>5. /\ sock'[o] = [fd |-> fd, size |-> n] /\ life'[o] \in {"connect", "bind"} /\ opened'[fd] = n
      /\ \A a \in Object \ {o} : sock'[a] = sock[a] /\ life'[a] = life[a]
      /\ \A d \in Fd \ {fd} : opened'[d] = opened[d]
  BY <1>1, <1>2, <1>3 DEF TypeOK
<1>6. TypeOK'
  <2>1. [fd |-> fd, size |-> n] \in [fd : Fd \cup {NoFd}, size : PacketSize \cup {0, Sending}]
    BY <1>1
  <2> QED BY <1>1, <1>2, <1>3, <2>1 DEF TypeOK
<1>7. \A a \in Object : Holds(a, fd) => FALSE
  <2> SUFFICES ASSUME NEW a \in Object, Holds(a, fd) PROVE FALSE OBVIOUS
  <2>1. opened[fd] = sock[a].size /\ sock[a].size # Closed BY <1>2, <1>4 DEF Holds, OneOwner, SocketsKept
  <2> QED BY <1>1, <2>1
<1>8. OneOwner'
  <2> SUFFICES ASSUME NEW a \in Object, life'[a] # "none", sock'[a].fd # NoFd
               PROVE  /\ opened'[sock'[a].fd] = sock'[a].size
                      /\ \A b \in Object : life'[b] # "none" /\ sock'[b].fd = sock'[a].fd => a = b
    BY DEF OneOwner, Holds
  <2>1. CASE a = o
    <3>1. \A b \in Object \ {o} : ~(life'[b] # "none" /\ sock'[b].fd = fd) BY <1>5, <1>7 DEF Holds
    <3>2. sock'[a].fd = fd /\ sock'[a].size = n BY <1>5, <2>1
    <3> QED BY <1>5, <2>1, <3>1, <3>2
  <2>2. CASE a # o
    <3>1. sock'[a] = sock[a] /\ life'[a] = life[a] BY <1>5, <2>2
    <3>2. sock[a].fd \in Fd /\ sock[a].fd # fd BY <1>2, <1>7, <2>2, <3>1 DEF TypeOK, Holds
    <3>3. opened'[sock[a].fd] = sock[a].size BY <1>2, <1>5, <3>1, <3>2 DEF OneOwner
    <3>4. \A b \in Object : life'[b] # "none" /\ sock'[b].fd = sock[a].fd => Holds(b, sock[a].fd)
      BY <1>5, <3>2 DEF Holds
    <3> QED BY <1>2, <3>1, <3>3, <3>4 DEF OneOwner
  <2> QED BY <2>1, <2>2
<1>9. NoOrphan'
  <2> SUFFICES ASSUME NEW d \in Fd, opened'[d] # Closed, d \notin orphan
               PROVE  \E a \in Object : Holds(a, d)'
    BY <1>3 DEF NoOrphan
  <2>1. CASE d = fd
    <3>1. life'[o] # "none" /\ sock'[o].fd = d BY <1>5, <2>1
    <3> QED BY <3>1 DEF Holds
  <2>2. CASE d # fd
    <3>1. PICK a \in Object : Holds(a, d) BY <1>2, <1>5, <2>2 DEF NoOrphan
    <3>2. a # o BY <1>3, <3>1 DEF Holds
    <3> QED BY <1>5, <3>1, <3>2 DEF Holds
  <2> QED BY <2>1, <2>2
<1>10. SocketsKept'
  <2> SUFFICES ASSUME NEW a \in Object
               PROVE  /\ life'[a] = "none" => sock'[a] = Empty
                      /\ life'[a] # "none" /\ (life'[a] # "live" \/ a \notin Movable) => sock'[a].fd # NoFd
                      /\ sock'[a].fd # NoFd => sock'[a].size # Closed
    BY DEF SocketsKept
  <2>1. CASE a = o
    <3>1. sock'[a].fd = fd /\ sock'[a].size = n /\ life'[a] # "none" BY <1>5, <2>1
    <3> QED BY <1>4, <3>1
  <2>2. CASE a # o BY <1>2, <1>5, <2>2 DEF SocketsKept
  <2> QED BY <2>1, <2>2
<1> QED BY <1>6, <1>8, <1>9, <1>10 DEF SInv

\* An object ends, and its descriptor with it, unless that is left open.
LEMMA Ending ==
    ASSUME SInv, NEW o \in Object, life[o] # "none",
           life' = [life EXCEPT ![o] = "none"], sock' = [sock EXCEPT ![o] = Empty],
           \/ Close(sock[o].fd) /\ UNCHANGED orphan
           \/ life[o] # "live" /\ orphan' = orphan \cup {sock[o].fd} /\ UNCHANGED opened
    PROVE  SInv'
<1>1. TypeOK /\ OneOwner /\ NoOrphan /\ SocketsKept BY DEF SInv
<1>2. /\ sock'[o] = Empty /\ life'[o] = "none"
      /\ \A a \in Object \ {o} : sock'[a] = sock[a] /\ life'[a] = life[a]
  BY <1>1 DEF TypeOK
<1>3. \A d \in Fd : /\ d # sock[o].fd => opened'[d] = opened[d]
                    /\ opened'[d] = opened[d] \/ opened'[d] = Closed
                    /\ d = sock[o].fd => opened'[d] = Closed \/ d \in orphan'
  BY <1>1 DEF Close, TypeOK
<1>4. orphan \subseteq orphan' OBVIOUS
<1>5. TypeOK'
  <2>1. Empty \in [fd : Fd \cup {NoFd}, size : PacketSize \cup {0, Sending}] BY DEF Empty
  <2>2. sock' \in [Object -> [fd : Fd \cup {NoFd}, size : PacketSize \cup {0, Sending}]]
    BY <1>1, <2>1 DEF TypeOK
  <2>3. life' \in [Object -> {"none", "connect", "bind", "option", "buffer", "live"}] BY <1>1 DEF TypeOK
  <2>4. opened' \in [Fd -> PacketSize \cup {Closed, Sending}] BY <1>1 DEF Close, TypeOK
  <2>5. sock[o] \in [fd : Fd \cup {NoFd}, size : PacketSize \cup {0, Sending}] BY <1>1 DEF TypeOK
  <2>6. life[o] # "live" => sock[o].fd \in Fd BY <1>1, <2>5 DEF SocketsKept
  <2>7. orphan' \subseteq Fd BY <1>1, <2>6 DEF TypeOK
  <2> QED BY <2>2, <2>3, <2>4, <2>7 DEF TypeOK
<1>6. OneOwner'
  <2> SUFFICES ASSUME NEW a \in Object, life'[a] # "none", sock'[a].fd # NoFd
               PROVE  /\ opened'[sock'[a].fd] = sock'[a].size
                      /\ \A b \in Object : life'[b] # "none" /\ sock'[b].fd = sock'[a].fd => a = b
    BY DEF OneOwner, Holds
  <2>1. a # o /\ sock'[a] = sock[a] /\ life'[a] = life[a] BY <1>2
  <2>2. sock[a].fd \in Fd /\ sock[a].fd # sock[o].fd BY <1>1, <2>1 DEF TypeOK, OneOwner, Holds
  <2>3. opened'[sock[a].fd] = sock[a].size BY <1>1, <1>3, <2>1, <2>2 DEF OneOwner
  <2>4. \A b \in Object : life'[b] # "none" /\ sock'[b].fd = sock[a].fd => Holds(b, sock[a].fd)
    BY <1>2 DEF Holds
  <2> QED BY <1>1, <2>1, <2>3, <2>4 DEF OneOwner
<1>7. NoOrphan'
  <2> SUFFICES ASSUME NEW d \in Fd, opened'[d] # Closed, d \notin orphan'
               PROVE  \E a \in Object : Holds(a, d)'
    BY DEF NoOrphan
  <2>1. d # sock[o].fd /\ d \notin orphan /\ opened[d] # Closed BY <1>3, <1>4
  <2>2. PICK a \in Object : Holds(a, d) BY <1>1, <2>1 DEF NoOrphan
  <2>3. a # o BY <2>1, <2>2 DEF Holds
  <2> QED BY <1>2, <2>2, <2>3 DEF Holds
<1>8. SocketsKept' BY <1>1, <1>2 DEF SocketsKept, Empty
<1> QED BY <1>5, <1>6, <1>7, <1>8 DEF SInv

\* A constructor goes on.
LEMMA GoingOn ==
    ASSUME SInv, NEW o \in Object, life[o] \notin {"none", "live"},
           NEW next \in {"option", "buffer", "live"}, Succeeds(o, life[o], next)
    PROVE  SInv'
<1>1. TypeOK /\ OneOwner /\ NoOrphan /\ SocketsKept BY DEF SInv
<1>2. /\ UNCHANGED <<sock, opened, orphan>> /\ life' = [life EXCEPT ![o] = next]
      /\ life'[o] = next /\ \A a \in Object \ {o} : life'[a] = life[a]
  BY <1>1 DEF TypeOK, Succeeds
<1>3. TypeOK' BY <1>1, <1>2 DEF TypeOK
<1>4. \A fd : \A a \in Object : Holds(a, fd)' <=> Holds(a, fd) BY <1>2 DEF Holds
<1>5. OneOwner'
  <2> SUFFICES ASSUME NEW a \in Object, life'[a] # "none", sock[a].fd # NoFd
               PROVE  /\ opened[sock[a].fd] = sock[a].size
                      /\ \A b \in Object : Holds(b, sock[a].fd) => a = b
    BY <1>2, <1>4 DEF OneOwner, Holds
  <2>1. life[a] # "none" BY <1>2
  <2> QED BY <1>1, <2>1 DEF OneOwner
<1>6. NoOrphan' BY <1>1, <1>2, <1>4 DEF NoOrphan
<1>7. SocketsKept' BY <1>1, <1>2 DEF SocketsKept
<1> QED BY <1>3, <1>5, <1>6, <1>7 DEF SInv

\* Two grabbers, of which the second one is alive, swap their sockets.
LEMMA Swapping ==
    ASSUME SInv, NEW a \in Movable, NEW b \in Movable, Swap(a, b), UNCHANGED <<opened, orphan>>,
           life[b] = "live", life[a] \in {"none", "live"}, life' = [life EXCEPT ![a] = "live"]
    PROVE  SInv'
<1>1. TypeOK /\ OneOwner /\ NoOrphan /\ SocketsKept BY DEF SInv
<1>2. a \in Object /\ b \in Object BY DEF Movable
<1> DEFINE Other(o) == IF o = a THEN b ELSE IF o = b THEN a ELSE o
<1>3. \A o \in Object : Other(o) \in Object /\ Other(Other(o)) = o BY <1>2
<1>4. \A o \in Object : sock'[o] = sock[Other(o)] BY <1>1, <1>2 DEF TypeOK, Swap
<1>5. life'[a] = "live" /\ life'[b] = "live" /\ \A o \in Object : o # a => life'[o] = life[o]
  BY <1>1, <1>2 DEF TypeOK
<1>6. life[a] = "none" => sock[a].fd = NoFd BY <1>1, <1>2 DEF SocketsKept, Empty
<1>7. \A o \in Object : sock'[o].fd # NoFd => (life'[o] # "none" <=> life[Other(o)] # "none")
  BY <1>4, <1>5, <1>6
<1> HIDE DEF Other
<1>8. TypeOK'
  <2>1. sock' \in [Object -> [fd : Fd \cup {NoFd}, size : PacketSize \cup {0, Sending}]]
    BY <1>1, <1>2 DEF TypeOK, Swap
  <2> QED BY <1>1, <1>2, <2>1 DEF TypeOK
<1>9. OneOwner'
  <2> SUFFICES ASSUME NEW o \in Object, life'[o] # "none", sock'[o].fd # NoFd
               PROVE  /\ opened[sock'[o].fd] = sock'[o].size
                      /\ \A p \in Object : life'[p] # "none" /\ sock'[p].fd = sock'[o].fd => o = p
    BY DEF OneOwner, Holds
  <2>1. /\ Other(o) \in Object /\ life[Other(o)] # "none" /\ sock[Other(o)].fd # NoFd
        /\ sock'[o] = sock[Other(o)]
    BY <1>3, <1>4, <1>7
  <2>2. \A p \in Object : life'[p] # "none" /\ sock'[p].fd = sock'[o].fd
                          => Holds(Other(p), sock[Other(o)].fd)
    BY <1>3, <1>4, <1>7, <2>1 DEF Holds
  <2>3. \A p \in Object : Holds(Other(p), sock[Other(o)].fd) => Other(p) = Other(o)
    BY <1>1, <1>3, <2>1 DEF OneOwner
  <2>4. \A p \in Object : Other(p) = Other(o) => p = o BY <1>3
  <2> QED BY <1>1, <2>1, <2>2, <2>3, <2>4 DEF OneOwner
<1>10. NoOrphan'
  <2> SUFFICES ASSUME NEW d \in Fd, opened[d] # Closed, d \notin orphan
               PROVE  \E o \in Object : Holds(o, d)'
    BY DEF NoOrphan
  <2>1. PICK o \in Object : Holds(o, d) BY <1>1 DEF NoOrphan
  <2>2. d # NoFd BY MaxFdAssumption DEF Fd, NoFd
  <2>3. sock'[Other(o)].fd = d BY <1>3, <1>4, <2>1 DEF Holds
  <2>4. life'[Other(o)] # "none" BY <1>3, <1>7, <2>1, <2>2, <2>3 DEF Holds
  <2> QED BY <1>3, <2>3, <2>4 DEF Holds
<1>11. SocketsKept'
  <2> SUFFICES ASSUME NEW o \in Object
               PROVE  /\ life'[o] = "none" => sock'[o] = Empty
                      /\ life'[o] # "none" /\ (life'[o] # "live" \/ o \notin Movable) => sock'[o].fd # NoFd
                      /\ sock'[o].fd # NoFd => sock'[o].size # Closed
    BY DEF SocketsKept
  <2>1. CASE o \in {a, b} BY <1>1, <1>3, <1>4, <1>5, <2>1 DEF SocketsKept
  <2>2. CASE o \notin {a, b}
    <3>1. sock'[o] = sock[o] /\ life'[o] = life[o] BY <1>4, <1>5, <2>2 DEF Other
    <3> QED BY <1>1, <3>1 DEF SocketsKept
  <2> QED BY <2>1, <2>2
<1> QED BY <1>8, <1>9, <1>10, <1>11 DEF SInv

\* Every step on the sockets.
LEMMA SocketStep == ASSUME SInv, Next PROVE SInv'
<1>1. TypeOK BY DEF SInv
<1>2. ASSUME NEW o \in Object, Construct(o) PROVE SInv'
  <2>1. CASE \E n \in IF o \in Source THEN {Sending} ELSE PacketSize : OpenSocket(o, n)
    BY <2>1, Opening
  <2>2. CASE \/ Succeeds(o, "connect", "live") \/ Succeeds(o, "bind", "option")
             \/ Succeeds(o, "option", "buffer") \/ Succeeds(o, "buffer", "live")
    <3>1. \E next \in {"option", "buffer", "live"} : Succeeds(o, life[o], next)
      BY <2>2 DEF Succeeds
    <3>2. life[o] \notin {"none", "live"} BY <2>2 DEF Succeeds
    <3> QED BY <3>1, <3>2, GoingOn
  <2>3. CASE ConnectFails(o) \/ BindFails(o) \/ OptionFails(o) \/ BufferFails(o)
    BY <2>3, Ending DEF ConnectFails, BindFails, OptionFails, BufferFails, ThrowsOpen, Throws
  <2> QED BY <1>2, <2>1, <2>2, <2>3 DEF Construct
<1>3. ASSUME NEW o \in Object, Destroy(o) PROVE SInv' BY <1>3, Ending DEF Destroy
<1>4. ASSUME Move PROVE SInv'
  <2>1. PICK a \in Movable, b \in Movable : MoveConstruct(a, b) \/ MoveAssign(a, b) BY <1>4 DEF Move
  <2>2. a \in Object BY DEF Movable
  <2>3. CASE MoveConstruct(a, b) BY <2>3, Swapping DEF MoveConstruct
  <2>4. CASE MoveAssign(a, b)
    <3>1. life' = [life EXCEPT ![a] = "live"] BY <1>1, <2>2, <2>4 DEF MoveAssign, TypeOK
    <3> QED BY <2>4, <3>1, Swapping DEF MoveAssign
  <2> QED BY <2>1, <2>3, <2>4
<1> QED BY <1>2, <1>3, <1>4 DEF Next
-----------------------------------------------------------------------------
(***************************************************************************)
(* The threads and the client.                                             *)
(***************************************************************************)
\* At first nothing is there.
LEMMA LifeInitInvariant == LifeInit => IInv
<1> SUFFICES ASSUME LifeInit PROVE IInv OBVIOUS
<1> USE MaxFdAssumption, MaxFifosAssumption, ObjectAssumption DEF LifeInit, Init
<1>1. TypeOK
  <2>1. Empty \in [fd : Fd \cup {NoFd}, size : PacketSize \cup {0, Sending}] BY DEF Empty
  <2> QED BY <2>1 DEF TypeOK
<1>2. OneOwner BY DEF OneOwner
<1>3. NoOrphan BY DEF NoOrphan
<1>4. SocketsKept BY DEF SocketsKept, Empty
<1>5. LifeTypeOK
  <2>1. /\ thread \in [Worker -> {"none", "begun", "running", "ended"}]
        /\ called \in [Worker -> {"new", "started", "stopped"}]
        /\ stopped \in [Worker -> BOOLEAN] /\ careless \in BOOLEAN
    OBVIOUS
  <2>2. fifos \in Seq(Receiver) /\ sized \in 0 .. MaxFifos OBVIOUS
  <2>3. joining \in Worker \cup {Nobody} /\ outcome \in {"fine", "terminated", "undefined"} OBVIOUS
  <2> QED BY <1>1, <2>1, <2>2, <2>3 DEF LifeTypeOK
<1>6. Len(fifos) <= MaxFifos OBVIOUS
<1>7. Receiver \subseteq Worker /\ Assembler \in Worker BY DEF Worker
<1>8. ThreadsLive BY <1>7 DEF ThreadsLive
<1>9. RulesKept
  <2>1. FifosKept BY <1>7 DEF FifosKept, ToSet
  <2> QED BY <2>1 DEF RulesKept, WorkerKept
<1> QED BY <1>1, <1>2, <1>3, <1>4, <1>5, <1>6, <1>8, <1>9 DEF IInv, LifeTypeOK, SInv

\* The client goes wrong, or what must not happen has happened: only a careless
\* client has rules that are not kept.
LEMMA CarelessKeepsRules == careless' = TRUE => RulesKept'
BY DEF RulesKept

\* A call to a worker, or a step of its thread, concerns no other one, unless
\* that is waited for.
LEMMA OthersKept ==
    ASSUME NEW w \in Worker, WorkerKept(w),
           UNCHANGED <<called[w], thread[w], stopped[w]>>, joining = w => joining' = w
    PROVE  WorkerKept(w)'
BY DEF WorkerKept

\* The sockets of the receivers and the threads stay as they are when main
\* calls start() or stop(), or the threads begin and end.
LEMMA SocketsStay == SInv /\ UNCHANGED vars => SInv'
BY DEF SInv, vars, TypeOK, OneOwner, NoOrphan, SocketsKept, Holds

\* Calls that end the program.
LEMMA Terminating ==
    ASSUME IInv, NEW w \in Worker, StartRunning(w) \/ DestroyRunning(w)
    PROVE  IInv'
<1> USE DEF StartRunning, DestroyRunning, Terminates, Note, Joinable
<1>1. SInv' BY SocketsStay DEF IInv
<1>2. LifeTypeOK'
  <2>1. careless' \in BOOLEAN BY DEF IInv, LifeTypeOK
  <2>2. called' \in [Worker -> {"new", "started", "stopped"}] BY DEF IInv, LifeTypeOK
  <2> QED BY <1>1, <2>1, <2>2 DEF IInv, LifeTypeOK, SInv
<1>3. (Len(fifos) <= MaxFifos)' BY DEF IInv
<1>4. ThreadsLive' BY DEF IInv, ThreadsLive, vars
<1>5. careless' = TRUE
  <2>1. SUFFICES ASSUME ~careless PROVE careless' = TRUE BY DEF IInv, LifeTypeOK
  <2>2. WorkerKept(w) BY <2>1 DEF IInv, RulesKept
  <2>3. joining = Nobody /\ w # Nobody BY NobodyAssumption DEF Free
  <2> QED BY <2>2, <2>3 DEF WorkerKept, MayStart, MayDestroy, IInv, LifeTypeOK
<1> QED BY <1>1, <1>2, <1>3, <1>4, <1>5, CarelessKeepsRules DEF IInv

LEMMA Starting == ASSUME IInv, NEW w \in Worker, Start(w) PROVE IInv'
<1> USE DEF Start, Note, Joinable
<1>0. SInv /\ LifeTypeOK BY DEF IInv
<1>1. SInv' BY <1>0, SocketsStay
<1>2. /\ thread' \in [Worker -> {"none", "begun", "running", "ended"}] /\ thread'[w] = "begun"
      /\ called' \in [Worker -> {"new", "started", "stopped"}] /\ called'[w] = "started"
      /\ \A v \in Worker \ {w} : thread'[v] = thread[v] /\ called'[v] = called[v]
  BY <1>0 DEF LifeTypeOK
<1>3. LifeTypeOK' BY <1>0, <1>1, <1>2 DEF LifeTypeOK, SInv
<1>4. (Len(fifos) <= MaxFifos)' BY DEF IInv
<1>5. ThreadsLive'
  <2> SUFFICES ASSUME NEW r \in Receiver, thread'[r] # "none" PROVE life[r] = "live"
    BY DEF ThreadsLive, vars
  <2>1. CASE r = w BY <2>1 DEF Free, Exists
  <2>2. CASE r # w
    <3>1. thread[r] # "none" BY <1>2, <2>2 DEF Worker
    <3> QED BY <3>1 DEF IInv, ThreadsLive
  <2> QED BY <2>1, <2>2
<1>6. ASSUME ~careless' PROVE RulesKept'
  <2>1. ~careless /\ MayStart(w) BY <1>6
  <2>2. outcome = "fine" /\ FifosKept /\ \A v \in Worker : WorkerKept(v) BY <2>1 DEF IInv, RulesKept
  <2>3. \A v \in Worker : WorkerKept(v)'
    <3>1. WorkerKept(w)' BY <1>2, <2>1, <2>2 DEF MayStart, WorkerKept
    <3> QED BY <1>2, <2>2, <3>1, OthersKept
  <2>4. FifosKept'
    <3>1. fifos' = fifos /\ life' = life /\ sized' = sized BY DEF vars
    <3>2. (called[Assembler] # "new")' => fifos # << >>
      BY <1>2, <2>1, <2>2 DEF MayStart, FifosKept, Worker
    <3>3. (thread[Assembler] = "running")' => thread[Assembler] = "running"
      BY <1>2 DEF Worker
    <3> QED BY <2>2, <3>1, <3>2, <3>3 DEF FifosKept
  <2> QED BY <2>2, <2>3, <2>4 DEF RulesKept
<1>7. RulesKept' BY <1>6 DEF RulesKept
<1> QED BY <1>1, <1>3, <1>4, <1>5, <1>7 DEF IInv

LEMMA Stopping == ASSUME IInv, NEW w \in Worker, Stop(w) PROVE IInv'
<1> USE DEF Stop, Note, Joinable
<1>0. SInv /\ LifeTypeOK BY DEF IInv
<1>1. SInv' BY <1>0, SocketsStay
<1>2. /\ stopped' \in [Worker -> BOOLEAN] /\ stopped'[w] = TRUE
      /\ called' \in [Worker -> {"new", "started", "stopped"}] /\ called'[w] = "stopped"
      /\ \A v \in Worker \ {w} : stopped'[v] = stopped[v] /\ called'[v] = called[v]
  BY <1>0 DEF LifeTypeOK
<1>3. LifeTypeOK' BY <1>0, <1>1, <1>2 DEF LifeTypeOK, SInv
<1>4. (Len(fifos) <= MaxFifos)' BY DEF IInv
<1>5. ThreadsLive' BY DEF IInv, ThreadsLive, vars
<1>6. ASSUME ~careless' PROVE RulesKept'
  <2>1. ~careless /\ called[w] = "started" BY <1>6
  <2>2. outcome = "fine" /\ FifosKept /\ \A v \in Worker : WorkerKept(v) BY <2>1 DEF IInv, RulesKept
  <2>3. joining' = w BY <2>1, <2>2 DEF WorkerKept
  <2>4. \A v \in Worker : WorkerKept(v)'
    <3>1. WorkerKept(w)' BY <1>2, <2>3 DEF WorkerKept
    <3>2. \A v \in Worker : joining # v BY NobodyAssumption DEF Free
    <3> QED BY <1>2, <2>2, <3>1, <3>2, OthersKept
  <2>5. FifosKept'
    <3>1. fifos' = fifos /\ life' = life /\ sized' = sized /\ thread' = thread BY DEF vars
    <3>2. (called[Assembler] # "new")' => called[Assembler] # "new"
      BY <1>2, <2>1 DEF Worker
    <3> QED BY <2>2, <3>1, <3>2 DEF FifosKept
  <2> QED BY <2>2, <2>4, <2>5 DEF RulesKept
<1>7. RulesKept' BY <1>6 DEF RulesKept
<1> QED BY <1>1, <1>3, <1>4, <1>5, <1>7 DEF IInv

\* A thread begins, ends, or is joined.
LEMMA Running == ASSUME IInv, NEW w \in Worker, Begin(w) \/ End(w) \/ Join(w) PROVE IInv'
<1> USE DEF Begin, End, Join, history
<1>0. SInv /\ LifeTypeOK BY DEF IInv
<1>1. SInv' BY <1>0, SocketsStay
<1>2. /\ thread' \in [Worker -> {"none", "begun", "running", "ended"}]
      /\ thread[w] # "none"
      /\ thread'[w] = "none" => joining = w
      /\ thread'[w] \in {"none", "running", "ended"}
      /\ \A v \in Worker \ {w} : thread'[v] = thread[v]
      /\ joining' = joining \/ (joining = w /\ joining' = Nobody /\ thread'[w] = "none")
  BY <1>0 DEF LifeTypeOK
<1>3. LifeTypeOK'
  <2>1. Len(fifos) \in Nat /\ Len(fifos) <= MaxFifos BY <1>0 DEF IInv, LifeTypeOK
  <2>2. sized' \in 0 .. MaxFifos BY <1>0, <2>1, MaxFifosAssumption DEF LifeTypeOK
  <2> QED BY <1>0, <1>1, <1>2, <2>2 DEF LifeTypeOK, SInv
<1>4. (Len(fifos) <= MaxFifos)' BY DEF IInv
<1>5. ThreadsLive'
  <2> SUFFICES ASSUME NEW r \in Receiver, thread'[r] # "none" PROVE life[r] = "live"
    BY DEF ThreadsLive, vars
  <2>1. thread[r] # "none" BY <1>2 DEF Worker
  <2> QED BY <2>1 DEF IInv, ThreadsLive
<1>6. ASSUME ~careless PROVE RulesKept'
  <2>1. outcome = "fine" /\ FifosKept /\ \A v \in Worker : WorkerKept(v) BY <1>6 DEF IInv, RulesKept
  <2>2. WorkerKept(w)'
    <3>1. called[w] # "new" BY <1>2, <2>1 DEF WorkerKept
    <3>2. called[w] = "stopped" => joining = w BY <1>2, <2>1 DEF WorkerKept
    <3>3. called[w] = "started" => thread'[w] \in {"begun", "running"} /\ ~stopped[w]
      <4> SUFFICES ASSUME called[w] = "started" PROVE thread'[w] \in {"begun", "running"} /\ ~stopped[w]
        OBVIOUS
      <4>1. thread[w] \in {"begun", "running"} /\ ~stopped[w] BY <2>1 DEF WorkerKept
      <4>2. Begin(w) BY <4>1
      <4> QED BY <1>0, <4>1, <4>2 DEF LifeTypeOK
    <3>4. called[w] = "stopped" => thread'[w] = "none" \/ joining' = w BY <1>2, <3>2
    <3>5. UNCHANGED <<called, stopped>> OBVIOUS
    <3>6. called[w] \in {"started", "stopped"} BY <1>0, <3>1 DEF LifeTypeOK
    <3> QED BY <3>1, <3>3, <3>4, <3>5 DEF WorkerKept
  <2>3. ASSUME NEW v \in Worker, v # w PROVE WorkerKept(v)'
    <3>1. joining = v => joining' = v BY <1>2, <2>3
    <3> QED BY <1>2, <2>1, <2>3, <3>1, OthersKept
  <2>4. FifosKept'
    <3>1. fifos' = fifos /\ life' = life /\ called' = called BY DEF vars
    <3>2. (thread[Assembler] = "running")' => sized' = Len(fifos)
      <4>1. CASE w = Assembler BY <1>0, <2>1, <4>1 DEF FifosKept, LifeTypeOK
      <4>2. CASE w # Assembler
        <5>1. thread'[Assembler] = thread[Assembler] /\ sized' = sized BY <1>2, <4>2 DEF Worker
        <5> QED BY <2>1, <5>1 DEF FifosKept
      <4> QED BY <4>1, <4>2
    <3> QED BY <2>1, <3>1, <3>2 DEF FifosKept
  <2> QED BY <2>1, <2>2, <2>3, <2>4 DEF RulesKept
<1>7. RulesKept' BY <1>6 DEF RulesKept
<1> QED BY <1>1, <1>3, <1>4, <1>5, <1>7 DEF IInv

\* push_back()
LEMMA PushingBack == ASSUME IInv, NEW r \in Receiver, PushBack(r) PROVE IInv'
<1> USE DEF PushBack
<1>0. SInv /\ LifeTypeOK BY DEF IInv
<1>1. SInv' BY <1>0, SocketsStay
<1>2. fifos \in Seq(Receiver) /\ Len(fifos) < MaxFifos BY <1>0 DEF LifeTypeOK
<1>3. /\ fifos' \in Seq(Receiver) /\ Len(fifos') = Len(fifos) + 1 /\ fifos' # << >>
      /\ ToSet(fifos') = ToSet(fifos) \cup {r}
  <2>1. /\ Append(fifos, r) \in Seq(Receiver) /\ Len(Append(fifos, r)) = Len(fifos) + 1
        /\ Append(fifos, r) # << >>
    BY <1>2, AppendProperties
  <2>2. ToSet(Append(fifos, r)) = ToSet(fifos) \cup {r}
    <3>1. Once(fifos, {}) BY DEF Once
    <3> QED BY <1>2, <3>1, AppendOnce
  <2> QED BY <2>1, <2>2
<1>4. careless' \in BOOLEAN BY <1>0 DEF LifeTypeOK
<1>5. LifeTypeOK' BY <1>0, <1>1, <1>3, <1>4 DEF LifeTypeOK, SInv
<1>6. (Len(fifos) <= MaxFifos)'
  <2>1. Len(fifos) \in Nat BY <1>2
  <2> QED BY <1>2, <1>3, <2>1, MaxFifosAssumption
<1>7. ThreadsLive' BY DEF IInv, ThreadsLive, vars
<1>8. ASSUME ~careless' PROVE RulesKept'
  <2>1. ~careless /\ called[Assembler] = "new" BY <1>8
  <2>2. outcome = "fine" /\ FifosKept /\ \A v \in Worker : WorkerKept(v) BY <2>1 DEF IInv, RulesKept
  <2>3. \A v \in Worker : WorkerKept(v)' BY <2>2 DEF WorkerKept
  <2>4. life[r] = "live" BY DEF Free, Exists
  <2>5. thread[Assembler] = "none"
    <3>1. Assembler \in Worker BY DEF Worker
    <3> QED BY <2>1, <2>2, <3>1 DEF WorkerKept
  <2>6. FifosKept' BY <1>3, <2>2, <2>4, <2>5 DEF FifosKept, vars
  <2> QED BY <2>2, <2>3, <2>6 DEF RulesKept
<1>9. RulesKept' BY <1>8 DEF RulesKept
<1> QED BY <1>1, <1>5, <1>6, <1>7, <1>9 DEF IInv

\* The destructors that find no thread.
LEMMA Destroying ==
    ASSUME IInv, (\E r \in Receiver : DestroyReceiver(r)) \/ DestroyAssembler
    PROVE  IInv'
<1>0. SInv /\ LifeTypeOK BY DEF IInv
<1>1. CASE \E r \in Receiver : DestroyReceiver(r)
  <2>1. PICK r \in Receiver : DestroyReceiver(r) BY <1>1
  <2> USE <2>1 DEF DestroyReceiver, Note, Joinable
  <2>2. SInv'
    <3>1. r \in Object BY ObjectAssumption
    <3> QED BY <1>0, <3>1, SocketStep DEF Next
  <2>3. /\ r \in Worker /\ r # Assembler
        /\ stopped' \in [Worker -> BOOLEAN] /\ stopped'[r] = FALSE
        /\ called' \in [Worker -> {"new", "started", "stopped"}] /\ called'[r] = "new"
        /\ \A v \in Worker \ {r} : stopped'[v] = stopped[v] /\ called'[v] = called[v]
        /\ thread[r] = "none"
    BY <1>0, ObjectAssumption, AssemblerAssumption DEF LifeTypeOK, Worker
  <2>4. careless' \in BOOLEAN BY <1>0 DEF LifeTypeOK
  <2>5. LifeTypeOK' BY <1>0, <2>2, <2>3, <2>4 DEF LifeTypeOK, SInv
  <2>6. (Len(fifos) <= MaxFifos)' BY DEF IInv
  <2>7. \A o \in Object \ {r} : life'[o] = life[o] BY <1>0 DEF Destroy, LifeTypeOK, TypeOK
  <2>8. ThreadsLive'
    <3> SUFFICES ASSUME NEW s \in Receiver, thread[s] # "none" PROVE life'[s] = "live" BY DEF ThreadsLive
    <3>1. s # r /\ s \in Object BY <2>3, ObjectAssumption
    <3> QED BY <2>7, <3>1 DEF IInv, ThreadsLive
  <2>9. ASSUME ~careless' PROVE RulesKept'
    <3>1. ~careless /\ r \notin ToSet(fifos) BY <2>9 DEF MayDestroy
    <3>2. outcome = "fine" /\ FifosKept /\ \A v \in Worker : WorkerKept(v) BY <3>1 DEF IInv, RulesKept
    <3>3. WorkerKept(r)' BY <2>3 DEF WorkerKept
    <3>4. \A v \in Worker : WorkerKept(v)' BY <2>3, <3>2, <3>3, OthersKept
    <3>5. \A s \in ToSet(fifos) : life'[s] = "live"
      <4> TAKE s \in ToSet(fifos)
      <4>1. s \in Receiver /\ s # r BY <1>0, <3>1, InSet DEF LifeTypeOK
      <4>2. s \in Object BY <4>1, ObjectAssumption
      <4> QED BY <2>7, <3>2, <4>1, <4>2 DEF FifosKept
    <3>6. called'[Assembler] = called[Assembler] BY <2>3 DEF Worker
    <3>7. FifosKept' BY <3>2, <3>5, <3>6 DEF FifosKept
    <3> QED BY <3>2, <3>4, <3>7 DEF RulesKept
  <2>10. RulesKept' BY <2>9 DEF RulesKept
  <2> QED BY <2>2, <2>5, <2>6, <2>8, <2>10 DEF IInv
<1>2. CASE DestroyAssembler
  <2> USE <1>2 DEF DestroyAssembler, Note, Joinable
  <2>1. SInv' BY <1>0, SocketsStay
  <2>2. /\ Assembler \in Worker
        /\ stopped' \in [Worker -> BOOLEAN] /\ stopped'[Assembler] = FALSE
        /\ called' \in [Worker -> {"new", "started", "stopped"}] /\ called'[Assembler] = "new"
        /\ \A v \in Worker \ {Assembler} : stopped'[v] = stopped[v] /\ called'[v] = called[v]
        /\ thread[Assembler] = "none" /\ UNCHANGED <<thread, joining, outcome>>
    BY <1>0 DEF LifeTypeOK, Worker
  <2>3. careless' \in BOOLEAN BY <1>0 DEF LifeTypeOK
  <2>4. fifos' \in Seq(Receiver) /\ sized' \in 0 .. MaxFifos /\ Len(fifos') <= MaxFifos
        /\ ToSet(fifos') = {}
    BY MaxFifosAssumption DEF ToSet
  <2>5. LifeTypeOK' BY <1>0, <2>1, <2>2, <2>3, <2>4 DEF LifeTypeOK, SInv
  <2>6. ThreadsLive' BY DEF IInv, ThreadsLive, vars
  <2>7. ASSUME ~careless' PROVE RulesKept'
    <3>1. ~careless BY <2>7
    <3>2. outcome = "fine" /\ \A v \in Worker : WorkerKept(v) BY <3>1 DEF IInv, RulesKept
    <3>3. WorkerKept(Assembler)' BY <2>2 DEF WorkerKept
    <3>4. \A v \in Worker : WorkerKept(v)' BY <2>2, <3>2, <3>3, OthersKept
    <3>5. FifosKept' BY <2>2, <2>4 DEF FifosKept
    <3> QED BY <2>2, <3>2, <3>4, <3>5 DEF RulesKept
  <2>8. RulesKept' BY <2>7 DEF RulesKept
  <2> QED BY <2>1, <2>4, <2>5, <2>6, <2>8 DEF IInv
<1> QED BY <1>1, <1>2

\* A client that keeps the rules leaves the assembler with the fifos it needs.
LEMMA GoingWrong == ASSUME IInv, RoundGoesWrong PROVE IInv'
<1> USE DEF RoundGoesWrong, history
<1>0. SInv /\ LifeTypeOK BY DEF IInv
<1>1. SInv' BY <1>0, SocketsStay
<1>2. LifeTypeOK' BY <1>0, <1>1 DEF LifeTypeOK, SInv
<1>3. (Len(fifos) <= MaxFifos)' BY DEF IInv
<1>4. ThreadsLive' BY DEF IInv, ThreadsLive, vars
<1>5. careless' = TRUE
  <2>1. SUFFICES ASSUME ~careless PROVE FALSE BY <1>0 DEF LifeTypeOK
  <2>2. Assembler \in Worker BY DEF Worker
  <2>3. WorkerKept(Assembler) /\ FifosKept BY <2>1, <2>2 DEF IInv, RulesKept
  <2>4. called[Assembler] # "new" BY <2>3 DEF WorkerKept
  <2>5. fifos # << >> /\ sized = Len(fifos) /\ Len(fifos) \in Nat BY <1>0, <2>3, <2>4 DEF FifosKept, LifeTypeOK
  <2> QED BY <2>3, <2>5 DEF FifosKept
<1> QED BY <1>1, <1>2, <1>3, <1>4, <1>5, CarelessKeepsRules DEF IInv

\* Grabbers and packet sources come, go and get moved.
LEMMA Handling == ASSUME IInv, Handle PROVE IInv'
<1> USE DEF Handle, lifeVars, history
<1>0. SInv /\ LifeTypeOK BY DEF IInv
<1>1. Next BY DEF Next
<1>2. SInv' BY <1>0, <1>1, SocketStep
<1>3. LifeTypeOK' BY <1>0, <1>2 DEF LifeTypeOK, SInv
<1>4. (Len(fifos) <= MaxFifos)' BY DEF IInv
<1>5. \A r \in Receiver : life[r] = "live" => life'[r] = "live"
  <2> SUFFICES ASSUME NEW r \in Receiver, life[r] = "live" PROVE life'[r] = "live" OBVIOUS
  <2>1. r \in Object /\ r \notin Movable /\ TypeOK BY <1>0, ObjectAssumption DEF Movable, SInv
  <2>2. CASE Move BY <2>1, <2>2 DEF Move, MoveConstruct, MoveAssign, TypeOK, Movable
  <2>3. ASSUME NEW o \in Object, Construct(o) PROVE life'[r] = "live"
    <3>1. life[o] # "live"
      BY <2>3 DEF Construct, OpenSocket, Succeeds, ConnectFails, BindFails, OptionFails, BufferFails,
                  ThrowsOpen, Throws
    <3>2. \A a \in Object \ {o} : life'[a] = life[a]
      BY <2>1, <2>3 DEF TypeOK, Construct, OpenSocket, Succeeds, ConnectFails, BindFails, OptionFails,
                        BufferFails, ThrowsOpen, Throws
    <3> QED BY <2>1, <3>1, <3>2
  <2>4. ASSUME NEW o \in Object, o \notin Receiver, Destroy(o) PROVE life'[r] = "live"
    BY <2>1, <2>4 DEF TypeOK, Destroy
  <2> QED BY <2>2, <2>3, <2>4
<1>6. ThreadsLive' BY <1>5 DEF IInv, ThreadsLive
<1>7. ASSUME ~careless PROVE RulesKept'
  <2>1. outcome = "fine" /\ FifosKept /\ \A v \in Worker : WorkerKept(v) BY <1>7 DEF IInv, RulesKept
  <2>2. ToSet(fifos) \subseteq Receiver BY <1>0, InSet DEF LifeTypeOK
  <2>3. FifosKept' BY <1>5, <2>1, <2>2 DEF FifosKept
  <2> QED BY <2>1, <2>3 DEF RulesKept, WorkerKept
<1>8. RulesKept' BY <1>7 DEF RulesKept
<1> QED BY <1>2, <1>3, <1>4, <1>6, <1>8 DEF IInv

\* Every step keeps the invariant.
LEMMA LifeNextInvariant == IInv /\ [LifeNext]_<<vars, lifeVars>> => IInv'
<1> SUFFICES ASSUME IInv, [LifeNext]_<<vars, lifeVars>> PROVE IInv' OBVIOUS
<1>1. CASE UNCHANGED <<vars, lifeVars>>
  <2> USE <1>1 DEF lifeVars, history
  <2>1. SInv' BY SocketsStay DEF IInv
  <2>2. LifeTypeOK' BY <2>1 DEF IInv, LifeTypeOK, SInv
  <2>3. ThreadsLive' BY DEF IInv, ThreadsLive, vars
  <2>4. RulesKept' BY DEF IInv, RulesKept, FifosKept, WorkerKept, vars
  <2> QED BY <2>1, <2>2, <2>3, <2>4 DEF IInv
<1> QED BY <1>1, Terminating, Starting, Stopping, Running, PushingBack, Destroying, GoingWrong, Handling
        DEF LifeNext

\* IInv is an invariant.
THEOREM Invariance == LifeSpec => []IInv
BY LifeInitInvariant, LifeNextInvariant, PTL DEF LifeSpec
-----------------------------------------------------------------------------
(***************************************************************************)
(* What follows from the invariant.                                        *)
(***************************************************************************)
\* Descriptors have one owner, which closes them in the end.
THEOREM OwnersOfDescriptors == LifeSpec => []DescriptorsOwned
<1>1. IInv => DescriptorsOwned BY DEF IInv, SInv, DescriptorsOwned
<1> QED BY <1>1, Invariance, PTL

\* A client that keeps the rules never has the program terminated or the
\* assembler use memory that is not there, and ends every thread itself.
THEOREM RulesAreEnough == LifeSpec => []RulesSuffice
<1>1. IInv => RulesSuffice
  <2> SUFFICES ASSUME IInv, ~careless
               PROVE  outcome = "fine" /\ \A w \in Worker : thread[w] = "ended" => joining = w
    BY DEF RulesSuffice
  <2>1. outcome = "fine" /\ \A w \in Worker : WorkerKept(w) BY DEF IInv, RulesKept
  <2>2. \A w \in Worker : called[w] \in {"new", "started", "stopped"} BY DEF IInv, LifeTypeOK
  <2> QED BY <2>1, <2>2 DEF WorkerKept
<1> QED BY <1>1, Invariance, PTL

\* Whatever the client does, a receiving thread reads from its own socket.
THEOREM ThreadsHaveSockets == LifeSpec => []ThreadHasSocket
<1>1. IInv => ThreadHasSocket
  <2> SUFFICES ASSUME IInv, NEW r \in Receiver, thread[r] # "none"
               PROVE  /\ life[r] = "live" /\ opened[sock[r].fd] = sock[r].size
                      /\ \A o \in Object \ {r} : ~Holds(o, sock[r].fd)
    BY DEF ThreadHasSocket
  <2>1. life[r] = "live" BY DEF IInv, ThreadsLive
  <2>2. r \in Object /\ r \notin Movable BY ObjectAssumption DEF Movable
  <2>3. sock[r].fd # NoFd BY <2>1, <2>2 DEF IInv, SInv, SocketsKept
  <2> QED BY <2>1, <2>2, <2>3 DEF IInv, SInv, OneOwner
<1> QED BY <1>1, Invariance, PTL
=============================================================================
