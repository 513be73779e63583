------------------------------- MODULE UdpSocket -------------------------------
(***************************************************************************)
(* The lifecycle of UdpSocket objects, each a member of a FrameGrabber,    *)
(* and of the file descriptors they manage: construction, which fails in   *)
(* the middle when the system refuses a call, moves, which swap, and the   *)
(* end.  What receivePacket does with the packets is in FrameGrabber.  The *)
(* PacketSource of the tests opens descriptors too.                        *)
(*                                                                         *)
(* A step is one system call, so that the constructors of two objects, run *)
(* by two threads, interleave.  The descriptors of the process are small   *)
(* numbers, and the lowest one not open is used again.                     *)
(***************************************************************************)
EXTENDS Integers, FiniteSets, FiniteSetsExt

CONSTANTS Object,      \* places in memory for a FrameGrabber or a PacketSource
          Source,      \* those for a PacketSource
          Receiver,    \* those for the grabber in a UdpReceiver, which cannot be moved
          MaxFd,       \* the bound on descriptors
          PacketSize,  \* the packet sizes objects are constructed for
          Failures     \* the system calls that may fail

ASSUME MaxFdAssumption == MaxFd \in Nat
ASSUME ObjectAssumption == Source \subseteq Object /\ Receiver \subseteq Object \ Source
ASSUME PacketSizeAssumption == PacketSize \subseteq Nat \ {0}
ASSUME FailuresAssumption == Failures \subseteq {"bind", "option", "buffer", "connect"}

VARIABLES sock,    \* sockfd_ and packet_size_ of each object
          life,    \* "none", "live", or the next system call of its constructor
          opened,  \* the packet size each open descriptor was opened for, 0 if not open
          (* What the code does not record. *)
          orphan   \* the descriptors a throwing constructor left open

vars == <<sock, life, opened, orphan>>

Fd     == 0 .. MaxFd
NoFd   == -1
Closed == 0
Sending == -1     \* what a PacketSource opens a descriptor for
Movable == Object \ (Source \cup Receiver)
Empty == [fd |-> NoFd, size |-> 0]

Init == /\ sock = [o \in Object |-> Empty]
        /\ life = [o \in Object |-> "none"]
        /\ opened = [fd \in Fd |-> Closed]
        /\ orphan = {}

Close(fd) == opened' = [d \in Fd |-> IF d = fd THEN Closed ELSE opened[d]]

\* socket(), after getaddrinfo().
OpenSocket(o, n) ==
    LET unused == {fd \in Fd : opened[fd] = Closed} IN
    /\ life[o] = "none" /\ unused # {}
    /\ opened' = [opened EXCEPT ![Min(unused)] = n]
    /\ sock' = [sock EXCEPT ![o] = [fd |-> Min(unused), size |-> n]]
    /\ life' = [life EXCEPT ![o] = IF o \in Source THEN "connect" ELSE "bind"]
    /\ UNCHANGED orphan

\* The call the constructor of o has come to succeeds.
Succeeds(o, call, next) ==
    /\ life[o] = call
    /\ life' = [life EXCEPT ![o] = next]
    /\ UNCHANGED <<sock, opened, orphan>>

\* It fails and the constructor throws: there is no object.
Throws(o, call) ==
    /\ life[o] = call /\ call \in Failures
    /\ life' = [life EXCEPT ![o] = "none"]
    /\ sock' = [sock EXCEPT ![o] = Empty]

\* bind(): the descriptor is closed before the exception is thrown.
BindFails(o) == Throws(o, "bind") /\ Close(sock[o].fd) /\ UNCHANGED orphan

\* setsockopt(SO_RCVTIMEO), and connect() in the constructor of PacketSource:
\* the exception is thrown with the descriptor open.
ThrowsOpen(o, call) == /\ Throws(o, call)
                       /\ orphan' = orphan \cup {sock[o].fd}
                       /\ UNCHANGED opened
OptionFails(o)  == ThrowsOpen(o, "option")
ConnectFails(o) == ThrowsOpen(o, "connect")

\* setBufferSize() in the constructor of FrameGrabber: its member sock, which
\* is complete, gets destroyed.
BufferFails(o) == Throws(o, "buffer") /\ Close(sock[o].fd) /\ UNCHANGED orphan

\* swap()
SwapFdOnly(a, b) == sock' = [sock EXCEPT ![a].fd = sock[b].fd, ![b].fd = sock[a].fd]
Swap(a, b) == sock' = [sock EXCEPT ![a] = sock[b], ![b] = sock[a]]

\* The move constructor: an empty object swaps with the other one.
MoveConstruct(a, b) ==
    /\ life[a] = "none" /\ life[b] = "live"
    /\ life' = [life EXCEPT ![a] = "live"]
    /\ Swap(a, b)
    /\ UNCHANGED <<opened, orphan>>

\* Move assignment: the two swap, and the other one keeps what a had.
MoveAssign(a, b) ==
    /\ life[a] = "live" /\ life[b] = "live"
    /\ Swap(a, b)
    /\ UNCHANGED <<life, opened, orphan>>

\* The destructor; close(-1) does nothing.
Destroy(o) ==
    /\ life[o] = "live"
    /\ Close(sock[o].fd)
    /\ life' = [life EXCEPT ![o] = "none"]
    /\ sock' = [sock EXCEPT ![o] = Empty]
    /\ UNCHANGED orphan

Construct(o) == \/ \E n \in IF o \in Source THEN {Sending} ELSE PacketSize : OpenSocket(o, n)
                \/ Succeeds(o, "connect", "live") \/ ConnectFails(o)
                \/ Succeeds(o, "bind", "option") \/ BindFails(o)
                \/ Succeeds(o, "option", "buffer") \/ OptionFails(o)
                \/ Succeeds(o, "buffer", "live") \/ BufferFails(o)

Move == \E a, b \in Movable : MoveConstruct(a, b) \/ MoveAssign(a, b)

Next == Move \/ \E o \in Object : Construct(o) \/ Destroy(o)

Spec == Init /\ [][Next]_vars
-----------------------------------------------------------------------------
(***************************************************************************)
(* Properties.                                                             *)
(***************************************************************************)
TypeOK == /\ sock \in [Object -> [fd : Fd \cup {NoFd}, size : PacketSize \cup {0, Sending}]]
          /\ life \in [Object -> {"none", "connect", "bind", "option", "buffer", "live"}]
          /\ opened \in [Fd -> PacketSize \cup {Closed, Sending}]
          /\ orphan \subseteq Fd

Holds(o, fd) == life[o] # "none" /\ sock[o].fd = fd

\* A descriptor has one owner, and while it does nobody else closes it, even
\* to have its number used again: what the owner holds is open, and was
\* opened for packets of the size the owner receives.
OneOwner ==
    \A a \in Object : life[a] # "none" /\ sock[a].fd # NoFd =>
        /\ opened[sock[a].fd] = sock[a].size
        /\ \A b \in Object : Holds(b, sock[a].fd) => a = b

\* Every open descriptor belongs to an object, which closes it in the end;
\* the exceptions come from constructors that fail to set the timeout.
NoOrphan == \A fd \in Fd : opened[fd] # Closed => fd \in orphan \/ \E o \in Object : Holds(o, fd)
=============================================================================
