------------------------------ MODULE UdpReceiver ------------------------------
(***************************************************************************)
(* UdpReceiver::receivePackets, the thread of each receiver: it takes a    *)
(* free frame, has the grabber fill it and passes it on when it is whole.  *)
(***************************************************************************)
EXTENDS FrameFifos

CONSTANT Networks    \* for each network to look at, what may happen on it

ASSUME NetworksAssumption ==
    Networks \subseteq SUBSET {"loss", "disorder", "timeout", "short", "endless"}

VARIABLES network,   \* the network, which stays the same
          stopped,   \* stopped, of each receiver
          grabber,   \* grabber, and the recv_into under way
          rpc,       \* where the thread is in receivePackets
          raw,       \* raw_frame: the buffer it owns
          delivered  \* the frames pushed so far, which the code does not record

receiverVars == <<stopped, grabber, rpc, raw, delivered>>

Faults  == network \ {"endless"}   \* what may go wrong, see RecvInto
Endless == "endless" \in network   \* the detector counts from 1 again after MaxFrame

G == INSTANCE RecvInto

ReceiverInit ==
    /\ network \in Networks
    /\ stopped = [r \in Receiver |-> FALSE]
    /\ grabber = [r \in Receiver |-> G!New]
    /\ rpc = [r \in Receiver |-> "off"]
    /\ raw = [r \in Receiver |-> NoBuffer]
    /\ delivered = [r \in Receiver |-> {}]

Goto(r, step) == rpc' = [rpc EXCEPT ![r] = step]

\* start() creates the thread.
StartReceiving(r) ==
    /\ rpc[r] = "off"
    /\ Goto(r, "check")
    /\ UNCHANGED <<stopped, grabber, raw, delivered, fifoVars>>

\* The head of the loop.
CheckStopped(r) ==
    /\ rpc[r] = "check"
    /\ Goto(r, IF stopped[r] THEN "done" ELSE "pop")
    /\ UNCHANGED <<stopped, grabber, raw, delivered, fifoVars>>

\* pop_free() gets a frame, after as long a spin as it takes.
TakeFree(r) ==
    /\ rpc[r] = "pop"
    /\ PopFree(r)
    /\ raw' = [raw EXCEPT ![r] = Head(free[r])]
    /\ Goto(r, "call")
    /\ UNCHANGED <<stopped, grabber, delivered, filled, content>>

\* The grabber goes to g.  Its first packet tells the frame number.
Grab(r, g) ==
    /\ grabber' = [grabber EXCEPT ![r] = g]
    /\ content' = IF g.pc = "fill" THEN [content EXCEPT ![r][raw[r]] = g.cur] ELSE content
    /\ UNCHANGED <<stopped, raw, delivered, free, filled>>

\* recv_into is called.
CallRecvInto(r) ==
    /\ rpc[r] = "call"
    /\ \E g \in G!Enter(grabber[r]) : Grab(r, g)
    /\ Goto(r, "recv")

\* recv_into goes on, and in the end returns.
RunRecvInto(r) ==
    /\ rpc[r] = "recv"
    /\ \E g \in G!Steps(grabber[r]) :
          /\ Grab(r, g)
          /\ Goto(r, IF g.pc = "idle" THEN "account" ELSE "recv")

\* The frame is passed on if nothing is missing; if not, the loop goes
\* round, and raw_frame is destroyed with its memory.
Account(r) ==
    /\ rpc[r] = "account"
    /\ IF grabber[r].lost
       THEN raw' = [raw EXCEPT ![r] = NoBuffer] /\ Goto(r, "check")
       ELSE Goto(r, "push") /\ UNCHANGED raw
    /\ UNCHANGED <<stopped, grabber, delivered, fifoVars>>

\* push_value(std::move(raw_frame)).
PassOn(r) ==
    /\ rpc[r] = "push"
    /\ PushValue(r, raw[r])
    /\ raw' = [raw EXCEPT ![r] = Moved(@)]
    /\ delivered' = [delivered EXCEPT ![r] = @ \cup {content[r][raw[r]]}]
    /\ Goto(r, "check")
    /\ UNCHANGED <<stopped, grabber, free, content>>

Receive(r) == \/ CheckStopped(r) \/ TakeFree(r) \/ CallRecvInto(r) \/ RunRecvInto(r)
              \/ Account(r) \/ PassOn(r)

\* The detector, which never stops sending, begins a new run.
SendOn(r) ==
    /\ Endless /\ grabber[r].seen = MaxFrame /\ grabber[r].pc = "first"
    /\ grabber' = [grabber EXCEPT ![r].seen = 0]
    /\ UNCHANGED <<stopped, rpc, raw, delivered, fifoVars>>

\* stop(), up to the join, which waits for rpc[r] = "done".
SetStopped(r) ==
    /\ stopped' = [stopped EXCEPT ![r] = TRUE]
    /\ UNCHANGED <<grabber, rpc, raw, delivered, fifoVars>>
RequestStop(r) ==
    /\ grabber' = [grabber EXCEPT ![r] = G!RequestStop(@)]
    /\ UNCHANGED <<stopped, rpc, raw, delivered, fifoVars>>
=============================================================================
