# A verification of L'Arve, the UDP receiver toolkit

TLA+ modules of the concurrent core of `arve`, model-checked with TLC, and proofs of
their safety and of the refinements that tie them together, checked with TLAPS. Paths are relative to the repository
root (`src/`). Line numbers of every definition are in `PROJECT.json`, under `map`.

## 1. The system

A detector sends frames as UDP packets. A *receiving thread* collects the packets of a
frame into a buffer from a pool; an *assembling thread* takes the filled buffers of one
or more receivers, drops frames until all have the same number, processes them and puts
the buffers back into their pools. `apps/receiver.cpp` starts both threads and stops
them on `q`; `s` shows the counters of the receiver. `apps/counter.cpp` calls
`recv_into` by itself, in one thread, and adds up what is missing.

```
 detector --UDP--> UdpSocket -> FrameGrabber::recv_into -> UdpReceiver (thread)
                                                              |  ^
                                           push_value(filled) v  | pop_free
                                                 CircularFifo (two lock-free rings)
                                            pop_value         |  ^ push_free
                                                              v  |
                                                       FrameAssembler (thread)
 main: start both, wait for 'q', r.stop() (flag, request_stop, join), a.stop() (flag, join)
```

### Inventory

| Component | State | Operations | Hard behaviour | What makes it correct |
|---|---|---|---|---|
| `ProducerConsumerQueue.h` | ring of `size_` slots, `readIndex_`, `writeIndex_` | `write`, `read`, `frontPtr`, `popFront`, `isEmpty`, `isFull`, `sizeGuess`, destructor | two threads, no locks, acquire loads that return old values, wrap-around | a slot is never used by both; FIFO, each item once, at most `size - 1`; queries are bounds that stay valid for the caller |
| `CircularFifo.h` | two rings, free and filled | `pop_free`, `push_value`, `pop_value` (with and without a stop flag), `push_free`, `next`, `frontPtr` | spin loops, `next` is two queue operations, the pool may shrink | one owner per item, nothing lost, pushes never spin |
| `FrameGrabber.h` | socket, `stopped_` (plain `bool`), `packet_buffer`, `first_packet_cached` | `recv_into`, `request_stop`, construct, move | loss, disorder, timeouts, short datagrams, memory used again, a cached packet, a flag another thread writes | packets of one frame only, no packet vanishes, a truthful count, it returns |
| `UdpSocket.{h,cpp}`, `PacketSource` | `sockfd_`, `packet_size_` | constructor, move, destructor, `receivePacket`, `setBufferSize` | constructors that fail halfway, descriptor reuse | one owner per descriptor, none left open |
| `UdpReceiver.h` | grabber, fifo, `stopped`, thread, three counters | `receivePackets`, `start`, `stop`, three getters | a stop while the thread is anywhere, incomplete frames, counters read while they change, calls out of order | buffers go round, stop ends it, the counters account for what was lost |
| `FrameAssembler.h`, `utils.h` | fifos, `stopped`, thread; frames and their numbers | `assemble`, `start`, `stop`, `push_back` | receivers that lose different frames, a stop while it waits, no fifos, fifos added late or gone | only equal numbers together, in order, none dropped that all deliver |
| `apps/receiver.cpp`, terminal | the objects above, the mode of the terminal | `main`, `direct_input`, `reset_terminal` | order of the stops and joins, exceptions while threads run | `q` ends the program, no thread and no terminal mode stays behind |
| `apps/counter.cpp` | one frame, totals | `main` | one frame and a cached packet used again and again | no frame reported twice, totals that agree with what was received |
| `RawFrame.h` | pointer to the packets of a frame | construct, copy, move, `frameNumber`, `assemble` | uninitialised and moved-from memory, copies of 8 bytes | ownership |
| `ImageData.h`, `DataSpan.h` | array with shape and strides | copy, move, element access, arithmetic | allocation failure, overflow of the size | ownership, bounds |
| `apps/scratch.cpp`, python bindings, tests | – | – | – | not modelled, see section 7 |

`PROJECT.json` lists under `hazards` what is hard to test in all this, at its line, with
the properties that watch it.

## 2. The modules

| Module | Models | Kind |
|---|---|---|
| `BoundedFifo` | what a one-producer one-consumer queue promises | abstract specification |
| `ProducerConsumerQueue` | the ring, one step per shared memory access | implements `BoundedFifo` |
| `CircularFifo` | the pool between an open writer and an open reader, over two atomic queues | component; assumed by `ReceiverApp` (`FifosKept`) |
| `FifoViews` | the same over queues in which a thread may see an old index of the other | implements `CircularFifo` |
| `FrameGrabber` | `recv_into` packet by packet over an unreliable network | implements `RecvInto` |
| `RecvInto` | what a caller sees of `recv_into`, as operators on a record | abstract specification, constant module |
| `UdpSocket` | the life of descriptors, with the grabber's constructor and moves, and `PacketSource` | component |
| `Lifecycle` | `start`, `stop`, `push_back` and destruction of receivers and assembler, in any order a client may call them, on top of `UdpSocket` | composition |
| `FrameCounter` | `apps/counter.cpp`, on top of `FrameGrabber` | system |
| `FrameFifos` | the fifos of all receivers | shared by the next two |
| `UdpReceiver` | `receivePackets`, `start`, `stop` | component, uses `RecvInto` |
| `FrameAssembler` | `assemble`, `start`, `stop` | component |
| `ReceiverApp` | the threads and `main`'s starts and stops, for any number of receivers | system |
| `ReceiverMain` | all of `apps/receiver.cpp`: failures, counters, the key `s`, the terminal | system, extends `ReceiverApp` |
| `ImageData` | images, the memory they own, and spans of it | component, implements `ImageValues` |
| `ImageValues` | images as values, each operation a relation between two states | abstract specification, constant module |
| `MCImageData`, `MCLifecycle` | symmetries, for TLC | model checking |
| `SharedLemmas` | queues without repetition, and how long they can be; induction over an interval, recursive functions, division | lemmas, TLAPS |
| `ProducerConsumerQueue_proofs`, `CircularFifo_proofs`, `Lifecycle_proofs`, `ReceiverApp_proofs`, `ReceiverMain_proofs`, `ImageData_proofs` | theorems about the module of that name; those of `UdpSocket` are in `Lifecycle_proofs`, those of `FifoViews` in `CircularFifo_proofs` | TLAPS |
| `FrameCounter_proofs` | theorems about `FrameGrabber` and, on top of them, `FrameCounter` | TLAPS |

The layers are tied by refinement, so that each is checked where its state is small:
the ring implements the atomic queue (`ImplementsFifo`), the pool over queues with old
views implements the pool over atomic ones (`ViewsAreHarmless`), and the receivers use
atomic queues; `recv_into` implements `RecvInto` (`ImplementsRecvInto`), and the receivers call
`RecvInto`; the threads of the program use each pool the way `CircularFifo` assumes
(`FifosKept`); and the whole receiver program does to threads and fifos only what
`ReceiverApp` does (`MainIsApp`). Every one of these steps is checked by TLC on a small
instance, but for `MainIsApp`, and all are proved.

### State and actions against the code

**ProducerConsumerQueue.** `write` is `WriteHasRoom`/`WriteFull` (the acquire load of
`readIndex_` and the test), `WriteConstruct` (placement new), `WritePublish` (release
store). `read` is `ReadHasItem`/`ReadEmpty`, `ReadTake` (move out), `ReadDestroy` (`~T`),
`ReadPublish`; `popFront` shares the last two. A slot is `Raw` (no object), `Shell` (an
object without an item, moved from) or an item. An acquire load returns any value
between the one this thread saw last and the latest (`Visible`); `wView` and `rView` are
what was seen. `alive` is cleared by the destructor, which runs when no call is under
way. Queries may be called by the thread whose side they are for.

**CircularFifo.** A spin loop is an action that waits. `next` is two steps. The clients
make any call that fits their role; `careless` records that one destroyed an item of
the pool or pushed a foreign one, which the type allows and `UdpReceiver` and the tests do.
`pop_value(wait, stopped)` looks at the queue and at the flag one after the other, so it may
return nothing although an item has come in between (`PopNothing`, and `TakeNothing` of the
assembler).

**FifoViews.** To a loop an old index is only a longer spin, but `next` calls `write` once,
and returns without giving the item back when it finds no room (`Finds`). Whether it may find
none for want of a fresh index is not for the ring to say: the ring as a queue of its own
may answer "full" to a producer that has not seen the latest reads. The module counts those: `unseenFree` and
`unseenFilled` are the reads of a queue that the thread which writes to it has not seen.
An acquire load of `writeIndex_` that finds an item shows all that the thread which wrote it had done
before (`Acquired`); `sinceFree` and `sinceFilled` say for each item in a queue how often its writer has
read the other queue since, which is what need not be seen yet. A count above
`Size - 1` is kept as `Size - 1` (`OneMore`), which is as good as no bound.

**FrameGrabber.** A packet is its frame number and packet number. A step runs from one
read of `stopped_` or call of `recvfrom` to the next, everything else being private to
the thread. `stopped_` is a plain `bool` written by another thread: a data race. The
compiler cannot keep it in a register across `recvfrom`, so a read returns the old or
the new value, which is what the interleaving of `RequestStop` gives. `slots` is the
frame's memory: the first call gets any memory, for `RawFrameData` is not initialised,
and later ones the same frame again or any other. What such memory holds is settled when
it is read (`Unread`, `Held`), and a cached packet is forgotten when it has been used;
neither can be told from choosing or keeping it earlier. `LeftBehind` is what the slot
holds after `receivePacket` returned false. `received`, `cacheReal`, `taken`, `handed` are
history: they record which packets really came from the socket.

**RecvInto.** A grabber is a record (`stopped`, the frame of the cached packet, the frame
being filled, whether packets are missing, the newest frame seen); `Steps(g)` is the set
of records a step leads to. `tail` says whether packets of the last frame are still to
be received, or the present frame began in its middle; without it, a network without
faults could not be told to deliver whole frames.

**UdpReceiver, FrameAssembler, ReceiverApp.** Program counters follow the source
statement by statement; `at` is the loop index `i`. A frame is the buffer it owns
(`NoBuffer` when moved from), `content` the frame number in each buffer. Memory that is
not of the pool - the default constructed locals of the pops and of `assemble`, which
are swapped out and destroyed - is left out. `stop` is three steps: the flag, the
request, the join. With `NumReceivers = 1` the module is the threads of `apps/receiver.cpp`; with two,
the assembler has been given both fifos with `push_back`, as the comment in `main`
intends for several sources, and `main` starts and stops the receivers one by one.
`network` is what may go wrong between detector and socket; it is chosen at the start.

**ReceiverMain.** `stage` is where `main` is outside of the two threads' protocol. Either
constructor or `start` may throw; a `start` that throws while the thread of the receiver
runs destroys a joinable thread, and the program is `terminated`. The receiving thread
updates each counter by a step of its own (`tally`) before it goes on. For `s`, `main` loads
the three counters in any order, as C++ leaves the order of arguments open; `before` is
history, how things were when the key was pressed. The number of packets missing from an
incomplete frame, which `RecvInto` leaves out, is any from 1 to `NumPackets`.

**Lifecycle.** What a client does to a receiver and an assembler is any sequence of calls
that C++ lets one thread make. A thread is `begun`, `running`, `ended` until it is joined;
a `std::thread` that is assigned to or destroyed before that ends the program, and `join`
without a thread throws. `called` and `careless` are history: whether the client kept to
rules the code relies on and checks nowhere: `start` once, and on an assembler with a fifo;
`stop` once, after `start`; `push_back` before `start`; no destructor between `start` and
`stop`, nor of a receiver whose fifo the assembler has. A round of `assemble` that touches what is
not there makes the outcome `undefined`.

**FrameCounter.** `main` and its loop, around the steps of `FrameGrabber`, always with the
same frame. `atoi` of a negative argument is a `size_t` of `SizeBits` bits.

**UdpSocket.** A step is one system call of a constructor, a swap or a destructor. The
lowest free descriptor is used next, so that a stale number would hit a stranger. An
object is a grabber that can be moved, the grabber inside a `UdpReceiver`, which cannot,
or a `PacketSource`, which connects where the others bind.

**ImageData.** An object has a shape and a block of memory; a block has a size and one
value for all its elements. An operation is one step, as nothing here is concurrent; one
that throws and leaves no trace is a stuttering step. An allocation may take a block that
was just freed. Copy assignment frees the old block before it asks for a new one
(`src/include/arve/ImageData.h:303`); when it gets none the object is `lost`, with a
pointer to freed memory. All that is promised holds until such an object is destroyed
(`Sane`), for then it frees whatever is there; that no memory leaks holds always.
`SizeOf` keeps the products in an `int` of `IntBits` bits, as `std::accumulate` does when
it starts from `1`; `Strides` and `Offset` are `c_strides` and `element_offset`, compared
with the set of all indexes. The loops over the dimensions are recursive functions. Strides and
offsets, which the code keeps in `ssize_t`, have no bound in the model: a shape whose strides
overflow 64 bits is beyond it. A negative size makes `new[]` throw, so no image has one.

## 3. What the runs check

All runs set `CHECK_DEADLOCK FALSE`: the ring is final after its destructor, a program
that has ended stops, sockets and memory may be used up, and on a network that does not
time out the grabber waits in `recvfrom` when the bound on packets is reached.

| Run | Bounds | Properties and what they show |
|---|---|---|
| `queue` | 4 slots, 2 items | `LifetimeSafe`: no object is built over, moved out of or destroyed twice. `GuessBounds`: the comment of `sizeGuess`. `AnswersHold`: check-then-act with `isFull`, `isEmpty`, `frontPtr`. `FrontStable`: the producer leaves the item at the front alone. `ImplementsFifo`: refinement of `BoundedFifo`. `Drained`: liveness. |
| `fifo` | 3 slots, hence 2 items; any views | `Owned`: types, and one owner for each item; `Conserved`, `RoomIsSeen` and `Circulates` as long as no thread is careless: in particular `next` never loses an item, whatever index its `write` loads. `ViewsAreHarmless`: refinement of `CircularFifo` |
| `lifecycle` | a receiver, 2 movable grabbers, a packet source, an assembler; 2 descriptors, 2 packet sizes, 2 calls of `push_back` | `DescriptorsOwned`: descriptor, packet size and owner belong together through failures, moves, threads and reuse, and a descriptor without an owner comes from a constructor that section 4 names. `RulesSuffice`: a client that keeps the rules has no `std::terminate`, no assembler on missing memory, no thread that ends unasked. `ThreadHasSocket`: holds for careless clients too |
| `grabber` | 3 packets, 2 frames, 6 packets delivered, four networks from no fault to every fault | `InFrame`: types, no write outside the frame, and what is counted carries the frame's number. `NothingVanishes`: every packet delivered is in a frame returned, in the frame being filled or in the cache. `MissingNearlyRight`: the count returned is never too high and at most two too low. `CompleteIsWhole`: with loss only, a frame with nothing missing has each packet in its place. `FrameEnds`, `StopIsHeard`: liveness where timeouts are possible. `ImplementsRecvInto`: on every network |
| `image` | 3 objects, 1 span, 3 blocks, extents 2 and 6 in two dimensions, an `int` of 5 bits | `Owned`: memory through copies, moves and failures has one owner and does not leak. `InBounds`: in a 2 by 2, a 2 by 6 and a 6 by 2 image the offsets of the indexes are the elements in memory, each once; a 6 by 6 image has 36 elements and `size_` is 4, so its memory is smaller than its shape says, and only a loop over `size_` elements stays inside. `SpansSee`: moves leave spans intact. `ImplementsValues`: no operation reaches an image it is not called on, and those on two images tell 2 by 6 from 6 by 2, and 2 by 2 from 6 by 6, though their sizes are equal. More dimensions are left to `ElementsInBounds` |
| `app_two` | 2 receivers, pools of 2 buffers, 3 frames, packet loss | `Owned`, `PushesFit`, `Aligned`, `NoMatchLost`, `InOrder`, `FifosKept`, `MatchProcessed` |
| `main` | a pool of 2 buffers, 2 frame numbers, 2 packets, counters of 3 bits; an endless run without faults, and one with loss | `CleanEnd`: when `main` returns both threads are joined and the terminal is as before. `StatusTrue`: the complete frames shown by `s` fit before the last frame shown, up to those completed in between. `LossIsShown`: no buffer has left the pool that the lost packets shown do not account for. `QuitEndsOrStuck`: `q` ends the program unless the pool is empty or the detector silent, so the hangs of section 4 are the only ones |
| `counter` | 3 packets, 3 frames, 9 packets delivered, arguments from -1 to 4, a `size_t` of 3 bits; three networks | `SumTrue`: the total agrees exactly with what was received on a network that only loses packets, and within two a frame where it times out. `NumbersIncrease`: with loss only no frame is reported twice or late, although frame and cached packet are used again. `CounterEnds` on a network without faults |
| `grabber_stale_count`, `app_quit_lossy`, `app_quit_silent`, `app_quit_two` | | violated; section 4 |

Why the bounds are enough. Four slots let both indices wrap, the ring be full, empty
and in between with a stale view on each side. Of two items
one can be in hand while the other is on its way, so that the queue `next` gives an item back to
looks full to a thread that has missed one read, and an item can be overtaken; three items
make no new case, and for the safety of any number there are the proofs. Two packets in the air are enough for a
packet of another frame, or a repeated one, to arrive at every place of a 3-packet
frame; six packets run over three calls, so that a cached packet is used and replaced.
Two receivers that lose different frames out of three make the assembler drop on either
side more than once before a match, and a pool of two buffers is exhausted by two losses.
`main` needs two frame numbers to have a complete frame before the last one, and its
counters wrap on an endless run. Two descriptors let one be closed and used again by an
object of another kind while the other is held or lost; a second `push_back` is the one that comes
too late, or has a receiver in the assembler twice. With nine packets the counter reports
up to four frames, through which a cached packet is used more than once.

### Fairness

`FairSpec` of the ring: calls once begun run on, and the consumer keeps coming to
`read()` and at last sees what was stored, as the pop loops do. Of the fifo: both
threads go on, and a default constructed item is destroyed. `Receives` has strong fairness: a
`pop_value(wait, stopped)` that is stopped may return nothing while there is an item, but a
store is seen in finite time, so a reader that calls again and again gets it. Of the grabber: its thread
runs, and `recvfrom` returns because `SO_RCVTIMEO` is set to one second
(`src/src/UdpSocket.cpp:32`); nothing is assumed of the network or of the caller. Of the
program: every thread is scheduled, packets sent are received, and `q` need not be
pressed. A spinning thread is a disabled action; it needs no fairness, because
whatever ends the spin stays true. `Endless` lets a detector start to count again after
`MaxFrame`; it is on where the run is about a detector that never stops, and then the
sender is part of the receiving thread's fairness (`SendOn`). Of `ReceiverMain`: main, the
receiving and the assembling thread each run on; keys and failures need not come. Of
`FrameCounter`: its one thread runs, and on the network without faults, the only one
`CounterEnds` is about, what it waits for has been sent.

## 4. Where code and comments disagree

* **Timeouts are counted as packets** (`grabber_stale_count`). After
  `break; //We timed out assume no more pkgs.` (`src/include/arve/FrameGrabber.h:87`) the
  code still judges the slot at line 90, which holds memory of an earlier frame. If its
  frame number is the current one the packet is counted, and a frame without its last
  packet can pass as complete; if it differs, it is kept as the first packet of the
  next frame, although nothing was received.
* **`q` hangs after losses** (`app_quit_lossy`). A frame with missing packets is destroyed
  and never returned to the pool (`src/include/arve/UdpReceiver.h:39`). When all are gone,
  `pop_free()` spins and looks at no flag.
* **`q` hangs on a silent network** (`app_quit_silent`). `recv_into` begins with
  `stopped_ = false` (`src/include/arve/FrameGrabber.h:63`) and erases a request made just before.
* **The assembler cannot be stopped while it aligns** (`app_quit_two`). The inner
  `pop_value()` (`src/include/arve/FrameAssembler.h:46`) has no stop flag.
* A failed copy assignment leaves an image with a pointer to freed memory
  (`src/include/arve/ImageData.h:303`), where a comment says that an image "expect[s] to own
  its data" (line 45); the history variable `lost` keeps such objects apart.
* A failing `setsockopt(SO_RCVTIMEO)` leaks the descriptor (`src/src/UdpSocket.cpp:36`), and
  so does a failing `connect` in `PacketSource` (`src/src/PacketSource.cpp:31`); the history
  variable `orphan` keeps them apart in `NoOrphan`, a part of `DescriptorsOwned`.
* `a.start()` that throws after `r.start()` ends the program with the terminal still
  without echo (`src/apps/receiver.cpp:29`): `main` catches a `runtime_error`, of which
  `system_error` is one, but the joinable thread is destroyed before (`CleanEnd`).

`app_quit_lossy` and `app_quit_silent` end in the two states `Dry` and `Deaf` of
`QuitEndsOrStuck`.

## 5. What is proved

For every value of the constants, with no assumption but those the modules state about
their constants (sizes at least 2, at least one packet, distinct model values):

| Module | Theorem | States |
|---|---|---|
| `ProducerConsumerQueue_proofs` | `TypeCorrect`, `LifetimesSafe`, `GuessesBound`, `AnswersStay`, `FrontUntouched` | `TypeOK`, `LifetimeSafe`, `GuessBounds`, `AnswersHold`, `FrontStable` |
| | `Implementation` | `Spec => ImplementsFifo` |
| `CircularFifo_proofs` | `OneOwnerEach`, `NothingLost`, `PushesNeverSpin` | `Owned`, `Conserved`, `PushesFit` |
| | `RoomSeen` | `ViewSpec => []RoomIsSeen` |
| | `ViewsHarmless` | `ViewSpec => ViewsAreHarmless`, so the three above hold with old views too |
| `ReceiverApp_proofs` | `OneOwnerEach`, `PushesNeverSpin`, `PartsAligned` | `Owned`, `PushesFit`, `Aligned` |
| | `Implementation` | `Spec => FifosKept` |
| | `ProcessedInOrder`, `NoMatchDropped` | `Spec /\ Orderly => InOrder`, `[]NoMatchLost` |
| | `StrandedForEver` | once `Stranded`, the assembler stays so |
| `ReceiverMain_proofs` | `MainIsApp` | `MainSpec => Spec` |
| | `EndsCleanly` | `CleanEnd` |
| | `LossShown` | `WideEnough` implies `MainSpec => []LossIsShown` |
| | `StatusShown` | `WideNumbers` implies `MainSpec => []StatusTrue` |
| | `DryForEver`, `UnheardForEver` | once `Dry` or `Unheard`, the program stays so and `main` never returns |
| `Lifecycle_proofs` | `OwnersOfDescriptors`, `RulesAreEnough`, `ThreadsHaveSockets` | `DescriptorsOwned`, `RulesSuffice`, `ThreadHasSocket` |
| `FrameCounter_proofs` | `WritesFit`, `PacketsKept`, `ReturnNearlyRight`, `CompleteFramesWhole` | `InFrame`, `NothingVanishes`, `MissingNearlyRight`, `CompleteIsWhole` |
| | `GrabberImplements` | `Spec => ImplementsRecvInto` |
| | `SumsUp`, `FramesRise` | `CounterSpec => []SumTrue`, `NumbersIncrease` |
| `ImageData_proofs` | `OwnersOfMemory`, `SpansAreImages`, `MemoryFitsShape` | `Owned`, `SpansSee`, `Sized` |
| | `ElementsInBounds` | `InBounds` |
| | `LayoutExact` | in any shape the offsets of the indexes are `0` to their number less one |
| | `ImagesAreValues` | `Spec => ImplementsValues` |

A theorem `Invariance` (`ViewInvariance`, `GrabberInvariance`, `CounterInvariance`, `MainInvariance`) of each
module states the inductive invariant the others follow from.

### Hypotheses

* `Orderly` is `network \subseteq {"loss"}`: what `network` is, is chosen at the start. The two
  properties are about the order of frames, and where packets come in another order, or a timeout leaves stale
  memory in a frame, `recv_into` can deliver a frame number late or twice, and nothing in the code
  prevents it. The run `app_two` is about the same network.
* `WideEnough` is `FifoSize * NumPackets < 2^CountBits`: the number of packets the pool can
  lose fits the counter. `WideNumbers` is `MaxFrame < 2^CountBits`: frame numbers fit. The counters of
  the code have 64 bits. A counter of packets that wraps shows fewer lost packets than
  buffers gone, so the first is needed. The run `main` has `3 * 2 < 2^3` and `2 < 2^3`.

### The arguments

**The ring.** None of the properties is inductive. The strengthening `IInv` says what the
code relies on without writing it down: going round the ring from `readIndex`, first
come the slots the producer believes it must not touch and the consumer may
(`ViewsInOrder`: `rView` lies between the two indices, `wView` not behind them); what
each slot holds follows from its place relative to the two indices and from the two
program counters (`SlotsHold`); and a thread inside a call has a view that allows it
(`ViewsAllow`). Every argument about places is made with `Ahead`, the distance round the
ring; the lemmas about `Succ` and `Ahead` carry all of the modular arithmetic. The
refinement reads the contents of the ring as a sequence (`Ring`): one more slot at the
far end is `Append`, one fewer at the near end `Tail`.

**The pool.** Each item is in at most one of five places: two queues, the writer's hand,
the reader's hand, and that of a `next` between its two steps (`QueuesApart`, `HandsApart`);
as long as nobody was careless it is in one of them (`AllThere`) and nothing else is
(`NoneForeign`). That pushes fit is then counting: a queue without repetition that lacks an item
of the pool is shorter than the pool (`OnceLen` of `SharedLemmas`, `RoomForOne`).

**Old views of the pool.** That it refines the pool over atomic queues needs more than that there is
room: the room must be seen. `VInv` says why it is. No more reads of a queue are
unseen than the queue has slots to spare (`ViewsTyped`). And while no thread is careless each item read from one
queue goes into the other, so what a thread has read since it wrote an item lies behind that item in
the queue, or in its hand (`Behind`). Whoever reads the item has seen everything before it. The items
of both queues and both hands are `Size - 1` together; a thread with an item in hand
therefore sees a free slot (`Seen`), and its `write` does not fail. With a relaxed load in `read` this would be
wrong: the run `fifo` then finds a `next` that drops an item of the pool.

**The threads of the program.** For each receiver the same division of its buffers
(`Apart`), and which hand is full at which program counter (`RawKept`, `FramesKept`): the
assembler's hand at `at` depends on the side of the loop index it is on. That the assembler
processes only equal numbers follows from `numbers` being those of the buffers in hand
(`FramesKept`), which nobody else can write into. `FifosKept` needs that the hands of the
threads are the hands of each `CircularFifo`, and which step of which thread is which of its
calls; steps at one fifo leave the others alone.
For the order, `OInv` adds that what a grabber is to deliver next lies above all it has
delivered (`Upward`), that a filled queue rises, with the frame in hand below it
(`Queueing`), and that what has been processed lies below both (`Past`). A frame that all
deliver is not lost because the assembler drops only where the number is lowest, and
another receiver that is ahead has then passed that number without delivering it (`Kept`).
`Stranded` is where the run `app_quit_two` ends: stopped and aligning, at a fifo that is empty. As all
receivers are joined by then, nothing will ever fill it.

**The receiver program.** `MainIsApp` maps each step of `main` to a step of `ReceiverApp` or to
a stutter; the invariants above are used as they are. `StagesKept` relates the stage `main` is
in to the threads there are. `LostKept` bounds the counter of lost packets by the buffers
destroyed from both sides; a buffer whose packets are counted and that is not yet
destroyed counts already (`Doomed`), which is what makes it inductive. `CountsKept` relates the
complete frames to the last number noted, between the two updates as well, to what `s` has loaded so
far, and to how it was when `s` was pressed. `DryForEver` and `UnheardForEver` are about the two ways in
which `q` fails: nothing is put back into an empty pool (`PoolStep`), and a request that
`recv_into` has reset is not made again. So these hangs are final, for every size of the pool, and not
a delay. `Unheard` leaves out a detector that starts to count again, which is not silent.

**Sockets and lifecycles.** `SInv`: descriptor, size and owner belong together at each
system call of a constructor (`SocketsKept`). `RulesKept` says for each state of a client
that keeps the rules which states its thread can be in, and that the receivers whose fifos
the assembler has are alive.

**recv_into.** `CallKept`, `CountKept`: of the packets counted, one may be the cached one that no
packet was received for, and one that of the last turn of the loop; this is why the count
is at most two too low. Where packets only get lost, the packets in the frame rise, and
`Gap` - how many are missing before a place - rises with them (`LossKept`), so that none
missing at the end means none missing anywhere. For the refinement, `SeenKept` relates the
frame being filled to the latest one the socket delivered. The invariant of the counter,
`CInv`, adds the sum over the calls so far and, under loss only, that all packets still to
come are of later frames (`Rising`).

**Images.** `Owned` becomes inductive with `Sized` (a block is as large as its image's shape
says, `MemoryFitsShape`) and `Seen`. `ImagesAreValues` goes operation by operation: the target's value is
what the abstract operation says, and no other image has the block written
(`MemoryApart`, `SameValue`).
`ElementsInBounds` is arithmetic in a mixed radix, for any number of dimensions. `Elements` are the
products of the extents from each dimension on, which the strides are (`StridesAre`). `From` adds up
what the indexes from a dimension on contribute; it stays below the elements from there on
(`FromBelow`), so that quotient and remainder by a stride give an index back from its offset
(`OffsetOnce`) and every number below the size has one (`OffsetOnto`). The offsets are then as many as the
indexes (`LayoutExact`), and where that number fits an `int` no product on the way overflows it
(`SizeIs`); where it does not, the size is less, as an `int` holds no such number (`SizeBelow`).
Each of these is an induction over the dimensions; as the provers cannot
instantiate an induction rule over predicates, `SharedLemmas` states it for sets of
numbers (`CountingUp`, `CountingDown`), and each proof defines the set of dimensions for which its claim holds.

### What is only model-checked

* Liveness, as fairness is out of the prover's reach: `Drained`, `Circulates`, `FrameEnds`,
  `StopIsHeard`, `MatchProcessed`, `QuitEndsOrStuck`, `CounterEnds`.
* The four violated properties of section 4, which are counterexamples.

## 6. Plan

Order of work, the most important first; (done) marks what this project holds.

1. `ProducerConsumerQueue` with `BoundedFifo`, and its proofs (done).
2. `FrameGrabber` with `RecvInto` (done).
3. `FrameFifos`, `UdpReceiver`, `FrameAssembler`, `ReceiverApp` (done).
4. `CircularFifo` (done); `UdpSocket` (done).
5. `ImageData` with `ImageValues` (done).
6. `Lifecycle`: the protocol of `start`, `stop`, `push_back` and destruction, an assembler
   without fifos, `PacketSource`; `ReceiverMain`: exceptions, the statistics counters, the key
   `s`, the terminal; `FrameCounter`: `apps/counter.cpp` (done).
7. Proofs: the invariants and action properties of every component, for every value of the
   constants, and the refinements `ImplementsFifo`, `FifosKept`, `ImplementsRecvInto`,
   `ImplementsValues` and `MainIsApp` (done).
8. `InBounds` for any number of dimensions, the pool under old views (`FifoViews`), and that the
   hangs of section 4 are final (done).

## 7. Not modelled

* `multirecv` (nothing calls it), `multirecv_into` (a stub), `bufferSize` (changes nothing),
  the effect of `shutdown` on a pending `recvfrom`, which would need a destructor during
  `recv_into`, the list `getaddrinfo` returns, which a throwing constructor does not free.
* The end of standard input, at which `main` loops without a sleep: to the model it is a
  key that main does not know, and such keys change nothing.
* The copy operations of `RawFrame`, which copy 8 bytes: nothing in the programs copies a
  frame, so there is no behaviour of the system to relate them to. The same goes for the
  implicit copies of `PacketSource`, which would close a descriptor twice.
* An assembler that has the fifo of one receiver twice, in `ReceiverApp` (`Lifecycle`
  includes it); exceptions inside the threads (out of memory); what the times printed by
  `apps/counter.cpp` are.
* Two receivers under timeouts and disorder: `app_two` is about loss; what a stale packet does to
  a caller is in `grabber`, `counter` and the abstraction `RecvInto`.
* Of `ImageData` and `DataSpan`, which only the empty `assemble` uses: `operator>`, whose
  result has another element type; `load` and `save`, and the assignment of spans, which
  do not compile; printing; operators between two spans, which compare no sizes.
* `apps/scratch.cpp`; the python bindings are written against another `FrameGrabber`
  template and do not compile with this one.
* A failing allocation of the ring; frame numbers of 2^63 and above.
