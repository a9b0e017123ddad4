# DistributedFileSystem: a TLA+ model of the metadata node

The repository is the beginning of a distributed file system: one program, the
*metadata node*, which listens on a port, accepts peers, reads length-prefixed
messages from them, parses each as a JSON command and queues a task for it.
Its own code is some 430 lines; the rest of the tree is the vendored asio and
nlohmann/json.  What is hard in it is the concurrency: four threads, two kinds of
queues, asynchronous reads and writes whose handlers call each other, and a
shutdown that has to end all of it; and below it the part of asio that every one of
those handlers relies on, its scheduler and its reactor.

The modules here model that code, TLC checks them on small instances, and TLAPS
proves the central properties for every instance.

Contents: [inventory](#inventory) - [modules](#modules-and-how-they-map-to-the-code) -
[runs](#what-the-runs-check) - [bounds](#bounds) - [fairness](#fairness) -
[proofs](#what-is-proved) - [disagreements](#where-the-code-disagrees-with-its-own-words) -
[what is not modelled](#what-is-not-modelled) - [plan](#plan).

## Inventory

| component | state | operations | talks to |
|---|---|---|---|
| `ThreadSafeQueue` (`ThreadSafeQueue.hpp`) | `q`, `mtx`, `cv` | `push`, `pop`, `wait_and_pop`, `empty`, `front`, `size` (no caller) | everything below |
| `SocketHandler`, reading (`Networking/SocketHandler.cpp` 75-119) | per connection: `read_buffer`, the chain of reads | `readData`, `readHeader`, `readBody` and their handlers | pushes to `global_message_queue_` |
| `SocketHandler`, writing (42-73) | per connection: `send_queue`, `write_in_progress`, `mtx` | `enqueueOutgoingMessage`, `doAsyncWrite` and its handler | called by tasks; handler on the io thread |
| `SocketHandler`, accepting (8-40) | `acceptor_`, `connection_Map_`, `next_conn_id_`, `io_context_` | `startListenServer`, `acceptConnection` and its handler, `run`, `closeListenServer` | main starts and closes it, the io thread runs it |
| `MetadataNode` | `running`, `taskQueue`, three `std::thread`s | `main`, `start`, `stop`, `consumeMessage`, `consumeTask` | all of the above |
| `CommandParser`, `TaskFactory` | none | `deserializeCommand`, `jsonToCommand`, `parseCommandType`, `createTask`; `serializeCommand`, `textToJson` without callers | called by `consumeMessage` |
| `EchoTask`, `HeartbeatTask` | references to a connection | `execute`, without callers | `enqueueOutgoingMessage` |
| `Logger` | none that is read | `Log`... | standard output |
| asio's `scheduler` (`asio/detail/impl/scheduler.ipp`) | `op_queue_`, `outstanding_work_`, `stopped_`, `task_interrupted_`, `wakeup_event_`; per thread a private queue and count | `run`, `stop`, `post_immediate_completion`, `post_deferred_completions`, `work_finished` | runs the reactor and every handler |
| asio's `epoll_reactor` (`epoll_reactor.ipp`) | per socket: the operations that wait, `try_speculative_`, `registered_events_`, `shutdown_` | `start_op`, `run`, `perform_io`, `cancel_ops`, register and deregister | the kernel's epoll; the scheduler |

How they interact: *main* creates the node and starts it.  The *io thread* runs
every handler: it accepts a peer, enters it in `connection_Map_`, starts its chain
of reads, and pushes each message body to `global_message_queue_`.  The
*messageConsumer* thread pops them with `wait_and_pop`, parses them, looks the
connection up in `connection_Map_` and pushes what `createTask` returns to
`taskQueue`.  The *taskConsumer* thread is a stub that spins on `running`.  A task,
once something executes it, calls `enqueueOutgoingMessage` from its own thread,
and the rest of the sending happens on the io thread.  When the user types `q`,
main closes the acceptor, stops the io_context, unsets `running`, pushes an empty
message to wake the consumer, joins the three threads and destroys the node.

What is hard, component by component, and what would make it correct:

* **Queue.** A wakeup must not be lost between a consumer's look and its sleep; the
  drain of `send_queue` is three critical sections that rely on each other.
  Correct: elements come out once each, in push order; nobody sleeps while there
  is something to take; `front` never meets an empty queue.
* **Reading.** TCP cuts the stream anywhere.  Correct: the bodies handed on are the
  messages sent, in order, however the stream is cut, until it ends.
* **Writing.** Any thread enqueues, the io thread continues.  Correct: one write at a
  time, frames in order, no message left behind, buffers that outlive their writes.
* **Accepting.** One accept outstanding at all times, after errors too.
* **Scheduler.** A thread that adds an operation wakes a waiter or interrupts the
  reactor, never both; work is counted per thread and together.  Correct: nobody
  sleeps while something is queued; `run` ends only on a stop or when nothing is
  outstanding; each handler is called once.
* **Reactor.** epoll reports an edge once, and `start_op` and `perform_io` race for it.
  Correct: no operation waits for an edge that has been reported; operations on a
  socket complete in order; a closed socket leaves nothing to the next.
* **Node.** Objects shared without a lock (`connection_Map_`, `acceptor_`); a consumer
  that an exception or an empty message ends; a stop that must end three threads in
  three ways; members destroyed in an order that matters.

Every one of these is listed in `PROJECT.json` under `hazards`, at its line, with the
properties that watch it.

The code at this commit does not compile as it stands: `stop()` pushes `""` to a
queue of `ReceivedMessage`; `push(const T&)` cannot copy the `unique_ptr` of a task;
`HeartbeatTask.hpp` has a misspelt constructor; `EchoTask.cpp` is not among
CMake's sources.  The models take the evident intent: the stop message is a
message with empty data, `push` puts its argument in the queue.

## Modules and how they map to the code

```
FifoQueue            what a user of a ThreadSafeQueue may rely on
   ^ implements
ThreadSafeQueue      mutex, condition variable, every access      <- ThreadSafeQueueProofs
Framing              frames, std::stoi, getline, consume
   ^ extends
FrameReader          one connection's reads (MCFrameReader for TLC) <- FrameReaderProofs
   v implements
MessageChannel       what one direction of a connection promises
   ^ implements
FrameWriter          one connection's writes                      <- FrameWriterProofs
MetadataNode         main, io thread, messageConsumer, taskConsumer <- MetadataNodeProofs
IoContext            what a user of an io_context may rely on
   ^ implements
Scheduler            asio's scheduler  <- SchedulerProofs <- SchedulerWorkProofs <- IoContextProofs
Reactor              asio's epoll_reactor and one socket           <- ReactorProofs
```

How they fit: the node's `io` thread takes one handler at a time, which is what
IoContext promises and Scheduler is shown to implement; FrameReader, FrameWriter and
MetadataNode take that an operation which can be performed is performed in the end,
which is `ReadyIsPerformed` of Reactor; FrameWriter and FrameReader both implement MessageChannel,
the one from `enqueueOutgoingMessage` to the wire, the other from the wire to
`global_message_queue_`; Reactor takes from Scheduler that one thread at
a time polls and that a descriptor has left the queue by then (`OneReactor`,
`DescriptorQueuedOnce`); the node's queue is FifoQueue.

`PROJECT.json` maps every definition to its lines.  The correspondence in short:

**ThreadSafeQueue.**  `q` and `mtx` are the members; `pc` says where each thread is;
`local` is the argument of `push` or what `front` returned.  Taking the mutex
(`Acquire`) is a step, and so is each access to `q` inside a critical section, so a
mutex that failed to exclude would show.  `WaitCheck` is the predicate of
`cv.wait`, `NotifyOne` wakes any one sleeper, `SpuriousWakeup` any at any time.
Producers push; consumers `wait_and_pop`; a drainer calls `empty`, `front`, `pop`
as `doAsyncWrite` does.  How the program uses its queues enters twice.  `DrainerAlone`:
a queue has one drainer at most, since `doAsyncWrite` drains under `Connection::mtx`.
And the program has queues that are waited on and queues that are drained; the model
has one queue whose use may change while nobody is inside a method of the other
use (`OneUse`, proved), which contains both.

**Framing, FrameReader.**  Bytes are the ten digits, `\r`, `-` and "other", which is all
the code tells apart.  `Frame` is `enqueueOutgoingMessage`'s `size << "\r" << msg`;
`DataLength` is `std::stoi` stored in a `size_t`, with the widths of `int` and
`size_t` as constants.  The socket yields any non-empty part of what has arrived
(`ReadHeaderSome`, which may read beyond the header, and `ReadBodySome`, which
may not); a handler is one step, as all of them run on the one io thread.
`HeaderAccepted` includes both removals of the delimiter, `getline`'s and
`consume(data_length+1)`'s; `BodyRead` both `read` and `consume(data_length)`.

**FrameWriter.**  `Lock`, `QueueMessage` are `enqueueOutgoingMessage`; `Relock`, `TakeNone`,
`TakeMessage`, `Initiate`, `Return` are `doAsyncWrite`; `WriteMore`, `Completed`,
`Failed` are the asynchronous write and its handler.  A frame leaves in `Parts`
pieces, as many at once as the socket takes.  `Return` destroys the local string
`data`; a piece written after that may be `Garbage`.  To lock a `std::mutex` that one
holds is undefined: the constant `RelockProceeds` is FALSE for a build whose mutex
blocks (glibc) and TRUE for one whose mutex counts its owner's locks (the
Microsoft library, which `CMakeLists.txt` provides for).

**MessageChannel.**  What was sent, what was handed on, and whether the channel is still
intact.  An intact channel hands on the next message whole or nothing; a garbled one may
add anything, but takes nothing back.  For the reading side, sent is what the peer
sent, handed on is what `readBody` pushed, and garbled means that a header has overshot.
For the writing side, sent is what was pushed to `send_queue`, handed on are the frames
whose last piece is on the wire (`OnWire`, read off the pieces and not off the queue), and
garbled means that a piece of garbage is there.

**MetadataNode.**  `main`, `io`, `consumer`, `taskConsumer` are the places of the four
threads; each statement that touches shared state is a step.  `accept` is the state
of the one `async_accept`; `connection_Map` the set of its keys; `reading` the
connections whose chain of reads is alive.  The queue is the FIFO that
ThreadSafeQueue is proved to be.  Two steps of different threads that could happen
at the same time on `connection_Map_` or `acceptor_` are a data race: each then
happens as it would alone, or `RaceCrashes` ends the process.  What terminates the
process (an uncaught exception, a race, the destruction of sockets after their
io_context) sets `crashed`, after which nothing moves.

**Scheduler.**  The variables are the members of `scheduler`, and of each thread's
`thread_info`; `mutex_` is the thread that keeps the lock over several steps, and a
section that is one step only finds it free.  `Enter`, `Lock`, `Leave`, `TakeTask`, `TakeOp`
and `Wait` are `run` and `do_run_one`; `Poll` and `TaskCleanup` the reactor's turn, which
blocks only if the queue is empty; `PerformIo` a descriptor's turn, of which the
scheduler only sees how many operations it completes; `Finished` is `work_cleanup` with
`work_finished`.  A thread that posts first counts the work (`Post`), then queues and wakes
under the lock (`Push`), and signals after the unlock (`Signal`, from `toSignal`), which
is three steps that others may come between.  A handler is any sequence of
`Post`, `PostContinuation`, `StartOp`, `CancelOps` and `Stop`.  `Edge` is the system making a
descriptor ready, as often as it likes.

**Reactor.**  One socket and the descriptor state it uses, which the next socket gets
after a close.  `Speculate` and `Start` are the first part of `start_op`, up to where it
succeeds at once or needs `epoll_ctl` (`Modify`) or the queue (`QueueOp`); these are separate
steps, since the kernel does not wait for the descriptor's mutex.  `EpollWait`,
`Dispatch` and `Take` carry an event through `epoll_reactor::run` and the scheduler's
queue; `LockDescriptor`, `SkipType` and `PerformOp` are `perform_io`, one operation at a
time; `CancelOps`, `Deregister`, `CloseSocket` and `Register` are cancel, close and the reuse of the
descriptor state.  The kernel is modelled from its documented behaviour: `armed` is
the socket's place in epoll's ready list, an edge is reported once, the mask is what is
ready when it is read, and room is an edge only for one who has missed it (`nospace`).  A read
that follows a reported end of stream (`spent`) is exempt from the properties: no further
edge is due for it.

## What the runs check

| run | shows |
|---|---|
| `queue` | two producers against two consumers or a drainer, the use changing: FIFO, once each; `front` never meets an empty queue; no lost wakeup; refines `FifoQueue` with its liveness |
| `frame_read` | messages arrive intact while no header is read together with what follows it (`IntactUnlessOvershot`); even after that, the bodies are stretches of the stream that follow one another, so no byte is used twice (`BytesInOrder`); the chain of reads outlives everything but the end of the stream (`ChainSurvives`); every message is delivered (`DeliveredUnlessOvershot`); refines `MessageChannel` (`KeepsPromise`) |
| `frame_lost` | *violation*: a header read together with its body loses the body |
| `write_proceeds` | one write at a time, frames in order, none stranded, silence after an error, everything queued is written; refines `MessageChannel` (`KeepsPromise`) |
| `write_blocks` | *violation*: the second lock of `conn.mtx` blocks the sender for ever |
| `write_garbage` | *violation*: a write reads from a string that is gone |
| `node_runs` | what can kill the node (`CrashNeedsCause`), order (`HandledInOrder`), the stop (`StopsPromptly`, `JoinsReturn`, `StopEnds`), the accept (`AcceptOutstanding`, `RequestAccepted`), progress (`MessageHandled`) |
| `scheduler` | one thread at a time has the reactor (`OneReactor`); no descriptor is in two places (`DescriptorQueuedOnce`); work is counted once (`WorkCounted`); nobody sleeps while something is queued (`NoIdleWhileWork`); `run` gives up only without work (`StopsOnlyWithoutWork`); refines `IoContext` with its liveness |
| `reactor` | completion in order of start, each once (`CompletedInOrder`); no edge missed (`NoMissedEdge`), no attempt ruled out for ever (`SpeculationResumes`); a close leaves nothing behind (`NothingLeftBehind`); what can be performed is performed (`ReadyIsPerformed`) |
| `node_killed` | *violation*: a peer's empty message ends the consumer |
| `node_acceptor` | *violation*: two threads at `acceptor_` at once |
| `node_echo` | *violation*: an ECHO command makes no task |

Deadlock is checked wherever the system should never stop: in the queue's run, the reactor's
and the node's, where only a node that has exited or crashed may stop.  It is not checked in the
frame and write runs, where nothing is left to do once every message has been
sent and read or the connection has ended, nor in the scheduler's, where every thread
may have returned from `run`.

Every property of a passing run has a mutant: an operator next to the definition it
replaces, which changes it as a plausible slip would (`TakeNoneStillWriting`,
`AcceptHandlerGivesUp`, ...), and which TLC finds.  They are parts of the modules
only so that they can be substituted; no specification uses them.

## Bounds

* `queue`: 2 producers, 2 consumers, 1 drainer, 4 pushes of 2 values.  A lost wakeup needs
  two pushes and two sleepers; the third push finds the queue in every state these
  reach, and with the fourth the queue grows during a drain.
* `frame_read`: up to 3 messages from five payloads, which, once the reader has lost its
  place, read as a header in every way `std::stoi` distinguishes: nothing, no digit,
  a length, a negative length, one out of range.  `IntMax` is 11 and `SizeModulus`
  100, so that the two-digit 99 is out of range and -1 wraps.  `MCFrameReader` also
  checks `StoiThrows` and `DataLength` against a textbook fold on all
  lines of up to four bytes.  `frame_lost` needs one message; it has two.
* `write_*`: 2 senders, 3 messages, frames of 2 pieces: a third message
  arrives while a second waits and a first is half written.
* `node_runs`: 3 peers and descriptors for 2 of them, so that the accept fails at the
  limit; 2 messages of any kind from any of them, plus the stop message.
* `scheduler`: 2 threads in `run` and one outside, 2 operations, 1 descriptor.  One thread
  polls while another waits or works, and the third adds to the queue: the cases that the
  choice between waking and interrupting distinguishes.  Two operations suffice for one to be
  posted by the other's handler, or both to complete in one turn of the descriptor.
* `reactor`: 2 threads in `run`, 1 user, 2 operations.  A second user would add nothing,
  as `start_op` holds the descriptor's mutex throughout.  The second operation finds the
  first waiting, or is started on the next socket while a thread carries an
  event of the last.

The theorems below hold for all sizes; the bounds matter for what is only model-checked.

## Fairness

`ThreadSafeQueue!FairSpec`: a thread that has called a method and can run runs (weak
fairness per thread); nobody need call anything, spurious wakeups need not
happen.  `std::mutex` promises no more than that, and no property needs more.
`FrameReader!FairSpec`: the io thread runs and the network carries what was written.
`FrameWriter!FairSpec`: each thread runs; a connected peer goes on reading.  Weak
fairness suffices although a thread may be overtaken at the mutex, because there
are finitely many messages.
`MetadataNode!FairSpec`: each of the four threads runs.  Nothing is assumed of peers or of
the user: they may never connect, never send, never type `q`.
`Scheduler!FairSpec`: threads run and handlers return (weak fairness of `RunStep`, `Signal`);
a thread that waits for `mutex_` gets it in the end (strong fairness of `TakeMutex`, `Push`).
Weak fairness is not enough there: epoll may report edges for ever, and the thread that
handles them takes the mutex again and again between two looks of the other.  Nothing is
assumed of the user or the system: no operation need be posted, no descriptor need
become ready.
`Reactor!FairSpec`: some thread polls and takes what is queued, `perform_io` and `start_op` run
on, and a thread that waits for the descriptor's mutex gets it in the end.  Nothing is
assumed of the kernel beyond that an armed socket is reported to who polls.

## What is proved

The proofs hold for every value of the constants that satisfies the named
assumptions.  Each follows the same pattern: an inductive invariant, `Init` implies it,
each action keeps it (one lemma or step per action), and the property follows.

* **ThreadSafeQueueProofs**, from `ThreadsAreDistinct` and `DrainerAlone`.  The invariant is
  `Discipline`: each thread stays in its role's methods, exactly the thread inside a
  critical section holds `mtx`, what `front` returned is still the front at `pop`.  None of
  `FifoOnce`, `NoLostWakeup` and `FrontExists` is inductive without it: without
  `MutexHeld`, two threads could be inside at once.  Proved: `TypeCorrect`,
  `FrontExistsHolds`, `FifoOnceHolds`, `NoLostWakeupHolds` (with a count of the awake
  waiters: a push adds one element and wakes one sleeper) and `RefinesFifoQueue`,
  the safety half of `KeepsPromise`.
* **FrameReaderProofs**, from `IntWidths` and `PayloadsFit`.  `TypeCorrect` needs
  `BodyBuffered`: while a body is read, what the buffer holds and what is still missing
  make up at least the body.  `IntactUnlessOvershotHolds` needs `PlaceInv`: while no
  header has overshot, the reader's position in the stream is the end of a frame, inside
  a header, or inside a body of the length that header gave.  `ChainSurvivesHolds` needs
  `HeaderInPlace` besides: a header that is parsed in its place is one that was sent, so
  it denotes a length.  `BytesInOrderHolds` needs no place: the buffer is always a suffix of
  what was received (`InStream`), and the handlers only drop bytes from its front.
  `ReaderImplementsChannel` is the refinement of MessageChannel, step by step: while no header
  has overshot, `PlaceInv` says that the body `BodyRead` takes is the next payload, so the
  step is `Deliver`; the handler of a header that has overshot is `Garble`, and so is every
  body after it.
* **FrameWriterProofs**, from `ThreadsAreDistinct` and `PartsPositive`, for both values of
  `RelockProceeds`.  The invariant is `FrameWriter!Discipline`: `write_in_progress` is set
  exactly while a write is under way, about to start, or has failed.
  Proved: `TypeCorrect`, `OneWriteOutstandingHolds`, `NeverStrandedHolds`,
  `SilentAfterErrorHolds`, and `FramesInOrderHolds`, by `WireInv`: what was queued is what
  has been written, the message in hand, and the send queue (`Backlog`), and the wire has the
  pieces of the first of these and so many of the second (`Progress`, `WirePieces`).
  `WriterImplementsChannel` is the refinement of MessageChannel: by `Progress` the wire ends
  inside the frame of the message in hand, so a write (`Initiate`, `WriteMore`) completes that
  frame or none (`LandedIs`), and by `WirePieces` a complete frame without garbage is the
  message queued at its place (`FrameIsMessage`); pushing to `send_queue` completes none
  (`QueueMessageSends`).  `FramesInOrder` says what the wire looks like in a state; the refinement
  also says that no step changes a frame that is there.
* **MetadataNodeProofs**, from `BoundsInNat`.  The invariant says where the other threads can
  be with regard to main (`Schedule`, `Unstarted`), how what has arrived is divided into handled,
  in hand and queued (`Ledger`), what the consumer may still handle after the flag is unset
  (`Budget`), and that a message names a connection that is in the map (`Known`).
  Proved: `TypeCorrect`, `AcceptOutstandingHolds`, `HandledInOrderHolds`,
  `StopsPromptlyHolds`, `CrashNeedsCauseHolds`, and `JoinsReturnHolds`, the part of `StopEnds` that
  does not need fairness: when main waits in a join, the thread it waits for can end.  It
  rests on the order of the joins (`Joined`) and on `Wakes`: from the push of the empty message
  on, a consumer in `wait_and_pop` has something to pop.  It may pop another message than that
  one and is stopped by it as well, since the flag was unset before the push.
* **SchedulerProofs**, from `Distinct` and `DescsFinite`.  `NoIdleWhileWork` needs to know who has
  the mutex (`Owner`), that the event's bit is set while there is something to wake for
  (`Signalled`), and that a thread which blocks has been interrupted if `task_interrupted` says
  so (`Interrupted`).  `DescriptorQueuedOnce` needs that the task follows every
  descriptor in the queue (`DescriptorPlaces`).  Proved with them: `TypeCorrect`, `OneReactorHolds`.
* **SchedulerWorkProofs**: `WorkCountedHolds` and `StopsOnlyWithoutWorkHolds`.  The counts mean
  something only because an operation is in one place at a time (`Exclusive`) and a
  thread has in hand what its place says (`InHand`); then `outstanding_work` is the number of
  operations that have started and not ended, without those a handler under way has in its private
  queue.
* **IoContextProofs**: `ImplementsIoContext`, the safety half of `KeepsPromise`: every step of
  Scheduler is a step of IoContext or changes nothing of it.  `Exclusive` again, for the
  mapping to tell an operation's phases apart (`PhasesTold`).
* **ReactorProofs**, from `Distinct`.  `NoMissedEdge` is strengthened in two ways: to all that
  want an edge, be it one who is about to wait or who will because the attempt is ruled
  out (`EdgeAwaited`); and by what the kernel owes while there is no room (`RoomAwaited`).
  Proved: `TypeCorrect`, `CompletedInOrderHolds`, `NothingLeftBehindHolds`,
  `NoMissedEdgeHolds`, `SpeculationResumesHolds`.

Only model-checked: all liveness (the fairness in `KeepsPromise` of the queue and of the
scheduler, `DeliveredUnlessOvershot`, `QueuedIsWritten`, `StopEnds`, `MessageHandled`,
`RequestAccepted`, `ReadyIsPerformed`), which the prover does not handle; and `Decimal`, a
recursive function whose value for every number would need an induction the prover cannot
instantiate (the proofs use `PayloadsFit` instead, and TLC checks the round trip up to the
greatest int).  MessageChannel promises no liveness, so all of it is proved.

## Where the code disagrees with its own words

`PROJECT.json` lists them as findings, each with the run that shows it: `consume` of bytes
that belong to the body (`SocketHandler.cpp:92`), the second lock of `conn.mtx` (55), the
buffer that does not outlive its write (65), the acceptor closed under the io thread
(18), the empty message that ends a running consumer (`MetadataNode.cpp:46`), and the
ECHO command that no task answers (`CommandParser.cpp:30`).

## What is not modelled

* `Logger`: no state anything reads.
* `establishConnection`, an empty stub; `findConnIdForSocket`, declared only; `size()`,
  `messageQueue`, `canConsumeMessage`, `canConsumeTask`, `nodeIdToConnId`, without use.
* `serializeCommand`, `textToJson`, the tasks' `execute`: nothing calls them, so the program has
  no behaviour in which they matter.  That `serializeCommand` writes `cmdType` as a number
  and `jsonToCommand` reads it as a string is listed as a hazard without a property.
* `taskQueue`, which grows without bound as nothing takes from it (`MetadataNode.cpp:49`): the
  consumer of tasks is a stub.
* Of the scheduler: `restart`, `run_one`, `poll`, `wait_one`, timers, exceptions that leave a handler,
  `shutdown` and destruction, the build without locking, and more than 128 events in one
  `epoll_wait`.  The program calls `run` once, from one thread, and `stop`.  The destructor of
  its io_context does call `shutdown`, after every thread has been joined (`JoinsReturn`);
  what matters of that, the order in which the members are destroyed, is `Destroy` and
  `DestroyCrashes` of MetadataNode.
* Of the reader: header lengths of -2 and below, which wrap as -1 does, but for which
  `consume(data_length + 1)` leaves the buffer in a state that asio does not define.  No body of
  such a length is ever complete.  TLC explores -1.
* Of the reactor: out-of-band (except) operations, timers, internal descriptors, regular files,
  `cancel_ops_by_key`, connect, fork, release, `shutdown` (as for the scheduler), a failure of `EPOLL_CTL_MOD`
  (`epoll_reactor.ipp:312`), and connections aborted in the backlog, which
  some systems report from `accept` (`socket_ops.ipp:255`).  A socket is not closed while another
  thread starts an operation on it, as asio requires; where this program does so is
  `node_acceptor`.
* The rest of asio (executors, coroutines, SSL, serial ports, files, resolvers, Windows) and
  nlohmann/json, which are most of the tree by far.  The program does not use the
  first; of the second it uses `parse` and `get`, whose outcome is the body
  `Malformed` in MetadataNode.  A model of them would be a model of a library, not of this
  program, and pure parsing has no interleavings or failures to explore.
* Allocation failures, and the reading of the port number in `main`.
* The end of standard input: main then spins, which looks like waiting for input.

## Plan

Done: every part of the program that has behaviour, with the two parts of asio that
run it, and the proofs above: every safety property that a passing run checks is proved.  What is left depends on the program's own progress:

1. When `consumeTask` executes tasks and `HeartbeatTask` is made: two nodes that exchange
   heartbeats, composing FrameWriter, FrameReader and MetadataNode; and the round trip of a
   command through `serializeCommand` and `jsonToCommand`.
2. The two ends of a connection in one module.  Both implement MessageChannel now, each for
   its half; that the halves make one channel while neither is garbled is left, and needs an
   answer to what the reading side promises of a stream that is not made of frames.
3. The Windows reactor (completion ports) as an alternative to `Reactor`, if the program
   comes to depend on the difference.
