----------------------------- MODULE FrameWriter -----------------------------
(***************************************************************************)
(* The writing side of one connection: enqueueOutgoingMessage, which any    *)
(* thread may call, and doAsyncWrite, which it calls when no write is under *)
(* way and which the completion handler of a write, on the thread of the    *)
(* io_context, calls again for the next message.                           *)
(*                                                                         *)
(* A frame leaves in Parts pieces: async_write hands the socket as much as *)
(* it takes at once and leaves the rest to the io thread, which goes on    *)
(* reading from the buffer it was given.  That buffer is doAsyncWrite's     *)
(* local variable data.                                                    *)
(*                                                                         *)
(* enqueueOutgoingMessage calls doAsyncWrite with conn.mtx held, and       *)
(* doAsyncWrite locks conn.mtx, a std::mutex, again.  The language leaves   *)
(* that undefined: glibc's mutex blocks the caller for ever, and one that  *)
(* counts the locks of its owner lets it through.  RelockProceeds says which *)
(* build is meant.                                                         *)
(***************************************************************************)
EXTENDS Naturals, Sequences, FiniteSets, SequencesExt

CONSTANTS Senders,         (* threads that call enqueueOutgoingMessage      *)
          Io,              (* the thread that runs the io_context           *)
          Messages,        (* the messages, each sent once                  *)
          Parts,           (* pieces a frame is written in                  *)
          None,            (* no thread, no message                         *)
          Garbage,         (* what is left where a destroyed buffer was     *)
          RelockProceeds   (* a second lock by the owner is let through     *)

Threads == Senders \cup {Io}

ASSUME ThreadsAreDistinct == Io \notin Senders /\ None \notin Threads \cup Messages

ASSUME PartsPositive == Parts \in Nat \ {0}

ASSUME RelockIsBoolean == RelockProceeds \in BOOLEAN

VARIABLES send_queue,        (* Connection::send_queue                      *)
          write_in_progress, (* Connection::write_in_progress               *)
          mtx,               (* the owner of Connection::mtx, or None       *)
          pc,                (* where each thread is                        *)
          data,              (* the message each thread is working on       *)
          ops,               (* the asynchronous writes under way           *)
          link,              (* the connection: "up" or "down"              *)
          wire,              (* history: the pieces written to the socket   *)
          queued,            (* history: the messages pushed to send_queue  *)
          failed             (* history: a write completed with an error    *)

vars == <<send_queue, write_in_progress, mtx, pc, data, ops, link, wire, queued, failed>>

Init ==
  /\ send_queue = <<>>
  /\ write_in_progress = FALSE
  /\ mtx = None
  /\ pc = [t \in Threads |-> "idle"]
  /\ data = [t \in Threads |-> None]
  /\ ops = {}
  /\ link = "up"
  /\ wire = <<>>
  /\ queued = <<>>
  /\ failed = FALSE

Goto(t, where) == pc' = [pc EXCEPT ![t] = where]

(************************* enqueueOutgoingMessage **************************)
Enqueue(t, m) ==
  /\ pc[t] = "idle"
  /\ m \notin Range(queued) \cup Range(data)
  /\ data' = [data EXCEPT ![t] = m]
  /\ Goto(t, "lock")
  /\ UNCHANGED <<send_queue, write_in_progress, mtx, ops, link, wire, queued, failed>>

Lock(t) ==
  /\ pc[t] = "lock"
  /\ mtx = None
  /\ mtx' = t
  /\ Goto(t, IF t = Io THEN "take" ELSE "queue")
  /\ UNCHANGED <<send_queue, write_in_progress, data, ops, link, wire, queued, failed>>

(* A message queued and written at once, whatever is under way. *)
QueueAndWrite(t) ==
  /\ pc[t] = "queue"
  /\ send_queue' = Append(send_queue, data[t])
  /\ queued' = Append(queued, data[t])
  /\ data' = [data EXCEPT ![t] = None]
  /\ write_in_progress' = TRUE
  /\ Goto(t, "relock")
  /\ UNCHANGED <<mtx, ops, link, wire, failed>>

QueueMessage(t) ==
  /\ pc[t] = "queue"
  /\ send_queue' = Append(send_queue, data[t])
  /\ queued' = Append(queued, data[t])
  /\ data' = [data EXCEPT ![t] = None]
  /\ \/ /\ write_in_progress
        /\ mtx' = None
        /\ Goto(t, "idle")
        /\ UNCHANGED write_in_progress
     \/ /\ ~ write_in_progress
        /\ write_in_progress' = TRUE
        /\ Goto(t, "relock")
        /\ UNCHANGED mtx
  /\ UNCHANGED <<ops, link, wire, failed>>

(****************************** doAsyncWrite *******************************)
(* The inner lock_guard of a caller that owns mtx. *)
Relock(t) ==
  /\ pc[t] = "relock"
  /\ RelockProceeds
  /\ Goto(t, "take")
  /\ UNCHANGED <<send_queue, write_in_progress, mtx, data, ops, link, wire, queued, failed>>

(* The end of the inner lock_guard frees mtx unless the caller owned it. *)
AfterScope(t) == IF t = Io THEN None ELSE mtx

(* An empty queue that leaves the connection marked as writing. *)
TakeNoneStillWriting(t) ==
  /\ pc[t] = "take" /\ send_queue = <<>>
  /\ mtx' = None
  /\ Goto(t, "idle")
  /\ UNCHANGED <<send_queue, write_in_progress, data, ops, link, wire, queued, failed>>

TakeNone(t) ==
  /\ pc[t] = "take" /\ send_queue = <<>>
  /\ write_in_progress' = FALSE
  /\ mtx' = None
  /\ Goto(t, "idle")
  /\ UNCHANGED <<send_queue, data, ops, link, wire, queued, failed>>

(* The newest message taken first. *)
TakeNewest(t) ==
  /\ pc[t] = "take" /\ send_queue # <<>>
  /\ data' = [data EXCEPT ![t] = Last(send_queue)]
  /\ send_queue' = Front(send_queue)
  /\ mtx' = AfterScope(t)
  /\ Goto(t, "initiate")
  /\ UNCHANGED <<write_in_progress, ops, link, wire, queued, failed>>

(* empty, front and pop are three critical sections of the queue's own      *)
(* mutex; mtx is held across them and no other code drains this queue, so   *)
(* they are one step here (ThreadSafeQueue has them as three).              *)
TakeMessage(t) ==
  /\ pc[t] = "take" /\ send_queue # <<>>
  /\ data' = [data EXCEPT ![t] = Head(send_queue)]
  /\ send_queue' = Tail(send_queue)
  /\ mtx' = AfterScope(t)
  /\ Goto(t, "initiate")
  /\ UNCHANGED <<write_in_progress, ops, link, wire, queued, failed>>

(* What can be on the wire: piece i of a message's frame, or garbage. *)
Piece == (Messages \X (1 .. Parts)) \cup {Garbage}

Pieces(m, from, to) == [i \in 1 .. to - from |-> <<m, from + i>>]

(* asio::async_write: as many pieces as the socket takes at once leave from *)
(* the buffer while it is there.                                           *)
Initiate(t) ==
  /\ pc[t] = "initiate"
  /\ \E n \in IF link = "up" THEN 0 .. Parts ELSE {0} :
       /\ wire' = wire \o Pieces(data[t], 0, n)
       /\ ops' = ops \cup {[message |-> data[t], owner |-> t, written |-> n]}
  /\ Goto(t, "return")
  /\ UNCHANGED <<send_queue, write_in_progress, mtx, data, link, queued, failed>>

(* doAsyncWrite returns and data is destroyed; a caller that came through   *)
(* enqueueOutgoingMessage releases mtx.                                    *)
Return(t) ==
  /\ pc[t] = "return"
  /\ data' = [data EXCEPT ![t] = None]
  /\ mtx' = IF t = Io THEN mtx ELSE None
  /\ Goto(t, "idle")
  /\ UNCHANGED <<send_queue, write_in_progress, ops, link, wire, queued, failed>>

(************************* the io_context's thread *************************)
BufferAlive(op) == pc[op.owner] = "return" /\ data[op.owner] = op.message

(* A write that counts its pieces from one. *)
WriteOneTooMany(op) ==
  /\ link = "up"
  /\ \E n \in 1 .. Parts - op.written + 1 :
       /\ wire' = wire \o Pieces(op.message, op.written, op.written + n)
       /\ ops' = (ops \ {op}) \cup {[op EXCEPT !.written = @ + n]}
  /\ UNCHANGED <<send_queue, write_in_progress, mtx, pc, data, link, queued, failed>>

(* The socket takes more, at the hands of the io thread or of the kernel;   *)
(* what is read from a buffer that is gone may still be the message or may  *)
(* be anything.                                                            *)
WriteMore(op) ==
  /\ link = "up"
  /\ \E n \in 1 .. Parts - op.written :
       /\ \/ wire' = wire \o Pieces(op.message, op.written, op.written + n)
          \/ ~ BufferAlive(op) /\ wire' = wire \o [i \in 1 .. n |-> Garbage]
       /\ ops' = (ops \ {op}) \cup {[op EXCEPT !.written = @ + n]}
  /\ UNCHANGED <<send_queue, write_in_progress, mtx, pc, data, link, queued, failed>>

(* A completion handler that does not look for the next message. *)
CompletedAndStops(op) ==
  /\ pc[Io] = "idle"
  /\ op.written = Parts
  /\ ops' = ops \ {op}
  /\ UNCHANGED <<send_queue, write_in_progress, mtx, pc, data, link, wire, queued, failed>>

(* The handler of a completed write calls doAsyncWrite. *)
Completed(op) ==
  /\ pc[Io] = "idle"
  /\ op.written = Parts
  /\ ops' = ops \ {op}
  /\ Goto(Io, "lock")
  /\ UNCHANGED <<send_queue, write_in_progress, mtx, data, link, wire, queued, failed>>

(* A handler that marks the connection as free after an error. *)
FailedAndFree(op) ==
  /\ pc[Io] = "idle"
  /\ link = "down" /\ op.written < Parts
  /\ ops' = ops \ {op}
  /\ write_in_progress' = FALSE
  /\ failed' = TRUE
  /\ UNCHANGED <<send_queue, mtx, pc, data, link, wire, queued>>

(* The handler of a failed one leaves the connection marked as writing. *)
Failed(op) ==
  /\ pc[Io] = "idle"
  /\ link = "down" /\ op.written < Parts
  /\ ops' = ops \ {op}
  /\ write_in_progress' = TRUE
  /\ failed' = TRUE
  /\ UNCHANGED <<send_queue, mtx, pc, data, link, wire, queued>>

LinkDown ==
  /\ link = "up"
  /\ link' = "down"
  /\ UNCHANGED <<send_queue, write_in_progress, mtx, pc, data, ops, wire, queued, failed>>

-----------------------------------------------------------------------------
(* What a thread does once it is inside one of the two functions. *)
Step(t) ==
  \/ Lock(t) \/ QueueMessage(t) \/ Relock(t)
  \/ TakeNone(t) \/ TakeMessage(t) \/ Initiate(t) \/ Return(t)

WriteStep == \E op \in ops : WriteMore(op) \/ Completed(op) \/ Failed(op)

Next ==
  \/ \E t \in Senders, m \in Messages : Enqueue(t, m)
  \/ \E t \in Threads : Step(t)
  \/ WriteStep
  \/ LinkDown

Spec == Init /\ [][Next]_vars

(* A thread that can take a step takes one, and a peer that is connected    *)
(* goes on reading; nobody has to send anything.                           *)
FairSpec == Spec /\ WF_vars(WriteStep) /\ \A t \in Threads : WF_vars(Step(t))

-----------------------------------------------------------------------------
TypeOK ==
  /\ send_queue \in Seq(Messages)
  /\ write_in_progress \in BOOLEAN
  /\ mtx \in Threads \cup {None}
  /\ pc \in [Threads -> {"idle", "lock", "queue", "relock", "take", "initiate", "return"}]
  /\ data \in [Threads -> Messages \cup {None}]
  /\ ops \subseteq [message : Messages, owner : Threads, written : 0 .. Parts]
  /\ link \in {"up", "down"}
  /\ wire \in Seq(Piece)
  /\ queued \in Seq(Messages)
  /\ failed \in BOOLEAN

(* The threads that are about to start a write. *)
Drivers ==
  {t \in Threads : pc[t] \in {"relock", "take", "initiate"}} \cup
  {t \in {Io} : pc[t] = "lock"}

(* A connection has one write under way at most, and while there is one     *)
(* nobody is about to start another: asio forbids a second async_write on   *)
(* a socket before the first has completed, whoever enqueues and whichever  *)
(* thread calls doAsyncWrite.                                              *)
OneWriteOutstanding ==
  /\ \A o, p \in ops : o = p
  /\ \A t, u \in Drivers : t = u
  /\ ops = {} \/ Drivers = {}

(* The inductive strengthening: who is inside which critical section holds  *)
(* mtx; write_in_progress is set exactly while a write is under way, about   *)
(* to start, or has failed; a thread has the message it is working on.      *)
MutexHeld ==
  /\ pc[Io] \notin {"queue", "relock"}
  /\ pc[Io] = "take" <=> mtx = Io
  /\ \A t \in Senders :
       pc[t] \in {"queue", "relock", "take", "initiate", "return"} <=> mtx = t

FlagMeansWriting ==
  /\ write_in_progress <=> ops # {} \/ Drivers # {} \/ failed
  /\ failed => ops = {} /\ Drivers = {}
  /\ send_queue # <<>> => write_in_progress

MessageInHand ==
  /\ \A t \in Threads : pc[t] \in {"initiate", "return"} => data[t] \in Messages
  /\ \A t \in Senders : pc[t] \in {"lock", "queue"} => data[t] \in Messages

Discipline ==
  TypeOK /\ OneWriteOutstanding /\ MutexHeld /\ FlagMeansWriting /\ MessageInHand

(* What reaches the wire is, piece by piece, the messages in the order in   *)
(* which they were queued, or garbage in the place of one of their pieces:  *)
(* no frame is begun inside another, none is skipped or sent twice.         *)
FramesInOrder ==
  /\ Len(wire) <= Len(queued) * Parts
  /\ \A k \in DOMAIN queued, p \in 1 .. Parts :
       LET i == (k - 1) * Parts + p
       IN  i <= Len(wire) => wire[i] \in {<<queued[k], p>>, Garbage}

(* The messages whose pieces the k-th frame of w is made of: at most one. *)
WrittenAt(w, k) ==
  {m \in Messages : \A p \in 1 .. Parts : w[(k - 1) * Parts + p] = <<m, p>>}

(* What a reader of w makes of its k-th frame. *)
FrameAt(w, k) ==
  IF WrittenAt(w, k) = {} THEN Garbage ELSE CHOOSE m \in WrittenAt(w, k) : TRUE

(* The messages whose last piece is on the wire. *)
Landed == {k \in DOMAIN queued : k * Parts <= Len(wire)}

OnWire == [k \in Landed |-> FrameAt(wire, k)]

(* The writing side keeps a channel's promise: whatever a thread or the      *)
(* kernel does next, the frames that are complete on the wire are unchanged, *)
(* or the next queued message has become one of them, unless a piece of       *)
(* garbage is there.                                                       *)
Channel == INSTANCE MessageChannel WITH
             sent <- queued, delivered <- OnWire,
             state <- IF Garbage \in Range(wire) THEN "garbled" ELSE "intact"
KeepsPromise == Channel!Spec

(* No message is left behind by a handler that finds the queue empty while  *)
(* a sender fills it: whenever something is queued, a write is under way or  *)
(* a thread is on its way to take the message, unless a write has failed.   *)
NeverStranded ==
  send_queue # <<>> => write_in_progress /\ (ops # {} \/ Drivers # {} \/ failed)

(* The first write that fails is the last one: nothing is written after it, *)
(* whoever goes on enqueueing.                                             *)
SilentAfterError == [][failed => wire' = wire /\ ops' = {}]_vars

(* A message that was queued is written out unless the connection breaks.  *)
QueuedIsWritten ==
  \A k \in 1 .. Cardinality(Messages) :
    Len(queued) >= k ~> (Len(wire) >= k * Parts \/ link = "down")

(* A buffer outlives the write that reads from it: nothing but pieces of    *)
(* messages is written.                                                    *)
WireIntact == Garbage \notin Range(wire)
=============================================================================
