------------------------------- MODULE Reactor -------------------------------
(***************************************************************************)
(* asio's epoll_reactor and one socket registered with it: the queues of     *)
(* operations that wait for the socket, the attempts to perform them at once  *)
(* (speculatively), and the edge-triggered events that tell when to try        *)
(* again.  Reads stand for receives and accepts, writes for sends.           *)
(*                                                                         *)
(* The kernel reports an edge once.  An operation must therefore not be left *)
(* in a queue, nor an attempt be ruled out, when the edge has come already.   *)
(*                                                                         *)
(* The mutex is the socket's own, descriptor_state::mutex_; the kernel does    *)
(* not wait for it.  Of the scheduler this takes what module Scheduler shows: *)
(* one thread at a time is in epoll_wait, and none while the descriptor is     *)
(* queued (OneReactor, DescriptorQueuedOnce).  As asio requires of its user,   *)
(* a socket is not closed while another thread is starting an operation on    *)
(* it, so start_op never finds shutdown_ set.                              *)
(***************************************************************************)
EXTENDS Naturals, Sequences, SequencesExt

CONSTANTS Runners,   (* threads in io_context::run                          *)
          Users,     (* callers of start_op, cancel and close              *)
          Ops,       (* operations, each started once at most               *)
          None

Types == {"read", "write"}
Calls == [op : Ops, type : Types, step : {"modify", "queue"}]

ASSUME Distinct ==
  /\ Runners \cap Users = {}
  /\ None \notin Runners \cup Users /\ None \notin Calls

VARIABLES
  pc,               (* where each runner is                                 *)
  events,           (* the event mask a runner carries, as a set of types    *)
  call,             (* a user's start_op that is under way, or None          *)
  mutex_,           (* descriptor_state::mutex_                            *)
  op_queue,         (* the operations that wait, of each type                *)
  try_speculative,
  epollout,         (* EPOLLOUT is in registered_events_                    *)
  enqueued,         (* the descriptor is in the scheduler's queue            *)
  task_result,      (* with this event mask                                *)
  socket,           (* "open", "closing" once shutdown_ is set, "closed"     *)
  ready,            (* the kernel can perform an operation of the type       *)
  over,             (* end of stream, or error, for the type               *)
  nospace,          (* a write met a full buffer: the kernel owes an edge    *)
  armed,            (* epoll has the socket in its list of ready ones        *)
  started,          (* history: operations in order of start_op             *)
  ended,            (* history: operations in order of completion           *)
  spent             (* history: the end of the stream has been reported      *)

threadVars == <<pc, events, call, mutex_>>
descriptorVars == <<op_queue, try_speculative, epollout>>
queueVars == <<enqueued, task_result>>
kernelVars == <<ready, over, nospace, armed, socket>>
historyVars == <<started, ended, spent>>
vars == <<threadVars, descriptorVars, queueVars, kernelVars, historyVars>>

ForBoth(x) == [t \in Types |-> x]

Init ==
  /\ pc = [r \in Runners |-> "idle"] /\ events = [r \in Runners |-> {}]
  /\ call = [u \in Users |-> None] /\ mutex_ = None
  /\ op_queue = ForBoth(<<>>) /\ try_speculative = ForBoth(TRUE) /\ epollout = FALSE
  /\ enqueued = FALSE /\ task_result = {}
  /\ socket = "open" /\ over = ForBoth(FALSE) /\ nospace = FALSE
  /\ ready \in [Types -> BOOLEAN] /\ ready["write"] /\ armed = ready["read"]
  /\ started = ForBoth(<<>>) /\ ended = ForBoth(<<>>) /\ spent = ForBoth(FALSE)

(******************************** the kernel *******************************)
Ready(t) == ready[t] \/ over[t]

(* What epoll reports: EPOLLIN and EPOLLOUT as registered, and EPOLLERR or    *)
(* EPOLLHUP, which count for every type, in any case.                       *)
Mask(out) ==
  IF over["write"] THEN Types ELSE {t \in Types : Ready(t) /\ (t = "write" => out)}

(* Data or room arrives.  Room is an edge only after a write has missed it.  *)
BecomesReady(t) ==
  /\ socket # "closed" /\ ~ ready[t]
  /\ ready' = [ready EXCEPT ![t] = TRUE]
  /\ armed' = (armed \/ t = "read" \/ (nospace /\ epollout))
  /\ nospace' = (nospace /\ t # "write")
  /\ UNCHANGED <<threadVars, descriptorVars, queueVars, over, socket, historyVars>>

(* The peer stops sending, or the connection is reset. *)
Ends(ts) ==
  /\ socket # "closed" /\ \E t \in ts : ~ over[t]
  /\ over' = [t \in Types |-> over[t] \/ t \in ts]
  /\ armed' = TRUE
  /\ UNCHANGED <<threadVars, descriptorVars, queueVars, ready, nospace, socket, historyVars>>

(* More of the same may count as an edge. *)
Rearm ==
  /\ socket # "closed" /\ ~ armed
  /\ armed' = TRUE
  /\ UNCHANGED <<threadVars, descriptorVars, queueVars, ready, over, nospace, socket, historyVars>>

(* perform() of an operation of type t: non_blocking_recv1, _send1, _accept, *)
(* leaving out the aborted connections that accept reports on some systems.  *)
(* A write that sends a part, and whatever reports the end, exhausts it.      *)
(* A reset leaves nothing to read and no way to write.                     *)
NotDone(t) ==
  /\ ~ Ready(t)
  /\ nospace' = (nospace \/ t = "write")
  /\ UNCHANGED <<ready, spent>>

Done(t) ==
  /\ ready[t] /\ ~ over["write"]
  /\ \E more \in BOOLEAN : ready' = [ready EXCEPT ![t] = more]
  /\ UNCHANGED <<nospace, spent>>

Exhausted(t) ==
  \/ /\ over[t] /\ (ready[t] => over["write"])
     /\ spent' = [spent EXCEPT ![t] = TRUE]
     /\ UNCHANGED <<ready, nospace>>
  \/ /\ t = "write" /\ ready[t] /\ ~ over[t]
     /\ ready' = [ready EXCEPT ![t] = FALSE] /\ nospace' = TRUE
     /\ UNCHANGED spent

(******************************* start_op *********************************)
Unused == Ops \ (Range(started["read"]) \cup Range(started["write"]))

End(t, op) == ended' = [ended EXCEPT ![t] = Append(@, op)]

Enter(u, op, t) ==
  /\ call[u] = None /\ mutex_ = None /\ socket = "open"
  /\ op \in Unused
  /\ started' = [started EXCEPT ![t] = Append(@, op)]

(* The call goes on, with the mutex, to epoll_ctl or to the queue. *)
GoOn(u, op, t, step) ==
  /\ call' = [call EXCEPT ![u] = [op |-> op, type |-> t, step |-> step]]
  /\ mutex_' = u

(* An attempt also when others wait for the same. *)
SpeculateAlways(u, op, t) ==
  /\ Enter(u, op, t)
  /\ try_speculative[t]
  /\ \/ /\ NotDone(t) /\ UNCHANGED <<try_speculative, ended>>
        /\ GoOn(u, op, t, IF t = "write" /\ ~ epollout THEN "modify" ELSE "queue")
     \/ Done(t) /\ End(t, op) /\ UNCHANGED <<try_speculative, call, mutex_>>
     \/ /\ Exhausted(t) /\ End(t, op)
        /\ try_speculative' = [try_speculative EXCEPT ![t] = FALSE]
        /\ UNCHANGED <<call, mutex_>>
  /\ UNCHANGED <<pc, events, op_queue, epollout, queueVars, over, armed, socket>>

(* The attempt at once, if nothing waits and no edge is awaited. *)
Speculate(u, op, t) ==
  /\ Enter(u, op, t)
  /\ op_queue[t] = <<>> /\ try_speculative[t]
  /\ \/ /\ NotDone(t) /\ UNCHANGED <<try_speculative, ended>>
        /\ GoOn(u, op, t, IF t = "write" /\ ~ epollout THEN "modify" ELSE "queue")
     \/ Done(t) /\ End(t, op) /\ UNCHANGED <<try_speculative, call, mutex_>>
     \/ /\ Exhausted(t) /\ End(t, op)
        /\ try_speculative' = [try_speculative EXCEPT ![t] = FALSE]
        /\ UNCHANGED <<call, mutex_>>
  /\ UNCHANGED <<pc, events, op_queue, epollout, queueVars, over, armed, socket>>

(* An operation that registers for nothing. *)
StartWithoutModify(u, op, t, speculative) ==
  /\ Enter(u, op, t)
  /\ ~ (op_queue[t] = <<>> /\ speculative /\ try_speculative[t])
  /\ GoOn(u, op, t, "queue")
  /\ UNCHANGED <<pc, events, ended, spent, descriptorVars, queueVars, kernelVars>>

(* No attempt: epoll_ctl looks again at the socket, for the first write and   *)
(* for operations that do not allow an attempt.                             *)
Start(u, op, t, speculative) ==
  /\ Enter(u, op, t)
  /\ ~ (op_queue[t] = <<>> /\ speculative /\ try_speculative[t])
  /\ GoOn(u, op, t,
          IF op_queue[t] = <<>> /\ (speculative => t = "write" /\ ~ epollout)
          THEN "modify" ELSE "queue")
  /\ UNCHANGED <<pc, events, ended, spent, descriptorVars, queueVars, kernelVars>>

(* EPOLL_CTL_MOD, which polls the socket again.  Its failure, which would     *)
(* complete the operation with the error at once, is left out: of a socket  *)
(* that is registered and open epoll_ctl has nothing to refuse.             *)
Modify(u) ==
  /\ call[u] # None /\ call[u].step = "modify"
  /\ epollout' = (epollout \/ call[u].type = "write")
  /\ armed' = (armed \/ Mask(epollout') # {})
  /\ nospace' = (nospace \/ ~ ready["write"])
  /\ call' = [call EXCEPT ![u].step = "queue"]
  /\ UNCHANGED <<pc, events, mutex_, op_queue, try_speculative, queueVars, ready, over, socket,
                 historyVars>>

QueueOp(u) ==
  /\ call[u] # None /\ call[u].step = "queue"
  /\ op_queue' = [op_queue EXCEPT ![call[u].type] = Append(@, call[u].op)]
  /\ call' = [call EXCEPT ![u] = None] /\ mutex_' = None
  /\ UNCHANGED <<pc, events, try_speculative, epollout, queueVars, kernelVars, historyVars>>

(******************************* run, perform_io ***************************)
Polling == \E r \in Runners : pc[r] = "polled"

(* epoll_wait: the mask is what is ready now, whatever the edge was. *)
EpollWait(r) ==
  /\ pc[r] = "idle" /\ ~ Polling /\ ~ enqueued
  /\ armed
  /\ armed' = FALSE /\ nospace' = (nospace \/ ~ ready["write"])
  /\ events' = [events EXCEPT ![r] = Mask(epollout)]
  /\ pc' = [pc EXCEPT ![r] = IF Mask(epollout) = {} THEN "idle" ELSE "polled"]
  /\ UNCHANGED <<call, mutex_, descriptorVars, queueVars, ready, over, socket, historyVars>>

(* set_ready_events.  The descriptor stays in its pool when it is freed, so   *)
(* an event of a socket that is closed by now does no harm here.            *)
Dispatch(r) ==
  /\ pc[r] = "polled"
  /\ enqueued' = TRUE /\ task_result' = events[r]
  /\ events' = [events EXCEPT ![r] = {}]
  /\ pc' = [pc EXCEPT ![r] = "idle"]
  /\ UNCHANGED <<call, mutex_, descriptorVars, kernelVars, historyVars>>

(* do_run_one takes the descriptor and its event mask. *)
Take(r) ==
  /\ pc[r] = "idle" /\ enqueued
  /\ enqueued' = FALSE
  /\ events' = [events EXCEPT ![r] = task_result]
  /\ pc' = [pc EXCEPT ![r] = "taken"]
  /\ UNCHANGED <<call, mutex_, descriptorVars, task_result, kernelVars, historyVars>>

(* perform_io without the mutex. *)
PerformUnlocked(r) ==
  /\ pc[r] = "taken"
  /\ mutex_' = r
  /\ pc' = [pc EXCEPT ![r] = "write"]
  /\ UNCHANGED <<events, call, descriptorVars, queueVars, kernelVars, historyVars>>

(* perform_io, writes before reads. *)
LockDescriptor(r) ==
  /\ pc[r] = "taken" /\ mutex_ = None
  /\ mutex_' = r
  /\ pc' = [pc EXCEPT ![r] = "write"]
  /\ UNCHANGED <<events, call, descriptorVars, queueVars, kernelVars, historyVars>>

NextType(r) ==
  IF pc[r] = "write"
  THEN pc' = [pc EXCEPT ![r] = "read"] /\ UNCHANGED <<events, mutex_>>
  ELSE pc' = [pc EXCEPT ![r] = "idle"] /\ events' = [events EXCEPT ![r] = {}] /\ mutex_' = None

(* The mask does not have the type, or nothing waits for it. *)
SkipType(r) ==
  \E t \in Types :
    /\ pc[r] = t /\ (t \in events[r] => op_queue[t] = <<>>)
    /\ try_speculative' = [try_speculative EXCEPT ![t] = @ \/ t \in events[r]]
    /\ NextType(r)
    /\ UNCHANGED <<call, op_queue, epollout, queueVars, kernelVars, historyVars>>

(* The attempt allowed again only if the type is done with. *)
PerformOnlyDone(r) ==
  \E t \in Types :
    /\ pc[r] = t /\ t \in events[r] /\ op_queue[t] # <<>>
    /\ \/ /\ NotDone(t) /\ NextType(r)
          /\ try_speculative' = [try_speculative EXCEPT ![t] = TRUE]
          /\ UNCHANGED <<op_queue, ended>>
       \/ /\ Done(t) /\ NextType(r)
          /\ try_speculative' = [try_speculative EXCEPT ![t] = FALSE]
          /\ End(t, Head(op_queue[t]))
          /\ op_queue' = [op_queue EXCEPT ![t] = Tail(@)]
       \/ /\ Exhausted(t) /\ NextType(r)
          /\ try_speculative' = [try_speculative EXCEPT ![t] = FALSE]
          /\ End(t, Head(op_queue[t]))
          /\ op_queue' = [op_queue EXCEPT ![t] = Tail(@)]
    /\ UNCHANGED <<call, epollout, queueVars, over, armed, socket, started>>

(* The operations that wait are performed until one cannot be. *)
PerformOp(r) ==
  \E t \in Types :
    /\ pc[r] = t /\ t \in events[r] /\ op_queue[t] # <<>>
    /\ \/ /\ NotDone(t) /\ NextType(r)
          /\ try_speculative' = [try_speculative EXCEPT ![t] = TRUE]
          /\ UNCHANGED <<op_queue, ended>>
       \/ /\ Done(t) /\ UNCHANGED <<pc, events, mutex_>>
          /\ try_speculative' = [try_speculative EXCEPT ![t] = TRUE]
          /\ End(t, Head(op_queue[t]))
          /\ op_queue' = [op_queue EXCEPT ![t] = Tail(@)]
       \/ /\ Exhausted(t) /\ NextType(r)
          /\ try_speculative' = [try_speculative EXCEPT ![t] = FALSE]
          /\ End(t, Head(op_queue[t]))
          /\ op_queue' = [op_queue EXCEPT ![t] = Tail(@)]
    /\ UNCHANGED <<call, epollout, queueVars, over, armed, socket, started>>

(************************* cancel, close, register *************************)
AbortAll ==
  /\ ended' = [t \in Types |-> ended[t] \o op_queue[t]]
  /\ op_queue' = ForBoth(<<>>)

CancelOps(u) ==
  /\ call[u] = None /\ mutex_ = None /\ socket = "open"
  /\ AbortAll
  /\ UNCHANGED <<threadVars, try_speculative, epollout, queueVars, kernelVars, started, spent>>

(* A close that forgets the writes. *)
DeregisterReads ==
  /\ mutex_ = None /\ socket = "open" /\ \A u \in Users : call[u] = None
  /\ ended' = [ended EXCEPT !["read"] = @ \o op_queue["read"]]
  /\ op_queue' = [op_queue EXCEPT !["read"] = <<>>]
  /\ socket' = "closing"
  /\ UNCHANGED <<threadVars, try_speculative, epollout, queueVars, ready, over, nospace, armed,
                 started, spent>>

(* close(): deregister_descriptor; then the system's close, which takes the   *)
(* socket out of epoll, and cleanup_descriptor_data.                       *)
Deregister ==
  /\ mutex_ = None /\ socket = "open" /\ \A u \in Users : call[u] = None
  /\ AbortAll
  /\ socket' = "closing"
  /\ UNCHANGED <<threadVars, try_speculative, epollout, queueVars, ready, over, nospace, armed,
                 started, spent>>

CloseSocket ==
  /\ socket = "closing"
  /\ socket' = "closed" /\ armed' = FALSE
  /\ UNCHANGED <<threadVars, descriptorVars, queueVars, ready, over, nospace, historyVars>>

(* register_descriptor takes the same descriptor state for another socket,   *)
(* while threads may still carry events of the one before.                 *)
Register ==
  /\ socket = "closed" /\ mutex_ = None
  /\ socket' = "open"
  /\ try_speculative' = ForBoth(TRUE) /\ epollout' = FALSE
  /\ ready' \in [Types -> BOOLEAN] /\ ready'["write"] /\ armed' = ready'["read"]
  /\ over' = ForBoth(FALSE) /\ nospace' = FALSE /\ spent' = ForBoth(FALSE)
  /\ UNCHANGED <<threadVars, op_queue, queueVars, started, ended>>

-----------------------------------------------------------------------------
KernelStep == \/ \E t \in Types : BecomesReady(t)
              \/ Ends({"read"}) \/ Ends(Types)
              \/ Rearm

UserStep(u) ==
  \/ \E op \in Ops, t \in Types :
       Speculate(u, op, t) \/ \E speculative \in BOOLEAN : Start(u, op, t, speculative)
  \/ CancelOps(u)

CallStep(u) == Modify(u) \/ QueueOp(u)

RunStep(r) == Dispatch(r) \/ SkipType(r) \/ PerformOp(r)

Next ==
  \/ KernelStep
  \/ \E u \in Users : UserStep(u) \/ CallStep(u)
  \/ \E r \in Runners : EpollWait(r) \/ Take(r) \/ LockDescriptor(r) \/ RunStep(r)
  \/ Deregister \/ CloseSocket \/ Register

Spec == Init /\ [][Next]_vars

(* Threads in the reactor and in start_op run on, and one that waits for the *)
(* mutex gets it in the end.  Nothing is asked of the kernel or the user.     *)
FairSpec ==
  /\ Spec
  /\ WF_vars(\E r \in Runners : EpollWait(r)) /\ WF_vars(\E r \in Runners : Take(r))
  /\ \A r \in Runners : WF_vars(RunStep(r)) /\ SF_vars(LockDescriptor(r))
  /\ \A u \in Users : WF_vars(CallStep(u))

-----------------------------------------------------------------------------
(* Types; who has the mutex is in perform_io or start_op.                   *)
TypeOK ==
  /\ pc \in [Runners -> {"idle", "polled", "taken"} \cup Types]
  /\ events \in [Runners -> SUBSET Types] /\ task_result \subseteq Types
  /\ call \in [Users -> Calls \cup {None}]
  /\ mutex_ \in Runners \cup Users \cup {None}
  /\ \A r \in Runners : pc[r] \in Types <=> mutex_ = r
  /\ \A u \in Users : call[u] # None <=> mutex_ = u
  /\ op_queue \in [Types -> Seq(Ops)]
  /\ started \in [Types -> Seq(Ops)] /\ ended \in [Types -> Seq(Ops)]
  /\ try_speculative \in [Types -> BOOLEAN] /\ ready \in [Types -> BOOLEAN]
  /\ over \in [Types -> BOOLEAN] /\ spent \in [Types -> BOOLEAN]
  /\ epollout \in BOOLEAN /\ enqueued \in BOOLEAN /\ nospace \in BOOLEAN /\ armed \in BOOLEAN
  /\ socket \in {"open", "closing", "closed"}

Starting(t) ==
  IF mutex_ \in Users /\ call[mutex_].type = t THEN <<call[mutex_].op>> ELSE <<>>

(* Operations of a type complete in the order in which they were started,    *)
(* each once, and one that has not completed is in its queue: whether they    *)
(* succeed at once or later, fail, or are cancelled or closed on.           *)
CompletedInOrder == \A t \in Types : started[t] = ended[t] \o op_queue[t] \o Starting(t)

(* Something is on its way that will have perform_io try type t. *)
Noticed(t) ==
  \/ armed /\ t \in Mask(epollout)
  \/ enqueued /\ t \in task_result
  \/ \E r \in Runners : t \in events[r] /\ (pc[r] \in {"polled", "taken", t} \/ pc[r] = "write")
  \/ \E u \in Users : /\ call[u] # None /\ call[u].step = "modify"
                      /\ t = "write" => epollout \/ call[u].type = "write"

(* No edge is missed: an operation does not wait in a queue for what the      *)
(* kernel has already reported, unless that was the end of the stream.       *)
NoMissedEdge ==
  \A t \in Types :
    op_queue[t] # <<>> /\ Ready(t) /\ ~ spent[t] => Noticed(t)

(* An attempt is ruled out only while an edge is sure to come, or while the   *)
(* next operation will have epoll look again.                              *)
SpeculationResumes ==
  \A t \in Types :
    ~ try_speculative[t] /\ Ready(t) /\ ~ spent[t] /\ socket # "closed" =>
      Noticed(t) \/ (t = "write" /\ ~ epollout /\ op_queue[t] = <<>>)

(* A socket that is closed leaves no operation behind, neither for ever nor   *)
(* to be performed on the next socket that uses the descriptor state.        *)
NothingLeftBehind == socket # "open" => op_queue = ForBoth(<<>>) /\ mutex_ \notin Users

Stuck(t) == op_queue[t] # <<>> /\ Ready(t) /\ ~ spent[t]

(* An operation that can be performed is: it never waits for ever. *)
ReadyIsPerformed == \A t \in Types : []<> ~ Stuck(t)
=============================================================================
