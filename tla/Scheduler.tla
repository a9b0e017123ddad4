------------------------------ MODULE Scheduler ------------------------------
(***************************************************************************)
(* asio's scheduler, which an io_context is: the queue of operations that    *)
(* are ready, the threads that take them from it in run(), the reactor's     *)
(* task, which one of them runs at a time, and the ways in which a thread    *)
(* that adds to the queue wakes another: the condition variable of           *)
(* wakeup_event_, or the reactor's interrupter when the only idle thread is   *)
(* blocked in epoll_wait.                                                   *)
(*                                                                         *)
(* mutex_ protects the queue, stopped_, task_interrupted_ and the event; a   *)
(* thread that keeps it over several steps is its owner here, a section that *)
(* is one step only finds it free.  outstanding_work_ is atomic.  The         *)
(* options are the default ones: locking, several threads, no time limits.   *)
(***************************************************************************)
EXTENDS Integers, Sequences, FiniteSets, SequencesExt

CONSTANTS Runners,   (* threads that call run()                             *)
          Callers,   (* other threads                                      *)
          Ops,       (* operations, each started once at most               *)
          Descs,     (* descriptors registered with the reactor             *)
          Task,      (* task_operation_, the mark of the reactor's turn     *)
          None

ASSUME Distinct ==
  /\ Runners \cap Callers = {} /\ Ops \cap Descs = {}
  /\ Task \notin Ops \cup Descs /\ None \notin Runners \cup Ops \cup Descs \cup {Task}

ASSUME DescsFinite == IsFiniteSet(Descs)

Threads == Runners \cup Callers

VARIABLES
  pc,                 (* where each thread is in run()                      *)
  op_queue,
  mutex_,             (* the thread that keeps it, or None                  *)
  stopped_,
  task_interrupted,
  outstanding_work,
  signalled,          (* the low bit of wakeup_event_.state_                *)
  private_op_queue,   (* a runner's thread_info                             *)
  private_work,       (* its private_outstanding_work                       *)
  current,            (* the operation it took, or None                     *)
  posting,            (* what a thread is about to push to op_queue         *)
  toSignal,           (* threads that owe wakeup_event_ a signal            *)
  waiting,            (* a descriptor's operations                          *)
  edges,              (* descriptors epoll has an event for                 *)
  interrupter,        (* epoll has an event for the interrupter             *)
  unused, done        (* history: operations not started yet, and ended     *)

queueVars == <<op_queue, mutex_, stopped_>>
wakeVars == <<task_interrupted, signalled, toSignal, interrupter>>
workVars == <<outstanding_work, private_work>>
opVars == <<current, posting, waiting, private_op_queue, unused, done>>
vars == <<pc, queueVars, wakeVars, workVars, opVars, edges>>

(* After the first service that needs the reactor has called init_task. *)
Init ==
  /\ pc = [r \in Runners |-> "out"]
  /\ op_queue = <<Task>> /\ mutex_ = None /\ stopped_ = FALSE
  /\ task_interrupted = TRUE /\ signalled = TRUE /\ toSignal = {} /\ interrupter = TRUE
  /\ outstanding_work = 0 /\ private_work = [r \in Runners |-> 0]
  /\ current = [r \in Runners |-> None]
  /\ posting = [t \in Threads |-> <<>>]
  /\ waiting = [d \in Descs |-> <<>>]
  /\ private_op_queue = [r \in Runners |-> <<>>]
  /\ unused = Ops /\ done = {} /\ edges = {}

(****************************** wakeup_event_ ******************************)
Asleep == {r \in Runners : pc[r] = "asleep"}
Waiters == Asleep \cup {r \in Runners : pc[r] = "awake"}  (* state_ > 1 *)

Interrupt ==
  IF task_interrupted THEN UNCHANGED <<task_interrupted, interrupter>>
  ELSE task_interrupted' = TRUE /\ interrupter' = TRUE

(* A wakeup that never interrupts the reactor. *)
WakeWaiterOnly(t) ==
  /\ signalled' = TRUE
  /\ toSignal' = IF Waiters # {} THEN toSignal \cup {t} ELSE toSignal
  /\ UNCHANGED <<task_interrupted, interrupter>>

(* wake_one_thread_and_unlock: the signal itself follows the unlock. *)
Wake(t) ==
  /\ signalled' = TRUE
  /\ IF Waiters # {}
     THEN toSignal' = toSignal \cup {t} /\ UNCHANGED <<task_interrupted, interrupter>>
     ELSE UNCHANGED toSignal /\ Interrupt

Signal(t) ==
  /\ t \in toSignal
  /\ toSignal' = toSignal \ {t}
  /\ IF Asleep = {} THEN UNCHANGED pc
     ELSE \E r \in Asleep : pc' = [pc EXCEPT ![r] = "awake"]
  /\ UNCHANGED <<queueVars, task_interrupted, signalled, interrupter, workVars, opVars, edges>>

SpuriousWakeup(r) ==
  /\ pc[r] = "asleep"
  /\ pc' = [pc EXCEPT ![r] = "awake"]
  /\ UNCHANGED <<queueVars, wakeVars, workVars, opVars, edges>>

(* pthread_cond_wait returns with the mutex, and the bit is looked at again. *)
Reacquire(r) ==
  /\ pc[r] = "awake" /\ mutex_ = None
  /\ IF signalled
     THEN pc' = [pc EXCEPT ![r] = "loop"] /\ mutex_' = r
     ELSE pc' = [pc EXCEPT ![r] = "asleep"] /\ UNCHANGED mutex_
  /\ UNCHANGED <<op_queue, stopped_, wakeVars, workVars, opVars, edges>>

(* stop_all_threads *)
StopAllThreads(pcOf) ==
  /\ mutex_ = None
  /\ stopped_' = TRUE /\ signalled' = TRUE
  /\ pc' = [r \in Runners |-> IF r \in Asleep THEN "awake" ELSE pcOf[r]]
  /\ Interrupt
  /\ UNCHANGED <<op_queue, mutex_, toSignal, workVars, opVars, edges>>

(********************************** run() **********************************)
Enter(r) ==
  /\ pc[r] = "out"
  /\ pc' = [pc EXCEPT ![r] = IF outstanding_work = 0 THEN "no_work" ELSE "lock"]
  /\ UNCHANGED <<queueVars, wakeVars, workVars, opVars, edges>>

(* stop(), when run() finds no work and when the last work is finished. *)
StopForWant(r) ==
  \/ pc[r] = "no_work" /\ StopAllThreads([pc EXCEPT ![r] = "returned"])
  \/ pc[r] = "work_finished" /\ StopAllThreads([pc EXCEPT ![r] = "lock"])

(* The lock of run's loop; work_cleanup takes it to add the private queue.  *)
Lock(r) ==
  /\ pc[r] = "lock" /\ mutex_ = None
  /\ mutex_' = r
  /\ pc' = [pc EXCEPT ![r] = "loop"]
  /\ op_queue' = op_queue \o private_op_queue[r]
  /\ private_op_queue' = [private_op_queue EXCEPT ![r] = <<>>]
  /\ UNCHANGED <<stopped_, wakeVars, workVars, current, posting, waiting, unused, done, edges>>

(* do_run_one, with the mutex: it leaves, or takes the first of the queue,   *)
(* or waits.                                                               *)
Loop(r) == pc[r] = "loop" /\ r \notin toSignal

Leave(r) ==
  /\ Loop(r) /\ stopped_
  /\ mutex_' = None
  /\ pc' = [pc EXCEPT ![r] = "returned"]
  /\ UNCHANGED <<op_queue, stopped_, wakeVars, workVars, opVars, edges>>

(* A reactor's turn that blocks whatever the queue holds. *)
TakeTaskAndBlock(r) ==
  /\ Loop(r) /\ ~ stopped_
  /\ op_queue # <<>> /\ Head(op_queue) = Task
  /\ op_queue' = Tail(op_queue) /\ mutex_' = None
  /\ task_interrupted' = FALSE
  /\ pc' = [pc EXCEPT ![r] = "block"]
  /\ UNCHANGED <<stopped_, signalled, toSignal, interrupter, workVars, opVars, edges>>

(* The reactor's turn.  It blocks only if nothing else is in the queue;      *)
(* otherwise another thread is woken for the rest.                          *)
TakeTask(r) ==
  /\ Loop(r) /\ ~ stopped_
  /\ op_queue # <<>> /\ Head(op_queue) = Task
  /\ op_queue' = Tail(op_queue) /\ mutex_' = None
  /\ task_interrupted' = (Tail(op_queue) # <<>>)
  /\ IF Tail(op_queue) # <<>>
     THEN /\ signalled' = TRUE
          /\ toSignal' = IF Waiters # {} THEN toSignal \cup {r} ELSE toSignal
          /\ pc' = [pc EXCEPT ![r] = "poll"]
     ELSE /\ UNCHANGED <<signalled, toSignal>>
          /\ pc' = [pc EXCEPT ![r] = "block"]
  /\ UNCHANGED <<stopped_, interrupter, workVars, opVars, edges>>

(* The mark of the reactor taken for an operation. *)
TakeAny(r) ==
  /\ Loop(r) /\ ~ stopped_ /\ op_queue # <<>>
  /\ op_queue' = Tail(op_queue) /\ mutex_' = None
  /\ current' = [current EXCEPT ![r] = Head(op_queue)]
  /\ pc' = [pc EXCEPT ![r] = IF Head(op_queue) \in Descs THEN "perform" ELSE "handler"]
  /\ IF Tail(op_queue) # <<>> THEN Wake(r) ELSE UNCHANGED wakeVars
  /\ UNCHANGED <<stopped_, workVars, posting, waiting, private_op_queue, unused, done, edges>>

TakeOp(r) ==
  /\ Loop(r) /\ ~ stopped_
  /\ op_queue # <<>> /\ Head(op_queue) # Task
  /\ op_queue' = Tail(op_queue) /\ mutex_' = None
  /\ current' = [current EXCEPT ![r] = Head(op_queue)]
  /\ pc' = [pc EXCEPT ![r] = IF Head(op_queue) \in Descs THEN "perform" ELSE "handler"]
  /\ IF Tail(op_queue) # <<>> THEN Wake(r) ELSE UNCHANGED wakeVars
  /\ UNCHANGED <<stopped_, workVars, posting, waiting, private_op_queue, unused, done, edges>>

Wait(r) ==
  /\ Loop(r) /\ ~ stopped_ /\ op_queue = <<>>
  /\ signalled' = FALSE /\ mutex_' = None
  /\ pc' = [pc EXCEPT ![r] = "asleep"]
  /\ UNCHANGED <<op_queue, stopped_, task_interrupted, toSignal, interrupter, workVars, opVars,
                 edges>>

(******************************* the reactor *******************************)
(* epoll_wait: the descriptors it has an event for are queued, in any order. *)
Poll(r) ==
  /\ r \notin toSignal
  /\ \/ pc[r] = "poll"
     \/ pc[r] = "block" /\ (interrupter \/ edges # {})
  /\ \E ds \in SetToSeqs(edges) :
       private_op_queue' = [private_op_queue EXCEPT ![r] = @ \o ds]
  /\ edges' = {} /\ interrupter' = FALSE
  /\ pc' = [pc EXCEPT ![r] = "task_cleanup"]
  /\ UNCHANGED <<queueVars, task_interrupted, signalled, toSignal, workVars, current, posting,
                 waiting, unused, done>>

(* The task put back before the operations it found. *)
TaskCleanupTaskFirst(r) ==
  /\ pc[r] = "task_cleanup" /\ mutex_ = None
  /\ mutex_' = r
  /\ outstanding_work' = outstanding_work + private_work[r]
  /\ private_work' = [private_work EXCEPT ![r] = 0]
  /\ task_interrupted' = TRUE
  /\ op_queue' = op_queue \o <<Task>> \o private_op_queue[r]
  /\ private_op_queue' = [private_op_queue EXCEPT ![r] = <<>>]
  /\ pc' = [pc EXCEPT ![r] = "loop"]
  /\ UNCHANGED <<stopped_, signalled, toSignal, interrupter, current, posting, waiting, unused,
                 done, edges>>

TaskCleanup(r) ==
  /\ pc[r] = "task_cleanup" /\ mutex_ = None
  /\ mutex_' = r
  /\ outstanding_work' = outstanding_work + private_work[r]
  /\ private_work' = [private_work EXCEPT ![r] = 0]
  /\ task_interrupted' = TRUE
  /\ op_queue' = op_queue \o private_op_queue[r] \o <<Task>>
  /\ private_op_queue' = [private_op_queue EXCEPT ![r] = <<>>]
  /\ pc' = [pc EXCEPT ![r] = "loop"]
  /\ UNCHANGED <<stopped_, signalled, toSignal, interrupter, current, posting, waiting, unused,
                 done, edges>>

(* A descriptor's turn without the compensation for what did not complete.  *)
PerformIoUncompensated(r) ==
  /\ pc[r] = "perform" /\ r \notin toSignal
  /\ LET d == current[r] IN
     \E k \in 0 .. Len(waiting[d]) :
       /\ waiting' = [waiting EXCEPT ![d] = SubSeq(@, k + 1, Len(@))]
       /\ posting' = [posting EXCEPT ![r] = SubSeq(waiting[d], 2, k)]
       /\ current' = [current EXCEPT ![r] = IF k = 0 THEN None ELSE waiting[d][1]]
       /\ pc' = [pc EXCEPT ![r] = IF k = 0 THEN "cleanup" ELSE "handler"]
  /\ UNCHANGED <<workVars, queueVars, wakeVars, private_op_queue, unused, done, edges>>

(* perform_io: as many of the descriptor's operations as succeed or fail     *)
(* complete.  The thread runs the first and posts the others.  If there is    *)
(* none, work is counted for the work_finished that follows.                *)
PerformIo(r) ==
  /\ pc[r] = "perform" /\ r \notin toSignal
  /\ LET d == current[r] IN
     \E k \in 0 .. Len(waiting[d]) :
       /\ waiting' = [waiting EXCEPT ![d] = SubSeq(@, k + 1, Len(@))]
       /\ posting' = [posting EXCEPT ![r] = SubSeq(waiting[d], 2, k)]
       /\ current' = [current EXCEPT ![r] = IF k = 0 THEN None ELSE waiting[d][1]]
       /\ private_work' = [private_work EXCEPT ![r] = IF k = 0 THEN @ + 1 ELSE @]
       /\ pc' = [pc EXCEPT ![r] = IF k = 0 THEN "cleanup" ELSE "handler"]
  /\ UNCHANGED <<outstanding_work, queueVars, wakeVars, private_op_queue, unused, done, edges>>

(* work_cleanup: one piece of work is finished; what the handler started on  *)
(* this thread was counted apart.                                          *)
Finished(r) ==
  LET n == private_work[r] IN
    /\ outstanding_work' = outstanding_work + n - 1
    /\ private_work' = [private_work EXCEPT ![r] = 0]
    /\ pc' = [pc EXCEPT ![r] = IF n < 1 /\ outstanding_work' = 0 THEN "work_finished" ELSE "lock"]

Cleanup(r) ==
  /\ pc[r] = "cleanup"
  /\ Finished(r)
  /\ UNCHANGED <<queueVars, wakeVars, opVars, edges>>

(********************** handlers and the other threads *********************)
(* A thread that may call the io_context: no call of its own is under way.   *)
Free(t) ==
  /\ posting[t] = <<>> /\ t \notin toSignal
  /\ t \in Runners => pc[t] = "handler"

HandlerReturns(r) ==
  /\ r \in Runners /\ Free(r)
  /\ done' = done \cup {current[r]}
  /\ current' = [current EXCEPT ![r] = None]
  /\ Finished(r)
  /\ UNCHANGED <<queueVars, wakeVars, posting, waiting, private_op_queue, unused, edges>>

(* post_immediate_completion: a continuation stays with its thread. *)
Post(t, op) ==
  /\ Free(t) /\ op \in unused
  /\ unused' = unused \ {op}
  /\ outstanding_work' = outstanding_work + 1
  /\ posting' = [posting EXCEPT ![t] = <<op>>]
  /\ UNCHANGED <<pc, queueVars, wakeVars, private_work, current, waiting, private_op_queue, done,
                 edges>>

PostContinuation(r, op) ==
  /\ r \in Runners /\ Free(r) /\ op \in unused
  /\ unused' = unused \ {op}
  /\ private_work' = [private_work EXCEPT ![r] = @ + 1]
  /\ private_op_queue' = [private_op_queue EXCEPT ![r] = Append(@, op)]
  /\ UNCHANGED <<pc, queueVars, wakeVars, outstanding_work, current, posting, waiting, done, edges>>

(* start_op of an operation that cannot complete yet. *)
StartOp(t, op, d) ==
  /\ Free(t) /\ op \in unused
  /\ unused' = unused \ {op}
  /\ waiting' = [waiting EXCEPT ![d] = Append(@, op)]
  /\ outstanding_work' = outstanding_work + 1
  /\ UNCHANGED <<pc, queueVars, wakeVars, private_work, current, posting, private_op_queue, done,
                 edges>>

(* cancel_ops *)
CancelOps(t, d) ==
  /\ Free(t) /\ waiting[d] # <<>>
  /\ posting' = [posting EXCEPT ![t] = waiting[d]]
  /\ waiting' = [waiting EXCEPT ![d] = <<>>]
  /\ UNCHANGED <<pc, queueVars, wakeVars, workVars, current, private_op_queue, unused, done, edges>>

(* The section that ends post_immediate_completion and                       *)
(* post_deferred_completions.                                              *)
Push(t) ==
  /\ posting[t] # <<>> /\ t \notin toSignal /\ mutex_ = None
  /\ op_queue' = op_queue \o posting[t]
  /\ posting' = [posting EXCEPT ![t] = <<>>]
  /\ Wake(t)
  /\ UNCHANGED <<pc, mutex_, stopped_, workVars, current, waiting, private_op_queue, unused, done,
                 edges>>

Stop(t) == Free(t) /\ StopAllThreads(pc)

(* The system makes a descriptor ready. *)
Edge(d) ==
  /\ d \notin edges
  /\ edges' = edges \cup {d}
  /\ UNCHANGED <<pc, queueVars, wakeVars, workVars, opVars>>

-----------------------------------------------------------------------------
TakeMutex(r) == StopForWant(r) \/ Lock(r) \/ Reacquire(r) \/ TaskCleanup(r)

RunStep(r) ==
  \/ TakeMutex(r)
  \/ Leave(r) \/ TakeTask(r) \/ TakeOp(r) \/ Wait(r)
  \/ Poll(r) \/ PerformIo(r) \/ Cleanup(r) \/ HandlerReturns(r)

CallStep(t) == Push(t) \/ Signal(t)

UserStep(t) ==
  \/ \E op \in Ops :
       Post(t, op) \/ PostContinuation(t, op) \/ \E d \in Descs : StartOp(t, op, d)
  \/ \E d \in Descs : CancelOps(t, d)
  \/ Stop(t)

Next ==
  \/ \E r \in Runners : Enter(r) \/ RunStep(r) \/ SpuriousWakeup(r)
  \/ \E t \in Threads : CallStep(t) \/ UserStep(t)
  \/ \E d \in Descs : Edge(d)

Spec == Init /\ [][Next]_vars

(* Threads run, handlers end, and one that waits for the mutex gets it in    *)
(* the end; the user need not do anything and nothing need become ready.    *)
FairSpec ==
  /\ Spec
  /\ \A r \in Runners : WF_vars(RunStep(r)) /\ SF_vars(TakeMutex(r))
  /\ \A t \in Threads : WF_vars(Signal(t)) /\ SF_vars(Push(t))

-----------------------------------------------------------------------------
PrivateOf(r) == Range(private_op_queue[r])
Queued == Range(op_queue)

TypeOK ==
  /\ pc \in [Runners -> {"out", "no_work", "lock", "loop", "asleep", "awake", "poll", "block",
                         "task_cleanup", "perform", "cleanup", "handler", "work_finished",
                         "returned"}]
  /\ op_queue \in Seq(Ops \cup Descs \cup {Task})
  /\ mutex_ \in Runners \cup {None}
  /\ stopped_ \in BOOLEAN /\ task_interrupted \in BOOLEAN /\ signalled \in BOOLEAN
  /\ interrupter \in BOOLEAN
  /\ outstanding_work \in Int
  /\ private_work \in [Runners -> Nat]
  /\ private_op_queue \in [Runners -> Seq(Ops \cup Descs)]
  /\ current \in [Runners -> Ops \cup Descs \cup {None}]
  /\ \A r \in Runners : /\ pc[r] = "perform" => current[r] \in Descs
                        /\ pc[r] = "handler" => current[r] \in Ops
  /\ posting \in [Threads -> Seq(Ops)]
  /\ toSignal \subseteq Threads
  /\ waiting \in [Descs -> Seq(Ops)]
  /\ edges \subseteq Descs
  /\ unused \subseteq Ops /\ done \subseteq Ops

(* The reactor is always either in the queue, once, or with one thread, so    *)
(* two threads never run it and its turn is never lost.                     *)
Polling(r) == pc[r] \in {"poll", "block", "task_cleanup"}
Pollers == {r \in Runners : Polling(r)}
TaskAt == {i \in DOMAIN op_queue : op_queue[i] = Task}

OneReactor ==
  \/ Pollers = {} /\ \E i \in DOMAIN op_queue : TaskAt = {i}
  \/ TaskAt = {} /\ \E r \in Runners : Pollers = {r}

(* The comment in epoll_reactor::run: by the time it runs, the operations of *)
(* the descriptors it returned before have left the queue, so each is in at  *)
(* most one place of one queue.                                            *)
DescriptorQueuedOnce ==
  \A r \in Runners : Polling(r) =>
    \A d \in Descs : d \notin Queued /\ \A s \in Runners \ {r} : d \notin PrivateOf(s)

(* Each operation that has started and not ended is counted once: in          *)
(* outstanding_work, or, if a handler under way has put it into its thread's   *)
(* private queue, in the private_work of that thread.  A descriptor's turn that *)
(* ends without an operation counts one for the work_finished that follows.  *)
Live == Ops \ (unused \cup done)
Apart == {op \in Ops : \E r \in Runners : pc[r] = "handler" /\ op \in PrivateOf(r)}

PrivateWorkOf(r) ==
  CASE pc[r] = "handler" -> Len(private_op_queue[r])
    [] pc[r] = "cleanup" -> 1
    [] OTHER -> 0

WorkCounted ==
  /\ outstanding_work = Cardinality(Live \ Apart)
  /\ \A r \in Runners : private_work[r] = PrivateWorkOf(r)

(* A thread that will look at the queue without waiting for anything. *)
Attentive(r) ==
  \/ pc[r] \in {"lock", "loop", "awake", "poll", "task_cleanup", "no_work", "work_finished"}
  \/ pc[r] = "block" /\ (interrupter \/ edges # {})

(* While something is queued, not every idle thread stays asleep: another is *)
(* on its way to the queue or about to be woken.                            *)
NoIdleWhileWork ==
  op_queue # <<>> /\ ~ stopped_ /\ (\E r \in Runners : pc[r] \in {"asleep", "block"})
    => (\E r \in Runners : Attentive(r)) \/ (toSignal # {} /\ Asleep # {})

(* run() gives up for want of work only when no operation is outstanding:    *)
(* none that waits, is queued, or is being run by another thread.           *)
StopsOnlyWithoutWork ==
  [][\A r \in Runners :
       pc'[r] \in {"no_work", "work_finished"} /\ pc[r] # pc'[r] =>
         Ops \ unused' = done' /\ op_queue \in Seq(Descs \cup {Task})]_vars

Phase(op) ==
  CASE op \in unused -> "idle"
    [] op \in done -> "done"
    [] \E r \in Runners : current[r] = op -> "called"
    [] \E d \in Descs : op \in Range(waiting[d]) -> "waiting"
    [] OTHER -> "ready"

Abstract == INSTANCE IoContext WITH
  phase <- [op \in Ops |-> Phase(op)],
  in_run <- {r \in Runners : pc[r] \notin {"out", "no_work", "returned"}},
  calling <- [r \in Runners |-> IF pc[r] = "handler" THEN current[r] ELSE None],
  stopped <- stopped_

(* The scheduler implements the promise of an io_context. *)
KeepsPromise == Abstract!FairSpec
=============================================================================
