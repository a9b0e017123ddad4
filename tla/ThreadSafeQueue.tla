--------------------------- MODULE ThreadSafeQueue ---------------------------
(***************************************************************************)
(* ThreadSafeQueue<T> (ThreadSafeQueue.hpp): a std::queue behind one mutex *)
(* with a condition variable.  Every method is a critical section of mtx;  *)
(* acquiring mtx is a step, so is each access to q inside the section, and *)
(* the lock_guard's release belongs to the section's last access.          *)
(*                                                                         *)
(* Three kinds of threads use a queue in this program: Producers call      *)
(* push, Consumers call wait_and_pop (global_message_queue_), and a        *)
(* Drainer calls empty, front and pop one after the other, which are three *)
(* critical sections (send_queue in SocketHandler::doAsyncWrite).  The code *)
(* has queues of the one use and of the other; here the use may also change, *)
(* while nobody is inside a method of the other.                            *)
(***************************************************************************)
EXTENDS Naturals, Sequences, FiniteSets

CONSTANTS Producers, Consumers, Drainers,
          Values,     (* the elements                                       *)
          None,       (* the holder of a free mutex, no element             *)
          MaxPushes   (* bound: calls of push in one behaviour              *)

Threads == Producers \cup Consumers \cup Drainers

(* Two threads never drain one queue: doAsyncWrite runs under Connection::mtx. *)
ASSUME DrainerAlone == \A d, e \in Drainers : d = e

ASSUME ThreadsAreDistinct ==
  /\ IsFiniteSet(Threads)
  /\ Producers \cap Consumers = {}
  /\ Producers \cap Drainers = {}
  /\ Consumers \cap Drainers = {}
  /\ None \notin Threads \cup Values

VARIABLES q,       (* std::queue<T> q                                       *)
          mtx,     (* the thread that holds std::mutex mtx, or None         *)
          pc,      (* where each thread is                                  *)
          local,   (* each thread's argument of push, or what it read       *)
          pushed,  (* history: every element pushed, in order               *)
          taken    (* history: every element handed out, in order           *)

vars == <<q, mtx, pc, local, pushed, taken>>

Init ==
  /\ q = <<>>
  /\ mtx = None
  /\ pc = [t \in Threads |-> "idle"]
  /\ local = [t \in Threads |-> None]
  /\ pushed = <<>>
  /\ taken = <<>>

(* Where a thread is once it holds the mutex it is waiting for. *)
AfterLock(p) ==
  CASE p = "push_lock"  -> "push_body"
    [] p = "wait_lock"  -> "wait_check"
    [] p = "empty_lock" -> "empty_read"
    [] p = "front_lock" -> "front_read"
    [] p = "pop_lock"   -> "pop_body"

LockPoints == {"push_lock", "wait_lock", "empty_lock", "front_lock", "pop_lock"}

Asleep == {c \in Consumers : pc[c] = "asleep"}

(* The same without the lock_guard: the mutex is not waited for. *)
AcquireUnguarded(t) ==
  /\ pc[t] \in LockPoints
  /\ mtx' = t
  /\ pc' = [pc EXCEPT ![t] = AfterLock(@)]
  /\ UNCHANGED <<q, local, pushed, taken>>

Acquire(t) ==
  /\ pc[t] \in LockPoints
  /\ mtx = None
  /\ mtx' = t
  /\ pc' = [pc EXCEPT ![t] = AfterLock(@)]
  /\ UNCHANGED <<q, local, pushed, taken>>

(******************************* void push(v) ******************************)
(* A push whose argument was moved from before it was copied into the queue. *)
CallPushMovedFrom(t, v) ==
  /\ pc[t] = "idle"
  /\ Len(pushed) + Cardinality({p \in Producers : pc[p] # "idle"}) < MaxPushes
  /\ pc' = [pc EXCEPT ![t] = "push_lock"]
  /\ UNCHANGED <<q, mtx, local, pushed, taken>>

CallPush(t, v) ==
  /\ pc[t] = "idle"
  /\ Len(pushed) + Cardinality({p \in Producers : pc[p] # "idle"}) < MaxPushes
  /\ pc' = [pc EXCEPT ![t] = "push_lock"]
  /\ local' = [local EXCEPT ![t] = v]
  /\ UNCHANGED <<q, mtx, pushed, taken>>

(* A push that notifies only when it finds the queue empty. *)
NotifyIfWasEmpty(p) ==
  \/ (Asleep = {} \/ q # <<>>) /\ pc' = p
  \/ q = <<>> /\ \E c \in Asleep : pc' = [p EXCEPT ![c] = "wait_lock"]

(* cv.notify_one(): one sleeper, if there is one, contends for mtx again. *)
NotifyOne(p) ==
  \/ Asleep = {} /\ pc' = p
  \/ \E c \in Asleep : pc' = [p EXCEPT ![c] = "wait_lock"]

PushBody(t) ==
  /\ pc[t] = "push_body"
  /\ q' = Append(q, local[t])
  /\ pushed' = Append(pushed, local[t])
  /\ NotifyOne([pc EXCEPT ![t] = "idle"])
  /\ mtx' = None
  /\ UNCHANGED <<local, taken>>

(**************************** wait_and_pop(out) ****************************)
CallWaitAndPop(t) ==
  /\ pc[t] = "idle" /\ \A d \in Drainers : pc[d] = "idle"
  /\ pc' = [pc EXCEPT ![t] = "wait_lock"]
  /\ UNCHANGED <<q, mtx, local, pushed, taken>>

(* The predicate of cv.wait, evaluated with mtx held: to sleep is to release *)
(* mtx and to join the sleepers in one step.                                 *)
WaitCheck(t) ==
  /\ pc[t] = "wait_check"
  /\ \/ /\ q = <<>>
        /\ pc' = [pc EXCEPT ![t] = "asleep"]
        /\ mtx' = None
     \/ /\ q # <<>>
        /\ pc' = [pc EXCEPT ![t] = "take_front"]
        /\ UNCHANGED mtx
  /\ UNCHANGED <<q, local, pushed, taken>>

SpuriousWakeup(t) ==
  /\ pc[t] = "asleep"
  /\ pc' = [pc EXCEPT ![t] = "wait_lock"]
  /\ UNCHANGED <<q, mtx, local, pushed, taken>>

(* out = std::move(q.front()): the moved-from element stays in q until pop. *)
TakeFront(t) ==
  /\ pc[t] = "take_front"
  /\ local' = [local EXCEPT ![t] = Head(q)]
  /\ taken' = Append(taken, Head(q))
  /\ pc' = [pc EXCEPT ![t] = "take_pop"]
  /\ UNCHANGED <<q, mtx, pushed>>

TakePop(t) ==
  /\ pc[t] = "take_pop"
  /\ q' = Tail(q)
  /\ mtx' = None
  /\ pc' = [pc EXCEPT ![t] = "idle"]
  /\ UNCHANGED <<local, pushed, taken>>

(************* if (!empty()) { data = front(); pop(); }, three calls *******)
CallEmpty(t) ==
  /\ pc[t] = "idle" /\ \A c \in Consumers : pc[c] = "idle"
  /\ pc' = [pc EXCEPT ![t] = "empty_lock"]
  /\ UNCHANGED <<q, mtx, local, pushed, taken>>

(* The same with the result of empty() ignored. *)
EmptyIgnored(t) ==
  /\ pc[t] = "empty_read"
  /\ pc' = [pc EXCEPT ![t] = "front_lock"]
  /\ mtx' = None
  /\ UNCHANGED <<q, local, pushed, taken>>

EmptyRead(t) ==
  /\ pc[t] = "empty_read"
  /\ pc' = [pc EXCEPT ![t] = IF q = <<>> THEN "idle" ELSE "front_lock"]
  /\ mtx' = None
  /\ UNCHANGED <<q, local, pushed, taken>>

FrontRead(t) ==
  /\ pc[t] = "front_read"
  /\ local' = [local EXCEPT ![t] = Head(q)]
  /\ mtx' = None
  /\ pc' = [pc EXCEPT ![t] = "pop_lock"]
  /\ UNCHANGED <<q, pushed, taken>>

PopBody(t) ==
  /\ pc[t] = "pop_body"
  /\ q' = Tail(q)
  /\ taken' = Append(taken, local[t])
  /\ mtx' = None
  /\ pc' = [pc EXCEPT ![t] = "idle"]
  /\ UNCHANGED <<local, pushed>>

-----------------------------------------------------------------------------
(* What a thread does once it has called a method, until it returns. *)
Step(t) ==
  \/ Acquire(t)
  \/ PushBody(t)
  \/ WaitCheck(t) \/ TakeFront(t) \/ TakePop(t)
  \/ EmptyRead(t) \/ FrontRead(t) \/ PopBody(t)

Call ==
  \/ \E t \in Producers, v \in Values : CallPush(t, v)
  \/ \E t \in Consumers : CallWaitAndPop(t)
  \/ \E t \in Drainers : CallEmpty(t)

Next ==
  \/ Call
  \/ \E t \in Threads : Step(t)
  \/ \E t \in Consumers : SpuriousWakeup(t)

Spec == Init /\ [][Next]_vars

(* A thread that has called a method and can run does run; nothing obliges *)
(* anybody to call a method, and spurious wakeups need not happen.         *)
FairSpec == Spec /\ \A t \in Threads : WF_vars(Step(t))

-----------------------------------------------------------------------------
(* Where a thread holds mtx. *)
Inside == {"push_body", "wait_check", "take_front", "take_pop",
           "empty_read", "front_read", "pop_body"}

(* The threads inside wait_and_pop that have no element yet. *)
Waiting == {c \in Consumers :
              pc[c] \in {"wait_lock", "wait_check", "asleep", "take_front"}}

(* The elements nobody has been given: wait_and_pop gives the front away one *)
(* statement before it removes it.                                          *)
Remaining == IF \E c \in Consumers : pc[c] = "take_pop" THEN Tail(q) ELSE q

TypeOK ==
  /\ q \in Seq(Values)
  /\ mtx \in Threads \cup {None}
  /\ pc \in [Threads -> LockPoints \cup Inside \cup {"idle", "asleep"}]
  /\ local \in [Threads -> Values \cup {None}]
  /\ pushed \in Seq(Values)
  /\ taken \in Seq(Values)

(* No method reads or removes the front of an empty std::queue, which is    *)
(* undefined: not after cv.wait has returned, nor in front() and pop() long  *)
(* after empty() has released the mutex.                                     *)
FrontExists ==
  \A t \in Threads :
    pc[t] \in {"take_front", "take_pop", "front_lock", "front_read",
              "pop_lock", "pop_body"} => q # <<>>

(* The inductive strengthening: each thread stays in the methods of its    *)
(* role, nobody drains while somebody waits, exactly the thread inside a    *)
(* critical section holds mtx, push still has its argument, and what        *)
(* front() returned is still the front at pop().                            *)
PcInRole ==
  /\ \A t \in Producers : pc[t] \in {"idle", "push_lock", "push_body"}
  /\ \A t \in Consumers : pc[t] \in {"idle", "wait_lock", "wait_check", "asleep",
                                    "take_front", "take_pop"}
  /\ \A t \in Drainers : pc[t] \in {"idle", "empty_lock", "empty_read", "front_lock",
                                   "front_read", "pop_lock", "pop_body"}

MutexHeld == \A t \in Threads : pc[t] \in Inside <=> mtx = t

OneUse == \A d \in Drainers, c \in Consumers : pc[d] = "idle" \/ pc[c] = "idle"

ArgumentsKept ==
  /\ \A t \in Producers : pc[t] \in {"push_lock", "push_body"} => local[t] \in Values
  /\ \A t \in Drainers : pc[t] \in {"pop_lock", "pop_body"} => local[t] = Head(q)

Discipline ==
  TypeOK /\ PcInRole /\ MutexHeld /\ ArgumentsKept /\ FrontExists

(* The elements handed out are those pushed, once each and in push order,   *)
(* whichever threads took them: taken followed by what remains is pushed.   *)
FifoOnce == pushed = taken \o Remaining

(* No lost wakeup: while a thread sleeps in cv.wait, every element that     *)
(* nobody has been given is matched by a thread that is awake inside         *)
(* wait_and_pop and will look at the queue before it sleeps.                 *)
NoLostWakeup ==
  Asleep # {} => Len(Remaining) <= Cardinality(Waiting \ Asleep)

(* The queue keeps FifoQueue's promise: every step of it is a step of the   *)
(* abstract queue, and no waiting thread is passed over for ever.           *)
Promise == INSTANCE FifoQueue WITH queue <- Remaining, waiting <- Waiting
KeepsPromise == Promise!Spec
=============================================================================
