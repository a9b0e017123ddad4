------------------------------ MODULE FifoQueue ------------------------------
(***************************************************************************)
(* What a user of ThreadSafeQueue<T> may rely on, with the mutex and the   *)
(* condition variable abstracted away: a FIFO channel whose elements are   *)
(* handed out once each, in the order in which they were put in, and which *)
(* does not leave a thread waiting while it holds an element.              *)
(***************************************************************************)
EXTENDS Sequences

CONSTANTS Threads,   (* the threads that share the queue                    *)
          Values     (* the elements, T                                     *)

VARIABLES queue,     (* the elements put in and not yet handed out          *)
          waiting,   (* the threads inside wait_and_pop with nothing yet    *)
          taken      (* every element handed out, in the order handed out   *)

vars == <<queue, waiting, taken>>

Init == queue = <<>> /\ waiting = {} /\ taken = <<>>

Put(v) ==
  /\ queue' = Append(queue, v)
  /\ UNCHANGED <<waiting, taken>>

(* A thread asks for an element and waits until it gets one. *)
Wait(t) ==
  /\ t \notin waiting
  /\ waiting' = waiting \cup {t}
  /\ UNCHANGED <<queue, taken>>

HandOut ==
  /\ queue # <<>>
  /\ taken' = Append(taken, Head(queue))
  /\ queue' = Tail(queue)

Take(t) ==
  /\ t \in waiting
  /\ HandOut
  /\ waiting' = waiting \ {t}

(* A thread that saw the queue non-empty takes the front without waiting. *)
Drain == HandOut /\ UNCHANGED waiting

Next ==
  \/ \E v \in Values : Put(v)
  \/ \E t \in Threads : Wait(t) \/ Take(t)
  \/ Drain

(* Some waiting thread is served as long as there is something to serve. *)
Serves == \E t \in Threads : Take(t)

Spec == Init /\ [][Next]_vars /\ WF_vars(Serves)
=============================================================================
