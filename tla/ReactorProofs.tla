---------------------------- MODULE ReactorProofs ----------------------------
(***************************************************************************)
(* Proofs about Reactor, for any number of runners, users and operations:    *)
(* type correctness with the discipline of the mutex, completion in order,    *)
(* that a close leaves nothing behind, and that no edge is missed.          *)
(*                                                                         *)
(* The last needs a stronger invariant.  Who wants an edge (Wanting) is not   *)
(* only who waits in a queue, but also who is about to, and who will because  *)
(* the attempt is ruled out.  EdgeAwaited says that what they want is noticed  *)
(* once it is there; RoomAwaited that the kernel, which reports room only     *)
(* after a write has missed it, owes an edge while there is none.            *)
(***************************************************************************)
EXTENDS Reactor, SequenceTheorems, TLAPS

Wanting(t) ==
  \/ op_queue[t] # <<>> \/ ~ try_speculative[t]
  \/ \E u \in Users : call[u] # None /\ call[u].type = t

(* Noticed, not counting what epoll_wait would return. *)
Visiting(t) ==
  \/ enqueued /\ t \in task_result
  \/ \E r \in Runners : t \in events[r] /\ (pc[r] \in {"polled", "taken", t} \/ pc[r] = "write")
  \/ \E u \in Users : /\ call[u] # None /\ call[u].step = "modify"
                      /\ t = "write" => epollout \/ call[u].type = "write"

Promised(t) == armed \/ Visiting(t) \/ (t = "write" /\ ~ epollout)

EdgeAwaited ==
  \A t \in Types :
    Wanting(t) /\ Ready(t) /\ ~ spent[t] /\ socket # "closed" => Promised(t)

RoomAwaited ==
  Wanting("write") /\ ~ ready["write"] /\ ~ over["write"] /\ socket # "closed" =>
    nospace \/ Visiting("write")

OutRegistered ==
  /\ op_queue["write"] # <<>> => epollout
  /\ \A u \in Users :
       call[u] # None /\ call[u].step = "queue" /\ call[u].type = "write" => epollout

OnePolls ==
  \A r \in Runners : pc[r] = "polled" =>
    ~ enqueued /\ \A s \in Runners : pc[s] = "polled" => s = r

-----------------------------------------------------------------------------
LEMMA TypesAre ==
  /\ "read" \in Types /\ "write" \in Types
  /\ \A t \in Types : t = "read" \/ t = "write"
  /\ "idle" \notin Types /\ "polled" \notin Types /\ "taken" \notin Types
  BY DEF Types

USE Distinct, TypesAre

(* Functions with Boolean values. *)
LEMMA BoolExcept ==
  ASSUME NEW f \in [Types -> BOOLEAN], NEW t \in Types, NEW b \in BOOLEAN
  PROVE  /\ [f EXCEPT ![t] = b] \in [Types -> BOOLEAN]
         /\ [f EXCEPT ![t] = b][t] = b
         /\ \A x \in Types \ {t} : [f EXCEPT ![t] = b][x] = f[x]
  OBVIOUS

LEMMA TypeInit == Init => TypeOK
<1> SUFFICES ASSUME Init PROVE TypeOK
  OBVIOUS
<1>1. /\ op_queue \in [Types -> Seq(Ops)] /\ started \in [Types -> Seq(Ops)]
      /\ ended \in [Types -> Seq(Ops)]
  BY DEF Init, ForBoth
<1>2. /\ try_speculative \in [Types -> BOOLEAN] /\ over \in [Types -> BOOLEAN]
      /\ spent \in [Types -> BOOLEAN] /\ ready \in [Types -> BOOLEAN]
  BY DEF Init, ForBoth
<1>3. /\ armed \in BOOLEAN /\ epollout \in BOOLEAN /\ enqueued \in BOOLEAN /\ nospace \in BOOLEAN
      /\ socket \in {"open", "closing", "closed"} /\ task_result \subseteq Types
      /\ mutex_ = None
  BY <1>2 DEF Init
<1>4. /\ pc \in [Runners -> {"idle"}] /\ events \in [Runners -> SUBSET Types]
      /\ call \in [Users -> {None}]
  BY DEF Init
<1> QED BY <1>1, <1>2, <1>3, <1>4 DEF TypeOK

(* Effects of the parts of start_op and perform_io on types. *)
LEMMA PerformTyped ==
  ASSUME TypeOK, NEW t \in Types, NotDone(t) \/ Done(t) \/ Exhausted(t)
  PROVE  /\ ready' \in [Types -> BOOLEAN] /\ spent' \in [Types -> BOOLEAN] /\ nospace' \in BOOLEAN
         /\ \A x \in Types \ {t} : ready'[x] = ready[x] /\ spent'[x] = spent[x]
         /\ t = "read" => nospace' = nospace
         /\ nospace => nospace'
<1>1. /\ ready \in [Types -> BOOLEAN] /\ spent \in [Types -> BOOLEAN] /\ nospace \in BOOLEAN
  BY DEF TypeOK
<1>2. CASE NotDone(t)
  BY <1>1, <1>2 DEF NotDone
<1>3. CASE Done(t)
  <2>1. PICK b \in BOOLEAN : ready' = [ready EXCEPT ![t] = b]
    BY <1>3 DEF Done
  <2>2. UNCHANGED <<nospace, spent>>
    BY <1>3 DEF Done
  <2> QED BY <1>1, <2>1, <2>2, BoolExcept
<1>4. CASE Exhausted(t)
  <2>1. CASE spent' = [spent EXCEPT ![t] = TRUE] /\ UNCHANGED <<ready, nospace>>
    BY <1>1, <2>1, BoolExcept
  <2>2. CASE /\ t = "write" /\ ready' = [ready EXCEPT ![t] = FALSE] /\ nospace' = TRUE
             /\ UNCHANGED spent
    BY <1>1, <2>2, BoolExcept
  <2> QED BY <1>4, <2>1, <2>2 DEF Exhausted
<1> QED BY <1>2, <1>3, <1>4

LEMMA AppendTyped ==
  ASSUME NEW f \in [Types -> Seq(Ops)], NEW t \in Types, NEW op \in Ops
  PROVE  [f EXCEPT ![t] = Append(@, op)] \in [Types -> Seq(Ops)]
  OBVIOUS

LEMMA PopTyped ==
  ASSUME NEW f \in [Types -> Seq(Ops)], NEW t \in Types, f[t] # <<>>
  PROVE  /\ Head(f[t]) \in Ops /\ Tail(f[t]) \in Seq(Ops)
         /\ f[t] = <<Head(f[t])>> \o Tail(f[t])
         /\ [f EXCEPT ![t] = Tail(@)] \in [Types -> Seq(Ops)]
<1>1. f[t] \in Seq(Ops)
  OBVIOUS
<1>2. Head(f[t]) \in Ops /\ Tail(f[t]) \in Seq(Ops)
  BY <1>1, HeadTailProperties
<1>3. f[t] = <<Head(f[t])>> \o Tail(f[t])
  BY <1>1
<1> QED BY <1>2, <1>3

-----------------------------------------------------------------------------
(* Type correctness.  Kernel's steps. *)
LEMMA TypeKernel == TypeOK /\ KernelStep => TypeOK'
<1> SUFFICES ASSUME TypeOK, KernelStep PROVE TypeOK'
  OBVIOUS
<1>1. UNCHANGED <<threadVars, descriptorVars, queueVars, historyVars, socket>>
  BY DEF KernelStep, BecomesReady, Ends, Rearm
<1>2. ready' \in [Types -> BOOLEAN] /\ over' \in [Types -> BOOLEAN]
  <2>0. ready \in [Types -> BOOLEAN] /\ over \in [Types -> BOOLEAN]
    BY DEF TypeOK
  <2>1. ready' = ready \/ \E t \in Types : ready' = [ready EXCEPT ![t] = TRUE]
    BY DEF KernelStep, BecomesReady, Ends, Rearm
  <2>2. over' = over \/ \E ts : over' = [t \in Types |-> over[t] \/ t \in ts]
    BY DEF KernelStep, BecomesReady, Ends, Rearm
  <2>3. \A ts : [t \in Types |-> over[t] \/ t \in ts] \in [Types -> BOOLEAN]
    OBVIOUS
  <2>4. ready' \in [Types -> BOOLEAN]
    <3>1. CASE ready' = ready
      BY <2>0, <3>1
    <3>2. ASSUME NEW t \in Types, ready' = [ready EXCEPT ![t] = TRUE]
          PROVE  ready' \in [Types -> BOOLEAN]
      BY <2>0, <3>2
    <3> QED BY <2>1, <3>1, <3>2
  <2> QED BY <2>0, <2>2, <2>3, <2>4
<1>3. nospace' \in BOOLEAN /\ armed' \in BOOLEAN
  BY DEF TypeOK, KernelStep, BecomesReady, Ends, Rearm
<1> QED BY <1>1, <1>2, <1>3 DEF TypeOK, threadVars, descriptorVars, queueVars, historyVars

LEMMA GoOnTyped ==
  ASSUME TypeOK, NEW u \in Users, NEW op \in Ops, NEW t \in Types,
         NEW step, step = "modify" \/ step = "queue", mutex_ = None, GoOn(u, op, t, step)
  PROVE  /\ call' \in [Users -> Calls \cup {None}] /\ mutex_' = u
         /\ call'[u] = [op |-> op, type |-> t, step |-> step]
         /\ \A v \in Users : call'[v] # None <=> v = u
         /\ \A v \in Users \ {u} : call'[v] = call[v]
         /\ \A v \in Users : call[v] = None
<1>1. \A v \in Users : call[v] = None
  BY DEF TypeOK
<1>2. [op |-> op, type |-> t, step |-> step] \in Calls
  BY DEF Calls
<1>3. call' = [call EXCEPT ![u] = [op |-> op, type |-> t, step |-> step]] /\ mutex_' = u
  BY DEF GoOn
<1>4. call \in [Users -> Calls \cup {None}]
  BY DEF TypeOK
<1> QED BY <1>1, <1>2, <1>3, <1>4

(* What Enter says, and what Speculate and Start leave alone. *)
LEMMA EnterTyped ==
  ASSUME TypeOK, NEW u \in Users, NEW op \in Ops, NEW t \in Types, Enter(u, op, t)
  PROVE  /\ mutex_ = None /\ socket = "open" /\ call[u] = None
         /\ started' \in [Types -> Seq(Ops)]
         /\ \A r \in Runners : pc[r] \notin Types
         /\ \A v \in Users : call[v] = None
<1>1. started \in [Types -> Seq(Ops)]
  BY DEF TypeOK
<1>2. started' \in [Types -> Seq(Ops)]
  BY <1>1, AppendTyped DEF Enter
<1>3. mutex_ = None /\ socket = "open" /\ call[u] = None
  BY DEF Enter
<1> QED BY <1>2, <1>3 DEF TypeOK

LEMMA TypeStart ==
  ASSUME TypeOK, NEW u \in Users, NEW op \in Ops, NEW t \in Types,
         Speculate(u, op, t) \/ \E b \in BOOLEAN : Start(u, op, t, b)
  PROVE  TypeOK'
<1>1. Enter(u, op, t)
  BY DEF Speculate, Start
<1>2. /\ mutex_ = None /\ started' \in [Types -> Seq(Ops)]
      /\ \A r \in Runners : pc[r] \notin Types
      /\ \A v \in Users : call[v] = None
  BY <1>1, EnterTyped
<1>3. UNCHANGED <<pc, events, op_queue, epollout, queueVars, over, armed, socket>>
  BY DEF Speculate, Start, descriptorVars, kernelVars
<1>4. /\ ready' \in [Types -> BOOLEAN] /\ spent' \in [Types -> BOOLEAN] /\ nospace' \in BOOLEAN
  <2>1. CASE Speculate(u, op, t)
    BY <2>1, PerformTyped DEF Speculate
  <2>2. CASE \E b \in BOOLEAN : Start(u, op, t, b)
    BY <2>2 DEF Start, kernelVars, TypeOK
  <2> QED BY <2>1, <2>2
<1>5. try_speculative' \in [Types -> BOOLEAN]
  <2>1. try_speculative \in [Types -> BOOLEAN]
    BY DEF TypeOK
  <2>2. CASE Speculate(u, op, t)
    <3>1. \/ UNCHANGED try_speculative
          \/ try_speculative' = [try_speculative EXCEPT ![t] = FALSE]
      BY <2>2 DEF Speculate
    <3>2. [try_speculative EXCEPT ![t] = FALSE] \in [Types -> BOOLEAN]
      BY <2>1, BoolExcept
    <3> QED BY <2>1, <3>1, <3>2
  <2>3. CASE \E b \in BOOLEAN : Start(u, op, t, b)
    BY <2>1, <2>3 DEF Start, descriptorVars
  <2> QED BY <2>2, <2>3
<1>6. ended' \in [Types -> Seq(Ops)]
  <2>1. ended' = ended \/ End(t, op)
    BY DEF Speculate, Start
  <2>2. ended \in [Types -> Seq(Ops)]
    BY DEF TypeOK
  <2>3. CASE End(t, op)
    BY <2>2, <2>3, AppendTyped DEF End
  <2> QED BY <2>1, <2>2, <2>3
<1>7. (\E step \in {"modify", "queue"} : GoOn(u, op, t, step)) \/ UNCHANGED <<call, mutex_>>
  <2>1. \A c : (IF c THEN "modify" ELSE "queue") \in {"modify", "queue"}
    OBVIOUS
  <2> QED BY <2>1 DEF Speculate, Start
<1>8. CASE UNCHANGED <<call, mutex_>>
  BY <1>2, <1>3, <1>4, <1>5, <1>6, <1>8 DEF TypeOK, queueVars
<1>9. CASE \E step \in {"modify", "queue"} : GoOn(u, op, t, step)
  <2>1. PICK step \in {"modify", "queue"} : GoOn(u, op, t, step)
    BY <1>9
  <2>2. step = "modify" \/ step = "queue"
    OBVIOUS
  <2>3. /\ call' \in [Users -> Calls \cup {None}] /\ mutex_' = u
        /\ \A v \in Users : call'[v] # None <=> v = u
    BY <1>2, <2>1, <2>2, GoOnTyped
  <2> QED BY <1>2, <1>3, <1>4, <1>5, <1>6, <2>3, SMTT(30) DEF TypeOK, queueVars
<1> QED BY <1>7, <1>8, <1>9

(* A user's other steps. *)
LEMMA CallEffects ==
  ASSUME TypeOK, NEW u \in Users, Modify(u) \/ QueueOp(u)
  PROVE  /\ call[u] \in Calls /\ mutex_ = u
         /\ \A v \in Users \ {u} : call[v] = None /\ call'[v] = None
         /\ \A r \in Runners : pc[r] \notin Types
         /\ Modify(u) => call'[u] = [op |-> call[u].op, type |-> call[u].type, step |-> "queue"]
         /\ QueueOp(u) => call'[u] = None
<1>1. call[u] # None /\ call \in [Users -> Calls \cup {None}]
  BY DEF Modify, QueueOp, TypeOK
<1>2. call[u] \in Calls /\ mutex_ = u
  BY <1>1 DEF TypeOK
<1>3. /\ \A v \in Users \ {u} : call[v] = None /\ call'[v] = call[v]
      /\ \A r \in Runners : pc[r] \notin Types
  BY <1>1, <1>2 DEF TypeOK, Modify, QueueOp
<1>4. ASSUME Modify(u)
      PROVE  call'[u] = [op |-> call[u].op, type |-> call[u].type, step |-> "queue"]
  <2>1. call'[u] = [call[u] EXCEPT !.step = "queue"]
    BY <1>1, <1>4 DEF Modify
  <2> QED BY <1>2, <2>1 DEF Calls
<1>5. QueueOp(u) => call'[u] = None
  BY <1>1 DEF QueueOp
<1> QED BY <1>2, <1>3, <1>4, <1>5

LEMMA TypeCall == ASSUME TypeOK, NEW u \in Users, CallStep(u) PROVE TypeOK'
<1>0. Modify(u) \/ QueueOp(u)
  BY DEF CallStep
<1>1. /\ call[u] \in Calls /\ mutex_ = u
      /\ \A v \in Users \ {u} : call[v] = None /\ call'[v] = None
      /\ \A r \in Runners : pc[r] \notin Types
      /\ Modify(u) => call'[u] = [op |-> call[u].op, type |-> call[u].type, step |-> "queue"]
      /\ QueueOp(u) => call'[u] = None
  BY <1>0, CallEffects
<1>2. call[u].op \in Ops /\ call[u].type \in Types
  BY <1>1 DEF Calls
<1>3. call' \in [Users -> Calls \cup {None}]
  <2>1. \A v \in Users : call'[v] \in Calls \cup {None}
    BY <1>0, <1>1, <1>2 DEF Calls
  <2>2. DOMAIN call' = Users /\ call' = [v \in DOMAIN call' |-> call'[v]]
    BY <1>0 DEF TypeOK, Modify, QueueOp
  <2> QED BY <2>1, <2>2
<1>4. UNCHANGED <<pc, events, try_speculative, queueVars, ready, over, socket, historyVars>>
  BY <1>0 DEF Modify, QueueOp, kernelVars
<1>5. epollout' \in BOOLEAN /\ nospace' \in BOOLEAN /\ armed' \in BOOLEAN
  BY <1>0 DEF Modify, QueueOp, kernelVars, TypeOK
<1>6. op_queue' \in [Types -> Seq(Ops)]
  <2>1. op_queue \in [Types -> Seq(Ops)]
    BY DEF TypeOK
  <2>2. CASE Modify(u)
    BY <2>1, <2>2 DEF Modify
  <2>3. CASE QueueOp(u)
    BY <1>2, <2>1, <2>3, AppendTyped DEF QueueOp
  <2> QED BY <1>0, <2>2, <2>3
<1>7. /\ mutex_' \in {u, None} /\ \A v \in Users : call'[v] # None <=> mutex_' = v
      /\ \A r \in Runners : mutex_' # r
  <2>1. CASE Modify(u)
    <3>1. call'[u] \in Calls /\ mutex_' = u
      BY <1>1, <1>2, <2>1 DEF Modify, Calls
    <3> QED BY <1>1, <3>1
  <2>2. CASE QueueOp(u)
    BY <1>1, <2>2 DEF QueueOp
  <2> QED BY <1>0, <2>1, <2>2
<1> QED BY <1>1, <1>3, <1>4, <1>5, <1>6, <1>7 DEF TypeOK, queueVars, historyVars

LEMMA TypeCancel ==
  ASSUME TypeOK, (\E u \in Users : CancelOps(u)) \/ Deregister
  PROVE  TypeOK'
<1>1. UNCHANGED <<threadVars, try_speculative, epollout, queueVars, ready, over, nospace, armed,
                  started, spent>>
  BY DEF CancelOps, Deregister, kernelVars
<1>2. AbortAll /\ socket' \in {socket, "closing"}
  BY DEF CancelOps, Deregister, kernelVars
<1>3. op_queue' \in [Types -> Seq(Ops)]
  BY <1>2 DEF AbortAll, ForBoth
<1>4. ended' \in [Types -> Seq(Ops)]
  <2>1. \A t \in Types : ended[t] \o op_queue[t] \in Seq(Ops)
    BY ConcatProperties DEF TypeOK
  <2> QED BY <1>2, <2>1 DEF AbortAll
<1> QED BY <1>1, <1>2, <1>3, <1>4 DEF TypeOK, threadVars, queueVars

LEMMA TypeClose == TypeOK /\ (CloseSocket \/ Register) => TypeOK'
<1> SUFFICES ASSUME TypeOK, CloseSocket \/ Register PROVE TypeOK'
  OBVIOUS
<1>1. UNCHANGED <<threadVars, op_queue, queueVars, started, ended>>
  BY DEF CloseSocket, Register, descriptorVars, historyVars
<1>2. /\ ready' \in [Types -> BOOLEAN] /\ over' \in [Types -> BOOLEAN]
      /\ spent' \in [Types -> BOOLEAN] /\ try_speculative' \in [Types -> BOOLEAN]
  <2>1. \A b \in BOOLEAN : ForBoth(b) \in [Types -> BOOLEAN]
    BY DEF ForBoth
  <2>2. CASE CloseSocket
    BY <2>2 DEF CloseSocket, descriptorVars, historyVars, TypeOK
  <2>3. CASE Register
    BY <2>1, <2>3 DEF Register
  <2> QED BY <2>2, <2>3
<1>3. /\ nospace' \in BOOLEAN /\ armed' \in BOOLEAN /\ epollout' \in BOOLEAN
      /\ socket' \in {"open", "closing", "closed"}
  <2>1. CASE CloseSocket
    BY <2>1 DEF CloseSocket, descriptorVars, TypeOK
  <2>2. CASE Register
    <3>1. /\ ready' \in [Types -> BOOLEAN] /\ armed' = ready'["read"]
          /\ nospace' = FALSE /\ epollout' = FALSE /\ socket' = "open"
      BY <2>2 DEF Register
    <3>2. armed' \in BOOLEAN
      BY <3>1 DEF Types
    <3> QED BY <3>1, <3>2
  <2> QED BY <2>1, <2>2
<1> QED BY <1>1, <1>2, <1>3 DEF TypeOK, threadVars, queueVars

-----------------------------------------------------------------------------
(* The runners. *)
LEMMA TypeReactor ==
  ASSUME TypeOK, NEW r \in Runners,
         EpollWait(r) \/ Dispatch(r) \/ Take(r) \/ LockDescriptor(r)
  PROVE  TypeOK'
<1>1. UNCHANGED <<call, descriptorVars, ready, over, socket, historyVars>>
  BY DEF EpollWait, Dispatch, Take, LockDescriptor, kernelVars
<1>2. Mask(epollout) \subseteq Types /\ task_result \subseteq Types
  BY DEF Mask, TypeOK
<1>3. /\ events' \in [Runners -> SUBSET Types] /\ task_result' \subseteq Types
      /\ nospace' \in BOOLEAN /\ armed' \in BOOLEAN /\ enqueued' \in BOOLEAN
  <2>1. CASE EpollWait(r)
    BY <1>2, <2>1 DEF EpollWait, queueVars, TypeOK
  <2>2. CASE Dispatch(r)
    BY <1>2, <2>2 DEF Dispatch, kernelVars, TypeOK
  <2>3. CASE Take(r)
    BY <1>2, <2>3 DEF Take, kernelVars, TypeOK
  <2>4. CASE LockDescriptor(r)
    BY <1>2, <2>4 DEF LockDescriptor, kernelVars, queueVars, TypeOK
  <2> QED BY <2>1, <2>2, <2>3, <2>4
<1>4. /\ pc' \in [Runners -> {"idle", "polled", "taken"} \cup Types]
      /\ \A s \in Runners : pc'[s] \in Types <=> mutex_' = s
      /\ mutex_' \in Runners \cup Users \cup {None}
      /\ \A u \in Users : call[u] # None <=> mutex_' = u
  <2>1. CASE LockDescriptor(r)
    BY <2>1 DEF LockDescriptor, TypeOK
  <2>2. CASE EpollWait(r) \/ Dispatch(r) \/ Take(r)
    <3>1. /\ pc[r] \notin Types /\ UNCHANGED mutex_
          /\ \E x \in {"idle", "polled", "taken"} : pc' = [pc EXCEPT ![r] = x]
      BY <2>2 DEF EpollWait, Dispatch, Take
    <3> QED BY <3>1 DEF TypeOK
  <2> QED BY <2>1, <2>2
<1> QED BY <1>1, <1>3, <1>4 DEF TypeOK, descriptorVars, historyVars

(* perform_io keeps the mutex until it has visited both types. *)
LEMMA NextTypeTyped ==
  ASSUME TypeOK, NEW r \in Runners, pc[r] \in Types,
         NextType(r) \/ UNCHANGED <<pc, events, mutex_>>
  PROVE  /\ pc' \in [Runners -> {"idle", "polled", "taken"} \cup Types]
         /\ events' \in [Runners -> SUBSET Types]
         /\ mutex_ = r /\ mutex_' \in {r, None}
         /\ \A s \in Runners : pc'[s] \in Types <=> mutex_' = s
         /\ \A s \in Runners \ {r} : pc'[s] = pc[s] /\ events'[s] = events[s]
         /\ \A u \in Users : call[u] = None
         /\ pc'[r] # "polled"
<1>1. /\ pc \in [Runners -> {"idle", "polled", "taken"} \cup Types]
      /\ events \in [Runners -> SUBSET Types]
      /\ mutex_ = r
      /\ \A s \in Runners : pc[s] \in Types <=> mutex_ = s
      /\ \A u \in Users : call[u] # None <=> mutex_ = u
  BY DEF TypeOK
<1>2. CASE UNCHANGED <<pc, events, mutex_>>
  BY <1>1, <1>2
<1>3. CASE pc' = [pc EXCEPT ![r] = "read"] /\ UNCHANGED <<events, mutex_>>
  BY <1>1, <1>3
<1>4. CASE pc' = [pc EXCEPT ![r] = "idle"] /\ events' = [events EXCEPT ![r] = {}] /\ mutex_' = None
  BY <1>1, <1>4
<1> QED BY <1>2, <1>3, <1>4 DEF NextType

LEMMA PerformEffects ==
  ASSUME TypeOK, NEW r \in Runners, SkipType(r) \/ PerformOp(r)
  PROVE  /\ pc[r] \in Types
         /\ NextType(r) \/ UNCHANGED <<pc, events, mutex_>>
         /\ UNCHANGED <<call, epollout, queueVars, over, armed, socket, started>>
  BY DEF SkipType, PerformOp, kernelVars, historyVars

LEMMA TypePerform ==
  ASSUME TypeOK, NEW r \in Runners, SkipType(r) \/ PerformOp(r)
  PROVE  TypeOK'
<1>1. /\ pc[r] \in Types
      /\ NextType(r) \/ UNCHANGED <<pc, events, mutex_>>
      /\ UNCHANGED <<call, epollout, queueVars, over, armed, socket, started>>
  BY PerformEffects
<1>2. /\ pc' \in [Runners -> {"idle", "polled", "taken"} \cup Types]
      /\ events' \in [Runners -> SUBSET Types]
      /\ mutex_ = r /\ mutex_' \in {r, None}
      /\ \A s \in Runners : pc'[s] \in Types <=> mutex_' = s
      /\ \A u \in Users : call[u] = None
  BY <1>1, NextTypeTyped
<1>3. /\ try_speculative' \in [Types -> BOOLEAN] /\ ready' \in [Types -> BOOLEAN]
      /\ spent' \in [Types -> BOOLEAN] /\ nospace' \in BOOLEAN
  <2>1. CASE SkipType(r)
    BY <2>1 DEF SkipType, kernelVars, historyVars, TypeOK
  <2>2. CASE PerformOp(r)
    <3>1. PICK t \in Types : NotDone(t) \/ Done(t) \/ Exhausted(t)
      BY <2>2 DEF PerformOp
    <3>2. try_speculative' \in [Types -> BOOLEAN]
      <4>1. try_speculative \in [Types -> BOOLEAN]
        BY DEF TypeOK
      <4>2. \E x \in Types, b \in BOOLEAN :
              try_speculative' = [try_speculative EXCEPT ![x] = b]
        BY <2>2 DEF PerformOp
      <4> QED BY <4>1, <4>2, BoolExcept
    <3> QED BY <3>1, <3>2, PerformTyped
  <2> QED BY <2>1, <2>2
<1>4. op_queue' \in [Types -> Seq(Ops)] /\ ended' \in [Types -> Seq(Ops)]
  <2>1. op_queue \in [Types -> Seq(Ops)] /\ ended \in [Types -> Seq(Ops)]
    BY DEF TypeOK
  <2>2. CASE UNCHANGED <<op_queue, ended>>
    BY <2>1, <2>2
  <2>3. CASE \E t \in Types : /\ op_queue[t] # <<>> /\ End(t, Head(op_queue[t]))
                              /\ op_queue' = [op_queue EXCEPT ![t] = Tail(@)]
    <3>1. PICK t \in Types : /\ op_queue[t] # <<>> /\ End(t, Head(op_queue[t]))
                             /\ op_queue' = [op_queue EXCEPT ![t] = Tail(@)]
      BY <2>3
    <3>2. Head(op_queue[t]) \in Ops /\ op_queue' \in [Types -> Seq(Ops)]
      BY <2>1, <3>1, PopTyped
    <3> QED BY <2>1, <3>1, <3>2, AppendTyped DEF End
  <2>4. CASE SkipType(r)
    BY <2>2, <2>4 DEF SkipType, historyVars
  <2>5. CASE PerformOp(r)
    BY <2>2, <2>3, <2>5 DEF PerformOp
  <2> QED BY <2>4, <2>5
<1> QED BY <1>1, <1>2, <1>3, <1>4, SMTT(30) DEF TypeOK, queueVars

LEMMA TypeNext == TypeOK /\ [Next]_vars => TypeOK'
<1> SUFFICES ASSUME TypeOK, [Next]_vars PROVE TypeOK'
  OBVIOUS
<1>1. CASE KernelStep
  BY <1>1, TypeKernel
<1>2. ASSUME NEW u \in Users, UserStep(u) \/ CallStep(u) PROVE TypeOK'
  BY <1>2, TypeStart, TypeCall, TypeCancel DEF UserStep
<1>3. ASSUME NEW r \in Runners, EpollWait(r) \/ Take(r) \/ LockDescriptor(r) \/ RunStep(r)
      PROVE  TypeOK'
  BY <1>3, TypeReactor, TypePerform DEF RunStep
<1>4. CASE Deregister \/ CloseSocket \/ Register
  BY <1>4, TypeCancel, TypeClose
<1>5. CASE UNCHANGED vars
  BY <1>5 DEF vars, threadVars, descriptorVars, queueVars, kernelVars, historyVars, TypeOK
<1> QED BY <1>1, <1>2, <1>3, <1>4, <1>5 DEF Next

(* The state of the reactor has its type, and whoever has the mutex is in     *)
(* perform_io or start_op.                                                *)
THEOREM TypeCorrect == Spec => []TypeOK
BY TypeInit, TypeNext, PTL DEF Spec

-----------------------------------------------------------------------------
(* Completion in order. *)
LEMMA SeqFacts ==
  ASSUME NEW a \in Seq(Ops), NEW b \in Seq(Ops)
  PROVE  a \o <<>> = a /\ a \o b \in Seq(Ops) /\ (a \o b) \o <<>> = a \o b
<1>1. a \o b \in Seq(Ops)
  OBVIOUS
<1> QED BY <1>1, ConcatEmptySeq

LEMMA AppendAfter ==
  \A a, b \in Seq(Ops), op \in Ops : Append(a \o b, op) = (a \o b) \o <<op>>
<1> SUFFICES ASSUME NEW a \in Seq(Ops), NEW b \in Seq(Ops), NEW op \in Ops
             PROVE  Append(a \o b, op) = (a \o b) \o <<op>>
  OBVIOUS
<1>1. a \o b \in Seq(Ops)
  OBVIOUS
<1> QED BY <1>1, AppendIsConcat

LEMMA AppendInner ==
  \A a, b \in Seq(Ops), op \in Ops :
    (a \o b) \o <<op>> = (a \o Append(b, op)) \o <<>>
<1> SUFFICES ASSUME NEW a \in Seq(Ops), NEW b \in Seq(Ops), NEW op \in Ops
             PROVE  (a \o b) \o <<op>> = (a \o Append(b, op)) \o <<>>
  OBVIOUS
<1>1. <<op>> \in Seq(Ops) /\ Append(b, op) \in Seq(Ops)
  OBVIOUS
<1>2. a \o Append(b, op) \in Seq(Ops)
  BY <1>1
<1>3. (a \o Append(b, op)) \o <<>> = a \o Append(b, op)
  BY <1>2, ConcatEmptySeq
<1>4. Append(b, op) = b \o <<op>>
  BY AppendIsConcat
<1>5. (a \o b) \o <<op>> = a \o (b \o <<op>>)
  BY <1>1, ConcatAssociative
<1> QED BY <1>3, <1>4, <1>5

LEMMA ConcatShift ==
  \A a, b \in Seq(Ops), op \in Ops : a \o (<<op>> \o b) = Append(a, op) \o b
<1> SUFFICES ASSUME NEW a \in Seq(Ops), NEW b \in Seq(Ops), NEW op \in Ops
             PROVE  a \o (<<op>> \o b) = Append(a, op) \o b
  OBVIOUS
<1>1. <<op>> \in Seq(Ops)
  OBVIOUS
<1>2. Append(a, op) = a \o <<op>>
  BY AppendIsConcat
<1>3. a \o (<<op>> \o b) = (a \o <<op>>) \o b
  BY <1>1, ConcatAssociative
<1> QED BY <1>2, <1>3

LEMMA StartingNone == mutex_ \notin Users => \A t \in Types : Starting(t) = <<>>
  BY DEF Starting

LEMMA OrderStart ==
  ASSUME TypeOK, CompletedInOrder, NEW u \in Users, NEW op \in Ops, NEW t \in Types,
         Speculate(u, op, t) \/ \E b \in BOOLEAN : Start(u, op, t, b)
  PROVE  CompletedInOrder'
<1>1. /\ op_queue \in [Types -> Seq(Ops)] /\ ended \in [Types -> Seq(Ops)]
      /\ started \in [Types -> Seq(Ops)]
  BY DEF TypeOK
<1>2. Enter(u, op, t) /\ UNCHANGED op_queue
  BY DEF Speculate, Start, descriptorVars
<1>3. /\ mutex_ = None /\ \A v \in Users : call[v] = None
      /\ started' = [started EXCEPT ![t] = Append(@, op)]
  BY <1>2, EnterTyped DEF Enter
<1>4. \A x \in Types : started[x] = ended[x] \o op_queue[x]
  <2>1. \A x \in Types : Starting(x) = <<>>
    BY <1>3, StartingNone
  <2>2. ASSUME NEW x \in Types PROVE started[x] = ended[x] \o op_queue[x]
    <3>1. ended[x] \in Seq(Ops) /\ op_queue[x] \in Seq(Ops)
      BY <1>1
    <3>2. started[x] = (ended[x] \o op_queue[x]) \o <<>>
      BY <2>1 DEF CompletedInOrder
    <3> QED BY <3>1, <3>2, SeqFacts
  <2> QED BY <2>2
<1>5. \/ /\ ended' = ended
         /\ \E step : (step = "modify" \/ step = "queue") /\ GoOn(u, op, t, step)
      \/ op_queue[t] = <<>> /\ End(t, op) /\ UNCHANGED <<call, mutex_>>
  BY DEF Speculate, Start
<1>6. CASE op_queue[t] = <<>> /\ End(t, op) /\ UNCHANGED <<call, mutex_>>
  <2>1. \A x \in Types : Starting(x)' = <<>>
    BY <1>3, <1>6 DEF Starting
  <2>2. ended' = [ended EXCEPT ![t] = Append(@, op)]
    BY <1>6 DEF End
  <2>3. ASSUME NEW x \in Types
        PROVE  started'[x] = ended'[x] \o op_queue'[x] \o Starting(x)'
    <3>1. ended[x] \in Seq(Ops) /\ op_queue[x] \in Seq(Ops) /\ ended'[x] \in Seq(Ops)
      BY <1>1, <2>2
    <3>2. ended'[x] \o op_queue'[x] \o Starting(x)' = ended'[x] \o op_queue[x]
      BY <1>2, <2>1, <3>1, SeqFacts
    <3>3. CASE x # t
      BY <1>1, <1>3, <1>4, <2>2, <3>2, <3>3
    <3>4. CASE x = t
      <4>1. started'[x] = Append(ended[x] \o op_queue[x], op) /\ ended'[x] = Append(ended[x], op)
        BY <1>1, <1>3, <1>4, <2>2, <3>4
      <4>2. op_queue[x] = <<>>
        BY <1>6, <3>4
      <4>3. started'[x] = Append(ended[x], op)
        BY <3>1, <4>1, <4>2, SeqFacts
      <4>4. Append(ended[x], op) \o <<>> = Append(ended[x], op)
        BY <3>1, <4>1, SeqFacts
      <4> QED BY <3>2, <4>1, <4>2, <4>3, <4>4
    <3> QED BY <3>3, <3>4
  <2> QED BY <2>3 DEF CompletedInOrder
<1>7. CASE /\ ended' = ended
           /\ \E step : (step = "modify" \/ step = "queue") /\ GoOn(u, op, t, step)
  <2>1. PICK step : (step = "modify" \/ step = "queue") /\ GoOn(u, op, t, step)
    BY <1>7
  <2>2. mutex_' = u /\ call'[u] = [op |-> op, type |-> t, step |-> step]
    BY <1>3, <2>1, GoOnTyped
  <2>3. \A x \in Types : Starting(x)' = IF x = t THEN <<op>> ELSE <<>>
    BY <2>2 DEF Starting
  <2>4. ASSUME NEW x \in Types
        PROVE  started'[x] = ended'[x] \o op_queue'[x] \o Starting(x)'
    <3>1. ended[x] \in Seq(Ops) /\ op_queue[x] \in Seq(Ops)
      BY <1>1
    <3>2. CASE x # t
      <4>1. started'[x] = ended[x] \o op_queue[x]
        BY <1>1, <1>3, <1>4, <3>2
      <4> QED BY <1>2, <1>7, <2>3, <3>1, <3>2, <4>1, SeqFacts
    <3>3. CASE x = t
      <4>1. started'[x] = Append(ended[x] \o op_queue[x], op)
        BY <1>1, <1>3, <1>4, <3>3
      <4>2. Append(ended[x] \o op_queue[x], op) = ended[x] \o op_queue[x] \o <<op>>
        BY <3>1, AppendAfter, Zenon
      <4>3. ended'[x] = ended[x] /\ op_queue'[x] = op_queue[x] /\ Starting(x)' = <<op>>
        BY <1>2, <1>7, <2>3, <3>3
      <4>4. started'[x] = (ended[x] \o op_queue[x]) \o <<op>>
        BY <4>1, <4>2
      <4>5. ended'[x] \o op_queue'[x] \o Starting(x)' = (ended[x] \o op_queue[x]) \o <<op>>
        BY <4>3
      <4> QED BY <4>4, <4>5
    <3> QED BY <3>2, <3>3
  <2> QED BY <2>4 DEF CompletedInOrder
<1> QED BY <1>5, <1>6, <1>7

LEMMA OrderCall ==
  ASSUME TypeOK, CompletedInOrder, NEW u \in Users, CallStep(u)
  PROVE  CompletedInOrder'
<1>0. Modify(u) \/ QueueOp(u)
  BY DEF CallStep
<1>1. /\ call[u] \in Calls /\ mutex_ = u
      /\ Modify(u) => call'[u] = [op |-> call[u].op, type |-> call[u].type, step |-> "queue"]
  BY <1>0, CallEffects
<1>2. call[u].op \in Ops /\ call[u].type \in Types
  BY <1>1 DEF Calls
<1>3. UNCHANGED <<started, ended>>
  BY <1>0 DEF Modify, QueueOp, historyVars
<1>4. CASE Modify(u)
  <2>1. \A x \in Types : Starting(x)' = Starting(x)
    BY <1>1, <1>4 DEF Modify, Starting
  <2> QED BY <1>3, <1>4, <2>1 DEF Modify, CompletedInOrder
<1>5. CASE QueueOp(u)
  <2>1. mutex_' = None
        /\ op_queue' = [op_queue EXCEPT ![call[u].type] = Append(@, call[u].op)]
    BY <1>5 DEF QueueOp
  <2>2. \A x \in Types : Starting(x)' = <<>>
    BY <2>1 DEF Starting
  <2>3. \A x \in Types : Starting(x) = IF x = call[u].type THEN <<call[u].op>> ELSE <<>>
    BY <1>1 DEF Starting
  <2>4. op_queue \in [Types -> Seq(Ops)] /\ ended \in [Types -> Seq(Ops)]
    BY DEF TypeOK
  <2>5. ASSUME NEW x \in Types
        PROVE  started'[x] = ended'[x] \o op_queue'[x] \o Starting(x)'
    <3>1. ended[x] \in Seq(Ops) /\ op_queue[x] \in Seq(Ops)
      BY <2>4
    <3>2. started[x] = ended[x] \o op_queue[x] \o Starting(x)
      BY DEF CompletedInOrder
    <3>3. CASE x # call[u].type
      <4>1. op_queue'[x] = op_queue[x] /\ Starting(x) = <<>>
        BY <2>1, <2>3, <2>4, <3>3
      <4> QED BY <1>3, <2>2, <3>2, <4>1
    <3>4. CASE x = call[u].type
      <4>1. op_queue'[x] = Append(op_queue[x], call[u].op) /\ Starting(x) = <<call[u].op>>
        BY <2>1, <2>3, <2>4, <3>4
      <4>2. (ended[x] \o op_queue[x]) \o <<call[u].op>>
              = (ended[x] \o Append(op_queue[x], call[u].op)) \o <<>>
        BY <1>2, <3>1, AppendInner, Zenon
      <4>3. started'[x] = started[x] /\ ended'[x] = ended[x] /\ Starting(x)' = <<>>
        BY <1>3, <2>2
      <4>4. started'[x] = (ended[x] \o op_queue[x]) \o <<call[u].op>>
        BY <3>2, <4>1, <4>3
      <4>5. ended'[x] \o op_queue'[x] \o Starting(x)'
              = (ended[x] \o Append(op_queue[x], call[u].op)) \o <<>>
        BY <4>1, <4>3
      <4> QED BY <4>2, <4>4, <4>5
    <3> QED BY <3>3, <3>4
  <2> QED BY <2>5 DEF CompletedInOrder
<1> QED BY <1>0, <1>4, <1>5

LEMMA OrderPerform ==
  ASSUME TypeOK, CompletedInOrder, NEW r \in Runners, SkipType(r) \/ PerformOp(r)
  PROVE  CompletedInOrder'
<1>1. /\ pc[r] \in Types /\ UNCHANGED <<call, started>>
      /\ NextType(r) \/ UNCHANGED <<pc, events, mutex_>>
  BY PerformEffects
<1>2. mutex_ = r /\ mutex_' \in {r, None}
  BY <1>1, NextTypeTyped
<1>3. \A x \in Types : Starting(x) = <<>> /\ Starting(x)' = <<>>
  BY <1>2 DEF Starting
<1>4. op_queue \in [Types -> Seq(Ops)] /\ ended \in [Types -> Seq(Ops)]
  BY DEF TypeOK
<1>5. CASE UNCHANGED <<op_queue, ended>>
  BY <1>1, <1>3, <1>5 DEF CompletedInOrder
<1>6. ASSUME NEW t \in Types, op_queue[t] # <<>>, End(t, Head(op_queue[t])),
             op_queue' = [op_queue EXCEPT ![t] = Tail(@)]
      PROVE  CompletedInOrder'
  <2>1. /\ Head(op_queue[t]) \in Ops /\ Tail(op_queue[t]) \in Seq(Ops)
        /\ op_queue[t] = <<Head(op_queue[t])>> \o Tail(op_queue[t])
    BY <1>4, <1>6, PopTyped
  <2>2. ended' = [ended EXCEPT ![t] = Append(@, Head(op_queue[t]))]
    BY <1>6 DEF End
  <2>3. ASSUME NEW x \in Types
        PROVE  started'[x] = ended'[x] \o op_queue'[x] \o Starting(x)'
    <3>1. ended[x] \in Seq(Ops) /\ op_queue[x] \in Seq(Ops)
      BY <1>4
    <3>2. started[x] = ended[x] \o op_queue[x] \o <<>>
      BY <1>3 DEF CompletedInOrder
    <3>3. CASE x # t
      BY <1>1, <1>3, <1>4, <1>6, <2>2, <3>2, <3>3
    <3>4. CASE x = t
      <4>1. ended'[x] = Append(ended[x], Head(op_queue[x])) /\ op_queue'[x] = Tail(op_queue[x])
        BY <1>4, <1>6, <2>2, <3>4
      <4>2. ended[x] \o op_queue[x] = ended'[x] \o op_queue'[x]
        <5>1. PICK h : h = Head(op_queue[x])
          OBVIOUS
        <5>2. PICK q : q = Tail(op_queue[x])
          OBVIOUS
        <5>3. h \in Ops /\ q \in Seq(Ops) /\ op_queue[x] = <<h>> \o q
          BY <2>1, <3>4, <5>1, <5>2
        <5>4. ended[x] \o (<<h>> \o q) = Append(ended[x], h) \o q
          BY <3>1, <5>3, ConcatShift, Zenon
        <5>5. ended[x] \o op_queue[x] = Append(ended[x], h) \o q
          BY <5>3, <5>4
        <5>6. ended'[x] \o op_queue'[x] = Append(ended[x], h) \o q
          BY <4>1, <5>1, <5>2
        <5> QED BY <5>5, <5>6
      <4> QED BY <1>1, <1>3, <3>2, <4>2
    <3> QED BY <3>3, <3>4
  <2> QED BY <2>3 DEF CompletedInOrder
<1>7. CASE SkipType(r)
  BY <1>5, <1>7 DEF SkipType, historyVars
<1>8. CASE PerformOp(r)
  BY <1>5, <1>6, <1>8 DEF PerformOp
<1> QED BY <1>7, <1>8

LEMMA OrderAbort ==
  ASSUME TypeOK, CompletedInOrder, (\E u \in Users : CancelOps(u)) \/ Deregister
  PROVE  CompletedInOrder'
<1>1. AbortAll /\ mutex_ = None /\ UNCHANGED <<mutex_, call, started>>
  BY DEF CancelOps, Deregister, threadVars
<1>2. \A x \in Types : Starting(x) = <<>> /\ Starting(x)' = <<>>
  BY <1>1 DEF Starting
<1>3. op_queue \in [Types -> Seq(Ops)] /\ ended \in [Types -> Seq(Ops)]
  BY DEF TypeOK
<1>4. ASSUME NEW x \in Types
      PROVE  started'[x] = ended'[x] \o op_queue'[x] \o Starting(x)'
  <2>1. ended[x] \in Seq(Ops) /\ op_queue[x] \in Seq(Ops)
    BY <1>3
  <2>2. ended'[x] = ended[x] \o op_queue[x] /\ op_queue'[x] = <<>>
    BY <1>1 DEF AbortAll, ForBoth
  <2>3. started[x] = ended[x] \o op_queue[x] \o <<>>
    BY <1>2 DEF CompletedInOrder
  <2>4. (ended[x] \o op_queue[x]) \o <<>> \o <<>> = ended[x] \o op_queue[x] \o <<>>
    BY <2>1
  <2> QED BY <1>1, <1>2, <2>2, <2>3, <2>4
<1> QED BY <1>4 DEF CompletedInOrder

LEMMA OrderNext == TypeOK /\ CompletedInOrder /\ [Next]_vars => CompletedInOrder'
<1> SUFFICES ASSUME TypeOK, CompletedInOrder, [Next]_vars PROVE CompletedInOrder'
  OBVIOUS
<1>1. CASE /\ UNCHANGED <<started, ended, op_queue, call>>
           /\ (mutex_ \notin Users /\ mutex_' \notin Users) \/ UNCHANGED mutex_
  BY <1>1 DEF CompletedInOrder, Starting
<1>2. CASE KernelStep
  BY <1>1, <1>2 DEF KernelStep, BecomesReady, Ends, Rearm, threadVars, descriptorVars, historyVars
<1>3. ASSUME NEW u \in Users, UserStep(u) \/ CallStep(u) PROVE CompletedInOrder'
  BY <1>3, OrderStart, OrderCall, OrderAbort DEF UserStep
<1>4. ASSUME NEW r \in Runners, EpollWait(r) \/ Take(r) \/ LockDescriptor(r) \/ RunStep(r)
      PROVE  CompletedInOrder'
  <2>1. CASE SkipType(r) \/ PerformOp(r)
    BY <2>1, OrderPerform
  <2>2. CASE LockDescriptor(r)
    BY <1>1, <2>2 DEF LockDescriptor, descriptorVars, historyVars
  <2>3. CASE EpollWait(r) \/ Take(r) \/ Dispatch(r)
    BY <1>1, <2>3 DEF EpollWait, Take, Dispatch, descriptorVars, historyVars
  <2> QED BY <1>4, <2>1, <2>2, <2>3 DEF RunStep
<1>5. CASE Deregister
  BY <1>5, OrderAbort
<1>6. CASE CloseSocket \/ Register
  BY <1>1, <1>6 DEF CloseSocket, Register, threadVars, descriptorVars, historyVars
<1>7. CASE UNCHANGED vars
  BY <1>1, <1>7 DEF vars, threadVars, descriptorVars, historyVars
<1> QED BY <1>2, <1>3, <1>4, <1>5, <1>6, <1>7 DEF Next

(* Operations of a type complete in the order of their start, each once, and  *)
(* none is lost between start_op, the queue and perform_io.                 *)
THEOREM CompletedInOrderHolds == Spec => []CompletedInOrder
<1>1. Init => CompletedInOrder
  <2> SUFFICES ASSUME Init PROVE CompletedInOrder
    OBVIOUS
  <2>1. \A t \in Types : /\ started[t] = <<>> /\ ended[t] = <<>> /\ op_queue[t] = <<>>
                         /\ Starting(t) = <<>>
    BY DEF Init, ForBoth, Starting
  <2>2. <<>> \o <<>> \o <<>> = <<>>
    OBVIOUS
  <2> QED BY <2>1, <2>2 DEF CompletedInOrder
<1> QED BY <1>1, TypeCorrect, OrderNext, PTL DEF Spec

-----------------------------------------------------------------------------
(* What a close leaves behind. *)
LEMMA LeftNext == TypeOK /\ NothingLeftBehind /\ [Next]_vars => NothingLeftBehind'
<1> SUFFICES ASSUME TypeOK, NothingLeftBehind, [Next]_vars PROVE NothingLeftBehind'
  OBVIOUS
<1>1. CASE UNCHANGED <<socket, op_queue, mutex_>>
  BY <1>1 DEF NothingLeftBehind, ForBoth
<1>2. CASE KernelStep
  BY <1>1, <1>2 DEF KernelStep, BecomesReady, Ends, Rearm, threadVars, descriptorVars
<1>3. ASSUME NEW u \in Users, UserStep(u) \/ CallStep(u) PROVE NothingLeftBehind'
  <2>1. CASE UserStep(u)
    BY <2>1 DEF UserStep, Speculate, Start, Enter, CancelOps, kernelVars, NothingLeftBehind
  <2>2. CASE CallStep(u)
    <3>1. Modify(u) \/ QueueOp(u)
      BY <2>2, SMTT(30) DEF CallStep
    <3>2. mutex_ = u /\ UNCHANGED socket
      BY <3>1, CallEffects DEF Modify, QueueOp, kernelVars
    <3> QED BY <3>2 DEF NothingLeftBehind
  <2> QED BY <1>3, <2>1, <2>2
<1>4. ASSUME NEW r \in Runners, EpollWait(r) \/ Take(r) \/ LockDescriptor(r) \/ RunStep(r)
      PROVE  NothingLeftBehind'
  <2>1. CASE SkipType(r) \/ PerformOp(r)
    <3>1. UNCHANGED socket /\ (PerformOp(r) => \E t \in Types : op_queue[t] # <<>>)
          /\ (SkipType(r) => UNCHANGED op_queue)
      BY <2>1 DEF SkipType, PerformOp, kernelVars
    <3>2. mutex_' \notin Users
      BY <2>1, PerformEffects, NextTypeTyped
    <3>3. socket # "open" => ~ PerformOp(r)
      BY <3>1 DEF NothingLeftBehind, ForBoth
    <3> QED BY <2>1, <3>1, <3>2, <3>3 DEF NothingLeftBehind, ForBoth
  <2>2. CASE LockDescriptor(r)
    BY <2>2 DEF LockDescriptor, kernelVars, descriptorVars, NothingLeftBehind, ForBoth
  <2>3. CASE EpollWait(r) \/ Take(r) \/ Dispatch(r)
    BY <1>1, <2>3 DEF EpollWait, Take, Dispatch, descriptorVars, kernelVars
  <2> QED BY <1>4, <2>1, <2>2, <2>3 DEF RunStep
<1>5. CASE Deregister
  BY <1>5 DEF Deregister, AbortAll, ForBoth, threadVars, NothingLeftBehind
<1>6. CASE CloseSocket \/ Register
  BY <1>6 DEF CloseSocket, Register, threadVars, descriptorVars, NothingLeftBehind, ForBoth
<1>7. CASE UNCHANGED vars
  BY <1>1, <1>7 DEF vars, threadVars, descriptorVars, kernelVars
<1> QED BY <1>2, <1>3, <1>4, <1>5, <1>6, <1>7 DEF Next

(* A socket that has been closed has no operation in its queues, and nobody is *)
(* in the middle of adding one: none is lost, none is performed on the next     *)
(* socket that is given the same descriptor state.                          *)
THEOREM NothingLeftBehindHolds == Spec => []NothingLeftBehind
<1>1. Init => NothingLeftBehind
  BY DEF Init, NothingLeftBehind
<1> QED BY <1>1, TypeCorrect, LeftNext, PTL DEF Spec

-----------------------------------------------------------------------------
(* No edge is missed.  The invariant, apart from what is proved above. *)
Edges == EdgeAwaited /\ RoomAwaited /\ OutRegistered /\ OnePolls

EdgeInv == TypeOK /\ NothingLeftBehind /\ Edges

LEMMA EdgesInit == Init => Edges
<1> SUFFICES ASSUME Init PROVE Edges
  OBVIOUS
<1>1. \A t \in Types : ~ Wanting(t)
  BY DEF Init, ForBoth, Wanting
<1>2. OutRegistered /\ OnePolls
  BY DEF Init, ForBoth, OutRegistered, OnePolls
<1> QED BY <1>1, <1>2 DEF Edges, EdgeAwaited, RoomAwaited

(* Steps that do not touch who wants and who visits. *)
LEMMA EdgesKept ==
  ASSUME EdgeInv, UNCHANGED <<threadVars, descriptorVars, queueVars>>,
         \A t \in Types : Wanting(t) /\ Ready(t)' /\ ~ spent'[t] /\ socket' # "closed" =>
                            Promised(t)',
         RoomAwaited'
  PROVE  Edges'
<1>1. \A t \in Types : Wanting(t)' <=> Wanting(t)
  BY DEF threadVars, descriptorVars, Wanting
<1>2. EdgeAwaited'
  BY <1>1 DEF EdgeAwaited
<1>3. OutRegistered' /\ OnePolls'
  BY DEF EdgeInv, Edges, OutRegistered, OnePolls, threadVars, descriptorVars, queueVars
<1> QED BY <1>2, <1>3 DEF Edges

LEMMA VisitingKept ==
  ASSUME UNCHANGED <<threadVars, descriptorVars, queueVars>>
  PROVE  \A t \in Types : (Visiting(t)' <=> Visiting(t)) /\ (Wanting(t)' <=> Wanting(t))
  BY DEF threadVars, descriptorVars, queueVars, Visiting, Wanting

LEMMA EdgesKernel ==
  ASSUME EdgeInv, KernelStep
  PROVE  Edges'
<1>1. UNCHANGED <<threadVars, descriptorVars, queueVars, socket, spent, epollout>>
  BY DEF KernelStep, BecomesReady, Ends, Rearm, historyVars, descriptorVars
<1>2. \A t \in Types : (Visiting(t)' <=> Visiting(t)) /\ (Wanting(t)' <=> Wanting(t))
  BY <1>1, VisitingKept
<1>3. ASSUME armed' = TRUE, nospace' = nospace, ready' = ready,
             over["write"] => over'["write"]
      PROVE  Edges'
  <2>1. \A t \in Types : Promised(t)'
    BY <1>3 DEF Promised
  <2>2. RoomAwaited'
    BY <1>1, <1>2, <1>3 DEF EdgeInv, Edges, RoomAwaited
  <2> QED BY <1>1, <2>1, <2>2, EdgesKept
<1>4. ASSUME NEW x \in Types, BecomesReady(x) PROVE Edges'
  <2>1. /\ ready \in [Types -> BOOLEAN] /\ ready' = [ready EXCEPT ![x] = TRUE]
        /\ UNCHANGED over /\ nospace' = (nospace /\ x # "write")
        /\ armed' = (armed \/ x = "read" \/ (nospace /\ epollout))
    BY <1>4 DEF BecomesReady, EdgeInv, TypeOK
  <2>2. RoomAwaited'
    <3>1. ready'["write"] = (ready["write"] \/ x = "write")
      BY <2>1
    <3> QED BY <1>1, <1>2, <2>1, <3>1 DEF EdgeInv, Edges, RoomAwaited
  <2>3. ASSUME NEW t \in Types, Wanting(t), Ready(t)', ~ spent'[t], socket' # "closed"
        PROVE  Promised(t)'
    <3>1. CASE Ready(t)
      <4>1. Promised(t)
        BY <1>1, <2>3, <3>1 DEF EdgeInv, Edges, EdgeAwaited
      <4> QED BY <1>1, <1>2, <2>1, <4>1 DEF Promised
    <3>2. CASE ~ Ready(t)
      <4>1. t = x /\ ~ ready[t] /\ ~ over[t]
        BY <2>1, <2>3, <3>2 DEF Ready
      <4>2. CASE t = "read"
        BY <2>1, <4>1, <4>2 DEF Promised
      <4>3. CASE t = "write"
        <5>1. nospace \/ Visiting("write")
          BY <1>1, <2>3, <4>1, <4>3 DEF EdgeInv, Edges, RoomAwaited
        <5> QED BY <1>1, <1>2, <2>1, <4>3, <5>1 DEF Promised
      <4> QED BY <4>2, <4>3
    <3> QED BY <3>1, <3>2
  <2> QED BY <1>1, <2>2, <2>3, EdgesKept
<1>5. ASSUME NEW ts, Ends(ts) PROVE Edges'
  <2>1. over["write"] => over'["write"]
    BY <1>5 DEF Ends
  <2> QED BY <1>3, <1>5, <2>1 DEF Ends
<1>6. CASE Rearm
  BY <1>3, <1>6 DEF Rearm
<1> QED BY <1>4, <1>5, <1>6 DEF KernelStep

(* start_op, as far as it goes before epoll_ctl. *)
LEMMA EdgesStart ==
  ASSUME EdgeInv, NEW u \in Users, NEW op \in Ops, NEW t \in Types,
         Speculate(u, op, t) \/ \E b \in BOOLEAN : Start(u, op, t, b)
  PROVE  Edges'
<1>1. /\ Enter(u, op, t) /\ TypeOK
      /\ UNCHANGED <<pc, events, op_queue, epollout, enqueued, task_result, over, armed, socket>>
  BY DEF Speculate, Start, descriptorVars, kernelVars, queueVars, EdgeInv
<1>2. mutex_ = None /\ \A v \in Users : call[v] = None
  BY <1>1, EnterTyped
<1>3. \A x \in Types : Visiting(x) => Visiting(x)'
  BY <1>1, <1>2 DEF Visiting
<1>4. \A x \in Types : Promised(x) => Promised(x)'
  BY <1>1, <1>3 DEF Promised
<1>5. OnePolls'
  BY <1>1 DEF EdgeInv, Edges, OnePolls
<1>6. CASE /\ UNCHANGED <<call, try_speculative>> /\ op_queue[t] = <<>> /\ try_speculative[t]
           /\ Done(t)
  <2>1. ~ Wanting(t)' /\ \A x \in Types : Wanting(x)' <=> Wanting(x)
    BY <1>1, <1>2, <1>6 DEF Wanting
  <2>2. \A x \in Types \ {t} : ready'[x] = ready[x] /\ UNCHANGED <<spent, nospace>>
    BY <1>1, <1>6, PerformTyped DEF Done
  <2>3. EdgeAwaited' /\ RoomAwaited'
    BY <1>1, <1>3, <1>4, <2>1, <2>2 DEF EdgeInv, Edges, EdgeAwaited, RoomAwaited, Ready
  <2>4. OutRegistered'
    BY <1>1, <1>2, <1>6 DEF EdgeInv, Edges, OutRegistered
  <2> QED BY <1>5, <2>3, <2>4 DEF Edges
<1>7. CASE /\ UNCHANGED call /\ Exhausted(t)
           /\ try_speculative' = [try_speculative EXCEPT ![t] = FALSE]
  <2>0. try_speculative \in [Types -> BOOLEAN] /\ spent \in [Types -> BOOLEAN]
        /\ ready \in [Types -> BOOLEAN]
    BY <1>1 DEF TypeOK
  <2>1. \A x \in Types \ {t} : Wanting(x)' => Wanting(x)
    BY <1>1, <1>7, <2>0 DEF Wanting
  <2>2. \A x \in Types \ {t} : ready'[x] = ready[x] /\ spent'[x] = spent[x]
    BY <1>1, <1>7, PerformTyped
  <2>3. ~ Ready(t)' \/ spent'[t]
    BY <1>1, <1>7, <2>0 DEF Exhausted, Ready
  <2>4. EdgeAwaited'
    BY <1>1, <1>4, <2>1, <2>2, <2>3 DEF EdgeInv, Edges, EdgeAwaited, Ready
  <2>5. RoomAwaited'
    <3>1. CASE t = "write"
      BY <1>1, <1>7, <3>1 DEF Exhausted, RoomAwaited
    <3>2. CASE t # "write"
      <4>1. nospace' = nospace
        BY <1>7, <3>2 DEF Exhausted
      <4> QED BY <1>1, <1>3, <2>1, <2>2, <3>2, <4>1 DEF EdgeInv, Edges, RoomAwaited
    <3> QED BY <3>1, <3>2
  <2>6. OutRegistered'
    BY <1>1, <1>2, <1>7 DEF EdgeInv, Edges, OutRegistered
  <2> QED BY <1>5, <2>4, <2>5, <2>6 DEF Edges
<1>8. CASE /\ NotDone(t) /\ UNCHANGED try_speculative
           /\ GoOn(u, op, t, IF t = "write" /\ ~ epollout THEN "modify" ELSE "queue")
  <2>1. PICK step : /\ step = IF t = "write" /\ ~ epollout THEN "modify" ELSE "queue"
                    /\ GoOn(u, op, t, step)
    BY <1>8
  <2>2. /\ call'[u] = [op |-> op, type |-> t, step |-> step]
        /\ \A v \in Users : call'[v] # None <=> v = u
    BY <1>1, <1>2, <2>1, GoOnTyped
  <2>3. \A x \in Types \ {t} : Wanting(x)' <=> Wanting(x)
    BY <1>1, <1>2, <1>8, <2>2 DEF Wanting
  <2>4. ~ Ready(t)' /\ UNCHANGED <<ready, spent>> /\ nospace' = (nospace \/ t = "write")
    BY <1>1, <1>8 DEF NotDone, Ready
  <2>5. EdgeAwaited'
    BY <1>1, <1>4, <2>3, <2>4 DEF EdgeInv, Edges, EdgeAwaited, Ready
  <2>6. RoomAwaited'
    BY <1>1, <1>3, <2>3, <2>4 DEF EdgeInv, Edges, RoomAwaited
  <2>7. OutRegistered'
    BY <1>1, <2>1, <2>2 DEF EdgeInv, Edges, OutRegistered
  <2> QED BY <1>5, <2>5, <2>6, <2>7 DEF Edges
<1>9. ASSUME NEW b \in BOOLEAN, Start(u, op, t, b) PROVE Edges'
  <2>1. PICK step : /\ step = IF op_queue[t] = <<>> /\ (b => t = "write" /\ ~ epollout)
                              THEN "modify" ELSE "queue"
                    /\ GoOn(u, op, t, step)
    BY <1>9 DEF Start
  <2>2. /\ call'[u] = [op |-> op, type |-> t, step |-> step]
        /\ \A v \in Users : call'[v] # None <=> v = u
    BY <1>1, <1>2, <2>1, GoOnTyped
  <2>3. /\ UNCHANGED <<try_speculative, ready, spent, nospace>>
        /\ ~ (op_queue[t] = <<>> /\ b /\ try_speculative[t])
    BY <1>9 DEF Start, descriptorVars, kernelVars
  <2>4. \A x \in Types \ {t} : Wanting(x)' <=> Wanting(x)
    BY <1>1, <1>2, <2>2, <2>3 DEF Wanting
  <2>5. Wanting(t) \/ Visiting(t)'
    <3>1. CASE op_queue[t] # <<>> \/ ~ try_speculative[t]
      BY <3>1 DEF Wanting
    <3>2. CASE step = "modify"
      BY <2>2, <3>2 DEF Visiting
    <3> QED BY <2>1, <2>3, <3>1, <3>2
  <2>6. EdgeAwaited'
    <3>1. \A x \in Types : Visiting(x)' => Promised(x)'
      BY DEF Promised
    <3> QED BY <1>1, <1>4, <2>3, <2>4, <2>5, <3>1 DEF EdgeInv, Edges, EdgeAwaited, Ready
  <2>7. RoomAwaited'
    BY <1>1, <1>3, <2>3, <2>4, <2>5 DEF EdgeInv, Edges, RoomAwaited
  <2>8. OutRegistered'
    <3>1. op_queue["write"] # <<>> => epollout
      BY DEF EdgeInv, Edges, OutRegistered
    <3>2. t = "write" /\ step = "queue" => epollout
      BY <2>1, <3>1
    <3> QED BY <1>1, <2>2, <3>1, <3>2 DEF OutRegistered
  <2> QED BY <1>5, <2>6, <2>7, <2>8 DEF Edges
<1> QED BY <1>6, <1>7, <1>8, <1>9 DEF Speculate

(* epoll_ctl and the queue. *)
LEMMA EdgesModify ==
  ASSUME EdgeInv, NEW u \in Users, Modify(u)
  PROVE  Edges'
<1>1. /\ TypeOK /\ call[u] \in Calls /\ call[u] # None
      /\ \A v \in Users \ {u} : call[v] = None /\ call'[v] = None
      /\ call'[u] = [op |-> call[u].op, type |-> call[u].type, step |-> "queue"]
  BY CallEffects DEF EdgeInv, Modify
<1>2. UNCHANGED <<pc, op_queue, try_speculative, enqueued, ready, over, socket, spent>>
  BY DEF Modify, queueVars, historyVars
<1>3. /\ epollout' = (epollout \/ call[u].type = "write")
      /\ armed' = (armed \/ Mask(epollout') # {})
      /\ nospace' = (nospace \/ ~ ready["write"])
  BY DEF Modify
<1>4. call'[u] \in Calls
  BY <1>1 DEF Calls
<1>5. EdgeAwaited'
  <2>1. ASSUME NEW t \in Types, Ready(t)' PROVE Promised(t)'
    <3>1. Ready(t)
      BY <1>2, <2>1 DEF Ready
    <3>2. t \in Mask(epollout') \/ (t = "write" /\ ~ epollout')
      BY <3>1 DEF Mask
    <3> QED BY <1>3, <3>2 DEF Promised
  <2> QED BY <2>1 DEF EdgeAwaited
<1>6. RoomAwaited'
  BY <1>2, <1>3 DEF RoomAwaited
<1>7. OutRegistered'
  <2>1. op_queue'["write"] # <<>> => epollout'
    BY <1>2, <1>3 DEF EdgeInv, Edges, OutRegistered
  <2>2. call'[u].type = "write" => epollout'
    <3>1. call'[u].type = call[u].type
      BY <1>1
    <3>2. call[u].type = "write" => epollout' = TRUE
      BY <1>3
    <3> QED BY <3>1, <3>2
  <2>3. ASSUME NEW v \in Users, call'[v] # None, call'[v].type = "write" PROVE epollout'
    BY <1>1, <2>2, <2>3
  <2> QED BY <2>1, <2>3 DEF OutRegistered
<1>8. OnePolls'
  BY <1>2 DEF EdgeInv, Edges, OnePolls
<1> QED BY <1>5, <1>6, <1>7, <1>8 DEF Edges

LEMMA EdgesQueue ==
  ASSUME EdgeInv, NEW u \in Users, QueueOp(u)
  PROVE  Edges'
<1>1. /\ TypeOK /\ call[u] \in Calls /\ call[u] # None /\ call[u].step = "queue"
      /\ \A v \in Users \ {u} : call[v] = None /\ call'[v] = None
      /\ call'[u] = None
  BY CallEffects DEF EdgeInv, QueueOp
<1>2. /\ op_queue' = [op_queue EXCEPT ![call[u].type] = Append(@, call[u].op)]
      /\ UNCHANGED <<pc, events, try_speculative, epollout, enqueued, task_result,
                     ready, over, nospace, armed, socket, spent>>
  BY DEF QueueOp, queueVars, kernelVars, historyVars
<1>3. op_queue \in [Types -> Seq(Ops)] /\ call[u].type \in Types
  BY <1>1 DEF TypeOK, Calls
<1>4. \A t \in Types : Wanting(t)' => Wanting(t)
  <2>1. ASSUME NEW t \in Types, t # call[u].type PROVE op_queue'[t] = op_queue[t]
    BY <1>2, <1>3, <2>1
  <2>2. Wanting(call[u].type)
    BY <1>1 DEF Wanting
  <2> QED BY <1>1, <1>2, <2>1, <2>2 DEF Wanting
<1>5. \A t \in Types : Visiting(t) => Visiting(t)'
  BY <1>1, <1>2 DEF Visiting
<1>6. EdgeAwaited' /\ RoomAwaited'
  BY <1>2, <1>4, <1>5 DEF EdgeInv, Edges, EdgeAwaited, RoomAwaited, Promised, Ready
<1>7. OutRegistered'
  <2>1. CASE call[u].type = "write"
    BY <1>1, <1>2, <2>1 DEF EdgeInv, Edges, OutRegistered
  <2>2. CASE call[u].type # "write"
    <3>1. op_queue'["write"] = op_queue["write"]
      BY <1>2, <1>3, <2>2
    <3> QED BY <1>1, <1>2, <3>1 DEF EdgeInv, Edges, OutRegistered
  <2> QED BY <2>1, <2>2
<1>8. OnePolls'
  BY <1>2 DEF EdgeInv, Edges, OnePolls
<1> QED BY <1>6, <1>7, <1>8 DEF Edges

(* The way of an event from epoll_wait to perform_io. *)
LEMMA EdgesEpoll ==
  ASSUME EdgeInv, NEW r \in Runners, EpollWait(r)
  PROVE  Edges'
<1>1. /\ pc \in [Runners -> {"idle", "polled", "taken"} \cup Types]
      /\ events \in [Runners -> SUBSET Types]
  BY DEF EdgeInv, TypeOK
<1>2. UNCHANGED <<call, op_queue, try_speculative, epollout, enqueued, task_result, ready, over,
                  socket, spent>>
  BY DEF EpollWait, descriptorVars, queueVars, historyVars
<1>3. /\ pc[r] = "idle" /\ ~ enqueued /\ \A s \in Runners : pc[s] # "polled"
      /\ nospace' = (nospace \/ ~ ready["write"])
      /\ events' = [events EXCEPT ![r] = Mask(epollout)]
      /\ pc' = [pc EXCEPT ![r] = IF Mask(epollout) = {} THEN "idle" ELSE "polled"]
  BY DEF EpollWait, Polling
<1>4. /\ \A s \in Runners \ {r} : pc'[s] = pc[s] /\ events'[s] = events[s]
      /\ events'[r] = Mask(epollout)
      /\ pc'[r] = IF Mask(epollout) = {} THEN "idle" ELSE "polled"
  BY <1>1, <1>3
<1>5. \A t \in Types : Visiting(t) => Visiting(t)'
  BY <1>2, <1>3, <1>4 DEF Visiting
<1>6. ASSUME NEW t \in Types, Promised(t), Ready(t) PROVE Promised(t)'
  <2>1. t \in Mask(epollout) \/ (t = "write" /\ ~ epollout)
    BY <1>6 DEF Mask
  <2>2. t \in Mask(epollout) => Visiting(t)'
    BY <1>4 DEF Visiting
  <2> QED BY <1>2, <2>1, <2>2 DEF Promised
<1>7. \A t \in Types : (Wanting(t)' <=> Wanting(t)) /\ (Ready(t)' <=> Ready(t))
  BY <1>2 DEF Wanting, Ready
<1>8. EdgeAwaited'
  BY <1>2, <1>6, <1>7 DEF EdgeInv, Edges, EdgeAwaited
<1>9. RoomAwaited'
  BY <1>2, <1>3 DEF RoomAwaited
<1>10. OutRegistered'
  BY <1>2 DEF EdgeInv, Edges, OutRegistered
<1>11. OnePolls'
  BY <1>2, <1>3, <1>4 DEF OnePolls
<1> QED BY <1>8, <1>9, <1>10, <1>11 DEF Edges

LEMMA EdgesEvent ==
  ASSUME EdgeInv, NEW r \in Runners, Dispatch(r) \/ Take(r) \/ LockDescriptor(r)
  PROVE  Edges'
<1>1. /\ pc \in [Runners -> {"idle", "polled", "taken"} \cup Types]
      /\ events \in [Runners -> SUBSET Types]
  BY DEF EdgeInv, TypeOK
<1>2. UNCHANGED <<call, op_queue, try_speculative, epollout, ready, over, nospace, armed, socket,
                  spent>>
  BY DEF Dispatch, Take, LockDescriptor, descriptorVars, kernelVars, historyVars
<1>3. \A s \in Runners \ {r} : pc'[s] = pc[s] /\ events'[s] = events[s]
  BY <1>1 DEF Dispatch, Take, LockDescriptor
<1>4. OnePolls /\ OnePolls'
  <2>1. OnePolls
    BY DEF EdgeInv, Edges
  <2>2. CASE Dispatch(r)
    <3>1. pc'[r] = "idle" /\ \A s \in Runners \ {r} : pc[s] # "polled"
      BY <1>1, <2>1, <2>2 DEF Dispatch, OnePolls
    <3> QED BY <1>3, <2>1, <3>1 DEF OnePolls
  <2>3. CASE Take(r)
    <3>1. pc'[r] = "taken" /\ \A s \in Runners : pc[s] # "polled"
      BY <1>1, <2>1, <2>3 DEF Take, OnePolls
    <3> QED BY <1>3, <2>1, <3>1 DEF OnePolls
  <2>4. CASE LockDescriptor(r)
    <3>1. pc'[r] = "write" /\ UNCHANGED enqueued
      BY <1>1, <2>4 DEF LockDescriptor, queueVars
    <3> QED BY <1>3, <2>1, <3>1 DEF OnePolls
  <2> QED BY <2>1, <2>2, <2>3, <2>4
<1>5. ASSUME NEW t \in Types, Visiting(t) PROVE Visiting(t)'
  <2>1. CASE Dispatch(r)
    <3>1. ~ enqueued /\ enqueued' /\ task_result' = events[r]
      BY <1>4, <2>1 DEF Dispatch, OnePolls
    <3> QED BY <1>2, <1>3, <1>5, <3>1 DEF Visiting
  <2>2. CASE Take(r)
    <3>1. pc[r] = "idle" /\ events'[r] = task_result /\ pc'[r] = "taken"
      BY <1>1, <2>2 DEF Take
    <3> QED BY <1>2, <1>3, <1>5, <3>1 DEF Visiting
  <2>3. CASE LockDescriptor(r)
    <3>1. pc'[r] = "write" /\ UNCHANGED <<events, enqueued, task_result>>
      BY <1>1, <2>3 DEF LockDescriptor, queueVars
    <3> QED BY <1>2, <1>3, <1>5, <3>1 DEF Visiting
  <2> QED BY <2>1, <2>2, <2>3
<1>6. \A t \in Types : (Wanting(t)' <=> Wanting(t)) /\ (Ready(t)' <=> Ready(t))
  BY <1>2 DEF Wanting, Ready
<1>7. EdgeAwaited' /\ RoomAwaited'
  BY <1>2, <1>5, <1>6 DEF EdgeInv, Edges, EdgeAwaited, RoomAwaited, Promised
<1>8. OutRegistered'
  BY <1>2 DEF EdgeInv, Edges, OutRegistered
<1> QED BY <1>4, <1>7, <1>8 DEF Edges

(* perform_io.  A type that it is past is done with; of the others no event is *)
(* dropped.                                                              *)
LEMMA VisitGoesOn ==
  ASSUME EdgeInv, NEW r \in Runners, NEW x \in Types, pc[r] = x,
         NextType(r) \/ UNCHANGED <<pc, events, mutex_>>,
         UNCHANGED <<call, epollout, enqueued, task_result>>
  PROVE  /\ \A t \in Types \ {x} : Visiting(t) => Visiting(t)'
         /\ x \notin events[r] => (Visiting(x) => Visiting(x)')
<1>1. /\ pc \in [Runners -> {"idle", "polled", "taken"} \cup Types]
      /\ events \in [Runners -> SUBSET Types]
      /\ \A s \in Runners \ {r} : pc'[s] = pc[s] /\ events'[s] = events[s]
  BY NextTypeTyped DEF EdgeInv, TypeOK
<1>2. CASE UNCHANGED <<pc, events, mutex_>>
  BY <1>2 DEF Visiting
<1>3. CASE NextType(r)
  <2>1. CASE x = "write"
    <3>1. pc'[r] = "read" /\ events' = events
      BY <1>1, <1>3, <2>1 DEF NextType
    <3> QED BY <1>1, <2>1, <3>1 DEF Visiting
  <2>2. CASE x = "read"
    BY <1>1, <2>2 DEF Visiting
  <2> QED BY <2>1, <2>2
<1> QED BY <1>2, <1>3

LEMMA EdgesPerform ==
  ASSUME EdgeInv, NEW r \in Runners, SkipType(r) \/ PerformOp(r)
  PROVE  Edges'
<1>1. PICK x \in Types : x = pc[r]
  BY PerformEffects DEF EdgeInv
<1>2. /\ UNCHANGED <<call, epollout, enqueued, task_result, over, armed, socket>>
      /\ NextType(r) \/ UNCHANGED <<pc, events, mutex_>>
      /\ TypeOK
  BY PerformEffects DEF EdgeInv, queueVars
<1>3. /\ \A u \in Users : call[u] = None /\ call'[u] = None
      /\ \A s \in Runners \ {r} : pc'[s] = pc[s]
      /\ pc'[r] # "polled"
  BY <1>1, <1>2, NextTypeTyped
<1>4. OnePolls'
  BY <1>2, <1>3 DEF EdgeInv, Edges, OnePolls
<1>5. /\ \A t \in Types \ {x} : Promised(t) => Promised(t)'
      /\ x \notin events[r] => (Promised(x) => Promised(x)')
      /\ \A t \in Types \ {x} : Visiting(t) => Visiting(t)'
      /\ x \notin events[r] => (Visiting(x) => Visiting(x)')
  BY <1>1, <1>2, VisitGoesOn DEF Promised
<1>6. /\ op_queue \in [Types -> Seq(Ops)] /\ try_speculative \in [Types -> BOOLEAN]
      /\ spent \in [Types -> BOOLEAN] /\ ready \in [Types -> BOOLEAN]
  BY <1>2 DEF TypeOK
<1>7. CASE SkipType(r)
  <2>1. /\ x \in events[r] => op_queue[x] = <<>>
        /\ try_speculative' = [try_speculative EXCEPT ![x] = @ \/ x \in events[r]]
        /\ UNCHANGED <<op_queue, ready, nospace, spent>>
    BY <1>1, <1>7 DEF SkipType, kernelVars, historyVars
  <2>2. \A t \in Types \ {x} : Wanting(t)' <=> Wanting(t)
    BY <1>2, <1>6, <2>1 DEF Wanting
  <2>3. (x \notin events[r] => (Wanting(x)' => Wanting(x))) /\ (x \in events[r] => ~ Wanting(x)')
    BY <1>3, <1>6, <2>1 DEF Wanting
  <2>4. EdgeAwaited' /\ RoomAwaited'
    BY <1>2, <1>5, <2>1, <2>2, <2>3 DEF EdgeInv, Edges, EdgeAwaited, RoomAwaited, Ready
  <2>5. OutRegistered'
    BY <1>2, <1>3, <2>1 DEF EdgeInv, Edges, OutRegistered
  <2> QED BY <1>4, <2>4, <2>5 DEF Edges
<1>8. CASE PerformOp(r)
  <2>1. /\ x \in events[r] /\ op_queue[x] # <<>>
        /\ \A t \in Types \ {x} : /\ op_queue'[t] = op_queue[t]
                                  /\ try_speculative'[t] = try_speculative[t]
        /\ NotDone(x) \/ (Done(x) /\ UNCHANGED <<pc, events>>) \/ Exhausted(x)
    <3>1. /\ x \in events[r] /\ op_queue[x] # <<>>
          /\ NotDone(x) \/ (Done(x) /\ UNCHANGED <<pc, events>>) \/ Exhausted(x)
      BY <1>1, <1>8 DEF PerformOp
    <3>2. op_queue' = op_queue \/ op_queue' = [op_queue EXCEPT ![x] = Tail(@)]
      BY <1>1, <1>8 DEF PerformOp
    <3>3. \E b \in BOOLEAN : try_speculative' = [try_speculative EXCEPT ![x] = b]
      BY <1>1, <1>8 DEF PerformOp
    <3>4. \A t \in Types \ {x} : try_speculative'[t] = try_speculative[t]
      BY <1>6, <3>3, BoolExcept
    <3> QED BY <1>6, <3>1, <3>2, <3>4
  <2>2. /\ \A t \in Types \ {x} : ready'[t] = ready[t] /\ spent'[t] = spent[t]
        /\ x = "read" => nospace' = nospace
    BY <1>2, <2>1, PerformTyped
  <2>3. \A t \in Types \ {x} : Wanting(t)' <=> Wanting(t)
    BY <1>2, <2>1 DEF Wanting
  <2>4. Wanting(x)
    BY <2>1 DEF Wanting
  <2>5. OutRegistered'
    <3>1. op_queue'["write"] # <<>> => epollout
      BY <2>1 DEF EdgeInv, Edges, OutRegistered
    <3> QED BY <1>2, <1>3, <3>1 DEF OutRegistered
  <2>6. ~ Ready(x)' \/ spent'[x] \/ Visiting(x)'
    <3>1. CASE NotDone(x)
      BY <1>2, <3>1 DEF NotDone, Ready
    <3>2. CASE UNCHANGED <<pc, events>>
      BY <1>1, <2>1, <3>2 DEF Visiting
    <3>3. CASE Exhausted(x)
      BY <1>2, <1>6, <3>3 DEF Exhausted, Ready
    <3> QED BY <2>1, <3>1, <3>2, <3>3
  <2>7. EdgeAwaited'
    BY <1>2, <1>5, <2>2, <2>3, <2>6 DEF EdgeInv, Edges, EdgeAwaited, Ready, Promised
  <2>8. RoomAwaited'
    <3>1. CASE x = "read"
      BY <1>2, <1>5, <2>2, <2>3, <3>1 DEF EdgeInv, Edges, RoomAwaited
    <3>2. CASE x = "write"
      <4>1. nospace' = TRUE \/ over["write"] \/ Visiting("write")'
        <5>1. CASE NotDone(x)
          BY <3>2, <5>1 DEF NotDone
        <5>2. CASE UNCHANGED <<pc, events>>
          BY <1>1, <2>1, <3>2, <5>2 DEF Visiting
        <5>3. CASE Exhausted(x)
          BY <3>2, <5>3 DEF Exhausted
        <5> QED BY <2>1, <5>1, <5>2, <5>3
      <4> QED BY <1>2, <4>1 DEF RoomAwaited
    <3> QED BY <3>1, <3>2
  <2> QED BY <1>4, <2>5, <2>7, <2>8 DEF Edges
<1> QED BY <1>7, <1>8

(* cancel, close and the next socket. *)
LEMMA EdgesClose ==
  ASSUME EdgeInv, (\E u \in Users : CancelOps(u)) \/ Deregister \/ CloseSocket \/ Register
  PROVE  Edges'
<1>1. UNCHANGED <<pc, events, call, enqueued, task_result>>
  BY DEF CancelOps, Deregister, CloseSocket, Register, threadVars, queueVars
<1>2. OnePolls'
  BY <1>1 DEF EdgeInv, Edges, OnePolls
<1>3. CASE (\E u \in Users : CancelOps(u)) \/ Deregister
  <2>1. /\ UNCHANGED <<try_speculative, epollout, ready, over, nospace, armed, spent>>
        /\ \A t \in Types : op_queue'[t] = <<>>
        /\ socket = "open"
    BY <1>3 DEF CancelOps, Deregister, kernelVars, AbortAll, ForBoth
  <2>2. \A t \in Types : (Wanting(t)' => Wanting(t)) /\ (Visiting(t)' <=> Visiting(t))
    BY <1>1, <2>1 DEF Wanting, Visiting
  <2>3. EdgeAwaited' /\ RoomAwaited'
    BY <2>1, <2>2 DEF EdgeInv, Edges, EdgeAwaited, RoomAwaited, Promised, Ready
  <2>4. OutRegistered'
    BY <1>1, <2>1 DEF EdgeInv, Edges, OutRegistered
  <2> QED BY <1>2, <2>3, <2>4 DEF Edges
<1>4. CASE CloseSocket
  <2>1. socket' = "closed" /\ UNCHANGED <<op_queue, epollout>>
    BY <1>4 DEF CloseSocket, descriptorVars
  <2>2. EdgeAwaited' /\ RoomAwaited' /\ OutRegistered'
    BY <1>1, <2>1 DEF EdgeAwaited, RoomAwaited, OutRegistered, EdgeInv, Edges
  <2> QED BY <1>2, <2>2 DEF Edges
<1>5. CASE Register
  <2>1. /\ op_queue = ForBoth(<<>>) /\ UNCHANGED op_queue /\ try_speculative' = ForBoth(TRUE)
        /\ \A u \in Users : call[u] = None
    BY <1>5 DEF Register, EdgeInv, NothingLeftBehind, TypeOK
  <2>2. \A t \in Types : ~ Wanting(t)'
    BY <1>1, <2>1 DEF Wanting, ForBoth
  <2>3. EdgeAwaited' /\ RoomAwaited' /\ OutRegistered'
    BY <1>1, <2>1, <2>2 DEF EdgeAwaited, RoomAwaited, OutRegistered, ForBoth
  <2> QED BY <1>2, <2>3 DEF Edges
<1> QED BY <1>3, <1>4, <1>5

LEMMA EdgesNext == EdgeInv /\ [Next]_vars => Edges'
<1> SUFFICES ASSUME EdgeInv, [Next]_vars PROVE Edges'
  OBVIOUS
<1>1. CASE KernelStep
  BY <1>1, EdgesKernel
<1>2. ASSUME NEW u \in Users, UserStep(u) \/ CallStep(u) PROVE Edges'
  BY <1>2, EdgesStart, EdgesModify, EdgesQueue, EdgesClose DEF UserStep, CallStep
<1>3. ASSUME NEW r \in Runners, EpollWait(r) \/ Take(r) \/ LockDescriptor(r) \/ RunStep(r)
      PROVE  Edges'
  BY <1>3, EdgesEpoll, EdgesEvent, EdgesPerform DEF RunStep
<1>4. CASE Deregister \/ CloseSocket \/ Register
  BY <1>4, EdgesClose
<1>5. CASE UNCHANGED vars
  <2>1. /\ UNCHANGED <<threadVars, descriptorVars, queueVars, epollout>>
        /\ UNCHANGED <<ready, over, nospace, armed, socket, spent>>
    BY <1>5 DEF vars, kernelVars, historyVars, descriptorVars
  <2>2. \A t \in Types : (Visiting(t)' <=> Visiting(t)) /\ (Wanting(t)' <=> Wanting(t))
    BY <2>1, VisitingKept
  <2>3. EdgeAwaited' /\ RoomAwaited'
    BY <2>1, <2>2 DEF EdgeInv, Edges, EdgeAwaited, RoomAwaited, Promised, Ready
  <2> QED BY <2>1, <2>3 DEF EdgeInv, Edges, OutRegistered, OnePolls, threadVars, descriptorVars,
                           queueVars
<1> QED BY <1>1, <1>2, <1>3, <1>4, <1>5 DEF Next

LEMMA EdgesHold == Spec => []EdgeInv
<1>1. Init => EdgeInv
  BY TypeInit, EdgesInit DEF EdgeInv, Init, NothingLeftBehind
<1>2. EdgeInv /\ [Next]_vars => EdgeInv'
  BY TypeNext, LeftNext, EdgesNext DEF EdgeInv
<1> QED BY <1>1, <1>2, PTL DEF Spec

LEMMA AwaitedIsNoticed ==
  ASSUME EdgeInv, NEW t \in Types, Wanting(t), Ready(t), ~ spent[t], socket # "closed"
  PROVE  Noticed(t) \/ (t = "write" /\ ~ epollout)
<1>1. Promised(t)
  BY DEF EdgeInv, Edges, EdgeAwaited
<1>2. t \in Mask(epollout) \/ (t = "write" /\ ~ epollout)
  BY DEF Mask
<1> QED BY <1>1, <1>2 DEF Promised, Noticed, Visiting

(* No operation waits in a queue for an edge that has come and gone.         *)
THEOREM NoMissedEdgeHolds == Spec => []NoMissedEdge
<1>1. EdgeInv => NoMissedEdge
  <2> SUFFICES ASSUME EdgeInv, NEW t \in Types, op_queue[t] # <<>>, Ready(t), ~ spent[t]
               PROVE  Noticed(t)
    BY DEF NoMissedEdge
  <2>1. Wanting(t) /\ (t = "write" => epollout)
    BY DEF Wanting, EdgeInv, Edges, OutRegistered
  <2>2. socket # "closed"
    BY DEF EdgeInv, NothingLeftBehind, ForBoth
  <2> QED BY <2>1, <2>2, AwaitedIsNoticed
<1> QED BY <1>1, EdgesHold, PTL

(* The attempt at once is ruled out only while an edge is to come, or while *)
(* the next start_op has epoll look again.                                 *)
THEOREM SpeculationResumesHolds == Spec => []SpeculationResumes
<1>1. EdgeInv => SpeculationResumes
  <2> SUFFICES ASSUME EdgeInv, NEW t \in Types, ~ try_speculative[t], Ready(t), ~ spent[t],
                      socket # "closed"
               PROVE  Noticed(t) \/ (t = "write" /\ ~ epollout /\ op_queue[t] = <<>>)
    BY DEF SpeculationResumes
  <2>1. Wanting(t) /\ (t = "write" /\ op_queue[t] # <<>> => epollout)
    BY DEF Wanting, EdgeInv, Edges, OutRegistered
  <2> QED BY <2>1, AwaitedIsNoticed
<1> QED BY <1>1, EdgesHold, PTL
=============================================================================
