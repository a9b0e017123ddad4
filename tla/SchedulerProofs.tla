--------------------------- MODULE SchedulerProofs ---------------------------
(***************************************************************************)
(* Proofs about Scheduler, for any number of threads, operations and        *)
(* descriptors: type correctness, that the reactor is in one place, and that *)
(* no thread stays idle while something is queued.                          *)
(*                                                                         *)
(* The last is not inductive.  What is adds the owner of the mutex (Owner);  *)
(* that the event's bit is set after a stop, and while something is queued   *)
(* and nobody has the mutex (Signalled); and that a thread which blocks in   *)
(* the reactor has been interrupted whenever task_interrupted says so        *)
(* (Interrupted).                                                          *)
(***************************************************************************)
EXTENDS Scheduler, SequenceTheorems, FiniteSetTheorems, TLAPS

Owner == \A r \in Runners : pc[r] = "loop" <=> mutex_ = r

Signalled == stopped_ \/ (op_queue # <<>> /\ mutex_ = None) => signalled

Interrupted == \A r \in Runners : pc[r] = "block" /\ task_interrupted => interrupter

Idle == \E r \in Runners : pc[r] \in {"asleep", "block"}

-----------------------------------------------------------------------------
USE Distinct DEF Threads

Things == Ops \cup Descs \cup {Task}

LEMMA TypeInit == Init => TypeOK
<1> SUFFICES ASSUME Init PROVE TypeOK
  OBVIOUS
<1>1. op_queue \in Seq(Things)
  BY DEF Init, Things
<1>2. /\ posting \in [Threads -> Seq(Ops)] /\ waiting \in [Descs -> Seq(Ops)]
      /\ private_op_queue \in [Runners -> Seq(Ops \cup Descs)]
      /\ private_work \in [Runners -> Nat]
      /\ current \in [Runners -> Ops \cup Descs \cup {None}]
  BY DEF Init
<1>3. /\ pc \in [Runners -> {"out"}] /\ 0 \in Int
      /\ \A r \in Runners : pc[r] # "perform" /\ pc[r] # "handler"
  BY DEF Init
<1> QED BY <1>1, <1>2, <1>3 DEF Init, TypeOK, Things

(* Parts of sequences that the steps take. *)
LEMMA TailTyped ==
  ASSUME NEW S, NEW s \in Seq(S), s # <<>>
  PROVE  /\ Head(s) \in S /\ Tail(s) \in Seq(S) /\ Len(Tail(s)) = Len(s) - 1 /\ Len(s) > 0
         /\ Head(s) = s[1] /\ \A i \in 1 .. Len(Tail(s)) : Tail(s)[i] = s[i + 1]
  BY HeadTailProperties, EmptySeq

LEMMA SubSeqTyped ==
  ASSUME NEW S, NEW s \in Seq(S), NEW k \in 0 .. Len(s)
  PROVE  /\ SubSeq(s, k + 1, Len(s)) \in Seq(S)
         /\ SubSeq(s, 2, k) \in Seq(S)
         /\ k # 0 => s[1] \in S
<1>1. Len(s) \in Nat /\ s \in [1 .. Len(s) -> S]
  BY LenProperties
<1>2. /\ \A i \in k + 1 .. Len(s) : s[i] \in S
      /\ \A i \in 2 .. k : s[i] \in S
  BY <1>1
<1>3. k \in Nat /\ k <= Len(s)
  BY <1>1
<1> QED BY <1>1, <1>2, <1>3, SubSeqProperties

LEMMA SetToSeqsTyped ==
  ASSUME NEW S \in SUBSET Descs, NEW s \in SetToSeqs(S)
  PROVE  s \in Seq(Ops \cup Descs)
<1>1. IsFiniteSet(S)
  BY DescsFinite, FS_Subset
<1>2. Cardinality(S) \in Nat
  BY <1>1, FS_CardinalityType
<1>3. s \in [1 .. Cardinality(S) -> Ops \cup Descs]
  BY DEF SetToSeqs
<1> QED BY <1>2, <1>3

(* The steps by what they may change. *)
WakeTyped == task_interrupted' \in BOOLEAN /\ signalled' \in BOOLEAN
             /\ interrupter' \in BOOLEAN /\ toSignal' \subseteq Threads

LEMMA WakeKeepsType ==
  ASSUME TypeOK, NEW t \in Threads, Wake(t)
  PROVE  WakeTyped
  BY DEF TypeOK, WakeTyped, Wake, Interrupt

(* A thread that goes on to a step with no operation in hand. *)
LEMMA PcMoves ==
  ASSUME TypeOK, NEW r \in Runners,
         NEW where \in {"loop", "asleep", "poll", "block", "lock", "work_finished"},
         pc' = [pc EXCEPT ![r] = where], \A s \in Runners : s # r => current'[s] = current[s]
  PROVE  /\ pc' \in [Runners -> {"out", "no_work", "lock", "loop", "asleep", "awake", "poll", "block",
                                 "task_cleanup", "perform", "cleanup", "handler", "work_finished",
                                 "returned"}]
         /\ \A s \in Runners : /\ pc'[s] = "perform" => current'[s] \in Descs
                               /\ pc'[s] = "handler" => current'[s] \in Ops
<1>1. /\ \A s \in Runners : pc'[s] = IF s = r THEN where ELSE pc[s]
      /\ DOMAIN pc' = Runners
  BY DEF TypeOK
<1>2. \A s \in Runners : /\ pc'[s] = "perform" => current'[s] \in Descs
                        /\ pc'[s] = "handler" => current'[s] \in Ops
  BY <1>1 DEF TypeOK
<1> QED BY <1>2 DEF TypeOK

LEMMA TypeSignals ==
  ASSUME TypeOK, NEW t \in Threads, Signal(t) \/ (t \in Runners /\ (SpuriousWakeup(t) \/ Reacquire(t)))
  PROVE  TypeOK'
<1> USE DEF queueVars, wakeVars, workVars, opVars, TypeOK
<1>1. CASE Signal(t)
  BY <1>1, ZenonT(30) DEF Signal, Asleep
<1>2. CASE t \in Runners /\ SpuriousWakeup(t)
  BY <1>2 DEF SpuriousWakeup
<1>3. CASE t \in Runners /\ Reacquire(t)
  <2>1. PICK where \in {"loop", "asleep"} :
          /\ t \in Runners /\ pc' = [pc EXCEPT ![t] = where] /\ mutex_' \in {t, mutex_}
          /\ UNCHANGED <<op_queue, stopped_, wakeVars, workVars, opVars, edges>>
    BY <1>3 DEF Reacquire
  <2>2. mutex_' \in Runners \cup {None}
    BY <2>1
  <2> HIDE DEF TypeOK
  <2>3. /\ pc' \in [Runners -> {"out", "no_work", "lock", "loop", "asleep", "awake", "poll", "block",
                                "task_cleanup", "perform", "cleanup", "handler", "work_finished",
                                "returned"}]
        /\ \A s \in Runners : /\ pc'[s] = "perform" => current'[s] \in Descs
                              /\ pc'[s] = "handler" => current'[s] \in Ops
    BY <2>1, PcMoves
  <2> QED BY <2>1, <2>2, <2>3 DEF TypeOK
<1> QED BY <1>1, <1>2, <1>3

LEMMA TypeStops ==
  ASSUME TypeOK, NEW t \in Threads, (t \in Runners /\ StopForWant(t)) \/ Stop(t)
  PROVE  TypeOK'
<1> DEFINE Pcs == {"out", "no_work", "lock", "loop", "asleep", "awake", "poll", "block",
                   "task_cleanup", "perform", "cleanup", "handler", "work_finished", "returned"}
<1>1. PICK pcOf \in [Runners -> Pcs] :
        /\ StopAllThreads(pcOf)
        /\ \A s \in Runners : pcOf[s] = pc[s] \/ pcOf[s] \in {"returned", "lock"}
  <2>1. CASE Stop(t)
    BY <2>1 DEF Stop, TypeOK
  <2>2. CASE t \in Runners /\ StopAllThreads([pc EXCEPT ![t] = "returned"])
    <3> DEFINE pcOf == [pc EXCEPT ![t] = "returned"]
    <3>1. /\ pcOf \in [Runners -> Pcs]
          /\ \A s \in Runners : pcOf[s] = pc[s] \/ pcOf[s] \in {"returned", "lock"}
      BY <2>2 DEF TypeOK
    <3> QED BY <2>2, <3>1
  <2>3. CASE t \in Runners /\ StopAllThreads([pc EXCEPT ![t] = "lock"])
    <3> DEFINE pcOf == [pc EXCEPT ![t] = "lock"]
    <3>1. /\ pcOf \in [Runners -> Pcs]
          /\ \A s \in Runners : pcOf[s] = pc[s] \/ pcOf[s] \in {"returned", "lock"}
      BY <2>3 DEF TypeOK
    <3> QED BY <2>3, <3>1
  <2> QED BY <2>1, <2>2, <2>3 DEF StopForWant
<1>2. pc' \in [Runners -> Pcs] /\ current' = current
  BY <1>1 DEF StopAllThreads, opVars
<1>4. \A s \in Runners : /\ pc'[s] = "perform" => current'[s] \in Descs
                        /\ pc'[s] = "handler" => current'[s] \in Ops
  BY <1>1, <1>2 DEF StopAllThreads, TypeOK
<1>3. stopped_' \in BOOLEAN /\ WakeTyped
  BY <1>1 DEF StopAllThreads, Interrupt, TypeOK, WakeTyped
<1> QED BY <1>1, <1>2, <1>3, <1>4, ZenonT(30) DEF StopAllThreads, workVars, opVars, TypeOK, WakeTyped

LEMMA TypeLoop ==
  ASSUME TypeOK, NEW r \in Runners,
         Enter(r) \/ Lock(r) \/ Leave(r) \/ TakeTask(r) \/ TakeOp(r) \/ Wait(r)
  PROVE  TypeOK'
<1> USE DEF queueVars, wakeVars, workVars, opVars, Loop
<1>1. CASE Enter(r)
  BY <1>1 DEF Enter, TypeOK
<1>2. CASE Lock(r)
  <2>1. op_queue' \in Seq(Things)
    BY <1>2 DEF Lock, TypeOK, Things
  <2> QED BY <1>2, <2>1 DEF Lock, TypeOK, Things
<1>3. CASE Leave(r)
  BY <1>3 DEF Leave, TypeOK
<1>4. CASE TakeTask(r)
  <2>1. op_queue' \in Seq(Things)
    BY <1>4, TailTyped DEF TakeTask, TypeOK, Things
  <2>2. PICK where \in {"poll", "block"} : pc' = [pc EXCEPT ![r] = where]
    BY <1>4 DEF TakeTask
  <2>3. /\ mutex_' = None /\ task_interrupted' \in BOOLEAN /\ signalled' \in BOOLEAN
        /\ toSignal' \subseteq Threads
        /\ UNCHANGED <<stopped_, interrupter, workVars, opVars, edges>>
    BY <1>4 DEF TakeTask, TypeOK, Threads
  <2>4. /\ pc' \in [Runners -> {"out", "no_work", "lock", "loop", "asleep", "awake", "poll", "block",
                                "task_cleanup", "perform", "cleanup", "handler", "work_finished",
                                "returned"}]
        /\ \A s \in Runners : /\ pc'[s] = "perform" => current'[s] \in Descs
                              /\ pc'[s] = "handler" => current'[s] \in Ops
    BY <2>2, <2>3, PcMoves
  <2> QED BY <2>1, <2>3, <2>4 DEF TypeOK, Things
<1>5. CASE TakeOp(r)
  <2>1. op_queue' \in Seq(Things) /\ Head(op_queue) \in Ops \cup Descs
    BY <1>5, TailTyped DEF TakeOp, TypeOK, Things
  <2>2. WakeTyped
    BY <1>5, WakeKeepsType DEF TakeOp, TypeOK, WakeTyped
  <2>3. /\ current' \in [Runners -> Ops \cup Descs \cup {None}]
        /\ pc' \in [Runners -> {"out", "no_work", "lock", "loop", "asleep", "awake", "poll",
                                "block", "task_cleanup", "perform", "cleanup", "handler",
                                "work_finished", "returned"}]
    BY <1>5, <2>1 DEF TakeOp, TypeOK
  <2> QED BY <1>5, <2>1, <2>2, <2>3 DEF TakeOp, TypeOK, Things, WakeTyped
<1>6. CASE Wait(r)
  BY <1>6 DEF Wait, TypeOK
<1> QED BY <1>1, <1>2, <1>3, <1>4, <1>5, <1>6

LEMMA TypeReactor ==
  ASSUME TypeOK, NEW r \in Runners, Poll(r) \/ TaskCleanup(r) \/ PerformIo(r)
  PROVE  TypeOK'
<1> USE DEF queueVars, wakeVars, workVars, opVars
<1>1. CASE Poll(r)
  <2>1. private_op_queue' \in [Runners -> Seq(Ops \cup Descs)]
    <3>1. PICK ds \in SetToSeqs(edges) :
            private_op_queue' = [private_op_queue EXCEPT ![r] = @ \o ds]
      BY <1>1 DEF Poll
    <3>2. ds \in Seq(Ops \cup Descs)
      BY SetToSeqsTyped DEF TypeOK
    <3>3. private_op_queue[r] \o ds \in Seq(Ops \cup Descs)
      BY <3>2 DEF TypeOK
    <3> QED BY <3>1, <3>3 DEF TypeOK
  <2> QED BY <1>1, <2>1, ZenonT(30) DEF Poll, TypeOK
<1>2. CASE TaskCleanup(r)
  <2>1. op_queue' \in Seq(Things)
    BY <1>2 DEF TaskCleanup, TypeOK, Things
  <2>2. outstanding_work' \in Int
    BY <1>2 DEF TaskCleanup, TypeOK
  <2> QED BY <1>2, <2>1, <2>2, SMTT(30) DEF TaskCleanup, TypeOK, Things
<1>3. CASE PerformIo(r)
  <2>1. PICK k \in 0 .. Len(waiting[current[r]]) :
          /\ waiting' = [waiting EXCEPT ![current[r]] = SubSeq(@, k + 1, Len(@))]
          /\ posting' = [posting EXCEPT ![r] = SubSeq(waiting[current[r]], 2, k)]
          /\ current' = [current EXCEPT ![r] = IF k = 0 THEN None ELSE waiting[current[r]][1]]
          /\ private_work' = [private_work EXCEPT ![r] = IF k = 0 THEN @ + 1 ELSE @]
          /\ pc' = [pc EXCEPT ![r] = IF k = 0 THEN "cleanup" ELSE "handler"]
    BY <1>3 DEF PerformIo
  <2>2. current[r] \in Descs /\ waiting[current[r]] \in Seq(Ops)
    BY <1>3 DEF PerformIo, TypeOK
  <2>3. /\ SubSeq(waiting[current[r]], k + 1, Len(waiting[current[r]])) \in Seq(Ops)
        /\ SubSeq(waiting[current[r]], 2, k) \in Seq(Ops)
        /\ k # 0 => waiting[current[r]][1] \in Ops
    BY <2>2, SubSeqTyped
  <2>4. /\ waiting' \in [Descs -> Seq(Ops)] /\ posting' \in [Threads -> Seq(Ops)]
        /\ private_work' \in [Runners -> Nat]
    BY <2>1, <2>2, <2>3, SMTT(30) DEF TypeOK
  <2>5. /\ current' \in [Runners -> Ops \cup Descs \cup {None}]
        /\ \A s \in Runners : /\ pc'[s] = "perform" => current'[s] \in Descs
                              /\ pc'[s] = "handler" => current'[s] \in Ops
    BY <2>1, <2>3 DEF TypeOK
  <2> QED BY <1>3, <2>1, <2>4, <2>5 DEF PerformIo, TypeOK
<1> QED BY <1>1, <1>2, <1>3

LEMMA TypeFinished ==
  ASSUME TypeOK, NEW r \in Runners, Cleanup(r) \/ HandlerReturns(r)
  PROVE  TypeOK'
<1> USE DEF queueVars, wakeVars, workVars, opVars
<1>1. Finished(r)
  BY DEF Cleanup, HandlerReturns
<1>2. outstanding_work' \in Int /\ private_work' \in [Runners -> Nat]
  BY <1>1 DEF Finished, TypeOK
<1>3. PICK where \in {"work_finished", "lock"} : pc' = [pc EXCEPT ![r] = where]
  BY <1>1, Zenon DEF Finished
<1>4. CASE Cleanup(r)
  <2>1. UNCHANGED <<queueVars, wakeVars, opVars, edges>>
    BY <1>4 DEF Cleanup
  <2>2. /\ pc' \in [Runners -> {"out", "no_work", "lock", "loop", "asleep", "awake", "poll", "block",
                                "task_cleanup", "perform", "cleanup", "handler", "work_finished",
                                "returned"}]
        /\ \A s \in Runners : /\ pc'[s] = "perform" => current'[s] \in Descs
                              /\ pc'[s] = "handler" => current'[s] \in Ops
    BY <1>3, <2>1, PcMoves
  <2> QED BY <1>2, <2>1, <2>2 DEF TypeOK
<1>5. CASE HandlerReturns(r)
  <2>1. /\ UNCHANGED <<queueVars, wakeVars, posting, waiting, private_op_queue, unused, edges>>
        /\ current' = [current EXCEPT ![r] = None] /\ done' = done \cup {current[r]}
        /\ current[r] \in Ops
    BY <1>5 DEF HandlerReturns, Free, TypeOK
  <2>2. /\ current' \in [Runners -> Ops \cup Descs \cup {None}]
        /\ \A s \in Runners : s # r => current'[s] = current[s]
    BY <2>1 DEF TypeOK
  <2>3. /\ pc' \in [Runners -> {"out", "no_work", "lock", "loop", "asleep", "awake", "poll", "block",
                                "task_cleanup", "perform", "cleanup", "handler", "work_finished",
                                "returned"}]
        /\ \A s \in Runners : /\ pc'[s] = "perform" => current'[s] \in Descs
                              /\ pc'[s] = "handler" => current'[s] \in Ops
    BY <1>3, <2>2, PcMoves
  <2> QED BY <1>2, <2>1, <2>2, <2>3 DEF TypeOK
<1> QED BY <1>4, <1>5

LEMMA TypePosts ==
  ASSUME TypeOK, NEW t \in Threads, NEW op \in Ops, Post(t, op) \/ PostContinuation(t, op)
  PROVE  TypeOK'
<1> USE DEF queueVars, wakeVars, workVars, opVars
<1>1. CASE Post(t, op)
  <2>1. <<op>> \in Seq(Ops) /\ outstanding_work' \in Int
    BY <1>1 DEF Post, TypeOK
  <2> QED BY <1>1, <2>1 DEF Post, TypeOK
<1>2. CASE PostContinuation(t, op)
  <2>1. t \in Runners /\ Append(private_op_queue[t], op) \in Seq(Ops \cup Descs)
    BY <1>2 DEF PostContinuation, TypeOK
  <2>2. private_op_queue' \in [Runners -> Seq(Ops \cup Descs)]
    BY <1>2, <2>1 DEF PostContinuation, TypeOK
  <2> QED BY <1>2, <2>2 DEF PostContinuation, TypeOK
<1> QED BY <1>1, <1>2

LEMMA TypeStarts ==
  ASSUME TypeOK, NEW t \in Threads, NEW d \in Descs,
         (\E op \in Ops : StartOp(t, op, d)) \/ CancelOps(t, d)
  PROVE  TypeOK'
<1> USE DEF queueVars, wakeVars, workVars, opVars
<1>1. ASSUME NEW op \in Ops, StartOp(t, op, d) PROVE TypeOK'
  <2>1. Append(waiting[d], op) \in Seq(Ops) /\ outstanding_work' \in Int
    BY <1>1 DEF StartOp, TypeOK
  <2> QED BY <1>1, <2>1 DEF StartOp, TypeOK
<1>2. CASE CancelOps(t, d)
  <2>1. waiting[d] \in Seq(Ops) /\ <<>> \in Seq(Ops)
    BY DEF TypeOK
  <2> QED BY <1>2, <2>1 DEF CancelOps, TypeOK
<1> QED BY <1>1, <1>2

LEMMA TypePush ==
  ASSUME TypeOK, NEW t \in Threads, Push(t)
  PROVE  TypeOK'
<1> USE DEF queueVars, wakeVars, workVars, opVars
<1>1. op_queue' \in Seq(Things) /\ posting' \in [Threads -> Seq(Ops)]
  BY DEF Push, TypeOK, Things
<1>2. WakeTyped
  BY WakeKeepsType DEF Push
<1> QED BY <1>1, <1>2 DEF Push, TypeOK, Things, WakeTyped

LEMMA TypeOther ==
  ASSUME TypeOK, (\E d \in Descs : Edge(d)) \/ UNCHANGED vars
  PROVE  TypeOK'
  BY DEF Edge, vars, queueVars, wakeVars, workVars, opVars, TypeOK

(* Next, with the operation and the descriptor of a call made explicit. *)
LEMMA NextSplit ==
  ASSUME [Next]_vars
  PROVE  \/ \E r \in Runners :
              \/ Enter(r) \/ StopForWant(r) \/ Lock(r) \/ Reacquire(r) \/ TaskCleanup(r)
              \/ Leave(r) \/ TakeTask(r) \/ TakeOp(r) \/ Wait(r) \/ Poll(r) \/ PerformIo(r)
              \/ Cleanup(r) \/ HandlerReturns(r) \/ SpuriousWakeup(r)
         \/ \E t \in Threads :
              \/ Push(t) \/ Signal(t) \/ Stop(t)
              \/ \E op \in Ops : Post(t, op) \/ PostContinuation(t, op)
              \/ \E op \in Ops, d \in Descs : StartOp(t, op, d)
              \/ \E d \in Descs : CancelOps(t, d)
         \/ (\E d \in Descs : Edge(d)) \/ UNCHANGED vars
  BY DEF Next, RunStep, TakeMutex, CallStep, UserStep

LEMMA TypeNext == TypeOK /\ [Next]_vars => TypeOK'
  BY NextSplit, TypeSignals, TypeStops, TypeLoop, TypeReactor, TypeFinished, TypePosts, TypeStarts,
     TypePush, TypeOther

(* Every variable of the scheduler keeps its type. *)
THEOREM TypeCorrect == Spec => []TypeOK
  BY TypeInit, TypeNext, PTL DEF Spec

-----------------------------------------------------------------------------
(*************************** where the reactor is **************************)
TaskIn(q) == {i \in DOMAIN q : q[i] = Task}

LEMMA ThingsTyped ==
  ASSUME NEW s \in Seq(Ops \cup Descs)
  PROVE  s \in Seq(Things)
<1>1. Len(s) \in Nat /\ \A i \in 1 .. Len(s) : s[i] \in Things
  BY LenProperties DEF Things
<1> QED BY <1>1

LEMMA TaskInAppended ==
  ASSUME NEW q \in Seq(Things), NEW p \in Seq(Ops \cup Descs)
  PROVE  q \o p \in Seq(Things) /\ TaskIn(q \o p) = TaskIn(q)
<1>0. q \o p \in Seq(Things)
  BY ThingsTyped
<1>1. /\ DOMAIN q = 1 .. Len(q) /\ DOMAIN p = 1 .. Len(p)
      /\ DOMAIN (q \o p) = 1 .. Len(q) + Len(p)
      /\ Len(q) \in Nat /\ Len(p) \in Nat
  BY LenProperties DEF Things
<1>2. \A i \in 1 .. Len(q) + Len(p) :
        (q \o p)[i] = IF i <= Len(q) THEN q[i] ELSE p[i - Len(q)]
  BY DEF Things
<1>3. \A i \in 1 .. Len(p) : p[i] # Task
  BY <1>1
<1>4. \A i \in 1 .. Len(q) + Len(p) : (q \o p)[i] = Task <=> i <= Len(q) /\ q[i] = Task
  BY <1>1, <1>2, <1>3
<1> QED BY <1>0, <1>1, <1>4 DEF TaskIn

LEMMA TaskInReturned ==
  ASSUME NEW q \in Seq(Things), TaskIn(q) = {}
  PROVE  \E i \in DOMAIN (q \o <<Task>>) : TaskIn(q \o <<Task>>) = {i}
<1>1. /\ DOMAIN q = 1 .. Len(q) /\ DOMAIN (q \o <<Task>>) = 1 .. Len(q) + 1
      /\ Len(q) \in Nat
  BY LenProperties DEF Things
<1>2. \A i \in 1 .. Len(q) + 1 :
        (q \o <<Task>>)[i] = IF i <= Len(q) THEN q[i] ELSE Task
  BY DEF Things
<1>3. \A i \in 1 .. Len(q) : q[i] # Task
  BY <1>1 DEF TaskIn
<1>4. TaskIn(q \o <<Task>>) = {Len(q) + 1}
  BY <1>1, <1>2, <1>3 DEF TaskIn
<1> QED BY <1>1, <1>4, SMTT(30)

LEMMA TaskInTail ==
  ASSUME NEW q \in Seq(Things), q # <<>>
  PROVE  /\ TaskIn(q) = {} => TaskIn(Tail(q)) = {}
         /\ \A i \in DOMAIN q :
              TaskIn(q) = {i} => IF Head(q) = Task THEN TaskIn(Tail(q)) = {}
                                 ELSE i - 1 \in DOMAIN Tail(q) /\ TaskIn(Tail(q)) = {i - 1}
<1>1. /\ DOMAIN q = 1 .. Len(q) /\ DOMAIN Tail(q) = 1 .. Len(q) - 1 /\ Len(q) \in Nat
      /\ Head(q) = q[1] /\ Len(q) > 0
      /\ \A i \in 1 .. Len(q) - 1 : Tail(q)[i] = q[i + 1]
  BY TailTyped, LenProperties
<1>2. ASSUME TaskIn(q) = {} PROVE TaskIn(Tail(q)) = {}
  BY <1>1, <1>2 DEF TaskIn
<1>3. ASSUME NEW i \in DOMAIN q, TaskIn(q) = {i}
      PROVE  IF Head(q) = Task THEN TaskIn(Tail(q)) = {}
             ELSE i - 1 \in DOMAIN Tail(q) /\ TaskIn(Tail(q)) = {i - 1}
  <2>1. q[i] = Task /\ \A j \in 1 .. Len(q) : q[j] = Task => j = i
    BY <1>1, <1>3 DEF TaskIn
  <2>2. CASE Head(q) = Task
    <3>1. i = 1
      BY <1>1, <2>1, <2>2
    <3>2. \A j \in 1 .. Len(q) - 1 : Tail(q)[j] # Task
      BY <1>1, <2>1, <3>1
    <3> QED BY <1>1, <2>2, <3>2 DEF TaskIn
  <2>3. CASE Head(q) # Task
    <3>1. i - 1 \in 1 .. Len(q) - 1
      BY <1>1, <2>1, <2>3
    <3>2. \A j \in 1 .. Len(q) - 1 : Tail(q)[j] = Task <=> j = i - 1
      BY <1>1, <2>1
    <3> QED BY <1>1, <2>3, <3>1, <3>2 DEF TaskIn
  <2> QED BY <2>2, <2>3
<1> QED BY <1>2, <1>3

LEMMA ReactorInit == Init => OneReactor
<1> SUFFICES ASSUME Init PROVE OneReactor
  OBVIOUS
<1>1. Pollers = {}
  BY DEF Init, Pollers, Polling
<1>2. 1 \in DOMAIN op_queue /\ TaskAt = {1}
  BY DEF Init, TaskAt
<1> QED BY <1>1, <1>2 DEF OneReactor

(* The steps that neither touch the queue nor enter or leave the reactor.   *)
LEMMA ReactorKept ==
  ASSUME TypeOK, NEW t \in Threads,
         \/ t \in Runners /\ \/ Enter(t) \/ StopForWant(t) \/ Reacquire(t) \/ Leave(t) \/ Wait(t)
                             \/ PerformIo(t) \/ Cleanup(t) \/ HandlerReturns(t)
                             \/ SpuriousWakeup(t)
         \/ Signal(t) \/ Stop(t)
         \/ \E op \in Ops : Post(t, op) \/ PostContinuation(t, op)
         \/ \E op \in Ops, d \in Descs : StartOp(t, op, d)
         \/ \E d \in Descs : CancelOps(t, d)
         \/ (\E d \in Descs : Edge(d)) \/ UNCHANGED vars
  PROVE  op_queue' = op_queue /\ Pollers' = Pollers
<1> USE DEF queueVars, Pollers, Polling, TypeOK
<1>1. CASE t \in Runners /\ (Enter(t) \/ Reacquire(t) \/ Leave(t) \/ Wait(t) \/ SpuriousWakeup(t))
  BY <1>1 DEF Enter, Reacquire, Leave, Wait, SpuriousWakeup, Loop
<1>2. CASE (t \in Runners /\ StopForWant(t)) \/ Stop(t)
  <2>1. op_queue' = op_queue
    BY <1>2 DEF StopForWant, Stop, StopAllThreads
  <2>2. \A s \in Runners : pc'[s] = pc[s] \/ (~ Polling(s) /\ ~ Polling(s)')
    BY <1>2 DEF StopForWant, Stop, StopAllThreads, Asleep
  <2> QED BY <2>1, <2>2
<1>3. CASE t \in Runners /\ PerformIo(t)
  BY <1>3 DEF PerformIo
<1>4. CASE t \in Runners /\ (Cleanup(t) \/ HandlerReturns(t))
  BY <1>4 DEF Cleanup, HandlerReturns, Finished, Free
<1>5. CASE Signal(t)
  BY <1>5 DEF Signal, Asleep
<1>6. CASE \/ \E op \in Ops : Post(t, op) \/ PostContinuation(t, op)
           \/ \E op \in Ops, d \in Descs : StartOp(t, op, d)
           \/ \E d \in Descs : CancelOps(t, d)
  BY <1>6 DEF Post, PostContinuation, StartOp, CancelOps
<1>7. CASE (\E d \in Descs : Edge(d)) \/ UNCHANGED vars
  BY <1>7 DEF Edge, vars
<1> QED BY <1>1, <1>2, <1>3, <1>4, <1>5, <1>6, <1>7

LEMMA ReactorMoves ==
  ASSUME TypeOK, OneReactor, NEW t \in Threads,
         \/ t \in Runners /\ \/ Lock(t) \/ TakeTask(t) \/ TakeOp(t) \/ Poll(t) \/ TaskCleanup(t)
         \/ Push(t)
  PROVE  OneReactor'
<1>0. TaskAt = TaskIn(op_queue) /\ TaskAt' = TaskIn(op_queue') /\ op_queue \in Seq(Things)
  BY DEF TaskAt, TaskIn, TypeOK, Things
<1> USE DEF TypeOK
<1>1. CASE (t \in Runners /\ Lock(t)) \/ Push(t)
  <2>1. PICK p \in Seq(Ops \cup Descs) : op_queue' = op_queue \o p
    <3>1. CASE t \in Runners /\ Lock(t)
      BY <3>1 DEF Lock
    <3>2. CASE Push(t)
      <4>1. posting[t] \in Seq(Ops \cup Descs)
        OBVIOUS
      <4> QED BY <3>2, <4>1 DEF Push
    <3> QED BY <1>1, <3>1, <3>2
  <2>2. Pollers' = Pollers
    BY <1>1 DEF Lock, Push, Pollers, Polling
  <2>3. TaskIn(op_queue') = TaskIn(op_queue)
    BY <1>0, <2>1, TaskInAppended
  <2>4. DOMAIN op_queue \subseteq DOMAIN op_queue'
    BY <1>0, <2>1
  <2> QED BY <1>0, <2>2, <2>3, <2>4 DEF OneReactor
<1>2. CASE t \in Runners /\ TakeTask(t)
  <2>1. /\ op_queue # <<>> /\ Head(op_queue) = Task /\ op_queue' = Tail(op_queue)
        /\ pc[t] = "loop" /\ pc'[t] \in {"poll", "block"}
        /\ \A s \in Runners \ {t} : pc'[s] = pc[s]
    BY <1>2 DEF TakeTask, Loop
  <2>2. 1 \in TaskAt
    BY <1>0, <2>1, TailTyped DEF TaskIn
  <2>3. Pollers = {} /\ TaskIn(Tail(op_queue)) = {}
    BY <1>0, <2>1, <2>2, TaskInTail DEF OneReactor
  <2>4. Pollers' = {t}
    BY <1>2, <2>1, <2>3 DEF Pollers, Polling
  <2> QED BY <1>0, <1>2, <2>1, <2>3, <2>4 DEF OneReactor
<1>3. CASE t \in Runners /\ TakeOp(t)
  <2>1. /\ op_queue # <<>> /\ Head(op_queue) # Task /\ op_queue' = Tail(op_queue)
        /\ Pollers' = Pollers
    BY <1>3 DEF TakeOp, Loop, Pollers, Polling
  <2> QED BY <1>0, <2>1, TaskInTail DEF OneReactor
<1>4. CASE t \in Runners /\ Poll(t)
  <2>1. op_queue' = op_queue /\ Pollers' = Pollers
    BY <1>4 DEF Poll, queueVars, Pollers, Polling
  <2> QED BY <1>0, <2>1 DEF OneReactor
<1>5. CASE t \in Runners /\ TaskCleanup(t)
  <2>1. /\ pc[t] = "task_cleanup" /\ pc' = [pc EXCEPT ![t] = "loop"]
        /\ op_queue' = op_queue \o private_op_queue[t] \o <<Task>>
    BY <1>5 DEF TaskCleanup
  <2>2. Pollers = {t} /\ TaskIn(op_queue) = {}
    BY <1>0, <1>5, <2>1 DEF OneReactor, Pollers, Polling
  <2>3. Pollers' = {}
    BY <2>1, <2>2 DEF Pollers, Polling
  <2>4. /\ op_queue \o private_op_queue[t] \in Seq(Things)
        /\ TaskIn(op_queue \o private_op_queue[t]) = {}
    <3>1. private_op_queue[t] \in Seq(Ops \cup Descs)
      BY <1>5
    <3> QED BY <1>0, <2>2, <3>1, TaskInAppended
  <2> QED BY <1>0, <2>1, <2>3, <2>4, TaskInReturned DEF OneReactor
<1> QED BY <1>1, <1>2, <1>3, <1>4, <1>5

LEMMA ReactorNext == TypeOK /\ OneReactor /\ [Next]_vars => OneReactor'
<1> SUFFICES ASSUME TypeOK, OneReactor, [Next]_vars PROVE OneReactor'
  OBVIOUS
<1>1. ASSUME op_queue' = op_queue, Pollers' = Pollers PROVE OneReactor'
  BY <1>1 DEF OneReactor, TaskAt
<1>2. CASE (\E d \in Descs : Edge(d)) \/ UNCHANGED vars
  BY <1>1, <1>2 DEF Edge, vars, queueVars, Pollers, Polling
<1> QED BY <1>1, <1>2, NextSplit, ReactorKept, ReactorMoves

(* The reactor's turn is in the queue, once, or with one thread.            *)
THEOREM OneReactorHolds == Spec => []OneReactor
  BY TypeCorrect, ReactorInit, ReactorNext, PTL DEF Spec

-----------------------------------------------------------------------------
(************************ a descriptor is queued once **********************)
(***************************************************************************)
(* The strengthening of DescriptorQueuedOnce: a descriptor in the queue is    *)
(* followed by the mark of the reactor's turn, so none is left when the turn *)
(* comes; and only the thread whose turn it was has descriptors of its own.  *)
(***************************************************************************)
TaskFollows(q) ==
  \A j \in DOMAIN q : q[j] \in Descs => \E i \in DOMAIN q : i > j /\ q[i] = Task

OwnOps == \A r \in Runners : pc[r] # "task_cleanup" => private_op_queue[r] \in Seq(Ops)

DescriptorPlaces == TaskFollows(op_queue) /\ OwnOps

LEMMA TaskFollowsAppended ==
  ASSUME NEW q \in Seq(Things), TaskFollows(q), NEW p \in Seq(Ops)
  PROVE  TaskFollows(q \o p)
<1>1. /\ DOMAIN q = 1 .. Len(q) /\ DOMAIN (q \o p) = 1 .. Len(q) + Len(p)
      /\ Len(q) \in Nat /\ Len(p) \in Nat
      /\ \A i \in 1 .. Len(p) : p[i] \notin Descs
  BY LenProperties DEF Things
<1>2. \A i \in 1 .. Len(q) + Len(p) :
        (q \o p)[i] = IF i <= Len(q) THEN q[i] ELSE p[i - Len(q)]
  BY DEF Things
<1> SUFFICES ASSUME NEW j \in 1 .. Len(q) + Len(p), (q \o p)[j] \in Descs
             PROVE  \E i \in 1 .. Len(q) + Len(p) : i > j /\ (q \o p)[i] = Task
  BY <1>1 DEF TaskFollows
<1>3. j \in 1 .. Len(q) /\ q[j] \in Descs
  <2>1. CASE j <= Len(q)
    BY <1>1, <1>2, <2>1
  <2>2. CASE ~ (j <= Len(q))
    <3>1. j - Len(q) \in 1 .. Len(p) /\ (q \o p)[j] = p[j - Len(q)]
      BY <1>1, <1>2, <2>2
    <3> QED BY <1>1, <3>1
  <2> QED BY <2>1, <2>2
<1>4. PICK i \in 1 .. Len(q) : i > j /\ q[i] = Task
  BY <1>1, <1>3 DEF TaskFollows
<1>5. i \in 1 .. Len(q) + Len(p) /\ (q \o p)[i] = q[i]
  BY <1>1, <1>2
<1> QED BY <1>4, <1>5

LEMMA TaskFollowsReturned ==
  ASSUME NEW q \in Seq(Things)
  PROVE  TaskFollows(q \o <<Task>>)
<1>1. /\ DOMAIN (q \o <<Task>>) = 1 .. Len(q) + 1 /\ Len(q) \in Nat
      /\ (q \o <<Task>>)[Len(q) + 1] = Task
  BY LenProperties DEF Things
<1>2. \A j \in 1 .. Len(q) + 1 : (q \o <<Task>>)[j] \in Descs => j < Len(q) + 1
  BY <1>1
<1> QED BY <1>1, <1>2 DEF TaskFollows

LEMMA TaskFollowsTail ==
  ASSUME NEW q \in Seq(Things), TaskFollows(q), q # <<>>
  PROVE  TaskFollows(Tail(q))
<1>1. /\ DOMAIN q = 1 .. Len(q) /\ DOMAIN Tail(q) = 1 .. Len(q) - 1 /\ Len(q) \in Nat
      /\ \A i \in 1 .. Len(q) - 1 : Tail(q)[i] = q[i + 1]
  BY TailTyped, LenProperties
<1> SUFFICES ASSUME NEW j \in 1 .. Len(q) - 1, Tail(q)[j] \in Descs
             PROVE  \E i \in 1 .. Len(q) - 1 : i > j /\ Tail(q)[i] = Task
  BY <1>1 DEF TaskFollows
<1>2. j + 1 \in 1 .. Len(q) /\ q[j + 1] \in Descs
  BY <1>1
<1>3. PICK i \in 1 .. Len(q) : i > j + 1 /\ q[i] = Task
  BY <1>1, <1>2 DEF TaskFollows
<1>4. i - 1 \in 1 .. Len(q) - 1 /\ i - 1 > j /\ Tail(q)[i - 1] = Task
  BY <1>1, <1>3
<1> QED BY <1>4

LEMMA PlacesInit == Init => DescriptorPlaces
<1> SUFFICES ASSUME Init PROVE DescriptorPlaces
  OBVIOUS
<1>1. TaskFollows(op_queue)
  BY DEF Init, TaskFollows
<1>2. OwnOps
  BY DEF Init, OwnOps
<1> QED BY <1>1, <1>2 DEF DescriptorPlaces

(* The steps that leave the queue as it is. *)
LEMMA PlacesKept ==
  ASSUME TypeOK, DescriptorPlaces, NEW t \in Threads,
         \/ t \in Runners /\ \/ Enter(t) \/ StopForWant(t) \/ Reacquire(t) \/ Leave(t) \/ Wait(t)
                             \/ PerformIo(t) \/ Cleanup(t) \/ HandlerReturns(t)
                             \/ SpuriousWakeup(t)
         \/ Signal(t) \/ Stop(t)
         \/ \E op \in Ops : Post(t, op) \/ PostContinuation(t, op)
         \/ \E op \in Ops, d \in Descs : StartOp(t, op, d)
         \/ \E d \in Descs : CancelOps(t, d)
  PROVE  DescriptorPlaces'
<1>0. op_queue' = op_queue
  BY ReactorKept
<1>a. ASSUME private_op_queue' = private_op_queue,
             \A s \in Runners : pc[s] = "task_cleanup" => pc'[s] = "task_cleanup"
      PROVE  DescriptorPlaces'
  BY <1>0, <1>a DEF DescriptorPlaces, OwnOps
<1> USE DEF opVars, TypeOK
<1>1. CASE t \in Runners /\ (Enter(t) \/ Reacquire(t) \/ Leave(t) \/ Wait(t) \/ SpuriousWakeup(t))
  <2>1. /\ private_op_queue' = private_op_queue
        /\ \A s \in Runners : pc[s] = "task_cleanup" => pc'[s] = "task_cleanup"
    BY <1>1 DEF Enter, Reacquire, Leave, Wait, SpuriousWakeup, Loop
  <2> QED BY <1>a, <2>1
<1>2. CASE (t \in Runners /\ StopForWant(t)) \/ Stop(t)
  <2>1. /\ private_op_queue' = private_op_queue
        /\ \A s \in Runners : pc[s] = "task_cleanup" => pc'[s] = "task_cleanup"
    BY <1>2, ZenonT(30) DEF StopForWant, Stop, StopAllThreads, Asleep
  <2> QED BY <1>a, <2>1
<1>3. CASE t \in Runners /\ PerformIo(t)
  <2>1. /\ private_op_queue' = private_op_queue
        /\ \A s \in Runners : pc[s] = "task_cleanup" => pc'[s] = "task_cleanup"
    BY <1>3 DEF PerformIo
  <2> QED BY <1>a, <2>1
<1>4. CASE t \in Runners /\ (Cleanup(t) \/ HandlerReturns(t))
  <2>1. /\ private_op_queue' = private_op_queue
        /\ \A s \in Runners : pc[s] = "task_cleanup" => pc'[s] = "task_cleanup"
    BY <1>4 DEF Cleanup, HandlerReturns, Finished, Free
  <2> QED BY <1>a, <2>1
<1>5. CASE Signal(t)
  <2>1. /\ private_op_queue' = private_op_queue
        /\ \A s \in Runners : pc[s] = "task_cleanup" => pc'[s] = "task_cleanup"
    BY <1>5 DEF Signal, Asleep
  <2> QED BY <1>a, <2>1
<1>6. ASSUME NEW op \in Ops, PostContinuation(t, op) PROVE DescriptorPlaces'
  <2>1. /\ t \in Runners /\ pc[t] = "handler" /\ pc' = pc
        /\ private_op_queue' = [private_op_queue EXCEPT ![t] = Append(@, op)]
    BY <1>6 DEF PostContinuation, Free
  <2>2. private_op_queue[t] \in Seq(Ops)
    BY <2>1 DEF DescriptorPlaces, OwnOps
  <2>3. Append(private_op_queue[t], op) \in Seq(Ops)
    BY <2>2
  <2> QED BY <1>0, <2>1, <2>3 DEF DescriptorPlaces, OwnOps
<1>7. CASE \/ \E op \in Ops : Post(t, op)
           \/ \E op \in Ops, d \in Descs : StartOp(t, op, d)
           \/ \E d \in Descs : CancelOps(t, d)
  <2>1. private_op_queue' = private_op_queue /\ pc' = pc
    BY <1>7 DEF Post, StartOp, CancelOps
  <2> QED BY <1>a, <2>1
<1> QED BY <1>1, <1>2, <1>3, <1>4, <1>5, <1>6, <1>7

LEMMA PlacesMove ==
  ASSUME TypeOK, DescriptorPlaces, NEW t \in Threads,
         \/ t \in Runners /\ \/ Lock(t) \/ TakeTask(t) \/ TakeOp(t) \/ Poll(t) \/ TaskCleanup(t)
         \/ Push(t)
  PROVE  DescriptorPlaces'
<1>0. op_queue \in Seq(Things) /\ TaskFollows(op_queue) /\ OwnOps
  BY DEF DescriptorPlaces, TypeOK, Things
<1> USE DEF TypeOK
<1>1. CASE t \in Runners /\ Lock(t)
  <2>1. /\ pc[t] = "lock" /\ pc' = [pc EXCEPT ![t] = "loop"]
        /\ op_queue' = op_queue \o private_op_queue[t]
        /\ private_op_queue' = [private_op_queue EXCEPT ![t] = <<>>]
    BY <1>1 DEF Lock
  <2>2. private_op_queue[t] \in Seq(Ops)
    BY <1>0, <1>1, <2>1 DEF OwnOps
  <2>3. OwnOps'
    BY <1>0, <2>1 DEF OwnOps
  <2>4. TaskFollows(op_queue')
    BY <1>0, <2>1, <2>2, TaskFollowsAppended
  <2> QED BY <2>3, <2>4 DEF DescriptorPlaces
<1>2. CASE Push(t)
  <2>1. /\ pc' = pc /\ private_op_queue' = private_op_queue /\ posting[t] \in Seq(Ops)
        /\ op_queue' = op_queue \o posting[t]
    BY <1>2 DEF Push
  <2>2. TaskFollows(op_queue')
    BY <1>0, <2>1, TaskFollowsAppended
  <2> QED BY <1>0, <2>1, <2>2 DEF DescriptorPlaces, OwnOps
<1>3. CASE t \in Runners /\ (TakeTask(t) \/ TakeOp(t))
  <2>1. /\ op_queue # <<>> /\ op_queue' = Tail(op_queue)
        /\ private_op_queue' = private_op_queue /\ pc[t] = "loop"
        /\ \A s \in Runners \ {t} : pc'[s] = pc[s]
    BY <1>3 DEF TakeTask, TakeOp, Loop, opVars
  <2>2. TaskFollows(op_queue')
    BY <1>0, <2>1, TaskFollowsTail
  <2>3. OwnOps'
    BY <1>0, <2>1 DEF OwnOps
  <2> QED BY <2>2, <2>3 DEF DescriptorPlaces
<1>4. CASE t \in Runners /\ Poll(t)
  <2>1. /\ op_queue' = op_queue /\ pc' = [pc EXCEPT ![t] = "task_cleanup"]
        /\ \A s \in Runners \ {t} : private_op_queue'[s] = private_op_queue[s]
    BY <1>4 DEF Poll, queueVars
  <2> QED BY <1>0, <2>1 DEF DescriptorPlaces, OwnOps
<1>5. CASE t \in Runners /\ TaskCleanup(t)
  <2>1. /\ pc' = [pc EXCEPT ![t] = "loop"]
        /\ op_queue' = op_queue \o private_op_queue[t] \o <<Task>>
        /\ private_op_queue' = [private_op_queue EXCEPT ![t] = <<>>]
    BY <1>5 DEF TaskCleanup
  <2>2. op_queue \o private_op_queue[t] \in Seq(Things)
    <3>1. private_op_queue[t] \in Seq(Ops \cup Descs)
      BY <1>5
    <3> QED BY <1>0, <3>1, TaskInAppended
  <2>3. TaskFollows(op_queue')
    BY <2>1, <2>2, TaskFollowsReturned
  <2>4. OwnOps'
    BY <1>0, <2>1 DEF OwnOps
  <2> QED BY <2>3, <2>4 DEF DescriptorPlaces
<1> QED BY <1>1, <1>2, <1>3, <1>4, <1>5

LEMMA PlacesNext == TypeOK /\ DescriptorPlaces /\ [Next]_vars => DescriptorPlaces'
<1> SUFFICES ASSUME TypeOK, DescriptorPlaces, [Next]_vars PROVE DescriptorPlaces'
  OBVIOUS
<1>1. CASE (\E d \in Descs : Edge(d)) \/ UNCHANGED vars
  BY <1>1 DEF Edge, vars, queueVars, opVars, DescriptorPlaces, OwnOps
<1> QED BY <1>1, NextSplit, PlacesKept, PlacesMove

(* When a thread has the reactor's turn, the descriptors of earlier turns    *)
(* have left every queue: a descriptor is queued once at most, whoever took  *)
(* it and however long its operations take.                                 *)
THEOREM DescriptorQueuedOnceHolds == Spec => []DescriptorQueuedOnce
<1>1. TypeOK /\ OneReactor /\ DescriptorPlaces => DescriptorQueuedOnce
  <2> SUFFICES ASSUME TypeOK, OneReactor, DescriptorPlaces,
                      NEW r \in Runners, Polling(r), NEW d \in Descs
               PROVE  d \notin Queued /\ \A s \in Runners \ {r} : d \notin PrivateOf(s)
    BY DEF DescriptorQueuedOnce
  <2>1. r \in Pollers
    BY DEF Pollers
  <2>2. TaskAt = {} /\ Pollers = {r}
    BY <2>1 DEF OneReactor
  <2>3. d \notin Queued
    BY <2>2 DEF DescriptorPlaces, TaskFollows, TaskAt, Queued, Range
  <2>4. ASSUME NEW s \in Runners \ {r} PROVE d \notin PrivateOf(s)
    <3>1. private_op_queue[s] \in Seq(Ops)
      BY <2>2 DEF Pollers, Polling, DescriptorPlaces, OwnOps
    <3> QED BY <3>1 DEF PrivateOf, Range
  <2> QED BY <2>3, <2>4
<1> QED
  BY <1>1, TypeCorrect, OneReactorHolds, PlacesInit, PlacesNext, PTL DEF Spec

-----------------------------------------------------------------------------
(************************* no idle thread while work ***********************)
Watch == Owner /\ Signalled /\ Interrupted /\ NoIdleWhileWork

LEMMA WatchInit == Init => Watch
<1> SUFFICES ASSUME Init PROVE Watch
  OBVIOUS
<1>1. \A r \in Runners : pc[r] = "out" /\ mutex_ = None /\ r # None
  BY DEF Init
<1> QED BY <1>1 DEF Init, Watch, Owner, Signalled, Interrupted, NoIdleWhileWork

(* A wakeup leaves a thread that is on its way or about to be woken. *)
LEMMA WakeWatches ==
  ASSUME TypeOK, Interrupted, NEW t \in Threads, Wake(t), UNCHANGED edges,
         \A r \in Runners : pc[r] \in {"asleep", "awake", "block"} <=>
                             pc'[r] \in {"asleep", "awake", "block"},
         \A r \in Runners : pc[r] \in {"asleep", "awake", "block"} => pc'[r] = pc[r]
  PROVE  /\ Interrupted' /\ signalled'
         /\ Idle' => \/ \E r \in Runners : Attentive(r)'
                     \/ toSignal' # {} /\ Asleep' # {}
<1>1. Interrupted' /\ signalled'
  BY DEF Interrupted, Wake, Interrupt
<1>2. CASE Waiters # {}
  <2>1. toSignal' # {}
    BY <1>2 DEF Wake
  <2>2. PICK r \in Runners : pc[r] \in {"asleep", "awake"}
    BY <1>2 DEF Waiters, Asleep
  <2>3. pc'[r] = pc[r]
    BY <2>2
  <2>4. r \in Asleep' \/ Attentive(r)'
    BY <2>2, <2>3 DEF Asleep, Attentive
  <2> QED BY <1>1, <2>1, <2>4
<1>3. CASE Waiters = {}
  <2> SUFFICES ASSUME NEW r \in Runners, pc'[r] \in {"asleep", "block"}
               PROVE  Attentive(r)'
    BY <1>1 DEF Idle
  <2>1. pc[r] = "block" /\ pc'[r] = "block"
    BY <1>3 DEF Waiters, Asleep
  <2>2. interrupter'
    BY <1>3, <2>1 DEF Wake, Interrupt, Interrupted
  <2> QED BY <2>1, <2>2 DEF Attentive
<1> QED BY <1>2, <1>3

LEMMA WatchWakes ==
  ASSUME TypeOK, Watch, NEW t \in Threads, Push(t) \/ (t \in Runners /\ TakeOp(t))
  PROVE  Watch'
<1> USE DEF TypeOK
<1>1. CASE Push(t)
  <2>1. pc' = pc /\ mutex_' = mutex_ /\ edges' = edges /\ Wake(t)
    BY <1>1 DEF Push
  <2>2. /\ Interrupted' /\ signalled'
        /\ Idle' => (\E r \in Runners : Attentive(r)') \/ (toSignal' # {} /\ Asleep' # {})
    BY <2>1, WakeWatches DEF Watch
  <2> QED BY <2>1, <2>2 DEF Watch, Owner, Signalled, NoIdleWhileWork, Idle
<1>2. CASE t \in Runners /\ TakeOp(t)
  <2>1. /\ pc[t] = "loop" /\ pc'[t] \in {"perform", "handler"} /\ mutex_' = None /\ t # None
        /\ \A r \in Runners \ {t} : pc'[r] = pc[r]
        /\ ~ stopped_ /\ ~ stopped_'
        /\ edges' = edges /\ op_queue' = Tail(op_queue)
    BY <1>2 DEF TakeOp, Loop
  <2>2. Owner'
    BY <1>2, <2>1 DEF Watch, Owner
  <2>3. CASE Tail(op_queue) = <<>>
    <3>1. UNCHANGED wakeVars
      BY <1>2, <2>3 DEF TakeOp
    <3>2. Interrupted'
      BY <2>1, <3>1 DEF Watch, Interrupted, wakeVars
    <3> QED BY <2>1, <2>2, <2>3, <3>2 DEF Watch, Signalled, NoIdleWhileWork
  <2>4. CASE Tail(op_queue) # <<>>
    <3>1. Wake(t)
      BY <1>2, <2>4 DEF TakeOp
    <3>2. /\ Interrupted' /\ signalled'
          /\ Idle' => (\E r \in Runners : Attentive(r)') \/ (toSignal' # {} /\ Asleep' # {})
      BY <2>1, <3>1, WakeWatches DEF Watch
    <3> QED BY <2>2, <3>2 DEF Watch, Signalled, NoIdleWhileWork, Idle
  <2> QED BY <2>3, <2>4
<1> QED BY <1>1, <1>2

(* The steps after which the thread itself is on its way to the queue.      *)
LEMMA WatchSelf ==
  ASSUME TypeOK, OneReactor, Watch, NEW t \in Runners,
         \/ Enter(t) \/ Lock(t) \/ Poll(t) \/ TaskCleanup(t) \/ Cleanup(t) \/ HandlerReturns(t)
         \/ SpuriousWakeup(t)
  PROVE  Watch'
<1> USE DEF queueVars, wakeVars, TypeOK
<1>1. Attentive(t)'
  BY DEF Enter, Lock, Poll, TaskCleanup, Cleanup, HandlerReturns, SpuriousWakeup, Finished, Attentive
<1>2. CASE Enter(t) \/ SpuriousWakeup(t)
  <2>1. Owner' /\ Signalled' /\ Interrupted'
    BY <1>2 DEF Enter, SpuriousWakeup, Watch, Owner, Signalled, Interrupted
  <2> QED BY <1>1, <2>1 DEF Watch, NoIdleWhileWork
<1>3. CASE Lock(t) \/ TaskCleanup(t)
  <2>1. Owner' /\ Signalled' /\ Interrupted'
    BY <1>3, SMTT(30)
    DEF Lock, TaskCleanup, Watch, Owner, Signalled, Interrupted, OneReactor, Pollers, Polling
  <2> QED BY <1>1, <2>1 DEF Watch, NoIdleWhileWork
<1>4. CASE Poll(t)
  <2>1. \A s \in Runners : pc'[s] # "block"
    BY <1>4 DEF Poll, OneReactor, Pollers, Polling
  <2>2. Owner' /\ Signalled'
    BY <1>4 DEF Poll, Watch, Owner, Signalled
  <2> QED BY <1>1, <2>1, <2>2 DEF Watch, NoIdleWhileWork, Interrupted
<1>5. CASE Cleanup(t) \/ HandlerReturns(t)
  <2>1. /\ pc[t] \in {"cleanup", "handler"} /\ pc' = [pc EXCEPT ![t] = pc'[t]]
        /\ pc'[t] \in {"lock", "work_finished"}
        /\ UNCHANGED <<op_queue, mutex_, stopped_, signalled, task_interrupted, interrupter>>
    BY <1>5 DEF Cleanup, HandlerReturns, Finished, Free
  <2>2. Owner' /\ Signalled' /\ Interrupted'
    BY <2>1 DEF Watch, Owner, Signalled, Interrupted
  <2> QED BY <1>1, <2>2 DEF Watch, NoIdleWhileWork
<1> QED BY <1>2, <1>3, <1>4, <1>5

(* The steps that empty the queue, find the scheduler stopped or stop it.   *)
LEMMA WatchEnds ==
  ASSUME TypeOK, OneReactor, Watch, NEW t \in Threads,
         \/ t \in Runners /\ (StopForWant(t) \/ Leave(t) \/ TakeTask(t) \/ Wait(t))
         \/ Stop(t)
  PROVE  Watch'
<1> USE DEF TypeOK
<1>1. CASE (t \in Runners /\ StopForWant(t)) \/ Stop(t)
  <2>1. /\ mutex_ = None /\ mutex_' = None /\ stopped_' /\ signalled' /\ Interrupt
        /\ \A s \in Runners : (pc'[s] = "loop" => pc[s] = "loop")
                             /\ (pc'[s] = "block" => pc[s] = "block")
        /\ \A s \in Runners : s # None
    BY <1>1, ZenonT(30) DEF StopForWant, Stop, StopAllThreads
  <2>2. Owner'
    BY <2>1 DEF Watch, Owner
  <2>3. Interrupted'
    BY <2>1 DEF Watch, Interrupted, Interrupt
  <2> QED BY <2>1, <2>2, <2>3 DEF Watch, Signalled, NoIdleWhileWork
<1>2. CASE t \in Runners /\ Leave(t)
  <2>1. /\ pc[t] = "loop" /\ pc' = [pc EXCEPT ![t] = "returned"] /\ mutex_' = None /\ mutex_ = t
        /\ stopped_ /\ stopped_' /\ UNCHANGED <<task_interrupted, interrupter, signalled, op_queue>>
        /\ t # None
    BY <1>2 DEF Leave, Loop, wakeVars, Watch, Owner
  <2>2. Owner' /\ Interrupted'
    BY <1>2, <2>1 DEF Watch, Owner, Interrupted
  <2> QED BY <2>1, <2>2 DEF Watch, Signalled, NoIdleWhileWork
<1>3. CASE t \in Runners /\ TakeTask(t)
  <2>1. /\ pc[t] = "loop" /\ mutex_' = None /\ mutex_ = t /\ ~ stopped_' /\ t # None
        /\ op_queue' = Tail(op_queue) /\ UNCHANGED interrupter
        /\ \A s \in Runners \ {t} : pc'[s] = pc[s]
    BY <1>3 DEF TakeTask, Loop, Watch, Owner
  <2>2. Pollers = {}
    <3>1. 1 \in TaskAt
      BY <1>3, TailTyped DEF TakeTask, TaskAt
    <3> QED BY <3>1 DEF OneReactor
  <2>3. \A s \in Runners \ {t} : pc'[s] # "block"
    BY <2>1, <2>2 DEF Pollers, Polling
  <2>4. CASE Tail(op_queue) = <<>>
    <3>1. pc'[t] = "block" /\ ~ task_interrupted'
      BY <1>3, <2>4 DEF TakeTask
    <3> QED
      BY <1>3, <2>1, <2>3, <2>4, <3>1
      DEF Watch, Owner, Signalled, Interrupted, NoIdleWhileWork
  <2>5. CASE Tail(op_queue) # <<>>
    <3>1. pc'[t] = "poll" /\ signalled'
      BY <1>3, <2>5 DEF TakeTask
    <3>2. Attentive(t)'
      BY <3>1 DEF Attentive
    <3>3. Owner' /\ Interrupted' /\ Signalled'
      BY <1>3, <2>1, <2>3, <3>1 DEF Watch, Owner, Signalled, Interrupted
    <3> QED BY <1>3, <3>2, <3>3 DEF Watch, NoIdleWhileWork
  <2> QED BY <2>4, <2>5
<1>4. CASE t \in Runners /\ Wait(t)
  <2>1. /\ pc[t] = "loop" /\ pc' = [pc EXCEPT ![t] = "asleep"] /\ mutex_' = None /\ mutex_ = t
        /\ ~ stopped_' /\ op_queue' = <<>> /\ UNCHANGED <<task_interrupted, interrupter>>
        /\ t # None
    BY <1>4 DEF Wait, Loop, Watch, Owner
  <2> QED BY <1>4, <2>1 DEF Watch, Owner, Signalled, Interrupted, NoIdleWhileWork
<1> QED BY <1>1, <1>2, <1>3, <1>4

(* The steps that leave the queue and the wakeups as they are.              *)
LEMMA WatchKept ==
  ASSUME TypeOK, Watch, NEW t \in Threads,
         \/ t \in Runners /\ PerformIo(t)
         \/ \E op \in Ops : Post(t, op) \/ PostContinuation(t, op)
         \/ \E op \in Ops, d \in Descs : StartOp(t, op, d)
         \/ \E d \in Descs : CancelOps(t, d) \/ Edge(d)
         \/ UNCHANGED vars
  PROVE  Watch'
<1>1. /\ UNCHANGED <<op_queue, mutex_, stopped_, task_interrupted, signalled, toSignal, interrupter>>
      /\ edges \subseteq edges'
      /\ \A s \in Runners : pc'[s] = pc[s]
                          \/ (pc[s] = "perform" /\ pc'[s] \in {"cleanup", "handler"})
  <2> USE DEF queueVars, wakeVars, TypeOK
  <2>1. CASE t \in Runners /\ PerformIo(t)
    BY <2>1 DEF PerformIo
  <2>2. CASE \/ \E op \in Ops : Post(t, op) \/ PostContinuation(t, op)
             \/ \E op \in Ops, d \in Descs : StartOp(t, op, d)
             \/ \E d \in Descs : CancelOps(t, d) \/ Edge(d)
             \/ UNCHANGED vars
    BY <2>2 DEF Post, PostContinuation, StartOp, CancelOps, Edge, vars
  <2> QED BY <2>1, <2>2
<1>2. Idle' => Idle
  BY <1>1 DEF Idle
<1>3. \A s \in Runners : (Attentive(s) => Attentive(s)') /\ (s \in Asleep => s \in Asleep')
  BY <1>1 DEF Attentive, Asleep
<1>4. Owner' /\ Signalled' /\ Interrupted'
  BY <1>1 DEF Watch, Owner, Signalled, Interrupted
<1>5. Asleep # {} => Asleep' # {}
  <2>1. Asleep \subseteq Runners
    BY DEF Asleep
  <2> QED BY <1>3, <2>1
<1> QED BY <1>1, <1>2, <1>3, <1>4, <1>5 DEF Watch, NoIdleWhileWork, Idle

LEMMA WatchSignals ==
  ASSUME TypeOK, Watch, NEW t \in Threads, Signal(t) \/ (t \in Runners /\ Reacquire(t))
  PROVE  Watch'
<1> USE DEF TypeOK
<1>1. CASE Signal(t)
  <2>1. UNCHANGED <<op_queue, mutex_, stopped_, task_interrupted, signalled, interrupter, edges>>
    BY <1>1 DEF Signal, queueVars
  <2>2. CASE Asleep = {}
    <3>1. pc' = pc /\ Asleep' = {}
      BY <1>1, <2>2 DEF Signal, Asleep
    <3> QED BY <2>1, <2>2, <3>1 DEF Watch, Owner, Signalled, Interrupted, NoIdleWhileWork, Attentive
  <2>3. CASE Asleep # {}
    <3>1. PICK r \in Runners : pc[r] = "asleep" /\ pc' = [pc EXCEPT ![r] = "awake"]
      BY <1>1, <2>3 DEF Signal, Asleep
    <3>2. Attentive(r)'
      BY <3>1 DEF Attentive
    <3>3. Owner' /\ Signalled' /\ Interrupted'
      BY <2>1, <3>1 DEF Watch, Owner, Signalled, Interrupted
    <3> QED BY <3>2, <3>3 DEF Watch, NoIdleWhileWork
  <2> QED BY <2>2, <2>3
<1>2. CASE t \in Runners /\ Reacquire(t)
  <2>1. /\ mutex_ = None /\ pc[t] = "awake" /\ t # None
        /\ UNCHANGED <<op_queue, stopped_, task_interrupted, signalled, interrupter, toSignal, edges>>
    BY <1>2 DEF Reacquire, wakeVars
  <2>2. CASE signalled
    <3>1. pc' = [pc EXCEPT ![t] = "loop"] /\ mutex_' = t
      BY <1>2, <2>2 DEF Reacquire
    <3>2. Attentive(t)'
      BY <1>2, <3>1 DEF Attentive
    <3>3. Owner' /\ Signalled' /\ Interrupted'
      BY <1>2, <2>1, <2>2, <3>1 DEF Watch, Owner, Signalled, Interrupted
    <3> QED BY <1>2, <3>2, <3>3 DEF Watch, NoIdleWhileWork
  <2>3. CASE ~ signalled
    <3>1. /\ pc' = [pc EXCEPT ![t] = "asleep"] /\ mutex_' = mutex_ /\ op_queue = <<>>
      BY <1>2, <2>1, <2>3 DEF Reacquire, Watch, Signalled
    <3> QED
      BY <1>2, <2>1, <3>1 DEF Watch, Owner, Signalled, Interrupted, NoIdleWhileWork
  <2> QED BY <2>2, <2>3
<1> QED BY <1>1, <1>2

LEMMA WatchNext == TypeOK /\ OneReactor /\ Watch /\ [Next]_vars => Watch'
<1> SUFFICES ASSUME TypeOK, OneReactor, Watch, [Next]_vars PROVE Watch'
  OBVIOUS
<1>1. CASE (\E d \in Descs : Edge(d)) \/ UNCHANGED vars
  <2>1. /\ UNCHANGED <<pc, op_queue, mutex_, stopped_, task_interrupted, signalled, toSignal,
                       interrupter>>
        /\ edges \subseteq edges'
    BY <1>1 DEF Edge, vars, queueVars, wakeVars
  <2>2. \A s \in Runners : Attentive(s) => Attentive(s)'
    BY <2>1 DEF Attentive
  <2> QED BY <2>1, <2>2 DEF Watch, Owner, Signalled, Interrupted, NoIdleWhileWork, Asleep
<1> QED
  BY <1>1, NextSplit, WatchWakes, WatchSelf, WatchEnds, WatchKept, WatchSignals

(* While something is queued and the scheduler is not stopped, no thread     *)
(* sleeps or blocks unless another is on its way to the queue or about to    *)
(* be woken: no wakeup is lost, whichever way it was sent.                  *)
THEOREM NoIdleWhileWorkHolds == Spec => []NoIdleWhileWork
<1>1. Watch => NoIdleWhileWork
  BY DEF Watch
<1> QED
  BY <1>1, TypeCorrect, ReactorInit, ReactorNext, WatchInit, WatchNext, PTL DEF Spec
=============================================================================
