--------------------------- MODULE IoContextProofs ---------------------------
(***************************************************************************)
(* That the scheduler implements an io_context: every step of Scheduler is a *)
(* step of IoContext, or changes nothing of it, for any number of threads,    *)
(* operations and descriptors.                                              *)
(*                                                                         *)
(* The mapping is Scheduler's Phase.  It tells the five phases apart because  *)
(* an operation is in one place at a time (Exclusive), which is what         *)
(* PhasesTold says of it.                                                   *)
(***************************************************************************)
EXTENDS SchedulerWorkProofs

-----------------------------------------------------------------------------
USE Distinct DEF Threads

PhasesTold ==
  \A op \in Ops :
    /\ Phase(op) = "idle" <=> op \in unused
    /\ Phase(op) = "done" <=> op \in done
    /\ Phase(op) = "called" <=> \E r \in Runners : current[r] = op
    /\ Phase(op) = "waiting" <=> \E d \in Descs : op \in Range(waiting[d])
    /\ Phase(op) \in {"idle", "done", "called", "waiting", "ready"}

(* An operation in the queue, or about to be, is ready.                     *)
LEMMA PhasesOf == TypeOK /\ Exclusive => PhasesTold /\ \A op \in Ops \cap Queued : Phase(op) = "ready"
<1> SUFFICES ASSUME TypeOK, Exclusive, NEW op \in Ops
             PROVE  /\ Phase(op) = "idle" <=> op \in unused
                    /\ Phase(op) = "done" <=> op \in done
                    /\ Phase(op) = "called" <=> \E r \in Runners : current[r] = op
                    /\ Phase(op) = "waiting" <=> \E d \in Descs : op \in Range(waiting[d])
                    /\ Phase(op) \in {"idle", "done", "called", "waiting", "ready"}
                    /\ op \in Queued => Phase(op) = "ready"
  BY DEF PhasesTold
<1>1. InOnePlace(op)
  BY DEF Exclusive
<1>2. /\ op \in unused => Holds("unused", None, op)
      /\ op \in done => Holds("done", None, op)
      /\ op \in Queued => Holds("queue", None, op)
      /\ \A r \in Runners : current[r] = op => Holds("current", r, op)
      /\ \A d \in Descs : op \in Range(waiting[d]) => Holds("waiting", d, op)
  BY DEF Holds
<1>3. /\ op \in unused => op \notin done /\ op \notin Queued
      /\ op \in done => op \notin Queued
      /\ \A r \in Runners : current[r] = op => op \notin unused /\ op \notin done /\ op \notin Queued
      /\ \A d \in Descs : op \in Range(waiting[d]) =>
           /\ op \notin unused /\ op \notin done /\ op \notin Queued
           /\ \A r \in Runners : current[r] # op
  BY <1>1, <1>2 DEF InOnePlace, Kinds, Owners
<1> QED BY <1>3 DEF Phase

LEMMA SamePhase ==
  ASSUME PhasesTold, PhasesTold', NEW op \in Ops,
         op \in unused' <=> op \in unused, op \in done' <=> op \in done,
         (\E r \in Runners : current'[r] = op) <=> (\E r \in Runners : current[r] = op),
         (\E d \in Descs : op \in Range(waiting'[d])) <=> (\E d \in Descs : op \in Range(waiting[d]))
  PROVE  Phase(op)' = Phase(op)
  BY DEF PhasesTold

InRun == {r \in Runners : pc[r] \notin {"out", "no_work", "returned"}}
Calling == [r \in Runners |-> IF pc[r] = "handler" THEN current[r] ELSE None]
Phases == [op \in Ops |-> Phase(op)]

LEMMA ImplementsStarts ==
  ASSUME TypeOK, PhasesTold, PhasesTold', NEW t \in Threads, NEW op \in Ops,
         Post(t, op) \/ PostContinuation(t, op) \/ \E d \in Descs : StartOp(t, op, d)
  PROVE  Abstract!Start(op)
<1>1. /\ op \in unused /\ unused' = unused \ {op} /\ UNCHANGED <<pc, done, current, stopped_>>
  BY DEF Post, PostContinuation, StartOp, queueVars
<1>2. Phase(op) = "idle" /\ Phase(op)' \in {"waiting", "ready"}
  BY <1>1 DEF PhasesTold
<1>3. \A o \in Ops \ {op} : Phase(o)' = Phase(o)
  <2> SUFFICES ASSUME NEW o \in Ops, o # op PROVE Phase(o)' = Phase(o)
    OBVIOUS
  <2>1. \A d \in Descs : o \in Range(waiting'[d]) <=> o \in Range(waiting[d])
    <3>1. CASE waiting' = waiting
      BY <3>1
    <3>2. ASSUME NEW e \in Descs, StartOp(t, op, e)
          PROVE  \A d \in Descs : o \in Range(waiting'[d]) <=> o \in Range(waiting[d])
      <4>1. Range(Append(waiting[e], op)) = Range(waiting[e]) \cup {op}
        BY AppendedPart DEF TypeOK
      <4> QED BY <3>2, <4>1 DEF StartOp, TypeOK
    <3> QED BY <3>1, <3>2 DEF Post, PostContinuation
  <2> QED BY <1>1, <2>1, SamePhase
<1>4. Phases' = [Phases EXCEPT ![op] = Phase(op)']
  BY <1>3 DEF Phases
<1> QED BY <1>1, <1>2, <1>4 DEF Abstract!Start, Phases
LEMMA ImplementsCalls ==
  ASSUME TypeOK, InHand, PhasesTold, PhasesTold', \A op \in Ops \cap Queued : Phase(op) = "ready",
         NEW r \in Runners, TakeOp(r)
  PROVE  [Abstract!Next]_(Abstract!vars)
<1>0. PICK x : x = Head(op_queue)
  OBVIOUS
<1>1. /\ pc[r] = "loop" /\ ~ stopped_ /\ current[r] = None
      /\ current' = [current EXCEPT ![r] = x]
      /\ pc' = [pc EXCEPT ![r] = IF x \in Descs THEN "perform" ELSE "handler"]
      /\ UNCHANGED <<stopped_, waiting, unused, done>>
  BY <1>0 DEF TakeOp, Loop, InHand
<1>2. x \in Ops \cup Descs /\ x \in Queued
  <2>1. op_queue \in Seq(Things) /\ op_queue # <<>> /\ x # Task
    BY <1>0 DEF TakeOp, TypeOK, Things
  <2> QED BY <1>0, <2>1, TailParts DEF Queued, Things
<1>3. \A s \in Runners : current'[s] = IF s = r THEN x ELSE current[s]
  BY <1>1 DEF TypeOK
<1>4. InRun' = InRun
  BY <1>1 DEF InRun, TypeOK
<1>5. CASE x \in Ops
  <2>1. x \notin Descs /\ Phase(x) = "ready" /\ Phase(x)' = "called" /\ x # None
    <3>1. \E s \in Runners : current'[s] = x
      BY <1>3
    <3> QED BY <1>2, <1>5, <3>1 DEF PhasesTold
  <2>2. \A o \in Ops \ {x} : Phase(o)' = Phase(o)
    <3> SUFFICES ASSUME NEW o \in Ops, o # x PROVE Phase(o)' = Phase(o)
      OBVIOUS
    <3>1. (\E s \in Runners : current'[s] = o) <=> (\E s \in Runners : current[s] = o)
      BY <1>1, <1>3
    <3> QED BY <1>1, <3>1, SamePhase
  <2>3. Phases' = [Phases EXCEPT ![x] = "called"]
    BY <2>1, <2>2 DEF Phases
  <2>4. Calling' = [Calling EXCEPT ![r] = x] /\ Calling[r] = None /\ r \in InRun
    BY <1>1, <1>3, <2>1 DEF Calling, InRun, TypeOK
  <2>5. Abstract!CallReady(r, x)
    BY <1>1, <1>4, <1>5, <2>1, <2>3, <2>4 DEF Abstract!CallReady, Phases, InRun, Calling
  <2> QED BY <1>5, <2>5 DEF Abstract!Next
<1>6. CASE x \in Descs
  <2>1. \A o \in Ops : Phase(o)' = Phase(o)
    <3> SUFFICES ASSUME NEW o \in Ops PROVE Phase(o)' = Phase(o)
      OBVIOUS
    <3>1. (\E s \in Runners : current'[s] = o) <=> (\E s \in Runners : current[s] = o)
      BY <1>1, <1>3, <1>6
    <3> QED BY <1>1, <3>1, SamePhase
  <2>2. Phases' = Phases /\ Calling' = Calling
    BY <1>1, <1>6, <2>1 DEF Phases, Calling, TypeOK
  <2> QED BY <1>1, <1>4, <2>2 DEF Abstract!vars, Phases, Calling, InRun
<1> QED BY <1>2, <1>5, <1>6

LEMMA ImplementsPerforms ==
  ASSUME TypeOK, Exclusive, PhasesTold, PhasesTold', NEW r \in Runners, PerformIo(r)
  PROVE  [Abstract!Next]_(Abstract!vars)
<1> DEFINE d == current[r]
           w == waiting[d]
<1>1. d \in Descs /\ w \in Seq(Ops) /\ NoRepeat(w) /\ pc[r] = "perform"
      /\ UNCHANGED <<unused, done, stopped_>>
  BY DEF PerformIo, TypeOK, Exclusive, queueVars
<1>2. PICK k \in 0 .. Len(w) :
        /\ waiting' = [waiting EXCEPT ![d] = SubSeq(w, k + 1, Len(w))]
        /\ current' = [current EXCEPT ![r] = IF k = 0 THEN None ELSE w[1]]
        /\ pc' = [pc EXCEPT ![r] = IF k = 0 THEN "cleanup" ELSE "handler"]
  BY DEF PerformIo
<1>a. PICK first : first = w[1]
  OBVIOUS
<1> DEFINE b == SubSeq(w, k + 1, Len(w))
           S == Range(w) \ (Range(b) \cup {first})
<1>3. /\ Range(b) \subseteq Range(w) /\ (k = 0 => b = w)
      /\ k # 0 => first \in Range(w) \ Range(b)
  BY <1>1, <1>a, SplitParts
<1>4. /\ \A e \in Descs : waiting'[e] = IF e = d THEN b ELSE waiting[e]
      /\ \A s \in Runners : current'[s] = IF s # r THEN current[s] ELSE IF k = 0 THEN None ELSE first
      /\ \A s \in Runners : pc'[s] = IF s # r THEN pc[s] ELSE IF k = 0 THEN "cleanup" ELSE "handler"
  BY <1>2, <1>a DEF TypeOK
<1> HIDE DEF b
<1>5. InRun' = InRun /\ r \in InRun
  BY <1>1, <1>4 DEF InRun
<1>6. Range(w) \subseteq Ops
  BY <1>1, PartsOf
<1>7. CASE k = 0
  <2>1. \A o \in Ops : Phase(o)' = Phase(o)
    <3> SUFFICES ASSUME NEW o \in Ops PROVE Phase(o)' = Phase(o)
      OBVIOUS
    <3>1. (\E s \in Runners : current'[s] = o) <=> (\E s \in Runners : current[s] = o)
      BY <1>1, <1>4, <1>7
    <3>2. \A e \in Descs : waiting'[e] = waiting[e]
      BY <1>3, <1>4, <1>7
    <3> QED BY <1>1, <3>1, <3>2, SamePhase
  <2>2. Phases' = Phases /\ Calling' = Calling
    BY <1>1, <1>4, <1>7, <2>1 DEF Phases, Calling
  <2> QED BY <1>1, <1>5, <2>2 DEF Abstract!vars, Phases, Calling, InRun
<1>8. CASE k # 0
  <2>0. first \in Ops /\ first \notin S /\ first # None /\ S \in SUBSET Ops
    BY <1>3, <1>6, <1>8
  <2>1. \A o \in S \cup {first} : Phase(o) = "waiting"
    BY <1>1, <1>3, <1>6, <1>8 DEF PhasesTold
  <2>2. Phase(first)' = "called"
    <3>1. current'[r] = first
      BY <1>4, <1>8
    <3> QED BY <2>0, <3>1 DEF PhasesTold
  <2>3. \A o \in S : Phase(o)' = "ready"
    <3> SUFFICES ASSUME NEW o \in S PROVE Phase(o)' = "ready"
      OBVIOUS
    <3>1. o \in Ops /\ o # first /\ o \in Range(w) /\ o \notin Range(b) /\ Holds("waiting", d, o)
      BY <1>1, <1>6 DEF Holds
    <3>2. o \notin unused /\ o \notin done /\ \A s \in Runners : current[s] # o
      BY <2>1, <3>1 DEF PhasesTold
    <3>3. \A e \in Descs : o \notin Range(waiting'[e])
      <4>1. \A e \in Descs : o \in Range(waiting[e]) => Holds("waiting", e, o)
        BY DEF Holds
      <4>2. \A e \in Descs \ {d} : o \notin Range(waiting[e])
        BY <1>1, <3>1, <4>1 DEF Exclusive, InOnePlace, Kinds, Owners
      <4> QED BY <1>4, <3>1, <4>2
    <3>4. \A s \in Runners : current'[s] # o
      BY <1>4, <1>8, <3>1, <3>2
    <3> QED BY <1>1, <3>1, <3>2, <3>3, <3>4 DEF PhasesTold
  <2>4. \A o \in Ops \ (S \cup {first}) : Phase(o)' = Phase(o)
    <3> SUFFICES ASSUME NEW o \in Ops, o \notin S, o # first PROVE Phase(o)' = Phase(o)
      OBVIOUS
    <3>1. (\E s \in Runners : current'[s] = o) <=> (\E s \in Runners : current[s] = o)
      <4>1. current[r] # o
        BY <1>1
      <4> QED BY <1>4, <1>8, <4>1
    <3>2. o \in Range(b) <=> o \in Range(w)
      BY <1>3
    <3>3. \A e \in Descs : o \in Range(waiting'[e]) <=> o \in Range(waiting[e])
      BY <1>4, <3>2
    <3> QED BY <1>1, <3>1, <3>3, SamePhase
  <2>5. Phases' = [o \in Ops |-> IF o = first THEN "called" ELSE IF o \in S THEN "ready" ELSE Phases[o]]
    BY <2>2, <2>3, <2>4 DEF Phases
  <2>6. Calling' = [Calling EXCEPT ![r] = first] /\ Calling[r] = None
    <3>1. /\ pc'[r] = "handler" /\ current'[r] = first
          /\ \A s \in Runners : s # r => pc'[s] = pc[s] /\ current'[s] = current[s]
      BY <1>4, <1>8
    <3>2. /\ Calling' = [s \in Runners |-> IF s = r THEN first ELSE Calling[s]]
          /\ Calling[r] = None
      BY <1>1, <3>1, Zenon DEF Calling
    <3> QED BY <3>2, Zenon DEF Calling
  <2> HIDE DEF S
  <2>7. PICK T \in SUBSET Ops : T = S
    BY <2>0
  <2>8. Abstract!CallWaiting(r, first, T)
    <3>1. \A o \in T \cup {first} : Phases[o] = "waiting"
      BY <2>0, <2>1, <2>7 DEF Phases
    <3> QED
      BY <1>1, <1>5, <2>0, <2>5, <2>6, <2>7, <3>1 DEF Abstract!CallWaiting, Phases, InRun, Calling
  <2>9. first \in Ops
    BY <2>0
  <2> QED BY <2>8, <2>9 DEF Abstract!Next
<1> QED BY <1>7, <1>8

LEMMA ImplementsReturns ==
  ASSUME TypeOK, Exclusive, PhasesTold, PhasesTold', NEW r \in Runners, HandlerReturns(r)
  PROVE  Abstract!Return(r)
<1>0. PICK op : op = current[r]
  OBVIOUS
<1>1. /\ op \in Ops /\ op # None /\ pc[r] = "handler" /\ done' = done \cup {op}
      /\ UNCHANGED <<unused, waiting, stopped_>>
      /\ \A s \in Runners : current'[s] = IF s = r THEN None ELSE current[s]
      /\ \A s \in Runners \ {r} : pc'[s] = pc[s]
      /\ pc'[r] \in {"work_finished", "lock"}
  BY <1>0 DEF HandlerReturns, Free, Finished, TypeOK, queueVars
<1>2. Phase(op)' = "done"
  BY <1>1 DEF PhasesTold
<1>3. \A o \in Ops \ {op} : Phase(o)' = Phase(o)
  <2> SUFFICES ASSUME NEW o \in Ops, o # op PROVE Phase(o)' = Phase(o)
    OBVIOUS
  <2>1. (\E s \in Runners : current'[s] = o) <=> (\E s \in Runners : current[s] = o)
    BY <1>0, <1>1
  <2> QED BY <1>1, <2>1, SamePhase
<1>4. Phases' = [Phases EXCEPT ![op] = "done"]
  BY <1>2, <1>3 DEF Phases
<1>5. Calling[r] = op /\ Calling' = [Calling EXCEPT ![r] = None] /\ InRun' = InRun
  BY <1>0, <1>1 DEF Calling, InRun
<1>6. Calling[r] # None /\ Phases' = [Phases EXCEPT ![Calling[r]] = "done"]
  BY <1>1, <1>4, <1>5
<1> QED BY <1>1, <1>5, <1>6 DEF Abstract!Return, Phases, Calling, InRun

LEMMA ImplementsCancels ==
  ASSUME TypeOK, Exclusive, PhasesTold, PhasesTold', NEW t \in Threads, NEW d \in Descs,
         CancelOps(t, d)
  PROVE  \E S \in SUBSET Ops : Abstract!Ready(S)
<1> DEFINE S == Range(waiting[d])
<1>1. /\ waiting[d] # <<>> /\ waiting[d] \in Seq(Ops)
      /\ UNCHANGED <<pc, unused, done, current, stopped_>>
      /\ \A e \in Descs : waiting'[e] = IF e = d THEN <<>> ELSE waiting[e]
  BY DEF CancelOps, TypeOK, queueVars
<1>2. S \in SUBSET Ops /\ S # {} /\ Range(<<>>) = {}
  BY <1>1, PartsOf, TailParts, NoPart
<1>3. \A o \in S : Phase(o) = "waiting"
  BY <1>2 DEF PhasesTold
<1>4. \A o \in S : Phase(o)' = "ready"
  <2> SUFFICES ASSUME NEW o \in S PROVE Phase(o)' = "ready"
    OBVIOUS
  <2>1. o \in Ops /\ Holds("waiting", d, o)
    BY <1>2 DEF Holds
  <2>2. o \notin unused /\ o \notin done /\ \A s \in Runners : current[s] # o
    BY <1>3, <2>1 DEF PhasesTold
  <2>3. \A e \in Descs : o \in Range(waiting[e]) => Holds("waiting", e, o)
    BY DEF Holds
  <2>4. \A e \in Descs \ {d} : o \notin Range(waiting[e])
    BY <2>1, <2>3 DEF Exclusive, InOnePlace, Kinds, Owners
  <2>5. \A e \in Descs : o \notin Range(waiting'[e])
    BY <1>1, <1>2, <2>4
  <2> QED BY <1>1, <2>1, <2>2, <2>5 DEF PhasesTold
<1>5. \A o \in Ops \ S : Phase(o)' = Phase(o)
  <2> SUFFICES ASSUME NEW o \in Ops, o \notin S PROVE Phase(o)' = Phase(o)
    OBVIOUS
  <2>1. \A e \in Descs : o \in Range(waiting'[e]) <=> o \in Range(waiting[e])
    BY <1>1, <1>2
  <2> QED BY <1>1, <2>1, SamePhase
<1> HIDE DEF S
<1>6. Phases' = [o \in Ops |-> IF o \in S THEN "ready" ELSE Phases[o]]
  BY <1>2, <1>4, <1>5 DEF Phases
<1>7. \A o \in S : Phases[o] = "waiting"
  BY <1>2, <1>3 DEF Phases
<1>8. Abstract!Ready(S)
  BY <1>1, <1>2, <1>6, <1>7 DEF Abstract!Ready, Phases
<1> QED BY <1>2, <1>8

(* The steps that move no operation. *)
LEMMA ImplementsOthers ==
  ASSUME TypeOK, InHand, PhasesTold, PhasesTold', NEW t \in Threads,
         \/ t \in Runners /\ \/ Enter(t) \/ StopForWant(t) \/ Lock(t) \/ Reacquire(t)
                             \/ TaskCleanup(t) \/ Leave(t) \/ TakeTask(t) \/ Wait(t) \/ Poll(t)
                             \/ Cleanup(t) \/ SpuriousWakeup(t)
         \/ Push(t) \/ Signal(t) \/ Stop(t)
         \/ (\E d \in Descs : Edge(d)) \/ UNCHANGED vars
  PROVE  [Abstract!Next]_(Abstract!vars)
<1> USE DEF TypeOK
<1>1. UNCHANGED <<unused, done, current, waiting>>
  BY DEF Enter, StopForWant, StopAllThreads, Lock, Reacquire, TaskCleanup, Leave, TakeTask, Wait,
         Poll, Cleanup, SpuriousWakeup, Push, Signal, Stop, Edge, vars, opVars
<1>2. \A o \in Ops : Phase(o)' = Phase(o)
  BY <1>1, SamePhase
<1>3. Phases' = Phases
  BY <1>2 DEF Phases
<1>a. ASSUME stopped_' = stopped_, InRun' = InRun, Calling' = Calling
      PROVE  UNCHANGED Abstract!vars
  BY <1>3, <1>a DEF Abstract!vars, Phases, Calling, InRun
<1>4. CASE t \in Runners /\ Enter(t)
  <2>1. pc' = [pc EXCEPT ![t] = pc'[t]] /\ pc[t] = "out" /\ pc'[t] \in {"no_work", "lock"}
        /\ stopped_' = stopped_
    BY <1>4 DEF Enter, queueVars
  <2>2. Calling' = Calling /\ InRun' = IF pc'[t] = "lock" THEN InRun \cup {t} ELSE InRun
    BY <1>1, <1>4, <2>1 DEF Calling, InRun
  <2>3. CASE pc'[t] = "no_work"
    BY <1>a, <2>1, <2>2, <2>3
  <2>4. CASE pc'[t] = "lock"
    <3>1. t \notin InRun
      BY <2>1 DEF InRun
    <3>2. Abstract!Enter(t)
      BY <1>3, <2>1, <2>2, <2>4, <3>1 DEF Abstract!Enter, Phases, Calling, InRun
    <3> QED BY <1>4, <3>2 DEF Abstract!Next
  <2> QED BY <2>1, <2>3, <2>4
<1>5. CASE (t \in Runners /\ StopForWant(t)) \/ Stop(t)
  <2>1. /\ stopped_' = TRUE
        /\ \A s \in Runners : \/ pc'[s] = pc[s]
                              \/ pc[s] = "no_work" /\ pc'[s] = "returned"
                              \/ pc[s] = "work_finished" /\ pc'[s] = "lock"
                              \/ pc[s] = "asleep" /\ pc'[s] = "awake"
    BY <1>5 DEF StopForWant, Stop, StopAllThreads, Asleep
  <2>2. Calling' = Calling /\ InRun' = InRun
    BY <1>1, <2>1 DEF Calling, InRun
  <2>3. Abstract!Stop
    BY <1>3, <2>1, <2>2 DEF Abstract!Stop, Phases, Calling, InRun
  <2> QED BY <2>3 DEF Abstract!Next
<1>6. CASE t \in Runners /\ Leave(t)
  <2>1. pc[t] = "loop" /\ pc' = [pc EXCEPT ![t] = "returned"] /\ stopped_ /\ stopped_' = stopped_
    BY <1>6 DEF Leave, Loop
  <2>2. Calling' = Calling /\ Calling[t] = None /\ t \in InRun /\ InRun' = InRun \ {t}
    BY <1>1, <1>6, <2>1 DEF Calling, InRun
  <2>3. Abstract!Leave(t)
    BY <1>3, <2>1, <2>2 DEF Abstract!Leave, Phases, Calling, InRun
  <2> QED BY <1>6, <2>3 DEF Abstract!Next
<1>7. CASE \/ t \in Runners /\ \/ Lock(t) \/ Reacquire(t) \/ TaskCleanup(t) \/ TakeTask(t) \/ Wait(t)
                                 \/ Poll(t) \/ Cleanup(t) \/ SpuriousWakeup(t)
           \/ Push(t) \/ Signal(t) \/ (\E d \in Descs : Edge(d)) \/ UNCHANGED vars
  <2>1. /\ stopped_' = stopped_
        /\ \A s \in Runners : \/ pc'[s] = pc[s]
                              \/ /\ pc[s] \notin {"out", "no_work", "returned", "handler"}
                                 /\ pc'[s] \notin {"out", "no_work", "returned", "handler"}
    <3>1. CASE t \in Runners /\ (Lock(t) \/ Reacquire(t) \/ TaskCleanup(t))
      BY <3>1, SMTT(30) DEF Lock, Reacquire, TaskCleanup
    <3>2. CASE t \in Runners /\ (TakeTask(t) \/ Wait(t))
      BY <3>2, SMTT(30) DEF TakeTask, Wait, Loop
    <3>3. CASE t \in Runners /\ (Poll(t) \/ Cleanup(t) \/ SpuriousWakeup(t))
      BY <3>3, SMTT(30) DEF Poll, Cleanup, Finished, SpuriousWakeup, queueVars
    <3>4. CASE Push(t) \/ Signal(t) \/ (\E d \in Descs : Edge(d)) \/ UNCHANGED vars
      BY <3>4, ZenonT(30) DEF Push, Signal, Asleep, Edge, vars, queueVars
    <3> QED BY <1>7, <3>1, <3>2, <3>3, <3>4
  <2>2. Calling' = Calling /\ InRun' = InRun
    BY <1>1, <2>1 DEF Calling, InRun
  <2> QED BY <1>a, <2>1, <2>2
<1> QED BY <1>4, <1>5, <1>6, <1>7

Told == PhasesTold /\ \A op \in Ops \cap Queued : Phase(op) = "ready"

LEMMA ImplementsInit == Init => Abstract!Init
<1> SUFFICES ASSUME Init PROVE Abstract!Init
  OBVIOUS
<1>1. \A op \in Ops : Phase(op) = "idle"
  BY NoPart DEF Init, Phase
<1> QED BY <1>1 DEF Init, Abstract!Init

LEMMA ImplementsNext ==
  TypeOK /\ Work /\ Told /\ Told' /\ [Next]_vars => [Abstract!Next]_(Abstract!vars)
<1> SUFFICES ASSUME TypeOK, Exclusive, InHand, PhasesTold, PhasesTold',
                    \A op \in Ops \cap Queued : Phase(op) = "ready", [Next]_vars
             PROVE  [Abstract!Next]_(Abstract!vars)
  BY DEF Work, Told
<1>1. ASSUME NEW t \in Threads, NEW op \in Ops,
             Post(t, op) \/ PostContinuation(t, op) \/ \E d \in Descs : StartOp(t, op, d)
      PROVE  [Abstract!Next]_(Abstract!vars)
  BY <1>1, ImplementsStarts DEF Abstract!Next
<1>2. ASSUME NEW r \in Runners, HandlerReturns(r) PROVE [Abstract!Next]_(Abstract!vars)
  BY <1>2, ImplementsReturns DEF Abstract!Next
<1>3. ASSUME NEW t \in Threads, NEW d \in Descs, CancelOps(t, d)
      PROVE  [Abstract!Next]_(Abstract!vars)
  BY <1>3, ImplementsCancels DEF Abstract!Next
<1>4. CASE (\E d \in Descs : Edge(d)) \/ UNCHANGED vars
  <2>1. UNCHANGED <<pc, unused, done, current, waiting, stopped_>>
    BY <1>4 DEF Edge, vars, opVars, queueVars
  <2>2. \A o \in Ops : Phase(o)' = Phase(o)
    BY <2>1, SamePhase
  <2> QED BY <2>1, <2>2 DEF Abstract!vars
<1> QED
  BY <1>1, <1>2, <1>3, <1>4, NextSplit, ImplementsCalls, ImplementsPerforms, ImplementsOthers

(* Whatever the threads do, every step of the scheduler is a step of the     *)
(* io_context it stands for, or changes nothing of it: each handler is       *)
(* called once, in run(), and run() returns only after a stop.              *)
THEOREM ImplementsIoContext == Spec => Abstract!Spec
<1>1. TypeOK /\ Work => Told
  BY PhasesOf DEF Work, Told
<1> QED
  BY <1>1, TypeCorrect, WorkHolds, ImplementsInit, ImplementsNext, PTL DEF Spec, Abstract!Spec
=============================================================================
