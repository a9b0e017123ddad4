------------------------ MODULE ThreadSafeQueueProofs ------------------------
EXTENDS ThreadSafeQueue, SequenceTheorems, FiniteSetTheorems, TLAPS

(* Appending to the second of two joined sequences appends to the whole. *)
LEMMA ConcatAppend ==
  ASSUME NEW S, NEW s \in Seq(S), NEW t \in Seq(S), NEW e \in S
  PROVE  s \o Append(t, e) = Append(s \o t, e)
<1>1. /\ s \o Append(t, e) \in Seq(S)
      /\ Append(s \o t, e) \in Seq(S)
  OBVIOUS
<1>2. Len(s \o Append(t, e)) = Len(Append(s \o t, e))
  OBVIOUS
<1>3. \A i \in 1 .. Len(s \o Append(t, e)) :
        (s \o Append(t, e))[i] = Append(s \o t, e)[i]
  OBVIOUS
<1> QED BY <1>1, <1>2, <1>3, SeqEqual

(* Moving the head of the second of two joined sequences to the end of the *)
(* first leaves the whole as it is.                                        *)
LEMMA ConcatShift ==
  ASSUME NEW S, NEW s \in Seq(S), NEW t \in Seq(S), t # <<>>
  PROVE  Append(s, Head(t)) \o Tail(t) = s \o t
<1>0. /\ Head(t) \in S
      /\ Tail(t) \in Seq(S)
      /\ Len(Tail(t)) = Len(t) - 1
      /\ \A i \in 1 .. Len(Tail(t)) : Tail(t)[i] = t[i + 1]
      /\ Head(t) = t[1]
      /\ Len(t) > 0
  BY HeadTailProperties, EmptySeq
<1>1. /\ Append(s, Head(t)) \o Tail(t) \in Seq(S)
      /\ s \o t \in Seq(S)
  BY <1>0
<1>2. Len(Append(s, Head(t)) \o Tail(t)) = Len(s \o t)
  BY <1>0
<1>3. \A i \in 1 .. Len(s \o t) :
        (Append(s, Head(t)) \o Tail(t))[i] = (s \o t)[i]
  BY <1>0
<1> QED BY <1>1, <1>2, <1>3, SeqEqual, SMTT(30)

-----------------------------------------------------------------------------
USE DrainerAlone, ThreadsAreDistinct DEF Threads

LEMMA DisciplineInit == Init => Discipline
BY DEF Init, Discipline, TypeOK, PcInRole, MutexHeld, ArgumentsKept, FrontExists,
       Inside, LockPoints

LEMMA DisciplineNext == Discipline /\ OneUse /\ [Next]_vars => Discipline'
<1> SUFFICES ASSUME Discipline, OneUse, [Next]_vars
             PROVE  Discipline'
  OBVIOUS
<1> USE DEF Discipline, TypeOK, PcInRole, MutexHeld, ArgumentsKept, FrontExists,
            Inside, LockPoints
<1>1. ASSUME NEW t \in Producers, NEW v \in Values, CallPush(t, v)
      PROVE  Discipline'
  BY <1>1 DEF CallPush
<1>2. ASSUME NEW t \in Consumers, CallWaitAndPop(t)
      PROVE  Discipline'
  BY <1>2 DEF CallWaitAndPop
<1>3. ASSUME NEW t \in Drainers, CallEmpty(t)
      PROVE  Discipline'
  <2>1. /\ pc[t] = "idle" /\ pc' = [pc EXCEPT ![t] = "empty_lock"]
        /\ UNCHANGED <<q, mtx, local, pushed, taken>>
    BY <1>3 DEF CallEmpty
  <2> QED BY <2>1, SMTT(30)
<1>4. ASSUME NEW t \in Threads, Acquire(t)
      PROVE  Discipline'
  BY <1>4 DEF Acquire, AfterLock
<1>5. ASSUME NEW t \in Threads, PushBody(t)
      PROVE  Discipline'
  <2>1. /\ t \in Producers /\ mtx = t
        /\ \A u \in Threads \ {t} : pc[u] \notin Inside
    BY <1>5 DEF PushBody
  <2>2. /\ q' \in Seq(Values) /\ q' # <<>>
        /\ q # <<>> => Head(q') = Head(q)
        /\ pushed' \in Seq(Values)
        /\ UNCHANGED <<local, taken>>
        /\ mtx' = None
    <3>1. /\ local[t] \in Values
          /\ q' = Append(q, local[t])
          /\ pushed' = Append(pushed, local[t])
          /\ UNCHANGED <<local, taken>>
          /\ mtx' = None
      BY <1>5, <2>1 DEF PushBody
    <3>2. q \in Seq(Values) /\ pushed \in Seq(Values)
      OBVIOUS
    <3>3. q # <<>> => Head(q') = Head(q)
      BY <3>1, <3>2
    <3> QED BY <3>1, <3>2, <3>3
  <2> DEFINE Moved ==
        /\ pc' \in [Threads -> LockPoints \cup Inside \cup {"idle", "asleep"}]
        /\ pc'[t] = "idle"
        /\ \A u \in Threads \ {t} :
             pc'[u] = pc[u] \/ (u \in Consumers /\ pc'[u] = "wait_lock")
  <2>3. Moved
    <3>1. CASE pc' = [pc EXCEPT ![t] = "idle"]
      BY <2>1, <3>1
    <3>2. ASSUME NEW c \in Asleep, pc' = [[pc EXCEPT ![t] = "idle"] EXCEPT ![c] = "wait_lock"]
          PROVE  Moved
      BY <2>1, <3>2, <1>5 DEF Asleep, PushBody
    <3> QED BY <1>5, <3>1, <3>2 DEF PushBody, NotifyOne
  <2>4. PcInRole'
    BY <2>1, <2>3
  <2>5. MutexHeld'
    BY <2>1, <2>2, <2>3, ZenonT(30)
  <2>6. ArgumentsKept'
    BY <2>1, <2>2, <2>3
  <2>7. FrontExists'
    BY <2>2
  <2> QED BY <2>2, <2>3, <2>4, <2>5, <2>6, <2>7
<1>6. ASSUME NEW t \in Threads, WaitCheck(t)
      PROVE  Discipline'
  <2>1. t \in Consumers /\ pc[t] = "wait_check" /\ mtx = t /\ UNCHANGED <<q, local, pushed, taken>>
    BY <1>6 DEF WaitCheck
  <2>2. CASE pc' = [pc EXCEPT ![t] = "asleep"] /\ mtx' = None
    BY <2>1, <2>2
  <2>3. CASE q # <<>> /\ pc' = [pc EXCEPT ![t] = "take_front"] /\ UNCHANGED mtx
    BY <2>1, <2>3
  <2> QED BY <1>6, <2>2, <2>3 DEF WaitCheck
<1>7. ASSUME NEW t \in Threads, TakeFront(t)
      PROVE  Discipline'
  <2>1. t \in Consumers /\ q # <<>> /\ (\A d \in Drainers : pc[d] = "idle")
    BY <1>7 DEF OneUse, TakeFront
  <2>2. Head(q) \in Values
    BY <2>1, HeadTailProperties
  <2> QED BY <1>7, <2>1, <2>2 DEF TakeFront
<1>8. ASSUME NEW t \in Threads, TakePop(t)
      PROVE  Discipline'
  <2>1. /\ t \in Consumers /\ q # <<>> /\ mtx = t
        /\ \A d \in Drainers : pc[d] = "idle"
        /\ \A u \in Threads \ {t} : pc[u] \notin Inside
    BY <1>8 DEF OneUse, TakePop
  <2>2. Tail(q) \in Seq(Values)
    BY <2>1, HeadTailProperties
  <2> QED BY <1>8, <2>1, <2>2, ZenonT(30) DEF TakePop
<1>9. ASSUME NEW t \in Threads, EmptyRead(t)
      PROVE  Discipline'
  BY <1>9 DEF EmptyRead
<1>10. ASSUME NEW t \in Threads, FrontRead(t)
       PROVE  Discipline'
  BY <1>10 DEF FrontRead
<1>11. ASSUME NEW t \in Threads, PopBody(t)
       PROVE  Discipline'
  <2>1. /\ t \in Drainers /\ q # <<>> /\ mtx = t
        /\ \A c \in Consumers : pc[c] = "idle"
        /\ local[t] = Head(q)
        /\ \A u \in Threads \ {t} :
             u \in Producers \cup Consumers /\ pc[u] \notin Inside
    BY <1>11 DEF OneUse, PopBody
  <2>2. Head(q) \in Values /\ Tail(q) \in Seq(Values)
    BY <2>1, HeadTailProperties
  <2>3. /\ q' = Tail(q) /\ mtx' = None /\ UNCHANGED local
        /\ pc' = [pc EXCEPT ![t] = "idle"]
        /\ taken' = Append(taken, Head(q)) /\ UNCHANGED pushed
    BY <1>11, <2>1 DEF PopBody
  <2>4. TypeOK'
    BY <2>1, <2>2, <2>3
  <2>5. PcInRole' /\ MutexHeld'
    BY <2>1, <2>3
  <2>6. ArgumentsKept' /\ FrontExists'
    BY <2>1, <2>3
  <2> QED BY <2>4, <2>5, <2>6
<1>12. ASSUME NEW t \in Consumers, SpuriousWakeup(t)
       PROVE  Discipline'
  BY <1>12 DEF SpuriousWakeup
<1>13. CASE UNCHANGED vars
  BY <1>13 DEF vars
<1> QED
  BY <1>1, <1>2, <1>3, <1>4, <1>5, <1>6, <1>7, <1>8, <1>9, <1>10, <1>11, <1>12,
     <1>13 DEF Next, Call, Step

(* The use of the queue changes only while nobody is inside a method of the *)
(* other use: a wakeup is none, as who sleeps is inside.                   *)
LEMMA OneUseNext == Discipline /\ OneUse /\ [Next]_vars => OneUse'
<1> SUFFICES ASSUME Discipline, OneUse, [Next]_vars
             PROVE  OneUse'
  OBVIOUS
<1>0. /\ pc \in [Threads -> LockPoints \cup Inside \cup {"idle", "asleep"}]
      /\ PcInRole
  BY DEF Discipline, TypeOK
<1>1. ASSUME NEW t \in Threads, NEW p, pc[t] # "idle", pc' = [pc EXCEPT ![t] = p]
      PROVE  OneUse'
  BY <1>0, <1>1 DEF OneUse
<1>2. ASSUME NEW t \in Producers, NEW v \in Values, CallPush(t, v)
      PROVE  OneUse'
  BY <1>0, <1>2 DEF CallPush, OneUse
<1>3. ASSUME NEW t \in Consumers, CallWaitAndPop(t)
      PROVE  OneUse'
  BY <1>0, <1>3 DEF CallWaitAndPop, OneUse
<1>4. ASSUME NEW t \in Drainers, CallEmpty(t)
      PROVE  OneUse'
  BY <1>0, <1>4 DEF CallEmpty, OneUse
<1>5. ASSUME NEW t \in Threads, PushBody(t)
      PROVE  OneUse'
  <2>1. pc[t] # "idle"
    BY <1>5 DEF PushBody
  <2>2. CASE pc' = [pc EXCEPT ![t] = "idle"]
    BY <1>1, <2>1, <2>2
  <2>3. ASSUME NEW c \in Asleep, pc' = [[pc EXCEPT ![t] = "idle"] EXCEPT ![c] = "wait_lock"]
        PROVE  OneUse'
    BY <1>0, <2>1, <2>3 DEF OneUse, Asleep
  <2> QED BY <1>5, <2>2, <2>3 DEF PushBody, NotifyOne
<1>6. ASSUME NEW t \in Threads, Acquire(t)
      PROVE  OneUse'
  BY <1>1, <1>6 DEF Acquire, LockPoints
<1>7. ASSUME NEW t \in Threads, WaitCheck(t) \/ TakeFront(t) \/ TakePop(t)
      PROVE  OneUse'
  BY <1>1, <1>7 DEF WaitCheck, TakeFront, TakePop
<1>8. ASSUME NEW t \in Threads, EmptyRead(t) \/ FrontRead(t) \/ PopBody(t)
      PROVE  OneUse'
  BY <1>1, <1>8 DEF EmptyRead, FrontRead, PopBody
<1>9. ASSUME NEW t \in Consumers, SpuriousWakeup(t)
      PROVE  OneUse'
  BY <1>1, <1>9 DEF SpuriousWakeup
<1>10. CASE UNCHANGED vars
  BY <1>10 DEF vars, OneUse
<1> QED
  BY <1>2, <1>3, <1>4, <1>5, <1>6, <1>7, <1>8, <1>9, <1>10 DEF Next, Call, Step

(***************************************************************************)
(* Every behaviour of the queue is well typed, the mutex is held by exactly *)
(* the thread inside a critical section, and front() and pop() never meet  *)
(* an empty std::queue.                                                    *)
(***************************************************************************)
THEOREM DisciplineHolds == Spec => [](Discipline /\ OneUse)
<1>1. Init => OneUse
  BY DEF Init, OneUse
<1> QED BY <1>1, DisciplineInit, DisciplineNext, OneUseNext, PTL DEF Spec

(* Every variable of the queue keeps its type. *)
THEOREM TypeCorrect == Spec => []TypeOK
<1>1. Discipline => TypeOK
  BY DEF Discipline
<1> QED BY <1>1, DisciplineHolds, PTL

(* No call of front() or pop() meets an empty std::queue. *)
THEOREM FrontExistsHolds == Spec => []FrontExists
<1>1. Discipline => FrontExists
  BY DEF Discipline
<1> QED BY <1>1, DisciplineHolds, PTL

(***************************************************************************)
(* What a step of the queue is to its users: a push adds an element at the  *)
(* end; every other step is a step of FifoQueue that pushes nothing.       *)
(***************************************************************************)
PutStep == \E v \in Values : Promise!Put(v) /\ pushed' = Append(pushed, v)

OtherStep ==
  /\ UNCHANGED pushed
  /\ \/ \E t \in Threads : Promise!Wait(t) \/ Promise!Take(t)
     \/ Promise!Drain
     \/ UNCHANGED Promise!vars

LEMMA RemainingTyped ==
  ASSUME Discipline
  PROVE  Remaining \in Seq(Values)
<1> USE DEF Discipline, TypeOK, FrontExists
<1>1. CASE \E c \in Consumers : pc[c] = "take_pop"
  BY <1>1, HeadTailProperties DEF Remaining
<1>2. CASE ~ \E c \in Consumers : pc[c] = "take_pop"
  BY <1>2 DEF Remaining
<1> QED BY <1>1, <1>2

LEMMA StepEffect ==
  ASSUME Discipline, OneUse, Discipline', [Next]_vars
  PROVE  PutStep \/ OtherStep
<1> USE DEF Discipline, TypeOK, PcInRole, MutexHeld, ArgumentsKept, FrontExists,
            Inside, LockPoints
<1> DEFINE Quiet == /\ \A u \in Consumers : pc'[u] = "take_pop" <=> pc[u] = "take_pop"
                    /\ UNCHANGED <<q, pushed, taken, Waiting>>
<1>0. Quiet => OtherStep
  BY DEF OtherStep, Promise!vars, Remaining
<1>1. ASSUME NEW t \in Producers, NEW v \in Values, CallPush(t, v)
      PROVE  OtherStep
  BY <1>0, <1>1 DEF CallPush, Waiting
<1>2. ASSUME NEW t \in Consumers, CallWaitAndPop(t)
      PROVE  OtherStep
  <2>1. /\ t \notin Waiting /\ Waiting' = Waiting \cup {t}
        /\ UNCHANGED <<Remaining, pushed, taken>>
    BY <1>2 DEF CallWaitAndPop, Waiting, Remaining
  <2> QED BY <2>1 DEF OtherStep, Promise!Wait
<1>3. ASSUME NEW t \in Drainers, CallEmpty(t)
      PROVE  OtherStep
  BY <1>0, <1>3 DEF CallEmpty, Waiting
<1>4. ASSUME NEW t \in Threads, Acquire(t)
      PROVE  OtherStep
  BY <1>0, <1>4 DEF Acquire, AfterLock, Waiting
<1>5. ASSUME NEW t \in Threads, PushBody(t)
      PROVE  PutStep
  <2>1. /\ t \in Producers /\ local[t] \in Values
        /\ \A u \in Consumers : pc[u] # "take_pop"
    BY <1>5, ZenonT(30) DEF PushBody
  <2>2. /\ q' = Append(q, local[t])
        /\ pushed' = Append(pushed, local[t])
        /\ taken' = taken
    BY <1>5 DEF PushBody
  <2>3. /\ Waiting' = Waiting
        /\ \A u \in Consumers : pc'[u] # "take_pop"
    <3>1. CASE pc' = [pc EXCEPT ![t] = "idle"]
      BY <2>1, <3>1 DEF Waiting
    <3>2. ASSUME NEW c \in Asleep, pc' = [[pc EXCEPT ![t] = "idle"] EXCEPT ![c] = "wait_lock"]
          PROVE  Waiting' = Waiting /\ \A u \in Consumers : pc'[u] # "take_pop"
      BY <2>1, <3>2 DEF Asleep, Waiting
    <3> QED BY <1>5, <3>1, <3>2 DEF PushBody, NotifyOne
  <2> QED BY <2>1, <2>2, <2>3 DEF PutStep, Promise!Put, Remaining
<1>6. ASSUME NEW t \in Threads, WaitCheck(t)
      PROVE  OtherStep
  BY <1>0, <1>6 DEF WaitCheck, Waiting
<1>7. ASSUME NEW t \in Threads, TakeFront(t)
      PROVE  OtherStep
  <2>1. /\ t \in Consumers /\ q # <<>>
        /\ \A u \in Consumers : pc[u] # "take_pop"
        /\ pc'[t] = "take_pop"
    BY <1>7 DEF TakeFront
  <2>2. /\ Remaining = q /\ Remaining' = Tail(q)
        /\ taken' = Append(taken, Head(q)) /\ UNCHANGED pushed
    BY <1>7, <2>1 DEF TakeFront, Remaining
  <2>3. t \in Waiting /\ Waiting' = Waiting \ {t}
    BY <1>7, <2>1 DEF TakeFront, Waiting
  <2> QED BY <2>1, <2>2, <2>3 DEF OtherStep, Promise!Take, Promise!HandOut
<1>8. ASSUME NEW t \in Threads, TakePop(t)
      PROVE  OtherStep
  <2>1. /\ t \in Consumers /\ pc[t] = "take_pop" /\ q' = Tail(q)
        /\ \A u \in Consumers : pc'[u] # "take_pop"
        /\ UNCHANGED <<pushed, taken>>
    BY <1>8, ZenonT(30) DEF TakePop
  <2>2. UNCHANGED <<Remaining, Waiting>>
    BY <1>8, <2>1 DEF TakePop, Remaining, Waiting
  <2> QED BY <2>1, <2>2 DEF OtherStep, Promise!vars
<1>9. ASSUME NEW t \in Threads, EmptyRead(t)
      PROVE  OtherStep
  BY <1>0, <1>9 DEF EmptyRead, Waiting
<1>10. ASSUME NEW t \in Threads, FrontRead(t)
       PROVE  OtherStep
  BY <1>0, <1>10 DEF FrontRead, Waiting
<1>11. ASSUME NEW t \in Threads, PopBody(t)
       PROVE  OtherStep
  <2>1. /\ t \in Drainers /\ q # <<>> /\ local[t] = Head(q)
        /\ \A c \in Consumers : pc[c] = "idle"
    BY <1>11 DEF OneUse, PopBody
  <2>2. /\ Remaining = q /\ Remaining' = Tail(q) /\ UNCHANGED Waiting
        /\ taken' = Append(taken, Head(q)) /\ UNCHANGED pushed
    BY <1>11, <2>1 DEF PopBody, Remaining, Waiting
  <2> QED BY <2>1, <2>2 DEF OtherStep, Promise!Drain, Promise!HandOut
<1>12. ASSUME NEW t \in Consumers, SpuriousWakeup(t)
       PROVE  OtherStep
  BY <1>0, <1>12 DEF SpuriousWakeup, Waiting
<1>13. CASE UNCHANGED vars
  BY <1>0, <1>13 DEF vars, Waiting
<1> QED
  BY <1>1, <1>2, <1>3, <1>4, <1>5, <1>6, <1>7, <1>8, <1>9, <1>10, <1>11, <1>12,
     <1>13 DEF Next, Call, Step

(***************************************************************************)
(* Whatever the numbers of producers, consumers and pushes, the elements    *)
(* handed out are those pushed, each once and in push order.               *)
(***************************************************************************)
LEMMA FifoOnceNext ==
  ASSUME Discipline, OneUse, Discipline', FifoOnce, [Next]_vars
  PROVE  FifoOnce'
<1>1. /\ Remaining \in Seq(Values) /\ taken \in Seq(Values)
      /\ PutStep \/ OtherStep
  BY RemainingTyped, StepEffect DEF Discipline, TypeOK
<1>2. CASE PutStep
  <2>1. PICK v \in Values : Promise!Put(v) /\ pushed' = Append(pushed, v)
    BY <1>2 DEF PutStep
  <2>2. Remaining' = Append(Remaining, v) /\ taken' = taken
    BY <2>1 DEF Promise!Put
  <2>3. taken \o Append(Remaining, v) = Append(taken \o Remaining, v)
    BY <1>1, ConcatAppend
  <2> QED BY <2>1, <2>2, <2>3 DEF FifoOnce
<1>3. CASE OtherStep
  <2>1. CASE Promise!HandOut
    <3>1. /\ Remaining # <<>> /\ pushed' = pushed
          /\ taken' = Append(taken, Head(Remaining))
          /\ Remaining' = Tail(Remaining)
      BY <1>3, <2>1 DEF OtherStep, Promise!HandOut
    <3>2. Append(taken, Head(Remaining)) \o Tail(Remaining) = taken \o Remaining
      BY <1>1, <3>1, ConcatShift
    <3> QED BY <3>1, <3>2 DEF FifoOnce
  <2>2. CASE ~ Promise!HandOut
    BY <1>3, <2>2 DEF OtherStep, FifoOnce, Promise!Wait, Promise!Take, Promise!Drain,
                      Promise!vars
  <2> QED BY <2>1, <2>2
<1> QED BY <1>1, <1>2, <1>3

(* Whoever takes them, the elements come out once each in push order. *)
THEOREM FifoOnceHolds == Spec => []FifoOnce
<1>1. Init => FifoOnce
  BY EmptySeq DEF Init, FifoOnce, Remaining
<1> QED BY <1>1, DisciplineHolds, FifoOnceNext, PTL DEF Spec

(***************************************************************************)
(* However many consumers wait, an element is never left in the queue while *)
(* everybody who could take it sleeps.                                     *)
(***************************************************************************)
Awake == Waiting \ Asleep

LEMMA NoLostWakeupNext ==
  ASSUME Discipline, OneUse, Discipline', NoLostWakeup, [Next]_vars
  PROVE  NoLostWakeup'
<1> USE DEF Discipline, TypeOK, PcInRole, MutexHeld, ArgumentsKept, FrontExists,
            Inside, LockPoints
<1>0. /\ Remaining \in Seq(Values) /\ Len(Remaining) \in Nat
      /\ IsFiniteSet(Awake) /\ Cardinality(Awake) \in Nat
      /\ IsFiniteSet(Awake') /\ Cardinality(Awake') \in Nat
      /\ NoLostWakeup <=> (Asleep # {} => Len(Remaining) <= Cardinality(Awake))
      /\ NoLostWakeup' <=> (Asleep' # {} => Len(Remaining') <= Cardinality(Awake'))
  <2>1. IsFiniteSet(Awake) /\ IsFiniteSet(Awake')
    BY FS_Subset DEF Awake, Waiting
  <2> QED BY <2>1, RemainingTyped, FS_CardinalityType, LenProperties DEF NoLostWakeup, Awake
(* It suffices that the remaining elements outnumber the threads awake no *)
(* more than before, in any of these ways.                                *)
<1>a. CASE UNCHANGED <<Remaining, Asleep, Waiting>>
  BY <1>0, <1>a DEF Awake
<1>b. ASSUME NEW c, c \notin Awake, Awake' = Awake \cup {c},
             Asleep' \subseteq Asleep,
             Remaining' = Remaining \/ \E v \in Values : Remaining' = Append(Remaining, v)
      PROVE  NoLostWakeup'
  <2>1. Cardinality(Awake') = Cardinality(Awake) + 1
    BY <1>0, <1>b, FS_AddElement
  <2>2. Len(Remaining') <= Len(Remaining) + 1
    BY <1>0, <1>b
  <2>3. Len(Remaining') \in Nat
    BY <1>0, <1>b
  <2> QED BY <1>0, <1>b, <2>1, <2>2, <2>3
<1>c. CASE Asleep' = {}
  BY <1>0, <1>c
<1>d. CASE Remaining' = <<>>
  BY <1>0, <1>d
<1>1. ASSUME NEW t \in Producers, NEW v \in Values, CallPush(t, v)
      PROVE  NoLostWakeup'
  BY <1>a, <1>1 DEF CallPush, Waiting, Asleep, Remaining
<1>2. ASSUME NEW t \in Consumers, CallWaitAndPop(t)
      PROVE  NoLostWakeup'
  <2>1. /\ t \notin Awake /\ Awake' = Awake \cup {t} /\ Asleep' = Asleep
        /\ Remaining' = Remaining
    BY <1>2 DEF CallWaitAndPop, Awake, Waiting, Asleep, Remaining
  <2> QED BY <1>b, <2>1
<1>3. ASSUME NEW t \in Drainers, CallEmpty(t)
      PROVE  NoLostWakeup'
  <2>1. \A c \in Consumers : pc'[c] = "idle"
    BY <1>3 DEF CallEmpty
  <2> QED BY <1>c, <2>1 DEF Asleep
<1>4. ASSUME NEW t \in Threads, Acquire(t)
      PROVE  NoLostWakeup'
  BY <1>a, <1>4 DEF Acquire, AfterLock, Waiting, Asleep, Remaining
<1>5. ASSUME NEW t \in Threads, PushBody(t)
      PROVE  NoLostWakeup'
  <2>1. /\ t \in Producers /\ local[t] \in Values
        /\ \A u \in Consumers : pc[u] # "take_pop"
        /\ q' = Append(q, local[t])
    BY <1>5, ZenonT(30) DEF PushBody
  <2>2. CASE Asleep = {} /\ pc' = [pc EXCEPT ![t] = "idle"]
    BY <1>c, <2>1, <2>2 DEF Asleep
  <2>3. ASSUME NEW c \in Asleep, pc' = [[pc EXCEPT ![t] = "idle"] EXCEPT ![c] = "wait_lock"]
        PROVE  NoLostWakeup'
    <3>1. c \notin Awake /\ Awake' = Awake \cup {c} /\ Asleep' \subseteq Asleep
      BY <2>1, <2>3 DEF Asleep, Awake, Waiting
    <3>2. Remaining' = Append(Remaining, local[t])
      BY <2>1, <2>3 DEF Remaining, Asleep
    <3> QED BY <1>b, <2>1, <3>1, <3>2
  <2> QED BY <1>5, <2>2, <2>3 DEF PushBody, NotifyOne
<1>6. ASSUME NEW t \in Threads, WaitCheck(t)
      PROVE  NoLostWakeup'
  <2>1. CASE q = <<>>
    BY <1>d, <1>6, <2>1 DEF WaitCheck, Remaining
  <2>2. CASE q # <<>>
    BY <1>a, <1>6, <2>2 DEF WaitCheck, Remaining, Asleep, Waiting
  <2> QED BY <2>1, <2>2
<1>7. ASSUME NEW t \in Threads, TakeFront(t)
      PROVE  NoLostWakeup'
  <2>1. /\ t \in Consumers /\ q # <<>>
        /\ \A u \in Consumers : pc[u] # "take_pop"
        /\ pc' = [pc EXCEPT ![t] = "take_pop"] /\ q' = q
    BY <1>7 DEF TakeFront
  <2>2. Remaining = q /\ Remaining' = Tail(q)
    BY <2>1 DEF Remaining
  <2>3. t \in Awake /\ Awake' = Awake \ {t} /\ Asleep' = Asleep
    BY <1>7, <2>1 DEF TakeFront, Awake, Waiting, Asleep
  <2>4. Cardinality(Awake') = Cardinality(Awake) - 1
    BY <1>0, <2>3, FS_RemoveElement
  <2>5. Len(Remaining') = Len(Remaining) - 1
    BY <2>1, <2>2, HeadTailProperties
  <2> QED BY <1>0, <2>3, <2>4, <2>5
<1>8. ASSUME NEW t \in Threads, TakePop(t)
      PROVE  NoLostWakeup'
  BY <1>a, <1>8, SMTT(30) DEF TakePop, Remaining, Waiting, Asleep
<1>9. ASSUME NEW t \in Threads, EmptyRead(t) \/ FrontRead(t) \/ PopBody(t)
      PROVE  NoLostWakeup'
  <2>1. \A c \in Consumers : pc[c] = "idle"
    BY <1>9, ZenonT(30) DEF OneUse, EmptyRead, FrontRead, PopBody
  <2>2. t \in Drainers /\ \E p : pc' = [pc EXCEPT ![t] = p]
    BY <1>9 DEF EmptyRead, FrontRead, PopBody
  <2>3. \A c \in Consumers : pc'[c] = "idle"
    BY <2>1, <2>2
  <2> QED BY <1>c, <2>3 DEF Asleep
<1>10. ASSUME NEW t \in Consumers, SpuriousWakeup(t)
       PROVE  NoLostWakeup'
  <2>1. /\ t \notin Awake /\ Awake' = Awake \cup {t} /\ Asleep' \subseteq Asleep
        /\ Remaining' = Remaining
    BY <1>10 DEF SpuriousWakeup, Awake, Waiting, Asleep, Remaining
  <2> QED BY <1>b, <2>1
<1>11. CASE UNCHANGED vars
  BY <1>a, <1>11 DEF vars, Waiting, Asleep, Remaining
<1> QED
  BY <1>1, <1>2, <1>3, <1>4, <1>5, <1>6, <1>7, <1>8, <1>9, <1>10, <1>11
     DEF Next, Call, Step

(* No element is left in the queue while all who could take it sleep. *)
THEOREM NoLostWakeupHolds == Spec => []NoLostWakeup
<1>1. Init => NoLostWakeup
  BY DEF Init, NoLostWakeup, Asleep
<1> QED BY <1>1, DisciplineHolds, NoLostWakeupNext, PTL DEF Spec

(***************************************************************************)
(* The queue implements FifoQueue, as far as safety goes.                  *)
(***************************************************************************)
THEOREM RefinesFifoQueue == Spec => Promise!Init /\ [][Promise!Next]_(Promise!vars)
<1>1. Init => Promise!Init
  BY DEF Init, Promise!Init, Remaining, Waiting
<1>2. Discipline /\ OneUse /\ Discipline' /\ [Next]_vars => [Promise!Next]_(Promise!vars)
  BY StepEffect DEF PutStep, OtherStep, Promise!Next
<1> QED BY <1>1, <1>2, DisciplineHolds, PTL DEF Spec
=============================================================================
