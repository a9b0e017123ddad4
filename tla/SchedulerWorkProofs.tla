------------------------ MODULE SchedulerWorkProofs -------------------------
(***************************************************************************)
(* Proofs about Scheduler, continued: that the counters of work have each     *)
(* operation that has started and not ended once, and that run() gives up for *)
(* want of work only when there is none, for any number of threads,          *)
(* operations and descriptors.                                              *)
(*                                                                         *)
(* Both rest on Exclusive, an operation is in one place at a time, be it one  *)
(* of the queues, the list of a descriptor, a thread's hands, or among those *)
(* not started or ended, and on InHand, what a thread has in hand by where it *)
(* is: a thread that runs a handler has an operation, and one that waits or   *)
(* polls has nothing, in hand and in its private queue, to be counted.       *)
(***************************************************************************)
EXTENDS SchedulerProofs

Kinds == {"unused", "done", "queue", "private", "posting", "waiting", "current"}

Owners == Threads \cup Descs \cup {None}

(* The places an operation can be in: a kind and whose it is. *)
Holds(k, x, op) ==
  \/ k = "unused" /\ x = None /\ op \in unused
  \/ k = "done" /\ x = None /\ op \in done
  \/ k = "queue" /\ x = None /\ op \in Queued
  \/ k = "private" /\ x \in Runners /\ op \in PrivateOf(x)
  \/ k = "posting" /\ x \in Threads /\ op \in Range(posting[x])
  \/ k = "waiting" /\ x \in Descs /\ op \in Range(waiting[x])
  \/ k = "current" /\ x \in Runners /\ op = current[x]

InOnePlace(op) ==
  \A j, k \in Kinds, x, y \in Owners : Holds(j, x, op) /\ Holds(k, y, op) => j = k /\ x = y

NoRepeat(s) == \A i, j \in DOMAIN s : s[i] = s[j] /\ s[i] \in Ops => i = j

Exclusive ==
  /\ \A op \in Ops : InOnePlace(op)
  /\ NoRepeat(op_queue)
  /\ \A r \in Runners : NoRepeat(private_op_queue[r])
  /\ \A t \in Threads : NoRepeat(posting[t])
  /\ \A d \in Descs : NoRepeat(waiting[d])

(* What a thread has in hand, by where it is. *)
InHand ==
  \A r \in Runners :
    /\ posting[r] # <<>> => pc[r] = "handler"
    /\ pc[r] \notin {"handler", "lock", "task_cleanup"} => private_op_queue[r] = <<>>
    /\ pc[r] \notin {"handler", "perform"} => current[r] = None
    /\ private_work[r] = PrivateWorkOf(r)

Counted ==
  /\ IsFiniteSet(Live)
  /\ outstanding_work = Cardinality(Live \ Apart)
-----------------------------------------------------------------------------
USE Distinct DEF Threads, PrivateWorkOf

(******************************* sequences *********************************)
LEMMA PartsOf ==
  ASSUME NEW S, NEW s \in Seq(S)
  PROVE  /\ Len(s) \in Nat /\ DOMAIN s = 1 .. Len(s)
         /\ Range(s) = {s[i] : i \in 1 .. Len(s)} /\ Range(s) \subseteq S
<1>1. Len(s) \in Nat /\ DOMAIN s = 1 .. Len(s) /\ \A i \in 1 .. Len(s) : s[i] \in S
  BY LenProperties
<1> QED BY <1>1 DEF Range

LEMMA JoinedParts ==
  ASSUME NEW S, NEW s \in Seq(S), NEW t \in Seq(S)
  PROVE  /\ Range(s \o t) = Range(s) \cup Range(t)
         /\ NoRepeat(s) /\ NoRepeat(t) /\ Range(s) \cap Range(t) \cap Ops = {} => NoRepeat(s \o t)
<1>1. /\ s \o t \in Seq(S) /\ Len(s \o t) = Len(s) + Len(t)
      /\ \A i \in 1 .. Len(s) + Len(t) :
           (s \o t)[i] = IF i <= Len(s) THEN s[i] ELSE t[i - Len(s)]
  OBVIOUS
<1>2. /\ Len(s) \in Nat /\ DOMAIN s = 1 .. Len(s) /\ Range(s) = {s[i] : i \in 1 .. Len(s)}
      /\ Len(t) \in Nat /\ DOMAIN t = 1 .. Len(t) /\ Range(t) = {t[i] : i \in 1 .. Len(t)}
      /\ DOMAIN (s \o t) = 1 .. Len(s) + Len(t)
      /\ Range(s \o t) = {(s \o t)[i] : i \in 1 .. Len(s) + Len(t)}
  <2>1. PICK u \in Seq(S) : u = s \o t
    BY <1>1
  <2>2. DOMAIN u = 1 .. Len(u) /\ Range(u) = {u[i] : i \in 1 .. Len(u)}
    BY PartsOf
  <2>3. /\ Len(s) \in Nat /\ DOMAIN s = 1 .. Len(s) /\ Range(s) = {s[i] : i \in 1 .. Len(s)}
        /\ Len(t) \in Nat /\ DOMAIN t = 1 .. Len(t) /\ Range(t) = {t[i] : i \in 1 .. Len(t)}
    BY PartsOf
  <2> QED BY <1>1, <2>1, <2>2, <2>3
<1>3. /\ \A i \in 1 .. Len(s) : i \in 1 .. Len(s) + Len(t) /\ (s \o t)[i] = s[i]
      /\ \A i \in 1 .. Len(t) : /\ i + Len(s) \in 1 .. Len(s) + Len(t)
                               /\ (s \o t)[i + Len(s)] = t[i]
      /\ \A i \in 1 .. Len(s) + Len(t) :
           (i \in 1 .. Len(s) /\ (s \o t)[i] = s[i])
             \/ (i - Len(s) \in 1 .. Len(t) /\ (s \o t)[i] = t[i - Len(s)])
  BY <1>1, <1>2
<1>4. Range(s \o t) = Range(s) \cup Range(t)
  <2>1. ASSUME NEW e \in Range(s \o t) PROVE e \in Range(s) \cup Range(t)
    BY <1>2, <1>3
  <2>2. ASSUME NEW e \in Range(s) PROVE e \in Range(s \o t)
    BY <1>2, <1>3
  <2>3. ASSUME NEW e \in Range(t) PROVE e \in Range(s \o t)
    <3>1. PICK i \in 1 .. Len(t) : e = t[i]
      BY <1>2, <2>3
    <3>2. i + Len(s) \in 1 .. Len(s) + Len(t) /\ (s \o t)[i + Len(s)] = e
      BY <1>3, <3>1
    <3> QED BY <1>2, <3>2
  <2> QED BY <2>1, <2>2, <2>3
<1>5. ASSUME NoRepeat(s), NoRepeat(t), Range(s) \cap Range(t) \cap Ops = {},
             NEW i \in 1 .. Len(s) + Len(t), NEW j \in 1 .. Len(s) + Len(t),
             (s \o t)[i] = (s \o t)[j], (s \o t)[i] \in Ops
      PROVE  i = j
  <2>1. CASE i \in 1 .. Len(s) /\ j \in 1 .. Len(s)
    BY <1>2, <1>3, <1>5, <2>1 DEF NoRepeat
  <2>2. CASE i \in 1 .. Len(s) /\ j \notin 1 .. Len(s)
    <3>1. s[i] = t[j - Len(s)] /\ j - Len(s) \in 1 .. Len(t) /\ s[i] \in Ops
      BY <1>2, <1>3, <1>5, <2>2
    <3> QED BY <1>2, <1>5, <2>2, <3>1
  <2>3. CASE i \notin 1 .. Len(s) /\ j \in 1 .. Len(s)
    <3>1. s[j] = t[i - Len(s)] /\ i - Len(s) \in 1 .. Len(t) /\ s[j] \in Ops
      BY <1>2, <1>3, <1>5, <2>3
    <3> QED BY <1>2, <1>5, <2>3, <3>1
  <2>4. CASE i \notin 1 .. Len(s) /\ j \notin 1 .. Len(s)
    <3>1. /\ i - Len(s) \in 1 .. Len(t) /\ j - Len(s) \in 1 .. Len(t)
          /\ t[i - Len(s)] = t[j - Len(s)] /\ t[i - Len(s)] \in Ops
      BY <1>2, <1>3, <1>5, <2>4
    <3>2. i - Len(s) = j - Len(s)
      BY <1>2, <1>5, <3>1 DEF NoRepeat
    <3> QED BY <1>2, <3>2
  <2> QED BY <2>1, <2>2, <2>3, <2>4
<1>6. NoRepeat(s) /\ NoRepeat(t) /\ Range(s) \cap Range(t) \cap Ops = {} => NoRepeat(s \o t)
  BY <1>2, <1>5 DEF NoRepeat
<1> QED BY <1>4, <1>6

LEMMA OnePart ==
  ASSUME NEW S, NEW e \in S
  PROVE  <<e>> \in Seq(S) /\ Range(<<e>>) = {e} /\ NoRepeat(<<e>>)
<1>1. <<e>> \in Seq(S) /\ Len(<<e>>) = 1 /\ <<e>>[1] = e
  OBVIOUS
<1>2. PICK u \in Seq(S) : u = <<e>> /\ Len(u) = 1 /\ u[1] = e
  BY <1>1
<1>3. Range(u) = {u[i] : i \in 1 .. 1} /\ DOMAIN u = 1 .. 1
  <2>1. Range(u) = {u[i] : i \in 1 .. Len(u)} /\ DOMAIN u = 1 .. Len(u)
    BY PartsOf
  <2> QED BY <1>2, <2>1
<1>4. Range(u) = {e} /\ NoRepeat(u)
  BY <1>2, <1>3 DEF NoRepeat
<1> QED BY <1>2, <1>4

LEMMA NoPart == <<>> \in Seq(Ops) /\ Range(<<>>) = {} /\ NoRepeat(<<>>)
  BY DEF Range, NoRepeat

LEMMA AppendedPart ==
  ASSUME NEW S, NEW s \in Seq(S), NEW e \in S
  PROVE  /\ Append(s, e) \in Seq(S) /\ Len(Append(s, e)) = Len(s) + 1
         /\ Range(Append(s, e)) = Range(s) \cup {e}
         /\ NoRepeat(s) /\ e \notin Range(s) => NoRepeat(Append(s, e))
<1>1. Append(s, e) = s \o <<e>> /\ Append(s, e) \in Seq(S) /\ Len(Append(s, e)) = Len(s) + 1
  OBVIOUS
<1>2. PICK t : t = <<e>>
  OBVIOUS
<1>3. t \in Seq(S) /\ Range(t) = {e} /\ NoRepeat(t)
  BY <1>2, OnePart
<1>4. /\ Range(s \o t) = Range(s) \cup {e}
      /\ NoRepeat(s) /\ e \notin Range(s) => NoRepeat(s \o t)
  BY <1>3, JoinedParts
<1> QED BY <1>1, <1>2, <1>4

LEMMA TailParts ==
  ASSUME NEW S, NEW s \in Seq(S), s # <<>>
  PROVE  /\ Head(s) \in S /\ Tail(s) \in Seq(S)
         /\ Range(Tail(s)) \subseteq Range(s) /\ Head(s) \in Range(s)
         /\ Range(s) \subseteq Range(Tail(s)) \cup {Head(s)}
         /\ NoRepeat(s) => /\ NoRepeat(Tail(s))
                           /\ Head(s) \in Ops => Head(s) \notin Range(Tail(s))
<1>0. /\ Head(s) \in S /\ Tail(s) \in Seq(S) /\ Len(Tail(s)) = Len(s) - 1 /\ Len(s) > 0
      /\ Head(s) = s[1] /\ \A i \in 1 .. Len(Tail(s)) : Tail(s)[i] = s[i + 1]
  BY TailTyped
<1>1. PICK t \in Seq(S), h \in S :
        /\ Tail(s) = t /\ Head(s) = h /\ Len(t) = Len(s) - 1 /\ Len(s) > 0 /\ h = s[1]
        /\ \A i \in 1 .. Len(t) : t[i] = s[i + 1]
  BY <1>0, Zenon
<1>2. /\ Len(s) \in Nat /\ DOMAIN s = 1 .. Len(s) /\ Range(s) = {s[i] : i \in 1 .. Len(s)}
      /\ Len(t) \in Nat /\ DOMAIN t = 1 .. Len(t) /\ Range(t) = {t[i] : i \in 1 .. Len(t)}
  <2>1. Len(t) \in Nat /\ DOMAIN t = 1 .. Len(t) /\ Range(t) = {t[i] : i \in 1 .. Len(t)}
    BY PartsOf
  <2> QED BY <2>1, PartsOf
<1>3. /\ \A i \in 1 .. Len(s) - 1 : i + 1 \in 1 .. Len(s) /\ t[i] = s[i + 1]
      /\ 1 \in 1 .. Len(s)
      /\ \A i \in 1 .. Len(s) : i = 1 \/ (i - 1 \in 1 .. Len(s) - 1 /\ t[i - 1] = s[i])
  BY <1>1, <1>2
<1>4. /\ Range(t) \subseteq Range(s) /\ h \in Range(s)
      /\ Range(s) \subseteq Range(t) \cup {h}
  <2>1. ASSUME NEW e \in Range(t) PROVE e \in Range(s)
    <3>1. PICK i \in 1 .. Len(s) - 1 : e = t[i]
      BY <1>1, <1>2, <2>1
    <3> QED BY <1>2, <1>3, <3>1
  <2>2. ASSUME NEW e \in Range(s) PROVE e \in Range(t) \cup {h}
    <3>1. PICK i \in 1 .. Len(s) : e = s[i]
      BY <1>2, <2>2
    <3> QED BY <1>1, <1>2, <1>3, <3>1
  <2> QED BY <1>1, <1>2, <1>3, <2>1, <2>2
<1>5. ASSUME NoRepeat(s)
      PROVE  NoRepeat(t) /\ (h \in Ops => h \notin Range(t))
  <2>1. ASSUME NEW i \in 1 .. Len(s) - 1, NEW j \in 1 .. Len(s) - 1,
               t[i] = t[j], t[i] \in Ops
        PROVE  i = j
    <3>1. i + 1 = j + 1
      BY <1>2, <1>3, <1>5, <2>1, ZenonT(30) DEF NoRepeat
    <3> QED BY <3>1
  <2>2. ASSUME NEW i \in 1 .. Len(s) - 1, h \in Ops PROVE t[i] # h
    <3>1. i + 1 # 1 /\ i + 1 \in 1 .. Len(s) /\ t[i] = s[i + 1] /\ h = s[1]
      BY <1>1, <1>2, <1>3
    <3> QED BY <1>2, <1>3, <1>5, <2>2, <3>1 DEF NoRepeat
  <2> QED BY <1>1, <1>2, <2>1, <2>2 DEF NoRepeat
<1> QED BY <1>1, <1>4, <1>5

(* What perform_io makes of a descriptor's operations. *)
LEMMA SplitParts ==
  ASSUME NEW s \in Seq(Ops), NEW k \in 0 .. Len(s), NoRepeat(s)
  PROVE  /\ SubSeq(s, 2, k) \in Seq(Ops) /\ SubSeq(s, k + 1, Len(s)) \in Seq(Ops)
         /\ NoRepeat(SubSeq(s, 2, k)) /\ NoRepeat(SubSeq(s, k + 1, Len(s)))
         /\ Range(SubSeq(s, 2, k)) \subseteq Range(s)
         /\ Range(SubSeq(s, k + 1, Len(s))) \subseteq Range(s)
         /\ Range(SubSeq(s, 2, k)) \cap Range(SubSeq(s, k + 1, Len(s))) = {}
         /\ k # 0 => s[1] \in Range(s) \ (Range(SubSeq(s, 2, k)) \cup Range(SubSeq(s, k + 1, Len(s))))
         /\ k = 0 => SubSeq(s, 2, k) = <<>> /\ SubSeq(s, k + 1, Len(s)) = s
<1> DEFINE a == SubSeq(s, 2, k)
           b == SubSeq(s, k + 1, Len(s))
<1> HIDE DEF a, b
<1>1. /\ Len(s) \in Nat /\ DOMAIN s = 1 .. Len(s) /\ Range(s) = {s[i] : i \in 1 .. Len(s)}
      /\ \A i \in 1 .. Len(s) : s[i] \in Ops
      /\ k \in Nat /\ k <= Len(s)
  BY PartsOf, LenProperties
<1>2. a \in Seq(Ops) /\ b \in Seq(Ops)
  BY SubSeqTyped DEF a, b
<1>3. /\ Len(a) = IF 2 <= k THEN k - 1 ELSE 0
      /\ \A i \in 1 .. Len(a) : a[i] = s[i + 1]
  <2>1. \A i \in 2 .. k : s[i] \in Ops
    BY <1>1
  <2>2. /\ Len(a) = IF 2 <= k THEN k - 2 + 1 ELSE 0
        /\ \A i \in 1 .. k - 2 + 1 : a[i] = s[2 + i - 1]
    BY <1>1, <2>1, SubSeqProperties DEF a
  <2> QED BY <1>1, <2>2
<1>4. Len(b) = Len(s) - k /\ \A i \in 1 .. Len(b) : b[i] = s[k + i]
  <2>1. \A i \in k + 1 .. Len(s) : s[i] \in Ops
    BY <1>1
  <2>2. /\ Len(b) = IF k + 1 <= Len(s) THEN Len(s) - (k + 1) + 1 ELSE 0
        /\ \A i \in 1 .. Len(s) - (k + 1) + 1 : b[i] = s[k + 1 + i - 1]
    BY <1>1, <2>1, SubSeqProperties DEF b
  <2>3. Len(b) = Len(s) - k
    <3>1. Len(s) \in Nat /\ k \in Nat /\ k <= Len(s)
      BY <1>1
    <3>2. Len(b) = IF k + 1 <= Len(s) THEN Len(s) - (k + 1) + 1 ELSE 0
      BY <2>2
    <3> QED BY <3>1, <3>2
  <2>4. ASSUME NEW i \in 1 .. Len(b) PROVE b[i] = s[k + i]
    <3>1. k + 1 + i - 1 = k + i /\ i \in 1 .. Len(s) - (k + 1) + 1
      BY <1>1, <2>3
    <3> QED BY <2>2, <3>1
  <2> QED BY <2>3, <2>4
<1>5. /\ DOMAIN a = 1 .. Len(a) /\ Range(a) = {a[i] : i \in 1 .. Len(a)}
      /\ DOMAIN b = 1 .. Len(b) /\ Range(b) = {b[i] : i \in 1 .. Len(b)}
  <2>1. DOMAIN a = 1 .. Len(a) /\ Range(a) = {a[i] : i \in 1 .. Len(a)}
    BY <1>2, PartsOf
  <2> QED BY <1>2, <2>1, PartsOf
<1>6. \A i, j \in 1 .. Len(s) : s[i] = s[j] => i = j
  BY <1>1 DEF NoRepeat
<1>7. /\ \A i \in 1 .. Len(a) : i + 1 \in 1 .. Len(s) /\ i + 1 <= k /\ i + 1 # 1
      /\ \A i \in 1 .. Len(b) : k + i \in 1 .. Len(s) /\ k + i > k /\ (k # 0 => k + i # 1)
  BY <1>1, <1>3, <1>4
<1>8. NoRepeat(a)
  <2>1. ASSUME NEW i \in 1 .. Len(a), NEW j \in 1 .. Len(a), a[i] = a[j] PROVE i = j
    <3>1. i + 1 = j + 1
      BY <1>3, <1>6, <1>7, <2>1
    <3> QED BY <1>1, <1>3, <3>1
  <2> QED BY <1>5, <2>1 DEF NoRepeat
<1>9. NoRepeat(b)
  <2>1. ASSUME NEW i \in 1 .. Len(b), NEW j \in 1 .. Len(b), b[i] = b[j] PROVE i = j
    <3>1. k + i = k + j
      BY <1>4, <1>6, <1>7, <2>1
    <3> QED BY <1>1, <1>4, <3>1
  <2> QED BY <1>5, <2>1 DEF NoRepeat
<1>10. Range(a) \subseteq Range(s) /\ Range(b) \subseteq Range(s)
  <2>1. ASSUME NEW e \in Range(a) PROVE e \in Range(s)
    <3>1. PICK i \in 1 .. Len(a) : e = a[i]
      BY <1>5, <2>1
    <3> QED BY <1>1, <1>3, <1>7, <3>1
  <2>2. ASSUME NEW e \in Range(b) PROVE e \in Range(s)
    <3>1. PICK i \in 1 .. Len(b) : e = b[i]
      BY <1>5, <2>2
    <3> QED BY <1>1, <1>4, <1>7, <3>1
  <2> QED BY <2>1, <2>2
<1>11. ASSUME NEW i \in 1 .. Len(a), NEW j \in 1 .. Len(b) PROVE a[i] # b[j]
  <2>1. i + 1 # k + j
    BY <1>1, <1>3, <1>4, <1>7
  <2> QED BY <1>3, <1>4, <1>6, <1>7, <2>1, SMTT(30)
<1>12. ASSUME k # 0 PROVE s[1] \in Range(s) \ (Range(a) \cup Range(b))
  <2>1. 1 \in 1 .. Len(s)
    BY <1>1, <1>12
  <2>2. \A i \in 1 .. Len(a) : a[i] # s[1]
    BY <1>3, <1>6, <1>7, <2>1
  <2>3. \A i \in 1 .. Len(b) : b[i] # s[1]
    BY <1>4, <1>6, <1>7, <1>12, <2>1
  <2> QED BY <1>1, <1>5, <2>1, <2>2, <2>3
<1>13. ASSUME k = 0 PROVE a = <<>> /\ b = s
  <2>1. Len(a) = 0
    BY <1>3, <1>13
  <2>2. a = <<>>
    BY <1>2, <2>1, EmptySeq
  <2>3. Len(b) = Len(s) /\ \A i \in 1 .. Len(s) : b[i] = s[i]
    BY <1>1, <1>4, <1>13
  <2>4. b = s
    BY <1>2, <2>3, SeqEqual
  <2> QED BY <2>2, <2>4
<1>14. Range(a) \cap Range(b) = {}
  BY <1>5, <1>11
<1> QED BY <1>2, <1>8, <1>9, <1>10, <1>12, <1>13, <1>14 DEF a, b
-----------------------------------------------------------------------------
(**************************** what is in hand ******************************)
LEMMA InHandInit == Init => InHand
<1> SUFFICES ASSUME Init PROVE InHand
  OBVIOUS
<1>1. \A r \in Runners : /\ pc[r] = "out" /\ posting[r] = <<>> /\ private_op_queue[r] = <<>>
                         /\ current[r] = None /\ private_work[r] = 0
  BY DEF Init
<1> QED BY <1>1 DEF InHand

(* The steps of threads that have nothing in hand. *)
EmptyHanded == {"out", "no_work", "loop", "asleep", "awake", "poll", "block", "work_finished"}

LEMMA InHandStill ==
  ASSUME InHand, UNCHANGED <<current, posting, private_op_queue, private_work>>,
         \A r \in Runners : \/ pc'[r] = pc[r]
                            \/ pc[r] \in EmptyHanded /\ pc'[r] \notin {"handler", "cleanup"}
  PROVE  InHand'
<1> SUFFICES ASSUME NEW r \in Runners
             PROVE  /\ posting'[r] # <<>> => pc'[r] = "handler"
                    /\ pc'[r] \notin {"handler", "lock", "task_cleanup"} => private_op_queue'[r] = <<>>
                    /\ pc'[r] \notin {"handler", "perform"} => current'[r] = None
                    /\ private_work'[r] = PrivateWorkOf(r)'
  BY DEF InHand
<1>1. CASE pc'[r] = pc[r]
  BY <1>1 DEF InHand
<1>2. CASE pc[r] \in EmptyHanded /\ pc'[r] \notin {"handler", "cleanup"}
  BY <1>2 DEF InHand, EmptyHanded
<1> QED BY <1>1, <1>2

LEMMA InHandIdle ==
  ASSUME TypeOK, InHand, NEW t \in Threads,
         \/ t \in Runners /\ \/ Enter(t) \/ StopForWant(t) \/ Reacquire(t) \/ Leave(t)
                             \/ TakeTask(t) \/ Wait(t) \/ SpuriousWakeup(t)
         \/ Signal(t) \/ Stop(t)
         \/ (\E op \in Ops, d \in Descs : StartOp(t, op, d))
         \/ (\E d \in Descs : Edge(d)) \/ UNCHANGED vars
  PROVE  InHand'
<1>1. UNCHANGED <<current, posting, private_op_queue, private_work>>
  BY DEF Enter, StopForWant, StopAllThreads, Reacquire, Leave, TakeTask, Wait, SpuriousWakeup, Signal,
         Stop, StartOp, Edge, vars, workVars, opVars
<1>2. \A r \in Runners : \/ pc'[r] = pc[r]
                         \/ pc[r] \in EmptyHanded /\ pc'[r] \notin {"handler", "cleanup"}
  <2> USE DEF EmptyHanded, TypeOK
  <2>1. CASE t \in Runners /\ \/ Enter(t) \/ Reacquire(t) \/ Leave(t) \/ TakeTask(t) \/ Wait(t)
                              \/ SpuriousWakeup(t)
    BY <2>1, SMTT(30) DEF Enter, Reacquire, Leave, TakeTask, Wait, SpuriousWakeup, Loop
  <2>2. CASE (t \in Runners /\ StopForWant(t)) \/ Stop(t)
    BY <2>2 DEF StopForWant, Stop, StopAllThreads, Asleep
  <2>3. CASE Signal(t)
    BY <2>3, SMTT(30) DEF Signal, Asleep
  <2>4. CASE \/ \E op \in Ops, d \in Descs : StartOp(t, op, d)
             \/ (\E d \in Descs : Edge(d)) \/ UNCHANGED vars
    BY <2>4 DEF StartOp, Edge, vars
  <2> QED BY <2>1, <2>2, <2>3, <2>4
<1> QED BY <1>1, <1>2, InHandStill

(* The steps of one thread, by what it has in hand after them. *)
LEMMA InHandOf ==
  ASSUME TypeOK, InHand, NEW t \in Threads,
         \A r \in Runners \ {t} : /\ pc'[r] = pc[r] /\ posting'[r] = posting[r]
                                  /\ private_op_queue'[r] = private_op_queue[r]
                                  /\ current'[r] = current[r] /\ private_work'[r] = private_work[r],
         t \in Runners =>
           /\ posting'[t] # <<>> => pc'[t] = "handler"
           /\ pc'[t] \notin {"handler", "lock", "task_cleanup"} => private_op_queue'[t] = <<>>
           /\ pc'[t] \notin {"handler", "perform"} => current'[t] = None
           /\ private_work'[t] = PrivateWorkOf(t)'
  PROVE  InHand'
<1> SUFFICES ASSUME NEW r \in Runners
             PROVE  /\ posting'[r] # <<>> => pc'[r] = "handler"
                    /\ pc'[r] \notin {"handler", "lock", "task_cleanup"} => private_op_queue'[r] = <<>>
                    /\ pc'[r] \notin {"handler", "perform"} => current'[r] = None
                    /\ private_work'[r] = PrivateWorkOf(r)'
  BY DEF InHand
<1>1. CASE r = t
  BY <1>1
<1>2. CASE r # t
  BY <1>2 DEF InHand
<1> QED BY <1>1, <1>2

LEMMA InHandNext == TypeOK /\ InHand /\ [Next]_vars => InHand'
<1> SUFFICES ASSUME TypeOK, InHand, [Next]_vars PROVE InHand'
  OBVIOUS
<1> DEFINE After(t) ==
      /\ posting'[t] # <<>> => pc'[t] = "handler"
      /\ pc'[t] \notin {"handler", "lock", "task_cleanup"} => private_op_queue'[t] = <<>>
      /\ pc'[t] \notin {"handler", "perform"} => current'[t] = None
      /\ private_work'[t] = PrivateWorkOf(t)'
    Others(t) ==
      \A r \in Runners \ {t} : /\ pc'[r] = pc[r] /\ posting'[r] = posting[r]
                               /\ private_op_queue'[r] = private_op_queue[r]
                               /\ current'[r] = current[r] /\ private_work'[r] = private_work[r]
<1>a. ASSUME NEW t \in Threads, Others(t), t \in Runners => After(t) PROVE InHand'
  BY <1>a, InHandOf
<1> USE DEF TypeOK, opVars, workVars
<1>1. ASSUME NEW r \in Runners, Lock(r) \/ TaskCleanup(r) PROVE InHand'
  <2>1. Others(r)
    BY <1>1 DEF Lock, TaskCleanup
  <2>2. After(r)
    BY <1>1 DEF Lock, TaskCleanup, InHand
  <2> QED BY <1>a, <2>1, <2>2
<1>2. ASSUME NEW r \in Runners, Poll(r) PROVE InHand'
  <2>1. Others(r)
    BY <1>2 DEF Poll
  <2>2. After(r)
    BY <1>2 DEF Poll, InHand
  <2> QED BY <1>a, <2>1, <2>2
<1>3. ASSUME NEW r \in Runners, TakeOp(r) PROVE InHand'
  <2>1. Others(r)
    BY <1>3 DEF TakeOp
  <2>2. /\ posting[r] = <<>> /\ private_op_queue[r] = <<>> /\ private_work[r] = 0
        /\ pc'[r] \in {"perform", "handler"}
        /\ posting'[r] = <<>> /\ private_op_queue'[r] = <<>> /\ private_work'[r] = 0
    BY <1>3 DEF TakeOp, Loop, InHand
  <2>3. After(r)
    BY <2>2
  <2> QED BY <1>a, <2>1, <2>3
<1>4. ASSUME NEW r \in Runners, PerformIo(r) PROVE InHand'
  <2>1. PICK k \in 0 .. Len(waiting[current[r]]) :
          /\ posting' = [posting EXCEPT ![r] = SubSeq(waiting[current[r]], 2, k)]
          /\ current' = [current EXCEPT ![r] = IF k = 0 THEN None ELSE waiting[current[r]][1]]
          /\ private_work' = [private_work EXCEPT ![r] = IF k = 0 THEN @ + 1 ELSE @]
          /\ pc' = [pc EXCEPT ![r] = IF k = 0 THEN "cleanup" ELSE "handler"]
    BY <1>4 DEF PerformIo
  <2>2. /\ private_op_queue[r] = <<>> /\ private_work[r] = 0 /\ private_op_queue'[r] = <<>>
        /\ Len(<<>>) = 0
    BY <1>4 DEF PerformIo, InHand
  <2>3. k = 0 => SubSeq(waiting[current[r]], 2, k) = <<>>
    BY SubSeqEmpty
  <2>4. Others(r)
    BY <1>4, <2>1 DEF PerformIo
  <2>5. /\ posting'[r] = SubSeq(waiting[current[r]], 2, k)
        /\ current'[r] = (IF k = 0 THEN None ELSE waiting[current[r]][1])
        /\ private_work'[r] = (IF k = 0 THEN 1 ELSE 0)
        /\ pc'[r] = IF k = 0 THEN "cleanup" ELSE "handler"
    BY <2>1, <2>2
  <2>6. After(r)
    BY <2>2, <2>3, <2>5
  <2> QED BY <1>a, <2>4, <2>6
<1>5. ASSUME NEW r \in Runners, Cleanup(r) PROVE InHand'
  <2>1. Others(r)
    BY <1>5 DEF Cleanup, Finished
  <2>2. After(r)
    BY <1>5 DEF Cleanup, Finished, InHand
  <2> QED BY <1>a, <2>1, <2>2
<1>6. ASSUME NEW r \in Runners, HandlerReturns(r) PROVE InHand'
  <2>1. Others(r)
    BY <1>6 DEF HandlerReturns, Finished
  <2>2. /\ posting'[r] = <<>> /\ current'[r] = None /\ private_work'[r] = 0
        /\ private_op_queue'[r] = private_op_queue[r]
        /\ private_work[r] = Len(private_op_queue[r])
        /\ pc'[r] = (IF private_work[r] < 1 /\ outstanding_work' = 0 THEN "work_finished" ELSE "lock")
    BY <1>6 DEF HandlerReturns, Free, Finished, InHand
  <2>3. private_work[r] < 1 => private_op_queue[r] = <<>>
    BY <2>2, EmptySeq
  <2>4. After(r)
    BY <2>2, <2>3
  <2> QED BY <1>a, <2>1, <2>4
<1>7. ASSUME NEW t \in Threads,
             \/ \E op \in Ops : Post(t, op)
             \/ \E d \in Descs : CancelOps(t, d)
             \/ Push(t)
      PROVE  InHand'
  <2>1. /\ Others(t) /\ pc' = pc /\ private_op_queue' = private_op_queue /\ current' = current
        /\ private_work' = private_work
    BY <1>7 DEF Post, CancelOps, Push
  <2>2. t \in Runners /\ posting'[t] # <<>> => pc[t] = "handler"
    BY <1>7 DEF Post, CancelOps, Push, Free
  <2>3. t \in Runners => After(t)
    BY <2>1, <2>2 DEF InHand
  <2> QED BY <1>a, <2>1, <2>3
<1>8. ASSUME NEW t \in Threads, NEW op \in Ops, PostContinuation(t, op) PROVE InHand'
  <2>1. t \in Runners /\ Others(t)
    BY <1>8 DEF PostContinuation
  <2>2. /\ pc'[t] = "handler" /\ private_work'[t] = Len(private_op_queue[t]) + 1
        /\ private_op_queue'[t] = Append(private_op_queue[t], op)
        /\ private_op_queue[t] \in Seq(Ops \cup Descs)
    BY <1>8, <2>1, ZenonT(30) DEF PostContinuation, Free, InHand
  <2>3. After(t)
    BY <2>2, AppendedPart
  <2> QED BY <1>a, <2>1, <2>3
<1>9. CASE (\E d \in Descs : Edge(d)) \/ UNCHANGED vars
  <2>1. UNCHANGED <<pc, current, posting, private_op_queue, private_work>>
    BY <1>9 DEF Edge, vars
  <2> QED BY <2>1, InHandStill
<1> QED BY <1>1, <1>2, <1>3, <1>4, <1>5, <1>6, <1>7, <1>8, <1>9, NextSplit, InHandIdle
-----------------------------------------------------------------------------
(************************ one place for an operation ***********************)
LEMMA Unmoved ==
  ASSUME NEW op, InOnePlace(op),
         \A l \in Kinds, z \in Owners : Holds(l, z, op)' => Holds(l, z, op)
  PROVE  InOnePlace(op)'
  BY DEF InOnePlace

LEMMA Moved ==
  ASSUME NEW op, InOnePlace(op),
         NEW j \in Kinds, NEW x \in Owners, NEW k \in Kinds, NEW y \in Owners,
         Holds(j, x, op),
         \A l \in Kinds, z \in Owners :
           Holds(l, z, op)' => (l = k /\ z = y) \/ (Holds(l, z, op) /\ ~ (l = j /\ z = x))
  PROVE  InOnePlace(op)'
<1> SUFFICES ASSUME NEW l \in Kinds, NEW m \in Kinds, NEW v \in Owners, NEW w \in Owners,
                    Holds(l, v, op)', Holds(m, w, op)'
             PROVE  l = m /\ v = w
  BY DEF InOnePlace
<1>1. ASSUME NEW n \in Kinds, NEW z \in Owners, Holds(n, z, op)' PROVE n = k /\ z = y
  <2>1. Holds(n, z, op) => n = j /\ z = x
    BY DEF InOnePlace
  <2> QED BY <1>1, <2>1
<1> QED BY <1>1

LEMMA ExclusiveInit == Init => Exclusive
<1> SUFFICES ASSUME Init PROVE Exclusive
  OBVIOUS
<1>1. /\ \A r \in Runners : PrivateOf(r) = {} /\ NoRepeat(private_op_queue[r])
      /\ \A t \in Threads : Range(posting[t]) = {} /\ NoRepeat(posting[t])
      /\ \A d \in Descs : Range(waiting[d]) = {} /\ NoRepeat(waiting[d])
      /\ \A r \in Runners : current[r] = None
      /\ done = {}
  BY NoPart DEF Init, PrivateOf
<1>2. op_queue = <<Task>>
  BY DEF Init
<1>3. Queued = {Task} /\ NoRepeat(op_queue)
  BY <1>2, OnePart DEF Queued
<1>4. ASSUME NEW op \in Ops PROVE InOnePlace(op)
  <2>1. \A l \in Kinds, z \in Owners : Holds(l, z, op) => l = "unused" /\ z = None
    BY <1>1, <1>3 DEF Holds
  <2> QED BY <2>1 DEF InOnePlace
<1> QED BY <1>1, <1>3, <1>4 DEF Exclusive

LEMMA ExclusiveStill ==
  ASSUME Exclusive, UNCHANGED <<op_queue, opVars>>
  PROVE  Exclusive'
<1>1. UNCHANGED <<op_queue, current, posting, waiting, private_op_queue, unused, done>>
  BY DEF opVars
<1>2. ASSUME NEW op \in Ops PROVE InOnePlace(op)'
  <2>1. \A l \in Kinds, z \in Owners : Holds(l, z, op)' => Holds(l, z, op)
    BY <1>1 DEF Holds, Queued, PrivateOf
  <2> QED BY <2>1, Unmoved DEF Exclusive
<1> QED BY <1>1, <1>2 DEF Exclusive

LEMMA ExclusiveIdle ==
  ASSUME TypeOK, Exclusive, NEW t \in Threads,
         \/ t \in Runners /\ \/ Enter(t) \/ StopForWant(t) \/ Reacquire(t) \/ Leave(t)
                             \/ Wait(t) \/ SpuriousWakeup(t) \/ Cleanup(t)
         \/ Signal(t) \/ Stop(t)
         \/ (\E d \in Descs : Edge(d)) \/ UNCHANGED vars
  PROVE  Exclusive'
<1>1. UNCHANGED opVars
  BY DEF Enter, StopForWant, StopAllThreads, Reacquire, Leave, Wait, SpuriousWakeup, Cleanup,
         Signal, Stop, Edge, vars
<1>2. UNCHANGED op_queue
  <2>1. CASE t \in Runners /\ Cleanup(t)
    BY <2>1 DEF Cleanup, queueVars
  <2> QED BY <2>1, ReactorKept
<1> QED BY <1>1, <1>2, ExclusiveStill

(* The private queue to the queue. *)
LEMMA ExclusiveGives ==
  ASSUME TypeOK, Exclusive, NEW r \in Runners, Lock(r) \/ TaskCleanup(r)
  PROVE  Exclusive'
<1>1. /\ UNCHANGED <<current, posting, waiting, unused, done>>
      /\ private_op_queue' = [private_op_queue EXCEPT ![r] = <<>>]
  BY DEF Lock, TaskCleanup
<1>2. /\ op_queue \in Seq(Things) /\ private_op_queue[r] \in Seq(Things)
      /\ private_op_queue \in [Runners -> Seq(Ops \cup Descs)]
  <2>1. private_op_queue[r] \in Seq(Ops \cup Descs)
    BY DEF TypeOK
  <2> QED BY <2>1, ThingsTyped DEF TypeOK, Things
<1> DEFINE q == op_queue \o private_op_queue[r]
<1>3. /\ q \in Seq(Things) /\ Range(q) = Queued \cup PrivateOf(r)
      /\ NoRepeat(q)
  <2>1. ASSUME NEW op \in Ops, op \in Queued, op \in PrivateOf(r) PROVE FALSE
    <3>1. Holds("queue", None, op) /\ Holds("private", r, op)
      BY <2>1 DEF Holds
    <3> QED BY <3>1 DEF Exclusive, InOnePlace, Kinds, Owners
  <2>2. Range(op_queue) \cap Range(private_op_queue[r]) \cap Ops = {}
    BY <2>1 DEF Queued, PrivateOf
  <2> QED BY <1>2, <2>2, JoinedParts DEF Exclusive, Queued, PrivateOf
<1>4. NoRepeat(op_queue') /\ Queued' \cap Ops = (Queued \cup PrivateOf(r)) \cap Ops
  <2>1. CASE Lock(r)
    BY <1>3, <2>1 DEF Lock, Queued
  <2>2. CASE TaskCleanup(r)
    <3> HIDE DEF q
    <3>1. op_queue' = q \o <<Task>>
      BY <2>2 DEF TaskCleanup, q
    <3>2. PICK t : t = <<Task>>
      OBVIOUS
    <3>3. t \in Seq(Things) /\ Range(t) = {Task} /\ NoRepeat(t)
      BY <3>2, OnePart DEF Things
    <3>4. Range(q \o t) = Range(q) \cup {Task} /\ NoRepeat(q \o t)
      BY <1>3, <3>3, JoinedParts
    <3> QED BY <1>3, <3>1, <3>2, <3>4 DEF Queued
  <2> QED BY <2>1, <2>2
<1>5. /\ \A s \in Runners : PrivateOf(s)' = IF s = r THEN {} ELSE PrivateOf(s)
      /\ \A s \in Runners : NoRepeat(private_op_queue'[s])
  BY <1>1, <1>2, NoPart DEF PrivateOf, Exclusive
<1>6. ASSUME NEW op \in Ops PROVE InOnePlace(op)'
  <2>1. CASE op \in PrivateOf(r)
    <3>1. /\ Holds("private", r, op) /\ "private" \in Kinds /\ "queue" \in Kinds
          /\ r \in Owners /\ None \in Owners
      BY <2>1 DEF Holds, Kinds, Owners
    <3>2. \A l \in Kinds, z \in Owners :
            Holds(l, z, op)' => \/ l = "queue" /\ z = None
                                \/ Holds(l, z, op) /\ ~ (l = "private" /\ z = r)
      BY <1>1, <1>4, <1>5, <2>1 DEF Holds
    <3> QED BY <3>1, <3>2, Moved DEF Exclusive
  <2>2. CASE op \notin PrivateOf(r)
    <3>1. \A l \in Kinds, z \in Owners : Holds(l, z, op)' => Holds(l, z, op)
      BY <1>1, <1>4, <1>5, <2>2 DEF Holds
    <3> QED BY <3>1, Unmoved DEF Exclusive
  <2> QED BY <2>1, <2>2
<1> QED BY <1>1, <1>4, <1>5, <1>6 DEF Exclusive

LEMMA ExclusiveTakes ==
  ASSUME TypeOK, Exclusive, NEW r \in Runners, TakeTask(r) \/ TakeOp(r)
  PROVE  Exclusive'
<1>1. /\ op_queue # <<>> /\ op_queue' = Tail(op_queue) /\ op_queue \in Seq(Things)
      /\ UNCHANGED <<posting, waiting, private_op_queue, unused, done>>
  BY DEF TakeTask, TakeOp, opVars, TypeOK, Things
<1>2. /\ Queued' \subseteq Queued /\ Head(op_queue) \in Queued /\ NoRepeat(op_queue')
      /\ Head(op_queue) \in Ops => Head(op_queue) \notin Queued'
  BY <1>1, TailParts DEF Queued, Exclusive
<1>3. \A s \in Runners : PrivateOf(s)' = PrivateOf(s)
  BY <1>1 DEF PrivateOf
<1>4. ASSUME NEW op \in Ops PROVE InOnePlace(op)'
  <2>1. CASE TakeOp(r) /\ op = Head(op_queue)
    <3>1. /\ Holds("queue", None, op) /\ "current" \in Kinds /\ "queue" \in Kinds
          /\ r \in Owners /\ None \in Owners
      BY <1>2, <2>1 DEF Holds, Kinds, Owners
    <3>2. \A l \in Kinds, z \in Owners :
            Holds(l, z, op)' => \/ l = "current" /\ z = r
                                \/ Holds(l, z, op) /\ ~ (l = "queue" /\ z = None)
      <4>1. \A s \in Runners \ {r} : current'[s] = current[s]
        BY <2>1 DEF TakeOp, TypeOK
      <4> QED BY <1>1, <1>2, <1>3, <2>1, <4>1 DEF Holds
    <3> QED BY <3>1, <3>2, Moved DEF Exclusive
  <2>2. CASE ~ (TakeOp(r) /\ op = Head(op_queue))
    <3>1. \A s \in Runners : op = current'[s] => op = current[s]
      <4>1. CASE TakeTask(r)
        BY <4>1 DEF TakeTask, opVars
      <4>2. CASE TakeOp(r)
        BY <2>2, <4>2 DEF TakeOp, TypeOK
      <4> QED BY <4>1, <4>2
    <3>2. \A l \in Kinds, z \in Owners : Holds(l, z, op)' => Holds(l, z, op)
      BY <1>1, <1>2, <1>3, <3>1 DEF Holds
    <3> QED BY <3>2, Unmoved DEF Exclusive
  <2> QED BY <2>1, <2>2
<1> QED BY <1>1, <1>2, <1>4 DEF Exclusive

LEMMA ExclusivePolls ==
  ASSUME TypeOK, Exclusive, NEW r \in Runners, Poll(r)
  PROVE  Exclusive'
<1>1. UNCHANGED <<op_queue, current, posting, waiting, unused, done>>
  BY DEF Poll, queueVars
<1>2. PICK ds \in SetToSeqs(edges) :
        private_op_queue' = [private_op_queue EXCEPT ![r] = @ \o ds]
  BY DEF Poll
<1>3. ds \in Seq(Descs)
  <2>1. IsFiniteSet(edges)
    BY DescsFinite, FS_Subset DEF TypeOK
  <2>2. Cardinality(edges) \in Nat
    BY <2>1, FS_CardinalityType
  <2>3. ds \in [1 .. Cardinality(edges) -> Descs]
    BY DEF SetToSeqs, TypeOK
  <2> QED BY <2>2, <2>3
<1>4. Range(ds) \cap Ops = {} /\ NoRepeat(ds) /\ ds \in Seq(Ops \cup Descs)
  <2>1. Range(ds) \subseteq Descs /\ \A i \in DOMAIN ds : ds[i] \in Descs
    BY <1>3, PartsOf, LenProperties
  <2> QED BY <1>3, <2>1, SetToSeqsTyped DEF NoRepeat, TypeOK
<1>5. private_op_queue[r] \in Seq(Ops \cup Descs) /\ NoRepeat(private_op_queue[r])
  BY DEF TypeOK, Exclusive
<1>6. /\ Range(private_op_queue[r] \o ds) \cap Ops = PrivateOf(r) \cap Ops
      /\ NoRepeat(private_op_queue[r] \o ds)
  <2>1. Range(private_op_queue[r]) \cap Range(ds) \cap Ops = {}
    BY <1>4
  <2> QED BY <1>4, <1>5, <2>1, JoinedParts DEF PrivateOf
<1>7. /\ \A s \in Runners : PrivateOf(s)' \cap Ops = PrivateOf(s) \cap Ops
      /\ \A s \in Runners : NoRepeat(private_op_queue'[s])
  <2>1. ASSUME NEW s \in Runners
        PROVE  PrivateOf(s)' \cap Ops = PrivateOf(s) \cap Ops /\ NoRepeat(private_op_queue'[s])
    <3>1. private_op_queue'[s] = IF s = r THEN private_op_queue[r] \o ds ELSE private_op_queue[s]
      BY <1>2 DEF TypeOK
    <3> QED BY <1>6, <3>1 DEF PrivateOf, Exclusive
  <2> QED BY <2>1
<1>8. ASSUME NEW op \in Ops PROVE InOnePlace(op)'
  <2>1. \A l \in Kinds, z \in Owners : Holds(l, z, op)' => Holds(l, z, op)
    BY <1>1, <1>7 DEF Holds, Queued
  <2> QED BY <2>1, Unmoved DEF Exclusive
<1> QED BY <1>1, <1>7, <1>8 DEF Exclusive
LEMMA ExclusivePerforms ==
  ASSUME TypeOK, Exclusive, NEW r \in Runners, PerformIo(r)
  PROVE  Exclusive'
<1> DEFINE d == current[r]
           w == waiting[d]
<1>1. d \in Descs /\ w \in Seq(Ops) /\ NoRepeat(w)
  BY DEF PerformIo, TypeOK, Exclusive
<1>2. PICK k \in 0 .. Len(w) :
        /\ waiting' = [waiting EXCEPT ![d] = SubSeq(w, k + 1, Len(w))]
        /\ posting' = [posting EXCEPT ![r] = SubSeq(w, 2, k)]
        /\ current' = [current EXCEPT ![r] = IF k = 0 THEN None ELSE w[1]]
  BY DEF PerformIo
<1> DEFINE a == SubSeq(w, 2, k)
           b == SubSeq(w, k + 1, Len(w))
<1>3. /\ a \in Seq(Ops) /\ b \in Seq(Ops) /\ NoRepeat(a) /\ NoRepeat(b)
      /\ Range(a) \subseteq Range(w) /\ Range(b) \subseteq Range(w) /\ Range(a) \cap Range(b) = {}
      /\ k # 0 => w[1] \in Range(w) \ (Range(a) \cup Range(b))
      /\ k = 0 => a = <<>> /\ b = w
  BY <1>1, SplitParts
<1>4. /\ \A e \in Descs : waiting'[e] = IF e = d THEN b ELSE waiting[e]
      /\ \A t \in Threads : posting'[t] = IF t = r THEN a ELSE posting[t]
      /\ \A s \in Runners : current'[s] = IF s # r THEN current[s] ELSE IF k = 0 THEN None ELSE w[1]
      /\ UNCHANGED <<op_queue, private_op_queue, unused, done>>
  BY <1>2, SMTT(30) DEF PerformIo, TypeOK, queueVars
<1> HIDE DEF a, b
<1>5. ASSUME NEW op \in Ops PROVE InOnePlace(op)'
  <2>0. /\ {"waiting", "current", "posting"} \subseteq Kinds /\ d \in Owners /\ r \in Owners
        /\ op # None /\ InOnePlace(op)
        /\ \A l \in Kinds, z \in Owners :
             Holds(l, z, op)' =>
               \/ l \notin {"waiting", "current", "posting"} /\ Holds(l, z, op)
               \/ l = "waiting" /\ z # d /\ Holds(l, z, op)
               \/ l = "waiting" /\ z = d /\ op \in Range(b)
               \/ l = "posting" /\ z # r /\ Holds(l, z, op)
               \/ l = "posting" /\ z = r /\ op \in Range(a)
               \/ l = "current" /\ z # r /\ Holds(l, z, op)
               \/ l = "current" /\ z = r /\ k # 0 /\ op = w[1]
    <3>1. {"waiting", "current", "posting"} \subseteq Kinds /\ d \in Owners /\ r \in Owners
      BY <1>1 DEF Kinds, Owners
    <3>2. op # None /\ InOnePlace(op)
      BY DEF Exclusive
    <3>3. ASSUME NEW l \in Kinds, NEW z \in Owners, Holds(l, z, op)'
          PROVE  \/ l \notin {"waiting", "current", "posting"} /\ Holds(l, z, op)
                 \/ l = "waiting" /\ z # d /\ Holds(l, z, op)
                 \/ l = "waiting" /\ z = d /\ op \in Range(b)
                 \/ l = "posting" /\ z # r /\ Holds(l, z, op)
                 \/ l = "posting" /\ z = r /\ op \in Range(a)
                 \/ l = "current" /\ z # r /\ Holds(l, z, op)
                 \/ l = "current" /\ z = r /\ k # 0 /\ op = w[1]
      BY <1>4, <3>2, <3>3 DEF Holds, Queued, PrivateOf
    <3> QED BY <3>1, <3>2, <3>3
  <2>1. CASE op \in Range(w)
    <3>1. Holds("waiting", d, op)
      BY <1>1, <2>1 DEF Holds
    <3>2. CASE op \in Range(b)
      <4>1. \A l \in Kinds, z \in Owners : Holds(l, z, op)' => Holds(l, z, op)
        BY <1>3, <2>0, <3>1, <3>2
      <4> QED BY <2>0, <4>1, Unmoved
    <3>3. CASE op \in Range(a)
      <4>1. \A l \in Kinds, z \in Owners :
              Holds(l, z, op)' => \/ l = "posting" /\ z = r
                                  \/ Holds(l, z, op) /\ ~ (l = "waiting" /\ z = d)
        BY <1>3, <2>0, <3>3
      <4> QED BY <2>0, <3>1, <4>1, Moved
    <3>4. CASE op \notin Range(a) /\ op \notin Range(b)
      <4>1. \A l \in Kinds, z \in Owners :
              Holds(l, z, op)' => \/ l = "current" /\ z = r
                                  \/ Holds(l, z, op) /\ ~ (l = "waiting" /\ z = d)
        BY <2>0, <3>4
      <4> QED BY <2>0, <3>1, <4>1, Moved
    <3> QED BY <3>2, <3>3, <3>4
  <2>2. CASE op \notin Range(w)
    <3>1. \A l \in Kinds, z \in Owners : Holds(l, z, op)' => Holds(l, z, op)
      BY <1>3, <2>0, <2>2
    <3> QED BY <2>0, <3>1, Unmoved
  <2> QED BY <2>1, <2>2
<1> QED BY <1>3, <1>4, <1>5 DEF Exclusive

LEMMA ExclusiveReturns ==
  ASSUME TypeOK, Exclusive, NEW r \in Runners, HandlerReturns(r)
  PROVE  Exclusive'
<1>1. /\ UNCHANGED <<op_queue, posting, waiting, private_op_queue, unused>>
      /\ done' = done \cup {current[r]} /\ current[r] \in Ops
      /\ \A s \in Runners : current'[s] = IF s = r THEN None ELSE current[s]
  BY DEF HandlerReturns, Free, TypeOK, queueVars
<1>2. ASSUME NEW op \in Ops PROVE InOnePlace(op)'
  <2>0. op # None /\ InOnePlace(op)
    BY DEF Exclusive
  <2>1. CASE op = current[r]
    <3>1. /\ Holds("current", r, op) /\ "current" \in Kinds /\ "done" \in Kinds
          /\ r \in Owners /\ None \in Owners
      BY <2>1 DEF Holds, Kinds, Owners
    <3>2. \A l \in Kinds, z \in Owners :
            Holds(l, z, op)' => \/ l = "done" /\ z = None
                                \/ Holds(l, z, op) /\ ~ (l = "current" /\ z = r)
      BY <1>1, <2>0 DEF Holds, Queued, PrivateOf
    <3> QED BY <2>0, <3>1, <3>2, Moved
  <2>2. CASE op # current[r]
    <3>1. \A l \in Kinds, z \in Owners : Holds(l, z, op)' => Holds(l, z, op)
      BY <1>1, <2>0, <2>2 DEF Holds, Queued, PrivateOf
    <3> QED BY <2>0, <3>1, Unmoved
  <2> QED BY <2>1, <2>2
<1> QED BY <1>1, <1>2 DEF Exclusive

LEMMA ExclusivePosts ==
  ASSUME TypeOK, Exclusive, NEW t \in Threads, NEW new \in Ops, Post(t, new)
  PROVE  Exclusive'
<1>1. /\ UNCHANGED <<op_queue, current, waiting, private_op_queue, done>>
      /\ new \in unused /\ unused' = unused \ {new} /\ posting[t] = <<>>
      /\ \A u \in Threads : posting'[u] = IF u = t THEN <<new>> ELSE posting[u]
  BY DEF Post, Free, TypeOK, queueVars
<1>2. Range(<<new>>) = {new} /\ NoRepeat(<<new>>)
  BY OnePart
<1>3. /\ \A u \in Threads : Range(posting'[u]) = IF u = t THEN {new} ELSE Range(posting[u])
      /\ \A u \in Threads : NoRepeat(posting'[u])
  BY <1>1, <1>2 DEF Exclusive
<1>4. ASSUME NEW op \in Ops PROVE InOnePlace(op)'
  <2>1. CASE op = new
    <3>1. /\ Holds("unused", None, op) /\ "unused" \in Kinds /\ "posting" \in Kinds
          /\ t \in Owners /\ None \in Owners
      BY <1>1, <2>1 DEF Holds, Kinds, Owners
    <3>2. \A l \in Kinds, z \in Owners :
            Holds(l, z, op)' => \/ l = "posting" /\ z = t
                                \/ Holds(l, z, op) /\ ~ (l = "unused" /\ z = None)
      BY <1>1, <1>3, <2>1 DEF Holds, Queued, PrivateOf
    <3> QED BY <3>1, <3>2, Moved DEF Exclusive
  <2>2. CASE op # new
    <3>1. \A l \in Kinds, z \in Owners : Holds(l, z, op)' => Holds(l, z, op)
      BY <1>1, <1>3, <2>2 DEF Holds, Queued, PrivateOf
    <3> QED BY <3>1, Unmoved DEF Exclusive
  <2> QED BY <2>1, <2>2
<1> QED BY <1>1, <1>3, <1>4 DEF Exclusive

LEMMA ExclusiveContinues ==
  ASSUME TypeOK, Exclusive, NEW r \in Runners, NEW new \in Ops, PostContinuation(r, new)
  PROVE  Exclusive'
<1>1. /\ UNCHANGED <<op_queue, current, waiting, posting, done>>
      /\ new \in unused /\ unused' = unused \ {new}
      /\ \A s \in Runners :
           private_op_queue'[s] = IF s = r THEN Append(private_op_queue[r], new) ELSE private_op_queue[s]
  BY DEF PostContinuation, TypeOK, queueVars
<1>2. private_op_queue[r] \in Seq(Ops \cup Descs) /\ new \in Ops \cup Descs
  BY DEF TypeOK
<1>3. Holds("unused", None, new)
  BY <1>1 DEF Holds
<1>4. new \notin PrivateOf(r)
  <2>1. new \in PrivateOf(r) => Holds("private", r, new)
    BY DEF Holds
  <2> QED BY <1>3, <2>1 DEF Exclusive, InOnePlace, Kinds, Owners
<1>5. /\ Range(Append(private_op_queue[r], new)) = PrivateOf(r) \cup {new}
      /\ NoRepeat(Append(private_op_queue[r], new))
  BY <1>2, <1>4, AppendedPart DEF Exclusive, PrivateOf
<1>6. /\ \A s \in Runners : PrivateOf(s)' = IF s = r THEN PrivateOf(r) \cup {new} ELSE PrivateOf(s)
      /\ \A s \in Runners : NoRepeat(private_op_queue'[s])
  BY <1>1, <1>5 DEF PrivateOf, Exclusive
<1>7. ASSUME NEW op \in Ops PROVE InOnePlace(op)'
  <2>1. CASE op = new
    <3>1. "unused" \in Kinds /\ "private" \in Kinds /\ r \in Owners /\ None \in Owners
      BY DEF Kinds, Owners
    <3>2. \A l \in Kinds, z \in Owners :
            Holds(l, z, op)' => \/ l = "private" /\ z = r
                                \/ Holds(l, z, op) /\ ~ (l = "unused" /\ z = None)
      BY <1>1, <1>6, <2>1 DEF Holds, Queued
    <3> QED BY <1>3, <2>1, <3>1, <3>2, Moved DEF Exclusive
  <2>2. CASE op # new
    <3>1. \A l \in Kinds, z \in Owners : Holds(l, z, op)' => Holds(l, z, op)
      BY <1>1, <1>6, <2>2 DEF Holds, Queued
    <3> QED BY <3>1, Unmoved DEF Exclusive
  <2> QED BY <2>1, <2>2
<1> QED BY <1>1, <1>6, <1>7 DEF Exclusive

LEMMA ExclusiveStarts ==
  ASSUME TypeOK, Exclusive, NEW t \in Threads, NEW new \in Ops, NEW d \in Descs,
         StartOp(t, new, d)
  PROVE  Exclusive'
<1>1. /\ UNCHANGED <<op_queue, current, private_op_queue, posting, done>>
      /\ new \in unused /\ unused' = unused \ {new}
      /\ \A e \in Descs : waiting'[e] = IF e = d THEN Append(waiting[d], new) ELSE waiting[e]
  BY DEF StartOp, TypeOK, queueVars
<1>2. Holds("unused", None, new)
  BY <1>1 DEF Holds
<1>3. new \notin Range(waiting[d])
  <2>1. new \in Range(waiting[d]) => Holds("waiting", d, new)
    BY DEF Holds
  <2> QED BY <1>2, <2>1 DEF Exclusive, InOnePlace, Kinds, Owners
<1>4. /\ Range(Append(waiting[d], new)) = Range(waiting[d]) \cup {new}
      /\ NoRepeat(Append(waiting[d], new))
  BY <1>3, AppendedPart DEF Exclusive, TypeOK
<1>5. /\ \A e \in Descs :
           Range(waiting'[e]) = IF e = d THEN Range(waiting[d]) \cup {new} ELSE Range(waiting[e])
      /\ \A e \in Descs : NoRepeat(waiting'[e])
  BY <1>1, <1>4 DEF Exclusive
<1>6. ASSUME NEW op \in Ops PROVE InOnePlace(op)'
  <2>1. CASE op = new
    <3>1. "unused" \in Kinds /\ "waiting" \in Kinds /\ d \in Owners /\ None \in Owners
      BY DEF Kinds, Owners
    <3>2. \A l \in Kinds, z \in Owners :
            Holds(l, z, op)' => \/ l = "waiting" /\ z = d
                                \/ Holds(l, z, op) /\ ~ (l = "unused" /\ z = None)
      BY <1>1, <1>5, <2>1 DEF Holds, Queued, PrivateOf
    <3> QED BY <1>2, <2>1, <3>1, <3>2, Moved DEF Exclusive
  <2>2. CASE op # new
    <3>1. \A l \in Kinds, z \in Owners : Holds(l, z, op)' => Holds(l, z, op)
      BY <1>1, <1>5, <2>2 DEF Holds, Queued, PrivateOf
    <3> QED BY <3>1, Unmoved DEF Exclusive
  <2> QED BY <2>1, <2>2
<1> QED BY <1>1, <1>5, <1>6 DEF Exclusive

LEMMA ExclusiveCancels ==
  ASSUME TypeOK, Exclusive, NEW t \in Threads, NEW d \in Descs, CancelOps(t, d)
  PROVE  Exclusive'
<1>1. /\ UNCHANGED <<op_queue, current, private_op_queue, unused, done>>
      /\ \A e \in Descs : waiting'[e] = IF e = d THEN <<>> ELSE waiting[e]
      /\ \A u \in Threads : posting'[u] = IF u = t THEN waiting[d] ELSE posting[u]
  BY DEF CancelOps, TypeOK, queueVars
<1>2. /\ \A e \in Descs : Range(waiting'[e]) = IF e = d THEN {} ELSE Range(waiting[e])
      /\ \A u \in Threads : Range(posting'[u]) = IF u = t THEN Range(waiting[d]) ELSE Range(posting[u])
      /\ \A e \in Descs : NoRepeat(waiting'[e])
      /\ \A u \in Threads : NoRepeat(posting'[u])
  BY <1>1, NoPart DEF Exclusive
<1>3. ASSUME NEW op \in Ops PROVE InOnePlace(op)'
  <2>1. CASE op \in Range(waiting[d])
    <3>1. /\ Holds("waiting", d, op) /\ "waiting" \in Kinds /\ "posting" \in Kinds
          /\ d \in Owners /\ t \in Owners
      BY <2>1 DEF Holds, Kinds, Owners
    <3>2. \A l \in Kinds, z \in Owners :
            Holds(l, z, op)' => \/ l = "posting" /\ z = t
                                \/ Holds(l, z, op) /\ ~ (l = "waiting" /\ z = d)
      BY <1>1, <1>2 DEF Holds, Queued, PrivateOf
    <3> QED BY <3>1, <3>2, Moved DEF Exclusive
  <2>2. CASE op \notin Range(waiting[d])
    <3>1. \A l \in Kinds, z \in Owners : Holds(l, z, op)' => Holds(l, z, op)
      BY <1>1, <1>2, <2>2 DEF Holds, Queued, PrivateOf
    <3> QED BY <3>1, Unmoved DEF Exclusive
  <2> QED BY <2>1, <2>2
<1> QED BY <1>1, <1>2, <1>3 DEF Exclusive

LEMMA ExclusivePushes ==
  ASSUME TypeOK, Exclusive, NEW t \in Threads, Push(t)
  PROVE  Exclusive'
<1>1. /\ UNCHANGED <<current, waiting, private_op_queue, unused, done>>
      /\ op_queue' = op_queue \o posting[t]
      /\ \A u \in Threads : posting'[u] = IF u = t THEN <<>> ELSE posting[u]
      /\ op_queue \in Seq(Things) /\ posting[t] \in Seq(Things)
  <2>1. posting[t] \in Seq(Ops \cup Descs)
    BY DEF TypeOK
  <2> QED BY <2>1, ThingsTyped DEF Push, TypeOK, Things
<1>2. Queued' = Queued \cup Range(posting[t]) /\ NoRepeat(op_queue')
  <2>1. ASSUME NEW op \in Ops, op \in Queued, op \in Range(posting[t]) PROVE FALSE
    <3>1. Holds("queue", None, op) /\ Holds("posting", t, op)
      BY <2>1 DEF Holds
    <3> QED BY <3>1 DEF Exclusive, InOnePlace, Kinds, Owners
  <2>2. Range(op_queue) \cap Range(posting[t]) \cap Ops = {}
    BY <2>1 DEF Queued
  <2> QED BY <1>1, <2>2, JoinedParts DEF Exclusive, Queued
<1>3. /\ \A u \in Threads : Range(posting'[u]) = IF u = t THEN {} ELSE Range(posting[u])
      /\ \A u \in Threads : NoRepeat(posting'[u])
  BY <1>1, NoPart DEF Exclusive
<1>4. ASSUME NEW op \in Ops PROVE InOnePlace(op)'
  <2>1. CASE op \in Range(posting[t])
    <3>1. /\ Holds("posting", t, op) /\ "queue" \in Kinds /\ "posting" \in Kinds
          /\ t \in Owners /\ None \in Owners
      BY <2>1 DEF Holds, Kinds, Owners
    <3>2. \A l \in Kinds, z \in Owners :
            Holds(l, z, op)' => \/ l = "queue" /\ z = None
                                \/ Holds(l, z, op) /\ ~ (l = "posting" /\ z = t)
      BY <1>1, <1>2, <1>3 DEF Holds, PrivateOf
    <3> QED BY <3>1, <3>2, Moved DEF Exclusive
  <2>2. CASE op \notin Range(posting[t])
    <3>1. \A l \in Kinds, z \in Owners : Holds(l, z, op)' => Holds(l, z, op)
      BY <1>1, <1>2, <1>3, <2>2 DEF Holds, PrivateOf
    <3> QED BY <3>1, Unmoved DEF Exclusive
  <2> QED BY <2>1, <2>2
<1> QED BY <1>1, <1>2, <1>3, <1>4 DEF Exclusive

LEMMA ExclusiveNext == TypeOK /\ Exclusive /\ [Next]_vars => Exclusive'
<1> SUFFICES ASSUME TypeOK, Exclusive, [Next]_vars PROVE Exclusive'
  OBVIOUS
<1>1. CASE (\E d \in Descs : Edge(d)) \/ UNCHANGED vars
  BY <1>1, ExclusiveStill DEF Edge, vars, queueVars
<1>2. ASSUME NEW t \in Threads, NEW op \in Ops, PostContinuation(t, op) PROVE Exclusive'
  BY <1>2, ExclusiveContinues DEF PostContinuation
<1> QED
  BY <1>1, <1>2, NextSplit, ExclusiveIdle, ExclusiveGives, ExclusiveTakes, ExclusivePolls,
     ExclusivePerforms, ExclusiveReturns, ExclusivePosts, ExclusiveStarts, ExclusiveCancels,
     ExclusivePushes
-----------------------------------------------------------------------------
(***************************** how work is counted *************************)
LEMMA CountInit == Init => Counted
<1> SUFFICES ASSUME Init PROVE Counted
  OBVIOUS
<1>1. Live = {} /\ Live \ Apart = {} /\ outstanding_work = 0
  BY DEF Init, Live
<1> QED BY <1>1, FS_EmptySet DEF Counted

LEMMA CountStill ==
  ASSUME Counted, UNCHANGED <<unused, done, outstanding_work>>,
         \A r \in Runners : pc'[r] = "handler" <=> pc[r] = "handler",
         \A r \in Runners : pc[r] = "handler" => private_op_queue'[r] = private_op_queue[r]
  PROVE  Counted'
<1>1. Live' = Live /\ Apart' = Apart
  BY DEF Live, Apart, PrivateOf
<1> QED BY <1>1 DEF Counted

LEMMA CountIdle ==
  ASSUME TypeOK, InHand, Counted, NEW t \in Threads,
         \/ t \in Runners /\ \/ Enter(t) \/ StopForWant(t) \/ Lock(t) \/ Reacquire(t)
                             \/ TaskCleanup(t) \/ Leave(t) \/ TakeTask(t) \/ Wait(t) \/ Poll(t)
                             \/ SpuriousWakeup(t)
         \/ Push(t) \/ Signal(t) \/ Stop(t)
         \/ (\E d \in Descs : CancelOps(t, d))
         \/ (\E d \in Descs : Edge(d)) \/ UNCHANGED vars
  PROVE  Counted'
<1> USE DEF TypeOK
<1>1. CASE t \in Runners /\ \/ Enter(t) \/ Reacquire(t) \/ Leave(t) \/ TakeTask(t) \/ Wait(t)
                            \/ SpuriousWakeup(t)
  <2>1. /\ UNCHANGED <<unused, done, outstanding_work, private_op_queue>>
        /\ \A r \in Runners : pc'[r] = "handler" <=> pc[r] = "handler"
    BY <1>1, SMTT(30)
    DEF Enter, Reacquire, Leave, TakeTask, Wait, SpuriousWakeup, Loop, opVars, workVars
  <2> QED BY <2>1, CountStill
<1>2. CASE t \in Runners /\ (Lock(t) \/ Poll(t))
  <2>1. /\ UNCHANGED <<unused, done, outstanding_work>>
        /\ \A r \in Runners : pc'[r] = "handler" <=> pc[r] = "handler"
        /\ \A r \in Runners : pc[r] = "handler" => private_op_queue'[r] = private_op_queue[r]
    BY <1>2 DEF Lock, Poll, workVars
  <2> QED BY <2>1, CountStill
<1>3. CASE t \in Runners /\ TaskCleanup(t)
  <2>1. private_work[t] = 0
    BY <1>3 DEF TaskCleanup, InHand
  <2>2. outstanding_work' = outstanding_work
    BY <1>3, <2>1 DEF TaskCleanup
  <2>3. /\ UNCHANGED <<unused, done>>
        /\ \A r \in Runners : pc'[r] = "handler" <=> pc[r] = "handler"
        /\ \A r \in Runners : pc[r] = "handler" => private_op_queue'[r] = private_op_queue[r]
    BY <1>3 DEF TaskCleanup
  <2> QED BY <2>2, <2>3, CountStill
<1>4. CASE (t \in Runners /\ StopForWant(t)) \/ Stop(t)
  <2>1. /\ UNCHANGED <<unused, done, outstanding_work, private_op_queue>>
        /\ \A r \in Runners : pc'[r] = "handler" <=> pc[r] = "handler"
    BY <1>4, ZenonT(30) DEF StopForWant, Stop, StopAllThreads, Asleep, opVars, workVars
  <2> QED BY <2>1, CountStill
<1>5. CASE Signal(t)
  <2>1. /\ UNCHANGED <<unused, done, outstanding_work, private_op_queue>>
        /\ \A r \in Runners : pc'[r] = "handler" <=> pc[r] = "handler"
    BY <1>5 DEF Signal, Asleep, opVars, workVars
  <2> QED BY <2>1, CountStill
<1>6. CASE \/ Push(t) \/ \E d \in Descs : CancelOps(t, d)
           \/ (\E d \in Descs : Edge(d)) \/ UNCHANGED vars
  <2>1. UNCHANGED <<pc, unused, done, outstanding_work, private_op_queue>>
    BY <1>6 DEF Push, CancelOps, Edge, vars, opVars, workVars
  <2> QED BY <2>1, CountStill
<1> QED BY <1>1, <1>2, <1>3, <1>4, <1>5, <1>6

(* A thread takes an operation or a descriptor, or ends its turn.           *)
LEMMA CountTakes ==
  ASSUME TypeOK, InHand, Counted, NEW r \in Runners, TakeOp(r) \/ PerformIo(r) \/ Cleanup(r)
  PROVE  Counted'
<1>1. /\ UNCHANGED <<unused, done, private_op_queue>>
      /\ \A s \in Runners \ {r} : pc'[s] = pc[s]
      /\ pc[r] \in {"loop", "perform", "cleanup"}
  BY DEF TakeOp, PerformIo, Cleanup, Finished, Loop, opVars, TypeOK
<1>2. private_op_queue[r] = <<>> /\ PrivateOf(r) = {} /\ PrivateOf(r)' = {}
  BY <1>1, NoPart DEF InHand, PrivateOf
<1>3. outstanding_work' = outstanding_work
  <2>1. CASE TakeOp(r) \/ PerformIo(r)
    BY <2>1 DEF TakeOp, PerformIo, workVars
  <2>2. CASE Cleanup(r)
    <3>1. private_work[r] = 1
      BY <2>2 DEF Cleanup, InHand
    <3> QED BY <2>2, <3>1 DEF Cleanup, Finished, TypeOK
  <2> QED BY <2>1, <2>2
<1>4. Live' = Live /\ Apart' = Apart
  BY <1>1, <1>2 DEF Live, Apart, PrivateOf
<1> QED BY <1>3, <1>4 DEF Counted

LEMMA CountStarts ==
  ASSUME TypeOK, Exclusive, Counted, NEW t \in Threads, NEW op \in Ops,
         \/ Post(t, op) \/ PostContinuation(t, op)
         \/ \E d \in Descs : StartOp(t, op, d)
  PROVE  Counted'
<1>1. op \in unused /\ unused' = unused \ {op} /\ UNCHANGED <<pc, done>>
  BY DEF Post, PostContinuation, StartOp
<1>2. Holds("unused", None, op) /\ InOnePlace(op)
  BY <1>1 DEF Holds, Exclusive
<1>3. op \notin done /\ \A r \in Runners : op \notin PrivateOf(r)
  <2>1. op \in done => Holds("done", None, op)
    BY DEF Holds
  <2>2. \A r \in Runners : op \in PrivateOf(r) => Holds("private", r, op)
    BY DEF Holds
  <2> QED BY <1>2, <2>1, <2>2 DEF InOnePlace, Kinds, Owners
<1>4. op \notin Live /\ op \notin Apart /\ Live' = Live \cup {op} /\ IsFiniteSet(Live')
  <2>1. op \notin Live /\ op \notin Apart /\ Live' = Live \cup {op}
    BY <1>1, <1>3 DEF Live, Apart
  <2> QED BY <2>1, FS_AddElement DEF Counted
<1>5. IsFiniteSet(Live \ Apart)
  BY FS_Difference DEF Counted
<1>6. CASE Post(t, op) \/ \E d \in Descs : StartOp(t, op, d)
  <2>1. outstanding_work' = outstanding_work + 1 /\ private_op_queue' = private_op_queue
    BY <1>6 DEF Post, StartOp
  <2>2. Apart' = Apart
    BY <1>1, <2>1 DEF Apart, PrivateOf
  <2>3. Live' \ Apart' = (Live \ Apart) \cup {op} /\ op \notin Live \ Apart
    BY <1>4, <2>2
  <2>4. Cardinality(Live' \ Apart') = Cardinality(Live \ Apart) + 1
    BY <1>5, <2>3, FS_AddElement
  <2> QED BY <1>4, <2>1, <2>4 DEF Counted
<1>7. CASE PostContinuation(t, op)
  <2>1. /\ outstanding_work' = outstanding_work /\ t \in Runners /\ pc[t] = "handler"
        /\ \A r \in Runners : private_op_queue'[r] = IF r = t THEN Append(private_op_queue[t], op)
                                                     ELSE private_op_queue[r]
    BY <1>7 DEF PostContinuation, Free, TypeOK
  <2>2. Range(Append(private_op_queue[t], op)) = Range(private_op_queue[t]) \cup {op}
    <3>1. private_op_queue[t] \in Seq(Ops \cup Descs)
      BY <2>1 DEF TypeOK
    <3> QED BY <3>1, AppendedPart
  <2>3. Apart' = Apart \cup {op}
    BY <1>1, <2>1, <2>2 DEF Apart, PrivateOf
  <2>4. Live' \ Apart' = Live \ Apart
    BY <1>4, <2>3
  <2> QED BY <1>4, <2>1, <2>4 DEF Counted
<1> QED BY <1>6, <1>7

(* A sequence without repetition has as many elements as its length.        *)
LEMMA PartsCounted ==
  ASSUME NEW s \in Seq(Ops), NoRepeat(s)
  PROVE  IsFiniteSet(Range(s)) /\ Cardinality(Range(s)) = Len(s)
<1>1. /\ Len(s) \in Nat /\ DOMAIN s = 1 .. Len(s)
      /\ Range(s) = {s[i] : i \in 1 .. Len(s)} /\ \A i \in 1 .. Len(s) : s[i] \in Ops
  BY PartsOf, LenProperties
<1>2. s \in [1 .. Len(s) -> Range(s)]
  BY <1>1, LenProperties
<1>3. \A i, j \in 1 .. Len(s) : s[i] = s[j] => i = j
  BY <1>1 DEF NoRepeat
<1>4. s \in Bijection(1 .. Len(s), Range(s))
  BY <1>1, <1>2, <1>3 DEF Bijection, Injection, Surjection, IsInjective
<1>5. ExistsBijection(1 .. Len(s), Range(s))
  BY <1>4 DEF ExistsBijection
<1> QED BY <1>1, <1>5, FS_NatBijection, FS_CountingElements
(* The operation whose handler runs is counted together. *)
LEMMA CurrentCounted ==
  ASSUME TypeOK, Exclusive, NEW r \in Runners, pc[r] = "handler"
  PROVE  current[r] \in Live \ Apart
<1> DEFINE op == current[r]
<1>1. op \in Ops
  BY DEF TypeOK
<1>2. InOnePlace(op) /\ Holds("current", r, op)
  BY <1>1 DEF Exclusive, Holds
<1>3. /\ op \in unused => Holds("unused", None, op)
      /\ op \in done => Holds("done", None, op)
      /\ \A s \in Runners : op \in PrivateOf(s) => Holds("private", s, op)
  BY DEF Holds
<1>4. op \notin unused /\ op \notin done /\ \A s \in Runners : op \notin PrivateOf(s)
  BY <1>2, <1>3 DEF InOnePlace, Kinds, Owners
<1> QED BY <1>1, <1>4 DEF Live, Apart

(* What a handler has put into its thread's private queue has started, not   *)
(* ended, and is nobody else's.                                            *)
LEMMA PrivateCounted ==
  ASSUME TypeOK, Exclusive, OwnOps, NEW r \in Runners, pc[r] = "handler"
  PROVE  /\ IsFiniteSet(PrivateOf(r)) /\ Cardinality(PrivateOf(r)) = Len(private_op_queue[r])
         /\ PrivateOf(r) \subseteq Live
         /\ \A s \in Runners \ {r} : PrivateOf(r) \cap PrivateOf(s) = {}
<1>1. private_op_queue[r] \in Seq(Ops) /\ NoRepeat(private_op_queue[r])
  BY DEF OwnOps, Exclusive
<1>2. PrivateOf(r) \subseteq Ops
  BY <1>1, PartsOf DEF PrivateOf
<1>3. ASSUME NEW op \in PrivateOf(r)
      PROVE  op \in Live /\ \A s \in Runners \ {r} : op \notin PrivateOf(s)
  <2>1. InOnePlace(op) /\ Holds("private", r, op)
    BY <1>2 DEF Exclusive, Holds
  <2>2. /\ op \in unused => Holds("unused", None, op)
        /\ op \in done => Holds("done", None, op)
        /\ \A s \in Runners : op \in PrivateOf(s) => Holds("private", s, op)
    BY DEF Holds
  <2>3. op \notin unused /\ op \notin done /\ \A s \in Runners \ {r} : op \notin PrivateOf(s)
    BY <2>1, <2>2 DEF InOnePlace, Kinds, Owners
  <2> QED BY <1>2, <2>3 DEF Live
<1> QED BY <1>1, <1>3, PartsCounted DEF PrivateOf

LEMMA CountReturns ==
  ASSUME TypeOK, Exclusive, InHand, OwnOps, Counted, NEW r \in Runners, HandlerReturns(r)
  PROVE  Counted'
<1> DEFINE op == current[r]
           W == Live \ Apart
<1>1. /\ pc[r] = "handler" /\ op \in Ops /\ done' = done \cup {op} /\ pc'[r] # "handler"
      /\ UNCHANGED <<unused, private_op_queue>>
      /\ \A s \in Runners \ {r} : pc'[s] = pc[s]
      /\ outstanding_work' = outstanding_work + private_work[r] - 1
  BY DEF HandlerReturns, Free, Finished, TypeOK
<1>2. private_work[r] = Len(private_op_queue[r])
  BY <1>1 DEF InHand
<1>3. op \in W
  BY <1>1, CurrentCounted
<1>4. /\ IsFiniteSet(PrivateOf(r)) /\ Cardinality(PrivateOf(r)) = private_work[r]
      /\ PrivateOf(r) \subseteq Live
      /\ \A s \in Runners \ {r} : PrivateOf(r) \cap PrivateOf(s) = {}
  BY <1>1, <1>2, PrivateCounted
<1>5. Live' = Live \ {op} /\ IsFiniteSet(Live')
  <2>1. Live' = Live \ {op}
    BY <1>1 DEF Live
  <2> QED BY <2>1, FS_RemoveElement DEF Counted
<1>6. Apart' = Apart \ PrivateOf(r)
  <2>1. ASSUME NEW o \in Ops PROVE o \in Apart' <=> o \in Apart /\ o \notin PrivateOf(r)
    BY <1>1, <1>4 DEF Apart, PrivateOf
  <2> QED BY <2>1 DEF Apart
<1>7. PrivateOf(r) \cap Ops \subseteq Apart
  BY <1>1 DEF Apart
<1>8. PrivateOf(r) \subseteq Ops /\ op \notin PrivateOf(r)
  BY <1>3, <1>4, <1>7 DEF Live
<1>9. Live' \ Apart' = (W \ {op}) \cup PrivateOf(r) /\ (W \ {op}) \cap PrivateOf(r) = {}
  BY <1>4, <1>5, <1>6, <1>7, <1>8
<1>10. IsFiniteSet(W) /\ Cardinality(W) = outstanding_work /\ Cardinality(W) \in Nat
  BY FS_Difference, FS_CardinalityType DEF Counted
<1>11. IsFiniteSet(W \ {op}) /\ Cardinality(W \ {op}) = Cardinality(W) - 1
  BY <1>3, <1>10, FS_RemoveElement
<1>12. Cardinality(Live' \ Apart') = Cardinality(W \ {op}) + Cardinality(PrivateOf(r)) - Cardinality({})
  BY <1>4, <1>9, <1>11, FS_Union, SMTT(30)
<1>13. Cardinality({}) = 0
  BY FS_EmptySet
<1>14. private_work[r] \in Nat /\ outstanding_work \in Int
  BY DEF TypeOK
<1>15. Cardinality(Live' \ Apart') = outstanding_work'
  BY <1>1, <1>4, <1>10, <1>11, <1>12, <1>13, <1>14
<1> QED BY <1>5, <1>15 DEF Counted

LEMMA CountNext == TypeOK /\ Exclusive /\ InHand /\ OwnOps /\ Counted /\ [Next]_vars => Counted'
<1> SUFFICES ASSUME TypeOK, Exclusive, InHand, OwnOps, Counted, [Next]_vars PROVE Counted'
  OBVIOUS
<1>1. CASE (\E d \in Descs : Edge(d)) \/ UNCHANGED vars
  <2>1. UNCHANGED <<pc, unused, done, outstanding_work, private_op_queue>>
    BY <1>1 DEF Edge, vars, opVars, workVars
  <2> QED BY <2>1, CountStill
<1> QED BY <1>1, NextSplit, CountIdle, CountTakes, CountStarts, CountReturns

(* Without work that is counted together there is no work at all.           *)
LEMMA NothingApart ==
  ASSUME TypeOK, Exclusive, Live \ Apart = {}
  PROVE  Live = {}
<1> SUFFICES ASSUME NEW op \in Live PROVE FALSE
  OBVIOUS
<1>1. PICK r \in Runners : pc[r] = "handler"
  BY DEF Apart
<1> QED BY <1>1, CurrentCounted

LEMMA WithoutWork ==
  ASSUME TypeOK, Exclusive, Live = {}
  PROVE  Ops \ unused = done /\ op_queue \in Seq(Descs \cup {Task})
<1>1. Ops \ unused = done
  <2>1. ASSUME NEW op \in done PROVE op \notin unused
    <3>1. Holds("done", None, op) /\ (op \in unused => Holds("unused", None, op)) /\ op \in Ops
      BY <2>1 DEF Holds, TypeOK
    <3> QED BY <3>1 DEF Exclusive, InOnePlace, Kinds, Owners
  <2> QED BY <2>1 DEF Live, TypeOK
<1>2. ASSUME NEW op \in Ops PROVE op \notin Queued
  <2>1. op \in unused \cup done
    BY DEF Live
  <2>2. Holds("unused", None, op) \/ Holds("done", None, op)
    BY <2>1 DEF Holds
  <2>3. op \in Queued => Holds("queue", None, op)
    BY DEF Holds
  <2> QED BY <2>2, <2>3 DEF Exclusive, InOnePlace, Kinds, Owners
<1>3. op_queue \in Seq(Things) /\ Len(op_queue) \in Nat /\ op_queue \in [1 .. Len(op_queue) -> Things]
  BY LenProperties DEF TypeOK, Things
<1>4. \A i \in 1 .. Len(op_queue) : op_queue[i] \in Descs \cup {Task}
  BY <1>2, <1>3, PartsOf DEF Queued, Things
<1>5. op_queue \in [1 .. Len(op_queue) -> Descs \cup {Task}]
  BY <1>3, <1>4
<1> QED BY <1>1, <1>3, <1>5

ZeroMeansNone == outstanding_work = 0 => Ops \ unused = done /\ op_queue \in Seq(Descs \cup {Task})

LEMMA CountedToZero == TypeOK /\ Exclusive /\ Counted => ZeroMeansNone
<1> SUFFICES ASSUME TypeOK, Exclusive, Counted, outstanding_work = 0
             PROVE  Ops \ unused = done /\ op_queue \in Seq(Descs \cup {Task})
  BY DEF ZeroMeansNone
<1>1. Live \ Apart = {}
  BY FS_Difference, FS_EmptySet DEF Counted
<1> QED BY <1>1, NothingApart, WithoutWork

LEMMA StopsStep ==
  ASSUME TypeOK, InHand, ZeroMeansNone, ZeroMeansNone', [Next]_vars,
         NEW r \in Runners, pc'[r] \in {"no_work", "work_finished"}, pc[r] # pc'[r]
  PROVE  Ops \ unused' = done' /\ op_queue \in Seq(Descs \cup {Task})
<1>1. \/ Enter(r) /\ outstanding_work = 0
      \/ Cleanup(r) /\ private_work[r] < 1
      \/ HandlerReturns(r) /\ outstanding_work' = 0
  <2> USE DEF TypeOK
  <2>1. ASSUME NEW s \in Runners,
               \/ Lock(s) \/ Reacquire(s) \/ TaskCleanup(s) \/ Leave(s) \/ TakeTask(s) \/ TakeOp(s)
               \/ Wait(s) \/ Poll(s) \/ PerformIo(s) \/ SpuriousWakeup(s)
        PROVE  FALSE
    <3>1. CASE Lock(s) \/ TaskCleanup(s) \/ Leave(s) \/ Poll(s)
      BY <3>1 DEF Lock, TaskCleanup, Leave, Poll
    <3>2. CASE TakeTask(s) \/ TakeOp(s) \/ Wait(s)
      BY <3>2, SMTT(30) DEF TakeTask, TakeOp, Wait
    <3>3. CASE PerformIo(s)
      BY <3>3 DEF PerformIo
    <3>4. CASE Reacquire(s) \/ SpuriousWakeup(s)
      BY <3>4 DEF Reacquire, SpuriousWakeup
    <3> QED BY <2>1, <3>1, <3>2, <3>3, <3>4
  <2>2. ASSUME NEW t \in Threads, (t \in Runners /\ StopForWant(t)) \/ Stop(t) PROVE FALSE
    BY <2>2, ZenonT(30) DEF StopForWant, Stop, StopAllThreads, Asleep
  <2>3. ASSUME NEW t \in Threads, Signal(t) PROVE FALSE
    BY <2>3 DEF Signal, Asleep
  <2>4. ASSUME NEW t \in Threads,
               \/ Push(t) \/ \E op \in Ops : Post(t, op) \/ PostContinuation(t, op)
               \/ \E op \in Ops, d \in Descs : StartOp(t, op, d)
               \/ \E d \in Descs : CancelOps(t, d)
        PROVE  FALSE
    BY <2>4 DEF Push, Post, PostContinuation, StartOp, CancelOps
  <2>5. CASE (\E d \in Descs : Edge(d)) \/ UNCHANGED vars
    BY <2>5 DEF Edge, vars
  <2>6. ASSUME NEW s \in Runners, Enter(s) PROVE s = r /\ outstanding_work = 0
    BY <2>6 DEF Enter
  <2>7. ASSUME NEW s \in Runners, Cleanup(s) PROVE s = r /\ private_work[r] < 1
    BY <2>7 DEF Cleanup, Finished
  <2>8. ASSUME NEW s \in Runners, HandlerReturns(s) PROVE s = r /\ outstanding_work' = 0
    BY <2>8 DEF HandlerReturns, Finished
  <2> QED BY <2>1, <2>2, <2>3, <2>4, <2>5, <2>6, <2>7, <2>8, NextSplit
<1>2. CASE Enter(r) /\ outstanding_work = 0
  BY <1>2 DEF Enter, opVars, ZeroMeansNone
<1>3. CASE Cleanup(r) /\ private_work[r] < 1
  BY <1>3 DEF Cleanup, InHand
<1>4. CASE HandlerReturns(r) /\ outstanding_work' = 0
  BY <1>4 DEF HandlerReturns, queueVars, ZeroMeansNone
<1> QED BY <1>1, <1>2, <1>3, <1>4
Work == Exclusive /\ InHand /\ Counted

LEMMA WorkHolds == Spec => []Work
<1>1. Init => Work
  BY ExclusiveInit, InHandInit, CountInit DEF Work
<1>2. TypeOK /\ DescriptorPlaces /\ Work /\ [Next]_vars => Work'
  BY ExclusiveNext, InHandNext, CountNext DEF Work, DescriptorPlaces
<1> QED BY <1>1, <1>2, TypeCorrect, PlacesInit, PlacesNext, PTL DEF Spec

(* The work counted, together and apart, is that of the operations which     *)
(* have started and not ended, each counted once.                          *)
THEOREM WorkCountedHolds == Spec => []WorkCounted
<1>1. Work => WorkCounted
  BY DEF Work, InHand, Counted, WorkCounted
<1> QED BY <1>1, WorkHolds, PTL

(* run() gives up for want of work, on entering or when a handler returns,   *)
(* only when every operation that has started has ended and only the         *)
(* reactor's mark and descriptors are queued.                              *)
THEOREM StopsOnlyWithoutWorkHolds == Spec => StopsOnlyWithoutWork
<1>1. Spec => []ZeroMeansNone
  BY TypeCorrect, WorkHolds, CountedToZero, PTL DEF Work
<1>2. /\ TypeOK /\ Work /\ ZeroMeansNone /\ ZeroMeansNone' /\ [Next]_vars
      => [\A r \in Runners :
            pc'[r] \in {"no_work", "work_finished"} /\ pc[r] # pc'[r] =>
              Ops \ unused' = done' /\ op_queue \in Seq(Descs \cup {Task})]_vars
  BY StopsStep DEF Work
<1> QED BY <1>1, <1>2, TypeCorrect, WorkHolds, PTL DEF Spec, StopsOnlyWithoutWork
=============================================================================
