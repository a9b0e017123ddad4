-------------------------- MODULE FrameWriterProofs --------------------------
(***************************************************************************)
(* Proofs about FrameWriter: for any number of senders and messages, any    *)
(* cut of a frame into pieces, and whether or not a second lock by the      *)
(* owner of mtx is let through, a connection has one write under way at      *)
(* most, strands no message, and is silent after its first failed write;     *)
(* the frames reach the wire whole and in order.  The argument is the        *)
(* invariant Discipline, and for the last also WireInv.                     *)
(***************************************************************************)
EXTENDS FrameWriter, TLAPS

(* Sequences over one set: their concatenation, and n times one element. *)
LEMMA ConcatTyped ==
  ASSUME NEW S, NEW s \in Seq(S), NEW t \in Seq(S)
  PROVE  s \o t \in Seq(S)
  OBVIOUS

LEMMA RepeatTyped ==
  ASSUME NEW S, NEW x \in S, NEW n \in Nat
  PROVE  [i \in 1 .. n |-> x] \in Seq(S)
  OBVIOUS

(* The pieces of a write are a sequence of pieces. *)
LEMMA PiecesTyped ==
  ASSUME NEW m \in Messages, NEW from \in 0 .. Parts, NEW to \in from .. Parts
  PROVE  Pieces(m, from, to) \in Seq(Piece)
  BY PartsPositive DEF Pieces, Piece

LEMMA DisciplineInit == Init => Discipline
  <1> SUFFICES ASSUME Init PROVE Discipline
    OBVIOUS
  <1> USE ThreadsAreDistinct, PartsPositive DEF Init, Threads
  <1>1. TypeOK
    <2>1. <<>> \in Seq(Messages) /\ <<>> \in Seq(Piece)
      OBVIOUS
    <2>2. /\ pc \in [Threads -> {"idle", "lock", "queue", "relock", "take", "initiate", "return"}]
          /\ data \in [Threads -> Messages \cup {None}]
      OBVIOUS
    <2>. QED
      BY <2>1, <2>2 DEF TypeOK
  <1>2. Drivers = {}
    BY DEF Drivers
  <1>3. OneWriteOutstanding
    BY <1>2 DEF OneWriteOutstanding
  <1>4. MutexHeld
    BY DEF MutexHeld
  <1>5. FlagMeansWriting
    BY <1>2 DEF FlagMeansWriting
  <1>6. MessageInHand
    BY DEF MessageInHand
  <1>. QED
    BY <1>1, <1>3, <1>4, <1>5, <1>6 DEF Discipline

LEMMA EnqueueKeeps ==
  ASSUME Discipline, NEW t \in Senders, NEW m \in Messages, Enqueue(t, m)
  PROVE  Discipline'
  <1> USE ThreadsAreDistinct, PartsPositive DEF Threads, Enqueue, Goto
  <1>1. TypeOK'
    BY DEF Discipline, TypeOK, MutexHeld, MessageInHand
  <1>2. OneWriteOutstanding'
    BY DEF Discipline, TypeOK, OneWriteOutstanding, FlagMeansWriting, MutexHeld, Drivers
  <1>3. MutexHeld'
    BY DEF Discipline, TypeOK, MutexHeld
  <1>4. FlagMeansWriting'
    BY DEF Discipline, TypeOK, OneWriteOutstanding, FlagMeansWriting, MutexHeld, Drivers
  <1>5. MessageInHand'
    BY DEF Discipline, TypeOK, MessageInHand
  <1>. QED
    BY <1>1, <1>2, <1>3, <1>4, <1>5 DEF Discipline

LEMMA LockKeeps ==
  ASSUME Discipline, NEW t \in Threads, Lock(t)
  PROVE  Discipline'
  <1> USE ThreadsAreDistinct, PartsPositive DEF Threads, Lock, Goto
  <1>1. TypeOK'
    BY DEF Discipline, TypeOK, MutexHeld, MessageInHand
  <1>2. OneWriteOutstanding'
    BY DEF Discipline, TypeOK, OneWriteOutstanding, FlagMeansWriting, MutexHeld, Drivers
  <1>3. MutexHeld'
    BY DEF Discipline, TypeOK, MutexHeld
  <1>4. FlagMeansWriting'
    BY DEF Discipline, TypeOK, OneWriteOutstanding, FlagMeansWriting, MutexHeld, Drivers
  <1>5. MessageInHand'
    BY DEF Discipline, TypeOK, MessageInHand
  <1>. QED
    BY <1>1, <1>2, <1>3, <1>4, <1>5 DEF Discipline

LEMMA QueueMessageKeeps ==
  ASSUME Discipline, NEW t \in Threads, QueueMessage(t)
  PROVE  Discipline'
  <1> USE ThreadsAreDistinct, PartsPositive DEF Threads, QueueMessage, Goto
  <1>1. t \in Senders /\ t # Io
    BY DEF Discipline, MutexHeld
  <1>2. TypeOK'
    <2>1. data[t] \in Messages
      BY <1>1 DEF Discipline, MessageInHand
    <2>2. send_queue' \in Seq(Messages) /\ queued' \in Seq(Messages)
      BY <2>1 DEF Discipline, TypeOK
    <2>. QED
      BY <2>2 DEF Discipline, TypeOK
  <1>3. /\ write_in_progress => Drivers' = Drivers
        /\ ~ write_in_progress => ops = {} /\ Drivers = {} /\ Drivers' = {t} /\ ~ failed
    <2>1. CASE write_in_progress
      BY <2>1, <1>1 DEF Drivers, Discipline, TypeOK
    <2>2. CASE ~ write_in_progress
      <3>1. ops = {} /\ Drivers = {} /\ ~ failed
        BY <2>2 DEF Discipline, FlagMeansWriting
      <3>. QED
        BY <2>2, <3>1, <1>1 DEF Drivers, Discipline, TypeOK
    <2>. QED
      BY <2>1, <2>2
  <1>4. OneWriteOutstanding'
    BY <1>3 DEF Discipline, OneWriteOutstanding
  <1>5. MutexHeld'
    <2>1. CASE write_in_progress
      BY <2>1, <1>1 DEF Discipline, TypeOK, MutexHeld
    <2>2. CASE ~ write_in_progress
      BY <2>2, <1>1 DEF Discipline, TypeOK, MutexHeld
    <2>. QED
      BY <2>1, <2>2
  <1>6. FlagMeansWriting'
    BY <1>3 DEF Discipline, FlagMeansWriting
  <1>7. MessageInHand'
    BY DEF Discipline, TypeOK, MessageInHand
  <1>. QED
    BY <1>2, <1>4, <1>5, <1>6, <1>7 DEF Discipline

LEMMA RelockKeeps ==
  ASSUME Discipline, NEW t \in Threads, Relock(t)
  PROVE  Discipline'
  <1> USE ThreadsAreDistinct, PartsPositive DEF Threads, Relock, Goto
  <1>1. TypeOK'
    BY DEF Discipline, TypeOK, MutexHeld, MessageInHand
  <1>2. OneWriteOutstanding'
    BY DEF Discipline, TypeOK, OneWriteOutstanding, FlagMeansWriting, MutexHeld, Drivers
  <1>3. MutexHeld'
    BY DEF Discipline, TypeOK, MutexHeld
  <1>4. FlagMeansWriting'
    BY DEF Discipline, TypeOK, OneWriteOutstanding, FlagMeansWriting, MutexHeld, Drivers
  <1>5. MessageInHand'
    BY DEF Discipline, TypeOK, MessageInHand
  <1>. QED
    BY <1>1, <1>2, <1>3, <1>4, <1>5 DEF Discipline

LEMMA TakeNoneKeeps ==
  ASSUME Discipline, NEW t \in Threads, TakeNone(t)
  PROVE  Discipline'
  <1> USE ThreadsAreDistinct, PartsPositive DEF Threads, TakeNone, Goto
  <1>1. TypeOK'
    BY DEF Discipline, TypeOK, MutexHeld, MessageInHand
  <1>2. OneWriteOutstanding'
    BY DEF Discipline, TypeOK, OneWriteOutstanding, FlagMeansWriting, MutexHeld, Drivers
  <1>3. MutexHeld'
    BY DEF Discipline, TypeOK, MutexHeld
  <1>4. FlagMeansWriting'
    BY DEF Discipline, TypeOK, OneWriteOutstanding, FlagMeansWriting, MutexHeld, Drivers
  <1>5. MessageInHand'
    BY DEF Discipline, TypeOK, MessageInHand
  <1>. QED
    BY <1>1, <1>2, <1>3, <1>4, <1>5 DEF Discipline

LEMMA TakeMessageKeeps ==
  ASSUME Discipline, NEW t \in Threads, TakeMessage(t)
  PROVE  Discipline'
  <1> USE ThreadsAreDistinct, PartsPositive DEF Threads, TakeMessage, AfterScope, Goto
  <1>1. TypeOK'
    <2>1. Head(send_queue) \in Messages /\ Tail(send_queue) \in Seq(Messages)
      BY DEF Discipline, TypeOK
    <2>. QED
      BY <2>1 DEF Discipline, TypeOK
  <1>2. OneWriteOutstanding'
    BY DEF Discipline, TypeOK, OneWriteOutstanding, FlagMeansWriting, MutexHeld, Drivers
  <1>3. MutexHeld'
    BY DEF Discipline, TypeOK, MutexHeld
  <1>4. FlagMeansWriting'
    BY DEF Discipline, TypeOK, OneWriteOutstanding, FlagMeansWriting, MutexHeld, Drivers
  <1>5. MessageInHand'
    BY DEF Discipline, TypeOK, MessageInHand
  <1>. QED
    BY <1>1, <1>2, <1>3, <1>4, <1>5 DEF Discipline

LEMMA InitiateKeeps ==
  ASSUME Discipline, NEW t \in Threads, Initiate(t)
  PROVE  Discipline'
  <1> USE ThreadsAreDistinct, PartsPositive DEF Threads, Initiate, Goto
  <1>1. TypeOK'
    <2>. 0 \in 0 .. Parts
      OBVIOUS
    <2>1. PICK n \in 0 .. Parts :
            /\ wire' = wire \o Pieces(data[t], 0, n)
            /\ ops' = ops \cup {[message |-> data[t], owner |-> t, written |-> n]}
      OBVIOUS
    <2>2. data[t] \in Messages
      BY DEF Discipline, MessageInHand
    <2>3. Pieces(data[t], 0, n) \in Seq(Piece)
      BY <2>2, PiecesTyped
    <2>4. wire' \in Seq(Piece)
      <3>1. wire \in Seq(Piece)
        BY DEF Discipline, TypeOK
      <3>. QED
        BY <2>1, <2>3, <3>1, ConcatTyped
    <2>. QED
      BY <2>1, <2>2, <2>4 DEF Discipline, TypeOK
  <1>2. OneWriteOutstanding'
    BY DEF Discipline, TypeOK, OneWriteOutstanding, FlagMeansWriting, MutexHeld, Drivers
  <1>3. MutexHeld'
    BY DEF Discipline, TypeOK, MutexHeld
  <1>4. FlagMeansWriting'
    BY ZenonT(30) DEF Discipline, TypeOK, OneWriteOutstanding, FlagMeansWriting, MutexHeld, Drivers
  <1>5. MessageInHand'
    BY DEF Discipline, TypeOK, MessageInHand
  <1>. QED
    BY <1>1, <1>2, <1>3, <1>4, <1>5 DEF Discipline

LEMMA ReturnKeeps ==
  ASSUME Discipline, NEW t \in Threads, Return(t)
  PROVE  Discipline'
  <1> USE ThreadsAreDistinct, PartsPositive DEF Threads, Return, Goto
  <1>1. TypeOK'
    BY DEF Discipline, TypeOK, MutexHeld, MessageInHand
  <1>2. OneWriteOutstanding'
    BY DEF Discipline, TypeOK, OneWriteOutstanding, FlagMeansWriting, MutexHeld, Drivers
  <1>3. MutexHeld'
    BY DEF Discipline, TypeOK, MutexHeld
  <1>4. FlagMeansWriting'
    BY DEF Discipline, TypeOK, OneWriteOutstanding, FlagMeansWriting, MutexHeld, Drivers
  <1>5. MessageInHand'
    BY DEF Discipline, TypeOK, MessageInHand
  <1>. QED
    BY <1>1, <1>2, <1>3, <1>4, <1>5 DEF Discipline

LEMMA WriteMoreKeeps ==
  ASSUME Discipline, NEW op \in ops, WriteMore(op)
  PROVE  Discipline'
  <1> USE ThreadsAreDistinct, PartsPositive DEF Threads, WriteMore, Goto
  <1>1. TypeOK'
    <2>1. PICK n \in 1 .. Parts - op.written :
            /\ \/ wire' = wire \o Pieces(op.message, op.written, op.written + n)
               \/ wire' = wire \o [i \in 1 .. n |-> Garbage]
            /\ ops' = (ops \ {op}) \cup {[op EXCEPT !.written = @ + n]}
      OBVIOUS
    <2>2. op \in [message : Messages, owner : Threads, written : 0 .. Parts]
      BY DEF Discipline, TypeOK, Threads
    <2>3. op.written + n \in op.written .. Parts
      BY <2>2
    <2>4. Pieces(op.message, op.written, op.written + n)
            \in Seq(Piece)
      BY <2>2, <2>3, PiecesTyped
    <2>5. [i \in 1 .. n |-> Garbage] \in Seq(Piece)
      <3>1. Garbage \in Piece /\ n \in Nat
        BY <2>2 DEF Piece
      <3>. QED
        BY <3>1, RepeatTyped
    <2>6. wire' \in Seq(Piece)
      <3>1. wire \in Seq(Piece)
        BY DEF Discipline, TypeOK
      <3>2. CASE wire' = wire \o Pieces(op.message, op.written, op.written + n)
        BY <2>4, <3>1, <3>2, ConcatTyped
      <3>3. CASE wire' = wire \o [i \in 1 .. n |-> Garbage]
        BY <2>5, <3>1, <3>3, ConcatTyped
      <3>. QED
        BY <2>1, <3>2, <3>3
    <2>7. PICK m \in Messages, o \in Threads, w \in 0 .. Parts :
            op = [message |-> m, owner |-> o, written |-> w]
      BY <2>2
    <2>8. [op EXCEPT !.written = @ + n] = [message |-> m, owner |-> o, written |-> w + n]
      BY <2>7, SMTT(30)
    <2>9. w + n \in 0 .. Parts
      <3>1. op.written = w
        BY <2>7
      <3>. QED
        BY <2>3, <2>7, <3>1
    <2>10. ops' \subseteq [message : Messages, owner : Threads, written : 0 .. Parts]
      <3>1. [op EXCEPT !.written = @ + n]
              \in [message : Messages, owner : Threads, written : 0 .. Parts]
        BY <2>8, <2>9
      <3>2. ops \subseteq [message : Messages, owner : Threads, written : 0 .. Parts]
        BY DEF Discipline, TypeOK
      <3>. QED
        BY <2>1, <3>1, <3>2
    <2>. QED
      BY <2>6, <2>10 DEF Discipline, TypeOK
  <1>2. OneWriteOutstanding'
    <2>1. ops = {op} /\ Drivers = {}
      BY DEF Discipline, OneWriteOutstanding
    <2>2. Drivers' = Drivers
      BY DEF Drivers
    <2>3. PICK n \in 1 .. Parts - op.written : ops' = (ops \ {op}) \cup {[op EXCEPT !.written = @ + n]}
      OBVIOUS
    <2>. QED
      BY <2>1, <2>2, <2>3 DEF OneWriteOutstanding
  <1>3. MutexHeld'
    BY DEF Discipline, TypeOK, MutexHeld
  <1>4. FlagMeansWriting'
    BY DEF Discipline, TypeOK, OneWriteOutstanding, FlagMeansWriting, MutexHeld, Drivers
  <1>5. MessageInHand'
    BY DEF Discipline, TypeOK, MessageInHand
  <1>. QED
    BY <1>1, <1>2, <1>3, <1>4, <1>5 DEF Discipline

LEMMA CompletedKeeps ==
  ASSUME Discipline, NEW op \in ops, Completed(op)
  PROVE  Discipline'
  <1> USE ThreadsAreDistinct, PartsPositive DEF Threads, Completed, Goto
  <1>1. TypeOK'
    BY DEF Discipline, TypeOK, MutexHeld, MessageInHand
  <1>2. OneWriteOutstanding'
    BY DEF Discipline, TypeOK, OneWriteOutstanding, FlagMeansWriting, MutexHeld, Drivers
  <1>3. MutexHeld'
    BY DEF Discipline, TypeOK, MutexHeld
  <1>4. FlagMeansWriting'
    BY DEF Discipline, TypeOK, OneWriteOutstanding, FlagMeansWriting, MutexHeld, Drivers
  <1>5. MessageInHand'
    BY DEF Discipline, TypeOK, MessageInHand
  <1>. QED
    BY <1>1, <1>2, <1>3, <1>4, <1>5 DEF Discipline

LEMMA FailedKeeps ==
  ASSUME Discipline, NEW op \in ops, Failed(op)
  PROVE  Discipline'
  <1> USE ThreadsAreDistinct, PartsPositive DEF Threads, Failed, Goto
  <1>1. TypeOK'
    BY DEF Discipline, TypeOK, MutexHeld, MessageInHand
  <1>2. OneWriteOutstanding'
    BY DEF Discipline, TypeOK, OneWriteOutstanding, FlagMeansWriting, MutexHeld, Drivers
  <1>3. MutexHeld'
    BY DEF Discipline, TypeOK, MutexHeld
  <1>4. FlagMeansWriting'
    BY DEF Discipline, TypeOK, OneWriteOutstanding, FlagMeansWriting, MutexHeld, Drivers
  <1>5. MessageInHand'
    BY DEF Discipline, TypeOK, MessageInHand
  <1>. QED
    BY <1>1, <1>2, <1>3, <1>4, <1>5 DEF Discipline

LEMMA DisciplineNext == Discipline /\ [Next]_vars => Discipline'
  <1> SUFFICES ASSUME Discipline, [Next]_vars PROVE Discipline'
    OBVIOUS
  <1>1. CASE \E t \in Senders, m \in Messages : Enqueue(t, m)
    BY <1>1, EnqueueKeeps
  <1>2. CASE \E t \in Threads : Step(t)
    BY <1>2, LockKeeps, QueueMessageKeeps, RelockKeeps, TakeNoneKeeps, TakeMessageKeeps,
       InitiateKeeps, ReturnKeeps DEF Step
  <1>3. CASE WriteStep
    BY <1>3, WriteMoreKeeps, CompletedKeeps, FailedKeeps DEF WriteStep
  <1>4. CASE LinkDown
    BY <1>4 DEF LinkDown, Discipline, TypeOK, OneWriteOutstanding, MutexHeld,
                FlagMeansWriting, MessageInHand, Drivers, Threads
  <1>5. CASE UNCHANGED vars
    BY <1>5 DEF vars, Discipline, TypeOK, OneWriteOutstanding, MutexHeld,
                FlagMeansWriting, MessageInHand, Drivers, Threads
  <1>. QED
    BY <1>1, <1>2, <1>3, <1>4, <1>5 DEF Next

LEMMA DisciplineHolds == Spec => []Discipline
  BY DisciplineInit, DisciplineNext, PTL DEF Spec

(* Every variable of the writing side keeps its type. *)
THEOREM TypeCorrect == Spec => []TypeOK
  <1>1. Discipline => TypeOK
    BY DEF Discipline
  <1>. QED
    BY <1>1, DisciplineHolds, PTL

(* At most one asynchronous write is under way on a connection, and nobody  *)
(* is about to start another, whoever calls enqueueOutgoingMessage.         *)
THEOREM OneWriteOutstandingHolds == Spec => []OneWriteOutstanding
  <1>1. Discipline => OneWriteOutstanding
    BY DEF Discipline
  <1>. QED
    BY <1>1, DisciplineHolds, PTL

(* A queued message always has a write under way or a thread that will take *)
(* it, unless a write has failed.                                          *)
THEOREM NeverStrandedHolds == Spec => []NeverStranded
  <1>1. Discipline => NeverStranded
    BY DEF Discipline, FlagMeansWriting, NeverStranded
  <1>. QED
    BY <1>1, DisciplineHolds, PTL

(* After a write has failed no step writes to the socket again. *)
THEOREM SilentAfterErrorHolds == Spec => SilentAfterError
  <1>1. Discipline /\ [Next]_vars => [failed => wire' = wire /\ ops' = {}]_vars
    <2> SUFFICES ASSUME Discipline, [Next]_vars, failed
                 PROVE  wire' = wire /\ ops' = {}
      OBVIOUS
    <2>1. ops = {} /\ Drivers = {}
      BY DEF Discipline, FlagMeansWriting
    <2>2. \A t \in Threads : pc[t] # "initiate"
      BY <2>1 DEF Drivers
    <2>3. CASE \E t \in Senders, m \in Messages : Enqueue(t, m)
      BY <2>1, <2>3 DEF Enqueue
    <2>4. CASE \E t \in Threads : Step(t)
      BY <2>1, <2>2, <2>4
      DEF Step, Lock, QueueMessage, Relock, TakeNone, TakeMessage, Initiate, Return
    <2>5. CASE WriteStep
      BY <2>1, <2>5 DEF WriteStep
    <2>6. CASE LinkDown
      BY <2>1, <2>6 DEF LinkDown
    <2>7. CASE UNCHANGED vars
      BY <2>1, <2>7 DEF vars
    <2>. QED
      BY <2>3, <2>4, <2>5, <2>6, <2>7 DEF Next
  <1>. QED
    BY <1>1, DisciplineHolds, PTL DEF Spec, SilentAfterError

-----------------------------------------------------------------------------
(***************************************************************************)
(* Where the wire stands.  Taken messages have left send_queue, which holds  *)
(* the rest of queued (Backlog); the last of them is the one that is being   *)
(* written, and the others are on the wire (Progress); what is on the wire   *)
(* at the place of a piece is that piece or garbage (WirePieces).           *)
(***************************************************************************)
Taken == Len(queued) - Len(send_queue)

(* The pieces of k messages. *)
Upto(k) == k * Parts

Backlog ==
  /\ Len(send_queue) <= Len(queued)
  /\ \A i \in 1 .. Len(send_queue) : send_queue[i] = queued[Taken + i]

Progress ==
  /\ \A op \in ops :
       Taken >= 1 /\ op.message = queued[Taken] /\ Len(wire) = Upto(Taken - 1) + op.written
  /\ \A t \in Threads : pc[t] = "initiate" =>
       Taken >= 1 /\ data[t] = queued[Taken] /\ Len(wire) = Upto(Taken - 1)
  /\ ops = {} /\ ~ failed /\ (\A t \in Threads : pc[t] # "initiate") => Len(wire) = Upto(Taken)
  /\ Len(wire) <= Upto(Taken)

Place(k, p) == Upto(k - 1) + p

WirePieces ==
  \A k \in 1 .. Len(queued), p \in 1 .. Parts :
    Place(k, p) <= Len(wire) => wire[Place(k, p)] \in {<<queued[k], p>>, Garbage}

WireInv == Backlog /\ Progress /\ WirePieces

LEMMA PieceConcat ==
  ASSUME NEW s \in Seq(Piece), NEW t \in Seq(Piece)
  PROVE  /\ Len(s \o t) = Len(s) + Len(t)
         /\ \A i \in 1 .. Len(s) : (s \o t)[i] = s[i]
         /\ \A i \in 1 .. Len(t) : (s \o t)[Len(s) + i] = t[i]
  OBVIOUS

LEMMA Times ==
  ASSUME NEW a \in Nat, NEW b \in Nat
  PROVE  /\ Upto(a) \in Nat /\ Upto(a + 1) = Upto(a) + Parts
         /\ a < b => Upto(a) + Parts <= Upto(b)
<1>1. Parts \in Nat
  BY PartsPositive
<1>2. /\ a * Parts \in Nat /\ b * Parts \in Nat /\ (a + 1) * Parts = a * Parts + Parts
  BY <1>1
<1>3. ASSUME a < b PROVE a * Parts + Parts <= b * Parts
  <2>1. PICK c \in Nat : b = a + 1 + c
    <3>1. b - a - 1 \in Nat /\ b = a + 1 + (b - a - 1)
      BY <1>3
    <3> QED BY <3>1
  <2>2. b * Parts = (a + 1) * Parts + c * Parts /\ c * Parts \in Nat
    BY <1>1, <2>1
  <2> QED BY <1>1, <1>2, <2>2
<1> QED BY <1>2, <1>3 DEF Upto

(* A piece has one place, and those of later messages come later. *)
LEMMA PlaceUnique ==
  ASSUME NEW j \in Nat, NEW k \in Nat \ {0}, NEW p \in 1 .. Parts, NEW q \in 1 .. Parts
  PROVE  /\ Place(k, p) \in Nat \ {0}
         /\ k <= j => Place(k, p) <= Upto(j)
         /\ k > j => Place(k, p) > Upto(j)
         /\ j # 0 /\ Place(k, p) = Place(j, q) => k = j /\ p = q
<1>1. Parts \in Nat /\ k - 1 \in Nat /\ p \in Nat \ {0} /\ q \in Nat \ {0} /\ p <= Parts /\ q <= Parts
  BY PartsPositive
<1>2. Upto(k - 1) \in Nat /\ (k - 1 < j => Upto(k - 1) + Parts <= Upto(j))
      /\ Upto(j) \in Nat
  BY <1>1, Times
<1>3. j <= k - 1 => Upto(j) <= Upto(k - 1)
  <2>1. j < k - 1 => Upto(j) + Parts <= Upto(k - 1)
    BY <1>1, Times
  <2> QED BY <1>1, <1>2, <2>1
<1>4. ASSUME j # 0, Upto(k - 1) + p = Upto(j - 1) + q PROVE k = j /\ p = q
  <2>1. /\ j - 1 \in Nat /\ Upto(j - 1) \in Nat
        /\ k - 1 < j - 1 => Upto(k - 1) + Parts <= Upto(j - 1)
        /\ j - 1 < k - 1 => Upto(j - 1) + Parts <= Upto(k - 1)
    BY <1>1, <1>4, Times
  <2>2. ~ (k - 1 < j - 1) /\ ~ (j - 1 < k - 1)
    BY <1>1, <1>2, <1>4, <2>1
  <2>3. k = j
    BY <1>1, <2>1, <2>2
  <2> QED BY <1>1, <1>2, <1>4, <2>3
<1> QED BY <1>1, <1>2, <1>3, <1>4 DEF Place

LEMMA WireInit == Init => WireInv
<1> SUFFICES ASSUME Init PROVE WireInv
  OBVIOUS
<1>1. Len(queued) = 0 /\ Len(send_queue) = 0 /\ Len(wire) = 0 /\ Taken = 0
  BY DEF Init, Taken
<1>2. Upto(0) = 0
  BY PartsPositive DEF Upto
<1> QED BY <1>1, <1>2 DEF Init, WireInv, Backlog, Progress, WirePieces

(* What the arithmetic needs to know of the sequences. *)
LEMMA WireTyped ==
  ASSUME Discipline, WireInv
  PROVE  /\ send_queue \in Seq(Messages) /\ queued \in Seq(Messages) /\ wire \in Seq(Piece)
         /\ Len(send_queue) \in Nat /\ Len(queued) \in Nat /\ Len(wire) \in Nat
         /\ Taken \in 0 .. Len(queued) /\ Len(send_queue) = Len(queued) - Taken
         /\ Parts \in Nat \ {0} /\ Upto(Taken) \in Nat
<1>1. /\ send_queue \in Seq(Messages) /\ queued \in Seq(Messages) /\ wire \in Seq(Piece)
      /\ Len(send_queue) \in Nat /\ Len(queued) \in Nat /\ Len(wire) \in Nat
  BY DEF Discipline, TypeOK
<1>2. Taken \in 0 .. Len(queued) /\ Len(send_queue) = Len(queued) - Taken /\ Taken \in Nat
  BY <1>1 DEF WireInv, Backlog, Taken
<1> QED BY <1>1, <1>2, PartsPositive, Times

(* The steps that write nothing and take nothing. *)
LEMMA WireKept ==
  ASSUME Discipline, WireInv, UNCHANGED <<send_queue, queued, wire, ops, failed>>,
         \A t \in Threads : /\ pc[t] = "initiate" <=> pc'[t] = "initiate"
                            /\ pc[t] = "initiate" => data'[t] = data[t]
  PROVE  WireInv'
  BY DEF WireInv, Backlog, Progress, WirePieces, Taken

LEMMA QueueMessageWire ==
  ASSUME Discipline, WireInv, NEW t \in Threads, QueueMessage(t)
  PROVE  WireInv'
<1> USE DEF Goto
<1>1. /\ send_queue' = Append(send_queue, data[t]) /\ queued' = Append(queued, data[t])
      /\ pc[t] = "queue" /\ \A u \in Threads \ {t} : pc'[u] = pc[u] /\ data'[u] = data[u]
      /\ pc'[t] # "initiate" /\ UNCHANGED <<wire, ops, failed>>
  BY DEF QueueMessage, Discipline, TypeOK
<1>2. data[t] \in Messages
  BY <1>1 DEF Discipline, MutexHeld, MessageInHand, Threads
<1>3. /\ Len(send_queue') = Len(send_queue) + 1 /\ Len(queued') = Len(queued) + 1
      /\ \A i \in 1 .. Len(queued) : queued'[i] = queued[i]
      /\ \A i \in 1 .. Len(send_queue) : send_queue'[i] = send_queue[i]
      /\ send_queue'[Len(send_queue) + 1] = data[t] /\ queued'[Len(queued) + 1] = data[t]
  BY <1>1, <1>2, WireTyped
<1>4. Taken' = Taken
  BY <1>3, WireTyped DEF Taken
<1>5. Backlog'
  <2> SUFFICES ASSUME NEW i \in 1 .. Len(send_queue) + 1
               PROVE  send_queue'[i] = queued'[Taken + i]
    BY <1>3, <1>4, WireTyped DEF Backlog, WireInv
  <2>1. CASE i = Len(send_queue) + 1
    <3>1. /\ Len(send_queue) \in Nat /\ Len(queued) \in Nat /\ Taken \in Nat
          /\ Len(send_queue) = Len(queued) - Taken
      BY WireTyped
    <3>2. Taken + i = Len(queued) + 1
      BY <2>1, <3>1
    <3> QED BY <1>3, <2>1, <3>2
  <2>2. CASE i \in 1 .. Len(send_queue)
    <3>1. Taken + i \in 1 .. Len(queued) /\ send_queue[i] = queued[Taken + i]
      BY <2>2, WireTyped, SMTT(30) DEF WireInv, Backlog
    <3> QED BY <1>3, <2>2, <3>1
  <2> QED BY <2>1, <2>2, WireTyped
<1>6. Progress'
  <2>1. Taken >= 1 => queued'[Taken] = queued[Taken]
    BY <1>3, WireTyped
  <2>2. \A u \in Threads : (pc'[u] = "initiate" <=> pc[u] = "initiate")
                          /\ (pc[u] = "initiate" => data'[u] = data[u])
    BY <1>1
  <2> QED BY <1>1, <1>4, <2>1, <2>2 DEF WireInv, Progress
<1>7. WirePieces'
  <2> SUFFICES ASSUME NEW k \in 1 .. Len(queued) + 1, NEW p \in 1 .. Parts,
                      Place(k, p) <= Len(wire)
               PROVE  wire[Place(k, p)] \in {<<queued'[k], p>>, Garbage}
    BY <1>1, <1>3 DEF WirePieces, Place
  <2>1. Len(wire) <= Upto(Taken)
    BY DEF WireInv, Progress
  <2>2. k <= Taken
    <3>1. k > Taken => Place(k, p) > Upto(Taken)
      BY PlaceUnique, WireTyped
    <3>2. Place(k, p) \in Nat
      BY PlaceUnique, WireTyped, SMTT(30)
    <3> QED BY <2>1, <3>1, <3>2, WireTyped
  <2>3. k \in 1 .. Len(queued)
    BY <2>2, WireTyped
  <2> QED BY <1>3, <2>3 DEF WireInv, WirePieces
<1> QED BY <1>5, <1>6, <1>7 DEF WireInv

LEMMA TakeMessageWire ==
  ASSUME Discipline, WireInv, NEW t \in Threads, TakeMessage(t)
  PROVE  WireInv'
<1> USE DEF Goto
<1>1. /\ send_queue # <<>> /\ send_queue' = Tail(send_queue) /\ data'[t] = Head(send_queue)
      /\ pc[t] = "take" /\ pc'[t] = "initiate"
      /\ \A u \in Threads \ {t} : pc'[u] = pc[u] /\ data'[u] = data[u]
      /\ UNCHANGED <<queued, wire, ops, failed>>
  BY DEF TakeMessage, Discipline, TypeOK
<1>2. ops = {} /\ ~ failed /\ \A u \in Threads : pc[u] = "initiate" => u = t
  <2>1. t \in Drivers
    BY <1>1 DEF Drivers
  <2>2. ops = {} /\ ~ failed /\ \A u \in Drivers : u = t
    BY <2>1 DEF Discipline, OneWriteOutstanding, FlagMeansWriting
  <2> QED BY <2>2 DEF Drivers
<1>3. /\ Len(send_queue') = Len(send_queue) - 1 /\ Len(send_queue) >= 1
      /\ Head(send_queue) = send_queue[1]
      /\ \A i \in 1 .. Len(send_queue) - 1 : send_queue'[i] = send_queue[i + 1]
  BY <1>1, WireTyped
<1>4. Taken' = Taken + 1
  BY <1>1, <1>3, WireTyped DEF Taken
<1>5. Backlog'
  <2>1. ASSUME NEW i \in 1 .. Len(send_queue) - 1
        PROVE  send_queue[i + 1] = queued[(Taken + 1) + i]
    <3>1. i + 1 \in 1 .. Len(send_queue) /\ Taken + (i + 1) = (Taken + 1) + i
      BY <1>3, WireTyped
    <3>2. send_queue[i + 1] = queued[Taken + (i + 1)]
      BY <3>1 DEF WireInv, Backlog
    <3> QED BY <3>1, <3>2
  <2>2. Len(send_queue) \in Nat /\ Len(queued) \in Nat /\ Len(send_queue) <= Len(queued)
    BY WireTyped DEF WireInv, Backlog
  <2>3. Len(send_queue') <= Len(queued)
    BY <1>3, <2>2
  <2>4. \A i \in 1 .. Len(send_queue') : send_queue'[i] = queued[(Taken + 1) + i]
    BY <1>3, <2>1
  <2> QED BY <1>1, <1>4, <2>3, <2>4 DEF Backlog
<1>6. Len(wire) = Upto(Taken)
  <2>1. \A u \in Threads : pc[u] # "initiate"
    BY <1>1, <1>2
  <2> QED BY <1>2, <2>1 DEF WireInv, Progress
<1>7. Progress'
  <2>1. data'[t] = queued[Taken + 1]
    <3>1. 1 \in 1 .. Len(send_queue)
      BY <1>3, WireTyped
    <3> QED BY <1>1, <1>3, <3>1 DEF WireInv, Backlog
  <2>2. Taken + 1 >= 1 /\ (Taken + 1) - 1 = Taken /\ Upto(Taken) <= Upto(Taken + 1)
    <3>1. Taken \in Nat /\ Upto(Taken + 1) = Upto(Taken) + Parts
      BY WireTyped, Times, SMTT(30)
    <3> QED BY <3>1, WireTyped
  <2>3. /\ Len(wire) = Upto((Taken + 1) - 1) /\ Len(wire) <= Upto(Taken + 1)
        /\ \A u \in Threads : pc'[u] = "initiate" <=> u = t
    BY <1>1, <1>2, <1>6, <2>2
  <2> QED BY <1>1, <1>2, <1>4, <2>1, <2>2, <2>3 DEF Progress
<1>8. WirePieces'
  BY <1>1 DEF WireInv, WirePieces
<1> QED BY <1>5, <1>7, <1>8 DEF WireInv

(* A write of n pieces after the first w of the message being written. *)
LEMMA PiecesLand ==
  ASSUME Discipline, WireInv, Taken >= 1, NEW w \in 0 .. Parts, NEW n \in 0 .. Parts - w,
         Len(wire) = Upto(Taken - 1) + w,
         NEW new \in Seq(Piece), Len(new) = n,
         \A i \in 1 .. n : new[i] \in {<<queued[Taken], w + i>>, Garbage},
         wire' = wire \o new, UNCHANGED queued
  PROVE  /\ Len(wire') = Upto(Taken - 1) + (w + n)
         /\ Len(wire') <= Upto(Taken)
         /\ WirePieces'
<1>0. /\ Parts \in Nat \ {0} /\ Len(wire) \in Nat /\ Len(queued) \in Nat
      /\ wire \in Seq(Piece)
  BY WireTyped
<1>1. /\ Taken \in Nat \ {0} /\ Taken - 1 \in Nat /\ Upto(Taken - 1) \in Nat
      /\ Upto(Taken) = Upto(Taken - 1) + Parts
      /\ Taken \in 1 .. Len(queued)
  <2>1. Taken \in Nat \ {0} /\ Taken - 1 \in Nat /\ Taken \in 1 .. Len(queued)
    BY WireTyped, SMTT(30)
  <2>2. (Taken - 1) + 1 = Taken
    BY <2>1
  <2> QED BY <2>1, <2>2, Times
<1>2. /\ Len(wire') = Len(wire) + n /\ w \in Nat /\ n \in Nat /\ w + n <= Parts
      /\ \A i \in 1 .. Len(wire) : wire'[i] = wire[i]
      /\ \A i \in 1 .. n : wire'[Len(wire) + i] = new[i]
  <2>1. wire \in Seq(Piece) /\ new \in Seq(Piece)
    BY <1>0
  <2>2. w \in Nat /\ n \in Nat /\ w + n <= Parts
    BY <1>0
  <2>3. /\ Len(wire \o new) = Len(wire) + Len(new)
        /\ \A i \in 1 .. Len(wire) : (wire \o new)[i] = wire[i]
        /\ \A i \in 1 .. Len(new) : (wire \o new)[Len(wire) + i] = new[i]
    BY <2>1, PieceConcat
  <2> QED BY <2>2, <2>3
<1>3. Len(wire') = Upto(Taken - 1) + (w + n) /\ Len(wire') <= Upto(Taken)
  <2>1. (Upto(Taken - 1) + w) + n = Upto(Taken - 1) + (w + n)
    BY <1>1, <1>2
  <2>2. Upto(Taken - 1) + (w + n) <= Upto(Taken - 1) + Parts
    BY <1>0, <1>1, <1>2, SMTT(30)
  <2> QED BY <1>1, <1>2, <2>1, <2>2
<1>4. WirePieces'
  <2> SUFFICES ASSUME NEW k \in 1 .. Len(queued), NEW p \in 1 .. Parts,
                      Place(k, p) <= Len(wire) + n
               PROVE  wire'[Place(k, p)] \in {<<queued[k], p>>, Garbage}
    BY <1>2, ZenonT(30) DEF WirePieces, Place
  <2>1. Place(k, p) \in Nat \ {0} /\ k \in Nat \ {0} /\ p \in Nat \ {0} /\ p <= Parts
    <3>1. k \in Nat \ {0} /\ p \in Nat \ {0} /\ p <= Parts
      BY <1>0
    <3> QED BY <3>1, PlaceUnique
  <2>2. CASE Place(k, p) <= Len(wire)
    <3>1. Place(k, p) \in 1 .. Len(wire)
      BY <1>0, <2>1, <2>2
    <3> QED BY <1>2, <2>2, <3>1 DEF WireInv, WirePieces
  <2>3. CASE ~ (Place(k, p) <= Len(wire))
    <3>1. PICK i \in 1 .. n : Place(k, p) = Len(wire) + i
      <4>1. Place(k, p) - Len(wire) \in 1 .. n
            /\ Place(k, p) = Len(wire) + (Place(k, p) - Len(wire))
        BY <1>0, <1>2, <2>1, <2>3
      <4> QED BY <4>1
    <3>2. w + i \in 1 .. Parts /\ Place(k, p) = Place(Taken, w + i)
      <4>1. Place(Taken, w + i) = Upto(Taken - 1) + (w + i)
        BY DEF Place
      <4>2. w + i \in 1 .. Parts /\ Upto(Taken - 1) + (w + i) = Len(wire) + i
        <5>1. w + i \in 1 .. Parts
          BY <1>2, PartsPositive
        <5>2. i \in Nat /\ w \in Nat /\ Upto(Taken - 1) \in Nat
          BY <1>1, <1>2
        <5> QED BY <5>1, <5>2
      <4> QED BY <3>1, <4>1, <4>2
    <3>3. k = Taken /\ p = w + i
      BY <1>1, <2>1, <3>2, PlaceUnique, SMTT(30)
    <3> QED BY <1>2, <3>1, <3>3, ZenonT(30)
  <2> QED BY <2>2, <2>3
<1> QED BY <1>3, <1>4

(* Pieces, as the lemma above wants them. *)
LEMMA PiecesAre ==
  ASSUME NEW m \in Messages, NEW w \in 0 .. Parts, NEW n \in 0 .. Parts - w
  PROVE  /\ Pieces(m, w, w + n) \in Seq(Piece) /\ Len(Pieces(m, w, w + n)) = n
         /\ \A i \in 1 .. n : Pieces(m, w, w + n)[i] = <<m, w + i>>
<1>1. w + n \in w .. Parts /\ (w + n) - w = n /\ n \in Nat
  BY PartsPositive
<1>2. Pieces(m, w, w + n) = [i \in 1 .. n |-> <<m, w + i>>]
  BY <1>1 DEF Pieces
<1>3. Pieces(m, w, w + n) \in Seq(Piece)
  BY <1>1, PiecesTyped
<1> QED BY <1>1, <1>2, <1>3

LEMMA InitiateWire ==
  ASSUME Discipline, WireInv, NEW t \in Threads, Initiate(t)
  PROVE  WireInv'
<1> USE DEF Goto
<1>1. PICK n \in 0 .. Parts :
        /\ wire' = wire \o Pieces(data[t], 0, n)
        /\ ops' = ops \cup {[message |-> data[t], owner |-> t, written |-> n]}
  BY PartsPositive DEF Initiate
<1>2. /\ pc[t] = "initiate" /\ pc'[t] = "return" /\ data' = data
      /\ \A u \in Threads \ {t} : pc'[u] = pc[u]
      /\ UNCHANGED <<send_queue, queued, failed>>
  BY DEF Initiate, Discipline, TypeOK
<1>3. ops = {} /\ \A u \in Threads : pc[u] = "initiate" => u = t
  <2>1. t \in Drivers
    BY <1>2 DEF Drivers
  <2>2. ops = {} /\ \A u \in Drivers : u = t
    BY <2>1 DEF Discipline, OneWriteOutstanding
  <2> QED BY <2>2 DEF Drivers
<1>4. Taken >= 1 /\ data[t] = queued[Taken] /\ Len(wire) = Upto(Taken - 1)
  BY <1>2 DEF WireInv, Progress
<1>5. data[t] \in Messages
  BY <1>2 DEF Discipline, MessageInHand
<1>6. /\ 0 \in 0 .. Parts /\ n \in 0 .. Parts - 0 /\ 0 + n = n
      /\ Len(wire) = Upto(Taken - 1) + 0
  <2>1. Upto(Taken - 1) \in Nat
    BY <1>4, WireTyped, Times
  <2> QED BY <1>4, <2>1, PartsPositive
<1>7. /\ Pieces(data[t], 0, n) \in Seq(Piece) /\ Len(Pieces(data[t], 0, n)) = n
      /\ \A i \in 1 .. n : Pieces(data[t], 0, n)[i] = <<data[t], 0 + i>>
  BY <1>5, <1>6, PiecesAre
<1>8. /\ Len(wire') = Upto(Taken - 1) + n /\ Len(wire') <= Upto(Taken)
      /\ WirePieces'
  <2>1. PICK new \in Seq(Piece) : new = Pieces(data[t], 0, n)
    BY <1>7
  <2>2. /\ Len(new) = n /\ wire' = wire \o new
        /\ \A i \in 1 .. n : new[i] \in {<<queued[Taken], 0 + i>>, Garbage}
    BY <1>1, <1>4, <1>7, <2>1
  <2>3. /\ Len(wire') = Upto(Taken - 1) + (0 + n) /\ Len(wire') <= Upto(Taken)
        /\ WirePieces'
    BY <1>2, <1>4, <1>6, <2>2, PiecesLand
  <2> QED BY <1>6, <2>3
<1>9. Taken' = Taken /\ Backlog'
  BY <1>2 DEF WireInv, Backlog, Taken
<1>10. Progress'
  <2>1. /\ ops' = {[message |-> data[t], owner |-> t, written |-> n]}
        /\ \A u \in Threads : pc'[u] # "initiate"
    BY <1>1, <1>2, <1>3
  <2>2. \A p \in ops' : p.message = queued[Taken] /\ p.written = n
    BY <1>4, <2>1
  <2>3. ops' # {}
    BY <2>1
  <2> QED BY <1>2, <1>4, <1>8, <1>9, <2>1, <2>2, <2>3 DEF Progress
<1> QED BY <1>8, <1>9, <1>10 DEF WireInv

LEMMA WriteMoreWire ==
  ASSUME Discipline, WireInv, NEW op \in ops, WriteMore(op)
  PROVE  WireInv'
<1>1. PICK n \in 1 .. Parts - op.written :
        /\ \/ wire' = wire \o Pieces(op.message, op.written, op.written + n)
           \/ wire' = wire \o [i \in 1 .. n |-> Garbage]
        /\ ops' = (ops \ {op}) \cup {[op EXCEPT !.written = @ + n]}
  BY DEF WriteMore
<1>2. UNCHANGED <<send_queue, pc, data, queued, failed>>
  BY DEF WriteMore
<1>3. PICK m \in Messages, o \in Threads, w \in 0 .. Parts :
        op = [message |-> m, owner |-> o, written |-> w]
  BY DEF Discipline, TypeOK
<1>4. op.message = m /\ op.written = w
      /\ [op EXCEPT !.written = @ + n] = [message |-> m, owner |-> o, written |-> w + n]
  BY <1>3
<1>5. ops = {op} /\ \A u \in Threads : pc[u] # "initiate"
  BY DEF Discipline, OneWriteOutstanding, Drivers
<1>6. Taken >= 1 /\ m = queued[Taken] /\ Len(wire) = Upto(Taken - 1) + w
  BY <1>4 DEF WireInv, Progress
<1>7. n \in 0 .. Parts - w
  BY <1>4, PartsPositive
<1>8. PICK new \in Seq(Piece) :
        /\ wire' = wire \o new /\ Len(new) = n
        /\ \A i \in 1 .. n : new[i] \in {<<m, w + i>>, Garbage}
  <2>1. CASE wire' = wire \o Pieces(op.message, op.written, op.written + n)
    <3>1. /\ Pieces(m, w, w + n) \in Seq(Piece) /\ Len(Pieces(m, w, w + n)) = n
          /\ \A i \in 1 .. n : Pieces(m, w, w + n)[i] = <<m, w + i>>
      BY <1>7, PiecesAre
    <3> QED BY <1>4, <2>1, <3>1
  <2>2. CASE wire' = wire \o [i \in 1 .. n |-> Garbage]
    <3>1. n \in Nat /\ Garbage \in Piece
      BY <1>7 DEF Piece
    <3>2. /\ [i \in 1 .. n |-> Garbage] \in Seq(Piece)
          /\ Len([i \in 1 .. n |-> Garbage]) = n
          /\ \A i \in 1 .. n : [j \in 1 .. n |-> Garbage][i] = Garbage
      BY <3>1, RepeatTyped
    <3> QED BY <2>2, <3>2
  <2> QED BY <1>1, <2>1, <2>2
<1>9. /\ Len(wire') = Upto(Taken - 1) + (w + n) /\ Len(wire') <= Upto(Taken)
      /\ WirePieces'
  BY <1>2, <1>6, <1>7, <1>8, PiecesLand
<1>10. Taken' = Taken /\ Backlog'
  BY <1>2 DEF WireInv, Backlog, Taken
<1>11. Progress'
  <2>1. ops' = {[message |-> m, owner |-> o, written |-> w + n]}
    BY <1>1, <1>4, <1>5
  <2>2. /\ \A p \in ops' : p.message = queued[Taken] /\ p.written = w + n
        /\ ops' # {}
    BY <1>6, <2>1
  <2>3. \A u \in Threads : pc'[u] # "initiate"
    BY <1>2, <1>5
  <2> QED BY <1>2, <1>6, <1>9, <1>10, <2>2, <2>3 DEF Progress
<1> QED BY <1>9, <1>10, <1>11 DEF WireInv

LEMMA WriteEndsWire ==
  ASSUME Discipline, WireInv, NEW op \in ops, Completed(op) \/ Failed(op)
  PROVE  WireInv'
<1>1. /\ ops = {op} /\ ops' = {} /\ UNCHANGED <<send_queue, data, queued, wire>>
      /\ \A u \in Threads : pc[u] # "initiate" /\ pc'[u] # "initiate"
  <2>1. ops = {op} /\ \A u \in Threads : pc[u] # "initiate"
    BY DEF Discipline, OneWriteOutstanding, Drivers
  <2> QED BY <2>1 DEF Completed, Failed, Goto, Discipline, TypeOK
<1>2. Taken' = Taken /\ Backlog' /\ WirePieces'
  BY <1>1 DEF WireInv, Backlog, WirePieces, Taken
<1>3. failed' \/ Len(wire) = Upto(Taken)
  <2>1. CASE Completed(op)
    <3>1. Taken >= 1 /\ Len(wire) = Upto(Taken - 1) + Parts
      BY <2>1 DEF Completed, WireInv, Progress
    <3>2. Taken - 1 \in Nat /\ (Taken - 1) + 1 = Taken
      BY <3>1, WireTyped
    <3>3. Upto(Taken) = Upto(Taken - 1) + Parts
      BY <3>2, Times
    <3> QED BY <3>1, <3>3
  <2>2. CASE Failed(op)
    BY <2>2 DEF Failed
  <2> QED BY <2>1, <2>2
<1>4. Progress'
  BY <1>1, <1>2, <1>3 DEF WireInv, Progress
<1> QED BY <1>2, <1>4 DEF WireInv

LEMMA WireNext == Discipline /\ WireInv /\ [Next]_vars => WireInv'
<1> SUFFICES ASSUME Discipline, WireInv, [Next]_vars PROVE WireInv'
  OBVIOUS
<1>1. ASSUME NEW t \in Threads,
             \/ \E m \in Messages : Enqueue(t, m)
             \/ Lock(t) \/ Relock(t) \/ TakeNone(t) \/ Return(t)
      PROVE  WireInv'
  <2>1. /\ UNCHANGED <<send_queue, queued, wire, ops, failed>>
        /\ pc[t] # "initiate" /\ pc'[t] # "initiate"
        /\ \A u \in Threads \ {t} : pc'[u] = pc[u] /\ data'[u] = data[u]
    BY <1>1 DEF Enqueue, Lock, Relock, TakeNone, Return, Goto, Discipline, TypeOK
  <2>2. \A u \in Threads : /\ pc[u] = "initiate" <=> pc'[u] = "initiate"
                          /\ pc[u] = "initiate" => data'[u] = data[u]
    BY <2>1
  <2> QED BY <2>1, <2>2, WireKept
<1>2. CASE \E t \in Senders, m \in Messages : Enqueue(t, m)
  BY <1>1, <1>2 DEF Threads
<1>3. CASE \E t \in Threads : Step(t)
  BY <1>1, <1>3, QueueMessageWire, TakeMessageWire, InitiateWire DEF Step
<1>4. CASE WriteStep
  BY <1>4, WriteMoreWire, WriteEndsWire DEF WriteStep
<1>5. CASE LinkDown \/ UNCHANGED vars
  BY <1>5, WireKept DEF LinkDown, vars
<1> QED BY <1>2, <1>3, <1>4, <1>5 DEF Next

(* What is on the wire is, piece by piece, the messages in the order in      *)
(* which they were queued, or garbage in the place of a piece.              *)
THEOREM FramesInOrderHolds == Spec => []FramesInOrder
<1>1. Discipline /\ WireInv => FramesInOrder
  <2> SUFFICES ASSUME Discipline, WireInv PROVE FramesInOrder
    OBVIOUS
  <2>1. Upto(Taken) <= Upto(Len(queued))
    <3>1. /\ Taken < Len(queued) => Upto(Taken) + Parts <= Upto(Len(queued))
          /\ Taken \in Nat /\ Taken <= Len(queued)
      BY WireTyped, Times
    <3>2. Upto(Len(queued)) \in Nat
      BY WireTyped, Times
    <3> QED BY <3>1, <3>2, WireTyped
  <2>2. Len(wire) <= Upto(Len(queued))
    <3>1. Len(wire) <= Upto(Taken) /\ Upto(Len(queued)) \in Nat
      BY WireTyped, Times DEF WireInv, Progress
    <3> QED BY <2>1, <3>1, WireTyped
  <2>3. DOMAIN queued = 1 .. Len(queued)
    BY WireTyped
  <2> QED BY <2>2, <2>3 DEF FramesInOrder, WireInv, WirePieces, Place, Upto
<1> QED BY <1>1, DisciplineHolds, WireInit, WireNext, PTL DEF Spec
-----------------------------------------------------------------------------
(***************************************************************************)
(* The writing side implements MessageChannel: QueueMessage is Send, and the *)
(* step that puts the last piece of a frame on the wire is Deliver, unless   *)
(* garbage is there, in which case it is Garble.                           *)
(***************************************************************************)
LEMMA UptoMonotone ==
  ASSUME NEW a \in Nat, NEW b \in Nat, a <= b
  PROVE  Upto(a) \in Nat /\ Upto(b) \in Nat /\ Upto(a) <= Upto(b)
<1>1. /\ Upto(a) \in Nat /\ Upto(b) \in Nat /\ Parts \in Nat
      /\ a < b => Upto(a) + Parts <= Upto(b)
  BY Times, PartsPositive
<1> QED BY <1>1

(* If the wire ends inside the frame of message number n, or where it ends, *)
(* the frames that are complete are those before it, or that one too.       *)
LEMMA LandedIs ==
  ASSUME NEW Q, NEW q \in Seq(Q), NEW n \in 1 .. Len(q), NEW l \in Nat,
         Upto(n - 1) <= l, l <= Upto(n)
  PROVE  {k \in DOMAIN q : k * Parts <= l} = 1 .. IF l = Upto(n) THEN n ELSE n - 1
<1>1. Len(q) \in Nat /\ DOMAIN q = 1 .. Len(q) /\ n \in Nat /\ n - 1 \in Nat
  OBVIOUS
<1>2. ASSUME NEW k \in 1 .. Len(q)
      PROVE  Upto(k) <= l <=> k <= IF l = Upto(n) THEN n ELSE n - 1
  <2>1. /\ Upto(k) \in Nat /\ Upto(n) \in Nat /\ Upto(n - 1) \in Nat
        /\ k <= n - 1 => Upto(k) <= Upto(n - 1)
        /\ k <= n => Upto(k) <= Upto(n)
        /\ n < k => Upto(n) + Parts <= Upto(k)
    <3>1. k \in Nat
      OBVIOUS
    <3> QED BY <1>1, <3>1, UptoMonotone, Times
  <2>2. Parts \in Nat \ {0}
    BY PartsPositive
  <2>3. CASE k <= n - 1
    BY <1>1, <2>1, <2>3
  <2>4. CASE k = n
    BY <1>1, <2>1, <2>4
  <2>5. CASE n < k
    BY <1>1, <2>1, <2>2, <2>5
  <2> QED BY <1>1, <2>3, <2>4, <2>5
<1> QED BY <1>1, <1>2 DEF Upto

LEMMA FrameTyped == \A w, k : FrameAt(w, k) \in Messages \cup {Garbage}
<1> SUFFICES ASSUME NEW w, NEW k PROVE FrameAt(w, k) \in Messages \cup {Garbage}
  OBVIOUS
<1>1. WrittenAt(w, k) \subseteq Messages
  BY DEF WrittenAt
<1>2. CASE WrittenAt(w, k) = {}
  BY <1>2 DEF FrameAt
<1>3. CASE WrittenAt(w, k) # {}
  BY <1>1, <1>3 DEF FrameAt
<1> QED BY <1>2, <1>3

LEMMA OnWireTyped ==
  ASSUME NEW n \in Nat, Landed = 1 .. n
  PROVE  /\ OnWire \in Seq(Messages \cup {Garbage}) /\ Len(OnWire) = n
         /\ \A k \in 1 .. n : OnWire[k] = FrameAt(wire, k)
<1>1. OnWire = [k \in 1 .. n |-> FrameAt(wire, k)]
  BY DEF OnWire
<1>2. OnWire \in [1 .. n -> Messages \cup {Garbage}]
  BY <1>1, FrameTyped
<1> QED BY <1>1, <1>2

(* A frame with the same pieces is the same frame. *)
LEMMA FrameKept ==
  ASSUME NEW v, NEW w, NEW k,
         \A p \in 1 .. Parts : v[(k - 1) * Parts + p] = w[(k - 1) * Parts + p]
  PROVE  FrameAt(v, k) = FrameAt(w, k)
<1>1. WrittenAt(v, k) = WrittenAt(w, k)
  BY Zenon DEF WrittenAt
<1> QED BY <1>1 DEF FrameAt

(* A frame with all the pieces of a message is that message. *)
LEMMA FrameIsMessage ==
  ASSUME NEW w, NEW k, NEW m \in Messages,
         \A p \in 1 .. Parts : w[(k - 1) * Parts + p] = <<m, p>>
  PROVE  FrameAt(w, k) = m
<1>1. 1 \in 1 .. Parts
  BY PartsPositive
<1>2. ASSUME NEW x \in WrittenAt(w, k)
      PROVE  x = m
  <2>1. <<x, 1>> = <<m, 1>>
    BY <1>1 DEF WrittenAt
  <2> QED BY <2>1
<1>3. m \in WrittenAt(w, k)
  BY DEF WrittenAt
<1>4. WrittenAt(w, k) = {m}
  BY <1>2, <1>3
<1> QED BY <1>4 DEF FrameAt

(* What a write that goes on makes of the frames that are on the wire. *)
LEMMA WireGrows ==
  ASSUME Discipline, WireInv, Discipline', WireInv', UNCHANGED queued, Taken >= 1,
         Upto(Taken - 1) <= Len(wire), Len(wire) < Upto(Taken),
         Len(wire) <= Len(wire'), Len(wire') <= Upto(Taken),
         \A i \in 1 .. Len(wire) : wire'[i] = wire[i]
  PROVE  Channel!Deliver \/ Channel!Garble \/ UNCHANGED Channel!vars
<1>1. PICK n \in 1 .. Len(queued) : n = Taken
  BY WireTyped
<1>2. /\ queued \in Seq(Messages) /\ Len(queued) \in Nat /\ n \in Nat /\ n - 1 \in Nat
      /\ Len(wire) \in Nat /\ Len(wire') \in Nat /\ wire' \in Seq(Piece) /\ wire \in Seq(Piece)
      /\ Upto(n - 1) \in Nat /\ Upto(n) \in Nat /\ Parts \in Nat \ {0}
  <2>1. /\ queued \in Seq(Messages) /\ Len(queued) \in Nat /\ Len(wire) \in Nat
        /\ wire \in Seq(Piece) /\ Parts \in Nat \ {0}
    BY WireTyped
  <2>2. wire' \in Seq(Piece)
    BY DEF Discipline, TypeOK
  <2>3. n \in Nat /\ n - 1 \in Nat /\ Len(wire') \in Nat
    BY <2>1, <2>2
  <2>4. Upto(n - 1) \in Nat /\ Upto(n) \in Nat
    BY <2>3, Times
  <2> QED BY <2>1, <2>2, <2>3, <2>4
<1>3. Landed = 1 .. n - 1
  <2>1. Upto(n - 1) <= Len(wire) /\ Len(wire) <= Upto(n) /\ Len(wire) # Upto(n)
    BY <1>1, <1>2
  <2>2. Landed = 1 .. IF Len(wire) = Upto(n) THEN n ELSE n - 1
    BY <1>2, <2>1, LandedIs DEF Landed
  <2> QED BY <2>1, <2>2
<1>4. Landed' = 1 .. IF Len(wire') = Upto(n) THEN n ELSE n - 1
  <2>1. Upto(n - 1) <= Len(wire') /\ Len(wire') <= Upto(n)
    BY <1>1, <1>2
  <2> QED BY <1>2, <2>1, LandedIs DEF Landed
<1>5. \A k \in 1 .. n - 1 : FrameAt(wire', k) = FrameAt(wire, k)
  <2> SUFFICES ASSUME NEW k \in 1 .. n - 1 PROVE FrameAt(wire', k) = FrameAt(wire, k)
    OBVIOUS
  <2>1. \A p \in 1 .. Parts : wire'[(k - 1) * Parts + p] = wire[(k - 1) * Parts + p]
    <3> SUFFICES ASSUME NEW p \in 1 .. Parts PROVE wire'[Place(k, p)] = wire[Place(k, p)]
      BY DEF Place, Upto
    <3>1. k \in Nat \ {0} /\ k <= n - 1
      BY <1>2
    <3>2. Place(k, p) \in Nat \ {0} /\ Place(k, p) <= Upto(n - 1)
      BY <1>2, <3>1, PlaceUnique
    <3>3. Place(k, p) \in 1 .. Len(wire)
      BY <1>1, <1>2, <3>2
    <3> QED BY <3>3
  <2> QED BY <2>1, FrameKept
<1>6. ASSUME Garbage \notin Range(wire'), Len(wire') = Upto(n)
      PROVE  FrameAt(wire', n) = queued[n]
  <2>1. \A p \in 1 .. Parts : wire'[(n - 1) * Parts + p] = <<queued[n], p>>
    <3> SUFFICES ASSUME NEW p \in 1 .. Parts PROVE wire'[Place(n, p)] = <<queued[n], p>>
      BY DEF Place, Upto
    <3>1. Place(n, p) \in 1 .. Len(wire')
      BY <1>2, <1>6, PlaceUnique, SMTT(30)
    <3>2. wire'[Place(n, p)] \in {<<queued[n], p>>, Garbage}
      BY <3>1 DEF WireInv, WirePieces, Place, Upto
    <3>3. wire'[Place(n, p)] \in Range(wire')
      BY <1>2, <3>1 DEF Range
    <3> QED BY <1>6, <3>2, <3>3
  <2>2. queued[n] \in Messages
    BY <1>2
  <2> QED BY <2>1, <2>2, FrameIsMessage
<1>7. /\ Len(OnWire) = n - 1 /\ OnWire \in Seq(Messages \cup {Garbage})
      /\ \A k \in 1 .. n - 1 : OnWire[k] = FrameAt(wire, k)
  BY <1>2, <1>3, OnWireTyped
<1>8. OnWire' = [k \in 1 .. IF Len(wire') = Upto(n) THEN n ELSE n - 1 |-> FrameAt(wire', k)]
  BY <1>4 DEF OnWire
<1>9. /\ Len(OnWire') = IF Len(wire') = Upto(n) THEN n ELSE n - 1
      /\ \A k \in 1 .. n - 1 : OnWire'[k] = OnWire[k]
  <2>1. \A k : FrameAt(wire', k) \in Messages \cup {Garbage}
    BY FrameTyped
  <2>2. PICK l \in Nat : l = IF Len(wire') = Upto(n) THEN n ELSE n - 1
    BY <1>2
  <2>3. OnWire' \in [1 .. l -> Messages \cup {Garbage}] /\ n - 1 <= l
    BY <1>2, <1>8, <2>1, <2>2
  <2>4. Len(OnWire') = l
    BY <2>3
  <2> QED BY <1>2, <1>5, <1>7, <1>8, <2>2, <2>3, <2>4
<1>10. CASE Garbage \in Range(wire')
  BY <1>2, <1>7, <1>9, <1>10 DEF Channel!Garble
<1>11. CASE Garbage \notin Range(wire')
  <2>1. Garbage \notin Range(wire)
    BY <1>2, <1>11, SMTT(30) DEF Range
  <2>2. CASE Len(wire') = Upto(n)
    <3>1. OnWire' = Append(OnWire, queued[n])
      <4>1. /\ Append(OnWire, queued[n]) \in Seq(Messages \cup {Garbage})
            /\ Len(Append(OnWire, queued[n])) = n
            /\ \A k \in 1 .. n : Append(OnWire, queued[n])[k] = IF k = n THEN queued[n] ELSE OnWire[k]
        BY <1>2, <1>7
      <4>2. OnWire' = [k \in 1 .. n |-> FrameAt(wire', k)]
        BY <1>8, <2>2
      <4>3. \A k \in 1 .. n : OnWire'[k] = IF k = n THEN queued[n] ELSE OnWire[k]
        <5>1. OnWire'[n] = queued[n]
          BY <1>2, <1>6, <1>11, <2>2, <4>2
        <5>2. ASSUME NEW k \in 1 .. n, k # n
              PROVE  OnWire'[k] = OnWire[k]
          BY <1>2, <1>9, <5>2
        <5> QED BY <5>1, <5>2
      <4>4. Append(OnWire, queued[n]) = [k \in 1 .. n |-> Append(OnWire, queued[n])[k]]
        BY <1>2, <4>1
      <4> QED BY <4>1, <4>2, <4>3, <4>4
    <3>2. queued[Len(OnWire) + 1] = queued[n] /\ Len(OnWire) < Len(queued)
      BY <1>2, <1>7
    <3> QED BY <1>11, <2>1, <3>1, <3>2 DEF Channel!Deliver
  <2>3. CASE Len(wire') # Upto(n)
    <3>1. OnWire' = OnWire
      BY <1>3, <1>5, <1>8, <2>3 DEF OnWire
    <3> QED BY <1>11, <2>1, <3>1 DEF Channel!vars
  <2> QED BY <2>2, <2>3
<1> QED BY <1>10, <1>11

LEMMA ChannelInit == Init => Channel!Init
<1> SUFFICES ASSUME Init PROVE Channel!Init
  OBVIOUS
<1>1. queued = <<>> /\ wire = <<>> /\ DOMAIN queued = {}
  BY DEF Init
<1>2. Landed = {} /\ Garbage \notin Range(wire)
  BY <1>1 DEF Landed, Range
<1>3. OnWire = <<>>
  BY <1>2 DEF OnWire
<1> QED BY <1>1, <1>2, <1>3 DEF Channel!Init

(* A message that is queued is sent, and its frame is not on the wire yet. *)
LEMMA QueueMessageSends ==
  ASSUME Discipline, WireInv, NEW t \in Threads, QueueMessage(t)
  PROVE  Channel!Send(data[t]) /\ data[t] \in Messages
<1>1. /\ queued' = Append(queued, data[t]) /\ pc[t] = "queue" /\ wire' = wire
  BY DEF QueueMessage
<1>2. data[t] \in Messages
  BY <1>1 DEF Discipline, MutexHeld, MessageInHand, Threads
<1>3. PICK l \in Nat : l = Len(queued)
  BY WireTyped
<1>4. DOMAIN queued = 1 .. l /\ DOMAIN queued' = 1 .. l + 1
  BY <1>1, <1>2, <1>3, WireTyped
<1>5. ~ (Upto(l + 1) <= Len(wire))
  <2>1. /\ Upto(Taken) \in Nat /\ Upto(l) \in Nat /\ Upto(Taken) <= Upto(l)
    BY <1>3, WireTyped, UptoMonotone
  <2>2. Upto(l + 1) = Upto(l) + Parts /\ Parts \in Nat \ {0}
    BY WireTyped, Times
  <2>3. Len(wire) <= Upto(Taken) /\ Len(wire) \in Nat
    BY WireTyped DEF WireInv, Progress
  <2> QED BY <2>1, <2>2, <2>3
<1>6. Landed' = Landed
  BY <1>1, <1>3, <1>4, <1>5 DEF Landed, Upto
<1>7. OnWire' = OnWire
  BY <1>1, <1>6 DEF OnWire
<1> QED BY <1>1, <1>2, <1>7 DEF Channel!Send

(* A sequence that is appended to leaves what was there. *)
LEMMA AppendedKeeps ==
  ASSUME NEW s \in Seq(Piece), NEW n \in Nat, NEW new \in Seq(Piece), Len(new) = n
  PROVE  /\ Len(s) <= Len(s \o new)
         /\ \A i \in 1 .. Len(s) : (s \o new)[i] = s[i]
  BY PieceConcat

LEMMA InitiateDelivers ==
  ASSUME Discipline, WireInv, Discipline', WireInv', NEW t \in Threads, Initiate(t)
  PROVE  Channel!Deliver \/ Channel!Garble \/ UNCHANGED Channel!vars
<1>1. PICK n \in 0 .. Parts : wire' = wire \o Pieces(data[t], 0, n)
  <2>1. 0 \in 0 .. Parts
    BY PartsPositive
  <2>2. PICK n \in IF link = "up" THEN 0 .. Parts ELSE {0} :
          wire' = wire \o Pieces(data[t], 0, n)
    BY DEF Initiate
  <2>3. n \in 0 .. Parts
    BY <2>1, <2>2
  <2> QED BY <2>2, <2>3
<1>2. pc[t] = "initiate" /\ UNCHANGED <<send_queue, queued>>
  BY DEF Initiate
<1>3. Taken >= 1 /\ Len(wire) = Upto(Taken - 1) /\ Taken' = Taken
  BY <1>2 DEF WireInv, Progress, Taken
<1>4. data[t] \in Messages
  BY <1>2 DEF Discipline, MessageInHand
<1>5. Len(wire) <= Len(wire') /\ \A i \in 1 .. Len(wire) : wire'[i] = wire[i]
  <2>1. 0 \in 0 .. Parts /\ n \in 0 .. Parts - 0 /\ 0 + n = n
    BY PartsPositive
  <2>2. Pieces(data[t], 0, n) \in Seq(Piece) /\ Len(Pieces(data[t], 0, n)) = n
    BY <1>4, <2>1, PiecesAre
  <2> QED BY <1>1, <2>2, WireTyped, AppendedKeeps
<1>6. Upto(Taken - 1) <= Len(wire) /\ Len(wire) < Upto(Taken)
  <2>1. /\ Taken - 1 \in Nat /\ (Taken - 1) + 1 = Taken
    BY <1>3, WireTyped
  <2>2. Upto(Taken - 1) \in Nat /\ Upto(Taken) = Upto(Taken - 1) + Parts
    BY <2>1, Times
  <2> QED BY <1>3, <2>2, PartsPositive
<1>7. Len(wire') <= Upto(Taken)
  BY <1>3 DEF WireInv, Progress, Upto
<1> QED BY <1>2, <1>3, <1>5, <1>6, <1>7, WireGrows

LEMMA WriteMoreDelivers ==
  ASSUME Discipline, WireInv, Discipline', WireInv', NEW op \in ops, WriteMore(op)
  PROVE  Channel!Deliver \/ Channel!Garble \/ UNCHANGED Channel!vars
<1>1. PICK n \in 1 .. Parts - op.written :
        \/ wire' = wire \o Pieces(op.message, op.written, op.written + n)
        \/ wire' = wire \o [i \in 1 .. n |-> Garbage]
  BY DEF WriteMore
<1>2. UNCHANGED <<send_queue, queued>>
  BY DEF WriteMore
<1>3. op.message \in Messages /\ op.written \in 0 .. Parts
  BY DEF Discipline, TypeOK
<1>4. Taken >= 1 /\ Len(wire) = Upto(Taken - 1) + op.written /\ Taken' = Taken
  BY <1>2 DEF WireInv, Progress, Taken
<1>5. n \in 0 .. Parts - op.written /\ n \in Nat /\ n # 0 /\ op.written < Parts
  BY <1>3, PartsPositive
<1>6. Len(wire) <= Len(wire') /\ \A i \in 1 .. Len(wire) : wire'[i] = wire[i]
  <2>1. PICK new \in Seq(Piece) : wire' = wire \o new /\ Len(new) = n
    <3>1. /\ Pieces(op.message, op.written, op.written + n) \in Seq(Piece)
          /\ Len(Pieces(op.message, op.written, op.written + n)) = n
      BY <1>3, <1>5, PiecesAre
    <3>2. [i \in 1 .. n |-> Garbage] \in Seq(Piece) /\ Len([i \in 1 .. n |-> Garbage]) = n
      BY <1>5, RepeatTyped DEF Piece
    <3> QED BY <1>1, <3>1, <3>2
  <2> QED BY <1>5, <2>1, WireTyped, AppendedKeeps
<1>7. Upto(Taken - 1) <= Len(wire) /\ Len(wire) < Upto(Taken)
  <2>1. /\ Taken - 1 \in Nat /\ (Taken - 1) + 1 = Taken
    BY <1>4, WireTyped
  <2>2. Upto(Taken - 1) \in Nat /\ Upto(Taken) = Upto(Taken - 1) + Parts
    BY <2>1, Times
  <2> QED BY <1>3, <1>4, <1>5, <2>2, PartsPositive
<1>8. Len(wire') <= Upto(Taken)
  BY <1>4 DEF WireInv, Progress, Upto
<1> QED BY <1>2, <1>4, <1>6, <1>7, <1>8, WireGrows

LEMMA ChannelNext ==
  Discipline /\ WireInv /\ Discipline' /\ WireInv' /\ [Next]_vars
    => [Channel!Next]_(Channel!vars)
<1> SUFFICES ASSUME Discipline, WireInv, Discipline', WireInv', [Next]_vars
             PROVE  Channel!Next \/ UNCHANGED Channel!vars
  OBVIOUS
<1>1. ASSUME UNCHANGED <<queued, wire>>
      PROVE  UNCHANGED Channel!vars
  BY <1>1 DEF Channel!vars, OnWire, Landed
<1>2. CASE \E t \in Senders, m \in Messages : Enqueue(t, m)
  BY <1>1, <1>2 DEF Enqueue
<1>3. ASSUME NEW t \in Threads, Step(t)
      PROVE  Channel!Next \/ UNCHANGED Channel!vars
  <2>1. CASE QueueMessage(t)
    BY <2>1, QueueMessageSends DEF Channel!Next
  <2>2. CASE Initiate(t)
    BY <2>2, InitiateDelivers DEF Channel!Next
  <2>3. CASE Lock(t) \/ Relock(t) \/ TakeNone(t) \/ TakeMessage(t) \/ Return(t)
    BY <1>1, <2>3 DEF Lock, Relock, TakeNone, TakeMessage, Return
  <2> QED BY <1>3, <2>1, <2>2, <2>3 DEF Step
<1>4. ASSUME NEW op \in ops, WriteMore(op) \/ Completed(op) \/ Failed(op)
      PROVE  Channel!Next \/ UNCHANGED Channel!vars
  <2>1. CASE WriteMore(op)
    BY <2>1, WriteMoreDelivers DEF Channel!Next
  <2>2. CASE Completed(op) \/ Failed(op)
    BY <1>1, <2>2 DEF Completed, Failed
  <2> QED BY <1>4, <2>1, <2>2
<1>5. CASE LinkDown \/ UNCHANGED vars
  BY <1>1, <1>5 DEF LinkDown, vars
<1> QED BY <1>2, <1>3, <1>4, <1>5 DEF Next, WriteStep

(* The writing side refines MessageChannel: the frames that are complete on *)
(* the wire are the queued messages, whole, once each and in order, until    *)
(* the first piece of garbage, and whatever enqueueOutgoingMessage,         *)
(* doAsyncWrite or the kernel does next leaves those frames as they are.    *)
THEOREM WriterImplementsChannel == Spec => KeepsPromise
<1>1. Discipline /\ WireInv /\ [Next]_vars => Discipline' /\ WireInv'
  BY DisciplineNext, WireNext
<1>2. Spec => Channel!Init /\ [][Channel!Next]_(Channel!vars)
  BY <1>1, DisciplineInit, WireInit, ChannelInit, ChannelNext, PTL DEF Spec
<1> QED BY <1>2 DEF KeepsPromise, Channel!Spec
=============================================================================
