-------------------------- MODULE MetadataNodeProofs --------------------------
(***************************************************************************)
(* Proofs about MetadataNode, for any number of peers, messages and sockets *)
(* and any set of message bodies: type correctness and the safety           *)
(* invariants that node_runs checks.                                        *)
(*                                                                         *)
(* None of them is inductive.  What is: where the threads can be with       *)
(* regard to main (Schedule, Unstarted), which part of arrived is where      *)
(* (Ledger), what the consumer may still handle after the flag is unset      *)
(* (Budget), and that every message that is not empty names a connection in  *)
(* the map (Known).                                                        *)
(***************************************************************************)
EXTENDS MetadataNode, SequenceTheorems, TLAPS

Starting == {"listen", "arm", "run", "spawn_consumer", "spawn_task", "spawn_io"}
Unset == {"push_empty", "join_consumer", "join_task", "join_io", "destroy", "exited"}

(* main starts the io thread last, with an accept under way, and the flag   *)
(* is set from the start of the consumer to the stop.                       *)
Schedule ==
  /\ io = "unstarted" <=> main \in Starting
  /\ main \in {"run", "spawn_consumer", "spawn_task", "spawn_io"} => accept # "none"
  /\ main \in {"spawn_consumer", "spawn_task", "spawn_io", "input",
               "close_acceptor", "stop_io", "unset_running"} => running
  /\ main \in Unset => ~ running

(* The consumer is started once. *)
Unstarted == main \in {"listen", "arm", "run", "spawn_consumer"} => consumer = "unstarted"

Popped == consumer \in {"test", "parse", "lookup"}

(* Each thread is started once and joined once, after the io_context was    *)
(* stopped and before anything is destroyed.                               *)
Joined ==
  /\ main \notin {"listen", "arm", "run", "spawn_consumer"} => consumer # "unstarted"
  /\ main \notin Starting \ {"spawn_io"} => taskConsumer # "unstarted"
  /\ main \in Unset \cup {"unset_running"} => io_stopped
  /\ main \in {"join_task", "join_io", "destroy", "exited"} => consumer = "done"
  /\ main \in {"join_io", "destroy", "exited"} => taskConsumer = "done"
  /\ main \in {"destroy", "exited"} => io = "done"

(* From the moment stop() has pushed its message a consumer that waits has  *)
(* one to pop: it cannot go back to waiting, for the flag is unset.          *)
Wakes == main = "join_consumer" /\ consumer = "wait" => queue # <<>>

(* The message in hand lies between those handled and those queued. *)
Ledger ==
  /\ Popped => arrived = handled \o (<<msg>> \o queue)
  /\ consumer \in {"unstarted", "while", "wait"} => arrived = handled \o queue
  /\ consumer = "done" => \/ arrived = handled \o (<<msg>> \o queue)
                          \/ arrived = handled \o queue
  /\ Len(taskQueue) = Len(handled)

Budget ==
  main \in Unset => Len(handled) + (IF consumer \in {"parse", "lookup"} THEN 1 ELSE 0) <= atStop

KnownMessage(m) == m.body = Empty \/ m.conn \in connection_Map

Known ==
  /\ KnownMessage(msg)
  /\ \A i \in DOMAIN queue : KnownMessage(queue[i])
  /\ consumer \in {"parse", "lookup"} => msg.body # Empty
  /\ \A i \in DOMAIN handled : handled[i].body # Empty

-----------------------------------------------------------------------------
USE BoundsInNat

(* A message of the stop or of a peer is a message. *)
LEMMA NoMessageTyped == NoMessage \in Message
  BY DEF NoMessage, Message

LEMMA CreateTaskTyped ==
  ASSUME NEW type, NEW conn \in Nat
  PROVE  CreateTask(type, conn) \in EchoTask \cup {NoTask}
  BY DEF CreateTask, EchoTask

(* Taking the head of a sequence of messages. *)
LEMMA HeadTail ==
  ASSUME NEW S, NEW s \in Seq(S), s # <<>>
  PROVE  /\ Head(s) \in S /\ Tail(s) \in Seq(S)
         /\ s = <<Head(s)>> \o Tail(s)
         /\ Head(s) = s[1]
         /\ \A i \in DOMAIN Tail(s) : i + 1 \in DOMAIN s /\ Tail(s)[i] = s[i + 1]
<1>1. /\ Head(s) \in S
      /\ Tail(s) \in Seq(S)
      /\ Len(Tail(s)) = Len(s) - 1
      /\ \A i \in 1 .. Len(Tail(s)) : Tail(s)[i] = s[i + 1]
      /\ Head(s) = s[1]
      /\ Len(s) > 0
  BY HeadTailProperties, EmptySeq
<1>2. <<Head(s)>> \o Tail(s) \in Seq(S) /\ Len(<<Head(s)>> \o Tail(s)) = Len(s)
  BY <1>1
<1>3. \A i \in 1 .. Len(s) : (<<Head(s)>> \o Tail(s))[i] = s[i]
  BY <1>1
<1>4. s = <<Head(s)>> \o Tail(s)
  BY <1>2, <1>3, SeqEqual
<1> QED BY <1>1, <1>4

-----------------------------------------------------------------------------
(***************************** type correctness ****************************)
LEMMA TypeInit == Init => TypeOK
<1>1. /\ <<>> \in Seq(Message) /\ <<>> \in Seq(EchoTask \cup {NoTask})
      /\ 0 \in 0 .. 0 /\ 0 \in 0 .. MaxRequests
  OBVIOUS
<1> SUFFICES ASSUME Init PROVE TypeOK
  OBVIOUS
<1>2. /\ queue \in Seq(Message) /\ msg \in Message
      /\ taskQueue \in Seq(EchoTask \cup {NoTask})
      /\ arrived \in Seq(Message) /\ handled \in Seq(Message)
  BY <1>1, NoMessageTyped DEF Init
<1>3. /\ backlog \in 0 .. requests /\ requests \in 0 .. MaxRequests
      /\ connection_Map \subseteq 1 .. next_conn_id - 1
      /\ next_conn_id \in Nat \ {0} /\ reading \subseteq connection_Map /\ atStop \in Nat
  BY <1>1 DEF Init
<1> QED BY <1>2, <1>3 DEF Init, TypeOK

LEMMA TypeMain == ASSUME TypeOK, MainStep \/ Quit PROVE TypeOK'
  <1> USE DEF TypeOK, MainGoes, UnchangedThreads, flagVars, connVars, messageVars
  <1>1. CASE StartListenServer
    BY <1>1 DEF StartListenServer
  <1>2. CASE ArmAccept
    BY <1>2 DEF ArmAccept
  <1>3. CASE SetRunning
    BY <1>3 DEF SetRunning
  <1>4. CASE SpawnThread
    <2>1. /\ main' \in {"spawn_task", "spawn_io", "input"}
          /\ io' \in {io, "run"} /\ consumer' \in {consumer, "while"}
          /\ taskConsumer' \in {taskConsumer, "while"}
          /\ UNCHANGED <<crashed, connVars, requests, backlog, flagVars, acceptor, accept,
                         messageVars>>
      BY <1>4 DEF SpawnThread
    <2> QED BY <2>1
  <1>5. CASE CloseAcceptor
    BY <1>5 DEF CloseAcceptor
  <1>6. CASE StopIoContext
    BY <1>6 DEF StopIoContext
  <1>7. CASE UnsetRunning
    <2>1. atStop' \in Nat
      BY <1>7, LenProperties DEF UnsetRunning
    <2>2. main' = "push_empty" /\ running' \in BOOLEAN /\ io_stopped' \in BOOLEAN
      BY <1>7 DEF UnsetRunning
    <2>3. UNCHANGED <<crashed, connection_Map, next_conn_id, reading, requests, backlog, io,
                      consumer, taskConsumer, acceptor, accept, queue, msg, taskQueue, arrived,
                      handled>>
      BY <1>7 DEF UnsetRunning
    <2> QED BY <2>1, <2>2, <2>3
  <1>8. CASE PushEmpty
    <2>1. queue' \in Seq(Message) /\ arrived' \in Seq(Message)
      BY <1>8, NoMessageTyped DEF PushEmpty, Push
    <2> QED BY <1>8, <2>1 DEF PushEmpty, Push
  <1>9. CASE Join
    <2>1. /\ main' \in {"join_task", "join_io", "destroy"}
          /\ UNCHANGED <<crashed, connVars, requests, backlog, io, consumer, taskConsumer,
                         flagVars, acceptor, accept, messageVars>>
      BY <1>9 DEF Join
    <2> QED BY <2>1
  <1>10. CASE Destroy
    BY <1>10 DEF Destroy
  <1>11. CASE Quit
    BY <1>11 DEF Quit
  <1> QED
    BY <1>1, <1>2, <1>3, <1>4, <1>5, <1>6, <1>7, <1>8, <1>9, <1>10, <1>11 DEF MainStep

LEMMA TypeIo ==
  ASSUME TypeOK, IoStep
  PROVE  TypeOK'
  <1> USE DEF TypeOK, IoGoes, flagVars, acceptVars, connVars, messageVars
  <1>1. CASE AcceptReady
    BY <1>1 DEF AcceptReady
  <1>2. CASE AcceptHandler
    BY <1>2 DEF AcceptHandler
  <1>3. CASE EmplaceConnection
    BY <1>3 DEF EmplaceConnection
  <1>4. CASE AcceptConnection
    BY <1>4 DEF AcceptConnection
  <1>5. CASE RunReturns
    BY <1>5 DEF RunReturns
  <1> QED
    BY <1>1, <1>2, <1>3, <1>4, <1>5 DEF IoStep

LEMMA TypeRead ==
  ASSUME TypeOK, NEW c \in reading,
         (\E body \in Bodies : MessageRead(c, body)) \/ ReadFails(c)
  PROVE  TypeOK'
  <1> USE DEF TypeOK, IoGoes, flagVars, acceptVars, connVars, messageVars
  <1>1. ASSUME NEW body \in Bodies, MessageRead(c, body)
        PROVE  TypeOK'
    <2>1. [conn |-> c, body |-> body] \in Message
      BY DEF Message
    <2>2. queue' \in Seq(Message) /\ arrived' \in Seq(Message)
      BY <1>1, <2>1 DEF MessageRead, Push
    <2> QED BY <1>1, <2>2 DEF MessageRead, Push
  <1>2. CASE ReadFails(c)
    BY <1>2 DEF ReadFails
  <1> QED BY <1>1, <1>2

LEMMA TypeConsumer ==
  ASSUME TypeOK, ConsumerStep
  PROVE  TypeOK'
  <1> USE DEF TypeOK, ConsumerGoes, flagVars, acceptVars, connVars, messageVars
  <1>1. CASE WhileRunning
    BY <1>1 DEF WhileRunning
  <1>2. CASE WaitAndPop
    <2>1. Head(queue) \in Message /\ Tail(queue) \in Seq(Message)
      BY <1>2, HeadTail DEF WaitAndPop
    <2> QED BY <1>2, <2>1 DEF WaitAndPop
  <1>3. CASE TestMessage
    BY <1>3 DEF TestMessage
  <1>4. CASE Deserialize
    BY <1>4 DEF Deserialize
  <1>5. CASE QueueTask
    <2>1. CreateTask(CommandType(msg.body), msg.conn) \in EchoTask \cup {NoTask}
      BY CreateTaskTyped DEF Message
    <2>2. taskQueue' \in Seq(EchoTask \cup {NoTask}) /\ handled' \in Seq(Message)
      BY <1>5, <2>1 DEF QueueTask
    <2> QED BY <1>5, <2>2 DEF QueueTask
  <1> QED
    BY <1>1, <1>2, <1>3, <1>4, <1>5 DEF ConsumerStep

LEMMA TypeOther ==
  ASSUME TypeOK, TaskConsumerReturns \/ Request \/ CrashStep \/ UNCHANGED vars
  PROVE  TypeOK'
  <1> USE DEF TypeOK, flagVars, acceptVars, connVars, messageVars, pcVars
  <1>1. CASE TaskConsumerReturns
    BY <1>1 DEF TaskConsumerReturns
  <1>2. CASE Request
    BY <1>2 DEF Request
  <1>3. CASE CrashStep
    <2>1. /\ crashed' \in {"no", "listen", "parse", "map", "acceptor", "destroy"}
          /\ UNCHANGED <<pcVars, flagVars, acceptVars, connVars, messageVars>>
      BY <1>3 DEF CrashStep, ListenFails, DeserializeThrows, RaceCrashes, DestroyCrashes, Crash
    <2> QED BY <2>1
  <1>4. CASE UNCHANGED vars
    BY <1>4 DEF vars
  <1> QED BY <1>1, <1>2, <1>3, <1>4

LEMMA TypeNext == TypeOK /\ [Next]_vars => TypeOK'
  BY TypeMain, TypeIo, TypeRead, TypeConsumer, TypeOther DEF Next, Environment

(* Every variable of the node keeps its type. *)
THEOREM TypeCorrect == Spec => []TypeOK
  BY TypeInit, TypeNext, PTL DEF Spec

-----------------------------------------------------------------------------
(************************ the places of the threads ************************)
LEMMA FlowInit == Init => Schedule /\ AcceptOutstanding
  BY DEF Init, Schedule, AcceptOutstanding, Starting, Unset

LEMMA FlowMain ==
  ASSUME TypeOK, Schedule, AcceptOutstanding, MainStep \/ Quit
  PROVE  Schedule' /\ AcceptOutstanding'
  <1> USE DEF TypeOK, Schedule, AcceptOutstanding, Starting, Unset, MainGoes, UnchangedThreads, flagVars
  <1>1. CASE StartListenServer
    BY <1>1 DEF StartListenServer
  <1>2. CASE ArmAccept
    BY <1>2 DEF ArmAccept
  <1>3. CASE SetRunning
    BY <1>3 DEF SetRunning
  <1>4. CASE SpawnThread
    BY <1>4 DEF SpawnThread
  <1>5. CASE CloseAcceptor
    BY <1>5 DEF CloseAcceptor
  <1>6. CASE StopIoContext
    BY <1>6 DEF StopIoContext
  <1>7. CASE UnsetRunning
    BY <1>7 DEF UnsetRunning
  <1>8. CASE PushEmpty
    BY <1>8 DEF PushEmpty
  <1>9. CASE Join
    BY <1>9 DEF Join
  <1>10. CASE Destroy
    BY <1>10 DEF Destroy
  <1>11. CASE Quit
    BY <1>11 DEF Quit
  <1> QED
    BY <1>1, <1>2, <1>3, <1>4, <1>5, <1>6, <1>7, <1>8, <1>9, <1>10, <1>11 DEF MainStep

LEMMA FlowIo ==
  ASSUME TypeOK, Schedule, AcceptOutstanding, IoStep
  PROVE  Schedule' /\ AcceptOutstanding'
  <1> USE DEF TypeOK, Schedule, AcceptOutstanding, Starting, Unset, IoGoes, flagVars, acceptVars
  <1>1. CASE AcceptReady
    BY <1>1 DEF AcceptReady
  <1>2. CASE AcceptHandler
    BY <1>2 DEF AcceptHandler
  <1>3. CASE EmplaceConnection
    BY <1>3 DEF EmplaceConnection
  <1>4. CASE AcceptConnection
    BY <1>4 DEF AcceptConnection
  <1>5. CASE RunReturns
    BY <1>5 DEF RunReturns
  <1> QED
    BY <1>1, <1>2, <1>3, <1>4, <1>5 DEF IoStep

LEMMA FlowRest ==
  ASSUME TypeOK, Schedule, AcceptOutstanding,
         \/ ConsumerStep \/ TaskConsumerReturns \/ Request \/ CrashStep \/ UNCHANGED vars
         \/ \E c \in reading : (\E body \in Bodies : MessageRead(c, body)) \/ ReadFails(c)
  PROVE  Schedule' /\ AcceptOutstanding'
<1>1. UNCHANGED <<main, io, running, accept>>
  <2> USE DEF flagVars, acceptVars, pcVars
  <2>1. CASE ConsumerStep
    BY <2>1 DEF ConsumerStep, ConsumerGoes, WhileRunning, WaitAndPop, TestMessage, Deserialize,
                QueueTask
  <2>2. CASE TaskConsumerReturns \/ Request \/ UNCHANGED vars
    BY <2>2 DEF TaskConsumerReturns, Request, vars
  <2>3. CASE CrashStep
    BY <2>3 DEF CrashStep, ListenFails, DeserializeThrows, RaceCrashes, DestroyCrashes, Crash
  <2>4. CASE \E c \in reading : (\E body \in Bodies : MessageRead(c, body)) \/ ReadFails(c)
    BY <2>4 DEF MessageRead, ReadFails, IoGoes
  <2> QED BY <2>1, <2>2, <2>3, <2>4
<1> QED BY <1>1 DEF Schedule, AcceptOutstanding

LEMMA FlowNext ==
  TypeOK /\ Schedule /\ AcceptOutstanding /\ [Next]_vars => (Schedule /\ AcceptOutstanding)'
  BY FlowMain, FlowIo, FlowRest DEF Next, Environment

(* From the first look of the io thread to its end, one accept is           *)
(* outstanding or its handler is about to start the next: acceptConnection   *)
(* calls itself after an error as after a success.                          *)
THEOREM AcceptOutstandingHolds == Spec => []AcceptOutstanding
<1> QED BY TypeCorrect, FlowInit, FlowNext, PTL DEF Spec

-----------------------------------------------------------------------------
(*********************** which message is where ****************************)
(* Appending to the last of two joined sequences appends to the whole, and  *)
(* an element may be moved from one to the other.                           *)
LEMMA AppendToLast ==
  ASSUME NEW S, NEW s \in Seq(S), NEW t \in Seq(S), NEW e \in S
  PROVE  Append(s \o t, e) = s \o Append(t, e)
<1>1. Append(s \o t, e) \in Seq(S) /\ s \o Append(t, e) \in Seq(S)
  OBVIOUS
<1>2. Len(Append(s \o t, e)) = Len(s \o Append(t, e))
  OBVIOUS
<1>3. \A i \in 1 .. Len(Append(s \o t, e)) : Append(s \o t, e)[i] = (s \o Append(t, e))[i]
  OBVIOUS
<1> QED BY <1>1, <1>2, <1>3, SeqEqual

LEMMA MoveAcross ==
  ASSUME NEW S, NEW s \in Seq(S), NEW t \in Seq(S), NEW e \in S
  PROVE  s \o (<<e>> \o t) = Append(s, e) \o t
<1>1. s \o (<<e>> \o t) \in Seq(S) /\ Append(s, e) \o t \in Seq(S)
  OBVIOUS
<1>2. Len(s \o (<<e>> \o t)) = Len(Append(s, e) \o t)
  OBVIOUS
<1>3. \A i \in 1 .. Len(s \o (<<e>> \o t)) : (s \o (<<e>> \o t))[i] = (Append(s, e) \o t)[i]
  OBVIOUS
<1> QED BY <1>1, <1>2, <1>3, SeqEqual

LEMMA LedgerInit == Init => Ledger
  BY DEF Init, Ledger, Popped

LEMMA LedgerPush ==
  ASSUME TypeOK, Ledger, NEW m \in Message, Push(m), UNCHANGED consumer
  PROVE  Ledger'
<1>1. /\ arrived' = Append(arrived, m) /\ queue' = Append(queue, m)
      /\ UNCHANGED <<msg, taskQueue, handled>>
  BY DEF Push
<1>2. handled \in Seq(Message) /\ queue \in Seq(Message) /\ <<msg>> \in Seq(Message)
  BY DEF TypeOK
<1>3. <<msg>> \o queue \in Seq(Message)
  BY <1>2
<1>4. /\ handled \o queue' = Append(handled \o queue, m)
      /\ handled \o (<<msg>> \o queue') = Append(handled \o (<<msg>> \o queue), m)
  <2>1. <<msg>> \o queue' = Append(<<msg>> \o queue, m)
    BY <1>1, <1>2, AppendToLast
  <2>2. handled \o Append(<<msg>> \o queue, m) = Append(handled \o (<<msg>> \o queue), m)
    BY <1>2, <1>3, AppendToLast
  <2>3. handled \o queue' = Append(handled \o queue, m)
    BY <1>1, <1>2, AppendToLast
  <2> QED BY <2>1, <2>2, <2>3
<1> QED BY <1>1, <1>4 DEF Ledger, Popped

LEMMA LedgerConsumer ==
  ASSUME TypeOK, Ledger, ConsumerStep
  PROVE  Ledger'
<1>1. CASE WhileRunning
  BY <1>1 DEF WhileRunning, ConsumerGoes, messageVars, Ledger, Popped
<1>2. CASE WaitAndPop
  <2>1. /\ queue = <<msg'>> \o queue' /\ arrived = handled \o queue
        /\ consumer' = "test" /\ UNCHANGED <<arrived, handled, taskQueue>>
    BY <1>2, HeadTail DEF WaitAndPop, ConsumerGoes, TypeOK, Ledger
  <2> QED BY <2>1 DEF Ledger, Popped
<1>3. CASE TestMessage \/ Deserialize
  <2>1. /\ UNCHANGED <<queue, msg, taskQueue, arrived, handled>>
        /\ Popped /\ consumer' \in {"done", "parse", "lookup"}
    BY <1>3 DEF TestMessage, Deserialize, ConsumerGoes, messageVars, Popped
  <2> QED BY <2>1 DEF Ledger, Popped
<1>4. CASE QueueTask
  <2>1. /\ arrived = handled \o (<<msg>> \o queue) /\ handled' = Append(handled, msg)
        /\ taskQueue' = Append(taskQueue, CreateTask(CommandType(msg.body), msg.conn))
        /\ consumer' = "while" /\ UNCHANGED <<arrived, queue, msg>>
    BY <1>4 DEF QueueTask, ConsumerGoes, Ledger, Popped
  <2>2. arrived = handled' \o queue
    <3>1. handled \in Seq(Message) /\ queue \in Seq(Message) /\ msg \in Message
      BY DEF TypeOK
    <3> QED BY <2>1, <3>1, MoveAcross, ZenonT(30)
  <2>3. Len(taskQueue') = Len(handled')
    <3>1. CreateTask(CommandType(msg.body), msg.conn) \in EchoTask \cup {NoTask}
      BY CreateTaskTyped DEF TypeOK, Message
    <3>2. Len(taskQueue') = Len(taskQueue) + 1 /\ Len(handled') = Len(handled) + 1
      BY <2>1, <3>1 DEF TypeOK
    <3> QED BY <3>2 DEF Ledger
  <2> QED BY <2>1, <2>2, <2>3 DEF Ledger, Popped
<1> QED BY <1>1, <1>2, <1>3, <1>4 DEF ConsumerStep

(* The steps that leave every message where it is. *)
Elsewhere ==
  \/ StartListenServer \/ ArmAccept \/ SetRunning \/ SpawnThread \/ Quit
  \/ CloseAcceptor \/ StopIoContext \/ UnsetRunning \/ Join \/ Destroy
  \/ IoStep \/ TaskConsumerReturns \/ Request \/ CrashStep \/ UNCHANGED vars
  \/ \E c \in reading : ReadFails(c)

LEMMA ElsewhereKeeps ==
  ASSUME Elsewhere
  PROVE  /\ UNCHANGED messageVars
         /\ consumer' = consumer \/ (consumer' = "while" /\ main = "spawn_consumer")
<1> USE DEF flagVars, acceptVars, connVars, pcVars
<1>1. CASE StartListenServer \/ ArmAccept \/ SetRunning \/ Quit
  <2>1. UNCHANGED messageVars /\ UnchangedThreads
    BY <1>1 DEF StartListenServer, ArmAccept, SetRunning, Quit
  <2> QED BY <2>1 DEF UnchangedThreads
<1>7. CASE SpawnThread
  BY <1>7 DEF SpawnThread, MainGoes
<1>2. CASE CloseAcceptor \/ StopIoContext \/ UnsetRunning \/ Join \/ Destroy
  BY <1>2 DEF CloseAcceptor, StopIoContext, UnsetRunning, Join, Destroy, MainGoes,
              UnchangedThreads
<1>3. CASE IoStep
  BY <1>3 DEF IoStep, AcceptReady, AcceptHandler, EmplaceConnection, AcceptConnection,
              RunReturns, IoGoes
<1>4. CASE TaskConsumerReturns \/ Request \/ UNCHANGED vars
  BY <1>4 DEF TaskConsumerReturns, Request, vars
<1>5. CASE CrashStep
  BY <1>5 DEF CrashStep, ListenFails, DeserializeThrows, RaceCrashes, DestroyCrashes, Crash
<1>6. CASE \E c \in reading : ReadFails(c)
  BY <1>6 DEF ReadFails, IoGoes
<1> QED BY <1>1, <1>2, <1>3, <1>4, <1>5, <1>6, <1>7 DEF Elsewhere

LEMMA NextSplit ==
  [Next]_vars <=>
    \/ Elsewhere
    \/ PushEmpty
    \/ ConsumerStep
    \/ \E c \in reading, body \in Bodies : MessageRead(c, body)
  BY DEF Next, MainStep, Environment, Elsewhere

LEMMA UnstartedInit == Init => Unstarted
  BY DEF Init, Unstarted

LEMMA UnstartedNext == TypeOK /\ Unstarted /\ [Next]_vars => Unstarted'
<1> SUFFICES ASSUME TypeOK, Unstarted, [Next]_vars PROVE Unstarted'
  OBVIOUS
<1> USE DEF Unstarted, TypeOK, pcVars
<1>1. CASE MainStep \/ Quit
  BY <1>1 DEF MainStep, StartListenServer, ArmAccept, SetRunning, SpawnThread, CloseAcceptor,
              StopIoContext, UnsetRunning, PushEmpty, Join, Destroy, Quit, MainGoes,
              UnchangedThreads
<1>2. CASE IoStep
  BY <1>2 DEF IoStep, AcceptReady, AcceptHandler, EmplaceConnection, AcceptConnection,
              RunReturns, IoGoes
<1>3. CASE ConsumerStep
  BY <1>3 DEF ConsumerStep, WhileRunning, WaitAndPop, TestMessage, Deserialize, QueueTask,
              ConsumerGoes
<1>4. CASE TaskConsumerReturns \/ Request \/ UNCHANGED vars
  BY <1>4 DEF TaskConsumerReturns, Request, vars
<1>5. CASE CrashStep
  BY <1>5 DEF CrashStep, ListenFails, DeserializeThrows, RaceCrashes, DestroyCrashes, Crash
<1>6. CASE \E c \in reading : (\E body \in Bodies : MessageRead(c, body)) \/ ReadFails(c)
  BY <1>6 DEF MessageRead, ReadFails, IoGoes
<1> QED BY <1>1, <1>2, <1>3, <1>4, <1>5, <1>6 DEF Next, Environment

LEMMA PushTyped ==
  ASSUME TypeOK,
         PushEmpty \/ \E c \in reading, body \in Bodies : MessageRead(c, body)
  PROVE  \E m \in Message :
           /\ Push(m) /\ UNCHANGED <<consumer, connection_Map>>
           /\ m.body = Empty \/ m.conn \in connection_Map
<1>1. CASE PushEmpty
  BY <1>1, NoMessageTyped DEF PushEmpty, UnchangedThreads, MainGoes, connVars, NoMessage
<1>2. ASSUME NEW c \in reading, NEW body \in Bodies, MessageRead(c, body)
      PROVE  \E m \in Message : /\ Push(m) /\ UNCHANGED <<consumer, connection_Map>>
                                /\ m.body = Empty \/ m.conn \in connection_Map
  <2> DEFINE m == [conn |-> c, body |-> body]
  <2>1. m \in Message /\ m.conn \in connection_Map
    BY DEF TypeOK, Message
  <2>2. Push(m) /\ UNCHANGED <<consumer, connection_Map>>
    BY <1>2 DEF MessageRead, IoGoes, connVars
  <2> HIDE DEF m
  <2> QED BY <2>1, <2>2
<1> QED BY <1>1, <1>2

LEMMA LedgerNext == TypeOK /\ Unstarted /\ Ledger /\ [Next]_vars => Ledger'
<1> SUFFICES ASSUME TypeOK, Unstarted, Ledger, [Next]_vars PROVE Ledger'
  OBVIOUS
<1>1. CASE Elsewhere
  <2>1. /\ UNCHANGED <<queue, msg, taskQueue, arrived, handled>>
        /\ consumer' = consumer \/ (consumer' = "while" /\ consumer = "unstarted")
    BY <1>1, ElsewhereKeeps DEF Unstarted, messageVars
  <2>2. CASE consumer' = consumer
    BY <2>1, <2>2 DEF Ledger, Popped
  <2>3. CASE consumer' = "while" /\ consumer = "unstarted"
    BY <2>1, <2>3 DEF Ledger, Popped
  <2> QED BY <2>1, <2>2, <2>3
<1>2. CASE PushEmpty \/ \E c \in reading, body \in Bodies : MessageRead(c, body)
  BY <1>2, PushTyped, LedgerPush
<1> QED BY <1>1, <1>2, LedgerConsumer, NextSplit

(* The messages are handled in the order in which they arrived, each once.  *)
THEOREM HandledInOrderHolds == Spec => []HandledInOrder
<1>1. TypeOK /\ Ledger => HandledInOrder
  <2> SUFFICES ASSUME TypeOK, Ledger PROVE HandledInOrder
    OBVIOUS
  <2>1. handled \o <<>> = handled
    BY DEF TypeOK
  <2>2. (handled \o <<msg>>) \o queue = handled \o (<<msg>> \o queue)
    <3>1. /\ (handled \o <<msg>>) \o queue \in Seq(Message)
          /\ handled \o (<<msg>> \o queue) \in Seq(Message)
      BY DEF TypeOK
    <3>2. Len((handled \o <<msg>>) \o queue) = Len(handled \o (<<msg>> \o queue))
      BY DEF TypeOK
    <3>3. \A i \in 1 .. Len((handled \o <<msg>>) \o queue) :
            ((handled \o <<msg>>) \o queue)[i] = (handled \o (<<msg>> \o queue))[i]
      BY SMTT(30) DEF TypeOK
    <3> QED BY <3>1, <3>2, <3>3, SeqEqual
  <2>3. \/ arrived = (handled \o <<>>) \o queue
        \/ arrived = (handled \o <<msg>>) \o queue
    BY <2>1, <2>2 DEF Ledger, Popped, TypeOK
  <2> QED BY <2>3 DEF Ledger, HandledInOrder
<1> QED BY <1>1, TypeCorrect, UnstartedInit, UnstartedNext, LedgerInit, LedgerNext, PTL DEF Spec

-----------------------------------------------------------------------------
(**************************** the stop is prompt ***************************)
LEMMA FlagKeeps ==
  ASSUME Elsewhere \/ PushEmpty, ~ UnsetRunning
  PROVE  atStop' = atStop /\ (main' \in Unset => main \in Unset)
<1> USE DEF flagVars, pcVars, Unset
<1>1. CASE StartListenServer \/ ArmAccept \/ SetRunning \/ Quit \/ CloseAcceptor
  BY <1>1 DEF StartListenServer, ArmAccept, SetRunning, Quit, CloseAcceptor, MainGoes
<1>2. CASE SpawnThread \/ StopIoContext \/ PushEmpty
  BY <1>2 DEF SpawnThread, StopIoContext, PushEmpty, MainGoes
<1>3. CASE Join \/ Destroy
  BY <1>3 DEF Join, Destroy, MainGoes
<1>4. CASE IoStep
  BY <1>4 DEF IoStep, AcceptReady, AcceptHandler, EmplaceConnection, AcceptConnection,
              RunReturns, IoGoes
<1>5. CASE TaskConsumerReturns \/ Request \/ UNCHANGED vars
  BY <1>5 DEF TaskConsumerReturns, Request, vars
<1>6. CASE CrashStep
  BY <1>6 DEF CrashStep, ListenFails, DeserializeThrows, RaceCrashes, DestroyCrashes, Crash
<1>7. CASE \E c \in reading : ReadFails(c)
  BY <1>7 DEF ReadFails, IoGoes
<1> QED BY <1>1, <1>2, <1>3, <1>4, <1>5, <1>6, <1>7 DEF Elsewhere

LEMMA BudgetNext == TypeOK /\ Schedule /\ Unstarted /\ Budget /\ [Next]_vars => Budget'
<1> SUFFICES ASSUME TypeOK, Schedule, Unstarted, Budget, [Next]_vars, main' \in Unset
             PROVE  Len(handled') + (IF consumer' \in {"parse", "lookup"} THEN 1 ELSE 0)
                      <= atStop'
  BY DEF Budget
<1>0. Len(handled) \in Nat /\ atStop \in Nat
  BY DEF TypeOK
<1>1. CASE UnsetRunning
  <2>1. UNCHANGED <<handled, consumer>>
    BY <1>1 DEF UnsetRunning, UnchangedThreads, messageVars
  <2> QED BY <1>0, <1>1, <2>1 DEF UnsetRunning
<1>2. CASE Elsewhere /\ ~ UnsetRunning
  <2>1. /\ atStop' = atStop /\ main \in Unset /\ handled' = handled
        /\ consumer' = consumer \/ consumer' = "while"
    BY <1>2, FlagKeeps, ElsewhereKeeps DEF messageVars
  <2> QED BY <1>0, <2>1 DEF Budget
<1>3. CASE PushEmpty
  <2>1. ~ UnsetRunning /\ UNCHANGED <<handled, consumer>>
    BY <1>3 DEF PushEmpty, Push, UnchangedThreads, UnsetRunning, MainGoes
  <2>2. atStop' = atStop /\ main \in Unset
    BY <1>3, <2>1, FlagKeeps
  <2> QED BY <2>1, <2>2 DEF Budget
<1>4. CASE \E c \in reading, body \in Bodies : MessageRead(c, body)
  <2>1. UNCHANGED <<handled, consumer, atStop, main>>
    BY <1>4 DEF MessageRead, Push, IoGoes, flagVars
  <2> QED BY <2>1 DEF Budget
<1>5. CASE ConsumerStep
  <2>1. UNCHANGED <<main, atStop>>
    BY <1>5 DEF ConsumerStep, WhileRunning, WaitAndPop, TestMessage, Deserialize, QueueTask,
                ConsumerGoes, flagVars
  <2>2. ~ running
    BY <2>1 DEF Schedule
  <2>3. CASE WhileRunning \/ WaitAndPop \/ TestMessage
    <3>1. handled' = handled /\ consumer' \notin {"parse", "lookup"}
      BY <2>2, <2>3 DEF WhileRunning, WaitAndPop, TestMessage, ConsumerGoes, messageVars
    <3> QED BY <1>0, <2>1, <3>1 DEF Budget
  <2>4. CASE Deserialize
    <3>1. handled' = handled /\ consumer \in {"parse", "lookup"}
      BY <2>4 DEF Deserialize, ConsumerGoes, messageVars
    <3> QED BY <1>0, <2>1, <3>1 DEF Budget
  <2>5. CASE QueueTask
    <3>1. consumer = "lookup" /\ consumer' = "while" /\ handled' = Append(handled, msg)
      BY <2>5 DEF QueueTask, ConsumerGoes
    <3>2. Len(handled') = Len(handled) + 1
      BY <3>1 DEF TypeOK
    <3> QED BY <1>0, <2>1, <3>1, <3>2 DEF Budget
  <2> QED BY <1>5, <2>3, <2>4, <2>5 DEF ConsumerStep
<1> QED BY <1>1, <1>2, <1>3, <1>4, <1>5, NextSplit

(* After the flag is unset the consumer queues a task for the message it    *)
(* was parsing at most.                                                     *)
THEOREM StopsPromptlyHolds == Spec => []StopsPromptly
<1>1. Init => Budget
  BY DEF Init, Budget, Unset
<1>2. Schedule /\ Budget /\ TypeOK => StopsPromptly
  <2> SUFFICES ASSUME Schedule, Budget, TypeOK, Stopping, ~ running
               PROVE  Len(handled) <= atStop
    BY DEF StopsPromptly
  <2>1. main \in Unset
    BY DEF Schedule, Stopping, Unset
  <2>2. Len(handled) \in Nat /\ atStop \in Nat
    BY DEF TypeOK
  <2> QED BY <2>1, <2>2 DEF Budget
<1> QED
  BY <1>1, <1>2, TypeCorrect, FlowInit, FlowNext, UnstartedInit, UnstartedNext, BudgetNext, PTL
  DEF Spec

-----------------------------------------------------------------------------
(*************************** the joins return ******************************)
LEMMA JoinedMain ==
  ASSUME TypeOK, Joined, MainStep \/ Quit
  PROVE  Joined'
  <1> USE DEF TypeOK, Joined, Starting, Unset, MainGoes, UnchangedThreads, flagVars
  <1>1. CASE StartListenServer \/ ArmAccept \/ SetRunning
    BY <1>1 DEF StartListenServer, ArmAccept, SetRunning
  <1>2. CASE SpawnThread
    BY <1>2 DEF SpawnThread
  <1>3. CASE Quit \/ CloseAcceptor
    BY <1>3 DEF Quit, CloseAcceptor
  <1>4. CASE StopIoContext \/ UnsetRunning
    BY <1>4 DEF StopIoContext, UnsetRunning
  <1>5. CASE PushEmpty
    BY <1>5 DEF PushEmpty
  <1>6. CASE Join
    BY <1>6 DEF Join
  <1>7. CASE Destroy
    BY <1>7 DEF Destroy
  <1> QED BY <1>1, <1>2, <1>3, <1>4, <1>5, <1>6, <1>7 DEF MainStep

LEMMA JoinedRest ==
  ASSUME TypeOK, Schedule, Joined,
         \/ IoStep \/ ConsumerStep \/ TaskConsumerReturns \/ Request \/ CrashStep
         \/ UNCHANGED vars
         \/ \E c \in reading : (\E body \in Bodies : MessageRead(c, body)) \/ ReadFails(c)
  PROVE  Joined'
<1>1. /\ UNCHANGED <<main, io_stopped>>
      /\ io' = io \/ (io \notin {"unstarted", "done"} /\ io' # "unstarted")
      /\ consumer' = consumer \/ (consumer \notin {"unstarted", "done"} /\ consumer' # "unstarted")
      /\ taskConsumer' = taskConsumer \/ (taskConsumer = "while" /\ taskConsumer' = "done")
  <2> USE DEF flagVars, acceptVars, connVars, pcVars
  <2>1. CASE IoStep
    BY <2>1 DEF IoStep, AcceptReady, AcceptHandler, EmplaceConnection, AcceptConnection,
                RunReturns, IoGoes
  <2>2. CASE ConsumerStep
    BY <2>2 DEF ConsumerStep, WhileRunning, WaitAndPop, TestMessage, Deserialize, QueueTask,
                ConsumerGoes
  <2>3. CASE TaskConsumerReturns \/ Request \/ UNCHANGED vars
    BY <2>3 DEF TaskConsumerReturns, Request, vars
  <2>4. CASE CrashStep
    BY <2>4 DEF CrashStep, ListenFails, DeserializeThrows, RaceCrashes, DestroyCrashes, Crash
  <2>5. CASE \E c \in reading : (\E body \in Bodies : MessageRead(c, body)) \/ ReadFails(c)
    BY <2>5 DEF MessageRead, ReadFails, IoGoes
  <2> QED BY <2>1, <2>2, <2>3, <2>4, <2>5
<1> QED BY <1>1 DEF Joined

LEMMA JoinedNext == TypeOK /\ Schedule /\ Joined /\ [Next]_vars => Joined'
  BY JoinedMain, JoinedRest DEF Next, Environment

LEMMA WakesNext == TypeOK /\ Schedule /\ Unstarted /\ Wakes /\ [Next]_vars => Wakes'
<1> SUFFICES ASSUME TypeOK, Schedule, Unstarted, Wakes, [Next]_vars,
                    main' = "join_consumer", consumer' = "wait"
             PROVE  queue' # <<>>
  BY DEF Wakes
<1>1. CASE PushEmpty
  <2>1. queue' = Append(queue, NoMessage) /\ queue \in Seq(Message)
    BY <1>1 DEF PushEmpty, Push, TypeOK
  <2> QED BY <2>1, NoMessageTyped
<1>2. CASE Elsewhere
  <2>1. queue' = queue /\ consumer = "wait"
    BY <1>2, ElsewhereKeeps DEF messageVars
  <2>2. main = "join_consumer"
    BY <1>2
    DEF Elsewhere, StartListenServer, ArmAccept, SetRunning, SpawnThread, CloseAcceptor,
        StopIoContext, UnsetRunning, Join, Destroy, Quit, MainGoes, IoStep, AcceptReady,
        AcceptHandler, EmplaceConnection, AcceptConnection, RunReturns, IoGoes, ReadFails,
        TaskConsumerReturns, Request, CrashStep, ListenFails, DeserializeThrows, RaceCrashes,
        DestroyCrashes, Crash, vars, flagVars, pcVars
  <2> QED BY <2>1, <2>2 DEF Wakes
<1>3. CASE \E c \in reading, body \in Bodies : MessageRead(c, body)
  <2>1. PICK m \in Message : queue' = Append(queue, m)
    BY <1>3, PushTyped DEF Push
  <2> QED BY <2>1 DEF TypeOK
<1>4. CASE ConsumerStep
  <2>1. main = "join_consumer"
    BY <1>4 DEF ConsumerStep, WhileRunning, WaitAndPop, TestMessage, Deserialize, QueueTask,
                ConsumerGoes
  <2>2. ~ running
    BY <2>1 DEF Schedule, Unset
  <2>3. consumer' # "wait"
    BY <1>4, <2>2 DEF ConsumerStep, WhileRunning, WaitAndPop, TestMessage, Deserialize,
                      QueueTask, ConsumerGoes
  <2> QED BY <2>3
<1> QED BY <1>1, <1>2, <1>3, <1>4, NextSplit

(* stop() never waits for a thread that cannot end: the empty message wakes *)
(* a consumer that went to sleep before the flag was unset, the io_context  *)
(* is stopped before ioThread is joined, and no thread is left when the     *)
(* members they share are destroyed.                                       *)
THEOREM JoinsReturnHolds == Spec => []JoinsReturn
<1>1. Init => Joined /\ Wakes
  BY DEF Init, Joined, Wakes, Starting, Unset
<1>2. TypeOK /\ Schedule /\ Joined /\ Wakes => JoinsReturn
  BY DEF TypeOK, Schedule, Joined, Wakes, JoinsReturn, Starting, Unset
<1> QED
  BY <1>1, <1>2, TypeCorrect, FlowInit, FlowNext, UnstartedInit, UnstartedNext, JoinedNext,
     WakesNext, PTL
  DEF Spec

-----------------------------------------------------------------------------
(**************************** why it may crash *****************************)
(* The map only grows. *)
LEMMA MapGrows ==
  ASSUME TypeOK, [Next]_vars
  PROVE  connection_Map \subseteq connection_Map'
<1> USE DEF connVars
<1>1. CASE MainStep \/ Quit
  BY <1>1 DEF MainStep, StartListenServer, ArmAccept, SetRunning, SpawnThread, CloseAcceptor,
              StopIoContext, UnsetRunning, PushEmpty, Join, Destroy, Quit, MainGoes
<1>2. CASE IoStep
  BY <1>2 DEF IoStep, AcceptReady, AcceptHandler, EmplaceConnection, AcceptConnection, RunReturns
<1>3. CASE ConsumerStep
  BY <1>3 DEF ConsumerStep, WhileRunning, WaitAndPop, TestMessage, Deserialize, QueueTask,
              ConsumerGoes
<1>4. CASE TaskConsumerReturns \/ Request \/ UNCHANGED vars
  BY <1>4 DEF TaskConsumerReturns, Request, vars
<1>5. CASE CrashStep
  BY <1>5 DEF CrashStep, ListenFails, DeserializeThrows, RaceCrashes, DestroyCrashes, Crash
<1>6. CASE \E c \in reading : (\E body \in Bodies : MessageRead(c, body)) \/ ReadFails(c)
  BY <1>6 DEF MessageRead, ReadFails
<1> QED BY <1>1, <1>2, <1>3, <1>4, <1>5, <1>6 DEF Next, Environment

LEMMA KnownNext == TypeOK /\ Unstarted /\ Known /\ [Next]_vars => Known'
<1> SUFFICES ASSUME TypeOK, Unstarted, Known, [Next]_vars PROVE Known'
  OBVIOUS
<1>0. /\ queue \in Seq(Message) /\ handled \in Seq(Message) /\ msg \in Message
      /\ connection_Map \subseteq connection_Map'
  BY MapGrows DEF TypeOK
<1>1. CASE Elsewhere
  <2>1. /\ UNCHANGED <<queue, msg, handled>>
        /\ consumer' = consumer \/ consumer' = "while"
    BY <1>1, ElsewhereKeeps DEF messageVars
  <2> QED BY <1>0, <2>1 DEF Known, KnownMessage
<1>2. CASE PushEmpty \/ \E c \in reading, body \in Bodies : MessageRead(c, body)
  <2> PICK m \in Message : /\ Push(m) /\ UNCHANGED <<consumer, connection_Map>>
                           /\ m.body = Empty \/ m.conn \in connection_Map
    BY <1>2, PushTyped
  <2>1. queue' = Append(queue, m) /\ UNCHANGED <<msg, handled>>
    BY DEF Push
  <2>2. \A i \in DOMAIN queue' : queue'[i] = m \/ (i \in DOMAIN queue /\ queue'[i] = queue[i])
    BY <1>0, <2>1
  <2>3. \A i \in DOMAIN queue' :
          queue'[i].body = Empty \/ queue'[i].conn \in connection_Map
    BY <2>2 DEF Known, KnownMessage
  <2> QED BY <2>1, <2>3 DEF Known, KnownMessage
<1>3. CASE ConsumerStep
  <2>1. connection_Map' = connection_Map
    BY <1>3 DEF ConsumerStep, WhileRunning, WaitAndPop, TestMessage, Deserialize, QueueTask,
                ConsumerGoes, connVars
  <2>2. CASE WhileRunning
    <3>1. UNCHANGED <<queue, msg, handled>> /\ consumer' \notin {"parse", "lookup"}
      BY <2>2 DEF WhileRunning, ConsumerGoes, messageVars
    <3> QED BY <2>1, <3>1 DEF Known, KnownMessage
  <2>3. CASE WaitAndPop
    <3>1. /\ queue # <<>> /\ msg' = Head(queue) /\ queue' = Tail(queue)
          /\ handled' = handled /\ consumer' = "test"
      BY <2>3 DEF WaitAndPop, ConsumerGoes
    <3>2. /\ msg' = queue[1] /\ 1 \in DOMAIN queue
          /\ \A i \in DOMAIN queue' : i + 1 \in DOMAIN queue /\ queue'[i] = queue[i + 1]
      <4>1. Len(queue) > 0
        BY <1>0, <3>1, EmptySeq
      <4> QED BY <1>0, <3>1, <4>1, HeadTail
    <3> QED BY <2>1, <3>1, <3>2 DEF Known, KnownMessage
  <2>4. CASE TestMessage
    <3>1. /\ UNCHANGED <<queue, msg, handled>>
          /\ consumer' \in {"parse", "lookup"} => msg.body # Empty
      BY <2>4 DEF TestMessage, ConsumerGoes, messageVars
    <3> QED BY <2>1, <3>1 DEF Known, KnownMessage
  <2>5. CASE Deserialize
    <3>1. UNCHANGED <<queue, msg, handled>> /\ consumer \in {"parse", "lookup"}
      BY <2>5 DEF Deserialize, ConsumerGoes, messageVars
    <3> QED BY <2>1, <3>1 DEF Known, KnownMessage
  <2>6. CASE QueueTask
    <3>1. /\ UNCHANGED <<queue, msg>> /\ handled' = Append(handled, msg)
          /\ consumer = "lookup" /\ consumer' = "while"
      BY <2>6 DEF QueueTask, ConsumerGoes
    <3>2. \A i \in DOMAIN handled' :
            handled'[i] = msg \/ (i \in DOMAIN handled /\ handled'[i] = handled[i])
      BY <1>0, <3>1
    <3>3. \A i \in DOMAIN handled' : handled'[i].body # Empty
      BY <3>1, <3>2 DEF Known
    <3> QED BY <2>1, <3>1, <3>3 DEF Known, KnownMessage
  <2> QED BY <1>3, <2>2, <2>3, <2>4, <2>5, <2>6 DEF ConsumerStep
<1> QED BY <1>1, <1>2, <1>3, NextSplit

(* A thread takes a step only while the process lives. *)
LEMMA Alive ==
  ASSUME [Next]_vars
  PROVE  \/ crashed = "no" /\ (crashed' = "no" \/ CrashStep)
         \/ UNCHANGED vars
<1> USE DEF MainGoes, IoGoes, ConsumerGoes, acceptVars, connVars, pcVars, messageVars
<1>1. CASE MainStep \/ Quit
  BY <1>1 DEF MainStep, StartListenServer, ArmAccept, SetRunning, SpawnThread, CloseAcceptor,
              StopIoContext, UnsetRunning, PushEmpty, Join, Destroy, Quit
<1>2. CASE IoStep
  BY <1>2 DEF IoStep, AcceptReady, AcceptHandler, EmplaceConnection, AcceptConnection, RunReturns
<1>3. CASE ConsumerStep
  BY <1>3 DEF ConsumerStep, WhileRunning, WaitAndPop, TestMessage, Deserialize, QueueTask
<1>4. CASE TaskConsumerReturns \/ Request \/ UNCHANGED vars
  BY <1>4 DEF TaskConsumerReturns, Request, vars
<1>5. CASE CrashStep
  BY <1>5 DEF CrashStep, ListenFails, DeserializeThrows, RaceCrashes, DestroyCrashes, Crash
<1>6. CASE \E c \in reading : (\E body \in Bodies : MessageRead(c, body)) \/ ReadFails(c)
  BY <1>6 DEF MessageRead, ReadFails
<1> QED BY <1>1, <1>2, <1>3, <1>4, <1>5, <1>6 DEF Next, Environment

(* The message the consumer parses came after those it handled, none of     *)
(* which was empty.                                                        *)
LEMMA ParsedIsFirst ==
  ASSUME TypeOK, Ledger, Known, consumer = "parse"
  PROVE  \E i \in DOMAIN arrived :
           arrived[i] = msg /\ \A j \in 1 .. i - 1 : arrived[j].body # Empty
<1> DEFINE k == Len(handled) + 1
<1>1. /\ handled \in Seq(Message) /\ queue \in Seq(Message) /\ msg \in Message
      /\ arrived = handled \o (<<msg>> \o queue)
  BY DEF TypeOK, Ledger, Popped
<1>2. k \in DOMAIN arrived /\ arrived[k] = msg
  BY <1>1
<1>3. \A j \in 1 .. k - 1 : j \in DOMAIN handled /\ arrived[j] = handled[j]
  BY <1>1
<1>4. \A j \in 1 .. k - 1 : arrived[j].body # Empty
  BY <1>3 DEF Known
<1> QED BY <1>2, <1>4

LEMMA CauseCrash ==
  ASSUME TypeOK, Ledger, Known, CrashNeedsCause, CrashStep
  PROVE  CrashNeedsCause'
<1>1. /\ crashed = "no"
      /\ UNCHANGED <<main, consumer, msg, connection_Map, next_conn_id, arrived>>
  BY DEF CrashStep, ListenFails, DeserializeThrows, RaceCrashes, DestroyCrashes, Crash, pcVars,
         connVars, messageVars
<1>2. \/ crashed' = "listen"
      \/ crashed' = "parse" /\ consumer = "parse" /\ msg.body = Malformed
      \/ crashed' = "map" /\ consumer = "lookup"
      \/ crashed' = "acceptor" /\ main = "close_acceptor"
      \/ crashed' = "destroy" /\ connection_Map # {}
  BY DEF CrashStep, ListenFails, DeserializeThrows, RaceCrashes, DestroyCrashes, Crash, MapRace,
         AcceptorRace
<1>3. connection_Map \subseteq 1 .. next_conn_id - 1 /\ next_conn_id \in Nat
  BY DEF TypeOK
<1>4. (consumer = "lookup" => msg.conn \in connection_Map)'
  BY <1>1 DEF CrashNeedsCause
<1>5. (crashed = "map" => msg.conn \in connection_Map /\ msg.conn # next_conn_id)'
  BY <1>1, <1>2, <1>3 DEF CrashNeedsCause
<1>6. (crashed = "acceptor" => Stopping)'
  BY <1>1, <1>2 DEF Stopping
<1>7. (crashed = "parse" =>
         \E i \in DOMAIN arrived :
           arrived[i].body = Malformed /\ \A j \in 1 .. i - 1 : arrived[j].body # Empty)'
  <2> SUFFICES ASSUME crashed' = "parse"
               PROVE  \E i \in DOMAIN arrived :
                        /\ arrived[i].body = Malformed
                        /\ \A j \in 1 .. i - 1 : arrived[j].body # Empty
    BY <1>1
  <2>1. consumer = "parse" /\ msg.body = Malformed
    BY <1>2
  <2> QED BY <2>1, ParsedIsFirst
<1>8. (crashed = "destroy" => next_conn_id > 1)'
  <2>1. ASSUME NEW c \in connection_Map PROVE next_conn_id > 1
    <3>1. c \in 1 .. next_conn_id - 1
      BY <1>3
    <3> QED BY <1>3, <3>1
  <2> QED BY <1>1, <1>2, <2>1
<1> QED BY <1>4, <1>5, <1>6, <1>7, <1>8 DEF CrashNeedsCause

LEMMA CauseNext ==
  TypeOK /\ Unstarted /\ Ledger /\ Known /\ CrashNeedsCause /\ [Next]_vars => CrashNeedsCause'
<1> SUFFICES ASSUME TypeOK, Unstarted, Ledger, Known, CrashNeedsCause, [Next]_vars
             PROVE  CrashNeedsCause'
  OBVIOUS
<1>1. CASE UNCHANGED vars
  BY <1>1 DEF vars, pcVars, flagVars, acceptVars, connVars, messageVars, CrashNeedsCause, Stopping
<1>2. CASE crashed' = "no"
  <2>1. Known'
    BY KnownNext
  <2>2. (consumer = "lookup" => msg.conn \in connection_Map)'
    BY <2>1 DEF Known, KnownMessage
  <2> QED
    <3>1. crashed' \notin {"map", "acceptor", "parse", "destroy"}
      BY <1>2
    <3> QED BY <2>2, <3>1 DEF CrashNeedsCause
<1> QED BY <1>1, <1>2, Alive, CauseCrash

(* The process dies only of the causes that CrashNeedsCause names; the      *)
(* consumer never looks up a connection that is not in the map.             *)
THEOREM CrashNeedsCauseHolds == Spec => []CrashNeedsCause
<1>1. Init => Known
  BY DEF Init, Known, KnownMessage, NoMessage
<1>2. Init => CrashNeedsCause
  BY DEF Init, CrashNeedsCause
<1> QED
  BY <1>1, <1>2, TypeCorrect, UnstartedInit, UnstartedNext, LedgerInit, LedgerNext, KnownNext,
     CauseNext, PTL
  DEF Spec
=============================================================================
