---------------------------- MODULE MetadataNode ----------------------------
(***************************************************************************)
(* The metadata node: main, which starts the node, waits for 'q' and stops  *)
(* it, and the three threads it starts: ioThread runs the io_context, whose *)
(* handlers accept peers and push the messages they send;                   *)
(* messageConsumer pops them and queues a task for each; taskConsumer is a  *)
(* stub that spins while the node runs.                                    *)
(*                                                                         *)
(* The threads share running (atomic), global_message_queue_ (a             *)
(* ThreadSafeQueue, here the FIFO it promises to be), and two objects that  *)
(* nothing protects: connection_Map_, which the io thread adds to and the   *)
(* consumer looks up, and acceptor_, which main closes while the io thread  *)
(* may be using it.  A step on either in the middle of another's is         *)
(* undefined: it may go well or end the process.                           *)
(***************************************************************************)
EXTENDS Naturals, Sequences, FiniteSets, SequencesExt

CONSTANTS Bodies,       (* what messages are: Empty, Malformed or a cmdType  *)
          Empty,        (* no byte                                          *)
          Malformed,    (* no JSON object whose cmdType is a string         *)
          NoTask,       (* a null std::unique_ptr<Task>                     *)
          MaxRequests,  (* bound: peers that connect                        *)
          MaxMessages,  (* bound: messages that peers send                  *)
          MaxSockets    (* connected sockets the process may have open      *)

ASSUME BoundsInNat ==
  MaxRequests \in Nat /\ MaxMessages \in Nat /\ MaxSockets \in Nat

VARIABLES
  main,           (* where each of the four threads is                      *)
  io, consumer, taskConsumer,
  running,        (* MetadataNode::running                                  *)
  io_stopped,     (* io_context_.stop() was called                          *)
  acceptor,       (* acceptor_: "closed" or "listening"                     *)
  accept,         (* its async_accept: under way, or completed and how      *)
  backlog,        (* connection requests the system holds for acceptor_     *)
  requests,       (* history: how many there have been                      *)
  connection_Map, (* the keys of connection_Map_                            *)
  next_conn_id,
  reading,        (* the connections whose chain of reads lives             *)
  queue,          (* global_message_queue_                                  *)
  msg,            (* consumeMessage's local variable                        *)
  taskQueue,
  arrived,        (* history: what was pushed to queue                      *)
  handled,        (* history: the messages a task was queued for            *)
  atStop,         (* history: messages past the test when running was unset *)
  crashed         (* why the process died, or "no"                          *)

pcVars == <<main, io, consumer, taskConsumer>>
flagVars == <<running, io_stopped, atStop>>
acceptVars == <<acceptor, accept, backlog, requests>>
connVars == <<connection_Map, next_conn_id, reading>>
messageVars == <<queue, msg, taskQueue, arrived, handled>>
vars == <<pcVars, flagVars, acceptVars, connVars, messageVars, crashed>>

NoMessage == [conn |-> 0, body |-> Empty]

Init ==
  /\ main = "listen"
  /\ io = "unstarted" /\ consumer = "unstarted" /\ taskConsumer = "unstarted"
  /\ running = FALSE /\ io_stopped = FALSE
  /\ acceptor = "closed" /\ accept = "none"
  /\ backlog = 0 /\ requests = 0
  /\ connection_Map = {} /\ next_conn_id = 1 /\ reading = {}
  /\ queue = <<>> /\ msg = NoMessage /\ taskQueue = <<>>
  /\ arrived = <<>> /\ handled = <<>> /\ atStop = 0
  /\ crashed = "no"

(* std::terminate or a fault: no thread takes another step. *)
Crash(why) ==
  /\ crashed = "no" /\ crashed' = why
  /\ UNCHANGED <<pcVars, flagVars, acceptVars, connVars, messageVars>>

Push(m) ==
  /\ queue' = Append(queue, m)
  /\ arrived' = Append(arrived, m)
  /\ UNCHANGED <<msg, taskQueue, handled>>

(****************************** main: start ********************************)
MainGoes(from, to) ==
  /\ crashed = "no" /\ main = from /\ main' = to
  /\ UNCHANGED <<crashed, connVars, requests, backlog>>

UnchangedThreads == UNCHANGED <<io, consumer, taskConsumer>>

(* The port may be in use; nobody catches what bind throws. *)
ListenFails == main = "listen" /\ Crash("listen")

StartListenServer ==
  /\ MainGoes("listen", "arm")
  /\ acceptor' = "listening"
  /\ UnchangedThreads /\ UNCHANGED <<flagVars, accept, messageVars>>

ArmAccept ==
  /\ MainGoes("arm", "run")
  /\ accept' = "pending"
  /\ UnchangedThreads /\ UNCHANGED <<flagVars, acceptor, messageVars>>

SetRunning ==
  /\ MainGoes("run", "spawn_consumer")
  /\ running' = TRUE
  /\ UnchangedThreads /\ UNCHANGED <<io_stopped, atStop, acceptor, accept, messageVars>>

SpawnThread ==
  /\ \/ /\ MainGoes("spawn_consumer", "spawn_task")
        /\ consumer' = "while"
        /\ UNCHANGED <<taskConsumer, io>>
     \/ /\ MainGoes("spawn_task", "spawn_io")
        /\ taskConsumer' = "while"
        /\ UNCHANGED <<consumer, io>>
     \/ /\ MainGoes("spawn_io", "input")
        /\ io' = "run"
        /\ UNCHANGED <<consumer, taskConsumer>>
  /\ UNCHANGED <<flagVars, acceptor, accept, messageVars>>

(******************************* main: stop ********************************)
(* The user types q. *)
Quit ==
  /\ MainGoes("input", "close_acceptor")
  /\ UnchangedThreads /\ UNCHANGED <<flagVars, acceptor, accept, messageVars>>

(* acceptor_.close() cancels the accept.  (socket_.close() has no effect:   *)
(* socket_ is never opened.)                                               *)
CloseAcceptor ==
  /\ MainGoes("close_acceptor", "stop_io")
  /\ acceptor' = "closed"
  /\ accept' = IF accept = "pending" THEN "failed" ELSE accept
  /\ UnchangedThreads /\ UNCHANGED <<flagVars, messageVars>>

(* A close that relies on the closed acceptor to end the io thread. *)
StopIoContextNot ==
  /\ MainGoes("stop_io", "unset_running")
  /\ UnchangedThreads /\ UNCHANGED <<flagVars, acceptor, accept, messageVars>>

StopIoContext ==
  /\ MainGoes("stop_io", "unset_running")
  /\ io_stopped' = TRUE
  /\ UnchangedThreads /\ UNCHANGED <<running, atStop, acceptor, accept, messageVars>>

UnsetRunning ==
  /\ MainGoes("unset_running", "push_empty")
  /\ running' = FALSE
  /\ atStop' = Len(handled) + IF consumer \in {"parse", "lookup"} THEN 1 ELSE 0
  /\ UnchangedThreads /\ UNCHANGED <<io_stopped, acceptor, accept, messageVars>>

(* A stop that only notifies canConsumeMessage, which nobody waits for. *)
NotifyOnly ==
  /\ MainGoes("push_empty", "join_consumer")
  /\ UnchangedThreads /\ UNCHANGED <<flagVars, acceptor, accept, messageVars>>

(* (canConsumeMessage and canConsumeTask have no waiters.) *)
PushEmpty ==
  /\ MainGoes("push_empty", "join_consumer")
  /\ Push(NoMessage)
  /\ UnchangedThreads /\ UNCHANGED <<flagVars, acceptor, accept>>

Join ==
  /\ \/ MainGoes("join_consumer", "join_task") /\ consumer = "done"
     \/ MainGoes("join_task", "join_io") /\ taskConsumer = "done"
     \/ MainGoes("join_io", "destroy") /\ io = "done"
  /\ UnchangedThreads /\ UNCHANGED <<flagVars, acceptor, accept, messageVars>>

(* SocketHandler's members are destroyed in the reverse of their order: the *)
(* io_context, with the services its sockets use, before connection_Map_,   *)
(* whose sockets then call on them.                                        *)
Destroy ==
  /\ MainGoes("destroy", "exited")
  /\ UnchangedThreads /\ UNCHANGED <<flagVars, acceptor, accept, messageVars>>

DestroyCrashes == main = "destroy" /\ connection_Map # {} /\ Crash("destroy")

(******************************** ioThread *********************************)
IoGoes(from, to) ==
  /\ crashed = "no" /\ io = from /\ io' = to
  /\ UNCHANGED <<main, consumer, taskConsumer, flagVars, crashed>>

(* A request that is waiting completes the accept: with a new socket, or    *)
(* with an error when the process can open no more.  No connection is ever  *)
(* erased, so their number only grows.                                     *)
AcceptReady ==
  /\ IoGoes("run", "run") /\ ~ io_stopped
  /\ accept = "pending" /\ backlog > 0
  /\ \/ /\ Cardinality(connection_Map) < MaxSockets
        /\ accept' = "accepted"
        /\ backlog' = backlog - 1
     \/ /\ Cardinality(connection_Map) >= MaxSockets
        /\ accept' = "failed"
        /\ UNCHANGED backlog
  /\ UNCHANGED <<acceptor, requests, connVars, messageVars>>

(* A handler that accepts the next connection only after a success. *)
AcceptHandlerGivesUp ==
  /\ ~ io_stopped
  /\ \/ accept = "accepted" /\ IoGoes("run", "emplace")
     \/ accept = "failed" /\ IoGoes("run", "run")
  /\ accept' = "none"
  /\ UNCHANGED <<acceptor, backlog, requests, connVars, messageVars>>

AcceptHandler ==
  /\ ~ io_stopped
  /\ \/ accept = "accepted" /\ IoGoes("run", "emplace")
     \/ accept = "failed" /\ IoGoes("run", "rearm")
  /\ accept' = "none"
  /\ UNCHANGED <<acceptor, backlog, requests, connVars, messageVars>>

(* The id counted up between the connection's making and its entry. *)
EmplaceUnderNext ==
  /\ IoGoes("emplace", "rearm")
  /\ connection_Map' = connection_Map \cup {next_conn_id + 1}
  /\ reading' = reading \cup {next_conn_id}
  /\ next_conn_id' = next_conn_id + 1
  /\ UNCHANGED <<acceptVars, messageVars>>

(* emplace, readData and the increment: only emplace can race. *)
EmplaceConnection ==
  /\ IoGoes("emplace", "rearm")
  /\ connection_Map' = connection_Map \cup {next_conn_id}
  /\ reading' = reading \cup {next_conn_id}
  /\ next_conn_id' = next_conn_id + 1
  /\ UNCHANGED <<acceptVars, messageVars>>

(* A handler that does not accept the next connection. *)
AcceptOnce ==
  /\ IoGoes("rearm", "run")
  /\ UNCHANGED <<acceptVars, connVars, messageVars>>

(* acceptConnection again; an accept on a closed acceptor fails at once. *)
AcceptConnection ==
  /\ IoGoes("rearm", "run")
  /\ accept' = IF acceptor = "listening" THEN "pending" ELSE "failed"
  /\ UNCHANGED <<acceptor, backlog, requests, connVars, messageVars>>

(* readBody's handler pushes a message (FrameReader has what comes before). *)
MessageRead(c, body) ==
  /\ IoGoes("run", "run") /\ ~ io_stopped
  /\ c \in reading
  /\ Len(SelectSeq(arrived, LAMBDA m : m.conn # 0)) < MaxMessages
  /\ Push([conn |-> c, body |-> body])
  /\ UNCHANGED <<acceptVars, connVars>>

(* A header or a body that fails ends the chain, and nothing else. *)
ReadFails(c) ==
  /\ IoGoes("run", "run") /\ ~ io_stopped
  /\ c \in reading
  /\ reading' = reading \ {c}
  /\ UNCHANGED <<acceptVars, connection_Map, next_conn_id, messageVars>>

RunReturns ==
  /\ IoGoes("run", "done") /\ io_stopped
  /\ UNCHANGED <<acceptVars, connVars, messageVars>>

(***************************** messageConsumer *****************************)
ConsumerGoes(from, to) ==
  /\ crashed = "no" /\ consumer = from /\ consumer' = to
  /\ UNCHANGED <<main, io, taskConsumer, flagVars, acceptVars, connVars, crashed>>

WhileRunning ==
  /\ ConsumerGoes("while", IF running THEN "wait" ELSE "done")
  /\ UNCHANGED messageVars

(* The newest message popped first. *)
WaitAndPopNewest ==
  /\ ConsumerGoes("wait", "test")
  /\ queue # <<>>
  /\ msg' = Last(queue)
  /\ queue' = Front(queue)
  /\ UNCHANGED <<taskQueue, arrived, handled>>

WaitAndPop ==
  /\ ConsumerGoes("wait", "test")
  /\ queue # <<>>
  /\ msg' = Head(queue)
  /\ queue' = Tail(queue)
  /\ UNCHANGED <<taskQueue, arrived, handled>>

(* Only the empty message ends the loop. *)
TestEmptyOnly ==
  /\ ConsumerGoes("test", IF msg.body = Empty THEN "done" ELSE "parse")
  /\ UNCHANGED messageVars

TestMessage ==
  /\ ConsumerGoes("test", IF ~ running \/ msg.body = Empty THEN "done" ELSE "parse")
  /\ UNCHANGED messageVars

(* deserializeCommand; nothing catches what the parser throws. *)
Deserialize ==
  /\ msg.body # Malformed
  /\ ConsumerGoes("parse", "lookup")
  /\ UNCHANGED messageVars

DeserializeThrows ==
  consumer = "parse" /\ msg.body = Malformed /\ Crash("parse")

(* parseCommandType knows all of CommandType but ECHO. *)
CommandType(name) ==
  IF name \in {"ADD_FILE", "RECEIVE_CHUNK", "SEND_CHUNK", "STORE_CHUNK",
               "DELETE_CHUNK", "REPLICATE_CHUNK", "HEARTBEAT"}
  THEN name ELSE "UNKNOWN"

CreateTask(type, conn) ==
  IF type = "ECHO" THEN [task |-> "EchoTask", conn |-> conn] ELSE NoTask

(* A consumer that handles one message. *)
QueueTaskAndBreak ==
  /\ ConsumerGoes("lookup", "done")
  /\ taskQueue' = Append(taskQueue, CreateTask(CommandType(msg.body), msg.conn))
  /\ handled' = Append(handled, msg)
  /\ UNCHANGED <<queue, msg, arrived>>

(* *connection_Map_[msg.connId], createTask, and the push to taskQueue.  The *)
(* operator makes a null entry for a key it does not find, and to           *)
(* dereference that is undefined: CrashNeedsCause says it finds the key.    *)
QueueTask ==
  /\ ConsumerGoes("lookup", "while")
  /\ taskQueue' = Append(taskQueue, CreateTask(CommandType(msg.body), msg.conn))
  /\ handled' = Append(handled, msg)
  /\ UNCHANGED <<queue, msg, arrived>>

(***************************** taskConsumer ********************************)
TaskConsumerReturns ==
  /\ crashed = "no" /\ taskConsumer = "while" /\ ~ running
  /\ taskConsumer' = "done"
  /\ UNCHANGED <<main, io, consumer, flagVars, acceptVars, connVars, messageVars, crashed>>

(***************************** shared objects ******************************)
MapRace == io = "emplace" /\ consumer = "lookup"
AcceptorRace == io = "rearm" /\ main = "close_acceptor"

RaceCrashes ==
  \/ MapRace /\ Crash("map")
  \/ AcceptorRace /\ Crash("acceptor")

(******************************** the peers ********************************)
Request ==
  /\ crashed = "no" /\ acceptor = "listening"
  /\ requests < MaxRequests
  /\ requests' = requests + 1
  /\ backlog' = backlog + 1
  /\ UNCHANGED <<pcVars, flagVars, acceptor, accept, connVars, messageVars, crashed>>

-----------------------------------------------------------------------------
MainStep ==
  \/ StartListenServer \/ ArmAccept \/ SetRunning \/ SpawnThread
  \/ CloseAcceptor \/ StopIoContext \/ UnsetRunning \/ PushEmpty \/ Join \/ Destroy

IoStep ==
  AcceptReady \/ AcceptHandler \/ EmplaceConnection \/ AcceptConnection \/ RunReturns

ConsumerStep ==
  WhileRunning \/ WaitAndPop \/ TestMessage \/ Deserialize \/ QueueTask

Environment ==
  \/ Quit
  \/ Request
  \/ \E c \in reading : (\E body \in Bodies : MessageRead(c, body)) \/ ReadFails(c)

CrashStep == ListenFails \/ DeserializeThrows \/ RaceCrashes \/ DestroyCrashes

Ended == crashed # "no" \/ main = "exited"

Next ==
  \/ MainStep \/ IoStep \/ ConsumerStep \/ TaskConsumerReturns
  \/ Environment \/ CrashStep
  \/ Ended /\ UNCHANGED vars

Spec == Init /\ [][Next]_vars

(* The threads run; peers and the user need not do anything. *)
FairSpec ==
  /\ Spec
  /\ WF_vars(MainStep) /\ WF_vars(IoStep)
  /\ WF_vars(ConsumerStep \/ DeserializeThrows) /\ WF_vars(TaskConsumerReturns)

-----------------------------------------------------------------------------
Message == [conn : Nat, body : Bodies \cup {Empty}]
EchoTask == [task : {"EchoTask"}, conn : Nat]

TypeOK ==
  /\ main \in {"listen", "arm", "run", "spawn_consumer", "spawn_task", "spawn_io", "input",
              "close_acceptor", "stop_io", "unset_running", "push_empty", "join_consumer",
              "join_task", "join_io", "destroy", "exited"}
  /\ io \in {"unstarted", "run", "emplace", "rearm", "done"}
  /\ consumer \in {"unstarted", "while", "wait", "test", "parse", "lookup", "done"}
  /\ taskConsumer \in {"unstarted", "while", "done"}
  /\ running \in BOOLEAN /\ io_stopped \in BOOLEAN
  /\ acceptor \in {"closed", "listening"}
  /\ accept \in {"none", "pending", "accepted", "failed"}
  /\ backlog \in 0 .. requests /\ requests \in 0 .. MaxRequests
  /\ connection_Map \subseteq 1 .. next_conn_id - 1
  /\ next_conn_id \in Nat \ {0}
  /\ reading \subseteq connection_Map
  /\ queue \in Seq(Message) /\ msg \in Message
  /\ taskQueue \in Seq(EchoTask \cup {NoTask})
  /\ arrived \in Seq(Message) /\ handled \in Seq(Message)
  /\ atStop \in Nat
  /\ crashed \in {"no", "listen", "parse", "map", "acceptor", "destroy"}

Stopping == main \in {"close_acceptor", "stop_io", "unset_running", "push_empty",
                     "join_consumer", "join_task", "join_io", "destroy", "exited"}

(* A message that ends the consumer's loop or the process comes first. *)
CutShortBefore(k) ==
  \E i \in 1 .. k : i \in DOMAIN arrived /\ arrived[i].body \in {Empty, Malformed}

(* The process dies only of what it is known to die of.  The consumer never *)
(* looks up a connection that is not in connection_Map_: a connection is     *)
(* entered before it is read from, so the race on the map concerns an        *)
(* earlier peer's command, never the newcomer's; the race on acceptor_ takes *)
(* a stop, the parser's exception a malformed message that no empty one     *)
(* preceded, and a fault at exit a connection that was ever accepted.       *)
CrashNeedsCause ==
  /\ consumer = "lookup" => msg.conn \in connection_Map
  /\ crashed = "map" => msg.conn \in connection_Map /\ msg.conn # next_conn_id
  /\ crashed = "acceptor" => Stopping
  /\ crashed = "parse" =>
       \E i \in DOMAIN arrived :
         arrived[i].body = Malformed /\ \A j \in 1 .. i - 1 : arrived[j].body # Empty
  /\ crashed = "destroy" => next_conn_id > 1

(* The messages peers sent are handled in the order in which they arrived,  *)
(* whatever connection they came on, each once and none skipped: what was    *)
(* handled, the one in hand if there is one, and the queue make up arrived. *)
HandledInOrder ==
  /\ \E inHand \in {<<>>, <<msg>>} : arrived = handled \o inHand \o queue
  /\ Len(taskQueue) = Len(handled)

(* Once stop has unset running, the consumer finishes the message it is     *)
(* making a task for and handles no other: neither one it is about to pop   *)
(* or has just popped nor any that is queued before the stop message.       *)
StopsPromptly == Stopping /\ ~ running => Len(handled) <= atStop

(* While the io thread runs, exactly one accept is outstanding, or its       *)
(* handler is about to start the next: after an error as after a success,    *)
(* so the node neither goes deaf nor waits twice.                           *)
AcceptOutstanding ==
  io \in {"run", "emplace", "rearm"} => (accept # "none" <=> io = "run")

(* stop() never waits for a thread that cannot end: while it joins, the flag *)
(* is unset, the io_context is stopped, and a consumer that went to sleep    *)
(* in wait_and_pop before it could see the flag finds a message there, the   *)
(* one that stop() pushed or one that came before it; and no thread is left  *)
(* when the members they use are destroyed.                                 *)
JoinsReturn ==
  /\ main \in {"join_consumer", "join_task", "join_io"} =>
       /\ "unstarted" \notin {io, consumer, taskConsumer}
       /\ ~ running /\ io_stopped
       /\ consumer = "wait" => queue # <<>>
  /\ main \in {"destroy", "exited"} => {io, consumer, taskConsumer} = {"done"}

(* stop() returns and the process ends, whatever the threads were doing.    *)
StopEnds == main = "close_acceptor" ~> Ended

(* A message is handled unless the node is stopped, a race kills it, or an   *)
(* empty or a malformed message arrived before it.                          *)
MessageHandled ==
  \A k \in 1 .. MaxMessages :
    Len(arrived) >= k ~>
      (Len(handled) >= k \/ Stopping \/ crashed # "no" \/ CutShortBefore(k))

(* Peers are accepted for as long as the process can open their sockets. *)
RequestAccepted ==
  \A k \in 1 .. MaxRequests :
    k <= MaxSockets /\ requests >= k ~>
      (Cardinality(connection_Map) >= k \/ Stopping \/ crashed # "no")

(* The message consumer runs for as long as the node does: the empty message *)
(* that ends it is the one stop() pushes.                                   *)
ConsumerLivesUntilStop == consumer = "done" => ~ running

(* No two threads use acceptor_ at the same time. *)
AcceptorUnshared == ~ AcceptorRace

(* An ECHO command yields the task that answers it on its connection. *)
EchoMakesTask ==
  \A i \in DOMAIN handled :
    handled[i].body = "ECHO" => taskQueue[i] = [task |-> "EchoTask", conn |-> handled[i].conn]
=============================================================================
