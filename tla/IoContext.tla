------------------------------ MODULE IoContext ------------------------------
(***************************************************************************)
(* What an asio::io_context promises to those who start operations on it:   *)
(* the handler of each operation is called once, on a thread that is in      *)
(* run(), and one at a time on each; run() returns only after a stop; and an *)
(* operation that is ready has its handler called, unless there is a stop.   *)
(***************************************************************************)
CONSTANTS Runners,   (* threads that call run()                             *)
          Ops,       (* operations, each started once at most               *)
          None

VARIABLES phase,     (* of each operation                                   *)
          in_run,    (* the threads in run()                                *)
          calling,   (* the operation whose handler a thread is calling     *)
          stopped

vars == <<phase, in_run, calling, stopped>>

Init ==
  /\ phase = [op \in Ops |-> "idle"]
  /\ in_run = {}
  /\ calling = [r \in Runners |-> None]
  /\ stopped = FALSE

(* Operations of a descriptor wait; a posted one is ready. *)
Start(op) ==
  /\ phase[op] = "idle"
  /\ \E p \in {"waiting", "ready"} : phase' = [phase EXCEPT ![op] = p]
  /\ UNCHANGED <<in_run, calling, stopped>>

(* Operations that waited come to their end, successful or not. *)
Ready(S) ==
  /\ S # {} /\ \A op \in S : phase[op] = "waiting"
  /\ phase' = [op \in Ops |-> IF op \in S THEN "ready" ELSE phase[op]]
  /\ UNCHANGED <<in_run, calling, stopped>>

Enter(r) ==
  /\ r \notin in_run
  /\ in_run' = in_run \cup {r}
  /\ UNCHANGED <<phase, calling, stopped>>

CallReady(r, op) ==
  /\ r \in in_run /\ calling[r] = None /\ ~ stopped
  /\ phase[op] = "ready"
  /\ phase' = [phase EXCEPT ![op] = "called"]
  /\ calling' = [calling EXCEPT ![r] = op]
  /\ UNCHANGED <<in_run, stopped>>

(* The thread that finds operations to be at their end calls the first one. *)
CallWaiting(r, op, S) ==
  /\ r \in in_run /\ calling[r] = None
  /\ op \notin S /\ \A o \in S \cup {op} : phase[o] = "waiting"
  /\ phase' = [o \in Ops |-> IF o = op THEN "called"
                             ELSE IF o \in S THEN "ready" ELSE phase[o]]
  /\ calling' = [calling EXCEPT ![r] = op]
  /\ UNCHANGED <<in_run, stopped>>

Return(r) ==
  /\ calling[r] # None
  /\ phase' = [phase EXCEPT ![calling[r]] = "done"]
  /\ calling' = [calling EXCEPT ![r] = None]
  /\ UNCHANGED <<in_run, stopped>>

Stop ==
  /\ stopped' = TRUE
  /\ UNCHANGED <<phase, in_run, calling>>

Leave(r) ==
  /\ r \in in_run /\ calling[r] = None /\ stopped
  /\ in_run' = in_run \ {r}
  /\ UNCHANGED <<phase, calling, stopped>>

Next ==
  \/ \E op \in Ops : Start(op)
  \/ \E S \in SUBSET Ops : Ready(S)
  \/ \E r \in Runners :
       \/ Enter(r) \/ Return(r) \/ Leave(r)
       \/ \E op \in Ops : CallReady(r, op) \/ \E S \in SUBSET Ops : CallWaiting(r, op, S)
  \/ Stop

Spec == Init /\ [][Next]_vars

(* A ready operation is called, and a stop ends every run(). *)
FairSpec ==
  /\ Spec
  /\ \A op \in Ops : WF_vars(\E r \in Runners : CallReady(r, op))
  /\ \A r \in Runners : WF_vars(Leave(r))
=============================================================================
