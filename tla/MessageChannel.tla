---------------------------- MODULE MessageChannel ----------------------------
(***************************************************************************)
(* What one direction of a connection promises to those at its ends, with   *)
(* frames, buffers, locks and pieces abstracted away: the messages that are *)
(* handed on are the messages that were sent, whole, once each and in the   *)
(* order in which they were sent.  The promise ends when the channel is     *)
(* garbled: from then on what is handed on may be anything, but what was     *)
(* handed on before stays as it is.                                        *)
(*                                                                         *)
(* Nothing is promised about when a message arrives: each side states that   *)
(* with the fairness it needs.                                             *)
(***************************************************************************)
EXTENDS Naturals, Sequences

CONSTANT Messages

VARIABLES sent,       (* the messages put in, in order                      *)
          delivered,  (* the messages handed on, in order                   *)
          state       (* "intact", or "garbled" for good                   *)

vars == <<sent, delivered, state>>

Init == sent = <<>> /\ delivered = <<>> /\ state = "intact"

Send(m) ==
  /\ sent' = Append(sent, m)
  /\ UNCHANGED <<delivered, state>>

(* The next message is handed on as it was sent. *)
Deliver ==
  /\ state = "intact"
  /\ Len(delivered) < Len(sent)
  /\ delivered' = Append(delivered, sent[Len(delivered) + 1])
  /\ UNCHANGED <<sent, state>>

(* One more of no matter what, or none, is added to what was handed on. *)
Garble ==
  /\ state' = "garbled"
  /\ Len(delivered') \in {Len(delivered), Len(delivered) + 1}
  /\ \A k \in 1 .. Len(delivered) : delivered'[k] = delivered[k]
  /\ UNCHANGED sent

Next == (\E m \in Messages : Send(m)) \/ Deliver \/ Garble

Spec == Init /\ [][Next]_vars
=============================================================================
