----------------------------- MODULE FrameReader -----------------------------
(***************************************************************************)
(* The reading side of one connection: readHeader and readBody, which call  *)
(* each other for as long as the chain of asynchronous reads lives.  All of *)
(* it runs on the thread that runs the io_context, so a handler is one step. *)
(* What varies is how the bytes that the peer has written are cut into reads: *)
(* the socket may yield any non-empty part of what has arrived.             *)
(*                                                                         *)
(* The peer follows the protocol: it writes frames and nothing else, until  *)
(* it closes the connection or the connection is reset.                     *)
(***************************************************************************)
EXTENDS Framing, SequencesExt

CONSTANTS Payloads,     (* the messages a peer sends                        *)
          MaxMessages   (* bound: messages in one behaviour                 *)

(* The messages are short enough for their length to survive the trip. *)
ASSUME PayloadsFit ==
  \A m \in Payloads :
    /\ m \in Seq(Byte)
    /\ Decimal[Len(m)] \in Seq(Digits)
    /\ ~ StoiThrows(Decimal[Len(m)])
    /\ DataLength(Decimal[Len(m)]) = Len(m)

ASSUME MaxMessagesInNat == MaxMessages \in Nat

VARIABLES sent,        (* history: the messages the peer has sent           *)
          stream,      (* history: their frames, the bytes it has written   *)
          ends,        (* history: where in stream each frame ends          *)
          peer,        (* the connection: "open", "closed" or "reset"       *)
          received,    (* how many bytes of stream the socket has yielded   *)
          read_buffer, (* Connection::read_buffer                           *)
          chain,       (* the read under way: "header", "body", or "ended"  *)
          data_length, (* readBody's argument                               *)
          missing,     (* bytes that read has still to transfer             *)
          delivered,   (* what was pushed to global_message_queue_          *)
          overshot     (* history: a header came with bytes that follow it  *)

peerVars == <<sent, stream, ends, peer>>
readVars == <<received, read_buffer, chain, data_length, missing, delivered, overshot>>
vars == <<peerVars, readVars>>

Init ==
  /\ sent = <<>> /\ stream = <<>> /\ ends = <<>>
  /\ peer = "open"
  /\ received = 0
  /\ read_buffer = <<>>
  /\ chain = "header"
  /\ data_length = 0 /\ missing = 0
  /\ delivered = <<>>
  /\ overshot = FALSE

(******************************** the peer *********************************)
Send(m) ==
  /\ peer = "open"
  /\ Len(sent) < MaxMessages
  /\ sent' = Append(sent, m)
  /\ stream' = stream \o Frame(m)
  /\ ends' = Append(ends, Len(stream'))
  /\ UNCHANGED <<peer, readVars>>

(* close() lets what was written arrive; a reset may lose any of it. *)
Hangup ==
  /\ peer = "open"
  /\ peer' \in {"closed", "reset"}
  /\ UNCHANGED <<sent, stream, ends, readVars>>

(************************** asynchronous reads *****************************)
(* The socket yields the next n bytes. *)
Transfer(n) ==
  /\ peer # "reset"
  /\ received + n <= Len(stream)
  /\ received' = received + n
  /\ read_buffer' = read_buffer \o SubSeq(stream, received + 1, received + n)

(* async_read_until completes on a buffer that holds the delimiter; until   *)
(* then it reads, with no regard to where the header ends.                  *)
ReadHeaderSome(n) ==
  /\ chain = "header" /\ ~ HasLine(read_buffer)
  /\ Transfer(n)
  /\ UNCHANGED <<peerVars, chain, data_length, missing, delivered, overshot>>

(* A read of the body that takes whatever there is. *)
ReadBodyGreedily(n) ==
  /\ chain = "body"
  /\ Transfer(n)
  /\ missing' = missing - n
  /\ UNCHANGED <<peerVars, chain, data_length, delivered, overshot>>

(* async_read with transfer_exactly reads no more than it was asked for. *)
ReadBodySome(n) ==
  /\ chain = "body" /\ n <= missing
  /\ Transfer(n)
  /\ missing' = missing - n
  /\ UNCHANGED <<peerVars, chain, data_length, delivered, overshot>>

(* A close that discards what has arrived and was not read. *)
ReadFailsEarly ==
  /\ \/ chain = "header" /\ ~ HasLine(read_buffer)
     \/ chain = "body" /\ missing > 0
  /\ peer # "open"
  /\ chain' = "ended"
  /\ UNCHANGED <<peerVars, received, read_buffer, data_length, missing, delivered, overshot>>

(* Either read fails at the end of the stream or on a reset, and the handler *)
(* starts no other.                                                         *)
ReadFails ==
  /\ \/ chain = "header" /\ ~ HasLine(read_buffer)
     \/ chain = "body" /\ missing > 0
  /\ peer = "reset" \/ (peer = "closed" /\ received = Len(stream))
  /\ chain' = "ended"
  /\ UNCHANGED <<peerVars, received, read_buffer, data_length, missing, delivered, overshot>>

(*************************** the two handlers ******************************)
(* std::stoi throws: the handler returns and starts no other read. *)
HeaderRejected ==
  /\ chain = "header" /\ HasLine(read_buffer)
  /\ StoiThrows(LineOf(read_buffer))
  /\ read_buffer' = AfterLine(read_buffer)
  /\ chain' = "ended"
  /\ UNCHANGED <<peerVars, received, data_length, missing, delivered, overshot>>

(* The byte allowed for the delimiter added to the length of the body. *)
HeaderAcceptedOneMore ==
  /\ chain = "header" /\ HasLine(read_buffer)
  /\ ~ StoiThrows(LineOf(read_buffer))
  /\ LET length == DataLength(LineOf(read_buffer))
     IN  /\ data_length' = (length + 1) % SizeModulus
         /\ missing' = data_length'
         /\ read_buffer' = AfterLine(read_buffer)
  /\ overshot' = (overshot \/ AfterLine(read_buffer) # <<>>)
  /\ chain' = "body"
  /\ UNCHANGED <<peerVars, received, delivered>>

(* consume(data_length + 1) is a second removal of the delimiter, which     *)
(* getline has extracted, and removes body bytes that came with the header. *)
(* (What it removes when the length has wrapped around is of no account: a  *)
(* body of that length is never complete.)                                 *)
HeaderAccepted ==
  /\ chain = "header" /\ HasLine(read_buffer)
  /\ ~ StoiThrows(LineOf(read_buffer))
  /\ LET length == DataLength(LineOf(read_buffer))
     IN  /\ data_length' = length
         /\ missing' = length
         /\ read_buffer' = Consume(AfterLine(read_buffer), (length + 1) % SizeModulus)
  /\ overshot' = (overshot \/ AfterLine(read_buffer) # <<>>)
  /\ chain' = "body"
  /\ UNCHANGED <<peerVars, received, delivered>>

(* The body copied out of the buffer and left there. *)
BodyPeeked ==
  /\ chain = "body" /\ missing = 0
  /\ delivered' = Append(delivered, SubSeq(read_buffer, 1, data_length))
  /\ chain' = "header"
  /\ UNCHANGED <<peerVars, received, read_buffer, data_length, missing, overshot>>

(* A body handed on without the call of readData that reads the next header. *)
BodyReadLast ==
  /\ chain = "body" /\ missing = 0
  /\ delivered' = Append(delivered, SubSeq(read_buffer, 1, data_length))
  /\ read_buffer' = Consume(Consume(read_buffer, data_length), data_length)
  /\ chain' = "ended"
  /\ UNCHANGED <<peerVars, received, data_length, missing, overshot>>

(* body_stream.read removes the body, consume(data_length) as much again. *)
BodyRead ==
  /\ chain = "body" /\ missing = 0
  /\ delivered' = Append(delivered, SubSeq(read_buffer, 1, data_length))
  /\ read_buffer' = Consume(Consume(read_buffer, data_length), data_length)
  /\ chain' = "header"
  /\ UNCHANGED <<peerVars, received, data_length, missing, overshot>>

-----------------------------------------------------------------------------
IoStep ==
  \/ \E n \in 1 .. Len(stream) - received : ReadHeaderSome(n) \/ ReadBodySome(n)
  \/ ReadFails
  \/ HeaderRejected \/ HeaderAccepted \/ BodyRead

Next == (\E m \in Payloads : Send(m)) \/ Hangup \/ IoStep

Spec == Init /\ [][Next]_vars

(* The io_context's thread runs the handlers that are ready and the network *)
(* carries what was written; the peer need not do anything.                 *)
FairSpec == Spec /\ WF_vars(IoStep)

-----------------------------------------------------------------------------
TypeOK ==
  /\ sent \in Seq(Payloads)
  /\ stream \in Seq(Byte)
  /\ ends \in Seq(Nat)
  /\ peer \in {"open", "closed", "reset"}
  /\ received \in 0 .. Len(stream)
  /\ read_buffer \in Seq(Byte)
  /\ chain \in {"header", "body", "ended"}
  /\ data_length \in 0 .. SizeModulus - 1
  /\ missing \in 0 .. data_length
  /\ delivered \in Seq(Seq(Byte))
  /\ overshot \in BOOLEAN

(* What readHeader and readBody are for: the node is given the messages the *)
(* peer sent, as they were sent and in that order.                          *)
FramesPreserved == IsPrefix(delivered, sent)

(* It is given exactly those as long as no read of a header has brought in  *)
(* bytes that follow the header, however else the stream is cut.            *)
IntactUnlessOvershot == ~ overshot => FramesPreserved

(* The reading side keeps a channel's promise: each read and each handler    *)
(* hands on nothing, or the next message whole, until a header overshoots,   *)
(* and what it has handed on it does not take back.                        *)
Channel == INSTANCE MessageChannel WITH
             Messages <- Payloads, sent <- sent, delivered <- delivered,
             state <- IF overshot THEN "garbled" ELSE "intact"
KeepsPromise == Channel!Spec

(* And whatever happened before, the bodies handed on are stretches of what  *)
(* the peer wrote, the k-th of them after at[k], that do not overlap and      *)
(* follow one another; what is left in the buffer follows the last.         *)
Position == received - Len(read_buffer)

Stretches(at) ==
  \A k \in DOMAIN delivered :
    /\ at[k] + Len(delivered[k]) <= IF k < Len(delivered) THEN at[k + 1] ELSE Position
    /\ \A i \in DOMAIN delivered[k] : delivered[k][i] = stream[at[k] + i]

BytesInOrder ==
  /\ Len(read_buffer) <= received
  /\ \A i \in DOMAIN read_buffer : read_buffer[i] = stream[Position + i]
  /\ \E at \in [DOMAIN delivered -> 0 .. received] : Stretches(at)

(* The chain of reads of a connection that is open, or was closed in good   *)
(* order, does not end before the stream does unless a header overshot.     *)
ChainSurvives ==
  chain = "ended" =>
    \/ overshot
    \/ peer = "reset"
    \/ peer = "closed" /\ delivered = sent

(* Every message sent is handed on, unless the connection is reset first or *)
(* a header overshot.                                                       *)
DeliveredUnlessOvershot ==
  \A k \in 1 .. MaxMessages :
    Len(sent) >= k ~> (Len(delivered) >= k \/ overshot \/ peer = "reset")
=============================================================================
