-------------------------- MODULE FrameReaderProofs --------------------------
(***************************************************************************)
(* Proofs about FrameReader.  The reader keeps its place in the stream as   *)
(* long as no header overshoots, and then every message it hands on is the  *)
(* message that was sent, for all payloads, cuts of the stream and lengths  *)
(* that fit an int.  And whether or not it keeps its place, it uses the      *)
(* bytes of the stream in order and none twice.                             *)
(***************************************************************************)
EXTENDS FrameReader, SequenceTheorems, WellFoundedInduction, TLAPS

LEMMA LeastElement ==
  ASSUME NEW T, T \subseteq Nat, T # {}
  PROVE  \E x \in T : \A y \in T : x <= y
<1> DEFINE R == {ss \in Nat \X Nat : ss[1] < ss[2]}
<1>1. IsWellFoundedOn(R, Nat)
  BY NatLessThanWellFounded DEF OpToRel
<1> HIDE DEF R
<1>2. PICK x \in T : \A y \in T : ~ (<<y, x>> \in R)
  BY <1>1, WFMin
<1>3. ASSUME NEW y \in T, y < x PROVE <<y, x>> \in R
  BY <1>3, <<y, x>>[1] = y, <<y, x>>[2] = x DEF R
<1>4. ASSUME NEW y \in T PROVE x <= y
  <2>1. ~ (y < x)
    BY <1>2, <1>3
  <2> QED BY <2>1
<1> QED BY <1>4

LEMMA ConcatIndex ==
  ASSUME NEW S, NEW s \in Seq(S), NEW t \in Seq(S)
  PROVE  /\ s \o t \in Seq(S)
         /\ Len(s) \in Nat /\ Len(t) \in Nat /\ Len(s \o t) = Len(s) + Len(t)
         /\ \A i \in 1 .. Len(s) : (s \o t)[i] = s[i]
         /\ \A i \in 1 .. Len(t) : (s \o t)[Len(s) + i] = t[i]
<1>1. Len(s) \in Nat /\ Len(t) \in Nat
  OBVIOUS
<1>2. ASSUME NEW i \in 1 .. Len(t)
      PROVE  (s \o t)[Len(s) + i] = t[i]
  <2>1. /\ Len(s) + i \in 1 .. Len(s) + Len(t)
        /\ ~ (Len(s) + i <= Len(s)) /\ Len(s) + i - Len(s) = i
    BY <1>1
  <2> QED BY <2>1, ConcatProperties
<1>3. ASSUME NEW i \in 1 .. Len(s)
      PROVE  (s \o t)[i] = s[i]
  BY <1>1, ConcatProperties
<1> QED BY <1>1, <1>2, <1>3, ConcatProperties

(* The line std::getline takes ends at the first delimiter in the buffer. *)
LEMMA FirstCRIsFirst ==
  ASSUME NEW s \in Seq(Byte), HasLine(s)
  PROVE  /\ FirstCR(s) \in 1 .. Len(s)
         /\ s[FirstCR(s)] = CR
         /\ \A j \in 1 .. FirstCR(s) - 1 : s[j] # CR
<1> DEFINE T == {i \in 1 .. Len(s) : s[i] = CR}
<1>1. PICK i \in T : \A j \in T : i <= j
  <2>1. T \subseteq Nat /\ T # {}
    BY DEF HasLine
  <2> HIDE DEF T
  <2> QED BY <2>1, LeastElement
<1>2. \E k \in 1 .. Len(s) : s[k] = CR /\ \A j \in 1 .. k - 1 : s[j] # CR
  BY <1>1
<1> QED BY <1>2 DEF FirstCR

LEMMA LineTyped ==
  ASSUME NEW s \in Seq(Byte), HasLine(s)
  PROVE  LineOf(s) \in Seq(Byte) /\ AfterLine(s) \in Seq(Byte)
BY FirstCRIsFirst, SubSeqProperties DEF LineOf, AfterLine

LEMMA ConsumeTyped ==
  ASSUME NEW s \in Seq(Byte), NEW n \in Nat
  PROVE  Consume(s, n) \in Seq(Byte)
BY DEF Consume

(* Whatever the line, its length is a size_t. *)
LEMMA LengthTyped ==
  ASSUME NEW line, ~ StoiThrows(line)
  PROVE  DataLength(line) \in 0 .. SizeModulus - 1
<1> DEFINE n == CHOOSE n \in Magnitudes(line) : TRUE
<1>1. n \in Magnitudes(line)
  BY DEF StoiThrows
<1>2. n \in 0 .. IntMax + 1
  BY <1>1, IntWidths DEF Magnitudes
<1>3. DataLength(line) = IF Signed(line) /\ n > 0 THEN SizeModulus - n ELSE n
  BY DEF DataLength
<1> HIDE DEF n
<1> QED BY <1>2, <1>3, IntWidths

(* A frame is digits, the delimiter and the message. *)
Header(m) == Decimal[Len(m)]

LEMMA FrameShape ==
  ASSUME NEW m \in Payloads
  PROVE  /\ m \in Seq(Byte) /\ Len(m) \in Nat
         /\ Header(m) \in Seq(Digits) /\ Len(Header(m)) \in Nat
         /\ Frame(m) \in Seq(Byte)
         /\ Len(Frame(m)) = Len(Header(m)) + 1 + Len(m)
         /\ \A i \in 1 .. Len(Header(m)) : Frame(m)[i] = Header(m)[i] /\ Frame(m)[i] # CR
         /\ Frame(m)[Len(Header(m)) + 1] = CR
         /\ \A i \in 1 .. Len(m) : Frame(m)[Len(Header(m)) + 1 + i] = m[i]
<1>1. m \in Seq(Byte) /\ Header(m) \in Seq(Digits)
  BY PayloadsFit DEF Header
<1>2. Len(m) \in Nat /\ Len(Header(m)) \in Nat
  BY <1>1, LenProperties
<1>3. Digits \subseteq Byte /\ CR \in Byte /\ CR \notin Digits
  BY DEF Digits, Byte, CR
<1>4. Header(m) \in Seq(Byte)
  BY <1>1, <1>3, SeqMonotonic
<1>5. /\ Header(m) \o <<CR>> \in Seq(Byte)
      /\ Len(Header(m) \o <<CR>>) = Len(Header(m)) + 1
      /\ \A i \in 1 .. Len(Header(m)) : (Header(m) \o <<CR>>)[i] = Header(m)[i]
      /\ (Header(m) \o <<CR>>)[Len(Header(m)) + 1] = CR
  BY <1>2, <1>3, <1>4
<1>6. \A i \in 1 .. Len(Header(m)) : Header(m)[i] \in Digits
  BY <1>1
<1>7. Frame(m) = (Header(m) \o <<CR>>) \o m
  BY DEF Frame, Header
<1> HIDE DEF Header
<1>8. /\ Frame(m) \in Seq(Byte)
      /\ Len(Frame(m)) = Len(Header(m)) + 1 + Len(m)
      /\ \A i \in 1 .. Len(Header(m)) + 1 + Len(m) :
            Frame(m)[i] = IF i <= Len(Header(m)) + 1 THEN (Header(m) \o <<CR>>)[i]
                          ELSE m[i - (Len(Header(m)) + 1)]
  BY <1>1, <1>2, <1>5, <1>7, ConcatProperties
<1>9. ASSUME NEW i \in 1 .. Len(Header(m))
      PROVE  Frame(m)[i] = Header(m)[i] /\ Frame(m)[i] # CR
  BY <1>2, <1>3, <1>5, <1>6, <1>8
<1>10. Frame(m)[Len(Header(m)) + 1] = CR
  BY <1>2, <1>5, <1>8
<1>11. ASSUME NEW i \in 1 .. Len(m)
       PROVE  Frame(m)[Len(Header(m)) + 1 + i] = m[i]
  <2>1. Len(Header(m)) + 1 + i - (Len(Header(m)) + 1) = i
    BY <1>2
  <2> QED BY <1>2, <1>8, <2>1
<1> QED BY <1>1, <1>2, <1>8, <1>9, <1>10, <1>11

-----------------------------------------------------------------------------
(***************************************************************************)
(* Type correctness needs one fact more: the handler of the body never     *)
(* takes more bytes than the buffer holds, because at most missing bytes of *)
(* the body have still to arrive.                                          *)
(***************************************************************************)
BodyBuffered == chain = "body" => Len(read_buffer) + missing >= data_length

TypeInv == TypeOK /\ BodyBuffered

LEMMA TypeInit == Init => TypeInv
<1> SUFFICES ASSUME Init PROVE TypeInv
  OBVIOUS
<1>1. /\ sent \in Seq(Payloads) /\ stream \in Seq(Byte) /\ ends \in Seq(Nat)
      /\ read_buffer \in Seq(Byte) /\ delivered \in Seq(Seq(Byte))
  BY EmptySeq DEF Init
<1>2. received \in 0 .. Len(stream) /\ data_length \in 0 .. SizeModulus - 1
  BY EmptySeq, IntWidths DEF Init
<1>3. missing \in 0 .. data_length /\ chain = "header" /\ peer = "open" /\ overshot = FALSE
  BY DEF Init
<1> QED BY <1>1, <1>2, <1>3 DEF TypeInv, TypeOK, BodyBuffered

LEMMA TransferTyped ==
  ASSUME TypeOK, NEW n \in 1 .. Len(stream) - received, Transfer(n)
  PROVE  /\ received' \in 0 .. Len(stream)
         /\ read_buffer' \in Seq(Byte)
         /\ Len(read_buffer') = Len(read_buffer) + n
         /\ \A i \in 1 .. Len(read_buffer) : read_buffer'[i] = read_buffer[i]
         /\ \A i \in 1 .. n : read_buffer'[Len(read_buffer) + i] = stream[received + i]
<1> DEFINE more == SubSeq(stream, received + 1, received + n)
<1>1. /\ stream \in Seq(Byte) /\ received \in Nat /\ received + n <= Len(stream)
      /\ read_buffer \in Seq(Byte) /\ n \in Nat
      /\ read_buffer' = read_buffer \o more /\ received' = received + n
  BY DEF TypeOK, Transfer
<1>2. /\ more \in Seq(Byte)
      /\ Len(more) = n
      /\ \A i \in 1 .. n : more[i] = stream[received + i]
  <2>1. \A i \in received + 1 .. received + n : stream[i] \in Byte
    BY <1>1
  <2>2. \A i \in 1 .. n : received + 1 + i - 1 = received + i
    BY <1>1
  <2>3. /\ received + 1 \in Int /\ received + n \in Int /\ received + 1 <= received + n
        /\ received + n - (received + 1) + 1 = n
    BY <1>1
  <2> QED BY <2>1, <2>2, <2>3, SubSeqProperties, SMTT(30)
<1> HIDE DEF more
<1>3. /\ read_buffer \o more \in Seq(Byte)
      /\ Len(read_buffer \o more) = Len(read_buffer) + Len(more)
      /\ \A i \in 1 .. Len(read_buffer) : (read_buffer \o more)[i] = read_buffer[i]
      /\ \A i \in 1 .. Len(more) : (read_buffer \o more)[Len(read_buffer) + i] = more[i]
  <2>1. read_buffer \in Seq(Byte) /\ more \in Seq(Byte)
    BY <1>1, <1>2
  <2> QED BY <2>1, ConcatIndex
<1>4. received' \in 0 .. Len(stream)
  BY <1>1 DEF TypeOK
<1> QED BY <1>1, <1>2, <1>3, <1>4

LEMMA TypeNext == TypeInv /\ [Next]_vars => TypeInv'
<1> SUFFICES ASSUME TypeInv, [Next]_vars
             PROVE  TypeInv'
  OBVIOUS
<1> USE DEF TypeInv, TypeOK, BodyBuffered, peerVars, readVars
<1>1. ASSUME NEW m \in Payloads, Send(m)
      PROVE  TypeInv'
  <2>1. stream' \in Seq(Byte) /\ Len(stream') >= Len(stream) /\ Len(stream') \in Nat
    BY <1>1, FrameShape, SMTT(30) DEF Send
  <2>2. ends' \in Seq(Nat) /\ sent' \in Seq(Payloads)
    BY <1>1, <2>1 DEF Send
  <2> QED BY <1>1, <2>1, <2>2 DEF Send
<1>2. CASE Hangup
  BY <1>2 DEF Hangup
<1>3. ASSUME NEW n \in 1 .. Len(stream) - received, ReadHeaderSome(n)
      PROVE  TypeInv'
  BY <1>3, TransferTyped DEF ReadHeaderSome
<1>4. ASSUME NEW n \in 1 .. Len(stream) - received, ReadBodySome(n)
      PROVE  TypeInv'
  BY <1>4, TransferTyped DEF ReadBodySome
<1>5. CASE ReadFails
  BY <1>5 DEF ReadFails
<1>6. CASE HeaderRejected
  BY <1>6, LineTyped DEF HeaderRejected
<1>7. CASE HeaderAccepted
  <2> DEFINE length == DataLength(LineOf(read_buffer))
  <2>1. length \in 0 .. SizeModulus - 1
    BY <1>7, LengthTyped DEF HeaderAccepted
  <2>2. (length + 1) % SizeModulus \in Nat
    BY <2>1, IntWidths
  <2>3. /\ data_length' = length /\ missing' = length /\ chain' = "body"
        /\ read_buffer' = Consume(AfterLine(read_buffer), (length + 1) % SizeModulus)
    BY <1>7 DEF HeaderAccepted
  <2> HIDE DEF length
  <2>4. read_buffer' \in Seq(Byte)
    BY <1>7, <2>2, <2>3, LineTyped, ConsumeTyped DEF HeaderAccepted
  <2> QED BY <1>7, <2>1, <2>3, <2>4 DEF HeaderAccepted
<1>8. CASE BodyRead
  <2>1. /\ missing = 0 /\ data_length \in Nat /\ data_length <= Len(read_buffer)
        /\ delivered' = Append(delivered, SubSeq(read_buffer, 1, data_length))
        /\ read_buffer' = Consume(Consume(read_buffer, data_length), data_length)
    BY <1>8, IntWidths DEF BodyRead
  <2>2. SubSeq(read_buffer, 1, data_length) \in Seq(Byte)
    BY <2>1, SubSeqProperties
  <2>3. read_buffer' \in Seq(Byte)
    BY <2>1, ConsumeTyped
  <2> QED BY <1>8, <2>1, <2>2, <2>3 DEF BodyRead
<1>9. CASE UNCHANGED vars
  BY <1>9 DEF vars
<1> QED
  BY <1>1, <1>2, <1>3, <1>4, <1>5, <1>6, <1>7, <1>8, <1>9 DEF Next, IoStep

(***************************************************************************)
(* The reader's state has its type in every behaviour; in particular the    *)
(* length of a body is a size_t whatever the line it was read from.        *)
(***************************************************************************)
THEOREM TypeCorrect == Spec => []TypeOK /\ []BodyBuffered
<1>1. TypeInv => TypeOK /\ BodyBuffered
  BY DEF TypeInv
<1> QED BY <1>1, TypeInit, TypeNext, PTL DEF Spec

-----------------------------------------------------------------------------
(***************************************************************************)
(* The inductive invariant behind IntactUnlessOvershot.  Layout says that  *)
(* stream is the frames of sent one after the other, the k-th of them       *)
(* ending at ends[k]; InPlace says that, unless a header overshot, the      *)
(* buffer is the part of stream between the start of the frame being read   *)
(* (or of its body) and the bytes the socket has yielded.                  *)
(***************************************************************************)
Start(k) == IF k = 0 THEN 0 ELSE ends[k]

FrameAt(k) ==
  /\ ends[k] = Start(k - 1) + Len(Frame(sent[k]))
  /\ ends[k] <= Len(stream)
  /\ \A i \in 1 .. Len(Frame(sent[k])) : stream[Start(k - 1) + i] = Frame(sent[k])[i]

Layout ==
  /\ Len(ends) = Len(sent)
  /\ Len(stream) = Start(Len(sent))
  /\ \A k \in 1 .. Len(sent) : FrameAt(k)

(* The buffer holds what the socket has yielded after position from. *)
BufferFrom(from) ==
  /\ from <= received
  /\ Len(read_buffer) = received - from
  /\ \A i \in 1 .. received - from : read_buffer[i] = stream[from + i]

Intact ==
  /\ Len(delivered) <= Len(sent)
  /\ \A i \in 1 .. Len(delivered) : delivered[i] = sent[i]

(* The number of the message that is being read. *)
Reading == Len(delivered) + 1

InHeader == chain = "header" => BufferFrom(Start(Len(delivered)))

InBody ==
  chain = "body" =>
    /\ Reading <= Len(sent)
    /\ data_length = Len(sent[Reading])
    /\ received = ends[Reading] - missing
    /\ BufferFrom(ends[Reading] - data_length)

InPlace == ~ overshot => Intact /\ InHeader /\ InBody

PlaceInv == TypeInv /\ Layout /\ InPlace

LEMMA IntactIsPrefix ==
  ASSUME TypeOK
  PROVE  Intact <=> FramesPreserved
<1>1. /\ delivered \in Seq(Seq(Byte)) /\ sent \in Seq(Seq(Byte))
      /\ Len(delivered) \in Nat /\ Len(sent) \in Nat
  <2>1. Payloads \subseteq Seq(Byte)
    BY PayloadsFit
  <2> QED BY <2>1, SeqMonotonic, LenProperties DEF TypeOK
<1>2. ASSUME Len(delivered) <= Len(sent)
      PROVE  SubSeq(delivered, 1, Len(delivered)) = SubSeq(sent, 1, Len(delivered))
             <=> \A i \in 1 .. Len(delivered) : delivered[i] = sent[i]
  <2> DEFINE part == SubSeq(sent, 1, Len(delivered))
  <2>1. SubSeq(delivered, 1, Len(delivered)) = delivered
    BY <1>1, SubSeqFull
  <2>2. /\ part \in Seq(Seq(Byte))
        /\ Len(part) = Len(delivered)
        /\ \A i \in 1 .. Len(delivered) : part[i] = sent[i]
    BY <1>1, <1>2
  <2> HIDE DEF part
  <2>3. delivered = part <=> \A i \in 1 .. Len(delivered) : delivered[i] = sent[i]
    BY <1>1, <2>2, SeqEqual
  <2> QED BY <2>1, <2>3 DEF part
<1> QED BY <1>2 DEF Intact, FramesPreserved, IsPrefix

(* The positions of the frames, as arithmetic needs them. *)
LEMMA Positions ==
  ASSUME TypeOK, Layout, NEW k \in 1 .. Len(sent)
  PROVE  /\ sent[k] \in Payloads
         /\ ends[k] \in Nat /\ Start(k - 1) \in Nat /\ Start(k) = ends[k]
         /\ FrameAt(k)
<1>1. Len(sent) \in Nat /\ Len(ends) = Len(sent) /\ ends \in Seq(Nat) /\ sent \in Seq(Payloads)
  BY DEF TypeOK, Layout
<1> QED BY <1>1 DEF Layout, Start

LEMMA PlaceInit == Init => PlaceInv
<1> SUFFICES ASSUME Init PROVE PlaceInv
  OBVIOUS
<1>1. Len(sent) = 0 /\ Len(stream) = 0 /\ Len(ends) = 0 /\ Len(delivered) = 0 /\ Len(read_buffer) = 0
  BY EmptySeq DEF Init
<1>2. Layout
  BY <1>1 DEF Layout, Start
<1>3. InPlace
  BY <1>1 DEF Init, InPlace, Intact, InHeader, InBody, BufferFrom, Start
<1> QED BY <1>2, <1>3, TypeInit DEF PlaceInv

LEMMA SendKeepsPlace ==
  ASSUME PlaceInv, TypeInv', NEW m \in Payloads, Send(m)
  PROVE  Layout' /\ InPlace'
<1>1. /\ sent \in Seq(Payloads) /\ stream \in Seq(Byte) /\ ends \in Seq(Nat)
      /\ Len(sent) \in Nat /\ Len(stream) \in Nat /\ Len(ends) = Len(sent)
      /\ received \in Nat /\ received <= Len(stream)
      /\ Len(delivered) \in Nat
      /\ data_length \in Nat /\ missing \in Nat
  BY LenProperties DEF PlaceInv, TypeInv, TypeOK, Layout
<1>2. /\ sent' = Append(sent, m) /\ stream' = stream \o Frame(m)
      /\ ends' = Append(ends, Len(stream'))
      /\ delivered' = delivered /\ received' = received /\ read_buffer' = read_buffer
      /\ chain' = chain /\ data_length' = data_length /\ missing' = missing
      /\ overshot' = overshot
  BY DEF Send, readVars
<1>3. /\ Len(sent') = Len(sent) + 1 /\ Len(ends') = Len(ends) + 1
      /\ \A k \in 1 .. Len(sent) : sent'[k] = sent[k] /\ ends'[k] = ends[k]
      /\ sent'[Len(sent) + 1] = m /\ ends'[Len(sent) + 1] = Len(stream')
  BY <1>1, <1>2
<1>4. /\ Len(stream') = Len(stream) + Len(Frame(m)) /\ Len(Frame(m)) \in Nat
      /\ \A i \in 1 .. Len(stream) : stream'[i] = stream[i]
      /\ \A i \in 1 .. Len(Frame(m)) : stream'[Len(stream) + i] = Frame(m)[i]
  <2>1. Frame(m) \in Seq(Byte) /\ Len(Frame(m)) \in Nat
    BY FrameShape, LenProperties
  <2> QED BY <1>1, <1>2, <2>1, ConcatIndex
<1>5. \A k \in 0 .. Len(sent) : Start(k)' = Start(k)
  BY <1>1, <1>3 DEF Start
<1>6. Len(stream) = Start(Len(sent)) /\ \A k \in 1 .. Len(sent) : FrameAt(k)
  BY DEF PlaceInv, Layout
<1>7. ASSUME NEW k \in 1 .. Len(sent)
      PROVE  FrameAt(k)'
  <2>1. /\ FrameAt(k) /\ sent'[k] = sent[k] /\ ends'[k] = ends[k]
        /\ Start(k - 1)' = Start(k - 1) /\ Start(k - 1) \in Nat
        /\ Len(Frame(sent[k])) \in Nat
    <3>1. sent[k] \in Payloads /\ Start(k - 1) \in Nat
      BY Positions DEF PlaceInv, TypeInv
    <3>2. k - 1 \in 0 .. Len(sent)
      BY <1>1
    <3>3. Len(Frame(sent[k])) \in Nat
      BY <3>1, FrameShape, LenProperties
    <3> QED BY <1>3, <1>5, <1>6, <3>1, <3>2, <3>3
  <2>2. \A i \in 1 .. Len(Frame(sent[k])) : Start(k - 1) + i \in 1 .. Len(stream)
    BY <1>1, <2>1, SMTT(30) DEF FrameAt
  <2>3. Len(stream') \in Nat /\ Len(stream') >= Len(stream)
    BY <1>1, <1>4
  <2>4. ends[k] <= Len(stream')
    BY <1>1, <2>1, <2>3 DEF FrameAt
  <2> QED BY <1>4, <2>1, <2>2, <2>4 DEF FrameAt
<1>8. ASSUME NEW k, k = Len(sent) + 1
      PROVE  FrameAt(k)'
  <2>1. k - 1 \in 0 .. Len(sent) /\ k - 1 = Len(sent)
    BY <1>1, <1>8
  <2>2. Start(k - 1)' = Len(stream)
    BY <1>5, <1>6, <2>1
  <2>3. /\ sent'[k] = m /\ ends'[k] = Len(stream) + Len(Frame(m))
        /\ Len(stream') = Len(stream) + Len(Frame(m))
        /\ Len(stream') \in Nat
    BY <1>1, <1>3, <1>4, <1>8
  <2>4. /\ ends'[k] = Start(k - 1)' + Len(Frame(sent'[k])) /\ ends'[k] <= Len(stream')
        /\ \A i \in 1 .. Len(Frame(sent'[k])) : stream'[Start(k - 1)' + i] = Frame(sent'[k])[i]
    <3>1. PICK f : f = Frame(m) /\ Len(f) \in Nat
      BY <1>4
    <3>2. Len(stream) + Len(f) <= Len(stream') /\ Frame(sent'[k]) = f
      BY <1>1, <2>3, <3>1
    <3>3. \A i \in 1 .. Len(f) : stream'[Start(k - 1)' + i] = f[i]
      BY <1>4, <2>2, <3>1
    <3> QED BY <2>2, <2>3, <3>1, <3>2, <3>3
  <2> QED BY <2>4 DEF FrameAt
<1>9. Layout'
  <2>1. Len(stream') = Start(Len(sent))'
    BY <1>1, <1>3 DEF Start
  <2>2. ASSUME NEW k \in 1 .. Len(sent')
        PROVE  FrameAt(k)'
    <3>1. k \in 1 .. Len(sent) \/ k = Len(sent) + 1
      BY <1>1, <1>3
    <3> QED BY <1>7, <1>8, <3>1
  <2>3. Len(ends') = Len(sent')
    BY <1>1, <1>3
  <2> QED BY <2>1, <2>2, <2>3 DEF Layout
<1>10. ASSUME NEW from \in Nat, BufferFrom(from)
       PROVE  BufferFrom(from)'
  <2>1. \A i \in 1 .. received - from : from + i \in 1 .. Len(stream)
    BY <1>1, <1>10
  <2> QED BY <1>1, <1>2, <1>4, <1>10, <2>1 DEF BufferFrom, readVars
<1>11. ASSUME ~ overshot'
       PROVE  (Intact /\ InHeader /\ InBody)'
  <2>1. Intact /\ InHeader /\ InBody
    BY <1>2, <1>11 DEF PlaceInv, InPlace, readVars
  <2>2. Intact'
    <3>1. /\ Len(delivered) \in 0 .. Len(sent)
          /\ \A i \in 1 .. Len(delivered) : i \in 1 .. Len(sent) /\ delivered[i] = sent[i]
      BY <1>1, <2>1 DEF Intact
    <3> QED BY <1>1, <1>2, <1>3, <3>1 DEF Intact
  <2>3. InHeader'
    <3>1. Len(delivered) \in 0 .. Len(sent) /\ Start(Len(delivered)) \in Nat
      BY <1>1, <2>1 DEF Intact, Start
    <3> QED BY <1>2, <1>5, <1>10, <2>1, <3>1 DEF InHeader, readVars
  <2>4. InBody'
    <3> SUFFICES ASSUME chain = "body" PROVE InBody'
      BY <1>2 DEF InBody, readVars
    <3>1. /\ Reading \in 1 .. Len(sent) /\ Reading' = Reading
          /\ data_length = Len(sent[Reading]) /\ received = ends[Reading] - missing
          /\ BufferFrom(ends[Reading] - data_length)
      BY <1>1, <1>2, <2>1 DEF InBody, Reading, readVars
    <3>2. ends[Reading] - data_length \in Nat
      <4>1. /\ sent[Reading] \in Payloads /\ FrameAt(Reading)
            /\ Start(Reading - 1) \in Nat /\ ends[Reading] \in Nat
        BY <3>1, Positions DEF PlaceInv, TypeInv
      <4>2. /\ Len(Frame(sent[Reading])) = Len(Header(sent[Reading])) + 1 + Len(sent[Reading])
            /\ Len(Header(sent[Reading])) \in Nat
        BY <4>1, FrameShape
      <4>3. ends[Reading] = Start(Reading - 1) + (Len(Header(sent[Reading])) + 1 + data_length)
        BY <3>1, <4>1, <4>2 DEF FrameAt
      <4> QED BY <1>1, <4>1, <4>2, <4>3
    <3>3. BufferFrom(ends[Reading] - data_length)'
      BY <1>2, <1>3, <1>10, <3>1, <3>2 DEF readVars
    <3> QED BY <1>1, <1>2, <1>3, <3>1, <3>3, SMTT(30) DEF InBody, readVars
  <2> QED BY <2>2, <2>3, <2>4
<1> QED BY <1>9, <1>11 DEF InPlace

LEMMA LayoutKept ==
  ASSUME Layout, UNCHANGED <<sent, stream, ends>>
  PROVE  Layout'
BY DEF Layout, FrameAt, Start

LEMMA TransferKeepsPlace ==
  ASSUME TypeOK, UNCHANGED stream, NEW from \in Nat, BufferFrom(from),
         NEW n \in 1 .. Len(stream) - received, Transfer(n)
  PROVE  BufferFrom(from)'
<1>1. /\ received \in Nat /\ received' = received + n /\ n \in Nat
      /\ Len(read_buffer) = received - from /\ from <= received
      /\ \A i \in 1 .. received - from : read_buffer[i] = stream[from + i]
  BY DEF TypeOK, BufferFrom, Transfer
<1>2. /\ Len(read_buffer') = received' - from
      /\ \A i \in 1 .. received - from : read_buffer'[i] = stream[from + i]
  BY <1>1, TransferTyped
<1>3. ASSUME NEW i \in 1 .. received' - from, ~ (i \in 1 .. received - from)
      PROVE  read_buffer'[i] = stream[from + i]
  <2>1. PICK j \in 1 .. n : i = received - from + j
    <3>1. i - (received - from) \in 1 .. n /\ i = received - from + (i - (received - from))
      BY <1>1, <1>3
    <3> QED BY <3>1
  <2>2. read_buffer'[Len(read_buffer) + j] = stream[received + j]
    BY TransferTyped
  <2>3. from + i = received + j
    BY <1>1, <2>1
  <2> QED BY <1>1, <2>1, <2>2, <2>3
<1> QED BY <1>1, <1>2, <1>3 DEF BufferFrom

(* A header that has not overshot is the header of the message being read. *)
LEMMA HeaderInPlace ==
  ASSUME PlaceInv, ~ overshot, chain = "header", HasLine(read_buffer)
  PROVE  /\ Reading \in 1 .. Len(sent)
         /\ LineOf(read_buffer) = Header(sent[Reading])
         /\ AfterLine(read_buffer) = <<>> => received = ends[Reading] - Len(sent[Reading])
<1> DEFINE c == FirstCR(read_buffer)
           start == Start(Len(delivered))
           m == sent[Reading]
           h == Len(Header(m))
<1>1. /\ read_buffer \in Seq(Byte) /\ Len(read_buffer) \in Nat
      /\ received \in 0 .. Len(stream) /\ Len(stream) \in Nat
      /\ Len(sent) \in Nat /\ Len(delivered) \in Nat
      /\ Len(delivered) <= Len(sent) /\ BufferFrom(start)
      /\ Len(stream) = Start(Len(sent))
  BY LenProperties DEF PlaceInv, TypeInv, TypeOK, InPlace, Intact, InHeader, Layout
<1>2. /\ c \in 1 .. Len(read_buffer) /\ read_buffer[c] = CR
      /\ \A j \in 1 .. c - 1 : read_buffer[j] # CR
  BY <1>1, FirstCRIsFirst
<1>3. AfterLine(read_buffer) = <<>> => c = Len(read_buffer)
  <2>1. CASE c < Len(read_buffer)
    <3>1. Len(AfterLine(read_buffer)) = Len(read_buffer) - c
      BY <1>1, <1>2, <2>1, SubSeqProperties, SMTT(30) DEF AfterLine
    <3> QED BY <1>1, <1>2, <2>1, <3>1, EmptySeq
  <2> QED BY <1>1, <1>2, <2>1
<1>4. Reading \in 1 .. Len(sent)
  <2>1. CASE Len(delivered) = Len(sent)
    BY <1>1, <1>2, <2>1 DEF BufferFrom
  <2> QED BY <1>1, <2>1 DEF Reading
<1>5. /\ m \in Payloads /\ FrameAt(Reading) /\ start \in Nat /\ ends[Reading] \in Nat
      /\ Reading - 1 = Len(delivered)
  BY <1>1, <1>4, Positions DEF PlaceInv, TypeInv, Reading
<1>6. /\ h \in Nat /\ Len(m) \in Nat /\ Len(Frame(m)) = h + 1 + Len(m)
      /\ \A i \in 1 .. h : Frame(m)[i] = Header(m)[i] /\ Frame(m)[i] # CR
      /\ Frame(m)[h + 1] = CR
      /\ Header(m) \in Seq(Digits)
  BY <1>5, FrameShape
<1>7. /\ ends[Reading] = start + (h + 1 + Len(m))
      /\ \A i \in 1 .. h + 1 + Len(m) : stream[start + i] = Frame(m)[i]
  BY <1>5, <1>6 DEF FrameAt
<1>8. /\ Len(read_buffer) = received - start
      /\ \A i \in 1 .. Len(read_buffer) : read_buffer[i] = stream[start + i]
  BY <1>1, <1>5 DEF BufferFrom
<1> HIDE DEF c, start, m, h
<1>9. c = h + 1
  <2>1. ~ (c <= h)
    <3>1. CASE c <= h
      <4>1. c \in 1 .. h /\ c \in 1 .. h + 1 + Len(m)
        BY <1>1, <1>2, <1>6, <3>1
      <4> QED BY <1>2, <1>6, <1>7, <1>8, <4>1
    <3> QED BY <3>1
  <2>2. ~ (h + 1 < c)
    <3>1. CASE h + 1 < c
      <4>1. h + 1 \in 1 .. c - 1 /\ h + 1 \in 1 .. h + 1 + Len(m) /\ h + 1 \in 1 .. Len(read_buffer)
        BY <1>1, <1>2, <1>6, <3>1
      <4> QED BY <1>2, <1>6, <1>7, <1>8, <4>1
    <3> QED BY <3>1
  <2> QED BY <1>1, <1>2, <1>6, <2>1, <2>2, SMTT(30)
<1>10. ASSUME AfterLine(read_buffer) = <<>> PROVE received = ends[Reading] - Len(m)
  <2>1. received \in Int /\ start \in Int /\ received - start = h + 1
    BY <1>1, <1>3, <1>5, <1>8, <1>9, <1>10
  <2>2. received = start + h + 1 /\ h \in Int /\ Len(m) \in Int
    BY <1>6, <2>1
  <2>3. ends[Reading] = start + (h + 1 + Len(m))
    BY <1>7
  <2> QED BY <2>1, <2>2, <2>3
<1>11. LineOf(read_buffer) = Header(m)
  <2>1. LineOf(read_buffer) = SubSeq(read_buffer, 1, h)
    <3>1. c - 1 = h
      BY <1>6, <1>9
    <3> QED BY <3>1 DEF LineOf, c
  <2>2. \A i \in 1 .. h : /\ i \in 1 .. Len(read_buffer) /\ i \in 1 .. h + 1 + Len(m)
    BY <1>1, <1>2, <1>6, <1>9
  <2>3. \A i \in 1 .. h : read_buffer[i] = Header(m)[i]
    BY <1>6, <1>7, <1>8, <2>2
  <2>4. \A i \in 1 .. h : Header(m)[i] \in Digits
    BY <1>6 DEF h
  <2>5. /\ SubSeq(read_buffer, 1, h) \in Seq(Digits)
        /\ Len(SubSeq(read_buffer, 1, h)) = h
        /\ \A i \in 1 .. h : SubSeq(read_buffer, 1, h)[i] = read_buffer[i]
    <3>1. \A i \in 1 .. h : read_buffer[i] \in Digits
      BY <2>3, <2>4
    <3>2. \A i \in 1 .. h : 1 + i - 1 = i
      OBVIOUS
    <3>3. h - 1 + 1 = h /\ (1 <= h \/ h = 0) /\ h \in Int
      BY <1>6
    <3> QED BY <3>1, <3>2, <3>3, SubSeqProperties
  <2> QED BY <1>6, <2>1, <2>3, <2>5, SeqEqual DEF h
<1> QED BY <1>4, <1>10, <1>11 DEF m

LEMMA PlaceNext == PlaceInv /\ TypeInv' /\ [Next]_vars => PlaceInv'
<1> SUFFICES ASSUME PlaceInv, TypeInv', [Next]_vars
             PROVE  Layout' /\ InPlace'
  BY DEF PlaceInv
<1>0. /\ TypeInv /\ TypeOK /\ Layout /\ InPlace
      /\ Len(delivered) \in Nat /\ Len(sent) \in Nat /\ Len(read_buffer) \in Nat
      /\ received \in Nat /\ missing \in Nat /\ data_length \in Nat
      /\ Len(stream) \in Nat /\ Len(ends) = Len(sent) /\ ends \in Seq(Nat)
  BY LenProperties DEF Layout, PlaceInv, TypeInv, TypeOK
<1> DEFINE current == Start(Len(delivered))
<1>a. ASSUME UNCHANGED peerVars, UNCHANGED <<received, read_buffer, delivered, overshot>>,
             chain' = "ended" \/ UNCHANGED <<chain, data_length, missing>>
      PROVE  Layout' /\ InPlace'
  <2>1. Layout'
    BY <1>0, <1>a, LayoutKept DEF peerVars
  <2>2. InPlace'
    BY <1>0, <1>a DEF InPlace, Intact, InHeader, InBody, BufferFrom, Reading, Start, peerVars
  <2> QED BY <2>1, <2>2
<1>1. ASSUME NEW m \in Payloads, Send(m)
      PROVE  Layout' /\ InPlace'
  BY <1>1, SendKeepsPlace
<1>2. CASE Hangup
  <2>1. UNCHANGED <<sent, stream, ends>> /\ UNCHANGED readVars
    BY <1>2 DEF Hangup
  <2>2. Layout'
    BY <1>0, <2>1, LayoutKept
  <2>3. InPlace'
    BY <1>0, <2>1 DEF InPlace, Intact, InHeader, InBody, BufferFrom, Reading, Start, readVars
  <2> QED BY <2>2, <2>3
<1>3. ASSUME NEW n \in 1 .. Len(stream) - received, ReadHeaderSome(n)
      PROVE  Layout' /\ InPlace'
  <2>1. /\ chain = "header" /\ Transfer(n)
        /\ UNCHANGED <<sent, stream, ends, chain, delivered, overshot>>
    BY <1>3 DEF ReadHeaderSome, peerVars
  <2>2. Layout'
    BY <1>0, <2>1, LayoutKept
  <2>3. ASSUME ~ overshot PROVE (Intact /\ InHeader /\ InBody)'
    <3>1. Intact /\ BufferFrom(current) /\ current \in Nat
      <4>1. Intact /\ BufferFrom(current)
        BY <1>0, <2>1, <2>3 DEF InPlace, InHeader
      <4>2. Len(delivered) \in 0 .. Len(sent)
        BY <1>0, <4>1 DEF Intact
      <4> QED BY <1>0, <4>1, <4>2 DEF Start
    <3>2. \A from \in Nat : BufferFrom(from) => BufferFrom(from)'
      BY <1>0, <2>1, TransferKeepsPlace
    <3>3. Intact'
      BY <2>1, <3>1 DEF Intact
    <3>4. current' = current
      BY <2>1 DEF Start
    <3>5. InHeader'
      BY <3>1, <3>2, <3>4, ZenonT(30) DEF InHeader, BufferFrom
    <3>6. InBody'
      BY <2>1 DEF InBody
    <3> QED BY <3>3, <3>5, <3>6
  <2> QED BY <2>1, <2>2, <2>3 DEF InPlace
<1>4. ASSUME NEW n \in 1 .. Len(stream) - received, ReadBodySome(n)
      PROVE  Layout' /\ InPlace'
  <2>1. /\ chain = "body" /\ Transfer(n) /\ missing' = missing - n
        /\ received' = received + n
        /\ UNCHANGED <<sent, stream, ends, chain, data_length, delivered, overshot>>
    BY <1>4 DEF ReadBodySome, peerVars, Transfer
  <2>2. Layout'
    BY <1>0, <2>1, LayoutKept
  <2>3. ASSUME ~ overshot PROVE (Intact /\ InHeader /\ InBody)'
    <3>1. /\ Intact /\ Reading \in 1 .. Len(sent) /\ data_length = Len(sent[Reading])
          /\ received = ends[Reading] - missing
          /\ BufferFrom(ends[Reading] - data_length)
      BY <1>0, <2>1, <2>3 DEF InPlace, InBody, Reading
    <3>2. ends[Reading] \in Nat /\ ends[Reading] - data_length \in Nat
      <4>1. /\ sent[Reading] \in Payloads /\ FrameAt(Reading)
            /\ Start(Reading - 1) \in Nat /\ ends[Reading] \in Nat
        BY <1>0, <3>1, Positions
      <4>2. /\ Len(Frame(sent[Reading])) = Len(Header(sent[Reading])) + 1 + Len(sent[Reading])
            /\ Len(Header(sent[Reading])) \in Nat
        BY <4>1, FrameShape
      <4>3. ends[Reading] = Start(Reading - 1) + (Len(Header(sent[Reading])) + 1 + data_length)
        BY <3>1, <4>1, <4>2 DEF FrameAt
      <4> QED BY <1>0, <4>1, <4>2, <4>3
    <3>3. \A from \in Nat : BufferFrom(from) => BufferFrom(from)'
      BY <1>0, <2>1, TransferKeepsPlace
    <3>4. Reading' = Reading
      BY <2>1 DEF Reading
    <3>5. (ends[Reading] - data_length)' = ends[Reading] - data_length
      BY <2>1, <3>4
    <3>6. BufferFrom(ends[Reading] - data_length)'
      <4>1. PICK from \in Nat : from = ends[Reading] - data_length
        BY <3>2
      <4>2. BufferFrom(from)'
        BY <3>1, <3>3, <4>1
      <4> QED BY <3>5, <4>1, <4>2 DEF BufferFrom
    <3>7. received' = (ends[Reading] - missing)'
      <4>1. PICK e \in Nat : e = ends[Reading]
        BY <3>2
      <4>2. received = e - missing
        BY <3>1, <4>1
      <4>3. received + n = e - (missing - n)
        BY <1>0, <4>2
      <4> QED BY <2>1, <3>4, <4>1, <4>3
    <3>8. Intact'
      BY <2>1, <3>1 DEF Intact
    <3> QED BY <1>0, <2>1, <3>1, <3>4, <3>6, <3>7, <3>8 DEF InHeader, InBody
  <2> QED BY <2>1, <2>2, <2>3 DEF InPlace
<1>5. CASE ReadFails
  BY <1>a, <1>5 DEF ReadFails
<1>6. CASE HeaderRejected
  <2>1. /\ chain' = "ended"
        /\ UNCHANGED <<sent, stream, ends, delivered, overshot>>
    BY <1>6 DEF HeaderRejected, peerVars
  <2>2. Layout'
    BY <1>0, <2>1, LayoutKept
  <2>3. InPlace'
    BY <1>0, <2>1 DEF InPlace, Intact, InHeader, InBody
  <2> QED BY <2>2, <2>3
<1>7. CASE HeaderAccepted
  <2> DEFINE after == AfterLine(read_buffer)
             length == DataLength(LineOf(read_buffer))
  <2>1. /\ chain = "header" /\ HasLine(read_buffer) /\ ~ StoiThrows(LineOf(read_buffer))
        /\ data_length' = length /\ missing' = length /\ chain' = "body"
        /\ read_buffer' = Consume(after, (length + 1) % SizeModulus)
        /\ overshot' = (overshot \/ after # <<>>)
        /\ UNCHANGED <<sent, stream, ends, received, delivered>>
    BY <1>7 DEF HeaderAccepted, peerVars
  <2>2. Layout'
    BY <1>0, <2>1, LayoutKept
  <2>3. ASSUME ~ overshot' PROVE (Intact /\ InHeader /\ InBody)'
    <3>1. ~ overshot /\ after = <<>>
      BY <1>0, <2>1, <2>3 DEF TypeOK
    <3>2. /\ Reading \in 1 .. Len(sent) /\ LineOf(read_buffer) = Header(sent[Reading])
          /\ received = ends[Reading] - Len(sent[Reading])
      BY <2>1, <3>1, HeaderInPlace
    <3>3. sent[Reading] \in Payloads /\ ends[Reading] \in Nat
      BY <1>0, <3>2, Positions
    <3>4. length = Len(sent[Reading]) /\ length \in Nat
      BY <3>2, <3>3, PayloadsFit, FrameShape DEF Header
    <3>5. Intact'
      BY <1>0, <2>1, <3>1 DEF InPlace, Intact
    <3>6. read_buffer' = <<>> /\ Len(read_buffer') = 0
      <4>1. Consume(<<>>, (length + 1) % SizeModulus) = <<>>
        BY <3>4, IntWidths, EmptySeq DEF Consume
      <4> QED BY <2>1, <3>1, <4>1, EmptySeq
    <3>7. Reading' = Reading /\ ends'[Reading] = ends[Reading] /\ sent' = sent
      BY <2>1 DEF Reading
    <3>8. /\ data_length' = length /\ missing' = length
          /\ ends[Reading] - length = received /\ received' = received
          /\ received \in Nat
      BY <1>0, <2>1, <3>2, <3>4
    <3> HIDE DEF after, length
    <3>9. BufferFrom(ends[Reading] - data_length)'
      <4>1. received' - (ends[Reading] - data_length)' = 0
        BY <3>7, <3>8
      <4>2. (ends[Reading] - data_length)' <= received'
        BY <3>7, <3>8
      <4> QED BY <3>6, <4>1, <4>2 DEF BufferFrom
    <3>10. InBody'
      BY <1>0, <2>1, <3>2, <3>4, <3>7, <3>8, <3>9 DEF InBody, Reading
    <3>11. InHeader'
      BY <2>1 DEF InHeader
    <3> QED BY <3>5, <3>10, <3>11
  <2> QED BY <2>2, <2>3 DEF InPlace
<1>8. CASE BodyRead
  <2> DEFINE body == SubSeq(read_buffer, 1, data_length)
  <2>1. /\ chain = "body" /\ missing = 0 /\ chain' = "header"
        /\ delivered' = Append(delivered, body)
        /\ read_buffer' = Consume(Consume(read_buffer, data_length), data_length)
        /\ UNCHANGED <<sent, stream, ends, received, overshot>>
    BY <1>8 DEF BodyRead, peerVars
  <2>2. Layout'
    BY <1>0, <2>1, LayoutKept
  <2>3. ASSUME ~ overshot PROVE (Intact /\ InHeader /\ InBody)'
    <3> DEFINE m == sent[Reading]
               h == Len(Header(m))
               start == Start(Reading - 1)
    <3>1. /\ Intact /\ Reading \in 1 .. Len(sent) /\ data_length = Len(m)
          /\ received = ends[Reading] - 0
          /\ BufferFrom(ends[Reading] - data_length)
      BY <1>0, <2>1, <2>3 DEF InPlace, InBody, Reading
    <3>2. /\ m \in Payloads /\ FrameAt(Reading) /\ start \in Nat /\ ends[Reading] \in Nat
          /\ Start(Reading) = ends[Reading]
      BY <1>0, <3>1, Positions
    <3>3. /\ h \in Nat /\ Len(m) \in Nat /\ m \in Seq(Byte)
          /\ Len(Frame(m)) = h + 1 + Len(m)
          /\ \A i \in 1 .. Len(m) : Frame(m)[h + 1 + i] = m[i]
      BY <3>2, FrameShape
    <3>4. /\ ends[Reading] = start + (h + 1 + Len(m))
          /\ \A i \in 1 .. h + 1 + Len(m) : stream[start + i] = Frame(m)[i]
      BY <3>2, <3>3 DEF FrameAt
    <3> HIDE DEF m, h, start
    <3>5. /\ ends[Reading] - data_length = start + (h + 1)
          /\ Len(read_buffer) = Len(m)
          /\ \A i \in 1 .. Len(m) : read_buffer[i] = stream[start + (h + 1) + i]
      <4>1. /\ ends[Reading] - data_length = start + (h + 1)
            /\ received - (ends[Reading] - data_length) = Len(m)
        BY <3>1, <3>2, <3>3, <3>4
      <4> QED BY <3>1, <4>1 DEF BufferFrom
    <3>6. \A i \in 1 .. Len(m) : read_buffer[i] = m[i]
      <4>1. \A i \in 1 .. Len(m) : /\ h + 1 + i \in 1 .. h + 1 + Len(m)
                                  /\ start + (h + 1) + i = start + (h + 1 + i)
        BY <3>2, <3>3
      <4> QED BY <3>3, <3>4, <3>5, <4>1
    <3>7. read_buffer = m
      BY <1>0, <3>3, <3>5, <3>6, SeqEqual DEF TypeOK
    <3>8. body = m
      BY <3>1, <3>3, <3>7, SubSeqFull
    <3>9. Len(read_buffer') = 0
      <4>1. Consume(read_buffer, data_length) = <<>>
        BY <3>1, <3>3, <3>7 DEF Consume
      <4>2. Consume(<<>>, data_length) = <<>>
        BY <1>0, EmptySeq DEF Consume
      <4> QED BY <2>1, <4>1, <4>2, EmptySeq
    <3>10. /\ Len(delivered') = Reading /\ delivered'[Reading] = m
           /\ \A i \in 1 .. Len(delivered) : delivered'[i] = delivered[i]
           /\ delivered' \in Seq(Seq(Byte))
      <4>1. delivered \in Seq(Seq(Byte)) /\ delivered' = Append(delivered, m) /\ m \in Seq(Byte)
        BY <1>0, <2>1, <3>3, <3>8 DEF TypeOK
      <4> HIDE DEF body
      <4> QED BY <4>1, AppendProperties DEF Reading
    <3>11. Intact'
      <4>1. ASSUME NEW i \in 1 .. Reading
            PROVE  delivered'[i] = sent'[i]
        <5>1. CASE i = Reading
          BY <2>1, <3>10, <5>1 DEF m
        <5>2. CASE i # Reading
          BY <1>0, <2>1, <3>1, <3>10, <5>2, SMTT(30) DEF Intact, Reading
        <5> QED BY <5>1, <5>2
      <4> QED BY <2>1, <3>1, <3>10, <4>1 DEF Intact
    <3>12. InHeader'
      <4>1. Start(Len(delivered))' = ends[Reading]
        BY <1>0, <2>1, <3>1, <3>10 DEF Start, Reading
      <4>2. /\ received' = ends[Reading] /\ ends[Reading] \in Nat
            /\ received' - Start(Len(delivered))' = 0
        BY <2>1, <3>1, <3>2, <4>1
      <4> QED BY <3>9, <4>1, <4>2 DEF InHeader, BufferFrom
    <3>13. InBody'
      BY <2>1 DEF InBody
    <3> QED BY <3>11, <3>12, <3>13
  <2> QED BY <2>1, <2>2, <2>3 DEF InPlace
<1>9. CASE UNCHANGED vars
  BY <1>a, <1>9 DEF vars, readVars
<1> QED
  BY <1>1, <1>2, <1>3, <1>4, <1>5, <1>6, <1>7, <1>8, <1>9 DEF Next, IoStep

(***************************************************************************)
(* Whatever the messages, and however the stream is cut into reads: as long *)
(* as no read of a header brings in bytes that follow it, the node is given *)
(* the messages that were sent, whole and in order.                        *)
(***************************************************************************)
THEOREM IntactUnlessOvershotHolds == Spec => []IntactUnlessOvershot
<1>1. PlaceInv => IntactUnlessOvershot
  BY IntactIsPrefix DEF PlaceInv, TypeInv, InPlace, IntactUnlessOvershot
<1>2. TypeInv /\ PlaceInv /\ [Next]_vars => TypeInv' /\ PlaceInv'
  BY TypeNext, PlaceNext
<1> QED BY <1>1, <1>2, TypeInit, PlaceInit, PTL DEF Spec

-----------------------------------------------------------------------------
(* A stream that has been read to its end leaves no message behind. *)
LEMMA StreamReadOut ==
  ASSUME PlaceInv, ~ overshot, received = Len(stream),
         \/ chain = "header" /\ ~ HasLine(read_buffer)
         \/ chain = "body" /\ missing > 0
  PROVE  delivered = sent
<1>0. /\ TypeOK /\ Layout /\ Intact /\ InHeader /\ InBody
      /\ Len(delivered) \in Nat /\ Len(sent) \in Nat /\ Len(read_buffer) \in Nat
      /\ received \in Nat /\ missing \in Nat /\ Len(stream) \in Nat
  BY LenProperties DEF PlaceInv, TypeInv, TypeOK, InPlace
<1>1. ASSUME NEW k \in 1 .. Len(sent)
      PROVE  /\ sent[k] \in Payloads /\ ends[k] \in Nat /\ Start(k - 1) \in Nat
             /\ FrameAt(k) /\ ends[k] <= received
  BY <1>0, <1>1, Positions DEF FrameAt
<1>2. ~ (chain = "body" /\ missing > 0)
  <2> SUFFICES ASSUME chain = "body", missing > 0 PROVE FALSE
    OBVIOUS
  <2>1. Reading \in 1 .. Len(sent) /\ received = ends[Reading] - missing
    BY <1>0 DEF InBody, Reading
  <2> QED BY <1>0, <1>1, <2>1
<1>3. chain = "header" /\ ~ HasLine(read_buffer) /\ BufferFrom(Start(Len(delivered)))
  BY <1>0, <1>2 DEF InHeader
<1>4. Len(delivered) = Len(sent)
  <2> SUFFICES ASSUME Len(delivered) < Len(sent) PROVE FALSE
    BY <1>0 DEF Intact
  <2> DEFINE m == sent[Reading]
             h == Len(Header(m))
             start == Start(Len(delivered))
  <2>1. Reading \in 1 .. Len(sent) /\ Reading - 1 = Len(delivered)
    BY <1>0 DEF Reading
  <2>2. m \in Payloads /\ FrameAt(Reading) /\ ends[Reading] <= received
        /\ ends[Reading] \in Nat /\ start \in Nat
    BY <1>1, <2>1
  <2>3. h \in Nat /\ Len(m) \in Nat /\ Len(Frame(m)) = h + 1 + Len(m) /\ Frame(m)[h + 1] = CR
    BY <2>2, FrameShape
  <2>4. /\ ends[Reading] = start + (h + 1 + Len(m))
        /\ \A i \in 1 .. h + 1 + Len(m) : stream[start + i] = Frame(m)[i]
    BY <2>1, <2>2, <2>3 DEF FrameAt
  <2>5. /\ Len(read_buffer) = received - start
        /\ \A i \in 1 .. Len(read_buffer) : read_buffer[i] = stream[start + i]
    BY <1>3 DEF BufferFrom
  <2> HIDE DEF m, h, start
  <2>6. h + 1 \in 1 .. h + 1 + Len(m) /\ h + 1 \in 1 .. Len(read_buffer)
    BY <1>0, <2>2, <2>3, <2>4, <2>5
  <2>7. read_buffer[h + 1] = CR
    BY <2>3, <2>4, <2>5, <2>6
  <2> QED BY <1>3, <2>6, <2>7 DEF HasLine
<1>5. delivered \in Seq(Seq(Byte)) /\ sent \in Seq(Seq(Byte))
  <2>1. Payloads \subseteq Seq(Byte)
    BY PayloadsFit
  <2> QED BY <1>0, <2>1, SeqMonotonic DEF TypeOK
<1> QED BY <1>0, <1>4, <1>5, SeqEqual DEF Intact

LEMMA SurvivesNext == PlaceInv /\ ChainSurvives /\ [Next]_vars => ChainSurvives'
<1> SUFFICES ASSUME PlaceInv, ChainSurvives, [Next]_vars, chain' = "ended"
             PROVE  overshot' \/ peer' = "reset" \/ (peer' = "closed" /\ delivered' = sent')
  BY DEF ChainSurvives
<1>1. CASE ReadFails
  <2>1. UNCHANGED <<overshot, peer, delivered, sent>>
    BY <1>1 DEF ReadFails, peerVars
  <2> QED BY <1>1, <2>1, StreamReadOut DEF ReadFails
<1>2. CASE HeaderRejected
  <2>1. overshot' = overshot
    BY <1>2 DEF HeaderRejected
  <2>2. overshot
    <3> SUFFICES ASSUME ~ overshot PROVE FALSE
      OBVIOUS
    <3>1. Reading \in 1 .. Len(sent) /\ LineOf(read_buffer) = Header(sent[Reading])
      BY <1>2, HeaderInPlace DEF HeaderRejected
    <3>2. sent[Reading] \in Payloads
      BY <3>1, Positions DEF PlaceInv, TypeInv
    <3>3. ~ StoiThrows(LineOf(read_buffer))
      BY <3>1, <3>2, PayloadsFit DEF Header
    <3> QED BY <1>2, <3>3 DEF HeaderRejected
  <2> QED BY <2>1, <2>2
<1>3. CASE (\E m \in Payloads : Send(m)) \/ Hangup
  <2>1. chain = "ended" /\ peer = "open" /\ overshot' = overshot
    BY <1>3 DEF Send, Hangup, readVars
  <2> QED BY <2>1 DEF ChainSurvives
<1>4. CASE UNCHANGED vars
  BY <1>4 DEF vars, peerVars, readVars, ChainSurvives
<1>5. CASE \E n \in 1 .. Len(stream) - received : ReadHeaderSome(n) \/ ReadBodySome(n)
  BY <1>5 DEF ReadHeaderSome, ReadBodySome
<1>6. CASE HeaderAccepted \/ BodyRead
  BY <1>6 DEF HeaderAccepted, BodyRead
<1> QED BY <1>1, <1>2, <1>3, <1>4, <1>5, <1>6 DEF Next, IoStep

(***************************************************************************)
(* The chain of reads of a connection that is open does not end, and that of *)
(* one closed in good order ends only when every message has been handed on, *)
(* unless a header overshot: no length the peer writes stops it, and no      *)
(* cut of the stream makes it miss the last message.                        *)
(***************************************************************************)
THEOREM ChainSurvivesHolds == Spec => []ChainSurvives
<1>1. Init => ChainSurvives
  BY DEF Init, ChainSurvives
<1>2. TypeInv /\ PlaceInv /\ [Next]_vars => TypeInv' /\ PlaceInv'
  BY TypeNext, PlaceNext
<1> QED BY <1>1, <1>2, TypeInit, PlaceInit, SurvivesNext, PTL DEF Spec
-----------------------------------------------------------------------------
(***************************************************************************)
(* The bytes handed on.  BytesInOrder is inductive given the types: the     *)
(* handlers only drop bytes from the front of the buffer, and readBody drops *)
(* at least what it hands on.                                              *)
(***************************************************************************)
Drops(s, t, n) ==
  /\ n \in 0 .. Len(s) /\ Len(t) = Len(s) - n
  /\ \A i \in 1 .. Len(t) : t[i] = s[n + i]

LEMMA DropElements ==
  ASSUME NEW s \in Seq(Byte), NEW n \in 0 .. Len(s)
  PROVE  /\ Len(SubSeq(s, n + 1, Len(s))) = Len(s) - n
         /\ \A i \in 1 .. Len(s) - n : SubSeq(s, n + 1, Len(s))[i] = s[n + i]
<1>1. Len(s) \in Nat /\ n \in Nat /\ n <= Len(s) /\ \A i \in 1 .. Len(s) : s[i] \in Byte
  BY LenProperties
<1>2. CASE n = Len(s)
  <2>1. Len(s) + 1 > Len(s) /\ 1 .. Len(s) - n = {}
    BY <1>1, <1>2
  <2>2. SubSeq(s, n + 1, Len(s)) = <<>>
    BY <1>1, <1>2, <2>1, SubSeqEmpty
  <2> QED BY <1>1, <1>2, <2>1, <2>2, EmptySeq
<1>3. CASE n < Len(s)
  <2>1. /\ n + 1 \in Int /\ Len(s) \in Int /\ n + 1 <= Len(s)
        /\ Len(s) - (n + 1) + 1 = Len(s) - n
        /\ \A i \in n + 1 .. Len(s) : s[i] \in Byte
        /\ \A i \in 1 .. Len(s) - n : n + 1 + i - 1 = n + i
    BY <1>1, <1>3
  <2> QED BY <2>1, SubSeqProperties, SMTT(30)
<1> QED BY <1>1, <1>2, <1>3

LEMMA ConsumeDrops ==
  ASSUME NEW s \in Seq(Byte), NEW n \in Nat
  PROVE  \E k \in Nat : Drops(s, Consume(s, n), k) /\ (n <= Len(s) => k = n)
<1>1. Len(s) \in Nat
  BY LenProperties
<1>2. CASE n < Len(s)
  <2>1. Consume(s, n) = SubSeq(s, n + 1, Len(s))
    BY <1>2 DEF Consume
  <2>2. /\ Len(SubSeq(s, n + 1, Len(s))) = Len(s) - n
        /\ \A i \in 1 .. Len(s) - n : SubSeq(s, n + 1, Len(s))[i] = s[n + i]
    BY <1>1, <1>2, DropElements
  <2>3. Drops(s, Consume(s, n), n)
    BY <1>1, <1>2, <2>1, <2>2 DEF Drops
  <2> QED BY <2>3
<1>3. CASE ~ (n < Len(s))
  <2>1. Consume(s, n) = <<>>
    BY <1>3 DEF Consume
  <2>2. Drops(s, Consume(s, n), Len(s))
    BY <1>1, <2>1 DEF Drops
  <2>3. n <= Len(s) => Len(s) = n
    BY <1>1, <1>3
  <2> QED BY <1>1, <2>2, <2>3
<1> QED BY <1>2, <1>3

LEMMA AfterLineDrops ==
  ASSUME NEW s \in Seq(Byte), HasLine(s)
  PROVE  \E k \in Nat : Drops(s, AfterLine(s), k)
<1> DEFINE c == FirstCR(s)
<1>1. c \in 1 .. Len(s) /\ Len(s) \in Nat
  BY FirstCRIsFirst, LenProperties
<1>2. AfterLine(s) = SubSeq(s, c + 1, Len(s))
  BY DEF AfterLine
<1> HIDE DEF c
<1>3. /\ Len(SubSeq(s, c + 1, Len(s))) = Len(s) - c
      /\ \A i \in 1 .. Len(s) - c : SubSeq(s, c + 1, Len(s))[i] = s[c + i]
  BY <1>1, DropElements
<1>4. Drops(s, AfterLine(s), c)
  BY <1>1, <1>2, <1>3 DEF Drops
<1> QED BY <1>1, <1>4

LEMMA DropsTwice ==
  ASSUME NEW r, NEW s, NEW t, NEW j \in Nat, NEW k \in Nat, Len(r) \in Nat,
         Drops(r, s, j), Drops(s, t, k)
  PROVE  Drops(r, t, j + k)
<1>1. Len(s) = Len(r) - j /\ k \in 0 .. Len(s) /\ Len(t) = Len(r) - (j + k) /\ j + k \in 0 .. Len(r)
  BY DEF Drops
<1>2. ASSUME NEW i \in 1 .. Len(t) PROVE t[i] = r[j + k + i]
  <2>1. k + i \in 1 .. Len(s) /\ j + (k + i) = j + k + i
    BY <1>1
  <2> QED BY <2>1 DEF Drops
<1> QED BY <1>1, <1>2 DEF Drops

(* The buffer is what was received after Position. *)
InStream ==
  /\ Len(read_buffer) <= received
  /\ \A i \in DOMAIN read_buffer : read_buffer[i] = stream[Position + i]

Located == \E at \in [DOMAIN delivered -> 0 .. received] : Stretches(at)

LEMMA BytesParts == BytesInOrder <=> InStream /\ Located
  BY DEF BytesInOrder, InStream, Located

(* Dropping from the front leaves the rest where it was. *)
LEMMA DropInStream ==
  ASSUME TypeOK, InStream, UNCHANGED <<stream, received>>, TypeOK',
         NEW n \in Nat, Drops(read_buffer, read_buffer', n)
  PROVE  InStream' /\ Position' = Position + n
<1>1. /\ Len(read_buffer) \in Nat /\ Len(read_buffer') \in Nat /\ received \in Nat
      /\ DOMAIN read_buffer = 1 .. Len(read_buffer)
      /\ DOMAIN (read_buffer') = 1 .. Len(read_buffer')
  BY LenProperties DEF TypeOK
<1>2. Len(read_buffer') = Len(read_buffer) - n /\ Position' = Position + n
  BY <1>1 DEF Drops, Position
<1>3. ASSUME NEW i \in 1 .. Len(read_buffer')
      PROVE  read_buffer'[i] = stream[Position' + i]
  <2>1. n + i \in 1 .. Len(read_buffer) /\ Position + (n + i) = Position' + i
    BY <1>1, <1>2 DEF Position
  <2> QED BY <1>1, <2>1 DEF Drops, InStream
<1> QED BY <1>1, <1>2, <1>3 DEF InStream

(* What has been handed on stays where it was. *)
LEMMA LocatedKept ==
  ASSUME TypeOK, InStream, Located, UNCHANGED delivered, received' \in Nat, Position' \in Nat,
         received <= received', Position <= Position',
         \A i \in 1 .. received : stream'[i] = stream[i]
  PROVE  Located'
<1>1. PICK at \in [DOMAIN delivered -> 0 .. received] : Stretches(at)
  BY DEF Located
<1>2. /\ received \in Nat /\ Len(delivered) \in Nat /\ DOMAIN delivered = 1 .. Len(delivered)
      /\ Len(read_buffer) \in Nat /\ Position \in 0 .. received
      /\ \A k \in DOMAIN delivered :
           Len(delivered[k]) \in Nat /\ DOMAIN delivered[k] = 1 .. Len(delivered[k])
  BY LenProperties, SMTT(30) DEF TypeOK, InStream, Position
<1>3. at \in [DOMAIN delivered -> 0 .. received']
  BY <1>2
<1>4. ASSUME NEW k \in DOMAIN delivered
      PROVE  /\ at[k] + Len(delivered[k]) <= IF k < Len(delivered) THEN at[k + 1] ELSE Position'
             /\ \A i \in DOMAIN delivered[k] : delivered[k][i] = stream'[at[k] + i]
  <2>1. /\ at[k] + Len(delivered[k]) <= IF k < Len(delivered) THEN at[k + 1] ELSE Position
        /\ \A i \in DOMAIN delivered[k] : delivered[k][i] = stream[at[k] + i]
        /\ at[k] \in 0 .. received
    BY <1>1 DEF Stretches
  <2>2. k < Len(delivered) => k + 1 \in DOMAIN delivered /\ at[k + 1] \in 0 .. received
    BY <1>1, <1>2
  <2>3. at[k] + Len(delivered[k]) <= received
    BY <1>2, <2>1, <2>2, SMTT(30)
  <2>4. \A i \in DOMAIN delivered[k] : at[k] + i \in 1 .. received
    BY <1>2, <2>1, <2>3
  <2>5. at[k] + Len(delivered[k]) <= IF k < Len(delivered) THEN at[k + 1] ELSE Position'
    BY <1>2, <2>1, <2>2
  <2> QED BY <2>1, <2>4, <2>5
<1>5. Stretches(at)'
  BY <1>4 DEF Stretches
<1> QED BY <1>3, <1>5 DEF Located

(* A further body, which lies at Position.                                 *)
LEMMA LocatedFurther ==
  ASSUME TypeOK, InStream, Located, UNCHANGED <<received, stream>>, Position' \in Nat,
         NEW n \in Nat, n <= Len(read_buffer), Position + n <= Position',
         delivered' = Append(delivered, SubSeq(read_buffer, 1, n))
  PROVE  Located'
<1> DEFINE body == SubSeq(read_buffer, 1, n)
           last == Len(delivered) + 1
<1>1. PICK at \in [DOMAIN delivered -> 0 .. received] : Stretches(at)
  BY DEF Located
<1>2. /\ received \in Nat /\ Len(delivered) \in Nat /\ DOMAIN delivered = 1 .. Len(delivered)
      /\ delivered \in Seq(Seq(Byte))
      /\ read_buffer \in Seq(Byte) /\ Len(read_buffer) \in Nat /\ Position \in 0 .. received
      /\ DOMAIN read_buffer = 1 .. Len(read_buffer)
  BY LenProperties DEF TypeOK, InStream, Position
<1>3. /\ body \in Seq(Byte) /\ Len(body) = n /\ DOMAIN body = 1 .. n
      /\ \A i \in 1 .. n : body[i] = read_buffer[i]
  BY <1>2, SubSeqProperties
<1> HIDE DEF body
<1>4. /\ Len(delivered') = last /\ DOMAIN (delivered') = 1 .. last
      /\ \A k \in 1 .. Len(delivered) : delivered'[k] = delivered[k]
      /\ delivered'[last] = body
  BY <1>2, <1>3, AppendProperties, LenProperties DEF body
<1>5. PICK to \in [1 .. last -> 0 .. received] :
             to[last] = Position /\ \A k \in 1 .. Len(delivered) : to[k] = at[k]
  <2> DEFINE f == [k \in 1 .. last |-> IF k = last THEN Position ELSE at[k]]
  <2>1. ASSUME NEW k \in 1 .. last
        PROVE  (IF k = last THEN Position ELSE at[k]) \in 0 .. received
    <3>1. k # last => k \in DOMAIN delivered
      BY <1>2
    <3> QED BY <1>1, <1>2, <3>1
  <2>2. f \in [1 .. last -> 0 .. received]
    BY <2>1
  <2>3. f[last] = Position /\ \A k \in 1 .. Len(delivered) : f[k] = at[k]
    BY <1>2
  <2> HIDE DEF f
  <2> QED BY <2>2, <2>3
<1>6. ASSUME NEW k \in 1 .. Len(delivered)
      PROVE  /\ to[k] + Len(delivered'[k]) <= IF k < last THEN to[k + 1] ELSE Position'
             /\ \A i \in DOMAIN (delivered'[k]) : delivered'[k][i] = stream'[to[k] + i]
  <2>1. /\ at[k] + Len(delivered[k]) <= IF k < Len(delivered) THEN at[k + 1] ELSE Position
        /\ \A i \in DOMAIN delivered[k] : delivered[k][i] = stream[at[k] + i]
    BY <1>1, <1>2 DEF Stretches
  <2>2. k < last /\ to[k + 1] = IF k < Len(delivered) THEN at[k + 1] ELSE Position
    BY <1>2, <1>5
  <2> QED BY <1>4, <1>5, <2>1, <2>2
<1>7. /\ to[last] + Len(delivered'[last]) <= Position'
      /\ \A i \in DOMAIN (delivered'[last]) : delivered'[last][i] = stream'[to[last] + i]
  <2>1. \A i \in 1 .. n : i \in DOMAIN read_buffer
    BY <1>2
  <2> QED BY <1>3, <1>4, <1>5, <2>1 DEF InStream
<1>8. Stretches(to)'
  <2> SUFFICES ASSUME NEW k \in DOMAIN (delivered')
               PROVE  /\ to[k] + Len(delivered'[k]) <=
                           IF k < Len(delivered') THEN to[k + 1] ELSE Position'
                      /\ \A i \in DOMAIN (delivered'[k]) : delivered'[k][i] = stream'[to[k] + i]
    BY DEF Stretches
  <2>1. k \in 1 .. Len(delivered) \/ k = last
    BY <1>2, <1>4, SMTT(30)
  <2>2. ~ (last < Len(delivered'))
    BY <1>2, <1>4
  <2> QED BY <1>4, <1>6, <1>7, <2>1, <2>2, ZenonT(30)
<1>9. to \in [DOMAIN (delivered') -> 0 .. received']
  BY <1>4, <1>5
<1> QED BY <1>8, <1>9 DEF Located

LEMMA BytesInit == Init => BytesInOrder
<1> SUFFICES ASSUME Init PROVE InStream /\ Located
  BY BytesParts
<1>1. /\ Len(read_buffer) = 0 /\ DOMAIN read_buffer = {} /\ DOMAIN delivered = {} /\ received = 0
  BY EmptySeq DEF Init
<1>2. [k \in {} |-> 0] \in [DOMAIN delivered -> 0 .. received]
  BY <1>1
<1>3. Stretches([k \in {} |-> 0])
  BY <1>1 DEF Stretches
<1>4. Located
  BY <1>2, <1>3 DEF Located
<1> QED BY <1>1, <1>4 DEF InStream

LEMMA TransferInOrder ==
  ASSUME TypeOK, InStream, Located, NEW n \in 1 .. Len(stream) - received, Transfer(n),
         UNCHANGED <<stream, delivered>>
  PROVE  InStream' /\ Located'
<1>1. /\ Len(read_buffer) \in Nat /\ received \in Nat /\ Len(stream) \in Nat
      /\ DOMAIN read_buffer = 1 .. Len(read_buffer)
      /\ Len(read_buffer) <= received
      /\ \A i \in 1 .. Len(read_buffer) : read_buffer[i] = stream[Position + i]
  BY LenProperties DEF TypeOK, InStream
<1>2. /\ read_buffer' \in Seq(Byte) /\ Len(read_buffer') = Len(read_buffer) + n
      /\ received' = received + n
      /\ \A i \in 1 .. Len(read_buffer) : read_buffer'[i] = read_buffer[i]
      /\ \A i \in 1 .. n : read_buffer'[Len(read_buffer) + i] = stream[received + i]
  BY TransferTyped DEF Transfer
<1>3. Position' = Position /\ Position \in Nat
  BY <1>1, <1>2 DEF Position
<1>4. ASSUME NEW i \in 1 .. Len(read_buffer')
      PROVE  read_buffer'[i] = stream[Position + i]
  <2>1. CASE i \in 1 .. Len(read_buffer)
    BY <1>1, <1>2, <2>1
  <2>2. CASE i \notin 1 .. Len(read_buffer)
    <3>1. PICK j \in 1 .. n : i = Len(read_buffer) + j
      <4>1. i - Len(read_buffer) \in 1 .. n /\ i = Len(read_buffer) + (i - Len(read_buffer))
        BY <1>1, <1>2, <2>2
      <4> QED BY <4>1
    <3>2. Position + i = received + j
      BY <1>1, <3>1 DEF Position
    <3> QED BY <1>2, <3>1, <3>2
  <2> QED BY <2>1, <2>2
<1>5. DOMAIN (read_buffer') = 1 .. Len(read_buffer') /\ Len(read_buffer') <= received'
  BY <1>1, <1>2, LenProperties
<1>6. InStream'
  BY <1>3, <1>4, <1>5 DEF InStream
<1>7. Located'
  <2>1. received' \in Nat /\ received <= received' /\ Position' \in Nat /\ Position <= Position'
    BY <1>1, <1>2, <1>3
  <2> QED BY <2>1, LocatedKept
<1> QED BY <1>6, <1>7

LEMMA DropInOrder ==
  ASSUME TypeOK, InStream, Located, TypeOK', UNCHANGED <<stream, received, delivered>>,
         NEW n \in Nat, Drops(read_buffer, read_buffer', n)
  PROVE  InStream' /\ Located'
<1>1. InStream' /\ Position' = Position + n
  BY DropInStream
<1>2. received \in Nat /\ Position \in Nat
  BY LenProperties DEF TypeOK, InStream, Position
<1>3. Located'
  <2>1. Position' \in Nat /\ Position <= Position' /\ received' \in Nat /\ received <= received'
    BY <1>1, <1>2
  <2> QED BY <2>1, LocatedKept
<1> QED BY <1>1, <1>3

LEMMA BytesNext == TypeInv /\ BytesInOrder /\ [Next]_vars => BytesInOrder'
<1> SUFFICES ASSUME TypeInv, TypeInv', InStream, Located, [Next]_vars
             PROVE  InStream' /\ Located'
  <2>1. BytesInOrder' <=> (InStream /\ Located)'
    BY BytesParts, PTL
  <2> QED BY <2>1, BytesParts, TypeNext
<1> USE DEF TypeInv
<1>0. /\ TypeOK /\ TypeOK' /\ read_buffer \in Seq(Byte) /\ Len(read_buffer) \in Nat
      /\ received \in Nat /\ data_length \in Nat
  BY IntWidths, LenProperties DEF TypeOK
<1>1. ASSUME NEW m \in Payloads, Send(m)
      PROVE  InStream' /\ Located'
  <2>1. /\ UNCHANGED <<received, read_buffer, delivered>> /\ Position' = Position
        /\ stream' = stream \o Frame(m)
    BY <1>1 DEF Send, readVars, Position
  <2>2. Len(stream) \in Nat /\ received <= Len(stream) /\ stream \in Seq(Byte) /\ Frame(m) \in Seq(Byte)
    BY <1>0, FrameShape, LenProperties DEF TypeOK
  <2>3. \A i \in 1 .. received : stream'[i] = stream[i]
    BY <1>0, <2>1, <2>2, ConcatIndex
  <2>4. /\ Position \in Nat /\ DOMAIN read_buffer = 1 .. Len(read_buffer)
        /\ \A i \in DOMAIN read_buffer : Position + i \in 1 .. received
    BY <1>0, LenProperties DEF InStream, Position
  <2>5. InStream'
    BY <2>1, <2>3, <2>4 DEF InStream
  <2>6. Located'
    <3>1. /\ received' \in Nat /\ received <= received' /\ Position' \in Nat /\ Position <= Position'
          /\ UNCHANGED delivered
      BY <1>0, <2>1, <2>4
    <3> QED BY <1>0, <2>3, <3>1, LocatedKept
  <2> QED BY <2>5, <2>6
<1>2. ASSUME NEW n \in 1 .. Len(stream) - received, ReadHeaderSome(n) \/ ReadBodySome(n)
      PROVE  InStream' /\ Located'
  <2>1. Transfer(n) /\ UNCHANGED <<stream, delivered>>
    BY <1>2 DEF ReadHeaderSome, ReadBodySome, peerVars
  <2> QED BY <1>0, <2>1, TransferInOrder
<1>3. CASE HeaderRejected
  <2>1. /\ HasLine(read_buffer) /\ read_buffer' = AfterLine(read_buffer)
        /\ UNCHANGED <<stream, received, delivered>>
    BY <1>3 DEF HeaderRejected, peerVars
  <2>2. PICK k \in Nat : Drops(read_buffer, read_buffer', k)
    BY <1>0, <2>1, AfterLineDrops
  <2> QED BY <1>0, <2>1, <2>2, DropInOrder
<1>4. CASE HeaderAccepted
  <2> DEFINE rest == AfterLine(read_buffer)
             n == (DataLength(LineOf(read_buffer)) + 1) % SizeModulus
  <2>1. /\ HasLine(read_buffer) /\ read_buffer' = Consume(rest, n)
        /\ ~ StoiThrows(LineOf(read_buffer))
        /\ UNCHANGED <<stream, received, delivered>>
    BY <1>4 DEF HeaderAccepted, peerVars
  <2>2. n \in Nat
    <3>1. DataLength(LineOf(read_buffer)) \in 0 .. SizeModulus - 1
      BY <2>1, LengthTyped
    <3> QED BY <3>1, IntWidths
  <2>3. rest \in Seq(Byte)
    BY <1>0, <2>1, LineTyped
  <2>4. PICK j \in Nat : Drops(read_buffer, rest, j)
    BY <1>0, <2>1, AfterLineDrops
  <2> HIDE DEF rest, n
  <2>5. PICK k \in Nat : Drops(rest, read_buffer', k)
    BY <2>1, <2>2, <2>3, ConsumeDrops
  <2>6. Drops(read_buffer, read_buffer', j + k) /\ j + k \in Nat
    BY <1>0, <2>4, <2>5, DropsTwice
  <2> QED BY <1>0, <2>1, <2>6, DropInOrder
<1>5. CASE BodyRead
  <2> DEFINE rest == Consume(read_buffer, data_length)
  <2>1. /\ data_length <= Len(read_buffer)
        /\ delivered' = Append(delivered, SubSeq(read_buffer, 1, data_length))
        /\ read_buffer' = Consume(rest, data_length)
        /\ UNCHANGED <<stream, received>>
    BY <1>0, <1>5 DEF BodyRead, BodyBuffered, peerVars
  <2>2. rest \in Seq(Byte) /\ Drops(read_buffer, rest, data_length)
    BY <1>0, <2>1, ConsumeTyped, ConsumeDrops
  <2> HIDE DEF rest
  <2>3. PICK k \in Nat : Drops(rest, read_buffer', k)
    BY <1>0, <2>1, <2>2, ConsumeDrops
  <2>4. Drops(read_buffer, read_buffer', data_length + k) /\ data_length + k \in Nat
    BY <1>0, <2>2, <2>3, DropsTwice
  <2>5. InStream' /\ Position' = Position + (data_length + k)
    BY <1>0, <2>1, <2>4, DropInStream
  <2>6. Position \in Nat /\ Position' \in Nat /\ Position + data_length <= Position'
    BY <1>0, <2>5 DEF InStream, Position
  <2>7. Located'
    BY <1>0, <2>1, <2>6, LocatedFurther
  <2> QED BY <2>5, <2>7
<1>6. CASE Hangup \/ ReadFails \/ UNCHANGED vars
  <2>1. UNCHANGED <<stream, received, read_buffer, delivered>>
    BY <1>6 DEF Hangup, ReadFails, vars, peerVars, readVars
  <2> QED BY <2>1 DEF InStream, Located, Stretches, Position
<1> QED BY <1>1, <1>2, <1>3, <1>4, <1>5, <1>6 DEF Next, IoStep

(***************************************************************************)
(* Whatever happens to the reader's place, and whatever lengths it reads in  *)
(* consequence: the bodies it hands on are stretches of the stream that do  *)
(* not overlap and follow one another; no byte is handed on twice.         *)
(***************************************************************************)
THEOREM BytesInOrderHolds == Spec => []BytesInOrder
  BY TypeInit, TypeNext, BytesInit, BytesNext, PTL DEF Spec
-----------------------------------------------------------------------------
(***************************************************************************)
(* The reading side implements MessageChannel: Send is the peer's, BodyRead *)
(* is Deliver for as long as the reader keeps its place, which PlaceInv     *)
(* tells, and Garble after that; the header that overshoots is Garble too.  *)
(***************************************************************************)
LEMMA ChannelInit == Init => Channel!Init
  BY DEF Init, Channel!Init

LEMMA BodyReadDelivers ==
  ASSUME PlaceInv, PlaceInv', BodyRead
  PROVE  Channel!Deliver \/ Channel!Garble
<1> DEFINE body == SubSeq(read_buffer, 1, data_length)
<1>1. /\ delivered' = Append(delivered, body) /\ body \in Seq(Byte)
      /\ UNCHANGED <<sent, overshot>>
  <2>1. read_buffer \in Seq(Byte) /\ 1 \in Int /\ data_length \in Int
        /\ \A i \in 1 .. data_length : read_buffer[i] \in Byte
    <3>1. data_length \in Nat /\ data_length <= Len(read_buffer) /\ read_buffer \in Seq(Byte)
      BY DEF PlaceInv, TypeInv, TypeOK, BodyBuffered, BodyRead
    <3> QED BY <3>1
  <2> QED BY <2>1, SubSeqProperties DEF BodyRead, peerVars
<1> HIDE DEF body
<1>2. /\ Len(delivered) \in Nat /\ Len(delivered') = Len(delivered) + 1
      /\ \A k \in 1 .. Len(delivered) : delivered'[k] = delivered[k]
      /\ delivered'[Len(delivered) + 1] = body
  <2>1. delivered \in Seq(Seq(Byte))
    BY DEF PlaceInv, TypeInv, TypeOK
  <2> QED BY <1>1, <2>1, AppendProperties, LenProperties
<1>3. CASE overshot
  BY <1>1, <1>2, <1>3 DEF Channel!Garble
<1>4. CASE ~ overshot
  <2>1. Len(delivered') <= Len(sent) /\ \A i \in 1 .. Len(delivered') : delivered'[i] = sent[i]
    BY <1>1, <1>4 DEF PlaceInv, InPlace, Intact
  <2>2. Len(sent) \in Nat
    BY LenProperties DEF PlaceInv, TypeInv, TypeOK
  <2>3. Len(delivered) < Len(sent) /\ body = sent[Len(delivered) + 1]
    BY <1>2, <2>1, <2>2
  <2> QED BY <1>1, <1>4, <2>3 DEF Channel!Deliver
<1> QED BY <1>3, <1>4

LEMMA ChannelNext ==
  ASSUME PlaceInv, PlaceInv', [Next]_vars
  PROVE  [Channel!Next]_(Channel!vars)
<1>1. ASSUME NEW m \in Payloads, Send(m)
      PROVE  Channel!Send(m)
  BY <1>1 DEF Send, readVars, Channel!Send
<1>2. CASE Hangup \/ ReadFails \/ HeaderRejected \/ UNCHANGED vars
  BY <1>2 DEF Hangup, ReadFails, HeaderRejected, vars, peerVars, readVars, Channel!vars
<1>3. CASE \E n \in 1 .. Len(stream) - received : ReadHeaderSome(n) \/ ReadBodySome(n)
  BY <1>3 DEF ReadHeaderSome, ReadBodySome, peerVars, Channel!vars
<1>4. CASE HeaderAccepted
  <2>1. UNCHANGED <<sent, delivered>> /\ (overshot => overshot')
    BY <1>4, Zenon DEF HeaderAccepted, peerVars
  <2>2. Len(delivered) \in Nat
    BY LenProperties DEF PlaceInv, TypeInv, TypeOK
  <2>3. CASE overshot'
    BY <2>1, <2>2, <2>3 DEF Channel!Next, Channel!Garble
  <2>4. CASE ~ overshot'
    BY <2>1, <2>4 DEF Channel!vars
  <2> QED BY <2>1, <2>3, <2>4
<1>5. CASE BodyRead
  BY <1>5, BodyReadDelivers DEF Channel!Next
<1> QED BY <1>1, <1>2, <1>3, <1>4, <1>5 DEF Next, IoStep, Channel!Next

(***************************************************************************)
(* readHeader and readBody keep the promise of a channel, whatever the       *)
(* messages and however the stream is cut: no handler hands on anything but  *)
(* the next message, whole, until a header has overshot.                    *)
(***************************************************************************)
THEOREM ReaderImplementsChannel == Spec => KeepsPromise
<1>1. TypeInv /\ PlaceInv /\ [Next]_vars => TypeInv' /\ PlaceInv' /\ [Channel!Next]_(Channel!vars)
  BY TypeNext, PlaceNext, ChannelNext
<1> QED BY <1>1, TypeInit, PlaceInit, ChannelInit, PTL DEF Spec, KeepsPromise, Channel!Spec
=============================================================================
