------------------------------- MODULE Framing -------------------------------
(***************************************************************************)
(* The frame a message travels in, and how the length in front of it is    *)
(* read back.  A message m is sent as the decimal number of its bytes, the  *)
(* byte '\r', and m itself (SocketHandler::enqueueOutgoingMessage); the    *)
(* length is read back with std::stoi into a size_t (readHeader).          *)
(***************************************************************************)
EXTENDS Integers, Sequences

CONSTANTS IntMax,       (* the greatest int                                 *)
          SizeModulus   (* one more than the greatest size_t                *)

ASSUME IntWidths == /\ IntMax \in Nat
                    /\ SizeModulus \in Nat
                    /\ SizeModulus > 2 * (IntMax + 1)

(* The bytes the code tells apart: the ten digits, the delimiter, the minus *)
(* sign, and any byte that is none of these, white space or a plus sign.    *)
Digits == 0 .. 9
CR     == 10
Minus  == 11
Other  == 12
Byte   == Digits \cup {CR, Minus, Other}

(* What operator<<(size_t) writes. *)
Decimal[n \in Nat] ==
  IF n < 10 THEN <<n>> ELSE Append(Decimal[n \div 10], n % 10)

Frame(m) == Decimal[Len(m)] \o <<CR>> \o m

-----------------------------------------------------------------------------
HasLine(s) == \E i \in 1 .. Len(s) : s[i] = CR

FirstCR(s) == CHOOSE i \in 1 .. Len(s) :
                s[i] = CR /\ \A j \in 1 .. i - 1 : s[j] # CR

(* std::getline extracts the line and its delimiter, and keeps the line. *)
LineOf(s)    == SubSeq(s, 1, FirstCR(s) - 1)
AfterLine(s) == SubSeq(s, FirstCR(s) + 1, Len(s))

(* streambuf::consume(n): the first n bytes, or all of them if n is more.   *)
(* (An n near the top of size_t, as from a length of -2, wraps in asio's     *)
(* pointer arithmetic; that is not modelled.  The body of such a length is  *)
(* never complete, so nothing is delivered of what the buffer then holds.)  *)
Consume(s, n) == IF n < Len(s) THEN SubSeq(s, n + 1, Len(s)) ELSE <<>>

-----------------------------------------------------------------------------
(* std::stoi takes the longest run of digits after an optional sign,       *)
(* leading zeros included, and ignores what follows it.                    *)
Signed(line) == line # <<>> /\ line[1] = Minus

Denotes(s, n) ==
  \E zeros \in 0 .. Len(s) - Len(Decimal[n]) :
    LET end == zeros + Len(Decimal[n])
    IN  /\ \A i \in 1 .. zeros : s[i] = 0
        /\ SubSeq(s, zeros + 1, end) = Decimal[n]
        /\ end < Len(s) => s[end + 1] \notin Digits

(* It throws when there is no digit and when the value is not an int. *)
Magnitudes(line) ==
  IF Signed(line) THEN {n \in 0 .. IntMax + 1 : Denotes(Tail(line), n)}
                  ELSE {n \in 0 .. IntMax : Denotes(line, n)}

StoiThrows(line) == Magnitudes(line) = {}

(* data_length = std::stoi(line): a negative int wraps as a size_t. *)
DataLength(line) ==
  LET n == CHOOSE n \in Magnitudes(line) : TRUE
  IN  IF Signed(line) /\ n > 0 THEN SizeModulus - n ELSE n
=============================================================================
