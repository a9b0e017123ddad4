---------------------------- MODULE MCFrameReader ----------------------------
(***************************************************************************)
(* Payloads that, once the reader has lost its place in the stream, parse   *)
(* as a header in every way std::stoi distinguishes: the empty message, a   *)
(* body of its own, a length, a negative length, one that is out of range,  *)
(* and a line without a digit.                                              *)
(***************************************************************************)
EXTENDS FrameReader

MCPayloads == { <<>>, <<Other>>, <<1, CR>>, <<Minus, 1, CR>>, <<9, 9, CR, CR>> }

(* std::stoi, the textbook way: fold the digits up to the first non-digit. *)
FoldedMagnitude(s) ==
  FoldLeft(LAMBDA acc, b : IF acc.open /\ b \in Digits
                             THEN [open |-> TRUE, n |-> 10 * acc.n + b]
                             ELSE [open |-> FALSE, n |-> acc.n],
           [open |-> TRUE, n |-> 0], s).n

Lines == BoundedSeq({0, 2, 9, Minus, Other}, 4)

(* The length of a line is that number, wrapped if it is signed, and there  *)
(* is none when no digit leads or when the number is out of range.         *)
ASSUME StoiAgrees ==
  \A line \in Lines :
    LET digits == IF Signed(line) THEN Tail(line) ELSE line
        n      == FoldedMagnitude(digits)
    IN  /\ StoiThrows(line) <=> \/ digits = <<>>
                                \/ digits[1] \notin Digits
                                \/ n > IF Signed(line) THEN IntMax + 1 ELSE IntMax
        /\ ~ StoiThrows(line) =>
             DataLength(line) = IF Signed(line) THEN (SizeModulus - n) % SizeModulus ELSE n

(* The length that operator<< writes is the length that std::stoi reads, up *)
(* to the greatest int.                                                     *)
ASSUME LengthRoundTrip ==
  /\ \A n \in 0 .. IntMax : ~ StoiThrows(Decimal[n]) /\ DataLength(Decimal[n]) = n
  /\ StoiThrows(Decimal[IntMax + 1])
=============================================================================
