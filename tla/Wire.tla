--------------------------------- MODULE Wire ---------------------------------
(***************************************************************************)
(* How messagehandler.cc puts parameters on the wire and takes them off    *)
(* again.  A number is four bytes, the most significant first, of a 32-bit *)
(* two's complement number; a string is its length and its characters.     *)
(* What is received is taken off the front of the bytes that have come; a  *)
(* read of more than these waits, and is not described here.               *)
(***************************************************************************)
EXTENDS Integers, Sequences, Protocol

Byte == 0..255
Int32 == {n \in Int : -2147483647 - 1 <= n /\ n <= 2147483647}

\* sendInt: (value >> k) & 0xFF, where >> keeps the sign.
EncodeInt(value) ==
  <<(value \div 16777216) % 256, (value \div 65536) % 256,
    (value \div 256) % 256, value % 256>>

\* recvInt: b1 << 24 | b2 << 16 | b3 << 8 | b4; b1 << 24 reaches the sign.
DecodeInt(b) ==
  (IF b[1] < 128 THEN b[1] ELSE b[1] - 256) * 16777216
    + b[2] * 65536 + b[3] * 256 + b[4]

SendIntParameter(value) == <<PAR_NUM>> \o EncodeInt(value)

SendStringParameter(s) == (<<PAR_STRING>> \o EncodeInt(Len(s))) \o s

\* The number after a kind.  Of a wrong kind both ends only report that it is.
IntIn(bytes) == DecodeInt(<<bytes[2], bytes[3], bytes[4], bytes[5]>>)

\* The bytes that follow the first n.
After(bytes, n) == SubSeq(bytes, n + 1, Len(bytes))

RecvIntParameter(bytes) == [value |-> IntIn(bytes), rest |-> After(bytes, 5)]

\* A negative length is reported, and read as 0.
RecvStringParameter(bytes) ==
  LET n == IF IntIn(bytes) < 0 THEN 0 ELSE IntIn(bytes)
      characters == After(bytes, 5)
  IN  [value |-> SubSeq(characters, 1, n), rest |-> After(characters, n)]

===============================================================================
