------------------------------ MODULE Wire_proofs ------------------------------
(***************************************************************************)
(* A number comes off the wire as it went on it, for all 32-bit numbers,   *)
(* and a parameter takes no byte more or less off the wire than it put     *)
(* there, for all strings whose length is an int.                          *)
(***************************************************************************)
EXTENDS Wire, SequenceTheorems, TLAPS

\* What a length can be on the wire: an unsigned int.
UInt32 == {n \in Int : 0 <= n /\ n <= 4294967295}

-------------------------------------------------------------------------------
(* Numbers. *)

\* What a division by 256, 65536 or 16777216 leaves; SMT handles each by
\* itself.
LEMMA Division ==
  ASSUME NEW v \in Int
  PROVE  /\ v \div 256 \in Int /\ v \div 65536 \in Int /\ v \div 16777216 \in Int
         /\ v = 256 * (v \div 256) + (v % 256)
         /\ v \div 65536 = (v \div 256) \div 256
         /\ v \div 16777216 = (v \div 65536) \div 256
<1>1. v \div 256 \in Int /\ v = 256 * (v \div 256) + (v % 256)
  BY SMT
<1>2. v \div 65536 \in Int /\ v \div 65536 = (v \div 256) \div 256
  BY SMT
<1>3. v \div 16777216 \in Int /\ v \div 16777216 = (v \div 65536) \div 256
  BY SMT
<1> QED
  BY SMT, <1>1, <1>2, <1>3

\* What a number is on the wire: four bytes, whatever its size.
LEMMA FourBytes ==
  ASSUME NEW v \in Int
  PROVE  \E b1, b2, b3, b4 \in Byte : EncodeInt(v) = <<b1, b2, b3, b4>>
<1> DEFINE h == v \div 16777216
           m == v \div 65536
           l == v \div 256
<1>1. h \in Int /\ m \in Int /\ l \in Int
  BY SMT, Division
<1>2. \A n \in Int : n % 256 \in Byte
  BY SMT DEF Byte
<1>3. EncodeInt(v) = <<h % 256, m % 256, l % 256, v % 256>>
  BY SMT DEF EncodeInt
<1> HIDE DEF h, m, l
<1>4. /\ h % 256 \in Byte /\ m % 256 \in Byte
      /\ l % 256 \in Byte /\ v % 256 \in Byte
  BY <1>1, <1>2
<1> QED
  BY <1>3, <1>4

\* What comes back: the number itself, or, from 2^31 on, a negative one.
LEMMA ComesBack ==
  ASSUME NEW v \in Int, -2147483648 <= v, v < 4294967296
  PROVE  DecodeInt(EncodeInt(v)) = IF v < 2147483648 THEN v ELSE v - 4294967296
<1> DEFINE h == v \div 16777216
           m == v \div 65536
           l == v \div 256
<1>1. h \in -128..255
  BY SMT
<1>2. /\ m \in Int /\ l \in Int
      /\ v = 256 * l + (v % 256)
      /\ l = 256 * m + (l % 256)
      /\ m = 256 * h + (m % 256)
  BY SMT, Division
<1>3. EncodeInt(v) = <<h % 256, m % 256, l % 256, v % 256>>
  BY SMT DEF EncodeInt
<1>4. (IF h % 256 < 128 THEN h % 256 ELSE (h % 256) - 256)
        = IF h < 128 THEN h ELSE h - 256
  BY SMT, <1>1
<1>5. h < 128 <=> v < 2147483648
  BY SMT
<1>6. DecodeInt(EncodeInt(v))
        = (IF h < 128 THEN h ELSE h - 256) * 16777216
            + (m % 256) * 65536 + (l % 256) * 256 + (v % 256)
  BY SMT, <1>3, <1>4 DEF DecodeInt
<1> QED
  BY SMT, <1>1, <1>2, <1>5, <1>6

\* sendInt puts bytes on the wire, and recvInt makes of four bytes a number
\* an int can hold.
THEOREM WireTypes ==
  /\ \A v \in Int32 : EncodeInt(v) \in Byte \X Byte \X Byte \X Byte
  /\ \A b1, b2, b3, b4 \in Byte : DecodeInt(<<b1, b2, b3, b4>>) \in Int32
<1>1. ASSUME NEW v \in Int32
      PROVE  EncodeInt(v) \in Byte \X Byte \X Byte \X Byte
  <2>1. v \in Int
    BY SMT DEF Int32
  <2>2. PICK b1, b2, b3, b4 \in Byte : EncodeInt(v) = <<b1, b2, b3, b4>>
    BY <2>1, FourBytes
  <2> QED
    BY SMT, <2>2
<1>2. ASSUME NEW b1 \in Byte, NEW b2 \in Byte, NEW b3 \in Byte, NEW b4 \in Byte
      PROVE  DecodeInt(<<b1, b2, b3, b4>>) \in Int32
  <2>1. PICK t \in -128..127 : t = IF b1 < 128 THEN b1 ELSE b1 - 256
    BY SMT DEF Byte
  <2>2. DecodeInt(<<b1, b2, b3, b4>>)
          = t * 16777216 + b2 * 65536 + b3 * 256 + b4
    BY SMT, <2>1 DEF DecodeInt
  <2>3. /\ t * 16777216 + b2 * 65536 + b3 * 256 + b4 \in Int
        /\ -2147483647 - 1 <= t * 16777216 + b2 * 65536 + b3 * 256 + b4
        /\ t * 16777216 + b2 * 65536 + b3 * 256 + b4 <= 2147483647
    BY SMT DEF Byte
  <2>4. t * 16777216 + b2 * 65536 + b3 * 256 + b4 \in Int32
    BY SMT, <2>3 DEF Int32
  <2> QED
    BY SMT, <2>2, <2>4
<1> QED
  BY <1>1, <1>2

\* recvInt undoes sendInt: the number of a group or article, a length or a
\* count is read as it was written, negative ones included.
THEOREM IntRoundTrip == \A v \in Int32 : DecodeInt(EncodeInt(v)) = v
<1> SUFFICES ASSUME NEW v \in Int32
             PROVE  DecodeInt(EncodeInt(v)) = v
  OBVIOUS
<1>1. v \in Int /\ -2147483648 <= v /\ v < 2147483648
  BY SMT DEF Int32
<1>2. DecodeInt(EncodeInt(v)) = IF v < 2147483648 THEN v ELSE v - 4294967296
  BY SMT, <1>1, ComesBack
<1> QED
  BY SMT, <1>1, <1>2

\* An unsigned number no int holds comes back negative.
LEMMA Overflows ==
  ASSUME NEW v \in UInt32 \ Int32
  PROVE  DecodeInt(EncodeInt(v)) < 0
<1>1. v \in Int /\ 2147483648 <= v /\ v < 4294967296
  BY SMT DEF UInt32, Int32
<1>2. DecodeInt(EncodeInt(v)) = IF v < 2147483648 THEN v ELSE v - 4294967296
  BY SMT, <1>1, ComesBack
<1> QED
  BY SMT, <1>1, <1>2

-------------------------------------------------------------------------------
(* Parameters. *)

\* What two sequences of bytes are together.
LEMMA Joined ==
  ASSUME NEW t \in Seq(Byte), NEW u \in Seq(Byte), NEW b, b = t \o u
  PROVE  /\ Len(t) \in Nat /\ Len(u) \in Nat
         /\ b \in Seq(Byte) /\ Len(b) = Len(t) + Len(u)
         /\ \A i \in 1..Len(t) : b[i] = t[i]
         /\ \A i \in 1..Len(u) : b[Len(t) + i] = u[i]
<1>1. Len(t) \in Nat /\ Len(u) \in Nat
  BY SMT
<1>2. /\ b \in Seq(Byte) /\ Len(b) = Len(t) + Len(u)
      /\ \A i \in 1..(Len(t) + Len(u)) :
           b[i] = IF i <= Len(t) THEN t[i] ELSE u[i - Len(t)]
  BY ConcatProperties
<1>3. \A i \in 1..Len(t) : b[i] = t[i]
  BY SMT, <1>1, <1>2
<1>4. \A i \in 1..Len(u) : b[Len(t) + i] = u[i]
  BY SMT, <1>1, <1>2
<1> QED
  BY <1>1, <1>2, <1>3, <1>4

\* The first of two sequences is what the length of it cuts off.
LEMMA FirstPart ==
  ASSUME NEW t \in Seq(Byte), NEW u \in Seq(Byte)
  PROVE  SubSeq(t \o u, 1, Len(t)) = t
<1>1. PICK b : b = t \o u
  OBVIOUS
<1>2. /\ Len(t) \in Nat /\ Len(u) \in Nat
      /\ \A i \in 1..Len(t) : b[i] = t[i]
  BY <1>1, Joined
<1>3. \A i \in 1..Len(t) : b[i] \in Byte
  BY SMT, <1>2
<1>4. PICK a : a = SubSeq(b, 1, Len(t))
  OBVIOUS
<1>5. /\ a \in Seq(Byte)
      /\ Len(a) = IF 1 <= Len(t) THEN Len(t) - 1 + 1 ELSE 0
      /\ \A i \in 1..(Len(t) - 1 + 1) : a[i] = b[1 + i - 1]
  BY SMT, <1>2, <1>3, <1>4, SubSeqProperties
<1>6. Len(a) = Len(t) /\ \A i \in 1..Len(a) : a[i] = t[i]
  BY SMT, <1>2, <1>5
<1>7. a = t
  BY <1>5, <1>6, SeqEqual
<1> QED
  BY <1>1, <1>4, <1>7

\* And the second is what is left.
LEMMA SecondPart ==
  ASSUME NEW t \in Seq(Byte), NEW u \in Seq(Byte)
  PROVE  After(t \o u, Len(t)) = u
<1>1. PICK b : b = t \o u
  OBVIOUS
<1>2. /\ Len(t) \in Nat /\ Len(u) \in Nat
      /\ Len(b) = Len(t) + Len(u)
      /\ \A i \in 1..Len(u) : b[Len(t) + i] = u[i]
  BY <1>1, Joined
<1>3. b \in Seq(Byte)
  BY <1>1, Joined
<1>4. \A i \in (Len(t) + 1)..Len(b) : b[i] \in Byte
  BY SMT, <1>2, <1>3
<1>5. PICK a : a = SubSeq(b, Len(t) + 1, Len(b))
  OBVIOUS
<1>6. /\ a \in Seq(Byte)
      /\ Len(a) = IF Len(t) + 1 <= Len(b) THEN Len(b) - (Len(t) + 1) + 1 ELSE 0
      /\ \A i \in 1..(Len(b) - (Len(t) + 1) + 1) : a[i] = b[Len(t) + 1 + i - 1]
  BY SMT, <1>2, <1>4, <1>5, SubSeqProperties
<1>7. Len(a) = Len(u)
  BY SMT, <1>2, <1>6
<1>8. ASSUME NEW i \in 1..Len(a)
      PROVE  a[i] = u[i]
  <2>1. /\ i \in 1..Len(u) /\ i \in 1..(Len(b) - (Len(t) + 1) + 1)
        /\ Len(t) + 1 + i - 1 = Len(t) + i
    BY SMT, <1>2, <1>7
  <2>2. a[i] = b[Len(t) + i]
    BY <1>6, <2>1
  <2> QED
    BY <1>2, <2>1, <2>2
<1>9. a = u
  BY <1>6, <1>7, <1>8, SeqEqual
<1> QED
  BY <1>1, <1>5, <1>9 DEF After

\* A kind and a number are five bytes, of which the number is read back.
LEMMA Header ==
  ASSUME NEW k \in Byte, NEW v \in Int, NEW t \in Seq(Byte)
  PROVE  /\ (<<k>> \o EncodeInt(v)) \in Seq(Byte)
         /\ IntIn((<<k>> \o EncodeInt(v)) \o t) = DecodeInt(EncodeInt(v))
         /\ After((<<k>> \o EncodeInt(v)) \o t, 5) = t
<1>1. PICK b1, b2, b3, b4 \in Byte : EncodeInt(v) = <<b1, b2, b3, b4>>
  BY FourBytes
<1>2. PICK kind : kind = <<k>>
  OBVIOUS
<1>3. PICK number : number = EncodeInt(v)
  OBVIOUS
<1>4. kind \in Seq(Byte) /\ Len(kind) = 1
  BY SMT, <1>2
<1>5. /\ number \in Seq(Byte) /\ Len(number) = 4
      /\ number[1] = b1 /\ number[2] = b2 /\ number[3] = b3 /\ number[4] = b4
  BY SMT, <1>1, <1>3
<1>6. PICK head : head = kind \o number
  OBVIOUS
<1>7. /\ head \in Seq(Byte) /\ Len(head) = Len(kind) + Len(number)
      /\ \A i \in 1..Len(number) : head[Len(kind) + i] = number[i]
  <2>1. kind \in Seq(Byte) /\ number \in Seq(Byte)
    BY <1>4, <1>5
  <2> QED
    BY <1>6, <2>1, Joined
<1>8. /\ Len(head) = 5
      /\ head[2] = b1 /\ head[3] = b2 /\ head[4] = b3 /\ head[5] = b4
  BY SMT, <1>4, <1>5, <1>7
<1>9. PICK b : b = head \o t
  OBVIOUS
<1>10. \A i \in 1..Len(head) : b[i] = head[i]
  BY <1>7, <1>9, Joined
<1>11. b[2] = b1 /\ b[3] = b2 /\ b[4] = b3 /\ b[5] = b4
  BY SMT, <1>8, <1>10
<1>12. IntIn(b) = DecodeInt(EncodeInt(v))
  BY <1>1, <1>11 DEF IntIn
<1>13. After(b, Len(head)) = t
  BY <1>7, <1>9, SecondPart
<1>14. After(b, 5) = t
  BY <1>8, <1>13
<1>15. head = <<k>> \o EncodeInt(v)
  BY <1>2, <1>3, <1>6
<1> QED
  BY <1>7, <1>9, <1>12, <1>14, <1>15

\* A number parameter is read as it was sent, and the read stops where it
\* ends, whatever follows.
THEOREM NumberFraming ==
  ASSUME NEW v \in Int32, NEW rest \in Seq(Byte)
  PROVE  RecvIntParameter(SendIntParameter(v) \o rest)
           = [value |-> v, rest |-> rest]
<1>1. v \in Int /\ PAR_NUM \in Byte
  BY SMT DEF Int32, PAR_NUM, Byte
<1>2. /\ IntIn((<<PAR_NUM>> \o EncodeInt(v)) \o rest) = DecodeInt(EncodeInt(v))
      /\ After((<<PAR_NUM>> \o EncodeInt(v)) \o rest, 5) = rest
  BY <1>1, Header
<1>3. DecodeInt(EncodeInt(v)) = v
  BY IntRoundTrip
<1> QED
  BY <1>2, <1>3 DEF RecvIntParameter, SendIntParameter

\* The length of a string parameter is read as recvInt reads it, and leaves
\* the characters and what follows.
LEMMA StringHeader ==
  ASSUME NEW s \in Seq(Byte), NEW rest \in Seq(Byte)
  PROVE  /\ IntIn(SendStringParameter(s) \o rest) = DecodeInt(EncodeInt(Len(s)))
         /\ After(SendStringParameter(s) \o rest, 5) = s \o rest
<1>1. Len(s) \in Int /\ PAR_STRING \in Byte
  BY SMT DEF PAR_STRING, Byte
<1>2. s \o rest \in Seq(Byte)
  BY ConcatProperties
<1>3. PICK n \in Int : n = Len(s)
  BY <1>1
<1>4. PICK head : head = <<PAR_STRING>> \o EncodeInt(n)
  OBVIOUS
<1>5. PICK tail : tail = s \o rest
  OBVIOUS
<1>6. /\ head \in Seq(Byte)
      /\ IntIn(head \o tail) = DecodeInt(EncodeInt(n))
      /\ After(head \o tail, 5) = tail
  BY <1>1, <1>2, <1>4, <1>5, Header
<1>7. (head \o s) \o rest = head \o tail
  BY <1>5, <1>6, ConcatAssociative
<1>8. SendStringParameter(s) = head \o s
  BY <1>3, <1>4 DEF SendStringParameter
<1> QED
  BY <1>3, <1>5, <1>6, <1>7, <1>8

\* A string parameter is read as it was sent, and the read stops where it
\* ends, whatever its characters and whatever follows.
THEOREM StringFraming ==
  ASSUME NEW s \in Seq(Byte), NEW rest \in Seq(Byte), Len(s) \in Int32
  PROVE  RecvStringParameter(SendStringParameter(s) \o rest)
           = [value |-> s, rest |-> rest]
<1>1. PICK b : b = SendStringParameter(s) \o rest
  OBVIOUS
<1>2. IntIn(b) = Len(s) /\ After(b, 5) = s \o rest
  BY <1>1, StringHeader, IntRoundTrip
<1>3. ~(Len(s) < 0)
  BY SMT
<1>4. SubSeq(s \o rest, 1, Len(s)) = s /\ After(s \o rest, Len(s)) = rest
  BY FirstPart, SecondPart
<1> QED
  BY <1>1, <1>2, <1>3, <1>4 DEF RecvStringParameter

\* The length of a string of 2^31 characters or more reads as a negative
\* number: the string is received as the empty one, and all its characters
\* are left for the codes that are read next.
THEOREM LongStringOverflows ==
  ASSUME NEW s \in Seq(Byte), NEW rest \in Seq(Byte),
         Len(s) \in UInt32 \ Int32
  PROVE  RecvStringParameter(SendStringParameter(s) \o rest)
           = [value |-> <<>>, rest |-> s \o rest]
<1>1. PICK b : b = SendStringParameter(s) \o rest
  OBVIOUS
<1>2. /\ IntIn(b) = DecodeInt(EncodeInt(Len(s)))
      /\ After(b, 5) = s \o rest
  BY <1>1, StringHeader
<1>3. IntIn(b) < 0
  BY <1>2, Overflows
<1>4. PICK tail \in Seq(Byte) : tail = s \o rest
  BY ConcatProperties
<1>5. PICK none : none = <<>>
  OBVIOUS
<1>6. none \in Seq(Byte) /\ Len(none) = 0 /\ none \o tail = tail
  BY <1>4, <1>5, ConcatEmptySeq, SMT
<1>7. SubSeq(none \o tail, 1, Len(none)) = none /\ After(none \o tail, Len(none)) = tail
  BY <1>4, <1>6, FirstPart, SecondPart
<1>8. SubSeq(tail, 1, 0) = <<>> /\ After(tail, 0) = tail
  BY <1>5, <1>6, <1>7
<1> QED
  BY <1>1, <1>2, <1>3, <1>4, <1>8 DEF RecvStringParameter

===============================================================================
