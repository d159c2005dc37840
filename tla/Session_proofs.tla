---------------------------- MODULE Session_proofs ----------------------------
(***************************************************************************)
(* Proofs about Session, for any lines, any numbers and any store of       *)
(* finitely many of them, and a wire of any size.                          *)
(***************************************************************************)
EXTENDS Session, Wire_proofs, OrderedMap_proofs

-------------------------------------------------------------------------------
(* Sequences of whatever is on the wire.                                     *)

Elements(s) == {s[i] : i \in 1..Len(s)}

LEMMA SeqOfElements ==
  ASSUME NEW s, Sequence(s)
  PROVE  s \in Seq(Elements(s))
  BY DEF Sequence, Elements

LEMMA SeqIsSequence ==
  ASSUME NEW S, NEW s \in Seq(S)
  PROVE  Sequence(s)
  BY DEF Sequence

LEMMA Together ==
  ASSUME NEW s, NEW t, NEW u, Sequence(s), Sequence(t), Sequence(u)
  PROVE  \E S : s \in Seq(S) /\ t \in Seq(S) /\ u \in Seq(S)
  <1> DEFINE S == (Elements(s) \cup Elements(t)) \cup Elements(u)
  <1>1. s \in Seq(S)
    BY SeqOfElements, SeqMonotonic
  <1>2. t \in Seq(S)
    BY SeqOfElements, SeqMonotonic
  <1>3. u \in Seq(S)
    BY SeqOfElements, SeqMonotonic
  <1> QED
    BY <1>1, <1>2, <1>3

LEMMA NoneAndOne ==
  /\ Sequence(<<>>) /\ Len(<<>>) = 0
  /\ \A x : Sequence(<<x>>) /\ Len(<<x>>) = 1 /\ <<x>>[1] = x
  BY DEF Sequence

LEMMA Concat ==
  \A s, t :
    Sequence(s) /\ Sequence(t) =>
      /\ Sequence(s \o t)
      /\ Len(s \o t) = Len(s) + Len(t)
      /\ \A i \in 1..(Len(s) + Len(t)) :
           (s \o t)[i] = IF i <= Len(s) THEN s[i] ELSE t[i - Len(s)]
  <1> SUFFICES ASSUME NEW s, NEW t, Sequence(s), Sequence(t)
               PROVE  /\ Sequence(s \o t)
                      /\ Len(s \o t) = Len(s) + Len(t)
                      /\ \A i \in 1..(Len(s) + Len(t)) :
                           (s \o t)[i] = IF i <= Len(s) THEN s[i] ELSE t[i - Len(s)]
    OBVIOUS
  <1>1. PICK S : s \in Seq(S) /\ t \in Seq(S)
    BY Together
  <1> QED
    BY <1>1, ConcatProperties, SeqIsSequence

LEMMA ConcatNone ==
  \A s :
    Sequence(s) =>
      s \o <<>> = s /\ <<>> \o s = s
  <1> SUFFICES ASSUME NEW s, Sequence(s)
               PROVE  s \o <<>> = s /\ <<>> \o s = s
    OBVIOUS
  <1>1. s \in Seq(Elements(s))
    BY SeqOfElements
  <1> QED
    BY <1>1, ConcatEmptySeq

LEMMA Associative ==
  \A s, t, u : Sequence(s) /\ Sequence(t) /\ Sequence(u) =>
                 (s \o t) \o u = s \o (t \o u)
  <1> TAKE s, t, u
  <1> HAVE Sequence(s) /\ Sequence(t) /\ Sequence(u)
  <1>1. PICK S : s \in Seq(S) /\ t \in Seq(S) /\ u \in Seq(S)
    BY Together
  <1> QED
    BY <1>1, ConcatAssociative, SMTT(30)

LEMMA SameSequence ==
  \A s, t :
      /\ Sequence(s) /\ Sequence(t) /\ Len(s) = Len(t)
      /\ \A i \in 1..Len(s) : s[i] = t[i]
    =>
      s = t
  <1> SUFFICES ASSUME NEW s, NEW t, Sequence(s), Sequence(t), Len(s) = Len(t),
                      \A i \in 1..Len(s) : s[i] = t[i]
               PROVE  s = t
    OBVIOUS
  <1> QED
    BY DEF Sequence

LEMMA EmptyIs == \A s : Sequence(s) => (Len(s) = 0 <=> s = <<>>)
  BY NoneAndOne, SameSequence

\* What one end takes off the wire.
LEMMA HeadAndTail ==
  \A s :
    Sequence(s) /\ s # <<>> =>
      /\ Head(s) = s[1] /\ Len(s) > 0
      /\ Sequence(Tail(s)) /\ Len(Tail(s)) = Len(s) - 1
      /\ s = <<Head(s)>> \o Tail(s)
  <1> SUFFICES ASSUME NEW s, Sequence(s), s # <<>>
               PROVE  /\ Head(s) = s[1] /\ Len(s) > 0
                      /\ Sequence(Tail(s)) /\ Len(Tail(s)) = Len(s) - 1
                      /\ s = <<Head(s)>> \o Tail(s)
    OBVIOUS
  <1>1. s \in Seq(Elements(s))
    BY SeqOfElements
  <1>2. /\ Tail(s) \in Seq(Elements(s)) /\ Len(Tail(s)) = Len(s) - 1
        /\ \A i \in 1..Len(Tail(s)) : Tail(s)[i] = s[i + 1]
        /\ Head(s) = s[1] /\ Len(s) > 0 /\ Len(s) \in Nat
    BY <1>1, HeadTailProperties, EmptySeq
  <1>3. Sequence(Tail(s))
    BY <1>2, SeqIsSequence
  <1>4. s = <<Head(s)>> \o Tail(s)
    <2>1. /\ Sequence(<<Head(s)>> \o Tail(s))
          /\ Len(<<Head(s)>> \o Tail(s)) = 1 + Len(Tail(s))
          /\ \A i \in 1..(1 + Len(Tail(s))) :
               (<<Head(s)>> \o Tail(s))[i]
                 = IF i <= 1 THEN <<Head(s)>>[i] ELSE Tail(s)[i - 1]
      BY <1>3, NoneAndOne, Concat
    <2>2. ASSUME NEW i \in 1..Len(s)
          PROVE  s[i] = (<<Head(s)>> \o Tail(s))[i]
      <3>1. CASE i = 1
        BY <1>2, <2>1, <3>1
      <3>2. CASE i # 1
        BY <1>2, <2>1, <3>2
      <3> QED
        BY <3>1, <3>2
    <2> QED
      BY <1>2, <2>1, <2>2, SameSequence
  <1> QED
    BY <1>2, <1>3, <1>4

LEMMA OneThen ==
  \A x, s : Sequence(s) =>
    /\ Sequence(<<x>> \o s) /\ Len(<<x>> \o s) = Len(s) + 1
    /\ (<<x>> \o s)[1] = x
    /\ \A i \in 1..Len(s) : (<<x>> \o s)[i + 1] = s[i]
  <1> TAKE x, s
  <1> HAVE Sequence(s)
  <1> DEFINE t == <<x>> \o s
  <1>1. /\ Sequence(t) /\ Len(t) = 1 + Len(s) /\ Len(s) \in Nat
        /\ \A i \in 1..(1 + Len(s)) :
             t[i] = IF i <= 1 THEN <<x>>[i] ELSE s[i - 1]
    BY NoneAndOne, Concat DEF Sequence
  <1> HIDE DEF t
  <1>2. \A i \in 1..Len(s) : t[i + 1] = s[i]
    BY <1>1
  <1>3. t[1] = x
    BY <1>1
  <1> QED
    BY <1>1, <1>2, <1>3 DEF t

LEMMA OneFirst ==
  \A x, s :
    Sequence(s) =>
      /\ Sequence(<<x>> \o s) /\ Len(<<x>> \o s) = Len(s) + 1
      /\ <<x>> \o s # <<>>
      /\ Head(<<x>> \o s) = x /\ Tail(<<x>> \o s) = s
  <1> SUFFICES ASSUME NEW x, NEW s, Sequence(s)
               PROVE  /\ Sequence(<<x>> \o s) /\ Len(<<x>> \o s) = Len(s) + 1
                      /\ <<x>> \o s # <<>>
                      /\ Head(<<x>> \o s) = x /\ Tail(<<x>> \o s) = s
    OBVIOUS
  <1> DEFINE t == <<x>> \o s
  <1>1. /\ Sequence(t) /\ Len(t) = Len(s) + 1 /\ t[1] = x
        /\ \A i \in 1..Len(s) : t[i + 1] = s[i]
    <2>1. /\ Sequence(t) /\ Len(t) = 1 + Len(s) /\ Len(s) \in Nat
          /\ \A i \in 1..(1 + Len(s)) :
               t[i] = IF i <= 1 THEN <<x>>[i] ELSE s[i - 1]
      BY NoneAndOne, Concat DEF Sequence
    <2> HIDE DEF t
    <2> QED
      BY <2>1
  <1> HIDE DEF t
  <1>2. t # <<>> /\ Len(s) \in Nat
    BY <1>1, NoneAndOne DEF Sequence
  <1>3. Head(t) = x
    BY <1>1, <1>2, HeadAndTail
  <1>4. t \in Seq(Elements(t))
    BY <1>1, SeqOfElements
  <1>5. /\ Sequence(Tail(t)) /\ Len(Tail(t)) = Len(s)
        /\ \A i \in 1..Len(Tail(t)) : Tail(t)[i] = t[i + 1]
    <2>1. /\ Tail(t) \in Seq(Elements(t)) /\ Len(Tail(t)) = Len(t) - 1
          /\ \A i \in 1..Len(Tail(t)) : Tail(t)[i] = t[i + 1]
      BY <1>2, <1>4, HeadTailProperties
    <2>2. Sequence(Tail(t))
      BY <2>1, SeqIsSequence
    <2> QED
      BY <1>1, <1>2, <2>1, <2>2
  <1>6. Tail(t) = s
    BY <1>1, <1>5, SameSequence
  <1> QED
    BY <1>1, <1>2, <1>3, <1>6 DEF t

\* One token between two sequences, and before them.
LEMMA AssociativeOne ==
  \A x, s, t : Sequence(s) /\ Sequence(t) =>
    /\ (<<x>> \o s) \o t = <<x>> \o (s \o t)
    /\ (s \o <<x>>) \o t = s \o (<<x>> \o t)
  <1> TAKE x, s, t
  <1> HAVE Sequence(s) /\ Sequence(t)
  <1> DEFINE one == <<x>>
  <1>1. Sequence(one)
    BY NoneAndOne
  <1> HIDE DEF one
  <1>2. (one \o s) \o t = one \o (s \o t)
    BY <1>1, Associative, SMTT(30)
  <1>3. (s \o one) \o t = s \o (one \o t)
    BY <1>1, Associative, SMTT(30)
  <1> QED
    BY <1>2, <1>3 DEF one

\* A token moves from one part of a sequence to the part before it.
LEMMA Moved ==
  \A s, t :
    Sequence(s) /\ Sequence(t) /\ t # <<>> =>
      /\ Sequence(Append(s, Head(t))) /\ Sequence(Tail(t))
      /\ Append(s, Head(t)) # <<>>
      /\ Append(s, Head(t)) \o Tail(t) = s \o t
  <1> SUFFICES ASSUME NEW s, NEW t, Sequence(s), Sequence(t), t # <<>>
               PROVE  /\ Sequence(Append(s, Head(t))) /\ Sequence(Tail(t))
                      /\ Append(s, Head(t)) # <<>>
                      /\ Append(s, Head(t)) \o Tail(t) = s \o t
    OBVIOUS
  <1>1. s \in Seq(Elements(s) \cup {Head(t)})
    BY SeqOfElements, SeqMonotonic
  <1>2. /\ Append(s, Head(t)) = s \o <<Head(t)>>
        /\ Append(s, Head(t)) # <<>>
    BY <1>1, AppendIsConcat, AppendProperties
  <1>3. Sequence(Tail(t)) /\ t = <<Head(t)>> \o Tail(t)
    BY HeadAndTail
  <1>4. Sequence(s \o <<Head(t)>>)
    BY Concat, NoneAndOne
  <1>5. (s \o <<Head(t)>>) \o Tail(t) = s \o (<<Head(t)>> \o Tail(t))
    BY <1>3, AssociativeOne, SMTT(30)
  <1> QED
    BY <1>2, <1>3, <1>4, <1>5

\* The same behind a third part.
LEMMA MovedBehind ==
  \A r, s, t :
    Sequence(r) /\ Sequence(s) /\ Sequence(t) /\ t # <<>> =>
      (r \o Append(s, Head(t))) \o Tail(t) = (r \o s) \o t
  <1> TAKE r, s, t
  <1> HAVE Sequence(r) /\ Sequence(s) /\ Sequence(t) /\ t # <<>>
  <1> DEFINE u == Append(s, Head(t))
             v == Tail(t)
  <1>1. u \o v = s \o t
    BY Moved
  <1>a. Sequence(u) /\ Sequence(v)
    BY Moved
  <1> HIDE DEF u, v
  <1>2. (r \o u) \o v = r \o (u \o v)
    BY <1>a, Associative, SMTT(30)
  <1>3. (r \o s) \o t = r \o (s \o t)
    BY Associative
  <1>4. (r \o u) \o v = (r \o s) \o t
    BY <1>1, <1>2, <1>3
  <1> QED
    BY <1>4 DEF u, v

\* The first token of what is still to come is taken.
LEMMA Taken ==
  \A s, t, x, r :
      /\ Sequence(s) /\ Sequence(t) /\ Sequence(r)
      /\ s # <<>> /\ s \o t = <<x>> \o r
    =>
      Head(s) = x /\ Sequence(Tail(s)) /\ Tail(s) \o t = r
  <1> TAKE s, t, x, r
  <1> HAVE /\ Sequence(s) /\ Sequence(t) /\ Sequence(r)
           /\ s # <<>> /\ s \o t = <<x>> \o r
  <1>1. s = <<Head(s)>> \o Tail(s) /\ Sequence(Tail(s))
    BY HeadAndTail
  <1>2. s \o t = <<Head(s)>> \o (Tail(s) \o t)
    <2>1. (<<Head(s)>> \o Tail(s)) \o t = <<Head(s)>> \o (Tail(s) \o t)
      <3> DEFINE rest == Tail(s)
                 first == Head(s)
      <3>1. Sequence(rest)
        BY <1>1
      <3> HIDE DEF rest, first
      <3>2. (<<first>> \o rest) \o t = <<first>> \o (rest \o t)
        BY <3>1, AssociativeOne, SMTT(30)
      <3> QED
        BY <3>2 DEF rest, first
    <2> QED
      BY <1>1, <2>1
  <1>3. Sequence(Tail(s) \o t)
    BY <1>1, Concat
  <1>4. Head(s \o t) = Head(s) /\ Tail(s \o t) = Tail(s) \o t
    BY <1>2, <1>3, OneFirst
  <1>5. Head(s \o t) = x /\ Tail(s \o t) = r
    BY OneFirst
  <1> QED
    BY <1>1, <1>4, <1>5

-------------------------------------------------------------------------------
(* The entries of a listing.                                                 *)

\* The i-th token of the entries of a listing.
EntryToken(pairs, i) ==
  IF i % 2 = 1 THEN Number(pairs[(i + 1) \div 2][1])
  ELSE String(pairs[i \div 2][2])

\* Two more tokens after n.
LEMMA TwoMore ==
  \A n \in Nat : \A s, t, u :
      /\ Sequence(s) /\ Sequence(t) /\ Sequence(u)
      /\ Len(s) = n /\ Len(t) = n + 2 /\ Len(u) = 2
      /\ \A i \in 1..n : t[i] = s[i]
      /\ t[n + 1] = u[1] /\ t[n + 2] = u[2]
    =>
      s \o u = t
  <1> SUFFICES ASSUME NEW n \in Nat, NEW s, NEW t, NEW u,
                      Sequence(s), Sequence(t), Sequence(u),
                      Len(s) = n, Len(t) = n + 2, Len(u) = 2,
                      \A i \in 1..n : t[i] = s[i], t[n + 1] = u[1], t[n + 2] = u[2]
               PROVE  s \o u = t
    OBVIOUS
  <1>1. /\ Sequence(s \o u) /\ Len(s \o u) = n + 2
        /\ \A i \in 1..(n + 2) :
             (s \o u)[i] = IF i <= n THEN s[i] ELSE u[i - n]
    <2>1. /\ Sequence(s \o u) /\ Len(s \o u) = Len(s) + Len(u)
          /\ \A i \in 1..(Len(s) + Len(u)) :
               (s \o u)[i] = IF i <= Len(s) THEN s[i] ELSE u[i - Len(s)]
      BY Concat
    <2> QED
      BY <2>1
  <1>2. ASSUME NEW i \in 1..(n + 2)
        PROVE  (s \o u)[i] = t[i]
    <2>1. CASE i <= n
      BY <1>1, <2>1
    <2>2. CASE i = n + 1
      BY <1>1, <2>2
    <2>3. CASE i = n + 2
      BY <1>1, <2>3
    <2>4. i <= n \/ i = n + 1 \/ i = n + 2
      OBVIOUS
    <2> QED
      BY <2>1, <2>2, <2>3, <2>4
  <1> QED
    BY <1>1, <1>2, SameSequence

\* What the loop over the entries has written after m of them.
LEMMA EntriesAre ==
  ASSUME NEW pairs, Sequence(pairs)
  PROVE  Entries(pairs) = [i \in 1..(2 * Len(pairs)) |-> EntryToken(pairs, i)]
  <1> DEFINE N == Len(pairs)
             two(m) == <<Number(pairs[m][1]), String(pairs[m][2])>>
             seqs == [m \in DOMAIN pairs |-> two(m)]
             step(f, m) == IF m = 1 THEN seqs[m] ELSE f[m - 1] \o seqs[m]
             flat == CHOOSE f : f = [m \in 1..Len(seqs) |-> step(f, m)]
             upTo(m) == [i \in 1..(2 * m) |-> EntryToken(pairs, i)]
             g == [m \in 1..N |-> upTo(m)]
  <1>1. N \in Nat /\ DOMAIN pairs = 1..N
    BY DEF Sequence
  <1>2. DOMAIN seqs = 1..N /\ Len(seqs) = N
    BY <1>1
  <1>3. Entries(pairs) = IF N = 0 THEN seqs ELSE flat[N]
    <2>1. \A q : FlattenSeq(q) =
            IF Len(q) = 0 THEN q
            ELSE (CHOOSE f : f = [m \in 1..Len(q) |->
                                    IF m = 1 THEN q[m] ELSE f[m - 1] \o q[m]])
                   [Len(q)]
      BY DEF FlattenSeq
    <2>2. Entries(pairs) = FlattenSeq(seqs)
      BY DEF Entries
    <2> HIDE DEF seqs
    <2> QED
      BY <1>2, <2>1, <2>2
  <1>4. \A m \in 1..N : seqs[m] = two(m)
    BY <1>1
  <1> HIDE DEF seqs
  <1>5. \A m \in 1..N :
          two(m) = <<EntryToken(pairs, 2 * m - 1), EntryToken(pairs, 2 * m)>>
    <2> SUFFICES ASSUME NEW m \in 1..N
                 PROVE  /\ EntryToken(pairs, 2 * m - 1) = Number(pairs[m][1])
                        /\ EntryToken(pairs, 2 * m) = String(pairs[m][2])
      OBVIOUS
    <2>1. /\ (2 * m - 1) % 2 = 1 /\ ((2 * m - 1) + 1) \div 2 = m
          /\ (2 * m) % 2 = 0 /\ (2 * m) \div 2 = m
      BY <1>1
    <2> QED
      BY <2>1 DEF EntryToken
  <1> HIDE DEF two
  <1>6. \A m \in 1..N : g[m] = step(g, m)
    <2> SUFFICES ASSUME NEW m \in 1..N
                 PROVE  g[m] = step(g, m)
      OBVIOUS
    <2>1. CASE m = 1
      BY <1>4, <1>5, <2>1
    <2>2. CASE m # 1
      <3>1. m - 1 \in 1..N /\ m \in Nat
        BY <1>1, <2>2
      <3>2. /\ Sequence(upTo(m - 1)) /\ Len(upTo(m - 1)) = 2 * (m - 1)
            /\ Sequence(upTo(m)) /\ Len(upTo(m)) = 2 * m
        BY <3>1 DEF Sequence
      <3>3. /\ Sequence(two(m)) /\ Len(two(m)) = 2
            /\ two(m)[1] = EntryToken(pairs, 2 * m - 1)
            /\ two(m)[2] = EntryToken(pairs, 2 * m)
        BY <1>5 DEF Sequence
      <3>4. /\ \A i \in 1..(2 * (m - 1)) : upTo(m)[i] = upTo(m - 1)[i]
            /\ upTo(m)[2 * (m - 1) + 1] = two(m)[1]
            /\ upTo(m)[2 * (m - 1) + 2] = two(m)[2]
        <4>1. /\ 2 * (m - 1) + 1 = 2 * m - 1 /\ 2 * (m - 1) + 2 = 2 * m
              /\ 2 * m - 1 \in 1..(2 * m) /\ 2 * m \in 1..(2 * m)
              /\ 1..(2 * (m - 1)) \subseteq 1..(2 * m)
          BY <3>1
        <4> QED
          BY <3>3, <4>1
      <3>6. upTo(m - 1) \o two(m) = upTo(m)
        <4>1. 2 * (m - 1) \in Nat /\ 2 * m = 2 * (m - 1) + 2
          BY <3>1
        <4> HIDE DEF upTo
        <4> QED
          BY ONLY <3>2, <3>3, <3>4, <4>1, TwoMore, ZenonT(30)
      <3>7. g[m - 1] = upTo(m - 1) /\ g[m] = upTo(m)
        BY <3>1
      <3> HIDE DEF upTo, g
      <3> QED
        BY <1>4, <2>2, <3>6, <3>7
    <2> QED
      BY <2>1, <2>2
  <1>7. g = [m \in 1..Len(seqs) |-> step(g, m)]
    <2>1. g = [m \in 1..N |-> g[m]]
      OBVIOUS
    <2> HIDE DEF g, step
    <2> QED
      BY <1>2, <1>6, <2>1
  <1>8. flat = [m \in 1..Len(seqs) |-> step(flat, m)]
    <2> HIDE DEF g, step
    <2> QED
      BY <1>7
  <1>9. \A m \in 1..N : flat[m] = step(flat, m)
    <2> HIDE DEF flat, step
    <2> QED
      BY <1>2, <1>8
  <1> HIDE DEF flat, g
  <1>10. \A m \in 1..N : flat[m] = g[m]
    <2> DEFINE same == {m \in Nat : m \in 1..N => flat[m] = g[m]}
    <2>1. 0 \in same
      OBVIOUS
    <2>2. ASSUME NEW m \in same
          PROVE  m + 1 \in same
      <3> SUFFICES ASSUME m + 1 \in 1..N
                   PROVE  flat[m + 1] = g[m + 1]
        OBVIOUS
      <3>1. m = 0 \/ (m \in 1..N /\ flat[m] = g[m])
        BY <1>1
      <3>2. (m + 1) - 1 = m /\ (m + 1 = 1 <=> m = 0)
        OBVIOUS
      <3>3. flat[m + 1] = step(flat, m + 1) /\ g[m + 1] = step(g, m + 1)
        BY <1>6, <1>9
      <3> QED
        BY <3>1, <3>2, <3>3
    <2>3. same = Nat
      <3> HIDE DEF same
      <3>1. same \in SUBSET Nat
        BY DEF same
      <3> QED
        BY <2>1, <2>2, <3>1, NaturalInduction
    <2> QED
      BY <1>1, <2>3
  <1>11. CASE N = 0
    <2>1. Entries(pairs) = seqs /\ 1..(2 * N) = {}
      BY <1>3, <1>11
    <2> QED
      BY <1>1, <1>11, <2>1 DEF seqs
  <1>12. CASE N # 0
    <2>1. Entries(pairs) = g[N]
      BY <1>1, <1>3, <1>10, <1>12
    <2> QED
      BY <1>1, <1>12, <2>1 DEF g
  <1> QED
    BY <1>11, <1>12

LEMMA EntriesSequence ==
  \A pairs : Sequence(pairs) =>
    Sequence(Entries(pairs)) /\ Len(Entries(pairs)) = 2 * Len(pairs)
  <1> TAKE pairs
  <1> HAVE Sequence(pairs)
  <1>1. Len(pairs) \in Nat /\ 2 * Len(pairs) \in Nat
    BY DEF Sequence
  <1> DEFINE e == [i \in 1..(2 * Len(pairs)) |-> EntryToken(pairs, i)]
  <1>2. Entries(pairs) = e
    BY EntriesAre
  <1>3. Sequence(e) /\ Len(e) = 2 * Len(pairs)
    BY <1>1 DEF Sequence
  <1> QED
    BY <1>2, <1>3

LEMMA FromIs ==
  \A pairs : Sequence(pairs) =>
    /\ \A k \in 1..(Len(pairs) + 1) :
         /\ Sequence(From(pairs, k))
         /\ Len(From(pairs, k)) = Len(pairs) - k + 1
         /\ \A i \in 1..(Len(pairs) - k + 1) :
              From(pairs, k)[i] = pairs[k + i - 1]
    /\ From(pairs, 1) = pairs
    /\ From(pairs, Len(pairs) + 1) = <<>>
  <1> TAKE pairs
  <1> HAVE Sequence(pairs)
  <1>1. pairs \in Seq(Elements(pairs)) /\ Len(pairs) \in Nat
    BY SeqOfElements DEF Sequence
  <1>2. ASSUME NEW k \in 1..(Len(pairs) + 1)
        PROVE  /\ Sequence(From(pairs, k))
               /\ Len(From(pairs, k)) = Len(pairs) - k + 1
               /\ \A i \in 1..(Len(pairs) - k + 1) :
                    From(pairs, k)[i] = pairs[k + i - 1]
    <2>1. \A i \in k..Len(pairs) : pairs[i] \in Elements(pairs)
      BY <1>1 DEF Elements
    <2>2. /\ From(pairs, k) \in Seq(Elements(pairs))
          /\ Len(From(pairs, k))
               = IF k <= Len(pairs) THEN Len(pairs) - k + 1 ELSE 0
          /\ \A i \in 1..(Len(pairs) - k + 1) :
               From(pairs, k)[i] = pairs[k + i - 1]
      BY <1>1, <2>1, SubSeqProperties DEF From
    <2>3. Sequence(From(pairs, k))
      BY <2>2, SeqIsSequence
    <2> QED
      BY <1>1, <2>2, <2>3
  <1>3. From(pairs, 1) = pairs
    BY <1>1, SubSeqFull DEF From
  <1>4. From(pairs, Len(pairs) + 1) = <<>>
    BY <1>1, SubSeqEmpty DEF From
  <1> QED
    BY <1>2, <1>3, <1>4

LEMMA EntriesNone == Entries(<<>>) = <<>>
  <1>1. Sequence(Entries(<<>>)) /\ Len(Entries(<<>>)) = 0
    BY EntriesSequence, NoneAndOne
  <1> QED
    BY <1>1, NoneAndOne, SameSequence

\* The entries from the k-th on start with its number and its name.
LEMMA EntriesFrom ==
  \A pairs : Sequence(pairs) =>
    \A k \in 1..Len(pairs) :
      Entries(From(pairs, k))
        = <<Number(pairs[k][1])>> \o
            (<<String(pairs[k][2])>> \o Entries(From(pairs, k + 1)))
  <1> TAKE pairs
  <1> HAVE Sequence(pairs)
  <1> TAKE k \in 1..Len(pairs)
  <1> DEFINE p == From(pairs, k)
             q == From(pairs, k + 1)
             L == Len(pairs) - k
             x == Number(pairs[k][1])
             y == String(pairs[k][2])
  <1>1. /\ Len(pairs) \in Nat /\ L \in Nat /\ k \in Nat
        /\ k \in 1..(Len(pairs) + 1) /\ k + 1 \in 1..(Len(pairs) + 1)
    BY DEF Sequence
  <1>2. /\ Sequence(p) /\ Len(p) = L + 1
        /\ \A i \in 1..(L + 1) : p[i] = pairs[k + i - 1]
    <2>1. \A i \in 1..(Len(pairs) - k + 1) : p[i] = pairs[k + i - 1]
      BY <1>1, FromIs
    <2> QED
      BY <1>1, <2>1, FromIs
  <1>3. /\ Sequence(q) /\ Len(q) = L
        /\ \A i \in 1..L : q[i] = pairs[k + i]
    <2>1. \A i \in 1..(Len(pairs) - (k + 1) + 1) : q[i] = pairs[(k + 1) + i - 1]
      BY <1>1, FromIs
    <2>2. Sequence(q) /\ Len(q) = Len(pairs) - (k + 1) + 1
      BY <1>1, FromIs
    <2> QED
      BY <1>1, <2>1, <2>2
  <1> HIDE DEF p, q, L
  <1>4. /\ Entries(p) = [i \in 1..(2 * (L + 1)) |-> EntryToken(p, i)]
        /\ Entries(q) = [i \in 1..(2 * L) |-> EntryToken(q, i)]
    BY <1>2, <1>3, EntriesAre
  <1>5. EntryToken(p, 1) = x /\ EntryToken(p, 2) = y
    <2>1. p[1] = pairs[k]
      BY <1>1, <1>2
    <2> QED
      BY <2>1 DEF EntryToken
  <1>6. \A i \in 1..(2 * L) : EntryToken(q, i) = EntryToken(p, i + 2)
    <2> SUFFICES ASSUME NEW i \in 1..(2 * L)
                 PROVE  EntryToken(q, i) = EntryToken(p, i + 2)
      OBVIOUS
    <2>1. CASE i % 2 = 1
      <3>1. PICK j \in 1..L : i = 2 * j - 1
        <4>1. (i + 1) \div 2 \in 1..L /\ i = 2 * ((i + 1) \div 2) - 1
          BY <1>1, <2>1
        <4> QED
          BY <4>1
      <3>2. /\ (i + 1) \div 2 = j /\ ((i + 2) + 1) \div 2 = j + 1
            /\ (i + 2) % 2 = 1
        BY <1>1, <3>1
      <3>3. q[j] = pairs[k + j] /\ p[j + 1] = pairs[k + j]
        <4>1. j + 1 \in 1..(L + 1) /\ k + (j + 1) - 1 = k + j
          BY <1>1
        <4> QED
          BY <1>2, <1>3, <4>1
      <3> QED
        BY <2>1, <3>2, <3>3 DEF EntryToken
    <2>2. CASE i % 2 # 1
      <3>1. PICK j \in 1..L : i = 2 * j
        <4>1. i \div 2 \in 1..L /\ i = 2 * (i \div 2)
          BY <1>1, <2>2
        <4> QED
          BY <4>1
      <3>2. i \div 2 = j /\ (i + 2) \div 2 = j + 1 /\ (i + 2) % 2 # 1
        BY <1>1, <3>1
      <3>3. q[j] = pairs[k + j] /\ p[j + 1] = pairs[k + j]
        <4>1. j + 1 \in 1..(L + 1) /\ k + (j + 1) - 1 = k + j
          BY <1>1
        <4> QED
          BY <1>2, <1>3, <4>1
      <3> QED
        BY <2>2, <3>2, <3>3 DEF EntryToken
    <2> QED
      BY <2>1, <2>2
  <1> DEFINE e == Entries(p)
             f == Entries(q)
             g == <<y>> \o f
             h == <<x>> \o g
  <1>7. /\ Sequence(e) /\ Len(e) = 2 * L + 2
        /\ Sequence(f) /\ Len(f) = 2 * L
    <2>1. /\ Sequence(e) /\ Len(e) = 2 * Len(p)
          /\ Sequence(f) /\ Len(f) = 2 * Len(q)
      BY <1>2, <1>3, EntriesSequence
    <2>2. 2 * (L + 1) = 2 * L + 2
      BY <1>1
    <2> QED
      BY <1>2, <1>3, <2>1, <2>2
  <1>8. /\ e[1] = x /\ e[2] = y
        /\ \A i \in 1..(2 * L) : f[i] = e[i + 2]
    <2>1. /\ 1 \in 1..(2 * (L + 1)) /\ 2 \in 1..(2 * (L + 1))
          /\ \A i \in 1..(2 * L) : i + 2 \in 1..(2 * (L + 1))
      BY <1>1
    <2> HIDE DEF x, y
    <2> QED
      BY <1>4, <1>5, <1>6, <2>1
  <1> HIDE DEF e, f, x, y
  <1>9. Sequence(g) /\ Len(g) = 2 * L + 1 /\ g[1] = y
        /\ \A i \in 1..(2 * L) : g[i + 1] = f[i]
    BY <1>1, <1>7, OneThen
  <1> HIDE DEF g
  <1>10. Sequence(h) /\ Len(h) = 2 * L + 2 /\ h[1] = x
        /\ \A i \in 1..(2 * L + 1) : h[i + 1] = g[i]
    BY <1>1, <1>9, OneThen
  <1> HIDE DEF h
  <1>11. \A i \in 1..(2 * L + 2) : e[i] = h[i]
    <2> SUFFICES ASSUME NEW i \in 1..(2 * L + 2)
                 PROVE  e[i] = h[i]
      OBVIOUS
    <2>1. CASE i = 1
      BY <1>8, <1>10, <2>1
    <2>2. CASE i = 2
      BY <1>1, <1>8, <1>9, <1>10, <2>2
    <2>3. CASE i > 2
      <3>1. i - 2 \in 1..(2 * L) /\ i - 1 \in 1..(2 * L + 1)
            /\ (i - 2) + 2 = i /\ (i - 2) + 1 = i - 1 /\ (i - 1) + 1 = i
        BY <1>1, <2>3
      <3> QED
        BY <1>8, <1>9, <1>10, <3>1
    <2> QED
      BY <1>1, <2>1, <2>2, <2>3
  <1> QED
    BY <1>7, <1>10, <1>11, SameSequence DEF e, f, g, h, p, q, x, y

-------------------------------------------------------------------------------
(* What the store does and answers.                                          *)

LEMMA SameOrder ==
  ASSUME NEW m
  PROVE  Db!InOrder(m) = InOrder(m)
  BY DEF Db!InOrder, InOrder, Db!Keys, Keys, Db!Ascending, Ascending,
         Db!Cardinality, Cardinality

\* A map whose keys are numbers of the store goes out as a listing.
LEMMA MapIsListing ==
  ASSUME NEW m, DOMAIN m \subseteq Ids
  PROVE  IsListing(InOrder(m))
  <1> DEFINE n == Cardinality(DOMAIN m)
  <1>1. /\ IsFiniteSet(DOMAIN m) /\ n <= Cardinality(Ids)
        /\ n \in Nat /\ Cardinality(Ids) \in Nat
    <2>1. IsFiniteSet(Ids)
      BY SMT, NumbersAssumption
    <2> QED
      BY <2>1, FS_Subset, FS_CardinalityType
  <1>2. n \in Int32
    BY SMT, <1>1, NumbersAssumption DEF Int32
  <1>3. DOMAIN m \subseteq Int32 /\ DOMAIN m \in SUBSET Int
    <2>1. Ids \subseteq Int32
      BY SMT, NumbersAssumption
    <2>2. \A k \in Int32 : k \in Int
      BY SMT DEF Int32
    <2> QED
      BY <2>1, <2>2
  <1>4. /\ Len(InOrder(m)) = n /\ DOMAIN InOrder(m) = 1..n
        /\ \A i \in DOMAIN InOrder(m) :
             /\ InOrder(m)[i][1] \in DOMAIN m
             /\ InOrder(m)[i] = <<InOrder(m)[i][1], m[InOrder(m)[i][1]]>>
    BY <1>1, <1>3, IterationByKey
  <1>5. InOrder(m) = [i \in 1..n |-> InOrder(m)[i]]
    BY DEF InOrder
  <1>6. Sequence(InOrder(m))
    BY <1>1, <1>4, <1>5 DEF Sequence
  <1>7. ASSUME NEW i \in DOMAIN InOrder(m)
        PROVE  /\ InOrder(m)[i] = <<InOrder(m)[i][1], InOrder(m)[i][2]>>
               /\ InOrder(m)[i][1] \in Int32
    <2> DEFINE k == InOrder(m)[i][1]
               v == m[k]
               pair == InOrder(m)[i]
    <2>1. k \in DOMAIN m /\ pair = <<k, v>>
      BY <1>4
    <2> HIDE DEF pair, v
    <2>2. pair[2] = v
      BY <2>1
    <2> QED
      BY <1>3, <2>1, <2>2 DEF pair
  <1> QED
    BY <1>2, <1>4, <1>6, <1>7 DEF IsListing

\* A call that fails, or one that only answers.
LEMMA RefusalIsAnswer ==
  ASSUME NEW call, NEW code, NumbersInv, Db!Fails(call, code),
         code \in CodesOf(call[1]), code # ANS_ACK, call # <<"none">>
  PROVE  /\ NumbersInv' /\ answer' # Db!NoCall
         /\ answer'.call = call /\ IsAnswer(answer')
  <1>1. answer' = [call |-> call, code |-> code, result |-> <<>>]
    BY DEF Db!Fails, Db!Answer
  <1>2. answer'.call = call /\ answer'.code = code
    BY <1>1
  <1>3. groups' = groups
    BY DEF Db!Fails
  <1>4. answer'.call # Db!NoCall.call
    BY <1>2 DEF Db!NoCall, Db!Answer
  <1> QED
    BY <1>2, <1>3, <1>4 DEF NumbersInv, IsAnswer

LEMMA DoneIsAnswer ==
  ASSUME NEW call, NEW result, answer' = Db!Answer(call, ANS_ACK, result),
         ANS_ACK \in CodesOf(call[1]), call # <<"none">>,
         ~IsListCommand(call[1]), call[1] # "getNewsArticle"
  PROVE  /\ answer' # Db!NoCall
         /\ answer'.call = call /\ IsAnswer(answer')
  <1>1. answer'.call = call /\ answer'.code = ANS_ACK
    BY DEF Db!Answer
  <1>2. answer'.call # Db!NoCall.call
    BY <1>1 DEF Db!NoCall, Db!Answer
  <1> QED
    BY <1>1, <1>2 DEF IsAnswer

LEMMA SameCodes ==
  /\ Db!ANS_ACK = ANS_ACK /\ Db!ERR_NG_ALREADY_EXISTS = ERR_NG_ALREADY_EXISTS
  /\ Db!ERR_NG_DOES_NOT_EXIST = ERR_NG_DOES_NOT_EXIST
  /\ Db!ERR_ART_DOES_NOT_EXIST = ERR_ART_DOES_NOT_EXIST
  BY DEF Db!ANS_ACK, ANS_ACK, Db!ERR_NG_ALREADY_EXISTS, ERR_NG_ALREADY_EXISTS,
         Db!ERR_NG_DOES_NOT_EXIST, ERR_NG_DOES_NOT_EXIST,
         Db!ERR_ART_DOES_NOT_EXIST, ERR_ART_DOES_NOT_EXIST

LEMMA FailuresApart ==
  /\ ERR_NG_ALREADY_EXISTS # ANS_ACK /\ ERR_NG_DOES_NOT_EXIST # ANS_ACK
  /\ ERR_ART_DOES_NOT_EXIST # ANS_ACK /\ EMFILE # ANS_ACK
  /\ EMFILE \notin {ERR_NG_ALREADY_EXISTS, ERR_NG_DOES_NOT_EXIST,
                    ERR_ART_DOES_NOT_EXIST}
  BY DEF ERR_NG_ALREADY_EXISTS, ERR_NG_DOES_NOT_EXIST, ERR_ART_DOES_NOT_EXIST,
         ANS_ACK, EMFILE

LEMMA ListNewsGroupsAnswers ==
  ASSUME NumbersInv, Db!ListNewsGroups
  PROVE  /\ NumbersInv' /\ answer' # Db!NoCall
         /\ answer'.call = <<"listNewsGroups">> /\ IsAnswer(answer')
  <1> DEFINE names == [g \in DOMAIN groups |-> groups[g].name]
  <1>1. answer' = [call |-> <<"listNewsGroups">>, code |-> ANS_ACK,
                   result |-> InOrder(names)]
    <2>1. answer' = Db!Answer(<<"listNewsGroups">>, Db!ANS_ACK, Db!InOrder(names))
      BY DEF Db!ListNewsGroups
    <2> HIDE DEF names
    <2> QED
      BY <2>1, SameCodes, SameOrder DEF Db!Answer
  <1>2. IsListing(InOrder(names))
    <2>1. DOMAIN names \subseteq Ids
      BY DEF NumbersInv
    <2> HIDE DEF names
    <2> QED
      BY <2>1, MapIsListing
  <1> HIDE DEF names
  <1>3. /\ answer'.call = <<"listNewsGroups">> /\ answer'.code = ANS_ACK
        /\ answer'.result = InOrder(names)
    BY <1>1
  <1>4. answer'.call[1] = "listNewsGroups"
    BY <1>3
  <1>5. IsAnswer(answer')
    BY <1>2, <1>3, <1>4 DEF IsAnswer, CodesOf, Listed
  <1>6. answer' # Db!NoCall
    <2>1. Db!NoCall.call = <<"none">>
      BY DEF Db!NoCall, Db!Answer
    <2> QED
      BY <1>3, <2>1
  <1>7. NumbersInv'
    BY DEF Db!ListNewsGroups, NumbersInv
  <1> QED
    BY <1>3, <1>5, <1>6, <1>7

LEMMA CreateNewsGroupAnswers ==
  ASSUME NEW title, NumbersInv, Db!CreateNewsGroup(title)
  PROVE  /\ NumbersInv' /\ answer' # Db!NoCall
         /\ answer'.call = <<"createNewsGroup", title>> /\ IsAnswer(answer')
  <1> DEFINE call == <<"createNewsGroup", title>>
  <1>1. call[1] = "createNewsGroup" /\ call # <<"none">>
    OBVIOUS
  <1>2. CASE Db!Fails(call, Db!ERR_NG_ALREADY_EXISTS)
    <2>1. ERR_NG_ALREADY_EXISTS \in CodesOf(call[1])
      BY <1>1 DEF CodesOf
    <2> HIDE DEF call
    <2> QED
      BY <1>1, <1>2, <2>1, SameCodes, FailuresApart, RefusalIsAnswer DEF call
  <1>3. ASSUME NEW id \in Ids \ DOMAIN groups,
               groups' = Db!Put(groups, id, [name |-> title,
                                             articles |-> Db!EmptyMap]),
               answer' = Db!Answer(call, Db!ANS_ACK, <<>>)
        PROVE  /\ NumbersInv' /\ answer' # Db!NoCall
               /\ answer'.call = call /\ IsAnswer(answer')
    <2>1. ANS_ACK \in CodesOf(call[1]) /\ ~IsListCommand(call[1])
      BY <1>1 DEF CodesOf, IsListCommand
    <2>2. answer' # Db!NoCall /\ answer'.call = call /\ IsAnswer(answer')
      <3> HIDE DEF call
      <3> QED
        BY <1>1, <1>3, <2>1, SameCodes, DoneIsAnswer
    <2>3. /\ DOMAIN groups' = DOMAIN groups \cup {id}
          /\ groups'[id] = [name |-> title, articles |-> <<>>]
          /\ \A g \in DOMAIN groups : groups'[g] = groups[g]
      BY <1>3 DEF Db!Put, Db!EmptyMap
    <2>4. DOMAIN <<>> = {}
      OBVIOUS
    <2>5. NumbersInv'
      BY <2>3, <2>4 DEF NumbersInv
    <2> QED
      BY <2>2, <2>5
  <1> QED
    BY <1>2, <1>3 DEF Db!CreateNewsGroup

LEMMA DeleteNewsGroupAnswers ==
  ASSUME NEW g, NumbersInv, Db!DeleteNewsGroup(g)
  PROVE  /\ NumbersInv' /\ answer' # Db!NoCall
         /\ answer'.call = <<"deleteNewsGroup", g>> /\ IsAnswer(answer')
  <1> DEFINE call == <<"deleteNewsGroup", g>>
  <1>1. call[1] = "deleteNewsGroup" /\ call # <<"none">>
    OBVIOUS
  <1>2. CASE Db!Fails(call, Db!ERR_NG_DOES_NOT_EXIST)
    <2>1. ERR_NG_DOES_NOT_EXIST \in CodesOf(call[1])
      BY <1>1 DEF CodesOf
    <2> HIDE DEF call
    <2> QED
      BY <1>1, <1>2, <2>1, SameCodes, FailuresApart, RefusalIsAnswer DEF call
  <1>3. ASSUME groups' = Db!Erase(groups, g),
               answer' = Db!Answer(call, Db!ANS_ACK, <<>>)
        PROVE  /\ NumbersInv' /\ answer' # Db!NoCall
               /\ answer'.call = call /\ IsAnswer(answer')
    <2>1. ANS_ACK \in CodesOf(call[1]) /\ ~IsListCommand(call[1])
      BY <1>1 DEF CodesOf, IsListCommand
    <2>2. answer' # Db!NoCall /\ answer'.call = call /\ IsAnswer(answer')
      <3> HIDE DEF call
      <3> QED
        BY <1>1, <1>3, <2>1, SameCodes, DoneIsAnswer
    <2>3. /\ DOMAIN groups' = DOMAIN groups \ {g}
          /\ \A h \in DOMAIN groups \ {g} : groups'[h] = groups[h]
      BY <1>3 DEF Db!Erase, Db!Restrict
    <2>4. NumbersInv'
      BY <2>3 DEF NumbersInv
    <2> QED
      BY <2>2, <2>4
  <1> QED
    BY <1>2, <1>3 DEF Db!DeleteNewsGroup

LEMMA ListArticlesAnswers ==
  ASSUME NEW g, NumbersInv, Db!ListArticles(g)
  PROVE  /\ NumbersInv' /\ answer' # Db!NoCall
         /\ answer'.call = <<"listArticles", g>> /\ IsAnswer(answer')
  <1> DEFINE call == <<"listArticles", g>>
             titles == [a \in DOMAIN groups[g].articles |->
                          groups[g].articles[a].title]
  <1>1. call[1] = "listArticles" /\ call # <<"none">>
    OBVIOUS
  <1>2. CASE Db!Fails(call, Db!ERR_NG_DOES_NOT_EXIST)
    <2>1. ERR_NG_DOES_NOT_EXIST \in CodesOf(call[1])
      BY <1>1 DEF CodesOf
    <2> HIDE DEF call
    <2> QED
      BY <1>1, <1>2, <2>1, SameCodes, FailuresApart, RefusalIsAnswer DEF call
  <1>3. ASSUME g \in DOMAIN groups, groups' = groups,
               answer' = Db!Answer(call, Db!ANS_ACK, titles)
        PROVE  /\ NumbersInv' /\ answer' # Db!NoCall
               /\ answer'.call = call /\ IsAnswer(answer')
    <2>1. IsListing(InOrder(titles))
      <3>1. DOMAIN titles \subseteq Ids
        BY <1>3 DEF NumbersInv
      <3> HIDE DEF titles
      <3> QED
        BY <3>1, MapIsListing
    <2> HIDE DEF titles, call
    <2>2. /\ answer'.call = call /\ answer'.code = ANS_ACK
          /\ answer'.result = titles
      BY <1>3, SameCodes DEF Db!Answer
    <2>3. IsAnswer(answer')
      BY <1>1, <2>1, <2>2 DEF IsAnswer, CodesOf, Listed
    <2>4. answer' # Db!NoCall
      <3>1. Db!NoCall.call = <<"none">>
        BY DEF Db!NoCall, Db!Answer
      <3> QED
        BY <1>1, <2>2, <3>1
    <2>5. NumbersInv'
      BY <1>3 DEF NumbersInv
    <2> QED
      BY <2>2, <2>3, <2>4, <2>5
  <1> QED
    BY <1>2, <1>3 DEF Db!ListArticles

LEMMA GetNewsArticleAnswers ==
  ASSUME NEW g, NEW a, NumbersInv, Db!GetNewsArticle(g, a)
  PROVE  /\ NumbersInv' /\ answer' # Db!NoCall
         /\ answer'.call = <<"getNewsArticle", g, a>> /\ IsAnswer(answer')
  <1> DEFINE call == <<"getNewsArticle", g, a>>
             art == groups[g].articles[a]
             article == <<art.title, art.author, art.text>>
  <1>1. call[1] = "getNewsArticle" /\ call # <<"none">>
    OBVIOUS
  <1>2. ASSUME NEW code \in {Db!ERR_NG_DOES_NOT_EXIST, Db!ERR_ART_DOES_NOT_EXIST},
               Db!Fails(call, code)
        PROVE  /\ NumbersInv' /\ answer' # Db!NoCall
               /\ answer'.call = call /\ IsAnswer(answer')
    <2>1. code \in CodesOf(call[1]) /\ code # ANS_ACK
      BY <1>1, <1>2, SameCodes, FailuresApart DEF CodesOf
    <2> HIDE DEF call
    <2> QED
      BY <1>1, <1>2, <2>1, RefusalIsAnswer DEF call
  <1>3. ASSUME groups' = groups, answer' = Db!Answer(call, Db!ANS_ACK, article)
        PROVE  /\ NumbersInv' /\ answer' # Db!NoCall
               /\ answer'.call = call /\ IsAnswer(answer')
    <2>1. article = <<article[1], article[2], article[3]>>
      OBVIOUS
    <2> HIDE DEF article, call
    <2>2. /\ answer'.call = call /\ answer'.code = ANS_ACK
          /\ answer'.result = article
      BY <1>3, SameCodes DEF Db!Answer
    <2>3. IsAnswer(answer')
      BY <1>1, <2>1, <2>2 DEF IsAnswer, CodesOf, IsListCommand
    <2>4. answer' # Db!NoCall
      <3>1. Db!NoCall.call = <<"none">>
        BY DEF Db!NoCall, Db!Answer
      <3> QED
        BY <1>1, <2>2, <3>1
    <2>5. NumbersInv'
      BY <1>3 DEF NumbersInv
    <2> QED
      BY <2>2, <2>3, <2>4, <2>5
  <1>4. \/ Db!Fails(call, Db!ERR_NG_DOES_NOT_EXIST)
        \/ Db!Fails(call, Db!ERR_ART_DOES_NOT_EXIST)
        \/ groups' = groups /\ answer' = Db!Answer(call, Db!ANS_ACK, article)
    BY DEF Db!GetNewsArticle
  <1> HIDE DEF call, article
  <1>5. /\ NumbersInv' /\ answer' # Db!NoCall
        /\ answer'.call = call /\ IsAnswer(answer')
    BY <1>2, <1>3, <1>4
  <1> QED
    BY <1>5 DEF call

\* Of an article that is created, only the number matters here.
LEMMA CreateArticleAnswers ==
  ASSUME NEW g, NEW title, NEW author, NEW text, NumbersInv,
         Db!CreateArticle(g, title, author, text)
  PROVE  /\ NumbersInv' /\ answer' # Db!NoCall
         /\ answer'.call = <<"createArticle", g, title, author, text>>
         /\ IsAnswer(answer')
  <1> DEFINE call == <<"createArticle", g, title, author, text>>
             art == [title |-> title, author |-> author, text |-> text]
  <1>1. call[1] = "createArticle" /\ call # <<"none">>
    OBVIOUS
  <1>2. CASE Db!Fails(call, Db!ERR_NG_DOES_NOT_EXIST)
    <2>1. ERR_NG_DOES_NOT_EXIST \in CodesOf(call[1])
      BY <1>1 DEF CodesOf
    <2> HIDE DEF call
    <2> QED
      BY <1>1, <1>2, <2>1, SameCodes, FailuresApart, RefusalIsAnswer DEF call
  <1>3. ASSUME g \in DOMAIN groups, NEW id \in Ids,
               groups' = [groups EXCEPT ![g].articles = Db!Put(@, id, art)],
               answer' = Db!Answer(call, Db!ANS_ACK, <<>>)
        PROVE  /\ NumbersInv' /\ answer' # Db!NoCall
               /\ answer'.call = call /\ IsAnswer(answer')
    <2>1. ANS_ACK \in CodesOf(call[1]) /\ ~IsListCommand(call[1])
      BY <1>1 DEF CodesOf, IsListCommand
    <2>2. answer' # Db!NoCall /\ answer'.call = call /\ IsAnswer(answer')
      <3> HIDE DEF call
      <3> QED
        BY <1>1, <1>3, <2>1, SameCodes, DoneIsAnswer
    <2> HIDE DEF art
    <2>3. DOMAIN groups' = DOMAIN groups
      BY <1>3
    <2>4. \A h \in DOMAIN groups \ {g} : groups'[h] = groups[h]
      BY <1>3
    <2>5. /\ groups'[g].articles = Db!Put(groups[g].articles, id, art)
          /\ groups'[g] = [name |-> groups'[g].name,
                           articles |-> groups'[g].articles]
      <3> DEFINE files == Db!Put(groups[g].articles, id, art)
                 group == groups[g]
                 name == group.name
                 old == group.articles
      <3>1. groups'[g] = [group EXCEPT !.articles = files]
        BY <1>3
      <3>2. group = [name |-> name, articles |-> old]
        BY <1>3 DEF NumbersInv
      <3> HIDE DEF files, group, name, old
      <3>3. groups'[g] = [name |-> name, articles |-> files]
        BY <3>1, <3>2
      <3> QED
        BY <3>3 DEF files, group, old
    <2>6. DOMAIN Db!Put(groups[g].articles, id, art)
            = DOMAIN groups[g].articles \cup {id}
      BY DEF Db!Put
    <2>7. NumbersInv'
      BY <1>3, <2>3, <2>4, <2>5, <2>6 DEF NumbersInv
    <2> QED
      BY <2>2, <2>7
  <1> QED
    BY <1>2, <1>3 DEF Db!CreateArticle

LEMMA DeleteArticleAnswers ==
  ASSUME NEW g, NEW a, NumbersInv, Db!DeleteArticle(g, a)
  PROVE  /\ NumbersInv' /\ answer' # Db!NoCall
         /\ answer'.call = <<"deleteArticle", g, a>> /\ IsAnswer(answer')
  <1> DEFINE call == <<"deleteArticle", g, a>>
  <1>1. call[1] = "deleteArticle" /\ call # <<"none">>
    OBVIOUS
  <1>2. ASSUME NEW code \in {Db!ERR_NG_DOES_NOT_EXIST, Db!ERR_ART_DOES_NOT_EXIST},
               Db!Fails(call, code)
        PROVE  /\ NumbersInv' /\ answer' # Db!NoCall
               /\ answer'.call = call /\ IsAnswer(answer')
    <2>1. code \in CodesOf(call[1]) /\ code # ANS_ACK
      BY <1>1, <1>2, SameCodes, FailuresApart DEF CodesOf
    <2> HIDE DEF call
    <2> QED
      BY <1>1, <1>2, <2>1, RefusalIsAnswer DEF call
  <1>3. ASSUME g \in DOMAIN groups,
               groups' = [groups EXCEPT ![g].articles = Db!Erase(@, a)],
               answer' = Db!Answer(call, Db!ANS_ACK, <<>>)
        PROVE  /\ NumbersInv' /\ answer' # Db!NoCall
               /\ answer'.call = call /\ IsAnswer(answer')
    <2>1. ANS_ACK \in CodesOf(call[1]) /\ ~IsListCommand(call[1])
      BY <1>1 DEF CodesOf, IsListCommand
    <2>2. answer' # Db!NoCall /\ answer'.call = call /\ IsAnswer(answer')
      <3> HIDE DEF call
      <3> QED
        BY <1>1, <1>3, <2>1, SameCodes, DoneIsAnswer
    <2>3. DOMAIN groups' = DOMAIN groups
      BY <1>3
    <2>4. \A h \in DOMAIN groups \ {g} : groups'[h] = groups[h]
      BY <1>3
    <2>5. /\ groups'[g].articles = Db!Erase(groups[g].articles, a)
          /\ groups'[g] = [name |-> groups'[g].name,
                           articles |-> groups'[g].articles]
      <3> DEFINE files == Db!Erase(groups[g].articles, a)
                 group == groups[g]
                 name == group.name
                 old == group.articles
      <3>1. groups'[g] = [group EXCEPT !.articles = files]
        BY <1>3
      <3>2. group = [name |-> name, articles |-> old]
        BY <1>3 DEF NumbersInv
      <3> HIDE DEF files, group, name, old
      <3>3. groups'[g] = [name |-> name, articles |-> files]
        BY <3>1, <3>2
      <3> QED
        BY <3>3 DEF files, group, old
    <2>6. DOMAIN Db!Erase(groups[g].articles, a)
            = DOMAIN groups[g].articles \ {a}
      BY DEF Db!Erase, Db!Restrict
    <2>7. NumbersInv'
      BY <1>3, <2>3, <2>4, <2>5, <2>6 DEF NumbersInv
    <2> QED
      BY <2>2, <2>7
  <1>4. \/ Db!Fails(call, Db!ERR_NG_DOES_NOT_EXIST)
        \/ Db!Fails(call, Db!ERR_ART_DOES_NOT_EXIST)
        \/ /\ g \in DOMAIN groups
           /\ groups' = [groups EXCEPT ![g].articles = Db!Erase(@, a)]
           /\ answer' = Db!Answer(call, Db!ANS_ACK, <<>>)
    BY DEF Db!DeleteArticle
  <1> HIDE DEF call
  <1>5. /\ NumbersInv' /\ answer' # Db!NoCall
        /\ answer'.call = call /\ IsAnswer(answer')
    BY <1>2, <1>3, <1>4
  <1> QED
    BY <1>5 DEF call

\* A call as a tuple, by its length.
LEMMA CallTuple ==
  ASSUME NEW s, Sequence(s)
  PROVE  /\ Len(s) = 1 => s = <<s[1]>>
         /\ Len(s) = 2 => s = <<s[1], s[2]>>
         /\ Len(s) = 3 => s = <<s[1], s[2], s[3]>>
         /\ Len(s) = 5 => s = <<s[1], s[2], s[3], s[4], s[5]>>
  <1>1. CASE Len(s) = 1
    BY <1>1 DEF Sequence
  <1>2. CASE Len(s) = 2
    BY <1>2 DEF Sequence
  <1>3. CASE Len(s) = 3
    BY <1>3 DEF Sequence
  <1>4. CASE Len(s) = 5
    BY <1>4 DEF Sequence
  <1> QED
    BY <1>1, <1>2, <1>3, <1>4

\* How many parameters each command has, and which of them are numbers.
LEMMA ParameterKinds ==
  /\ DOMAIN Parameter = {"listNewsGroups"} \cup DOMAIN ParameterCount
  /\ "listNewsGroups" \notin DOMAIN ParameterCount
  /\ Parameter["listNewsGroups"] = <<>>
  /\ \A c \in DOMAIN ParameterCount :
       /\ Sequence(Parameter[c]) /\ Len(Parameter[c]) = ParameterCount[c]
       /\ ParameterCount[c] \in 1..4 /\ NumberCount[c] \in 0..ParameterCount[c]
       /\ \A i \in 1..ParameterCount[c] :
            Parameter[c][i] = "number" <=> i <= NumberCount[c]
  <1>1. /\ DOMAIN Parameter = {"listNewsGroups"} \cup DOMAIN ParameterCount
        /\ "listNewsGroups" \notin DOMAIN ParameterCount
        /\ Parameter["listNewsGroups"] = <<>>
    BY DEF Parameter, ParameterCount
  <1>2. ASSUME NEW c \in DOMAIN ParameterCount
        PROVE  /\ Sequence(Parameter[c]) /\ Len(Parameter[c]) = ParameterCount[c]
               /\ ParameterCount[c] \in 1..4
               /\ NumberCount[c] \in 0..ParameterCount[c]
               /\ \A i \in 1..ParameterCount[c] :
                    Parameter[c][i] = "number" <=> i <= NumberCount[c]
    <2>1. CASE c = "createNewsGroup"
      <3>1. /\ Parameter[c] = <<"string">> /\ ParameterCount[c] = 1
            /\ NumberCount[c] = 0
        BY <2>1 DEF Parameter, ParameterCount, NumberCount
      <3> QED
        BY <3>1 DEF Sequence
    <2>2. CASE c \in {"deleteNewsGroup", "listArticles"}
      <3>1. /\ Parameter[c] = <<"number">> /\ ParameterCount[c] = 1
            /\ NumberCount[c] = 1
        BY <2>2 DEF Parameter, ParameterCount, NumberCount
      <3> QED
        BY <3>1 DEF Sequence
    <2>3. CASE c = "createArticle"
      <3>1. /\ Parameter[c] = <<"number", "string", "string", "string">>
            /\ ParameterCount[c] = 4 /\ NumberCount[c] = 1
        BY <2>3 DEF Parameter, ParameterCount, NumberCount
      <3> QED
        BY <3>1 DEF Sequence
    <2>4. CASE c \in {"deleteArticle", "getNewsArticle"}
      <3>1. /\ Parameter[c] = <<"number", "number">>
            /\ ParameterCount[c] = 2 /\ NumberCount[c] = 2
        BY <2>4 DEF Parameter, ParameterCount, NumberCount
      <3> QED
        BY <3>1 DEF Sequence
    <2> QED
      BY <2>1, <2>2, <2>3, <2>4 DEF ParameterCount
  <1> QED
    BY <1>1, <1>2

\* The commands by what they take.
LEMMA CommandsAre ==
  /\ DOMAIN Parameter =
       {"listNewsGroups", "createNewsGroup", "deleteNewsGroup", "listArticles",
        "createArticle", "deleteArticle", "getNewsArticle"}
  /\ DOMAIN CommandCode = DOMAIN Parameter
  /\ DOMAIN AnswerCode = DOMAIN Parameter
  /\ Len(Parameter["listNewsGroups"]) = 0
  /\ Len(Parameter["createNewsGroup"]) = 1
  /\ Len(Parameter["deleteNewsGroup"]) = 1
  /\ Len(Parameter["listArticles"]) = 1
  /\ Len(Parameter["createArticle"]) = 4
  /\ Len(Parameter["deleteArticle"]) = 2
  /\ Len(Parameter["getNewsArticle"]) = 2
  BY DEF Parameter, CommandCode, AnswerCode

\* Whatever the store is asked to do, it answers that call, with a code that
\* belongs to it, and keeps to its numbers.
LEMMA PerformAnswers ==
  ASSUME NumbersInv, NEW c \in DOMAIN Parameter, NEW call, Sequence(call),
         call[1] = c, Len(call) = Len(Parameter[c]) + 1,
         Db!Perform(call) \/ Unopened(call)
  PROVE  /\ NumbersInv' /\ answer' # Db!NoCall
         /\ answer'.call = call /\ IsAnswer(answer')
  <1>1. CASE Unopened(call)
    <2>1. /\ call[1] = "deleteArticle" /\ EMFILE \in CodesOf(call[1])
          /\ Db!Fails(call, EMFILE)
      BY <1>1 DEF Unopened, CodesOf
    <2>2. call # <<"none">>
      BY <2>1
    <2> QED
      BY <2>1, <2>2, FailuresApart, RefusalIsAnswer
  <1>2. CASE Db!Perform(call)
    <2>1. CASE c = "listNewsGroups"
      <3>1. Db!ListNewsGroups /\ call = <<"listNewsGroups">>
        BY <1>2, <2>1, CommandsAre, CallTuple DEF Db!Perform
      <3> QED
        BY <3>1, ListNewsGroupsAnswers
    <2>2. CASE c = "createNewsGroup"
      <3>1. /\ Db!CreateNewsGroup(call[2])
            /\ call = <<"createNewsGroup", call[2]>>
        BY <1>2, <2>2, CommandsAre, CallTuple DEF Db!Perform
      <3> QED
        BY <3>1, CreateNewsGroupAnswers
    <2>3. CASE c = "deleteNewsGroup"
      <3>1. /\ Db!DeleteNewsGroup(call[2])
            /\ call = <<"deleteNewsGroup", call[2]>>
        BY <1>2, <2>3, CommandsAre, CallTuple DEF Db!Perform
      <3> QED
        BY <3>1, DeleteNewsGroupAnswers
    <2>4. CASE c = "listArticles"
      <3>1. Db!ListArticles(call[2]) /\ call = <<"listArticles", call[2]>>
        BY <1>2, <2>4, CommandsAre, CallTuple DEF Db!Perform
      <3> QED
        BY <3>1, ListArticlesAnswers
    <2>5. CASE c = "createArticle"
      <3>1. /\ Db!CreateArticle(call[2], call[3], call[4], call[5])
            /\ call = <<"createArticle", call[2], call[3], call[4], call[5]>>
        BY <1>2, <2>5, CommandsAre, CallTuple DEF Db!Perform
      <3> QED
        BY <3>1, CreateArticleAnswers
    <2>6. CASE c = "deleteArticle"
      <3>1. /\ Db!DeleteArticle(call[2], call[3])
            /\ call = <<"deleteArticle", call[2], call[3]>>
        BY <1>2, <2>6, CommandsAre, CallTuple DEF Db!Perform
      <3> QED
        BY <3>1, DeleteArticleAnswers
    <2>7. CASE c = "getNewsArticle"
      <3>1. /\ Db!GetNewsArticle(call[2], call[3])
            /\ call = <<"getNewsArticle", call[2], call[3]>>
        BY <1>2, <2>7, CommandsAre, CallTuple DEF Db!Perform
      <3> QED
        BY <3>1, GetNewsArticleAnswers
    <2> QED
      BY <2>1, <2>2, <2>3, <2>4, <2>5, <2>6, <2>7, CommandsAre
  <1> QED
    BY <1>1, <1>2

-------------------------------------------------------------------------------
(* What the client asks, and what the server makes of it.                    *)

\* The shape of a call: the command, and parameters of its kinds.
IsCall(call, c) ==
  /\ c \in DOMAIN Parameter
  /\ Sequence(call) /\ call[1] = c
  /\ Len(call) = Len(Parameter[c]) + 1 /\ Len(Parameter[c]) \in Nat
  /\ \A i \in 1..Len(Parameter[c]) :
       Parameter[c][i] = "number" => call[i + 1] \in Int32

\* Every line the client takes is a call: each parameter that is to be a number
\* is one that std::stoi has read.
LEMMA AskedIsCall ==
  ASSUME NEW typed, Accepted(typed)
  PROVE  IsCall(Asked(typed), typed.command)
  <1> DEFINE c == typed.command
             params == Parameters(typed.words)
  <1>1. c \in DOMAIN Parameter
    BY DEF Accepted, IsCommand
  <1>2. CASE c \notin DOMAIN ParameterCount
    <2>1. Asked(typed) = <<c>>
      BY <1>2 DEF Asked, TakesParameters
    <2>2. Parameter[c] = <<>> /\ Len(<<>>) = 0
      BY <1>1, <1>2, ParameterKinds
    <2> HIDE DEF c
    <2>a. IsCall(Asked(typed), c)
      BY <1>1, <2>1, <2>2, NoneAndOne DEF IsCall
    <2> QED
      BY <2>a DEF c
  <1>3. CASE c \in DOMAIN ParameterCount
    <2> DEFINE k == ParameterCount[c]
               n == NumberCount[c]
               arguments == [i \in 1..k |-> IF i <= n THEN Numerals[params[i][1]]
                                            ELSE params[i]]
    <2>1. /\ k \in 1..4 /\ n \in 0..k /\ Len(Parameter[c]) = k
          /\ \A i \in 1..k : Parameter[c][i] = "number" <=> i <= n
      BY <1>3, ParameterKinds
    <2>2. Asked(typed) = <<c>> \o arguments
      BY <1>3 DEF Asked, TakesParameters, Call
    <2>3. Complaints(c, params) = {}
      BY <1>3 DEF Accepted, TakesParameters
    <2>4. {Complaint(params[i][1]) : i \in 1..n} \subseteq {"none"}
      BY <2>3 DEF Complaints
    <2>5. \A text : Complaint(text) = "none" => text \in DOMAIN Numerals
      BY DEF Complaint
    <2>6. \A text \in DOMAIN Numerals : Numerals[text] \in Int32
      BY SMT, NumbersAssumption
    <2>7. \A i \in 1..n : Numerals[params[i][1]] \in Int32
      BY <2>4, <2>5, <2>6
    <2>8. /\ Sequence(arguments) /\ Len(arguments) = k
          /\ \A i \in 1..k : i <= n => arguments[i] \in Int32
      BY <2>1, <2>7 DEF Sequence
    <2> HIDE DEF arguments, k, n
    <2>9. /\ Sequence(Asked(typed)) /\ Len(Asked(typed)) = k + 1
          /\ Asked(typed)[1] = c
          /\ \A i \in 1..k : Asked(typed)[i + 1] = arguments[i]
      BY <2>2, <2>8, OneThen
    <2> HIDE DEF c
    <2>a. IsCall(Asked(typed), c)
      BY <1>1, <2>1, <2>8, <2>9 DEF IsCall
    <2> QED
      BY <2>a DEF c
  <1> QED
    BY <1>2, <1>3

\* Its request, token by token.
LEMMA RequestIs ==
  ASSUME NEW c, NEW call, IsCall(call, c)
  PROVE  /\ Sequence(Request(call)) /\ Len(Request(call)) = Len(call) + 1
         /\ Request(call)[1] = Code(CommandCode[c])
         /\ \A i \in 1..Len(Parameter[c]) :
              Request(call)[i + 1] = IF Parameter[c][i] = "number"
                                     THEN Number(call[i + 1])
                                     ELSE String(call[i + 1])
  <1> DEFINE kinds == Parameter[c]
             k == Len(kinds)
             tokens == [i \in DOMAIN kinds |->
                          IF kinds[i] = "number" THEN Number(call[i + 1])
                          ELSE String(call[i + 1])]
             s == <<Code(CommandCode[c])>> \o tokens
             r == s \o <<Code(COM_END)>>
  <1>1. /\ call[1] = c /\ Len(call) = k + 1 /\ k \in Nat /\ Sequence(call)
        /\ c \in DOMAIN Parameter
    BY DEF IsCall
  <1>2. DOMAIN kinds = 1..k
    BY <1>1, ParameterKinds DEF Sequence
  <1>3. Request(call) = r
    BY <1>1 DEF Request
  <1>4. /\ Sequence(tokens) /\ Len(tokens) = k
        /\ \A i \in 1..k : tokens[i] = IF kinds[i] = "number"
                                       THEN Number(call[i + 1])
                                       ELSE String(call[i + 1])
    BY <1>1, <1>2 DEF Sequence
  <1> HIDE DEF tokens, k
  <1>5. /\ Sequence(s) /\ Len(s) = k + 1 /\ s[1] = Code(CommandCode[c])
        /\ \A i \in 1..k : s[i + 1] = tokens[i]
    BY <1>4, OneThen
  <1> HIDE DEF s
  <1>6. /\ Sequence(r) /\ Len(r) = k + 2
        /\ \A i \in 1..(k + 1) : r[i] = s[i]
    <2>1. /\ Sequence(<<Code(COM_END)>>) /\ Len(<<Code(COM_END)>>) = 1
      BY NoneAndOne
    <2>2. /\ Sequence(r) /\ Len(r) = (k + 1) + 1
          /\ \A i \in 1..((k + 1) + 1) :
               r[i] = IF i <= k + 1 THEN s[i]
                      ELSE <<Code(COM_END)>>[i - (k + 1)]
      BY <1>5, <2>1, Concat
    <2> HIDE DEF r
    <2> QED
      BY <1>1, <2>2
  <1> HIDE DEF r
  <1>7. r[1] = Code(CommandCode[c])
    BY <1>1, <1>5, <1>6
  <1>8. \A i \in 1..k : r[i + 1] = tokens[i]
    BY <1>1, <1>5, <1>6
  <1> QED
    BY <1>1, <1>3, <1>4, <1>6, <1>7, <1>8 DEF k

\* The switch of the server's loop takes a command for what it is.
LEMMA MethodOf ==
  \A c \in DOMAIN Parameter : Method(CommandCode[c]) = c
  <1> SUFFICES ASSUME NEW c \in DOMAIN Parameter
               PROVE  Method(CommandCode[c]) = c
    OBVIOUS
  <1>1. \A m \in DOMAIN CommandCode : CommandCode[m] = CommandCode[c] => m = c
    BY CommandsAre DEF CommandCode
  <1>2. c \in DOMAIN CommandCode
    BY CommandsAre
  <1> QED
    BY <1>1, <1>2 DEF Method

\* What the server has read of a request before its end is the call.
LEMMA DecodedIs ==
  ASSUME NEW c, NEW call, IsCall(call, c), Sequence(request),
         Len(request) = Len(call),
         \A i \in 1..Len(call) : request[i] = Request(call)[i]
  PROVE  Decoded = call
  <1> DEFINE k == Len(Parameter[c])
             token(i) == CASE i = 1 -> Method(request[1].value)
                           [] request[i].kind = "number" ->
                                DecodeInt(request[i].value)
                           [] OTHER -> request[i].value
  <1>1. /\ call[1] = c /\ Len(call) = k + 1 /\ k \in Nat /\ Sequence(call)
        /\ c \in DOMAIN Parameter
        /\ \A i \in 1..k : Parameter[c][i] = "number" => call[i + 1] \in Int32
    BY DEF IsCall
  <1>2. /\ request[1] = Code(CommandCode[c])
        /\ \A i \in 1..k : request[i + 1] = IF Parameter[c][i] = "number"
                                            THEN Number(call[i + 1])
                                            ELSE String(call[i + 1])
    <2>1. \A i \in 1..k : i + 1 \in 1..Len(call) /\ 1 \in 1..Len(call)
      BY <1>1
    <2>2. 1 \in 1..Len(call)
      BY <1>1
    <2> QED
      BY <2>1, <2>2, RequestIs
  <1>3. token(1) = call[1]
    BY <1>1, <1>2, MethodOf DEF Code
  <1>4. ASSUME NEW i \in 1..k
        PROVE  token(i + 1) = call[i + 1]
    <2>0. i + 1 # 1
      BY <1>1
    <2>1. CASE Parameter[c][i] = "number"
      <3>1. request[i + 1] = Number(call[i + 1]) /\ call[i + 1] \in Int32
        BY <1>1, <1>2, <2>1
      <3>2. /\ request[i + 1].kind = "number"
            /\ request[i + 1].value = EncodeInt(call[i + 1])
        BY <3>1 DEF Number
      <3>3. DecodeInt(EncodeInt(call[i + 1])) = call[i + 1]
        BY <3>1, IntRoundTrip
      <3> QED
        BY <2>0, <3>2, <3>3
    <2>2. CASE Parameter[c][i] # "number"
      <3>1. request[i + 1] = String(call[i + 1])
        BY <1>2, <2>2
      <3>2. /\ request[i + 1].kind = "string"
            /\ request[i + 1].value = call[i + 1]
        BY <3>1 DEF String
      <3> QED
        BY <2>0, <3>2
    <2> QED
      BY <2>1, <2>2
  <1>5. DOMAIN request = 1..(k + 1)
    BY <1>1 DEF Sequence
  <1>6. Decoded = [i \in 1..(k + 1) |-> token(i)]
    BY <1>5 DEF Decoded
  <1> HIDE DEF token, k
  <1>7. \A i \in 1..(k + 1) : token(i) = call[i]
    <2> SUFFICES ASSUME NEW i \in 1..(k + 1)
                 PROVE  token(i) = call[i]
      OBVIOUS
    <2>1. i = 1 \/ i - 1 \in 1..k
      BY <1>1
    <2>2. (i - 1) + 1 = i
      BY <1>1
    <2> QED
      BY <1>3, <1>4, <2>1, <2>2
  <1> QED
    BY <1>1, <1>6, <1>7 DEF Sequence

-------------------------------------------------------------------------------
(* What the server answers, token by token as the client reads it.           *)

LEMMA EndIs ==
  Sequence(EndCode) /\ EndCode # <<>> /\ EndCode = <<Code(ANS_END)>> \o <<>>
  <1> DEFINE e == Code(ANS_END)
  <1>1. Sequence(<<e>>) /\ Len(<<e>>) = 1 /\ Len(<<>>) = 0
    BY NoneAndOne
  <1>2. <<e>> \o <<>> = <<e>>
    BY <1>1, ConcatNone
  <1> HIDE DEF e
  <1> QED
    BY <1>1, <1>2 DEF EndCode, e

\* Two tokens, one after the other.
LEMMA TwoTokens == \A x, y : <<x, y>> = <<x>> \o <<y>>
  <1> TAKE x, y
  <1> DEFINE t == <<x>> \o <<y>>
  <1>1. Sequence(<<y>>) /\ Len(<<y>>) = 1 /\ <<y>>[1] = y
    BY NoneAndOne
  <1>2. /\ Sequence(t) /\ Len(t) = 2 /\ t[1] = x
        /\ \A i \in 1..1 : t[i + 1] = <<y>>[i]
    BY <1>1, OneThen
  <1> HIDE DEF t
  <1>3. t[2] = y
    BY <1>1, <1>2
  <1>4. t = <<t[1], t[2]>>
    BY <1>2, CallTuple
  <1> QED
    BY <1>2, <1>3, <1>4 DEF t

\* A token in front of a sequence, and its end.
LEMMA OneBefore ==
  \A x, s : Sequence(s) =>
    /\ Sequence(s \o EndCode)
    /\ Sequence(<<x>> \o s)
    /\ (<<x>> \o s) \o EndCode = <<x>> \o (s \o EndCode)
  <1> TAKE x, s
  <1> HAVE Sequence(s)
  <1>1. Sequence(<<x>>) /\ Sequence(EndCode)
    BY NoneAndOne, EndIs
  <1>2. Sequence(s \o EndCode) /\ Sequence(<<x>> \o s)
    BY <1>1, Concat
  <1> DEFINE one == <<x>>
  <1> HIDE DEF one
  <1>3. Sequence(one)
    BY <1>1 DEF one
  <1>4. (one \o s) \o EndCode = one \o (s \o EndCode)
    BY <1>1, <1>3, Associative, SMTT(30)
  <1> QED
    BY <1>2, <1>4 DEF one

LEMMA ListingIs ==
  ASSUME NEW pairs, Sequence(pairs)
  PROVE  /\ Sequence(Listing(pairs)) /\ Sequence(Entries(pairs) \o EndCode)
         /\ Listing(pairs) \o EndCode
              = <<Number(Len(pairs))>> \o (Entries(pairs) \o EndCode)
  <1>1. Sequence(Entries(pairs))
    BY EntriesSequence
  <1> DEFINE n == Number(Len(pairs))
             e == Entries(pairs)
  <1>2. Listing(pairs) = <<n>> \o e
    BY DEF Listing
  <1> HIDE DEF n, e
  <1>3. /\ Sequence(<<n>> \o e) /\ Sequence(e \o EndCode)
        /\ (<<n>> \o e) \o EndCode = <<n>> \o (e \o EndCode)
    BY <1>1, OneBefore DEF e
  <1> QED
    BY <1>2, <1>3 DEF n, e

LEMMA ReplyIs ==
  ASSUME NEW a, Sequence(Body(a))
  PROVE  /\ Sequence(Body(a) \o EndCode)
         /\ Reply(a) = <<Code(AnswerCode[a.call[1]])>> \o (Body(a) \o EndCode)
  <1> DEFINE x == Code(AnswerCode[a.call[1]])
             b == Body(a)
  <1>1. Reply(a) = (<<x>> \o b) \o EndCode
    BY DEF Reply, EndCode
  <1> HIDE DEF x, b
  <1>2. /\ Sequence(b \o EndCode)
        /\ (<<x>> \o b) \o EndCode = <<x>> \o (b \o EndCode)
    BY OneBefore DEF b
  <1> QED
    BY <1>1, <1>2 DEF x, b

\* All groups.
LEMMA GroupsBody ==
  ASSUME NEW a, IsAnswer(a), a.call[1] = "listNewsGroups"
  PROVE  /\ Sequence(Body(a)) /\ IsListing(Listed(a))
         /\ a.code = ANS_ACK
         /\ Body(a) \o EndCode = Listing(Listed(a)) \o EndCode
  <1>1. a.code = ANS_ACK
    BY DEF IsAnswer, CodesOf
  <1>2. IsListing(Listed(a))
    BY <1>1 DEF IsAnswer, IsListCommand
  <1>3. Listed(a) = a.result
    BY DEF Listed
  <1>4. Body(a) = Listing(Listed(a))
    BY <1>3 DEF Body
  <1> QED
    BY <1>1, <1>2, <1>4, ListingIs DEF IsListing

\* A refusal.
LEMMA RefusalBody ==
  ASSUME NEW a, a.code # ANS_ACK, a.call[1] # "listNewsGroups"
  PROVE  /\ Sequence(Body(a)) /\ Sequence(<<Code(a.code)>> \o EndCode)
         /\ Body(a) \o EndCode
              = <<Code(ANS_NAK)>> \o (<<Code(a.code)>> \o EndCode)
  <1> DEFINE x == Code(ANS_NAK)
             y == Code(a.code)
  <1>1. Body(a) = <<x, y>>
    BY DEF Body, Refusal
  <1> HIDE DEF x, y
  <1> DEFINE s == <<y>>
  <1>2. Body(a) = <<x>> \o s
    BY <1>1, TwoTokens
  <1>3. Sequence(s)
    BY NoneAndOne
  <1> HIDE DEF s
  <1>4. /\ Sequence(<<x>> \o s) /\ Sequence(s \o EndCode)
        /\ (<<x>> \o s) \o EndCode = <<x>> \o (s \o EndCode)
    BY <1>3, OneBefore
  <1> QED
    BY <1>2, <1>4 DEF x, y, s

\* The articles of a group.
LEMMA ArticlesBody ==
  ASSUME NEW a, IsAnswer(a), a.code = ANS_ACK, a.call[1] = "listArticles"
  PROVE  /\ Sequence(Body(a)) /\ IsListing(Listed(a))
         /\ Sequence(Listing(Listed(a)) \o EndCode)
         /\ Body(a) \o EndCode
              = <<Code(ANS_ACK)>> \o (Listing(Listed(a)) \o EndCode)
  <1> DEFINE x == Code(ANS_ACK)
             s == Listing(Listed(a))
  <1>1. IsListing(Listed(a)) /\ Listed(a) = InOrder(a.result)
    BY DEF IsAnswer, IsListCommand, Listed
  <1>2. Body(a) = <<x>> \o s
    <2>1. "listArticles" # "listNewsGroups" /\ a.call[1] # "listNewsGroups"
      OBVIOUS
    <2> QED
      BY <1>1, <2>1 DEF Body
  <1>3. Sequence(s)
    BY <1>1, ListingIs DEF IsListing
  <1> HIDE DEF s, x
  <1>4. /\ Sequence(<<x>> \o s) /\ Sequence(s \o EndCode)
        /\ (<<x>> \o s) \o EndCode = <<x>> \o (s \o EndCode)
    BY <1>3, OneBefore
  <1> QED
    BY <1>1, <1>2, <1>4 DEF x, s

\* The fields of an article from the k-th on.
Fields(a, k) == [i \in 1..(3 - k) |-> String(a.result[k + i])]

\* An article.
LEMMA ArticleBody ==
  ASSUME NEW a, IsAnswer(a), a.code = ANS_ACK, a.call[1] = "getNewsArticle"
  PROVE  /\ Sequence(Body(a)) /\ Sequence(Fields(a, 0) \o EndCode)
         /\ Body(a) \o EndCode = <<Code(ANS_ACK)>> \o (Fields(a, 0) \o EndCode)
  <1> DEFINE x == Code(ANS_ACK)
             s == [i \in DOMAIN a.result |-> String(a.result[i])]
             three == <<a.result[1], a.result[2], a.result[3]>>
  <1>1. a.result = three
    BY DEF IsAnswer
  <1>2. DOMAIN a.result = 1..3
    <2>1. DOMAIN three = 1..3
      OBVIOUS
    <2> HIDE DEF three
    <2> QED
      BY <1>1, <2>1
  <1>3. s = Fields(a, 0)
    BY <1>2 DEF Fields
  <1>4. Body(a) = <<x>> \o s
    BY DEF Body
  <1>5. Sequence(s)
    BY <1>2 DEF Sequence
  <1> HIDE DEF s, x
  <1>6. /\ Sequence(<<x>> \o s) /\ Sequence(s \o EndCode)
        /\ (<<x>> \o s) \o EndCode = <<x>> \o (s \o EndCode)
    BY <1>5, OneBefore
  <1> QED
    BY <1>3, <1>4, <1>6 DEF x

LEMMA FieldsFrom ==
  ASSUME NEW a, NEW k \in 0..2
  PROVE  /\ Sequence(Fields(a, k + 1)) /\ Sequence(Fields(a, k + 1) \o EndCode)
         /\ Fields(a, k) \o EndCode
              = <<String(a.result[k + 1])>> \o (Fields(a, k + 1) \o EndCode)
  <1> DEFINE x == String(a.result[k + 1])
             s == Fields(a, k)
             t == Fields(a, k + 1)
             u == <<x>> \o t
  <1>1. /\ Sequence(s) /\ Len(s) = 3 - k
        /\ Sequence(t) /\ Len(t) = 2 - k
    BY DEF Fields, Sequence
  <1>2. s[1] = x /\ \A i \in 1..(2 - k) : s[i + 1] = t[i]
    BY DEF Fields
  <1> HIDE DEF s, t, x
  <1>3. /\ Sequence(u) /\ Len(u) = 3 - k /\ u[1] = x
        /\ \A i \in 1..(2 - k) : u[i + 1] = t[i]
    BY <1>1, OneThen
  <1> HIDE DEF u
  <1>4. \A i \in 1..(3 - k) : s[i] = u[i]
    <2> SUFFICES ASSUME NEW i \in 1..(3 - k)
                 PROVE  s[i] = u[i]
      OBVIOUS
    <2>1. i = 1 \/ (i - 1 \in 1..(2 - k) /\ (i - 1) + 1 = i)
      OBVIOUS
    <2> QED
      BY <1>2, <1>3, <2>1
  <1>5. s = <<x>> \o t
    BY <1>1, <1>3, <1>4, SameSequence DEF u
  <1>6. /\ Sequence(t \o EndCode)
        /\ (<<x>> \o t) \o EndCode = <<x>> \o (t \o EndCode)
    BY <1>1, OneBefore
  <1> QED
    BY <1>1, <1>5, <1>6 DEF s, t, x

LEMMA NoFieldsLeft ==
  ASSUME NEW a
  PROVE  Fields(a, 3) \o EndCode = EndCode
  <1>1. Sequence(Fields(a, 3)) /\ Len(Fields(a, 3)) = 0
    BY DEF Fields, Sequence
  <1>2. Fields(a, 3) = <<>>
    BY <1>1, NoneAndOne, SameSequence
  <1> QED
    BY <1>2, EndIs, ConcatNone

\* A call that is only acknowledged.
LEMMA AckBody ==
  ASSUME NEW a, a.code = ANS_ACK, ~IsListCommand(a.call[1]),
         a.call[1] # "getNewsArticle"
  PROVE  /\ Sequence(Body(a))
         /\ Body(a) \o EndCode = <<Code(ANS_ACK)>> \o EndCode
  <1>1. Body(a) = <<Code(ANS_ACK)>> \o <<>>
    BY DEF Body, IsListCommand
  <1>2. Sequence(<<Code(ANS_ACK)>>)
    BY NoneAndOne
  <1>3. Body(a) = <<Code(ANS_ACK)>>
    BY <1>1, <1>2, ConcatNone
  <1> QED
    BY <1>2, <1>3

\* The entries of a listing that are yet to come.
LEMMA EntriesComing ==
  ASSUME NEW pairs, Sequence(pairs), NEW k \in 1..Len(pairs)
  PROVE  /\ Sequence(Entries(From(pairs, k + 1)) \o EndCode)
         /\ Sequence(<<String(pairs[k][2])>> \o
                       (Entries(From(pairs, k + 1)) \o EndCode))
         /\ Entries(From(pairs, k)) \o EndCode
              = <<Number(pairs[k][1])>> \o
                  (<<String(pairs[k][2])>> \o
                     (Entries(From(pairs, k + 1)) \o EndCode))
  <1> DEFINE x == Number(pairs[k][1])
             y == String(pairs[k][2])
             e == Entries(From(pairs, k + 1))
  <1>1. Entries(From(pairs, k)) = <<x>> \o (<<y>> \o e)
    BY EntriesFrom
  <1>2. Sequence(e)
    <2>1. k + 1 \in 1..(Len(pairs) + 1)
      BY DEF Sequence
    <2>2. Sequence(From(pairs, k + 1))
      BY <2>1, FromIs
    <2> QED
      BY <2>2, EntriesSequence
  <1> HIDE DEF x, y, e
  <1>3. /\ Sequence(e \o EndCode) /\ Sequence(<<y>> \o e)
        /\ (<<y>> \o e) \o EndCode = <<y>> \o (e \o EndCode)
    BY <1>2, OneBefore
  <1> DEFINE s == <<y>> \o e
  <1> HIDE DEF s
  <1>4. (<<x>> \o s) \o EndCode = <<x>> \o (s \o EndCode)
    BY <1>3, OneBefore DEF s
  <1>5. Sequence(<<y>> \o (e \o EndCode))
    BY <1>3, OneFirst
  <1> QED
    BY <1>1, <1>3, <1>4, <1>5 DEF x, y, e, s

LEMMA BodySequence ==
  ASSUME NEW a, IsAnswer(a), a.call[1] \in DOMAIN Parameter
  PROVE  Sequence(Body(a))
  <1>1. CASE a.call[1] = "listNewsGroups"
    BY <1>1, GroupsBody
  <1>2. CASE a.call[1] # "listNewsGroups" /\ a.code # ANS_ACK
    BY <1>2, RefusalBody
  <1>3. CASE a.call[1] = "listArticles" /\ a.code = ANS_ACK
    BY <1>3, ArticlesBody
  <1>4. CASE a.call[1] = "getNewsArticle" /\ a.code = ANS_ACK
    BY <1>4, ArticleBody
  <1>5. CASE /\ a.call[1] \notin {"listNewsGroups", "listArticles", "getNewsArticle"}
             /\ a.code = ANS_ACK
    BY <1>5, AckBody DEF IsListCommand
  <1> QED
    BY <1>1, <1>2, <1>3, <1>4, <1>5

-------------------------------------------------------------------------------
(* The steps.                                                                *)

LEMMA BothEmpty ==
  \A s, t : Sequence(s) /\ Sequence(t) /\ s \o t = <<>> => s = <<>> /\ t = <<>>
  <1> TAKE s, t
  <1> HAVE Sequence(s) /\ Sequence(t) /\ s \o t = <<>>
  <1>1. Len(s) + Len(t) = 0 /\ Len(s) \in Nat /\ Len(t) \in Nat
    BY Concat, NoneAndOne DEF Sequence
  <1>2. Len(s) = 0 /\ Len(t) = 0
    BY <1>1
  <1> QED
    BY <1>2, NoneAndOne, SameSequence

\* What is to come at a place, one equation for each.
NameAndRest(pairs, k) ==
  <<String(pairs[k][2])>> \o (Entries(From(pairs, k + 1)) \o EndCode)

ComingIs ==
  /\ pc = "answer" => Coming = Reply(performed)
  /\ pc = "response" => Coming = Body(performed) \o EndCode
  /\ pc = "errorCode" => Coming = <<Code(performed.code)>> \o EndCode
  /\ pc = "count" => Coming = Listing(Listed(performed)) \o EndCode
  /\ pc = "id" =>
       Coming = Entries(From(Listed(performed), Len(taken) + 1)) \o EndCode
  /\ pc = "name" => Coming = NameAndRest(Listed(performed), Len(taken))
  /\ pc = "fields" => Coming = Fields(performed, Len(taken)) \o EndCode
  /\ pc \in {"flush", "end"} => Coming = EndCode
  /\ pc \in {"prompt", "quit", "crashed", "write", "hung"} =>
       Coming = <<>>

LEMMA ComingAt == ComingIs /\ ComingIs'
  <1>1. /\ pc = "answer" => Coming = Reply(performed)
        /\ (pc = "answer" => Coming = Reply(performed))'
    BY DEF Coming, Fields, NameAndRest
  <1>2. /\ pc = "response" => Coming = Body(performed) \o EndCode
        /\ (pc = "response" => Coming = Body(performed) \o EndCode)'
    BY SMTT(30) DEF Coming, Fields, NameAndRest
  <1>3. /\ pc = "errorCode" => Coming = <<Code(performed.code)>> \o EndCode
        /\ (pc = "errorCode" => Coming = <<Code(performed.code)>> \o EndCode)'
    BY SMTT(30) DEF Coming, Fields, NameAndRest
  <1>4. /\ pc = "count" => Coming = Listing(Listed(performed)) \o EndCode
        /\ (pc = "count" => Coming = Listing(Listed(performed)) \o EndCode)'
    BY SMTT(30) DEF Coming, Fields, NameAndRest
  <1>5. /\ pc = "id" =>
             Coming = Entries(From(Listed(performed), Len(taken) + 1)) \o EndCode
        /\ (pc = "id" =>
               Coming = Entries(From(Listed(performed), Len(taken) + 1)) \o EndCode)'
    BY SMTT(30) DEF Coming, Fields, NameAndRest
  <1>6. /\ pc = "name" => Coming = NameAndRest(Listed(performed), Len(taken))
        /\ (pc = "name" => Coming = NameAndRest(Listed(performed), Len(taken)))'
    BY DEF Coming, Fields, NameAndRest
  <1>7. /\ pc = "fields" => Coming = Fields(performed, Len(taken)) \o EndCode
        /\ (pc = "fields" => Coming = Fields(performed, Len(taken)) \o EndCode)'
    BY DEF Coming, Fields, NameAndRest
  <1>8. /\ pc \in {"flush", "end"} => Coming = EndCode
        /\ (pc \in {"flush", "end"} => Coming = EndCode)'
    BY DEF Coming, Fields, NameAndRest
  <1>9. /\ pc \in {"prompt", "quit", "crashed", "write", "hung"} =>
             Coming = <<>>
        /\ (pc \in {"prompt", "quit", "crashed", "write", "hung"} =>
             Coming = <<>>)'
    BY DEF Coming, Fields, NameAndRest
  <1> QED
    BY <1>1, <1>2, <1>3, <1>4, <1>5, <1>6, <1>7, <1>8, <1>9 DEF ComingIs

\* At the prompt nothing of an exchange is left.
LEMMA BetweenExchanges ==
  ASSUME IInv, pc = "prompt"
  PROVE  /\ toWrite = <<>> /\ toClient = <<>> /\ reply = <<>>
         /\ server = "up" => request = <<>> /\ toServer = <<>>
  <1>1. CASE performed = Db!NoCall
    BY <1>1 DEF IInv, AskingInv
  <1>2. CASE performed # Db!NoCall
    <2>1. toClient \o reply = <<>>
      BY <1>2, ComingAt DEF IInv, TellingInv, ComingIs
    <2>2. toClient = <<>> /\ reply = <<>>
      BY <2>1, BothEmpty DEF IInv, SequencesInv
    <2> QED
      BY <1>2, <2>2 DEF IInv, TellingInv
  <1> QED
    BY <1>1, <1>2

LEMMA NothingTold == Nothing.verdict \notin {"done", "refused", "shown"}
  BY DEF Nothing, Verdict

LEMMA InitIInv == Init => IInv
  <1> SUFFICES ASSUME Init
               PROVE  IInv
    OBVIOUS
  <1>1. performed = Db!NoCall /\ groups = <<>>
    BY DEF Init, Db!Init, Db!EmptyMap
  <1>2. SequencesInv
    BY NoneAndOne DEF Init, SequencesInv
  <1>3. NumbersInv
    <2>1. DOMAIN groups = {}
      BY <1>1
    <2> QED
      BY <2>1 DEF NumbersInv
  <1>4. AskingInv
    BY DEF Init, AskingInv, Nothing, Verdict
  <1>5. TellingInv
    BY <1>1 DEF TellingInv
  <1>6. ToldTheTruth
    BY DEF Init, ToldTheTruth, Nothing, Verdict
  <1>7. AnswersReachTheUser
    BY <1>1 DEF AnswersReachTheUser
  <1> QED
    BY <1>2, <1>3, <1>4, <1>5, <1>6, <1>7 DEF IInv

\* A line is typed.
LEMMA TypeKeeps ==
  ASSUME IInv, NEW typed, Type(typed)
  PROVE  IInv'
  <1>1. /\ pc = "prompt" /\ line' = typed /\ performed' = Db!NoCall
        /\ taken' = <<>>
        /\ toServer' = toServer /\ toClient' = toClient
        /\ server' = server /\ request' = request /\ reply' = reply
        /\ groups' = groups
    BY DEF Type, serverVars
  <1>2. /\ toWrite = <<>> /\ toClient = <<>> /\ reply = <<>>
        /\ server = "up" => request = <<>> /\ toServer = <<>>
    BY <1>1, BetweenExchanges
  <1>3. \/ /\ pc' = "prompt" /\ toWrite' = toWrite
           /\ told'.verdict \in {"help", "invalid", "protocol failure"}
        \/ pc' = "hung" /\ toWrite' = toWrite /\ told' = Nothing
        \/ /\ Accepted(typed)
           /\ pc' = "write" /\ told' = Nothing
           /\ toWrite' = Request(Asked(typed))
    <2> DEFINE params == Parameters(typed.words)
               command == typed.command
    <2>1. CASE ~IsCommand(typed) /\ Help
      BY <1>1, <2>1 DEF Help, Complains, Verdict
    <2>2. CASE IsCommand(typed) /\ ~TakesParameters(command) /\ Starts(<<command>>)
      BY <2>2 DEF Starts, Accepted, Asked
    <2>3. CASE pc' = "hung" /\ told' = Nothing /\ UNCHANGED toWrite
      BY <2>3
    <2>4. ASSUME NEW verdict \in Complaints(command, params), Complains(verdict)
          PROVE  /\ pc' = "prompt" /\ toWrite' = toWrite
                 /\ told'.verdict \in {"help", "invalid", "protocol failure"}
      <3>1. verdict \in {"invalid", "protocol failure"}
        BY <2>4 DEF Complaints, Complaint
      <3> QED
        BY <1>1, <2>4, <3>1 DEF Complains, Verdict
    <2>5. CASE /\ TakesParameters(command) /\ ~Unclosed(typed.words)
               /\ Complaints(command, params) = {}
               /\ Starts(Call(command, params))
      <3>1. IsCommand(typed)
        BY <2>5, ParameterKinds DEF IsCommand, TakesParameters
      <3> QED
        BY <2>5, <3>1 DEF Starts, Accepted, Asked
    <2>6. \/ ~IsCommand(typed) /\ Help
          \/ IsCommand(typed) /\ ~TakesParameters(command) /\ Starts(<<command>>)
          \/ pc' = "hung" /\ told' = Nothing /\ UNCHANGED toWrite
          \/ \E verdict \in Complaints(command, params) : Complains(verdict)
          \/ /\ TakesParameters(command) /\ ~Unclosed(typed.words)
             /\ Complaints(command, params) = {}
             /\ Starts(Call(command, params))
      BY DEF Type
    <2> HIDE DEF params, command
    <2> QED
      BY <2>1, <2>2, <2>3, <2>4, <2>5, <2>6
  <1>3a. told'.verdict \notin {"done", "refused", "shown"}
    BY <1>3, NothingTold
  <1>4. ASSUME Accepted(typed)
        PROVE  /\ Sequence(Request(Asked(typed))) /\ Request(Asked(typed)) # <<>>
               /\ (<<>> \o <<>>) \o Request(Asked(typed)) = Request(Asked(typed))
    <2>1. IsCall(Asked(typed), typed.command)
      BY <1>4, AskedIsCall
    <2>2. /\ Sequence(Request(Asked(typed)))
          /\ Len(Request(Asked(typed))) = Len(Asked(typed)) + 1
      BY <2>1, RequestIs
    <2>3. Len(Asked(typed)) \in Nat
      BY <2>1 DEF IsCall, Sequence
    <2>4. Request(Asked(typed)) # <<>>
      BY <2>2, <2>3, NoneAndOne
    <2>5. <<>> \o <<>> = <<>>
      BY NoneAndOne, ConcatNone
    <2> QED
      BY <2>2, <2>4, <2>5, ConcatNone
  <1>5. SequencesInv'
    BY <1>1, <1>2, <1>3, <1>4, NoneAndOne DEF IInv, SequencesInv
  <1>6. NumbersInv'
    BY <1>1 DEF IInv, NumbersInv
  <1>7. AskingInv'
    <2>1. CASE pc' = "write" /\ Accepted(typed)
      <3>1. told' = Nothing /\ toWrite' = Request(Asked(typed))
        BY <1>3, <2>1
      <3>2. server' = "up" =>
              (request' \o toServer') \o toWrite' = Request(Asked(typed))
        BY <1>1, <1>2, <1>4, <2>1, <3>1
      <3>3. toWrite' # <<>> /\ toClient' = <<>> /\ reply' = <<>>
        BY <1>1, <1>2, <1>4, <2>1, <3>1
      <3> QED
        BY <1>1, <1>3a, <2>1, <3>1, <3>2, <3>3 DEF AskingInv
    <2>2. CASE pc' \in {"prompt", "hung"}
      <3>1. toWrite' = <<>> /\ toClient' = <<>> /\ reply' = <<>>
        BY <1>1, <1>2, <1>3, <2>2
      <3> QED
        BY <1>1, <1>2, <1>3a, <2>2, <3>1 DEF AskingInv
    <2> QED
      BY <1>3, <2>1, <2>2
  <1>8. TellingInv'
    BY <1>1 DEF TellingInv
  <1>9. ToldTheTruth'
    BY <1>3, <1>3a DEF ToldTheTruth
  <1>10. AnswersReachTheUser'
    BY <1>1 DEF AnswersReachTheUser
  <1> QED
    BY <1>5, <1>6, <1>7, <1>8, <1>9, <1>10 DEF IInv

\* Nothing but where the client is changes: the end of the input, and of the
\* program.
LEMMA QuitKeeps ==
  ASSUME IInv, Quit
  PROVE  IInv'
  <1>1. /\ pc = "prompt" /\ pc' = "quit"
        /\ line' = line /\ toWrite' = toWrite /\ taken' = taken
        /\ left' = left /\ told' = told
        /\ toServer' = toServer /\ toClient' = toClient
        /\ server' = server /\ request' = request /\ reply' = reply
        /\ groups' = groups /\ performed' = performed
    BY DEF Quit, serverVars, storeVars
  <1>2. toWrite = <<>> /\ toClient = <<>> /\ reply = <<>>
        /\ (server = "up" => request = <<>> /\ toServer = <<>>)
    BY <1>1, BetweenExchanges
  <1>3. SequencesInv' /\ NumbersInv'
    BY <1>1 DEF IInv, SequencesInv, NumbersInv
  <1>4. AskingInv'
    BY <1>1, <1>2 DEF IInv, AskingInv
  <1>5. TellingInv'
    <2> SUFFICES ASSUME performed' # Db!NoCall
                 PROVE  TellingInv'
      BY DEF TellingInv
    <2>1. Coming = <<>> /\ Coming' = <<>>
      BY <1>1, ComingAt DEF ComingIs
    <2>2. (toClient \o reply = Coming)'
      BY <1>1, <2>1 DEF IInv, TellingInv
    <2>3. TakenInv' /\ ToldInv'
      BY <1>1 DEF TakenInv, ToldInv
    <2>4. Command' \in Reading'
      BY <1>1 DEF IInv, TellingInv, Reading, Command
    <2> QED
      BY <1>1, <2>2, <2>3, <2>4 DEF IInv, TellingInv
  <1>6. ToldTheTruth' /\ AnswersReachTheUser'
    BY <1>1 DEF IInv, ToldTheTruth, AnswersReachTheUser,
                  Fits, Found, Command
  <1> QED
    BY <1>3, <1>4, <1>5, <1>6 DEF IInv

LEMMA NoReplyKeeps ==
  ASSUME IInv, NoReply
  PROVE  IInv'
  <1>1. /\ pc \notin {"prompt", "write", "hung", "quit", "crashed", "exited"}
        /\ pc' = "exited" /\ server = "killed"
        /\ line' = line /\ toWrite' = toWrite /\ taken' = taken
        /\ left' = left /\ told' = told
        /\ toServer' = toServer /\ toClient' = toClient
        /\ server' = server /\ request' = request /\ reply' = reply
        /\ groups' = groups /\ performed' = performed
    BY DEF NoReply, serverVars, storeVars
  <1>2. SequencesInv' /\ NumbersInv'
    BY <1>1 DEF IInv, SequencesInv, NumbersInv
  <1>3. AskingInv'
    BY <1>1 DEF IInv, AskingInv
  <1>4. TellingInv'
    <2> SUFFICES ASSUME performed' # Db!NoCall
                 PROVE  TellingInv'
      BY DEF TellingInv
    <2>1. TakenInv' /\ ToldInv'
      BY <1>1 DEF TakenInv, ToldInv
    <2>2. Command' \in Reading'
      BY <1>1, CommandsAre DEF IInv, TellingInv, Reading, Command
    <2> QED
      BY <1>1, <2>1, <2>2 DEF IInv, TellingInv
  <1>5. ToldTheTruth' /\ AnswersReachTheUser'
    BY <1>1 DEF IInv, ToldTheTruth, AnswersReachTheUser,
                  Fits, Found, Command
  <1> QED
    BY <1>2, <1>3, <1>4, <1>5 DEF IInv

\* The client is dead of a line that it has not yet asked anything for.
LEMMA RunsOutKeeps ==
  ASSUME IInv, RunsOut
  PROVE  IInv'
  <1>1. /\ pc = "hung" /\ pc' = "crashed"
        /\ line' = line /\ toWrite' = toWrite /\ taken' = taken
        /\ left' = left /\ told' = told
        /\ toServer' = toServer /\ toClient' = toClient
        /\ server' = server /\ request' = request /\ reply' = reply
        /\ groups' = groups /\ performed' = performed
    BY DEF RunsOut, serverVars, storeVars
  <1>2. performed = Db!NoCall
    BY <1>1 DEF IInv, TellingInv, Reading
  <1>3. SequencesInv' /\ NumbersInv'
    BY <1>1 DEF IInv, SequencesInv, NumbersInv
  <1>4. AskingInv'
    BY <1>1 DEF IInv, AskingInv
  <1>5. TellingInv' /\ ToldTheTruth' /\ AnswersReachTheUser'
    BY <1>1, <1>2 DEF IInv, TellingInv, ToldTheTruth, AnswersReachTheUser
  <1> QED
    BY <1>3, <1>4, <1>5 DEF IInv

\* The server is gone: what it was owed is no matter any more.
LEMMA KillKeeps ==
  ASSUME IInv, Kill
  PROVE  IInv'
  <1>1. /\ server' = "killed"
        /\ pc' = pc /\ line' = line /\ toWrite' = toWrite /\ taken' = taken
        /\ left' = left /\ told' = told
        /\ toServer' = toServer /\ toClient' = toClient
        /\ request' = request /\ reply' = reply
        /\ groups' = groups /\ performed' = performed
    BY DEF Kill, clientVars, storeVars
  <1>2. SequencesInv' /\ NumbersInv'
    BY <1>1 DEF IInv, SequencesInv, NumbersInv
  <1>3. AskingInv'
    BY <1>1 DEF IInv, AskingInv
  <1>4. TellingInv'
    BY <1>1 DEF IInv, TellingInv, Coming, Reading, Command, TakenInv, ToldInv
  <1>5. ToldTheTruth' /\ AnswersReachTheUser'
    BY <1>1 DEF IInv, ToldTheTruth, AnswersReachTheUser,
                  Fits, Found, Command
  <1> QED
    BY <1>2, <1>3, <1>4, <1>5 DEF IInv

LEMMA StutterKeeps ==
  ASSUME IInv, UNCHANGED vars
  PROVE  IInv'
  <1>1. /\ server' = server
        /\ pc' = pc /\ line' = line /\ toWrite' = toWrite /\ taken' = taken
        /\ left' = left /\ told' = told
        /\ toServer' = toServer /\ toClient' = toClient
        /\ request' = request /\ reply' = reply
        /\ groups' = groups /\ performed' = performed
    BY DEF vars, clientVars, serverVars, storeVars
  <1>2. SequencesInv' /\ NumbersInv'
    BY <1>1 DEF IInv, SequencesInv, NumbersInv
  <1>3. AskingInv'
    BY <1>1 DEF IInv, AskingInv
  <1>4. TellingInv'
    BY <1>1 DEF IInv, TellingInv, Coming, Reading, Command, TakenInv, ToldInv
  <1>5. ToldTheTruth' /\ AnswersReachTheUser'
    BY <1>1 DEF IInv, ToldTheTruth, AnswersReachTheUser,
                  Fits, Found, Command
  <1> QED
    BY <1>2, <1>3, <1>4, <1>5 DEF IInv

\* While the client writes, the store has not yet been asked.
LEMMA NotYetAsked ==
  IInv /\ (pc = "write" \/ toServer # <<>>) => performed = Db!NoCall
  BY DEF IInv, TellingInv, Reading

\* The client writes a token of its request.
LEMMA WriteKeeps ==
  ASSUME IInv, Write
  PROVE  IInv'
  <1>1. /\ pc = "write"
        /\ toServer' = IF server = "up" THEN Append(toServer, Head(toWrite))
                       ELSE toServer
        /\ toWrite' = Tail(toWrite)
        /\ pc' = IF Len(toWrite) = 1 THEN "answer" ELSE "write"
        /\ line' = line /\ taken' = taken /\ left' = left /\ told' = told
        /\ toClient' = toClient /\ server' = server /\ request' = request
        /\ reply' = reply /\ groups' = groups /\ performed' = performed
    BY DEF Write, serverVars, storeVars
  <1>2. performed = Db!NoCall
    BY <1>1, NotYetAsked
  <1>3. /\ Sequence(toWrite) /\ toWrite # <<>> /\ Sequence(toServer)
        /\ Sequence(request)
        /\ Accepted(line) /\ told = Nothing
        /\ server = "up" =>
             (request \o toServer) \o toWrite = Request(Asked(line))
    BY <1>1, <1>2 DEF IInv, SequencesInv, AskingInv
  <1>4. /\ Sequence(Append(toServer, Head(toWrite))) /\ Sequence(Tail(toWrite))
        /\ Append(toServer, Head(toWrite)) \o Tail(toWrite)
             = toServer \o toWrite
        /\ Len(Tail(toWrite)) = Len(toWrite) - 1
    BY <1>3, Moved, HeadAndTail
  <1>5. pc' = "write" <=> toWrite' # <<>>
    <2>1. Len(toWrite) \in Nat
      BY <1>3 DEF Sequence
    <2>2. Len(toWrite) = 1 <=> Tail(toWrite) = <<>>
      <3>1. Len(Tail(toWrite)) = 0 <=> Tail(toWrite) = <<>>
        BY <1>4, EmptyIs
      <3> QED
        BY <1>4, <2>1, <3>1
    <2> QED
      BY <1>1, <2>2
  <1>6. SequencesInv' /\ NumbersInv'
    BY <1>1, <1>4 DEF IInv, SequencesInv, NumbersInv
  <1>7. ASSUME server = "up"
        PROVE  (request' \o toServer') \o toWrite' = Request(Asked(line))
    <2>1. (request \o Append(toServer, Head(toWrite))) \o Tail(toWrite)
            = (request \o toServer) \o toWrite
      <3>1. /\ Sequence(request) /\ Sequence(toServer) /\ Sequence(toWrite)
            /\ toWrite # <<>>
        BY <1>3
      <3> QED
        <4> DEFINE g(q, v, w) == (q \o Append(v, Head(w))) \o Tail(w)
                   h(q, v, w) == (q \o v) \o w
        <4>1. \A q, v, w :
                Sequence(q) /\ Sequence(v) /\ Sequence(w) /\ w # <<>> =>
                  g(q, v, w) = h(q, v, w)
          BY MovedBehind
        <4> HIDE DEF g, h
        <4>2. g(request, toServer, toWrite) = h(request, toServer, toWrite)
          BY <3>1, <4>1
        <4> QED
          BY <4>2 DEF g, h
    <2> QED
      BY <1>1, <1>3, <1>7, <2>1
  <1>8. AskingInv'
    BY <1>1, <1>2, <1>3, <1>5, <1>7 DEF IInv, AskingInv
  <1>9. TellingInv'
    BY <1>1, <1>2 DEF TellingInv
  <1>10. ToldTheTruth' /\ AnswersReachTheUser'
    BY <1>1, <1>2 DEF IInv, ToldTheTruth, AnswersReachTheUser,
                  Fits, Found, Command
  <1> QED
    BY <1>6, <1>8, <1>9, <1>10 DEF IInv

\* The server reads a token of the request.
LEMMA ReadRequestKeeps ==
  ASSUME IInv, ReadRequest
  PROVE  IInv'
  <1>1. /\ server = "up" /\ toServer # <<>>
        /\ request' = Append(request, Head(toServer))
        /\ toServer' = Tail(toServer)
        /\ pc' = pc /\ line' = line /\ toWrite' = toWrite /\ taken' = taken
        /\ left' = left /\ told' = told
        /\ toClient' = toClient /\ server' = server /\ reply' = reply
        /\ groups' = groups /\ performed' = performed
    BY DEF ReadRequest, clientVars, storeVars
  <1>2. performed = Db!NoCall
    BY <1>1, NotYetAsked
  <1>3. Sequence(request) /\ Sequence(toServer)
    BY DEF IInv, SequencesInv
  <1>4. /\ Sequence(Append(request, Head(toServer))) /\ Sequence(Tail(toServer))
        /\ Append(request, Head(toServer)) \o Tail(toServer)
             = request \o toServer
    BY <1>1, <1>3, Moved
  <1>5. request' \o toServer' = request \o toServer
    BY <1>1, <1>4
  <1>6. pc \in {"write", "answer"}
    BY <1>1, <1>2 DEF IInv, AskingInv
  <1>7. SequencesInv' /\ NumbersInv'
    BY <1>1, <1>4 DEF IInv, SequencesInv, NumbersInv
  <1>8. AskingInv'
    BY <1>1, <1>2, <1>5, <1>6 DEF IInv, AskingInv
  <1>9. TellingInv'
    BY <1>1, <1>2 DEF TellingInv
  <1>10. ToldTheTruth' /\ AnswersReachTheUser'
    BY <1>1, <1>2 DEF IInv, ToldTheTruth, AnswersReachTheUser,
                  Fits, Found, Command
  <1> QED
    BY <1>7, <1>8, <1>9, <1>10 DEF IInv

\* The server writes a token of the answer.
LEMMA WriteReplyKeeps ==
  ASSUME IInv, WriteReply
  PROVE  IInv'
  <1>1. /\ reply # <<>>
        /\ toClient' = Append(toClient, Head(reply))
        /\ reply' = Tail(reply)
        /\ pc' = pc /\ line' = line /\ toWrite' = toWrite /\ taken' = taken
        /\ left' = left /\ told' = told
        /\ toServer' = toServer /\ server' = server /\ request' = request
        /\ groups' = groups /\ performed' = performed
    BY DEF WriteReply, clientVars, storeVars
  <1>2. performed # Db!NoCall
    BY <1>1 DEF IInv, AskingInv
  <1>3. Sequence(toClient) /\ Sequence(reply)
    BY DEF IInv, SequencesInv
  <1>4. /\ Sequence(Append(toClient, Head(reply))) /\ Sequence(Tail(reply))
        /\ Append(toClient, Head(reply)) \o Tail(reply) = toClient \o reply
    BY <1>1, <1>3, Moved
  <1>5. toClient' \o reply' = toClient \o reply
    BY <1>1, <1>4
  <1>6. SequencesInv' /\ NumbersInv'
    BY <1>1, <1>4 DEF IInv, SequencesInv, NumbersInv
  <1>7. AskingInv'
    BY <1>1, <1>2 DEF AskingInv
  <1>8. TellingInv'
    <2>1. Coming' = Coming /\ Reading' = Reading /\ Command' = Command
      BY <1>1 DEF Coming, Reading, Command
    <2>2. TakenInv' /\ ToldInv'
      BY <1>1, <1>2 DEF IInv, TellingInv, TakenInv, ToldInv, Command
    <2> QED
      BY <1>1, <1>2, <1>5, <2>1, <2>2 DEF IInv, TellingInv
  <1>9. ToldTheTruth' /\ AnswersReachTheUser'
    BY <1>1 DEF IInv, ToldTheTruth, AnswersReachTheUser,
                  Fits, Found, Command
  <1> QED
    BY <1>6, <1>7, <1>8, <1>9 DEF IInv

\* A part of a sequence, and what follows it.
LEMMA LeadingPart ==
  \A s, t, u : Sequence(s) /\ Sequence(t) /\ s \o t = u =>
    /\ Len(u) = Len(s) + Len(t)
    /\ \A i \in 1..Len(s) : s[i] = u[i]
  <1> TAKE s, t, u
  <1> HAVE Sequence(s) /\ Sequence(t) /\ s \o t = u
  <1>1. /\ Len(u) = Len(s) + Len(t)
        /\ \A i \in 1..(Len(s) + Len(t)) :
             u[i] = IF i <= Len(s) THEN s[i] ELSE t[i - Len(s)]
    BY Concat
  <1>2. Len(s) \in Nat /\ Len(t) \in Nat
    BY DEF Sequence
  <1> QED
    BY <1>1, <1>2

\* The server has read a request to its end: it has read all of it, the client
\* waits for the answer, and the call it makes is the call that was asked for.
LEMMA CarriedIsAsked ==
  ASSUME IInv, server = "up", Complete, toServer # <<>>
  PROVE  /\ performed = Db!NoCall /\ pc = "answer" /\ Accepted(line)
         /\ told = Nothing /\ toClient = <<>> /\ taken = <<>>
         /\ toWrite = <<>> /\ Tail(toServer) = <<>>
         /\ IsCall(Asked(line), Command) /\ Decoded = Asked(line)
  <1> DEFINE call == Asked(line)
             R == Request(call)
             q == request \o toServer
  <1>1. /\ performed = Db!NoCall
        /\ Sequence(request) /\ Sequence(toServer) /\ Sequence(toWrite)
    BY NotYetAsked DEF IInv, SequencesInv
  <1>2. /\ pc \in {"write", "answer"} /\ Accepted(line) /\ told = Nothing
        /\ toClient = <<>> /\ taken = <<>> /\ (pc = "write" <=> toWrite # <<>>)
        /\ q \o toWrite = R
    BY <1>1 DEF IInv, AskingInv
  <1>3. IsCall(call, Command)
    BY <1>2, AskedIsCall DEF Command
  <1>4. /\ call[1] = Command /\ Command \in DOMAIN Parameter /\ Sequence(call)
        /\ Len(call) = Len(Parameter[Command]) + 1
        /\ Len(Parameter[Command]) \in Nat
    BY <1>3 DEF IsCall
  <1> HIDE DEF call
  <1>5. /\ Sequence(R) /\ Len(R) = Len(call) + 1
        /\ R[1] = Code(CommandCode[Command])
    BY <1>3, RequestIs
  <1> HIDE DEF R
  <1>6. Sequence(q)
    BY <1>1, Concat
  <1>7. /\ Len(R) = Len(q) + Len(toWrite)
        /\ \A i \in 1..Len(q) : q[i] = R[i]
    BY <1>1, <1>2, <1>6, LeadingPart
  <1>8. /\ Len(q) = Len(request) + Len(toServer)
        /\ \A i \in 1..Len(request) : request[i] = q[i]
    BY <1>1, LeadingPart
  <1> HIDE DEF q
  <1>9. /\ Len(request) \in Nat /\ Len(toServer) \in Nat /\ Len(toWrite) \in Nat
        /\ Len(request) # 0 /\ Len(toServer) # 0
    BY <1>1, EmptyIs DEF Complete, Sequence
  <1>10. \A i \in 1..Len(request) : request[i] = R[i]
    BY <1>7, <1>8, <1>9
  <1>11. Method(request[1].value) = Command
    <2>1. request[1] = Code(CommandCode[Command])
      BY <1>5, <1>9, <1>10
    <2> QED
      BY <1>4, <2>1, MethodOf DEF Code
  <1>12. Len(request) = Len(call)
    BY <1>4, <1>11 DEF Complete
  <1>13. Len(toServer) = 1 /\ Len(toWrite) = 0
    <2>1. Len(call) + 1 = (Len(request) + Len(toServer)) + Len(toWrite)
      BY <1>5, <1>7, <1>8
    <2> QED
      <3> DEFINE a == Len(request)
                 b == Len(toServer)
                 d == Len(toWrite)
      <3>1. /\ a \in Nat /\ b \in Nat /\ d \in Nat /\ b # 0
            /\ a + 1 = (a + b) + d
        BY <1>9, <1>12, <2>1
      <3> HIDE DEF a, b, d
      <3>2. b = 1 /\ d = 0
        BY <3>1
      <3> QED
        BY <3>2 DEF b, d
  <1>14. toWrite = <<>> /\ pc = "answer"
    BY <1>1, <1>2, <1>13, EmptyIs
  <1>15. Tail(toServer) = <<>>
    <2>1. Sequence(Tail(toServer)) /\ Len(Tail(toServer)) = 0
      <3>1. /\ Sequence(Tail(toServer))
            /\ Len(Tail(toServer)) = Len(toServer) - 1
        BY <1>1, HeadAndTail
      <3> QED
        BY <1>13, <3>1
    <2> QED
      BY <2>1, EmptyIs
  <1>16. Decoded = call
    BY <1>1, <1>3, <1>10, <1>12, DecodedIs DEF R
  <1> QED
    BY <1>1, <1>2, <1>3, <1>14, <1>15, <1>16 DEF call

\* The server makes the call.
LEMMA CarryKeeps ==
  ASSUME IInv, Carry
  PROVE  IInv'
  <1>1. /\ server = "up" /\ reply = <<>> /\ Complete /\ toServer # <<>>
        /\ Db!Perform(Decoded) \/ Unopened(Decoded)
        /\ performed' = answer' /\ reply' = Reply(answer')
        /\ request' = <<>> /\ toServer' = Tail(toServer)
        /\ pc' = pc /\ line' = line /\ toWrite' = toWrite /\ taken' = taken
        /\ left' = left /\ told' = told
        /\ toClient' = toClient /\ server' = server
    BY DEF Carry, clientVars
  <1>2. /\ pc = "answer" /\ Accepted(line)
        /\ told = Nothing /\ toClient = <<>> /\ taken = <<>>
        /\ toWrite = <<>> /\ Tail(toServer) = <<>>
        /\ IsCall(Asked(line), Command) /\ Decoded = Asked(line)
    BY <1>1, CarriedIsAsked
  <1> DEFINE call == Asked(line)
  <1>3. /\ Command \in DOMAIN Parameter /\ Sequence(call) /\ call[1] = Command
        /\ Len(call) = Len(Parameter[Command]) + 1
    BY <1>2 DEF IsCall
  <1>4. Db!Perform(call) \/ Unopened(call)
    BY <1>1, <1>2
  <1>5. NumbersInv
    BY DEF IInv
  <1> HIDE DEF call
  <1>6. /\ NumbersInv' /\ answer' # Db!NoCall
        /\ answer'.call = call /\ IsAnswer(answer')
    BY <1>3, <1>4, <1>5, PerformAnswers
  <1>7. Sequence(Body(answer'))
    BY <1>3, <1>6, BodySequence
  <1>8. Sequence(reply')
    <2>1. Sequence(Body(answer') \o EndCode)
      BY <1>7, ReplyIs
    <2>2. reply' = <<Code(AnswerCode[answer'.call[1]])>> \o
                     (Body(answer') \o EndCode)
      BY <1>1, <1>7, ReplyIs
    <2> QED
      BY <2>1, <2>2, OneFirst
  <1>9. SequencesInv'
    BY <1>1, <1>2, <1>8, NoneAndOne DEF IInv, SequencesInv
  <1>10. AskingInv'
    BY <1>1, <1>6 DEF AskingInv
  <1>11. TellingInv'
    <2>1. toClient' \o reply' = Reply(performed')
      BY <1>1, <1>2, <1>8, ConcatNone
    <2>2. Coming' = Reply(performed')
      BY <1>1, <1>2, ComingAt DEF ComingIs
    <2>3. TakenInv' /\ ToldInv'
      BY <1>1, <1>2 DEF TakenInv, ToldInv
    <2>4. Command' \in Reading'
      BY <1>1, <1>2, <1>3 DEF Reading, Command
    <2>5. performed'.call = Asked(line') /\ Accepted(line')
      BY <1>1, <1>2, <1>6 DEF call
    <2> QED
      BY <1>1, <1>2, <1>6, <2>1, <2>2, <2>3, <2>4, <2>5 DEF TellingInv
  <1>12. ToldTheTruth' /\ AnswersReachTheUser'
    BY <1>1, <1>2, NothingTold DEF ToldTheTruth, AnswersReachTheUser
  <1> QED
    BY <1>6, <1>9, <1>10, <1>11, <1>12 DEF IInv

-------------------------------------------------------------------------------
(* The steps that read an answer.                                            *)

Places == {"answer", "response", "errorCode", "flush", "count", "id", "name",
           "fields", "end"}

\* What the client knows when it reads a token: the answer is under way, and
\* the token is the first of what is to come.
LEMMA ReadStep ==
  ASSUME IInv, NEW place \in Places, NEW kind, Reads(place, kind)
  PROVE  /\ pc = place
         /\ performed # Db!NoCall /\ performed' = performed
         /\ line' = line /\ Command' = Command
         /\ performed.call[1] = Command /\ Command \in DOMAIN Parameter
         /\ Command \in Reading
         /\ IsAnswer(performed) /\ performed.code \in CodesOf(Command)
         /\ TakenInv /\ ToldInv /\ Sequence(taken)
         /\ \A x, r : Sequence(r) /\ Coming = <<x>> \o r =>
              /\ Got = x.value
              /\ Sequence(toClient') /\ toClient' \o reply' = r
  <1>1. /\ pc = place /\ toClient # <<>> /\ toClient' = Tail(toClient)
        /\ line' = line /\ reply' = reply /\ performed' = performed
    BY DEF Reads, serverVars, storeVars
  <1>2. performed # Db!NoCall
    BY <1>1 DEF IInv, AskingInv
  <1>3. /\ Accepted(line) /\ performed.call = Asked(line)
        /\ IsAnswer(performed) /\ Command \in Reading
        /\ toClient \o reply = Coming /\ TakenInv /\ ToldInv
    BY <1>1, <1>2 DEF IInv, TellingInv, Places
  <1>4. IsCall(Asked(line), Command)
    BY <1>3, AskedIsCall DEF Command
  <1>5. performed.call[1] = Command /\ Command \in DOMAIN Parameter
    BY <1>3, <1>4 DEF IsCall
  <1>6. performed.code \in CodesOf(Command)
    BY <1>3, <1>5 DEF IsAnswer
  <1>7. ASSUME NEW x, NEW r, Sequence(r), Coming = <<x>> \o r
        PROVE  /\ Got = x.value
               /\ Sequence(toClient') /\ toClient' \o reply' = r
    <2>1. Sequence(toClient) /\ Sequence(reply)
      BY DEF IInv, SequencesInv
    <2>2. toClient \o reply = <<x>> \o r
      BY <1>3, <1>7
    <2>3. /\ Head(toClient) = x /\ Sequence(Tail(toClient))
          /\ Tail(toClient) \o reply = r
      <3> DEFINE same(s, t, y, q) == s \o t = <<y>> \o q
                 first(s, t, y, q) ==
                   Head(s) = y /\ Sequence(Tail(s)) /\ Tail(s) \o t = q
      <3>1. \A s, t, y, q :
              /\ Sequence(s) /\ Sequence(t) /\ Sequence(q)
              /\ s # <<>> /\ same(s, t, y, q)
            =>
              first(s, t, y, q)
        BY Taken
      <3>2. same(toClient, reply, x, r)
        BY <2>2
      <3> HIDE DEF same, first
      <3>3. first(toClient, reply, x, r)
        BY <1>1, <1>7, <2>1, <3>1, <3>2
      <3> QED
        BY <3>3 DEF first
    <2> QED
      BY <1>1, <2>3 DEF Got
  <1>8. Command' = Command /\ Sequence(taken)
    BY <1>1 DEF Command, IInv, SequencesInv
  <1> QED
    BY <1>1, <1>2, <1>3, <1>5, <1>6, <1>7, <1>8

\* What is left to show of such a step.
LEMMA ReadKeeps ==
  ASSUME IInv, NEW place \in Places, NEW kind, Reads(place, kind),
         NEW x, NEW r, Sequence(r), Coming = <<x>> \o r,
         pc' # "exited", Coming' = r, Sequence(taken'), Command \in Reading',
         TakenInv', ToldInv', ToldTheTruth', AnswersReachTheUser'
  PROVE  IInv'
  <1>1. /\ toServer' = toServer /\ toWrite' = toWrite
        /\ request' = request /\ reply' = reply
        /\ groups' = groups /\ performed' = performed /\ line' = line
    BY DEF Reads, serverVars, storeVars
  <1>2. /\ performed # Db!NoCall /\ Command' = Command
        /\ Sequence(toClient') /\ toClient' \o reply' = r
    <2>1. performed # Db!NoCall /\ Command' = Command
      BY ReadStep
    <2>2. Sequence(toClient') /\ toClient' \o reply' = r
      BY ReadStep
    <2> QED
      BY <2>1, <2>2
  <1>3. SequencesInv' /\ NumbersInv'
    BY <1>1, <1>2 DEF IInv, SequencesInv, NumbersInv
  <1>4. AskingInv'
    BY <1>1, <1>2 DEF AskingInv
  <1>5. TellingInv'
    BY <1>1, <1>2 DEF IInv, TellingInv
  <1> QED
    BY <1>3, <1>4, <1>5 DEF IInv

\* The code an answer starts with is the one the command waits for.
LEMMA ReadAnswerCodeKeeps ==
  ASSUME IInv, ReadAnswerCode
  PROVE  IInv'
  <1>1. /\ Reads("answer", "code") /\ "answer" \in Places
        /\ pc' = IF Got # AnswerCode[Command] THEN "prompt"
                 ELSE IF Command = "listNewsGroups" THEN "count" ELSE "response"
        /\ told' = IF Got = AnswerCode[Command] THEN told ELSE Fails
        /\ taken' = taken /\ left' = left
    BY DEF ReadAnswerCode, Places
  <1> DEFINE x == Code(AnswerCode[performed.call[1]])
             r == Body(performed) \o EndCode
  <1>2. /\ pc = "answer"
        /\ performed # Db!NoCall /\ performed' = performed
        /\ line' = line /\ Command' = Command
        /\ performed.call[1] = Command /\ Command \in DOMAIN Parameter
        /\ IsAnswer(performed)
        /\ TakenInv /\ ToldInv /\ Sequence(taken)
    BY <1>1, ReadStep
  <1>3. Coming = <<x>> \o r /\ Sequence(r)
    <2>1. Sequence(Body(performed))
      BY <1>2, BodySequence
    <2>2. Coming = Reply(performed)
      BY <1>2, ComingAt DEF ComingIs
    <2> QED
      BY <2>1, <2>2, ReplyIs
  <1> HIDE DEF x, r
  <1>4. Got = AnswerCode[Command]
    <2>1. Got = x.value
      BY <1>1, <1>3, ReadStep
    <2> QED
      BY <1>2, <2>1 DEF x, Code
  <1>5. /\ pc' = IF Command = "listNewsGroups" THEN "count" ELSE "response"
        /\ told' = told /\ taken' = taken
    BY <1>1, <1>4
  <1>6. taken = <<>> /\ told = Nothing
    BY <1>2 DEF TakenInv, ToldInv
  <1>7. CASE Command = "listNewsGroups"
    <2>1. pc' = "count" /\ performed.code = ANS_ACK
      BY <1>2, <1>5, <1>7, GroupsBody
    <2>2. Coming' = r
      <3>1. Coming' = Listing(Listed(performed)) \o EndCode
        BY <1>2, <2>1, ComingAt DEF ComingIs
      <3> QED
        BY <1>2, <1>7, <3>1, GroupsBody DEF r
    <2>3. TakenInv' /\ ToldInv' /\ Command \in Reading'
      BY <1>2, <1>5, <1>6, <1>7, <2>1 DEF TakenInv, ToldInv, Reading
    <2>4. ToldTheTruth' /\ AnswersReachTheUser' /\ pc' # "exited"
      BY <1>2, <1>5, <1>6, <2>1, NothingTold DEF ToldTheTruth, AnswersReachTheUser
    <2> QED
      BY <1>1, <1>2, <1>3, <1>5, <2>2, <2>3, <2>4, ReadKeeps
  <1>8. CASE Command # "listNewsGroups"
    <2>1. pc' = "response"
      BY <1>5, <1>8
    <2>2. Coming' = r
      BY <1>2, <2>1, ComingAt DEF ComingIs, r
    <2>3. TakenInv' /\ ToldInv' /\ Command \in Reading'
      BY <1>2, <1>5, <1>6, <1>8, <2>1 DEF TakenInv, ToldInv, Reading
    <2>4. ToldTheTruth' /\ AnswersReachTheUser' /\ pc' # "exited"
      BY <1>2, <1>5, <1>6, <2>1, NothingTold DEF ToldTheTruth, AnswersReachTheUser
    <2> QED
      BY <1>1, <1>2, <1>3, <1>5, <2>2, <2>3, <2>4, ReadKeeps
  <1> QED
    BY <1>7, <1>8

\* The client has a message for every code of a call, but for an errno.
LEMMA KnownCodes ==
  /\ Command \in DOMAIN Parameter \ {"listNewsGroups"} =>
       \A code \in CodesOf(Command) :
         code # ANS_ACK =>
           \/ code \in Known /\ code # EMFILE
           \/ Command = "deleteArticle" /\ code = EMFILE /\ code \notin Known
  /\ ANS_ACK # EMFILE /\ ANS_ACK # ANS_NAK
  <1>1. ANS_ACK # EMFILE /\ ANS_ACK # ANS_NAK
    BY DEF ANS_ACK, EMFILE, ANS_NAK
  <1> SUFFICES ASSUME Command \in DOMAIN Parameter \ {"listNewsGroups"},
                      NEW code \in CodesOf(Command), code # ANS_ACK
               PROVE  \/ code \in Known /\ code # EMFILE
                      \/ /\ Command = "deleteArticle" /\ code = EMFILE
                         /\ code \notin Known
    BY <1>1
  <1>2. /\ ERR_NG_ALREADY_EXISTS # EMFILE /\ ERR_NG_DOES_NOT_EXIST # EMFILE
        /\ ERR_ART_DOES_NOT_EXIST # EMFILE
    BY DEF ERR_NG_ALREADY_EXISTS, ERR_NG_DOES_NOT_EXIST, ERR_ART_DOES_NOT_EXIST,
           EMFILE
  <1>3. CASE Command = "createNewsGroup"
    BY <1>2, <1>3 DEF CodesOf, Known
  <1>4. CASE Command = "getNewsArticle"
    BY <1>2, <1>4 DEF CodesOf, Known
  <1>5. CASE Command = "deleteArticle"
    BY <1>2, <1>5 DEF CodesOf, Known
  <1>6. CASE Command \in {"deleteNewsGroup", "listArticles", "createArticle"}
    BY <1>2, <1>6 DEF CodesOf, Known
  <1> QED
    BY <1>3, <1>4, <1>5, <1>6, CommandsAre

\* Acknowledged, or refused.
LEMMA ReadResponseKeeps ==
  ASSUME IInv, ReadResponse
  PROVE  IInv'
  <1>1. /\ Reads("response", "code") /\ "response" \in Places
        /\ pc' = CASE Got = ANS_ACK -> AfterAck
                   [] Got = ANS_NAK -> "errorCode"
                   [] OTHER -> "prompt"
        /\ told' = IF Got \in {ANS_ACK, ANS_NAK} THEN AckTold ELSE Fails
        /\ taken' = taken /\ left' = left
    BY DEF ReadResponse, Places
  <1>2. /\ pc = "response"
        /\ performed # Db!NoCall /\ performed' = performed
        /\ line' = line /\ Command' = Command
        /\ performed.call[1] = Command /\ Command \in DOMAIN Parameter
        /\ Command \in Reading
        /\ IsAnswer(performed) /\ performed.code \in CodesOf(Command)
        /\ TakenInv /\ ToldInv /\ Sequence(taken)
    BY <1>1, ReadStep
  <1>3. Command # "listNewsGroups"
    BY <1>2 DEF Reading
  <1>4. taken = <<>> /\ told = Nothing /\ Len(taken) = 0
    BY <1>2, NoneAndOne DEF TakenInv, ToldInv
  <1>5. Coming = Body(performed) \o EndCode
    BY <1>2, ComingAt DEF ComingIs
  <1>6. CASE performed.code # ANS_ACK
    <2> DEFINE x == Code(ANS_NAK)
               r == <<Code(performed.code)>> \o EndCode
    <2>1. Sequence(r) /\ Coming = <<x>> \o r
      BY <1>2, <1>3, <1>5, <1>6, RefusalBody
    <2> HIDE DEF x, r
    <2>2. Got = ANS_NAK
      BY <1>1, <2>1, ReadStep DEF x, Code
    <2>3. pc' = "errorCode" /\ told' = Nothing
      BY <1>1, <1>4, <2>2, KnownCodes DEF AckTold
    <2>4. Coming' = r
      BY <1>2, <2>3, ComingAt DEF ComingIs, r
    <2>5. TakenInv' /\ ToldInv' /\ Command \in Reading'
      BY <1>1, <1>2, <1>3, <1>4, <1>6, <2>3 DEF TakenInv, ToldInv, Reading
    <2>6. ToldTheTruth' /\ AnswersReachTheUser' /\ pc' # "exited"
      BY <2>3, NothingTold DEF ToldTheTruth, AnswersReachTheUser
    <2> QED
      BY <1>1, <1>2, <2>1, <2>3, <2>4, <2>5, <2>6, ReadKeeps
  <1>7. CASE performed.code = ANS_ACK
    <2> DEFINE x == Code(ANS_ACK)
    <2>1. ASSUME NEW r, Sequence(r), Coming = <<x>> \o r
          PROVE  pc' = AfterAck /\ told' = AckTold /\ Got = ANS_ACK
      <3>1. Got = x.value
        BY <1>1, <2>1, ReadStep
      <3>2. Got = ANS_ACK
        BY <3>1 DEF Code
      <3> QED
        BY <1>1, <3>2, KnownCodes
    <2>2. CASE Command = "listArticles"
      <3> DEFINE r == Listing(Listed(performed)) \o EndCode
      <3>1. Sequence(r) /\ Coming = <<x>> \o r
        BY <1>2, <1>5, <1>7, <2>2, ArticlesBody
      <3> HIDE DEF x, r
      <3>2. pc' = "count" /\ told' = Nothing
        BY <1>4, <2>1, <2>2, <3>1 DEF AfterAck, AckTold
      <3>3. Coming' = r
        BY <1>2, <3>2, ComingAt DEF ComingIs, r
      <3>4. TakenInv' /\ ToldInv' /\ Command \in Reading'
        BY <1>1, <1>2, <1>4, <1>7, <2>2, <3>2 DEF TakenInv, ToldInv, Reading
      <3>5. ToldTheTruth' /\ AnswersReachTheUser' /\ pc' # "exited"
        BY <3>2, NothingTold DEF ToldTheTruth, AnswersReachTheUser
      <3> QED
        BY <1>1, <1>2, <3>1, <3>2, <3>3, <3>4, <3>5, ReadKeeps
    <2>3. CASE Command = "getNewsArticle"
      <3> DEFINE r == Fields(performed, 0) \o EndCode
      <3>1. Sequence(r) /\ Coming = <<x>> \o r
        BY <1>2, <1>5, <1>7, <2>3, ArticleBody
      <3> HIDE DEF x, r
      <3>2. pc' = "fields" /\ told' = Nothing
        BY <1>4, <2>1, <2>3, <3>1 DEF AfterAck, AckTold
      <3>3. Coming' = r
        BY <1>1, <1>2, <1>4, <3>2, ComingAt DEF ComingIs, r
      <3>4. TakenInv' /\ ToldInv' /\ Command \in Reading'
        BY <1>1, <1>2, <1>4, <1>7, <2>3, <3>2 DEF TakenInv, ToldInv, Reading
      <3>5. ToldTheTruth' /\ AnswersReachTheUser' /\ pc' # "exited"
        BY <3>2, NothingTold DEF ToldTheTruth, AnswersReachTheUser
      <3> QED
        BY <1>1, <1>2, <3>1, <3>2, <3>3, <3>4, <3>5, ReadKeeps
    <2>4. CASE Command \notin {"listArticles", "getNewsArticle"}
      <3>0. ~IsListCommand(Command) /\ Command # "getNewsArticle"
        BY <1>3, <2>4 DEF IsListCommand
      <3>1. Sequence(EndCode) /\ Coming = <<x>> \o EndCode
        BY <1>2, <1>5, <1>7, <3>0, AckBody, EndIs
      <3> HIDE DEF x
      <3>2. pc' = "end" /\ told' = Verdict("done", ANS_ACK, <<>>)
        BY <2>1, <2>4, <3>1 DEF AfterAck, AckTold
      <3>3. Coming' = EndCode
        BY <3>2, ComingAt DEF ComingIs
      <3>4. /\ told'.verdict = "done" /\ told'.code = ANS_ACK
        BY <3>2 DEF Verdict
      <3>5. TakenInv'
        BY <1>2, <3>0, <3>2 DEF TakenInv
      <3>6. ToldInv' /\ Command \in Reading'
        BY <1>2, <1>7, <3>0, <3>2, KnownCodes DEF ToldInv, Reading
      <3>7. ToldTheTruth' /\ AnswersReachTheUser' /\ pc' # "exited"
        BY <1>2, <1>7, <3>2, <3>4 DEF ToldTheTruth, AnswersReachTheUser
      <3> QED
        BY <1>1, <1>2, <3>1, <3>3, <3>5, <3>6, <3>7, ReadKeeps
    <2> QED
      BY <2>2, <2>3, <2>4
  <1> QED
    BY <1>6, <1>7

\* The code of a refusal.
LEMMA ReadErrorCodeKeeps ==
  ASSUME IInv, ReadErrorCode
  PROVE  IInv'
  <1>1. /\ Reads("errorCode", "code") /\ "errorCode" \in Places
        /\ pc' = AfterNak(Got)
        /\ told' = IF Got \in Known THEN Verdict("refused", Got, <<>>) ELSE told
        /\ taken' = taken /\ left' = left
    BY DEF ReadErrorCode, Places
  <1> DEFINE x == Code(performed.code)
  <1>2. /\ pc = "errorCode"
        /\ performed # Db!NoCall /\ performed' = performed
        /\ line' = line /\ Command' = Command
        /\ performed.call[1] = Command /\ Command \in DOMAIN Parameter
        /\ Command \in Reading
        /\ performed.code \in CodesOf(Command)
        /\ TakenInv /\ ToldInv /\ Sequence(taken)
    BY <1>1, ReadStep
  <1>3. Sequence(EndCode) /\ Coming = <<x>> \o EndCode
    BY <1>2, EndIs, ComingAt DEF ComingIs
  <1> HIDE DEF x
  <1>4. Got = performed.code
    BY <1>1, <1>3, ReadStep, SMTT(30) DEF x, Code
  <1>5. Command # "listNewsGroups" /\ performed.code # ANS_ACK /\ told = Nothing
    BY <1>2 DEF Reading, ToldInv
  <1>6. \/ performed.code \in Known /\ performed.code # EMFILE
        \/ /\ Command = "deleteArticle" /\ performed.code = EMFILE
           /\ performed.code \notin Known
    BY <1>2, <1>5, KnownCodes
  <1>7. /\ pc' = IF Command = "getNewsArticle" THEN "flush" ELSE "end"
        /\ told' = IF performed.code = EMFILE THEN Nothing
                   ELSE Verdict("refused", performed.code, <<>>)
        /\ Command = "getNewsArticle" => performed.code # EMFILE
    BY <1>1, <1>4, <1>5, <1>6 DEF AfterNak
  <1>8. Coming' = EndCode
    BY <1>7, ComingAt DEF ComingIs
  <1>9. TakenInv'
    BY <1>1, <1>2, <1>5, <1>7 DEF TakenInv
  <1>10. ToldInv'
    BY <1>2, <1>5, <1>7, KnownCodes DEF ToldInv
  <1>11. Command \in Reading'
    BY <1>2, <1>7 DEF Reading
  <1>12. /\ told'.verdict \in {"done", "refused", "shown"} =>
              told'.verdict = "refused" /\ told'.code = performed.code
    BY <1>7, NothingTold DEF Verdict
  <1>13. ToldTheTruth' /\ AnswersReachTheUser' /\ pc' # "exited"
    BY <1>2, <1>7, <1>12 DEF ToldTheTruth, AnswersReachTheUser
  <1> QED
    BY <1>1, <1>2, <1>3, <1>8, <1>9, <1>10, <1>11, <1>13, ReadKeeps

\* The rest of a refused article: its end.
LEMMA FlushKeeps ==
  ASSUME IInv, Flush
  PROVE  IInv'
  <1>1. /\ Reads("flush", "code") /\ "flush" \in Places
        /\ pc' = "prompt" /\ told' = told /\ taken' = taken
    BY DEF Flush, Places
  <1> DEFINE x == Code(ANS_END)
             r == <<>>
  <1>2. /\ pc = "flush"
        /\ performed # Db!NoCall /\ performed' = performed
        /\ line' = line /\ Command' = Command
        /\ Command \in DOMAIN Parameter
        /\ ToldInv /\ Sequence(taken)
    BY <1>1, ReadStep
  <1>3. Sequence(r) /\ Coming = <<x>> \o r
    BY <1>2, EndIs, NoneAndOne, ComingAt DEF ComingIs
  <1>4. Coming' = r
    BY <1>1, ComingAt DEF ComingIs
  <1> HIDE DEF x, r
  <1>5. performed.code # ANS_ACK /\ told = Verdict("refused", performed.code, <<>>)
    BY <1>2 DEF ToldInv
  <1>6. TakenInv' /\ ToldInv' /\ Command \in Reading'
    BY <1>1, <1>2 DEF TakenInv, ToldInv, Reading
  <1>7. told'.verdict = "refused" /\ told'.code = performed.code
    BY <1>1, <1>5 DEF Verdict
  <1>8. ToldTheTruth' /\ AnswersReachTheUser' /\ pc' # "exited"
    BY <1>1, <1>2, <1>5, <1>7 DEF ToldTheTruth, AnswersReachTheUser
  <1> QED
    BY <1>1, <1>2, <1>3, <1>4, <1>6, <1>8, ReadKeeps

\* A number that is read is the one that was written.
LEMMA NumberRead ==
  \A n \in Int32 : DecodeInt(Number(n).value) = n
  <1> TAKE n \in Int32
  <1>1. Number(n).value = EncodeInt(n)
    BY DEF Number
  <1> QED
    BY <1>1, IntRoundTrip

\* What is being listed is a listing.
LEMMA ListedIs ==
  ASSUME IInv, NEW place \in {"count", "id", "name"}, NEW kind,
         Reads(place, kind)
  PROVE  /\ IsListCommand(Command) /\ Command # "getNewsArticle"
         /\ performed.code = ANS_ACK /\ told = Nothing
         /\ IsListing(Listed(performed))
  <1>1. /\ pc = place
        /\ performed.call[1] = Command /\ Command \in Reading
        /\ IsAnswer(performed) /\ TakenInv /\ ToldInv
    BY ReadStep DEF Places
  <1>2. IsListCommand(Command) /\ Command # "getNewsArticle"
    BY <1>1 DEF Reading, IsListCommand
  <1>3. performed.code = ANS_ACK /\ told = Nothing
    BY <1>1 DEF ToldInv
  <1> QED
    BY <1>1, <1>2, <1>3 DEF IsAnswer

\* How many entries follow.
LEMMA ReadCountKeeps ==
  ASSUME IInv, ReadCount
  PROVE  IInv'
  <1>1. /\ Reads("count", "number") /\ "count" \in Places
        /\ left' = DecodeInt(Got)
        /\ pc' = IF DecodeInt(Got) > 0 THEN "id" ELSE "end"
        /\ told' = told /\ taken' = taken
    BY DEF ReadCount, Places
  <1> DEFINE pairs == Listed(performed)
             x == Number(Len(pairs))
             r == Entries(pairs) \o EndCode
  <1>2. /\ pc = "count"
        /\ performed # Db!NoCall /\ performed' = performed
        /\ line' = line /\ Command' = Command /\ Command \in DOMAIN Parameter
        /\ TakenInv /\ Sequence(taken)
    BY <1>1, ReadStep
  <1>3. /\ IsListCommand(Command) /\ Command # "getNewsArticle"
        /\ performed.code = ANS_ACK /\ told = Nothing
        /\ Sequence(pairs) /\ Len(pairs) \in Int32 /\ Len(pairs) \in Nat
    BY <1>1, ListedIs DEF IsListing, Sequence
  <1>4. taken = <<>> /\ Len(taken) = 0
    BY <1>2, NoneAndOne DEF TakenInv
  <1>5. Sequence(r) /\ Coming = <<x>> \o r
    BY <1>2, <1>3, ListingIs, ComingAt DEF ComingIs
  <1>6. DecodeInt(Got) = Len(pairs)
    <2>1. Got = x.value
      <3> HIDE DEF x, r
      <3> QED
        BY <1>1, <1>5, ReadStep
    <2> QED
      BY <1>3, <2>1, NumberRead
  <1>7. ToldTheTruth' /\ AnswersReachTheUser' /\ pc' # "exited"
    BY <1>1, <1>3, NothingTold DEF ToldTheTruth, AnswersReachTheUser
  <1>8. CASE Len(pairs) > 0
    <2>1. pc' = "id" /\ left' = Len(pairs)
      BY <1>1, <1>6, <1>8
    <2>2. Coming' = r
      <3>1. Coming' = Entries(From(pairs, Len(taken) + 1)) \o EndCode
        BY <1>1, <1>2, <2>1, ComingAt DEF ComingIs
      <3>2. From(pairs, Len(taken) + 1) = pairs
        BY <1>3, <1>4, FromIs
      <3> QED
        BY <3>1, <3>2
    <2>3. TakenInv'
      <3>1. DOMAIN taken = {}
        BY <1>4
      <3> HIDE DEF pairs
      <3> QED
        BY <1>1, <1>2, <1>3, <1>4, <1>8, <2>1, <3>1 DEF TakenInv, pairs
    <2>4. ToldInv' /\ Command \in Reading'
      BY <1>1, <1>2, <1>3, <2>1 DEF ToldInv, Reading, IsListCommand
    <2> HIDE DEF x, r
    <2> QED
      BY <1>1, <1>2, <1>5, <1>7, <2>2, <2>3, <2>4, ReadKeeps
  <1>9. CASE Len(pairs) = 0
    <2>1. pc' = "end"
      BY <1>1, <1>6, <1>9
    <2>2. pairs = <<>>
      BY <1>3, <1>9, EmptyIs
    <2>3. Coming' = r
      <3>1. Coming' = EndCode
        BY <2>1, ComingAt DEF ComingIs
      <3>2. r = <<>> \o EndCode
        BY <2>2, EntriesNone
      <3> QED
        BY <3>1, <3>2, EndIs, ConcatNone
    <2>4. TakenInv'
      BY <1>1, <1>2, <1>3, <1>4, <2>1, <2>2 DEF TakenInv
    <2>5. ToldInv' /\ Command \in Reading'
      BY <1>1, <1>2, <1>3, <2>1, KnownCodes DEF ToldInv, Reading
    <2> HIDE DEF x, r
    <2> QED
      BY <1>1, <1>2, <1>5, <1>7, <2>3, <2>4, <2>5, ReadKeeps
  <1> QED
    BY <1>3, <1>8, <1>9

LEMMA AppendIs ==
  \A s, x : Sequence(s) =>
    /\ Sequence(Append(s, x)) /\ Len(Append(s, x)) = Len(s) + 1
    /\ \A i \in 1..Len(s) : Append(s, x)[i] = s[i]
    /\ Append(s, x)[Len(s) + 1] = x
  <1> TAKE s, x
  <1> HAVE Sequence(s)
  <1> DEFINE S == Elements(s) \cup {x}
  <1>1. s \in Seq(S) /\ x \in S
    BY SeqOfElements, SeqMonotonic
  <1> HIDE DEF S
  <1>2. /\ Append(s, x) \in Seq(S) /\ Len(Append(s, x)) = Len(s) + 1
        /\ \A i \in 1..Len(s) : Append(s, x)[i] = s[i]
        /\ Append(s, x)[Len(s) + 1] = x
    BY <1>1, AppendProperties
  <1>3. Sequence(Append(s, x))
    BY <1>2, SeqIsSequence
  <1> QED
    BY <1>2, <1>3

\* The number of an entry.
LEMMA ReadIdKeeps ==
  ASSUME IInv, ReadId
  PROVE  IInv'
  <1>1. /\ Reads("id", "number") /\ "id" \in Places
        /\ taken' = Append(taken, <<DecodeInt(Got)>>)
        /\ pc' = "name" /\ told' = told /\ left' = left
    BY DEF ReadId, Places
  <1> DEFINE pairs == Listed(performed)
             k == Len(taken) + 1
             x == Number(pairs[k][1])
             r == NameAndRest(pairs, k)
  <1>2. /\ pc = "id"
        /\ performed # Db!NoCall /\ performed' = performed
        /\ line' = line /\ Command' = Command /\ Command \in DOMAIN Parameter
        /\ TakenInv /\ Sequence(taken) /\ Len(taken) \in Nat
    BY <1>1, ReadStep DEF Sequence
  <1>3. /\ IsListCommand(Command) /\ performed.code = ANS_ACK /\ told = Nothing
        /\ IsListing(pairs) /\ Sequence(pairs)
        /\ Len(pairs) \in Nat /\ DOMAIN pairs = 1..Len(pairs)
    BY <1>1, ListedIs DEF IsListing, Sequence
  <1> HIDE DEF pairs
  <1>4. /\ left = Len(pairs) - Len(taken) /\ left > 0
        /\ \A i \in DOMAIN taken : taken[i] = pairs[i]
    BY <1>2 DEF TakenInv, pairs
  <1>5. k \in 1..Len(pairs) /\ left' = Len(pairs) - k + 1 /\ left' > 0
    BY <1>1, <1>2, <1>3, <1>4
  <1>6. pairs[k][1] \in Int32
    BY <1>3, <1>5 DEF IsListing
  <1>7. Sequence(r) /\ Coming = <<x>> \o r
    <2>1. Coming = Entries(From(pairs, k)) \o EndCode
      BY <1>2, ComingAt DEF ComingIs, pairs
    <2> HIDE DEF k
    <2> QED
      BY <1>3, <1>5, <2>1, EntriesComing DEF NameAndRest
  <1>8. DecodeInt(Got) = pairs[k][1]
    <2>1. Got = x.value
      <3> HIDE DEF x, r
      <3> QED
        BY <1>1, <1>7, ReadStep
    <2> QED
      BY <1>6, <2>1, NumberRead
  <1>9. /\ Sequence(taken') /\ Len(taken') = k
        /\ \A i \in 1..Len(taken) : taken'[i] = taken[i]
        /\ taken'[k] = <<pairs[k][1]>>
    BY <1>1, <1>2, <1>8, AppendIs
  <1>10. Coming' = r
    <2>1. Coming' = NameAndRest(pairs, Len(taken'))
      BY <1>1, <1>2, ComingAt DEF ComingIs, pairs
    <2> QED
      BY <1>9, <2>1
  <1>11. TakenInv'
    <2>1. \A i \in DOMAIN taken' :
            taken'[i] = IF i = k THEN <<pairs[i][1]>> ELSE pairs[i]
      <3>1. DOMAIN taken = 1..Len(taken) /\ DOMAIN taken' = 1..k
        BY <1>2, <1>9 DEF Sequence
      <3>2. \A i \in 1..k : i = k \/ i \in 1..Len(taken)
        BY <1>2
      <3> QED
        BY <1>2, <1>4, <1>9, <3>1, <3>2
    <2>2. taken' # <<>>
      BY <1>5, <1>9, EmptyIs
    <2>3. Listed(performed)' = pairs
      BY <1>2 DEF pairs
    <2>4. Len(taken') <= Len(pairs)
          /\ left' = Len(pairs) - Len(taken') + 1 /\ left' > 0
      BY <1>3, <1>5, <1>9
    <2> HIDE DEF k
    <2> QED
      BY <1>1, <1>9, <2>1, <2>2, <2>3, <2>4 DEF TakenInv
  <1>12. ToldInv' /\ Command \in Reading'
    BY <1>1, <1>2, <1>3 DEF ToldInv, Reading, IsListCommand
  <1>13. ToldTheTruth' /\ AnswersReachTheUser' /\ pc' # "exited"
    BY <1>1, <1>3, NothingTold DEF ToldTheTruth, AnswersReachTheUser
  <1> HIDE DEF x, r
  <1> QED
    BY <1>1, <1>2, <1>7, <1>9, <1>10, <1>11, <1>12, <1>13, ReadKeeps

LEMMA FrontIs ==
  \A s : Sequence(s) /\ s # <<>> =>
    /\ Sequence(Front(s)) /\ Len(Front(s)) = Len(s) - 1
    /\ \A i \in 1..(Len(s) - 1) : Front(s)[i] = s[i]
    /\ Last(s) = s[Len(s)]
  <1> TAKE s
  <1> HAVE Sequence(s) /\ s # <<>>
  <1>1. s \in Seq(Elements(s)) /\ Len(s) \in Nat /\ Len(s) # 0
    BY SeqOfElements, EmptyIs DEF Sequence
  <1>2. \A i \in 1..(Len(s) - 1) : s[i] \in Elements(s)
    BY <1>1 DEF Elements
  <1>3. /\ Front(s) \in Seq(Elements(s))
        /\ Len(Front(s)) = IF 1 <= Len(s) - 1 THEN (Len(s) - 1) - 1 + 1 ELSE 0
        /\ \A i \in 1..((Len(s) - 1) - 1 + 1) : Front(s)[i] = s[1 + i - 1]
    BY <1>1, <1>2, SubSeqProperties DEF Front
  <1>4. Sequence(Front(s))
    BY <1>3, SeqIsSequence
  <1>5. Last(s) = s[Len(s)]
    BY DEF Last
  <1> DEFINE n == Len(s)
             f == Front(s)
  <1>6. /\ n \in Nat /\ n # 0
        /\ Len(f) = IF 1 <= n - 1 THEN (n - 1) - 1 + 1 ELSE 0
        /\ \A i \in 1..((n - 1) - 1 + 1) : f[i] = s[1 + i - 1]
    BY <1>1, <1>3
  <1> HIDE DEF n, f
  <1>7. Len(f) = n - 1
    BY <1>6
  <1>8. \A i \in 1..(n - 1) : f[i] = s[i]
    <2> SUFFICES ASSUME NEW i \in 1..(n - 1)
                 PROVE  f[i] = s[i]
      OBVIOUS
    <2>1. i \in 1..((n - 1) - 1 + 1) /\ 1 + i - 1 = i
      BY <1>6
    <2> QED
      BY <1>6, <2>1
  <1> QED
    BY <1>4, <1>5, <1>7, <1>8 DEF n, f

\* Its name: the entry is complete.
LEMMA ReadNameKeeps ==
  ASSUME IInv, ReadName
  PROVE  IInv'
  <1>1. /\ Reads("name", "string") /\ "name" \in Places
        /\ taken' = Append(Front(taken), <<Last(taken)[1], Got>>)
        /\ left' = left - 1
        /\ pc' = IF left > 1 THEN "id" ELSE "end"
        /\ told' = told
    BY DEF ReadName, Places
  <1> DEFINE pairs == Listed(performed)
             k == Len(taken)
             x == String(pairs[k][2])
             r == Entries(From(pairs, k + 1)) \o EndCode
  <1>2. /\ pc = "name"
        /\ performed # Db!NoCall /\ performed' = performed
        /\ line' = line /\ Command' = Command /\ Command \in DOMAIN Parameter
        /\ TakenInv /\ Sequence(taken) /\ k \in Nat
    BY <1>1, ReadStep DEF Sequence
  <1>3. /\ IsListCommand(Command) /\ Command # "getNewsArticle"
        /\ performed.code = ANS_ACK /\ told = Nothing
        /\ IsListing(pairs) /\ Sequence(pairs)
        /\ Len(pairs) \in Nat /\ DOMAIN pairs = 1..Len(pairs)
    BY <1>1, ListedIs DEF IsListing, Sequence
  <1> HIDE DEF pairs
  <1>4. /\ left = Len(pairs) - k + 1 /\ k <= Len(pairs) /\ taken # <<>>
        /\ \A i \in DOMAIN taken :
             taken[i] = IF i = k THEN <<pairs[i][1]>> ELSE pairs[i]
    BY <1>2 DEF TakenInv, pairs
  <1>5. k \in 1..Len(pairs) /\ DOMAIN taken = 1..k
    <2>1. k # 0
      BY <1>2, <1>4, EmptyIs
    <2> QED
      BY <1>2, <1>3, <1>4, <2>1 DEF Sequence
  <1>6. pairs[k] = <<pairs[k][1], pairs[k][2]>>
    BY <1>3, <1>5 DEF IsListing
  <1>7. Sequence(r) /\ Coming = <<x>> \o r
    <2>1. Coming = NameAndRest(pairs, k)
      BY <1>2, ComingAt DEF ComingIs, pairs
    <2> HIDE DEF k
    <2> QED
      BY <1>3, <1>5, <2>1, EntriesComing DEF NameAndRest
  <1>8. Got = pairs[k][2]
    <2>1. Got = x.value
      <3> HIDE DEF x, r
      <3> QED
        BY <1>1, <1>7, ReadStep
    <2> QED
      BY <2>1 DEF String
  <1>9. /\ Sequence(Front(taken)) /\ Len(Front(taken)) = k - 1
        /\ \A i \in 1..(k - 1) : Front(taken)[i] = taken[i]
        /\ Last(taken) = taken[k]
    BY <1>2, <1>4, FrontIs
  <1>10. taken' = Append(Front(taken), pairs[k])
    <2>1. Last(taken) = <<pairs[k][1]>>
      BY <1>4, <1>5, <1>9
    <2> QED
      BY <1>1, <1>6, <1>8, <2>1, SMTT(30)
  <1>11. /\ Sequence(taken') /\ Len(taken') = k
         /\ \A i \in 1..k : taken'[i] = pairs[i]
    <2> DEFINE f == Front(taken)
               e == pairs[k]
               t == Append(f, e)
    <2>1. Sequence(f) /\ Len(f) = k - 1
          /\ \A i \in 1..(k - 1) : f[i] = pairs[i]
      BY <1>2, <1>4, <1>5, <1>9
    <2> HIDE DEF f, e
    <2>2. /\ Sequence(t) /\ Len(t) = Len(f) + 1
          /\ \A i \in 1..Len(f) : t[i] = f[i]
          /\ t[Len(f) + 1] = e
      BY <2>1, AppendIs
    <2> HIDE DEF t
    <2>3. /\ Sequence(t) /\ Len(t) = k
          /\ \A i \in 1..(k - 1) : t[i] = pairs[i]
          /\ t[k] = pairs[k]
      BY <1>2, <2>1, <2>2 DEF e
    <2>4. \A i \in 1..k : i = k \/ i \in 1..(k - 1)
      BY <1>2
    <2>5. taken' = t
      BY <1>10 DEF t, f, e
    <2> HIDE DEF k
    <2>6. \A i \in 1..k : t[i] = pairs[i]
      BY <2>3, <2>4
    <2> QED
      BY <2>3, <2>5, <2>6
  <1>12. DOMAIN taken' = 1..k
    BY <1>11 DEF Sequence
  <1>13. ToldTheTruth' /\ AnswersReachTheUser' /\ pc' # "exited"
    BY <1>1, <1>3, NothingTold DEF ToldTheTruth, AnswersReachTheUser
  <1>14. Listed(performed)' = pairs
    BY <1>2 DEF pairs
  <1>15. CASE left > 1
    <2>1. pc' = "id"
      BY <1>1, <1>15
    <2>2. Coming' = r
      <3>1. Coming' = Entries(From(pairs, Len(taken') + 1)) \o EndCode
        BY <1>2, <2>1, ComingAt DEF ComingIs, pairs
      <3> QED
        BY <1>11, <3>1
    <2>3. TakenInv'
      <3>1. /\ Len(taken') <= Len(pairs)
            /\ left' = Len(pairs) - Len(taken') + 0 /\ left' > 0
        <4>1. left' = left - 1 /\ left > 1 /\ left = Len(pairs) - k + 1
          BY <1>1, <1>4, <1>15
        <4>2. k \in Int /\ k <= Len(pairs) /\ Len(pairs) \in Int /\ Len(taken') = k
          BY <1>2, <1>3, <1>4, <1>11
        <4> HIDE DEF k, x, r
        <4> QED
          BY <4>1, <4>2
      <3> HIDE DEF k
      <3> QED
        BY <1>11, <1>12, <1>14, <2>1, <3>1 DEF TakenInv
    <2>4. ToldInv' /\ Command \in Reading'
      BY <1>1, <1>2, <1>3, <2>1 DEF ToldInv, Reading, IsListCommand
    <2> HIDE DEF x, r
    <2> QED
      BY <1>1, <1>2, <1>7, <1>11, <1>13, <2>2, <2>3, <2>4, ReadKeeps
  <1>16. CASE ~(left > 1)
    <2>1. pc' = "end"
      BY <1>1, <1>16
    <2>2. k = Len(pairs)
      BY <1>2, <1>3, <1>4, <1>16
    <2>3. Coming' = r
      <3>1. Coming' = EndCode
        BY <2>1, ComingAt DEF ComingIs
      <3>2. r = <<>> \o EndCode
        BY <1>3, <2>2, FromIs, EntriesNone
      <3> QED
        BY <3>1, <3>2, EndIs, ConcatNone
    <2>4. taken' = pairs
      BY <1>3, <1>11, <2>2, SameSequence
    <2>5. TakenInv'
      BY <1>2, <1>3, <1>14, <2>1, <2>4 DEF TakenInv
    <2>6. ToldInv' /\ Command \in Reading'
      BY <1>1, <1>2, <1>3, <2>1, KnownCodes DEF ToldInv, Reading
    <2> HIDE DEF x, r
    <2> QED
      BY <1>1, <1>2, <1>7, <1>11, <1>13, <2>3, <2>5, <2>6, ReadKeeps
  <1> QED
    BY <1>15, <1>16

\* Three fields, as a sequence.
LEMMA ThreeFields ==
  \A s : s = <<s[1], s[2], s[3]>> => Sequence(s) /\ Len(s) = 3 /\ s # <<>>
  <1> TAKE s
  <1> HAVE s = <<s[1], s[2], s[3]>>
  <1> DEFINE t == <<s[1], s[2], s[3]>>
  <1>1. Sequence(t) /\ Len(t) = 3 /\ t # <<>>
    BY DEF Sequence
  <1>2. s = t
    OBVIOUS
  <1> HIDE DEF t
  <1> QED
    BY <1>1, <1>2

\* A field of an article.
LEMMA ReadFieldKeeps ==
  ASSUME IInv, ReadField
  PROVE  IInv'
  <1>1. /\ Reads("fields", "string") /\ "fields" \in Places
        /\ taken' = Append(taken, Got)
        /\ pc' = IF Len(taken) = 2 THEN "end" ELSE "fields"
        /\ told' = told
    BY DEF ReadField, Places
  <1> DEFINE fields == performed.result
             k == Len(taken)
             x == String(performed.result[k + 1])
             r == Fields(performed, k + 1) \o EndCode
  <1>2. /\ pc = "fields"
        /\ performed # Db!NoCall /\ performed' = performed
        /\ line' = line /\ Command' = Command /\ Command \in DOMAIN Parameter
        /\ performed.call[1] = Command /\ Command \in Reading
        /\ IsAnswer(performed)
        /\ TakenInv /\ ToldInv /\ Sequence(taken) /\ k \in Nat
        /\ DOMAIN taken = 1..k
    BY <1>1, ReadStep DEF Sequence
  <1>3. /\ Command = "getNewsArticle" /\ ~IsListCommand(Command)
        /\ performed.code = ANS_ACK /\ told = Nothing
    BY <1>2 DEF Reading, ToldInv, IsListCommand
  <1>4. /\ k < 3 /\ \A i \in 1..k : taken[i] = fields[i]
    BY <1>2 DEF TakenInv
  <1>5. Sequence(fields) /\ Len(fields) = 3
    <2>1. fields = <<fields[1], fields[2], fields[3]>>
      BY <1>2, <1>3 DEF IsAnswer
    <2> HIDE DEF fields
    <2> QED
      BY <2>1, ThreeFields
  <1>6. Sequence(r) /\ Coming = <<x>> \o r
    <2>1. Coming = Fields(performed, k) \o EndCode
      BY <1>2, ComingAt DEF ComingIs
    <2>2. k \in 0..2
      BY <1>2, <1>4
    <2> HIDE DEF k
    <2> QED
      BY <2>1, <2>2, FieldsFrom
  <1>7. Got = fields[k + 1]
    <2>1. Got = x.value
      <3> HIDE DEF x, r
      <3> QED
        BY <1>1, <1>6, ReadStep
    <2> QED
      BY <2>1 DEF String
  <1>8. /\ Sequence(taken') /\ Len(taken') = k + 1
        /\ \A i \in 1..k : taken'[i] = taken[i]
        /\ taken'[k + 1] = fields[k + 1]
    BY <1>1, <1>2, <1>7, AppendIs
  <1>9. \A i \in 1..(k + 1) : taken'[i] = fields[i]
    <2>1. \A i \in 1..(k + 1) : i = k + 1 \/ i \in 1..k
      BY <1>2
    <2> HIDE DEF k, fields
    <2> QED
      BY <1>4, <1>8, <2>1
  <1>10. ToldTheTruth' /\ AnswersReachTheUser' /\ pc' # "exited"
    BY <1>1, <1>3, NothingTold DEF ToldTheTruth, AnswersReachTheUser
  <1>11. CASE k = 2
    <2>1. pc' = "end"
      BY <1>1, <1>11
    <2>2. Coming' = r
      <3>1. Coming' = EndCode
        BY <2>1, ComingAt DEF ComingIs
      <3>2. r = EndCode
        BY <1>11, NoFieldsLeft
      <3> QED
        BY <3>1, <3>2
    <2>3. taken' = fields
      <3>1. Len(taken') = 3 /\ \A i \in 1..3 : taken'[i] = fields[i]
        BY <1>8, <1>9, <1>11
      <3> HIDE DEF fields, k
      <3> QED
        BY <1>5, <1>8, <3>1, SameSequence
    <2>4. TakenInv'
      BY <1>2, <1>3, <2>1, <2>3 DEF TakenInv
    <2>5. ToldInv' /\ Command \in Reading'
      BY <1>1, <1>2, <1>3, <2>1, KnownCodes DEF ToldInv, Reading
    <2> HIDE DEF x, r
    <2> QED
      BY <1>1, <1>2, <1>6, <1>8, <1>10, <2>2, <2>4, <2>5, ReadKeeps
  <1>12. CASE k # 2
    <2>1. pc' = "fields"
      BY <1>1, <1>12
    <2>2. Coming' = r
      <3>1. Coming' = Fields(performed, Len(taken')) \o EndCode
        BY <1>2, <2>1, ComingAt DEF ComingIs
      <3> QED
        BY <1>8, <3>1
    <2>3. TakenInv'
      <3>1. Len(taken') < 3 /\ DOMAIN taken' = 1..(k + 1)
        BY <1>2, <1>4, <1>8, <1>12 DEF Sequence
      <3> QED
        BY <1>2, <1>9, <2>1, <3>1 DEF TakenInv
    <2>4. ToldInv' /\ Command \in Reading'
      BY <1>1, <1>2, <1>3, <2>1 DEF ToldInv, Reading
    <2> HIDE DEF x, r
    <2> QED
      BY <1>1, <1>2, <1>6, <1>8, <1>10, <2>2, <2>3, <2>4, ReadKeeps
  <1> QED
    BY <1>11, <1>12

\* What is drawn at the end of an answer is what the store found.
LEMMA EndDraws ==
  ASSUME IInv, Reads("end", "code"), Draws
  PROVE  /\ performed # Db!NoCall
         /\ performed.code = ANS_ACK /\ told = Nothing
         /\ IsListCommand(Command) \/ Command = "getNewsArticle"
         /\ Found = taken
         /\ IsListCommand(Command) => taken = Listed(performed)
         /\ Command = "getNewsArticle" => taken = performed.result
  <1>1. "end" \in Places
    BY DEF Places
  <1>2. /\ pc = "end" /\ performed # Db!NoCall /\ performed.call[1] = Command
        /\ IsAnswer(performed) /\ performed.code \in CodesOf(Command)
        /\ TakenInv /\ ToldInv
    BY <1>1, ReadStep
  <1>3. IsListCommand(Command) \/ Command = "getNewsArticle"
    BY DEF Draws, IsListCommand
  <1>4. IsListCommand(Command) =>
          performed.code \in {ANS_ACK, ERR_NG_DOES_NOT_EXIST}
    BY <1>2 DEF IsListCommand, CodesOf
  <1>5. EMFILE # ANS_ACK /\ ERR_NG_DOES_NOT_EXIST # EMFILE
    BY DEF EMFILE, ANS_ACK, ERR_NG_DOES_NOT_EXIST
  <1>6. Command = "getNewsArticle" => performed.code = ANS_ACK
    BY <1>2 DEF ToldInv
  <1>7. told.verdict # "refused"
    BY DEF Draws
  <1>8. performed.code = ANS_ACK /\ told = Nothing
    <2>1. /\ told = IF \/ performed.code = EMFILE
                       \/ /\ performed.code = ANS_ACK
                          /\ IsListCommand(Command) \/ Command = "getNewsArticle"
                    THEN Nothing
                    ELSE Verdict(IF performed.code = ANS_ACK THEN "done"
                                 ELSE "refused", performed.code, <<>>)
      BY <1>2 DEF ToldInv
    <2>2. performed.code # EMFILE
      BY <1>3, <1>4, <1>5, <1>6
    <2>3. performed.code = ANS_ACK
      BY <1>7, <2>1, <2>2 DEF Verdict
    <2> QED
      BY <1>3, <2>1, <2>3
  <1>9. /\ IsListCommand(Command) => taken = Listed(performed)
        /\ Command = "getNewsArticle" => taken = performed.result
    BY <1>2, <1>8 DEF TakenInv
  <1>10. Command = "getNewsArticle" => taken # <<>>
    <2> DEFINE fields == performed.result
    <2>1. Command = "getNewsArticle" =>
            fields = <<fields[1], fields[2], fields[3]>>
      BY <1>2, <1>8 DEF IsAnswer
    <2>2. Command = "getNewsArticle" => taken = fields
      BY <1>9
    <2> HIDE DEF fields
    <2> QED
      BY <2>1, <2>2, ThreeFields
  <1>11. Found = taken
    BY <1>10 DEF Found
  <1> QED
    BY <1>2, <1>3, <1>8, <1>9, <1>11

\* The end of the answer: what was found is drawn, or reported.
LEMMA ReadEndKeeps ==
  ASSUME IInv, ReadEnd
  PROVE  IInv'
  <1> DEFINE x == Code(ANS_END)
             r == <<>>
  <1>1. Reads("end", "code") /\ "end" \in Places /\ taken' = taken
    BY DEF ReadEnd, Places
  <1>2. /\ pc = "end"
        /\ performed # Db!NoCall /\ performed' = performed
        /\ line' = line /\ Command' = Command /\ Command \in DOMAIN Parameter
        /\ performed.call[1] = Command
        /\ IsAnswer(performed) /\ performed.code \in CodesOf(Command)
        /\ TakenInv /\ ToldInv /\ Sequence(taken)
    BY <1>1, ReadStep
  <1>3. Sequence(r) /\ Coming = <<x>> \o r
    BY <1>2, EndIs, NoneAndOne, ComingAt DEF ComingIs
  <1> HIDE DEF x
  <1>4. Got = ANS_END
    <2> HIDE DEF r
    <2> QED
      BY <1>1, <1>3, ReadStep DEF x, Code
  <1>5. \/ /\ ~Draws /\ pc' = "prompt" /\ told' = told
        \/ /\ Draws /\ pc' = "prompt"
           /\ told' = Verdict("shown", ANS_ACK, Found)
        \/ /\ Draws /\ ~Fits /\ Command = "getNewsArticle"
           /\ pc' = "crashed" /\ told' = told
        \/ /\ Draws /\ ~Fits
           /\ pc' = "prompt" /\ told' = Fails
    BY <1>4 DEF ReadEnd
  <1>6. /\ told = IF \/ performed.code = EMFILE
                     \/ /\ performed.code = ANS_ACK
                        /\ IsListCommand(Command) \/ Command = "getNewsArticle"
                  THEN Nothing
                  ELSE Verdict(IF performed.code = ANS_ACK THEN "done"
                               ELSE "refused", performed.code, <<>>)
        /\ Command = "getNewsArticle" => performed.code = ANS_ACK
        /\ performed.code = ANS_ACK =>
             /\ IsListCommand(Command) => taken = Listed(performed)
             /\ Command = "getNewsArticle" => taken = performed.result
    BY <1>2 DEF TakenInv, ToldInv
  <1>7. EMFILE # ANS_ACK /\ (IsListCommand(Command) => performed.code # EMFILE)
    <2>1. /\ IsListCommand(Command) =>
               performed.code \in {ANS_ACK, ERR_NG_DOES_NOT_EXIST}
      BY <1>2 DEF IsListCommand, CodesOf
    <2>2. EMFILE # ANS_ACK /\ ERR_NG_DOES_NOT_EXIST # EMFILE
      BY DEF EMFILE, ANS_ACK, ERR_NG_DOES_NOT_EXIST
    <2> QED
      BY <2>1, <2>2
  <1>8. TakenInv' /\ ToldInv' /\ Command \in Reading'
    <2>1. pc' \in {"prompt", "crashed"}
          /\ (pc' = "crashed" => Command = "getNewsArticle" /\ told' = told)
      BY <1>5
    <2>2. pc' = "crashed" => told' = Nothing
      BY <1>6, <2>1
    <2> QED
      BY <1>2, <2>1, <2>2 DEF TakenInv, ToldInv, Reading
  <1>9. Coming' = r
    BY <1>5, ComingAt DEF ComingIs
  <1>10. CASE ~Draws /\ pc' = "prompt" /\ told' = told
    <2>1. \/ performed.code = EMFILE /\ told = Nothing
          \/ /\ performed.code # EMFILE /\ performed.code = ANS_ACK
             /\ told.verdict = "done" /\ told.code = performed.code
          \/ /\ performed.code # ANS_ACK
             /\ told.verdict = "refused" /\ told.code = performed.code
      <3>1. CASE performed.code = EMFILE
        BY <1>6, <3>1
      <3>2. CASE performed.code # EMFILE /\ performed.code # ANS_ACK
        BY <1>6, <3>2 DEF Verdict
      <3>3. CASE performed.code = ANS_ACK
        <4>1. ~(IsListCommand(Command) \/ Command = "getNewsArticle")
          BY <1>6, <1>10, <3>3, NothingTold DEF Draws, IsListCommand
        <4> QED
          BY <1>6, <1>7, <3>3, <4>1 DEF Verdict
      <3> QED
        BY <3>1, <3>2, <3>3
    <2>2. ToldTheTruth' /\ AnswersReachTheUser'
      BY <1>2, <1>10, <2>1, NothingTold DEF ToldTheTruth, AnswersReachTheUser
    <2> HIDE DEF r
    <2> QED
      BY <1>1, <1>2, <1>3, <1>8, <1>9, <1>10, <2>2, ReadKeeps
  <1>11. ASSUME Draws
         PROVE  /\ performed.code = ANS_ACK /\ told = Nothing
                /\ IsListCommand(Command) \/ Command = "getNewsArticle"
    BY <1>1, <1>11, EndDraws
  <1>12. ASSUME Draws
         PROVE  /\ Found = taken
                /\ Command = "listArticles" => taken = InOrder(performed.result)
                /\ Command # "listArticles" => taken = performed.result
    BY <1>1, <1>2, <1>12, EndDraws DEF Listed, IsListCommand
  <1>13. CASE /\ Draws /\ pc' = "prompt"
              /\ told' = Verdict("shown", ANS_ACK, Found)
    <2>1. /\ told'.verdict = "shown" /\ told'.code = ANS_ACK
          /\ told'.result = taken
      BY <1>12, <1>13 DEF Verdict
    <2>2. ToldTheTruth' /\ AnswersReachTheUser'
      BY <1>2, <1>11, <1>12, <1>13, <2>1 DEF ToldTheTruth, AnswersReachTheUser
    <2> HIDE DEF r
    <2> QED
      BY <1>1, <1>2, <1>3, <1>8, <1>9, <1>13, <2>2, ReadKeeps
  <1>14. CASE /\ Draws /\ ~Fits /\ Command = "getNewsArticle"
              /\ pc' = "crashed" /\ told' = told
    <2>1. ToldTheTruth' /\ AnswersReachTheUser'
      BY <1>2, <1>11, <1>14, NothingTold DEF ToldTheTruth, AnswersReachTheUser
    <2> HIDE DEF r
    <2> QED
      BY <1>1, <1>2, <1>3, <1>8, <1>9, <1>14, <2>1, ReadKeeps
  <1>15. CASE /\ Draws /\ ~Fits
              /\ pc' = "prompt" /\ told' = Fails
    <2>1. ~Fits'
      BY <1>1, <1>2, <1>15 DEF Fits, Found
    <2>2. Fails.verdict = "protocol failure"
      BY DEF Fails, Verdict
    <2>3. performed'.code = ANS_ACK
      BY <1>2, <1>11, <1>15
    <2>4. ToldTheTruth' /\ AnswersReachTheUser'
      BY <1>15, <2>1, <2>2, <2>3 DEF ToldTheTruth, AnswersReachTheUser
    <2> HIDE DEF r
    <2> QED
      BY <1>1, <1>2, <1>3, <1>8, <1>9, <1>15, <2>4, ReadKeeps
  <1> QED
    BY <1>5, <1>10, <1>13, <1>14, <1>15

-------------------------------------------------------------------------------
(* The theorems.                                                             *)

LEMMA NextKeeps == IInv /\ [Next]_vars => IInv'
  <1> SUFFICES ASSUME IInv, [Next]_vars
               PROVE  IInv'
    OBVIOUS
  <1>1. CASE \E typed \in Lines : Type(typed)
    BY <1>1, TypeKeeps
  <1>2. CASE Quit
    BY <1>2, QuitKeeps
  <1>3. CASE Client
    <2>1. CASE Write
      BY <2>1, WriteKeeps
    <2>2. CASE ReadNext
      BY <2>2, ReadAnswerCodeKeeps, ReadResponseKeeps, ReadErrorCodeKeeps,
         FlushKeeps, ReadCountKeeps, ReadIdKeeps, ReadNameKeeps,
         ReadFieldKeeps, ReadEndKeeps DEF ReadNext
    <2>3. CASE NoReply
      BY <2>3, NoReplyKeeps
    <2>4. CASE RunsOut
      BY <2>4, RunsOutKeeps
    <2> QED
      BY <1>3, <2>1, <2>2, <2>3, <2>4 DEF Client
  <1>4. CASE Server
    BY <1>4, ReadRequestKeeps, CarryKeeps, WriteReplyKeeps DEF Server
  <1>5. CASE Kill
    BY <1>5, KillKeeps
  <1>6. CASE UNCHANGED vars
    BY <1>6, StutterKeeps
  <1> QED
    BY <1>1, <1>2, <1>3, <1>4, <1>5, <1>6 DEF Next

\* At every step what both ends have read, what is on the wire and what is yet
\* to be written fit together, and with what the store has done.
THEOREM BothEndsAgree == Spec => []IInv
  <1>1. Init => IInv
    BY InitIInv
  <1>2. IInv /\ [Next]_vars => IInv'
    BY NextKeeps
  <1> QED
    BY <1>1, <1>2, PTL DEF Spec

\* Each end reads exactly what the other wrote for it: every exchange leaves
\* the wire and both ends empty, whatever was asked and answered.
THEOREM ExchangesEnd == Spec => []InStep
  <1>1. IInv => InStep
    BY BetweenExchanges DEF InStep
  <1> QED
    BY <1>1, BothEndsAgree, PTL

\* What the client of the command line reports is what the store did.
THEOREM ReportsAreTrue == Spec => []ToldTheTruth
  <1>1. IInv => ToldTheTruth
    BY DEF IInv
  <1> QED
    BY <1>1, BothEndsAgree, PTL

\* And it reports everything that the store did: as a failure what it cannot
\* draw, and nothing at all only of the one code that is not of the protocol.
THEOREM ReportsAreComplete == Spec => []AnswersReachTheUser
  <1>1. IInv => AnswersReachTheUser
    BY DEF IInv
  <1> QED
    BY <1>1, BothEndsAgree, PTL

\* The line the client works on is one that was typed.
LineInv == line \in Lines \cup {NoLine}

\* What is typed gets to the store as it was meant, through the client, the
\* wire and the server, if only the client's reading of the lines is right.
THEOREM CommandsArrive ==
  ASSUME \A typed \in Lines : Accepted(typed) => Asked(typed) = Meant(typed)
  PROVE  Spec => []CarriedOutAsTyped
  <1>1. Init => LineInv
    BY DEF Init, LineInv
  <1>2. LineInv /\ [Next]_vars => LineInv'
    <2> SUFFICES ASSUME LineInv, [Next]_vars
                 PROVE  LineInv'
      OBVIOUS
    <2>1. CASE \E typed \in Lines : Type(typed)
      BY <2>1 DEF Type, LineInv
    <2>2. CASE Quit
      BY <2>2 DEF Quit, LineInv
    <2>3. CASE Client
      BY <2>3 DEF Client, Write, ReadNext, NoReply, RunsOut, ReadAnswerCode, ReadResponse,
                  ReadErrorCode, Flush, ReadCount, ReadId, ReadName, ReadField,
                  ReadEnd, Reads, LineInv
    <2>4. CASE Server
      BY <2>4 DEF Server, ReadRequest, Carry, WriteReply, clientVars, LineInv
    <2>5. CASE Kill
      BY <2>5 DEF Kill, clientVars, LineInv
    <2>6. CASE UNCHANGED vars
      BY <2>6 DEF vars, clientVars, LineInv
    <2> QED
      BY <2>1, <2>2, <2>3, <2>4, <2>5, <2>6 DEF Next
  <1>3. IInv /\ LineInv => CarriedOutAsTyped
    <2> SUFFICES ASSUME IInv, LineInv, performed # Db!NoCall
                 PROVE  performed.call = Meant(line)
      BY DEF CarriedOutAsTyped
    <2>1. Accepted(line) /\ performed.call = Asked(line)
      BY DEF IInv, TellingInv
    <2>2. ~Accepted(NoLine)
      BY CommandsAre DEF Accepted, IsCommand, NoLine
    <2> QED
      BY <2>1, <2>2 DEF LineInv
  <1> QED
    BY <1>1, <1>2, <1>3, BothEndsAgree, PTL DEF Spec

===============================================================================
