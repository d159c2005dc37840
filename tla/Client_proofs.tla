----------------------------- MODULE Client_proofs -----------------------------
(***************************************************************************)
(* Proofs about what is in news_client.cc alone: a line is read as it is   *)
(* meant, whatever its words, and an answer is drawn whole, or up to the   *)
(* first thing that is too long.  With Session_proofs they give that what  *)
(* is typed is carried out, that no cut goes unnoticed, and what the       *)
(* client's process dies of.                                               *)
(***************************************************************************)
EXTENDS Session_proofs

-------------------------------------------------------------------------------
(* The sum of a sequence.                                                    *)

\* f[i] is the sum of the first i elements.
IsSum(f, s) == f[0] = 0 /\ \A i \in 1..Len(s) : f[i] = f[i - 1] + s[i]

\* There is a function that satisfies the recursion of Total.
LEMMA SumExists ==
  ASSUME NEW s, NEW N \in Nat
  PROVE  \E f : f = [i \in 0..N |-> IF i = 0 THEN 0 ELSE f[i - 1] + s[i]]
  <1> DEFINE step(f, i) == IF i = 0 THEN 0 ELSE f[i - 1] + s[i]
             has == {n \in Nat : \E f : f = [i \in 0..n |-> step(f, i)]}
  <1>1. 0 \in has
    <2> DEFINE f == [i \in 0..0 |-> 0]
    <2>1. f = [i \in 0..0 |-> step(f, i)]
      OBVIOUS
    <2> QED
      BY <2>1
  <1>2. ASSUME NEW n \in has
        PROVE  n + 1 \in has
    <2>1. PICK f : f = [i \in 0..n |-> step(f, i)]
      OBVIOUS
    <2> DEFINE g == [i \in 0..(n + 1) |->
                       IF i <= n THEN f[i] ELSE f[n] + s[n + 1]]
    <2>2. \A i \in 0..n : f[i] = step(f, i)
      <3> HIDE DEF step
      <3> QED
        BY <2>1
    <2>3. ASSUME NEW i \in 0..(n + 1)
          PROVE  g[i] = step(g, i)
      <3>1. CASE i = 0
        BY <2>2, <3>1
      <3>2. CASE i \in 1..n
        <4>1. i \in 0..n /\ i - 1 \in 0..(n + 1) /\ i - 1 <= n /\ i <= n
          BY <3>2
        <4> QED
          BY <2>2, <3>2, <4>1
      <3>3. CASE i = n + 1
        <4>1. n \in 0..(n + 1) /\ ~(i <= n) /\ i - 1 = n
          BY <3>3
        <4> QED
          BY <3>3, <4>1
      <3> QED
        BY <3>1, <3>2, <3>3
    <2> HIDE DEF step
    <2>4. g = [i \in 0..(n + 1) |-> step(g, i)]
      <3>1. g = [i \in 0..(n + 1) |-> g[i]]
        OBVIOUS
      <3> HIDE DEF g
      <3> QED
        BY <2>3, <3>1
    <2> HIDE DEF g
    <2> QED
      BY <2>4
  <1>3. has = Nat
    <2> HIDE DEF step
    <2>1. has \in SUBSET Nat
      OBVIOUS
    <2> HIDE DEF has
    <2> QED
      BY <1>1, <1>2, <2>1, NaturalInduction
  <1> QED
    BY <1>3

LEMMA SumOf ==
  ASSUME NEW s, Sequence(s)
  PROVE  \E f : IsSum(f, s) /\ Total(s) = f[Len(s)]
  <1> DEFINE N == Len(s)
             step(f, i) == IF i = 0 THEN 0 ELSE f[i - 1] + s[i]
             sum == CHOOSE f : f = [i \in 0..N |-> step(f, i)]
  <1>1. N \in Nat
    BY DEF Sequence
  <1>2. Total(s) = sum[N]
    BY DEF Total
  <1>3. sum = [i \in 0..N |-> step(sum, i)]
    <2>1. \E f : f = [i \in 0..N |-> step(f, i)]
      BY <1>1, SumExists
    <2> HIDE DEF step
    <2> QED
      BY <2>1
  <1> HIDE DEF sum
  <1>4. \A i \in 0..N : sum[i] = step(sum, i)
    <2> HIDE DEF step
    <2> QED
      BY <1>3
  <1>5. \A i \in 1..N : i \in 0..N /\ i # 0
    OBVIOUS
  <1>6. 0 \in 0..N
    BY <1>1
  <1>7. IsSum(sum, s)
    BY <1>4, <1>5, <1>6 DEF IsSum
  <1> QED
    BY <1>2, <1>7

\* A function with the values of the sums gives the total.
LEMMA TotalIs ==
  ASSUME NEW s, Sequence(s), NEW f, IsSum(f, s)
  PROVE  Total(s) = f[Len(s)]
  <1>1. PICK g : IsSum(g, s) /\ Total(s) = g[Len(s)]
    BY SumOf
  <1> DEFINE same == {n \in Nat : n <= Len(s) => f[n] = g[n]}
  <1>2. 0 \in same
    BY <1>1 DEF IsSum
  <1>3. ASSUME NEW n \in same
        PROVE  n + 1 \in same
    <2> SUFFICES ASSUME n + 1 <= Len(s)
                 PROVE  f[n + 1] = g[n + 1]
      OBVIOUS
    <2>1. n + 1 \in 1..Len(s) /\ (n + 1) - 1 = n /\ n <= Len(s)
      BY DEF Sequence
    <2> QED
      BY <1>1, <2>1 DEF IsSum
  <1>4. same = Nat
    <2>1. same \in SUBSET Nat
      OBVIOUS
    <2> HIDE DEF same
    <2> QED
      BY <1>2, <1>3, <2>1, NaturalInduction
  <1> QED
    BY <1>1, <1>4 DEF Sequence

LEMMA TotalNone == Total(<<>>) = 0
  <1>1. Sequence(<<>>) /\ Len(<<>>) = 0
    BY NoneAndOne
  <1>2. PICK f : IsSum(f, <<>>) /\ Total(<<>>) = f[0]
    BY <1>1, SumOf
  <1> QED
    BY <1>2 DEF IsSum

\* A sequence of numbers has a sum, and so do two of them together.
Numbers(s) == Sequence(s) /\ \A i \in 1..Len(s) : s[i] \in Int

LEMMA TotalType ==
  ASSUME NEW s, Numbers(s)
  PROVE  /\ Total(s) \in Int
         /\ (\A i \in 1..Len(s) : s[i] \in Nat) => Total(s) \in Nat
         /\ \E f : /\ IsSum(f, s) /\ Total(s) = f[Len(s)]
                   /\ \A i \in 0..Len(s) : f[i] \in Int
  <1>1. PICK f : IsSum(f, s) /\ Total(s) = f[Len(s)]
    BY SumOf DEF Numbers
  <1>2. Len(s) \in Nat
    BY DEF Numbers, Sequence
  <1> DEFINE typed == {n \in Nat : n <= Len(s) =>
                 /\ f[n] \in Int
                 /\ (\A i \in 1..Len(s) : s[i] \in Nat) => f[n] \in Nat}
  <1>3. 0 \in typed
    BY <1>1 DEF IsSum
  <1>4. ASSUME NEW n \in typed
        PROVE  n + 1 \in typed
    <2> SUFFICES ASSUME n + 1 <= Len(s)
                 PROVE  /\ f[n + 1] \in Int
                        /\ (\A i \in 1..Len(s) : s[i] \in Nat) =>
                             f[n + 1] \in Nat
      OBVIOUS
    <2>1. n + 1 \in 1..Len(s) /\ (n + 1) - 1 = n /\ n <= Len(s)
      BY <1>2
    <2>2. f[n + 1] = f[n] + s[n + 1] /\ s[n + 1] \in Int
      BY <1>1, <2>1 DEF IsSum, Numbers
    <2> QED
      BY <2>1, <2>2
  <1>5. typed = Nat
    <2>1. typed \in SUBSET Nat
      OBVIOUS
    <2> HIDE DEF typed
    <2> QED
      BY <1>3, <1>4, <2>1, NaturalInduction
  <1> QED
    BY <1>1, <1>2, <1>5

LEMMA TotalConcat ==
  ASSUME NEW s, NEW t, Numbers(s), Numbers(t)
  PROVE  Numbers(s \o t) /\ Total(s \o t) = Total(s) + Total(t)
  <1> DEFINE m == Len(s)
             n == Len(t)
  <1>1. m \in Nat /\ n \in Nat /\ Sequence(s) /\ Sequence(t)
    BY DEF Numbers, Sequence
  <1>2. /\ Sequence(s \o t) /\ Len(s \o t) = m + n
        /\ \A i \in 1..(m + n) : (s \o t)[i] = IF i <= m THEN s[i] ELSE t[i - m]
    BY <1>1, Concat
  <1>3. PICK f : /\ IsSum(f, s) /\ Total(s) = f[m]
                 /\ \A i \in 0..m : f[i] \in Int
    BY TotalType
  <1>4. PICK g : /\ IsSum(g, t) /\ Total(t) = g[n]
                 /\ \A i \in 0..n : g[i] \in Int
    BY TotalType
  <1> DEFINE h == [i \in 0..(m + n) |->
                     IF i <= m THEN f[i] ELSE f[m] + g[i - m]]
  <1>5. ASSUME NEW i \in 1..(m + n)
        PROVE  h[i] = h[i - 1] + (s \o t)[i] /\ (s \o t)[i] \in Int
    <2>1. i \in 0..(m + n) /\ i - 1 \in 0..(m + n)
      BY <1>1
    <2>2. CASE i <= m
      <3>1. i - 1 <= m /\ i \in 1..m
        BY <1>1, <2>2
      <3>2. h[i] = f[i] /\ h[i - 1] = f[i - 1] /\ (s \o t)[i] = s[i]
        BY <1>2, <2>1, <2>2, <3>1
      <3> QED
        BY <1>3, <3>1, <3>2 DEF IsSum, Numbers
    <2>3. CASE i = m + 1
      <3>1. 1 \in 1..n /\ i - m = 1 /\ ~(i <= m) /\ i - 1 = m /\ 1 - 1 = 0
        BY <1>1, <2>3
      <3>2. h[i] = f[m] + g[1] /\ h[i - 1] = f[m] /\ (s \o t)[i] = t[1]
        BY <1>2, <2>1, <3>1
      <3>3. g[1] = 0 + t[1] /\ t[1] \in Int /\ f[m] \in Int
        BY <1>1, <1>3, <1>4, <3>1 DEF IsSum, Numbers
      <3> QED
        BY <3>2, <3>3
    <2>4. CASE i > m + 1
      <3>1. /\ i - m \in 1..n /\ ~(i <= m) /\ ~(i - 1 <= m)
            /\ (i - 1) - m = (i - m) - 1 /\ (i - m) - 1 \in 0..n /\ m \in 0..m
        BY <1>1, <2>4
      <3>2. /\ h[i] = f[m] + g[i - m] /\ h[i - 1] = f[m] + g[(i - m) - 1]
            /\ (s \o t)[i] = t[i - m]
        BY <1>2, <2>1, <3>1
      <3>3. /\ g[i - m] = g[(i - m) - 1] + t[i - m] /\ t[i - m] \in Int
            /\ f[m] \in Int /\ g[(i - m) - 1] \in Int
        BY <1>3, <1>4, <3>1 DEF IsSum, Numbers
      <3> QED
        BY <3>2, <3>3
    <2> QED
      BY <1>1, <2>2, <2>3, <2>4
  <1>6. h[0] = 0
    BY <1>1, <1>3 DEF IsSum
  <1>7. IsSum(h, s \o t) /\ Numbers(s \o t)
    <2> HIDE DEF h
    <2> QED
      BY <1>2, <1>5, <1>6 DEF IsSum, Numbers
  <1>8. Total(s \o t) = h[m + n]
    <2> HIDE DEF h
    <2> QED
      BY <1>2, <1>7, TotalIs
  <1>9. h[m + n] = f[m] + g[n]
    <2>1. CASE n = 0
      BY <1>1, <1>3, <1>4, <2>1 DEF IsSum
    <2>2. CASE n # 0
      <3>1. m + n \in 0..(m + n) /\ ~(m + n <= m) /\ (m + n) - m = n
        BY <1>1, <2>2
      <3> QED
        BY <3>1
    <2> QED
      BY <2>1, <2>2
  <1> QED
    BY <1>3, <1>4, <1>7, <1>8, <1>9

-------------------------------------------------------------------------------
(* Sequences put together from sequences.                                    *)

\* f[i] is what the first i of them are put together.
IsFlat(f, seqs) ==
  f[0] = <<>> /\ \A i \in 1..Len(seqs) : f[i] = f[i - 1] \o seqs[i]

SequenceOfSequences(seqs) ==
  Sequence(seqs) /\ \A i \in 1..Len(seqs) : Sequence(seqs[i])

\* There is a function that satisfies the recursion of FlattenSeq.
LEMMA FlatExists ==
  ASSUME NEW q, NEW N \in Nat
  PROVE  \E f : f = [i \in 1..N |-> IF i = 1 THEN q[i] ELSE f[i - 1] \o q[i]]
  <1> DEFINE step(f, i) == IF i = 1 THEN q[i] ELSE f[i - 1] \o q[i]
             has == {n \in Nat : \E f : f = [i \in 1..n |-> step(f, i)]}
  <1>1. 0 \in has
    <2> DEFINE f == [i \in 1..0 |-> 0]
    <2>1. f = [i \in 1..0 |-> step(f, i)]
      OBVIOUS
    <2> QED
      BY <2>1
  <1>2. ASSUME NEW n \in has
        PROVE  n + 1 \in has
    <2>1. PICK f : f = [i \in 1..n |-> step(f, i)]
      OBVIOUS
    <2> DEFINE last == step(f, n + 1)
               g == [i \in 1..(n + 1) |-> IF i <= n THEN f[i] ELSE last]
    <2>2. \A i \in 1..n : f[i] = step(f, i)
      <3> HIDE DEF step
      <3> QED
        BY <2>1
    <2>3. ASSUME NEW i \in 1..(n + 1)
          PROVE  g[i] = step(g, i)
      <3>1. i = 1 \/ (i # 1 /\ i - 1 \in 1..(n + 1) /\ i - 1 <= n)
        OBVIOUS
      <3>2. i = 1 \/ (i # 1 /\ g[i - 1] = f[i - 1])
        BY <3>1
      <3>3. step(g, i) = step(f, i)
        <4> HIDE DEF g
        <4> QED
          BY <3>2
      <3>4. i \in 1..n \/ (i = n + 1 /\ ~(i <= n))
        OBVIOUS
      <3> HIDE DEF step
      <3> QED
        BY <2>2, <3>3, <3>4
    <2> HIDE DEF step
    <2>4. g = [i \in 1..(n + 1) |-> step(g, i)]
      <3>1. g = [i \in 1..(n + 1) |-> g[i]]
        OBVIOUS
      <3> HIDE DEF g
      <3> QED
        BY <2>3, <3>1
    <2> HIDE DEF g
    <2> QED
      BY <2>4
  <1>3. has = Nat
    <2> HIDE DEF step
    <2>1. has \in SUBSET Nat
      OBVIOUS
    <2> HIDE DEF has
    <2> QED
      BY <1>1, <1>2, <2>1, NaturalInduction
  <1> QED
    BY <1>3

\* What they are put together is a sequence, at every step.
LEMMA FlatSequences ==
  ASSUME NEW seqs, SequenceOfSequences(seqs), NEW f, IsFlat(f, seqs)
  PROVE  \A i \in 0..Len(seqs) : Sequence(f[i])
  <1> DEFINE are == {n \in Nat : n <= Len(seqs) => Sequence(f[n])}
  <1>1. 0 \in are
    BY NoneAndOne DEF IsFlat
  <1>2. ASSUME NEW n \in are
        PROVE  n + 1 \in are
    <2> SUFFICES ASSUME n + 1 <= Len(seqs)
                 PROVE  Sequence(f[n + 1])
      OBVIOUS
    <2>1. n + 1 \in 1..Len(seqs) /\ (n + 1) - 1 = n /\ n <= Len(seqs)
      BY DEF SequenceOfSequences, Sequence
    <2>2. /\ f[n + 1] = f[n] \o seqs[n + 1]
          /\ Sequence(f[n]) /\ Sequence(seqs[n + 1])
      BY <2>1 DEF IsFlat, SequenceOfSequences
    <2> QED
      BY <2>2, Concat
  <1>3. are = Nat
    <2>1. are \in SUBSET Nat
      OBVIOUS
    <2> HIDE DEF are
    <2> QED
      BY <1>1, <1>2, <2>1, NaturalInduction
  <1> QED
    BY <1>3

\* FlattenSeq is the last of them.
LEMMA FlattenOf ==
  ASSUME NEW seqs, SequenceOfSequences(seqs)
  PROVE  \E f : IsFlat(f, seqs) /\ FlattenSeq(seqs) = f[Len(seqs)]
  <1> DEFINE N == Len(seqs)
             step(f, i) == IF i = 1 THEN seqs[i] ELSE f[i - 1] \o seqs[i]
             flat == CHOOSE f : f = [i \in 1..N |-> step(f, i)]
             g == [i \in 0..N |-> IF i = 0 THEN <<>> ELSE flat[i]]
  <1>1. N \in Nat /\ Sequence(seqs)
    BY DEF SequenceOfSequences, Sequence
  <1>2. FlattenSeq(seqs) = IF N = 0 THEN seqs ELSE flat[N]
    BY DEF FlattenSeq
  <1>3. flat = [i \in 1..N |-> step(flat, i)]
    <2>1. \E f : f = [i \in 1..N |-> step(f, i)]
      BY <1>1, FlatExists
    <2> HIDE DEF step
    <2> QED
      BY <2>1
  <1> HIDE DEF flat
  <1>4. \A i \in 1..N : flat[i] = step(flat, i)
    <2> HIDE DEF step
    <2> QED
      BY <1>3
  <1>5. ASSUME NEW i \in 1..N
        PROVE  g[i] = g[i - 1] \o seqs[i]
    <2>1. i \in 0..N /\ i # 0 /\ i - 1 \in 0..N
      OBVIOUS
    <2>2. CASE i = 1
      <3>1. Sequence(seqs[1])
        BY <2>2 DEF SequenceOfSequences
      <3>2. g[i] = seqs[1] /\ g[i - 1] = <<>>
        BY <1>4, <2>1, <2>2
      <3> HIDE DEF g
      <3> QED
        BY <2>2, <3>1, <3>2, ConcatNone
    <2>3. CASE i # 1
      <3>1. i - 1 # 0
        BY <2>3
      <3>2. g[i] = flat[i] /\ g[i - 1] = flat[i - 1]
        BY <2>1, <3>1
      <3> HIDE DEF g
      <3> QED
        BY <1>4, <2>3, <3>2
    <2> QED
      BY <2>2, <2>3
  <1>6. g[0] = <<>>
    BY <1>1
  <1>7. g[N] = IF N = 0 THEN <<>> ELSE flat[N]
    BY <1>1
  <1>8. N = 0 => seqs = <<>>
    BY <1>1, EmptyIs
  <1> HIDE DEF g
  <1>9. IsFlat(g, seqs)
    BY <1>5, <1>6 DEF IsFlat
  <1>10. FlattenSeq(seqs) = g[N]
    BY <1>2, <1>7, <1>8
  <1> QED
    BY <1>9, <1>10

-------------------------------------------------------------------------------
(* What printList and displayArticle draw.                                   *)

\* How much each row shows.
Shown(rows) == [i \in DOMAIN rows |-> rows[i].shown]

\* Rows that are all of one width, and show n characters together.
Drawn(rows, width, n) ==
  /\ Sequence(rows)
  /\ \A i \in 1..Len(rows) : rows[i].width = width /\ rows[i].shown \in Int
  /\ Total(Shown(rows)) = n

LEMMA ShownNumbers ==
  ASSUME NEW rows, Sequence(rows), \A i \in 1..Len(rows) : rows[i].shown \in Int
  PROVE  /\ Numbers(Shown(rows)) /\ Len(Shown(rows)) = Len(rows)
         /\ \A i \in 1..Len(rows) : Shown(rows)[i] = rows[i].shown
  <1>1. DOMAIN rows = 1..Len(rows) /\ Len(rows) \in Nat
    BY DEF Sequence
  <1>2. Shown(rows) = [i \in 1..Len(rows) |-> rows[i].shown]
    BY <1>1 DEF Shown
  <1>3. Len(Shown(rows)) = Len(rows)
    BY <1>1, <1>2
  <1> QED
    BY <1>1, <1>2, <1>3 DEF Numbers, Sequence

LEMMA DrawnNone ==
  ASSUME NEW width
  PROVE  Drawn(<<>>, width, 0)
  <1>1. Sequence(<<>>) /\ Len(<<>>) = 0
    BY NoneAndOne
  <1>2. Shown(<<>>) = <<>>
    <2>1. Numbers(Shown(<<>>)) /\ Len(Shown(<<>>)) = 0
      BY <1>1, ShownNumbers
    <2> QED
      BY <2>1, EmptyIs DEF Numbers
  <1> QED
    BY <1>1, <1>2, TotalNone DEF Drawn

\* Rows below rows.
LEMMA DrawnBelow ==
  ASSUME NEW s, NEW t, NEW width, NEW m, NEW n,
         Drawn(s, width, m), Drawn(t, width, n)
  PROVE  Drawn(s \o t, width, m + n)
  <1>1. /\ Sequence(s) /\ Sequence(t)
        /\ Len(s) \in Nat /\ Len(t) \in Nat
    BY DEF Drawn, Sequence
  <1>2. /\ Sequence(s \o t) /\ Len(s \o t) = Len(s) + Len(t)
        /\ \A i \in 1..(Len(s) + Len(t)) :
             (s \o t)[i] = IF i <= Len(s) THEN s[i] ELSE t[i - Len(s)]
    BY <1>1, Concat
  <1>3. \A i \in 1..(Len(s) + Len(t)) :
          i \in 1..Len(s) \/ i - Len(s) \in 1..Len(t)
    BY <1>1
  <1>4. \A i \in 1..Len(s) : i <= Len(s)
    OBVIOUS
  <1>5. \A i \in 1..Len(s \o t) :
          (s \o t)[i].width = width /\ (s \o t)[i].shown \in Int
    BY <1>2, <1>3, <1>4 DEF Drawn
  <1>6. /\ Numbers(Shown(s)) /\ Numbers(Shown(t)) /\ Numbers(Shown(s \o t))
        /\ Len(Shown(s)) = Len(s) /\ Len(Shown(t)) = Len(t)
        /\ Len(Shown(s \o t)) = Len(s) + Len(t)
        /\ \A i \in 1..Len(s) : Shown(s)[i] = s[i].shown
        /\ \A i \in 1..Len(t) : Shown(t)[i] = t[i].shown
        /\ \A i \in 1..Len(s \o t) : Shown(s \o t)[i] = (s \o t)[i].shown
    BY <1>1, <1>2, <1>5, ShownNumbers DEF Drawn
  <1> DEFINE u == Shown(s) \o Shown(t)
  <1>7. /\ Sequence(u) /\ Len(u) = Len(s) + Len(t)
        /\ \A i \in 1..(Len(s) + Len(t)) :
             u[i] = IF i <= Len(s) THEN Shown(s)[i] ELSE Shown(t)[i - Len(s)]
    BY <1>6, Concat DEF Numbers
  <1> HIDE DEF u
  <1>8. \A i \in 1..(Len(s) + Len(t)) : Shown(s \o t)[i] = u[i]
    <2> TAKE i \in 1..(Len(s) + Len(t))
    <2>1. CASE i <= Len(s)
      <3>1. i \in 1..Len(s)
        BY <2>1
      <3> QED
        BY <1>2, <1>6, <1>7, <2>1, <3>1
    <2>2. CASE ~(i <= Len(s))
      <3>1. i - Len(s) \in 1..Len(t)
        BY <1>3, <2>2
      <3> QED
        BY <1>2, <1>6, <1>7, <2>2, <3>1
    <2> QED
      BY <2>1, <2>2
  <1>9. Shown(s \o t) = u
    BY <1>6, <1>7, <1>8, SameSequence DEF Numbers
  <1>10. Total(u) = m + n
    BY <1>6, TotalConcat DEF Drawn, u
  <1> QED
    BY <1>2, <1>5, <1>9, <1>10 DEF Drawn

LEMMA OneRow ==
  ASSUME NEW r, NEW width, r.width = width, r.shown \in Int
  PROVE  Drawn(<<r>>, width, r.shown)
  <1>1. Sequence(<<r>>) /\ Len(<<r>>) = 1 /\ <<r>>[1] = r
    BY NoneAndOne
  <1>2. \A i \in 1..1 : i = 1
    OBVIOUS
  <1>3. /\ Sequence(Shown(<<r>>)) /\ Len(Shown(<<r>>)) = 1
        /\ Shown(<<r>>)[1] = r.shown
    <2>1. \A i \in 1..Len(<<r>>) : <<r>>[i].shown \in Int
      BY <1>1, <1>2
    <2>2. 1 \in 1..1
      OBVIOUS
    <2> QED
      BY <1>1, <2>1, <2>2, ShownNumbers DEF Numbers
  <1> DEFINE f == [i \in 0..1 |-> IF i = 0 THEN 0 ELSE r.shown]
  <1>4. f[0] = 0 /\ f[1] = 0 + r.shown
    OBVIOUS
  <1>5. f[1] = r.shown
    OBVIOUS
  <1> HIDE DEF f
  <1>6. IsSum(f, Shown(<<r>>))
    <2>1. 1 - 1 = 0
      OBVIOUS
    <2> QED
      BY <1>2, <1>3, <1>4, <2>1 DEF IsSum
  <1>7. Total(Shown(<<r>>)) = r.shown
    BY <1>3, <1>5, <1>6, TotalIs
  <1> QED
    BY <1>1, <1>2, <1>7 DEF Drawn

LEMMA TwoRows ==
  ASSUME NEW r, NEW q, NEW width,
         r.width = width, r.shown \in Int, q.width = width, q.shown \in Int
  PROVE  Drawn(<<r, q>>, width, r.shown + q.shown)
  BY OneRow, DrawnBelow, TwoTokens

-------------------------------------------------------------------------------
\* to_string of a number has some length.
LEMMA DigitsType ==
  ASSUME NEW id \in Int
  PROVE  Digits(id) \in Int
  <1> DEFINE S == {k \in 1..9 : 10^k <= IF id < 0 THEN -id ELSE id}
  <1>1. IsFiniteSet(1..9)
    <2>1. \A n \in Nat : IsFiniteSet(1..n)
      BY FS_Interval
    <2> QED
      BY <2>1
  <1>2. Cardinality(S) \in Nat
    BY <1>1, FS_Subset, FS_CardinalityType
  <1>3. Digits(id) = Cardinality(S) + (IF id < 0 THEN 2 ELSE 1)
    BY DEF Digits
  <1> HIDE DEF S
  <1> QED
    BY <1>2, <1>3

\* An entry of a listing is drawn whole, on one row or on two.
LEMMA EntryDrawn ==
  ASSUME NEW id \in Int, NEW n \in Nat
  PROVE  Drawn(EntryRows(id, n), ListWidth, n)
  <1> DEFINE d == Digits(id)
             long == Row(2 + d + 4, 34, (38 - d - 34) + 1)
             rest == Row(8, n - 34, (70 - n) + 1)
             short == Row(2 + d + 4, n, (38 - d - n) + 1)
  <1>1. d \in Int
    BY DigitsType
  <1>2. EntryRows(id, n) = IF n > 34 THEN <<long, rest>> ELSE <<short>>
    BY DEF EntryRows
  <1> HIDE DEF d
  <1>3. /\ long.width = 45 /\ long.shown = 34
        /\ rest.width = 45 /\ rest.shown = n - 34
        /\ short.width = 45 /\ short.shown = n
    BY <1>1 DEF Row
  <1> HIDE DEF long, rest, short
  <1>4. CASE n > 34
    <2>1. Drawn(<<long, rest>>, 45, 34 + (n - 34))
      BY <1>3, TwoRows
    <2>2. 34 + (n - 34) = n
      OBVIOUS
    <2> QED
      BY <1>2, <1>4, <2>1, <2>2 DEF ListWidth
  <1>5. CASE ~(n > 34)
    BY <1>2, <1>3, <1>5, OneRow DEF ListWidth
  <1> QED
    BY <1>4, <1>5

LEMMA EvenIs ==
  ASSUME NEW n \in Nat
  PROVE  Even(n) \in Nat /\ Even(n) % 2 = 0
  BY DEF Even

\* The three centred rows: a line of the text, the title and the author.
LEMMA CentredRow ==
  ASSUME NEW n \in Nat
  PROVE  /\ Centred(1, n, 58, 2).width = 61 /\ Centred(1, n, 58, 2).shown = n
         /\ Centred(2, n, 56, 3).width = 61 /\ Centred(2, n, 56, 3).shown = n
         /\ Centred(1 + 11, n, 47, 3).width = 61
         /\ Centred(1 + 11, n, 47, 3).shown = n
  <1> DEFINE e == Even(n)
             side(room) == (room - e) \div 2
  <1>1. e \in Nat /\ e % 2 = 0
    BY EvenIs
  <1>2. /\ Centred(1, n, 58, 2) = Row(1 + side(58), n, (e - n) + side(58) + 2)
        /\ Centred(2, n, 56, 3) = Row(2 + side(56), n, (e - n) + side(56) + 3)
        /\ Centred(1 + 11, n, 47, 3)
             = Row(1 + 11 + side(47), n, (e - n) + side(47) + 3)
    BY DEF Centred
  <1> HIDE DEF e
  <1>3. /\ side(58) \in Int /\ 2 * side(58) = 58 - e
        /\ side(56) \in Int /\ 2 * side(56) = 56 - e
        /\ side(47) \in Int /\ 2 * side(47) = 46 - e
    BY <1>1
  <1> HIDE DEF side
  <1> QED
    BY <1>1, <1>2, <1>3 DEF Row

\* The rows of a text: each but the last holds 50 characters.
LEMMA TextDrawn ==
  ASSUME NEW n \in Nat
  PROVE  Drawn(TextRows(n), ArticleWidth, n)
  <1> DEFINE N == (n + 49) \div 50
             row(k) == Centred(1, Chunk((k - 1) * 50, n), 58, 2)
             rows == [k \in 1..N |-> row(k)]
             f == [k \in 0..N |-> IF 50 * k <= n THEN 50 * k ELSE n]
  <1>1. N \in Nat /\ 50 * N <= n + 49 /\ n <= 50 * N
    OBVIOUS
  <1>2. TextRows(n) = rows
    BY DEF TextRows
  <1> HIDE DEF N
  <1>3. Sequence(rows) /\ Len(rows) = N
    <2> HIDE DEF row
    <2>1. Len(rows) = N
      BY <1>1
    <2> QED
      BY <1>1, <2>1 DEF Sequence
  <1>4. ASSUME NEW k \in 1..N
        PROVE  /\ rows[k].width = ArticleWidth
               /\ rows[k].shown \in Int
               /\ f[k] = f[k - 1] + rows[k].shown
    <2> DEFINE c == Chunk((k - 1) * 50, n)
    <2>1. k \in Nat /\ k <= N /\ k >= 1 /\ 50 * k <= n + 49
      BY <1>1
    <2>2. c \in Nat /\ c = IF 50 * k > n THEN n - 50 * (k - 1) ELSE 50
      <3>1. (k - 1) * 50 + 50 = 50 * k
        BY <2>1
      <3>2. c = IF 50 * k > n THEN n % 50 ELSE 50
        BY <3>1 DEF Chunk
      <3>3. 50 * k > n => n % 50 = n - 50 * (k - 1)
        BY <2>1
      <3> HIDE DEF c
      <3> QED
        BY <2>1, <3>2, <3>3
    <2>3. rows[k] = Centred(1, c, 58, 2)
      OBVIOUS
    <2> HIDE DEF c
    <2>4. rows[k].width = 61 /\ rows[k].shown = c
      BY <2>2, <2>3, CentredRow
    <2>5. f[k] = f[k - 1] + c
      <3>1. k \in 0..N /\ k - 1 \in 0..N
        BY <1>1
      <3> QED
        BY <2>1, <2>2, <3>1
    <2> QED
      BY <2>2, <2>4, <2>5 DEF ArticleWidth
  <1>5. f[0] = 0 /\ f[N] = n
    BY <1>1
  <1> HIDE DEF rows, f
  <1>6. /\ Sequence(Shown(rows)) /\ Len(Shown(rows)) = N
        /\ \A k \in 1..N : Shown(rows)[k] = rows[k].shown
    BY <1>3, <1>4, ShownNumbers DEF Numbers
  <1>7. IsSum(f, Shown(rows))
    BY <1>4, <1>5, <1>6 DEF IsSum
  <1>8. Total(Shown(rows)) = n
    BY <1>5, <1>6, <1>7, TotalIs
  <1> QED
    BY <1>2, <1>3, <1>4, <1>8 DEF Drawn

\* A name as main makes one of words, and as the store keeps it.
IsName(name) ==
  /\ Sequence(name) /\ name # <<>>
  /\ \A k \in 1..Len(name) : name[k] \in DOMAIN WordLength

LEMMA LengthType ==
  ASSUME NEW name, IsName(name)
  PROVE  Length(name) \in Nat
  <1> DEFINE lengths == [k \in DOMAIN name |-> WordLength[name[k]]]
  <1>1. DOMAIN name = 1..Len(name) /\ Len(name) \in Nat /\ Len(name) # 0
    BY EmptyIs DEF IsName, Sequence
  <1>2. lengths = [k \in 1..Len(name) |-> WordLength[name[k]]]
    BY <1>1
  <1>3. Len(lengths) = Len(name)
    BY <1>1, <1>2
  <1>4. Sequence(lengths) /\ \A k \in 1..Len(lengths) : lengths[k] \in Nat
    BY <1>1, <1>2, <1>3, LengthsAssumption DEF IsName, Sequence
  <1>5. Length(name) = Total(lengths) + (Len(name) - 1)
    BY DEF Length
  <1> HIDE DEF lengths
  <1>6. Total(lengths) \in Nat
    <2>1. Numbers(lengths)
      BY <1>4 DEF Numbers
    <2> QED
      BY <1>4, <2>1, TotalType
  <1> QED
    BY <1>1, <1>5, <1>6

LEMMA MinIs ==
  ASSUME NEW S \in SUBSET Nat, S # {}
  PROVE  Min(S) \in S /\ \A y \in S : Min(S) <= y
  <1>1. \E x \in S : \A y \in S : x <= y
    BY LeastNatural
  <1> QED
    BY <1>1 DEF Min

\* Whether an entry of a listing can be drawn.
EntryOf(entries, i) == EntryFits(entries[i][1], Length(entries[i][2]))

\* The first entry that is too long is the first that does not fit.
LEMMA FirstTooLongIs ==
  ASSUME NEW entries, Sequence(entries)
  PROVE  /\ FirstTooLong(entries) \in 1..(Len(entries) + 1)
         /\ \A i \in 1..(FirstTooLong(entries) - 1) : EntryOf(entries, i)
         /\ FirstTooLong(entries) <= Len(entries) =>
              ~EntryOf(entries, FirstTooLong(entries))
         /\ ListFits(entries) <=> FirstTooLong(entries) = Len(entries) + 1
  <1> DEFINE N == Len(entries)
             long == TooLongIn(entries)
             S == long \cup {N + 1}
             m == FirstTooLong(entries)
  <1>1. N \in Nat /\ DOMAIN entries = 1..N
    BY DEF Sequence
  <1>2. long = {i \in 1..N : ~EntryOf(entries, i)}
    BY <1>1 DEF TooLongIn, EntryOf
  <1>3. m = Min(S) /\ (ListFits(entries) <=> long = {})
    BY DEF FirstTooLong, ListFits
  <1> HIDE DEF N, long, m
  <1>4. S \in SUBSET Nat /\ S # {}
    BY <1>1, <1>2
  <1>5. m \in S /\ \A y \in S : m <= y
    BY <1>3, <1>4, MinIs
  <1>6. m \in 1..(N + 1) /\ (m <= N => m \in long)
    BY <1>1, <1>2, <1>5
  <1>7. ASSUME NEW i \in 1..(m - 1)
        PROVE  EntryOf(entries, i)
    BY <1>1, <1>2, <1>5, <1>6
  <1>8. long = {} <=> m = N + 1
    BY <1>1, <1>2, <1>5, <1>6
  <1> QED
    BY <1>2, <1>3, <1>6, <1>7, <1>8 DEF N, m

\* printList: however many entries, every row is as wide as the frame, and
\* together they hold the names of the first n entries whole: of all of them, or
\* of those before the first for which the blanks cannot be made.
THEOREM ListDrawn ==
  ASSUME NEW entries, Sequence(entries),
         \A i \in 1..Len(entries) :
           entries[i][1] \in Int /\ IsName(entries[i][2])
  PROVE  \E n \in 0..Len(entries) :
           /\ Drawn(ListRows(entries), ListWidth,
                    Total([i \in 1..n |-> Length(entries[i][2])]))
           /\ \A i \in 1..n : EntryOf(entries, i)
           /\ n = Len(entries) \/ ~EntryOf(entries, n + 1)
           /\ ListFits(entries) <=> n = Len(entries)
  <1> DEFINE N == FirstTooLong(entries) - 1
             rowsOf == [i \in 1..N |->
                          EntryRows(entries[i][1], Length(entries[i][2]))]
             lengths == [i \in 1..N |-> Length(entries[i][2])]
  <1>0. Len(entries) \in Nat
    BY DEF Sequence
  <1>1. /\ N \in 0..Len(entries) /\ N \in Nat
        /\ \A i \in 1..N : EntryOf(entries, i)
        /\ N = Len(entries) \/ ~EntryOf(entries, N + 1)
        /\ ListFits(entries) <=> N = Len(entries)
    BY <1>0, FirstTooLongIs
  <1>4. ListRows(entries) = FlattenSeq(rowsOf)
    BY DEF ListRows
  <1> HIDE DEF N
  <1>2. ASSUME NEW i \in 1..N
        PROVE  /\ lengths[i] \in Nat
               /\ Drawn(rowsOf[i], ListWidth, lengths[i])
    <2>0. i \in 1..Len(entries)
      BY <1>0, <1>1
    <2>1. lengths[i] = Length(entries[i][2]) /\ lengths[i] \in Nat
      BY <2>0, LengthType
    <2>2. rowsOf[i] = EntryRows(entries[i][1], lengths[i])
      OBVIOUS
    <2> HIDE DEF lengths, rowsOf
    <2> QED
      BY <2>0, <2>1, <2>2, EntryDrawn
  <1>3. /\ Sequence(rowsOf) /\ Len(rowsOf) = N
        /\ Sequence(lengths) /\ Len(lengths) = N
    <2>1. /\ rowsOf = [i \in 1..N |-> rowsOf[i]]
          /\ lengths = [i \in 1..N |-> lengths[i]]
      OBVIOUS
    <2> HIDE DEF rowsOf, lengths
    <2>2. Len(rowsOf) = N /\ Len(lengths) = N
      BY <1>1, <2>1
    <2> QED
      BY <1>1, <2>1, <2>2 DEF Sequence
  <1> HIDE DEF rowsOf, lengths
  <1>5. SequenceOfSequences(rowsOf)
    BY <1>2, <1>3 DEF SequenceOfSequences, Drawn
  <1>6. PICK f : IsFlat(f, rowsOf) /\ FlattenSeq(rowsOf) = f[N]
    BY <1>3, <1>5, FlattenOf
  <1>7. PICK g : IsSum(g, lengths) /\ Total(lengths) = g[N]
    BY <1>3, SumOf
  <1> DEFINE drawn == {n \in Nat : n <= N => Drawn(f[n], ListWidth, g[n])}
  <1>8. 0 \in drawn
    BY <1>6, <1>7, DrawnNone DEF IsFlat, IsSum
  <1>9. ASSUME NEW n \in drawn
        PROVE  n + 1 \in drawn
    <2> SUFFICES ASSUME n + 1 <= N
                 PROVE  Drawn(f[n + 1], ListWidth, g[n + 1])
      OBVIOUS
    <2>1. n + 1 \in 1..N /\ (n + 1) - 1 = n /\ n <= N
      BY <1>1
    <2>2. f[n + 1] = f[n] \o rowsOf[n + 1] /\ g[n + 1] = g[n] + lengths[n + 1]
      BY <1>3, <1>6, <1>7, <2>1 DEF IsFlat, IsSum
    <2>3. Drawn(f[n], ListWidth, g[n])
      BY <2>1
    <2>4. Drawn(rowsOf[n + 1], ListWidth, lengths[n + 1])
      BY <1>2, <2>1
    <2> HIDE DEF drawn
    <2> QED
      BY <2>2, <2>3, <2>4, DrawnBelow
  <1>10. drawn = Nat
    <2>1. drawn \in SUBSET Nat
      OBVIOUS
    <2> HIDE DEF drawn
    <2> QED
      BY <1>8, <1>9, <2>1, NaturalInduction
  <1>11. Drawn(ListRows(entries), ListWidth, Total(lengths))
    BY <1>1, <1>4, <1>6, <1>7, <1>10
  <1> QED
    BY <1>1, <1>11 DEF lengths

\* displayArticle: the same of a title, an author and a text of any length, up
\* to the title or the author that is too long.
THEOREM ArticleDrawn ==
  ASSUME NEW title, NEW author, NEW text,
         IsName(title), IsName(author), IsName(text)
  PROVE  Drawn(ArticleRows(title, author, text), ArticleWidth,
               IF ~TitleFits(title) THEN 0
               ELSE IF ~AuthorFits(author) THEN Length(title)
               ELSE (Length(title) + Length(author)) + Length(text))
  <1>1. Length(title) \in Nat /\ Length(author) \in Nat /\ Length(text) \in Nat
    BY LengthType
  <1> DEFINE head == TitleRow(title)
             below == AuthorRow(author)
             rows == TextRows(Length(text))
  <1>2. head.width = ArticleWidth /\ head.shown = Length(title)
    BY <1>1, CentredRow DEF ArticleWidth, TitleRow
  <1>3. below.width = ArticleWidth /\ below.shown = Length(author)
    BY <1>1, CentredRow DEF ArticleWidth, AuthorRow
  <1>4. ArticleRows(title, author, text) =
          IF ~TitleFits(title) THEN <<>>
          ELSE IF ~AuthorFits(author) THEN <<head>>
          ELSE <<head, below>> \o rows
    BY Zenon DEF ArticleRows
  <1>5. Drawn(<<>>, ArticleWidth, 0)
    BY DrawnNone
  <1> HIDE DEF head, below
  <1>6. Drawn(<<head>>, ArticleWidth, Length(title))
    BY <1>1, <1>2, OneRow
  <1>7. Drawn(<<head, below>>, ArticleWidth, Length(title) + Length(author))
    BY <1>1, <1>2, <1>3, TwoRows
  <1>8. Drawn(rows, ArticleWidth, Length(text))
    BY <1>1, TextDrawn
  <1> HIDE DEF rows
  <1>9. Drawn(<<head, below>> \o rows, ArticleWidth,
              (Length(title) + Length(author)) + Length(text))
    BY <1>7, <1>8, DrawnBelow
  <1> QED
    BY <1>4, <1>5, <1>6, <1>9

-------------------------------------------------------------------------------
(* How a line is read.                                                       *)

\* Where an argument ends, if it does; else it is read to the end of the line.
LEMMA EndingIs ==
  ASSUME NEW words, Sequence(words), NEW i \in 1..Len(words)
  PROVE  /\ Ending(words, i) \in i..Len(words)
         /\ Closing(words, i) # {} => Min(Closing(words, i)) = Ending(words, i)
         /\ \A j \in i..Len(words) :
              /\ words[j].close /\ (\A k \in i..(j - 1) : ~words[k].close)
              => Closing(words, i) # {} /\ Ending(words, i) = j
  <1> DEFINE C == Closing(words, i)
             N == Len(words)
             last == Min(C \cup {N})
  <1>1. N \in Nat /\ i \in Nat /\ i <= N
    BY DEF Sequence
  <1>2. C \subseteq i..N /\ (\A j \in i..N : j \in C <=> words[j].close)
    BY DEF Closing
  <1>3. Ending(words, i) = last
    BY DEF Ending
  <1> HIDE DEF C, N
  <1>4. C \in SUBSET Nat /\ C \cup {N} \in SUBSET Nat
    BY <1>1, <1>2
  <1>5. last \in C \cup {N} /\ \A y \in C \cup {N} : last <= y
    BY <1>4, MinIs
  <1> HIDE DEF last
  <1>6. ASSUME C # {}
        PROVE  Min(C) = last
    <2> DEFINE m == Min(C)
    <2>1. m \in C /\ \A y \in C : m <= y
      BY <1>4, <1>6, MinIs
    <2> HIDE DEF m
    <2>2. m \in i..N /\ last \in i..N
      BY <1>1, <1>2, <1>5, <2>1
    <2>3. last <= m /\ m <= last
      <3>1. last <= m
        BY <1>5, <2>1
      <3>2. CASE last \in C
        BY <2>1, <3>1, <3>2
      <3>3. CASE last = N
        BY <2>2, <3>1, <3>3
      <3> QED
        BY <1>5, <3>2, <3>3
    <2>4. m = last
      BY <2>2, <2>3
    <2> QED
      BY <2>4 DEF m
  <1>7. ASSUME NEW j \in i..N, words[j].close,
               \A k \in i..(j - 1) : ~words[k].close
        PROVE  C # {} /\ last = j
    <2>1. j \in C /\ last <= j /\ last \in i..N
      BY <1>1, <1>2, <1>5, <1>7
    <2>2. last < j => last \in i..(j - 1) /\ last # N
      BY <1>1, <1>7, <2>1
    <2>3. ~(last < j)
      BY <1>2, <1>5, <1>7, <2>2
    <2> QED
      BY <2>1, <2>3
  <1>8. last \in i..N
    BY <1>1, <1>2, <1>5
  <1> QED
    BY <1>3, <1>6, <1>7, <1>8 DEF C, N

\* The argument that starts at a word, and where the next one starts.
ArgumentAt(words, i) ==
  IF ~words[i].open THEN Unquoted(words[i])
  ELSE Argument(words, i, Ending(words, i))
NextAt(words, i) == IF ~words[i].open THEN i + 1 ELSE Ending(words, i) + 1

\* There are functions that satisfy the recursions of Parameters and Unclosed:
\* every word is looked at once.
IsFrom(f, L, arg, next) ==
  f = [i \in 1..(L + 1) |-> IF i > L THEN <<>> ELSE <<arg[i]>> \o f[next[i]]]

LEMMA FromExists ==
  ASSUME NEW L \in Nat, NEW arg, NEW next,
         \A i \in 1..L : next[i] \in (i + 1)..(L + 1)
  PROVE  \E f : IsFrom(f, L, arg, next)
  <1> DEFINE step(f, i) == IF i > L THEN <<>> ELSE <<arg[i]>> \o f[next[i]]
             has == {n \in Nat : n <= L =>
                       \E f : f = [i \in ((L + 1) - n)..(L + 1) |-> step(f, i)]}
  <1>1. 0 \in has
    <2> DEFINE f == [i \in ((L + 1) - 0)..(L + 1) |-> <<>>]
    <2>1. \A i \in ((L + 1) - 0)..(L + 1) : i > L
      OBVIOUS
    <2>2. f = [i \in ((L + 1) - 0)..(L + 1) |-> step(f, i)]
      BY <2>1
    <2> HIDE DEF f, step
    <2> QED
      BY <2>2
  <1>2. ASSUME NEW n \in has
        PROVE  n + 1 \in has
    <2> DEFINE m == (L + 1) - n
    <2> SUFFICES ASSUME n + 1 <= L
                 PROVE  \E f : f = [i \in ((L + 1) - (n + 1))..(L + 1) |->
                                     step(f, i)]
      <3> HIDE DEF step
      <3> QED
        OBVIOUS
    <2>1. PICK f : f = [i \in m..(L + 1) |-> step(f, i)]
      <3> HIDE DEF step
      <3>1. n <= L
        OBVIOUS
      <3> QED
        BY <3>1
    <2>2. \A i \in m..(L + 1) : f[i] = step(f, i)
      <3> HIDE DEF step
      <3> QED
        BY <2>1
    <2> DEFINE last == step(f, m - 1)
               g == [i \in (m - 1)..(L + 1) |-> IF i >= m THEN f[i] ELSE last]
    <2>3. m \in Nat /\ m - 1 = (L + 1) - (n + 1) /\ m - 1 \in 1..L /\ m <= L + 1
      OBVIOUS
    <2> HIDE DEF m
    <2>4. ASSUME NEW i \in (m - 1)..(L + 1)
          PROVE  g[i] = step(g, i)
      <3>1. i > L \/ (i \in 1..L /\ next[i] \in m..(L + 1))
        BY <2>3
      <3>2. i > L \/ g[next[i]] = f[next[i]]
        BY <2>3, <3>1
      <3>3. step(g, i) = step(f, i)
        <4> HIDE DEF g
        <4> QED
          BY <3>2
      <3>4. (i \in m..(L + 1) /\ i >= m) \/ (i = m - 1 /\ ~(i >= m))
        BY <2>3
      <3> HIDE DEF step
      <3> QED
        BY <2>2, <3>3, <3>4
    <2> HIDE DEF step
    <2>5. g = [i \in (m - 1)..(L + 1) |-> step(g, i)]
      <3>1. g = [i \in (m - 1)..(L + 1) |-> g[i]]
        OBVIOUS
      <3> HIDE DEF g
      <3> QED
        BY <2>4, <3>1
    <2> HIDE DEF g
    <2> QED
      BY <2>3, <2>5
  <1>3. has = Nat
    <2> HIDE DEF step
    <2>1. has \in SUBSET Nat
      OBVIOUS
    <2> HIDE DEF has
    <2> QED
      BY <1>1, <1>2, <2>1, NaturalInduction
  <1>4. \E f : f = [i \in ((L + 1) - L)..(L + 1) |-> step(f, i)]
    <2> HIDE DEF step
    <2>1. L \in has /\ L <= L
      BY <1>3
    <2> QED
      BY <2>1
  <1>5. (L + 1) - L = 1
    OBVIOUS
  <1> QED
    BY <1>4, <1>5 DEF IsFrom

\* The parameters, one after another.
LEMMA ParametersAre ==
  ASSUME NEW words, Sequence(words)
  PROVE  \E f : /\ Parameters(words) = f[1] /\ f[Len(words) + 1] = <<>>
                /\ \A i \in 1..Len(words) :
                     f[i] = <<ArgumentAt(words, i)>> \o f[NextAt(words, i)]
  <1> DEFINE L == Len(words)
             arg == [i \in 1..L |-> ArgumentAt(words, i)]
             next == [i \in 1..L |-> NextAt(words, i)]
             coded(f, i) ==
               IF i > L THEN <<>>
               ELSE IF ~words[i].open THEN <<Unquoted(words[i])>> \o f[i + 1]
               ELSE <<Argument(words, i, Ending(words, i))>>
                      \o f[Ending(words, i) + 1]
             step(f, i) == IF i > L THEN <<>> ELSE <<arg[i]>> \o f[next[i]]
             from == CHOOSE f : f = [i \in 1..(L + 1) |-> coded(f, i)]
  <1>1. L \in Nat
    BY DEF Sequence
  <1>2. Parameters(words) = from[1]
    BY DEF Parameters
  <1>3. \A i \in 1..L : next[i] \in (i + 1)..(L + 1)
    <2> TAKE i \in 1..L
    <2>1. Ending(words, i) \in i..L
      BY EndingIs
    <2>2. NextAt(words, i) = i + 1 \/ NextAt(words, i) = Ending(words, i) + 1
      BY DEF NextAt
    <2> QED
      BY <1>1, <2>1, <2>2
  <1>4. ASSUME NEW f, NEW i \in 1..(L + 1)
        PROVE  coded(f, i) = step(f, i)
    <2>1. i > L \/ i \in 1..L
      BY <1>1
    <2> QED
      BY <2>1 DEF ArgumentAt, NextAt
  <1>5. \E f : f = [i \in 1..(L + 1) |-> step(f, i)]
    <2>1. \E f : IsFrom(f, L, arg, next)
      <3> HIDE DEF arg, next, L
      <3> QED
        BY <1>1, <1>3, FromExists
    <2> HIDE DEF arg, next
    <2> QED
      BY <2>1 DEF IsFrom
  <1>6. from = [i \in 1..(L + 1) |-> coded(from, i)]
    <2> HIDE DEF step
    <2>1. PICK f : f = [i \in 1..(L + 1) |-> step(f, i)]
      BY <1>5
    <2>2. [i \in 1..(L + 1) |-> step(f, i)] = [i \in 1..(L + 1) |-> coded(f, i)]
      <3> HIDE DEF coded
      <3> QED
        BY <1>4
    <2> HIDE DEF coded
    <2> QED
      BY <2>1, <2>2
  <1> HIDE DEF from
  <1>7. \A i \in 1..(L + 1) : from[i] = step(from, i)
    <2> HIDE DEF step, coded
    <2> QED
      BY <1>4, <1>6
  <1>8. L + 1 \in 1..(L + 1) /\ L + 1 > L
    BY <1>1
  <1>9. \A i \in 1..L :
          from[i] = <<ArgumentAt(words, i)>> \o from[NextAt(words, i)]
    <2> TAKE i \in 1..L
    <2>1. i \in 1..(L + 1) /\ ~(i > L)
      BY <1>1
    <2> QED
      BY <1>7, <2>1
  <1>10. from[L + 1] = <<>>
    BY <1>7, <1>8
  <1> QED
    BY <1>2, <1>9, <1>10

\* Whether an argument starts at a word and does not end.
StuckAt(words, i) == words[i].open /\ Closing(words, i) = {}

IsOff(f, L, stuck, next) ==
  f = [i \in 1..(L + 1) |-> i <= L /\ (stuck[i] \/ f[next[i]])]

LEMMA OffExists ==
  ASSUME NEW L \in Nat, NEW stuck, NEW next,
         \A i \in 1..L : next[i] \in (i + 1)..(L + 1)
  PROVE  \E f : IsOff(f, L, stuck, next)
  <1> DEFINE step(f, i) == i <= L /\ (stuck[i] \/ f[next[i]])
             has == {n \in Nat : n <= L =>
                       \E f : f = [i \in ((L + 1) - n)..(L + 1) |-> step(f, i)]}
  <1>1. 0 \in has
    <2> DEFINE f == [i \in ((L + 1) - 0)..(L + 1) |-> FALSE]
    <2>1. \A i \in ((L + 1) - 0)..(L + 1) : ~(i <= L)
      OBVIOUS
    <2>2. f = [i \in ((L + 1) - 0)..(L + 1) |-> step(f, i)]
      BY <2>1
    <2> HIDE DEF f, step
    <2> QED
      BY <2>2
  <1>2. ASSUME NEW n \in has
        PROVE  n + 1 \in has
    <2> DEFINE m == (L + 1) - n
    <2> SUFFICES ASSUME n + 1 <= L
                 PROVE  \E f : f = [i \in ((L + 1) - (n + 1))..(L + 1) |->
                                     step(f, i)]
      <3> HIDE DEF step
      <3> QED
        OBVIOUS
    <2>1. PICK f : f = [i \in m..(L + 1) |-> step(f, i)]
      <3> HIDE DEF step
      <3>1. n <= L
        OBVIOUS
      <3> QED
        BY <3>1
    <2>2. \A i \in m..(L + 1) : f[i] = step(f, i)
      <3> HIDE DEF step
      <3> QED
        BY <2>1
    <2> DEFINE last == step(f, m - 1)
               g == [i \in (m - 1)..(L + 1) |-> IF i >= m THEN f[i] ELSE last]
    <2>3. m \in Nat /\ m - 1 = (L + 1) - (n + 1) /\ m - 1 \in 1..L /\ m <= L + 1
      OBVIOUS
    <2> HIDE DEF m
    <2>4. ASSUME NEW i \in (m - 1)..(L + 1)
          PROVE  g[i] = step(g, i)
      <3>1. ~(i <= L) \/ (i \in 1..L /\ next[i] \in m..(L + 1))
        BY <2>3
      <3>2. ~(i <= L) \/ g[next[i]] = f[next[i]]
        BY <2>3, <3>1
      <3>3. step(g, i) = step(f, i)
        <4> HIDE DEF g
        <4> QED
          BY <3>2
      <3>4. (i \in m..(L + 1) /\ i >= m) \/ (i = m - 1 /\ ~(i >= m))
        BY <2>3
      <3> HIDE DEF step
      <3> QED
        BY <2>2, <3>3, <3>4
    <2> HIDE DEF step
    <2>5. g = [i \in (m - 1)..(L + 1) |-> step(g, i)]
      <3>1. g = [i \in (m - 1)..(L + 1) |-> g[i]]
        OBVIOUS
      <3> HIDE DEF g
      <3> QED
        BY <2>4, <3>1
    <2> HIDE DEF g
    <2> QED
      BY <2>3, <2>5
  <1>3. has = Nat
    <2> HIDE DEF step
    <2>1. has \in SUBSET Nat
      OBVIOUS
    <2> HIDE DEF has
    <2> QED
      BY <1>1, <1>2, <2>1, NaturalInduction
  <1>4. \E f : f = [i \in ((L + 1) - L)..(L + 1) |-> step(f, i)]
    <2> HIDE DEF step
    <2>1. L \in has /\ L <= L
      BY <1>3
    <2> QED
      BY <2>1
  <1>5. (L + 1) - L = 1
    OBVIOUS
  <1> QED
    BY <1>4, <1>5 DEF IsOff

\* The line is unclosed if that comes to light at one of its words.
LEMMA UnclosedIs ==
  ASSUME NEW words, Sequence(words)
  PROVE  \E f : /\ Unclosed(words) <=> f[1]
                /\ ~f[Len(words) + 1]
                /\ \A i \in 1..Len(words) :
                     f[i] <=> StuckAt(words, i) \/ f[NextAt(words, i)]
  <1> DEFINE L == Len(words)
             stuck == [i \in 1..L |-> StuckAt(words, i)]
             next == [i \in 1..L |-> NextAt(words, i)]
             coded(f, i) ==
               /\ i <= L
               /\ IF ~words[i].open THEN f[i + 1]
                  ELSE Closing(words, i) # {} => f[Min(Closing(words, i)) + 1]
             step(f, i) == i <= L /\ (stuck[i] \/ f[next[i]])
             runsOff == CHOOSE f : f = [i \in 1..(L + 1) |-> coded(f, i)]
  <1>1. L \in Nat
    BY DEF Sequence
  <1>2. Unclosed(words) = runsOff[1]
    BY DEF Unclosed
  <1>3. \A i \in 1..L : next[i] \in (i + 1)..(L + 1)
    <2> TAKE i \in 1..L
    <2>1. Ending(words, i) \in i..L
      BY EndingIs
    <2>2. NextAt(words, i) = i + 1 \/ NextAt(words, i) = Ending(words, i) + 1
      BY DEF NextAt
    <2> QED
      BY <1>1, <2>1, <2>2
  <1>4. ASSUME NEW f, NEW i \in 1..(L + 1)
        PROVE  coded(f, i) = step(f, i)
    <2>1. CASE i <= L
      <3>1. i \in 1..L
        BY <1>1, <2>1
      <3>2. Closing(words, i) # {} => Min(Closing(words, i)) = Ending(words, i)
        BY <3>1, EndingIs
      <3>3. CASE ~words[i].open
        BY <2>1, <3>1, <3>3 DEF StuckAt, NextAt
      <3>4. CASE words[i].open /\ Closing(words, i) = {}
        BY <2>1, <3>1, <3>4 DEF StuckAt
      <3>5. CASE words[i].open /\ Closing(words, i) # {}
        BY <2>1, <3>1, <3>2, <3>5 DEF StuckAt, NextAt
      <3> QED
        BY <3>3, <3>4, <3>5
    <2>2. CASE ~(i <= L)
      BY <2>2
    <2> QED
      BY <2>1, <2>2
  <1>5. \E f : f = [i \in 1..(L + 1) |-> step(f, i)]
    <2>1. \E f : IsOff(f, L, stuck, next)
      <3> HIDE DEF stuck, next, L
      <3> QED
        BY <1>1, <1>3, OffExists
    <2> HIDE DEF stuck, next
    <2> QED
      BY <2>1 DEF IsOff
  <1>6. runsOff = [i \in 1..(L + 1) |-> coded(runsOff, i)]
    <2> HIDE DEF step
    <2>1. PICK f : f = [i \in 1..(L + 1) |-> step(f, i)]
      BY <1>5
    <2>2. [i \in 1..(L + 1) |-> step(f, i)] = [i \in 1..(L + 1) |-> coded(f, i)]
      <3> HIDE DEF coded
      <3> QED
        BY <1>4
    <2> HIDE DEF coded
    <2> QED
      BY <2>1, <2>2
  <1> HIDE DEF runsOff
  <1>7. \A i \in 1..(L + 1) : runsOff[i] = step(runsOff, i)
    <2> HIDE DEF step, coded
    <2> QED
      BY <1>4, <1>6
  <1>8. L + 1 \in 1..(L + 1) /\ ~(L + 1 <= L)
    BY <1>1
  <1>9. ASSUME NEW i \in 1..L
        PROVE  runsOff[i] <=> StuckAt(words, i) \/ runsOff[NextAt(words, i)]
    <2>1. i \in 1..(L + 1) /\ i <= L
      BY <1>1
    <2>2. runsOff[i] = step(runsOff, i)
      BY <1>7, <2>1
    <2>3. stuck[i] = StuckAt(words, i) /\ next[i] = NextAt(words, i)
      OBVIOUS
    <2> HIDE DEF stuck, next
    <2> QED
      BY <2>1, <2>2, <2>3
  <1>10. ~runsOff[L + 1]
    BY <1>7, <1>8
  <1> QED
    BY <1>2, <1>9, <1>10

\* The parameters main reads of a line are names the display has room for or
\* not, but knows the length of.
KnownWords(words) ==
  /\ Sequence(words)
  /\ \A i \in 1..Len(words) : TextsOf(words[i]) \subseteq DOMAIN WordLength

LEMMA ArgumentIsName ==
  ASSUME NEW words, KnownWords(words), NEW i \in 1..Len(words)
  PROVE  IsName(ArgumentAt(words, i))
  <1>1. Len(words) \in Nat /\ Sequence(words)
    BY DEF KnownWords, Sequence
  <1>2. CASE ~words[i].open
    <2> DEFINE text == Unquoted(words[i])[1]
    <2>1. Unquoted(words[i]) = <<text>>
      BY DEF Unquoted
    <2>2. text \in DOMAIN WordLength
      BY <1>2 DEF KnownWords, TextsOf
    <2> HIDE DEF text
    <2>3. ArgumentAt(words, i) = <<text>>
      BY <1>2, <2>1 DEF ArgumentAt
    <2>4. \A k \in 1..1 : k = 1
      OBVIOUS
    <2>5. <<text>> # <<>>
      BY NoneAndOne
    <2> QED
      BY <2>2, <2>3, <2>4, <2>5, NoneAndOne DEF IsName
  <1>3. CASE words[i].open
    <2> DEFINE j == Ending(words, i)
               n == (j - i) + 1
               a == [k \in 1..n |-> Erased(words[(i + k) - 1].text)]
    <2>1. j \in i..Len(words)
      BY <1>1, EndingIs
    <2>2. ArgumentAt(words, i) = a
      <3>1. ArgumentAt(words, i) = Argument(words, i, j)
        BY <1>3 DEF ArgumentAt
      <3> HIDE DEF j
      <3> QED
        BY <3>1 DEF Argument
    <2> HIDE DEF j
    <2>3. n \in Nat /\ n # 0 /\ \A k \in 1..n : (i + k) - 1 \in 1..Len(words)
      BY <1>1, <2>1
    <2> HIDE DEF n
    <2>4. \A k \in 1..n : a[k] \in DOMAIN WordLength
      <3> TAKE k \in 1..n
      <3>1. TextsOf(words[(i + k) - 1]) \subseteq DOMAIN WordLength
        BY <2>3 DEF KnownWords
      <3>2. a[k] \in TextsOf(words[(i + k) - 1])
        BY DEF TextsOf
      <3> QED
        BY <3>1, <3>2
    <2>5. Len(a) = n /\ Sequence(a)
      BY <2>3 DEF Sequence
    <2> HIDE DEF a
    <2>6. a # <<>>
      BY <2>3, <2>5, EmptyIs
    <2> QED
      BY <2>2, <2>4, <2>5, <2>6 DEF IsName
  <1> QED
    BY <1>2, <1>3

LEMMA ParametersAreNames ==
  ASSUME NEW words, KnownWords(words)
  PROVE  /\ Sequence(Parameters(words))
         /\ \A k \in 1..Len(Parameters(words)) : IsName(Parameters(words)[k])
  <1> DEFINE L == Len(words)
             names(s) == Sequence(s) /\ \A k \in 1..Len(s) : IsName(s[k])
  <1>1. L \in Nat /\ Sequence(words)
    BY DEF KnownWords, Sequence
  <1>2. PICK f : /\ Parameters(words) = f[1] /\ f[L + 1] = <<>>
                 /\ \A i \in 1..L :
                      f[i] = <<ArgumentAt(words, i)>> \o f[NextAt(words, i)]
    BY <1>1, ParametersAre
  <1> DEFINE are == {n \in Nat : \A i \in 1..(L + 1) :
                       i >= (L + 1) - n => names(f[i])}
  <1>3. \A i \in 1..L : NextAt(words, i) \in (i + 1)..(L + 1)
    <2> TAKE i \in 1..L
    <2>1. Ending(words, i) \in i..L
      BY <1>1, EndingIs
    <2>2. NextAt(words, i) = i + 1 \/ NextAt(words, i) = Ending(words, i) + 1
      BY DEF NextAt
    <2> QED
      BY <1>1, <2>1, <2>2
  <1>4. names(<<>>)
    <2>1. \A k \in 1..0 : FALSE
      OBVIOUS
    <2> QED
      BY <2>1, NoneAndOne
  <1>5. ASSUME NEW i \in 1..L, names(f[NextAt(words, i)])
        PROVE  names(f[i])
    <2> DEFINE x == ArgumentAt(words, i)
               s == f[NextAt(words, i)]
    <2>1. f[i] = <<x>> \o s /\ IsName(x)
      BY <1>2, ArgumentIsName
    <2> HIDE DEF x
    <2>2. Sequence(s) /\ \A k \in 1..Len(s) : IsName(s[k])
      BY <1>5
    <2> HIDE DEF s
    <2> DEFINE t == <<x>> \o s
    <2>3. /\ Sequence(t) /\ Len(t) = Len(s) + 1 /\ t[1] = x
          /\ \A k \in 1..Len(s) : t[k + 1] = s[k]
      BY <2>2, OneThen
    <2> HIDE DEF t
    <2>4. ASSUME NEW k \in 1..Len(t)
          PROVE  IsName(t[k])
      <3>1. CASE k = 1
        BY <2>1, <2>3, <3>1
      <3>2. CASE k # 1
        <4>1. k - 1 \in 1..Len(s) /\ (k - 1) + 1 = k
          BY <2>2, <2>3, <3>2 DEF Sequence
        <4> QED
          BY <2>2, <2>3, <4>1
      <3> QED
        BY <3>1, <3>2
    <2> QED
      BY <2>1, <2>3, <2>4 DEF t
  <1> HIDE DEF names
  <1>6. 0 \in are
    <2>1. \A i \in 1..(L + 1) : i >= (L + 1) - 0 => i = L + 1
      BY <1>1
    <2> HIDE DEF L
    <2> QED
      BY <1>2, <1>4, <2>1
  <1>7. ASSUME NEW n \in are
        PROVE  n + 1 \in are
    <2> SUFFICES ASSUME NEW i \in 1..(L + 1), i >= (L + 1) - (n + 1)
                 PROVE  names(f[i])
      OBVIOUS
    <2>1. CASE i = L + 1
      BY <1>2, <1>4, <2>1
    <2>2. CASE i # L + 1
      <3>1. i \in 1..L
        BY <1>1, <2>2
      <3> DEFINE j == NextAt(words, i)
      <3>2. j \in (i + 1)..(L + 1)
        BY <1>3, <3>1
      <3> HIDE DEF j
      <3>3. j \in 1..(L + 1) /\ j >= (L + 1) - n
        BY <1>1, <3>1, <3>2
      <3>4. names(f[j])
        BY <3>3
      <3> QED
        BY <1>5, <3>1, <3>4 DEF j
    <2> QED
      BY <2>1, <2>2
  <1>8. are = Nat
    <2>1. are \in SUBSET Nat
      OBVIOUS
    <2> HIDE DEF are
    <2> QED
      BY <1>6, <1>7, <2>1, NaturalInduction
  <1>9. names(f[1])
    <2>1. 1 \in 1..(L + 1) /\ 1 >= (L + 1) - L /\ L \in are
      BY <1>1, <1>8
    <2> HIDE DEF L
    <2> QED
      BY <2>1
  <1> QED
    BY <1>2, <1>9 DEF names

-------------------------------------------------------------------------------
(* A line typed as told.                                                     *)

\* Where each of the sequences is in what they are put together.
LEMMA PartOf ==
  ASSUME NEW seqs, SequenceOfSequences(seqs), NEW f, IsFlat(f, seqs),
         NEW m \in Nat, m < Len(seqs)
  PROVE  /\ Len(f[m]) \in Nat
         /\ Len(f[m + 1]) = Len(f[m]) + Len(seqs[m + 1])
         /\ Len(f[m + 1]) <= Len(f[Len(seqs)])
         /\ \A k \in 1..Len(seqs[m + 1]) :
              f[Len(seqs)][Len(f[m]) + k] = seqs[m + 1][k]
  <1> DEFINE N == Len(seqs)
             a == f[m]
             b == seqs[m + 1]
             c == f[m + 1]
  <1>1. N \in Nat /\ m + 1 \in 1..N /\ m \in 0..N /\ m + 1 \in 0..N
    BY DEF SequenceOfSequences, Sequence
  <1>2. \A i \in 0..N : Sequence(f[i]) /\ Len(f[i]) \in Nat
    BY FlatSequences DEF Sequence
  <1>3. \A i \in 1..N : Sequence(seqs[i]) /\ Len(seqs[i]) \in Nat
    BY DEF SequenceOfSequences, Sequence
  <1>4. c = a \o b
    <2>1. (m + 1) - 1 = m
      OBVIOUS
    <2> QED
      BY <1>1, <2>1 DEF IsFlat
  <1>5. Sequence(a) /\ Sequence(b) /\ Len(a) \in Nat /\ Len(b) \in Nat
    BY <1>1, <1>2, <1>3
  <1> HIDE DEF a, b, c
  <1>6. /\ Sequence(a) /\ Sequence(b) /\ Sequence(c)
        /\ Len(a) \in Nat /\ Len(b) \in Nat /\ Len(c) = Len(a) + Len(b)
        /\ \A i \in 1..(Len(a) + Len(b)) :
             c[i] = IF i <= Len(a) THEN a[i] ELSE b[i - Len(a)]
    BY <1>4, <1>5, Concat
  <1> DEFINE kept(i) ==
               Len(c) <= Len(f[i]) /\ \A j \in 1..Len(c) : f[i][j] = c[j]
             keep == {d \in Nat : (m + 1) + d <= N => kept((m + 1) + d)}
  <1>7. 0 \in keep
    BY <1>6 DEF c
  <1>8. ASSUME NEW d \in keep
        PROVE  d + 1 \in keep
    <2> DEFINE i == (m + 1) + d
    <2> SUFFICES ASSUME (m + 1) + (d + 1) <= N
                 PROVE  kept((m + 1) + (d + 1))
      OBVIOUS
    <2>1. /\ (m + 1) + (d + 1) = i + 1 /\ i + 1 \in 1..N /\ i \in 0..N
          /\ (i + 1) - 1 = i /\ i <= N
      BY <1>1
    <2>2. kept(i)
      BY <2>1
    <2> HIDE DEF i
    <2> DEFINE s == f[i]
               t == seqs[i + 1]
    <2>3. f[i + 1] = s \o t
      BY <2>1 DEF IsFlat
    <2>4. /\ Len(s) \in Nat /\ Len(t) \in Nat
          /\ Len(s \o t) = Len(s) + Len(t)
          /\ \A j \in 1..(Len(s) + Len(t)) :
               (s \o t)[j] = IF j <= Len(s) THEN s[j] ELSE t[j - Len(s)]
      BY <1>2, <1>3, <2>1, Concat
    <2>5. /\ Len(c) \in Nat /\ Len(c) <= Len(s)
          /\ \A j \in 1..Len(c) : s[j] = c[j]
      BY <1>6, <2>2
    <2> HIDE DEF s, t
    <2>6. \A j \in 1..Len(c) : j \in 1..(Len(s) + Len(t)) /\ j <= Len(s)
      BY <2>4, <2>5
    <2>7. kept(i + 1)
      BY <2>3, <2>4, <2>5, <2>6
    <2> QED
      BY <2>1, <2>7
  <1>9. keep = Nat
    <2>1. keep \in SUBSET Nat
      OBVIOUS
    <2> HIDE DEF keep
    <2> QED
      BY <1>7, <1>8, <2>1, NaturalInduction
  <1>10. kept(N)
    <2> HIDE DEF N
    <2>1. N - (m + 1) \in Nat /\ (m + 1) + (N - (m + 1)) = N /\ N <= N
      BY <1>1
    <2> DEFINE d == N - (m + 1)
    <2> HIDE DEF d, kept
    <2>2. d \in keep
      <3> HIDE DEF keep
      <3> QED
        BY <1>9, <2>1 DEF d
    <2>3. (m + 1) + d = N
      BY <2>1 DEF d
    <2> QED
      BY <2>1, <2>2, <2>3
  <1>11. ASSUME NEW k \in 1..Len(b)
         PROVE  f[N][Len(a) + k] = b[k]
    <2> DEFINE j == Len(a) + k
    <2>1. /\ j \in 1..(Len(a) + Len(b)) /\ ~(j <= Len(a)) /\ j - Len(a) = k
      BY <1>6
    <2> HIDE DEF j
    <2>2. c[j] = b[k]
      BY <1>6, <2>1
    <2>3. f[N][j] = c[j]
      BY <1>6, <1>10, <2>1
    <2> QED
      BY <2>2, <2>3 DEF j
  <1> HIDE DEF N
  <1> QED
    BY <1>6, <1>10, <1>11 DEF a, b, c, N

\* An argument as the user types it.
Told(argument) ==
  /\ Sequence(argument.texts) /\ argument.texts # <<>>
  /\ argument.quoted \/ Len(argument.texts) = 1

LEMMA WrittenIs ==
  ASSUME NEW argument, Told(argument)
  PROVE  /\ Sequence(Written(argument))
         /\ Len(Written(argument)) = Len(argument.texts)
         /\ Len(argument.texts) \in Nat \ {0}
         /\ \A k \in 1..Len(argument.texts) :
              Written(argument)[k] =
                Word(argument.quoted /\ k = 1,
                     argument.quoted /\ k = Len(argument.texts),
                     argument.texts[k])
  <1> DEFINE n == Len(argument.texts)
             w == Written(argument)
             word(k) == Word(argument.quoted /\ k = 1, argument.quoted /\ k = n,
                             argument.texts[k])
  <1>1. n \in Nat \ {0} /\ DOMAIN argument.texts = 1..n
    BY EmptyIs DEF Told, Sequence
  <1>2. w = [k \in 1..n |-> word(k)]
    BY <1>1 DEF Written
  <1> HIDE DEF w, word, n
  <1>3. Len(w) = n
    BY <1>1, <1>2
  <1>4. Sequence(w) /\ \A k \in 1..n : w[k] = word(k)
    BY <1>1, <1>2, <1>3 DEF Sequence
  <1> QED
    BY <1>1, <1>3, <1>4 DEF w, word, n

\* The words of an argument are read as it is meant, wherever they are.
LEMMA ArgumentRead ==
  ASSUME NEW words, Sequence(words), NEW p \in Nat,
         NEW argument, Told(argument),
         p + Len(argument.texts) <= Len(words),
         \A k \in 1..Len(argument.texts) : words[p + k] = Written(argument)[k]
  PROVE  /\ p + 1 \in 1..Len(words)
         /\ ~StuckAt(words, p + 1)
         /\ NextAt(words, p + 1) = (p + Len(argument.texts)) + 1
         /\ ArgumentAt(words, p + 1) = Intended(argument)
  <1> DEFINE texts == argument.texts
             n == Len(texts)
             i == p + 1
             j == p + n
  <1>1. /\ n \in Nat \ {0} /\ Len(words) \in Nat /\ Sequence(texts)
        /\ DOMAIN texts = 1..n /\ (argument.quoted \/ n = 1)
    BY WrittenIs DEF Sequence, Told
  <1>2. \A k \in 1..n :
          words[p + k] = [open |-> argument.quoted /\ k = 1,
                          close |-> argument.quoted /\ k = n, text |-> texts[k]]
    BY WrittenIs DEF Word
  <1> HIDE DEF texts, n
  <1>3. /\ \A k \in 1..n : words[p + k].text = texts[k]
        /\ \A k \in 1..n : words[p + k].open <=> argument.quoted /\ k = 1
        /\ \A k \in 1..n : words[p + k].close <=> argument.quoted /\ k = n
    <2>1. ASSUME NEW k \in 1..n
          PROVE  /\ words[p + k].text = texts[k]
                 /\ words[p + k].open <=> argument.quoted /\ k = 1
                 /\ words[p + k].close <=> argument.quoted /\ k = n
      <3> DEFINE o == argument.quoted /\ k = 1
                 c == argument.quoted /\ k = n
      <3>1. words[p + k] = [open |-> o, close |-> c, text |-> texts[k]]
        BY <1>2
      <3> HIDE DEF o, c
      <3>2. /\ words[p + k].open = o /\ words[p + k].close = c
            /\ words[p + k].text = texts[k]
        BY <3>1
      <3> QED
        BY <3>2 DEF o, c
    <2> QED
      BY <2>1
  <1>4. p + n <= Len(words) /\ i \in 1..Len(words) /\ j \in i..Len(words)
    BY <1>1 DEF texts, n
  <1>5. 1 \in 1..n /\ n \in 1..n
    BY <1>1
  <1>6. CASE ~argument.quoted
    <2>1. n = 1 /\ ~words[i].open /\ ~words[i].close /\ words[i].text = texts[1]
      BY <1>1, <1>3, <1>5, <1>6
    <2>2. texts = <<texts[1]>>
      <3> DEFINE x == texts[1]
      <3>1. \A k \in 1..1 : k = 1
        OBVIOUS
      <3>2. Len(texts) = 1 /\ texts[1] = x
        BY <2>1 DEF n
      <3> DEFINE one == <<x>>
      <3>3. Sequence(one) /\ Len(one) = 1 /\ one[1] = x
        BY NoneAndOne
      <3> HIDE DEF one, x
      <3>4. \A k \in 1..Len(texts) : texts[k] = one[k]
        BY <3>1, <3>2, <3>3
      <3>5. texts = one
        BY <1>1, <3>2, <3>3, <3>4, SameSequence
      <3> QED
        BY <3>5 DEF one, x
    <2>3. Unquoted(words[i]) = texts
      BY <2>1, <2>2 DEF Unquoted
    <2>4. Intended(argument) = texts
      BY <1>6 DEF Intended, texts
    <2> HIDE DEF i
    <2>5. /\ ~StuckAt(words, i) /\ NextAt(words, i) = i + 1
          /\ ArgumentAt(words, i) = Intended(argument)
      BY <2>1, <2>3, <2>4 DEF StuckAt, NextAt, ArgumentAt
    <2> QED
      BY <1>4, <2>1, <2>5 DEF i, texts, n
  <1>7. CASE argument.quoted
    <2>1. words[i].open /\ words[j].close
      BY <1>3, <1>5, <1>7
    <2>2. ASSUME NEW l \in i..(j - 1)
          PROVE  ~words[l].close
      <3>1. l - p \in 1..n /\ l - p # n /\ p + (l - p) = l
        BY <1>1
      <3> DEFINE k == l - p
      <3> HIDE DEF k
      <3>2. k \in 1..n /\ k # n /\ p + k = l
        BY <3>1 DEF k
      <3> QED
        BY <1>3, <3>2
    <2>3. Closing(words, i) # {} /\ Ending(words, i) = j
      <3> HIDE DEF i, j
      <3> QED
        BY <1>4, <2>1, <2>2, EndingIs
    <2>4. Argument(words, i, j) = Intended(argument)
      <3>1. Intended(argument) = [k \in 1..n |-> Erased(texts[k])]
        BY <1>1, <1>7 DEF Intended, texts
      <3>2. (j - i) + 1 = n /\ \A k \in 1..n : i + (k - 1) = p + k
        BY <1>1
      <3>3. Argument(words, i, j)
              = [k \in 1..((j - i) + 1) |-> Erased(words[i + (k - 1)].text)]
        <4> HIDE DEF i, j
        <4> QED
          BY DEF Argument
      <3> HIDE DEF i, j
      <3>4. Argument(words, i, j) =
              [k \in 1..n |-> Erased(words[i + (k - 1)].text)]
        BY <3>2, <3>3
      <3>5. \A k \in 1..n : Erased(words[i + (k - 1)].text) = Erased(texts[k])
        BY <1>3, <3>2
      <3> QED
        BY <3>1, <3>4, <3>5
    <2> HIDE DEF i, j
    <2>5. /\ ~StuckAt(words, i) /\ NextAt(words, i) = j + 1
          /\ ArgumentAt(words, i) = Intended(argument)
      BY <2>1, <2>3, <2>4 DEF StuckAt, NextAt, ArgumentAt
    <2> QED
      BY <1>4, <2>5 DEF i, j, texts, n
  <1> QED
    BY <1>6, <1>7

\* A line of arguments typed as told is read as those arguments, whatever
\* their words are.
THEOREM ReadAsWritten ==
  ASSUME NEW arguments, Sequence(arguments),
         \A i \in 1..Len(arguments) : Told(arguments[i]),
         NEW words,
         words = FlattenSeq([i \in DOMAIN arguments |-> Written(arguments[i])])
  PROVE  /\ Sequence(words) /\ ~Unclosed(words)
         /\ Parameters(words) =
              [i \in 1..Len(arguments) |-> Intended(arguments[i])]
  <1> DEFINE n == Len(arguments)
             seqs == [i \in DOMAIN arguments |-> Written(arguments[i])]
             L == Len(words)
  <1>1. DOMAIN arguments = 1..n /\ n \in Nat
    BY DEF Sequence
  <1>2. seqs = [i \in 1..n |-> Written(arguments[i])]
    BY <1>1
  <1>3. Len(seqs) = n
    BY <1>1, <1>2
  <1>4. \A i \in 1..n : seqs[i] = Written(arguments[i])
    BY <1>2
  <1>5. words = FlattenSeq(seqs)
    OBVIOUS
  <1>6. Sequence(seqs)
    BY <1>1, <1>2, <1>3 DEF Sequence
  <1> HIDE DEF seqs, n
  <1>7. SequenceOfSequences(seqs)
    BY <1>3, <1>4, <1>6, WrittenIs DEF SequenceOfSequences, n
  <1>8. PICK f : IsFlat(f, seqs) /\ words = f[n]
    BY <1>3, <1>5, <1>7, FlattenOf
  <1>9. Sequence(words) /\ L \in Nat
    <2>1. n \in 0..n
      BY <1>1
    <2>2. Sequence(words)
      BY <1>3, <1>7, <1>8, <2>1, FlatSequences
    <2> QED
      BY <2>2 DEF Sequence
  <1>10. PICK from : /\ Parameters(words) = from[1] /\ from[L + 1] = <<>>
                     /\ \A i \in 1..L :
                          from[i] = <<ArgumentAt(words, i)>> \o
                                      from[NextAt(words, i)]
    BY <1>9, ParametersAre
  <1>11. PICK off : /\ Unclosed(words) <=> off[1]
                    /\ ~off[L + 1]
                    /\ \A i \in 1..L :
                         off[i] <=> StuckAt(words, i) \/ off[NextAt(words, i)]
    BY <1>9, UnclosedIs
  <1> DEFINE at(m) == Len(f[m]) + 1
             rest(m) == [i \in 1..(n - m) |-> Intended(arguments[m + i])]
             right(m) == from[at(m)] = rest(m) /\ ~off[at(m)]
             done == {d \in Nat : d <= n => right(n - d)}
  <1> HIDE DEF L
  <1>12. ASSUME NEW m \in Nat, m < n
         PROVE  /\ at(m) \in 1..L /\ ~StuckAt(words, at(m))
                /\ NextAt(words, at(m)) = at(m + 1)
                /\ ArgumentAt(words, at(m)) = Intended(arguments[m + 1])
    <2> DEFINE p == Len(f[m])
               argument == arguments[m + 1]
               k1 == Len(argument.texts)
    <2>1. m + 1 \in 1..n
      BY <1>1, <1>12
    <2>2. Told(argument) /\ seqs[m + 1] = Written(argument)
      BY <1>4, <2>1 DEF n
    <2> HIDE DEF argument
    <2>3. /\ p \in Nat /\ Len(f[m + 1]) = p + Len(seqs[m + 1])
          /\ Len(f[m + 1]) <= L
          /\ \A k \in 1..Len(seqs[m + 1]) : words[p + k] = seqs[m + 1][k]
      <3>1. m < Len(seqs)
        BY <1>3, <1>12
      <3>2. /\ Len(f[m]) \in Nat
            /\ Len(f[m + 1]) = Len(f[m]) + Len(seqs[m + 1])
            /\ Len(f[m + 1]) <= Len(f[Len(seqs)])
            /\ \A k \in 1..Len(seqs[m + 1]) :
                 f[Len(seqs)][Len(f[m]) + k] = seqs[m + 1][k]
        BY <1>7, <1>8, <3>1, PartOf, ZenonT(60)
      <3>3. f[Len(seqs)] = words
        BY <1>3, <1>8
      <3> HIDE DEF at, rest, done
      <3> QED
        BY <3>2, <3>3 DEF L
    <2>4. Len(seqs[m + 1]) = k1
      BY <2>2, WrittenIs
    <2> HIDE DEF p
    <2>5. /\ p + k1 <= L
          /\ \A k \in 1..k1 : words[p + k] = Written(argument)[k]
      BY <2>2, <2>3, <2>4
    <2>6. /\ p + 1 \in 1..L /\ ~StuckAt(words, p + 1)
          /\ NextAt(words, p + 1) = (p + k1) + 1
          /\ ArgumentAt(words, p + 1) = Intended(argument)
      BY <1>9, <2>2, <2>3, <2>5, ArgumentRead DEF L
    <2>7. at(m) = p + 1 /\ at(m + 1) = (p + k1) + 1
      BY <2>3, <2>4 DEF p
    <2> HIDE DEF at, k1
    <2> QED
      BY <2>6, <2>7 DEF argument
  <1>13. ASSUME NEW m \in 0..n
         PROVE  /\ Sequence(rest(m)) /\ Len(rest(m)) = n - m
                /\ \A i \in 1..(n - m) : rest(m)[i] = Intended(arguments[m + i])
    <2>1. n - m \in Nat
      BY <1>1
    <2>2. Len(rest(m)) = n - m
      BY <2>1
    <2> QED
      BY <2>1, <2>2 DEF Sequence
  <1>14. 0 \in done
    <2>1. n - 0 = n /\ at(n) = L + 1 /\ n \in 0..n /\ n - n = 0
      BY <1>1, <1>8 DEF L
    <2>2. rest(n) = <<>>
      <3> HIDE DEF rest
      <3> QED
        BY <1>13, <2>1, EmptyIs
    <2> HIDE DEF rest, at
    <2> QED
      BY <1>10, <1>11, <2>1, <2>2
  <1>15. ASSUME NEW d \in done
         PROVE  d + 1 \in done
    <2> SUFFICES ASSUME d + 1 <= n
                 PROVE  right(n - (d + 1))
      <3> HIDE DEF right
      <3> QED
        OBVIOUS
    <2> DEFINE m == n - (d + 1)
    <2>1. /\ m \in Nat /\ m < n /\ m + 1 = n - d /\ d <= n
          /\ m \in 0..n /\ m + 1 \in 0..n
          /\ n - m = (n - (m + 1)) + 1
      BY <1>1
    <2>2. right(m + 1)
      <3> HIDE DEF right, m
      <3> QED
        BY <2>1
    <2> HIDE DEF m
    <2>3. /\ at(m) \in 1..L /\ ~StuckAt(words, at(m))
          /\ NextAt(words, at(m)) = at(m + 1)
          /\ ArgumentAt(words, at(m)) = Intended(arguments[m + 1])
      <3> HIDE DEF at
      <3> QED
        BY <1>12, <2>1
    <2> HIDE DEF at
    <2>4. ~off[at(m)]
      BY <1>11, <2>2, <2>3
    <2>5. from[at(m)] = <<Intended(arguments[m + 1])>> \o rest(m + 1)
      <3> HIDE DEF rest
      <3> QED
        BY <1>10, <2>2, <2>3
    <2> DEFINE x == Intended(arguments[m + 1])
               s == rest(m + 1)
               t == <<x>> \o s
    <2>6. /\ Sequence(s) /\ Len(s) = n - (m + 1)
          /\ \A i \in 1..(n - (m + 1)) : s[i] = Intended(arguments[(m + 1) + i])
      BY <1>13, <2>1
    <2> HIDE DEF s, x
    <2>7. /\ Sequence(t) /\ Len(t) = Len(s) + 1 /\ t[1] = x
          /\ \A i \in 1..Len(s) : t[i + 1] = s[i]
      BY <2>6, OneThen
    <2> HIDE DEF t
    <2>8. ASSUME NEW i \in 1..(n - m)
          PROVE  t[i] = Intended(arguments[m + i])
      <3>1. CASE i = 1
        BY <2>7, <3>1 DEF x
      <3>2. CASE i # 1
        <4>1. /\ i - 1 \in 1..(n - (m + 1)) /\ (i - 1) + 1 = i
              /\ (m + 1) + (i - 1) = m + i
          BY <1>1, <2>1, <3>2
        <4> DEFINE j == i - 1
        <4>2. j \in 1..(n - (m + 1)) /\ j + 1 = i /\ (m + 1) + j = m + i
          BY <4>1
        <4> HIDE DEF j
        <4> QED
          BY <2>6, <2>7, <4>2
      <3> QED
        BY <3>1, <3>2
    <2>9. t = rest(m)
      <3>1. /\ Sequence(rest(m)) /\ Len(rest(m)) = n - m
            /\ \A i \in 1..(n - m) : rest(m)[i] = Intended(arguments[m + i])
        BY <1>13, <2>1
      <3> HIDE DEF rest
      <3> QED
        BY <2>1, <2>6, <2>7, <2>8, <3>1, SameSequence
    <2>10. right(m)
      <3> HIDE DEF rest
      <3> QED
        BY <2>4, <2>5, <2>9 DEF t, x, s
    <2> QED
      BY <2>10 DEF m
  <1>16. done = Nat
    <2>1. done \in SUBSET Nat
      OBVIOUS
    <2> HIDE DEF done
    <2> QED
      BY <1>14, <1>15, <2>1, NaturalInduction
  <1>17. right(0)
    <2>1. n \in done /\ n <= n /\ n - n = 0
      <3> HIDE DEF done
      <3> QED
        BY <1>1, <1>16
    <2> HIDE DEF right
    <2> QED
      BY <2>1
  <1>18. at(0) = 1
    BY <1>8, NoneAndOne DEF IsFlat
  <1>19. rest(0) = [i \in 1..n |-> Intended(arguments[i])]
    <2>1. n - 0 = n /\ \A i \in 1..n : 0 + i = i
      BY <1>1
    <2> QED
      BY <2>1
  <1> HIDE DEF rest, at
  <1> QED
    BY <1>9, <1>10, <1>11, <1>17, <1>18, <1>19 DEF n

\* So the client asks for what the user means.
THEOREM AskedAsMeant ==
  ASSUME NEW typed, Accepted(typed), AsTold(typed)
  PROVE  Asked(typed) = Meant(typed)
  <1> DEFINE c == typed.command
             arguments == typed.arguments
             params == Parameters(typed.words)
             n == Len(arguments)
             intended == [i \in 1..n |-> Intended(arguments[i])]
  <1>1. /\ Sequence(arguments) /\ n \in Nat /\ DOMAIN arguments = 1..n
        /\ \A i \in 1..n : Told(arguments[i])
        /\ typed.words = FlattenSeq([i \in DOMAIN arguments |->
                                       Written(arguments[i])])
        /\ ~TakesParameters(c) => arguments = <<>>
    BY DEF AsTold, Told, Sequence
  <1>2. Meant(typed) = <<c>> \o
          [i \in 1..n |-> IF i <= NumberCount[c]
                          THEN Numerals[Intended(arguments[i])[1]]
                          ELSE Intended(arguments[i])]
    BY <1>1 DEF Meant
  <1>3. params = intended
    <2> HIDE DEF arguments
    <2> QED
      BY <1>1, ReadAsWritten
  <1>4. CASE TakesParameters(c)
    <2>1. Asked(typed) = Call(c, params) /\ Complaints(c, params) = {}
      BY <1>4 DEF Asked, Accepted
    <2>2. Len(params) = ParameterCount[c]
      BY <2>1 DEF Complaints
    <2>3. ParameterCount[c] = n
      BY <1>1, <1>3, <2>2
    <2>4. \A i \in 1..n : params[i] = Intended(arguments[i])
      BY <1>3
    <2> HIDE DEF params, intended, n, arguments
    <2>5. Call(c, params) = <<c>> \o
            [i \in 1..n |-> IF i <= NumberCount[c] THEN Numerals[params[i][1]]
                            ELSE params[i]]
      BY <2>3 DEF Call
    <2> HIDE DEF c
    <2>6. [i \in 1..n |-> IF i <= NumberCount[c] THEN Numerals[params[i][1]]
                          ELSE params[i]]
            = [i \in 1..n |-> IF i <= NumberCount[c]
                              THEN Numerals[Intended(arguments[i])[1]]
                              ELSE Intended(arguments[i])]
      BY <2>4
    <2> QED
      BY <1>2, <2>1, <2>5, <2>6
  <1>5. CASE ~TakesParameters(c)
    <2>1. Asked(typed) = <<c>>
      BY <1>5 DEF Asked
    <2>2. n = 0
      BY <1>1, <1>5, NoneAndOne
    <2> DEFINE none == [i \in 1..n |-> IF i <= NumberCount[c]
                          THEN Numerals[Intended(arguments[i])[1]]
                          ELSE Intended(arguments[i])]
    <2>3. Sequence(none) /\ Len(none) = 0
      <3>1. Len(none) = n
        BY <1>1
      <3> QED
        BY <1>1, <2>2, <3>1 DEF Sequence
    <2>4. Meant(typed) = <<c>> \o none
      BY <1>2
    <2> HIDE DEF none
    <2>5. none = <<>> /\ Sequence(<<c>>)
      BY <2>3, EmptyIs, NoneAndOne
    <2>6. <<c>> \o <<>> = <<c>>
      BY <2>5, ConcatNone
    <2> QED
      BY <2>1, <2>4, <2>5, <2>6
  <1> QED
    BY <1>4, <1>5

\* What is typed as told is what the store is asked to do, and with the
\* arguments that are meant, through the client, the wire and the server.
THEOREM CommandsTypedAsTold ==
  ASSUME \A typed \in Lines : Accepted(typed) => AsTold(typed)
  PROVE  Spec => []CarriedOutAsTyped
  <1>1. \A typed \in Lines : Accepted(typed) => Asked(typed) = Meant(typed)
    BY AskedAsMeant
  <1> QED
    BY <1>1, CommandsArrive

-------------------------------------------------------------------------------
(* What is on the screen.                                                    *)

\* Whatever is kept in the store, and comes back from it, was read from a line.
IsNamed(article) ==
  IsName(article.title) /\ IsName(article.author) /\ IsName(article.text)

\* That holds of all titles, authors and texts in the store, and of an answer.
StoredNames ==
  \A g \in DOMAIN groups :
    /\ IsName(groups[g].name)
    /\ \A a \in DOMAIN groups[g].articles : IsNamed(groups[g].articles[a])

NamesAnswered(a) ==
  a.code = ANS_ACK =>
    /\ IsListCommand(a.call[1]) =>
         \A i \in 1..Len(Listed(a)) : IsName(Listed(a)[i][2])
    /\ a.call[1] = "getNewsArticle" =>
         IsName(a.result[1]) /\ IsName(a.result[2]) /\ IsName(a.result[3])

\* There is something on the screen only once the exchange is over: what could
\* be drawn of what the store answered to the line typed last, and whether that
\* is all is known from what the user was told.
ScreenInv ==
  told.verdict = "shown" \/ screen # <<>> =>
    /\ pc \in {"prompt", "quit", "crashed"}
    /\ performed # Db!NoCall /\ performed.code = ANS_ACK
    /\ \/ /\ IsListCommand(Command)
          /\ taken = Listed(performed)
          /\ screen = ListRows(taken)
          /\ IF ListFits(taken) THEN told.verdict = "shown" ELSE told = Fails
       \/ /\ Command = "getNewsArticle"
          /\ taken = performed.result
          /\ screen = ArticleRows(taken[1], taken[2], taken[3])
          /\ IF ArticleFits(taken[1], taken[2]) THEN told.verdict = "shown"
             ELSE told = Fails \/ pc = "crashed"

NamesInv == StoredNames /\ (performed # Db!NoCall => NamesAnswered(performed))

\* What a call brings into the store was read from a line.
NamedCall(call) ==
  /\ call[1] = "createNewsGroup" => IsName(call[2])
  /\ call[1] = "createArticle" =>
       IsName(call[3]) /\ IsName(call[4]) /\ IsName(call[5])

\* So is what the client asks for.
LEMMA AskedNames ==
  ASSUME NEW typed \in Lines, Accepted(typed)
  PROVE  NamedCall(Asked(typed))
  <1> DEFINE c == typed.command
             words == typed.words
             params == Parameters(words)
             call == Asked(typed)
  <1>1. KnownWords(words)
    <2>1. /\ Sequence(words)
          /\ \A i \in DOMAIN words :
               TextsOf(words[i]) \subseteq DOMAIN WordLength
      BY LinesAssumption
    <2>2. DOMAIN words = 1..Len(words)
      BY <2>1 DEF Sequence
    <2> QED
      BY <2>1, <2>2 DEF KnownWords
  <1> HIDE DEF words
  <1>2. \A k \in 1..Len(params) : IsName(params[k])
    BY <1>1, ParametersAreNames
  <1>3. call[1] = c
    BY AskedIsCall DEF IsCall
  <1>4. CASE c \notin {"createNewsGroup", "createArticle"}
    <2> HIDE DEF c, call
    <2> QED
      BY <1>3, <1>4 DEF NamedCall, call
  <1>5. CASE c \in {"createNewsGroup", "createArticle"}
    <2> DEFINE k == ParameterCount[c]
               n == NumberCount[c]
               arguments == [i \in 1..k |->
                               IF i <= n THEN Numerals[params[i][1]]
                               ELSE params[i]]
    <2>1. /\ TakesParameters(c)
          /\ c = "createNewsGroup" => k = 1 /\ n = 0
          /\ c = "createArticle" => k = 4 /\ n = 1
      BY <1>5 DEF TakesParameters, ParameterCount, NumberCount
    <2>2. call = <<c>> \o arguments /\ Complaints(c, params) = {}
      BY <2>1 DEF Asked, Call, Accepted, words
    <2>3. Len(params) = k
      BY <2>2 DEF Complaints
    <2> HIDE DEF call, params
    <2>4. /\ Sequence(arguments) /\ Len(arguments) = k
          /\ \A i \in 1..k : ~(i <= n) => arguments[i] = params[i]
      BY <1>5, <2>1 DEF Sequence
    <2> HIDE DEF arguments
    <2>5. \A i \in 1..k : call[i + 1] = arguments[i]
      BY <2>2, <2>4, OneThen
    <2>6. ASSUME NEW i \in 1..k, ~(i <= n)
          PROVE  IsName(call[i + 1])
      BY <1>2, <2>3, <2>4, <2>5, <2>6
    <2> HIDE DEF k, n
    <2>7. CASE c = "createNewsGroup"
      <3>1. 1 \in 1..k /\ ~(1 <= n) /\ 1 + 1 = 2
        BY <2>1, <2>7
      <3>2. IsName(call[2])
        BY <2>6, <3>1
      <3> HIDE DEF c
      <3> QED
        BY <1>3, <2>7, <3>2 DEF NamedCall, call
    <2>8. CASE c = "createArticle"
      <3>1. /\ 2 \in 1..k /\ 3 \in 1..k /\ 4 \in 1..k
            /\ ~(2 <= n) /\ ~(3 <= n) /\ ~(4 <= n)
            /\ 2 + 1 = 3 /\ 3 + 1 = 4 /\ 4 + 1 = 5
        BY <2>1, <2>8
      <3>2. IsName(call[3]) /\ IsName(call[4]) /\ IsName(call[5])
        BY <2>6, <3>1
      <3> HIDE DEF c
      <3> QED
        BY <1>3, <2>8, <3>2 DEF NamedCall, call
    <2> QED
      BY <1>5, <2>7, <2>8
  <1> QED
    BY <1>4, <1>5

\* A map is listed with its values.
LEMMA MapNamed ==
  ASSUME NEW m, DOMAIN m \subseteq Ids, \A k \in DOMAIN m : IsName(m[k])
  PROVE  \A i \in 1..Len(InOrder(m)) : IsName(InOrder(m)[i][2])
  <1>1. /\ IsFiniteSet(Ids) /\ Ids \subseteq Int
    <2>1. IsFiniteSet(Ids) /\ Ids \subseteq Int32
      BY SMT, NumbersAssumption
    <2>2. \A k \in Int32 : k \in Int
      BY SMT DEF Int32
    <2> QED
      BY <2>1, <2>2
  <1>2. DOMAIN m \in SUBSET Int /\ IsFiniteSet(DOMAIN m)
    BY <1>1, FS_Subset
  <1>3. /\ DOMAIN InOrder(m) = 1..Len(InOrder(m))
        /\ \A i \in DOMAIN InOrder(m) :
             /\ InOrder(m)[i][1] \in DOMAIN m
             /\ InOrder(m)[i] = <<InOrder(m)[i][1], m[InOrder(m)[i][1]]>>
    BY <1>2, IterationByKey
  <1> TAKE i \in 1..Len(InOrder(m))
  <1> DEFINE pair == InOrder(m)[i]
             k == pair[1]
             v == m[k]
  <1>4. k \in DOMAIN m /\ pair = <<k, v>>
    BY <1>3
  <1>5. IsName(v)
    BY <1>4
  <1> HIDE DEF pair, k, v
  <1>6. pair[2] = v
    BY <1>4
  <1> QED
    BY <1>5, <1>6 DEF pair

\* A call that fails, and one that returns a code only.
LEMMA RefusalNames ==
  ASSUME StoredNames, NEW call, NEW code, Db!Fails(call, code), code # ANS_ACK
  PROVE  StoredNames' /\ NamesAnswered(answer')
  <1>1. answer' = [call |-> call, code |-> code, result |-> <<>>]
    BY DEF Db!Fails, Db!Answer
  <1>2. answer'.code = code /\ groups' = groups
    BY <1>1 DEF Db!Fails
  <1> QED
    BY <1>2 DEF StoredNames, NamesAnswered

LEMMA DoneNames ==
  ASSUME NEW call, NEW result, answer' = Db!Answer(call, ANS_ACK, result),
         ~IsListCommand(call[1]), call[1] # "getNewsArticle"
  PROVE  NamesAnswered(answer')
  <1>1. answer'.call = call
    BY DEF Db!Answer
  <1> QED
    BY <1>1 DEF NamesAnswered

LEMMA ListNewsGroupsNames ==
  ASSUME NumbersInv, StoredNames, Db!ListNewsGroups
  PROVE  StoredNames' /\ NamesAnswered(answer')
  <1> DEFINE names == [g \in DOMAIN groups |-> groups[g].name]
  <1>1. /\ answer' = Db!Answer(<<"listNewsGroups">>, Db!ANS_ACK,
                               Db!InOrder(names))
        /\ groups' = groups
    BY DEF Db!ListNewsGroups
  <1>2. DOMAIN names \subseteq Ids /\ \A g \in DOMAIN names : IsName(names[g])
    BY DEF NumbersInv, StoredNames
  <1> HIDE DEF names
  <1>3. \A i \in 1..Len(InOrder(names)) : IsName(InOrder(names)[i][2])
    BY <1>2, MapNamed
  <1>4. answer'.call = <<"listNewsGroups">> /\ answer'.result = InOrder(names)
    BY <1>1, SameOrder DEF Db!Answer
  <1>5. answer'.call[1] = "listNewsGroups"
    BY <1>4
  <1>6. NamesAnswered(answer')
    BY <1>3, <1>4, <1>5 DEF NamesAnswered, Listed
  <1> QED
    BY <1>1, <1>6 DEF StoredNames

LEMMA CreateNewsGroupNames ==
  ASSUME NEW title, StoredNames, IsName(title), Db!CreateNewsGroup(title)
  PROVE  StoredNames' /\ NamesAnswered(answer')
  <1> DEFINE call == <<"createNewsGroup", title>>
  <1>1. call[1] = "createNewsGroup" /\ ~IsListCommand(call[1])
    BY DEF IsListCommand
  <1>2. CASE Db!Fails(call, Db!ERR_NG_ALREADY_EXISTS)
    <2> HIDE DEF call
    <2> QED
      BY <1>2, SameCodes, FailuresApart, RefusalNames
  <1>3. ASSUME NEW id \in Ids \ DOMAIN groups,
               groups' = Db!Put(groups, id, [name |-> title,
                                             articles |-> Db!EmptyMap]),
               answer' = Db!Answer(call, Db!ANS_ACK, <<>>)
        PROVE  StoredNames' /\ NamesAnswered(answer')
    <2>1. NamesAnswered(answer')
      <3> HIDE DEF call
      <3> QED
        BY <1>1, <1>3, SameCodes, DoneNames
    <2>2. /\ DOMAIN groups' = DOMAIN groups \cup {id}
          /\ groups'[id] = [name |-> title, articles |-> <<>>]
          /\ \A g \in DOMAIN groups : groups'[g] = groups[g]
      BY <1>3 DEF Db!Put, Db!EmptyMap
    <2>3. groups'[id].name = title /\ groups'[id].articles = <<>>
      BY <2>2
    <2>4. DOMAIN <<>> = {}
      OBVIOUS
    <2>5. StoredNames'
      <3>1. \A a \in DOMAIN groups'[id].articles : FALSE
        BY <2>3, <2>4
      <3> QED
        BY <2>2, <2>3, <3>1 DEF StoredNames
    <2> QED
      BY <2>1, <2>5
  <1> QED
    BY <1>2, <1>3 DEF Db!CreateNewsGroup

LEMMA DeleteNewsGroupNames ==
  ASSUME NEW g, StoredNames, Db!DeleteNewsGroup(g)
  PROVE  StoredNames' /\ NamesAnswered(answer')
  <1> DEFINE call == <<"deleteNewsGroup", g>>
  <1>1. call[1] = "deleteNewsGroup" /\ ~IsListCommand(call[1])
    BY DEF IsListCommand
  <1>2. CASE Db!Fails(call, Db!ERR_NG_DOES_NOT_EXIST)
    <2> HIDE DEF call
    <2> QED
      BY <1>2, SameCodes, FailuresApart, RefusalNames
  <1>3. CASE /\ groups' = Db!Erase(groups, g)
             /\ answer' = Db!Answer(call, Db!ANS_ACK, <<>>)
    <2>1. NamesAnswered(answer')
      <3> HIDE DEF call
      <3> QED
        BY <1>1, <1>3, SameCodes, DoneNames
    <2>2. /\ DOMAIN groups' = DOMAIN groups \ {g}
          /\ \A h \in DOMAIN groups \ {g} : groups'[h] = groups[h]
      BY <1>3 DEF Db!Erase, Db!Restrict
    <2>3. StoredNames'
      BY <2>2 DEF StoredNames
    <2> QED
      BY <2>1, <2>3
  <1> QED
    BY <1>2, <1>3 DEF Db!DeleteNewsGroup

LEMMA ListArticlesNames ==
  ASSUME NEW g, NumbersInv, StoredNames, Db!ListArticles(g)
  PROVE  StoredNames' /\ NamesAnswered(answer')
  <1> DEFINE call == <<"listArticles", g>>
             titles == [a \in DOMAIN groups[g].articles |->
                          groups[g].articles[a].title]
  <1>1. call[1] = "listArticles"
    OBVIOUS
  <1>2. CASE Db!Fails(call, Db!ERR_NG_DOES_NOT_EXIST)
    <2> HIDE DEF call
    <2> QED
      BY <1>2, SameCodes, FailuresApart, RefusalNames
  <1>3. CASE /\ g \in DOMAIN groups /\ groups' = groups
             /\ answer' = Db!Answer(call, Db!ANS_ACK, titles)
    <2>1. /\ DOMAIN titles \subseteq Ids
          /\ \A a \in DOMAIN titles : IsName(titles[a])
      BY <1>3 DEF NumbersInv, StoredNames, IsNamed
    <2> HIDE DEF titles, call
    <2>2. \A i \in 1..Len(InOrder(titles)) : IsName(InOrder(titles)[i][2])
      BY <2>1, MapNamed
    <2>3. answer'.call = call /\ answer'.result = titles
      BY <1>3 DEF Db!Answer
    <2>4. NamesAnswered(answer')
      BY <1>1, <2>2, <2>3 DEF NamesAnswered, Listed
    <2> QED
      BY <1>3, <2>4 DEF StoredNames
  <1> QED
    BY <1>2, <1>3 DEF Db!ListArticles

LEMMA GetNewsArticleNames ==
  ASSUME NEW g, NEW a, StoredNames, Db!GetNewsArticle(g, a)
  PROVE  StoredNames' /\ NamesAnswered(answer')
  <1> DEFINE call == <<"getNewsArticle", g, a>>
             art == groups[g].articles[a]
             article == <<art.title, art.author, art.text>>
  <1>1. call[1] = "getNewsArticle" /\ ~IsListCommand(call[1])
    BY DEF IsListCommand
  <1>2. \/ Db!Fails(call, Db!ERR_NG_DOES_NOT_EXIST)
        \/ Db!Fails(call, Db!ERR_ART_DOES_NOT_EXIST)
        \/ /\ g \in DOMAIN groups /\ a \in DOMAIN groups[g].articles
           /\ groups' = groups /\ answer' = Db!Answer(call, Db!ANS_ACK, article)
    BY DEF Db!GetNewsArticle
  <1> HIDE DEF call
  <1>3. CASE \/ Db!Fails(call, Db!ERR_NG_DOES_NOT_EXIST)
             \/ Db!Fails(call, Db!ERR_ART_DOES_NOT_EXIST)
    BY <1>3, SameCodes, FailuresApart, RefusalNames
  <1>4. CASE /\ g \in DOMAIN groups /\ a \in DOMAIN groups[g].articles
             /\ groups' = groups
             /\ answer' = Db!Answer(call, Db!ANS_ACK, article)
    <2>1. IsNamed(art)
      BY <1>4 DEF StoredNames
    <2> HIDE DEF art
    <2>2. IsName(article[1]) /\ IsName(article[2]) /\ IsName(article[3])
      BY <2>1 DEF IsNamed
    <2> HIDE DEF article
    <2>3. answer'.call = call /\ answer'.result = article
      BY <1>4 DEF Db!Answer
    <2>4. NamesAnswered(answer')
      BY <1>1, <2>2, <2>3 DEF NamesAnswered
    <2> QED
      BY <1>4, <2>4 DEF StoredNames
  <1> QED
    BY <1>2, <1>3, <1>4

LEMMA CreateArticleNames ==
  ASSUME NEW g, NEW title, NEW author, NEW text, NumbersInv, StoredNames,
         IsName(title), IsName(author), IsName(text),
         Db!CreateArticle(g, title, author, text)
  PROVE  StoredNames' /\ NamesAnswered(answer')
  <1> DEFINE call == <<"createArticle", g, title, author, text>>
             art == [title |-> title, author |-> author, text |-> text]
  <1>1. call[1] = "createArticle" /\ ~IsListCommand(call[1])
    BY DEF IsListCommand
  <1>2. CASE Db!Fails(call, Db!ERR_NG_DOES_NOT_EXIST)
    <2> HIDE DEF call
    <2> QED
      BY <1>2, SameCodes, FailuresApart, RefusalNames
  <1>3. ASSUME g \in DOMAIN groups, NEW id \in Ids,
               groups' = [groups EXCEPT ![g].articles = Db!Put(@, id, art)],
               answer' = Db!Answer(call, Db!ANS_ACK, <<>>)
        PROVE  StoredNames' /\ NamesAnswered(answer')
    <2>1. NamesAnswered(answer')
      <3> HIDE DEF call
      <3> QED
        BY <1>1, <1>3, SameCodes, DoneNames
    <2>2. IsNamed(art)
      BY DEF IsNamed
    <2> HIDE DEF art
    <2> DEFINE group == groups[g]
               old == group.articles
               files == Db!Put(old, id, art)
    <2>3. DOMAIN groups' = DOMAIN groups
      BY <1>3
    <2>4. \A h \in DOMAIN groups \ {g} : groups'[h] = groups[h]
      BY <1>3
    <2>5. groups'[g].articles = files /\ groups'[g].name = group.name
      <3>1. groups'[g] = [group EXCEPT !.articles = files]
        BY <1>3
      <3>2. group = [name |-> group.name, articles |-> old]
        BY <1>3 DEF NumbersInv
      <3> DEFINE name == group.name
      <3> HIDE DEF files, old, name
      <3>3. groups'[g] = [name |-> name, articles |-> files]
        <4> HIDE DEF group
        <4> QED
          BY <3>1, <3>2 DEF name
      <3>4. groups'[g].articles = files /\ groups'[g].name = name
        BY <3>3
      <3> QED
        BY <3>4 DEF name
    <2>6. \A a \in DOMAIN files : IsNamed(files[a])
      <3>1. \A a \in DOMAIN old : IsNamed(old[a])
        BY <1>3 DEF StoredNames
      <3> HIDE DEF old
      <3> QED
        BY <2>2, <3>1 DEF Db!Put
    <2> HIDE DEF files
    <2>7. \A a \in DOMAIN groups'[g].articles : IsNamed(groups'[g].articles[a])
      BY <2>5, <2>6
    <2>8. StoredNames'
      BY <1>3, <2>3, <2>4, <2>5, <2>7 DEF StoredNames
    <2> QED
      BY <2>1, <2>8
  <1> QED
    BY <1>2, <1>3 DEF Db!CreateArticle

LEMMA DeleteArticleNames ==
  ASSUME NEW g, NEW a, NumbersInv, StoredNames, Db!DeleteArticle(g, a)
  PROVE  StoredNames' /\ NamesAnswered(answer')
  <1> DEFINE call == <<"deleteArticle", g, a>>
  <1>1. call[1] = "deleteArticle" /\ ~IsListCommand(call[1])
    BY DEF IsListCommand
  <1>2. \/ Db!Fails(call, Db!ERR_NG_DOES_NOT_EXIST)
        \/ Db!Fails(call, Db!ERR_ART_DOES_NOT_EXIST)
        \/ /\ g \in DOMAIN groups
           /\ groups' = [groups EXCEPT ![g].articles = Db!Erase(@, a)]
           /\ answer' = Db!Answer(call, Db!ANS_ACK, <<>>)
    BY DEF Db!DeleteArticle
  <1> HIDE DEF call
  <1>3. CASE \/ Db!Fails(call, Db!ERR_NG_DOES_NOT_EXIST)
             \/ Db!Fails(call, Db!ERR_ART_DOES_NOT_EXIST)
    BY <1>3, SameCodes, FailuresApart, RefusalNames
  <1>4. CASE /\ g \in DOMAIN groups
             /\ groups' = [groups EXCEPT ![g].articles = Db!Erase(@, a)]
             /\ answer' = Db!Answer(call, Db!ANS_ACK, <<>>)
    <2>1. NamesAnswered(answer')
      BY <1>1, <1>4, SameCodes, DoneNames
    <2> DEFINE group == groups[g]
               old == group.articles
               files == Db!Erase(old, a)
    <2>2. DOMAIN groups' = DOMAIN groups
      BY <1>4
    <2>3. \A h \in DOMAIN groups \ {g} : groups'[h] = groups[h]
      BY <1>4
    <2>4. groups'[g].articles = files /\ groups'[g].name = group.name
      <3>1. groups'[g] = [group EXCEPT !.articles = files]
        BY <1>4
      <3>2. group = [name |-> group.name, articles |-> old]
        BY <1>4 DEF NumbersInv
      <3> DEFINE name == group.name
      <3> HIDE DEF files, old, name
      <3>3. groups'[g] = [name |-> name, articles |-> files]
        <4> HIDE DEF group
        <4> QED
          BY <3>1, <3>2 DEF name
      <3>4. groups'[g].articles = files /\ groups'[g].name = name
        BY <3>3
      <3> QED
        BY <3>4 DEF name
    <2>5. \A b \in DOMAIN files : IsNamed(files[b])
      <3>1. \A b \in DOMAIN old : IsNamed(old[b])
        BY <1>4 DEF StoredNames
      <3> HIDE DEF old
      <3>2. /\ DOMAIN files = DOMAIN old \ {a}
            /\ \A b \in DOMAIN old \ {a} : files[b] = old[b]
        BY DEF Db!Erase, Db!Restrict
      <3> QED
        BY <3>1, <3>2
    <2> HIDE DEF files
    <2>6. \A b \in DOMAIN groups'[g].articles : IsNamed(groups'[g].articles[b])
      BY <2>4, <2>5
    <2>7. StoredNames'
      BY <1>4, <2>2, <2>3, <2>4, <2>6 DEF StoredNames
    <2> QED
      BY <2>1, <2>7
  <1> QED
    BY <1>2, <1>3, <1>4

\* Whatever the store is asked to do, it keeps and answers names.
LEMMA PerformNames ==
  ASSUME NumbersInv, StoredNames, NEW c \in DOMAIN Parameter, NEW call,
         Sequence(call), call[1] = c, Len(call) = Len(Parameter[c]) + 1,
         NamedCall(call), Db!Perform(call) \/ Unopened(call)
  PROVE  StoredNames' /\ NamesAnswered(answer')
  <1>1. CASE Unopened(call)
    BY <1>1, FailuresApart, RefusalNames DEF Unopened
  <1>2. CASE Db!Perform(call)
    <2>1. CASE c = "listNewsGroups"
      <3>1. Db!ListNewsGroups
        BY <1>2, <2>1 DEF Db!Perform
      <3> QED
        BY <3>1, ListNewsGroupsNames
    <2>2. CASE c = "createNewsGroup"
      <3>1. Db!CreateNewsGroup(call[2]) /\ IsName(call[2])
        BY <1>2, <2>2 DEF Db!Perform, NamedCall
      <3> QED
        BY <3>1, CreateNewsGroupNames
    <2>3. CASE c = "deleteNewsGroup"
      <3>1. Db!DeleteNewsGroup(call[2])
        BY <1>2, <2>3 DEF Db!Perform
      <3> QED
        BY <3>1, DeleteNewsGroupNames
    <2>4. CASE c = "listArticles"
      <3>1. Db!ListArticles(call[2])
        BY <1>2, <2>4 DEF Db!Perform
      <3> QED
        BY <3>1, ListArticlesNames
    <2>5. CASE c = "createArticle"
      <3>1. /\ Db!CreateArticle(call[2], call[3], call[4], call[5])
            /\ IsName(call[3]) /\ IsName(call[4]) /\ IsName(call[5])
        BY <1>2, <2>5 DEF Db!Perform, NamedCall
      <3> QED
        BY <3>1, CreateArticleNames
    <2>6. CASE c = "deleteArticle"
      <3>1. Db!DeleteArticle(call[2], call[3])
        BY <1>2, <2>6 DEF Db!Perform
      <3> QED
        BY <3>1, DeleteArticleNames
    <2>7. CASE c = "getNewsArticle"
      <3>1. Db!GetNewsArticle(call[2], call[3])
        BY <1>2, <2>7 DEF Db!Perform
      <3> QED
        BY <3>1, GetNewsArticleNames
    <2> QED
      BY <2>1, <2>2, <2>3, <2>4, <2>5, <2>6, <2>7, CommandsAre
  <1> QED
    BY <1>1, <1>2

\* What the proof that no cut goes unnoticed needs beside IInv: what is drawn is
\* what was answered, and that is made of names a line can hold.
DrawInv == LineInv /\ NamesInv /\ ScreenInv

LEMMA InitDraw == Init => DrawInv
  <1> SUFFICES ASSUME Init
               PROVE  DrawInv
    OBVIOUS
  <1>1. /\ line = NoLine /\ screen = <<>> /\ told = Nothing
        /\ groups = <<>> /\ answer = Db!NoCall /\ performed = answer
    BY DEF Init, Db!Init, Db!EmptyMap
  <1>2. DOMAIN <<>> = {}
    OBVIOUS
  <1>3. StoredNames
    BY <1>1, <1>2 DEF StoredNames
  <1> QED
    BY <1>1, <1>3, NothingTold DEF DrawInv, LineInv, NamesInv, ScreenInv

\* A step that leaves the store alone, and neither draws nor goes on from what
\* is drawn.
LEMMA QuietKeeps ==
  ASSUME DrawInv, groups' = groups, performed' = performed, line' = line,
         \/ screen' = <<>> /\ told'.verdict # "shown"
         \/ /\ pc' = pc \/ (pc = "prompt" /\ pc' = "quit")
            /\ screen' = screen /\ told' = told /\ taken' = taken
  PROVE  DrawInv'
  <1>1. LineInv' /\ NamesInv'
    <2>1. StoredNames'
      BY DEF DrawInv, NamesInv, StoredNames
    <2> QED
      BY <2>1 DEF DrawInv, LineInv, NamesInv
  <1>2. ScreenInv'
    <2>1. CASE screen' = <<>> /\ told'.verdict # "shown"
      BY <2>1 DEF ScreenInv
    <2>2. CASE /\ pc' = pc \/ (pc = "prompt" /\ pc' = "quit")
               /\ screen' = screen /\ told' = told /\ taken' = taken
      <3>1. ScreenInv /\ Command' = Command
        BY DEF DrawInv, Command
      <3>2. pc = "crashed" => pc' = "crashed"
        BY <2>2
      <3> QED
        BY <2>2, <3>1, <3>2 DEF ScreenInv
    <2> QED
      BY <2>1, <2>2
  <1> QED
    BY <1>1, <1>2 DEF DrawInv

\* The next line clears what was shown of the last.
LEMMA TypeDraws ==
  ASSUME IInv, DrawInv, NEW typed \in Lines, Type(typed)
  PROVE  DrawInv'
  <1>1. /\ line' = typed /\ performed' = Db!NoCall /\ screen' = <<>>
        /\ groups' = groups
    BY DEF Type
  <1>2. StoredNames'
    BY <1>1 DEF DrawInv, NamesInv, StoredNames
  <1>3. told'.verdict # "shown"
    BY <1>1, TypeKeeps DEF IInv, ToldTheTruth
  <1> QED
    BY <1>1, <1>2, <1>3 DEF DrawInv, LineInv, NamesInv, ScreenInv

\* Nothing is on the screen while an exchange goes on.
LEMMA NothingDrawn ==
  ASSUME DrawInv, pc \notin {"prompt", "quit", "crashed"}
  PROVE  screen = <<>> /\ told.verdict # "shown"
  BY DEF DrawInv, ScreenInv

\* The store's answer holds names.
LEMMA CarryDraws ==
  ASSUME IInv, DrawInv, Carry
  PROVE  DrawInv'
  <1>1. /\ server = "up" /\ Complete /\ toServer # <<>>
        /\ Db!Perform(Decoded) \/ Unopened(Decoded)
        /\ performed' = answer' /\ line' = line /\ screen' = screen
        /\ told' = told
    BY DEF Carry, clientVars
  <1>2. /\ pc = "answer" /\ Accepted(line)
        /\ IsCall(Asked(line), Command) /\ Decoded = Asked(line)
    BY <1>1, CarriedIsAsked
  <1>3. line \in Lines
    <2>1. ~Accepted(NoLine)
      BY CommandsAre DEF Accepted, IsCommand, NoLine
    <2> QED
      BY <1>2, <2>1 DEF DrawInv, LineInv
  <1> DEFINE call == Asked(line)
  <1>4. NamedCall(call)
    BY <1>2, <1>3, AskedNames
  <1>5. Db!Perform(call) \/ Unopened(call)
    BY <1>1, <1>2
  <1>6. /\ Command \in DOMAIN Parameter /\ Sequence(call) /\ call[1] = Command
        /\ Len(call) = Len(Parameter[Command]) + 1
    BY <1>2 DEF IsCall
  <1> HIDE DEF call
  <1>7. StoredNames' /\ NamesAnswered(answer')
    BY <1>4, <1>5, <1>6, PerformNames DEF IInv, DrawInv, NamesInv
  <1>8. NamesInv'
    BY <1>1, <1>7 DEF NamesInv
  <1>9. screen' = <<>> /\ told'.verdict # "shown"
    BY <1>1, <1>2, NothingDrawn
  <1> QED
    BY <1>1, <1>8, <1>9 DEF DrawInv, LineInv, ScreenInv

LEMMA FailsShowNothing == Fails.verdict # "shown"
  BY DEF Fails, Verdict

\* The client reads a token other than the last.
LEMMA ReadDraws ==
  ASSUME DrawInv, ReadNext, ~ReadEnd
  PROVE  DrawInv'
  <1>1. /\ pc \in Places /\ screen' = screen
        /\ line' = line /\ groups' = groups /\ performed' = performed
    BY DEF ReadNext, ReadAnswerCode, ReadResponse, ReadErrorCode, Flush,
           ReadCount, ReadId, ReadName, ReadField, Reads, storeVars, Places
  <1>2. screen = <<>> /\ told.verdict # "shown"
    BY <1>1, NothingDrawn DEF Places
  <1>3. \/ told' = told \/ told' = Fails
        \/ told'.verdict \in {"done", "refused"}
    BY DEF ReadNext, ReadAnswerCode, ReadResponse, AckTold, ReadErrorCode,
           Flush, ReadCount, ReadId, ReadName, ReadField, Verdict
  <1>4. told'.verdict # "shown"
    BY <1>2, <1>3, FailsShowNothing
  <1> QED
    BY <1>1, <1>2, <1>4, QuietKeeps

\* It reads the last token, and draws.
LEMMA ReadEndDraws ==
  ASSUME IInv, DrawInv, ReadEnd
  PROVE  DrawInv'
  <1>1. /\ Reads("end", "code") /\ pc = "end" /\ taken' = taken
        /\ line' = line /\ groups' = groups /\ performed' = performed
    BY DEF ReadEnd, Reads, storeVars
  <1>2. screen = <<>> /\ told.verdict # "shown"
    BY <1>1, NothingDrawn
  <1>3. CASE screen' = screen /\ (told' = told \/ told' = Fails)
    <2>1. told'.verdict # "shown"
      BY <1>2, <1>3, FailsShowNothing
    <2> QED
      BY <1>1, <1>2, <1>3, <2>1, QuietKeeps
  <1>4. CASE /\ Draws /\ screen' = Rows
             /\ \/ /\ Fits /\ pc' = "prompt"
                   /\ told' = Verdict("shown", ANS_ACK, Found)
                \/ ~Fits /\ pc' = "prompt" /\ told' = Fails
                \/ ~Fits /\ pc' = "crashed" /\ Command = "getNewsArticle"
    <2>1. /\ performed # Db!NoCall
          /\ performed.code = ANS_ACK
          /\ IsListCommand(Command) \/ Command = "getNewsArticle"
          /\ Found = taken
          /\ IsListCommand(Command) => taken = Listed(performed)
          /\ Command = "getNewsArticle" => taken = performed.result
      BY <1>1, <1>4, EndDraws
    <2>2. /\ IsListCommand(Command) => screen' = ListRows(taken)
          /\ Command = "getNewsArticle" =>
               screen' = ArticleRows(taken[1], taken[2], taken[3])
      BY <1>4, <2>1 DEF Rows, IsListCommand
    <2>3. Command' = Command
      BY <1>1 DEF Command
    <2>3a. /\ IsListCommand(Command) => (Fits <=> ListFits(taken))
           /\ Command = "getNewsArticle" =>
                (Fits <=> ArticleFits(taken[1], taken[2]))
      BY <2>1 DEF Fits, IsListCommand
    <2>3b. /\ Fits => told'.verdict = "shown"
           /\ ~Fits => told' = Fails
                       \/ (pc' = "crashed" /\ Command = "getNewsArticle")
           /\ pc' \in {"prompt", "quit", "crashed"}
      BY <1>4 DEF Verdict
    <2>3c. IsListCommand(Command) => Command # "getNewsArticle"
      BY DEF IsListCommand
    <2>4. ScreenInv'
      BY <1>1, <2>1, <2>2, <2>3, <2>3a, <2>3b, <2>3c DEF ScreenInv
    <2>5. StoredNames'
      BY <1>1 DEF DrawInv, NamesInv, StoredNames
    <2> QED
      BY <1>1, <2>4, <2>5 DEF DrawInv, LineInv, NamesInv
  <1> QED
    BY <1>3, <1>4 DEF ReadEnd

LEMMA DrawKeeps == IInv /\ DrawInv /\ [Next]_vars => DrawInv'
  <1> SUFFICES ASSUME IInv, DrawInv, [Next]_vars
               PROVE  DrawInv'
    OBVIOUS
  <1>1. CASE \E typed \in Lines : Type(typed)
    BY <1>1, TypeDraws
  <1>2. CASE Quit
    BY <1>2, QuietKeeps DEF Quit, storeVars
  <1>3. CASE Write \/ NoReply \/ RunsOut
    <2>1. /\ pc \notin {"prompt", "quit", "crashed"}
          /\ screen' = screen /\ told' = told
          /\ line' = line /\ groups' = groups /\ performed' = performed
      BY <1>3 DEF Write, NoReply, RunsOut, storeVars
    <2> QED
      BY <2>1, NothingDrawn, QuietKeeps
  <1>4. CASE ReadNext
    BY <1>4, ReadDraws, ReadEndDraws
  <1>5. CASE Carry
    BY <1>5, CarryDraws
  <1>6. CASE ReadRequest \/ WriteReply \/ Kill
    <2>1. /\ pc' = pc /\ taken' = taken /\ screen' = screen /\ told' = told
          /\ line' = line /\ groups' = groups /\ performed' = performed
      BY <1>6 DEF ReadRequest, WriteReply, Kill, clientVars, storeVars
    <2> QED
      BY <2>1, QuietKeeps
  <1>7. CASE UNCHANGED vars
    BY <1>7, QuietKeeps DEF vars, clientVars, storeVars
  <1> QED
    BY <1>1, <1>2, <1>3, <1>4, <1>5, <1>6, <1>7 DEF Next, Client, Server

LEMMA TotalOne ==
  ASSUME NEW n \in Int
  PROVE  Total(<<n>>) = n
  <1>1. Sequence(<<n>>) /\ Len(<<n>>) = 1 /\ <<n>>[1] = n
    BY NoneAndOne
  <1>2. PICK f : IsSum(f, <<n>>) /\ Total(<<n>>) = f[Len(<<n>>)]
    BY <1>1, SumOf
  <1>3. f[0] = 0 /\ f[1] = f[0] + n
    <2>1. 1 \in 1..1 /\ 1 - 1 = 0
      OBVIOUS
    <2> QED
      BY <1>1, <1>2, <2>1 DEF IsSum
  <1> QED
    BY <1>1, <1>2, <1>3

LEMMA TotalThree ==
  ASSUME NEW s, Sequence(s), Len(s) = 3, s[1] \in Int
  PROVE  Total(s) = (s[1] + s[2]) + s[3]
  <1>1. PICK f : IsSum(f, s) /\ Total(s) = f[Len(s)]
    BY SumOf
  <1>2. /\ f[0] = 0
        /\ f[1] = f[0] + s[1] /\ f[2] = f[1] + s[2] /\ f[3] = f[2] + s[3]
    <2>1. \A i \in 1..3 : f[i] = f[i - 1] + s[i]
      BY <1>1 DEF IsSum
    <2>2. /\ 1 \in 1..3 /\ 2 \in 1..3 /\ 3 \in 1..3
          /\ 1 - 1 = 0 /\ 2 - 1 = 1 /\ 3 - 1 = 2
      OBVIOUS
    <2> QED
      BY <1>1, <2>1, <2>2 DEF IsSum
  <1>3. f[1] = s[1]
    BY <1>2
  <1> QED
    BY <1>1, <1>2, <1>3

\* The first part of a sequence, element by element.
LEMMA FirstOf ==
  ASSUME NEW s, Sequence(s), NEW n \in 0..Len(s)
  PROVE  SubSeq(s, 1, n) = [i \in 1..n |-> s[i]]
  <1> DEFINE part == SubSeq(s, 1, n)
             same == [i \in 1..n |-> s[i]]
  <1>1. s \in Seq(Elements(s)) /\ Len(s) \in Nat /\ n \in Nat
    BY SeqOfElements DEF Sequence
  <1>2. \A i \in 1..n : s[i] \in Elements(s)
    BY <1>1 DEF Elements
  <1>3. /\ part \in Seq(Elements(s))
        /\ Len(part) = IF 1 <= n THEN (n - 1) + 1 ELSE 0
        /\ \A i \in 1..((n - 1) + 1) : part[i] = s[(1 + i) - 1]
    BY <1>1, <1>2, SubSeqProperties
  <1>4. Sequence(part)
    BY <1>3, SeqIsSequence
  <1>5. Len(part) = n
    BY <1>1, <1>3
  <1>6. Sequence(same) /\ Len(same) = n
    <2>1. Len(same) = n
      BY <1>1
    <2> QED
      BY <1>1, <2>1 DEF Sequence
  <1> HIDE DEF part
  <1>7. \A i \in 1..n : part[i] = same[i]
    <2> TAKE i \in 1..n
    <2>1. i \in 1..((n - 1) + 1) /\ (1 + i) - 1 = i
      BY <1>1
    <2> QED
      BY <1>3, <2>1
  <1> HIDE DEF same
  <1> QED
    BY <1>4, <1>5, <1>6, <1>7, SameSequence DEF part, same

\* What is drawn of the first n names or fields of what was read is what the
\* screen is to hold, if the user is told right whether that is all.
LEMMA CutIsTold ==
  ASSUME NEW n \in 0..Len(taken), Sequence(taken), NEW width,
         width = IF Command = "getNewsArticle" THEN ArticleWidth ELSE ListWidth,
         Drawn(screen, width, Total([i \in 1..n |-> LengthsTaken[i]])),
         IF n = Len(taken) THEN told.verdict = "shown"
         ELSE told = Fails \/ pc = "crashed"
  PROVE  NothingIsCutUnnoticed
  <1>1. DOMAIN taken = 1..Len(taken) /\ Len(taken) \in Nat
    BY DEF Sequence
  <1>2. Sequence(LengthsTaken) /\ Len(LengthsTaken) = Len(taken)
    <2>1. LengthsTaken = [i \in 1..Len(taken) |-> LengthsTaken[i]]
      BY Zenon, <1>1 DEF LengthsTaken
    <2>2. Len(LengthsTaken) = Len(taken)
      BY <1>1, <2>1
    <2> QED
      BY SMTT(30), <1>1, <2>1, <2>2 DEF Sequence
  <1>3. SubSeq(LengthsTaken, 1, n) = [i \in 1..n |-> LengthsTaken[i]]
    BY <1>2, FirstOf
  <1>4. /\ \A i \in DOMAIN screen : screen[i].width = width
        /\ Total([i \in DOMAIN screen |-> screen[i].shown])
             = Total(SubSeq(LengthsTaken, 1, n))
    <2>1. DOMAIN screen = 1..Len(screen)
      BY DEF Drawn, Sequence
    <2> QED
      BY Zenon, <1>3, <2>1 DEF Drawn, Shown
  <1> QED
    BY <1>4 DEF NothingIsCutUnnoticed

\* That is so of a listing,
LEMMA ListNotCut ==
  ASSUME IsListing(taken), screen = ListRows(taken), Command # "getNewsArticle",
         \A i \in 1..Len(taken) : IsName(taken[i][2]),
         IF ListFits(taken) THEN told.verdict = "shown" ELSE told = Fails
  PROVE  NothingIsCutUnnoticed
  <1>1. /\ Sequence(taken) /\ DOMAIN taken = 1..Len(taken) /\ Len(taken) \in Nat
        /\ \A i \in 1..Len(taken) : taken[i][1] \in Int
    <2>1. Sequence(taken) /\ \A i \in DOMAIN taken : taken[i][1] \in Int32
      BY DEF IsListing
    <2>2. \A k \in Int32 : k \in Int
      BY SMT DEF Int32
    <2>3. DOMAIN taken = 1..Len(taken) /\ Len(taken) \in Nat
      BY Zenon, <2>1 DEF Sequence
    <2> QED
      BY <2>1, <2>2, <2>3
  <1>2. PICK n \in 0..Len(taken) :
          /\ Drawn(ListRows(taken), ListWidth,
                   Total([i \in 1..n |-> Length(taken[i][2])]))
          /\ ListFits(taken) <=> n = Len(taken)
    BY <1>1, ListDrawn
  <1>3. [i \in 1..n |-> Length(taken[i][2])] = [i \in 1..n |-> LengthsTaken[i]]
    <2>1. \A i \in 1..n : LengthsTaken[i] = Length(taken[i][2])
      BY <1>1 DEF LengthsTaken
    <2> QED
      BY <2>1
  <1>4. Drawn(screen, ListWidth, Total([i \in 1..n |-> LengthsTaken[i]]))
    BY <1>2, <1>3
  <1>5. IF n = Len(taken) THEN told.verdict = "shown" ELSE told = Fails
    BY <1>2
  <1> QED
    BY Zenon, <1>1, <1>4, <1>5, CutIsTold

\* and of an article.
LEMMA ArticleNotCut ==
  ASSUME taken = <<taken[1], taken[2], taken[3]>>,
         screen = ArticleRows(taken[1], taken[2], taken[3]),
         Command = "getNewsArticle",
         IsName(taken[1]), IsName(taken[2]), IsName(taken[3]),
         IF ArticleFits(taken[1], taken[2]) THEN told.verdict = "shown"
         ELSE told = Fails \/ pc = "crashed"
  PROVE  NothingIsCutUnnoticed
  <1> DEFINE first(n) == [i \in 1..n |-> LengthsTaken[i]]
             title == Length(taken[1])
             author == Length(taken[2])
             text == Length(taken[3])
             m == IF ~TitleFits(taken[1]) THEN 0
                  ELSE IF ~AuthorFits(taken[2]) THEN 1 ELSE 3
  <1>1. Sequence(taken) /\ Len(taken) = 3 /\ DOMAIN taken = 1..3
    BY ThreeFields DEF Sequence
  <1>2. /\ LengthsTaken[1] = title /\ LengthsTaken[2] = author
        /\ LengthsTaken[3] = text
    BY <1>1 DEF LengthsTaken
  <1>3. title \in Nat /\ author \in Nat /\ text \in Nat
    BY LengthType
  <1>4. Drawn(screen, ArticleWidth,
              IF ~TitleFits(taken[1]) THEN 0
              ELSE IF ~AuthorFits(taken[2]) THEN title
              ELSE (title + author) + text)
    BY ArticleDrawn
  <1> HIDE DEF title, author, text
  <1>5. Total(first(0)) = 0
    <2>1. first(0) = <<>>
      OBVIOUS
    <2> QED
      BY <2>1, TotalNone
  <1>6. Total(first(1)) = title
    <2>1. first(1) = <<title>>
      BY <1>2
    <2> HIDE DEF first
    <2> QED
      BY <1>3, <2>1, TotalOne
  <1>7. Total(first(3)) = (title + author) + text
    <2>1. /\ Sequence(first(3)) /\ Len(first(3)) = 3 /\ first(3)[1] = title
          /\ first(3)[2] = author /\ first(3)[3] = text
      BY <1>2 DEF Sequence
    <2> HIDE DEF first
    <2> QED
      BY <1>3, <2>1, TotalThree
  <1> HIDE DEF first
  <1>8. Drawn(screen, ArticleWidth, Total(first(m)))
    BY <1>4, <1>5, <1>6, <1>7
  <1>9. m \in 0..3 /\ (m = 3 <=> ArticleFits(taken[1], taken[2]))
    BY DEF ArticleFits
  <1> HIDE DEF m
  <1>10. IF m = 3 THEN told.verdict = "shown"
         ELSE told = Fails \/ pc = "crashed"
    BY <1>9
  <1> QED
    BY <1>1, <1>8, <1>9, <1>10, CutIsTold DEF first

\* Whatever was typed and stored, what the client draws of an answer is the
\* frame, and in it every name, or title, author and text, to the last letter; or
\* the first of them, and then the user is told that something failed, if the
\* client has not died of it.
THEOREM CutsAreNoticed == Spec => []NothingIsCutUnnoticed
  <1>1. Init => DrawInv
    BY InitDraw
  <1>2. IInv /\ DrawInv /\ [Next]_vars => DrawInv'
    BY DrawKeeps
  <1>3. IInv /\ DrawInv => NothingIsCutUnnoticed
    <2> SUFFICES ASSUME IInv, DrawInv, told.verdict = "shown" \/ screen # <<>>
                 PROVE  NothingIsCutUnnoticed
      BY DEF NothingIsCutUnnoticed
    <2> DEFINE AsList ==
                 /\ IsListCommand(Command)
                 /\ taken = Listed(performed)
                 /\ screen = ListRows(taken)
                 /\ IF ListFits(taken) THEN told.verdict = "shown"
                    ELSE told = Fails
               AsArticle ==
                 /\ Command = "getNewsArticle"
                 /\ taken = performed.result
                 /\ screen = ArticleRows(taken[1], taken[2], taken[3])
                 /\ IF ArticleFits(taken[1], taken[2])
                    THEN told.verdict = "shown"
                    ELSE told = Fails \/ pc = "crashed"
    <2>1. /\ performed # Db!NoCall /\ performed.code = ANS_ACK
          /\ AsList \/ AsArticle
      BY DEF DrawInv, ScreenInv
    <2>2. /\ Accepted(line) /\ performed.call = Asked(line)
          /\ IsAnswer(performed)
      BY <2>1 DEF IInv, TellingInv
    <2>3. performed.call[1] = Command
      BY <2>2, AskedIsCall DEF IsCall, Command
    <2>4. NamesAnswered(performed)
      BY <2>1 DEF DrawInv, NamesInv
    <2>5. CASE AsList
      <3>1. /\ IsListing(taken) /\ Command # "getNewsArticle"
            /\ \A i \in 1..Len(taken) : IsName(taken[i][2])
        BY <2>1, <2>2, <2>3, <2>4, <2>5
           DEF IsAnswer, NamesAnswered, IsListCommand
      <3> QED
        BY <2>5, <3>1, ListNotCut
    <2>6. CASE AsArticle
      <3> DEFINE fields == performed.result
      <3>1. fields = <<fields[1], fields[2], fields[3]>>
        BY <2>1, <2>2, <2>3, <2>6 DEF IsAnswer
      <3>2. IsName(fields[1]) /\ IsName(fields[2]) /\ IsName(fields[3])
        BY <2>1, <2>3, <2>4, <2>6 DEF NamesAnswered
      <3>3. taken = fields
        BY <2>6
      <3> HIDE DEF fields
      <3>4. /\ taken = <<taken[1], taken[2], taken[3]>>
            /\ IsName(taken[1]) /\ IsName(taken[2]) /\ IsName(taken[3])
        BY <3>1, <3>2, <3>3
      <3> QED
        BY <2>6, <3>4, ArticleNotCut
    <2> QED
      BY <2>1, <2>5, <2>6
  <1> QED
    BY <1>1, <1>2, <1>3, BothEndsAgree, PTL DEF Spec

-------------------------------------------------------------------------------
(* What the client dies of.                                                  *)

\* A line is read to its end, or for ever because of a quote.
CrashInv ==
  /\ pc = "hung" => Unclosed(line.words)
  /\ CrashesOnlyOnLongStrings

\* An article that is to be drawn is the one the store answered with.
LEMMA CrashIsLong ==
  ASSUME IInv, ReadEnd, pc' = "crashed"
  PROVE  CrashesOnlyOnLongStrings'
  <1>1. /\ Reads("end", "code") /\ Draws /\ ~Fits
        /\ Command = "getNewsArticle" /\ performed' = performed
    BY DEF ReadEnd, Reads, storeVars
  <1>2. /\ performed # Db!NoCall /\ performed.code = ANS_ACK
        /\ Found = performed.result
    BY <1>1, EndDraws
  <1>3. performed.call[1] = "getNewsArticle"
    <2>1. "end" \in Places
      BY DEF Places
    <2> QED
      BY <1>1, <2>1, ReadStep
  <1>4. TooLong
    BY <1>1, <1>2, <1>3 DEF Fits, TooLong
  <1> QED
    BY <1>1, <1>4 DEF CrashesOnlyOnLongStrings, TooLong

\* Where the client is does not change, nor what it has died of.
LEMMA CrashStays ==
  ASSUME CrashInv, pc' = pc, line' = line, performed' = performed
  PROVE  CrashInv'
  BY DEF CrashInv, CrashesOnlyOnLongStrings, TooLong

\* It goes on, or ends, otherwise than by a crash.
LEMMA NoCrash ==
  ASSUME pc' \notin {"crashed", "hung"}
  PROVE  CrashInv'
  BY DEF CrashInv, CrashesOnlyOnLongStrings

LEMMA TypeCrash ==
  ASSUME NEW typed, Type(typed)
  PROVE  CrashInv'
  <1>1. line' = typed /\ pc = "prompt"
    BY DEF Type
  <1>2. \/ pc' \in {"prompt", "write"}
        \/ pc' = "hung" /\ Unclosed(typed.words)
    BY <1>1 DEF Type, Help, Complains, Starts
  <1> QED
    BY <1>1, <1>2 DEF CrashInv, CrashesOnlyOnLongStrings

\* Whatever was typed and answered, in this exchange or before, the client dies
\* only of an article it was sent whose title or author is too long to draw, or
\* of the line it is reading, if a quote of it is not closed.
THEOREM DiesOfLongStrings == Spec => []CrashesOnlyOnLongStrings
  <1>1. Init => CrashInv
    BY DEF Init, CrashInv, CrashesOnlyOnLongStrings
  <1>2. IInv /\ CrashInv /\ [Next]_vars => CrashInv'
    <2> SUFFICES ASSUME IInv, CrashInv, [Next]_vars
                 PROVE  CrashInv'
      OBVIOUS
    <2>1. CASE \E typed \in Lines : Type(typed)
      BY <2>1, TypeCrash
    <2>2. CASE Quit \/ Write \/ NoReply
      BY <2>2, NoCrash DEF Quit, Write, NoReply
    <2>3. CASE RunsOut
      BY <2>3 DEF RunsOut, CrashInv, CrashesOnlyOnLongStrings
    <2>4. CASE ReadNext /\ ~ReadEnd
      <3>1. pc' \notin {"crashed", "hung"}
        BY <2>4 DEF ReadNext, ReadAnswerCode, ReadResponse, AfterAck,
                    ReadErrorCode, AfterNak, Flush, ReadCount, ReadId, ReadName,
                    ReadField
      <3> QED
        BY <3>1, NoCrash
    <2>5. CASE ReadEnd
      <3>1. pc' # "hung"
        BY <2>5 DEF ReadEnd
      <3> QED
        BY <2>5, <3>1, CrashIsLong, NoCrash DEF CrashInv
    <2>6. CASE Carry
      <3>1. pc = "answer" /\ pc' = pc
        BY <2>6, CarriedIsAsked DEF Carry, clientVars
      <3> QED
        BY <3>1, NoCrash
    <2>7. CASE ReadRequest \/ WriteReply \/ Kill \/ UNCHANGED vars
      <3>1. pc' = pc /\ line' = line /\ performed' = performed
        BY <2>7 DEF ReadRequest, WriteReply, Kill, vars, clientVars, storeVars
      <3> QED
        BY <3>1, CrashStays
    <2> QED
      BY <2>1, <2>2, <2>3, <2>4, <2>5, <2>6, <2>7 DEF Next, Client, Server
  <1>3. CrashInv => CrashesOnlyOnLongStrings
    BY DEF CrashInv
  <1> QED
    BY <1>1, <1>2, <1>3, BothEndsAgree, PTL DEF Spec

===============================================================================
