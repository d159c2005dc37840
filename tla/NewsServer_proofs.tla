--------------------------- MODULE NewsServer_proofs ---------------------------
(***************************************************************************)
(* Proofs about NewsServer, for any number of clients and any requests,    *)
(* any number of descriptors, and sockets that hold any number of pieces.  *)
(***************************************************************************)
EXTENDS NewsServer, OrderedMap_proofs, SequenceTheorems, TLAPS

-------------------------------------------------------------------------------
(* Sequences without duplicates: the queue of clients and the registered     *)
(* ones.                                                                     *)

\* push_back of a client that is not there.
LEMMA AppendOnce ==
  ASSUME NEW S, NEW s \in Seq(S), IsInjective(s), NEW x \in S, ~Occurs(x, s)
  PROVE  /\ Append(s, x) \in Seq(S)
         /\ IsInjective(Append(s, x))
         /\ Len(Append(s, x)) = Len(s) + 1
         /\ \A c : Occurs(c, Append(s, x)) <=> Occurs(c, s) \/ c = x
  BY DEF IsInjective, Occurs

\* The client that is accepted leaves the queue.
LEMMA TailOnce ==
  ASSUME NEW S, NEW s \in Seq(S), IsInjective(s), s # <<>>
  PROVE  /\ Tail(s) \in Seq(S)
         /\ IsInjective(Tail(s))
         /\ Head(s) \in S /\ Occurs(Head(s), s)
         /\ \A c : Occurs(c, Tail(s)) <=> Occurs(c, s) /\ c # Head(s)
  <1>1. /\ Tail(s) \in Seq(S)
        /\ DOMAIN s = 1..Len(s) /\ Len(s) \in Nat \ {0}
        /\ DOMAIN Tail(s) = 1..(Len(s) - 1)
        /\ \A i \in 1..(Len(s) - 1) : Tail(s)[i] = s[i + 1]
        /\ Head(s) = s[1] /\ s[1] \in S
    OBVIOUS
  <1>2. \A i, j \in 1..Len(s) : s[i] = s[j] => i = j
    BY <1>1 DEF IsInjective
  <1>3. IsInjective(Tail(s))
    BY <1>1, <1>2 DEF IsInjective
  <1>4. ASSUME NEW c
        PROVE  Occurs(c, Tail(s)) <=> Occurs(c, s) /\ c # Head(s)
    <2>1. ASSUME NEW i \in 1..(Len(s) - 1), s[i + 1] = c
          PROVE  Occurs(c, s) /\ c # Head(s)
      BY <1>1, <1>2, <2>1 DEF Occurs
    <2>2. ASSUME NEW i \in 1..Len(s), s[i] = c, c # s[1]
          PROVE  i - 1 \in 1..(Len(s) - 1) /\ Tail(s)[i - 1] = c
      BY <1>1, <2>2
    <2> QED
      BY <1>1, <2>1, <2>2 DEF Occurs
  <1> QED
    BY <1>1, <1>3, <1>4 DEF Occurs

\* What erase and remove leave.
LEMMA OthersOnce ==
  ASSUME connections \in Seq(Clients), IsInjective(connections)
  PROVE  /\ Others \in Seq(Clients)
         /\ IsInjective(Others)
         /\ Len(Others) <= Len(connections)
         /\ \A c : Occurs(c, Others) <=> Occurs(c, connections) /\ c # conn
  <1> DEFINE N == Len(connections)
             step(f, n) == IF n = 0 THEN <<>>
                           ELSE IF connections[n] = conn THEN f[n - 1]
                           ELSE Append(f[n - 1], connections[n])
             keeps(f, m) == f = [n \in 0..m |-> step(f, n)]
             kept == CHOOSE f : keeps(f, N)
             T == {m \in Nat : \E f : keeps(f, m)}
  <1>a. Others = kept[N]
    BY DEF Others
  <1>b. keeps([n \in 0..0 |-> <<>>], 0)
    OBVIOUS
  <1>c. ASSUME NEW m \in Nat, NEW f, keeps(f, m)
        PROVE  \E g : keeps(g, m + 1)
    <2> DEFINE g == [n \in 0..(m + 1) |->
                       IF n = m + 1 THEN step(f, n) ELSE f[n]]
    <2>a. \A k \in 0..m : f[k] = step(f, k)
      BY <1>c
    <2>1. ASSUME NEW n \in 0..(m + 1)
          PROVE  g[n] = step(g, n)
      <3>1. CASE n = m + 1
        <4>1. n - 1 \in 0..m /\ n - 1 # m + 1 /\ n # 0
          BY <3>1
        <4>2. g[n] = step(f, n) /\ g[n - 1] = f[n - 1]
          BY <3>1, <4>1
        <4> HIDE DEF g
        <4> QED
          BY <4>1, <4>2
      <3>2. CASE n # m + 1
        <4>1. n \in 0..m /\ g[n] = f[n] /\ f[n] = step(f, n)
          BY <2>a, <3>2
        <4>2. n # 0 => n - 1 \in 0..m /\ n - 1 # m + 1
          BY <4>1
        <4>3. n # 0 => g[n - 1] = f[n - 1]
          BY <4>2
        <4> HIDE DEF g
        <4> QED
          BY <4>1, <4>3
      <3> QED
        BY <3>1, <3>2
    <2>2. DOMAIN g = 0..(m + 1) /\ g = [n \in 0..(m + 1) |-> g[n]]
      OBVIOUS
    <2> HIDE DEF g
    <2>3. keeps(g, m + 1)
      BY <2>1, <2>2
    <2> QED
      BY <2>3
  <1>d. keeps(kept, N)
    <2> HIDE DEF keeps
    <2>1. 0 \in T
      BY <1>b
    <2>2. \A m \in T : m + 1 \in T
      BY <1>c
    <2>3. N \in T
      <3>1. T \in SUBSET Nat /\ N \in Nat
        OBVIOUS
      <3> HIDE DEF T, N
      <3> QED
        BY <2>1, <2>2, <3>1, NaturalInduction
    <2> QED
      BY <2>3
  <1> HIDE DEF kept
  <1>1. /\ kept[0] = <<>>
        /\ \A n \in 0..N : n # 0 =>
             kept[n] = IF connections[n] = conn THEN kept[n - 1]
                       ELSE Append(kept[n - 1], connections[n])
    <2>1. \A n \in 0..N : kept[n] = step(kept, n)
      BY <1>d
    <2> QED
      BY <2>1
  <1> DEFINE OK(n) ==
        /\ kept[n] \in Seq(Clients)
        /\ IsInjective(kept[n])
        /\ Len(kept[n]) <= n
        /\ \A c : Occurs(c, kept[n]) <=>
                    c # conn /\ \E i \in 1..n : connections[i] = c
             P == {n \in Nat : n <= N => OK(n)}
  <1>2. OK(0)
    BY <1>1 DEF IsInjective, Occurs
  <1>3. ASSUME NEW n \in Nat, OK(n), n + 1 <= N
        PROVE  OK(n + 1)
    <2>1. connections[n + 1] \in Clients /\ n + 1 \in 0..N
      BY <1>3
    <2>2. \A c : (\E i \in 1..(n + 1) : connections[i] = c) <=>
                   (\E i \in 1..n : connections[i] = c) \/ c = connections[n + 1]
      OBVIOUS
    <2>3. CASE connections[n + 1] = conn
      <3>1. kept[n + 1] = kept[n]
        BY <1>1, <2>1, <2>3
      <3> QED
        BY <1>3, <2>2, <2>3, <3>1
    <2>4. CASE connections[n + 1] # conn
      <3> DEFINE x == connections[n + 1]
      <3>1. kept[n + 1] = Append(kept[n], x)
        <4>1. n + 1 # 0 /\ (n + 1) - 1 = n
          OBVIOUS
        <4> HIDE DEF N
        <4> QED
          BY <1>1, <2>1, <2>4, <4>1
      <3>2. ~Occurs(x, kept[n])
        <4>1. \A i \in 1..n : connections[i] # x
          BY <1>3 DEF IsInjective
        <4> QED
          BY <1>3, <4>1
      <3> HIDE DEF x
      <3>3. /\ kept[n + 1] \in Seq(Clients)
            /\ IsInjective(kept[n + 1])
            /\ Len(kept[n + 1]) = Len(kept[n]) + 1
            /\ \A c : Occurs(c, kept[n + 1]) <=> Occurs(c, kept[n]) \/ c = x
        <4>1. kept[n] \in Seq(Clients) /\ IsInjective(kept[n]) /\ x \in Clients
          BY <1>3, <2>1 DEF x
        <4> QED
          BY <3>1, <3>2, <4>1, AppendOnce
      <3> QED
        BY <1>3, <2>2, <2>4, <3>3 DEF x
    <2> QED
      BY <2>3, <2>4
  <1>4. OK(N)
    <2> HIDE DEF OK
    <2>1. 0 \in P
      BY <1>2
    <2>2. ASSUME NEW n \in P
          PROVE  n + 1 \in P
      <3>1. n + 1 <= N => n <= N
        OBVIOUS
      <3> QED
        BY <1>3, <3>1
    <2>3. N \in P
      <3>1. P \in SUBSET Nat /\ N \in Nat
        OBVIOUS
      <3> HIDE DEF P, N
      <3> QED
        BY <2>1, <2>2, <3>1, NaturalInduction
    <2> QED
      BY <2>3
  <1>5. \A c : Occurs(c, connections) <=> \E i \in 1..N : connections[i] = c
    BY DEF Occurs
  <1> QED
    BY <1>a, <1>4, <1>5

-------------------------------------------------------------------------------
(* Sequences of one and of two pieces: what the wire holds of a request or   *)
(* of an answer.                                                             *)

LEMMA OneElement ==
  ASSUME NEW S, NEW s \in Seq(S), Len(s) = 1
  PROVE  s = <<s[1]>>
  OBVIOUS

LEMMA TwoElements ==
  ASSUME NEW S, NEW s \in Seq(S), Len(s) = 2
  PROVE  s = <<s[1], s[2]>>
  OBVIOUS

LEMMA LastAppended ==
  ASSUME NEW S, NEW s \in Seq(S), NEW y \in S
  PROVE  Append(s, y)[Len(s) + 1] = y
  OBVIOUS

LEMMA AppendSecond ==
  ASSUME NEW S, NEW s \in Seq(S), NEW y \in S, Len(s) = 1
  PROVE  Append(s, y) = <<s[1], y>>
  <1> DEFINE t == Append(s, y)
  <1>1. t \in Seq(S)
    OBVIOUS
  <1>2. Len(t) = 2
    OBVIOUS
  <1>3. t[1] = s[1]
    OBVIOUS
  <1>4. t[2] = y
    <2>1. Len(s) + 1 = 2
      OBVIOUS
    <2>2. t[Len(s) + 1] = y
      BY LastAppended
    <2> QED
      BY <2>1, <2>2
  <1> HIDE DEF t
  <1>5. t = <<t[1], t[2]>>
    BY <1>1, <1>2, TwoElements
  <1>6. t = <<s[1], y>>
    BY <1>3, <1>4, <1>5
  <1> QED
    BY <1>6 DEF t

LEMMA TailOfTwo ==
  ASSUME NEW S, NEW s \in Seq(S), Len(s) = 2
  PROVE  Tail(s) = <<s[2]>> /\ Head(s) = s[1]
  <1> DEFINE t == Tail(s)
  <1>1. t \in Seq(S)
    OBVIOUS
  <1>2. Len(t) = 1
    OBVIOUS
  <1>3. t[1] = s[2]
    <2>1. \A i \in 1..(Len(s) - 1) : t[i] = s[i + 1]
      OBVIOUS
    <2>2. 1 \in 1..(Len(s) - 1) /\ 1 + 1 = 2
      OBVIOUS
    <2> HIDE DEF t
    <2> QED
      BY <2>1, <2>2
  <1> HIDE DEF t
  <1>4. t = <<t[1]>>
    BY <1>1, <1>2, OneElement
  <1>5. t = <<s[2]>>
    BY <1>3, <1>4
  <1> QED
    BY <1>5 DEF t

LEMMA TwoPieces ==
  ASSUME NEW x, NEW y
  PROVE  /\ Append(<<>>, x) = <<x>> /\ Append(<<x>>, y) = <<x, y>>
         /\ Tail(<<x>>) = <<>> /\ Tail(<<x, y>>) = <<y>>
         /\ Head(<<x>>) = x /\ Head(<<x, y>>) = x
         /\ <<x>> # <<>> /\ <<x, y>> # <<>>
         /\ Len(<<x>>) = 1 /\ Len(<<x, y>>) = 2 /\ <<x>> # <<x, y>>
  <1>1. <<x>> \in Seq({x, y}) /\ <<x>>[1] = x
    OBVIOUS
  <1>2. Len(<<x>>) = 1
    OBVIOUS
  <1>3. Len(<<x, y>>) = 2
    <2>1. <<x, y>> \in Seq({x, y})
      OBVIOUS
    <2>2. DOMAIN <<x, y>> = 1..2
      OBVIOUS
    <2> QED
      BY <2>1, <2>2
  <1>4. Append(<<>>, x) = <<x>>
    OBVIOUS
  <1>5. Append(<<x>>, y) = <<x, y>>
    BY <1>1, <1>2, AppendSecond
  <1>6. Tail(<<x>>) = <<>>
    OBVIOUS
  <1>7. Tail(<<x, y>>) = <<y>>
    OBVIOUS
  <1>8. Head(<<x>>) = x /\ Head(<<x, y>>) = x
    OBVIOUS
  <1>9. <<x>> # <<>> /\ <<x, y>> # <<>>
    OBVIOUS
  <1>10. <<x>> # <<x, y>>
    BY <1>2, <1>3
  <1> QED
    BY <1>2, <1>3, <1>4, <1>5, <1>6, <1>7, <1>8, <1>9, <1>10

-------------------------------------------------------------------------------
(* The inductive invariant, one lemma per action.                            *)

\* A client nothing is read from, written to, or said of, is as it was.
LEMMA ClientKept ==
  ASSUME NEW c, RequestInv(c), AnswerInv(c),
         phase'[c] = phase[c], asked'[c] = asked[c], link'[c] = link[c],
         toServer'[c] = toServer[c], toClient'[c] = toClient[c],
         Reading(c)' <=> Reading(c), Reading(c) => request' = request,
         Answering(c)' <=> Answering(c), Answering(c) => unsent' = unsent
  PROVE  RequestInv(c)' /\ AnswerInv(c)'
  <1>1. RequestInv(c)'
    BY DEF RequestInv
  <1>2. AnswerInv(c)'
    BY DEF AnswerInv
  <1> QED
    BY <1>1, <1>2

LEMMA ConnectIInv ==
  ASSUME IInv, NEW c \in Clients, Connect(c)
  PROVE  IInv'
  <1>1. TypeOK'
    BY DEF Connect, storeVars, IInv, TypeOK
  <1>2. KnownInv'
    <2>1. ~Known(c)
      BY DEF Connect, IInv, KnownInv
    <2>2. /\ backlog' \in Seq(Clients) /\ IsInjective(backlog')
          /\ \A d : Occurs(d, backlog') <=> Occurs(d, backlog) \/ d = c
      BY <2>1, AppendOnce DEF Connect, IInv, KnownInv, Known
    <2>3. \A d \in Clients : link'[d] = IF d = c THEN "open" ELSE link[d]
      BY DEF Connect, IInv, TypeOK
    <2> QED
      BY <2>1, <2>2, <2>3
      DEF Connect, storeVars, IInv, KnownInv, Known, NoServerError
  <1>3. ASSUME NEW d \in Clients
        PROVE  RequestInv(d)' /\ AnswerInv(d)'
    <2>1. RequestInv(d) /\ AnswerInv(d)
      BY DEF IInv
    <2>2. CASE d = c
      <3>1. link[c] = "none" /\ link'[c] = "open" /\ ~Reading(c) /\ ~Answering(c)
        BY <2>2
        DEF Connect, IInv, TypeOK, KnownInv, NoServerError, Known, Reading,
            Answering
      <3>2. RequestInv(c)'
        BY <2>1, <2>2, <3>1 DEF Connect, RequestInv, Reading
      <3>3. AnswerInv(c)'
        BY <2>1, <2>2, <3>1 DEF Connect, AnswerInv, Reading, Answering
      <3> QED
        BY <2>2, <3>2, <3>3
    <2>3. CASE d # c
      <3>1. link'[d] = link[d]
        BY <2>3 DEF Connect, IInv, TypeOK
      <3> QED
        BY <2>1, <3>1, ClientKept DEF Connect, Reading, Answering
    <2> QED
      BY <2>2, <2>3
  <1> QED
    BY <1>1, <1>2, <1>3 DEF IInv

\* What a client sends leaves where clients are known as it is.
LEMMA SendsIInv ==
  ASSUME IInv, NEW c \in Clients, NEW piece \in Requests \cup {END, Unexpected},
         NEW next \in {"sending", "waiting"},
         Sends(c, piece, next), asked' \in [Clients -> Requests \cup {NoRequest}],
         \A d \in Clients \ {c} : asked'[d] = asked[d],
         RequestInv(c)', AnswerInv(c)'
  PROVE  IInv'
  <1>1. TypeOK'
    <2>1. toServer' \in [Clients -> Seq(Requests \cup {END, Unexpected})]
      <3>1. Append(toServer[c], piece) \in Seq(Requests \cup {END, Unexpected})
        BY DEF IInv, TypeOK
      <3> QED
        BY <3>1 DEF Sends, IInv, TypeOK
    <2> QED
      BY <2>1 DEF Sends, serverVars, storeVars, IInv, TypeOK
  <1>2. KnownInv'
    BY DEF Sends, serverVars, storeVars, IInv, KnownInv, Known, NoServerError
  <1>3. ASSUME NEW d \in Clients \ {c}
        PROVE  RequestInv(d)' /\ AnswerInv(d)'
    <2>1. RequestInv(d) /\ AnswerInv(d)
      BY DEF IInv
    <2>2. toServer'[d] = toServer[d] /\ phase'[d] = phase[d]
      BY DEF Sends, IInv, TypeOK
    <2> QED
      BY <2>1, <2>2, ClientKept DEF Sends, serverVars, Reading, Answering
  <1> QED
    BY <1>1, <1>2, <1>3 DEF IInv

LEMMA AskIInv ==
  ASSUME IInv, NEW c \in Clients, NEW r \in Requests, Ask(c, r)
  PROVE  IInv'
  <1>1. /\ phase[c] = "idle" /\ link[c] = "open"
        /\ RequestInv(c) /\ AnswerInv(c)
    BY DEF Ask, Sends, IInv
  <1>2. toServer[c] = <<>> /\ ~Reading(c) /\ ~Answering(c) /\ toClient[c] = <<>>
    BY <1>1 DEF RequestInv, AnswerInv
  <1>3. /\ asked' \in [Clients -> Requests \cup {NoRequest}] /\ asked'[c] = r
        /\ \A d \in Clients \ {c} : asked'[d] = asked[d]
    BY DEF Ask, IInv, TypeOK
  <1>4. phase'[c] = "sending" /\ toServer'[c] = Append(<<>>, r)
    BY <1>2 DEF Ask, Sends, IInv, TypeOK
  <1>5. UNCHANGED <<link, toClient, pc, conn, request, unsent>>
    BY DEF Ask, Sends, serverVars
  <1>6. RequestInv(c)'
    BY <1>1, <1>2, <1>3, <1>4, <1>5, TwoPieces DEF RequestInv, Reading
  <1>7. AnswerInv(c)'
    BY <1>1, <1>2, <1>5 DEF AnswerInv, Reading, Answering
  <1> QED
    BY <1>3, <1>6, <1>7, SendsIInv DEF Ask

LEMMA FinishIInv ==
  ASSUME IInv, NEW c \in Clients, Finish(c)
  PROVE  IInv'
  <1>1. /\ phase[c] = "sending" /\ link[c] = "open"
        /\ RequestInv(c) /\ AnswerInv(c)
    BY DEF Finish, Sends, IInv
  <1>2. /\ ~Answering(c) /\ toClient[c] = <<>> /\ asked[c] \in Requests
        /\ \/ ~Reading(c) /\ toServer[c] = <<asked[c]>>
           \/ Reading(c) /\ request = asked[c] /\ toServer[c] = <<>>
    BY <1>1 DEF RequestInv, AnswerInv
  <1>3. UNCHANGED <<asked, link, toClient, pc, conn, request, unsent>>
    BY DEF Finish, Sends, serverVars
  <1>4. phase'[c] = "waiting" /\ toServer'[c] = Append(toServer[c], END)
    BY DEF Finish, Sends, IInv, TypeOK
  <1>5. RequestInv(c)'
    <2>1. CASE ~Reading(c) /\ toServer[c] = <<asked[c]>>
      <3>1. toServer'[c] = <<asked[c], END>>
        <4>1. Append(<<asked[c]>>, END) = <<asked[c], END>>
          BY TwoPieces
        <4> QED
          BY <1>4, <2>1, <4>1
      <3>2. ~Reading(c)'
        BY <1>3, <2>1 DEF Reading
      <3> QED
        BY <1>1, <1>2, <1>3, <1>4, <3>1, <3>2 DEF RequestInv
    <2>2. CASE Reading(c) /\ request = asked[c] /\ toServer[c] = <<>>
      <3>1. toServer'[c] = <<END>> /\ Reading(c)' /\ request' = asked'[c]
        BY <1>3, <1>4, <2>2, TwoPieces DEF Reading
      <3> QED
        BY <1>1, <1>2, <1>3, <1>4, <3>1 DEF RequestInv
    <2> QED
      BY <1>2, <2>1, <2>2
  <1>6. AnswerInv(c)'
    BY <1>1, <1>2, <1>3 DEF AnswerInv, Reading, Answering
  <1> QED
    BY <1>3, <1>5, <1>6, SendsIInv DEF Finish, IInv, TypeOK

LEMMA StrayIInv ==
  ASSUME IInv, NEW c \in Clients, Stray(c)
  PROVE  IInv'
  <1>1. /\ phase[c] \in {"idle", "sending"} /\ link[c] = "open"
        /\ RequestInv(c) /\ AnswerInv(c)
    BY DEF Stray, Sends, IInv, TypeOK
  <1>2. /\ ~Answering(c) /\ toClient[c] = <<>>
        /\ \/ ~Reading(c) /\ toServer[c] = <<>>
           \/ ~Reading(c) /\ asked[c] \in Requests /\ toServer[c] = <<asked[c]>>
           \/ Reading(c) /\ toServer[c] = <<>>
    BY <1>1 DEF RequestInv, AnswerInv
  <1>3. /\ asked' \in [Clients -> Requests \cup {NoRequest}]
        /\ asked'[c] = NoRequest
        /\ \A d \in Clients \ {c} : asked'[d] = asked[d]
    BY DEF Stray, IInv, TypeOK
  <1>4. UNCHANGED <<link, toClient, pc, conn, request, unsent>>
    BY DEF Stray, Sends, serverVars
  <1>5. phase'[c] = "waiting" /\ toServer'[c] = Append(toServer[c], Unexpected)
    BY DEF Stray, Sends, IInv, TypeOK
  <1>6. RequestInv(c)'
    <2>1. CASE toServer[c] = <<>>
      <3>1. toServer'[c] = <<Unexpected>>
        BY <1>5, <2>1, TwoPieces
      <3> QED
        BY <1>1, <1>3, <1>4, <1>5, <3>1 DEF RequestInv
    <2>2. CASE ~Reading(c) /\ asked[c] \in Requests /\ toServer[c] = <<asked[c]>>
      <3>1. toServer'[c] = <<asked[c], Unexpected>> /\ ~Reading(c)'
        BY <1>4, <1>5, <2>2, TwoPieces DEF Reading
      <3> QED
        BY <1>1, <1>3, <1>4, <1>5, <2>2, <3>1 DEF RequestInv
    <2> QED
      BY <1>2, <2>1, <2>2
  <1>7. AnswerInv(c)'
    BY <1>1, <1>2, <1>4 DEF AnswerInv, Reading, Answering
  <1> QED
    BY <1>3, <1>6, <1>7, SendsIInv DEF Stray

\* A step of one client that leaves the server's variables alone.
LEMMA ClientStepIInv ==
  ASSUME IInv, NEW c \in Clients, TypeOK',
         UNCHANGED <<serverVars, storeVars, toServer>>,
         link'[c] \in {link[c], "left"}, link[c] # "open" => link'[c] = link[c],
         \A d \in Clients \ {c} :
           /\ link'[d] = link[d] /\ toClient'[d] = toClient[d]
           /\ phase'[d] = phase[d] /\ asked'[d] = asked[d],
         RequestInv(c)', AnswerInv(c)'
  PROVE  IInv'
  <1>1. KnownInv'
    BY DEF serverVars, storeVars, IInv, KnownInv, Known, NoServerError
  <1>2. ASSUME NEW d \in Clients \ {c}
        PROVE  RequestInv(d)' /\ AnswerInv(d)'
    <2>1. RequestInv(d) /\ AnswerInv(d)
      BY DEF IInv
    <2> QED
      BY <2>1, ClientKept DEF serverVars, Reading, Answering
  <1> QED
    BY <1>1, <1>2 DEF IInv

LEMMA LeaveIInv ==
  ASSUME IInv, NEW c \in Clients, Leave(c)
  PROVE  IInv'
  <1>1. TypeOK'
    BY DEF Leave, serverVars, storeVars, IInv, TypeOK
  <1>2. RequestInv(c) /\ AnswerInv(c)
    BY DEF IInv
  <1>3. /\ link[c] = "open" /\ link'[c] = "left" /\ toClient'[c] = <<>>
        /\ UNCHANGED <<phase, asked, toServer, serverVars, storeVars>>
        /\ \A d \in Clients \ {c} : link'[d] = link[d] /\ toClient'[d] = toClient[d]
    BY DEF Leave, IInv, TypeOK
  <1>4. RequestInv(c)'
    BY <1>2, <1>3 DEF serverVars, RequestInv, Reading
  <1>5. AnswerInv(c)'
    <2>1. CASE ~Answering(c)
      BY <1>2, <1>3, <2>1 DEF serverVars, AnswerInv, Reading, Answering
    <2>2. CASE Answering(c)
      <3>1. RestOfAnswer(unsent, asked[c])
        BY <1>2, <2>2 DEF AnswerInv, RestOfAnswer, One, Two, IsPiece
      <3> QED
        BY <1>2, <1>3, <2>2, <3>1 DEF serverVars, AnswerInv, Reading, Answering
    <2> QED
      BY <2>1, <2>2
  <1> QED
    BY <1>1, <1>3, <1>4, <1>5, ClientStepIInv

LEMMA OnePiece ==
  ASSUME NEW s, NEW x, s = <<x>>
  PROVE  One(s) /\ s[1] = x /\ s # <<>>
  BY TwoPieces DEF One

\* The pieces of an answer, taken one by one.
LEMMA RestTaken ==
  ASSUME NEW s, NEW r, RestOfAnswer(s, r)
  PROVE  /\ s # <<>>
         /\ Head(s).part = "end" => Tail(s) = <<>>
         /\ Head(s).part # "end" => RestOfAnswer(Tail(s), r)
  <1>1. CASE One(s) /\ IsPiece(s[1], "end", r)
    BY <1>1, TwoPieces DEF One, IsPiece
  <1>2. CASE Two(s) /\ IsPiece(s[1], "start", r) /\ IsPiece(s[2], "end", r)
    <2>1. s = <<s[1], s[2]>> /\ s[1].part = "start"
      BY <1>2 DEF Two, IsPiece
    <2>2. Head(s) = s[1] /\ Tail(s) = <<s[2]>> /\ s # <<>>
      <3>1. \A x, y : /\ Head(<<x, y>>) = x /\ Tail(<<x, y>>) = <<y>>
                      /\ <<x, y>> # <<>>
        <4> TAKE x, y
        <4> QED
          BY ONLY TwoPieces
      <3> QED
        BY <2>1, <3>1
    <2>3. RestOfAnswer(<<s[2]>>, r)
      BY <1>2, TwoPieces DEF RestOfAnswer, One, IsPiece
    <2> QED
      BY <2>1, <2>2, <2>3
  <1> QED
    BY <1>1, <1>2 DEF RestOfAnswer

LEMMA ReceiveIInv ==
  ASSUME IInv, NEW c \in Clients, Receive(c)
  PROVE  IInv'
  <1>1. /\ RequestInv(c) /\ AnswerInv(c) /\ TypeOK
        /\ toClient[c] # <<>> /\ toClient'[c] = Tail(toClient[c])
        /\ UNCHANGED <<link, toServer, serverVars, storeVars>>
        /\ \A d \in Clients \ {c} : toClient'[d] = toClient[d]
    BY DEF Receive, IInv, TypeOK
  <1>2. UNCHANGED <<pc, conn, request, unsent>>
    BY <1>1 DEF serverVars
  <1>3. /\ phase[c] = "waiting" /\ asked[c] \in Requests
        /\ toServer[c] = <<>> /\ ~Reading(c)
        /\ link[c] \notin {"none", "left"}
    BY <1>1 DEF AnswerInv
  <1>4. TypeOK'
    BY <1>1 DEF Receive, serverVars, storeVars, TypeOK
  <1>5. \A d \in Clients \ {c} : phase'[d] = phase[d] /\ asked'[d] = asked[d]
    BY DEF Receive, IInv, TypeOK
  <1>6. RequestInv(c)' /\ AnswerInv(c)'
    <2>1. CASE Head(toClient[c]).part = "end"
      <3>1. phase'[c] = "idle" /\ asked'[c] = NoRequest
        BY <2>1 DEF Receive, IInv, TypeOK
      <3>2. ~Answering(c)
        <4>1. ASSUME Answering(c)
              PROVE  FALSE
          <5>1. /\ One(toClient[c])
                /\ RestOfAnswer(<<toClient[c][1], unsent[1]>>, asked[c])
            BY <1>1, <4>1 DEF AnswerInv
          <5>2. Head(toClient[c]) = toClient[c][1]
            BY <5>1, TwoPieces DEF One
          <5>3. toClient[c][1].part = "start"
            BY <5>1, TwoPieces DEF RestOfAnswer, One, IsPiece
          <5> QED
            BY <2>1, <5>2, <5>3
        <4> QED
          BY <4>1
      <3>3. toClient'[c] = <<>>
        <4>1. RestOfAnswer(toClient[c], asked[c])
          BY <1>1, <3>2 DEF AnswerInv
        <4> QED
          BY <1>1, <2>1, <4>1, RestTaken
      <3>4. RequestInv(c)'
        BY <1>1, <1>2, <1>3, <3>1 DEF RequestInv, Reading
      <3>5. AnswerInv(c)'
        BY <1>2, <3>2, <3>3 DEF AnswerInv, Answering
      <3> QED
        BY <3>4, <3>5
    <2>2. CASE Head(toClient[c]).part # "end"
      <3>1. UNCHANGED <<phase, asked>>
        BY <2>2 DEF Receive
      <3>2. RequestInv(c)'
        BY <1>1, <1>2, <3>1 DEF RequestInv, Reading
      <3>3. CASE Answering(c)
        <4>1. /\ One(toClient[c]) /\ One(unsent)
              /\ RestOfAnswer(<<toClient[c][1], unsent[1]>>, asked[c])
          BY <1>1, <3>3 DEF AnswerInv
        <4>2. toClient'[c] = <<>>
          BY <1>1, <4>1, TwoPieces DEF One
        <4>3. IsPiece(unsent[1], "end", asked[c])
          BY <4>1, TwoPieces DEF RestOfAnswer, One
        <4>4. RestOfAnswer(unsent, asked[c])
          BY <4>1, <4>3 DEF RestOfAnswer
        <4> QED
          BY <1>1, <1>2, <1>3, <3>1, <3>2, <3>3, <4>2, <4>4
          DEF AnswerInv, Answering, Reading
      <3>4. CASE ~Answering(c)
        <4>1. RestOfAnswer(toClient'[c], asked[c])
          <5>1. RestOfAnswer(toClient[c], asked[c])
            BY <1>1, <3>4 DEF AnswerInv
          <5> QED
            BY <1>1, <2>2, <5>1, RestTaken
        <4>2. RestOfAnswer(toClient[c], asked[c])'
          BY <3>1, <4>1
        <4> QED
          BY <1>1, <1>2, <1>3, <3>1, <3>2, <3>4, <4>2
          DEF AnswerInv, Answering, Reading
      <3> QED
        BY <3>3, <3>4
    <2> QED
      BY <2>1, <2>2
  <1> QED
    BY <1>1, <1>4, <1>5, <1>6, ClientStepIInv

LEMMA InitIInv ==
  Init => IInv
  <1> SUFFICES ASSUME Init
               PROVE  IInv
    OBVIOUS
  <1>1. TypeOK
    BY DescriptorsAssumption, RequestsAssumption DEF Init, TypeOK
  <1>2. KnownInv
    BY DescriptorsAssumption, NoOneAssumption
    DEF Init, KnownInv, Known, NoServerError, Occurs, IsInjective
  <1>3. \A c \in Clients : RequestInv(c) /\ AnswerInv(c)
    BY DEF Init, RequestInv, AnswerInv, Reading, Answering
  <1> QED
    BY <1>1, <1>2, <1>3 DEF IInv

\* When the process ends, unless it does so in the middle of an answer.
LEMMA EndsIInv ==
  ASSUME IInv, NEW how \in {"exited", "crashed"}, Ends(how), pc # "answer"
  PROVE  IInv'
  <1>1. TypeOK'
    BY RequestsAssumption DEF Ends, storeVars, IInv, TypeOK
  <1>2. KnownInv'
    <2>1. /\ pc' = how /\ backlog' = <<>> /\ connections' = <<>>
          /\ pending_socket' = NoOne /\ leaked' = leaked
          /\ \A c \in Clients : link'[c] # "open"
      BY DEF Ends, storeVars
    <2>2. \A c \in Clients : ~Known(c)'
      BY <2>1, NoOneAssumption DEF Known, Occurs
    <2>3. leaked \in 0..Descriptors
      BY DEF IInv, TypeOK
    <2> QED
      BY <2>1, <2>2, <2>3, NoOneAssumption, DescriptorsAssumption
      DEF KnownInv, NoServerError, Occurs, IsInjective
  <1>3. ASSUME NEW c \in Clients
        PROVE  RequestInv(c)' /\ AnswerInv(c)'
    <2>1. RequestInv(c) /\ AnswerInv(c)
      BY DEF IInv
    <2>2. /\ link'[c] = IF link[c] = "open" THEN "dropped" ELSE link[c]
          /\ toServer'[c] = <<>> /\ ~Reading(c)' /\ ~Answering(c)'
          /\ UNCHANGED <<phase, asked, toClient>>
      BY DEF Ends, Reading, Answering
    <2>3. link[c] \in {"none", "open", "left", "dropped"}
      BY DEF IInv, TypeOK
    <2>4. RequestInv(c)'
      BY <2>1, <2>2, <2>3 DEF RequestInv
    <2>5. ~Answering(c)
      BY DEF Answering
    <2>6. AnswerInv(c)'
      BY <2>1, <2>2, <2>3, <2>5 DEF AnswerInv
    <2> QED
      BY <2>4, <2>6
  <1> QED
    BY <1>1, <1>2, <1>3 DEF IInv

\* A step of the loop before it reads from a client: nothing of what clients
\* have sent or are sent moves.
LEMMA LoopStepIInv ==
  ASSUME IInv, TypeOK', KnownInv',
         UNCHANGED <<clientVars, toServer, toClient, request, unsent>>,
         pc \notin {"readEnd", "answer"}, pc' \notin {"readEnd", "answer"}
  PROVE  IInv'
  <1>1. ASSUME NEW c \in Clients
        PROVE  RequestInv(c)' /\ AnswerInv(c)'
    <2>1. RequestInv(c) /\ AnswerInv(c)
      BY DEF IInv
    <2> QED
      BY <2>1, ClientKept DEF clientVars, Reading, Answering
  <1> QED
    BY <1>1 DEF IInv

LEMMA AcceptIInv ==
  ASSUME IInv, Accept
  PROVE  IInv'
  <1>1. pc = "waitForActivity" /\ backlog # <<>> /\ pending_socket = NoOne
    BY DEF Accept, AcceptNext, IInv, KnownInv
  <1>2. CASE Ends("exited")
    BY <1>1, <1>2, EndsIInv
  <1>3. CASE /\ Free > 0
             /\ pending_socket' = Head(backlog)
             /\ backlog' = Tail(backlog)
             /\ pc' = "registerConnection"
             /\ UNCHANGED <<clientVars, toServer, toClient, connections, conn,
                            request, unsent, storeVars>>
    <2>1. /\ backlog' \in Seq(Clients) /\ IsInjective(backlog')
          /\ Head(backlog) \in Clients /\ Occurs(Head(backlog), backlog)
          /\ \A c : Occurs(c, backlog') <=> Occurs(c, backlog) /\ c # Head(backlog)
      BY <1>1, <1>3, TailOnce DEF IInv, KnownInv
    <2>2. TypeOK'
      BY <1>1, <1>3, <2>1 DEF clientVars, storeVars, IInv, TypeOK
    <2>3. KnownInv'
      <3>1. Len(connections) \in Nat /\ leaked \in Nat
        BY DEF IInv, KnownInv, TypeOK
      <3>2. Len(connections) + leaked + 1 <= Descriptors
        BY <1>3, <3>1, DescriptorsAssumption DEF Free
      <3>3. pending_socket' \in Clients /\ pending_socket' # NoOne
        BY <1>3, <2>1, NoOneAssumption
      <3>4. \A c \in Clients : Known(c)' <=> Known(c)
        BY <1>1, <1>3, <2>1, NoOneAssumption DEF Known
      <3>5. \A c \in Clients :
              /\ ~(Occurs(c, backlog) /\ Occurs(c, connections))'
              /\ (pending_socket = c)' =>
                    ~Occurs(c, backlog)' /\ ~Occurs(c, connections)'
        BY <1>3, <2>1 DEF IInv, KnownInv
      <3>6. NoServerError'
        BY <1>3, <3>3 DEF NoServerError
      <3> QED
        BY <1>3, <2>1, <3>2, <3>3, <3>4, <3>5, <3>6
        DEF clientVars, storeVars, IInv, KnownInv
    <2> QED
      BY <1>1, <1>3, <2>2, <2>3, LoopStepIInv
  <1> QED
    BY <1>2, <1>3 DEF Accept, AcceptNext

LEMMA RegisterIInv ==
  ASSUME IInv, RegisterConnection
  PROVE  IInv'
  <1>1. /\ pc = "registerConnection" /\ pending_socket # NoOne
        /\ pending_socket \in Clients
        /\ connections' = Append(connections, pending_socket)
        /\ pending_socket' = NoOne /\ pc' = "waitForActivity"
        /\ UNCHANGED <<clientVars, toServer, toClient, backlog, conn, request,
                       unsent, storeVars>>
    BY DEF RegisterConnection, Registers, IInv, KnownInv, TypeOK
  <1>2. /\ connections' \in Seq(Clients) /\ IsInjective(connections')
        /\ Len(connections') = Len(connections) + 1
        /\ \A c : Occurs(c, connections')
                    <=> Occurs(c, connections) \/ c = pending_socket
    <2>1. ~Occurs(pending_socket, connections)
      BY <1>1 DEF IInv, KnownInv
    <2> QED
      BY <1>1, <2>1, AppendOnce DEF IInv, KnownInv
  <1>3. TypeOK'
    BY <1>1 DEF clientVars, storeVars, IInv, TypeOK
  <1>4. KnownInv'
    <2>1. \A c \in Clients : Known(c)' <=> Known(c)
      BY <1>1, <1>2, NoOneAssumption DEF Known
    <2>2. \A c \in Clients :
            /\ ~(Occurs(c, backlog) /\ Occurs(c, connections))'
            /\ (pending_socket = c)' =>
                  ~Occurs(c, backlog)' /\ ~Occurs(c, connections)'
      BY <1>1, <1>2, NoOneAssumption DEF IInv, KnownInv
    <2>3. NoServerError'
      BY <1>1 DEF NoServerError
    <2>4. Len(connections) + leaked + 1 <= Descriptors
      BY <1>1 DEF IInv, KnownInv
    <2>5. Len(connections') + leaked' + 0 <= Descriptors
      BY <1>1, <1>2, <2>4, DescriptorsAssumption DEF storeVars, IInv, TypeOK, KnownInv
    <2> QED
      BY <1>1, <1>2, <2>1, <2>2, <2>3, <2>5 DEF clientVars, IInv, KnownInv
  <1> QED
    BY <1>1, <1>3, <1>4, LoopStepIInv

LEMMA ReadyIInv ==
  ASSUME IInv, Ready
  PROVE  IInv'
  <1>1. PICK i \in DOMAIN connections : Serves(connections[i])
    BY DEF Ready
  <1>2. connections[i] \in Clients /\ Occurs(connections[i], connections)
    BY DEF IInv, KnownInv, Occurs
  <1>3. TypeOK'
    BY <1>1, <1>2 DEF Serves, clientVars, storeVars, IInv, TypeOK
  <1>4. KnownInv'
    BY <1>1, <1>2
    DEF Serves, clientVars, storeVars, IInv, KnownInv, Known, NoServerError
  <1> QED
    BY <1>1, <1>3, <1>4, LoopStepIInv DEF Serves

LEMMA DeregisterIInv ==
  ASSUME IInv, pc \in {"readCommand", "readEnd"}, DeregisterConnection
  PROVE  IInv'
  <1>1. /\ conn \in Clients /\ Occurs(conn, connections)
        /\ pending_socket = NoOne /\ unsent = <<>>
        /\ link[conn] \in {"open", "left"}
    BY DEF IInv, TypeOK, KnownInv, NoServerError, Known
  <1>2. /\ connections' = Others /\ pc' = "waitForActivity"
        /\ conn' = NoOne /\ request' = NoRequest
        /\ toServer' = [toServer EXCEPT ![conn] = <<>>]
        /\ link' = [link EXCEPT ![conn] = IF @ = "left" THEN "left" ELSE "dropped"]
        /\ UNCHANGED <<phase, asked, toClient, backlog, pending_socket, unsent,
                       storeVars>>
    BY DEF DeregisterConnection, Drops
  <1>3. TypeOK'
    <2>1. toServer' \in [Clients -> Seq(Requests \cup {END, Unexpected})]
      BY <1>1, <1>2 DEF IInv, TypeOK
    <2>2. link' \in [Clients -> {"none", "open", "left", "dropped"}]
      BY <1>1, <1>2 DEF IInv, TypeOK
    <2> QED
      BY <1>1, <1>2, <2>1, <2>2, RequestsAssumption
      DEF storeVars, IInv, TypeOK
  <1>4. KnownInv'
    <2>1. /\ connections' \in Seq(Clients) /\ IsInjective(connections')
          /\ Len(connections') <= Len(connections)
          /\ \A c : Occurs(c, connections') <=> Occurs(c, connections) /\ c # conn
      BY <1>2, OthersOnce DEF IInv, KnownInv
    <2>2. \A c \in Clients : Known(c)' <=> Known(c) /\ c # conn
      BY <1>1, <1>2, <2>1, NoOneAssumption DEF Known, IInv, KnownInv
    <2>3. \A c \in Clients :
            link'[c] = IF c # conn THEN link[c]
                       ELSE IF link[c] = "left" THEN "left" ELSE "dropped"
      BY <1>2 DEF IInv, TypeOK
    <2>4. Len(connections') + leaked' + 0 <= Descriptors
      <3>1. Len(connections) + leaked + 0 <= Descriptors
        BY <1>1 DEF IInv, KnownInv
      <3>2. /\ Len(connections) \in Nat /\ Len(connections') \in Nat
            /\ leaked \in Nat /\ leaked' = leaked
        BY <1>2, <2>1 DEF storeVars, IInv, KnownInv, TypeOK
      <3> QED
        BY <2>1, <3>1, <3>2, DescriptorsAssumption
    <2>5. NoServerError'
      BY <1>1, <1>2 DEF NoServerError
    <2>6. \A c \in Clients :
            /\ ~(Occurs(c, backlog) /\ Occurs(c, connections))'
            /\ (pending_socket = c)' =>
                  ~Occurs(c, backlog)' /\ ~Occurs(c, connections)'
      BY <1>1, <1>2, <2>1, NoOneAssumption DEF IInv, KnownInv
    <2>7. \A c \in Clients :
            /\ link'[c] = "open" => Known(c)'
            /\ Known(c)' => link'[c] \in {"open", "left"}
      BY <2>2, <2>3 DEF IInv, KnownInv
    <2> QED
      BY <1>1, <1>2, <2>1, <2>4, <2>5, <2>6, <2>7 DEF IInv, KnownInv
  <1>5. ASSUME NEW c \in Clients
        PROVE  RequestInv(c)' /\ AnswerInv(c)'
    <2>1. RequestInv(c) /\ AnswerInv(c)
      BY DEF IInv
    <2>2. ~Reading(c)' /\ ~Answering(c)' /\ ~Answering(c)
      BY <1>2 DEF Reading, Answering
    <2>3. CASE c = conn
      <3>1. /\ toServer'[c] = <<>>
            /\ link'[c] = IF link[c] = "left" THEN "left" ELSE "dropped"
        BY <1>1, <1>2, <2>3 DEF IInv, TypeOK
      <3>2. RequestInv(c)'
        BY <1>1, <1>2, <2>1, <2>2, <2>3, <3>1 DEF RequestInv
      <3>3. AnswerInv(c)'
        BY <1>1, <1>2, <2>1, <2>2, <2>3, <3>1 DEF AnswerInv
      <3> QED
        BY <3>2, <3>3
    <2>4. CASE c # conn
      <3>1. toServer'[c] = toServer[c] /\ link'[c] = link[c]
        BY <1>1, <1>2, <2>4 DEF IInv, TypeOK
      <3>2. ~Reading(c)
        BY <2>4 DEF Reading
      <3> QED
        BY <1>2, <2>1, <2>2, <3>1, <3>2, ClientKept
    <2> QED
      BY <2>3, <2>4
  <1> QED
    BY <1>3, <1>4, <1>5 DEF IInv

LEMMA ReadCommandIInv ==
  ASSUME IInv, ReadCommand
  PROVE  IInv'
  <1>1. CASE DeregisterConnection
    BY <1>1, DeregisterIInv DEF ReadCommand
  <1>2. CASE /\ NextIs(Requests)
             /\ request' = Head(toServer[conn])
             /\ toServer' = [toServer EXCEPT ![conn] = Tail(@)]
             /\ pc' = "readEnd"
             /\ UNCHANGED <<clientVars, toClient, backlog, pending_socket,
                            connections, conn, unsent, storeVars>>
    <2>1. /\ pc = "readCommand" /\ conn \in Clients /\ unsent = <<>>
          /\ toServer[conn] # <<>> /\ Head(toServer[conn]) \in Requests
          /\ toServer[conn] \in Seq(Requests \cup {END, Unexpected})
      BY <1>2 DEF ReadCommand, NextIs, IInv, TypeOK
    <2>2. Tail(toServer[conn]) \in Seq(Requests \cup {END, Unexpected})
      BY <2>1
    <2>3. /\ toServer' \in [Clients -> Seq(Requests \cup {END, Unexpected})]
          /\ toServer'[conn] = Tail(toServer[conn])
          /\ \A d \in Clients \ {conn} : toServer'[d] = toServer[d]
      BY <1>2, <2>1, <2>2 DEF IInv, TypeOK
    <2>4. TypeOK'
      BY <1>2, <2>1, <2>3, RequestsAssumption DEF clientVars, storeVars, IInv, TypeOK
    <2>5. KnownInv'
      BY <1>2, <2>1 DEF clientVars, storeVars, IInv, KnownInv, Known, NoServerError
    <2>6. ASSUME NEW c \in Clients
          PROVE  RequestInv(c)' /\ AnswerInv(c)'
      <3>1. RequestInv(c) /\ AnswerInv(c) /\ ~Reading(c) /\ ~Answering(c) /\ ~Answering(c)'
        BY <1>2, <2>1 DEF IInv, Reading, Answering
      <3>2. UNCHANGED <<link, phase, asked, toClient>>
        BY <1>2 DEF clientVars
      <3>3. CASE c = conn
        <4>1. Reading(c)'
          BY <1>2, <3>3 DEF Reading
        <4>2. AnswerInv(c)'
          BY <2>1, <3>1, <3>2, <3>3 DEF AnswerInv
        <4>3. toServer[c] # <<>> /\ Head(toServer[c]) \in Requests
          BY <2>1, <3>3
        <4>4. Unexpected \notin Requests
          BY RequestsAssumption
        <4>5. CASE phase[c] = "sending" /\ asked[c] \in Requests
                     /\ toServer[c] = <<asked[c]>>
          <5>1. request' = asked'[c] /\ toServer'[c] = <<>>
            BY <1>2, <2>3, <3>2, <3>3, <4>5, TwoPieces
          <5> QED
            BY <3>1, <3>2, <4>1, <4>2, <4>5, <5>1 DEF RequestInv
        <4>6. CASE phase[c] = "waiting" /\ asked[c] \in Requests
                     /\ toServer[c] = <<asked[c], END>>
          <5>1. request' = asked'[c] /\ toServer'[c] = <<END>>
            BY <1>2, <2>3, <3>2, <3>3, <4>6, TwoPieces
          <5> QED
            BY <3>1, <3>2, <4>1, <4>2, <4>6, <5>1 DEF RequestInv
        <4>7. CASE phase[c] = "waiting" /\ asked[c] = NoRequest
                     /\ \E r \in Requests : toServer[c] = <<r, Unexpected>>
          <5>1. toServer'[c] = <<Unexpected>>
            BY <2>3, <3>3, <4>7, TwoPieces
          <5> QED
            BY <3>1, <3>2, <4>1, <4>2, <4>7, <5>1 DEF RequestInv
        <4>8. toServer[c] # <<Unexpected>>
          BY <4>3, <4>4, TwoPieces
        <4> QED
          BY <3>1, <4>3, <4>5, <4>6, <4>7, <4>8 DEF RequestInv
      <3>4. CASE c # conn
        <4>1. ~Reading(c)'
          BY <1>2, <3>4 DEF Reading
        <4> QED
          BY <2>3, <3>1, <3>2, <3>4, <4>1, ClientKept
      <3> QED
        BY <3>3, <3>4
    <2> QED
      BY <2>4, <2>5, <2>6 DEF IInv
  <1> QED
    BY <1>1, <1>2 DEF ReadCommand

\* The store's answer names the call it answers.
LEMMA PerformAnswers ==
  ASSUME NEW r \in Db!Calls, Db!Perform(r)
  PROVE  answer'.call = r
  <1>1. CASE r[1] = "listNewsGroups" /\ Db!ListNewsGroups
    <2>1. r = <<"listNewsGroups">>
      BY <1>1 DEF Db!Calls
    <2> QED
      BY <1>1, <2>1 DEF Db!ListNewsGroups, Db!Answer
  <1>2. CASE r[1] = "createNewsGroup" /\ Db!CreateNewsGroup(r[2])
    <2>1. r = <<"createNewsGroup", r[2]>>
      BY <1>2 DEF Db!Calls
    <2> QED
      BY <1>2, <2>1 DEF Db!CreateNewsGroup, Db!Fails, Db!Answer
  <1>3. CASE r[1] = "deleteNewsGroup" /\ Db!DeleteNewsGroup(r[2])
    <2>1. r = <<"deleteNewsGroup", r[2]>>
      BY <1>3 DEF Db!Calls
    <2> QED
      BY <1>3, <2>1 DEF Db!DeleteNewsGroup, Db!Fails, Db!Answer
  <1>4. CASE r[1] = "listArticles" /\ Db!ListArticles(r[2])
    <2>1. r = <<"listArticles", r[2]>>
      BY <1>4 DEF Db!Calls
    <2> QED
      BY <1>4, <2>1 DEF Db!ListArticles, Db!Fails, Db!Answer
  <1>5. CASE r[1] = "createArticle" /\ Db!CreateArticle(r[2], r[3], r[4], r[5])
    <2>1. r = <<"createArticle", r[2], r[3], r[4], r[5]>>
      BY <1>5 DEF Db!Calls
    <2> QED
      BY <1>5, <2>1 DEF Db!CreateArticle, Db!Fails, Db!Answer
  <1>6. CASE r[1] = "deleteArticle" /\ Db!DeleteArticle(r[2], r[3])
    <2>1. r = <<"deleteArticle", r[2], r[3]>>
      BY <1>6 DEF Db!Calls
    <2> QED
      BY <1>6, <2>1 DEF Db!DeleteArticle, Db!Fails, Db!Answer
  <1>7. CASE r[1] = "getNewsArticle" /\ Db!GetNewsArticle(r[2], r[3])
    <2>1. r = <<"getNewsArticle", r[2], r[3]>>
      BY <1>7 DEF Db!Calls
    <2> QED
      BY <1>7, <2>1 DEF Db!GetNewsArticle, Db!Fails, Db!Answer
  <1> QED
    BY <1>1, <1>2, <1>3, <1>4, <1>5, <1>6, <1>7 DEF Db!Perform

\* Both pieces of a reply are for the call it is the reply to.
LEMMA ReplyRest ==
  ASSUME NEW a
  PROVE  RestOfAnswer(Reply(a), a.call)
  <1> DEFINE piece(part) ==
        [part |-> part, ans |-> AnswerCode[a.call[1]],
         ack |-> IF a.code = ANS_ACK THEN ANS_ACK ELSE ANS_NAK,
         code |-> a.code, result |-> a.result, for |-> a.call]
  <1>1. Reply(a) = <<piece("start"), piece("end")>>
    BY DEF Reply
  <1>2. /\ IsPiece(piece("start"), "start", a.call)
        /\ IsPiece(piece("end"), "end", a.call)
        /\ piece("start").code = piece("end").code
        /\ piece("start").result = piece("end").result
    BY DEF IsPiece
  <1> HIDE DEF piece
  <1> QED
    BY <1>1, <1>2, TwoPieces DEF RestOfAnswer, Two

\* When COM_END is read, what was read before it is what the client asked for.
LEMMA WholeRequest ==
  ASSUME IInv, pc = "readEnd", NextIs({END})
  PROVE  /\ phase[conn] = "waiting" /\ asked[conn] \in Requests
         /\ request = asked[conn] /\ toServer[conn] = <<END>>
         /\ toClient[conn] = <<>>
  <1>1. /\ conn \in Clients /\ request \in Requests
        /\ Head(toServer[conn]) = END /\ toServer[conn] # <<>>
        /\ RequestInv(conn) /\ AnswerInv(conn)
    BY DEF NextIs, IInv, TypeOK
  <1>2. Reading(conn)
    BY <1>1 DEF Reading
  <1>3. toServer[conn] # <<Unexpected>>
    BY <1>1, RequestsAssumption, TwoPieces
  <1> QED
    BY <1>1, <1>2, <1>3 DEF RequestInv, AnswerInv

LEMMA ReadEndIInv ==
  ASSUME IInv, ReadEnd
  PROVE  IInv'
  <1>1. CASE DeregisterConnection
    BY <1>1, DeregisterIInv DEF ReadEnd
  <1>2. CASE Ends("crashed")
    BY <1>2, EndsIInv DEF ReadEnd
  <1>3. CASE /\ NextIs({END})
             /\ Performs
             /\ unsent' = Reply(answer')
             /\ toServer' = [toServer EXCEPT ![conn] = Tail(@)]
             /\ pc' = "answer"
             /\ request' = NoRequest
             /\ UNCHANGED <<clientVars, toClient, backlog, pending_socket,
                            connections, conn>>
    <2>1. pc = "readEnd" /\ conn \in Clients /\ pending_socket = NoOne
      BY <1>3 DEF ReadEnd, IInv, TypeOK, KnownInv
    <2>2. /\ phase[conn] = "waiting" /\ asked[conn] \in Requests
          /\ request = asked[conn] /\ toServer[conn] = <<END>>
          /\ toClient[conn] = <<>>
      BY <1>3, <2>1, WholeRequest
    <2>3. /\ toServer' \in [Clients -> Seq(Requests \cup {END, Unexpected})]
          /\ toServer'[conn] = <<>>
          /\ \A d \in Clients \ {conn} : toServer'[d] = toServer[d]
      BY <1>3, <2>1, <2>2, TwoPieces DEF IInv, TypeOK
    <2>4. RestOfAnswer(unsent', asked[conn])
      <3>1. answer'.call = request
        BY <1>3, <2>2, RequestsAssumption, PerformAnswers DEF Performs
      <3> QED
        BY <1>3, <2>2, <3>1, ReplyRest
    <2>5. unsent' # <<>>
      BY <2>4, RestTaken
    <2>6. /\ leaked' \in 0..Descriptors
          /\ Len(connections) + leaked' + 0 <= Descriptors
      <3>1. PICK k \in Kept : k <= Free /\ leaked' = leaked + k
        BY <1>3 DEF Performs
      <3>2. k \in Nat /\ leaked \in 0..Descriptors /\ Len(connections) \in Nat
        BY KeptAssumption DEF IInv, TypeOK, KnownInv
      <3> QED
        BY <3>1, <3>2, DescriptorsAssumption DEF Free
    <2>7. TypeOK'
      BY <1>3, <2>1, <2>3, <2>5, <2>6, RequestsAssumption
      DEF clientVars, IInv, TypeOK
    <2>8. KnownInv'
      BY <1>3, <2>1, <2>6
      DEF clientVars, IInv, KnownInv, Known, NoServerError
    <2>9. ASSUME NEW c \in Clients
           PROVE  RequestInv(c)' /\ AnswerInv(c)'
      <3>1. /\ RequestInv(c) /\ AnswerInv(c)
            /\ ~Answering(c) /\ ~Reading(c)'
            /\ UNCHANGED <<link, phase, asked, toClient>>
        BY <1>3, <2>1 DEF IInv, Reading, Answering, clientVars
      <3>2. CASE c = conn
        <4>1. RequestInv(c)'
          BY <2>2, <2>3, <3>1, <3>2 DEF RequestInv
        <4>2. AnswerInv(c)'
          <5>1. Answering(c)'
            BY <1>3, <3>2 DEF Answering
          <5>2. RestOfAnswer(unsent, asked[c])'
            BY <2>4, <3>1, <3>2
          <5> QED
            BY <2>2, <2>3, <3>1, <3>2, <5>1, <5>2 DEF AnswerInv
        <4> QED
          BY <4>1, <4>2
      <3>3. CASE c # conn
        <4>1. ~Reading(c) /\ ~Answering(c)'
          BY <1>3, <3>3 DEF Reading, Answering
        <4> QED
          BY <2>3, <3>1, <3>3, <4>1, ClientKept
      <3> QED
        BY <3>2, <3>3
    <2> QED
      BY <2>7, <2>8, <2>9 DEF IInv
  <1> QED
    BY <1>1, <1>2, <1>3 DEF ReadEnd

\* What one step of Answer leaves to be sent, and to be read.
LEMMA PieceSent ==
  ASSUME NEW c, Answering(c), AnswerInv(c), Sending(c), toClient' =
           [toClient EXCEPT ![c] = toClient'[c]], c \in DOMAIN toClient,
         link[c] \in {"open", "left"}, unsent' = Tail(unsent)
  PROVE  \/ /\ Len(unsent) = 1 /\ unsent' = <<>>
            /\ toClient'[c] = <<>> \/ RestOfAnswer(toClient'[c], asked[c])
         \/ /\ Len(unsent) = 2 /\ One(unsent')
            /\ \/ link[c] = "left" /\ toClient'[c] = <<>>
                  /\ RestOfAnswer(unsent', asked[c])
               \/ /\ link[c] = "open" /\ One(toClient'[c])
                  /\ RestOfAnswer(<<toClient'[c][1], unsent'[1]>>, asked[c])
  <1>1. link[c] = "left" => toClient[c] = <<>>
    BY DEF AnswerInv
  <1>2. toClient'[c] = IF link[c] = "open" THEN Append(toClient[c], Head(unsent))
                       ELSE toClient[c]
    BY DEF Sending
  <1>3. CASE /\ toClient[c] = <<>>
             /\ One(unsent) /\ IsPiece(unsent[1], "end", asked[c])
    <2>1. unsent = <<unsent[1]>> /\ Len(unsent) = 1
      BY <1>3 DEF One
    <2>2. unsent' = <<>> /\ Head(unsent) = unsent[1]
      BY <2>1, TwoPieces
    <2>3. toClient'[c] \in {<<>>, unsent}
      BY <1>2, <1>3, <2>1, <2>2, TwoPieces
    <2>4. RestOfAnswer(unsent, asked[c])
      BY <1>3 DEF RestOfAnswer
    <2> QED
      BY <2>1, <2>2, <2>3, <2>4
  <1>4. CASE /\ toClient[c] = <<>>
             /\ Two(unsent) /\ RestOfAnswer(unsent, asked[c])
             /\ IsPiece(unsent[2], "end", asked[c])
    <2> DEFINE x == unsent[1]
               y == unsent[2]
    <2>1. unsent = <<x, y>> /\ Len(unsent) = 2
      BY <1>4 DEF Two
    <2> HIDE DEF x, y
    <2>2. unsent' = <<y>> /\ Head(unsent) = x
      BY <2>1, TwoPieces
    <2>3. One(unsent') /\ unsent'[1] = y
      BY <2>2, OnePiece
    <2>4. CASE link[c] = "open"
      <3>1. toClient'[c] = <<x>>
        BY <1>2, <1>4, <2>2, <2>4, TwoPieces
      <3>2. One(toClient'[c]) /\ toClient'[c][1] = x
        BY <3>1, TwoPieces DEF One
      <3> QED
        BY <1>4, <2>1, <2>3, <2>4, <3>2
    <2>5. CASE link[c] = "left"
      <3>1. RestOfAnswer(unsent', asked[c])
        BY <1>4, <2>3 DEF RestOfAnswer, y
      <3> QED
        BY <1>1, <1>2, <2>1, <2>3, <2>5, <3>1
    <2> QED
      BY <2>4, <2>5
  <1>5. CASE /\ One(toClient[c]) /\ One(unsent)
             /\ RestOfAnswer(<<toClient[c][1], unsent[1]>>, asked[c])
    <2> DEFINE x == toClient[c][1]
               y == unsent[1]
    <2>1. /\ toClient[c] = <<x>> /\ unsent = <<y>> /\ Len(unsent) = 1
          /\ RestOfAnswer(<<x, y>>, asked[c])
      BY <1>5 DEF One
    <2> HIDE DEF x, y
    <2>2. unsent' = <<>> /\ Head(unsent) = y /\ toClient[c] # <<>>
      BY <2>1, TwoPieces
    <2>3. toClient'[c] = <<x, y>>
      BY <1>1, <1>2, <2>1, <2>2, TwoPieces
    <2> QED
      BY <2>1, <2>2, <2>3
  <1> QED
    BY <1>3, <1>4, <1>5 DEF AnswerInv, RestOfAnswer

LEMMA AnswerIInv ==
  ASSUME IInv, Answer
  PROVE  IInv'
  <1>1. /\ pc = "answer" /\ conn \in Clients /\ unsent # <<>>
        /\ Sending(conn) /\ unsent' = Tail(unsent)
        /\ UNCHANGED <<clientVars, toServer, backlog, pending_socket,
                       connections, request, storeVars>>
        /\ IF Len(unsent) = 1 THEN pc' = "waitForActivity" /\ conn' = NoOne
           ELSE UNCHANGED <<pc, conn>>
    BY DEF Answer, Send, IInv, TypeOK
  <1>2. /\ UNCHANGED <<link, phase, asked>>
        /\ \A d \in Clients \ {conn} : toClient'[d] = toClient[d]
        /\ toClient' = [toClient EXCEPT ![conn] = toClient'[conn]]
        /\ conn \in DOMAIN toClient /\ toClient' \in [Clients -> {toClient'[c] : c \in Clients}]
    BY <1>1 DEF clientVars, Sending, IInv, TypeOK
  <1>3. /\ Answering(conn) /\ AnswerInv(conn)
        /\ link[conn] \in {"open", "left"}
    BY <1>1 DEF Answering, IInv, KnownInv, NoServerError, Known
  <1>4. \/ /\ Len(unsent) = 1 /\ unsent' = <<>>
           /\ toClient'[conn] = <<>> \/ RestOfAnswer(toClient'[conn], asked[conn])
        \/ /\ Len(unsent) = 2 /\ One(unsent')
           /\ \/ link[conn] = "left" /\ toClient'[conn] = <<>>
                 /\ RestOfAnswer(unsent', asked[conn])
              \/ /\ link[conn] = "open" /\ One(toClient'[conn])
                 /\ RestOfAnswer(<<toClient'[conn][1], unsent'[1]>>, asked[conn])
    BY <1>1, <1>2, <1>3, PieceSent
  <1>5. TypeOK'
    <2>1. One(unsent') => unsent' # <<>>
      BY OnePiece DEF One
    <2>2. pc' = "answer" <=> unsent' # <<>>
      BY <1>1, <1>4, <2>1
    <2>3. pc' \in {"waitForActivity", "answer"}
      BY <1>1
    <2>4. conn' \in IF pc' = "answer" THEN Clients ELSE {NoOne}
      BY <1>1
    <2>5. request' = NoRequest
      BY <1>1 DEF IInv, TypeOK
    <2> QED
      BY <1>1, <1>2, <2>2, <2>3, <2>4, <2>5
      DEF clientVars, storeVars, IInv, TypeOK
  <1>6. KnownInv'
    BY <1>1 DEF clientVars, storeVars, IInv, KnownInv, Known, NoServerError
  <1>7. ASSUME NEW c \in Clients
        PROVE  RequestInv(c)' /\ AnswerInv(c)'
    <2>1. RequestInv(c) /\ AnswerInv(c) /\ ~Reading(c) /\ ~Reading(c)'
      BY <1>1 DEF IInv, Reading
    <2>2. RequestInv(c)'
      BY <1>1, <1>2, <2>1 DEF RequestInv
    <2>3. CASE c = conn
      <3>1. /\ phase[c] = "waiting" /\ asked[c] \in Requests
            /\ toServer[c] = <<>>
        BY <1>3, <2>3 DEF AnswerInv
      <3>2. CASE /\ Len(unsent) = 1
                 /\ toClient'[c] = <<>> \/ RestOfAnswer(toClient'[c], asked[c])
        <4>1. ~Answering(c)'
          BY <1>1, <3>2 DEF Answering
        <4>2. toClient[c]' = <<>> \/ RestOfAnswer(toClient[c], asked[c])'
          BY <1>2, <3>2
        <4>3. link[c] = "left" => toClient'[c] = <<>>
          BY <1>3, <2>3 DEF AnswerInv, Sending, Answer, Send
        <4>4. toServer'[c] = <<>> /\ link[c] \in {"open", "left"}
          BY <1>1, <1>3, <2>3, <3>1
        <4> QED
          BY <1>2, <2>1, <2>2, <3>1, <4>1, <4>2, <4>3, <4>4 DEF AnswerInv
      <3>3. CASE /\ Len(unsent) = 2 /\ One(unsent')
                 /\ \/ link[c] = "left" /\ toClient'[c] = <<>>
                       /\ RestOfAnswer(unsent', asked[c])
                    \/ /\ link[c] = "open" /\ One(toClient'[c])
                       /\ RestOfAnswer(<<toClient'[c][1], unsent'[1]>>, asked[c])
        <4>1. Answering(c)'
          BY <1>1, <1>3, <2>3, <3>3 DEF Answering
        <4>2. \/ toClient[c]' = <<>> /\ RestOfAnswer(unsent, asked[c])'
              \/ /\ One(toClient[c])' /\ One(unsent)'
                 /\ RestOfAnswer(<<toClient[c][1], unsent[1]>>, asked[c])'
          BY <1>2, <3>3
        <4>3. link[c] = "left" => toClient'[c] = <<>>
          BY <3>3
        <4>4. toServer'[c] = <<>> /\ link[c] \in {"open", "left"}
          BY <1>1, <1>3, <2>3, <3>1
        <4> QED
          BY <1>2, <2>1, <2>2, <3>1, <4>1, <4>2, <4>3, <4>4 DEF AnswerInv
      <3> QED
        BY <1>4, <2>2, <2>3, <3>2, <3>3
    <2>4. CASE c # conn
      <3>1. ~Answering(c) /\ ~Answering(c)'
        BY <1>1, <2>4 DEF Answering
      <3> QED
        BY <1>1, <1>2, <2>1, <2>4, <3>1, ClientKept
    <2> QED
      BY <2>2, <2>3, <2>4
  <1> QED
    BY <1>5, <1>6, <1>7 DEF IInv

LEMMA NextIInv ==
  IInv /\ [Next]_vars => IInv'
  <1> SUFFICES ASSUME IInv, [Next]_vars
               PROVE  IInv'
    OBVIOUS
  <1>1. CASE Accept
    BY <1>1, AcceptIInv
  <1>2. CASE RegisterConnection
    BY <1>2, RegisterIInv
  <1>3. CASE Ready
    BY <1>3, ReadyIInv
  <1>4. CASE ReadCommand
    BY <1>4, ReadCommandIInv
  <1>5. CASE ReadEnd
    BY <1>5, ReadEndIInv
  <1>6. CASE Answer
    BY <1>6, AnswerIInv
  <1>7. ASSUME NEW c \in Clients,
               \/ Connect(c) \/ Finish(c) \/ Stray(c) \/ Receive(c) \/ Leave(c)
               \/ \E r \in Requests : Ask(c, r)
        PROVE  IInv'
    BY <1>7, ConnectIInv, FinishIInv, StrayIInv, ReceiveIInv, LeaveIInv, AskIInv
  <1>8. CASE UNCHANGED vars
    <2>1. TypeOK'
      BY <1>8 DEF vars, clientVars, serverVars, storeVars, IInv, TypeOK
    <2>2. KnownInv'
      BY <1>8
      DEF vars, clientVars, serverVars, storeVars, IInv, KnownInv, Known,
          NoServerError
    <2>3. ASSUME NEW c \in Clients
          PROVE  RequestInv(c)' /\ AnswerInv(c)'
      <3>1. RequestInv(c) /\ AnswerInv(c)
        BY DEF IInv
      <3> QED
        BY <1>8, <3>1, ClientKept
        DEF vars, clientVars, serverVars, Reading, Answering
    <2> QED
      BY <2>1, <2>2, <2>3 DEF IInv
  <1> QED
    BY <1>1, <1>2, <1>3, <1>4, <1>5, <1>6, <1>7, <1>8 DEF Next, Serve

-------------------------------------------------------------------------------
(* The inductive invariant holds, and what follows from it.                  *)

\* Clients are known where they should be, and as much of every request and
\* of every answer is on its way as has been written and not yet read.
THEOREM Inductive == Spec => []IInv
  BY InitIInv, NextIInv, PTL DEF Spec

\* The variables of the loop are set when the code that reads them runs.
THEOREM TypeCorrect == Spec => []TypeOK
  <1>1. IInv => TypeOK
    BY DEF IInv
  <1> QED
    BY <1>1, Inductive, PTL

\* Server::error() is never called but for want of a descriptor: the state
\* it checks (pending_socket, and that every activity has a client) is right.
THEOREM ServerStateIsSound == Spec => []NoServerError
  <1>1. IInv => NoServerError
    BY DEF IInv, KnownInv
  <1> QED
    BY <1>1, Inductive, PTL

LEMMA PlacesOnce ==
  ASSUME NEW S, NEW s \in Seq(S), IsInjective(s), NEW c, NEW name
  PROVE  LET places == {<<name, i>> : i \in {i \in DOMAIN s : s[i] = c}}
         IN  /\ ~Occurs(c, s) => places = {}
             /\ Occurs(c, s) => \E x : places = {x}
  <1>1. CASE ~Occurs(c, s)
    BY <1>1 DEF Occurs
  <1>2. CASE Occurs(c, s)
    <2>1. PICK i \in DOMAIN s : s[i] = c
      BY <1>2 DEF Occurs
    <2>2. {j \in DOMAIN s : s[j] = c} = {i}
      BY <2>1 DEF IsInjective
    <2>3. {<<name, j>> : j \in {i}} = {<<name, i>>}
      OBVIOUS
    <2> QED
      BY <1>2, <2>2, <2>3
  <1> QED
    BY <1>1, <1>2

LEMMA KnownOnceFromIInv ==
  IInv => KnownOnce
  <1> SUFFICES ASSUME IInv, NEW c \in Clients
               PROVE  LET places == {<<"backlog", i>> :
                                i \in {i \in DOMAIN backlog : backlog[i] = c}}
                           \cup {<<"connections", i>> :
                                i \in {i \in DOMAIN connections : connections[i] = c}}
                           \cup (IF pending_socket = c THEN {<<"pending", 1>>} ELSE {})
                      IN  /\ link[c] = "open" => Cardinality(places) = 1
                          /\ link[c] = "left" => Cardinality(places) <= 1
                          /\ link[c] \in {"none", "dropped"} => places = {}
    BY DEF KnownOnce
  <1> DEFINE Q == {<<"backlog", i>> : i \in {i \in DOMAIN backlog : backlog[i] = c}}
             R == {<<"connections", i>> :
                      i \in {i \in DOMAIN connections : connections[i] = c}}
             P == IF pending_socket = c THEN {<<"pending", 1>>} ELSE {}
  <1>1. /\ ~Occurs(c, backlog) => Q = {}
        /\ Occurs(c, backlog) => \E x : Q = {x}
    BY PlacesOnce DEF IInv, KnownInv
  <1>2. /\ ~Occurs(c, connections) => R = {}
        /\ Occurs(c, connections) => \E x : R = {x}
    BY PlacesOnce DEF IInv, KnownInv
  <1>3. /\ pending_socket # c => P = {}
        /\ pending_socket = c => \E x : P = {x}
    OBVIOUS
  <1> HIDE DEF P, Q, R
  <1>4. /\ ~(Occurs(c, backlog) /\ Occurs(c, connections))
        /\ pending_socket = c => ~Occurs(c, backlog) /\ ~Occurs(c, connections)
        /\ link[c] = "open" => Known(c)
        /\ Known(c) => link[c] \in {"open", "left"}
    BY DEF IInv, KnownInv
  <1>5. /\ Known(c) => \E x : Q \cup R \cup P = {x}
        /\ ~Known(c) => Q \cup R \cup P = {}
    BY <1>1, <1>2, <1>3, <1>4 DEF Known
  <1>6. /\ Known(c) => Cardinality(Q \cup R \cup P) = 1
        /\ ~Known(c) => Cardinality(Q \cup R \cup P) = 0
    BY <1>5, FS_Singleton, FS_EmptySet
  <1>7. /\ link[c] = "open" => Cardinality(Q \cup R \cup P) = 1
        /\ link[c] = "left" => Cardinality(Q \cup R \cup P) <= 1
        /\ link[c] \in {"none", "dropped"} => Q \cup R \cup P = {}
    BY <1>4, <1>5, <1>6
  <1> QED
    BY <1>7 DEF P, Q, R

\* A client that is there is in exactly one of the queue of accept,
\* pending_socket and the registered connections, and one that was dropped is
\* in none.
THEOREM ClientsKnownOnce == Spec => []KnownOnce
  BY KnownOnceFromIInv, Inductive, PTL

LEMMA JoinedOnes ==
  ASSUME NEW S, NEW s \in Seq(S), NEW t \in Seq(S), Len(s) = 1, Len(t) = 1
  PROVE  s \o t = <<s[1], t[1]>>
  <1> DEFINE u == s \o t
  <1>1. /\ u \in Seq(S)
        /\ Len(u) = Len(s) + Len(t)
        /\ \A i \in 1..(Len(s) + Len(t)) :
             u[i] = IF i <= Len(s) THEN s[i] ELSE t[i - Len(s)]
    BY ConcatProperties
  <1> HIDE DEF u
  <1>2. Len(u) = 2 /\ u[1] = s[1] /\ u[2] = t[1]
    <2>1. 1 \in 1..2 /\ 2 \in 1..2 /\ 2 - 1 = 1 /\ 1 + 1 = 2
      OBVIOUS
    <2> QED
      BY <1>1, <2>1
  <1>3. u = <<u[1], u[2]>>
    BY <1>1, <1>2, TwoElements
  <1> QED
    BY <1>2, <1>3 DEF u

LEMMA JoinedPieces ==
  ASSUME NEW x, NEW y
  PROVE  /\ <<x>> \o <<>> = <<x>>
         /\ <<x, y>> \o <<>> = <<x, y>>
         /\ <<x>> \o <<y>> = <<x, y>>
  <1>1. \A S : \A s \in Seq(S) : s \o <<>> = s
    OBVIOUS
  <1>2. <<x>> \in Seq({x, y}) /\ <<x, y>> \in Seq({x, y})
    OBVIOUS
  <1>3. <<x>> \o <<y>> = <<x, y>>
    <2>1. <<x>> \in Seq({x, y}) /\ <<y>> \in Seq({x, y})
      OBVIOUS
    <2>2. Len(<<x>>) = 1 /\ Len(<<y>>) = 1 /\ <<x>>[1] = x /\ <<y>>[1] = y
      OBVIOUS
    <2> QED
      BY ONLY <2>1, <2>2, JoinedOnes
  <1> QED
    BY <1>1, <1>2, <1>3

\* A whole answer, or the end of one, is for one request and ends once.
LEMMA RestEndsOnce ==
  ASSUME NEW s, NEW r, RestOfAnswer(s, r)
  PROVE  /\ DOMAIN s = 1..Len(s)
         /\ \A i \in DOMAIN s : s[i].for = r /\ (s[i].part = "end" <=> i = Len(s))
         /\ Last(s).part = "end"
  <1>1. CASE One(s) /\ IsPiece(s[1], "end", r)
    <2>1. DOMAIN s = 1..1 /\ Len(s) = 1
      <3>1. DOMAIN <<s[1]>> = 1..1
        OBVIOUS
      <3> QED
        BY <1>1, <3>1 DEF One
    <2> QED
      BY <1>1, <2>1 DEF IsPiece, Last
  <1>2. CASE Two(s) /\ IsPiece(s[1], "start", r) /\ IsPiece(s[2], "end", r)
    <2>1. DOMAIN s = 1..2 /\ Len(s) = 2
      <3>1. DOMAIN <<s[1], s[2]>> = 1..2
        OBVIOUS
      <3> QED
        BY <1>2, <3>1 DEF Two
    <2>2. \A i \in 1..2 : i = 1 \/ i = 2
      OBVIOUS
    <2> QED
      BY <1>2, <2>1, <2>2 DEF IsPiece, Last
  <1> QED
    BY <1>1, <1>2 DEF RestOfAnswer

\* What a client has yet to read of its answer, once it has something to read.
LEMMA ComingRest ==
  ASSUME IInv, NEW c \in Clients, toClient[c] # <<>>
  PROVE  /\ RestOfAnswer(Coming(c), asked[c])
         /\ \A i \in DOMAIN toClient[c] :
              i \in DOMAIN Coming(c) /\ Coming(c)[i] = toClient[c][i]
  <1>1. AnswerInv(c) /\ TypeOK
    BY DEF IInv
  <1>2. CASE Answering(c)
    <2> DEFINE x == toClient[c][1]
               y == unsent[1]
    <2>1. /\ toClient[c] = <<x>> /\ unsent = <<y>>
          /\ RestOfAnswer(<<x, y>>, asked[c])
      BY <1>1, <1>2 DEF AnswerInv, One
    <2>2. conn = c /\ link[c] = "open"
      <3>1. pc = "answer" /\ conn = c
        BY <1>2 DEF Answering
      <3>2. Occurs(c, connections)
        BY <3>1 DEF IInv, KnownInv, NoServerError
      <3>3. link[c] \in {"open", "left"}
        BY <3>2 DEF IInv, KnownInv, Known
      <3> QED
        BY <1>1, <3>1, <3>3 DEF AnswerInv
    <2> HIDE DEF x, y
    <2>3. Coming(c) = <<x, y>>
      BY <2>1, <2>2, JoinedPieces DEF Coming
    <2>4. /\ DOMAIN toClient[c] = 1..1 /\ DOMAIN <<x, y>> = 1..2
          /\ toClient[c][1] = x /\ <<x, y>>[1] = x
      BY <2>1
    <2> QED
      BY <2>1, <2>3, <2>4
  <1>3. CASE ~Answering(c)
    <2>1. RestOfAnswer(toClient[c], asked[c])
      BY <1>1, <1>3 DEF AnswerInv
    <2>2. Coming(c) = toClient[c] \o <<>>
      <3>1. conn = c => unsent = <<>>
        BY <1>1, <1>3 DEF Answering, TypeOK
      <3> QED
        BY <3>1 DEF Coming
    <2>3. toClient[c] \o <<>> = toClient[c]
      BY <2>1, JoinedPieces DEF RestOfAnswer, One, Two
    <2> QED
      BY <2>1, <2>2, <2>3
  <1> QED
    BY <1>2, <1>3

\* What a client reads is the answer to its own last request, the pieces in
\* order, and all of it as long as the client is there.
THEOREM AnswersReachTheirClients == Spec => []AnswersAreAwaited
  <1>1. IInv => AnswersAreAwaited
    <2> SUFFICES ASSUME IInv, NEW c \in Clients, toClient[c] # <<>>
                 PROVE  /\ phase[c] = "waiting"
                        /\ \A i \in DOMAIN toClient[c] :
                             /\ toClient[c][i].for = asked[c]
                             /\ toClient[c][i].part = "end" <=> i = Len(Coming(c))
                        /\ Last(Coming(c)).part = "end"
      BY DEF AnswersAreAwaited
    <2>1. phase[c] = "waiting"
      BY DEF IInv, AnswerInv
    <2>2. /\ RestOfAnswer(Coming(c), asked[c])
          /\ \A i \in DOMAIN toClient[c] :
               i \in DOMAIN Coming(c) /\ Coming(c)[i] = toClient[c][i]
      BY ComingRest
    <2>3. /\ \A i \in DOMAIN Coming(c) :
               /\ Coming(c)[i].for = asked[c]
               /\ Coming(c)[i].part = "end" <=> i = Len(Coming(c))
          /\ Last(Coming(c)).part = "end"
      BY <2>2, RestEndsOnce
    <2> QED
      BY <2>1, <2>2, <2>3
  <1> QED
    BY <1>1, Inductive, PTL

\* The process exits only when clients that are there or whose turn to be
\* dropped has not come, and the store, hold every descriptor.
THEOREM ExitsForWantOfDescriptors == Spec => ExitsOnlyWhenFull
  <1> DEFINE Registered == {c \in Clients : /\ link[c] \in {"open", "left"}
                                            /\ Occurs(c, connections)}
  <1>1. ASSUME IInv
        PROVE  Cardinality(Registered) = Len(connections)
    <2>1. /\ connections \in [1..Len(connections) -> Clients]
          /\ Len(connections) \in Nat
          /\ \A i, j \in 1..Len(connections) :
               connections[i] = connections[j] => i = j
      BY <1>1 DEF IInv, KnownInv, IsInjective
    <2>2. Registered = {c \in Clients :
                          \E i \in 1..Len(connections) : connections[i] = c}
      <3>1. \A c \in Clients :
              Occurs(c, connections) => link[c] \in {"open", "left"}
        BY <1>1 DEF IInv, KnownInv, Known
      <3> QED
        BY <2>1, <3>1 DEF Occurs
    <2> HIDE DEF Registered
    <2>3. connections \in Bijection(1..Len(connections), Registered)
      <3>1. connections \in [1..Len(connections) -> Registered]
        BY <2>1, <2>2
      <3>2. connections \in Injection(1..Len(connections), Registered)
        BY <2>1, <3>1 DEF Injection, IsInjective
      <3>3. connections \in Surjection(1..Len(connections), Registered)
        BY <2>2, <3>1 DEF Surjection
      <3> QED
        BY <3>2, <3>3 DEF Bijection
    <2> QED
      BY <2>1, <2>3, FS_CountingElements DEF ExistsBijection
  <1>2. ASSUME IInv, [Next]_vars, pc' = "exited", pc # "exited"
        PROVE  Free = 0
    BY <1>2
    DEF Next, Serve, Accept, AcceptNext, RegisterConnection, Registers, Ready,
        Serves, ReadCommand, ReadEnd, DeregisterConnection, Drops, Ends, Answer,
        Connect, Ask, Finish, Stray, Sends, Receive, Leave, vars, serverVars
  <1>3. ASSUME IInv, [Next]_vars, pc' = "exited", pc # "exited"
        PROVE  Cardinality(Registered) + leaked = Descriptors
    <2>1. Len(connections) \in Nat /\ leaked \in Nat
      BY <1>3 DEF IInv, KnownInv, TypeOK
    <2> QED
      BY <1>1, <1>2, <1>3, <2>1, DescriptorsAssumption DEF Free
  <1>4. IInv /\ [Next]_vars =>
          [pc' = "exited" /\ pc # "exited" =>
             Cardinality(Registered) + leaked = Descriptors]_vars
    BY <1>3
  <1> QED
    BY <1>4, Inductive, PTL DEF Spec, ExitsOnlyWhenFull

\* The store is only called for a request its client has sent in full.
THEOREM NothingHalfAsked == Spec => OnlyCompleteRequests
  <1>1. ASSUME IInv, [Next]_vars, <<groups, answer>>' # <<groups, answer>>
        PROVE  pc = "readEnd" /\ NextIs({END}) /\ Db!Perform(request)
    BY <1>1
    DEF Next, Serve, Accept, AcceptNext, RegisterConnection, Registers, Ready,
        Serves, ReadCommand, ReadEnd, DeregisterConnection, Drops, Ends, Answer,
        Performs, Connect, Ask, Finish, Stray, Sends, Receive, Leave, vars,
        storeVars
  <1>2. ASSUME IInv, [Next]_vars, <<groups, answer>>' # <<groups, answer>>
        PROVE  phase[conn] = "waiting" /\ answer'.call = asked[conn]
    BY <1>1, <1>2, WholeRequest, PerformAnswers, RequestsAssumption
  <1>3. IInv /\ [Next]_vars =>
          [<<groups, answer>>' # <<groups, answer>> =>
             phase[conn] = "waiting" /\ answer'.call = asked[conn]]_vars
    BY <1>2
  <1> QED
    BY <1>3, Inductive, PTL DEF Spec, OnlyCompleteRequests

-------------------------------------------------------------------------------
(* The server implements NewsService: every step maps to a step of it, or    *)
(* leaves what it speaks of as it is.                                        *)

\* What NewsService sees of clients the server does nothing for.
SeenInv ==
  /\ IInv
  /\ \A c \in Clients :
       /\ ~Answering(c) => Coming(c) = toClient[c]
       /\ ~Answering(c) /\ toClient[c] = <<>> => Inbox(c) = <<>>
       /\ toServer[c] = <<>> /\ ~Reading(c) => Outstanding(c) = NoRequest

LEMMA Seen ==
  IInv => SeenInv
  <1> SUFFICES ASSUME IInv, NEW c \in Clients
               PROVE  /\ ~Answering(c) => Coming(c) = toClient[c]
                      /\ ~Answering(c) /\ toClient[c] = <<>> => Inbox(c) = <<>>
                      /\ toServer[c] = <<>> /\ ~Reading(c)
                           => Outstanding(c) = NoRequest
    BY DEF SeenInv
  <1>1. ASSUME ~Answering(c)
        PROVE  Coming(c) = toClient[c]
    <2>1. Coming(c) = toClient[c] \o <<>>
      BY <1>1 DEF IInv, TypeOK, Answering, Coming
    <2>2. AnswerInv(c)
      BY DEF IInv
    <2>3. <<>> \o <<>> = <<>>
      OBVIOUS
    <2> QED
      BY <1>1, <2>1, <2>2, <2>3, JoinedPieces
      DEF AnswerInv, RestOfAnswer, One, Two
  <1>2. toServer[c] = <<>> /\ ~Reading(c) => Outstanding(c) = NoRequest
    BY DEF IInv, TypeOK, Reading, Outstanding
  <1> QED
    BY <1>1, <1>2 DEF Inbox

\* A client whose socket and connection a step leaves alone looks the same.
LEMMA ViewKept ==
  ASSUME SeenInv, SeenInv', NEW c \in Clients,
         link'[c] = link[c], toServer'[c] = toServer[c],
         toClient'[c] = toClient[c],
         Reading(c)' <=> Reading(c), Reading(c) => request' = request,
         Answering(c)' <=> Answering(c), Answering(c) => unsent' = unsent
  PROVE  Outstanding(c)' = Outstanding(c) /\ Inbox(c)' = Inbox(c)
  <1>1. Outstanding(c)' = Outstanding(c)
    BY DEF SeenInv, IInv, TypeOK, Reading, Outstanding
  <1>2. Coming(c)' = Coming(c)
    BY DEF SeenInv, IInv, TypeOK, Answering, Coming
  <1> QED
    BY <1>1, <1>2 DEF Inbox

LEMMA StutterStep ==
  ASSUME \A c \in Clients : /\ link'[c] = "open" <=> link[c] = "open"
                            /\ Outstanding(c)' = Outstanding(c)
                            /\ Inbox(c)' = Inbox(c),
         UNCHANGED <<groups, answer>>
  PROVE  UNCHANGED Service!vars
  BY DEF Service!vars

LEMMA ConnectRefines ==
  ASSUME SeenInv, SeenInv', NEW c \in Clients, Connect(c)
  PROVE  Service!Arrive(c)
  <1>1. /\ \A d \in Clients : link'[d] = IF d = c THEN "open" ELSE link[d]
        /\ link[c] = "none"
        /\ UNCHANGED <<toServer, toClient, pc, conn, request, unsent, groups, answer>>
    BY DEF Connect, storeVars, SeenInv, IInv, TypeOK
  <1>2. ~Answering(c) /\ ~Answering(c)'
    BY <1>1 DEF Answering, SeenInv, IInv, KnownInv, Known, NoServerError
  <1>3. ASSUME NEW d \in Clients
        PROVE  Outstanding(d)' = Outstanding(d) /\ Inbox(d)' = Inbox(d)
    <2>1. CASE d = c
      <3>1. Outstanding(d)' = Outstanding(d)
        BY <1>1 DEF Outstanding
      <3>2. Coming(d) = toClient[d] /\ Coming(d)' = toClient'[d]
        BY <1>2, <2>1 DEF SeenInv
      <3> QED
        BY <1>1, <3>1, <3>2 DEF Inbox
    <2>2. CASE d # c
      BY <1>1, <2>2, ViewKept DEF Reading, Answering
    <2> QED
      BY <2>1, <2>2
  <1> QED
    BY <1>1, <1>3 DEF Service!Arrive

LEMMA AskRefines ==
  ASSUME SeenInv, SeenInv', NEW c \in Clients, NEW r \in Requests, Ask(c, r)
  PROVE  Service!Ask(c, r)
  <1>1. /\ phase[c] = "idle" /\ link[c] = "open"
        /\ RequestInv(c) /\ AnswerInv(c)
    BY DEF Ask, Sends, SeenInv, IInv
  <1>2. toServer[c] = <<>> /\ ~Reading(c) /\ ~Answering(c) /\ toClient[c] = <<>>
    BY <1>1 DEF RequestInv, AnswerInv
  <1>3. /\ \A d \in Clients \ {c} : toServer'[d] = toServer[d]
        /\ toServer'[c] = <<r>>
        /\ UNCHANGED <<link, toClient, pc, conn, request, unsent, groups, answer>>
    BY <1>2, TwoPieces DEF Ask, Sends, serverVars, storeVars, SeenInv, IInv, TypeOK
  <1>4. ~Reading(c)' /\ ~Answering(c)'
    BY <1>2, <1>3 DEF Reading, Answering
  <1>5. Outstanding(c) = NoRequest /\ Inbox(c) = <<>> /\ Inbox(c)' = <<>>
    BY <1>2, <1>3, <1>4 DEF SeenInv
  <1>6. Outstanding(c)' = r
    BY <1>3, <1>4, TwoPieces DEF Outstanding, Reading, SeenInv, IInv, TypeOK
  <1>7. \A d \in Clients \ {c} :
          Outstanding(d)' = Outstanding(d) /\ Inbox(d)' = Inbox(d)
    BY <1>3, ViewKept DEF Reading, Answering
  <1> QED
    BY <1>1, <1>3, <1>5, <1>6, <1>7 DEF Service!Ask

\* More of a request, or what is no request, changes nothing the service has
\* promised yet.
LEMMA MoreRefines ==
  ASSUME SeenInv, SeenInv', NEW c \in Clients, NEW piece, piece \notin Requests,
         NEW next, Sends(c, piece, next), ~Answering(c), toClient[c] = <<>>,
         \/ toServer[c] = <<>>
         \/ ~Reading(c) /\ \E r \in Requests : toServer[c] = <<r>>
  PROVE  UNCHANGED Service!vars
  <1>1. /\ \A d \in Clients \ {c} : toServer'[d] = toServer[d]
        /\ toServer'[c] = Append(toServer[c], piece)
        /\ UNCHANGED <<link, toClient, pc, conn, request, unsent, groups, answer>>
    BY DEF Sends, serverVars, storeVars, SeenInv, IInv, TypeOK
  <1>2. Outstanding(c)' = Outstanding(c)
    <2>1. CASE Reading(c)
      BY <1>1, <2>1 DEF Reading, Outstanding, SeenInv, IInv, TypeOK
    <2>2. CASE ~Reading(c) /\ toServer[c] = <<>>
      <3>1. toServer'[c] = <<piece>> /\ ~Reading(c)'
        BY <1>1, <2>2, TwoPieces DEF Reading
      <3>2. Head(toServer'[c]) \notin Requests
        BY <3>1, TwoPieces
      <3>3. Outstanding(c)' = NoRequest
        BY <3>1, <3>2 DEF Reading, Outstanding, SeenInv, IInv, TypeOK
      <3> QED
        BY <2>2, <3>3 DEF SeenInv
    <2>3. ASSUME ~Reading(c), NEW r \in Requests, toServer[c] = <<r>>
          PROVE  Outstanding(c)' = Outstanding(c)
      <3>1. toServer'[c] = <<r, piece>> /\ ~Reading(c)'
        <4>1. Append(<<r>>, piece) = <<r, piece>>
          BY ONLY TwoPieces
        <4> QED
          BY <1>1, <2>3, <4>1 DEF Reading
      <3>2. Outstanding(c) = r
        BY <2>3, TwoPieces DEF Reading, Outstanding, SeenInv, IInv, TypeOK
      <3>3. Outstanding(c)' = r
        BY <3>1, TwoPieces DEF Reading, Outstanding, SeenInv, IInv, TypeOK
      <3> QED
        BY <3>2, <3>3
    <2> QED
      BY <2>1, <2>2, <2>3
  <1>3. Inbox(c)' = Inbox(c)
    <2>1. ~Answering(c)'
      BY <1>1 DEF Answering
    <2> QED
      BY <1>1, <2>1 DEF SeenInv
  <1>4. \A d \in Clients \ {c} :
          Outstanding(d)' = Outstanding(d) /\ Inbox(d)' = Inbox(d)
    BY <1>1, ViewKept DEF Reading, Answering
  <1> QED
    BY <1>1, <1>2, <1>3, <1>4, StutterStep

LEMMA FinishRefines ==
  ASSUME SeenInv, SeenInv', NEW c \in Clients, Finish(c)
  PROVE  UNCHANGED Service!vars
  <1>1. /\ phase[c] = "sending" /\ link[c] = "open" /\ Sends(c, END, "waiting")
        /\ RequestInv(c) /\ AnswerInv(c)
    BY DEF Finish, Sends, SeenInv, IInv
  <1>2. /\ ~Answering(c) /\ toClient[c] = <<>>
        /\ \/ toServer[c] = <<>>
           \/ ~Reading(c) /\ \E r \in Requests : toServer[c] = <<r>>
    BY <1>1 DEF RequestInv, AnswerInv
  <1>3. END \notin Requests
    BY RequestsAssumption DEF END, Db!Calls
  <1> QED
    BY <1>1, <1>2, <1>3, MoreRefines

LEMMA StrayRefines ==
  ASSUME SeenInv, SeenInv', NEW c \in Clients, Stray(c)
  PROVE  UNCHANGED Service!vars
  <1>1. /\ phase[c] \in {"idle", "sending"} /\ link[c] = "open"
        /\ Sends(c, Unexpected, "waiting")
        /\ RequestInv(c) /\ AnswerInv(c)
    BY DEF Stray, Sends, SeenInv, IInv, TypeOK
  <1>2. /\ ~Answering(c) /\ toClient[c] = <<>>
        /\ \/ toServer[c] = <<>>
           \/ ~Reading(c) /\ \E r \in Requests : toServer[c] = <<r>>
    BY <1>1 DEF RequestInv, AnswerInv
  <1>3. Unexpected \notin Requests
    BY RequestsAssumption
  <1> QED
    BY <1>1, <1>2, <1>3, MoreRefines

\* Both pieces of an answer say the same; the last one read, it is gone.
LEMMA ReceiveRefines ==
  ASSUME SeenInv, SeenInv', NEW c \in Clients, Receive(c)
  PROVE  Service!Receive(c) \/ UNCHANGED Service!vars
  <1>1. /\ toClient[c] # <<>> /\ toClient'[c] = Tail(toClient[c])
        /\ \A d \in Clients \ {c} : toClient'[d] = toClient[d]
        /\ UNCHANGED <<link, toServer, pc, conn, request, unsent, groups, answer>>
        /\ AnswerInv(c)
    BY DEF Receive, serverVars, storeVars, SeenInv, IInv, TypeOK
  <1>2. \A d \in Clients \ {c} :
          Outstanding(d)' = Outstanding(d) /\ Inbox(d)' = Inbox(d)
    BY <1>1, ViewKept DEF Reading, Answering
  <1>3. Outstanding(c)' = Outstanding(c)
    BY <1>1 DEF Outstanding
  <1>4. CASE Inbox(c)' = <<>>
    BY <1>1, <1>2, <1>3, <1>4 DEF Service!Receive
  <1>5. CASE Inbox(c)' = Inbox(c)
    BY <1>1, <1>2, <1>3, <1>5, StutterStep
  <1>6. Inbox(c)' \in {<<>>, Inbox(c)}
    <2>1. CASE Answering(c)
      <3> DEFINE x == toClient[c][1]
                 y == unsent[1]
      <3>1. /\ toClient[c] = <<x>> /\ unsent = <<y>>
            /\ RestOfAnswer(<<x, y>>, asked[c])
        BY <1>1, <2>1 DEF AnswerInv, One
      <3>2. /\ conn = c /\ link[c] \in {"open", "left"}
        BY <2>1 DEF Answering, SeenInv, IInv, KnownInv, NoServerError, Known
      <3>3. link[c] = "open"
        BY <1>1, <3>2 DEF AnswerInv
      <3> HIDE DEF x, y
      <3>4. toClient'[c] = <<>>
        BY <1>1, <3>1, TwoPieces
      <3>5. Coming(c) = <<x, y>> /\ Coming(c)' = <<y>>
        <4>1. <<>> \o <<y>> = <<y>>
          OBVIOUS
        <4>2. <<x>> \o <<y>> = <<x, y>>
          BY JoinedPieces
        <4> QED
          BY <1>1, <3>1, <3>2, <3>3, <3>4, <4>1, <4>2 DEF Coming
      <3>6. x.for = y.for /\ x.code = y.code /\ x.result = y.result
        <4>1. /\ ~One(<<x, y>>) /\ <<x, y>>[1] = x /\ <<x, y>>[2] = y
          BY TwoPieces DEF One
        <4> QED
          BY <3>1, <4>1 DEF RestOfAnswer, IsPiece
      <3>7. /\ Coming(c) # <<>> /\ Coming(c)[1] = x
            /\ Coming(c)' # <<>> /\ Coming(c)'[1] = y
        BY <3>5, TwoPieces
      <3> QED
        BY <3>6, <3>7 DEF Inbox, Db!Answer
    <2>2. CASE ~Answering(c)
      <3>1. Coming(c) = toClient[c] /\ Coming(c)' = Tail(toClient[c])
        BY <1>1, <2>2 DEF SeenInv, Answering
      <3>2. RestOfAnswer(toClient[c], asked[c])
        BY <1>1, <2>2 DEF AnswerInv
      <3>3. CASE One(toClient[c])
        <4>1. Coming(c)' = <<>>
          BY <3>1, <3>3, TwoPieces DEF One
        <4> QED
          BY <4>1 DEF Inbox
      <3>4. CASE Two(toClient[c]) /\ toClient[c][1].for = toClient[c][2].for
                   /\ toClient[c][1].code = toClient[c][2].code
                   /\ toClient[c][1].result = toClient[c][2].result
        <4> DEFINE x == toClient[c][1]
                   y == toClient[c][2]
        <4>1. /\ toClient[c] = <<x, y>> /\ x.for = y.for /\ x.code = y.code
              /\ x.result = y.result
          BY <3>4 DEF Two
        <4> HIDE DEF x, y
        <4>2. Tail(toClient[c]) = <<y>>
          BY <4>1, TwoPieces
        <4>3. /\ Coming(c) # <<>> /\ Coming(c)[1] = x
              /\ Coming(c)' # <<>> /\ Coming(c)'[1] = y
          BY <3>1, <4>1, <4>2, TwoPieces
        <4> QED
          BY <4>1, <4>3 DEF Inbox, Db!Answer
      <3> QED
        BY <3>2, <3>3, <3>4 DEF RestOfAnswer, IsPiece
    <2> QED
      BY <2>1, <2>2
  <1> QED
    BY <1>4, <1>5, <1>6

LEMMA LeaveRefines ==
  ASSUME SeenInv, SeenInv', NEW c \in Clients, Leave(c)
  PROVE  Service!Leave(c)
  <1>1. /\ \A d \in Clients : link'[d] = IF d = c THEN "left" ELSE link[d]
        /\ toClient'[c] = <<>>
        /\ \A d \in Clients \ {c} : toClient'[d] = toClient[d]
        /\ UNCHANGED <<toServer, pc, conn, request, unsent, groups, answer>>
    BY DEF Leave, serverVars, storeVars, SeenInv, IInv, TypeOK
  <1>2. \A d \in Clients \ {c} :
          Outstanding(d)' = Outstanding(d) /\ Inbox(d)' = Inbox(d)
    BY <1>1, ViewKept DEF Reading, Answering
  <1>3. Outstanding(c)' = Outstanding(c)
    BY <1>1 DEF Outstanding
  <1>4. Inbox(c)' = <<>>
    <2>1. <<>> \o <<>> = <<>>
      OBVIOUS
    <2>2. Coming(c)' = <<>>
      BY <1>1, <2>1 DEF Coming
    <2> QED
      BY <2>2 DEF Inbox
  <1> QED
    BY <1>1, <1>2, <1>3, <1>4 DEF Service!Leave

\* Before anything is read of a request the loop changes nothing the service
\* speaks of.
LEMMA LoopRefines ==
  ASSUME SeenInv, SeenInv',
         UNCHANGED <<link, toServer, toClient, request, unsent, groups, answer>>,
         pc \notin {"readEnd", "answer"}, pc' \notin {"readEnd", "answer"}
  PROVE  UNCHANGED Service!vars
  <1>1. \A c \in Clients :
          Outstanding(c)' = Outstanding(c) /\ Inbox(c)' = Inbox(c)
    BY ViewKept DEF Reading, Answering
  <1> QED
    BY <1>1, StutterStep

\* The clients of gone are given up, and only they.
LEMMA GivenUp ==
  ASSUME SeenInv, SeenInv', NEW gone \in SUBSET Clients,
         UNCHANGED <<toClient, groups, answer>>,
         pc # "answer", pc' \notin {"readEnd", "answer"},
         \A c \in gone : link'[c] # "open" /\ toServer'[c] = <<>>,
         \A c \in Clients \ gone :
           link'[c] = link[c] /\ toServer'[c] = toServer[c] /\ ~Reading(c)
  PROVE  Service!GiveUp(gone)
  <1>1. \A c \in Clients : ~Reading(c)' /\ ~Answering(c) /\ ~Answering(c)'
    BY DEF Reading, Answering
  <1>2. \A c \in gone : Outstanding(c)' = NoRequest
    BY <1>1 DEF SeenInv
  <1>3. \A c \in Clients \ gone : Outstanding(c)' = Outstanding(c)
    BY <1>1, ViewKept
  <1>4. \A c \in Clients : Inbox(c)' = Inbox(c)
    <2>1. \A c \in Clients : Coming(c)' = Coming(c)
      BY <1>1 DEF SeenInv
    <2> QED
      BY <2>1 DEF Inbox
  <1> QED
    BY <1>2, <1>3, <1>4 DEF Service!GiveUp

LEMMA EndsRefines ==
  ASSUME SeenInv, SeenInv', NEW how \in {"exited", "crashed"}, Ends(how),
         pc # "answer"
  PROVE  Service!GiveUp(Clients)
  <1>1. /\ UNCHANGED <<toClient, groups, answer>> /\ pc' = how
        /\ \A c \in Clients : link'[c] # "open" /\ toServer'[c] = <<>>
    BY DEF Ends, storeVars
  <1> QED
    BY <1>1, GivenUp

LEMMA DeregisterRefines ==
  ASSUME SeenInv, SeenInv', pc \in {"readCommand", "readEnd"},
         DeregisterConnection
  PROVE  \E c \in Clients : Service!GiveUp({c})
  <1>1. PICK c \in Clients : c = conn
    BY DEF SeenInv, IInv, TypeOK
  <1>2. /\ UNCHANGED <<toClient, groups, answer>> /\ pc' = "waitForActivity"
        /\ link'[c] # "open" /\ toServer'[c] = <<>>
        /\ \A d \in Clients \ {c} :
             link'[d] = link[d] /\ toServer'[d] = toServer[d] /\ ~Reading(d)
    BY <1>1
    DEF DeregisterConnection, Drops, storeVars, Reading, SeenInv, IInv, TypeOK
  <1>3. ASSUME NEW gone, gone = {c}
        PROVE  Service!GiveUp(gone)
    <2>1. /\ gone \in SUBSET Clients
          /\ pc # "answer" /\ pc' \notin {"readEnd", "answer"}
          /\ \A d \in gone : link'[d] # "open" /\ toServer'[d] = <<>>
          /\ \A d \in Clients \ gone :
               link'[d] = link[d] /\ toServer'[d] = toServer[d] /\ ~Reading(d)
      BY <1>2, <1>3
    <2> QED
      BY <1>2, <2>1, GivenUp
  <1>4. Service!GiveUp({c})
    BY <1>3
  <1> QED
    BY <1>4

\* Reading the first piece of a request.
LEMMA ReadCommandRefines ==
  ASSUME SeenInv, SeenInv', ReadCommand
  PROVE  \/ UNCHANGED Service!vars
         \/ \E c \in Clients : Service!GiveUp({c})
  <1>1. CASE DeregisterConnection
    BY <1>1, DeregisterRefines DEF ReadCommand
  <1>2. CASE /\ NextIs(Requests)
             /\ request' = Head(toServer[conn])
             /\ toServer' = [toServer EXCEPT ![conn] = Tail(@)]
             /\ pc' = "readEnd"
             /\ UNCHANGED <<clientVars, toClient, backlog, pending_socket,
                            connections, conn, unsent, storeVars>>
    <2>1. /\ pc = "readCommand" /\ conn \in Clients
          /\ toServer[conn] # <<>> /\ Head(toServer[conn]) \in Requests
          /\ request' = Head(toServer[conn])
          /\ \A c \in Clients \ {conn} : toServer'[c] = toServer[c]
          /\ UNCHANGED <<link, toClient, conn, groups, answer>>
          /\ pc' = "readEnd" /\ request = NoRequest
      BY <1>2 DEF ReadCommand, NextIs, clientVars, storeVars, SeenInv, IInv, TypeOK
    <2>2. \A c \in Clients : ~Answering(c) /\ ~Answering(c)'
      BY <2>1 DEF Answering
    <2>3. \A c \in Clients \ {conn} :
            Outstanding(c)' = Outstanding(c) /\ Inbox(c)' = Inbox(c)
      BY <2>1, <2>2, ViewKept DEF Reading
    <2>4. Outstanding(conn) = Head(toServer[conn])
      BY <2>1 DEF Outstanding
    <2>5. Outstanding(conn)' = Head(toServer[conn])
      <3>1. request' # NoRequest
        BY <2>1, RequestsAssumption
      <3>2. toServer'[conn] # <<>> => Head(toServer'[conn]) \notin Requests
        <4>1. RequestInv(conn)'
          BY <2>1 DEF SeenInv, IInv
        <4>2. Reading(conn)'
          BY <2>1 DEF Reading
        <4>3. toServer'[conn] \in {<<>>, <<END>>, <<Unexpected>>}
          BY <4>1, <4>2, <2>1 DEF RequestInv, Reading
        <4>4. END \notin Requests /\ Unexpected \notin Requests
          BY RequestsAssumption DEF END, Db!Calls
        <4> QED
          BY <4>3, <4>4, TwoPieces
      <3> QED
        BY <2>1, <3>1, <3>2 DEF Outstanding
    <2>6. Inbox(conn)' = Inbox(conn)
      BY <2>1, <2>2 DEF SeenInv, Inbox
    <2> QED
      BY <2>1, <2>3, <2>4, <2>5, <2>6, StutterStep
  <1> QED
    BY <1>1, <1>2 DEF ReadCommand

\* The store the service speaks of is the server's: both are instances of
\* NewsStore on the same groups and answer.
LEMMA SameOrder ==
  ASSUME NEW m
  PROVE  Service!Db!InOrder(m) = Db!InOrder(m)
  BY DEF Db!InOrder, Service!Db!InOrder, Db!Keys, Service!Db!Keys,
         Db!Ascending, Service!Db!Ascending, Db!Cardinality,
         Service!Db!Cardinality

LEMMA SameMaps ==
  /\ \A m, k, v : Service!Db!Put(m, k, v) = Db!Put(m, k, v)
  /\ \A m, k : Service!Db!Erase(m, k) = Db!Erase(m, k)
  /\ Service!Db!EmptyMap = Db!EmptyMap
  BY DEF Db!Put, Service!Db!Put, Db!Erase, Service!Db!Erase, Db!Restrict,
         Service!Db!Restrict, Db!EmptyMap, Service!Db!EmptyMap

LEMMA SameCodes ==
  /\ Service!Db!ANS_ACK = Db!ANS_ACK
  /\ Service!Db!ERR_NG_ALREADY_EXISTS = Db!ERR_NG_ALREADY_EXISTS
  /\ Service!Db!ERR_NG_DOES_NOT_EXIST = Db!ERR_NG_DOES_NOT_EXIST
  /\ Service!Db!ERR_ART_DOES_NOT_EXIST = Db!ERR_ART_DOES_NOT_EXIST
  BY DEF Db!ANS_ACK, Service!Db!ANS_ACK, Db!ERR_NG_ALREADY_EXISTS,
         Service!Db!ERR_NG_ALREADY_EXISTS, Db!ERR_NG_DOES_NOT_EXIST,
         Service!Db!ERR_NG_DOES_NOT_EXIST, Db!ERR_ART_DOES_NOT_EXIST,
         Service!Db!ERR_ART_DOES_NOT_EXIST

LEMMA SameFails ==
  ASSUME NEW call, NEW code
  PROVE  /\ \A result : Service!Db!Answer(call, code, result)
                            = Db!Answer(call, code, result)
         /\ Service!Db!Fails(call, code) <=> Db!Fails(call, code)
  BY DEF Db!Answer, Service!Db!Answer, Db!Fails, Service!Db!Fails

LEMMA SamePerform ==
  ASSUME NEW r, Db!Perform(r)
  PROVE  Service!Db!Perform(r)
  <1>1. Db!ListNewsGroups => Service!Db!ListNewsGroups
    BY SameOrder, SameCodes, SameFails
    DEF Db!ListNewsGroups, Service!Db!ListNewsGroups
  <1>2. ASSUME NEW t
        PROVE  Db!CreateNewsGroup(t) => Service!Db!CreateNewsGroup(t)
    BY SameMaps, SameCodes, SameFails
    DEF Db!CreateNewsGroup, Service!Db!CreateNewsGroup
  <1>3. ASSUME NEW g
        PROVE  Db!DeleteNewsGroup(g) => Service!Db!DeleteNewsGroup(g)
    BY SameMaps, SameCodes, SameFails
    DEF Db!DeleteNewsGroup, Service!Db!DeleteNewsGroup
  <1>4. ASSUME NEW g
        PROVE  Db!ListArticles(g) => Service!Db!ListArticles(g)
    BY SameCodes, SameFails DEF Db!ListArticles, Service!Db!ListArticles
  <1>5. ASSUME NEW g, NEW t, NEW au, NEW tx
        PROVE  Db!CreateArticle(g, t, au, tx) =>
                 Service!Db!CreateArticle(g, t, au, tx)
    BY SameMaps, SameCodes, SameFails
    DEF Db!CreateArticle, Service!Db!CreateArticle
  <1>6. ASSUME NEW g, NEW a
        PROVE  Db!DeleteArticle(g, a) => Service!Db!DeleteArticle(g, a)
    BY SameMaps, SameCodes, SameFails
    DEF Db!DeleteArticle, Service!Db!DeleteArticle
  <1>7. ASSUME NEW g, NEW a
        PROVE  Db!GetNewsArticle(g, a) => Service!Db!GetNewsArticle(g, a)
    BY SameCodes, SameFails DEF Db!GetNewsArticle, Service!Db!GetNewsArticle
  <1> QED
    BY <1>1, <1>2, <1>3, <1>4, <1>5, <1>6, <1>7
    DEF Db!Perform, Service!Db!Perform

\* An answer is a record of the three things it tells.
LEMMA PerformAnswerShape ==
  ASSUME NEW r, Db!Perform(r)
  PROVE  answer' = Db!Answer(answer'.call, answer'.code, answer'.result)
  <1>1. \E call, code, result : answer' = Db!Answer(call, code, result)
    BY DEF Db!Perform, Db!ListNewsGroups, Db!CreateNewsGroup,
           Db!DeleteNewsGroup, Db!ListArticles, Db!CreateArticle,
           Db!DeleteArticle, Db!GetNewsArticle, Db!Fails
  <1> QED
    BY <1>1 DEF Db!Answer

LEMMA ReadEndRefines ==
  ASSUME SeenInv, SeenInv', ReadEnd
  PROVE  \/ Service!GiveUp(Clients)
         \/ \E c \in Clients : Service!GiveUp({c}) \/ Service!Serve(c)
  <1>1. CASE DeregisterConnection
    BY <1>1, DeregisterRefines DEF ReadEnd
  <1>2. CASE Ends("crashed")
    BY <1>2, EndsRefines DEF ReadEnd
  <1>3. CASE /\ NextIs({END})
             /\ Performs
             /\ unsent' = Reply(answer')
             /\ toServer' = [toServer EXCEPT ![conn] = Tail(@)]
             /\ pc' = "answer"
             /\ request' = NoRequest
             /\ UNCHANGED <<clientVars, toClient, backlog, pending_socket,
                            connections, conn>>
    <2>1. /\ pc = "readEnd" /\ conn \in Clients /\ request \in Requests
          /\ \A c \in Clients \ {conn} : toServer'[c] = toServer[c]
          /\ UNCHANGED <<link, toClient, conn>>
          /\ Db!Perform(request)
      BY <1>3
      DEF ReadEnd, Performs, clientVars, SeenInv, IInv, TypeOK
    <2>2. /\ request = asked[conn] /\ toServer[conn] = <<END>>
          /\ toClient[conn] = <<>>
      BY <1>3, <2>1, WholeRequest DEF SeenInv
    <2>3. toServer'[conn] = <<>>
      BY <1>3, <2>1, <2>2, TwoPieces DEF SeenInv, IInv, TypeOK
    <2>4. \A c \in Clients \ {conn} :
            Outstanding(c)' = Outstanding(c) /\ Inbox(c)' = Inbox(c)
      BY <1>3, <2>1, ViewKept DEF Reading, Answering
    <2>5. Outstanding(conn) = request /\ request # NoRequest
      <3>1. END \notin Requests /\ request # NoRequest
        BY <2>1, RequestsAssumption DEF END, Db!Calls
      <3>2. Head(toServer[conn]) \notin Requests
        BY <2>2, <3>1, TwoPieces
      <3> QED
        BY <3>1, <3>2 DEF Outstanding
    <2>6. Outstanding(conn)' = NoRequest
      BY <1>3, <2>1, <2>3 DEF Outstanding
    <2>7. Inbox(conn)' = IF link[conn] = "open" THEN <<answer'>> ELSE Inbox(conn)
      <3>1. CASE link[conn] # "open"
        <4>1. <<>> \o <<>> = <<>>
          OBVIOUS
        <4>2. Coming(conn) = <<>> /\ Coming(conn)' = <<>>
          BY <2>1, <2>2, <3>1, <4>1 DEF Coming
        <4> QED
          BY <3>1, <4>2 DEF Inbox
      <3>2. CASE link[conn] = "open"
        <4> DEFINE x == Reply(answer')[1]
                   y == Reply(answer')[2]
        <4>1. /\ Reply(answer') = <<x, y>>
              /\ x.for = answer'.call /\ x.code = answer'.code
              /\ x.result = answer'.result
          BY DEF Reply
        <4> HIDE DEF x, y
        <4>2. <<>> \o <<x, y>> = <<x, y>>
          BY ConcatEmptySeq
        <4>3. Coming(conn)' = <<x, y>>
          BY <1>3, <2>1, <2>2, <3>2, <4>1, <4>2 DEF Coming
        <4>4. Coming(conn)' # <<>> /\ Coming(conn)'[1] = x
          BY <4>3, TwoPieces
        <4>5. Inbox(conn)' = <<Db!Answer(x.for, x.code, x.result)>>
          BY <4>4 DEF Inbox, Db!Answer
        <4>6. answer' = Db!Answer(answer'.call, answer'.code, answer'.result)
          BY <2>1, PerformAnswerShape
        <4> QED
          BY <3>2, <4>1, <4>5, <4>6
      <3> QED
        BY <3>1, <3>2
    <2>8. Service!Db!Perform(request)
      BY <2>1, SamePerform
    <2>9. Service!Serve(conn)
      BY <2>1, <2>4, <2>5, <2>6, <2>7, <2>8 DEF Service!Serve
    <2> QED
      BY <2>1, <2>9
  <1> QED
    BY <1>1, <1>2, <1>3 DEF ReadEnd

\* A piece written is as much on its way as before.
LEMMA AnswerRefines ==
  ASSUME SeenInv, SeenInv', Answer
  PROVE  UNCHANGED Service!vars
  <1>0. PICK c \in Clients : c = conn
    BY DEF Answer, SeenInv, IInv, TypeOK
  <1>1. /\ pc = "answer" /\ c = conn
        /\ Sending(c) /\ unsent' = Tail(unsent)
        /\ UNCHANGED <<link, toServer, request, groups, answer>>
        /\ IF Len(unsent) = 1 THEN pc' = "waitForActivity" /\ conn' = NoOne
           ELSE UNCHANGED <<pc, conn>>
        /\ \A d \in Clients \ {c} : toClient'[d] = toClient[d]
    BY <1>0 DEF Answer, Send, Sending, clientVars, storeVars, SeenInv, IInv, TypeOK
  <1>2. /\ Answering(c) /\ AnswerInv(c)
        /\ link[c] \in {"open", "left"}
    BY <1>1 DEF Answering, SeenInv, IInv, KnownInv, NoServerError, Known
  <1>3. \A d \in Clients : ~Reading(d) /\ ~Reading(d)'
    BY <1>1 DEF Reading
  <1>4. \A d \in Clients \ {c} :
          Outstanding(d)' = Outstanding(d) /\ Inbox(d)' = Inbox(d)
    BY <1>1, <1>3, ViewKept DEF Answering
  <1>5. Outstanding(c)' = Outstanding(c)
    <2>1. /\ toServer[c] = <<>> /\ toServer'[c] = <<>>
      BY <1>1, <1>2 DEF AnswerInv
    <2> QED
      BY <1>1, <1>3, <2>1 DEF SeenInv
  <1>6. Coming(c)' = Coming(c)
    <2>1. CASE link[c] = "left"
      <3>1. toClient[c] = <<>> /\ toClient'[c] = <<>>
        BY <1>1, <1>2, <2>1 DEF AnswerInv, Sending, SeenInv, IInv, TypeOK
      <3> QED
        BY <1>1, <2>1, <3>1 DEF Coming
    <2>2. CASE link[c] = "open"
      <3>1. /\ toClient'[c] = Append(toClient[c], Head(unsent))
            /\ Coming(c) = toClient[c] \o unsent
            /\ Coming(c)' = toClient'[c]
                                 \o (IF conn' = c THEN Tail(unsent) ELSE <<>>)
        BY <1>1, <2>2 DEF Coming, Sending, SeenInv, IInv, TypeOK
      <3>2. conn' = c <=> Len(unsent) # 1
        BY <1>1, NoOneAssumption
      <3>3. ASSUME NEW x, toClient[c] = <<>>, unsent = <<x>>
            PROVE  Coming(c)' = Coming(c)
        <4>1. /\ Len(unsent) = 1 /\ Head(unsent) = x
              /\ Append(toClient[c], x) = <<x>>
          BY <3>3, TwoPieces
        <4>2. <<>> \o <<x>> = <<x>> /\ <<x>> \o <<>> = <<x>>
          BY ConcatEmptySeq
        <4>3. Coming(c) = <<x>>
          BY <3>1, <3>3, <4>2
        <4>4. Coming(c)' = <<x>>
          BY <3>1, <3>2, <4>1, <4>2
        <4> QED
          BY <4>3, <4>4
      <3>4. ASSUME NEW x, NEW y, toClient[c] = <<>>, unsent = <<x, y>>
            PROVE  Coming(c)' = Coming(c)
        <4>1. /\ Len(unsent) # 1 /\ Head(unsent) = x /\ Tail(unsent) = <<y>>
              /\ Append(toClient[c], x) = <<x>>
          BY <3>4, TwoPieces
        <4>2. <<>> \o <<x, y>> = <<x, y>>
          BY ConcatEmptySeq
        <4>3. <<x>> \o <<y>> = <<x, y>>
          BY JoinedPieces
        <4>4. Coming(c) = <<x, y>>
          BY <3>1, <3>4, <4>2
        <4>5. Coming(c)' = <<x, y>>
          BY <3>1, <3>2, <4>1, <4>3
        <4> QED
          BY <4>4, <4>5
      <3>5. ASSUME NEW x, NEW y, toClient[c] = <<x>>, unsent = <<y>>
            PROVE  Coming(c)' = Coming(c)
        <4>1. /\ Len(unsent) = 1 /\ Head(unsent) = y
              /\ Append(toClient[c], y) = <<x, y>>
          BY <3>5, TwoPieces
        <4>2. /\ <<x, y>> \o <<>> = <<x, y>>
              /\ <<x>> \o <<y>> = <<x, y>>
          BY JoinedPieces
        <4>3. Coming(c) = <<x, y>>
          BY <3>1, <3>5, <4>2
        <4>4. Coming(c)' = <<x, y>>
          BY <3>1, <3>2, <4>1, <4>2
        <4> QED
          BY <4>3, <4>4
      <3>6. \/ toClient[c] = <<>> /\ unsent = <<unsent[1]>>
            \/ toClient[c] = <<>> /\ unsent = <<unsent[1], unsent[2]>>
            \/ toClient[c] = <<toClient[c][1]>> /\ unsent = <<unsent[1]>>
        BY <1>2 DEF AnswerInv, RestOfAnswer, One, Two
      <3> QED
        BY <3>3, <3>4, <3>5, <3>6
    <2> QED
      BY <1>2, <2>1, <2>2
  <1>7. Inbox(c)' = Inbox(c)
    BY <1>6 DEF Inbox
  <1> QED
    BY <1>1, <1>4, <1>5, <1>7, StutterStep

LEMMA InitRefines ==
  Init => Service!Init
  <1> SUFFICES ASSUME Init
               PROVE  Service!Init
    OBVIOUS
  <1>1. SeenInv
    BY InitIInv, Seen
  <1>2. \A c \in Clients : /\ link[c] # "open"
                           /\ Outstanding(c) = NoRequest /\ Inbox(c) = <<>>
    BY <1>1 DEF Init, SeenInv, Reading, Answering
  <1>3. Service!Db!Init
    BY DEF Init, Db!Init, Service!Db!Init, Db!EmptyMap, Service!Db!EmptyMap,
           Db!NoCall, Service!Db!NoCall, Db!Answer, Service!Db!Answer,
           Db!ANS_ACK, Service!Db!ANS_ACK
  <1> QED
    BY <1>2, <1>3 DEF Service!Init

LEMMA NextRefines ==
  SeenInv /\ SeenInv' /\ [Next]_vars => [Service!Next]_(Service!vars)
  <1> SUFFICES ASSUME SeenInv, SeenInv', [Next]_vars
               PROVE  Service!Next \/ UNCHANGED Service!vars
    OBVIOUS
  <1>1. CASE Accept
    <2>1. pc = "waitForActivity"
      BY <1>1 DEF Accept, AcceptNext
    <2>2. CASE Ends("exited")
      BY <2>1, <2>2, EndsRefines DEF Service!Next
    <2>3. CASE ~Ends("exited")
      BY <1>1, <2>1, <2>3, LoopRefines
      DEF Accept, AcceptNext, clientVars, storeVars
    <2> QED
      BY <2>2, <2>3
  <1>2. CASE RegisterConnection
    BY <1>2, LoopRefines DEF RegisterConnection, Registers, clientVars, storeVars
  <1>3. CASE Ready
    BY <1>3, LoopRefines DEF Ready, Serves, clientVars, storeVars
  <1>4. CASE ReadCommand
    BY <1>4, ReadCommandRefines DEF Service!Next
  <1>5. CASE ReadEnd
    BY <1>5, ReadEndRefines DEF Service!Next
  <1>6. CASE Answer
    BY <1>6, AnswerRefines
  <1>7. ASSUME NEW c \in Clients, NEW r \in Requests, Ask(c, r)
        PROVE  Service!Next
    BY <1>7, AskRefines DEF Service!Next
  <1>8. ASSUME NEW c \in Clients, Connect(c)
        PROVE  Service!Next
    BY <1>8, ConnectRefines DEF Service!Next
  <1>9. ASSUME NEW c \in Clients, Finish(c) \/ Stray(c)
        PROVE  UNCHANGED Service!vars
    BY <1>9, FinishRefines, StrayRefines
  <1>10. ASSUME NEW c \in Clients, Receive(c)
         PROVE  Service!Next \/ UNCHANGED Service!vars
    BY <1>10, ReceiveRefines DEF Service!Next
  <1>11. ASSUME NEW c \in Clients, Leave(c)
         PROVE  Service!Next
    BY <1>11, LeaveRefines DEF Service!Next
  <1>12. CASE UNCHANGED vars
    <2>1. \A c \in Clients :
            Outstanding(c)' = Outstanding(c) /\ Inbox(c)' = Inbox(c)
      BY <1>12, ViewKept DEF vars, clientVars, serverVars, Reading, Answering
    <2> QED
      BY <1>12, <2>1, StutterStep DEF vars, clientVars, storeVars
  <1> QED
    BY <1>1, <1>2, <1>3, <1>4, <1>5, <1>6, <1>7, <1>8, <1>9, <1>10, <1>11, <1>12
    DEF Next, Serve

\* Requests that come in pieces, are read with blocking reads and are cut off
\* by clients that leave are carried out as if in one step each, at most once,
\* and answered to the client that asked.
THEOREM ServerImplementsService == Spec => ImplementsNewsService
  <1>1. Init /\ [][Next]_vars => Service!Init /\ [][Service!Next]_(Service!vars)
    BY InitRefines, Inductive, Seen, NextRefines, PTL DEF Spec
  <1> QED
    BY <1>1 DEF Spec, ImplementsNewsService, Service!Spec

===============================================================================
