---------------------------- MODULE DbOnDisk_proofs ----------------------------
(***************************************************************************)
(* Proofs about DbOnDisk, for any names, titles, authors and texts, any    *)
(* number of descriptors and any bounds of the numbers, with the process   *)
(* killed, crashed and restarted at any time.                              *)
(***************************************************************************)
EXTENDS DbOnDisk, OrderedMap_proofs, TLAPS

-------------------------------------------------------------------------------
(* The numbers recovered from the disk. *)

\* The constructor finds the greatest number of a group, or -1.
LEMMA LastGroupGreatest ==
  ASSUME DiskTypeOK
  PROVE  /\ LastGroup \in GroupNumbers \cup {-1}
         /\ \A n \in Numbers(DOMAIN dbroot) : n <= LastGroup
  <1> DEFINE S == {-1} \cup Numbers(DOMAIN dbroot)
  <1>1. Numbers(DOMAIN dbroot) \subseteq GroupNumbers
    BY DEF DiskTypeOK, Numbers
  <1>2. S \in SUBSET Int /\ S # {} /\ MaxGroup \in Int /\ \A n \in S : n <= MaxGroup
    BY <1>1, BoundsAssumption DEF GroupNumbers
  <1> HIDE DEF S
  <1>3. Max(S) \in S /\ \A n \in S : n <= Max(S)
    BY <1>2, GreatestOf
  <1> QED
    BY <1>1, <1>3 DEF LastGroup, S

\* createArticle's number is above all that are in the group.
LEMMA NextArticleAbove ==
  ASSUME DiskTypeOK, NEW d \in DOMAIN dbroot
  PROVE  /\ NextArticle(d) \in Nat \ {0}
         /\ \A e \in DOMAIN dbroot[d] : e[1] < NextArticle(d)
  <1> DEFINE S == {0} \cup Numbers(DOMAIN dbroot[d])
  <1>1. Numbers(DOMAIN dbroot[d]) \subseteq ArticleNumbers
    BY DEF DiskTypeOK, Numbers
  <1>2. S \in SUBSET Int /\ S # {} /\ MaxArticle \in Int /\ \A n \in S : n <= MaxArticle
    BY <1>1, BoundsAssumption DEF ArticleNumbers
  <1> HIDE DEF S
  <1>3. Max(S) \in S /\ \A n \in S : n <= Max(S)
    BY <1>2, GreatestOf
  <1>4. Max(S) \in Nat
    BY <1>1, <1>3 DEF S, ArticleNumbers
  <1>5. NextArticle(d) = Max(S) + 1
    BY DEF NextArticle, S
  <1>6. \A e \in DOMAIN dbroot[d] : e[1] \in S /\ e[1] \in Nat
    BY <1>1 DEF S, Numbers, ArticleNumbers
  <1> HIDE DEF S
  <1> QED
    BY <1>3, <1>4, <1>5, <1>6

-------------------------------------------------------------------------------
(* The inductive invariant: types, unique numbers, and a counter that is    *)
(* not behind.  One lemma per way a step changes the disk.                  *)

\* A process with descriptors for k opens has them for fewer.
LEMMA FewerOpens ==
  ASSUME IInv, NEW k \in 0..3, CanOpen(k), NEW j \in 0..k
  PROVE  CanOpen(j)
  BY FdLimitAssumption DEF IInv, TypeOK, CanOpen

\* A call that changes nothing but the descriptors and the answer.
LEMMA ReturnsIInv ==
  ASSUME IInv, NEW call, NEW code, NEW result, NEW leaked \in 0..2,
         CanOpen(leaked), Returns(call, code, result, leaked)
  PROVE  IInv'
  BY FdLimitAssumption
  DEF Returns, history, CanOpen, IInv, TypeOK, DiskTypeOK, PendingTypeOK,
      Deleting, Creating, File, UniqueNumbers, CounterAhead

\* A readdir of a null DIR.
LEMMA CrashesIInv ==
  ASSUME IInv, Idle, Crashes
  PROVE  IInv'
  BY DEF Crashes, Idle, NoCall, IInv, TypeOK, DiskTypeOK, PendingTypeOK,
         Deleting, Creating, UniqueNumbers, CounterAhead

\* What DiskTypeOK and UniqueNumbers say of the files of one directory.
FilesOK(files) ==
  /\ DOMAIN files \subseteq ArticleNumbers \X Titles
  /\ files \in [DOMAIN files -> Seq(STRING)]
  /\ \A e, f \in DOMAIN files : e[1] = f[1] => e = f

\* One directory gets other files: the disk stays well-formed when the new
\* files are, and the groups are those there were.
LEMMA FilesChange ==
  ASSUME IInv, NEW d \in DOMAIN dbroot, NEW files, FilesOK(files),
         dbroot' = [dbroot EXCEPT ![d] = files]
  PROVE  /\ DOMAIN dbroot' = DOMAIN dbroot
         /\ dbroot'[d] = files
         /\ \A e \in DOMAIN dbroot : e # d => dbroot'[e] = dbroot[e]
         /\ DiskTypeOK'
         /\ UniqueNumbers'
  BY DEF IInv, TypeOK, DiskTypeOK, UniqueNumbers, FilesOK

\* What is left of a directory's files when one is removed.
LEMMA FewerFiles ==
  ASSUME IInv, NEW d \in DOMAIN dbroot, NEW e,
         NEW files, files = Erase(dbroot[d], e)
  PROVE  /\ DOMAIN files = DOMAIN dbroot[d] \ {e}
         /\ \A f \in DOMAIN files : files[f] = dbroot[d][f]
         /\ FilesOK(files)
  <1>1. /\ DOMAIN files = DOMAIN dbroot[d] \ {e}
        /\ \A f \in DOMAIN files : files[f] = dbroot[d][f]
        /\ files = [f \in DOMAIN files |-> files[f]]
    <2> DEFINE m == dbroot[d]
    <2> HIDE DEF m
    <2>1. /\ DOMAIN Erase(m, e) = DOMAIN m \ {e}
          /\ \A j \in DOMAIN m \ {e} : Erase(m, e)[j] = m[j]
          /\ Erase(m, e) = [j \in DOMAIN m \ {e} |-> Erase(m, e)[j]]
      BY EraseMap
    <2> QED
      BY <2>1 DEF m
  <1>2. /\ DOMAIN dbroot[d] \subseteq ArticleNumbers \X Titles
        /\ dbroot[d] \in [DOMAIN dbroot[d] -> Seq(STRING)]
        /\ \A f, g \in DOMAIN dbroot[d] : f[1] = g[1] => f = g
    BY DEF IInv, TypeOK, DiskTypeOK, UniqueNumbers
  <1>3. files \in [DOMAIN files -> Seq(STRING)]
    BY <1>1, <1>2
  <1> QED
    BY <1>1, <1>2, <1>3 DEF FilesOK

LEMMA CreateNewsGroupIInv ==
  ASSUME IInv, NEW t \in Names, CreateNewsGroup(t)
  PROVE  IInv'
  <1>1. CASE Crashes
    BY <1>1, CrashesIInv DEF CreateNewsGroup
  <1>2. ASSUME NEW call, NEW code, CanOpen(1), Returns(call, code, <<>>, 1)
        PROVE  IInv'
    BY <1>2, ReturnsIInv
  <1>3. ASSUME Idle, CanOpen(1), newsGroupCounter < MaxGroup,
               newsGroupCounter' = NextGroup,
               dbroot' = MakeDir(<<NextGroup, t>>),
               openDirs' = openDirs + 1, UNCHANGED <<process, pending>>
        PROVE  IInv'
    <2> DEFINE new == <<newsGroupCounter + 1, t>>
    <2>1. newsGroupCounter \in Int /\ newsGroupCounter + 1 \in GroupNumbers
      BY <1>3, BoundsAssumption DEF IInv, TypeOK, GroupNumbers
    <2>a. \A d \in DOMAIN dbroot : d[1] \in Int /\ d[1] <= newsGroupCounter
      BY <1>3, BoundsAssumption
      DEF IInv, TypeOK, DiskTypeOK, CounterAhead, Idle, Numbers, GroupNumbers
    <2>b. new \in GroupNumbers \X Names /\ new \notin DOMAIN dbroot
      BY <2>1, <2>a
    <2>2. /\ DOMAIN dbroot' \subseteq DOMAIN dbroot \cup {new}
          /\ \A d \in DOMAIN dbroot : d \in DOMAIN dbroot' /\ dbroot'[d] = dbroot[d]
          /\ new \in DOMAIN dbroot' => dbroot'[new] = EmptyMap
      <3>1. dbroot' = IF Storable(t) THEN Put(dbroot, new, EmptyMap) ELSE dbroot
        BY <1>3 DEF MakeDir, NextGroup
      <3> HIDE DEF new
      <3>2. CASE Storable(t)
        <4> DEFINE m == Put(dbroot, new, EmptyMap)
        <4>1. /\ DOMAIN m = DOMAIN dbroot \cup {new}
              /\ m[new] = EmptyMap
              /\ \A d \in DOMAIN dbroot : d # new => m[d] = dbroot[d]
          BY DEF Put
        <4>2. dbroot' = m
          BY <3>1, <3>2
        <4> HIDE DEF m
        <4> QED
          BY <4>1, <4>2, <2>b
      <3>3. CASE ~Storable(t)
        BY <3>1, <3>3, <2>b
      <3> QED
        BY <3>2, <3>3
    <2> HIDE DEF new
    <2>3. EmptyMap \in [DOMAIN EmptyMap -> Seq(STRING)] /\ DOMAIN EmptyMap = {}
      BY DEF EmptyMap
    <2>4. DiskTypeOK'
      BY <2>b, <2>2, <2>3 DEF IInv, TypeOK, DiskTypeOK
    <2>5. UniqueNumbers'
      <3>1. \A d \in DOMAIN dbroot : d[1] # new[1]
        BY <2>1, <2>a DEF new
      <3> QED
        BY <2>2, <2>3, <3>1 DEF IInv, UniqueNumbers
    <2>6. CounterAhead'
      <3>1. \A d \in DOMAIN dbroot' : d[1] <= newsGroupCounter + 1
        BY <2>1, <2>a, <2>2 DEF new
      <3> QED
        BY <1>3, <3>1 DEF CounterAhead, Numbers, NextGroup
    <2>7. PendingTypeOK'
      BY <1>3 DEF Idle, NoCall, PendingTypeOK, Deleting, Creating
    <2>8. newsGroupCounter' \in GroupNumbers /\ openDirs' \in 0..FdLimit
      BY <1>3, <2>1, FdLimitAssumption DEF IInv, TypeOK, CanOpen, NextGroup
    <2> QED
      BY <1>3, <2>4, <2>5, <2>6, <2>7, <2>8 DEF IInv, TypeOK
  <1> QED
    BY <1>1, <1>2, <1>3 DEF CreateNewsGroup

LEMMA DeleteNewsGroupIInv ==
  ASSUME IInv, NEW g \in GroupNumbers, DeleteNewsGroup(g)
  PROVE  IInv'
  <1>1. CASE Crashes
    BY <1>1, CrashesIInv DEF DeleteNewsGroup
  <1>2. ASSUME NEW call, CanOpen(1),
               Returns(call, ERR_NG_DOES_NOT_EXIST, <<>>, 0)
        PROVE  IInv'
    BY <1>2, ReturnsIInv, FewerOpens
  <1>3. ASSUME Idle, CanOpen(2), openDirs' = openDirs + 1,
               UNCHANGED <<dbroot, newsGroupCounter, process>>,
               NEW d \in DOMAIN dbroot,
               pending' = [op |-> "deleteNewsGroup", dir |-> d,
                           toRemove |-> DOMAIN dbroot[d],
                           before |-> dbroot[d]]
        PROVE  IInv'
    <2>1. DiskTypeOK' /\ UniqueNumbers' /\ CounterAhead'
      BY <1>3 DEF IInv, TypeOK, DiskTypeOK, UniqueNumbers, CounterAhead
    <2>2. openDirs' \in 0..FdLimit
      BY <1>3, FdLimitAssumption DEF IInv, TypeOK, CanOpen
    <2>3. DOMAIN dbroot[d] \subseteq ArticleNumbers \X Titles
      BY DEF IInv, TypeOK, DiskTypeOK
    <2>4. PendingTypeOK'
      BY <1>3, <2>3 DEF Idle, PendingTypeOK, Deleting, Creating
    <2> QED
      BY <1>3, <2>1, <2>2, <2>4 DEF IInv, TypeOK
  <1> QED
    BY <1>1, <1>2, <1>3 DEF DeleteNewsGroup

LEMMA RemoveArticleIInv ==
  ASSUME IInv, RemoveArticle
  PROVE  IInv'
  <1> DEFINE d == pending.dir
  <1>1. PICK e \in pending.toRemove :
          /\ pending' = [pending EXCEPT !.toRemove = @ \ {e}]
          /\ dbroot' = [dbroot EXCEPT ![d] =
                          Erase(@, <<e[1], FirstWord(e[2])>>)]
    BY DEF RemoveArticle
  <1> DEFINE files == Erase(dbroot[d], <<e[1], FirstWord(e[2])>>)
  <1>2. Deleting /\ d \in DOMAIN dbroot
    BY DEF RemoveArticle, IInv, TypeOK, PendingTypeOK
  <1>3. FilesOK(files)
    <2> DEFINE path == <<e[1], FirstWord(e[2])>>
    <2>1. files = Erase(dbroot[d], path)
      OBVIOUS
    <2> HIDE DEF d, files, path
    <2> QED
      BY <1>2, <2>1, FewerFiles
  <1>4. dbroot' = [dbroot EXCEPT ![d] = files]
    BY <1>1
  <1>5. DOMAIN dbroot' = DOMAIN dbroot /\ DiskTypeOK' /\ UniqueNumbers'
    <2> HIDE DEF d, files
    <2> QED
      BY <1>2, <1>3, <1>4, FilesChange
  <1>6. PendingTypeOK'
    BY <1>1, <1>2, <1>5
    DEF IInv, TypeOK, PendingTypeOK, Deleting, Creating, RemoveArticle, NoCall
  <1> QED
    BY <1>5, <1>6 DEF RemoveArticle, IInv, TypeOK, CounterAhead

LEMMA RemoveGroupIInv ==
  ASSUME IInv, RemoveGroup
  PROVE  IInv'
  <1>1. /\ DOMAIN dbroot' \subseteq DOMAIN dbroot
        /\ \A d \in DOMAIN dbroot' : dbroot'[d] = dbroot[d]
    BY DEF RemoveGroup, Erase, Restrict
  <1>2. DiskTypeOK' /\ UniqueNumbers' /\ CounterAhead'
    BY <1>1
    DEF RemoveGroup, IInv, TypeOK, DiskTypeOK, UniqueNumbers, CounterAhead,
        Numbers
  <1>3. PendingTypeOK'
    BY DEF RemoveGroup, PendingTypeOK, Deleting, Creating, NoCall
  <1> QED
    BY <1>2, <1>3 DEF RemoveGroup, IInv, TypeOK

LEMMA ListNewsGroupsIInv ==
  ASSUME IInv, ListNewsGroups
  PROVE  IInv'
  BY CrashesIInv, ReturnsIInv DEF ListNewsGroups

LEMMA ListArticlesIInv ==
  ASSUME IInv, NEW g \in GroupNumbers, ListArticles(g)
  PROVE  IInv'
  <1>1. CASE Crashes
    BY <1>1, CrashesIInv DEF ListArticles
  <1>2. ASSUME NEW call, NEW code, NEW result, NEW leaked \in {0, 1},
               CanOpen(1), Returns(call, code, result, leaked)
        PROVE  IInv'
    BY <1>2, ReturnsIInv, FewerOpens
  <1>3. OpenedGroup(g) # {} => CanOpen(1)
    <2>1. CanOpen(2) => CanOpen(1)
      BY FewerOpens, 2 \in 0..3, 1 \in 0..2
    <2> QED
      BY <2>1 DEF OpenedGroup, Reached
  <1> QED
    BY <1>1, <1>2, <1>3 DEF ListArticles

LEMMA GetNewsArticleIInv ==
  ASSUME IInv, NEW g \in GroupNumbers, NEW a \in ArticleNumbers,
         GetNewsArticle(g, a)
  PROVE  IInv'
  <1>1. CASE Crashes
    BY <1>1, CrashesIInv DEF GetNewsArticle
  <1>2. ASSUME NEW call, NEW code, NEW result, NEW leaked \in {1, 2},
               CanOpen(leaked), Returns(call, code, result, leaked)
        PROVE  IInv'
    BY <1>2, ReturnsIInv
  <1>3. OpenedGroup(g) # {} => CanOpen(2)
    BY DEF OpenedGroup, Reached
  <1> QED
    BY <1>1, <1>2, <1>3 DEF GetNewsArticle

LEMMA CreateArticleIInv ==
  ASSUME IInv, NEW g \in GroupNumbers, NEW title \in Titles,
         NEW author \in Authors, NEW text \in Texts,
         CreateArticle(g, title, author, text)
  PROVE  IInv'
  <1> DEFINE call == <<"createArticle", g, title, author, text>>
  <1>1. CASE Crashes
    BY <1>1, CrashesIInv DEF CreateArticle
  <1>2. ASSUME CanOpen(1), Returns(call, ERR_NG_DOES_NOT_EXIST, <<>>, 1)
        PROVE  IInv'
    BY <1>2, ReturnsIInv
  <1>3. ASSUME NEW d \in DOMAIN dbroot, Idle, NextArticle(d) <= MaxArticle,
               CanOpen(3), openDirs' = openDirs + 2,
               dbroot' = [dbroot EXCEPT ![d] =
                            Put(@, <<NextArticle(d), title>>, <<>>)],
               pending' = [op |-> "createArticle", call |-> call,
                           dir |-> d, nbr |-> NextArticle(d)],
               UNCHANGED <<newsGroupCounter, process>>
        PROVE  IInv'
    <2> DEFINE n == NextArticle(d)
               files == Put(dbroot[d], <<n, title>>, <<>>)
    <2>1. n \in ArticleNumbers /\ \A e \in DOMAIN dbroot[d] : e[1] < n
      <3>1. n \in Nat \ {0} /\ \A e \in DOMAIN dbroot[d] : e[1] < n
        BY NextArticleAbove DEF IInv, TypeOK
      <3> HIDE DEF n
      <3> QED
        BY <1>3, <3>1, BoundsAssumption DEF ArticleNumbers, n
    <2>2. FilesOK(files) /\ <<n, title>> \in DOMAIN files
      <3>1. FilesOK(dbroot[d])
        BY DEF IInv, TypeOK, DiskTypeOK, UniqueNumbers, FilesOK
      <3>2. \A e \in DOMAIN dbroot[d] : e[1] # n
        BY <2>1, <3>1 DEF FilesOK, ArticleNumbers
      <3>3. <<>> \in Seq(STRING)
        OBVIOUS
      <3> HIDE DEF n
      <3>4. /\ DOMAIN files = DOMAIN dbroot[d] \cup {<<n, title>>}
            /\ \A e \in DOMAIN dbroot[d] : e # <<n, title>> =>
                 files[e] = dbroot[d][e]
            /\ files[<<n, title>>] = <<>>
            /\ files = [e \in DOMAIN files |-> files[e]]
        BY DEF Put
      <3> HIDE DEF files
      <3>5. DOMAIN files \subseteq ArticleNumbers \X Titles
        BY <2>1, <3>1, <3>4 DEF FilesOK
      <3>6. files \in [DOMAIN files -> Seq(STRING)]
        <4>1. \A e \in DOMAIN files : files[e] \in Seq(STRING)
          BY <3>1, <3>3, <3>4 DEF FilesOK
        <4> QED
          BY <3>4, <4>1
      <3>7. \A e, f \in DOMAIN files : e[1] = f[1] => e = f
        BY <3>1, <3>2, <3>4 DEF FilesOK
      <3> QED
        BY <3>4, <3>5, <3>6, <3>7 DEF FilesOK
    <2>3. dbroot' = [dbroot EXCEPT ![d] = files]
      BY <1>3
    <2> HIDE DEF n, files
    <2>4. /\ DOMAIN dbroot' = DOMAIN dbroot
          /\ dbroot'[d] = files
          /\ DiskTypeOK' /\ UniqueNumbers'
      BY <2>2, <2>3, FilesChange
    <2>5. pending' = [op |-> "createArticle", call |-> call,
                      dir |-> d, nbr |-> n]
      BY <1>3 DEF n
    <2>6. PendingTypeOK'
      <3>1. (Creating /\ ~Deleting)' /\ pending' # NoCall
        BY <1>3, <2>5 DEF Idle, Deleting, Creating, NoCall
      <3>2. pending' \in [op : {"createArticle"}, dir : DOMAIN dbroot,
                          nbr : ArticleNumbers,
                          call : {"createArticle"} \X GroupNumbers \X Titles
                                   \X Authors \X Texts]
        BY <2>1, <2>5
      <3>3. File(pending.dir, pending.nbr, pending.call[3])'
        BY <2>2, <2>4, <2>5 DEF File
      <3> QED
        BY <2>4, <3>1, <3>2, <3>3 DEF PendingTypeOK
    <2>7. openDirs' \in 0..FdLimit
      BY <1>3, FdLimitAssumption DEF IInv, TypeOK, CanOpen
    <2> QED
      BY <1>3, <2>4, <2>6, <2>7 DEF IInv, TypeOK, CounterAhead
  <1>4. ASSUME CanOpen(2), openDirs' = openDirs + 2, Idle,
               UNCHANGED <<dbroot, pending, newsGroupCounter, process>>
        PROVE  IInv'
    BY <1>4, FdLimitAssumption
    DEF Idle, NoCall, CanOpen, IInv, TypeOK, DiskTypeOK, PendingTypeOK,
        Deleting, Creating, UniqueNumbers, CounterAhead
  <1> QED
    BY <1>1, <1>2, <1>3, <1>4 DEF CreateArticle, OpenedGroup, Reached

\* The file of the pending createArticle gets lines.
LEMMA WriteLinesIInv ==
  ASSUME IInv, Creating, NEW lines \in Seq(STRING), WriteLines(lines),
         UNCHANGED <<newsGroupCounter, process>>, openDirs' = openDirs,
         pending' = pending \/ pending' = NoCall
  PROVE  IInv'
  <1> DEFINE d == pending.dir
             e == <<pending.nbr, pending.call[3]>>
             files == [dbroot[d] EXCEPT ![e] = @ \o lines]
  <1>1. d \in DOMAIN dbroot /\ e \in DOMAIN dbroot[d]
    BY DEF IInv, TypeOK, PendingTypeOK, File
  <1>2. dbroot' = [dbroot EXCEPT ![d] = files]
    BY <1>1 DEF WriteLines
  <1>3. FilesOK(files) /\ DOMAIN files = DOMAIN dbroot[d]
    <2>1. FilesOK(dbroot[d])
      BY <1>1 DEF IInv, TypeOK, DiskTypeOK, UniqueNumbers, FilesOK
    <2> HIDE DEF d, e
    <2>2. dbroot[d][e] \o lines \in Seq(STRING)
      BY <1>1, <2>1 DEF FilesOK
    <2> QED
      BY <2>1, <2>2 DEF FilesOK
  <1> HIDE DEF d, e, files
  <1>4. /\ DOMAIN dbroot' = DOMAIN dbroot
        /\ dbroot'[d] = files
        /\ DiskTypeOK' /\ UniqueNumbers'
    BY <1>1, <1>2, <1>3, FilesChange
  <1>5. PendingTypeOK'
    <2>1. CASE pending' = NoCall
      BY <2>1 DEF PendingTypeOK, Deleting, Creating, NoCall
    <2>2. CASE pending' = pending
      BY <1>1, <1>3, <1>4, <2>2
      DEF IInv, TypeOK, PendingTypeOK, Deleting, Creating, File, d, e
    <2> QED
      BY <2>1, <2>2
  <1> QED
    BY <1>4, <1>5 DEF IInv, TypeOK, CounterAhead

LEMMA WriteIInv ==
  ASSUME IInv, WriteAuthor \/ WriteText
  PROVE  IInv'
  <1>1. Creating
    BY DEF WriteAuthor, WriteText
  <1>2. pending.call[4] \in Seq(STRING) /\ pending.call[5] \in Seq(STRING)
    BY <1>1, LinesAssumption DEF IInv, TypeOK, PendingTypeOK
  <1>3. CASE WriteAuthor
    BY <1>1, <1>2, <1>3, WriteLinesIInv DEF WriteAuthor, memory
  <1>4. CASE WriteText
    BY <1>1, <1>2, <1>4, WriteLinesIInv DEF WriteText
  <1> QED
    BY <1>3, <1>4

LEMMA DeleteArticleIInv ==
  ASSUME IInv, NEW g \in GroupNumbers, NEW a \in ArticleNumbers,
         DeleteArticle(g, a)
  PROVE  IInv'
  <1>1. CASE Idle /\ Crashes
    BY <1>1, CrashesIInv
  <1>2. ASSUME NEW call, NEW code, NEW result, NEW leaked \in 0..2,
               CanOpen(leaked) \/ leaked = 0, Returns(call, code, result, leaked)
        PROVE  IInv'
    <2>1. CanOpen(0)
      BY FdLimitAssumption DEF IInv, TypeOK, CanOpen
    <2> QED
      BY <1>2, <2>1, ReturnsIInv
  <1>3. ASSUME Idle, CanOpen(2), NEW d \in DOMAIN dbroot, NEW path,
               dbroot' = [dbroot EXCEPT ![d] = Erase(@, path)],
               openDirs' = openDirs + 2,
               UNCHANGED <<newsGroupCounter, process, pending>>
        PROVE  IInv'
    <2> DEFINE files == Erase(dbroot[d], path)
    <2>1. dbroot' = [dbroot EXCEPT ![d] = files] /\ files = Erase(dbroot[d], path)
      BY <1>3
    <2> HIDE DEF files
    <2>2. FilesOK(files)
      BY <2>1, FewerFiles
    <2>3. DOMAIN dbroot' = DOMAIN dbroot /\ DiskTypeOK' /\ UniqueNumbers'
      BY <2>1, <2>2, FilesChange
    <2>4. openDirs' \in 0..FdLimit
      BY <1>3, FdLimitAssumption DEF IInv, TypeOK, CanOpen
    <2>5. PendingTypeOK'
      BY <1>3 DEF Idle, NoCall, PendingTypeOK, Deleting, Creating
    <2> QED
      BY <1>3, <2>3, <2>4, <2>5 DEF IInv, TypeOK, CounterAhead
  <1>4. \A d \in OpenedGroup(g) : d \in DOMAIN dbroot /\ CanOpen(2)
    BY DEF OpenedGroup, Reached
  <1> DEFINE call == <<"deleteArticle", g, a>>
  <1>5. CASE \E code, result : \/ Returns(call, code, result, 0)
                               \/ CanOpen(1) /\ Returns(call, code, result, 1)
                               \/ CanOpen(2) /\ Returns(call, code, result, 2)
    BY <1>2, <1>5
  <1>6. CASE \E d \in OpenedGroup(g) : \E e \in Articles(d, a) :
               /\ Idle
               /\ dbroot' = [dbroot EXCEPT ![d] =
                               Erase(@, <<a, ReadBack(e[2])>>)]
               /\ openDirs' = openDirs + 2
               /\ UNCHANGED <<newsGroupCounter, process, pending>>
    BY <1>3, <1>4, <1>6
  <1> QED
    BY <1>1, <1>4, <1>5, <1>6 DEF DeleteArticle

\* A kill leaves the disk as it is; the next process finds its counter there.
LEMMA ProcessIInv ==
  ASSUME IInv, KillIdle \/ KillBusy \/ Restart
  PROVE  IInv'
  <1>1. CASE KillIdle \/ KillBusy
    BY <1>1
    DEF KillIdle, KillBusy, Idle, NoCall, IInv, TypeOK, DiskTypeOK,
        PendingTypeOK, Deleting, Creating, UniqueNumbers, CounterAhead
  <1>2. CASE Restart
    <2>1. pending = NoCall
      BY <1>2 DEF Restart, IInv, TypeOK, PendingTypeOK, Deleting, Creating
    <2>2. PendingTypeOK'
      BY <1>2, <2>1
      DEF Restart, NoCall, PendingTypeOK, Deleting, Creating
    <2>3. DiskTypeOK' /\ UniqueNumbers'
      BY <1>2 DEF Restart, IInv, TypeOK, DiskTypeOK, UniqueNumbers
    <2>4. newsGroupCounter' \in GroupNumbers \cup {-1} /\ CounterAhead'
      BY <1>2, LastGroupGreatest DEF Restart, IInv, TypeOK, CounterAhead
    <2> QED
      BY <1>2, <2>2, <2>3, <2>4, FdLimitAssumption DEF Restart, IInv, TypeOK
  <1> QED
    BY <1>1, <1>2

LEMMA InitIInv == Init => IInv
  BY FdLimitAssumption
  DEF Init, EmptyMap, NoCall, IInv, TypeOK, DiskTypeOK, PendingTypeOK,
      Deleting, Creating, UniqueNumbers, CounterAhead, Numbers

LEMMA NextIInv == IInv /\ [Next]_vars => IInv'
  <1> SUFFICES ASSUME IInv, [Next]_vars
               PROVE  IInv'
    OBVIOUS
  <1>1. CASE UNCHANGED vars
    BY <1>1
    DEF vars, memory, IInv, TypeOK, DiskTypeOK, PendingTypeOK, Deleting,
        Creating, File, UniqueNumbers, CounterAhead
  <1>2. CASE Call
    BY <1>2, ListNewsGroupsIInv, CreateNewsGroupIInv, DeleteNewsGroupIInv,
       ListArticlesIInv, CreateArticleIInv, DeleteArticleIInv,
       GetNewsArticleIInv
    DEF Call
  <1>3. CASE Continue
    BY <1>3, RemoveArticleIInv, RemoveGroupIInv, WriteIInv DEF Continue
  <1>4. CASE KillIdle \/ KillBusy \/ Restart
    BY <1>4, ProcessIInv
  <1> QED
    BY <1>1, <1>2, <1>3, <1>4 DEF Next

\* The inductive invariant holds of the store, however it is used and killed.
THEOREM Inductive == Spec => []IInv
  BY InitIInv, NextIInv, PTL DEF Spec

\* The values of the store keep their shapes, and a call that is pending is
\* on a directory and, when it writes, on a file that exist.
THEOREM TypeCorrect == Spec => []TypeOK
  <1>1. IInv => TypeOK
    BY DEF IInv
  <1> QED
    BY <1>1, Inductive, PTL

\* Every group has a number of its own, and every article one of its own in
\* its group, whatever is killed, restarted, or cannot be created.
THEOREM NumbersStayUnique == Spec => []UniqueNumbers
  <1>1. IInv => UniqueNumbers
    BY DEF IInv
  <1> QED
    BY <1>1, Inductive, PTL

\* The counter found at a restart, and counted up since, is not behind any
\* group on disk: the next group's number is free.
THEOREM CounterStaysAhead == Spec => []CounterAhead
  <1>1. IInv => CounterAhead
    BY DEF IInv
  <1> QED
    BY <1>1, Inductive, PTL

-------------------------------------------------------------------------------
(* What a call does to the disk and to what was promised, the answer and the *)
(* descriptors left aside.                                                   *)

LooksOnly ==
  /\ Idle
  /\ process' \in {"up", "crashed"}
  /\ UNCHANGED <<dbroot, newsGroupCounter, pending, history>>

AddsGroup(t) ==
  /\ Idle
  /\ ~NameTaken(t)
  /\ newsGroupCounter < MaxGroup
  /\ newsGroupCounter' = NextGroup
  /\ dbroot' = MakeDir(<<NextGroup, t>>)
  /\ ackedGroups' = ackedGroups \cup {<<NextGroup, t>>}
  /\ UNCHANGED <<process, pending, ackedArticles, inDoubt, retired>>

StartsDeleting(d) ==
  /\ Idle
  /\ pending' = [op |-> "deleteNewsGroup", dir |-> d,
                 toRemove |-> DOMAIN dbroot[d], before |-> dbroot[d]]
  /\ ackedGroups' = {e \in ackedGroups : e[1] # d[1]}
  /\ ackedArticles' = {r \in ackedArticles : r.group # d[1]}
  /\ inDoubt' = {p \in inDoubt : p[1] # d[1]}
  /\ UNCHANGED <<dbroot, newsGroupCounter, process, retired>>

StartsArticle(d, title, author, text) ==
  /\ Idle
  /\ NextArticle(d) <= MaxArticle
  /\ dbroot' = [dbroot EXCEPT ![d] = Put(@, <<NextArticle(d), title>>, <<>>)]
  /\ pending' = [op |-> "createArticle",
                 call |-> <<"createArticle", d[1], title, author, text>>,
                 dir |-> d, nbr |-> NextArticle(d)]
  /\ UNCHANGED <<newsGroupCounter, process, history>>

LosesArticle(d, title, author, text) ==
  /\ Idle
  /\ ~CanOpen(3) \/ ~Storable(title)
  /\ ackedArticles' = ackedArticles \cup
       {Record(d, NextArticle(d), title, author, text)}
  /\ UNCHANGED <<dbroot, newsGroupCounter, process, pending, ackedGroups,
                 inDoubt, retired>>

DropsArticle(d, e) ==
  /\ Idle
  /\ dbroot' = [dbroot EXCEPT ![d] = Erase(@, <<e[1], ReadBack(e[2])>>)]
  /\ ackedArticles' = {r \in ackedArticles : r.group # d[1] \/ r.nbr # e[1]}
  /\ inDoubt' = inDoubt \ {<<d[1], e[1]>>}
  /\ UNCHANGED <<newsGroupCounter, process, pending, ackedGroups, retired>>

\* Every call does one of these.
LEMMA CallKinds ==
  ASSUME Call
  PROVE  \/ LooksOnly
         \/ \E t \in Names : AddsGroup(t)
         \/ \E d \in DOMAIN dbroot :
              \/ StartsDeleting(d)
              \/ \E title \in Titles, author \in Authors, text \in Texts :
                   \/ StartsArticle(d, title, author, text)
                   \/ LosesArticle(d, title, author, text)
              \/ \E e \in DOMAIN dbroot[d] : DropsArticle(d, e)
  <1>1. CASE ListNewsGroups
    BY <1>1 DEF ListNewsGroups, LooksOnly, Idle, Crashes, Returns, history
  <1>2. CASE \E t \in Names : CreateNewsGroup(t)
    <2>1. PICK t \in Names : CreateNewsGroup(t)
      BY <1>2
    <2>2. LooksOnly \/ AddsGroup(t)
      BY <2>1
      DEF CreateNewsGroup, LooksOnly, AddsGroup, Idle, Crashes, Returns, history
    <2> QED
      BY <2>2
  <1>3. CASE \E g \in GroupNumbers : DeleteNewsGroup(g)
    <2>1. PICK g \in GroupNumbers : DeleteNewsGroup(g)
      BY <1>3
    <2>2. LooksOnly \/ \E d \in DOMAIN dbroot : StartsDeleting(d)
      BY <2>1
      DEF DeleteNewsGroup, LooksOnly, StartsDeleting, Idle, Crashes, Returns,
          history
    <2> QED
      BY <2>2
  <1>4. CASE \E g \in GroupNumbers : ListArticles(g)
    BY <1>4 DEF ListArticles, LooksOnly, Idle, Crashes, Returns, history
  <1>5. CASE \E g \in GroupNumbers, t \in Titles, au \in Authors, tx \in Texts :
               CreateArticle(g, t, au, tx)
    <2>1. PICK g \in GroupNumbers, t \in Titles, au \in Authors, tx \in Texts :
             CreateArticle(g, t, au, tx)
      BY <1>5
    <2>2. \/ LooksOnly
          \/ \E d \in DOMAIN dbroot :
               \/ StartsArticle(d, t, au, tx)
               \/ LosesArticle(d, t, au, tx)
      BY <2>1
      DEF CreateArticle, OpenedGroup, LooksOnly, StartsArticle, LosesArticle,
          Idle, Crashes, Returns, history
    <2> QED
      BY <2>2
  <1>6. CASE \E g \in GroupNumbers, a \in ArticleNumbers : DeleteArticle(g, a)
    <2>1. PICK g \in GroupNumbers, a \in ArticleNumbers : DeleteArticle(g, a)
      BY <1>6
    <2>2. ASSUME NEW d \in DOMAIN dbroot, NEW e \in DOMAIN dbroot[d],
                 d[1] = g, e[1] = a, Idle,
                 dbroot' = [dbroot EXCEPT ![d] =
                              Erase(@, <<a, ReadBack(e[2])>>)],
                 ackedArticles' = {r \in ackedArticles :
                                     r.group # g \/ r.nbr # a},
                 inDoubt' = inDoubt \ {<<g, a>>},
                 UNCHANGED <<newsGroupCounter, process, pending,
                             ackedGroups, retired>>
          PROVE  DropsArticle(d, e)
      BY <2>2 DEF DropsArticle
    <2>3. CASE \E code, result, leaked :
                 Idle /\ Returns(<<"deleteArticle", g, a>>, code, result, leaked)
      BY <2>3 DEF LooksOnly, Idle, Returns, history
    <2>4. CASE Idle /\ Crashes
      BY <2>4 DEF LooksOnly, Idle, Crashes, history
    <2>5. CASE \E d \in DOMAIN dbroot : \E e \in DOMAIN dbroot[d] :
                 DropsArticle(d, e)
      BY <2>5
    <2> QED
      BY <2>1, <2>2, <2>3, <2>4, <2>5 DEF DeleteArticle, OpenedGroup, Articles
  <1>7. CASE \E g \in GroupNumbers, a \in ArticleNumbers : GetNewsArticle(g, a)
    BY <1>7 DEF GetNewsArticle, LooksOnly, Idle, Crashes, Returns, history
  <1> QED
    BY <1>1, <1>2, <1>3, <1>4, <1>5, <1>6, <1>7 DEF Call

\* While nothing is pending no group is being removed and no file written.
LEMMA IdleIsNeither ==
  ASSUME Idle
  PROVE  pending = NoCall /\ process = "up" /\ ~Deleting /\ ~Creating
  BY DEF Idle, NoCall, Deleting, Creating

\* What mkdir leaves.
LEMMA MakeDirMap ==
  ASSUME NEW d, d \notin DOMAIN dbroot
  PROVE  /\ DOMAIN dbroot \subseteq DOMAIN MakeDir(d)
         /\ DOMAIN MakeDir(d) \subseteq DOMAIN dbroot \cup {d}
         /\ Storable(d[2]) => d \in DOMAIN MakeDir(d)
         /\ \A e \in DOMAIN dbroot : MakeDir(d)[e] = dbroot[e]
         /\ d \in DOMAIN MakeDir(d) => MakeDir(d)[d] = EmptyMap
  BY DEF MakeDir, Put

\* The number of the next group is above all that are on disk.
LEMMA NextGroupAbove ==
  ASSUME IInv, process = "up"
  PROVE  /\ newsGroupCounter \in Int
         /\ \A d \in DOMAIN dbroot :
              /\ d[1] \in Int
              /\ d[1] <= newsGroupCounter
              /\ d[1] # NextGroup
  BY BoundsAssumption
  DEF IInv, TypeOK, DiskTypeOK, CounterAhead, Numbers, GroupNumbers, NextGroup

\* Only createNewsGroup adds a directory.
LEMMA NoNewGroup ==
  ASSUME [Next]_vars, NEW d \in DOMAIN dbroot', d \notin DOMAIN dbroot
  PROVE  \E t \in Names : AddsGroup(t) /\ d = <<NextGroup, t>>
  <1>1. CASE Call
    <2>1. PICK t \in Names : AddsGroup(t)
      BY <1>1, CallKinds
      DEF LooksOnly, StartsDeleting, StartsArticle, LosesArticle, DropsArticle
    <2>2. d = <<NextGroup, t>>
      BY <2>1 DEF AddsGroup, MakeDir, Put
    <2> QED
      BY <2>1, <2>2
  <1>2. CASE Continue
    BY <1>2
    DEF Continue, RemoveArticle, RemoveGroup, WriteAuthor, WriteText,
        WriteLines, Erase, Restrict
  <1>3. CASE UNCHANGED vars \/ KillIdle \/ KillBusy \/ Restart
    BY <1>3 DEF vars, KillIdle, KillBusy, Restart
  <1> QED
    BY <1>1, <1>2, <1>3 DEF Next

\* A call finds the process up, and none pending.
LEMMA CallIsIdle ==
  ASSUME Call
  PROVE  Idle
  BY CallKinds
  DEF LooksOnly, AddsGroup, StartsDeleting, StartsArticle, LosesArticle,
      DropsArticle

\* How the process comes to crash.
LEMMA CrashesOf ==
  ASSUME [Next]_vars, process # "crashed", process' = "crashed"
  PROVE  Crashes /\ (~CanOpen(1) \/ ~CanOpen(2) \/ \E g : OpenFails(g))
  <1>1. Call
    BY DEF Next, vars, memory, Continue, RemoveArticle, RemoveGroup,
           WriteAuthor, WriteText, KillIdle, KillBusy, Restart
  <1>2. CASE ListNewsGroups
    BY <1>2 DEF ListNewsGroups, Returns
  <1>3. CASE \E t \in Names : CreateNewsGroup(t)
    BY <1>3 DEF CreateNewsGroup, Returns
  <1>4. CASE \E g \in GroupNumbers : DeleteNewsGroup(g)
    BY <1>4 DEF DeleteNewsGroup, Returns
  <1>5. CASE \E g \in GroupNumbers : ListArticles(g)
    BY <1>5 DEF ListArticles, Returns
  <1>6. CASE \E g \in GroupNumbers, t \in Titles, au \in Authors, tx \in Texts :
               CreateArticle(g, t, au, tx)
    <2>1. PICK g \in GroupNumbers, t \in Titles, au \in Authors, tx \in Texts :
             CreateArticle(g, t, au, tx)
      BY <1>6
    <2>2. Crashes /\ OpenFails(g)
      BY <2>1 DEF CreateArticle, Returns
    <2> QED
      BY <2>2
  <1>7. CASE \E g \in GroupNumbers, a \in ArticleNumbers : DeleteArticle(g, a)
    BY <1>7 DEF DeleteArticle, Returns
  <1>8. CASE \E g \in GroupNumbers, a \in ArticleNumbers : GetNewsArticle(g, a)
    BY <1>8 DEF GetNewsArticle, Returns
  <1> QED
    BY <1>1, <1>2, <1>3, <1>4, <1>5, <1>6, <1>7, <1>8 DEF Call

-------------------------------------------------------------------------------
(* What holds of names and titles that are read back as they were written.  *)

NamesReadBack == \A t \in Names : ReadBack(t) = t
OneWordTitles == \A t \in Titles : FirstWord(t) = t

\* Two groups never have one name, when no name starts with a blank.
THEOREM GroupNamesUnique ==
  ASSUME NamesReadBack
  PROVE  Spec => []NamesUnique
  <1>1. Init => NamesUnique
    BY DEF Init, EmptyMap, NamesUnique
  <1>2. IInv /\ NamesUnique /\ [Next]_vars => NamesUnique'
    <2> SUFFICES ASSUME IInv, NamesUnique, [Next]_vars,
                        NEW d \in DOMAIN dbroot', NEW e \in DOMAIN dbroot',
                        ReadBack(d[2]) = ReadBack(e[2])
                 PROVE  d = e
      BY DEF NamesUnique
    <2>1. ASSUME NEW f \in DOMAIN dbroot', NEW h \in DOMAIN dbroot',
                 f \notin DOMAIN dbroot, ReadBack(f[2]) = ReadBack(h[2])
          PROVE  f = h
      <3>1. PICK t \in Names : AddsGroup(t) /\ f = <<NextGroup, t>>
        BY <2>1, NoNewGroup
      <3>2. ReadBack(h[2]) = t
        BY <2>1, <3>1, NamesReadBack DEF NamesReadBack
      <3>3. h \notin DOMAIN dbroot
        BY <3>1, <3>2 DEF AddsGroup, NameTaken
      <3>4. PICK u \in Names : AddsGroup(u) /\ h = <<NextGroup, u>>
        BY <2>1, <3>3, NoNewGroup
      <3>5. ReadBack(h[2]) = u
        BY <3>4, NamesReadBack DEF NamesReadBack
      <3> QED
        BY <3>1, <3>2, <3>4, <3>5
    <2>2. CASE d \in DOMAIN dbroot /\ e \in DOMAIN dbroot
      BY <2>2 DEF NamesUnique
    <2> QED
      BY <2>1, <2>2
  <1> QED
    BY <1>1, <1>2, Inductive, PTL DEF Spec

\* The process ends by itself only without descriptors for two directories.
THEOREM CrashesOnlyExhausted ==
  ASSUME NamesReadBack
  PROVE  Spec => []CrashOnlyWhenExhausted
  <1>1. Init => CrashOnlyWhenExhausted
    BY DEF Init, CrashOnlyWhenExhausted
  <1>2. IInv /\ CrashOnlyWhenExhausted /\ [Next]_vars => CrashOnlyWhenExhausted'
    <2> SUFFICES ASSUME IInv, CrashOnlyWhenExhausted, [Next]_vars,
                        process' = "crashed"
                 PROVE  ~CanOpen(2)'
      BY DEF CrashOnlyWhenExhausted
    <2>1. CASE process = "crashed"
      <3>1. ~Idle /\ ~Deleting /\ ~Creating
        BY <2>1 DEF Idle, Deleting, Creating
      <3>2. UNCHANGED openDirs
        BY <2>1, <3>1, CallIsIdle
        DEF Next, vars, memory, Continue, RemoveArticle, RemoveGroup,
            WriteAuthor, WriteText, KillIdle, KillBusy, Restart
      <3> QED
        BY <2>1, <3>2 DEF CrashOnlyWhenExhausted, CanOpen
    <2>2. CASE process # "crashed"
      <3>1. Crashes /\ (~CanOpen(1) \/ ~CanOpen(2) \/ \E g : OpenFails(g))
        BY <2>2, CrashesOf
      <3>2. \A d \in DOMAIN dbroot : ReadBack(d[2]) = d[2] /\ d = <<d[1], d[2]>>
        BY NamesReadBack DEF NamesReadBack, IInv, TypeOK, DiskTypeOK
      <3>3. ~CanOpen(1) \/ ~CanOpen(2)
        BY <3>1, <3>2 DEF OpenFails, Reached
      <3>4. CanOpen(2) => CanOpen(1)
        BY FewerOpens, 2 \in 0..3, 1 \in 0..2
      <3> QED
        BY <3>1, <3>3, <3>4 DEF Crashes, CanOpen
    <2> QED
      BY <2>1, <2>2
  <1> QED
    BY <1>1, <1>2, Inductive, PTL DEF Spec

\* With titles of one word, every removal of deleteNewsGroup hits its file.
LEMMA RemoveArticleErases ==
  ASSUME OneWordTitles, IInv, RemoveArticle
  PROVE  /\ pending.dir \in DOMAIN dbroot
         /\ DOMAIN dbroot' = DOMAIN dbroot
         /\ \A d \in DOMAIN dbroot : d # pending.dir => dbroot'[d] = dbroot[d]
         /\ \E e \in pending.toRemove :
              /\ pending' = [pending EXCEPT !.toRemove = @ \ {e}]
              /\ DOMAIN dbroot'[pending.dir] = DOMAIN dbroot[pending.dir] \ {e}
              /\ \A f \in DOMAIN dbroot[pending.dir] : f # e =>
                   dbroot'[pending.dir][f] = dbroot[pending.dir][f]
  <1>1. PICK e \in pending.toRemove :
          /\ pending' = [pending EXCEPT !.toRemove = @ \ {e}]
          /\ dbroot' = [dbroot EXCEPT ![pending.dir] =
                          Erase(@, <<e[1], FirstWord(e[2])>>)]
    BY DEF RemoveArticle
  <1>2. /\ pending.dir \in DOMAIN dbroot
        /\ e \in ArticleNumbers \X Titles
    BY DEF RemoveArticle, IInv, TypeOK, PendingTypeOK
  <1>3. <<e[1], FirstWord(e[2])>> = e
    BY <1>2 DEF OneWordTitles
  <1>4. /\ DOMAIN dbroot' = DOMAIN dbroot
        /\ \A d \in DOMAIN dbroot : d # pending.dir => dbroot'[d] = dbroot[d]
        /\ dbroot'[pending.dir] = Erase(dbroot[pending.dir], e)
    BY <1>1, <1>2, <1>3
  <1>5. /\ DOMAIN dbroot'[pending.dir] = DOMAIN dbroot[pending.dir] \ {e}
        /\ \A f \in DOMAIN dbroot[pending.dir] : f # e =>
             dbroot'[pending.dir][f] = dbroot[pending.dir][f]
    BY <1>4 DEF Erase, Restrict
  <1> QED
    BY <1>1, <1>2, <1>4, <1>5

\* Writing to a file leaves the files that there are.
LEMMA WriteKeepsFiles ==
  ASSUME NEW lines, WriteLines(lines)
  PROVE  /\ DOMAIN dbroot' = DOMAIN dbroot
         /\ \A d \in DOMAIN dbroot : DOMAIN dbroot'[d] = DOMAIN dbroot[d]
  BY DEF WriteLines

\* A process that does not run has no call pending.
LEMMA DownIsIdle ==
  ASSUME IInv, process # "up"
  PROVE  pending = NoCall
  BY DEF IInv, TypeOK, PendingTypeOK, Deleting, Creating

LEMMA EmptiesAllStep ==
  ASSUME OneWordTitles, IInv, EmptiesAll, [Next]_vars
  PROVE  EmptiesAll'
  <1> SUFFICES ASSUME Deleting'
               PROVE  (DOMAIN dbroot[pending.dir] \subseteq pending.toRemove)'
    BY DEF EmptiesAll
  <1>1. CASE Call
    <2>1. pending'.op = "deleteNewsGroup"
      BY DEF Deleting
    <2>2. \A t : ~AddsGroup(t)
      BY <2>1 DEF AddsGroup, Idle, NoCall
    <2>3. \A d, e : ~DropsArticle(d, e)
      BY <2>1 DEF DropsArticle, Idle, NoCall
    <2>4. \A d, title, author, text :
            ~StartsArticle(d, title, author, text)
            /\ ~LosesArticle(d, title, author, text)
      BY <2>1 DEF StartsArticle, LosesArticle, Idle, NoCall
    <2>5. ~LooksOnly
      BY <2>1 DEF LooksOnly, Idle, NoCall
    <2>6. PICK d \in DOMAIN dbroot : StartsDeleting(d)
      BY <1>1, <2>2, <2>3, <2>4, <2>5, CallKinds
    <2> QED
      BY <2>6 DEF StartsDeleting
  <1>2. CASE RemoveArticle
    <2>1. PICK e \in pending.toRemove :
            /\ pending' = [pending EXCEPT !.toRemove = @ \ {e}]
            /\ DOMAIN dbroot'[pending.dir] = DOMAIN dbroot[pending.dir] \ {e}
      BY <1>2, RemoveArticleErases
    <2>2. /\ pending'.dir = pending.dir
          /\ pending'.toRemove = pending.toRemove \ {e}
      BY <1>2, <2>1 DEF RemoveArticle, IInv, TypeOK, PendingTypeOK
    <2> QED
      BY <1>2, <2>1, <2>2 DEF EmptiesAll, RemoveArticle
  <1>3. CASE RemoveGroup \/ WriteAuthor \/ WriteText
    BY <1>3
    DEF RemoveGroup, WriteAuthor, WriteText, memory, Creating, Deleting, NoCall
  <1>4. CASE KillIdle \/ KillBusy \/ Restart
    BY <1>4, DownIsIdle DEF KillIdle, KillBusy, Restart, Deleting, NoCall
  <1>5. CASE UNCHANGED vars
    BY <1>5 DEF vars, memory, EmptiesAll, Deleting
  <1> QED
    BY <1>1, <1>2, <1>3, <1>4, <1>5 DEF Next, Continue

\* The directory is empty when it is removed, and so it goes.
LEMMA RemoveGroupRemoves ==
  ASSUME IInv, EmptiesAll, RemoveGroup
  PROVE  /\ pending.dir \in DOMAIN dbroot
         /\ DOMAIN dbroot' = DOMAIN dbroot \ {pending.dir}
         /\ \A d \in DOMAIN dbroot' : dbroot'[d] = dbroot[d]
  <1> DEFINE d == pending.dir
  <1>1. d \in DOMAIN dbroot /\ DOMAIN dbroot[d] = {}
    BY DEF RemoveGroup, EmptiesAll, IInv, TypeOK, PendingTypeOK
  <1>2. dbroot[d] \in [{} -> Seq(STRING)]
    BY <1>1 DEF IInv, TypeOK, DiskTypeOK
  <1>3. dbroot[d] = EmptyMap
    BY <1>2 DEF EmptyMap
  <1> QED
    BY <1>1, <1>3 DEF RemoveGroup, Erase, Restrict

LEMMA RetiredStep ==
  ASSUME OneWordTitles, IInv, RetiredInv, [Next]_vars
  PROVE  RetiredInv'
  <1>1. EmptiesAll'
    BY EmptiesAllStep DEF RetiredInv
  <1>2. CASE RemoveGroup
    <2> DEFINE n == pending.dir[1]
    <2>1. n \in GroupNumbers /\ n <= newsGroupCounter
      BY <1>2, RemoveGroupRemoves
      DEF RetiredInv, IInv, TypeOK, DiskTypeOK, CounterAhead, RemoveGroup,
          Deleting, Numbers
    <2>2. \A d \in DOMAIN dbroot' : d \in DOMAIN dbroot /\ d[1] # n
      BY <1>2, RemoveGroupRemoves DEF RetiredInv, IInv, UniqueNumbers
    <2>3. UNCHANGED <<newsGroupCounter, process>> /\ retired' = retired \cup {n}
      BY <1>2 DEF RemoveGroup
    <2> HIDE DEF n
    <2>4. NumbersNotReused'
      BY <2>2, <2>3 DEF RetiredInv, NumbersNotReused, Numbers
    <2> QED
      BY <1>1, <2>1, <2>3, <2>4 DEF RetiredInv
  <1>3. CASE Restart
    BY <1>1, <1>3 DEF Restart, RetiredInv, NumbersNotReused
  <1>4. CASE ~RemoveGroup /\ ~Restart
    <2>1. /\ retired' = retired
          /\ process' = "up" =>
               /\ process = "up"
               /\ newsGroupCounter' \in {newsGroupCounter, newsGroupCounter + 1}
      <3>1. CASE Call
        BY <3>1, CallKinds
        DEF LooksOnly, AddsGroup, StartsDeleting, StartsArticle, LosesArticle,
            DropsArticle, Idle, history, NextGroup
      <3>2. CASE RemoveArticle \/ WriteAuthor \/ WriteText
        BY <3>2
        DEF RemoveArticle, WriteAuthor, WriteText, memory, history
      <3>3. CASE UNCHANGED vars \/ KillIdle \/ KillBusy
        BY <3>3 DEF vars, memory, history, KillIdle, KillBusy
      <3> QED
        BY <1>4, <3>1, <3>2, <3>3 DEF Next, Continue
    <2>2. \A n \in retired : n \in Int
      BY DEF RetiredInv, GroupNumbers
    <2>3. process' = "up" => \A n \in retired' : n <= newsGroupCounter'
      BY <2>1, <2>2, BoundsAssumption
      DEF RetiredInv, IInv, TypeOK, GroupNumbers
    <2>4. NumbersNotReused'
      <3> SUFFICES ASSUME NEW d \in DOMAIN dbroot', d[1] \in retired
                   PROVE  FALSE
        BY <2>1 DEF NumbersNotReused, Numbers
      <3>1. CASE d \in DOMAIN dbroot
        BY <3>1 DEF RetiredInv, NumbersNotReused, Numbers
      <3>2. CASE d \notin DOMAIN dbroot
        <4>1. process = "up" /\ d[1] = NextGroup
          <5>1. PICK t \in Names : AddsGroup(t) /\ d = <<NextGroup, t>>
            BY <3>2, NoNewGroup
          <5> QED
            BY <5>1 DEF AddsGroup, Idle
        <4>2. NextGroup <= newsGroupCounter
          BY <4>1 DEF RetiredInv
        <4> QED
          BY <4>1, <4>2, NextGroupAbove DEF NextGroup
      <3> QED
        BY <3>1, <3>2
    <2> QED
      BY <1>1, <2>1, <2>3, <2>4 DEF RetiredInv
  <1> QED
    BY <1>2, <1>3, <1>4

\* The number of a group a process deleted is not used again while the
\* process lives, when the titles of articles are single words.
THEOREM GroupNumbersNotReused ==
  ASSUME OneWordTitles
  PROVE  Spec => []NumbersNotReused
  <1>1. Init => RetiredInv
    BY DEF Init, NoCall, RetiredInv, EmptiesAll, Deleting, NumbersNotReused
  <1>2. IInv /\ RetiredInv /\ [Next]_vars => RetiredInv'
    BY RetiredStep
  <1>3. RetiredInv => NumbersNotReused
    BY DEF RetiredInv
  <1> QED
    BY <1>1, <1>2, <1>3, Inductive, PTL DEF Spec

\* What StoredIsExplained says of one file.
Explained(d, e) ==
  \/ \E r \in ackedArticles : r.group = d[1] /\ r.nbr = e[1]
  \/ <<d[1], e[1]>> \in inDoubt
  \/ pending # NoCall /\ <<d[1], e[1]>> \in CutOff

\* The files a call leaves are explained when those it found were.
LEMMA CallExplained ==
  ASSUME OneWordTitles, IInv, ExplainedInv, Call,
         NEW d \in DOMAIN dbroot', NEW e \in DOMAIN dbroot'[d]
  PROVE  Explained(d, e)'
  <1> DEFINE Known(g, n) == \/ \E r \in ackedArticles : r.group = g /\ r.nbr = n
                            \/ <<g, n>> \in inDoubt
  <1>1. Idle /\ pending = NoCall
    BY CallIsIdle DEF Idle
  <1>2. \A c \in DOMAIN dbroot : \A f \in DOMAIN dbroot[c] : Known(c[1], f[1])
    BY <1>1 DEF ExplainedInv, StoredIsExplained
  <1>3. ASSUME Known(d[1], e[1]), ackedArticles \subseteq ackedArticles',
               inDoubt' = inDoubt
        PROVE  Explained(d, e)'
    BY <1>3 DEF Explained
  <1> HIDE DEF Known
  <1>4. CASE LooksOnly
    BY <1>2, <1>3, <1>4 DEF LooksOnly, history
  <1>5. ASSUME NEW t \in Names, AddsGroup(t)
        PROVE  Explained(d, e)'
    <2> DEFINE new == <<NextGroup, t>>
    <2>1. new \notin DOMAIN dbroot
      BY <1>1, NextGroupAbove DEF Idle
    <2>2. dbroot' = MakeDir(new)
      BY <1>5 DEF AddsGroup
    <2> HIDE DEF new
    <2>3. d # new
      <3>1. new \in DOMAIN dbroot' => DOMAIN dbroot'[new] = {}
        BY <2>1, <2>2, MakeDirMap DEF EmptyMap
      <3> QED
        BY <3>1
    <2>4. d \in DOMAIN dbroot /\ dbroot'[d] = dbroot[d]
      BY <2>1, <2>2, <2>3, MakeDirMap
    <2> QED
      BY <1>2, <1>3, <1>5, <2>4 DEF AddsGroup
  <1>6. ASSUME NEW c \in DOMAIN dbroot, StartsDeleting(c)
        PROVE  Explained(d, e)'
    <2>1. UNCHANGED dbroot
      BY <1>6 DEF StartsDeleting
    <2>2. CASE d = c
      <3>1. pending' # NoCall /\ pending'.op # "createArticle" /\ pending'.dir = c
        BY <1>6 DEF StartsDeleting, NoCall
      <3> QED
        BY <2>2, <3>1 DEF Explained, CutOff
    <2>3. CASE d # c
      <3>1. d[1] # c[1]
        BY <2>1, <2>3 DEF IInv, UniqueNumbers
      <3>2. Known(d[1], e[1])
        BY <1>2, <2>1
      <3> QED
        BY <1>6, <3>1, <3>2 DEF Known, Explained, StartsDeleting
    <2> QED
      BY <2>2, <2>3
  <1>7. ASSUME NEW c \in DOMAIN dbroot, NEW title \in Titles,
               NEW author \in Authors, NEW text \in Texts,
               StartsArticle(c, title, author, text)
        PROVE  Explained(d, e)'
    <2> DEFINE n == NextArticle(c)
    <2>1. /\ DOMAIN dbroot' = DOMAIN dbroot
          /\ d # c => dbroot'[d] = dbroot[d]
          /\ d = c => dbroot'[d] = Put(dbroot[c], <<n, title>>, <<>>)
      BY <1>7 DEF StartsArticle
    <2>2. CASE d = c /\ e = <<n, title>>
      <3>1. /\ pending' # NoCall
            /\ pending'.op = "createArticle"
            /\ pending'.dir = c
            /\ pending'.nbr = n
        BY <1>7 DEF StartsArticle, NoCall
      <3> HIDE DEF n
      <3>2. CutOff' = {<<c[1], n>>}
        BY <3>1 DEF CutOff
      <3> QED
        BY <2>2, <3>1, <3>2 DEF Explained
    <2>3. CASE ~(d = c /\ e = <<n, title>>)
      <3> HIDE DEF n
      <3>1. e \in DOMAIN dbroot[d]
        BY <2>1, <2>3 DEF Put
      <3> QED
        BY <1>2, <1>3, <1>7, <2>1, <3>1 DEF StartsArticle, history
    <2> QED
      BY <2>2, <2>3
  <1>8. ASSUME NEW c \in DOMAIN dbroot, NEW title \in Titles,
               NEW author \in Authors, NEW text \in Texts,
               LosesArticle(c, title, author, text)
        PROVE  Explained(d, e)'
    BY <1>2, <1>3, <1>8 DEF LosesArticle
  <1>9. ASSUME NEW c \in DOMAIN dbroot, NEW f \in DOMAIN dbroot[c],
               DropsArticle(c, f)
        PROVE  Explained(d, e)'
    <2>1. f \in ArticleNumbers \X Titles
      BY DEF IInv, TypeOK, DiskTypeOK
    <2>2. <<f[1], ReadBack(f[2])>> = f
      BY <2>1, TitleAssumption DEF OneWordTitles, FirstWord, ReadBack
    <2>3. /\ DOMAIN dbroot' = DOMAIN dbroot
          /\ d # c => dbroot'[d] = dbroot[d]
          /\ d = c => dbroot'[d] = Erase(dbroot[c], f)
      BY <1>9, <2>2 DEF DropsArticle
    <2>4. e \in DOMAIN dbroot[d] /\ ~(d = c /\ e = f)
      BY <2>3 DEF Erase, Restrict
    <2>5. ~(d[1] = c[1] /\ e[1] = f[1])
      BY <2>3, <2>4 DEF IInv, UniqueNumbers
    <2>6. Known(d[1], e[1])
      BY <1>2, <2>3, <2>4
    <2> QED
      BY <1>9, <2>5, <2>6 DEF Known, Explained, DropsArticle
  <1> QED
    BY <1>4, <1>5, <1>6, <1>7, <1>8, <1>9, CallKinds

LEMMA ExplainedStep ==
  ASSUME OneWordTitles, IInv, ExplainedInv, [Next]_vars
  PROVE  ExplainedInv'
  <1>1. EmptiesAll'
    BY EmptiesAllStep DEF ExplainedInv
  <1>2. SUFFICES ASSUME NEW d \in DOMAIN dbroot', NEW e \in DOMAIN dbroot'[d]
                 PROVE  Explained(d, e)'
    BY <1>1 DEF ExplainedInv, StoredIsExplained, Explained
  <1>3. ASSUME d \in DOMAIN dbroot, e \in DOMAIN dbroot[d]
        PROVE  Explained(d, e)
    BY <1>3 DEF ExplainedInv, StoredIsExplained, Explained
  <1>4. CASE Call
    BY <1>4, CallExplained
  <1>5. CASE RemoveArticle
    <2>1. d \in DOMAIN dbroot /\ e \in DOMAIN dbroot[d]
      BY <1>5, RemoveArticleErases
    <2>2. CASE d = pending.dir
      <3>1. pending' # NoCall /\ pending'.op # "createArticle" /\ pending'.dir = d
        BY <1>5, <2>2
        DEF RemoveArticle, Deleting, NoCall, IInv, TypeOK, PendingTypeOK
      <3> QED
        BY <3>1 DEF Explained, CutOff
    <2>3. CASE d # pending.dir
      <3>1. <<d[1], e[1]>> \notin CutOff
        <4>1. d[1] # pending.dir[1]
          BY <1>5, <2>1, <2>3, RemoveArticleErases DEF IInv, UniqueNumbers
        <4> QED
          BY <4>1 DEF CutOff
      <3> QED
        BY <1>3, <1>5, <2>1, <3>1 DEF Explained, RemoveArticle, history
    <2> QED
      BY <2>2, <2>3
  <1>6. CASE RemoveGroup
    <2>1. /\ d \in DOMAIN dbroot /\ e \in DOMAIN dbroot[d]
          /\ pending.dir \in DOMAIN dbroot /\ d # pending.dir
      BY <1>6, RemoveGroupRemoves DEF ExplainedInv
    <2>2. <<d[1], e[1]>> \notin CutOff
      <3>1. d[1] # pending.dir[1]
        BY <2>1 DEF IInv, UniqueNumbers
      <3> QED
        BY <3>1 DEF CutOff
    <2> QED
      BY <1>3, <1>6, <2>1, <2>2 DEF Explained, RemoveGroup
  <1>7. CASE WriteAuthor \/ WriteText
    <2>1. /\ Creating
          /\ d \in DOMAIN dbroot /\ e \in DOMAIN dbroot[d]
          /\ CutOff = {<<pending.dir[1], pending.nbr>>}
      BY <1>7, WriteKeepsFiles DEF WriteAuthor, WriteText, Creating, CutOff
    <2>2. CASE WriteAuthor
      <3>1. CutOff' = CutOff
        BY <2>1, <2>2 DEF CutOff, WriteAuthor, memory, Creating
      <3> QED
        BY <1>3, <2>1, <2>2, <3>1 DEF Explained, WriteAuthor, memory, history
    <2>3. CASE WriteText
      <3>1. CASE <<d[1], e[1]>> \in CutOff
        <4> DEFINE r == Record(pending.dir, pending.nbr, pending.call[3],
                               pending.call[4], pending.call[5])
        <4>1. r \in ackedArticles' /\ r.group = d[1] /\ r.nbr = e[1]
          <5>1. r \in ackedArticles'
            BY <2>3 DEF WriteText
          <5>2. r.group = pending.dir[1] /\ r.nbr = pending.nbr
            BY DEF Record
          <5> QED
            BY <2>1, <3>1, <5>1, <5>2
        <4> HIDE DEF r
        <4> QED
          BY <4>1 DEF Explained
      <3>2. CASE <<d[1], e[1]>> \notin CutOff
        BY <1>3, <2>1, <2>3, <3>2 DEF Explained, WriteText
      <3> QED
        BY <3>1, <3>2
    <2> QED
      BY <1>7, <2>2, <2>3
  <1>8. CASE KillBusy
    BY <1>3, <1>8 DEF KillBusy, Explained
  <1>9. CASE KillIdle \/ Restart \/ UNCHANGED vars
    <2>1. UNCHANGED <<dbroot, pending, ackedArticles, inDoubt>>
      BY <1>9 DEF KillIdle, Restart, vars, memory, history
    <2> QED
      BY <1>3, <2>1 DEF Explained, CutOff
  <1> QED
    BY <1>4, <1>5, <1>6, <1>7, <1>8, <1>9 DEF Next, Continue

\* Every file on disk is an article a client was told is stored, or belongs
\* to a call that is pending or was cut off, when titles are single words.
THEOREM EveryFileExplained ==
  ASSUME OneWordTitles
  PROVE  Spec => []StoredIsExplained
  <1>1. Init => ExplainedInv
    BY DEF Init, EmptyMap, NoCall, ExplainedInv, EmptiesAll, Deleting,
           StoredIsExplained
  <1>2. IInv /\ ExplainedInv /\ [Next]_vars => ExplainedInv'
    BY ExplainedStep
  <1>3. ExplainedInv => StoredIsExplained
    BY DEF ExplainedInv
  <1> QED
    BY <1>1, <1>2, <1>3, Inductive, PTL DEF Spec

-------------------------------------------------------------------------------
(* What was acknowledged is stored, when the process is restarted before its *)
(* descriptors run out and every name and title can be a file's.             *)

AllStorable == \A t \in Names \cup Titles : Storable(t)

\* What AckedStored says of one article.
Stored(r) ==
  \E d \in DOMAIN dbroot :
    /\ d[1] = r.group
    /\ File(d, r.nbr, r.title)
    /\ dbroot[d][<<r.nbr, r.title>>] = r.author \o r.text

\* A budgeted step is a step.
LEMMA BudgetIsNext == [BudgetNext]_vars => [Next]_vars
  BY DEF BudgetNext, Next

LEMMA BudgetIInv == BudgetSpec => []IInv
  BY InitIInv, NextIInv, BudgetIsNext, PTL DEF BudgetSpec

\* With descriptors left and such titles, no article is lost.
LEMMA BudgetCallKinds ==
  ASSUME AllStorable, Call, CanOpen(3)
  PROVE  \/ LooksOnly
         \/ \E t \in Names : AddsGroup(t)
         \/ \E d \in DOMAIN dbroot :
              \/ StartsDeleting(d)
              \/ \E title \in Titles, author \in Authors, text \in Texts :
                   StartsArticle(d, title, author, text)
              \/ \E e \in DOMAIN dbroot[d] : DropsArticle(d, e)
  <1>1. ASSUME NEW d, NEW title \in Titles, NEW author, NEW text
        PROVE  ~LosesArticle(d, title, author, text)
    BY <1>1 DEF LosesArticle, AllStorable
  <1> QED
    BY <1>1, CallKinds

\* An acknowledged article is below the number of the next one.
LEMMA AckedBelowNext ==
  ASSUME IInv, StoredInv, NEW d \in DOMAIN dbroot,
         NEW r \in ackedArticles, r.group = d[1]
  PROVE  r.nbr < NextArticle(d)
  <1>1. Stored(r)
    BY DEF StoredInv, AckedStored, Stored
  <1>2. <<r.nbr, r.title>> \in DOMAIN dbroot[d]
    BY <1>1 DEF Stored, File, IInv, UniqueNumbers
  <1> QED
    BY <1>2, NextArticleAbove DEF IInv, TypeOK

\* A stored article stays stored in a step that leaves its file alone.
LEMMA StoredStays ==
  ASSUME NEW r \in ackedArticles, StoredInv,
         \A d \in DOMAIN dbroot :
           d[1] = r.group /\ File(d, r.nbr, r.title) =>
             /\ d \in DOMAIN dbroot'
             /\ <<r.nbr, r.title>> \in DOMAIN dbroot'[d]
             /\ dbroot'[d][<<r.nbr, r.title>>] = dbroot[d][<<r.nbr, r.title>>]
  PROVE  Stored(r)'
  BY DEF StoredInv, AckedStored, Stored, File

LEMMA CallStored ==
  ASSUME AllStorable, IInv, StoredInv, Call, CanOpen(3)
  PROVE  StoredInv'
  <1>1. Idle /\ pending = NoCall /\ ~Deleting /\ ~Creating
    BY CallIsIdle, IdleIsNeither
  <1>2. ASSUME pending' = pending
        PROVE  ~Deleting' /\ ~Creating'
    BY <1>1, <1>2 DEF Deleting, Creating, NoCall
  <1>3. CASE LooksOnly
    BY <1>2, <1>3 DEF LooksOnly, history, StoredInv, AckedStored, File
  <1>4. ASSUME NEW t \in Names, AddsGroup(t)
        PROVE  StoredInv'
    <2> DEFINE new == <<NextGroup, t>>
    <2>1. new \notin DOMAIN dbroot
      BY <1>1, NextGroupAbove DEF Idle
    <2>2. dbroot' = MakeDir(new) /\ Storable(new[2])
      BY <1>4 DEF AddsGroup, AllStorable
    <2>3. /\ ackedGroups' = ackedGroups \cup {new}
          /\ UNCHANGED <<pending, ackedArticles>>
      BY <1>4 DEF AddsGroup
    <2> HIDE DEF new
    <2>4. /\ new \in DOMAIN dbroot'
          /\ \A d \in DOMAIN dbroot : d \in DOMAIN dbroot' /\ dbroot'[d] = dbroot[d]
      BY <2>1, <2>2, MakeDirMap
    <2>5. \A r \in ackedArticles : Stored(r)'
      BY <2>4, StoredStays DEF File
    <2>6. AckedStored'
      BY <2>3, <2>4, <2>5 DEF StoredInv, AckedStored, Stored
    <2> QED
      BY <1>2, <2>3, <2>6 DEF StoredInv
  <1>5. ASSUME NEW d \in DOMAIN dbroot, StartsDeleting(d)
        PROVE  StoredInv'
    <2>1. AckedStored'
      BY <1>5 DEF StartsDeleting, StoredInv, AckedStored, File
    <2>2. pending'.op = "deleteNewsGroup" /\ pending'.dir = d /\ ~Creating'
      BY <1>5 DEF StartsDeleting, Creating
    <2> QED
      BY <1>5, <2>1, <2>2 DEF StartsDeleting, StoredInv
  <1>6. ASSUME NEW d \in DOMAIN dbroot, NEW title \in Titles,
               NEW author \in Authors, NEW text \in Texts,
               StartsArticle(d, title, author, text)
        PROVE  StoredInv'
    <2> DEFINE n == NextArticle(d)
               e == <<n, title>>
    <2>1. /\ DOMAIN dbroot' = DOMAIN dbroot
          /\ \A c \in DOMAIN dbroot : c # d => dbroot'[c] = dbroot[c]
          /\ dbroot'[d] = Put(dbroot[d], e, <<>>)
          /\ UNCHANGED <<ackedGroups, ackedArticles>>
      BY <1>6 DEF StartsArticle, history
    <2>2. /\ ~Deleting' /\ pending'.dir = d /\ pending'.nbr = n
          /\ pending'.call[3] = title
      BY <1>6 DEF StartsArticle, Deleting
    <2>3. \A r \in ackedArticles : r.group = d[1] => r.nbr < n
      BY AckedBelowNext
    <2>4. n \in Nat
      BY NextArticleAbove DEF IInv, TypeOK
    <2> HIDE DEF n
    <2>5. /\ dbroot'[d][e] = <<>>
          /\ \A f \in DOMAIN dbroot[d] : f # e =>
               f \in DOMAIN dbroot'[d] /\ dbroot'[d][f] = dbroot[d][f]
      BY <2>1 DEF Put
    <2>6. ASSUME NEW r \in ackedArticles
          PROVE  Stored(r)'
      <3>1. r.group = d[1] => <<r.nbr, r.title>> # e
        BY <2>3, <2>4
      <3> HIDE DEF e
      <3> QED
        BY <2>1, <2>5, <3>1, StoredStays DEF File
    <2>7. AckedStored'
      BY <2>1, <2>6 DEF StoredInv, AckedStored, Stored
    <2> QED
      BY <2>1, <2>2, <2>3, <2>5, <2>7 DEF StoredInv
  <1>7. ASSUME NEW d \in DOMAIN dbroot, NEW e \in DOMAIN dbroot[d],
               DropsArticle(d, e)
        PROVE  StoredInv'
    <2> DEFINE path == <<e[1], ReadBack(e[2])>>
    <2>1. /\ DOMAIN dbroot' = DOMAIN dbroot
          /\ \A c \in DOMAIN dbroot : c # d => dbroot'[c] = dbroot[c]
          /\ dbroot'[d] = Erase(dbroot[d], path)
          /\ UNCHANGED <<ackedGroups, pending>>
          /\ ackedArticles' = {r \in ackedArticles :
                                 r.group # d[1] \/ r.nbr # e[1]}
      BY <1>7 DEF DropsArticle
    <2>2. ASSUME NEW r \in ackedArticles'
          PROVE  Stored(r)'
      <3>1. r \in ackedArticles
        BY <2>1
      <3>2. r.group = d[1] => <<r.nbr, r.title>> # path
        BY <2>1
      <3> HIDE DEF path
      <3>3. \A f \in DOMAIN dbroot[d] : f # path =>
              f \in DOMAIN dbroot'[d] /\ dbroot'[d][f] = dbroot[d][f]
        BY <2>1 DEF Erase, Restrict
      <3> QED
        BY <2>1, <3>1, <3>2, <3>3, StoredStays DEF File
    <2>3. AckedStored'
      BY <2>1, <2>2 DEF StoredInv, AckedStored, Stored
    <2> QED
      BY <1>2, <2>1, <2>3 DEF StoredInv
  <1> QED
    BY <1>3, <1>4, <1>5, <1>6, <1>7, BudgetCallKinds

\* A deletion removes no file of another group.
LEMMA DeletingStored ==
  ASSUME IInv, StoredInv, RemoveArticle \/ RemoveGroup
  PROVE  StoredInv'
  <1> DEFINE d == pending.dir
  <1>1. /\ Deleting
        /\ \A c \in ackedGroups : c[1] # d[1]
        /\ \A r \in ackedArticles : r.group # d[1]
        /\ UNCHANGED <<ackedGroups, ackedArticles>>
    BY DEF RemoveArticle, RemoveGroup, StoredInv, history
  <1>2. \A c \in DOMAIN dbroot : c # d => c \in DOMAIN dbroot' /\ dbroot'[c] = dbroot[c]
    BY DEF RemoveArticle, RemoveGroup, Erase, Restrict
  <1>3. /\ ~Creating'
        /\ Deleting' => pending'.dir = d
    <2>1. CASE RemoveArticle
      <3>1. /\ pending'.op = "deleteNewsGroup"
            /\ pending'.dir = d
        BY <1>1, <2>1 DEF RemoveArticle, IInv, TypeOK, PendingTypeOK
      <3> QED
        BY <3>1 DEF Creating
    <2>2. CASE RemoveGroup
      BY <2>2 DEF RemoveGroup, Deleting, Creating, NoCall
    <2> QED
      BY <2>1, <2>2
  <1> HIDE DEF d
  <1>4. \A r \in ackedArticles : Stored(r)'
    <2> SUFFICES ASSUME NEW r \in ackedArticles
                 PROVE  Stored(r)'
      OBVIOUS
    <2>1. r.group # d[1]
      BY <1>1
    <2> QED
      BY <1>2, <2>1, StoredStays DEF File
  <1>5. AckedStored'
    BY <1>1, <1>2, <1>4 DEF StoredInv, AckedStored, Stored
  <1> QED
    BY <1>1, <1>3, <1>5 DEF StoredInv

\* The lines go to the pending file, which is that of no acknowledged
\* article until the last of them is written.
LEMMA WritingStored ==
  ASSUME IInv, StoredInv, WriteAuthor \/ WriteText
  PROVE  StoredInv'
  <1> DEFINE d == pending.dir
             e == <<pending.nbr, pending.call[3]>>
             author == pending.call[4]
             text == pending.call[5]
  <1>1. /\ Creating
        /\ d \in DOMAIN dbroot /\ e \in DOMAIN dbroot[d]
        /\ dbroot[d][e] \in {<<>>, author}
        /\ pending.nbr \in Nat
        /\ author \in Seq(STRING) /\ text \in Seq(STRING)
        /\ \A r \in ackedArticles : r.group = d[1] => r.nbr < pending.nbr
    BY LinesAssumption
    DEF WriteAuthor, WriteText, StoredInv, IInv, TypeOK, PendingTypeOK, File,
        ArticleNumbers
  <1>2. \E lines \in {author, text} :
          dbroot' = [dbroot EXCEPT ![d][e] = @ \o lines]
    BY DEF WriteAuthor, WriteText, WriteLines
  <1>3. ASSUME NEW r \in ackedArticles
        PROVE  Stored(r)'
    <2>1. r.group = d[1] => <<r.nbr, r.title>> # e
      BY <1>1
    <2> HIDE DEF d, e, author, text
    <2>2. /\ DOMAIN dbroot' = DOMAIN dbroot
          /\ \A c \in DOMAIN dbroot : c # d => dbroot'[c] = dbroot[c]
          /\ DOMAIN dbroot'[d] = DOMAIN dbroot[d]
          /\ \A f \in DOMAIN dbroot[d] : f # e => dbroot'[d][f] = dbroot[d][f]
      BY <1>1, <1>2
    <2> QED
      BY <2>1, <2>2, StoredStays DEF File
  <1>4. CASE WriteAuthor
    <2>1. dbroot[d][e] = <<>> /\ UNCHANGED <<pending, process>>
      BY <1>4 DEF WriteAuthor, memory
    <2>2. dbroot'[d][e] = <<>> \o author
      BY <1>1, <1>4, <2>1 DEF WriteAuthor, WriteLines
    <2>3. dbroot'[d][e] = author
      BY <1>1, <2>2
    <2>4. AckedStored'
      BY <1>3, <1>4
      DEF WriteAuthor, WriteLines, history, StoredInv, AckedStored, Stored
    <2> QED
      BY <1>1, <1>4, <2>1, <2>3, <2>4
      DEF WriteAuthor, history, StoredInv, Creating, Deleting
  <1>5. CASE WriteText
    <2> DEFINE new == Record(d, pending.nbr, pending.call[3], author, text)
    <2>1. /\ ackedArticles' = ackedArticles \cup {new}
          /\ pending' = NoCall /\ UNCHANGED ackedGroups
      BY <1>5 DEF WriteText
    <2>2. dbroot[d][e] = author
      BY <1>1, <1>5 DEF WriteText
    <2>3. dbroot' = [dbroot EXCEPT ![d][e] = @ \o text]
      BY <1>5 DEF WriteText, WriteLines
    <2>4. ASSUME NEW r, r = new
          PROVE  Stored(r)'
      <3>1. /\ r.group = d[1] /\ <<r.nbr, r.title>> = e
            /\ r.author = author /\ r.text = text
        BY <2>4 DEF Record
      <3> HIDE DEF new, d, e, author, text
      <3>2. /\ d \in DOMAIN dbroot' /\ e \in DOMAIN dbroot'[d]
            /\ dbroot'[d][e] = author \o text
        BY <1>1, <2>2, <2>3
      <3> QED
        BY <3>1, <3>2 DEF Stored, File
    <2>5. DOMAIN dbroot' = DOMAIN dbroot
      BY <2>3
    <2> HIDE DEF new
    <2>6. AckedStored'
      <3>1. \A r \in ackedArticles' : Stored(r)'
        BY <1>3, <2>1, <2>4
      <3>2. ackedGroups' \subseteq DOMAIN dbroot'
        BY <2>1, <2>5 DEF StoredInv, AckedStored
      <3> QED
        BY <3>1, <3>2 DEF AckedStored, Stored
    <2> QED
      BY <2>1, <2>6 DEF StoredInv, Deleting, Creating, NoCall
  <1> QED
    BY <1>4, <1>5

LEMMA StoredStep ==
  ASSUME AllStorable, IInv, StoredInv, [BudgetNext]_vars
  PROVE  StoredInv'
  <1>1. CASE WithinBudget /\ Call
    BY <1>1, CallStored DEF WithinBudget
  <1>2. CASE Continue
    BY <1>2, DeletingStored, WritingStored DEF Continue
  <1>3. CASE KillIdle \/ KillBusy \/ Restart
    <2>1. UNCHANGED <<dbroot, ackedGroups, ackedArticles>>
      BY <1>3 DEF KillIdle, KillBusy, Restart, history
    <2>2. ~Deleting' /\ ~Creating'
      BY <1>3, DownIsIdle
      DEF KillIdle, KillBusy, Restart, Deleting, Creating, NoCall
    <2> QED
      BY <2>1, <2>2 DEF StoredInv, AckedStored, File
  <1>4. CASE UNCHANGED vars
    BY <1>4
    DEF vars, memory, history, StoredInv, AckedStored, File, Deleting, Creating
  <1> QED
    BY <1>1, <1>2, <1>3, <1>4 DEF BudgetNext

LEMMA InitStored == Init => StoredInv
  BY DEF Init, NoCall, StoredInv, AckedStored, Deleting, Creating

LEMMA BudgetStored ==
  ASSUME AllStorable
  PROVE  BudgetSpec => []StoredInv
  <1>1. IInv /\ StoredInv /\ [BudgetNext]_vars => StoredInv'
    BY StoredStep
  <1> QED
    BY <1>1, InitStored, BudgetIInv, PTL DEF BudgetSpec

\* What a client was told is stored is on disk, in full, until the client
\* asks for its deletion, whenever the process is killed: for every process
\* that is restarted in time, and every name and title without a '/'.
THEOREM AcknowledgedIsStored ==
  ASSUME AllStorable
  PROVE  BudgetSpec => []AckedStored
  <1>1. StoredInv => AckedStored
    BY DEF StoredInv
  <1> QED
    BY <1>1, BudgetStored, PTL

\* An article that is acknowledged has a number above all that are stored in
\* its group: under the same conditions.
THEOREM OnlyNewestIsReused ==
  ASSUME AllStorable
  PROVE  BudgetSpec => OnlyNewestReused
  <1> DEFINE Newest == \A r \in ackedArticles' \ ackedArticles,
                          q \in ackedArticles :
                         q.group = r.group => q.nbr < r.nbr
  <1>1. IInv /\ StoredInv /\ [BudgetNext]_vars => Newest
    <2> SUFFICES ASSUME IInv, StoredInv, [BudgetNext]_vars,
                        NEW r \in ackedArticles' \ ackedArticles,
                        NEW q \in ackedArticles, q.group = r.group
                 PROVE  q.nbr < r.nbr
      OBVIOUS
    <2>1. ~(WithinBudget /\ Call)
      BY BudgetCallKinds
      DEF WithinBudget, LooksOnly, AddsGroup, StartsDeleting, StartsArticle,
          DropsArticle, history
    <2>2. WriteText
      BY <2>1
      DEF BudgetNext, Continue, RemoveArticle, RemoveGroup, WriteAuthor,
          KillIdle, KillBusy, Restart, vars, history
    <2>3. r.group = pending.dir[1] /\ r.nbr = pending.nbr
      BY <2>2 DEF WriteText, Record
    <2> QED
      BY <2>2, <2>3 DEF StoredInv, WriteText
  <1>2. IInv /\ StoredInv /\ [BudgetNext]_vars => [Newest]_vars
    BY <1>1
  <1> QED
    BY <1>2, BudgetIInv, BudgetStored, PTL DEF BudgetSpec, OnlyNewestReused

===============================================================================
