----------------------- MODULE DbOnDiskRefinement_proofs -----------------------
(***************************************************************************)
(* The store on disk, stopped between two calls only, implements           *)
(* NewsStore: createArticle and deleteNewsGroup take several system calls  *)
(* and are seen as one step, and names are split and put together without  *)
(* loss.                                                                   *)
(***************************************************************************)
EXTENDS DbOnDisk_proofs, SequenceTheorems

\* The groups shown, put together from maps from directories, and from files,
\* to what they hold.
Shown(files) ==
  [a \in Numbers(DOMAIN files) |->
     LET e == CHOOSE e \in DOMAIN files : e[1] = a
     IN  ShownArticle(e, files[e])]

ShownGroup(d, files) == [name |-> ReadBack(d[2]), articles |-> Shown(files)]

AsGroups(dirs) ==
  [g \in Numbers(DOMAIN dirs) |->
     LET d == CHOOSE d \in DOMAIN dirs : d[1] = g
     IN  ShownGroup(d, dirs[d])]

OneEach(entries) == \A d, e \in entries : d[1] = e[1] => d = e

-------------------------------------------------------------------------------
(* What happens to the map of numbers when an entry comes, goes or changes.  *)

\* A map to which one key has been added, or of which one is gone.
LEMMA IsPut ==
  ASSUME NEW m, NEW k, NEW v, NEW n, n = [j \in DOMAIN m \cup {k} |-> n[j]],
         n[k] = v, \A j \in DOMAIN m : j # k => n[j] = m[j]
  PROVE  n = Put(m, k, v)
  BY DEF Put

LEMMA IsErase ==
  ASSUME NEW m, NEW k, NEW n, n = [j \in DOMAIN m \ {k} |-> n[j]],
         \A j \in DOMAIN m \ {k} : n[j] = m[j]
  PROVE  n = Erase(m, k)
  BY DEF Erase, Restrict

\* An entry is the one chosen for its number.
LEMMA ChosenEntry ==
  ASSUME NEW entries, OneEach(entries), NEW e \in entries
  PROVE  (CHOOSE x \in entries : x[1] = e[1]) = e
  BY DEF OneEach

LEMMA ShownAt ==
  ASSUME NEW files, OneEach(DOMAIN files)
  PROVE  /\ DOMAIN Shown(files) = Numbers(DOMAIN files)
         /\ \A e \in DOMAIN files :
              /\ e[1] \in Numbers(DOMAIN files)
              /\ Shown(files)[e[1]] = ShownArticle(e, files[e])
  <1>1. \A e \in DOMAIN files : e[1] \in Numbers(DOMAIN files)
    BY DEF Numbers
  <1>2. \A e \in DOMAIN files : Shown(files)[e[1]] = ShownArticle(e, files[e])
    BY <1>1, ChosenEntry DEF Shown
  <1> QED
    BY <1>1, <1>2 DEF Shown

LEMMA AsGroupsAt ==
  ASSUME NEW dirs, OneEach(DOMAIN dirs)
  PROVE  /\ DOMAIN AsGroups(dirs) = Numbers(DOMAIN dirs)
         /\ \A d \in DOMAIN dirs :
              /\ d[1] \in Numbers(DOMAIN dirs)
              /\ AsGroups(dirs)[d[1]] = ShownGroup(d, dirs[d])
  <1>1. \A d \in DOMAIN dirs : d[1] \in Numbers(DOMAIN dirs)
    BY DEF Numbers
  <1>2. \A d \in DOMAIN dirs : AsGroups(dirs)[d[1]] = ShownGroup(d, dirs[d])
    BY <1>1, ChosenEntry DEF AsGroups
  <1> QED
    BY <1>1, <1>2 DEF AsGroups

\* Both are functions.
LEMMA ShownIsMap ==
  ASSUME NEW files
  PROVE  Shown(files) = [a \in Numbers(DOMAIN files) |-> Shown(files)[a]]
  BY DEF Shown

LEMMA AsGroupsIsMap ==
  ASSUME NEW dirs
  PROVE  AsGroups(dirs) = [g \in Numbers(DOMAIN dirs) |-> AsGroups(dirs)[g]]
  BY DEF AsGroups

\* A new file.
LEMMA ShownPut ==
  ASSUME NEW files, OneEach(DOMAIN files), NEW e,
         e[1] \notin Numbers(DOMAIN files), NEW more,
         DOMAIN more = DOMAIN files \cup {e},
         \A f \in DOMAIN files : more[f] = files[f]
  PROVE  Shown(more) = Put(Shown(files), e[1], ShownArticle(e, more[e]))
  <1>1. \A f \in DOMAIN files : f[1] # e[1]
    BY DEF Numbers
  <1>2. OneEach(DOMAIN more)
    BY <1>1 DEF OneEach
  <1>3. Numbers(DOMAIN more) = Numbers(DOMAIN files) \cup {e[1]}
    BY DEF Numbers
  <1>4. DOMAIN Shown(files) = Numbers(DOMAIN files)
    BY ShownAt
  <1>5. Shown(more)[e[1]] = ShownArticle(e, more[e])
    BY <1>2, ShownAt
  <1>6. ASSUME NEW n \in DOMAIN Shown(files), n # e[1]
        PROVE  Shown(more)[n] = Shown(files)[n]
    <2>1. PICK f \in DOMAIN files : f[1] = n
      BY <1>4, <1>6 DEF Numbers
    <2>2. Shown(more)[n] = ShownArticle(f, files[f])
      BY <1>2, <2>1, ShownAt
    <2>3. Shown(files)[n] = ShownArticle(f, files[f])
      BY <2>1, ShownAt
    <2> QED
      BY <2>2, <2>3
  <1>7. Shown(more)
          = [n \in DOMAIN Shown(files) \cup {e[1]} |-> Shown(more)[n]]
    BY <1>3, <1>4, ShownIsMap
  <1> QED
    BY <1>5, <1>6, <1>7, IsPut

\* A file that goes.
LEMMA ShownErase ==
  ASSUME NEW files, OneEach(DOMAIN files), NEW e \in DOMAIN files, NEW less,
         DOMAIN less = DOMAIN files \ {e},
         \A f \in DOMAIN less : less[f] = files[f]
  PROVE  Shown(less) = Erase(Shown(files), e[1])
  <1>1. OneEach(DOMAIN less)
    BY DEF OneEach
  <1>2. Numbers(DOMAIN less) = Numbers(DOMAIN files) \ {e[1]}
    BY DEF Numbers, OneEach
  <1>3. DOMAIN Shown(files) = Numbers(DOMAIN files)
    BY ShownAt
  <1>4. ASSUME NEW n \in DOMAIN Shown(files) \ {e[1]}
        PROVE  Shown(less)[n] = Shown(files)[n]
    <2>1. PICK f \in DOMAIN less : f[1] = n
      BY <1>2, <1>3 DEF Numbers
    <2>2. Shown(less)[n] = ShownArticle(f, files[f])
      BY <1>1, <2>1, ShownAt
    <2>3. Shown(files)[n] = ShownArticle(f, files[f])
      BY <2>1, ShownAt
    <2> QED
      BY <2>2, <2>3
  <1>5. Shown(less)
          = [n \in DOMAIN Shown(files) \ {e[1]} |-> Shown(less)[n]]
    BY <1>2, <1>3, ShownIsMap
  <1> QED
    BY <1>4, <1>5, IsErase

\* A new directory.
LEMMA AsGroupsPut ==
  ASSUME NEW dirs, OneEach(DOMAIN dirs), NEW d,
         d[1] \notin Numbers(DOMAIN dirs), NEW more,
         DOMAIN more = DOMAIN dirs \cup {d},
         \A f \in DOMAIN dirs : more[f] = dirs[f]
  PROVE  AsGroups(more) = Put(AsGroups(dirs), d[1], ShownGroup(d, more[d]))
  <1>1. \A f \in DOMAIN dirs : f[1] # d[1]
    BY DEF Numbers
  <1>2. OneEach(DOMAIN more)
    BY <1>1 DEF OneEach
  <1>3. Numbers(DOMAIN more) = Numbers(DOMAIN dirs) \cup {d[1]}
    BY DEF Numbers
  <1>4. DOMAIN AsGroups(dirs) = Numbers(DOMAIN dirs)
    BY AsGroupsAt
  <1>5. AsGroups(more)[d[1]] = ShownGroup(d, more[d])
    BY <1>2, AsGroupsAt
  <1>6. ASSUME NEW n \in DOMAIN AsGroups(dirs), n # d[1]
        PROVE  AsGroups(more)[n] = AsGroups(dirs)[n]
    <2>1. PICK f \in DOMAIN dirs : f[1] = n
      BY <1>4, <1>6 DEF Numbers
    <2>2. AsGroups(more)[n] = ShownGroup(f, dirs[f])
      BY <1>2, <2>1, AsGroupsAt
    <2>3. AsGroups(dirs)[n] = ShownGroup(f, dirs[f])
      BY <2>1, AsGroupsAt
    <2> QED
      BY <2>2, <2>3
  <1>7. AsGroups(more)
          = [n \in DOMAIN AsGroups(dirs) \cup {d[1]} |-> AsGroups(more)[n]]
    BY <1>3, <1>4, AsGroupsIsMap
  <1> QED
    BY <1>5, <1>6, <1>7, IsPut

\* A directory that goes.
LEMMA AsGroupsErase ==
  ASSUME NEW dirs, OneEach(DOMAIN dirs), NEW d \in DOMAIN dirs, NEW less,
         DOMAIN less = DOMAIN dirs \ {d},
         \A f \in DOMAIN less : less[f] = dirs[f]
  PROVE  AsGroups(less) = Erase(AsGroups(dirs), d[1])
  <1>1. OneEach(DOMAIN less)
    BY DEF OneEach
  <1>2. Numbers(DOMAIN less) = Numbers(DOMAIN dirs) \ {d[1]}
    BY DEF Numbers, OneEach
  <1>3. DOMAIN AsGroups(dirs) = Numbers(DOMAIN dirs)
    BY AsGroupsAt
  <1>4. ASSUME NEW n \in DOMAIN AsGroups(dirs) \ {d[1]}
        PROVE  AsGroups(less)[n] = AsGroups(dirs)[n]
    <2>1. PICK f \in DOMAIN less : f[1] = n
      BY <1>2, <1>3 DEF Numbers
    <2>2. AsGroups(less)[n] = ShownGroup(f, dirs[f])
      BY <1>1, <2>1, AsGroupsAt
    <2>3. AsGroups(dirs)[n] = ShownGroup(f, dirs[f])
      BY <2>1, AsGroupsAt
    <2> QED
      BY <2>2, <2>3
  <1>5. AsGroups(less)
          = [n \in DOMAIN AsGroups(dirs) \ {d[1]} |-> AsGroups(less)[n]]
    BY <1>2, <1>3, AsGroupsIsMap
  <1> QED
    BY <1>4, <1>5, IsErase

\* A directory in which something changes.
LEMMA AsGroupsChange ==
  ASSUME NEW dirs, OneEach(DOMAIN dirs), NEW d \in DOMAIN dirs, NEW changed,
         DOMAIN changed = DOMAIN dirs,
         \A f \in DOMAIN dirs : f # d => changed[f] = dirs[f]
  PROVE  AsGroups(changed)
           = [AsGroups(dirs) EXCEPT ![d[1]].articles = Shown(changed[d])]
  <1>1. /\ DOMAIN AsGroups(dirs) = Numbers(DOMAIN dirs)
        /\ DOMAIN AsGroups(changed) = Numbers(DOMAIN dirs)
        /\ \A f \in DOMAIN dirs :
             /\ AsGroups(dirs)[f[1]] = ShownGroup(f, dirs[f])
             /\ AsGroups(changed)[f[1]] = ShownGroup(f, changed[f])
    BY AsGroupsAt
  <1> DEFINE new == [AsGroups(dirs) EXCEPT ![d[1]].articles = Shown(changed[d])]
  <1>2. /\ new = [g \in Numbers(DOMAIN dirs) |-> new[g]]
        /\ \A g \in Numbers(DOMAIN dirs) :
             g # d[1] => new[g] = AsGroups(dirs)[g]
    BY <1>1
  <1>3. new[d[1]] = ShownGroup(d, changed[d])
    <2>1. d[1] \in Numbers(DOMAIN dirs)
      BY DEF Numbers
    <2>2. new[d[1]] = [AsGroups(dirs)[d[1]] EXCEPT !.articles = Shown(changed[d])]
      BY <1>1, <2>1
    <2>3. AsGroups(dirs)[d[1]]
            = [name |-> ReadBack(d[2]), articles |-> Shown(dirs[d])]
      BY <1>1 DEF ShownGroup
    <2> HIDE DEF new
    <2> QED
      BY <2>2, <2>3 DEF ShownGroup
  <1>4. ASSUME NEW g \in Numbers(DOMAIN dirs)
        PROVE  AsGroups(changed)[g] = new[g]
    <2>1. PICK f \in DOMAIN dirs : f[1] = g
      BY <1>4 DEF Numbers
    <2>2. CASE f = d
      BY <1>1, <1>3, <2>1, <2>2
    <2>3. CASE f # d
      BY <1>1, <1>2, <2>1, <2>3 DEF OneEach
    <2> QED
      BY <2>2, <2>3
  <1> HIDE DEF new
  <1> QED
    BY <1>2, <1>4, AsGroupsIsMap DEF new

-------------------------------------------------------------------------------
(* The groups are what the directories hold, as far as they are visible.     *)

\* The map from directories to the files in them a client sees.
Disk == [d \in DOMAIN dbroot |-> Visible(d)]

GroupsFromDisk == Groups = AsGroups(Disk)

LEMMA GroupsAre == GroupsFromDisk
  <1> DEFINE pick(g) == CHOOSE d \in DOMAIN dbroot : d[1] = g
  <1>1. DOMAIN Disk = DOMAIN dbroot /\ \A d \in DOMAIN dbroot : Disk[d] = Visible(d)
    BY DEF Disk
  <1>2. ASSUME NEW g \in Numbers(DOMAIN dbroot)
        PROVE  Visible(pick(g)) = Disk[pick(g)]
    <2>1. pick(g) \in DOMAIN dbroot
      BY DEF Numbers
    <2> HIDE DEF pick
    <2> QED
      BY <1>1, <2>1
  <1>3. Groups = [g \in Numbers(DOMAIN dbroot) |->
                    ShownGroup(pick(g), Visible(pick(g)))]
    BY DEF Groups, ShownGroup, Shown
  <1>4. AsGroups(Disk) = [g \in Numbers(DOMAIN dbroot) |->
                            ShownGroup(pick(g), Disk[pick(g)])]
    BY <1>1 DEF AsGroups
  <1> HIDE DEF pick
  <1> QED
    BY <1>2, <1>3, <1>4 DEF GroupsFromDisk

\* Numbers are unique among what is visible.
LEMMA DiskNumbers ==
  ASSUME IInv
  PROVE  DOMAIN Disk = DOMAIN dbroot /\ OneEach(DOMAIN Disk)
  BY DEF Disk, OneEach, IInv, UniqueNumbers

\* While no call is pending, all is visible.
LEMMA AllVisible ==
  ASSUME ~Deleting, ~Creating
  PROVE  \A d \in DOMAIN dbroot : Disk[d] = dbroot[d]
  BY DEF Disk, Visible

LEMMA AllVisibleAfter ==
  ASSUME ~Deleting', ~Creating'
  PROVE  /\ DOMAIN Disk' = DOMAIN dbroot'
         /\ \A d \in DOMAIN dbroot' : Disk'[d] = dbroot'[d]
  BY DEF Disk, Visible

\* The groups a call finds.
LEMMA GroupsShow ==
  ASSUME IInv, ~Deleting, ~Creating
  PROVE  /\ DOMAIN Groups = Numbers(DOMAIN dbroot)
         /\ \A d \in DOMAIN dbroot :
              /\ d[1] \in DOMAIN Groups
              /\ Groups[d[1]].name = ReadBack(d[2])
              /\ Groups[d[1]].articles = Shown(dbroot[d])
              /\ OneEach(DOMAIN dbroot[d])
  <1>1. /\ DOMAIN AsGroups(Disk) = Numbers(DOMAIN dbroot)
        /\ \A d \in DOMAIN dbroot :
             /\ d[1] \in Numbers(DOMAIN dbroot)
             /\ AsGroups(Disk)[d[1]] = ShownGroup(d, dbroot[d])
    BY DiskNumbers, AllVisible, AsGroupsAt
  <1>2. \A d \in DOMAIN dbroot : OneEach(DOMAIN dbroot[d])
    BY DEF OneEach, IInv, UniqueNumbers
  <1>3. \A d \in DOMAIN dbroot :
          Groups[d[1]] = [name |-> ReadBack(d[2]), articles |-> Shown(dbroot[d])]
    BY <1>1, GroupsAre DEF GroupsFromDisk, ShownGroup
  <1>4. \A d \in DOMAIN dbroot :
          /\ Groups[d[1]].name = ReadBack(d[2])
          /\ Groups[d[1]].articles = Shown(dbroot[d])
    <2> SUFFICES ASSUME NEW d \in DOMAIN dbroot
                 PROVE  /\ Groups[d[1]].name = ReadBack(d[2])
                        /\ Groups[d[1]].articles = Shown(dbroot[d])
      OBVIOUS
    <2> DEFINE shown == Groups[d[1]]
    <2>1. shown = [name |-> ReadBack(d[2]), articles |-> Shown(dbroot[d])]
      BY <1>3
    <2> HIDE DEF shown
    <2>2. shown.name = ReadBack(d[2]) /\ shown.articles = Shown(dbroot[d])
      BY <2>1
    <2> QED
      BY <2>2 DEF shown
  <1>5. DOMAIN Groups = Numbers(DOMAIN dbroot)
    BY <1>1, GroupsAre DEF GroupsFromDisk
  <1> QED
    BY <1>1, <1>2, <1>4, <1>5

\* The groups after a step.
LEMMA GroupsBecome ==
  ASSUME GroupsFromDisk'
  PROVE  Groups' = AsGroups(Disk')
  BY DEF GroupsFromDisk, AsGroups

-------------------------------------------------------------------------------
(* Definitions of NewsStore that are the same here and there.                *)

LEMMA SameOrder == ASSUME NEW m PROVE InOrder(m) = Store!InOrder(m)
  BY DEF InOrder, Store!InOrder, Keys, Store!Keys, Ascending, Store!Ascending,
         Cardinality, Store!Cardinality

LEMMA SameMaps ==
  ASSUME NEW m, NEW k, NEW v
  PROVE  /\ Put(m, k, v) = Store!Put(m, k, v)
         /\ Erase(m, k) = Store!Erase(m, k)
         /\ EmptyMap = Store!EmptyMap
  BY DEF Put, Store!Put, Erase, Store!Erase, Restrict, Store!Restrict,
         EmptyMap, Store!EmptyMap

LEMMA SameAnswer ==
  /\ \A call, code, result :
       Answer(call, code, result) = Store!Answer(call, code, result)
  /\ ANS_ACK = Store!ANS_ACK
  /\ ERR_NG_ALREADY_EXISTS = Store!ERR_NG_ALREADY_EXISTS
  /\ ERR_NG_DOES_NOT_EXIST = Store!ERR_NG_DOES_NOT_EXIST
  /\ ERR_ART_DOES_NOT_EXIST = Store!ERR_ART_DOES_NOT_EXIST
  BY DEF Answer, Store!Answer, ANS_ACK, Store!ANS_ACK, ERR_NG_ALREADY_EXISTS,
         Store!ERR_NG_ALREADY_EXISTS, ERR_NG_DOES_NOT_EXIST,
         Store!ERR_NG_DOES_NOT_EXIST, ERR_ART_DOES_NOT_EXIST,
         Store!ERR_ART_DOES_NOT_EXIST

-------------------------------------------------------------------------------
(* The calls that only answer.                                               *)

OneLineAuthors == \A au \in Authors : Len(au) = 1

\* A call that starts with descriptors to spare finds every directory.
LEMMA Opens ==
  ASSUME NamesReadBack, IInv, WithinBudget
  PROVE  /\ CanOpen(1) /\ CanOpen(2) /\ CanOpen(3)
         /\ \A g : ~OpenFails(g)
         /\ \A g : OpenedGroup(g) = {d \in DOMAIN dbroot : d[1] = g}
  <1>1. CanOpen(1) /\ CanOpen(2) /\ CanOpen(3)
    BY FewerOpens, 3 \in 0..3, 1 \in 0..3, 2 \in 0..3 DEF WithinBudget
  <1>2. \A d \in DOMAIN dbroot : <<d[1], ReadBack(d[2])>> = d
    BY DEF NamesReadBack, IInv, TypeOK, DiskTypeOK
  <1>3. \A d \in DOMAIN dbroot : Reached(d)
    BY <1>1, <1>2 DEF Reached
  <1> QED
    BY <1>1, <1>3 DEF OpenFails, OpenedGroup

LEMMA ReturnsRefines ==
  ASSUME Idle, NEW call, NEW code, NEW result, NEW leaked,
         Returns(call, code, result, leaked)
  PROVE  /\ Groups' = Groups
         /\ answer' = Store!Answer(call, code, result)
  <1>1. UNCHANGED <<dbroot, process, pending>>
    BY DEF Returns
  <1>2. Groups' = Groups
    BY <1>1 DEF Groups, Visible, Deleting, Creating
  <1> QED
    BY <1>2, SameAnswer DEF Returns

LEMMA ListNewsGroupsRefines ==
  ASSUME NamesReadBack, IInv, WithinBudget, ListNewsGroups
  PROVE  Store!ListNewsGroups
  <1>1. /\ Idle /\ ~Deleting /\ ~Creating
        /\ Returns(<<"listNewsGroups">>, ANS_ACK,
                   InOrder(ByNumber(DOMAIN dbroot)), 1)
    BY Opens, IdleIsNeither DEF ListNewsGroups
  <1>2. ByNumber(DOMAIN dbroot) = [g \in DOMAIN Groups |-> Groups[g].name]
    <2>1. ASSUME NEW n \in Numbers(DOMAIN dbroot)
          PROVE  ByNumber(DOMAIN dbroot)[n] = Groups[n].name
      <3>1. PICK d \in DOMAIN dbroot : d[1] = n
        BY <2>1 DEF Numbers
      <3>2. (CHOOSE e \in DOMAIN dbroot : e[1] = n) = d
        BY <3>1, ChosenEntry, DiskNumbers
      <3>3. ByNumber(DOMAIN dbroot)[n] = ReadBack(d[2])
        BY <2>1, <3>2 DEF ByNumber
      <3> QED
        BY <1>1, <3>1, <3>3, GroupsShow
    <2>2. ByNumber(DOMAIN dbroot)
            = [n \in Numbers(DOMAIN dbroot) |-> ByNumber(DOMAIN dbroot)[n]]
      BY DEF ByNumber
    <2> QED
      BY <1>1, <2>1, <2>2, GroupsShow
  <1>3. /\ UNCHANGED Groups
        /\ answer' = Store!Answer(<<"listNewsGroups">>, ANS_ACK,
                                  InOrder(ByNumber(DOMAIN dbroot)))
    BY <1>1, ReturnsRefines
  <1> QED
    BY <1>2, <1>3, SameOrder, SameAnswer DEF Store!ListNewsGroups

\* A call on a group that is not there, or an article.
LEMMA FailsRefines ==
  ASSUME Idle, NEW call, NEW code, NEW leaked, Returns(call, code, <<>>, leaked)
  PROVE  Store!Fails(call, code)
  BY ReturnsRefines DEF Store!Fails

LEMMA ListArticlesRefines ==
  ASSUME NamesReadBack, IInv, WithinBudget, NEW g \in GroupNumbers,
         ListArticles(g)
  PROVE  Store!ListArticles(g)
  <1> DEFINE call == <<"listArticles", g>>
  <1>1. Idle /\ ~Deleting /\ ~Creating
    BY IdleIsNeither DEF ListArticles
  <1>2. CASE NoGroup(g) /\ Returns(call, ERR_NG_DOES_NOT_EXIST, <<>>, 0)
    <2>1. g \notin DOMAIN Groups
      BY <1>1, <1>2, GroupsShow DEF NoGroup
    <2> QED
      BY <1>1, <1>2, <2>1, FailsRefines, SameAnswer DEF Store!ListArticles
  <1>3. ASSUME NEW d \in DOMAIN dbroot, d[1] = g,
               Returns(call, ANS_ACK, ByNumber(DOMAIN dbroot[d]), 1)
        PROVE  Store!ListArticles(g)
    <2> DEFINE arts == Groups[g].articles
               files == dbroot[d]
    <2>1. /\ g \in DOMAIN Groups /\ arts = Shown(files)
          /\ OneEach(DOMAIN files)
      BY <1>1, <1>3, GroupsShow
    <2>2. ByNumber(DOMAIN files) = [a \in DOMAIN arts |-> arts[a].title]
      <3> HIDE DEF arts, files
      <3>1. ASSUME NEW n \in Numbers(DOMAIN files)
            PROVE  ByNumber(DOMAIN files)[n] = arts[n].title
        <4>1. PICK e \in DOMAIN files : e[1] = n
          BY <3>1 DEF Numbers
        <4>2. (CHOOSE x \in DOMAIN files : x[1] = n) = e
          BY <2>1, <4>1, ChosenEntry
        <4>3. ByNumber(DOMAIN files)[n] = ReadBack(e[2])
          BY <3>1, <4>2 DEF ByNumber
        <4>4. arts[n] = ShownArticle(e, files[e])
          BY <2>1, <4>1, ShownAt
        <4> QED
          BY <4>3, <4>4 DEF ShownArticle
      <3>2. ByNumber(DOMAIN files)
              = [n \in Numbers(DOMAIN files) |-> ByNumber(DOMAIN files)[n]]
        BY DEF ByNumber
      <3> QED
        BY <2>1, <3>1, <3>2, ShownAt
    <2>3. /\ UNCHANGED Groups
          /\ answer' = Store!Answer(call, ANS_ACK, ByNumber(DOMAIN files))
      BY <1>1, <1>3, ReturnsRefines
    <2> HIDE DEF files
    <2> QED
      BY <2>1, <2>2, <2>3, SameAnswer DEF Store!ListArticles
  <1> QED
    BY <1>1, <1>2, <1>3, Opens DEF ListArticles

LEMMA GetNewsArticleRefines ==
  ASSUME NamesReadBack, OneWordTitles, IInv, WithinBudget,
         NEW g \in GroupNumbers, NEW a \in ArticleNumbers, GetNewsArticle(g, a)
  PROVE  Store!GetNewsArticle(g, a)
  <1> DEFINE call == <<"getNewsArticle", g, a>>
  <1>1. Idle /\ ~Deleting /\ ~Creating
    BY IdleIsNeither DEF GetNewsArticle
  <1>2. CASE NoGroup(g) /\ Returns(call, ERR_NG_DOES_NOT_EXIST, <<>>, 1)
    <2>1. g \notin DOMAIN Groups
      BY <1>1, <1>2, GroupsShow DEF NoGroup
    <2> QED
      BY <1>1, <1>2, <2>1, FailsRefines, SameAnswer DEF Store!GetNewsArticle
  <1>3. ASSUME NEW d \in DOMAIN dbroot, d[1] = g, Articles(d, a) = {},
               Returns(call, ERR_ART_DOES_NOT_EXIST, <<>>, 2)
        PROVE  Store!GetNewsArticle(g, a)
    <2>1. /\ g \in DOMAIN Groups
          /\ Groups[g].articles = Shown(dbroot[d])
          /\ OneEach(DOMAIN dbroot[d])
      BY <1>1, <1>3, GroupsShow
    <2>2. a \notin Numbers(DOMAIN dbroot[d])
      BY <1>3 DEF Articles, Numbers
    <2>3. a \notin DOMAIN Groups[g].articles
      BY <2>1, <2>2, ShownAt
    <2> QED
      BY <1>1, <1>3, <2>1, <2>3, FailsRefines, SameAnswer
      DEF Store!GetNewsArticle
  <1>4. ASSUME NEW d \in DOMAIN dbroot, d[1] = g, NEW e \in Articles(d, a),
               Returns(call, ANS_ACK, Contents(d, e), 2)
        PROVE  Store!GetNewsArticle(g, a)
    <2> DEFINE art == Groups[g].articles[a]
               lines == dbroot[d][e]
    <2>1. /\ g \in DOMAIN Groups
          /\ Groups[g].articles = Shown(dbroot[d])
          /\ OneEach(DOMAIN dbroot[d])
          /\ e \in DOMAIN dbroot[d] /\ e[1] = a
      BY <1>1, <1>4, GroupsShow DEF Articles
    <2>2. /\ a \in DOMAIN Groups[g].articles
          /\ art = ShownArticle(e, lines)
      BY <2>1, ShownAt
    <2>3. <<e[1], ReadBack(e[2])>> = e
      BY <2>1 DEF OneWordTitles, FirstWord, ReadBack, IInv, TypeOK, DiskTypeOK
    <2>4. Contents(d, e) = <<ReadBack(e[2]), First(lines), Rest(lines)>>
      BY <2>1, <2>3, Opens DEF Contents
    <2>5. Contents(d, e) = <<art.title, art.author, art.text>>
      BY <2>2, <2>4 DEF ShownArticle
    <2>6. /\ UNCHANGED Groups
          /\ answer' = Store!Answer(call, ANS_ACK, Contents(d, e))
      BY <1>1, <1>4, ReturnsRefines
    <2> HIDE DEF art, lines
    <2> QED
      BY <2>1, <2>2, <2>5, <2>6, SameAnswer DEF Store!GetNewsArticle, art
  <1> QED
    BY <1>1, <1>2, <1>3, <1>4, Opens DEF GetNewsArticle

-------------------------------------------------------------------------------
(* The calls that change the groups in one step.                             *)

\* A new group.
LEMMA CreateNewsGroupRefines ==
  ASSUME NamesReadBack, AllStorable, IInv, GroupsFromDisk', WithinBudget,
         NEW t \in Names, CreateNewsGroup(t)
  PROVE  Store!CreateNewsGroup(t)
  <1> DEFINE call == <<"createNewsGroup", t>>
  <1>1. Idle /\ ~Deleting /\ ~Creating
    BY IdleIsNeither DEF CreateNewsGroup
  <1>2. NameTaken(t) <=> \E g \in DOMAIN Groups : Groups[g].name = t
    BY <1>1, GroupsShow DEF NameTaken, Numbers
  <1>3. CASE NameTaken(t) /\ Returns(call, ERR_NG_ALREADY_EXISTS, <<>>, 1)
    BY <1>1, <1>2, <1>3, FailsRefines, SameAnswer DEF Store!CreateNewsGroup
  <1>4. CASE /\ ~NameTaken(t)
             /\ newsGroupCounter < MaxGroup
             /\ dbroot' = MakeDir(<<NextGroup, t>>)
             /\ answer' = Answer(call, ANS_ACK, <<>>)
             /\ UNCHANGED <<process, pending>>
    <2> DEFINE new == <<NextGroup, t>>
               shown == [name |-> t, articles |-> EmptyMap]
    <2>1. NextGroup \in GroupNumbers /\ NextGroup \notin Numbers(DOMAIN dbroot)
      BY <1>1, <1>4, BoundsAssumption, NextGroupAbove
      DEF Idle, Numbers, IInv, TypeOK, GroupNumbers, NextGroup
    <2>2. ~Deleting' /\ ~Creating'
      BY <1>1, <1>4 DEF Deleting, Creating
    <2>3. /\ DOMAIN Disk' = DOMAIN Disk \cup {new}
          /\ \A d \in DOMAIN Disk : Disk'[d] = Disk[d]
          /\ Disk'[new] = EmptyMap
      <3>1. Storable(new[2]) /\ new \notin DOMAIN dbroot
        BY <2>1 DEF AllStorable, Numbers
      <3> HIDE DEF new
      <3>2. /\ DOMAIN dbroot' = DOMAIN dbroot \cup {new}
            /\ \A d \in DOMAIN dbroot : dbroot'[d] = dbroot[d]
            /\ dbroot'[new] = EmptyMap
        BY <1>4, <3>1, MakeDirMap DEF new
      <3> QED
        BY <1>1, <2>2, <3>2, AllVisible, AllVisibleAfter, DiskNumbers
    <2>4. ShownGroup(new, EmptyMap) = shown
      <3>1. Numbers(DOMAIN EmptyMap) = {}
        BY DEF EmptyMap, Numbers
      <3>2. Shown(EmptyMap) = EmptyMap
        <4>1. Shown(EmptyMap) \in [{} -> {}]
          BY <3>1 DEF Shown
        <4> QED
          BY <4>1 DEF EmptyMap
      <3>3. ReadBack(new[2]) = t
        BY DEF NamesReadBack
      <3> HIDE DEF new
      <3> QED
        BY <3>2, <3>3 DEF ShownGroup
    <2>5. new[1] = NextGroup
      OBVIOUS
    <2> HIDE DEF new, shown
    <2>6. AsGroups(Disk') = Put(AsGroups(Disk), NextGroup, shown)
      BY <2>1, <2>3, <2>4, <2>5, AsGroupsPut, DiskNumbers
    <2>7. Groups' = Store!Put(Groups, NextGroup, shown)
      BY <2>6, GroupsAre, GroupsBecome, SameMaps DEF GroupsFromDisk
    <2> QED
      BY <1>1, <1>2, <1>4, <2>1, <2>7, GroupsShow, SameAnswer, SameMaps
      DEF Store!CreateNewsGroup, shown
  <1> QED
    BY <1>3, <1>4, Opens DEF CreateNewsGroup

\* An article that goes, under the name it has.
LEMMA DeleteArticleRefines ==
  ASSUME NamesReadBack, OneWordTitles, IInv, GroupsFromDisk', WithinBudget,
         NEW g \in GroupNumbers, NEW a \in ArticleNumbers, DeleteArticle(g, a)
  PROVE  Store!DeleteArticle(g, a)
  <1> DEFINE call == <<"deleteArticle", g, a>>
  <1>1. Idle /\ ~Deleting /\ ~Creating
    BY IdleIsNeither DEF DeleteArticle
  <1>2. CASE NoGroup(g) /\ Returns(call, ERR_NG_DOES_NOT_EXIST, <<>>, 1)
    <2>1. g \notin DOMAIN Groups
      BY <1>1, <1>2, GroupsShow DEF NoGroup
    <2> QED
      BY <1>1, <1>2, <2>1, FailsRefines, SameAnswer DEF Store!DeleteArticle
  <1>3. ASSUME NEW d \in DOMAIN dbroot, d[1] = g, Articles(d, a) = {},
               Returns(call, ERR_ART_DOES_NOT_EXIST, <<>>, 2)
        PROVE  Store!DeleteArticle(g, a)
    <2>1. /\ g \in DOMAIN Groups
          /\ Groups[g].articles = Shown(dbroot[d])
          /\ OneEach(DOMAIN dbroot[d])
      BY <1>1, <1>3, GroupsShow
    <2>2. a \notin Numbers(DOMAIN dbroot[d])
      BY <1>3 DEF Articles, Numbers
    <2>3. a \notin DOMAIN Groups[g].articles
      BY <2>1, <2>2, ShownAt
    <2> QED
      BY <1>1, <1>3, <2>1, <2>3, FailsRefines, SameAnswer
      DEF Store!DeleteArticle
  <1>4. ASSUME NEW d \in DOMAIN dbroot, d[1] = g, NEW e \in Articles(d, a),
               dbroot' = [dbroot EXCEPT ![d] = Erase(@, <<a, ReadBack(e[2])>>)],
               answer' = Answer(call, ANS_ACK, <<>>),
               UNCHANGED <<process, pending>>
        PROVE  Store!DeleteArticle(g, a)
    <2> DEFINE less == Erase(dbroot[d], e)
    <2>1. /\ g \in DOMAIN Groups
          /\ Groups[g].articles = Shown(dbroot[d])
          /\ OneEach(DOMAIN dbroot[d])
          /\ e \in DOMAIN dbroot[d] /\ e[1] = a
      BY <1>1, <1>4, GroupsShow DEF Articles
    <2>2. a \in DOMAIN Groups[g].articles
      BY <2>1, ShownAt
    <2>3. <<a, ReadBack(e[2])>> = e
      BY <2>1 DEF OneWordTitles, FirstWord, ReadBack, IInv, TypeOK, DiskTypeOK
    <2>4. ~Deleting' /\ ~Creating'
      BY <1>1, <1>4 DEF Deleting, Creating
    <2>5. /\ DOMAIN Disk' = DOMAIN Disk
          /\ \A f \in DOMAIN Disk : f # d => Disk'[f] = Disk[f]
          /\ Disk'[d] = less
      <3>1. /\ DOMAIN dbroot' = DOMAIN dbroot
            /\ \A f \in DOMAIN dbroot : f # d => dbroot'[f] = dbroot[f]
            /\ dbroot'[d] = less
        BY <1>4, <2>3
      <3> HIDE DEF less
      <3> QED
        BY <1>1, <2>4, <3>1, AllVisible, AllVisibleAfter, DiskNumbers
    <2>6. Shown(less) = Erase(Shown(dbroot[d]), a)
      <3>1. /\ DOMAIN less = DOMAIN dbroot[d] \ {e}
            /\ \A f \in DOMAIN less : less[f] = dbroot[d][f]
        BY DEF Erase, Restrict
      <3> HIDE DEF less
      <3> QED
        BY <2>1, <3>1, ShownErase
    <2> HIDE DEF less
    <2>7. AsGroups(Disk') = [AsGroups(Disk) EXCEPT ![g].articles = Shown(less)]
      <3>1. d \in DOMAIN Disk /\ OneEach(DOMAIN Disk)
        BY DiskNumbers
      <3>2. AsGroups(Disk')
              = [AsGroups(Disk) EXCEPT ![d[1]].articles = Shown(Disk'[d])]
        BY <2>5, <3>1, AsGroupsChange
      <3> QED
        BY <1>4, <2>5, <3>2
    <2>8. Shown(less) = Store!Erase(Groups[g].articles, a)
      BY <2>1, <2>6, SameMaps
    <2>9. Groups' = [Groups EXCEPT ![g].articles = Store!Erase(@, a)]
      BY <2>7, <2>8, GroupsAre, GroupsBecome DEF GroupsFromDisk
    <2> QED
      BY <1>4, <2>1, <2>2, <2>9, SameAnswer DEF Store!DeleteArticle
  <1> QED
    BY <1>1, <1>2, <1>3, <1>4, Opens DEF DeleteArticle

-------------------------------------------------------------------------------
(* The calls of several steps: only the last one shows.                      *)

\* What is visible stays.
LEMMA SameDisk ==
  ASSUME GroupsFromDisk', DOMAIN dbroot' = DOMAIN dbroot,
         \A d \in DOMAIN dbroot : Visible(d)' = Visible(d)
  PROVE  Groups' = Groups
  <1>1. Disk' = Disk
    BY DEF Disk
  <1> QED
    BY <1>1, GroupsAre, GroupsBecome DEF GroupsFromDisk

\* The deletion of a group starts with nothing but a list of its articles.
LEMMA DeleteNewsGroupRefines ==
  ASSUME NamesReadBack, IInv, GroupsFromDisk', WithinBudget,
         NEW g \in GroupNumbers, DeleteNewsGroup(g)
  PROVE  Store!DeleteNewsGroup(g) \/ UNCHANGED Store!vars
  <1> DEFINE call == <<"deleteNewsGroup", g>>
  <1>1. Idle /\ ~Deleting /\ ~Creating
    BY IdleIsNeither DEF DeleteNewsGroup
  <1>2. CASE NoGroup(g) /\ Returns(call, ERR_NG_DOES_NOT_EXIST, <<>>, 0)
    <2>1. g \notin DOMAIN Groups
      BY <1>1, <1>2, GroupsShow DEF NoGroup
    <2> QED
      BY <1>1, <1>2, <2>1, FailsRefines, SameAnswer DEF Store!DeleteNewsGroup
  <1>3. ASSUME NEW d \in DOMAIN dbroot,
               pending' = [op |-> "deleteNewsGroup", dir |-> d,
                           toRemove |-> DOMAIN dbroot[d],
                           before |-> dbroot[d]],
               UNCHANGED <<dbroot, process, answer>>
        PROVE  UNCHANGED Store!vars
    <2>1. /\ process = "up" /\ pending'.op = "deleteNewsGroup"
          /\ pending'.dir = d /\ pending'.before = dbroot[d]
      BY <1>1, <1>3 DEF Idle
    <2>2. Deleting' /\ ~Creating'
      BY <1>3, <2>1 DEF Deleting, Creating
    <2>3. \A f \in DOMAIN dbroot : Visible(f)' = dbroot[f]
      BY <1>3, <2>1, <2>2 DEF Visible
    <2>4. \A f \in DOMAIN dbroot : Visible(f) = dbroot[f]
      BY <1>1 DEF Visible
    <2> QED
      BY <1>3, <2>3, <2>4, SameDisk DEF Store!vars
  <1>4. NoGroup(g) \/ (~NoGroup(g) /\ CanOpen(2))
    BY Opens
  <1> QED
    BY <1>1, <1>2, <1>3, <1>4, Opens DEF DeleteNewsGroup

\* While it goes on, clients see the group as it was.
LEMMA RemoveArticleRefines ==
  ASSUME OneWordTitles, IInv, GroupsFromDisk', RemoveArticle
  PROVE  UNCHANGED Store!vars
  <1>1. PICK e \in pending.toRemove :
          pending' = [pending EXCEPT !.toRemove = @ \ {e}]
    BY DEF RemoveArticle
  <1>2. /\ pending'.op = "deleteNewsGroup" /\ pending'.dir = pending.dir
        /\ pending'.before = pending.before /\ process' = "up"
        /\ Deleting /\ ~Creating
    BY <1>1
    DEF RemoveArticle, Deleting, Creating, IInv, TypeOK, PendingTypeOK
  <1>3. Deleting' /\ ~Creating'
    BY <1>2 DEF Deleting, Creating
  <1>4. /\ DOMAIN dbroot' = DOMAIN dbroot
        /\ \A d \in DOMAIN dbroot : d # pending.dir => dbroot'[d] = dbroot[d]
    BY RemoveArticleErases
  <1>5. \A d \in DOMAIN dbroot : Visible(d)' = Visible(d)
    BY <1>2, <1>3, <1>4 DEF Visible
  <1> QED
    BY <1>4, <1>5, SameDisk DEF RemoveArticle, Store!vars

\* At its end the group is gone.
LEMMA RemoveGroupRefines ==
  ASSUME IInv, EmptiesAll, GroupsFromDisk', RemoveGroup
  PROVE  \E g \in GroupNumbers : Store!DeleteNewsGroup(g)
  <1> DEFINE d == pending.dir
             g == d[1]
  <1>1. /\ d \in DOMAIN dbroot /\ g \in GroupNumbers
        /\ DOMAIN dbroot' = DOMAIN dbroot \ {d}
        /\ \A f \in DOMAIN dbroot' : dbroot'[f] = dbroot[f]
    BY RemoveGroupRemoves DEF IInv, TypeOK, DiskTypeOK
  <1>2. Deleting /\ ~Creating /\ ~Deleting' /\ ~Creating'
    BY DEF RemoveGroup, Deleting, Creating, NoCall
  <1> HIDE DEF d
  <1>3. \A f \in DOMAIN dbroot : f # d => Disk[f] = dbroot[f]
    BY <1>2 DEF Disk, Visible, d
  <1>4. /\ DOMAIN Disk' = DOMAIN Disk \ {d}
        /\ \A f \in DOMAIN Disk' : Disk'[f] = Disk[f]
        /\ d \in DOMAIN Disk
    BY <1>1, <1>2, <1>3, AllVisibleAfter, DiskNumbers
  <1>5. AsGroups(Disk') = Erase(AsGroups(Disk), g)
    BY <1>4, AsGroupsErase, DiskNumbers
  <1>6. Groups' = Store!Erase(Groups, g)
    BY <1>5, GroupsAre, GroupsBecome, SameMaps DEF GroupsFromDisk
  <1>7. g \in DOMAIN Groups
    BY <1>4, AsGroupsAt, GroupsAre, DiskNumbers DEF GroupsFromDisk
  <1>8. answer' = Store!Answer(<<"deleteNewsGroup", g>>, Store!ANS_ACK, <<>>)
    BY SameAnswer DEF RemoveGroup, d
  <1> HIDE DEF g
  <1> QED
    BY <1>1, <1>6, <1>7, <1>8 DEF Store!DeleteNewsGroup

\* The creation of an article starts with an empty file nobody sees.
LEMMA CreateArticleRefines ==
  ASSUME NamesReadBack, AllStorable, IInv, GroupsFromDisk', WithinBudget,
         NEW g \in GroupNumbers, NEW t \in Titles, NEW au \in Authors,
         NEW tx \in Texts, CreateArticle(g, t, au, tx)
  PROVE  Store!CreateArticle(g, t, au, tx) \/ UNCHANGED Store!vars
  <1> DEFINE call == <<"createArticle", g, t, au, tx>>
  <1>1. Idle /\ ~Deleting /\ ~Creating
    BY IdleIsNeither DEF CreateArticle
  <1>2. CASE NoGroup(g) /\ Returns(call, ERR_NG_DOES_NOT_EXIST, <<>>, 1)
    <2>1. g \notin DOMAIN Groups
      BY <1>1, <1>2, GroupsShow DEF NoGroup
    <2> QED
      BY <1>1, <1>2, <2>1, FailsRefines, SameAnswer DEF Store!CreateArticle
  <1>3. ASSUME NEW d \in DOMAIN dbroot,
               dbroot' = [dbroot EXCEPT ![d] =
                            Put(@, <<NextArticle(d), t>>, <<>>)],
               pending' = [op |-> "createArticle", call |-> call,
                           dir |-> d, nbr |-> NextArticle(d)],
               UNCHANGED <<process, answer>>
        PROVE  UNCHANGED Store!vars
    <2> DEFINE file == <<NextArticle(d), t>>
               more == Put(dbroot[d], file, <<>>)
    <2>1. /\ process = "up" /\ pending'.op = "createArticle"
          /\ pending'.dir = d /\ <<pending'.nbr, pending'.call[3]>> = file
      BY <1>1, <1>3 DEF Idle
    <2>2. Creating' /\ ~Deleting'
      BY <1>3, <2>1 DEF Deleting, Creating
    <2>3. /\ file \notin DOMAIN dbroot[d]
          /\ dbroot[d] = [e \in DOMAIN dbroot[d] |-> dbroot[d][e]]
      <3>1. DiskTypeOK
        BY DEF IInv, TypeOK
      <3>2. \A e \in DOMAIN dbroot[d] : e[1] < NextArticle(d)
        BY <3>1, NextArticleAbove
      <3>3. NextArticle(d) \in Nat
        BY <3>1, NextArticleAbove
      <3>4. file \notin DOMAIN dbroot[d]
        BY <3>2, <3>3
      <3>5. dbroot[d] = [e \in DOMAIN dbroot[d] |-> dbroot[d][e]]
        BY <3>1 DEF DiskTypeOK
      <3> QED
        BY <3>4, <3>5
    <2> HIDE DEF file
    <2>4. Erase(more, file) = dbroot[d]
      BY <2>3 DEF Put, Erase, Restrict
    <2>5. /\ DOMAIN dbroot' = DOMAIN dbroot
          /\ dbroot'[d] = more
          /\ \A f \in DOMAIN dbroot : f # d => dbroot'[f] = dbroot[f]
      BY <1>3 DEF file
    <2> HIDE DEF more
    <2>6. Visible(d)' = dbroot[d]
      BY <2>1, <2>2, <2>4, <2>5 DEF Visible
    <2>7. \A f \in DOMAIN dbroot : Visible(f)' = dbroot[f]
      BY <2>1, <2>2, <2>5, <2>6 DEF Visible
    <2>8. \A f \in DOMAIN dbroot : Visible(f) = dbroot[f]
      BY <1>1 DEF Visible
    <2> QED
      BY <1>3, <2>5, <2>7, <2>8, SameDisk DEF Store!vars
  <1>4. Storable(t)
    BY DEF AllStorable
  <1> QED
    BY <1>1, <1>2, <1>3, <1>4, Opens DEF CreateArticle

\* The line of the author is written to it.
LEMMA WriteAuthorRefines ==
  ASSUME IInv, GroupsFromDisk', WriteAuthor
  PROVE  UNCHANGED Store!vars
  <1> DEFINE d == pending.dir
             file == <<pending.nbr, pending.call[3]>>
  <1>1. /\ d \in DOMAIN dbroot /\ file \in DOMAIN dbroot[d]
        /\ Creating /\ ~Deleting /\ pending' = pending
        /\ UNCHANGED <<process, answer>>
    BY DEF WriteAuthor, memory, Creating, Deleting, IInv, TypeOK,
           PendingTypeOK, File
  <1>2. /\ DOMAIN dbroot' = DOMAIN dbroot
        /\ \A f \in DOMAIN dbroot : f # d => dbroot'[f] = dbroot[f]
        /\ dbroot'[d] = [dbroot[d] EXCEPT ![file] = @ \o pending.call[4]]
    BY <1>1 DEF WriteAuthor, WriteLines
  <1>3. Creating' /\ ~Deleting'
    BY <1>1 DEF Creating, Deleting
  <1> HIDE DEF file
  <1>4. Erase(dbroot'[d], file) = Erase(dbroot[d], file)
    BY <1>2 DEF Erase, Restrict
  <1> HIDE DEF d
  <1>5. ASSUME NEW f \in DOMAIN dbroot
        PROVE  Visible(f)' = Visible(f)
    <2>1. CASE f = d
      BY <1>1, <1>3, <1>4, <2>1 DEF Visible, d, file
    <2>2. CASE f # d
      BY <1>1, <1>2, <1>3, <2>2 DEF Visible, d
    <2> QED
      BY <2>1, <2>2
  <1> QED
    BY <1>1, <1>2, <1>5, SameDisk DEF Store!vars

\* A file that starts with a line holds that line, and the others.
LEMMA LinesApart ==
  ASSUME NEW au \in Seq(STRING), Len(au) = 1,
         NEW tx \in Seq(STRING) \ {<<>>}
  PROVE  First(au \o tx) = au /\ Rest(au \o tx) = tx
  <1> DEFINE s == au \o tx
  <1>1. Len(s) = 1 + Len(tx) /\ Len(tx) \in Nat \ {0}
    <2>1. Len(s) = Len(au) + Len(tx)
      BY ConcatProperties
    <2>2. Len(tx) \in Nat \ {0}
      BY EmptySeq
    <2> QED
      BY <2>1, <2>2
  <1>2. Min({1, Len(s)}) = 1
    <2> DEFINE m == Min({1, Len(s)})
    <2>1. \E x \in {1, Len(s)} : \A y \in {1, Len(s)} : x <= y
      BY <1>1
    <2>2. m \in {1, Len(s)} /\ \A y \in {1, Len(s)} : m <= y
      BY <2>1 DEF Min
    <2> HIDE DEF m, s
    <2>3. m = 1
      BY <1>1, <2>2
    <2> QED
      BY <2>3 DEF m
  <1>3. First(s) = au
    <2>1. First(s) = SubSeq(s, 1, 1)
      BY <1>2 DEF First
    <2>2. SubSeq(s, 1, 1) = SubSeq(au, 1, 1)
      BY SubSeqOfConcat1, 1 \in 1..Len(au)
    <2>3. SubSeq(au, 1, 1) = au
      BY SubSeqFull
    <2> QED
      BY <2>1, <2>2, <2>3
  <1>4. Rest(s) = tx
    <2>1. Rest(s) = SubSeq(s, 2, Len(s))
      BY DEF Rest
    <2>2. /\ 2 \in Len(au) + 1..Len(au) + Len(tx)
          /\ Len(s) \in Len(au) + 1..Len(au) + Len(tx)
          /\ 2 - Len(au) = 1 /\ Len(s) - Len(au) = Len(tx)
      BY <1>1
    <2>3. SubSeq(s, 2, Len(s)) = SubSeq(tx, 1, Len(tx))
      BY <2>2, SubSeqOfConcat2
    <2> QED
      BY <2>1, <2>3, SubSeqFull
  <1> QED
    BY <1>3, <1>4

\* The text is written to it, and the article is there.
LEMMA WriteTextRefines ==
  ASSUME OneWordTitles, OneLineAuthors, OrderlyInv, GroupsFromDisk', WriteText
  PROVE  \E g \in GroupNumbers, t \in Titles, au \in Authors, tx \in Texts :
           Store!CreateArticle(g, t, au, tx)
  <1> DEFINE d == pending.dir
             n == pending.nbr
             t == pending.call[3]
             au == pending.call[4]
             tx == pending.call[5]
             g == d[1]
             file == <<n, t>>
             before == Erase(dbroot[d], file)
             art == [title |-> t, author |-> au, text |-> tx]
  <1> USE DEF OrderlyInv
  <1>1. /\ d \in DOMAIN dbroot /\ file \in DOMAIN dbroot[d]
        /\ Creating /\ ~Deleting /\ pending' = NoCall
        /\ n \in ArticleNumbers /\ g \in GroupNumbers
        /\ t \in Titles /\ au \in Authors /\ tx \in Texts
    BY DEF WriteText, Creating, Deleting, IInv, TypeOK, PendingTypeOK, File,
           DiskTypeOK
  <1>2. /\ dbroot[d][file] = au
        /\ DOMAIN dbroot' = DOMAIN dbroot
        /\ \A f \in DOMAIN dbroot : f # d => dbroot'[f] = dbroot[f]
        /\ dbroot'[d] = [dbroot[d] EXCEPT ![file] = @ \o tx]
    BY <1>1 DEF WriteText, WriteLines, StoredInv
  <1>3. ~Deleting' /\ ~Creating'
    BY <1>1 DEF Deleting, Creating, NoCall
  <1>4. answer' = Store!Answer(<<"createArticle", g, t, au, tx>>,
                               Store!ANS_ACK, <<>>)
    <2>1. pending.call = <<"createArticle", g, t, au, tx>>
      BY <1>1 DEF IInv, TypeOK, PendingTypeOK
    <2> QED
      BY <2>1, SameAnswer DEF WriteText
  <1>5. OneEach(DOMAIN dbroot[d])
    BY <1>1 DEF IInv, UniqueNumbers, OneEach
  <1> HIDE DEF file
  <1>6. /\ DOMAIN dbroot'[d] = DOMAIN before \cup {file}
        /\ \A e \in DOMAIN before : dbroot'[d][e] = before[e]
        /\ DOMAIN before = DOMAIN dbroot[d] \ {file}
        /\ dbroot'[d][file] = au \o tx
    BY <1>1, <1>2 DEF Erase, Restrict
  <1>7. n \notin Numbers(DOMAIN before) /\ OneEach(DOMAIN before) /\ file[1] = n
    BY <1>1, <1>5, <1>6 DEF OneEach, Numbers, file
  <1>8. ShownArticle(file, au \o tx) = art
    <2>1. First(au \o tx) = au /\ Rest(au \o tx) = tx
      BY <1>1, LinesApart, LinesAssumption DEF OneLineAuthors
    <2>2. ReadBack(file[2]) = t
      BY <1>1 DEF OneWordTitles, FirstWord, ReadBack, file
    <2> HIDE DEF au, tx, t
    <2> QED
      BY <2>1, <2>2 DEF ShownArticle
  <1> HIDE DEF before, art
  <1>9. Shown(dbroot'[d]) = Put(Shown(before), n, art)
    <2> DEFINE more == dbroot'[d]
    <2>1. /\ DOMAIN more = DOMAIN before \cup {file}
          /\ \A e \in DOMAIN before : more[e] = before[e]
          /\ ShownArticle(file, more[file]) = art
      BY <1>6, <1>8
    <2> HIDE DEF more, n
    <2>2. Shown(more) = Put(Shown(before), file[1], ShownArticle(file, more[file]))
      BY <1>7, <2>1, ShownPut
    <2> QED
      BY <1>7, <2>1, <2>2 DEF more
  <1>10. Disk[d] = before /\ \A f \in DOMAIN dbroot : f # d => Disk[f] = dbroot[f]
    BY <1>1 DEF Disk, Visible, before, file
  <1> HIDE DEF d, n, t, au, tx
  <1>11. /\ d \in DOMAIN Disk /\ OneEach(DOMAIN Disk)
         /\ DOMAIN Disk' = DOMAIN Disk
         /\ \A f \in DOMAIN Disk : f # d => Disk'[f] = Disk[f]
         /\ Disk'[d] = dbroot'[d]
    BY <1>1, <1>2, <1>3, <1>10, AllVisibleAfter, DiskNumbers
  <1>12. AsGroups(Disk') = [AsGroups(Disk) EXCEPT ![g].articles =
                              Shown(dbroot'[d])]
    <2>1. AsGroups(Disk')
            = [AsGroups(Disk) EXCEPT ![d[1]].articles = Shown(Disk'[d])]
      BY <1>11, AsGroupsChange
    <2> QED
      BY <1>11, <2>1
  <1>13. /\ g \in DOMAIN Groups
         /\ Groups[g].articles = Shown(before)
    <2>1. /\ g \in DOMAIN AsGroups(Disk)
          /\ AsGroups(Disk)[g] = ShownGroup(d, before)
      BY <1>10, <1>11, AsGroupsAt
    <2>2. Groups[g] = [name |-> ReadBack(d[2]), articles |-> Shown(before)]
      BY <2>1, GroupsAre DEF GroupsFromDisk, ShownGroup
    <2> HIDE DEF g
    <2> DEFINE shown == Groups[g]
    <2>3. shown.articles = Shown(before)
      BY <2>2
    <2> QED
      BY <2>1, <2>3, GroupsAre DEF GroupsFromDisk
  <1>14. n \notin DOMAIN Groups[g].articles
    BY <1>7, <1>13, ShownAt
  <1>15. Groups' = [Groups EXCEPT ![g].articles = Store!Put(@, n, art)]
    <2>1. Shown(dbroot'[d]) = Store!Put(Groups[g].articles, n, art)
      BY <1>9, <1>13, SameMaps
    <2> QED
      BY <1>12, <2>1, GroupsAre, GroupsBecome DEF GroupsFromDisk
  <1>16. Store!CreateArticle(g, t, au, tx)
    <2> HIDE DEF g
    <2> QED
      BY <1>1, <1>4, <1>13, <1>14, <1>15 DEF Store!CreateArticle, art
  <1> QED
    BY <1>1, <1>16

-------------------------------------------------------------------------------
(* Stops and restarts, and the theorem.                                      *)

\* A stop, and a restart, change nothing a client sees.
LEMMA ProcessRefines ==
  ASSUME IInv, GroupsFromDisk', KillIdle \/ Restart
  PROVE  UNCHANGED Store!vars
  <1>1. ~Deleting /\ ~Creating /\ ~Deleting' /\ ~Creating'
    BY DownIsIdle, IdleIsNeither
    DEF KillIdle, Restart, Idle, Deleting, Creating, NoCall
  <1>2. UNCHANGED <<dbroot, answer>>
    BY DEF KillIdle, Restart
  <1>3. \A d \in DOMAIN dbroot : Visible(d)' = Visible(d)
    BY <1>1, <1>2 DEF Visible
  <1> QED
    BY <1>2, <1>3, SameDisk DEF Store!vars

LEMMA InitRefines ==
  Init => Store!Init
  <1> SUFFICES ASSUME Init
               PROVE  Store!Init
    OBVIOUS
  <1>1. Numbers(DOMAIN dbroot) = {}
    BY DEF Init, EmptyMap, Numbers
  <1>2. Groups \in [{} -> {}]
    BY <1>1 DEF Groups
  <1>3. Groups = Store!EmptyMap
    BY <1>2 DEF Store!EmptyMap
  <1>4. answer = Store!NoCall
    BY SameAnswer DEF Init, Store!NoCall
  <1> QED
    BY <1>3, <1>4 DEF Store!Init

LEMMA CallRefines ==
  ASSUME NamesReadBack, OneWordTitles, AllStorable, IInv, GroupsFromDisk',
         WithinBudget, Call
  PROVE  Store!Next \/ UNCHANGED Store!vars
  <1>1. CASE ListNewsGroups
    BY <1>1, ListNewsGroupsRefines DEF Store!Next
  <1>2. CASE \E t \in Names : CreateNewsGroup(t)
    BY <1>2, CreateNewsGroupRefines DEF Store!Next
  <1>3. CASE \E g \in GroupNumbers : DeleteNewsGroup(g)
    BY <1>3, DeleteNewsGroupRefines DEF Store!Next
  <1>4. CASE \E g \in GroupNumbers : ListArticles(g)
    BY <1>4, ListArticlesRefines DEF Store!Next
  <1>5. CASE \E g \in GroupNumbers, t \in Titles, au \in Authors, tx \in Texts :
               CreateArticle(g, t, au, tx)
    BY <1>5, CreateArticleRefines DEF Store!Next
  <1>6. CASE \E g \in GroupNumbers, a \in ArticleNumbers : DeleteArticle(g, a)
    BY <1>6, DeleteArticleRefines DEF Store!Next
  <1>7. CASE \E g \in GroupNumbers, a \in ArticleNumbers : GetNewsArticle(g, a)
    BY <1>7, GetNewsArticleRefines DEF Store!Next
  <1> QED
    BY <1>1, <1>2, <1>3, <1>4, <1>5, <1>6, <1>7 DEF Call

LEMMA NextRefines ==
  ASSUME NamesReadBack, OneWordTitles, AllStorable, OneLineAuthors
  PROVE  OrderlyInv /\ GroupsFromDisk' /\ [OrderlyNext]_vars
           => [Store!Next]_(Store!vars)
  <1> SUFFICES ASSUME OrderlyInv, GroupsFromDisk', [OrderlyNext]_vars
               PROVE  Store!Next \/ UNCHANGED Store!vars
    OBVIOUS
  <1>0. IInv /\ EmptiesAll
    BY DEF OrderlyInv
  <1>1. CASE WithinBudget /\ Call
    BY <1>0, <1>1, CallRefines
  <1>2. CASE RemoveArticle
    BY <1>0, <1>2, RemoveArticleRefines
  <1>3. CASE RemoveGroup
    BY <1>0, <1>3, RemoveGroupRefines DEF Store!Next
  <1>4. CASE WriteAuthor
    BY <1>0, <1>4, WriteAuthorRefines
  <1>5. CASE WriteText
    BY <1>5, WriteTextRefines DEF Store!Next
  <1>6. CASE KillIdle \/ Restart
    BY <1>0, <1>6, ProcessRefines
  <1>7. CASE UNCHANGED vars
    <2>1. UNCHANGED <<dbroot, pending, process, answer>>
      BY <1>7 DEF vars, memory
    <2>2. \A d \in DOMAIN dbroot : Visible(d)' = Visible(d)
      BY <2>1 DEF Visible, Deleting, Creating
    <2> QED
      BY <2>1, <2>2, SameDisk DEF Store!vars
  <1> QED
    BY <1>1, <1>2, <1>3, <1>4, <1>5, <1>6, <1>7 DEF OrderlyNext, Continue

\* The article that is being written belongs to the group of the call.
LEMMA OrderlyStep ==
  ASSUME OneWordTitles, AllStorable
  PROVE  OrderlyInv /\ [OrderlyNext]_vars => OrderlyInv'
  <1> SUFFICES ASSUME OrderlyInv, [OrderlyNext]_vars
               PROVE  OrderlyInv'
    OBVIOUS
  <1>1. [BudgetNext]_vars /\ [Next]_vars
    BY BudgetIsNext DEF OrderlyNext, BudgetNext
  <1>2. IInv' /\ EmptiesAll' /\ StoredInv'
    BY <1>1, NextIInv, EmptiesAllStep, StoredStep DEF OrderlyInv
  <1>3. ASSUME Creating'
        PROVE  pending'.call[2] = pending'.dir[1]
    <2>1. CASE Call
      <3>1. PICK d \in DOMAIN dbroot, title \in Titles, author \in Authors,
                 text \in Texts : StartsArticle(d, title, author, text)
        <4>1. pending'.op = "createArticle"
          BY <1>3 DEF Creating
        <4>2. \A d, e : ~StartsDeleting(d) /\ ~DropsArticle(d, e)
          BY <4>1 DEF StartsDeleting, DropsArticle, Idle, NoCall
        <4>3. ~LooksOnly /\ \A t : ~AddsGroup(t)
          BY <4>1 DEF LooksOnly, AddsGroup, Idle, NoCall
        <4>4. \A d, title, author, text : ~LosesArticle(d, title, author, text)
          BY <4>1 DEF LosesArticle, Idle, NoCall
        <4> QED
          BY <2>1, <4>2, <4>3, <4>4, CallKinds
      <3> QED
        BY <3>1 DEF StartsArticle
    <2>2. CASE RemoveArticle
      BY <1>3, <2>2
      DEF RemoveArticle, Deleting, Creating, OrderlyInv, IInv, TypeOK,
          PendingTypeOK
    <2>3. CASE RemoveGroup \/ WriteText
      BY <1>3, <2>3 DEF RemoveGroup, WriteText, Creating, NoCall
    <2>4. CASE WriteAuthor \/ UNCHANGED vars
      BY <1>3, <2>4 DEF WriteAuthor, vars, memory, Creating, OrderlyInv
    <2>5. CASE KillIdle \/ Restart
      BY <1>3, <2>5, DownIsIdle
      DEF KillIdle, Restart, Creating, NoCall, OrderlyInv
    <2> QED
      BY <2>1, <2>2, <2>3, <2>4, <2>5 DEF OrderlyNext, Continue
  <1> QED
    BY <1>2, <1>3 DEF OrderlyInv

\* Between orderly stops the store on disk does to the groups, and answers,
\* what dbinterface.h promises: for every process that is restarted in time,
\* names without leading blanks, titles of one word, authors of one line, and
\* no '/' in a name or a title.
THEOREM DiskImplementsStore ==
  ASSUME NamesReadBack, OneWordTitles, AllStorable, OneLineAuthors
  PROVE  OrderlySpec => ImplementsNewsStore
  <1>1. Init => OrderlyInv
    BY InitIInv, InitStored
    DEF Init, NoCall, OrderlyInv, EmptiesAll, Deleting, Creating
  <1>2. OrderlySpec => []OrderlyInv
    BY <1>1, OrderlyStep, PTL DEF OrderlySpec
  <1>3. OrderlySpec => []GroupsFromDisk
    BY GroupsAre, PTL
  <1> QED
    BY <1>2, <1>3, InitRefines, NextRefines, PTL
    DEF OrderlySpec, ImplementsNewsStore, Store!Spec

===============================================================================
