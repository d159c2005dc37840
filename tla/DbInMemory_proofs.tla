--------------------------- MODULE DbInMemory_proofs ---------------------------
(***************************************************************************)
(* Proofs about DbInMemory, for any titles, authors and texts and for any  *)
(* bound of the counters.                                                  *)
(***************************************************************************)
EXTENDS DbInMemory, OrderedMap_proofs, TLAPS

\* A call that only returns a code leaves the invariant alone.
LEMMA ReturnsIInv ==
  ASSUME IInv, NEW call, NEW result,
         NEW code \in {ANS_ACK, ERR_NG_ALREADY_EXISTS,
                       ERR_NG_DOES_NOT_EXIST, ERR_ART_DOES_NOT_EXIST},
         Returns(call, code, result)
  PROVE  IInv'
  BY DEF Returns, Answer, history, IInv, TypeOK, IsNewsgroup, NamesUnique,
         NoResurrection, CountersAhead

\* createNewsGroup, once the name is known to be free and the counter not
\* at its bound.
LEMMA CreateNewsGroupIInv ==
  ASSUME IInv, NEW title \in Titles, ~NameTaken(title),
         newsGroupCounter < MaxId,
         newsGroupCounter' = newsGroupCounter + 1,
         db' = Put(db, newsGroupCounter + 1,
                   [groupName |-> title, id |-> newsGroupCounter + 1,
                    nbrOfArticles |-> 0, articles |-> EmptyMap]),
         answer' = Answer(<<"createNewsGroup", title>>, ANS_ACK, <<>>),
         UNCHANGED history
  PROVE  IInv'
  <1> DEFINE new == newsGroupCounter + 1
             ng == [groupName |-> title, id |-> new, nbrOfArticles |-> 0,
                    articles |-> EmptyMap]
  <1>1. new \in Issuable /\ new \in Ids /\ new \notin DOMAIN db
    BY MaxIdAssumption DEF IInv, TypeOK, CountersAhead, Issuable, Ids
  <1>2. /\ DOMAIN db' = DOMAIN db \cup {new}
        /\ db'[new] = ng
        /\ \A g \in DOMAIN db : db'[g] = db[g]
        /\ db' = [g \in DOMAIN db' |-> db'[g]]
    <2>1. db' = Put(db, new, ng)
      OBVIOUS
    <2> HIDE DEF new, ng
    <2> QED
      BY <2>1, <1>1 DEF Put
  <1>3. IsNewsgroup(ng)
    <2>1. EmptyMap \in [DOMAIN EmptyMap -> Article] /\ DOMAIN EmptyMap = {}
      BY DEF EmptyMap
    <2> QED
      BY <1>1, <2>1, MaxIdAssumption DEF IsNewsgroup, Ids
  <1>4. TypeOK'
    BY <1>1, <1>2, <1>3 DEF IInv, TypeOK, Answer, history, IsNewsgroup
  <1>5. NamesUnique'
    BY <1>2 DEF IInv, NamesUnique, NameTaken
  <1>6. NoResurrection'
    BY <1>1, <1>2
    DEF IInv, NoResurrection, CountersAhead, TypeOK, Issuable, Ids, history,
        EmptyMap
  <1>7. CountersAhead'
    <2>1. \A g \in DOMAIN db' \cup deletedGroups' : g <= newsGroupCounter'
      BY <1>1, <1>2 DEF IInv, CountersAhead, TypeOK, Issuable, Ids, history
    <2>2. \A g \in DOMAIN db' : \A a \in DOMAIN db'[g].articles :
            a <= db'[g].nbrOfArticles
      BY <1>2 DEF IInv, CountersAhead, EmptyMap
    <2>3. ASSUME NEW p \in deletedArticles'
          PROVE  /\ p[1] <= newsGroupCounter'
                 /\ p[1] \in DOMAIN db' => p[2] <= db'[p[1]].nbrOfArticles
      BY <1>1, <1>2 DEF IInv, CountersAhead, TypeOK, Issuable, Ids, history
    <2> QED
      BY <2>1, <2>2, <2>3 DEF CountersAhead
  <1> QED
    BY <1>4, <1>5, <1>6, <1>7 DEF IInv

\* deleteNewsGroup of a group that is there.
LEMMA DeleteNewsGroupIInv ==
  ASSUME IInv, NEW g \in DOMAIN db,
         db' = Erase(db, g),
         answer' = Answer(<<"deleteNewsGroup", g>>, ANS_ACK, <<>>),
         deletedGroups' = deletedGroups \cup {g},
         UNCHANGED <<newsGroupCounter, deletedArticles>>
  PROVE  IInv'
  <1>1. /\ DOMAIN db' = DOMAIN db \ {g}
        /\ \A h \in DOMAIN db' : db'[h] = db[h]
        /\ db' = [h \in DOMAIN db' |-> db'[h]]
    BY EraseMap
  <1>2. TypeOK'
    BY <1>1 DEF IInv, TypeOK, Answer, IsNewsgroup
  <1>3. NamesUnique'
    BY <1>1 DEF IInv, NamesUnique
  <1>4. NoResurrection'
    BY <1>1 DEF IInv, NoResurrection
  <1>5. CountersAhead'
    BY <1>1 DEF IInv, CountersAhead
  <1> QED
    BY <1>2, <1>3, <1>4, <1>5 DEF IInv

\* createArticle in a group that is there and whose counter is not at its
\* bound.
LEMMA CreateArticleIInv ==
  ASSUME IInv, NEW g \in DOMAIN db, NEW title \in Titles,
         NEW author \in Authors, NEW text \in Texts,
         db[g].nbrOfArticles < MaxId,
         db' = [db EXCEPT ![g] = AddArticle(@, title, author, text)],
         NEW call, answer' = Answer(call, ANS_ACK, <<>>),
         UNCHANGED <<newsGroupCounter, history>>
  PROVE  IInv'
  <1> DEFINE ng == AddArticle(db[g], title, author, text)
             new == db[g].nbrOfArticles + 1
             art == [title |-> title, articleId |-> db[g].nbrOfArticles,
                     author |-> author, text |-> text]
  <1>1. IsNewsgroup(db[g])
    BY DEF IInv, TypeOK
  <1>2. new \in Issuable /\ new \in Ids /\ new \notin DOMAIN db[g].articles
    BY <1>1, MaxIdAssumption DEF IInv, CountersAhead, IsNewsgroup, Issuable, Ids
  <1>3. /\ DOMAIN Put(db[g].articles, new, art)
               = DOMAIN db[g].articles \cup {new}
        /\ Put(db[g].articles, new, art)
              \in [DOMAIN Put(db[g].articles, new, art) -> Article]
    <2>1. art \in Article
      BY <1>1 DEF IsNewsgroup, Article
    <2> QED
      BY <1>1, <2>1 DEF IsNewsgroup, Put
  <1>4. /\ ng.groupName = db[g].groupName
        /\ ng.nbrOfArticles = new
        /\ ng.articles = Put(db[g].articles, new, art)
        /\ IsNewsgroup(ng)
    BY <1>1, <1>2, <1>3 DEF AddArticle, IsNewsgroup
  <1>5. /\ DOMAIN db' = DOMAIN db
        /\ db'[g] = ng
        /\ \A h \in DOMAIN db : h # g => db'[h] = db[h]
        /\ db' = [h \in DOMAIN db' |-> db'[h]]
    BY DEF IInv, TypeOK
  <1> HIDE DEF ng, new, art
  <1>6. TypeOK'
    BY <1>4, <1>5 DEF IInv, TypeOK, Answer, history, IsNewsgroup
  <1>7. NamesUnique'
    BY <1>4, <1>5 DEF IInv, NamesUnique
  <1>8. NoResurrection'
    <2>1. <<g, new>> \notin deletedArticles
      <3> SUFFICES ASSUME <<g, new>> \in deletedArticles
                   PROVE  new <= db[g].nbrOfArticles
        BY <1>1, <1>2 DEF new, IsNewsgroup, Ids
      <3> QED
        BY DEF IInv, CountersAhead
    <2> QED
      BY <1>3, <1>4, <1>5, <2>1 DEF IInv, NoResurrection, history
  <1>9. CountersAhead'
    <2>1. db[g].nbrOfArticles <= new
      BY <1>1 DEF new, IsNewsgroup, Ids
    <2>2. \A h \in DOMAIN db' \cup deletedGroups' : h <= newsGroupCounter'
      BY <1>5 DEF IInv, CountersAhead, history
    <2>3. \A h \in DOMAIN db' : \A a \in DOMAIN db'[h].articles :
            a <= db'[h].nbrOfArticles
      BY <1>1, <1>2, <1>3, <1>4, <1>5
      DEF IInv, CountersAhead, new, IsNewsgroup, Issuable, Ids
    <2>4. ASSUME NEW p \in deletedArticles'
          PROVE  /\ p[1] <= newsGroupCounter'
                 /\ p[1] \in DOMAIN db' => p[2] <= db'[p[1]].nbrOfArticles
      BY <1>1, <1>4, <1>5
      DEF IInv, TypeOK, CountersAhead, history, new, IsNewsgroup, Issuable, Ids
    <2> QED
      BY <2>2, <2>3, <2>4 DEF CountersAhead
  <1> QED
    BY <1>6, <1>7, <1>8, <1>9 DEF IInv

\* deleteArticle of an article that is there.
LEMMA DeleteArticleIInv ==
  ASSUME IInv, NEW g \in DOMAIN db, NEW a \in DOMAIN db[g].articles,
         db' = [db EXCEPT ![g].articles = Erase(@, a)],
         answer' = Answer(<<"deleteArticle", g, a>>, ANS_ACK, <<>>),
         deletedArticles' = deletedArticles \cup {<<g, a>>},
         UNCHANGED <<newsGroupCounter, deletedGroups>>
  PROVE  IInv'
  <1> DEFINE arts == Erase(db[g].articles, a)
             ng == [db[g] EXCEPT !.articles = arts]
  <1>1. IsNewsgroup(db[g])
    BY DEF IInv, TypeOK
  <1>2. DOMAIN arts = DOMAIN db[g].articles \ {a}
    BY EraseMap
  <1>3. arts \in [DOMAIN arts -> Article]
    BY <1>1 DEF IsNewsgroup, Erase, Restrict
  <1> HIDE DEF arts
  <1>4. /\ ng.groupName = db[g].groupName
        /\ ng.nbrOfArticles = db[g].nbrOfArticles
        /\ ng.articles = arts
        /\ IsNewsgroup(ng)
    BY <1>1, <1>2, <1>3 DEF IsNewsgroup
  <1>5. /\ DOMAIN db' = DOMAIN db
        /\ db'[g] = ng
        /\ \A h \in DOMAIN db : h # g => db'[h] = db[h]
        /\ db' = [h \in DOMAIN db' |-> db'[h]]
    BY DEF IInv, TypeOK, arts
  <1> HIDE DEF ng
  <1>6. g \in Issuable /\ a \in Issuable /\ g <= newsGroupCounter
        /\ a <= db[g].nbrOfArticles
    BY <1>1 DEF IInv, TypeOK, CountersAhead, IsNewsgroup
  <1>7. TypeOK'
    BY <1>4, <1>5, <1>6 DEF IInv, TypeOK, Answer, IsNewsgroup
  <1>8. NamesUnique'
    BY <1>4, <1>5 DEF IInv, NamesUnique
  <1>9. NoResurrection'
    BY <1>2, <1>4, <1>5 DEF IInv, NoResurrection
  <1>10. CountersAhead'
    <2>1. \A h \in DOMAIN db' \cup deletedGroups' : h <= newsGroupCounter'
      BY <1>5 DEF IInv, CountersAhead
    <2>2. \A h \in DOMAIN db' : \A b \in DOMAIN db'[h].articles :
            b <= db'[h].nbrOfArticles
      BY <1>2, <1>4, <1>5 DEF IInv, CountersAhead
    <2>3. ASSUME NEW p \in deletedArticles'
          PROVE  /\ p[1] <= newsGroupCounter'
                 /\ p[1] \in DOMAIN db' => p[2] <= db'[p[1]].nbrOfArticles
      BY <1>4, <1>5, <1>6 DEF IInv, CountersAhead
    <2> QED
      BY <2>1, <2>2, <2>3 DEF CountersAhead
  <1> QED
    BY <1>7, <1>8, <1>9, <1>10 DEF IInv

LEMMA InitIInv == Init => IInv
  BY MaxIdAssumption
  DEF Init, IInv, TypeOK, IsNewsgroup, NamesUnique, NoResurrection,
      CountersAhead, EmptyMap, Answer, Issuable, Ids

LEMMA NextIInv == IInv /\ [Next]_vars => IInv'
  <1> SUFFICES ASSUME IInv, [Next]_vars
               PROVE  IInv'
    OBVIOUS
  <1>1. CASE ListNewsGroups
    BY <1>1, ReturnsIInv DEF ListNewsGroups
  <1>2. ASSUME NEW t \in Titles, CreateNewsGroup(t)
        PROVE  IInv'
    <2>1. CASE NameTaken(t)
      BY <1>2, <2>1, ReturnsIInv DEF CreateNewsGroup
    <2>2. CASE ~NameTaken(t)
      BY <1>2, <2>2, CreateNewsGroupIInv DEF CreateNewsGroup
    <2> QED
      BY <2>1, <2>2
  <1>3. ASSUME NEW g \in Ids, DeleteNewsGroup(g)
        PROVE  IInv'
    BY <1>3, ReturnsIInv, DeleteNewsGroupIInv DEF DeleteNewsGroup
  <1>4. ASSUME NEW g \in Ids, ListArticles(g)
        PROVE  IInv'
    BY <1>4, ReturnsIInv DEF ListArticles
  <1>5. ASSUME NEW g \in Ids, NEW t \in Titles, NEW au \in Authors,
               NEW tx \in Texts, CreateArticle(g, t, au, tx)
        PROVE  IInv'
    BY <1>5, ReturnsIInv, CreateArticleIInv DEF CreateArticle
  <1>6. ASSUME NEW g \in Ids, NEW a \in Ids, DeleteArticle(g, a)
        PROVE  IInv'
    BY <1>6, ReturnsIInv, DeleteArticleIInv DEF DeleteArticle
  <1>7. ASSUME NEW g \in Ids, NEW a \in Ids, GetNewsArticle(g, a)
        PROVE  IInv'
    BY <1>7, ReturnsIInv DEF GetNewsArticle
  <1>8. CASE UNCHANGED vars
    BY <1>8
    DEF vars, history, IInv, TypeOK, IsNewsgroup, NamesUnique,
        NoResurrection, CountersAhead
  <1> QED
    BY <1>1, <1>2, <1>3, <1>4, <1>5, <1>6, <1>7, <1>8 DEF Next

\* The store keeps its invariant through every sequence of calls, whatever
\* the titles, the authors, the texts and the bound of the counters.
THEOREM Invariance == Spec => []IInv
  BY InitIInv, NextIInv, PTL DEF Spec

\* Every value the store keeps has the shape its C++ type gives it.
THEOREM TypeCorrect == Spec => []TypeOK
  <1>1. IInv => TypeOK
    BY DEF IInv
  <1> QED
    BY Invariance, <1>1, PTL

\* createNewsGroup keeps the names of the groups pairwise different.
THEOREM UniqueNames == Spec => []NamesUnique
  <1>1. IInv => NamesUnique
    BY DEF IInv
  <1> QED
    BY Invariance, <1>1, PTL

\* The number of a deleted group or article is never handed out again.
THEOREM NumbersNotReused == Spec => []NoResurrection
  <1>1. IInv => NoResurrection
    BY DEF IInv
  <1> QED
    BY Invariance, <1>1, PTL

\* No counter is behind a number it gave out: the next number is fresh.
THEOREM CountersStayAhead == Spec => []CountersAhead
  <1>1. IInv => CountersAhead
    BY DEF IInv
  <1> QED
    BY Invariance, <1>1, PTL

-------------------------------------------------------------------------------
LEMMA NextReferencesKept == IInv /\ [Next]_vars => ReferencesKept
  <1> SUFFICES ASSUME IInv, [Next]_vars
               PROVE  ReferencesKept
    OBVIOUS
  <1>1. ASSUME UNCHANGED db
        PROVE  ReferencesKept
    BY <1>1 DEF ReferencesKept
  <1>2. ASSUME NEW t \in Titles, CreateNewsGroup(t)
        PROVE  ReferencesKept
    <2>1. newsGroupCounter + 1 \notin DOMAIN db
      BY DEF IInv, TypeOK, CountersAhead, Ids, Issuable
    <2>2. CASE UNCHANGED db
      BY <1>1, <2>2
    <2>3. ASSUME NEW ng, db' = Put(db, newsGroupCounter + 1, ng)
          PROVE  ReferencesKept
      BY <2>1, <2>3 DEF Put, ReferencesKept
    <2> QED
      BY <1>2, <2>2, <2>3 DEF CreateNewsGroup, Returns
  <1>3. ASSUME NEW g \in Ids, DeleteNewsGroup(g)
        PROVE  ReferencesKept
    <2>1. CASE UNCHANGED db
      BY <1>1, <2>1
    <2>2. CASE db' = Erase(db, g)
      BY <2>2 DEF Erase, Restrict, ReferencesKept
    <2> QED
      BY <1>3, <2>1, <2>2 DEF DeleteNewsGroup, Returns
  <1>4. ASSUME NEW g \in Ids, NEW t \in Titles, NEW au \in Authors,
               NEW tx \in Texts, CreateArticle(g, t, au, tx)
        PROVE  ReferencesKept
    <2> SUFFICES ASSUME g \in DOMAIN db,
                        db' = [db EXCEPT ![g] = AddArticle(@, t, au, tx)]
                 PROVE  ReferencesKept
      BY <1>1, <1>4 DEF CreateArticle, Returns
    <2> DEFINE new == db[g].nbrOfArticles + 1
    <2>1. IsNewsgroup(db[g])
      BY DEF IInv, TypeOK
    <2>2. new \notin DOMAIN db[g].articles
      BY <2>1 DEF IInv, CountersAhead, IsNewsgroup, Ids, Issuable
    <2>3. /\ AddArticle(db[g], t, au, tx).groupName = db[g].groupName
          /\ \A a \in DOMAIN db[g].articles :
               AddArticle(db[g], t, au, tx).articles[a] = db[g].articles[a]
      BY <2>1, <2>2 DEF AddArticle, IsNewsgroup, Put
    <2> QED
      BY <2>3 DEF ReferencesKept
  <1>5. ASSUME NEW g \in Ids, NEW a \in Ids, DeleteArticle(g, a)
        PROVE  ReferencesKept
    <2> SUFFICES ASSUME g \in DOMAIN db, a \in DOMAIN db[g].articles,
                        db' = [db EXCEPT ![g].articles = Erase(@, a)]
                 PROVE  ReferencesKept
      BY <1>1, <1>5 DEF DeleteArticle, Returns
    <2> DEFINE arts == Erase(db[g].articles, a)
    <2>1. IsNewsgroup(db[g])
      BY DEF IInv, TypeOK
    <2>2. \A b \in DOMAIN arts : arts[b] = db[g].articles[b]
      BY DEF Erase, Restrict
    <2> HIDE DEF arts
    <2>3. db' = [db EXCEPT ![g] = [db[g] EXCEPT !.articles = arts]]
      BY DEF arts
    <2> QED
      BY <2>1, <2>2, <2>3 DEF ReferencesKept, IsNewsgroup
  <1> QED
    BY <1>1, <1>2, <1>3, <1>4, <1>5
    DEF Next, ListNewsGroups, ListArticles, GetNewsArticle, Returns, vars

\* No call ever changes what the number of a surviving group or article
\* stands for.
THEOREM StableReferences == Spec => ReferencesStable
  BY Invariance, NextReferencesKept, PTL DEF Spec, ReferencesStable

-------------------------------------------------------------------------------
(***************************************************************************)
(* The store implements NewsStore.  Each method's step is the abstract     *)
(* step of the same name; the number taken from a counter is one the       *)
(* abstract store may choose, because the counter runs ahead of the        *)
(* numbers in use.                                                         *)
(***************************************************************************)
LEMMA InitRefines == Init => Store!Init
  BY DEF Init, Store!Init, Groups, Store!NoCall, Store!Answer, Answer,
         EmptyMap, Store!EmptyMap, ANS_ACK, Store!ANS_ACK

\* What the groups show of a group and of an article.
LEMMA GroupsShow ==
  /\ DOMAIN Groups = DOMAIN db
  /\ \A g \in DOMAIN db :
       /\ Groups[g].name = db[g].groupName
       /\ DOMAIN Groups[g].articles = DOMAIN db[g].articles
       /\ \A a \in DOMAIN db[g].articles :
            Groups[g].articles[a] = Shown(db[g].articles[a])
  BY DEF Groups

LEMMA ShownFields ==
  ASSUME NEW art
  PROVE  /\ Shown(art).title = art.title
         /\ Shown(art).author = art.author
         /\ Shown(art).text = art.text
  BY DEF Shown

\* The two modules list a map the same way.
LEMMA SameOrder == ASSUME NEW m PROVE InOrder(m) = Store!InOrder(m)
  BY DEF InOrder, Store!InOrder, Keys, Store!Keys, Ascending, Store!Ascending,
         Cardinality, Store!Cardinality

\* A method that only reads or refuses is a stutter on the groups.
LEMMA ReturnsRefines ==
  ASSUME NEW call, NEW code, NEW result, Returns(call, code, result)
  PROVE  /\ Groups' = Groups
         /\ answer' = Store!Answer(call, code, result)
  BY DEF Returns, Groups, Shown, Answer, Store!Answer

LEMMA CreateNewsGroupRefines ==
  ASSUME IInv, NEW t \in Titles, CreateNewsGroup(t)
  PROVE  Store!CreateNewsGroup(t)
  <1>1. NameTaken(t) <=> \E g \in DOMAIN Groups : Groups[g].name = t
    BY GroupsShow DEF NameTaken
  <1>2. CASE NameTaken(t)
    BY <1>1, <1>2, ReturnsRefines
    DEF CreateNewsGroup, Store!CreateNewsGroup, Store!Fails,
        ERR_NG_ALREADY_EXISTS, Store!ERR_NG_ALREADY_EXISTS
  <1>3. CASE ~NameTaken(t)
    <2> DEFINE new == newsGroupCounter + 1
               ng == [groupName |-> t, id |-> new, nbrOfArticles |-> 0,
                      articles |-> EmptyMap]
               shown == [name |-> t, articles |-> EmptyMap]
    <2>1. /\ db' = Put(db, new, ng)
          /\ newsGroupCounter < MaxId
          /\ answer' = Answer(<<"createNewsGroup", t>>, ANS_ACK, <<>>)
      BY <1>3 DEF CreateNewsGroup
    <2>2. new \in Ids \ DOMAIN Groups
      BY <2>1, GroupsShow, MaxIdAssumption
      DEF IInv, TypeOK, CountersAhead, Ids, Issuable
    <2>3. [a \in DOMAIN ng.articles |-> Shown(ng.articles[a])] = EmptyMap
      BY DEF EmptyMap
    <2>4. ng.groupName = t
      OBVIOUS
    <2> HIDE DEF new, ng
    <2>5. Groups' = Store!Put(Groups, new, shown)
      BY <2>1, <2>2, <2>3, <2>4 DEF Groups, Put, Store!Put
    <2> QED
      BY <1>1, <1>3, <2>1, <2>2, <2>5
      DEF Store!CreateNewsGroup, Store!Answer, Answer, ANS_ACK,
          Store!ANS_ACK, EmptyMap, Store!EmptyMap
  <1> QED
    BY <1>2, <1>3

LEMMA DeleteNewsGroupRefines ==
  ASSUME NEW g \in Ids, DeleteNewsGroup(g)
  PROVE  Store!DeleteNewsGroup(g)
  <1>1. CASE g \notin DOMAIN db
    BY <1>1, GroupsShow, ReturnsRefines
    DEF DeleteNewsGroup, Store!DeleteNewsGroup, Store!Fails,
        ERR_NG_DOES_NOT_EXIST, Store!ERR_NG_DOES_NOT_EXIST
  <1>2. CASE g \in DOMAIN db
    <2>1. /\ db' = Erase(db, g)
          /\ answer' = Answer(<<"deleteNewsGroup", g>>, ANS_ACK, <<>>)
      BY <1>2 DEF DeleteNewsGroup
    <2>2. Groups' = Store!Erase(Groups, g)
      BY <2>1 DEF Groups, Erase, Store!Erase, Restrict, Store!Restrict
    <2> QED
      BY <1>2, <2>1, <2>2, GroupsShow
      DEF Store!DeleteNewsGroup, Store!Answer, Answer, ANS_ACK, Store!ANS_ACK
  <1> QED
    BY <1>1, <1>2

LEMMA ListNewsGroupsRefines ==
  ASSUME ListNewsGroups
  PROVE  Store!ListNewsGroups
  <1>1. [g \in DOMAIN db |-> db[g].groupName]
          = [g \in DOMAIN Groups |-> Groups[g].name]
    BY GroupsShow
  <1>2. InOrder([g \in DOMAIN db |-> db[g].groupName])
          = Store!InOrder([g \in DOMAIN Groups |-> Groups[g].name])
    BY <1>1, SameOrder
  <1> QED
    BY <1>2, ReturnsRefines
    DEF ListNewsGroups, Store!ListNewsGroups, ANS_ACK, Store!ANS_ACK

LEMMA ListArticlesRefines ==
  ASSUME NEW g \in Ids, ListArticles(g)
  PROVE  Store!ListArticles(g)
  <1>1. CASE g \notin DOMAIN db
    BY <1>1, GroupsShow, ReturnsRefines
    DEF ListArticles, Store!ListArticles, Store!Fails,
        ERR_NG_DOES_NOT_EXIST, Store!ERR_NG_DOES_NOT_EXIST
  <1>2. CASE g \in DOMAIN db
    <2>1. [a \in DOMAIN db[g].articles |-> db[g].articles[a].title]
            = [a \in DOMAIN Groups[g].articles |-> Groups[g].articles[a].title]
      <3>1. /\ DOMAIN Groups[g].articles = DOMAIN db[g].articles
            /\ \A a \in DOMAIN db[g].articles :
                 Groups[g].articles[a].title = db[g].articles[a].title
        BY <1>2, GroupsShow, ShownFields
      <3> QED
        BY <3>1
    <2> QED
      BY <1>2, <2>1, GroupsShow, ReturnsRefines
      DEF ListArticles, Store!ListArticles, ANS_ACK, Store!ANS_ACK
  <1> QED
    BY <1>1, <1>2

LEMMA GetNewsArticleRefines ==
  ASSUME NEW g \in Ids, NEW a \in Ids, GetNewsArticle(g, a)
  PROVE  Store!GetNewsArticle(g, a)
  <1>1. CASE g \notin DOMAIN db
    BY <1>1, GroupsShow, ReturnsRefines
    DEF GetNewsArticle, Store!GetNewsArticle, Store!Fails,
        ERR_NG_DOES_NOT_EXIST, Store!ERR_NG_DOES_NOT_EXIST
  <1>2. CASE g \in DOMAIN db /\ a \notin DOMAIN db[g].articles
    BY <1>2, GroupsShow, ReturnsRefines
    DEF GetNewsArticle, Store!GetNewsArticle, Store!Fails,
        ERR_ART_DOES_NOT_EXIST, Store!ERR_ART_DOES_NOT_EXIST
  <1>3. CASE g \in DOMAIN db /\ a \in DOMAIN db[g].articles
    <2>1. LET art == db[g].articles[a]
          IN  Returns(<<"getNewsArticle", g, a>>, ANS_ACK,
                      <<art.title, art.author, art.text>>)
      BY <1>3 DEF GetNewsArticle
    <2>2. /\ Groups[g].articles[a].title = db[g].articles[a].title
          /\ Groups[g].articles[a].author = db[g].articles[a].author
          /\ Groups[g].articles[a].text = db[g].articles[a].text
      BY <1>3, GroupsShow, ShownFields
    <2> QED
      BY <1>3, <2>1, <2>2, GroupsShow, ReturnsRefines
      DEF Store!GetNewsArticle, ANS_ACK, Store!ANS_ACK
  <1> QED
    BY <1>1, <1>2, <1>3

LEMMA CreateArticleRefines ==
  ASSUME IInv, NEW g \in Ids, NEW t \in Titles, NEW au \in Authors,
         NEW tx \in Texts, CreateArticle(g, t, au, tx)
  PROVE  Store!CreateArticle(g, t, au, tx)
  <1>1. CASE g \notin DOMAIN db
    BY <1>1, GroupsShow, ReturnsRefines
    DEF CreateArticle, Store!CreateArticle, Store!Fails,
        ERR_NG_DOES_NOT_EXIST, Store!ERR_NG_DOES_NOT_EXIST
  <1>2. CASE g \in DOMAIN db
    <2> DEFINE new == db[g].nbrOfArticles + 1
               art == [title |-> t, author |-> au, text |-> tx]
               ng == AddArticle(db[g], t, au, tx)
    <2>1. /\ db' = [db EXCEPT ![g] = ng]
          /\ db[g].nbrOfArticles < MaxId
          /\ answer' = Answer(<<"createArticle", g, t, au, tx>>, ANS_ACK, <<>>)
      BY <1>2 DEF CreateArticle
    <2>2. IsNewsgroup(db[g])
      BY <1>2 DEF IInv, TypeOK
    <2>3. new \in Ids \ DOMAIN Groups[g].articles
      BY <1>2, <2>1, <2>2, GroupsShow, MaxIdAssumption
      DEF IInv, CountersAhead, IsNewsgroup, Ids, Issuable
    <2>4. /\ ng.groupName = db[g].groupName
          /\ [a \in DOMAIN ng.articles |-> Shown(ng.articles[a])]
               = Store!Put(Groups[g].articles, new, art)
      <3> DEFINE arts == Put(db[g].articles, new,
                             [title |-> t, articleId |-> db[g].nbrOfArticles,
                              author |-> au, text |-> tx])
      <3>1. ng.groupName = db[g].groupName /\ ng.articles = arts
        BY <2>2 DEF AddArticle, IsNewsgroup
      <3>2. /\ DOMAIN arts = DOMAIN db[g].articles \cup {new}
            /\ Shown(arts[new]) = art
            /\ \A a \in DOMAIN db[g].articles : a # new =>
                 Shown(arts[a]) = Groups[g].articles[a]
        BY <1>2, GroupsShow DEF Put, Shown
      <3> HIDE DEF arts, new, art, ng
      <3>3. DOMAIN Groups[g].articles = DOMAIN db[g].articles
        BY <1>2, GroupsShow
      <3> QED
        BY <3>1, <3>2, <3>3 DEF Store!Put
    <2> HIDE DEF new, art, ng
    <2>5. Groups' = [Groups EXCEPT ![g].articles = Store!Put(@, new, art)]
      BY <1>2, <2>1, <2>4 DEF Groups
    <2> QED
      BY <1>2, <2>1, <2>3, <2>5, GroupsShow
      DEF Store!CreateArticle, Store!Answer, Answer, ANS_ACK, Store!ANS_ACK, art
  <1> QED
    BY <1>1, <1>2

LEMMA DeleteArticleRefines ==
  ASSUME IInv, NEW g \in Ids, NEW a \in Ids, DeleteArticle(g, a)
  PROVE  Store!DeleteArticle(g, a)
  <1>1. CASE g \notin DOMAIN db
    BY <1>1, GroupsShow, ReturnsRefines
    DEF DeleteArticle, Store!DeleteArticle, Store!Fails,
        ERR_NG_DOES_NOT_EXIST, Store!ERR_NG_DOES_NOT_EXIST
  <1>2. CASE g \in DOMAIN db /\ a \notin DOMAIN db[g].articles
    BY <1>2, GroupsShow, ReturnsRefines
    DEF DeleteArticle, Store!DeleteArticle, Store!Fails,
        ERR_ART_DOES_NOT_EXIST, Store!ERR_ART_DOES_NOT_EXIST
  <1>3. CASE g \in DOMAIN db /\ a \in DOMAIN db[g].articles
    <2> DEFINE arts == Erase(db[g].articles, a)
               ng == [db[g] EXCEPT !.articles = arts]
    <2>1. /\ db' = [db EXCEPT ![g] = ng]
          /\ answer' = Answer(<<"deleteArticle", g, a>>, ANS_ACK, <<>>)
      BY <1>3 DEF DeleteArticle
    <2>2. ng.groupName = db[g].groupName /\ ng.articles = arts
      BY <1>3 DEF IInv, TypeOK, IsNewsgroup
    <2>3. [b \in DOMAIN arts |-> Shown(arts[b])]
            = Store!Erase(Groups[g].articles, a)
      BY <1>3, GroupsShow DEF Erase, Store!Erase, Restrict, Store!Restrict
    <2> HIDE DEF arts, ng
    <2>4. Groups' = [Groups EXCEPT ![g].articles = Store!Erase(@, a)]
      BY <1>3, <2>1, <2>2, <2>3 DEF Groups
    <2> QED
      BY <1>3, <2>1, <2>4, GroupsShow
      DEF Store!DeleteArticle, Store!Answer, Answer, ANS_ACK, Store!ANS_ACK
  <1> QED
    BY <1>1, <1>2, <1>3

LEMMA NextRefines == IInv /\ [Next]_vars => [Store!Next]_(Store!vars)
  <1> SUFFICES ASSUME IInv, [Next]_vars
               PROVE  [Store!Next]_(Store!vars)
    OBVIOUS
  <1>1. CASE UNCHANGED vars
    BY <1>1 DEF vars, Store!vars, Groups, Shown
  <1>2. CASE Next
    BY <1>2, ListNewsGroupsRefines, CreateNewsGroupRefines,
       DeleteNewsGroupRefines, ListArticlesRefines, CreateArticleRefines,
       DeleteArticleRefines, GetNewsArticleRefines
    DEF Next, Store!Next
  <1> QED
    BY <1>1, <1>2

\* Every behaviour of the store is one dbinterface.h promises: each call does
\* to the groups exactly what it names, and answers accordingly.
THEOREM Refinement == Spec => ImplementsNewsStore
  BY Invariance, InitRefines, NextRefines, PTL
  DEF Spec, ImplementsNewsStore, Store!Spec

===============================================================================
