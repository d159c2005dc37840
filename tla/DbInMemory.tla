------------------------------ MODULE DbInMemory ------------------------------
(***************************************************************************)
(* The in-memory news store: dbinmemory.cc, and the Newsgroup and Article  *)
(* objects it keeps (newsgroup.cc, article.h).  One action per method of   *)
(* dbinterface; every method runs to completion before the server takes    *)
(* its next request, so each is one step.                                  *)
(***************************************************************************)
EXTENDS OrderedMap, Protocol

CONSTANTS
  Titles,     \* names of groups and titles of articles
  Authors,
  Texts,
  MaxId       \* bound of the two int counters (INT_MAX in the code)

ASSUME MaxIdAssumption == MaxId \in Nat \ {0}

VARIABLES
  db,                 \* std::map<int, Newsgroup>
  newsGroupCounter,   \* the number given out last
  answer,             \* the last call, and what it returned
  deletedGroups,      \* history: the numbers of the groups deleted so far
  deletedArticles     \* history: <<group, article>> deleted from a live group

vars == <<db, newsGroupCounter, answer, deletedGroups, deletedArticles>>
history == <<deletedGroups, deletedArticles>>

\* Numbers a store hands out, and numbers a client may ask for (0 is stale).
Issuable == 1..MaxId
Ids == 0..MaxId

Article == [title : Titles, articleId : Ids, author : Authors, text : Texts]

\* Newsgroup's members (newsgroup.h).
IsNewsgroup(ng) ==
  /\ DOMAIN ng.articles \subseteq Issuable
  /\ ng \in [groupName : Titles, id : Issuable, nbrOfArticles : Ids,
             articles : [DOMAIN ng.articles -> Article]]

Answer(call, code, result) ==
  [call |-> call, code |-> code, result |-> result]

\* A call that returns a code and touches nothing.
Returns(call, code, result) ==
  /\ answer' = Answer(call, code, result)
  /\ UNCHANGED <<db, newsGroupCounter, history>>

Init ==
  /\ db = EmptyMap
  /\ newsGroupCounter = 0
  /\ answer = Answer(<<"none">>, ANS_ACK, <<>>)
  /\ deletedGroups = {}
  /\ deletedArticles = {}

-------------------------------------------------------------------------------
ListNewsGroups ==
  Returns(<<"listNewsGroups">>, ANS_ACK,
          InOrder([g \in DOMAIN db |-> db[g].groupName]))

\* A mutant of NameTaken: the search is left out.
NameTakenUnchecked(title) == FALSE

\* find_if over all groups: the new name is refused when any group has it.
NameTaken(title) == \E g \in DOMAIN db : db[g].groupName = title

CreateNewsGroup(title) ==
  LET call == <<"createNewsGroup", title>>
      new == newsGroupCounter + 1
      ng == [groupName |-> title, id |-> new, nbrOfArticles |-> 0,
             articles |-> EmptyMap]
  IN  \/ /\ NameTaken(title)
         /\ Returns(call, ERR_NG_ALREADY_EXISTS, <<>>)
      \/ /\ ~NameTaken(title)
         /\ newsGroupCounter < MaxId
         /\ newsGroupCounter' = new
         /\ db' = Put(db, new, ng)
         /\ answer' = Answer(call, ANS_ACK, <<>>)
         /\ UNCHANGED history

DeleteNewsGroup(g) ==
  LET call == <<"deleteNewsGroup", g>>
  IN  \/ /\ g \notin DOMAIN db
         /\ Returns(call, ERR_NG_DOES_NOT_EXIST, <<>>)
      \/ /\ g \in DOMAIN db
         /\ db' = Erase(db, g)
         /\ answer' = Answer(call, ANS_ACK, <<>>)
         /\ deletedGroups' = deletedGroups \cup {g}
         /\ UNCHANGED <<newsGroupCounter, deletedArticles>>

ListArticles(g) ==
  LET call == <<"listArticles", g>>
  IN  \/ /\ g \notin DOMAIN db
         /\ Returns(call, ERR_NG_DOES_NOT_EXIST, <<>>)
      \/ /\ g \in DOMAIN db
         /\ LET arts == db[g].articles
            IN  Returns(call, ANS_ACK,
                        [a \in DOMAIN arts |-> arts[a].title])

\* Mutants of AddArticle: the map key is the counter's old value; the number is
\* the size of the map plus one; the counter is not kept; author and text
\* change places.
AddArticlePostIncrement(ng, title, author, text) ==
  LET art == [title |-> title, articleId |-> ng.nbrOfArticles,
              author |-> author, text |-> text]
  IN  [ng EXCEPT !.nbrOfArticles = @ + 1,
                 !.articles = Put(@, ng.nbrOfArticles, art)]

AddArticleBySize(ng, title, author, text) ==
  LET art == [title |-> title, articleId |-> ng.nbrOfArticles,
              author |-> author, text |-> text]
  IN  [ng EXCEPT !.articles = Put(@, Cardinality(DOMAIN @) + 1, art)]

AddArticleUncounted(ng, title, author, text) ==
  LET art == [title |-> title, articleId |-> ng.nbrOfArticles,
              author |-> author, text |-> text]
  IN  [ng EXCEPT !.articles = Put(@, ng.nbrOfArticles + 1, art)]

AddArticleSwapped(ng, title, author, text) ==
  LET art == [title |-> title, articleId |-> ng.nbrOfArticles,
              author |-> text, text |-> author]
  IN  [ng EXCEPT !.nbrOfArticles = @ + 1,
                 !.articles = Put(@, ng.nbrOfArticles + 1, art)]

\* Newsgroup::addArticle: the Article is built with the counter's old value,
\* the map key is its new one.
AddArticle(ng, title, author, text) ==
  LET art == [title |-> title, articleId |-> ng.nbrOfArticles,
              author |-> author, text |-> text]
  IN  [ng EXCEPT !.nbrOfArticles = @ + 1,
                 !.articles = Put(@, ng.nbrOfArticles + 1, art)]

CreateArticle(g, title, author, text) ==
  LET call == <<"createArticle", g, title, author, text>>
  IN  \/ /\ g \notin DOMAIN db
         /\ Returns(call, ERR_NG_DOES_NOT_EXIST, <<>>)
      \/ /\ g \in DOMAIN db
         /\ db[g].nbrOfArticles < MaxId
         /\ db' = [db EXCEPT ![g] = AddArticle(@, title, author, text)]
         /\ answer' = Answer(call, ANS_ACK, <<>>)
         /\ UNCHANGED <<newsGroupCounter, history>>

DeleteArticle(g, a) ==
  LET call == <<"deleteArticle", g, a>>
  IN  \/ /\ g \notin DOMAIN db
         /\ Returns(call, ERR_NG_DOES_NOT_EXIST, <<>>)
      \/ /\ g \in DOMAIN db
         /\ a \notin DOMAIN db[g].articles
         /\ Returns(call, ERR_ART_DOES_NOT_EXIST, <<>>)
      \/ /\ g \in DOMAIN db
         /\ a \in DOMAIN db[g].articles
         /\ db' = [db EXCEPT ![g].articles = Erase(@, a)]
         /\ answer' = Answer(call, ANS_ACK, <<>>)
         /\ deletedArticles' = deletedArticles \cup {<<g, a>>}
         /\ UNCHANGED <<newsGroupCounter, deletedGroups>>

GetNewsArticle(g, a) ==
  LET call == <<"getNewsArticle", g, a>>
  IN  \/ /\ g \notin DOMAIN db
         /\ Returns(call, ERR_NG_DOES_NOT_EXIST, <<>>)
      \/ /\ g \in DOMAIN db
         /\ a \notin DOMAIN db[g].articles
         /\ Returns(call, ERR_ART_DOES_NOT_EXIST, <<>>)
      \/ /\ g \in DOMAIN db
         /\ a \in DOMAIN db[g].articles
         /\ LET art == db[g].articles[a]
            IN  Returns(call, ANS_ACK, <<art.title, art.author, art.text>>)

Next ==
  \/ ListNewsGroups
  \/ \E t \in Titles : CreateNewsGroup(t)
  \/ \E g \in Ids : DeleteNewsGroup(g) \/ ListArticles(g)
  \/ \E g \in Ids, t \in Titles, au \in Authors, tx \in Texts :
       CreateArticle(g, t, au, tx)
  \/ \E g, a \in Ids : DeleteArticle(g, a) \/ GetNewsArticle(g, a)

Spec == Init /\ [][Next]_vars

-------------------------------------------------------------------------------
\* Every value the store keeps has the shape its C++ type gives it.
TypeOK ==
  /\ DOMAIN db \subseteq Issuable
  /\ db = [g \in DOMAIN db |-> db[g]]
  /\ \A g \in DOMAIN db : IsNewsgroup(db[g])
  /\ newsGroupCounter \in Ids
  /\ answer.code \in {ANS_ACK, ERR_NG_ALREADY_EXISTS,
                      ERR_NG_DOES_NOT_EXIST, ERR_ART_DOES_NOT_EXIST}
  /\ deletedGroups \subseteq Issuable
  /\ deletedArticles \subseteq Issuable \X Issuable

\* No two groups ever have the same name, however groups come and go: the
\* check of createNewsGroup and the insertion after it keep names unique.
NamesUnique ==
  \A g, h \in DOMAIN db : db[g].groupName = db[h].groupName => g = h

\* The number of a deleted group or article is never handed out again, so a
\* number a client has seen in a listing means that one thing or nothing.
NoResurrection ==
  /\ DOMAIN db \cap deletedGroups = {}
  /\ \A g \in DOMAIN db, a \in Issuable :
       a \in DOMAIN db[g].articles => <<g, a>> \notin deletedArticles

\* The counters run ahead of every number ever given out, live or deleted:
\* what createNewsGroup and addArticle rely on when they take the next one.
CountersAhead ==
  /\ \A g \in DOMAIN db \cup deletedGroups : g <= newsGroupCounter
  /\ \A g \in DOMAIN db : \A a \in DOMAIN db[g].articles :
       a <= db[g].nbrOfArticles
  /\ \A p \in deletedArticles :
       /\ p[1] <= newsGroupCounter
       /\ p[1] \in DOMAIN db => p[2] <= db[p[1]].nbrOfArticles

\* The strengthening of the invariants above that is inductive.
IInv == TypeOK /\ NamesUnique /\ NoResurrection /\ CountersAhead

\* While a group or an article stays in the store, no call made on another
\* one, or on itself, changes what its number stands for.
ReferencesKept ==
  \A g \in DOMAIN db \cap DOMAIN db' :
    /\ db'[g].groupName = db[g].groupName
    /\ \A a \in DOMAIN db[g].articles \cap DOMAIN db'[g].articles :
         db'[g].articles[a] = db[g].articles[a]

\* Every step keeps the references clients hold.
ReferencesStable == [][ReferencesKept]_vars

\* The groups as dbinterface.h shows them: without the counters.
Shown(art) == [title |-> art.title, author |-> art.author, text |-> art.text]
Groups ==
  [g \in DOMAIN db |->
     [name |-> db[g].groupName,
      articles |-> [a \in DOMAIN db[g].articles |-> Shown(db[g].articles[a])]]]

Store == INSTANCE NewsStore WITH groups <- Groups

\* Every call does to the groups, and answers, what the interface promises.
ImplementsNewsStore == Store!Spec

===============================================================================
