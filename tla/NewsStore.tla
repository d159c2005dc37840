------------------------------- MODULE NewsStore -------------------------------
(***************************************************************************)
(* What dbinterface.h promises, whichever store is behind it: newsgroups   *)
(* with pairwise different names, each holding numbered articles, and for  *)
(* every call one answer that agrees with the groups it was made on.  A    *)
(* call either changes exactly what it names or fails and changes nothing. *)
(*                                                                         *)
(* Which number a new group or article gets is left open: it is any number *)
(* not in use.  Both stores are shown to implement this module.            *)
(***************************************************************************)
EXTENDS OrderedMap, Protocol

CONSTANTS
  Titles,     \* names of groups and titles of articles
  Authors,
  Texts,
  Ids         \* the numbers groups and articles can have

VARIABLES
  groups,     \* number of a group -> its name and its articles
  answer      \* the last call, and what it returned

vars == <<groups, answer>>

\* A returned call: result is <<>> where the call returns a code only.
Answer(call, code, result) ==
  [call |-> call, code |-> code, result |-> result]

NoCall == Answer(<<"none">>, ANS_ACK, <<>>)

Fails(call, code) ==
  /\ answer' = Answer(call, code, <<>>)
  /\ UNCHANGED groups

Init ==
  /\ groups = EmptyMap
  /\ answer = NoCall

-------------------------------------------------------------------------------
ListNewsGroups ==
  /\ answer' = Answer(<<"listNewsGroups">>, ANS_ACK,
                      InOrder([g \in DOMAIN groups |-> groups[g].name]))
  /\ UNCHANGED groups

CreateNewsGroup(title) ==
  LET call == <<"createNewsGroup", title>>
      taken == \E g \in DOMAIN groups : groups[g].name = title
  IN  \/ /\ taken
         /\ Fails(call, ERR_NG_ALREADY_EXISTS)
      \/ /\ ~taken
         /\ \E id \in Ids \ DOMAIN groups :
              groups' = Put(groups, id, [name |-> title, articles |-> EmptyMap])
         /\ answer' = Answer(call, ANS_ACK, <<>>)

DeleteNewsGroup(g) ==
  LET call == <<"deleteNewsGroup", g>>
  IN  \/ /\ g \notin DOMAIN groups
         /\ Fails(call, ERR_NG_DOES_NOT_EXIST)
      \/ /\ g \in DOMAIN groups
         /\ groups' = Erase(groups, g)
         /\ answer' = Answer(call, ANS_ACK, <<>>)

ListArticles(g) ==
  LET call == <<"listArticles", g>>
  IN  \/ /\ g \notin DOMAIN groups
         /\ Fails(call, ERR_NG_DOES_NOT_EXIST)
      \/ /\ g \in DOMAIN groups
         /\ LET arts == groups[g].articles
            IN  answer' = Answer(call, ANS_ACK,
                                 [a \in DOMAIN arts |-> arts[a].title])
         /\ UNCHANGED groups

CreateArticle(g, title, author, text) ==
  LET call == <<"createArticle", g, title, author, text>>
      art == [title |-> title, author |-> author, text |-> text]
  IN  \/ /\ g \notin DOMAIN groups
         /\ Fails(call, ERR_NG_DOES_NOT_EXIST)
      \/ /\ g \in DOMAIN groups
         /\ \E id \in Ids \ DOMAIN groups[g].articles :
              groups' = [groups EXCEPT ![g].articles = Put(@, id, art)]
         /\ answer' = Answer(call, ANS_ACK, <<>>)

DeleteArticle(g, a) ==
  LET call == <<"deleteArticle", g, a>>
  IN  \/ /\ g \notin DOMAIN groups
         /\ Fails(call, ERR_NG_DOES_NOT_EXIST)
      \/ /\ g \in DOMAIN groups
         /\ a \notin DOMAIN groups[g].articles
         /\ Fails(call, ERR_ART_DOES_NOT_EXIST)
      \/ /\ g \in DOMAIN groups
         /\ a \in DOMAIN groups[g].articles
         /\ groups' = [groups EXCEPT ![g].articles = Erase(@, a)]
         /\ answer' = Answer(call, ANS_ACK, <<>>)

GetNewsArticle(g, a) ==
  LET call == <<"getNewsArticle", g, a>>
  IN  \/ /\ g \notin DOMAIN groups
         /\ Fails(call, ERR_NG_DOES_NOT_EXIST)
      \/ /\ g \in DOMAIN groups
         /\ a \notin DOMAIN groups[g].articles
         /\ Fails(call, ERR_ART_DOES_NOT_EXIST)
      \/ /\ g \in DOMAIN groups
         /\ a \in DOMAIN groups[g].articles
         /\ LET art == groups[g].articles[a]
            IN  answer' = Answer(call, ANS_ACK,
                                 <<art.title, art.author, art.text>>)
         /\ UNCHANGED groups

\* The calls, with the arguments they take.
Calls ==
  {<<"listNewsGroups">>}
    \cup {"createNewsGroup"} \X Titles
    \cup {"deleteNewsGroup", "listArticles"} \X Ids
    \cup {"createArticle"} \X Ids \X Titles \X Authors \X Texts
    \cup {"deleteArticle", "getNewsArticle"} \X Ids \X Ids

\* A call as the server makes it for a request.
Perform(r) ==
  \/ r[1] = "listNewsGroups"  /\ ListNewsGroups
  \/ r[1] = "createNewsGroup" /\ CreateNewsGroup(r[2])
  \/ r[1] = "deleteNewsGroup" /\ DeleteNewsGroup(r[2])
  \/ r[1] = "listArticles"    /\ ListArticles(r[2])
  \/ r[1] = "createArticle"   /\ CreateArticle(r[2], r[3], r[4], r[5])
  \/ r[1] = "deleteArticle"   /\ DeleteArticle(r[2], r[3])
  \/ r[1] = "getNewsArticle"  /\ GetNewsArticle(r[2], r[3])

Next ==
  \/ ListNewsGroups
  \/ \E t \in Titles : CreateNewsGroup(t)
  \/ \E g \in Ids : DeleteNewsGroup(g) \/ ListArticles(g)
  \/ \E g \in Ids, t \in Titles, au \in Authors, tx \in Texts :
       CreateArticle(g, t, au, tx)
  \/ \E g, a \in Ids : DeleteArticle(g, a) \/ GetNewsArticle(g, a)

Spec == Init /\ [][Next]_vars

===============================================================================
