----------------------------- MODULE MCNewsServer -----------------------------
(***************************************************************************)
(* Requests for the runs of NewsServer.                                   *)
(***************************************************************************)
EXTENDS NewsServer

CONSTANTS t1, au, tx

GroupRequests ==
  {<<"listNewsGroups">>, <<"createNewsGroup", t1>>, <<"deleteNewsGroup", 1>>}

AllRequests ==
  GroupRequests \cup
    {<<"listArticles", 1>>, <<"createArticle", 1, t1, au, tx>>,
     <<"deleteArticle", 1, 1>>, <<"getNewsArticle", 1, 1>>}

\* No client is treated other than the others but for the order they come in.
ClientSymmetry == Permutations(Clients)

OneRequest == {<<"listNewsGroups">>}
===============================================================================
