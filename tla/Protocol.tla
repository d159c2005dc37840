------------------------------- MODULE Protocol -------------------------------
(***************************************************************************)
(* The codes of protocol.h that the news stores return and that the server *)
(* and its clients exchange.                                               *)
(***************************************************************************)

\* The command that asks for each method of dbinterface.
CommandCode ==
  [listNewsGroups  |-> 1,   createNewsGroup |-> 2,   deleteNewsGroup |-> 3,
   listArticles    |-> 4,   createArticle   |-> 5,   deleteArticle   |-> 6,
   getNewsArticle  |-> 7]

COM_END == 8                    \* ends every command

\* Which answer each command gets, by the method of dbinterface it calls.
AnswerCode ==
  [listNewsGroups  |-> 20,  createNewsGroup |-> 21,  deleteNewsGroup |-> 22,
   listArticles    |-> 23,  createArticle   |-> 24,  deleteArticle   |-> 25,
   getNewsArticle  |-> 26]

ANS_END == 27                   \* ends every answer
ANS_ACK == 28                   \* the request was carried out
ANS_NAK == 29                   \* it was not; an error code follows
PAR_STRING == 40                \* a string follows
PAR_NUM == 41                   \* a number follows
ERR_NG_ALREADY_EXISTS == 50     \* a newsgroup has that name already
ERR_NG_DOES_NOT_EXIST == 51     \* no newsgroup has that number
ERR_ART_DOES_NOT_EXIST == 52    \* the group has no article of that number

===============================================================================
