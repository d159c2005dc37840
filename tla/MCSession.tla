------------------------------ MODULE MCSession ------------------------------
(***************************************************************************)
(* The lines a user types in the runs of Session.                          *)
(***************************************************************************)
EXTENDS Session

MCNumerals == ("1" :> 1) @@ ("2" :> 2) @@ ("258" :> 258) @@ ("-1" :> -1)

\* Words of chosen lengths stand for all others: a listing breaks a name
\* after 34 characters and a text after 50; a title fits up to 56 and an author
\* up to 46.
MCWordLength ==
  ("" :> 0) @@ ("1" :> 1) @@ ("-1" :> 2) @@ ("258" :> 3) @@
  ("3000000000" :> 10) @@ ("sports" :> 6) @@ ("sports\"" :> 7) @@
  ("s\"s" :> 3) @@ ("ss" :> 2) @@ ("w27" :> 27) @@ ("w50" :> 50) @@
  ("w56" :> 56) @@ ("w57" :> 57) @@ ("w71" :> 71) @@ ("w100" :> 100) @@
  ("w27\"" :> 28) @@ ("w100\"" :> 101)

MCTooLarge == {"3000000000"}
MCStripped == "s\"s" :> "ss"

\* A line typed the way the help says, and one that is not.
Line(command, arguments) ==
  [command |-> command,
   words |-> FlattenSeq([i \in DOMAIN arguments |-> Written(arguments[i])]),
   arguments |-> arguments]
Misquoted(command, words) ==
  [command |-> command, words |-> words, arguments |-> <<>>]

TwoWords == <<"sports", "w27">>
Title == <<"w56">>
Text == <<"sports", "w100">>
Inner == <<"s\"s", "w27">>
Empty == <<"">>

GoodLines ==
  {Line("listNewsGroups", <<>>),
   Line("createNewsGroup", <<Bare("sports")>>),
   Line("createNewsGroup", <<Quoted(TwoWords)>>),
   Line("deleteNewsGroup", <<Bare("1")>>),
   Line("listArticles", <<Bare("1")>>),
   Line("createArticle",
        <<Bare("1"), Quoted(Title), Bare("sports"), Quoted(Text)>>),
   Line("deleteArticle", <<Bare("1"), Quoted(<<"1">>)>>),
   Line("getNewsArticle", <<Bare("1"), Bare("1")>>)}

\* An empty text, a text of one full row, a name, a title and an author no row
\* has room for, quotes inside a word, numbers that take all four bytes.
EdgeLines ==
  {Line("createNewsGroup", <<Bare("w71")>>),
   Line("createArticle",
        <<Bare("1"), Bare("w57"), Bare("sports"), Quoted(Empty)>>),
   Line("createArticle",
        <<Bare("1"), Bare("sports"), Quoted(Empty), Bare("w50")>>),
   Line("createArticle",
        <<Bare("1"), Bare("sports"), Bare("w50"), Quoted(Empty)>>),
   Line("createNewsGroup", <<Bare("s\"s")>>),
   Line("createNewsGroup", <<Quoted(Inner)>>),
   Line("getNewsArticle", <<Bare("1"), Bare("258")>>),
   Line("deleteNewsGroup", <<Bare("-1")>>)}

\* No command, a parameter too few, one that is no number, one that is no int,
\* both of these, a quote that is not closed, a blank after an opening quote.
BadLines ==
  {Line("help", <<>>),
   Line("deleteArticle", <<Bare("1")>>),
   Line("listArticles", <<Bare("sports")>>),
   Line("deleteNewsGroup", <<Bare("3000000000")>>),
   Line("getNewsArticle", <<Bare("sports"), Bare("3000000000")>>),
   Misquoted("createNewsGroup",
             <<Word(TRUE, FALSE, "sports"), Word(FALSE, FALSE, "w27")>>),
   Misquoted("createNewsGroup", <<LoneQuote, Word(FALSE, TRUE, "sports")>>)}

AllLines == GoodLines \cup EdgeLines \cup BadLines

\* The hypothesis of Client_proofs!CommandsTypedAsTold.
ASSUME LinesAsTold == \A typed \in AllLines : Accepted(typed) => AsTold(typed)

-------------------------------------------------------------------------------
(* The tokens of Session come off the wire one by one as they went on it:   *)
(* Wire_proofs proves this of all strings and numbers.                      *)

Bytes == BoundedSeq({0, PAR_NUM, 255}, 3)

ASSUME StringsAreFramed ==
  \A s, rest \in Bytes :
    RecvStringParameter(SendStringParameter(s) \o rest)
      = [value |-> s, rest |-> rest]

ASSUME NumbersAreFramed ==
  \A n \in {-256, -1, 0, 255, 256, 2147483647}, rest \in Bytes :
    RecvIntParameter(SendIntParameter(n) \o rest) = [value |-> n, rest |-> rest]
===============================================================================
