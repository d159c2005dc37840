------------------------------ MODULE MCDbOnDisk ------------------------------
(***************************************************************************)
(* Names, titles and texts for the runs of DbOnDisk.                       *)
(***************************************************************************)
EXTENDS DbOnDisk

Line(w) == [blanks |-> 0, words |-> <<w>>]

Sports == Line("sports")
RedBull == [blanks |-> 0, words |-> <<"red", "bull">>]
Red == Line("red")
EitherOr == Line("either/or")

\* The word of EitherOr no file name can contain.
MCPathWords == {"either/or"}

\* One name is the first word of the other.
PlainNames == {Red, RedBull}
OneName == {Sports}
PlainTitles == {Red}
TwoWordTitles == {RedBull}
PathTitles == {EitherOr}

OneAuthor == {<<"martin">>}
LongText == {<<"first line", "", "third line">>}
===============================================================================
