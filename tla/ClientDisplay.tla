---------------------------- MODULE ClientDisplay ----------------------------
(***************************************************************************)
(* The frames news_client.cc draws: printList and displayArticle.          *)
(*                                                                         *)
(* A row is known by its width and by how many characters of what it is    *)
(* there to show it holds.  The blanks that fill a row are counted by      *)
(* unsigned differences; one that would be negative is a number near 2^64, *)
(* or half of that, and the string of that many blanks cannot be made.     *)
(* Then the rows above are on the screen and the drawing ends.             *)
(***************************************************************************)
EXTENDS Integers, SequencesExt

CONSTANT WordLength   \* text -> number of its characters

ASSUME LengthsAssumption ==
  \A text \in DOMAIN WordLength : WordLength[text] \in Nat

\* The sum of a sequence of numbers.
Total(s) ==
  LET sum[i \in 0..Len(s)] == IF i = 0 THEN 0 ELSE sum[i - 1] + s[i]
  IN  sum[Len(s)]

\* Characters of a name: its words, and a blank between each two.
Length(name) ==
  Total([k \in DOMAIN name |-> WordLength[name[k]]]) + (Len(name) - 1)

\* Characters of to_string of an int: its sign and at most ten digits.
Digits(id) ==
  LET size == IF id < 0 THEN -id ELSE id
  IN  Cardinality({k \in 1..9 : 10^k <= size}) + (IF id < 0 THEN 2 ELSE 1)

Row(before, shown, after) == [width |-> before + shown + after, shown |-> shown]

Even(n) == n + (n % 2)

-------------------------------------------------------------------------------
ListWidth == 45

\* One entry of a listing, on a second row when it is longer than 34.
EntryRows(id, n) ==
  LET d == Digits(id)
  IN  IF n > 34
      THEN <<Row(2 + d + 4, 34, (38 - d - 34) + 1),
             Row(8, n - 34, (70 - n) + 1)>>
      ELSE <<Row(2 + d + 4, n, (38 - d - n) + 1)>>

EntryFits(id, n) ==
  /\ 38 - Digits(id) - Min({n, 34}) >= 0
  /\ n > 34 => 70 - n >= 0

\* entries: the <<number, name>> pairs of a listing; those with too long a name.
TooLongIn(entries) ==
  {i \in DOMAIN entries : ~EntryFits(entries[i][1], Length(entries[i][2]))}

ListFits(entries) == TooLongIn(entries) = {}

\* Where the drawing of a listing ends: one past the last entry, or where the
\* blanks of an entry cannot be made.
FirstTooLong(entries) ==
  Min(TooLongIn(entries) \cup {Len(entries) + 1})

ListRows(entries) ==
  FlattenSeq([i \in 1..(FirstTooLong(entries) - 1) |->
                EntryRows(entries[i][1], Length(entries[i][2]))])

-------------------------------------------------------------------------------
ArticleWidth == 61

\* n characters in the middle of a room, between what is before and after it:
\* the blanks on both sides are evened out.
Centred(before, n, room, after) ==
  LET side == (room - Even(n)) \div 2
  IN  Row(before + side, n, (Even(n) - n) + side + after)

\* The part of a text of n characters that starts at i.
Chunk(i, n) == IF i + 50 > n THEN n % 50 ELSE 50

TextRows(n) ==
  [k \in 1..((n + 49) \div 50) |-> Centred(1, Chunk((k - 1) * 50, n), 58, 2)]

TitleFits(title) == 56 - Even(Length(title)) >= 0

AuthorFits(author) == 47 - Even(Length(author)) >= 0

ArticleFits(title, author) == TitleFits(title) /\ AuthorFits(author)

TitleRow(title) == Centred(2, Length(title), 56, 3)

AuthorRow(author) == Centred(1 + 11, Length(author), 47, 3)

\* The title's row is on the screen before the author's blanks are made.
ArticleRows(title, author, text) ==
  CASE ~TitleFits(title) -> <<>>
    [] TitleFits(title) /\ ~AuthorFits(author) -> <<TitleRow(title)>>
    [] OTHER -> <<TitleRow(title), AuthorRow(author)>>
                  \o TextRows(Length(text))

===============================================================================
