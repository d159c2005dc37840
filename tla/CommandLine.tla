----------------------------- MODULE CommandLine -----------------------------
(***************************************************************************)
(* How news_client.cc takes a line apart: readCommandParameters and the    *)
(* numbers main makes of some parameters.                                  *)
(*                                                                         *)
(* A word, what ss >> p reads, is known by whether it starts and ends with *)
(* a double quote, and by its text with and without its quotes.  A lone    *)
(* quote both starts and ends with one.  A parameter is the sequence of    *)
(* the texts it was put together from, with single blanks between them: of *)
(* a run of blanks in the line, in quotes too, the code keeps one, so what *)
(* this module calls the same parameter is the same but for such runs.     *)
(* A text may hold quotes of its own.                                      *)
(***************************************************************************)
EXTENDS Integers, SequencesExt

CONSTANTS
  Numerals,   \* texts std::stoi reads as a number -> that number
  TooLarge,   \* texts std::stoi reads as a number that is no int
  Stripped    \* texts with quotes in them -> the same without

ASSUME TextsAssumption == TooLarge \cap DOMAIN Numerals = {}

Sequence(s) == Len(s) \in Nat /\ s = [i \in 1..Len(s) |-> s[i]]

Word(open, close, text) ==
  [open |-> open, close |-> close, text |-> text]

LoneQuote == Word(TRUE, TRUE, "")

\* The words that can end the argument that starts at word i.
Closing(words, i) == {j \in i..Len(words) : words[j].close}

\* A mutant of Argument: the words after the first are left out.
ArgumentFirstWord(words, i, j) == <<words[i].text>>

Erased(text) == IF text \in DOMAIN Stripped THEN Stripped[text] ELSE text

\* All quotes are erased from an argument that started with one.
Argument(words, i, j) ==
  [k \in 1..(j - i + 1) |-> Erased(words[i + k - 1].text)]

\* A word that does not start with a quote is an argument as it stands.
Unquoted(w) == <<IF w.close THEN w.text \o "\"" ELSE w.text>>

\* The texts a word may become part of an argument as.
TextsOf(w) == {Erased(w.text)} \cup IF w.open THEN {} ELSE {Unquoted(w)[1]}

\* The loop that looks for an argument's last word does not stop at the end
\* of the line.
Unclosed(words) ==
  LET runsOff[i \in 1..(Len(words) + 1)] ==
        /\ i <= Len(words)
        /\ IF ~words[i].open THEN runsOff[i + 1]
           ELSE Closing(words, i) # {} => runsOff[Min(Closing(words, i)) + 1]
  IN  runsOff[1]

\* The word that ends the argument that starts at word i, if one does.
Ending(words, i) == Min(Closing(words, i) \cup {Len(words)})

\* What the line's words are read as, when every argument ends.
Parameters(words) ==
  LET from[i \in 1..(Len(words) + 1)] ==
        IF i > Len(words) THEN <<>>
        ELSE IF ~words[i].open
             THEN <<Unquoted(words[i])>> \o from[i + 1]
             ELSE LET j == Ending(words, i)
                  IN  <<Argument(words, i, j)>> \o from[j + 1]
  IN  from[1]

-------------------------------------------------------------------------------
(* How the user is told to type the parameters: each by itself, or its      *)
(* words between quotes.                                                    *)

Bare(text) == [quoted |-> FALSE, texts |-> <<text>>]
Quoted(texts) == [quoted |-> TRUE, texts |-> texts]

\* The words of an argument, the first one with the opening quote, the last
\* one with the closing one.
Written(argument) ==
  [k \in DOMAIN argument.texts |->
     Word(argument.quoted /\ k = 1, argument.quoted /\ k = Len(argument.texts),
          argument.texts[k])]

\* What the user means by it: quotes are no part of a text between quotes.
Intended(argument) ==
  IF argument.quoted
  THEN [k \in DOMAIN argument.texts |-> Erased(argument.texts[k])]
  ELSE argument.texts

-------------------------------------------------------------------------------
(* The commands, by the method they ask for. *)

\* How many parameters a command takes, and how many of them, the first ones,
\* are numbers.
ParameterCount ==
  [createNewsGroup |-> 1, deleteNewsGroup |-> 1, listArticles |-> 1,
   createArticle |-> 4, deleteArticle |-> 2, getNewsArticle |-> 2]
NumberCount ==
  [createNewsGroup |-> 0, deleteNewsGroup |-> 1, listArticles |-> 1,
   createArticle |-> 1, deleteArticle |-> 2, getNewsArticle |-> 2]

\* list -ng takes no parameters and does not look whether there are any.
TakesParameters(command) == command \in DOMAIN ParameterCount

\* An invalid_argument is reported as what it is; stoi's out_of_range, a
\* logic_error, as if the server had broken the protocol.
Complaint(text) ==
  CASE text \in DOMAIN Numerals -> "none"
    [] text \in TooLarge -> "protocol failure"
    [] OTHER -> "invalid"

\* What the user may be told in place of the command: the numbers are made in
\* any order, and the first that fails is the one reported.
Complaints(command, params) ==
  IF Len(params) # ParameterCount[command] THEN {"invalid"}
  ELSE {Complaint(params[i][1]) : i \in 1..NumberCount[command]} \ {"none"}

\* The method and its arguments.
Call(command, params) ==
  <<command>> \o
    [i \in 1..ParameterCount[command] |->
       IF i <= NumberCount[command] THEN Numerals[params[i][1]] ELSE params[i]]

===============================================================================
