------------------------------- MODULE DbOnDisk -------------------------------
(***************************************************************************)
(* The on-disk news store, dbondisk.cc, on the file system it writes to.   *)
(*                                                                         *)
(* A group is a directory "<number> <name>" of dbroot, an article a file   *)
(* "<number> <title>" in it: the author's line, then the text's lines.     *)
(* Every method finds its way by reading directories and splitting the     *)
(* entries' names again.  createArticle and deleteNewsGroup make several   *)
(* system calls; the process may be killed between any two.  Descriptors   *)
(* of directories that are opened and never closed add up until the        *)
(* process has no more.                                                    *)
(***************************************************************************)
EXTENDS OrderedMap, Protocol

CONSTANTS
  Names,      \* names of groups
  Titles,     \* titles of articles
  Authors,    \* authors and texts, each a non-empty sequence of lines
  Texts,
  PathWords,  \* the words that no file name can contain (they have a '/')
  FdLimit,    \* descriptors the process may hold for the store
  MaxGroup,   \* bound of the numbers of groups (INT_MAX in the code)
  MaxArticle  \* bound of the numbers of articles

ASSUME FdLimitAssumption == FdLimit \in Nat \ {0}
ASSUME BoundsAssumption == MaxGroup \in Nat /\ MaxArticle \in Nat \ {0}

\* Names and titles as far as the store tells them apart: how many blanks
\* they start with, and their words.
ASSUME TitleAssumption ==
  Names \cup Titles \subseteq [blanks : Nat, words : Seq(STRING)]
ASSUME LinesAssumption == Authors \cup Texts \subseteq Seq(STRING) \ {<<>>}

VARIABLES
  dbroot,            \* <<number, name>> -> (<<number, title>> -> lines)
  newsGroupCounter,  \* the number given out last
  openDirs,          \* descriptors leaked by this process
  process,           \* "up", "killed", or "crashed" (readdir of a null DIR)
  pending,           \* the call that is between two of its system calls
  answer,            \* the last call, and what it returned
  ackedGroups,       \* history: <<number, name>> acknowledged, not deleted
  ackedArticles,     \* history: articles acknowledged, not deleted
  inDoubt,           \* history: <<group, article>> whose call a kill cut off
  retired            \* history: numbers of groups this process deleted

memory == <<newsGroupCounter, openDirs, process, pending>>
history == <<ackedGroups, ackedArticles, inDoubt, retired>>
vars == <<dbroot, memory, answer, history>>

NoCall == [op |-> "none"]
EMFILE == 24

Answer(call, code, result) ==
  [call |-> call, code |-> code, result |-> result]

-------------------------------------------------------------------------------
(* Names: iss >> number; iss >> word; getline(iss, rest). *)

First(s) == SubSeq(s, 1, Min({1, Len(s)}))
Rest(s) == SubSeq(s, 2, Len(s))

\* A mutant of FirstWord: the word is left out.
NoWord(t) == [blanks |-> 0, words |-> <<>>]

\* word alone.
FirstWord(t) == [blanks |-> 0, words |-> First(t.words)]

\* word + rest: the blanks between the number and the first word are lost.
ReadBack(t) == [t EXCEPT !.blanks = 0]

\* A path with such a last component can be created.
Storable(t) == \A i \in DOMAIN t.words : t.words[i] \notin PathWords

Numbers(entries) == {e[1] : e \in entries}

\* A mutant of ByNumber: the rest of the line is not read.
ByNumberFirstWord(entries) ==
  [n \in Numbers(entries) |->
     FirstWord((CHOOSE e \in entries : e[1] = n)[2])]

\* The entries of a directory as a map from their number to their title.
ByNumber(entries) ==
  [n \in Numbers(entries) |->
     ReadBack((CHOOSE e \in entries : e[1] = n)[2])]

\* Mutants of NextArticle: the increment is left out; the number is how many
\* there are plus one; it is the least that is free.
NextArticleSame(d) == Max({0} \cup Numbers(DOMAIN dbroot[d]))
NextArticleByCount(d) == Cardinality(DOMAIN dbroot[d]) + 1
NextArticleFree(d) ==
  Min((1..NextArticleByCount(d)) \ Numbers(DOMAIN dbroot[d]))

\* One more than the greatest number in a group, from 1.
NextArticle(d) == Max({0} \cup Numbers(DOMAIN dbroot[d])) + 1

\* Mutants of LastGroup: nothing is recovered; the groups are counted.
LastGroupForgotten == -1
LastGroupByCount == Cardinality(DOMAIN dbroot) - 1

\* The greatest number of a group on disk, -1 when there is none.
LastGroup == Max({-1} \cup Numbers(DOMAIN dbroot))

\* A mutant of NextGroup: the number is taken from the disk.
NextGroupFromDisk == LastGroup + 1

NextGroup == newsGroupCounter + 1

Init ==
  /\ dbroot = EmptyMap
  /\ newsGroupCounter = -1
  /\ openDirs = 1
  /\ process = "up"
  /\ pending = NoCall
  /\ answer = Answer(<<"none">>, ANS_ACK, <<>>)
  /\ ackedGroups = {}
  /\ ackedArticles = {}
  /\ inDoubt = {}
  /\ retired = {}

-------------------------------------------------------------------------------
(* How calls start and end. *)

Idle == process = "up" /\ pending = NoCall

\* The next k opens of this call get a descriptor.
CanOpen(k) == openDirs + k <= FdLimit

Returns(call, code, result, leaked) ==
  /\ answer' = Answer(call, code, result)
  /\ openDirs' = openDirs + leaked
  /\ UNCHANGED <<dbroot, newsGroupCounter, process, pending, history>>

\* opendir failed, and its result goes to readdir all the same.
Crashes ==
  /\ process' = "crashed"
  /\ UNCHANGED <<dbroot, newsGroupCounter, openDirs, pending, answer, history>>

NoGroup(g) == g \notin Numbers(DOMAIN dbroot)

\* The group's directory is looked for under the name read back.
Reached(d) == CanOpen(2) /\ <<d[1], ReadBack(d[2])>> \in DOMAIN dbroot

\* The directory of group g once dbroot and that directory are open.
OpenedGroup(g) == {d \in DOMAIN dbroot : d[1] = g /\ Reached(d)}

\* One of the two opendir calls fails.
OpenFails(g) ==
  \/ ~CanOpen(1)
  \/ \E d \in DOMAIN dbroot : d[1] = g /\ ~Reached(d)

Articles(d, a) == {e \in DOMAIN dbroot[d] : e[1] = a}

-------------------------------------------------------------------------------
ListNewsGroups ==
  /\ Idle
  /\ \/ /\ ~CanOpen(1)
        /\ Crashes
     \/ /\ CanOpen(1)
        /\ Returns(<<"listNewsGroups">>, ANS_ACK,
                   InOrder(ByNumber(DOMAIN dbroot)), 1)

\* A mutant of NameTaken: only the first word is compared.
NameTakenFirstWord(title) == \E d \in DOMAIN dbroot : FirstWord(d[2]) = title

NameTaken(title) == \E d \in DOMAIN dbroot : ReadBack(d[2]) = title

\* What mkdir leaves: nothing new when the path cannot be created.
MakeDir(d) ==
  IF Storable(d[2]) THEN Put(dbroot, d, EmptyMap) ELSE dbroot

CreateNewsGroup(title) ==
  LET call == <<"createNewsGroup", title>>
      new == <<NextGroup, title>>
  IN  /\ Idle
      /\ \/ /\ ~CanOpen(1)
            /\ Crashes
         \/ /\ CanOpen(1)
            /\ NameTaken(title)
            /\ Returns(call, ERR_NG_ALREADY_EXISTS, <<>>, 1)
         \/ /\ CanOpen(1)
            /\ ~NameTaken(title)
            /\ newsGroupCounter < MaxGroup
            /\ newsGroupCounter' = NextGroup
            /\ dbroot' = MakeDir(new)
            /\ answer' = Answer(call, ANS_ACK, <<>>)
            /\ openDirs' = openDirs + 1
            /\ ackedGroups' = ackedGroups \cup {new}
            /\ UNCHANGED <<process, pending, ackedArticles, inDoubt, retired>>

\* The directory is opened under the name it has; its articles are listed
\* before the first is removed.
DeleteNewsGroup(g) ==
  LET call == <<"deleteNewsGroup", g>>
  IN  /\ Idle
      /\ \/ /\ ~CanOpen(1) \/ (~NoGroup(g) /\ ~CanOpen(2))
            /\ Crashes
         \/ /\ CanOpen(1)
            /\ NoGroup(g)
            /\ Returns(call, ERR_NG_DOES_NOT_EXIST, <<>>, 0)
         \/ /\ CanOpen(2)
            /\ \E d \in DOMAIN dbroot :
                 /\ d[1] = g
                 /\ pending' = [op |-> "deleteNewsGroup", dir |-> d,
                                toRemove |-> DOMAIN dbroot[d],
                                before |-> dbroot[d]]
            /\ openDirs' = openDirs + 1
            /\ ackedGroups' = {d \in ackedGroups : d[1] # g}
            /\ ackedArticles' = {r \in ackedArticles : r.group # g}
            /\ inDoubt' = {p \in inDoubt : p[1] # g}
            /\ UNCHANGED <<dbroot, newsGroupCounter, process, answer, retired>>

Deleting == process = "up" /\ pending.op = "deleteNewsGroup"

\* remove of "<number> <first word>", in whatever order readdir lists them.
RemoveArticle ==
  /\ Deleting
  /\ \E e \in pending.toRemove :
       /\ pending' = [pending EXCEPT !.toRemove = @ \ {e}]
       /\ dbroot' = [dbroot EXCEPT ![pending.dir] =
                       Erase(@, <<e[1], FirstWord(e[2])>>)]
  /\ UNCHANGED <<newsGroupCounter, openDirs, process, answer, history>>

\* remove of the directory, which fails when something is left in it.
RemoveGroup ==
  /\ Deleting
  /\ pending.toRemove = {}
  /\ \/ /\ dbroot[pending.dir] = EmptyMap
        /\ dbroot' = Erase(dbroot, pending.dir)
     \/ /\ dbroot[pending.dir] # EmptyMap
        /\ UNCHANGED dbroot
  /\ pending' = NoCall
  /\ answer' = Answer(<<"deleteNewsGroup", pending.dir[1]>>, ANS_ACK, <<>>)
  /\ retired' = retired \cup {pending.dir[1]}
  /\ UNCHANGED <<newsGroupCounter, openDirs, process,
                 ackedGroups, ackedArticles, inDoubt>>

ListArticles(g) ==
  LET call == <<"listArticles", g>>
  IN  /\ Idle
      /\ \/ /\ OpenFails(g)
            /\ Crashes
         \/ /\ CanOpen(1)
            /\ NoGroup(g)
            /\ Returns(call, ERR_NG_DOES_NOT_EXIST, <<>>, 0)
         \/ \E d \in OpenedGroup(g) :
              Returns(call, ANS_ACK, ByNumber(DOMAIN dbroot[d]), 1)

Record(d, n, title, author, text) ==
  [group |-> d[1], nbr |-> n, title |-> title, author |-> author, text |-> text]

\* Up to the opening of the new file.  When that fails the writes after it do
\* nothing, and the call is acknowledged.
CreateArticle(g, title, author, text) ==
  LET call == <<"createArticle", g, title, author, text>>
  IN  /\ Idle
      /\ \/ /\ OpenFails(g)
            /\ Crashes
         \/ /\ CanOpen(1)
            /\ NoGroup(g)
            /\ Returns(call, ERR_NG_DOES_NOT_EXIST, <<>>, 1)
         \/ \E d \in OpenedGroup(g) :
              /\ NextArticle(d) <= MaxArticle
              /\ openDirs' = openDirs + 2
              /\ \/ /\ CanOpen(3)
                    /\ Storable(title)
                    /\ dbroot' = [dbroot EXCEPT ![d] =
                                    Put(@, <<NextArticle(d), title>>, <<>>)]
                    /\ pending' = [op |-> "createArticle", call |-> call,
                                   dir |-> d, nbr |-> NextArticle(d)]
                    /\ UNCHANGED <<answer, ackedArticles>>
                 \/ /\ ~CanOpen(3) \/ ~Storable(title)
                    /\ answer' = Answer(call, ANS_ACK, <<>>)
                    /\ ackedArticles' = ackedArticles \cup
                         {Record(d, NextArticle(d), title, author, text)}
                    /\ UNCHANGED <<dbroot, pending>>
              /\ UNCHANGED <<newsGroupCounter, process,
                             ackedGroups, inDoubt, retired>>

Creating == process = "up" /\ pending.op = "createArticle"

\* outfile << lines << endl, to the file of the pending createArticle.
WriteLines(lines) ==
  dbroot' = [dbroot EXCEPT ![pending.dir][<<pending.nbr, pending.call[3]>>]
               = @ \o lines]

WriteAuthor ==
  /\ Creating
  /\ dbroot[pending.dir][<<pending.nbr, pending.call[3]>>] = <<>>
  /\ WriteLines(pending.call[4])
  /\ UNCHANGED <<memory, answer, history>>

WriteText ==
  /\ Creating
  /\ dbroot[pending.dir][<<pending.nbr, pending.call[3]>>] # <<>>
  /\ WriteLines(pending.call[5])
  /\ pending' = NoCall
  /\ answer' = Answer(pending.call, ANS_ACK, <<>>)
  /\ ackedArticles' = ackedArticles \cup
       {Record(pending.dir, pending.nbr, pending.call[3], pending.call[4],
               pending.call[5])}
  /\ UNCHANGED <<newsGroupCounter, openDirs, process,
                 ackedGroups, inDoubt, retired>>

\* The path that is removed ends in the title read back.
DeleteArticle(g, a) ==
  LET call == <<"deleteArticle", g, a>>
  IN  /\ Idle
      /\ \/ /\ ~CanOpen(1)
            /\ Returns(call, EMFILE, <<>>, 0)
         \/ /\ CanOpen(1)
            /\ OpenFails(g)
            /\ Crashes
         \/ /\ CanOpen(1)
            /\ NoGroup(g)
            /\ Returns(call, ERR_NG_DOES_NOT_EXIST, <<>>, 1)
         \/ \E d \in OpenedGroup(g) :
              \/ /\ Articles(d, a) = {}
                 /\ Returns(call, ERR_ART_DOES_NOT_EXIST, <<>>, 2)
              \/ /\ \E e \in Articles(d, a) :
                      dbroot' = [dbroot EXCEPT ![d] =
                                   Erase(@, <<a, ReadBack(e[2])>>)]
                 /\ answer' = Answer(call, ANS_ACK, <<>>)
                 /\ openDirs' = openDirs + 2
                 /\ ackedArticles' = {r \in ackedArticles :
                                        r.group # g \/ r.nbr # a}
                 /\ inDoubt' = inDoubt \ {<<g, a>>}
                 /\ UNCHANGED <<newsGroupCounter, process, pending,
                                ackedGroups, retired>>

\* getline of the first line, then of the others; an article whose file is
\* not opened, or is empty, has an empty author and text.
Contents(d, e) ==
  LET path == <<e[1], ReadBack(e[2])>>
      lines == IF CanOpen(3) /\ path \in DOMAIN dbroot[d]
               THEN dbroot[d][path] ELSE <<>>
  IN  <<ReadBack(e[2]), First(lines), Rest(lines)>>

GetNewsArticle(g, a) ==
  LET call == <<"getNewsArticle", g, a>>
  IN  /\ Idle
      /\ \/ /\ OpenFails(g)
            /\ Crashes
         \/ /\ CanOpen(1)
            /\ NoGroup(g)
            /\ Returns(call, ERR_NG_DOES_NOT_EXIST, <<>>, 1)
         \/ \E d \in OpenedGroup(g) :
              \/ /\ Articles(d, a) = {}
                 /\ Returns(call, ERR_ART_DOES_NOT_EXIST, <<>>, 2)
              \/ \E e \in Articles(d, a) :
                   Returns(call, ANS_ACK, Contents(d, e), 2)

-------------------------------------------------------------------------------
(* The process is killed, and started again: dbondisk::dbondisk(). *)

\* The articles the pending call was about to create, or to remove.
CutOff ==
  IF pending.op = "createArticle"
  THEN {<<pending.dir[1], pending.nbr>>}
  ELSE {<<pending.dir[1], e[1]>> : e \in DOMAIN dbroot[pending.dir]}

KillIdle ==
  /\ Idle
  /\ process' = "killed"
  /\ UNCHANGED <<dbroot, newsGroupCounter, openDirs, pending, answer, history>>

KillBusy ==
  /\ process = "up"
  /\ pending # NoCall
  /\ process' = "killed"
  /\ pending' = NoCall
  /\ inDoubt' = inDoubt \cup CutOff
  /\ UNCHANGED <<dbroot, newsGroupCounter, openDirs, answer,
                 ackedGroups, ackedArticles, retired>>

Restart ==
  /\ process # "up"
  /\ process' = "up"
  /\ newsGroupCounter' = LastGroup
  /\ openDirs' = 1
  /\ retired' = {}
  /\ UNCHANGED <<dbroot, pending, answer, ackedGroups, ackedArticles, inDoubt>>

-------------------------------------------------------------------------------
GroupNumbers == 0..MaxGroup
ArticleNumbers == 1..MaxArticle

Call ==
  \/ ListNewsGroups
  \/ \E t \in Names : CreateNewsGroup(t)
  \/ \E g \in GroupNumbers : DeleteNewsGroup(g) \/ ListArticles(g)
  \/ \E g \in GroupNumbers, t \in Titles, au \in Authors, tx \in Texts :
       CreateArticle(g, t, au, tx)
  \/ \E g \in GroupNumbers, a \in ArticleNumbers :
       DeleteArticle(g, a) \/ GetNewsArticle(g, a)

Continue == RemoveArticle \/ RemoveGroup \/ WriteAuthor \/ WriteText

\* A process that runs until its descriptors are used up, and may be killed
\* at any time.
Next == Call \/ Continue \/ KillIdle \/ KillBusy \/ Restart
Spec == Init /\ [][Next]_vars

\* The same with an operator who restarts the process in time.
WithinBudget == CanOpen(3)
BudgetNext ==
  \/ WithinBudget /\ Call
  \/ Continue \/ KillIdle \/ KillBusy \/ Restart
BudgetSpec == Init /\ [][BudgetNext]_vars

\* The same, stopping the process between two calls only.
OrderlyNext == (WithinBudget /\ Call) \/ Continue \/ KillIdle \/ Restart
OrderlySpec == Init /\ [][OrderlyNext]_vars

-------------------------------------------------------------------------------
File(d, n, title) == <<n, title>> \in DOMAIN dbroot[d]

DiskTypeOK ==
  /\ DOMAIN dbroot \subseteq GroupNumbers \X Names
  /\ \A d \in DOMAIN dbroot :
       /\ DOMAIN dbroot[d] \subseteq ArticleNumbers \X Titles
       /\ dbroot[d] \in [DOMAIN dbroot[d] -> Seq(STRING)]

PendingTypeOK ==
  /\ pending # NoCall => Deleting \/ Creating
  /\ Deleting =>
       pending \in [op : {"deleteNewsGroup"}, dir : DOMAIN dbroot,
                    toRemove : SUBSET (ArticleNumbers \X Titles),
                    before : {pending.before}]
  /\ Creating =>
       /\ pending \in [op : {"createArticle"}, dir : DOMAIN dbroot,
                       nbr : ArticleNumbers,
                       call : {"createArticle"} \X GroupNumbers \X Titles
                                \X Authors \X Texts]
       /\ File(pending.dir, pending.nbr, pending.call[3])

\* Values keep the shapes the declarations give them; a pending call is on a
\* directory, and a created file, that exist.
TypeOK ==
  /\ DiskTypeOK
  /\ newsGroupCounter \in GroupNumbers \cup {-1}
  /\ openDirs \in 0..FdLimit
  /\ process \in {"up", "killed", "crashed"}
  /\ PendingTypeOK

\* Across restarts, kills and failed mkdirs, no two groups share a number and
\* no two articles of a group do: what lets every method stop at the first
\* entry that matches.
UniqueNumbers ==
  /\ \A d, e \in DOMAIN dbroot : d[1] = e[1] => d = e
  /\ \A d \in DOMAIN dbroot : \A e, f \in DOMAIN dbroot[d] :
       e[1] = f[1] => e = f

\* No two groups are listed under one name: the names createNewsGroup reads
\* back from the disk are those it gave out.
NamesUnique ==
  \A d, e \in DOMAIN dbroot : ReadBack(d[2]) = ReadBack(e[2]) => d = e

\* The counter, recovered at a restart from what is on disk, is never behind
\* the number of a group on disk.
CounterAhead ==
  process = "up" => \A n \in Numbers(DOMAIN dbroot) : n <= newsGroupCounter

\* While the process lives, the number of a group it deleted stays unused.
NumbersNotReused == Numbers(DOMAIN dbroot) \cap retired = {}

\* What a client was told is stored is on disk, in full, until the client
\* asks for its deletion, whenever the process is killed and restarted.
AckedStored ==
  /\ ackedGroups \subseteq DOMAIN dbroot
  /\ \A r \in ackedArticles : \E d \in DOMAIN dbroot :
       /\ d[1] = r.group
       /\ File(d, r.nbr, r.title)
       /\ dbroot[d][<<r.nbr, r.title>>] = r.author \o r.text

\* Numbers tell the age of articles, restarts included: one that is
\* acknowledged is above all that are stored in its group, so that the only
\* numbers ever handed out again are those of articles that were the newest
\* when they were deleted, or that a kill cut off.
OnlyNewestReused ==
  [][ \A r \in ackedArticles' \ ackedArticles, q \in ackedArticles :
        q.group = r.group => q.nbr < r.nbr ]_vars

\* Nothing else is on disk: every file is an article a client was told is
\* stored, or belongs to a call that is pending or that a kill cut off.
StoredIsExplained ==
  \A d \in DOMAIN dbroot : \A e \in DOMAIN dbroot[d] :
    \/ \E r \in ackedArticles : r.group = d[1] /\ r.nbr = e[1]
    \/ <<d[1], e[1]>> \in inDoubt
    \/ pending # NoCall /\ <<d[1], e[1]>> \in CutOff

\* The process dies by itself only when it has no descriptor left for the two
\* directories a call opens; no title and no order of calls does it, nor any
\* name that does not start with a blank (NamesReadBack).  One that does is put
\* together again without its blank, and opendir finds no such directory.
CrashOnlyWhenExhausted == process = "crashed" => ~CanOpen(2)

-------------------------------------------------------------------------------
(* Inductive invariants: what every step leaves true, and the properties     *)
(* above follow from.                                                        *)

\* With any names and titles.
IInv == TypeOK /\ UniqueNumbers /\ CounterAhead

\* A group is emptied of all it holds.
EmptiesAll == Deleting => DOMAIN dbroot[pending.dir] \subseteq pending.toRemove

\* The counter is not behind the number of a deleted group either.
RetiredInv ==
  /\ EmptiesAll
  /\ retired \subseteq GroupNumbers
  /\ process = "up" => \A n \in retired : n <= newsGroupCounter
  /\ NumbersNotReused

ExplainedInv == EmptiesAll /\ StoredIsExplained

\* Nothing acknowledged is in a group that is being removed, and a file that
\* is being written is newer than all that is acknowledged.
StoredInv ==
  /\ AckedStored
  /\ Deleting =>
       /\ \A d \in ackedGroups : d[1] # pending.dir[1]
       /\ \A r \in ackedArticles : r.group # pending.dir[1]
  /\ Creating =>
       /\ dbroot[pending.dir][<<pending.nbr, pending.call[3]>>]
            \in {<<>>, pending.call[4]}
       /\ \A r \in ackedArticles :
            r.group = pending.dir[1] => r.nbr < pending.nbr

\* Stopped between calls only: besides, the group of an article that is being
\* written is the one it was asked for.
OrderlyInv ==
  /\ IInv /\ EmptiesAll /\ StoredInv
  /\ Creating => pending.call[2] = pending.dir[1]

-------------------------------------------------------------------------------
(* The groups as dbinterface.h shows them: a call changes them when it is    *)
(* acknowledged, not while it is pending.                                    *)

Visible(d) ==
  CASE Deleting /\ pending.dir = d -> pending.before
    [] Creating /\ pending.dir = d ->
         Erase(dbroot[d], <<pending.nbr, pending.call[3]>>)
    [] OTHER -> dbroot[d]

ShownArticle(e, lines) ==
  [title |-> ReadBack(e[2]), author |-> First(lines),
   text |-> Rest(lines)]

Groups ==
  [g \in Numbers(DOMAIN dbroot) |->
     LET d == CHOOSE d \in DOMAIN dbroot : d[1] = g
         files == Visible(d)
     IN  [name |-> ReadBack(d[2]),
          articles |-> [a \in Numbers(DOMAIN files) |->
                          LET e == CHOOSE e \in DOMAIN files : e[1] = a
                          IN  ShownArticle(e, files[e])]]]

Store == INSTANCE NewsStore
           WITH groups <- Groups, Titles <- Names \cup Titles,
                Ids <- GroupNumbers \cup ArticleNumbers

\* Between orderly stops every call does to the groups, and answers, what the
\* interface promises; a restart changes nothing a client sees.
ImplementsNewsStore == Store!Spec

-------------------------------------------------------------------------------
(* What the repository says of the store, and the store does not do. *)

\* The first group gets number 1 (README.md of the hand-in).
NumbersStartAtOne == \A d \in DOMAIN dbroot : d[1] >= 1

\* A group whose deletion was acknowledged is gone.
DeletedGroupGone ==
  /\ answer.call[1] = "deleteNewsGroup"
  /\ answer.code = ANS_ACK
  /\ Idle
  => NoGroup(answer.call[2])

===============================================================================
