# The news server, specified and checked

This directory holds TLA+ specifications of the news system in
`src/clientserver/`: a server that keeps newsgroups and articles, in memory or on
disk, and a command-line client that talks to it over a byte stream. The
definitions are translations of the C++ source; `PROJECT.json` maps each of them to
the lines it stands for.

## 1. The system

### Components

| component | source | state it keeps | operations | module |
|---|---|---|---|---|
| store interface | `dbinterface.h` | - | seven virtual methods | `NewsStore` |
| in-memory store | `dbinmemory.cc`, `newsgroup.cc`, `article.h` | a map of groups, each with a map of articles; two kinds of counter | the seven methods, each one step | `DbInMemory` |
| on-disk store | `dbondisk.cc` | directories and files under `dbroot`; a counter of groups; open directories | the seven methods, the constructor | `DbOnDisk` |
| server process | `news_server.cc`, `server.cc`, `connection.cc` | registered connections, the pending socket, the request being read | `waitForActivity`, `registerConnection`, `deregisterConnection`, the switch over commands | `NewsServer`, `NewsService` |
| message handler | `messagehandler.cc` | - | encodes and decodes numbers and strings | `Wire`, `Session` |
| command handler | `commandhandler.cc` | its place in an answer | one exchange per command | `Session` |
| command-line client | `news_client.cc` | - | splits a line into parameters, calls the command handler, draws listings and articles | `CommandLine`, `ClientDisplay`, `Session` |

`src/hand_in/dic14pov/` is a second copy of the same sources (one line of
`dbondisk.cc` is indented otherwise) with the user documentation; `test_in.cc` is a
unit test of the in-memory store that no Makefile target builds; `myclient.cc` and
`test/` are the sample programs of the communication library; the Java part consists
of compiled classes. None of these is modelled; they are read for what they say of
the system.

### How they interact

The server has one thread. `waitForActivity` selects on the listening socket and on
every registered client. When the listening socket is ready it accepts, puts the
new socket in `pending_socket` and returns a null pointer, and the loop registers a
new `Connection` with it. Otherwise it returns the first readable client in the order
of registration, and the loop reads one whole request from that client with blocking
reads of one byte, calls the store, writes the answer byte by byte, and waits again.
An end of stream, an unknown command or a missing `COM_END` throws
`ConnectionClosedException`, and the client is deregistered. A failed write is
reported and ignored. The store is reached through a pointer to `dbinterface`.

### What is hard here

* **Crashes and restarts.** The on-disk store makes several system calls per
  method and recovers its counter from directory names at a start.
* **Names as data structures.** The on-disk store splits the names of directories
  and files and puts them together again on every call.
* **Limits.** Most methods of `dbondisk` open directories they do not close; the
  server draws its sockets from the same supply, and ends when `accept` finds none.
  Writes block while a socket is full.
* **One thread, many clients.** A request is read with blocking reads, clients are
  served in order of registration, and clients leave at any point.
* **Stale references.** Clients act on numbers they saw in an earlier listing.
* **Object lifetime.** The store is an object of a block that `main` leaves before
  the loop starts.
* **The byte stream.** Client and server stay in step only as long as each reads
  exactly the codes the other writes.

`PROJECT.json` lists these one by one, at the line where each one bites, with the
properties that would catch it.

### What makes each component correct

* Both stores: a call changes exactly what it names, or fails and changes nothing;
  its answer agrees with the groups it was made on; names of groups are unique; a
  number means one thing for as long as clients may use it.
* On disk, besides: what was acknowledged survives kills and restarts, and nothing
  is on disk that no call accounts for.
* Server: every connected client is known in exactly one place; an answer goes to
  the client that asked; only complete requests reach the store; connecting clients
  are registered, and requests are answered in full unless earlier clients keep the
  server busy; the requests of all clients are carried out as if each in one step.
* Client and protocol: at every prompt both ends of the stream are at the same
  place; what is decoded is what was encoded; the user is told what the store did.

## 2. Modules

`OrderedMap` has the operations of `std::map` the code uses, iteration in the order of the keys among them. `Protocol` has the
codes of `protocol.h`.

**`NewsStore`** is the abstract specification: what `dbinterface.h` promises of any
store. Its state is a map of groups and the last call with its answer. Which number
a new group or article gets is left open, as long as it is not in use.

**`DbInMemory`** has the members of `dbinmemory` and `Newsgroup` as its state and one
action per method. Each method runs to its end before the server reads on, so each is
one step. Two history variables record the numbers that were deleted. `Groups` is
the refinement mapping to `NewsStore`: the groups without the counters.

**`DbOnDisk`** has the file system as its state: `dbroot` maps a directory
`<number, name>` to its files, and a file `<number, title>` to its lines. A name is
the number of blanks it starts with and the sequence of its words, which is what
`iss >> word` and `getline` tell apart: `ReadBack` loses the leading blanks,
`FirstWord` (in `deleteNewsGroup`) loses the other words too. `createArticle` is three steps
(the file is created, the author is written, the text is written) and `deleteNewsGroup` one
per file and one for the directory; `KillBusy` may come between any two of them, and `Restart` is the
constructor. `openDirs` counts the descriptors that are never closed; when an
`opendir` finds none left the process crashes in `readdir`, when the file of an
article finds none left nothing is written. The history variables are what clients
were told is stored, what calls were cut off, and which groups this process deleted.

**`NewsServer`** is the loop of `main` over `Server` and `Connection`, and the clients. `pc` is the place in the loop. A request
crosses the wire in two pieces, everything before `COM_END` and `COM_END`, so that a client can stall, leave or
go astray between them; `Stray` is a client other than `news_client` that sends
a byte that fits nowhere. An answer is written in two pieces to a socket that holds
`Room` of them, so that the server waits for a client that stops reading in between (`Answer`).
Registered clients and the directories the store has left open (`leaked`) share
`Descriptors`; when `accept` finds none left, `error()` ends the process (`Ends`), and when
the store finds none it may read a null `DIR`. The store is an instance of `NewsStore`, so what is shown
holds with either store behind the interface. `database` says whether the object
`db` points to still exists when the loop runs: both are possible outcomes of the
same source.

**`NewsService`** is the abstract specification of the server: clients, the store,
one outstanding request and one unread answer per client. A request is carried out
in one step (`Serve`) after it was sent, at most once, and its answer goes to its
client and nobody else; or the client is given up, and its request is not
carried out. A client may go at any time, and what it asked for may still be carried
out. In the refinement mapping a request is outstanding from the moment its first piece
is sent until the store is called (`Outstanding`), and an answer is unread from then until the
client has read the last piece of it (`Coming`, `Inbox`).

**`Session`** is one user at the prompt of `news_client`, the seven exchanges of
`CommandHandler` with the server's loop, and the store. `pc` names the read or the write the client
is at: `answer`, `response`, `errorCode`, `flush`, `count`, `id`, `name`, `fields`, `end`; an exchange is the path
the code takes through them for its command (`AfterAck`, `AfterNak`). The wire is a
queue of at most `Buffer` tokens in each direction: a code, a number, a string; a
write to a full one waits. The server knows from
the first code which tokens to read (`Awaited`) and carries the call out at `COM_END`.
Besides what `NewsStore` answers, a deletion of an article may be refused with `EMFILE`, as
the on-disk store does without a descriptor (`Unopened`). `Quit` is the end of the user's input.
`Kill` ends the server's process anywhere: the client's writes are then lost without
notice, as `sendByte` swallows the error, and its next read with nothing left to
read makes it exit. `ReadEnd` draws the answer: when the blanks of a row cannot be made (`Fits`), the rows above it
are on the screen, and either the user is told of a protocol failure or, for an article, the client may die instead, by the
library it is built with. `RunsOut` ends the client that appends blanks for want of a closing quote (`hung`): its
memory is finite. `told` is what the user was told of the line typed last,
`screen` the rows drawn. The history variable `performed` is what the store did for that line.

`Session` is put together from three modules of operators:

* `CommandLine`: `readCommandParameters` and the numbers `main` makes of some parameters. A word is
  known by whether it starts and ends with a quote, which is what the splitting looks
  at; a word may hold quotes of its own, which are erased only from quoted
  arguments (`Erased`). `Unclosed` are the lines on which the inner loop never
  ends; `Parameters` are what the others are read as, and `Ending` the word that ends an argument in quotes.
  `Written` is an argument as the help says to type it, by itself (`Bare`) or between
  quotes (`Quoted`), and `Intended` what its user means by it. `Complaints` is what the user may be told in place of the command: a number that is
  too large is reported as a protocol failure, and when two numbers are wrong in
  different ways either may be the one reported, since C++ evaluates the arguments of a
  call in any order.
* `ClientDisplay`: `printList` and `displayArticle`. A row is its width and the number of
  characters it shows; `Length` is a name's number of characters, blanks between its words included, and
  `Digits` that of a printed number; `ListFits` and `ArticleFits` say when no unsigned
  difference wraps, and the rows that are drawn are those above the first one that does (`FirstTooLong`).
* `Wire`: the message handler's numbers and strings as bytes: four bytes of two's complement,
  a kind before each parameter, a length before each string. What is received is taken
  off the front of a sequence of bytes. The tokens of `Session` stand on this:
  `MCSession` checks on small strings that a parameter is received as it
  was sent and takes no other byte with it, and `Wire_proofs` proves it for all.

**`DbInMemory_proofs`**, **`DbOnDisk_proofs`**, **`DbOnDiskRefinement_proofs`**, **`NewsServer_proofs`**, **`Wire_proofs`** and **`Session_proofs`** hold the
theorems about the module each is named for; **`Client_proofs`** those about `CommandLine` and `ClientDisplay`, and
what follows from them for a `Session`; **`OrderedMap_proofs`** the lemmas they share: what
`Put` and `Erase` do to a map, that every finite set of numbers can be put in ascending order and what a
loop over a map then visits, the greatest number of a set, and induction.

`MCDbOnDisk`, `MCNewsServer` and `MCSession` supply names, texts, requests and lines to TLC. Definitions
introduced as "a mutant of" are wrong variants of the definition they precede;
`PROJECT.json` names, for every property of a passing run, the mutant that violates it.

## 3. Runs

| run | what it asks | bounds |
|---|---|---|
| `in_memory` | `DbInMemory`: type, unique names, no number reused, counters ahead, references stable, implements `NewsStore` | 2 numbers per counter, 2 titles |
| `disk_crash` | `DbOnDisk` killed anywhere: numbers and names unique, counter ahead after a restart, acknowledged data on disk in full, everything on disk accounted for, no number of an article handed out again but the newest's | 2 groups, 2 articles each, two names, one of them the first word of the other, a text of three lines, 6 descriptors |
| `disk_orderly` | `DbOnDisk` stopped between calls only: implements `NewsStore`, restarts included | the same |
| `disk_exhaust` | `DbOnDisk` with no operator to restart it: a crash only when the descriptors are used up | 2 groups, 1 article each, two-word names and titles, 4 descriptors |
| `server_store` | `NewsServer`: every client known once, no condition of `Server::error()`, answers paired, an end only when every descriptor is in use, only complete requests reach the store, implements `NewsService` | 2 clients, all seven requests, 2 descriptors, a call leaves 0 or 1 open, a socket holds half an answer |
| `server_fair` | `NewsServer` with fairness: connects are accepted, requests answered unless overtaken | 2 clients, the three requests on groups, a socket holds half an answer |
| `session` | `Session`: what is read, on the wire and unwritten fit together at every step (`IInv`), both ends in step at every prompt, the store does what was typed, the user is told what it did and nothing else, answers are drawn whole or the cut is noticed, the client dies only of an article too long to draw or a quote that is not closed, every command ends | 2 groups, 1 article each, 23 lines, a wire of 2 tokens |
| `disk_first_number`, `disk_two_words`, `disk_path_title`, `disk_leak`, `server_dangling` | disagreements, section 5 | as small as shows them |

**Why the bounds are enough.** Two numbers per counter give every interesting
relation between numbers: the newest and an older group, deleted and live, in
use and next; the third value, 0 or the last one, is the stale number of a request that must
be refused. Two names are what a clash takes, and two words, of which the first alone is the other name, are what the
splitting and comparing of names takes. Three lines of text, one of them empty, distinguish a
whole text from its first line. Six descriptors let a call start with the largest
number it needs after several leaking calls; four make the process run dry within
a few calls. For two clients every order of connecting, registering, asking and leaving
is explored; each client connects once, since a client that comes back is, to
the server, another one. The clients are interchangeable, so `server_store`
takes one of each two states that differ in their names only. Two descriptors are as many as there are
clients, so that `accept` fails as soon as a call has left one open, or a
client that is gone has not been looked at. Half an answer is the smallest socket in
which a client can stop the server. A wire of two tokens holds less than
any request with a parameter, and more than one token, so that both ends
may be ahead of each other. A bound that is reached stops the numbering (the method
is not offered when the counter is at its bound) and nothing else.

`disk_crash` and `disk_orderly` use `BudgetSpec` and `OrderlySpec`, in which the process is
restarted before its descriptors run out (`WithinBudget`) and titles have one word and no `/`: under
these conditions, which the code does not enforce, the store keeps its promises. What
happens without them is what `disk_exhaust` and the violation runs show.

The lines of `session` (`MCSession`) are every command with good arguments, and the edges: a number
that takes two bytes, a negative one, one that is no `int`, an argument in quotes and one of several
words, an empty one, quotes inside a word; a name that needs a second row and one no row has room for, titles
of 56 and of 57 characters, an author of 50, texts of 0, 50 and 107; too few parameters, a word where
a number belongs, quotes that are not closed or stand alone. A line comes with the
arguments its user means (`arguments`), and its words are these as the help says to type them (`Line`), or
others where the user does not do as told (`Misquoted`). `Meant` makes a call of the arguments and knows nothing of how
a line is read, and `CarriedOutAsTyped` compares it with what the store was asked. `LinesAsTold`, which TLC
evaluates, says that every line of the run that is accepted was typed as told (`AsTold`). The bound `MaxArticles` and the two numbers of
`Ids` only keep the user from typing a creation the model has no number for (`HasRoom`).

**Deadlock** is checked for the stores: some call is always possible. For `NewsServer` it is
not: all clients may have left, and then nothing remains to be done. Nor for `Session`, whose
client may have exited or crashed; that it stops nowhere else is
`EveryCommandEnds`.

**Fairness** (`session`): `WF(Client)` and `WF(Server)`, as both processes run. The user
need not type, and the server need not be killed. That the loop of a quote that is not closed comes to an end is the
finiteness of memory.

**Fairness** (`server_fair`). `WF(Serve)`: the process runs, since one of its steps is
always taken when it can be. `WF(Finish)`: a client that has begun a request sends
the rest, since `commandhandler.cc` writes a request without waiting for
anything; a client that leaves instead disables it. `WF(Receive)`: a client reads
the answer it waits for, to its end, as `commandhandler.cc` does. Connecting, asking, straying and leaving are choices of users and are not
fair. Without `WF(Finish)` one stalled client stops the server for all, since the
server reads with blocking reads; this is inherent in the code, not a
defect of the model. Without `WF(Receive)` one that stops reading half-way through
its answer does the same, since the server's writes block. That a request is answered needs one more assumption, stated
in `AnsweredUnlessOvertaken` itself: from some time on, no client registered earlier
has anything for the server to read. `find_if` does not rotate, so a busy early
client may hold later ones off for ever.

## 4. Proofs

### The in-memory store

`DbInMemory_proofs` proves, for every set of titles, authors and texts and every
`MaxId \in Nat \ {0}` (the one assumption, `MaxIdAssumption`):

* `Invariance`: `Spec => []IInv`. `IInv` is `TypeOK`, `NamesUnique`, `NoResurrection`
  and `CountersAhead`. `NoResurrection` is not inductive alone: that the next number was never given out follows
  only from the counters being ahead of every number, live or deleted, which is
  `CountersAhead`; and `CountersAhead` needs `TypeOK` for the counter to be a number.
  There is one lemma per method, and one that leaves out the calls that only answer.
* `TypeCorrect`, `UniqueNames`, `NumbersNotReused`, `CountersStayAhead`: the parts of `IInv`.
* `StableReferences`: no step changes what a surviving number stands for. It follows
  from `CountersAhead` at each step: an insertion never lands on a number in use.
* `Refinement`: `Spec => ImplementsNewsStore`. Every method maps to the
  action of the same name in `NewsStore`; a new number is free in the abstract
  store because the counter is ahead of the numbers in use.

`IInv` is also checked by TLC, part by part, in `in_memory`.

### The on-disk store

`DbOnDisk_proofs` assumes of the constants that the bounds are numbers (`BoundsAssumption`,
`FdLimitAssumption`), that a name is a number of blanks and a sequence of words (`TitleAssumption`), and that an
author and a text have at least one line each (`LinesAssumption`: the code writes `author << endl`, and even an
empty author is then a line). Some theorems need more of the names; the hypothesis is then part of the
theorem, and is what the code would have to check, not what it does check:

| theorems | specification | of names and titles |
|---|---|---|
| `Inductive`, `TypeCorrect`, `NumbersStayUnique`, `CounterStaysAhead` | `Spec` | nothing |
| `GroupNamesUnique`, `CrashesOnlyExhausted` | `Spec` | no name starts with a blank (`NamesReadBack`), as none does that `news_client` sends |
| `GroupNumbersNotReused`, `EveryFileExplained` | `Spec` | titles are single words (`OneWordTitles`) |
| `AcknowledgedIsStored`, `OnlyNewestIsReused` | `BudgetSpec`: restarted before descriptors run out | no name or title has a `/` (`AllStorable`) |
| `DiskImplementsStore` | `OrderlySpec`: also stopped only between calls | all three, and an author is one line (`OneLineAuthors`) |

No hypothesis can be dropped: without the first, `createNewsGroup` does not recognise a name it stored; without
the second, `deleteNewsGroup` leaves files behind (`disk_two_words`); without
the third, acknowledged articles are not stored (`disk_path_title`, `disk_leak`).

* `IInv` is `TypeOK`, `UniqueNumbers` and `CounterAhead`. A new group's number is free because the
  counter is ahead; the counter is ahead after a restart because it is recovered as the
  greatest number on disk. `CounterAhead` says nothing while the process is down, and needs nothing then. A new
  article's number is free because it is above the greatest in its group, which needs the directory
  to be finite: the numbers of `TypeOK` are bounded.
* `NumbersNotReused` is about one process: a restart recovers the counter from what is on disk, and the number of the
  newest group is handed out again if that group is gone. It is not inductive: the counter must not be behind the number of a deleted group
  either, and a group that is marked deleted must be gone. The second takes that every file of it has been
  removed when its directory is (`EmptiesAll`), which is where single words come in (`RetiredInv`).
* `StoredIsExplained` needs `EmptiesAll` too (`ExplainedInv`): a group that is deleted takes the accounts of
  its files with it.
* `AckedStored` needs to know of a call that is pending (`StoredInv`): nothing acknowledged is in a group that
  is being deleted, the file that is being written holds nothing or the author, and its number is above
  all that are acknowledged in the group. The last part is also what `OnlyNewestReused` says of a step.

TLC checked these four strengthened invariants on the bounds of `disk_crash` before they were proved.

`DbOnDiskRefinement_proofs` proves `DiskImplementsStore`: `OrderlySpec => ImplementsNewsStore`. What a reader of
the files sees is `AsGroups(Disk)`, a map of maps, so the proof needs what putting and removing one
directory or one file does to it (`AsGroupsPut`, `AsGroupsErase`, `AsGroupsChange`, `ShownPut`, `ShownErase`). The steps map so:

| step of `DbOnDisk` | step of `NewsStore` |
|---|---|
| a call that is one step here | the action of its name |
| `deleteNewsGroup` up to the directory, removing a file | none |
| removing the directory | `DeleteNewsGroup` |
| `createArticle` up to the file, writing the author | none |
| writing the text | `CreateArticle` |
| a stop between calls, a restart | none |

A file that is still being written shows no article, and a directory whose files are going shows what it held
before; `OrderlyInv` says that what the call in progress keeps of both agrees with the disk: `IInv`, `EmptiesAll`, `StoredInv`, and that a pending creation
is in the group it names. TLC checked it on the bounds of `disk_orderly`. One line per author is what the code
needs to read one back: `getArticle` takes the first line of the file for the author and the rest for the
text, so an author of two lines would come back as another.

### The server

`NewsServer_proofs` assumes that `Requests` are calls with the arguments they take, told apart from what is
no request (`RequestsAssumption`), and that `Room` and `Descriptors` are positive; any set of clients will do.

* `Inductive`: `Spec => []IInv`. `IInv` has four parts: `TypeOK`; `KnownInv`: a client is in the queue of
  `accept`, in `pending_socket` or registered, in one of them and once (`Known`), and `pending_socket` is
  set exactly between `accept` and `registerConnection`; `RequestInv`: how much of a request is on the wire,
  by the client's phase and by whether the server is reading from it (`Reading`); `AnswerInv`: the pieces still to be written, those
  in the socket, and those already read are together one answer to the request that was
  read (`RestOfAnswer`, `Answering`). None of the safety properties below is inductive alone, since
  each is about one place and the next step moves something there from another.
* `TypeCorrect`, `ServerStateIsSound` (`NoServerError`), `ClientsKnownOnce` (`KnownOnce`), `AnswersReachTheirClients`
  (`AnswersAreAwaited`) follow from `IInv`, and `ExitsForWantOfDescriptors`
  (`ExitsOnlyWhenFull`) and `NothingHalfAsked` (`OnlyCompleteRequests`) from `IInv` at each step.
* `ServerImplementsService`: `Spec => ImplementsNewsService`. Step by step:

  | step of `NewsServer` | step of `NewsService` |
  |---|---|
  | `Connect` | `Arrive` |
  | `Ask` | `Ask` |
  | `Finish`, `Stray`, `Accept`, `Register`, `Ready`, the read of a first piece, `Answer` | none |
  | the read of the end of a request, and the call of the store | `Serve` |
  | `Receive` of the last piece of an answer | `Receive` |
  | `Receive` of an earlier piece | none |
  | `Leave` | `Leave` |
  | a client is dropped for what it sent or did not send | `GiveUp` of that client |
  | `Ends` | `GiveUp` of all clients |

  What the store does in `Serve` is the same action of `NewsStore` in both modules.
  The invariant this needs is `SeenInv`: `IInv`, and what the mapping shows of a client that is neither being
  read from nor written to.

`deregisterConnection` copies the other connections to a new vector (`Others`, a recursive function). That the
copy keeps each of them once goes by induction on the natural numbers, in the first-order
form `NaturalInduction`: a set of numbers that holds 0 and with `n` also `n + 1` holds them all.

TLC checked `IInv` and the refinement together on the bounds of `server_store` before the proofs.

### The bytes of a parameter

`Wire_proofs` proves, for every 32-bit number and with no assumption:

* `IntRoundTrip`: `recvInt` gives back what `sendInt` was given. It goes byte by byte:
  dividing by 2^8, 2^16 and 2^24 is dividing by 2^8 again and again (`Division`), so each byte is
  what the next division leaves over, and the sign of the highest byte is the
  sign of the number.
* `WireTypes`: `sendInt` writes bytes, and any four bytes are a number an `int` holds.
* `NumberFraming`, `StringFraming`: whatever follows on the wire, a parameter is received
  as it was sent and nothing of what follows is taken; for a string, as long as its length is an
  `int`. They rest on what is left of a sequence when its first part is cut off
  (`FirstPart`, `SecondPart`) and on the five bytes before the characters (`Header`).
* `LongStringOverflows`: a string of 2^31 to 2^32 - 1 characters is received as the empty one
  and all its characters stay on the wire, to be read as codes. This is what the code
  does; a run cannot hold such a string.

### The session

`Session_proofs` is about any lines, any numbers and a wire of any size. It assumes `BufferAssumption` (the wire
holds at least one token), and `NumbersAssumption`: `std::stoi` and the stores make `int`s, and the numbers
are no more than an `int` can count, since the size of a listing goes out as one.

* `BothEndsAgree`: `Spec => []IInv`. Until the store has been called, everything that is known of the
  request is in three places, and afterwards everything of the answer is; the parts of `IInv` say what they add up to:

  | part | says |
  |---|---|
  | `SequencesInv`, `NumbersInv` | what is on the wire and on both sides of it are sequences; the store uses the numbers of `Ids` |
  | `AskingInv` | before the call: what the server has read, what is on the wire and what the client has yet to write are, one after the other, the request of the line (`Request(Asked(line))`) |
  | `TellingInv` | after it: what is on the wire and what the server has yet to write are what the client has yet to read at its place (`Coming`); nothing of the request is left |
  | `TakenInv`, `ToldInv` | what the client has read so far is the first part of the listing or article (of the entry it is in, the number); what the user has been told by the time the client is at a place |
  | `ToldTheTruth`, `AnswersReachTheUser` | two properties of the run, which these make inductive |

  `InStep` alone says nothing of the steps of an exchange, and a client that reads one token too few
  is found out only at the next prompt; `Coming` says at every place which tokens are left. The
  lemmas are about moving a token from one end of a sequence to another (`Moved`, `MovedBehind`,
  `Taken`), about what a listing looks like from its k-th entry on (`EntriesAre`, `EntriesFrom`,
  which go through `FlattenSeq` by `NaturalInduction`), and, call by call, about what the store answers with
  (`PerformAnswers`). A listing of articles is in the order of their numbers, so the proof
  needs that iterating over a map gives each key once (`IterationByKey`).
* `ExchangesEnd` (`InStep`), `ReportsAreTrue` (`ToldTheTruth`), `ReportsAreComplete` (`AnswersReachTheUser`)
  follow from `IInv`. No hypothesis is needed: not even that the lines make sense. The last lists what the user may
  have been told, by what the store answered: a success is shown as one, unless it is too long to draw and reported as a
  failure; a refusal is shown as one, unless its code is `EMFILE`.
* `CommandsArrive` (`CarriedOutAsTyped`): the store is asked for what the user meant, if a line that the client
  accepts is read as its user means it (`Asked(typed) = Meant(typed)`). Nothing
  between the prompt and the store, writing, sending, reading or decoding, changes a command that was read right,
  and no answer is taken for the answer to another line. The hypothesis is about
  `readCommandParameters` only, and is what the next section proves.

TLC checks `IInv` in `session`.

### The client

`Client_proofs` is about lines of any words and names of any length. It assumes two things more of the constants:
`LengthsAssumption` (the length of a text is a natural number) and the `LinesAssumption` of `Session` (a line is a
sequence of words, and the texts they can become part of have a length). What the code computes by loops over words,
entries and rows is defined by recursive functions here; each proof about one first shows that a function
satisfying its recursion exists (`SumExists`, `FlatExists`, `FromExists`, `OffExists`), and then goes along it by
`NaturalInduction`.

**Reading a line.**

* `ReadAsWritten`: arguments typed as told (`Told`: some words between quotes, or one word by itself) are read as
  those arguments, any number of them, of any words, and the loop that looks for a closing quote
  ends (`~Unclosed`). An argument's words are found at their place in the line (`PartOf`), the quote that is closed first is
  its own (`EndingIs`, `ArgumentRead`), and the next argument starts right behind it; so the parameters from the m-th
  argument's first word on are the arguments from the m-th on, which is proved from the last argument back to the first.
* `AskedAsMeant`: a line that is accepted and typed as told (`AsTold`) is asked of the server as it was meant, numbers included.
* `CommandsTypedAsTold` (`CarriedOutAsTyped`): so what the store is asked to do is what was meant, when
  the lines that are accepted are typed as told. Nothing is assumed of the code any more. The condition is on users, and
  cannot be dropped: a blank after an opening quote (section 5) makes two arguments of one, and where a command takes as many it is accepted.

**Drawing an answer.**

* `ListDrawn`, `ArticleDrawn`: the rows `printList` and `displayArticle` draw have all the width of the frame, and the characters they show add
  up to those of what is shown: of all entries of a listing, or of those above the first that does not fit; of all of
  an article, of its title alone, or of nothing. A name goes on one row or on two (`EntryDrawn`), a text on as many as it has
  fifties of characters, the last of which may be short (`TextDrawn`); sums over rows that are put together
  are the sums over the parts (`TotalConcat`, `DrawnBelow`).
* `CutsAreNoticed` (`NothingIsCutUnnoticed`): at every step the screen shows all of what the store answered to the line
  typed last, and the user was told so; or the first part of it, and the user was told of a failure or the
  client has died. `IInv` does not say so: a sum of
  lengths makes sense only for names that have one, and names have been in the store, on the wire and in
  the client before they are drawn. The strengthening is `DrawInv`, inductive together with `IInv`:

  | part | says |
  |---|---|
  | `LineInv` | the line is one that was typed |
  | `NamesInv` | every name, title, author and text in the store, and in the answer to the line, is a sequence of at least one text of known length (`IsName`), since each was once a parameter read from a line (`AskedNames`); call by call, the store hands on only such (`PerformNames`) |
  | `ScreenInv` | there are rows only at the prompt or after the client's end, and they are those that could be drawn of what the store answered to the line typed last, which is what the client holds in `taken`; the user was told it is shown exactly if all of it fits |

  TLC checked `DrawInv` on the bounds of `session` before it was proved.
* `DiesOfLongStrings` (`CrashesOnlyOnLongStrings`): the client's process dies only of an article that the store
  answered with and whose title or author does not fit (`TooLong`), or of a line with a quote that is not closed. The
  strengthening is `CrashInv`: only such a line gets into the loop (`hung`). What is drawn at the end of an answer is what
  the store answered (`EndDraws`, from `TakenInv` and `ToldInv`); the one answer that draws what was not sent,
  a `getNewsArticle` refused with a code it has no message for, does not occur.

### Only model-checked

Every safety property the runs check is proved. What remains with TLC alone is liveness (`ConnectsAreAccepted`,
`AnsweredUnlessOvertaken`, `EveryCommandEnds`), which the proof system does not cover, and
`ServerSurvives` and the other properties of the runs of section 5, which do not hold.

## 5. Where the code does not do what the repository says

* `disk_first_number`: the first group on disk is number 0; the README of the hand-in
  says 1, and the in-memory store gives 1.
* `disk_two_words`: `deleteNewsGroup` removes `<number> <first word>` of each article.
  An article with a title of two words stays, and with it the group; the answer is
  `ANS_ACK`.
* `disk_path_title`: an article whose title has a `/` is acknowledged and not stored,
  since nobody looks whether the file could be opened.
* `disk_leak`: the same when no descriptor is left for the file, because the
  directories earlier calls opened were not closed.
* `server_dangling`: `db` outlives what it points to. The optimised build keeps the
  object's memory as it was; built without optimisation, the server crashes at
  the first request.

Also met, where no document says otherwise. In `news_client`: a quote that is not closed keeps
`readCommandParameters` appending blanks until there is no memory for them, and the client dies (`hung`, then `crashed`).
A run of blanks between two words of an argument in quotes is sent as a single blank. A blank after an opening quote makes the quote
an empty argument of its own, though the help says that quotes take several words
as one argument (`src/clientserver/news_client.cc:25`); the lines of `session` leave no such
blank, except in one that is refused for its number of parameters. A title of more than 56 characters or an author
of more than 46 can be stored, and no client can draw the article: `displayArticle` asks for a string of almost 2^63
blanks. With a library that has no such strings (libstdc++ from version 9 on) it is told as a
"protocol failure"; with an older one it is a `bad_alloc` that ends the client. When it is the author, the title's row
is on the screen by then. A listed name of more than 70 makes its listing a
"protocol failure" after the rows of the groups or articles before it. In each case both ends are in step
(`InStep`), and the user is told of a failure if the client lives (`NothingIsCutUnnoticed`), though not of which.
A number that is too large is reported as a protocol failure too, though nothing was sent. In the server: the directories `dbondisk` leaves open end in
an `accept` that fails, and with it the process, for every client (`ExitsOnlyWhenFull` says
that nothing else brings this about).

In the stores: a title that starts with blanks (which `news_client`
cannot send, another client can) is not found again under the path
put together from it, so its deletion is acknowledged and removes nothing. `deleteArticle`
answers 24, the value of `errno`, when it cannot open `dbroot`: the answer is a
refusal with a code that is not in the protocol, of which the client tells its user
nothing (the last case of `AnswersReachTheUser`). The number of a deleted group is handed out again after a restart if
it was the newest.

## 6. What the models leave out

* `DbOnDisk`: a `/` at the end of a name (which `mkdir` accepts) and over-long names
  count as any name that cannot be stored; titles and authors contain no newline; nobody but the store writes to `dbroot`, so
  `stoi` in the constructor always succeeds; a write either happens or not, and
  data written is on disk at once (what is modelled is the end of the process, not of
  the machine); descriptors of client connections are not counted, `FdLimit` is what
  is left for the store. Numbers do not overflow.
* `NewsServer`: the tokens inside a request are not looked at (`Session` does); `select` is not interrupted, and sockets stay below
  `FD_SETSIZE`; when all numbers are in use the creation of one more waits. Of the
  descriptors, those of clients that wait for `accept` are the clients' own, and a call of
  the store that has fewer than two may fail or not, as it may need none, one or two.
* `Session`: a token of another kind than the one read would stop the model, where the code
  reports it and reads on (neither program sends one, or `EveryCommandEnds` would
  fail); the buffers are counted in tokens, not bytes; each user is alone
  with the server (what several clients do to each other is `NewsServer`).
* `Wire`: a read of more bytes than have come, which waits or throws; strings of 2^32 characters or
  more.
* `CommandLine`: a line is a sequence of words, so the number and kind of blanks between them are not
  looked at, as the code does not: between quotes too it makes one blank of a run of them, so that two arguments this module
  calls the same are the same but for such runs, and `CarriedOutAsTyped` says nothing of the difference; a text `stoi` reads a number from and then stops counts as that
  number (`Numerals`).
* `ClientDisplay`: lines that do not depend on data (the head of a frame is drawn even when none of its rows is), and "No results found.".

Not modelled at all: the unit test and the sample programs (they use the
communication library, and are not part of the news system), the hand-in copy (the same text),
the Java classes (no source).

## 7. Plan

Done: both stores, the server with its abstract specification, the session of a client,
the bytes of a parameter, and the proofs of section 4: every safety property the runs check. Next:

1. `Session` over the bytes of `Wire` in place of tokens, as a refinement: `NumberFraming` and `StringFraming` are the
   steps of it.
2. Numbers past the bounds of the stores (`MaxId`, `MaxGroup`, `MaxArticle`), where the code's `int`s overflow.
