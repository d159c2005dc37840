------------------------------- MODULE Session -------------------------------
(***************************************************************************)
(* One user at the prompt of news_client.cc, the exchanges its             *)
(* CommandHandler has with the loop of news_server.cc, and the store       *)
(* behind it.                                                              *)
(*                                                                         *)
(* Both ends write and read token by token: a code, a number of four       *)
(* bytes, or a string.  Each end only knows from the command, and from     *)
(* what it has read so far, what has to come next; nothing on the wire     *)
(* says where an exchange ends.  A write waits while the wire is full.     *)
(* The server's process may be killed between any two steps.               *)
(***************************************************************************)
EXTENDS OrderedMap, Protocol, Wire, CommandLine, ClientDisplay

CONSTANTS
  Lines,     \* what the user may type: command, words, and arguments meant
  Ids,       \* the numbers groups and articles can have
  MaxArticles, \* bound of the articles a group holds
  Buffer     \* tokens the wire holds in each direction

ASSUME RoomAssumption == MaxArticles \in 1..Cardinality(Ids)
ASSUME BufferAssumption == Buffer \in Nat \ {0}

\* std::stoi and the stores make ints; a listing's size goes out as an int.
ASSUME NumbersAssumption ==
  /\ \A text \in DOMAIN Numerals : Numerals[text] \in Int32
  /\ Ids \subseteq Int32
  /\ IsFiniteSet(Ids) /\ Cardinality(Ids) <= 2147483647

\* ss >> p takes a line apart into words; a string has a length.
ASSUME LinesAssumption ==
  \A typed \in Lines :
    /\ Sequence(typed.words)
    /\ \A i \in DOMAIN typed.words :
         TextsOf(typed.words[i]) \subseteq DOMAIN WordLength

VARIABLES
  pc,        \* of the client: the read or write it is at
  line,      \* the line typed last
  toWrite,   \* what the client has yet to write of its request
  taken,     \* what it has read of a listing or an article
  left,      \* how many entries of a listing are yet to come
  told,      \* what it has told the user of the line typed last
  screen,    \* the rows it drew
  toServer,  \* tokens on the wire
  toClient,
  server,    \* "up" or "killed"
  request,   \* what the server has read of a request
  reply,     \* what it has yet to write of an answer
  groups, answer,  \* the store (NewsStore)
  performed  \* history: what the store answered to the line typed last

clientVars == <<pc, line, toWrite, taken, left, told, screen>>
serverVars == <<server, request, reply>>
storeVars == <<groups, answer, performed>>
vars == <<clientVars, toServer, toClient, serverVars, storeVars>>

Db == INSTANCE NewsStore WITH Titles <- {}, Authors <- {}, Texts <- {}

Code(n) == [kind |-> "code", value |-> n]
Number(n) == [kind |-> "number", value |-> EncodeInt(n)]
String(s) == [kind |-> "string", value |-> s]

\* What the user is told: a verdict, and the error code or what is shown.
Verdict(verdict, code, result) ==
  [verdict |-> verdict, code |-> code, result |-> result]
Nothing == Verdict("nothing", 0, <<>>)

NoLine == [command |-> "help", words |-> <<>>]

Init ==
  /\ pc = "prompt"
  /\ line = NoLine
  /\ toWrite = <<>> /\ taken = <<>> /\ left = 0
  /\ told = Nothing
  /\ screen = <<>>
  /\ toServer = <<>> /\ toClient = <<>>
  /\ server = "up" /\ request = <<>> /\ reply = <<>>
  /\ Db!Init
  /\ performed = answer

-------------------------------------------------------------------------------
(* The client: the loop of main, up to the call of the CommandHandler. *)

\* The types of a command's parameters, in order.
Parameter ==
  [listNewsGroups  |-> <<>>,
   createNewsGroup |-> <<"string">>,
   deleteNewsGroup |-> <<"number">>,
   listArticles    |-> <<"number">>,
   createArticle   |-> <<"number", "string", "string", "string">>,
   deleteArticle   |-> <<"number", "number">>,
   getNewsArticle  |-> <<"number", "number">>]

\* What the CommandHandler writes for a call.
Request(call) ==
  LET kinds == Parameter[call[1]]
  IN  <<Code(CommandCode[call[1]])>> \o
        [i \in DOMAIN kinds |-> IF kinds[i] = "number" THEN Number(call[i + 1])
                                ELSE String(call[i + 1])] \o
        <<Code(COM_END)>>

Starts(call) ==
  /\ pc' = "write"
  /\ toWrite' = Request(call)
  /\ told' = Nothing

Complains(verdict) ==
  /\ told' = Verdict(verdict, 0, <<>>)
  /\ UNCHANGED <<pc, toWrite>>

\* What the user can type is printed, or that it was none of it.
Help == Complains("help")

\* A command with its option; help and everything else is none.
IsCommand(typed) == typed.command \in DOMAIN Parameter

\* The bound: nothing is created that the store has no number for.
HasRoom(typed) ==
  /\ typed.command = "createNewsGroup" => Ids \ DOMAIN groups # {}
  /\ typed.command = "createArticle" =>
       \A g \in DOMAIN groups :
         Cardinality(DOMAIN groups[g].articles) < MaxArticles

Type(typed) ==
  /\ pc = "prompt"
  /\ HasRoom(typed)
  /\ line' = typed
  /\ performed' = Db!NoCall
  /\ screen' = <<>>
  /\ taken' = <<>>
  /\ LET params == Parameters(typed.words)
     IN  \/ /\ ~IsCommand(typed)
            /\ Help
         \/ /\ IsCommand(typed)
            /\ ~TakesParameters(typed.command)
            /\ Starts(<<typed.command>>)
         \/ /\ TakesParameters(typed.command)
            /\ Unclosed(typed.words)
            /\ pc' = "hung"
            /\ told' = Nothing
            /\ UNCHANGED toWrite
         \/ /\ TakesParameters(typed.command)
            /\ ~Unclosed(typed.words)
            /\ \E verdict \in Complaints(typed.command, params) :
                 Complains(verdict)
         \/ /\ TakesParameters(typed.command)
            /\ ~Unclosed(typed.words)
            /\ Complaints(typed.command, params) = {}
            /\ Starts(Call(typed.command, params))
  /\ UNCHANGED <<left, toServer, toClient, serverVars, groups, answer>>

\* The end of the input: main returns.
Quit ==
  /\ pc = "prompt"
  /\ pc' = "quit"
  /\ UNCHANGED <<line, toWrite, taken, left, told, screen, toServer, toClient,
                 serverVars, storeVars>>

\* A write to a dead server fails, and is reported and forgotten.
Write ==
  /\ pc = "write"
  /\ server = "up" => Len(toServer) < Buffer
  /\ toServer' = IF server = "up" THEN Append(toServer, Head(toWrite))
                 ELSE toServer
  /\ toWrite' = Tail(toWrite)
  /\ pc' = IF Len(toWrite) = 1 THEN "answer" ELSE "write"
  /\ UNCHANGED <<line, taken, left, told, screen, toClient, serverVars,
                 storeVars>>

-------------------------------------------------------------------------------
(* The client: reading an answer. *)

Command == line.command

\* The client reads a token of the kind it is written to read next.
Reads(place, kind) ==
  /\ pc = place
  /\ toClient # <<>>
  /\ Head(toClient).kind = kind
  /\ toClient' = Tail(toClient)
  /\ UNCHANGED <<line, toWrite, toServer, serverVars, storeVars>>

Got == Head(toClient).value

\* logic_error: the rest of the answer is left on the wire.
Fails == Verdict("protocol failure", 0, <<>>)

ReadAnswerCode ==
  /\ Reads("answer", "code")
  /\ pc' = IF Got # AnswerCode[Command] THEN "prompt"
           ELSE IF Command = "listNewsGroups" THEN "count" ELSE "response"
  /\ told' = IF Got = AnswerCode[Command] THEN told ELSE Fails
  /\ UNCHANGED <<taken, left, screen>>

\* Where an acknowledged command goes on.
AfterAck ==
  CASE Command = "listArticles" -> "count"
    [] Command = "getNewsArticle" -> "fields"
    [] OTHER -> "end"

\* A mutant of AckTold: the user is told before the response is looked at.
AckToldAlways == Verdict("done", ANS_ACK, <<>>)

\* Creations and deletions are reported as soon as they are acknowledged.
AckTold ==
  IF Got = ANS_ACK /\ AfterAck = "end" THEN Verdict("done", ANS_ACK, <<>>)
  ELSE told

ReadResponse ==
  /\ Reads("response", "code")
  /\ pc' = CASE Got = ANS_ACK -> AfterAck
             [] Got = ANS_NAK -> "errorCode"
             [] OTHER -> "prompt"
  /\ told' = IF Got \in {ANS_ACK, ANS_NAK} THEN AckTold ELSE Fails
  /\ UNCHANGED <<taken, left, screen>>

\* A mutant of Known: no command has a message for an article it misses.
KnownGroups ==
  IF Command = "createNewsGroup" THEN {ERR_NG_ALREADY_EXISTS}
  ELSE {ERR_NG_DOES_NOT_EXIST}

\* The error codes a command has a message for.
Known ==
  CASE Command = "createNewsGroup" -> {ERR_NG_ALREADY_EXISTS}
    [] Command \in {"deleteArticle", "getNewsArticle"} ->
         {ERR_NG_DOES_NOT_EXIST, ERR_ART_DOES_NOT_EXIST}
    [] OTHER -> {ERR_NG_DOES_NOT_EXIST}

\* A mutant of AfterNak: the last code of a refused article is not read.
AfterNakUnflushed(code) ==
  IF Command = "getNewsArticle" /\ code \in Known THEN "prompt" ELSE "end"

\* getArticle returns early on a refusal it knows, once it has read a code more.
AfterNak(code) ==
  IF Command = "getNewsArticle" /\ code \in Known THEN "flush" ELSE "end"

ReadErrorCode ==
  /\ Reads("errorCode", "code")
  /\ pc' = AfterNak(Got)
  /\ told' = IF Got \in Known THEN Verdict("refused", Got, <<>>) ELSE told
  /\ UNCHANGED <<taken, left, screen>>

Flush ==
  /\ Reads("flush", "code")
  /\ pc' = "prompt"
  /\ UNCHANGED <<taken, left, told, screen>>

ReadCount ==
  /\ Reads("count", "number")
  /\ left' = DecodeInt(Got)
  /\ pc' = IF DecodeInt(Got) > 0 THEN "id" ELSE "end"
  /\ UNCHANGED <<taken, told, screen>>

ReadId ==
  /\ Reads("id", "number")
  /\ taken' = Append(taken, <<DecodeInt(Got)>>)
  /\ pc' = "name"
  /\ UNCHANGED <<left, told, screen>>

ReadName ==
  /\ Reads("name", "string")
  /\ taken' = Append(Front(taken), <<Last(taken)[1], Got>>)
  /\ left' = left - 1
  /\ pc' = IF left > 1 THEN "id" ELSE "end"
  /\ UNCHANGED <<told, screen>>

ReadField ==
  /\ Reads("fields", "string")
  /\ taken' = Append(taken, Got)
  /\ pc' = IF Len(taken) = 2 THEN "end" ELSE "fields"
  /\ UNCHANGED <<left, told, screen>>

-------------------------------------------------------------------------------
(* The client: the end of an answer, and what is drawn of it. *)

\* Creations and deletions, and refusals, draw nothing more.
Draws ==
  Command \in {"listNewsGroups", "listArticles", "getNewsArticle"}
    /\ told.verdict # "refused"

\* What is there to draw: an article refused with an error code that
\* getArticle has no message for is three empty strings.
Found ==
  IF Command = "getNewsArticle" /\ taken = <<>> THEN [i \in 1..3 |-> <<"">>]
  ELSE taken

\* A mutant of Fits: the title and the author are taken for each other.
FitsSwapped ==
  IF Command = "getNewsArticle" THEN ArticleFits(Found[2], Found[1])
  ELSE ListFits(Found)

\* A mutant of Fits: the drawing stops without an exception.
FitsAlways == TRUE

Fits ==
  IF Command = "getNewsArticle" THEN ArticleFits(Found[1], Found[2])
  ELSE ListFits(Found)

Rows ==
  IF Command = "getNewsArticle" THEN ArticleRows(Found[1], Found[2], Found[3])
  ELSE ListRows(Found)

\* When a row's blanks cannot be made, the rows above it have been drawn.
\* printList throws a length_error, which main reports like any logic_error.
\* displayArticle asks for half as many blanks: that is over the longest string
\* of some libraries, a length_error again, and within it for others, and then
\* new throws a bad_alloc, which nobody catches.  Which of the two is the choice
\* of the library that the client is built with (libstdc++: from 9 on, the first).
ReadEnd ==
  /\ Reads("end", "code")
  /\ \/ /\ Got = ANS_END => ~Draws
        /\ pc' = "prompt"
        /\ told' = IF Got = ANS_END THEN told ELSE Fails
        /\ UNCHANGED screen
     \/ /\ Got = ANS_END /\ Draws /\ Fits
        /\ pc' = "prompt"
        /\ told' = Verdict("shown", ANS_ACK, Found)
        /\ screen' = Rows
     \/ /\ Got = ANS_END /\ Draws /\ ~Fits
        /\ \/ pc' = "prompt" /\ told' = Fails
           \/ /\ Command = "getNewsArticle"
              /\ pc' = "crashed" /\ UNCHANGED told
        /\ screen' = Rows
  /\ UNCHANGED <<taken, left>>

\* ConnectionClosedException: main prints "no reply from server" and exits.
NoReply ==
  /\ pc \notin {"prompt", "write", "hung", "quit", "crashed", "exited"}
  /\ toClient = <<>>
  /\ server = "killed"
  /\ pc' = "exited"
  /\ UNCHANGED <<line, toWrite, taken, left, told, screen, toServer, toClient,
                 serverVars, storeVars>>

\* A parameter whose quotes are not closed has grown by a blank at a time to
\* the end of the memory: bad_alloc, which nobody catches.
RunsOut ==
  /\ pc = "hung"
  /\ pc' = "crashed"
  /\ UNCHANGED <<line, toWrite, taken, left, told, screen, toServer, toClient,
                 serverVars, storeVars>>

ReadNext ==
  \/ ReadAnswerCode \/ ReadResponse \/ ReadErrorCode \/ Flush
  \/ ReadCount \/ ReadId \/ ReadName \/ ReadField \/ ReadEnd

Client == Write \/ ReadNext \/ NoReply \/ RunsOut

-------------------------------------------------------------------------------
(* The server. *)

\* The method a command code stands for.
Method(code) == CHOOSE m \in DOMAIN CommandCode : CommandCode[m] = code

\* What the branch of the switch for the request reads next.
Awaited ==
  IF request = <<>> THEN "code"
  ELSE LET kinds == Parameter[Method(request[1].value)]
       IN  IF Len(request) <= Len(kinds) THEN kinds[Len(request)] ELSE "code"

Complete ==
  /\ request # <<>>
  /\ Len(request) = Len(Parameter[Method(request[1].value)]) + 1

\* The call the server makes of what it read.
Decoded ==
  [i \in DOMAIN request |->
     CASE i = 1 -> Method(request[1].value)
       [] request[i].kind = "number" -> DecodeInt(request[i].value)
       [] OTHER -> request[i].value]

Entries(pairs) ==
  FlattenSeq([i \in DOMAIN pairs |->
                <<Number(pairs[i][1]), String(pairs[i][2])>>])

Listing(pairs) == <<Number(Len(pairs))>> \o Entries(pairs)

\* A mutant of Refusal: no error code follows.
RefusalBare(code) == <<Code(ANS_NAK)>>

Refusal(code) == <<Code(ANS_NAK), Code(code)>>

\* What the server writes for what the store returned.
Body(a) ==
  IF a.call[1] = "listNewsGroups" THEN Listing(a.result)
  ELSE IF a.code # ANS_ACK THEN Refusal(a.code)
  ELSE <<Code(ANS_ACK)>> \o
         CASE a.call[1] = "listArticles" -> Listing(InOrder(a.result))
           [] a.call[1] = "getNewsArticle" ->
                [i \in DOMAIN a.result |-> String(a.result[i])]
           [] OTHER -> <<>>

Reply(a) == <<Code(AnswerCode[a.call[1]])>> \o Body(a) \o <<Code(ANS_END)>>

\* The server reads a token of the kind it is written to read next.
ReadRequest ==
  /\ server = "up" /\ reply = <<>>
  /\ toServer # <<>>
  /\ ~Complete
  /\ Head(toServer).kind = Awaited
  /\ request' = Append(request, Head(toServer))
  /\ toServer' = Tail(toServer)
  /\ UNCHANGED <<clientVars, toClient, server, reply, storeVars>>

\* dbondisk's deleteArticle, with no descriptor left to open a directory,
\* returns errno, which is no code of the protocol.
EMFILE == 24
Unopened(call) ==
  /\ call[1] = "deleteArticle"
  /\ Db!Fails(call, EMFILE)

\* COM_END, the call, and the answer that is about to be written.
Carry ==
  /\ server = "up" /\ reply = <<>>
  /\ Complete
  /\ toServer # <<>> /\ Head(toServer) = Code(COM_END)
  /\ Db!Perform(Decoded) \/ Unopened(Decoded)
  /\ performed' = answer'
  /\ reply' = Reply(answer')
  /\ request' = <<>>
  /\ toServer' = Tail(toServer)
  /\ UNCHANGED <<clientVars, toClient, server>>

WriteReply ==
  /\ server = "up"
  /\ reply # <<>>
  /\ Len(toClient) < Buffer
  /\ toClient' = Append(toClient, Head(reply))
  /\ reply' = Tail(reply)
  /\ UNCHANGED <<clientVars, toServer, server, request, storeVars>>

Server == ReadRequest \/ Carry \/ WriteReply

Kill ==
  /\ server = "up"
  /\ server' = "killed"
  /\ UNCHANGED <<clientVars, toServer, toClient, request, reply, storeVars>>

Next == (\E typed \in Lines : Type(typed)) \/ Quit \/ Client \/ Server \/ Kill

Spec == Init /\ [][Next]_vars

\* Both programs run; the user need not type, and nobody kills the server on
\* purpose.
FairSpec == Spec /\ WF_vars(Client) /\ WF_vars(Server)

-------------------------------------------------------------------------------
\* At the prompt of a client whose server is up, both ends are between two
\* exchanges and nothing is on the wire: every read of either end has taken
\* what the other wrote for it.
InStep ==
  pc = "prompt" /\ server = "up" =>
    /\ toServer = <<>> /\ toClient = <<>>
    /\ request = <<>> /\ reply = <<>>

\* The call the user meant: the command, and for each parameter the number or
\* the words between its quotes (news_client.cc prints this as its help).
Meant(typed) ==
  <<typed.command>> \o
    [i \in DOMAIN typed.arguments |->
       LET argument == Intended(typed.arguments[i])
       IN  IF i <= NumberCount[typed.command] THEN Numerals[argument[1]]
           ELSE argument]

\* A line typed the way the help says.
AsTold(typed) ==
  /\ Sequence(typed.arguments)
  /\ \A i \in DOMAIN typed.arguments :
       LET argument == typed.arguments[i]
       IN  /\ Sequence(argument.texts) /\ argument.texts # <<>>
           /\ argument.quoted \/ Len(argument.texts) = 1
  /\ typed.words = FlattenSeq([i \in DOMAIN typed.arguments |->
                                Written(typed.arguments[i])])
  /\ ~TakesParameters(typed.command) => typed.arguments = <<>>

\* What the store is asked to do is what the user typed.
CarriedOutAsTyped ==
  performed # Db!NoCall => performed.call = Meant(line)

\* What the user is told was done, refused or found is what the store did,
\* also when the server is killed before its answer has come through.
ToldTheTruth ==
  /\ told.verdict \in {"done", "refused", "shown"} =>
       /\ performed # Db!NoCall
       /\ told.code = performed.code
  /\ told.verdict = "shown" =>
       told.result = IF performed.call[1] = "listArticles"
                     THEN InOrder(performed.result) ELSE performed.result
  /\ pc = "exited" => server = "killed"

\* Back at the prompt, the user has been told how every line ended that the
\* store was asked to carry out.  What was found and is too long to draw is
\* called a protocol failure, and of a code that is not of the protocol the
\* client says nothing; there is no third case.
AnswersReachTheUser ==
  pc = "prompt" /\ performed # Db!NoCall =>
    \/ told.verdict \in {"done", "shown"} /\ performed.code = ANS_ACK
    \/ told.verdict = "refused" /\ performed.code # ANS_ACK
    \/ told = Fails /\ performed.code = ANS_ACK /\ ~Fits
    \/ told = Nothing /\ performed.code = EMFILE

\* How many characters there are of each name, or of title, author and text.
LengthsTaken ==
  [i \in DOMAIN taken |->
     Length(IF Command = "getNewsArticle" THEN taken[i] ELSE taken[i][2])]

\* What is on the screen is in the frame, and is the first part of what was read:
\* all of it when nothing else is said, and when it is less than that the user
\* is told of a failure, or the client has died.
NothingIsCutUnnoticed ==
  told.verdict = "shown" \/ screen # <<>> =>
    /\ \A i \in DOMAIN screen :
         screen[i].width = IF Command = "getNewsArticle" THEN ArticleWidth
                           ELSE ListWidth
    /\ \E n \in 0..Len(taken) :
         /\ Total([i \in DOMAIN screen |-> screen[i].shown])
              = Total(SubSeq(LengthsTaken, 1, n))
         /\ IF n = Len(taken) THEN told.verdict = "shown"
            ELSE told = Fails \/ pc = "crashed"

\* The article that was asked for has too long a title or author to be drawn.
TooLong ==
  /\ performed.call[1] = "getNewsArticle"
  /\ performed.code = ANS_ACK
  /\ ~ArticleFits(performed.result[1], performed.result[2])

\* The client dies of nothing but strings it cannot make: those of such an
\* article, which the store holds and has answered with, or a parameter with no
\* end.  No other line, no other answer and no refusal ends it.
CrashesOnlyOnLongStrings == pc = "crashed" => TooLong \/ Unclosed(line.words)

\* Neither end waits for the other for ever, to read what is not written or to
\* write what is not read: every command comes back to the prompt, unless the
\* server is gone, or the client dies of an article that does not fit, or of a
\* quote that is not closed.
EveryCommandEnds ==
  pc # "prompt" ~>
    \/ pc \in {"prompt", "quit", "exited"}
    \/ pc = "crashed" /\ (TooLong \/ Unclosed(line.words))

-------------------------------------------------------------------------------
(* What holds of both ends, the wire and the store at every step.            *)

\* The client has read its line as a call.
Accepted(typed) ==
  /\ IsCommand(typed)
  /\ TakesParameters(typed.command) =>
       /\ ~Unclosed(typed.words)
       /\ Complaints(typed.command, Parameters(typed.words)) = {}

\* That call.
Asked(typed) ==
  IF TakesParameters(typed.command)
  THEN Call(typed.command, Parameters(typed.words)) ELSE <<typed.command>>

\* The pairs of an answer that is a listing.
Listed(a) == IF a.call[1] = "listArticles" THEN InOrder(a.result) ELSE a.result

IsListing(pairs) ==
  /\ Sequence(pairs)
  /\ Len(pairs) \in Int32
  /\ \A i \in DOMAIN pairs :
       /\ pairs[i] = <<pairs[i][1], pairs[i][2]>>
       /\ pairs[i][1] \in Int32

\* The codes each call is answered with.
CodesOf(command) ==
  CASE command = "listNewsGroups" -> {ANS_ACK}
    [] command = "createNewsGroup" -> {ANS_ACK, ERR_NG_ALREADY_EXISTS}
    [] command = "getNewsArticle" ->
         {ANS_ACK, ERR_NG_DOES_NOT_EXIST, ERR_ART_DOES_NOT_EXIST}
    [] command = "deleteArticle" ->
         {ANS_ACK, ERR_NG_DOES_NOT_EXIST, ERR_ART_DOES_NOT_EXIST, EMFILE}
    [] OTHER -> {ANS_ACK, ERR_NG_DOES_NOT_EXIST}

IsListCommand(command) == command \in {"listNewsGroups", "listArticles"}

IsAnswer(a) ==
  /\ a.code \in CodesOf(a.call[1])
  /\ a.code = ANS_ACK =>
       /\ IsListCommand(a.call[1]) => IsListing(Listed(a))
       /\ a.call[1] = "getNewsArticle" =>
            a.result = <<a.result[1], a.result[2], a.result[3]>>

\* Everything on the wire, and on both sides of it, is a sequence.
SequencesInv ==
  /\ Sequence(toWrite) /\ Sequence(toServer) /\ Sequence(request)
  /\ Sequence(reply) /\ Sequence(toClient) /\ Sequence(taken)

NumbersInv ==
  /\ DOMAIN groups \subseteq Ids
  /\ \A g \in DOMAIN groups :
       /\ groups[g] = [name |-> groups[g].name, articles |-> groups[g].articles]
       /\ DOMAIN groups[g].articles \subseteq Ids

\* Before the store has done what was asked, what the server has read, what is
\* on the wire and what the client has yet to write are together the request.
AskingInv ==
  performed = Db!NoCall =>
    /\ pc \in {"prompt", "hung", "crashed", "quit", "exited", "write", "answer"}
    /\ told.verdict \notin {"done", "refused", "shown"}
    /\ toClient = <<>> /\ reply = <<>> /\ taken = <<>>
    /\ pc = "write" <=> toWrite # <<>>
    /\ pc \in {"write", "answer"} => Accepted(line) /\ told = Nothing
    /\ server = "up" =>
         IF pc \in {"write", "answer"}
         THEN (request \o toServer) \o toWrite = Request(Asked(line))
         ELSE request = <<>> /\ toServer = <<>>

EndCode == <<Code(ANS_END)>>

\* The pairs of a listing from the k-th on.
From(pairs, k) == SubSeq(pairs, k, Len(pairs))

\* What the client has yet to read, by the place it is at.
Coming ==
  CASE pc = "answer" -> Reply(performed)
    [] pc = "response" -> Body(performed) \o EndCode
    [] pc = "errorCode" -> <<Code(performed.code)>> \o EndCode
    [] pc = "count" -> Listing(Listed(performed)) \o EndCode
    [] pc = "id" -> Entries(From(Listed(performed), Len(taken) + 1)) \o EndCode
    [] pc = "name" ->
         <<String(Listed(performed)[Len(taken)][2])>> \o
           (Entries(From(Listed(performed), Len(taken) + 1)) \o EndCode)
    [] pc = "fields" ->
         [i \in 1..(3 - Len(taken)) |->
            String(performed.result[Len(taken) + i])] \o EndCode
    [] pc \in {"flush", "end"} -> EndCode
    [] OTHER -> <<>>

\* The commands whose answer is read at a place.
Reading ==
  CASE pc \in {"answer", "end", "prompt", "quit", "exited"} -> DOMAIN Parameter
    [] pc \in {"response", "errorCode"} -> DOMAIN Parameter \ {"listNewsGroups"}
    [] pc \in {"count", "id", "name"} -> {"listNewsGroups", "listArticles"}
    [] pc \in {"fields", "flush", "crashed"} -> {"getNewsArticle"}
    [] OTHER -> {}

\* What has been read of a listing or an article is its first part; of the
\* entry that is being read, the number.
TakenInv ==
  /\ pc \in {"answer", "response", "errorCode", "count", "flush"} =>
       taken = <<>>
  /\ pc \in {"id", "name"} =>
       /\ Len(taken) <= Len(Listed(performed))
       /\ left = Len(Listed(performed)) - Len(taken)
                  + IF pc = "name" THEN 1 ELSE 0
       /\ left > 0
       /\ \A i \in DOMAIN taken :
            taken[i] = IF pc = "name" /\ i = Len(taken)
                       THEN <<Listed(performed)[i][1]>>
                       ELSE Listed(performed)[i]
       /\ pc = "name" => taken # <<>>
  /\ pc = "fields" =>
       /\ Len(taken) < 3
       /\ \A i \in DOMAIN taken : taken[i] = performed.result[i]
  /\ pc = "end" /\ performed.code = ANS_ACK =>
       /\ IsListCommand(Command) => taken = Listed(performed)
       /\ Command = "getNewsArticle" => taken = performed.result

\* What the user has been told by the time the client is at a place.
ToldInv ==
  /\ pc \in {"count", "id", "name", "fields"} => performed.code = ANS_ACK
  /\ pc \in {"errorCode", "flush"} => performed.code # ANS_ACK
  /\ pc \in {"answer", "response", "count", "id", "name", "fields",
             "errorCode", "crashed"} => told = Nothing
  /\ pc = "flush" => told = Verdict("refused", performed.code, <<>>)
  /\ pc = "end" =>
       told = IF \/ performed.code = EMFILE
                 \/ /\ performed.code = ANS_ACK
                    /\ IsListCommand(Command) \/ Command = "getNewsArticle"
              THEN Nothing
              ELSE Verdict(IF performed.code = ANS_ACK THEN "done"
                           ELSE "refused", performed.code, <<>>)
  /\ pc = "end" /\ Command = "getNewsArticle" => performed.code = ANS_ACK

\* Once it has, everything of the request has been read, and what the server
\* has yet to write and what is on the wire are together what the client has
\* yet to read.
TellingInv ==
  performed # Db!NoCall =>
    /\ Accepted(line)
    /\ performed.call = Asked(line)
    /\ IsAnswer(performed)
    /\ toServer = <<>> /\ request = <<>> /\ toWrite = <<>>
    /\ Command \in Reading
    /\ pc # "exited" => toClient \o reply = Coming
    /\ TakenInv /\ ToldInv

\* The invariants of Session, and what makes them inductive.
IInv ==
  /\ SequencesInv /\ NumbersInv /\ AskingInv /\ TellingInv
  /\ ToldTheTruth /\ AnswersReachTheUser

===============================================================================
