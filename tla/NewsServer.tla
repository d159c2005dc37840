------------------------------ MODULE NewsServer ------------------------------
(***************************************************************************)
(* The server process: the loop of news_server.cc over Server (server.cc)  *)
(* and Connection (connection.cc), and the clients it talks to.            *)
(*                                                                         *)
(* The process has one thread.  It waits until some socket is readable,    *)
(* then either accepts a new client or reads one whole request from one    *)
(* client, blocking in read for as long as the client makes it wait; calls *)
(* the news store; answers; and waits again.                               *)
(*                                                                         *)
(* A request crosses the wire in two pieces, everything up to COM_END and  *)
(* COM_END, so that a client can stop between them.  A byte the server     *)
(* does not expect there is a piece of its own.  An answer is as many      *)
(* pieces as the code writes in a row before it could have to wait for the *)
(* client to read: two are enough for a client to stop between them.       *)
(*                                                                         *)
(* Sockets and the directories the store leaves open draw on one supply of *)
(* descriptors.  When accept finds none left the process ends.             *)
(***************************************************************************)
EXTENDS OrderedMap, Protocol

CONSTANTS
  Clients,
  Requests,      \* the calls of dbinterface clients ask for
  Titles, Authors, Texts, Ids,   \* as in NewsStore
  NoOne, NoRequest,              \* values that are no client, no request
  Unexpected,                    \* a byte that is no command, nor COM_END
  Descriptors,                   \* for clients and the store together
  Kept,                          \* how many a call may leave open
  Room                           \* pieces of answers a client's socket holds

ASSUME NoOneAssumption == NoOne \notin Clients
ASSUME DescriptorsAssumption == Descriptors \in Nat \ {0}
ASSUME KeptAssumption == Kept \in SUBSET Nat
ASSUME RoomAssumption == Room \in Nat \ {0}

VARIABLES
  link,           \* "none", "open", "left" (by the client), "dropped"
  phase,          \* of a client: "idle", "sending", or "waiting" for an answer
  asked,          \* the request a client is sending or has sent
  toServer,       \* the pieces a client sent that are not yet read
  toClient,       \* the pieces of its answer a client has not yet read
  backlog,        \* clients that wait for accept
  pending_socket, \* the client accepted and not yet registered
  connections,    \* the registered clients, in order of registration
  pc,             \* where the loop is
  conn,           \* the client whose request is being read
  request,        \* what has been read of it
  unsent,         \* what of its answer is still to be written
  leaked,         \* descriptors of directories the store has left open
  database,       \* what db points to: "intact" or "gone"
  groups, answer  \* the news store (NewsStore)

clientVars == <<link, phase, asked>>
serverVars == <<backlog, pending_socket, connections, pc, conn, request, unsent>>
storeVars == <<leaked, database, groups, answer>>
vars == <<clientVars, toServer, toClient, serverVars, storeVars>>

Db == INSTANCE NewsStore

END == <<"COM_END">>

ASSUME RequestsAssumption ==
  /\ Requests \subseteq Db!Calls
  /\ NoRequest # Unexpected
  /\ {NoRequest, Unexpected} \cap (Requests \cup {END}) = {}

\* The object db points to lives in a block that main has left when the loop
\* starts: whether it is still intact depends on the build.
Pointee == {"intact", "gone"}

\* The server listens; nobody has connected.
Init ==
  /\ link = [c \in Clients |-> "none"]
  /\ phase = [c \in Clients |-> "idle"]
  /\ asked = [c \in Clients |-> NoRequest]
  /\ toServer = [c \in Clients |-> <<>>]
  /\ toClient = [c \in Clients |-> <<>>]
  /\ backlog = <<>>
  /\ pending_socket = NoOne
  /\ connections = <<>>
  /\ pc = "waitForActivity"
  /\ conn = NoOne
  /\ request = NoRequest
  /\ unsent = <<>>
  /\ leaked = 0
  /\ database \in Pointee
  /\ Db!Init

-------------------------------------------------------------------------------
(* Clients.  A client sends one request and waits for its answer. *)

Connect(c) ==
  /\ link[c] = "none"
  /\ pc \notin {"exited", "crashed"}
  /\ link' = [link EXCEPT ![c] = "open"]
  /\ backlog' = Append(backlog, c)
  /\ UNCHANGED <<phase, asked, toServer, toClient, pending_socket, connections,
                 pc, conn, request, unsent, storeVars>>

Sends(c, piece, next) ==
  /\ link[c] = "open"
  /\ toServer' = [toServer EXCEPT ![c] = Append(@, piece)]
  /\ phase' = [phase EXCEPT ![c] = next]
  /\ UNCHANGED <<link, toClient, serverVars, storeVars>>

Ask(c, r) ==
  /\ phase[c] = "idle"
  /\ asked' = [asked EXCEPT ![c] = r]
  /\ Sends(c, r, "sending")

Finish(c) ==
  /\ phase[c] = "sending"
  /\ Sends(c, END, "waiting")
  /\ UNCHANGED asked

\* Some other program than the news client: it sends what the server does
\* not expect, and waits.
Stray(c) ==
  /\ phase[c] # "waiting"
  /\ asked' = [asked EXCEPT ![c] = NoRequest]
  /\ Sends(c, Unexpected, "waiting")

Receive(c) ==
  /\ link[c] \in {"open", "dropped"}
  /\ toClient[c] # <<>>
  /\ toClient' = [toClient EXCEPT ![c] = Tail(@)]
  /\ IF Head(toClient[c]).part = "end"
     THEN /\ phase' = [phase EXCEPT ![c] = "idle"]
          /\ asked' = [asked EXCEPT ![c] = NoRequest]
     ELSE UNCHANGED <<phase, asked>>
  /\ UNCHANGED <<link, toServer, serverVars, storeVars>>

\* The user quits, or the client's process ends, whatever it was doing.
Leave(c) ==
  /\ link[c] = "open"
  /\ link' = [link EXCEPT ![c] = "left"]
  /\ toClient' = [toClient EXCEPT ![c] = <<>>]
  /\ UNCHANGED <<phase, asked, toServer, serverVars, storeVars>>

-------------------------------------------------------------------------------
(* Server::waitForActivity and the registration that follows. *)

\* The process ends, of itself or not, and its sockets are closed.
Ends(how) ==
  /\ pc' = how
  /\ link' = [c \in Clients |-> IF link[c] = "open" THEN "dropped" ELSE link[c]]
  /\ toServer' = [c \in Clients |-> <<>>]
  /\ backlog' = <<>> /\ connections' = <<>> /\ pending_socket' = NoOne
  /\ conn' = NoOne /\ request' = NoRequest /\ unsent' = <<>>
  /\ UNCHANGED <<phase, asked, toClient, storeVars>>

Free == Descriptors - Len(connections) - leaked

\* accept, which fails when no descriptor is left: error() ends the process.
AcceptNext ==
  /\ pc = "waitForActivity"
  /\ backlog # <<>>
  /\ \/ /\ Free = 0
        /\ Ends("exited")
     \/ /\ Free > 0
        /\ pending_socket' = Head(backlog)
        /\ backlog' = Tail(backlog)
        /\ pc' = "registerConnection"
        /\ UNCHANGED <<clientVars, toServer, toClient, connections, conn,
                       request, unsent, storeVars>>

\* A socket is readable when something was sent or its other end is closed.
Readable(c) == toServer[c] # <<>> \/ link[c] = "left"

\* A mutant of Accept: the listening socket comes after every client.
AcceptLast ==
  /\ \A i \in DOMAIN connections : ~Readable(connections[i])
  /\ AcceptNext

\* The listening socket comes before every client.
Accept == AcceptNext

Registers(still) ==
  /\ pc = "registerConnection"
  /\ connections' = Append(connections, pending_socket)
  /\ pending_socket' = still
  /\ pc' = "waitForActivity"
  /\ UNCHANGED <<clientVars, toServer, toClient, backlog, conn, request, unsent,
                 storeVars>>

\* A mutant of RegisterConnection: pending_socket is not reset.
RegisterAndKeep == Registers(pending_socket)

RegisterConnection == Registers(NoOne)

Serves(c) ==
  /\ pc = "waitForActivity"
  /\ backlog = <<>>
  /\ Readable(c)
  /\ conn' = c
  /\ pc' = "readCommand"
  /\ UNCHANGED <<clientVars, toServer, toClient, backlog, pending_socket,
                 connections, request, unsent, storeVars>>

\* A mutant of Ready: the last readable client in the order of registration.
ReadyLast ==
  \E i \in DOMAIN connections :
    /\ \A j \in (i + 1)..Len(connections) : ~Readable(connections[j])
    /\ Serves(connections[i])

\* find_if: the first readable client in the order of registration.
Ready ==
  \E i \in DOMAIN connections :
    /\ \A j \in 1..(i - 1) : ~Readable(connections[j])
    /\ Serves(connections[i])

-------------------------------------------------------------------------------
(* The body of the loop: one request of one client. *)

Drops(registered, read) ==
  /\ connections' = registered
  /\ toServer' = [toServer EXCEPT ![conn] = <<>>]
  /\ link' = [link EXCEPT ![conn] = IF @ = "left" THEN "left" ELSE "dropped"]
  /\ pc' = "waitForActivity"
  /\ conn' = NoOne
  /\ request' = read
  /\ UNCHANGED <<phase, asked, toClient, backlog, pending_socket, unsent,
                 storeVars>>

\* erase(remove(...)): the other registered clients, in the same order.
Others ==
  LET kept[n \in 0..Len(connections)] ==
        IF n = 0 THEN <<>>
        ELSE IF connections[n] = conn THEN kept[n - 1]
        ELSE Append(kept[n - 1], connections[n])
  IN  kept[Len(connections)]

\* Mutants of DeregisterConnection: the client stays registered; what was
\* read of its request is kept.
DeregisterNobody == Drops(connections, NoRequest)
DeregisterAndKeep == Drops(Others, request)

\* ConnectionClosedException: read at the end of the stream, an unknown
\* command, or no COM_END.  The last reference to the Connection closes it.
DeregisterConnection == Drops(Others, NoRequest)

\* The next piece of the client's stream is there, or the stream has ended.
EndOfStream == toServer[conn] = <<>> /\ link[conn] = "left"

\* A mutant of NextIs: whatever comes is taken for what should come.
NextIsAnything(pieces) == toServer[conn] # <<>>

NextIs(pieces) == toServer[conn] # <<>> /\ Head(toServer[conn]) \in pieces

ReadCommand ==
  /\ pc = "readCommand"
  /\ \/ /\ EndOfStream \/ NextIs({Unexpected, END})
        /\ DeregisterConnection
     \/ /\ NextIs(Requests)
        /\ request' = Head(toServer[conn])
        /\ toServer' = [toServer EXCEPT ![conn] = Tail(@)]
        /\ pc' = "readEnd"
        /\ UNCHANGED <<clientVars, toClient, backlog, pending_socket,
                       connections, conn, unsent, storeVars>>

\* What goes back; "for" is history, the request it answers.
Reply(a) ==
  LET piece(part) ==
        [part |-> part, ans |-> AnswerCode[a.call[1]],
         ack |-> IF a.code = ANS_ACK THEN ANS_ACK ELSE ANS_NAK,
         code |-> a.code, result |-> a.result, for |-> a.call]
  IN  <<piece("start"), piece("end")>>

\* The store is there, and has what it needs: dbondisk opens up to two
\* directories, and may leave some open.
Performs ==
  /\ database = "intact"
  /\ Db!Perform(request)
  /\ \E k \in Kept : k <= Free /\ leaked' = leaked + k
  /\ UNCHANGED database

\* db points to nothing any more, or dbondisk reads a null DIR.
StoreFails == database = "gone" \/ (Free < 2 /\ Kept # {0})

ReadEnd ==
  /\ pc = "readEnd"
  /\ \/ /\ EndOfStream \/ NextIs({Unexpected} \cup Requests)
        /\ DeregisterConnection
     \/ /\ NextIs({END})
        /\ StoreFails
        /\ Ends("crashed")
     \/ /\ NextIs({END})
        /\ Performs
        /\ unsent' = Reply(answer')
        /\ toServer' = [toServer EXCEPT ![conn] = Tail(@)]
        /\ pc' = "answer"
        /\ request' = NoRequest
        /\ UNCHANGED <<clientVars, toClient, backlog, pending_socket,
                       connections, conn>>

Sending(c) ==
  /\ link[c] = "open" => Len(toClient[c]) < Room
  /\ toClient' = [toClient EXCEPT ![c] =
                    IF link[c] = "open" THEN Append(@, Head(unsent)) ELSE @]

\* A mutant of Send: the answer goes to the client registered first.
SendToFirst == Sending(connections[1])

\* sendByte waits while the client's socket is full.  It reports a failed
\* write and goes on: an answer to a client that has left is lost, and the
\* server finds out at its next read.
Send == Sending(conn)

Answer ==
  /\ pc = "answer"
  /\ Send
  /\ unsent' = Tail(unsent)
  /\ IF Len(unsent) = 1 THEN pc' = "waitForActivity" /\ conn' = NoOne
     ELSE UNCHANGED <<pc, conn>>
  /\ UNCHANGED <<clientVars, toServer, backlog, pending_socket, connections,
                 request, storeVars>>

Serve == Accept \/ RegisterConnection \/ Ready \/ ReadCommand \/ ReadEnd \/ Answer

Next ==
  \/ Serve
  \/ \E c \in Clients :
       \/ Connect(c) \/ Finish(c) \/ Stray(c) \/ Receive(c) \/ Leave(c)
       \/ \E r \in Requests : Ask(c, r)

Spec == Init /\ [][Next]_vars

\* The process keeps running; a client that has started to send a request
\* sends the rest of it, and reads all of its answer (commandhandler.cc does
\* not stop in between), unless it leaves.
Fairness ==
  /\ WF_vars(Serve)
  /\ \A c \in Clients : WF_vars(Finish(c)) /\ WF_vars(Receive(c))

FairSpec == Spec /\ Fairness

-------------------------------------------------------------------------------
Occurs(c, seq) == \E i \in DOMAIN seq : seq[i] = c

\* What of its answer a client has yet to read.
Coming(c) ==
  toClient[c] \o (IF conn = c /\ link[c] = "open" THEN unsent ELSE <<>>)

\* Values keep the shapes the declarations give them, and conn and request
\* are set while the loop's body uses them.
TypeOK ==
  /\ link \in [Clients -> {"none", "open", "left", "dropped"}]
  /\ phase \in [Clients -> {"idle", "sending", "waiting"}]
  /\ asked \in [Clients -> Requests \cup {NoRequest}]
  /\ toServer \in [Clients -> Seq(Requests \cup {END, Unexpected})]
  /\ toClient \in [Clients -> {toClient[c] : c \in Clients}]
  /\ pending_socket \in Clients \cup {NoOne}
  /\ pc \in {"waitForActivity", "registerConnection", "readCommand", "readEnd",
             "answer", "exited", "crashed"}
  /\ conn \in IF pc \in {"readCommand", "readEnd", "answer"} THEN Clients
              ELSE {NoOne}
  /\ request \in Requests \cup {NoRequest}
  /\ pc = "readEnd" <=> request # NoRequest
  /\ pc = "answer" <=> unsent # <<>>
  /\ leaked \in 0..Descriptors

\* A client that is connected is known to the server in exactly one place:
\* it waits for accept, for its registration, or is registered once; and a
\* client the server dropped is known nowhere.
KnownOnce ==
  \A c \in Clients :
    LET places == {<<"backlog", i>> : i \in {i \in DOMAIN backlog : backlog[i] = c}}
             \cup {<<"connections", i>> :
                      i \in {i \in DOMAIN connections : connections[i] = c}}
             \cup (IF pending_socket = c THEN {<<"pending", 1>>} ELSE {})
    IN  /\ link[c] = "open" => Cardinality(places) = 1
        /\ link[c] = "left" => Cardinality(places) <= 1
        /\ link[c] \in {"none", "dropped"} => places = {}

\* None of the conditions holds that Server::error() ends the process for:
\* a client accepted while another waits to be registered, a registration
\* with no one to register, an activity no registered client accounts for.
NoServerError ==
  /\ pc = "waitForActivity" => pending_socket = NoOne
  /\ pc = "registerConnection" => pending_socket # NoOne
  /\ pc \in {"readCommand", "readEnd", "answer"} => Occurs(conn, connections)

\* The answer a client reads is the one to its own last request, whatever
\* the others asked meanwhile; there is only one; and it is never cut short
\* while its client is there.
AnswersAreAwaited ==
  \A c \in Clients :
    /\ toClient[c] # <<>> => phase[c] = "waiting"
    /\ \A i \in DOMAIN toClient[c] :
         /\ toClient[c][i].for = asked[c]
         /\ toClient[c][i].part = "end" <=> i = Len(Coming(c))
    /\ link[c] = "open" /\ toClient[c] # <<>> =>
         Last(Coming(c)).part = "end"

\* error() ends the process for want of a descriptor only when all of them
\* are in use: by clients that are there, or that left and whose turn has not
\* come, and by the store.  Clients the server has dropped hold none, however
\* many have come and gone.
ExitsOnlyWhenFull ==
  [][ pc' = "exited" /\ pc # "exited" =>
        Cardinality({c \in Clients : /\ link[c] \in {"open", "left"}
                                     /\ Occurs(c, connections)})
          + leaked = Descriptors ]_vars

\* A request the store has not been asked for, or not completely, changes
\* nothing: the store moves only on a request its client has sent in full.
OnlyCompleteRequests ==
  [][ <<groups, answer>>' # <<groups, answer>> =>
        /\ phase[conn] = "waiting"
        /\ answer'.call = asked[conn] ]_vars

\* The server that was started serves the commands it is sent (README.md of
\* the hand-in).
ServerSurvives == pc # "crashed"

Ended == pc \in {"exited", "crashed"}

\* Every client that connects is registered, however busy the others are.
ConnectsAreAccepted ==
  \A c \in Clients : Occurs(c, backlog) ~> (Occurs(c, connections) \/ Ended)

Awaits(c) == link[c] = "open" /\ phase[c] = "waiting" /\ asked[c] \in Requests
Settled(c) == phase[c] = "idle" \/ link[c] # "open"

\* Some client registered before c, or any when c is not registered, has
\* something for the server to read.
EarlierReadable(c) ==
  \E i \in DOMAIN connections :
    /\ \A j \in 1..i : connections[j] # c
    /\ Readable(connections[i])

\* A request that was sent in full is answered in full unless the clients
\* registered earlier keep the server busy for ever.
AnsweredUnlessOvertaken ==
  \A c \in Clients : <>[]~EarlierReadable(c) => (Awaits(c) ~> Settled(c))

-------------------------------------------------------------------------------
(* The inductive invariant: where clients are known, how far each request   *)
(* has come, and how much of each answer.                                   *)

Known(c) ==
  Occurs(c, backlog) \/ Occurs(c, connections) \/ pending_socket = c

\* Clients that are there are known, once, and hold no more descriptors than
\* there are.
KnownInv ==
  /\ backlog \in Seq(Clients) /\ IsInjective(backlog)
  /\ connections \in Seq(Clients) /\ IsInjective(connections)
  /\ \A c \in Clients :
       /\ ~(Occurs(c, backlog) /\ Occurs(c, connections))
       /\ pending_socket = c => ~Occurs(c, backlog) /\ ~Occurs(c, connections)
       /\ link[c] = "open" => Known(c)
       /\ Known(c) => link[c] \in {"open", "left"}
  /\ NoServerError
  /\ pc = "registerConnection" <=> pending_socket # NoOne
  /\ Len(connections) + leaked + (IF pending_socket = NoOne THEN 0 ELSE 1)
       <= Descriptors

Reading(c) == pc = "readEnd" /\ conn = c
Answering(c) == pc = "answer" /\ conn = c

\* How much of what c sends is in its socket, and in request.
RequestInv(c) ==
  /\ link[c] = "none" => phase[c] = "idle"
  /\ \/ /\ phase[c] = "idle" => asked[c] = NoRequest
        /\ phase[c] = "sending" =>
             link[c] \in {"left", "dropped"} /\ asked[c] \in Requests
        /\ toServer[c] = <<>> /\ ~Reading(c)
     \/ /\ phase[c] = "sending" /\ asked[c] \in Requests
        /\ \/ ~Reading(c) /\ toServer[c] = <<asked[c]>>
           \/ Reading(c) /\ request = asked[c] /\ toServer[c] = <<>>
     \/ /\ phase[c] = "waiting" /\ asked[c] \in Requests
        /\ \/ ~Reading(c) /\ toServer[c] = <<asked[c], END>>
           \/ Reading(c) /\ request = asked[c] /\ toServer[c] = <<END>>
     \/ /\ phase[c] = "waiting" /\ asked[c] = NoRequest
        /\ \/ toServer[c] = <<Unexpected>>
           \/ ~Reading(c) /\ \E r \in Requests : toServer[c] = <<r, Unexpected>>

One(s) == Len(s) = 1 /\ s = <<s[1]>>
Two(s) == Len(s) = 2 /\ s = <<s[1], s[2]>>

IsPiece(p, part, r) == p.part = part /\ p.for = r

\* The two pieces of an answer, or what is left of them.
RestOfAnswer(s, r) ==
  \/ One(s) /\ IsPiece(s[1], "end", r)
  \/ /\ Two(s) /\ IsPiece(s[1], "start", r) /\ IsPiece(s[2], "end", r)
     /\ s[1].code = s[2].code /\ s[1].result = s[2].result

\* How much of the answer to c is written, and read.
AnswerInv(c) ==
  /\ IF ~Answering(c)
     THEN toClient[c] = <<>> \/ RestOfAnswer(toClient[c], asked[c])
     ELSE \/ toClient[c] = <<>> /\ RestOfAnswer(unsent, asked[c])
          \/ /\ One(toClient[c]) /\ One(unsent)
             /\ RestOfAnswer(<<toClient[c][1], unsent[1]>>, asked[c])
  /\ Answering(c) \/ toClient[c] # <<>> =>
       /\ phase[c] = "waiting" /\ asked[c] \in Requests
       /\ toServer[c] = <<>> /\ ~Reading(c)
  /\ link[c] \in {"none", "left"} => toClient[c] = <<>>

IInv ==
  /\ TypeOK
  /\ KnownInv
  /\ \A c \in Clients : RequestInv(c) /\ AnswerInv(c)

-------------------------------------------------------------------------------
(* The refinement: what of a client's request is still to be carried out is *)
(* on its way to the server, or being read.                                 *)

Outstanding(c) ==
  CASE conn = c /\ request # NoRequest -> request
    [] toServer[c] # <<>> /\ Head(toServer[c]) \in Requests -> Head(toServer[c])
    [] OTHER -> NoRequest

\* An answer that is on its way, in whatever pieces.
Inbox(c) ==
  IF Coming(c) = <<>> THEN <<>>
  ELSE LET a == Coming(c)[1]
       IN  <<Db!Answer(a.for, a.code, a.result)>>

Service == INSTANCE NewsService
  WITH present <- {c \in Clients : link[c] = "open"},
       outstanding <- [c \in Clients |-> Outstanding(c)],
       inbox <- [c \in Clients |-> Inbox(c)]

\* Requests that come in pieces, are read with blocking reads, and are cut off
\* by clients that leave, are carried out as if in one step each.
ImplementsNewsService == Service!Spec

===============================================================================
