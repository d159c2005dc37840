------------------------------ MODULE NewsService ------------------------------
(***************************************************************************)
(* What the server process promises its clients: every request of a        *)
(* client that is there is carried out by the store in one step, between   *)
(* the moment it is sent and the moment its answer can be read, at most    *)
(* once; the answer goes to that client and nobody else; and a request     *)
(* whose connection ends first is carried out in full or not at all.       *)
(*                                                                         *)
(* Nothing is said of sockets, of the order clients are served in, or of   *)
(* the pieces a request comes in.  NewsServer is shown to implement it.    *)
(***************************************************************************)
EXTENDS OrderedMap, Protocol

CONSTANTS
  Clients,
  Requests,                      \* the calls of dbinterface clients ask for
  Titles, Authors, Texts, Ids,   \* as in NewsStore
  NoRequest                      \* a value that is no request

VARIABLES
  present,      \* clients whose connection stands
  outstanding,  \* the request of a client that is not yet carried out
  inbox,        \* the answer a client has not yet read
  groups, answer  \* the news store (NewsStore)

vars == <<present, outstanding, inbox, groups, answer>>

Db == INSTANCE NewsStore

Init ==
  /\ present = {}
  /\ outstanding = [c \in Clients |-> NoRequest]
  /\ inbox = [c \in Clients |-> <<>>]
  /\ Db!Init

Arrive(c) ==
  /\ present' = present \cup {c}
  /\ UNCHANGED <<outstanding, inbox, groups, answer>>

Ask(c, r) ==
  /\ c \in present
  /\ outstanding[c] = NoRequest /\ inbox[c] = <<>>
  /\ outstanding' = [outstanding EXCEPT ![c] = r]
  /\ UNCHANGED <<present, inbox, groups, answer>>

Serve(c) ==
  /\ outstanding[c] # NoRequest
  /\ Db!Perform(outstanding[c])
  /\ outstanding' = [outstanding EXCEPT ![c] = NoRequest]
  /\ inbox' = [inbox EXCEPT ![c] = IF c \in present THEN <<answer'>> ELSE @]
  /\ UNCHANGED present

Receive(c) ==
  /\ inbox' = [inbox EXCEPT ![c] = <<>>]
  /\ UNCHANGED <<present, outstanding, groups, answer>>

\* The client goes; what it has asked for may still be carried out.
Leave(c) ==
  /\ present' = present \ {c}
  /\ inbox' = [inbox EXCEPT ![c] = <<>>]
  /\ UNCHANGED <<outstanding, groups, answer>>

\* The service gives clients up, one of them or, when it ends, all; what they
\* asked for is not carried out.
GiveUp(gone) ==
  /\ present' = present \ gone
  /\ outstanding' = [c \in Clients |->
                       IF c \in gone THEN NoRequest ELSE outstanding[c]]
  /\ UNCHANGED <<inbox, groups, answer>>

Next ==
  \/ \E c \in Clients :
       \/ Arrive(c) \/ Serve(c) \/ Receive(c) \/ Leave(c) \/ GiveUp({c})
       \/ \E r \in Requests : Ask(c, r)
  \/ GiveUp(Clients)

Spec == Init /\ [][Next]_vars

===============================================================================
