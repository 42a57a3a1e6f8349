----------------------------- MODULE HttpRelay ------------------------------
(***************************************************************************)
(* The relay with HTTP transport (src/src/http/http_relay.cc), its clients *)
(* (src/src/http/http_client.cc) and the parser of HTTP messages that both *)
(* use (src/src/http/http.cc).                                             *)
(*                                                                         *)
(* One thread accepts a connection, reads one message from it, handles it, *)
(* answers and closes, and only then accepts the next.  A post is its      *)
(* header, one unit, and a body of bytes that reach the relay in pieces;   *)
(* how many of them come in the same read as the end of the header is up   *)
(* to the network.  A body handed on before its last byte is no JSON.      *)
(*                                                                         *)
(* A save may fail without a word, and the relay may end at any moment, in *)
(* the middle of a save too, and be started again, which empties the file. *)
(* A save that nothing cuts short is one step here: SharedFile and Vostro  *)
(* look inside it.                                                         *)
(***************************************************************************)
EXTENDS Database, SequencesExt

CONSTANTS
  Client,       \* the client processes
  Program,      \* the posts each one makes, in order
  InitFiles,    \* what database.json may be when the relay starts
  Word          \* 2^64: size_t counts modulo this

\* A post: the number in its Content-Length line (0 when it has none), the
\* bytes of body that are really sent, and the message they spell.
Posts == UNION {Range(Program[c]) : c \in Client}

ASSUME HttpAssumption ==
  /\ Word \in Nat \ {0}
  /\ \A c \in Client : Len(Program[c]) \in Nat \ {0} /\ DOMAIN Program[c] = 1..Len(Program[c])
  /\ \A p \in Posts : /\ p.length \in 0..(Word - 1) /\ p.size \in 0..(Word - 1)
                     /\ IsClientMessage(p.msg)
  /\ \A f \in InitFiles : IsFile(f)

VARIABLES
  file, database,   \* database.json and the relay's vector
  backlog,          \* connections that wait for accept
  pc,               \* the relay: "down", "save", "accept", "header", "body"
  cur,              \* the connection it reads, as a set of at most one client
  got,              \* bytes of body in http::parse's string
  left,             \* read_left
  cl,               \* each client: "idle", "open" (connected), "done", "killed"
  turn,             \* the post it is at
  out, arrived,     \* units of it not yet sent; sent and not yet read
  inbox,            \* the relay's answer, on its way
  shut,             \* the relay has closed the connection
  \* history, for the properties:
  dirty,            \* the last append did not reach the file
  acked,            \* the events a 200 was sent for since the relay's start
  broken            \* the clients whose connection the relay's end broke off

store == <<file, database, dirty, acked>>
relay == <<store, pc, cur, got, left>>
clients == <<cl, turn, broken>>
vars == <<relay, backlog, clients, out, arrived, inbox, shut>>

PostOf(c) == Program[c][turn[c]]

Ok == [type |-> "200"]
Events(s) == [type |-> "events", events |-> s]
Silence == [type |-> "closed"]

Init ==
  /\ file \in InitFiles /\ database = <<>>
  /\ backlog = <<>> /\ pc = "save" /\ cur = {} /\ got = 0 /\ left = 0
  /\ cl = [c \in Client |-> "idle"]
  /\ turn = [c \in Client |-> 1]
  /\ out = [c \in Client |-> 0]
  /\ arrived = [c \in Client |-> 0]
  /\ inbox = [c \in Client |-> <<>>]
  /\ shut = [c \in Client |-> FALSE]
  /\ dirty = FALSE /\ acked = {} /\ broken = {}

----------------------------------------------------------------------------
(* The relay *)

\* What database::save and append of the events s may make of the file, for
\* they return 0 all the same: an ofstream that does not open leaves it as it
\* was, and one that fails later leaves a text that is no JSON.
Saves(s) == {dump(s), file, NoJson}

\* main is entered: the vector is empty.
Restart ==
  /\ pc = "down"
  /\ pc' = "save"
  /\ UNCHANGED <<store, cur, got, left, backlog, clients, out, arrived, inbox, shut>>

\* main: database::save of the empty vector, then the acceptor.
StartEmpty ==
  /\ pc = "save"
  /\ file' \in Saves(database)
  /\ pc' = "accept"
  /\ UNCHANGED <<database, dirty, acked, cur, got, left, backlog, clients, out, arrived, inbox, shut>>

Accept ==
  /\ pc = "accept" /\ backlog # <<>>
  /\ cur' = {Head(backlog)} /\ backlog' = Tail(backlog)
  /\ pc' = "header"
  /\ UNCHANGED <<store, got, left, clients, out, arrived, inbox, shut>>

\* A peer that is gone: remote_endpoint throws.
AcceptGone ==
  /\ pc = "accept" /\ backlog # <<>>
  /\ cl[Head(backlog)] = "killed"
  /\ backlog' = Tail(backlog)
  /\ UNCHANGED <<relay, clients, out, arrived, inbox, shut>>

\* The end of the loop's body: the socket is destroyed.  What the relay has
\* not read makes the close a reset, which may overtake the answer.
Close(c, answer) ==
  /\ pc' = "accept" /\ cur' = {} /\ got' = 0 /\ left' = 0
  /\ shut' = [shut EXCEPT ![c] = TRUE]
  /\ \/ inbox' = [inbox EXCEPT ![c] = answer]
     \/ arrived[c] + out[c] > 0 /\ UNCHANGED inbox

\* Mutant: a signed subtraction.
ReadSigned(length, k) == length - k
\* Mutant: what is already there is not taken off.
ReadAll(length, k) == length
\* Mutant: the subtraction stops at zero.
ReadAtLeastZero(length, k) == IF k > length THEN 0 ELSE length - k

\* read_left, with k bytes of the body read along with the header.
ReadLeft(length, k) == IF k > 0 THEN (length - k) % Word ELSE length

\* Mutant: the stream buffer's rest is dropped with the header.
ReadHeaderOnly(c) ==
  /\ pc = "header" /\ arrived[c] > 0
  /\ \E k \in 0..(arrived[c] - 1) :
       /\ arrived' = [arrived EXCEPT ![c] = @ - 1 - k]
       /\ got' = 0 /\ left' = ReadLeft(PostOf(c).length, k)
  /\ pc' = "body" /\ UNCHANGED <<cur, shut, inbox>>
  /\ UNCHANGED <<store, backlog, clients, out>>

\* http::parse up to the second read; without a Content-Length the message is
\* empty, and json::parse throws.
ReadHeader(c) ==
  /\ pc = "header" /\ arrived[c] > 0
  /\ \E k \in 0..(arrived[c] - 1) :
       /\ arrived' = [arrived EXCEPT ![c] = @ - 1 - k]
       /\ \/ /\ PostOf(c).length # 0
             /\ got' = k /\ left' = ReadLeft(PostOf(c).length, k)
             /\ pc' = "body" /\ UNCHANGED <<cur, shut, inbox>>
          \/ PostOf(c).length = 0 /\ Close(c, <<>>)
  /\ UNCHANGED <<store, backlog, clients, out>>

\* asio::read, transfer_exactly(read_left): some of the bytes that are there.
ReadBody(c) ==
  /\ pc = "body" /\ left > 0
  /\ \E j \in 1..arrived[c] :
       /\ j <= left
       /\ arrived' = [arrived EXCEPT ![c] = @ - j]
       /\ got' = got + j /\ left' = left - j
  /\ UNCHANGED <<store, pc, cur, backlog, clients, out, inbox, shut>>

\* The end of the stream: http::parse returns -1 with an empty message, which
\* is only logged, and json::parse throws.
ReadFails(c) ==
  /\ pc = "header" \/ (pc = "body" /\ left > 0)
  /\ cl[c] = "killed" /\ arrived[c] = 0
  /\ Close(c, <<>>)
  /\ UNCHANGED <<store, backlog, clients, out, arrived>>

\* The body is in: the message it spells is JSON if nothing is missing.
Received(c) == pc = "body" /\ left = 0 /\ got = PostOf(c).size

\* Mutant: the vector is saved before the event joins it.
HandleEventLate(c) ==
  LET m == PostOf(c).msg
      ev == parse_client_event(m)
  IN  /\ Received(c) /\ m.type = "EVENT" /\ EventReadable(m.ev)
      /\ database' = Append(database, ev) /\ acked' = acked \cup {ev}
      /\ file' \in Saves(read(file) \o database)
      /\ dirty' = (file' # dump(read(file) \o database))
      /\ Close(c, <<Ok>>)
      /\ UNCHANGED <<backlog, clients, out, arrived>>

\* Mutant: an event joins the vector before it has been read to its end.
HandleEventHalf(c) ==
  LET m == PostOf(c).msg
      ev == parse_client_event(m)
  IN  /\ Received(c) /\ m.type = "EVENT"
      /\ database' = Append(database, ev)
      /\ file' \in Saves(read(file) \o database')
      /\ dirty' = (file' # dump(read(file) \o database'))
      /\ acked' = IF EventReadable(m.ev) THEN acked \cup {ev} ELSE acked
      /\ Close(c, IF EventReadable(m.ev) THEN <<Ok>> ELSE <<>>)
      /\ UNCHANGED <<backlog, clients, out, arrived>>

\* EVENT: push_back, append of the whole vector, and an empty response,
\* whatever became of the append.
HandleEvent(c) ==
  LET m == PostOf(c).msg
      ev == parse_client_event(m)
  IN  /\ Received(c) /\ m.type = "EVENT" /\ EventReadable(m.ev)
      /\ database' = Append(database, ev) /\ acked' = acked \cup {ev}
      /\ file' \in Saves(read(file) \o database')
      /\ dirty' = (file' # dump(read(file) \o database'))
      /\ Close(c, <<Ok>>)
      /\ UNCHANGED <<backlog, clients, out, arrived>>

\* database::request: all the events that match, at their places in the file.
Matches(filter) ==
  LET s == read(file) IN [i \in request(s, Elems(filter.authors)) |-> s[i]]

\* The id and the whole filter can be read; js_message.at(2) throws when the
\* message has no third element.
RequestReadable(m) == m.id # Bad /\ "filter" \in DOMAIN m /\ ~FilterThrows(m.filter, 8)

\* REQ: every match, in one response.
HandleRequest(c) ==
  LET m == PostOf(c).msg
  IN  /\ Received(c) /\ m.type = "REQ" /\ RequestReadable(m)
      /\ Close(c, <<Events(Matches(parse_request(m).filter))>>)
      /\ UNCHANGED <<store, backlog, clients, out, arrived>>

\* No JSON, a message that cannot be read, or one of another type: no answer.
HandleNothing(c) ==
  LET m == PostOf(c).msg
  IN  /\ pc = "body" /\ left = 0
      /\ \/ got # PostOf(c).size
         \/ m.type = "EVENT" /\ ~EventReadable(m.ev)
         \/ m.type = "REQ" /\ ~RequestReadable(m)
         \/ m.type \notin {"EVENT", "REQ"}
      /\ Close(c, <<>>)
      /\ UNCHANGED <<store, backlog, clients, out, arrived>>

RelayStep ==
  \/ StartEmpty \/ Accept \/ AcceptGone
  \/ \E c \in cur : \/ ReadHeader(c) \/ ReadBody(c) \/ ReadFails(c)
                    \/ HandleEvent(c) \/ HandleRequest(c) \/ HandleNothing(c)

\* The file when the relay ends: in the middle of main's save, or of the
\* append for an EVENT, it may be left in any state of that save.
FileAtEnd ==
  IF pc = "save" THEN Saves(database)
  ELSE {file} \cup UNION {Saves(read(file) \o Append(database, parse_client_event(PostOf(c).msg))) :
                          c \in {b \in cur : /\ Received(b) /\ PostOf(b).msg.type = "EVENT"
                                             /\ EventReadable(PostOf(b).msg.ev)}}

\* A connection the relay has not closed.
Pending(c) == cl[c] \in {"open", "killed"} /\ ~shut[c]

\* The relay's process ends: the vector is gone, and every connection that
\* waits or is read breaks off.  Answers that were sent are on their way still.
Crash ==
  /\ pc # "down"
  /\ pc' = "down" /\ cur' = {} /\ got' = 0 /\ left' = 0 /\ backlog' = <<>>
  /\ file' \in FileAtEnd
  /\ database' = <<>> /\ dirty' = FALSE /\ acked' = {}
  /\ shut' = [c \in Client |-> shut[c] \/ Pending(c)]
  /\ broken' = broken \cup {c \in Client : Pending(c)}
  /\ UNCHANGED <<cl, turn, out, arrived, inbox>>

----------------------------------------------------------------------------
(* The clients *)

\* On to the next post, or to the end of main: an answer, or its absence, is
\* logged and no more.
Finish(c) ==
  /\ turn' = [turn EXCEPT ![c] = IF @ < Len(Program[c]) THEN @ + 1 ELSE @]
  /\ cl' = [cl EXCEPT ![c] = IF turn[c] < Len(Program[c]) THEN "idle" ELSE "done"]

\* The relay listens.
Up == pc \in {"accept", "header", "body"}

\* send: connect; the connection waits in the backlog.
Connect(c) ==
  /\ cl[c] = "idle" /\ Up
  /\ cl' = [cl EXCEPT ![c] = "open"]
  /\ backlog' = Append(backlog, c)
  /\ out' = [out EXCEPT ![c] = 1 + PostOf(c).size]
  /\ UNCHANGED <<relay, turn, broken, arrived, inbox, shut>>

\* connect throws; send returns 0 all the same.
ConnectFails(c) ==
  /\ cl[c] = "idle"
  /\ Finish(c)
  /\ UNCHANGED <<relay, backlog, broken, out, arrived, inbox, shut>>

\* asio::write; the network cuts the post into pieces.
Send(c) ==
  /\ cl[c] = "open" /\ out[c] > 0 /\ ~shut[c]
  /\ \E n \in 1..out[c] : /\ out' = [out EXCEPT ![c] = @ - n]
                          /\ arrived' = [arrived EXCEPT ![c] = @ + n]
  /\ UNCHANGED <<relay, backlog, clients, inbox, shut>>

\* What http::parse makes of a connection that is closed: the answer, or the
\* end of the stream without one.
Reply(c) == IF inbox[c] = <<>> THEN Silence ELSE inbox[c][1]

\* The answer is read and the socket closed.
Receive(c) ==
  /\ cl[c] = "open" /\ shut[c]
  /\ Finish(c)
  /\ out' = [out EXCEPT ![c] = 0] /\ arrived' = [arrived EXCEPT ![c] = 0]
  /\ inbox' = [inbox EXCEPT ![c] = <<>>]
  /\ shut' = [shut EXCEPT ![c] = FALSE] /\ broken' = broken \ {c}
  /\ UNCHANGED <<relay, backlog>>

\* The client's process ends while its connection is open.
Kill(c) ==
  /\ cl[c] = "open"
  /\ cl' = [cl EXCEPT ![c] = "killed"]
  /\ UNCHANGED <<relay, backlog, turn, broken, out, arrived, inbox, shut>>

\* A program that runs on: without a relay its connect fails.
ClientStep(c) == Connect(c) \/ (~Up /\ ConnectFails(c)) \/ Send(c) \/ Receive(c)

Next ==
  \/ RelayStep \/ Crash \/ Restart
  \/ \E c \in Client : ClientStep(c) \/ ConnectFails(c) \/ Kill(c)

\* The relay's thread and the clients' programs run on; nothing is assumed of
\* failures, nor that anybody starts the relay again.
Spec == /\ Init /\ [][Next]_vars
        /\ WF_vars(RelayStep) /\ \A c \in Client : WF_vars(ClientStep(c))

----------------------------------------------------------------------------
(* Properties *)

\* Types.
HttpTypeOK ==
  /\ IsFile(file) /\ database \in Seq(Event) /\ acked \subseteq Event /\ dirty \in BOOLEAN
  /\ pc \in {"down", "save", "accept", "header", "body"}
  /\ cur \subseteq Client /\ (cur # {} <=> pc \in {"header", "body"})
  /\ Range(backlog) \subseteq Client
  /\ got \in 0..(Word - 1) /\ left \in 0..(Word - 1)
  /\ cl \in [Client -> {"idle", "open", "done", "killed"}]
  /\ broken \subseteq Client /\ \A c \in Client : turn[c] \in 1..Len(Program[c])

\* Exactly the body (http.cc:146-162): what http::parse hands on has as many
\* bytes as Content-Length says, in whatever pieces it came and however much
\* more was sent.
ExactlyTheBody == pc = "body" /\ left = 0 => \A c \in cur : got = PostOf(c).length

IsWhole(p) == p.size = p.length /\ p.size > 0

\* The answer a post of its own length must get.
IsAnswer(r, m) ==
  CASE m.type = "EVENT" /\ EventReadable(m.ev) -> r.type = "200"
    [] m.type = "REQ" /\ RequestReadable(m)    -> r.type = "events"
    [] OTHER                                   -> r.type = "closed"

\* Pieces do not matter (http.cc:146-162, http_relay.cc:54-107): a client that
\* reached the relay with a body of the length it announced gets the answer to
\* its own message, and is never met with silence for how the network cut it,
\* but only when the relay ended with the connection open.
WholeIsAnswered ==
  \A c \in Client :
    cl[c] = "open" /\ shut[c] /\ IsWhole(PostOf(c)) =>
      IsAnswer(Reply(c), PostOf(c).msg) \/ (Reply(c) = Silence /\ c \in broken)

\* What is acknowledged is read (http_relay.cc:67-98, http_client.cc:43-56): the
\* events a REQ is answered with contain all those of its authors that any
\* client was sent a 200 for since the relay started, unless the last append
\* did not reach the file.  An append that did makes good all that failed
\* before it, and nothing other clients send, cut short or break off does harm.
AckedIsRead ==
  [][\A c \in Client :
       LET new == inbox'[c] IN
       new # inbox[c] /\ new # <<>> /\ new[1].type = "events" /\ ~dirty =>
         {ev \in acked : ev.pubkey \in Elems(parse_request(PostOf(c).msg).filter.authors)}
           \subseteq Elems(new[1].events)]_vars

\* Nobody waits forever but behind a lie (http_relay.cc:39-113): every client
\* gets through its program or is killed, however often the relay ends and
\* whether or not it is started again, unless it is for ever reading from one
\* that stays connected and sends another number of bytes than its
\* Content-Length says.
AllFinish ==
  \/ \E c \in Client : <>[](c \in cur /\ PostOf(c).size # PostOf(c).length)
  \/ \A c \in Client : <>(cl[c] \in {"done", "killed"})

\* What a post asks the relay for: only a body of its own length can be JSON.
JobOfPost(p) ==
  LET m == p.msg
  IN  CASE IsWhole(p) /\ m.type = "EVENT" /\ EventReadable(m.ev) ->
             [do |-> "put", ev |-> parse_client_event(m)]
        [] IsWhole(p) /\ m.type = "REQ" /\ RequestReadable(m) ->
             [do |-> "get", authors |-> Elems(parse_request(m).filter.authors)]
        [] OTHER -> [do |-> "nothing"]

Jobs == [c \in Client |-> [i \in 1..Len(Program[c]) |-> JobOfPost(Program[c][i])]]

\* A result without the order and the repetition of its events.
View(r) == IF r.type = "events" THEN [type |-> "events", events |-> Elems(r.events)] ELSE r

\* What the clients can find, what the relay has in memory, and what they have
\* been answered: the order in the file, the bytes and the connections do not
\* show.
Stored == Elems(read(file))
Known == Elems(database)
Replies == [c \in Client |-> IF cl[c] \in {"open", "killed"} /\ shut[c] THEN <<View(Reply(c))>> ELSE <<>>]

Atomic == INSTANCE AtomicPosts WITH
  Old <- {Elems(read(f)) : f \in InitFiles},
  open <- Up, stored <- Stored, known <- Known, phase <- cl, reply <- Replies

\* Refinement (http_relay.cc:28-113, http.cc:93-172, database.cc:59-88): to its
\* clients the relay is a set of events, and each post one step on it.  However
\* the posts are cut into pieces, sent short or long or broken off, each is
\* carried out whole or not at all and once at most; its answer is made from
\* the set as it is then; a put that is answered is known until the relay ends,
\* and every save that goes through brings all that is known into the set; and
\* who gets no answer has changed nothing, unless killed or cut off by the
\* relay's end.
ImplementsPosts == Atomic!PostsSpec
=============================================================================
