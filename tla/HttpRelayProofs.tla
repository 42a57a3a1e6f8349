-------------------------- MODULE HttpRelayProofs ---------------------------
(* Theorems about the relay with HTTP transport, for any number of clients,  *)
(* any programs of posts, initial files and width of size_t.                 *)
EXTENDS HttpRelay, DatabaseProofs

----------------------------------------------------------------------------
(* The inductive invariant *)

\* What can come of a post.
Result == {Ok, Silence} \cup {Events(f) : f \in UNION {[D -> Event] : D \in SUBSET Nat}}

Shape ==
  /\ turn \in [Client -> Nat]
  /\ out \in [Client -> Nat] /\ arrived \in [Client -> Nat]
  /\ shut \in [Client -> BOOLEAN] /\ inbox \in [Client -> Seq(Result)]
  /\ backlog \in Seq(Client)
  /\ \A a, b \in cur : a = b

\* A connection the relay has yet to close or to read.
Fresh(c) == Pending(c) /\ inbox[c] = <<>>

\* A client without a connection has left nothing of its last one.
AtRest ==
  \A c \in Client : cl[c] \in {"idle", "done"} => ~shut[c] /\ inbox[c] = <<>> /\ arrived[c] = 0

\* Before the relay closes a connection no answer is on its way.
Unanswered == \A c \in Client : Pending(c) => inbox[c] = <<>>

\* A client waits once, behind the one that is served, with all of its post.
Waiting ==
  /\ \A i, j \in 1..Len(backlog) : backlog[i] = backlog[j] => i = j
  /\ \A i \in 1..Len(backlog) :
       /\ backlog[i] \notin cur /\ Fresh(backlog[i])
       /\ arrived[backlog[i]] + out[backlog[i]] = 1 + PostOf(backlog[i]).size

\* No byte is lost or counted twice, and what is read and what is left to read
\* make the length, or the length and a turn of the counter.
Reading ==
  \A c \in cur :
    /\ Fresh(c)
    /\ pc = "header" => arrived[c] + out[c] = 1 + PostOf(c).size
    /\ pc = "body" => /\ got + arrived[c] + out[c] = PostOf(c).size
                      /\ PostOf(c).length # 0
                      /\ \/ got + left = PostOf(c).length
                         \/ got + left = PostOf(c).length + Word

\* A relay that does not listen has no events and no connections.
NotYet == ~Up => database = <<>> /\ \A c \in Client : ~Pending(c)

\* What was acknowledged is in memory, and in the file after a save that went
\* through.
Memory ==
  /\ acked \subseteq Elems(database)
  /\ ~dirty => Elems(database) \subseteq Elems(read(file))

EventOfPost(c, i) == parse_client_event(Program[c][i].msg)

HttpInv ==
  /\ HttpTypeOK /\ Shape /\ AtRest /\ Unanswered /\ Waiting /\ Reading /\ NotYet
  /\ WholeIsAnswered /\ Memory

----------------------------------------------------------------------------
(* Posts *)

\* Every post has a length and a size that fit size_t, and a message that the
\* relay can take an event from if it is an EVENT.
LEMMA PostType ==
  ASSUME NEW c \in Client, NEW i \in 1..Len(Program[c])
  PROVE  /\ Program[c][i].length \in 0..(Word - 1) /\ Program[c][i].size \in 0..(Word - 1)
         /\ Program[c][i].msg.type = "EVENT" => EventOfPost(c, i) \in Event
<1>1. Program[c][i] \in Range(Program[c]) BY HttpAssumption DEF Range
<1>2. Program[c][i] \in Posts BY <1>1 DEF Posts
<1>3. /\ Program[c][i].length \in 0..(Word - 1) /\ Program[c][i].size \in 0..(Word - 1)
      /\ IsClientMessage(Program[c][i].msg)
  BY <1>2, HttpAssumption
<1>4. Program[c][i].msg.type = "EVENT" => EventOfPost(c, i) \in Event
  BY <1>3, DefaultEventType, EventFromJsonType DEF IsClientMessage, EventOfPost, parse_client_event
<1> QED BY <1>3, <1>4

\* read_left and the bytes read along with the header make the length, or go
\* once round the counter.
LEMMA ReadLeftWraps ==
  ASSUME NEW length \in 0..(Word - 1), NEW k \in 0..(Word - 1)
  PROVE  /\ ReadLeft(length, k) \in 0..(Word - 1)
         /\ k + ReadLeft(length, k) \in {length, length + Word}
<1>1. Word \in Nat \ {0} BY HttpAssumption
<1>2. CASE k <= length
  <2>1. (length - k) \in 0..(Word - 1) BY <1>1, <1>2
  <2>2. (length - k) % Word = length - k BY <1>1, <2>1
  <2> QED BY <1>1, <1>2, <2>1, <2>2 DEF ReadLeft
<1>3. CASE k > length
  <2>1. length - k \in Int /\ length - k < 0 /\ length - k > 0 - Word BY <1>1, <1>3
  <2>2. (length - k) % Word = length - k + Word BY <1>1, <2>1
  <2> QED BY <1>1, <1>3, <2>1, <2>2 DEF ReadLeft
<1> QED BY <1>2, <1>3

\* Results are told apart by their types.
LEMMA ResultTypes ==
  /\ Ok \in Result /\ Silence \in Result /\ Ok # Silence
  /\ Ok.type = "200" /\ Silence.type = "closed"
  /\ \A f : Events(f).type = "events" /\ Events(f).events = f /\ Events(f) # Ok
BY DEF Result, Ok, Silence, Events

LEMMA HttpInit == Init => HttpInv
<1> SUFFICES ASSUME Init PROVE HttpInv OBVIOUS
<1>1. IsFile(file) /\ <<>> \in Seq(Event) /\ <<>> \in Seq(Result) /\ <<>> \in Seq(Client)
  BY HttpAssumption DEF Init
<1>2. \A c \in Client : Len(Program[c]) \in Nat \ {0} BY HttpAssumption
<1>3. Word \in Nat \ {0} BY HttpAssumption
<1>4. Range(backlog) = {} BY DEF Init, Range
<1>5. HttpTypeOK
  <2>1. /\ IsFile(file) /\ database \in Seq(Event) /\ acked \subseteq Event /\ dirty \in BOOLEAN
        /\ pc \in {"down", "save", "accept", "header", "body"}
        /\ cur \subseteq Client /\ (cur # {} <=> pc \in {"header", "body"})
    BY <1>1 DEF Init
  <2>2. Range(backlog) \subseteq Client /\ broken \subseteq Client BY <1>4 DEF Init
  <2>3. got \in 0..(Word - 1) /\ left \in 0..(Word - 1) BY <1>3 DEF Init
  <2>4. cl \in [Client -> {"idle", "open", "done", "killed"}] BY DEF Init
  <2>5. \A c \in Client : turn[c] \in 1..Len(Program[c]) BY <1>2 DEF Init
  <2> QED BY <2>1, <2>2, <2>3, <2>4, <2>5 DEF HttpTypeOK
<1>6. Shape BY <1>1 DEF Init, Shape
<1>7. Waiting /\ Reading BY DEF Init, Waiting, Reading
<1>8. AtRest /\ Unanswered /\ NotYet BY DEF Init, AtRest, Unanswered, NotYet, Pending
<1>9. WholeIsAnswered BY DEF Init, WholeIsAnswered
<1>10. Memory BY DEF Init, Memory, Elems
<1> QED BY <1>5, <1>6, <1>7, <1>8, <1>9, <1>10 DEF HttpInv

----------------------------------------------------------------------------
(* Steps that answer nobody *)

\* A step that leaves the connections alone.
LEMMA SameConnections ==
  ASSUME HttpInv, UNCHANGED <<cl, shut, inbox>>
  PROVE  /\ \A c : Fresh(c)' = Fresh(c) /\ Pending(c)' = Pending(c)
         /\ Unanswered'
<1>1. \A c : Pending(c)' = Pending(c) BY DEF Pending
<1> QED BY <1>1 DEF HttpInv, Fresh, Unanswered

\* A step that makes no answer.
LEMMA SameAnswers ==
  ASSUME HttpInv, UNCHANGED turn, broken \subseteq broken',
         \A c \in Client : cl'[c] = "open" /\ shut'[c] =>
           cl[c] = "open" /\ shut[c] /\ inbox'[c] = inbox[c]
  PROVE  WholeIsAnswered'
<1>1. ASSUME NEW c \in Client, cl'[c] = "open", shut'[c]
      PROVE  /\ cl[c] = "open" /\ shut[c]
             /\ Reply(c)' = Reply(c) /\ PostOf(c)' = PostOf(c)
  BY <1>1 DEF Reply, PostOf
<1>2. ASSUME NEW c \in Client, cl'[c] = "open", shut'[c], IsWhole(PostOf(c)')
      PROVE  IsAnswer(Reply(c)', PostOf(c)'.msg) \/ (Reply(c)' = Silence /\ c \in broken')
  BY <1>1, <1>2 DEF HttpInv, WholeIsAnswered
<1> QED BY <1>2 DEF WholeIsAnswered, IsAnswer

LEMMA SameMemory ==
  ASSUME HttpInv, UNCHANGED <<file, database, dirty, acked>>
  PROVE  Memory'
BY DEF HttpInv, Memory

LEMMA RestartStep ==
  ASSUME HttpInv, Restart
  PROVE  HttpInv'
<1>1. /\ pc = "down" /\ pc' = "save"
      /\ UNCHANGED <<file, database, dirty, acked, cur, got, left, backlog, cl, turn, broken, out,
                     arrived, inbox, shut>>
  BY DEF Restart, clients, store
<1>2. cur = {} BY <1>1 DEF HttpInv, HttpTypeOK
<1>3. /\ \A c : Fresh(c)' = Fresh(c) /\ Pending(c)' = Pending(c)
      /\ Unanswered'
  BY <1>1, SameConnections
<1>4. HttpTypeOK' BY <1>1, <1>2 DEF HttpInv, HttpTypeOK
<1>5. Shape' /\ AtRest' BY <1>1 DEF HttpInv, Shape, AtRest
<1>6. Waiting' /\ Reading' BY <1>1, <1>2, <1>3 DEF HttpInv, Waiting, Reading, PostOf
<1>7. NotYet' BY <1>1, <1>3 DEF HttpInv, NotYet, Up
<1>8. WholeIsAnswered' BY <1>1, SameAnswers
<1>9. Memory' BY <1>1, SameMemory
<1> QED BY <1>3, <1>4, <1>5, <1>6, <1>7, <1>8, <1>9 DEF HttpInv

\* Whatever becomes of a save, the file is one.
LEMMA SavesAreFiles ==
  ASSUME HttpInv, NEW s \in Seq(Event), NEW f \in Saves(s)
  PROVE  /\ IsFile(f) /\ (f = dump(s) => read(f) = s)
         /\ \/ f = dump(s) /\ Elems(read(f)) = Elems(s)
            \/ Elems(read(f)) = Elems(read(file))
            \/ Elems(read(f)) = {}
<1>1. IsFile(dump(s)) /\ read(dump(s)) = s BY ReadDump
<1>2. IsFile(file) BY DEF HttpInv, HttpTypeOK
<1>3. IsFile(NoJson) /\ read(NoJson) = <<>> BY DEF IsFile, NoJson, read
<1>4. Elems(<<>>) = {} BY DEF Elems
<1> QED BY <1>1, <1>2, <1>3, <1>4 DEF Saves

LEMMA StartStep ==
  ASSUME HttpInv, StartEmpty
  PROVE  HttpInv'
<1>1. /\ pc = "save" /\ pc' = "accept" /\ file' \in Saves(database)
      /\ UNCHANGED <<database, dirty, acked, cur, got, left, backlog, cl, turn, broken, out,
                     arrived, inbox, shut>>
  BY DEF StartEmpty, clients
<1>2. database \in Seq(Event) /\ database = <<>> BY <1>1 DEF HttpInv, HttpTypeOK, NotYet, Up
<1>3. IsFile(file') BY <1>1, <1>2, SavesAreFiles
<1>4. cur = {} BY <1>1 DEF HttpInv, HttpTypeOK
<1>5. /\ \A c : Fresh(c)' = Fresh(c) /\ Pending(c)' = Pending(c)
      /\ Unanswered'
  BY <1>1, SameConnections
<1>6. HttpTypeOK' BY <1>1, <1>3, <1>4 DEF HttpInv, HttpTypeOK
<1>7. Shape' /\ AtRest' BY <1>1 DEF HttpInv, Shape, AtRest
<1>8. Waiting' /\ Reading' BY <1>1, <1>4, <1>5 DEF HttpInv, Waiting, Reading, PostOf
<1>9. NotYet' BY <1>1 DEF NotYet, Up
<1>10. WholeIsAnswered' BY <1>1, SameAnswers
<1>11. Memory'
  <2>1. Elems(database) = {} BY <1>2 DEF Elems
  <2> QED BY <1>1, <2>1 DEF HttpInv, Memory
<1> QED BY <1>5, <1>6, <1>7, <1>8, <1>9, <1>10, <1>11 DEF HttpInv

\* Behind the one that is taken from the backlog the others wait as before.
LEMMA TailWaits ==
  ASSUME HttpInv, backlog # <<>>, backlog' = Tail(backlog)
  PROVE  /\ Head(backlog) \in Client /\ Head(backlog) = backlog[1] /\ 1 \in 1..Len(backlog)
         /\ backlog' \in Seq(Client) /\ Range(backlog') \subseteq Client
         /\ \A i \in 1..Len(backlog') : /\ i + 1 \in 1..Len(backlog) /\ backlog'[i] = backlog[i + 1]
                                        /\ backlog'[i] \in Client /\ backlog'[i] # Head(backlog)
         /\ \A i, j \in 1..Len(backlog') : backlog'[i] = backlog'[j] => i = j
<1>1. backlog \in Seq(Client) /\ Len(backlog) \in Nat /\ Len(backlog) # 0
  BY DEF HttpInv, Shape
<1>2. /\ Head(backlog) = backlog[1] /\ 1 \in 1..Len(backlog) /\ backlog' \in Seq(Client)
      /\ Len(backlog') = Len(backlog) - 1
  BY <1>1
<1>3. \A i \in 1..Len(backlog') : i + 1 \in 1..Len(backlog) /\ backlog'[i] = backlog[i + 1]
  BY <1>1, <1>2
<1>4. \A i, j \in 1..Len(backlog) : backlog[i] = backlog[j] => i = j BY DEF HttpInv, Waiting
<1>5. ASSUME NEW i \in 1..Len(backlog') PROVE backlog'[i] # Head(backlog)
  <2>1. i + 1 # 1 BY <1>1, <1>2
  <2> QED BY <2>1, <1>2, <1>3, <1>4
<1>6. ASSUME NEW i \in 1..Len(backlog'), NEW j \in 1..Len(backlog'), backlog'[i] = backlog'[j]
      PROVE  i = j
  <2>1. i + 1 = j + 1 BY <1>3, <1>4, <1>6
  <2> QED BY <2>1, <1>1, <1>2
<1>7. Range(backlog') \subseteq Client BY <1>2 DEF Range
<1>8. Head(backlog) \in Client BY <1>1
<1> QED BY <1>2, <1>3, <1>5, <1>6, <1>7, <1>8

LEMMA AcceptStep ==
  ASSUME HttpInv, Accept
  PROVE  HttpInv'
<1>1. /\ pc = "accept" /\ backlog # <<>> /\ pc' = "header"
      /\ cur' = {Head(backlog)} /\ backlog' = Tail(backlog)
      /\ UNCHANGED <<file, database, dirty, acked, got, left, cl, turn, broken, out, arrived, inbox, shut>>
  BY DEF Accept, clients, store
<1>2. /\ Head(backlog) \in Client /\ Head(backlog) = backlog[1] /\ 1 \in 1..Len(backlog)
      /\ backlog' \in Seq(Client) /\ Range(backlog') \subseteq Client
      /\ \A i \in 1..Len(backlog') : /\ i + 1 \in 1..Len(backlog) /\ backlog'[i] = backlog[i + 1]
                                     /\ backlog'[i] \in Client /\ backlog'[i] # Head(backlog)
      /\ \A i, j \in 1..Len(backlog') : backlog'[i] = backlog'[j] => i = j
  BY <1>1, TailWaits
<1>3. HttpTypeOK' BY <1>1, <1>2 DEF HttpInv, HttpTypeOK
<1>4. Shape' /\ AtRest' BY <1>1, <1>2 DEF HttpInv, Shape, AtRest
<1>5. \A c : Fresh(c)' = Fresh(c) /\ PostOf(c)' = PostOf(c) BY <1>1, SameConnections DEF PostOf
<1>6. Waiting' BY <1>1, <1>2, <1>5 DEF HttpInv, Waiting
<1>7. Reading' BY <1>1, <1>2, <1>5 DEF HttpInv, Waiting, Reading
<1>8. NotYet' BY <1>1 DEF NotYet, Up
<1>9. Unanswered' /\ WholeIsAnswered' /\ Memory' BY <1>1, SameConnections, SameAnswers, SameMemory
<1> QED BY <1>3, <1>4, <1>6, <1>7, <1>8, <1>9 DEF HttpInv

LEMMA AcceptGoneStep ==
  ASSUME HttpInv, AcceptGone
  PROVE  HttpInv'
<1>1. /\ pc = "accept" /\ backlog # <<>> /\ backlog' = Tail(backlog)
      /\ UNCHANGED <<file, database, dirty, acked, pc, cur, got, left, cl, turn, broken, out, arrived, inbox, shut>>
  BY DEF AcceptGone, relay, clients, store
<1>2. /\ backlog' \in Seq(Client) /\ Range(backlog') \subseteq Client
      /\ \A i \in 1..Len(backlog') : i + 1 \in 1..Len(backlog) /\ backlog'[i] = backlog[i + 1]
      /\ \A i, j \in 1..Len(backlog') : backlog'[i] = backlog'[j] => i = j
  BY <1>1, TailWaits
<1>3. HttpTypeOK' BY <1>1, <1>2 DEF HttpInv, HttpTypeOK
<1>4. Shape' /\ AtRest' BY <1>1, <1>2 DEF HttpInv, Shape, AtRest
<1>5. \A c : Fresh(c)' = Fresh(c) /\ PostOf(c)' = PostOf(c) BY <1>1, SameConnections DEF PostOf
<1>6. Waiting' BY <1>1, <1>2, <1>5 DEF HttpInv, Waiting
<1>7. Reading' BY <1>1, <1>5 DEF HttpInv, Reading
<1>8. NotYet' BY <1>1 DEF NotYet, Up
<1>9. Unanswered' /\ WholeIsAnswered' /\ Memory' BY <1>1, SameConnections, SameAnswers, SameMemory
<1> QED BY <1>3, <1>4, <1>6, <1>7, <1>8, <1>9 DEF HttpInv

\* A step of the relay inside the message of c, or of the network on its way:
\* only the bytes of c move.
LEMMA BytesMove ==
  ASSUME HttpInv, NEW c \in Client,
         UNCHANGED <<file, database, dirty, acked, cur, backlog, cl, turn, broken, inbox, shut>>,
         out' \in [Client -> Nat], arrived' \in [Client -> Nat],
         \A b \in Client \ {c} : out'[b] = out[b] /\ arrived'[b] = arrived[b],
         c \notin cur => arrived'[c] + out'[c] = arrived[c] + out[c],
         pc' \in {"down", "save", "accept", "header", "body"}, Up' <=> Up,
         cl[c] \in {"open", "killed"},
         cur # {} <=> pc' \in {"header", "body"},
         got' \in 0..(Word - 1), left' \in 0..(Word - 1), Reading'
  PROVE  HttpInv'
<1>1. HttpTypeOK' BY DEF HttpInv, HttpTypeOK
<1>2. Shape' /\ AtRest' BY DEF HttpInv, Shape, AtRest
<1>3. \A b : Fresh(b)' = Fresh(b) /\ Pending(b)' = Pending(b) /\ PostOf(b)' = PostOf(b)
  BY SameConnections DEF PostOf
<1>4. ASSUME NEW i \in 1..Len(backlog)
      PROVE  /\ backlog[i] \notin cur /\ Fresh(backlog[i])
             /\ arrived'[backlog[i]] + out'[backlog[i]] = 1 + PostOf(backlog[i]).size
  <2>1. backlog[i] \in Client BY DEF HttpInv, Shape
  <2>2. /\ backlog[i] \notin cur /\ Fresh(backlog[i])
        /\ arrived[backlog[i]] + out[backlog[i]] = 1 + PostOf(backlog[i]).size
    BY DEF HttpInv, Waiting
  <2>3. CASE backlog[i] = c BY <2>2, <2>3
  <2>4. CASE backlog[i] # c BY <2>1, <2>2, <2>4
  <2> QED BY <2>2, <2>3, <2>4
<1>5. Waiting' BY <1>3, <1>4 DEF HttpInv, Waiting
<1>6. NotYet' BY <1>3 DEF HttpInv, NotYet
<1>7. Unanswered' /\ WholeIsAnswered' /\ Memory' BY SameConnections, SameAnswers, SameMemory
<1> QED BY <1>1, <1>2, <1>5, <1>6, <1>7 DEF HttpInv

\* The relay reads from one connection at a time.
LEMMA OneIsRead ==
  ASSUME HttpInv, NEW c \in cur
  PROVE  /\ cur = {c} /\ c \in Client /\ pc \in {"header", "body"} /\ turn[c] \in 1..Len(Program[c])
         /\ PostOf(c).length \in 0..(Word - 1) /\ PostOf(c).size \in 0..(Word - 1)
         /\ arrived[c] \in Nat /\ out[c] \in Nat /\ Word \in Nat \ {0}
         /\ Fresh(c)
         /\ pc = "header" => arrived[c] + out[c] = 1 + PostOf(c).size
         /\ pc = "body" => /\ got + arrived[c] + out[c] = PostOf(c).size
                           /\ PostOf(c).length # 0
                           /\ \/ got + left = PostOf(c).length
                              \/ got + left = PostOf(c).length + Word
<1>1. cur = {c} /\ c \in Client /\ pc \in {"header", "body"} BY DEF HttpInv, Shape, HttpTypeOK
<1>2. turn[c] \in 1..Len(Program[c]) /\ arrived[c] \in Nat /\ out[c] \in Nat
  BY <1>1 DEF HttpInv, HttpTypeOK, Shape
<1>3. PostOf(c).length \in 0..(Word - 1) /\ PostOf(c).size \in 0..(Word - 1)
  BY <1>1, <1>2, PostType DEF PostOf
<1> QED BY <1>1, <1>2, <1>3, HttpAssumption DEF HttpInv, Reading

LEMMA ReadBodyStep ==
  ASSUME HttpInv, NEW c \in cur, ReadBody(c)
  PROVE  HttpInv'
<1>1. PICK j \in 1..arrived[c] :
        /\ j <= left /\ arrived' = [arrived EXCEPT ![c] = @ - j]
        /\ got' = got + j /\ left' = left - j
  BY DEF ReadBody
<1>2. /\ pc = "body"
      /\ UNCHANGED <<file, database, dirty, acked, pc, cur, backlog, cl, turn, broken, out, inbox, shut>>
  BY DEF ReadBody, clients, store
<1>3. /\ cur = {c} /\ c \in Client /\ arrived[c] \in Nat /\ out[c] \in Nat /\ Word \in Nat \ {0}
      /\ PostOf(c).length \in 0..(Word - 1) /\ PostOf(c).size \in 0..(Word - 1)
      /\ Fresh(c) /\ got + arrived[c] + out[c] = PostOf(c).size /\ PostOf(c).length # 0
      /\ \/ got + left = PostOf(c).length
         \/ got + left = PostOf(c).length + Word
  BY <1>2, OneIsRead
<1>4. got \in 0..(Word - 1) /\ left \in 0..(Word - 1) BY DEF HttpInv, HttpTypeOK
<1>5. /\ arrived' \in [Client -> Nat] /\ arrived'[c] = arrived[c] - j
      /\ \A b \in Client \ {c} : arrived'[b] = arrived[b]
  BY <1>1, <1>3 DEF HttpInv, Shape
<1>6. got' \in 0..(Word - 1) /\ left' \in 0..(Word - 1) BY <1>1, <1>3, <1>4
<1>7. /\ got' + arrived'[c] + out'[c] = PostOf(c).size
      /\ \/ got' + left' = PostOf(c).length
         \/ got' + left' = PostOf(c).length + Word
  BY <1>1, <1>2, <1>3, <1>4, <1>5
<1>8. Fresh(c)' /\ PostOf(c)' = PostOf(c) /\ cl[c] \in {"open", "killed"}
  BY <1>2, <1>3 DEF Fresh, Pending, PostOf
<1>9. Reading' BY <1>2, <1>3, <1>7, <1>8 DEF Reading
<1>10. out \in [Client -> Nat] /\ (Up' <=> Up) /\ (cur # {} <=> pc' \in {"header", "body"})
  BY <1>2 DEF HttpInv, HttpTypeOK, Shape, Up
<1>11. pc' \in {"down", "save", "accept", "header", "body"} BY <1>2
<1> QED BY <1>2, <1>3, <1>5, <1>6, <1>8, <1>9, <1>10, <1>11, BytesMove

LEMMA SendStep ==
  ASSUME HttpInv, NEW c \in Client, Send(c)
  PROVE  HttpInv'
<1>1. PICK n \in 1..out[c] : /\ out' = [out EXCEPT ![c] = @ - n]
                             /\ arrived' = [arrived EXCEPT ![c] = @ + n]
  BY DEF Send
<1>2. UNCHANGED <<file, database, dirty, acked, pc, cur, got, left, backlog, cl, turn, broken, inbox, shut>>
  BY DEF Send, relay, clients, store
<1>3. out \in [Client -> Nat] /\ arrived \in [Client -> Nat] BY DEF HttpInv, Shape
<1>4. /\ out' \in [Client -> Nat] /\ arrived' \in [Client -> Nat]
      /\ \A b \in Client \ {c} : out'[b] = out[b] /\ arrived'[b] = arrived[b]
      /\ arrived'[c] + out'[c] = arrived[c] + out[c]
      /\ \A b \in Client : arrived'[b] + out'[b] = arrived[b] + out[b]
  BY <1>1, <1>3
<1>5. /\ pc \in {"down", "save", "accept", "header", "body"} /\ (cur # {} <=> pc \in {"header", "body"})
      /\ got \in 0..(Word - 1) /\ left \in 0..(Word - 1) /\ cur \subseteq Client
  BY DEF HttpInv, HttpTypeOK
<1>6. \A b : Fresh(b)' = Fresh(b) /\ PostOf(b)' = PostOf(b) BY <1>2, SameConnections DEF PostOf
<1>7. Reading'
  <2>1. ASSUME NEW b \in cur
        PROVE  got + arrived'[b] + out'[b] = got + arrived[b] + out[b]
    <3>1. b \in Client BY <1>5
    <3>2. /\ arrived'[b] \in Nat /\ out'[b] \in Nat /\ arrived[b] \in Nat /\ out[b] \in Nat
          /\ arrived'[b] + out'[b] = arrived[b] + out[b] /\ got \in Int
      BY <3>1, <1>3, <1>4, <1>5
    <3> QED BY <3>2
  <2>2. \A b \in cur : arrived'[b] + out'[b] = arrived[b] + out[b] BY <1>4, <1>5
  <2> QED BY <1>2, <1>6, <2>1, <2>2 DEF HttpInv, Reading
<1>8. cl[c] = "open" /\ (Up' <=> Up) BY <1>2 DEF Send, Up
<1> QED BY <1>2, <1>4, <1>5, <1>7, <1>8, BytesMove

LEMMA KillStep ==
  ASSUME HttpInv, NEW c \in Client, Kill(c)
  PROVE  HttpInv'
<1>1. /\ cl[c] = "open" /\ cl' = [cl EXCEPT ![c] = "killed"]
      /\ UNCHANGED <<file, database, dirty, acked, pc, cur, got, left, backlog, turn, broken, out, arrived, inbox, shut>>
  BY DEF Kill, relay, store
<1>2. cl \in [Client -> {"idle", "open", "done", "killed"}] /\ cur \subseteq Client
  BY DEF HttpInv, HttpTypeOK
<1>3. HttpTypeOK' BY <1>1, <1>2 DEF HttpInv, HttpTypeOK
<1>4. Shape' /\ AtRest' BY <1>1, <1>2 DEF HttpInv, Shape, AtRest
<1>5. \A b \in Client : Fresh(b)' = Fresh(b) /\ Pending(b)' = Pending(b) /\ PostOf(b)' = PostOf(b)
  BY <1>1, <1>2 DEF Fresh, Pending, PostOf
<1>6. \A i \in 1..Len(backlog) : backlog[i] \in Client BY DEF HttpInv, Shape
<1>7. Waiting' BY <1>1, <1>5, <1>6 DEF HttpInv, Waiting
<1>8. Reading' BY <1>1, <1>2, <1>5 DEF HttpInv, Reading
<1>9. NotYet' BY <1>1, <1>5 DEF HttpInv, NotYet, Up
<1>10. \A b \in Client : cl'[b] = "open" => cl[b] = "open" BY <1>1, <1>2
<1>11. Unanswered' BY <1>1, <1>5 DEF HttpInv, Unanswered
<1>12. WholeIsAnswered' /\ Memory' BY <1>1, <1>10, SameAnswers, SameMemory
<1> QED BY <1>3, <1>4, <1>7, <1>8, <1>9, <1>11, <1>12 DEF HttpInv

LEMMA ConnectStep ==
  ASSUME HttpInv, NEW c \in Client, Connect(c)
  PROVE  HttpInv'
<1>1. /\ cl[c] = "idle" /\ Up /\ cl' = [cl EXCEPT ![c] = "open"]
      /\ backlog' = Append(backlog, c)
      /\ out' = [out EXCEPT ![c] = 1 + PostOf(c).size]
      /\ UNCHANGED <<file, database, dirty, acked, pc, cur, got, left, turn, broken, arrived, inbox, shut>>
  BY DEF Connect, relay, store
<1>2. /\ cl \in [Client -> {"idle", "open", "done", "killed"}] /\ cur \subseteq Client
      /\ turn[c] \in 1..Len(Program[c])
  BY DEF HttpInv, HttpTypeOK
<1>3. /\ out \in [Client -> Nat] /\ arrived \in [Client -> Nat] /\ shut \in [Client -> BOOLEAN]
      /\ inbox \in [Client -> Seq(Result)] /\ backlog \in Seq(Client)
      /\ ~shut[c] /\ inbox[c] = <<>> /\ arrived[c] = 0
  BY <1>1 DEF HttpInv, Shape, AtRest
<1>4. PostOf(c).size \in Nat /\ Word \in Nat
  BY <1>2, PostType, HttpAssumption DEF PostOf
<1>5. /\ backlog' \in Seq(Client) /\ Len(backlog') = Len(backlog) + 1 /\ Len(backlog) \in Nat
      /\ backlog'[Len(backlog')] = c
      /\ \A i \in 1..Len(backlog) : backlog'[i] = backlog[i] /\ backlog[i] \in Client
  BY <1>1, <1>3
<1>6. c \notin cur /\ \A i \in 1..Len(backlog) : backlog[i] # c
  BY <1>1, <1>2 DEF HttpInv, Waiting, Reading, Fresh, Pending
<1>7. \A b \in Client \ {c} : /\ Fresh(b)' = Fresh(b) /\ Pending(b)' = Pending(b)
                              /\ PostOf(b)' = PostOf(b)
                              /\ arrived'[b] = arrived[b] /\ out'[b] = out[b] /\ cl'[b] = cl[b]
                              /\ shut'[b] = shut[b] /\ inbox'[b] = inbox[b]
  BY <1>1, <1>2, <1>3 DEF Fresh, Pending, PostOf
<1>8. /\ Fresh(c)' /\ PostOf(c)' = PostOf(c) /\ arrived'[c] + out'[c] = 1 + PostOf(c).size
      /\ cl'[c] = "open" /\ ~shut'[c]
  BY <1>1, <1>2, <1>3, <1>4 DEF Fresh, Pending, PostOf
<1>9. HttpTypeOK'
  <2>1. Range(backlog') \subseteq Client BY <1>5 DEF Range
  <2> QED BY <1>1, <1>2, <2>1 DEF HttpInv, HttpTypeOK
<1>10. Shape'
  <2>1. /\ out' \in [Client -> Nat] /\ arrived' \in [Client -> Nat] /\ shut' \in [Client -> BOOLEAN]
        /\ inbox' \in [Client -> Seq(Result)]
    BY <1>1, <1>3, <1>4
  <2> QED BY <1>1, <1>5, <2>1 DEF HttpInv, Shape
<1>11. Waiting'
  <2>1. ASSUME NEW i \in 1..Len(backlog'), NEW j \in 1..Len(backlog'), backlog'[i] = backlog'[j]
        PROVE  i = j
    <3>1. \A k \in 1..Len(backlog') : k \in 1..Len(backlog) \/ k = Len(backlog') BY <1>5
    <3>2. \A k, l \in 1..Len(backlog) : backlog[k] = backlog[l] => k = l BY DEF HttpInv, Waiting
    <3> QED BY <1>5, <1>6, <2>1, <3>1, <3>2
  <2>2. ASSUME NEW i \in 1..Len(backlog')
        PROVE  (/\ backlog[i] \notin cur /\ Fresh(backlog[i])
                /\ arrived[backlog[i]] + out[backlog[i]] = 1 + PostOf(backlog[i]).size)'
    <3>1. CASE i = Len(backlog') BY <1>1, <1>5, <1>6, <1>8, <3>1 DEF Fresh, Pending, PostOf
    <3>2. CASE i # Len(backlog')
      <4>1. i \in 1..Len(backlog) BY <1>5, <3>2
      <4>2. backlog'[i] = backlog[i] /\ backlog[i] \in Client \ {c} BY <4>1, <1>5, <1>6
      <4>3. /\ backlog[i] \notin cur /\ Fresh(backlog[i])
            /\ arrived[backlog[i]] + out[backlog[i]] = 1 + PostOf(backlog[i]).size
        BY <4>1 DEF HttpInv, Waiting
      <4> QED BY <4>2, <4>3, <1>1, <1>7 DEF Fresh, Pending, PostOf
    <3> QED BY <3>1, <3>2
  <2> QED BY <1>1, <2>1, <2>2 DEF Waiting
<1>12. Reading'
  <2>1. \A b \in cur : b \in Client \ {c} BY <1>2, <1>6
  <2> QED BY <1>1, <1>7, <2>1 DEF HttpInv, Reading
<1>13. NotYet' BY <1>1 DEF NotYet, Up
<1>14. \A b \in Client : cl'[b] = "open" /\ shut'[b] =>
         cl[b] = "open" /\ shut[b] /\ inbox'[b] = inbox[b]
  BY <1>7, <1>8
<1>15. WholeIsAnswered' /\ Memory' BY <1>1, <1>14, SameAnswers, SameMemory
<1>16. AtRest' BY <1>1, <1>2, <1>7, <1>8 DEF HttpInv, AtRest
<1>17. Unanswered' BY <1>7, <1>8 DEF HttpInv, Unanswered, Fresh
<1> QED BY <1>9, <1>10, <1>11, <1>12, <1>13, <1>15, <1>16, <1>17 DEF HttpInv

----------------------------------------------------------------------------
(* The end of a connection *)

\* The relay answers c with r, or with silence, and closes.
LEMMA CloseStep ==
  ASSUME HttpInv, NEW c \in cur, NEW r \in Result, NEW answer,
         (answer = <<>> /\ r = Silence) \/ answer = <<r>>,
         Close(c, answer), UNCHANGED <<backlog, cl, turn, broken, out>>,
         IsFile(file'), database' \in Seq(Event), acked' \subseteq Event, dirty' \in BOOLEAN, Memory',
         arrived' \in [Client -> Nat], \A b \in Client \ {c} : arrived'[b] = arrived[b],
         cl[c] = "open" /\ IsWhole(PostOf(c)) =>
           arrived[c] + out[c] = 0 /\ IsAnswer(r, PostOf(c).msg)
  PROVE  HttpInv'
<1>1. /\ pc' = "accept" /\ cur' = {} /\ got' = 0 /\ left' = 0
      /\ shut' = [shut EXCEPT ![c] = TRUE]
      /\ \/ inbox' = [inbox EXCEPT ![c] = answer]
         \/ arrived[c] + out[c] > 0 /\ UNCHANGED inbox
  BY DEF Close
<1>2. cur = {c} /\ c \in Client /\ arrived[c] \in Nat /\ out[c] \in Nat /\ Word \in Nat \ {0} /\ Fresh(c)
  BY OneIsRead
<1>3. shut \in [Client -> BOOLEAN] /\ inbox \in [Client -> Seq(Result)] BY DEF HttpInv, Shape
<1>4. inbox' \in [Client -> Seq(Result)]
  <2>1. <<>> \in Seq(Result) /\ <<r>> \in Seq(Result) OBVIOUS
  <2>2. answer \in Seq(Result) BY <2>1
  <2> QED BY <1>1, <1>3, <2>2
<1>5. shut'[c] /\ \A b \in Client \ {c} : shut'[b] = shut[b] /\ inbox'[b] = inbox[b]
  BY <1>1, <1>2, <1>3
<1>6. HttpTypeOK' BY <1>1, <1>2 DEF HttpInv, HttpTypeOK
<1>7. Shape' BY <1>1, <1>3, <1>4 DEF HttpInv, Shape
<1>8. \A b \in Client \ {c} : Fresh(b)' = Fresh(b) /\ Pending(b)' = Pending(b) /\ PostOf(b)' = PostOf(b)
  BY <1>5 DEF Fresh, Pending, PostOf
<1>9. Waiting'
  <2>1. ASSUME NEW i \in 1..Len(backlog) PROVE backlog[i] \in Client \ {c}
    <3>1. backlog[i] \in Client BY DEF HttpInv, Shape
    <3>2. backlog[i] \notin cur BY DEF HttpInv, Waiting
    <3> QED BY <3>1, <3>2
  <2> QED BY <1>1, <1>8, <2>1 DEF HttpInv, Waiting
<1>10. Reading' /\ NotYet' BY <1>1 DEF Reading, NotYet, Up
<1>11. AtRest' /\ Unanswered'
  <2>1. cl[c] \in {"open", "killed"} /\ ~Pending(c)' BY <1>2, <1>5 DEF Fresh, Pending
  <2> QED BY <1>5, <1>8, <2>1 DEF HttpInv, AtRest, Unanswered
<1>12. ASSUME NEW b \in Client, cl[b] = "open", shut'[b], IsWhole(PostOf(b))
       PROVE  IsAnswer(Reply(b)', PostOf(b).msg) \/ (Reply(b)' = Silence /\ b \in broken)
  <2>1. CASE b # c
    <3>1. shut[b] /\ Reply(b)' = Reply(b) BY <1>5, <1>12, <2>1 DEF Reply
    <3> QED BY <1>12, <3>1 DEF HttpInv, WholeIsAnswered
  <2>2. CASE b = c /\ inbox'[c] = answer
    <3>1. Reply(b)' = r BY <2>2 DEF Reply
    <3> QED BY <1>12, <2>2, <3>1
  <2>3. CASE b = c /\ arrived[c] + out[c] > 0 BY <1>2, <1>12, <2>3
  <2> QED BY <1>1, <1>2, <1>3, <2>1, <2>2, <2>3
<1>13. WholeIsAnswered'
  <2>1. \A b \in Client : PostOf(b)' = PostOf(b) BY DEF PostOf
  <2> QED BY <1>12, <2>1 DEF WholeIsAnswered, IsAnswer
<1> QED BY <1>6, <1>7, <1>9, <1>10, <1>11, <1>13 DEF HttpInv

\* When the body is in it is as long as it was said to be: had the counter gone
\* round, more bytes would have come than the client sent.
LEMMA BodyIsExact ==
  ASSUME HttpInv, NEW c \in cur, pc = "body", left = 0
  PROVE  /\ got = PostOf(c).length
         /\ IsWhole(PostOf(c)) => got = PostOf(c).size /\ arrived[c] + out[c] = 0
<1>1. /\ PostOf(c).length \in 0..(Word - 1) /\ PostOf(c).size \in 0..(Word - 1)
      /\ arrived[c] \in Nat /\ out[c] \in Nat /\ Word \in Nat \ {0}
      /\ got + arrived[c] + out[c] = PostOf(c).size
      /\ \/ got + left = PostOf(c).length
         \/ got + left = PostOf(c).length + Word
  BY OneIsRead
<1>2. got \in Nat BY DEF HttpInv, HttpTypeOK
<1>3. got = PostOf(c).length BY <1>1, <1>2
<1> QED BY <1>1, <1>2, <1>3 DEF IsWhole

LEMMA ReadHeaderStep ==
  ASSUME HttpInv, NEW c \in cur, ReadHeader(c)
  PROVE  HttpInv'
<1>1. PICK k \in 0..(arrived[c] - 1) :
       /\ arrived' = [arrived EXCEPT ![c] = @ - 1 - k]
       /\ \/ /\ PostOf(c).length # 0
             /\ got' = k /\ left' = ReadLeft(PostOf(c).length, k)
             /\ pc' = "body" /\ UNCHANGED <<cur, shut, inbox>>
          \/ PostOf(c).length = 0 /\ Close(c, <<>>)
  BY DEF ReadHeader
<1>2. /\ pc = "header" /\ arrived[c] > 0
      /\ UNCHANGED <<file, database, dirty, acked, backlog, cl, turn, broken, out>>
  BY DEF ReadHeader, clients, store
<1>3. /\ cur = {c} /\ c \in Client /\ arrived[c] \in Nat /\ out[c] \in Nat /\ Word \in Nat \ {0}
      /\ PostOf(c).length \in 0..(Word - 1) /\ PostOf(c).size \in 0..(Word - 1)
      /\ Fresh(c) /\ arrived[c] + out[c] = 1 + PostOf(c).size
  BY <1>2, OneIsRead
<1>4. /\ arrived' \in [Client -> Nat] /\ arrived'[c] = arrived[c] - 1 - k
      /\ \A b \in Client \ {c} : arrived'[b] = arrived[b]
  BY <1>1, <1>2, <1>3 DEF HttpInv, Shape
<1>5. k \in 0..(Word - 1) BY <1>2, <1>3
<1>6. CASE PostOf(c).length # 0
  <2>1. got' = k /\ left' = ReadLeft(PostOf(c).length, k) /\ pc' = "body" /\ UNCHANGED <<cur, shut, inbox>>
    BY <1>1, <1>6
  <2>2. /\ left' \in 0..(Word - 1)
        /\ got' + left' \in {PostOf(c).length, PostOf(c).length + Word}
    BY <1>3, <1>5, <2>1, ReadLeftWraps
  <2>3. got' + arrived'[c] + out'[c] = PostOf(c).size BY <1>2, <1>3, <1>4, <2>1
  <2>4. Fresh(c)' /\ PostOf(c)' = PostOf(c) /\ cl[c] \in {"open", "killed"}
    BY <1>2, <1>3, <2>1 DEF Fresh, Pending, PostOf
  <2>5. Reading' BY <1>3, <1>6, <2>1, <2>2, <2>3, <2>4 DEF Reading
  <2>6. out \in [Client -> Nat] /\ (Up' <=> Up) BY <1>2, <2>1 DEF HttpInv, Shape, Up
  <2> QED BY <1>2, <1>3, <1>4, <1>5, <2>1, <2>2, <2>4, <2>5, <2>6, BytesMove
<1>7. CASE PostOf(c).length = 0
  <2>1. Close(c, <<>>) BY <1>1, <1>7
  <2>2. ~IsWhole(PostOf(c)) BY <1>7 DEF IsWhole
  <2>3. Memory' BY <1>2, SameMemory
  <2>4. IsFile(file) /\ database \in Seq(Event) /\ acked \subseteq Event /\ dirty \in BOOLEAN
    BY DEF HttpInv, HttpTypeOK
  <2> QED BY <1>2, <1>4, <2>1, <2>2, <2>3, <2>4, ResultTypes, CloseStep
<1> QED BY <1>6, <1>7

LEMMA ReadFailsStep ==
  ASSUME HttpInv, NEW c \in cur, ReadFails(c)
  PROVE  HttpInv'
<1>1. /\ cl[c] = "killed" /\ Close(c, <<>>)
      /\ UNCHANGED <<file, database, dirty, acked, backlog, cl, turn, broken, out, arrived>>
  BY DEF ReadFails, clients, store
<1>2. Memory' BY <1>1, SameMemory
<1>3. IsFile(file) /\ database \in Seq(Event) /\ acked \subseteq Event /\ dirty \in BOOLEAN /\ arrived \in [Client -> Nat]
  BY DEF HttpInv, HttpTypeOK, Shape
<1> QED BY <1>1, <1>2, <1>3, ResultTypes, CloseStep

LEMMA HandleNothingStep ==
  ASSUME HttpInv, NEW c \in cur, HandleNothing(c)
  PROVE  HttpInv'
<1> DEFINE m == PostOf(c).msg
<1>1. /\ pc = "body" /\ left = 0 /\ Close(c, <<>>)
      /\ \/ got # PostOf(c).size
         \/ m.type = "EVENT" /\ ~EventReadable(m.ev)
         \/ m.type = "REQ" /\ ~RequestReadable(m)
         \/ m.type \notin {"EVENT", "REQ"}
      /\ UNCHANGED <<file, database, dirty, acked, backlog, cl, turn, broken, out, arrived>>
  BY DEF HandleNothing, clients, store
<1>2. IsWhole(PostOf(c)) => got = PostOf(c).size /\ arrived[c] + out[c] = 0 BY <1>1, BodyIsExact
<1>3. IsWhole(PostOf(c)) => IsAnswer(Silence, m) BY <1>1, <1>2, ResultTypes DEF IsAnswer
<1>4. Memory' BY <1>1, SameMemory
<1>5. IsFile(file) /\ database \in Seq(Event) /\ acked \subseteq Event /\ dirty \in BOOLEAN /\ arrived \in [Client -> Nat]
  BY DEF HttpInv, HttpTypeOK, Shape
<1> QED BY <1>1, <1>2, <1>3, <1>4, <1>5, ResultTypes, CloseStep

\* The file after an EVENT: with what was in it and all of the vector, or as it
\* was, or empty.
LEMMA EventIsAdded ==
  ASSUME HttpInv, NEW e \in Event, NEW f \in Saves(read(file) \o Append(database, e))
  PROVE  /\ Append(database, e) \in Seq(Event)
         /\ Elems(Append(database, e)) = Elems(database) \cup {e}
         /\ IsFile(f)
         /\ \/ /\ f = dump(read(file) \o Append(database, e))
               /\ Elems(read(f)) = Elems(read(file)) \cup Elems(database) \cup {e}
            \/ Elems(read(f)) = Elems(read(file))
            \/ Elems(read(f)) = {}
         /\ f = dump(read(file) \o Append(database, e)) =>
              Elems(read(f)) = Elems(read(file)) \cup Elems(database) \cup {e}
<1> DEFINE new == Append(database, e)
           s == read(file) \o new
<1>1. database \in Seq(Event) /\ read(file) \in Seq(Event) BY ReadType DEF HttpInv, HttpTypeOK
<1>2. new \in Seq(Event) /\ Elems(new) = Elems(database) \cup {e} BY <1>1, ElemsAppend
<1> HIDE DEF new
<1>3. s \in Seq(Event) BY <1>1, <1>2
<1>4. Elems(s) = Elems(read(file)) \cup Elems(new) BY <1>1, <1>2, ElemsConcat
<1>5. f \in Saves(s) BY DEF new
<1> HIDE DEF s
<1>6. /\ IsFile(f) /\ (f = dump(s) => read(f) = s)
      /\ \/ f = dump(s) /\ Elems(read(f)) = Elems(s)
         \/ Elems(read(f)) = Elems(read(file))
         \/ Elems(read(f)) = {}
  BY <1>3, <1>5, SavesAreFiles
<1>7. s = read(file) \o Append(database, e) /\ new = Append(database, e) BY DEF s, new
<1> QED BY <1>2, <1>4, <1>6, <1>7

LEMMA HandleEventStep ==
  ASSUME HttpInv, NEW c \in cur, HandleEvent(c)
  PROVE  HttpInv'
<1> DEFINE m == PostOf(c).msg
           e == parse_client_event(m)
           new == Append(database, e)
           s == read(file) \o new
<1>1. /\ pc = "body" /\ left = 0 /\ m.type = "EVENT" /\ EventReadable(m.ev)
      /\ database' = new /\ acked' = acked \cup {e}
      /\ file' \in Saves(s) /\ dirty' = (file' # dump(s))
      /\ Close(c, <<Ok>>) /\ UNCHANGED <<backlog, cl, turn, broken, out, arrived>>
  BY DEF HandleEvent, Received, clients
<1>2. c \in Client /\ turn[c] \in 1..Len(Program[c]) BY OneIsRead
<1>3. e \in Event BY <1>1, <1>2, PostType DEF PostOf, EventOfPost
<1>4. /\ arrived \in [Client -> Nat] /\ acked \subseteq Event
      /\ acked \subseteq Elems(database)
  BY DEF HttpInv, HttpTypeOK, Shape, Memory
<1>5. IsWhole(PostOf(c)) => arrived[c] + out[c] = 0 /\ IsAnswer(Ok, m)
  BY <1>1, BodyIsExact, ResultTypes DEF IsAnswer
<1> HIDE DEF e
<1>6. /\ new \in Seq(Event) /\ Elems(new) = Elems(database) \cup {e} /\ IsFile(file')
      /\ file' = dump(s) => Elems(read(file')) = Elems(read(file)) \cup Elems(database) \cup {e}
  BY <1>1, <1>3, EventIsAdded
<1> HIDE DEF new, s
<1>7. dirty' \in BOOLEAN /\ (~dirty' => file' = dump(s)) BY <1>1
<1>8. Memory'
  <2>1. Elems(database)' = Elems(database) \cup {e} BY <1>1, <1>6
  <2>2. acked' \subseteq Elems(database)' BY <1>1, <1>4, <2>1
  <2>3. ~dirty' => Elems(database)' \subseteq Elems(read(file')) BY <1>6, <1>7, <2>1
  <2> QED BY <2>2, <2>3 DEF Memory
<1>9. acked' \subseteq Event BY <1>1, <1>3, <1>4
<1> QED BY <1>1, <1>4, <1>5, <1>6, <1>7, <1>8, <1>9, ResultTypes, CloseStep

LEMMA HandleRequestStep ==
  ASSUME HttpInv, NEW c \in cur, HandleRequest(c)
  PROVE  HttpInv'
<1> DEFINE m == PostOf(c).msg
           A == Elems(parse_request(m).filter.authors)
           f == Matches(parse_request(m).filter)
           s == read(file)
<1>1. /\ pc = "body" /\ left = 0 /\ m.type = "REQ" /\ RequestReadable(m)
      /\ Close(c, <<Events(f)>>)
      /\ UNCHANGED <<file, database, dirty, acked, backlog, cl, turn, broken, out, arrived>>
  BY DEF HandleRequest, Received, clients, store
<1>2. /\ IsFile(file) /\ s \in Seq(Event) /\ database \in Seq(Event) /\ arrived \in [Client -> Nat]
      /\ acked \subseteq Event /\ dirty \in BOOLEAN /\ c \in Client
  BY ReadType, OneIsRead DEF HttpInv, HttpTypeOK, Shape
<1>3. f = [i \in request(s, A) |-> s[i]] BY DEF Matches
<1>4. request(s, A) = {i \in 1..Len(s) : s[i].pubkey \in A} BY DEF request
<1> HIDE DEF A, f, s
<1>5. Events(f) \in Result
  <2>1. request(s, A) \in SUBSET Nat BY <1>2, <1>4
  <2>2. f \in [request(s, A) -> Event] BY <1>2, <1>3, <1>4
  <2> QED BY <2>1, <2>2 DEF Result
<1>6. IsWhole(PostOf(c)) => arrived[c] + out[c] = 0 /\ IsAnswer(Events(f), m)
  BY <1>1, BodyIsExact, ResultTypes DEF IsAnswer
<1>7. Memory' BY <1>1, SameMemory
<1> QED BY <1>1, <1>2, <1>5, <1>6, <1>7, ResultTypes, CloseStep

----------------------------------------------------------------------------
(* The end of the relay, and of a post *)

LEMMA CrashStep ==
  ASSUME HttpInv, Crash
  PROVE  HttpInv'
<1>1. /\ pc' = "down" /\ cur' = {} /\ got' = 0 /\ left' = 0 /\ backlog' = <<>>
      /\ file' \in FileAtEnd /\ database' = <<>> /\ dirty' = FALSE /\ acked' = {}
      /\ shut' = [c \in Client |-> shut[c] \/ Pending(c)]
      /\ broken' = broken \cup {c \in Client : Pending(c)}
      /\ UNCHANGED <<cl, turn, out, arrived, inbox>>
  BY DEF Crash
<1>2. IsFile(file')
  <2>1. IsFile(file) /\ database \in Seq(Event) BY DEF HttpInv, HttpTypeOK
  <2>2. CASE pc = "save" BY <1>1, <2>1, <2>2, SavesAreFiles DEF FileAtEnd
  <2>3. ASSUME NEW c \in cur, PostOf(c).msg.type = "EVENT",
               file' \in Saves(read(file) \o Append(database, parse_client_event(PostOf(c).msg)))
        PROVE  IsFile(file')
    <3>1. c \in Client /\ turn[c] \in 1..Len(Program[c]) BY OneIsRead
    <3>2. parse_client_event(PostOf(c).msg) \in Event BY <2>3, <3>1, PostType DEF PostOf, EventOfPost
    <3> QED BY <2>3, <3>2, EventIsAdded
  <2>4. CASE pc # "save"
    <3>1. \/ file' = file
          \/ \E c \in cur : /\ PostOf(c).msg.type = "EVENT"
                            /\ file' \in Saves(read(file) \o Append(database, parse_client_event(PostOf(c).msg)))
      BY <1>1, <2>4 DEF FileAtEnd
    <3> QED BY <2>1, <2>3, <3>1
  <2> QED BY <2>2, <2>4
<1>3. shut \in [Client -> BOOLEAN] /\ cl \in [Client -> {"idle", "open", "done", "killed"}]
  BY DEF HttpInv, HttpTypeOK, Shape
<1>4. \A c \in Client : /\ ~Pending(c)' /\ (shut'[c] <=> shut[c] \/ Pending(c))
                        /\ Reply(c)' = Reply(c) /\ PostOf(c)' = PostOf(c)
  BY <1>1, <1>3 DEF Pending, Reply, PostOf
<1>5. HttpTypeOK'
  <2>1. <<>> \in Seq(Event) /\ Range(<<>>) = {} BY DEF Range
  <2>2. Word \in Nat \ {0} BY HttpAssumption
  <2>3. /\ database' \in Seq(Event) /\ acked' \subseteq Event /\ dirty' \in BOOLEAN
        /\ pc' \in {"down", "save", "accept", "header", "body"}
        /\ cur' \subseteq Client /\ (cur' # {} <=> pc' \in {"header", "body"})
    BY <1>1, <2>1
  <2>4. Range(backlog') \subseteq Client BY <1>1, <2>1
  <2>5. broken \subseteq Client BY DEF HttpInv, HttpTypeOK
  <2>6. broken' \subseteq Client BY <1>1, <2>5
  <2>7. got' \in 0..(Word - 1) /\ left' \in 0..(Word - 1) BY <1>1, <2>2
  <2>8. \A c \in Client : turn'[c] \in 1..Len(Program[c])
    BY <1>1 DEF HttpInv, HttpTypeOK
  <2>9. cl' \in [Client -> {"idle", "open", "done", "killed"}] BY <1>1, <1>3
  <2> QED BY <1>2, <2>3, <2>4, <2>6, <2>7, <2>8, <2>9 DEF HttpTypeOK
<1>6. Shape'
  <2>1. shut' \in [Client -> BOOLEAN] BY <1>1, <1>3 DEF Pending
  <2>2. <<>> \in Seq(Client) OBVIOUS
  <2> QED BY <1>1, <2>1, <2>2 DEF HttpInv, Shape
<1>7. Waiting' /\ Reading' BY <1>1 DEF Waiting, Reading
<1>8. NotYet' /\ Unanswered' BY <1>1, <1>4 DEF NotYet, Unanswered
<1>9. AtRest' BY <1>1, <1>4 DEF HttpInv, AtRest, Pending
<1>10. Memory' BY <1>1 DEF Memory, Elems
<1>11. WholeIsAnswered'
  <2>1. ASSUME NEW c \in Client, cl[c] = "open", shut'[c], IsWhole(PostOf(c))
        PROVE  IsAnswer(Reply(c), PostOf(c).msg) \/ (Reply(c) = Silence /\ c \in broken')
    <3>1. CASE shut[c] BY <1>1, <2>1, <3>1 DEF HttpInv, WholeIsAnswered
    <3>2. CASE Pending(c)
      <4>1. Reply(c) = Silence BY <3>2 DEF HttpInv, Unanswered, Reply
      <4> QED BY <1>1, <3>2, <4>1
    <3> QED BY <1>4, <2>1, <3>1, <3>2
  <2> QED BY <1>1, <1>4, <2>1 DEF WholeIsAnswered, IsAnswer
<1> QED BY <1>5, <1>6, <1>7, <1>8, <1>9, <1>10, <1>11 DEF HttpInv

\* A client without a connection that waits, or that is read, goes on.
LEMMA FinishStep ==
  ASSUME HttpInv, NEW c \in Client, Finish(c),
         UNCHANGED <<file, database, dirty, acked, pc, cur, got, left, backlog>>,
         cl[c] = "idle" \/ (cl[c] = "open" /\ shut[c]),
         out' \in [Client -> Nat], arrived' \in [Client -> Nat],
         shut' \in [Client -> BOOLEAN], inbox' \in [Client -> Seq(Result)],
         ~shut'[c], inbox'[c] = <<>>, arrived'[c] = 0,
         broken' \subseteq Client,
         \A b \in Client \ {c} : /\ out'[b] = out[b] /\ arrived'[b] = arrived[b]
                                 /\ shut'[b] = shut[b] /\ inbox'[b] = inbox[b]
                                 /\ b \in broken => b \in broken'
  PROVE  HttpInv'
<1> DEFINE n == turn[c]
<1>1. /\ turn' = [turn EXCEPT ![c] = IF @ < Len(Program[c]) THEN @ + 1 ELSE @]
      /\ cl' = [cl EXCEPT ![c] = IF turn[c] < Len(Program[c]) THEN "idle" ELSE "done"]
  BY DEF Finish
<1>2. /\ turn \in [Client -> Nat] /\ cl \in [Client -> {"idle", "open", "done", "killed"}]
      /\ n \in 1..Len(Program[c]) /\ Len(Program[c]) \in Nat /\ cur \subseteq Client
  BY HttpAssumption DEF HttpInv, HttpTypeOK, Shape
<1>3. /\ \A b \in Client \ {c} : turn'[b] = turn[b] /\ cl'[b] = cl[b]
      /\ cl'[c] \in {"idle", "done"}
      /\ turn'[c] = IF n < Len(Program[c]) THEN n + 1 ELSE n
  BY <1>1, <1>2
<1> HIDE DEF n
<1>4. turn'[c] \in 1..Len(Program[c]) BY <1>2, <1>3
<1>5. c \notin cur /\ \A i \in 1..Len(backlog) : backlog[i] # c
  <2>1. ~Fresh(c) BY DEF Fresh, Pending
  <2>2. \A b \in cur : Fresh(b) BY DEF HttpInv, Reading
  <2>3. \A i \in 1..Len(backlog) : Fresh(backlog[i]) BY DEF HttpInv, Waiting
  <2> QED BY ONLY <2>1, <2>2, <2>3
<1>6. HttpTypeOK'
  <2>1. cl' \in [Client -> {"idle", "open", "done", "killed"}] BY <1>1, <1>2
  <2>2. \A b \in Client : turn'[b] \in 1..Len(Program[b]) BY <1>3, <1>4 DEF HttpInv, HttpTypeOK
  <2> QED BY <2>1, <2>2 DEF HttpInv, HttpTypeOK
<1>7. Shape'
  <2>1. turn' \in [Client -> Nat] BY <1>1, <1>2
  <2> QED BY <2>1 DEF HttpInv, Shape
<1>8. /\ \A b \in Client \ {c} : /\ Fresh(b)' = Fresh(b) /\ Pending(b)' = Pending(b)
                                 /\ PostOf(b)' = PostOf(b) /\ Reply(b)' = Reply(b)
      /\ ~Pending(c)'
  BY <1>3 DEF Fresh, Pending, PostOf, Reply
<1>9. Waiting'
  <2>1. ASSUME NEW i \in 1..Len(backlog) PROVE backlog[i] \in Client \ {c}
    <3>1. backlog[i] \in Client BY DEF HttpInv, Shape
    <3> QED BY <3>1, <1>5
  <2>2. \A b \in Client \ {c} :
          /\ Fresh(b) => Fresh(b)'
          /\ arrived[b] + out[b] = 1 + PostOf(b).size =>
                arrived'[b] + out'[b] = 1 + PostOf(b)'.size
    BY <1>8
  <2>3. \A i, j \in 1..Len(backlog) : backlog[i] = backlog[j] => i = j BY DEF HttpInv, Waiting
  <2>4. backlog' = backlog /\ cur' = cur OBVIOUS
  <2>5. \A i \in 1..Len(backlog) : \A b \in Client \ {c} :
          b = backlog[i] => /\ b \notin cur /\ Fresh(b)'
                            /\ arrived'[b] + out'[b] = 1 + PostOf(b)'.size
    <3>1. \A i \in 1..Len(backlog) : \A b \in Client \ {c} :
            b = backlog[i] => b \notin cur /\ Fresh(b) /\ arrived[b] + out[b] = 1 + PostOf(b).size
      BY DEF HttpInv, Waiting
    <3> QED BY <2>2, <3>1
  <2>6. \A i \in 1..Len(backlog)' :
          /\ backlog'[i] \notin cur' /\ Fresh(backlog[i])'
          /\ arrived'[backlog'[i]] + out'[backlog'[i]] = 1 + PostOf(backlog[i])'.size
    BY <2>1, <2>4, <2>5 DEF Fresh, PostOf, Pending
  <2>7. \A i, j \in 1..Len(backlog)' : backlog'[i] = backlog'[j] => i = j BY <2>3, <2>4
  <2> QED BY ONLY <2>6, <2>7 DEF Waiting
<1>10. Reading'
  <2>1. \A b \in cur : b \in Client \ {c} BY <1>2, <1>5
  <2>2. \A b \in cur :
          /\ Fresh(b)
          /\ pc = "header" => arrived[b] + out[b] = 1 + PostOf(b).size
          /\ pc = "body" => /\ got + arrived[b] + out[b] = PostOf(b).size
                            /\ PostOf(b).length # 0
                            /\ \/ got + left = PostOf(b).length
                               \/ got + left = PostOf(b).length + Word
    BY DEF HttpInv, Reading
  <2>3. \A b \in cur : /\ Fresh(b)' = Fresh(b) /\ PostOf(b)' = PostOf(b)
                        /\ arrived'[b] = arrived[b] /\ out'[b] = out[b]
    BY <1>8, <2>1
  <2>4. pc' = pc /\ cur' = cur /\ got' = got /\ left' = left OBVIOUS
  <2> QED BY ONLY <2>2, <2>3, <2>4 DEF Reading
<1>11. NotYet' BY <1>8 DEF HttpInv, NotYet, Up
<1>12. AtRest' /\ Unanswered' BY <1>3, <1>8 DEF HttpInv, AtRest, Unanswered
<1>13. WholeIsAnswered'
  <2>1. ASSUME NEW b \in Client, cl'[b] = "open", shut'[b], IsWhole(PostOf(b)')
        PROVE  IsAnswer(Reply(b)', PostOf(b)'.msg) \/ (Reply(b)' = Silence /\ b \in broken')
    <3>1. b \in Client \ {c} /\ cl[b] = "open" /\ shut[b] BY <1>3, <2>1
    <3> QED BY <1>8, <2>1, <3>1 DEF HttpInv, WholeIsAnswered
  <2> QED BY <2>1 DEF WholeIsAnswered, IsAnswer
<1>14. Memory' BY SameMemory
<1> QED BY <1>6, <1>7, <1>9, <1>10, <1>11, <1>12, <1>13, <1>14 DEF HttpInv

LEMMA ConnectFailsStep ==
  ASSUME HttpInv, NEW c \in Client, ConnectFails(c)
  PROVE  HttpInv'
<1>1. /\ cl[c] = "idle" /\ Finish(c)
      /\ UNCHANGED <<file, database, dirty, acked, pc, cur, got, left, backlog, broken, out, arrived,
                     inbox, shut>>
  BY DEF ConnectFails, relay, store
<1>2. /\ out \in [Client -> Nat] /\ arrived \in [Client -> Nat] /\ broken \subseteq Client
      /\ shut \in [Client -> BOOLEAN] /\ inbox \in [Client -> Seq(Result)]
      /\ ~shut[c] /\ inbox[c] = <<>> /\ arrived[c] = 0
  BY <1>1 DEF HttpInv, HttpTypeOK, Shape, AtRest
<1> QED BY <1>1, <1>2, FinishStep

LEMMA ReceiveStep ==
  ASSUME HttpInv, NEW c \in Client, Receive(c)
  PROVE  HttpInv'
<1>1. /\ cl[c] = "open" /\ shut[c] /\ Finish(c)
      /\ out' = [out EXCEPT ![c] = 0] /\ arrived' = [arrived EXCEPT ![c] = 0]
      /\ inbox' = [inbox EXCEPT ![c] = <<>>]
      /\ shut' = [shut EXCEPT ![c] = FALSE] /\ broken' = broken \ {c}
      /\ UNCHANGED <<file, database, dirty, acked, pc, cur, got, left, backlog>>
  BY DEF Receive, relay, store
<1>2. /\ out \in [Client -> Nat] /\ arrived \in [Client -> Nat] /\ broken \subseteq Client
      /\ shut \in [Client -> BOOLEAN] /\ inbox \in [Client -> Seq(Result)] /\ <<>> \in Seq(Result)
  BY DEF HttpInv, HttpTypeOK, Shape
<1>3. /\ out' \in [Client -> Nat] /\ arrived' \in [Client -> Nat] /\ broken' \subseteq Client
      /\ shut' \in [Client -> BOOLEAN] /\ inbox' \in [Client -> Seq(Result)]
      /\ ~shut'[c] /\ inbox'[c] = <<>> /\ arrived'[c] = 0
      /\ \A b \in Client \ {c} : /\ out'[b] = out[b] /\ arrived'[b] = arrived[b]
                                 /\ shut'[b] = shut[b] /\ inbox'[b] = inbox[b]
                                 /\ b \in broken => b \in broken'
  BY <1>1, <1>2
<1> QED BY <1>1, <1>3, FinishStep

----------------------------------------------------------------------------
(* Theorems *)

LEMMA HttpStutter == HttpInv /\ UNCHANGED vars => HttpInv'
<1> SUFFICES ASSUME HttpInv, UNCHANGED vars PROVE HttpInv' OBVIOUS
<1>1. UNCHANGED <<file, database, dirty, acked, pc, cur, got, left, backlog, cl, turn, broken, out,
                  arrived, inbox, shut>>
  BY DEF vars, relay, clients, store
<1>2. /\ \A c : Fresh(c)' = Fresh(c) /\ Pending(c)' = Pending(c)
      /\ Unanswered'
  BY <1>1, SameConnections
<1>3. HttpTypeOK' /\ Shape' /\ AtRest' BY <1>1 DEF HttpInv, HttpTypeOK, Shape, AtRest
<1>4. NotYet' BY <1>1, <1>2 DEF HttpInv, NotYet, Up
<1>5. Waiting' /\ Reading' BY <1>1, <1>2 DEF HttpInv, Waiting, Reading, PostOf
<1>6. WholeIsAnswered' /\ Memory' BY <1>1, SameAnswers, SameMemory
<1> QED BY <1>2, <1>3, <1>4, <1>5, <1>6 DEF HttpInv

LEMMA HttpStep == HttpInv /\ [Next]_vars => HttpInv'
<1> SUFFICES ASSUME HttpInv, [Next]_vars PROVE HttpInv' OBVIOUS
<1>1. CASE RelayStep
  BY <1>1, StartStep, AcceptStep, AcceptGoneStep, ReadHeaderStep, ReadBodyStep, ReadFailsStep,
    HandleEventStep, HandleRequestStep, HandleNothingStep DEF RelayStep
<1>2. CASE Crash \/ Restart BY <1>2, CrashStep, RestartStep
<1>3. ASSUME NEW c \in Client, ClientStep(c) \/ ConnectFails(c) \/ Kill(c) PROVE HttpInv'
  BY <1>3, ConnectStep, SendStep, ReceiveStep, ConnectFailsStep, KillStep DEF ClientStep
<1> QED BY <1>1, <1>2, <1>3, HttpStutter DEF Next

LEMMA HttpAlways == Spec => []HttpInv
BY HttpInit, HttpStep, PTL DEF Spec

\* Types: whatever the clients send, what is read and what is left to read fit
\* their counters, and the relay reads from one client at a time.
THEOREM HttpTypeCorrect == Spec => []HttpTypeOK
<1>1. HttpInv => HttpTypeOK BY DEF HttpInv
<1> QED BY <1>1, HttpAlways, PTL

\* What http::parse hands on is as long as Content-Length says, although
\* read_left (http.cc:152) goes round its counter when the client sends more.
THEOREM BodyHasItsLength == Spec => []ExactlyTheBody
<1>1. HttpInv => ExactlyTheBody BY BodyIsExact DEF ExactlyTheBody
<1> QED BY <1>1, HttpAlways, PTL

\* A post of its own length gets the answer to its message, however the network
\* cuts it (http.cc:146-162, http_relay.cc:54-107), unless the relay ends first.
THEOREM WholePostsAreAnswered == Spec => []WholeIsAnswered
<1>1. HttpInv => WholeIsAnswered BY DEF HttpInv
<1> QED BY <1>1, HttpAlways, PTL

\* The answer to a REQ holds every event in the file of the authors asked for.
LEMMA AllMatch ==
  ASSUME HttpInv, NEW m
  PROVE  LET A == Elems(parse_request(m).filter.authors)
             f == Matches(parse_request(m).filter)
         IN  Elems(f) = {ev \in Elems(read(file)) : ev.pubkey \in A}
<1> DEFINE A == Elems(parse_request(m).filter.authors)
           f == Matches(parse_request(m).filter)
           s == read(file)
<1>1. f = [i \in request(s, A) |-> s[i]] BY DEF Matches
<1>2. request(s, A) = {i \in 1..Len(s) : s[i].pubkey \in A} BY DEF request
<1>3. s \in Seq(Event) BY ReadType DEF HttpInv, HttpTypeOK
<1> HIDE DEF A, f, s
<1>4. DOMAIN s = 1..Len(s) BY <1>3
<1>5. Elems(s) = {s[i] : i \in 1..Len(s)} BY <1>4 DEF Elems
<1>6. Elems(f) = {s[i] : i \in request(s, A)} BY <1>1 DEF Elems
<1>7. Elems(f) = {ev \in Elems(s) : ev.pubkey \in A} BY <1>2, <1>5, <1>6
<1> QED BY <1>7 DEF A, f, s

\* Only the handler of a REQ sends events.
LEMMA OnlyRequestsSend ==
  ASSUME HttpInv, [Next]_vars, NEW c \in Client,
         inbox'[c] # inbox[c], inbox'[c] # <<>>, inbox'[c][1].type = "events"
  PROVE  c \in cur /\ HandleRequest(c)
<1>1. inbox \in [Client -> Seq(Result)] BY DEF HttpInv, Shape
<1>2. ASSUME NEW b \in cur, NEW answer, Close(b, answer)
      PROVE  b = c /\ inbox'[c] = answer
  <2>1. b \in Client BY DEF HttpInv, HttpTypeOK
  <2> QED BY <1>1, <1>2, <2>1 DEF Close
<1>3. ASSUME NEW b \in cur, Close(b, <<>>) PROVE FALSE BY <1>2, <1>3
<1>4. ASSUME NEW b \in cur, HandleEvent(b) PROVE FALSE
  <2>1. Close(b, <<Ok>>) BY <1>4 DEF HandleEvent
  <2>2. inbox'[c] = <<Ok>> BY <1>2, <2>1
  <2> QED BY <2>2, ResultTypes
<1>5. ASSUME NEW b \in cur, HandleRequest(b) PROVE c \in cur /\ HandleRequest(c)
  <2>1. b = c BY <1>2, <1>5 DEF HandleRequest
  <2> QED BY <1>5, <2>1
<1>6. ASSUME NEW b \in cur, ReadHeader(b) \/ ReadBody(b) \/ ReadFails(b) \/ HandleNothing(b)
      PROVE  FALSE
  BY <1>3, <1>6 DEF ReadHeader, ReadBody, ReadFails, HandleNothing
<1>7. CASE StartEmpty \/ Accept \/ AcceptGone \/ Crash \/ Restart
  BY <1>7 DEF StartEmpty, Accept, AcceptGone, Crash, Restart
<1>8. ASSUME NEW b \in Client, Receive(b) PROVE FALSE BY <1>1, <1>8 DEF Receive
<1>9. ASSUME NEW b \in Client, Connect(b) \/ Send(b) \/ ConnectFails(b) \/ Kill(b) PROVE FALSE
  BY <1>9 DEF Connect, Send, ConnectFails, Kill
<1>10. CASE UNCHANGED vars BY <1>10 DEF vars
<1> QED BY <1>4, <1>5, <1>6, <1>7, <1>8, <1>9, <1>10 DEF Next, RelayStep, ClientStep

\* What is acknowledged is read (http_relay.cc:67-98), for any clients, posts,
\* failing saves, ends and restarts of the relay: a REQ finds every event that
\* was acknowledged since the relay started, unless the last append failed.
THEOREM AcknowledgedIsRead == Spec => AckedIsRead
<1> DEFINE Asks(c) == {ev \in acked : ev.pubkey \in Elems(parse_request(PostOf(c).msg).filter.authors)}
           Step == \A c \in Client :
                     LET new == inbox'[c] IN
                     new # inbox[c] /\ new # <<>> /\ new[1].type = "events" /\ ~dirty =>
                       Asks(c) \subseteq Elems(new[1].events)
<1>1. HttpInv /\ [Next]_vars => Step
  <2> SUFFICES ASSUME HttpInv, [Next]_vars, NEW c \in Client,
                      inbox'[c] # inbox[c], inbox'[c] # <<>>, inbox'[c][1].type = "events", ~dirty
               PROVE  Asks(c) \subseteq Elems(inbox'[c][1].events)
    OBVIOUS
  <2> DEFINE m == PostOf(c).msg
             A == Elems(parse_request(m).filter.authors)
             f == Matches(parse_request(m).filter)
  <2>1. c \in cur /\ HandleRequest(c) BY OnlyRequestsSend
  <2>2. Close(c, <<Events(f)>>) BY <2>1 DEF HandleRequest
  <2>3. inbox'[c] = <<Events(f)>>
    <3>1. inbox \in [Client -> Seq(Result)] BY DEF HttpInv, Shape
    <3> QED BY <2>2, <3>1 DEF Close
  <2>4. inbox'[c][1].events = f BY <2>3, ResultTypes
  <2>5. Elems(f) = {ev \in Elems(read(file)) : ev.pubkey \in A} BY AllMatch
  <2>6. acked \subseteq Elems(read(file)) BY DEF HttpInv, Memory
  <2>7. Asks(c) = {ev \in acked : ev.pubkey \in A} OBVIOUS
  <2> HIDE DEF Asks, A, f
  <2> QED BY <2>4, <2>5, <2>6, <2>7
<1>2. HttpInv /\ [Next]_vars => [Step]_vars BY <1>1
<1>3. [][Step]_vars => AckedIsRead BY PTL DEF AckedIsRead
<1> HIDE DEF Step
<1> QED BY <1>2, <1>3, HttpAlways, PTL DEF Spec

----------------------------------------------------------------------------
(* Refinement: every post is one step on a set of events *)

\* Steps that move bytes and connections do not show.
LEMMA QuietStep ==
  ASSUME UNCHANGED <<file, database, cl, turn, inbox, shut>>, Up' <=> Up
  PROVE  UNCHANGED Atomic!postVars
<1>1. Stored' = Stored /\ Known' = Known BY DEF Stored, Known
<1>2. Replies' = Replies BY DEF Replies, Reply
<1>3. Up' = Up BY DEF Up
<1> QED BY <1>1, <1>2, <1>3 DEF Atomic!postVars

LEMMA OpenUpStep == HttpInv /\ StartEmpty => Atomic!OpenUp
<1> SUFFICES ASSUME HttpInv, StartEmpty PROVE Atomic!OpenUp OBVIOUS
<1>1. /\ pc = "save" /\ pc' = "accept" /\ file' \in Saves(database)
      /\ UNCHANGED <<database, cl, turn, inbox, shut>>
  BY DEF StartEmpty, clients
<1>2. database = <<>> /\ database \in Seq(Event) BY <1>1 DEF HttpInv, HttpTypeOK, NotYet, Up
<1>3. Elems(database) = {} BY <1>2 DEF Elems
<1>4. Stored' \in {{}, Stored} BY <1>1, <1>2, <1>3, SavesAreFiles DEF Stored
<1>5. Replies' = Replies /\ Known' = Known BY <1>1 DEF Replies, Reply, Known
<1>6. ~Up /\ Up' BY <1>1 DEF Up
<1> QED BY <1>1, <1>4, <1>5, <1>6 DEF Atomic!OpenUp

LEMMA PostStep ==
  ASSUME HttpInv, NEW c \in Client, Connect(c)
  PROVE  Atomic!Post(c)
<1>1. /\ cl[c] = "idle" /\ Up /\ cl' = [cl EXCEPT ![c] = "open"]
      /\ UNCHANGED <<file, database, pc, turn, inbox, shut>>
  BY DEF Connect, relay, store
<1>2. cl \in [Client -> {"idle", "open", "done", "killed"}] /\ ~shut[c]
  BY <1>1 DEF HttpInv, HttpTypeOK, AtRest
<1>3. Stored' = Stored /\ Known' = Known /\ Up' = Up BY <1>1 DEF Stored, Known, Up
<1>4. Replies' = Replies
  <2>1. \A b \in Client : Replies'[b] = Replies[b] BY <1>1, <1>2 DEF Replies, Reply
  <2> QED BY <2>1 DEF Replies
<1> QED BY <1>1, <1>3, <1>4 DEF Atomic!Post

LEMMA DieStep ==
  ASSUME HttpInv, NEW c \in Client, Kill(c)
  PROVE  Atomic!Die(c)
<1>1. /\ cl[c] = "open" /\ cl' = [cl EXCEPT ![c] = "killed"]
      /\ UNCHANGED <<file, database, pc, turn, inbox, shut>>
  BY DEF Kill, relay, store
<1>2. cl \in [Client -> {"idle", "open", "done", "killed"}] BY DEF HttpInv, HttpTypeOK
<1>3. Stored' = Stored /\ Known' = Known /\ Up' = Up BY <1>1 DEF Stored, Known, Up
<1>4. \A b \in Client : cl'[b] \in {"open", "killed"} <=> cl[b] \in {"open", "killed"}
  BY <1>1, <1>2
<1>5. Replies' = Replies BY <1>1, <1>4 DEF Replies, Reply
<1> QED BY <1>1, <1>3, <1>5 DEF Atomic!Die

----------------------------------------------------------------------------
(* The end of a connection is the job's one step *)

\* Who is connected and has no reply yet.
LEMMA AskedIsPending ==
  ASSUME HttpInv, NEW c \in Client
  PROVE  /\ Atomic!Asked(c) <=> Pending(c)
         /\ Pending(c) => Reply(c) = Silence
<1>1. Replies[c] = IF cl[c] \in {"open", "killed"} /\ shut[c] THEN <<View(Reply(c))>> ELSE <<>>
  BY DEF Replies
<1>2. <<View(Reply(c))>> # <<>> OBVIOUS
<1>3. shut[c] \in BOOLEAN BY DEF HttpInv, Shape
<1>4. Atomic!Asked(c) <=> Pending(c) BY <1>1, <1>2, <1>3 DEF Atomic!Asked, Pending
<1>5. Pending(c) => Reply(c) = Silence BY DEF HttpInv, Unanswered, Reply
<1> QED BY <1>4, <1>5

\* A job is done, or dropped, when the relay closes: nobody has been answered
\* before, and the answer is all that shows of it.
LEMMA CloseShows ==
  ASSUME HttpInv, NEW c \in cur, NEW r, NEW answer,
         (answer = <<>> /\ r = Silence) \/ (answer = <<r>> /\ arrived[c] + out[c] = 0),
         Close(c, answer), UNCHANGED <<cl, turn>>
  PROVE  /\ c \in Client /\ Atomic!Asked(c)
         /\ Replies' = [Replies EXCEPT ![c] = <<View(r)>>]
         /\ Up' = Up
<1>1. /\ c \in Client /\ pc \in {"header", "body"} /\ Fresh(c)
      /\ arrived[c] \in Nat /\ out[c] \in Nat
  BY OneIsRead
<1>2. inbox \in [Client -> Seq(Result)] /\ shut \in [Client -> BOOLEAN]
  BY DEF HttpInv, Shape
<1>3. Pending(c) /\ cl[c] \in {"open", "killed"} /\ ~shut[c] /\ inbox[c] = <<>>
  BY <1>1 DEF Fresh, Pending
<1>4. /\ pc' = "accept" /\ shut' = [shut EXCEPT ![c] = TRUE]
      /\ \/ inbox' = [inbox EXCEPT ![c] = answer]
         \/ arrived[c] + out[c] > 0 /\ inbox' = inbox
  BY DEF Close
<1>5. /\ shut'[c] /\ \A b \in Client \ {c} : shut'[b] = shut[b] /\ inbox'[b] = inbox[b]
      /\ inbox'[c] = answer
  <2>1. inbox' = [inbox EXCEPT ![c] = answer] \/ (answer = <<>> /\ inbox' = inbox) BY <1>1, <1>4
  <2> QED BY <1>1, <1>2, <1>3, <1>4, <2>1
<1>6. Reply(c)' = r
  <2>1. <<r>> # <<>> /\ <<r>>[1] = r OBVIOUS
  <2> QED BY <1>5, <2>1 DEF Reply
<1>7. Replies'[c] = <<View(r)>> BY <1>1, <1>3, <1>5, <1>6 DEF Replies
<1>8. \A b \in Client \ {c} : Replies'[b] = Replies[b] BY <1>5 DEF Replies, Reply
<1>9. /\ Replies = [b \in Client |-> Replies[b]]
      /\ Replies' = [b \in Client |-> Replies'[b]]
  BY DEF Replies
<1>10. Replies' = [Replies EXCEPT ![c] = <<View(r)>>] BY <1>7, <1>8, <1>9
<1>11. Up' = Up BY <1>1, <1>4 DEF Up
<1>12. Atomic!Asked(c) BY <1>1, <1>3, AskedIsPending
<1> QED BY <1>1, <1>10, <1>11, <1>12

\* The job of the post that is read.
LEMMA JobIsPost ==
  ASSUME HttpInv, NEW c \in Client
  PROVE  Atomic!JobOf(c) = JobOfPost(PostOf(c))
<1>1. turn[c] \in 1..Len(Program[c]) BY DEF HttpInv, HttpTypeOK
<1> QED BY <1>1 DEF Atomic!JobOf, Jobs, PostOf

\* What a post asks for, case by case.
LEMMA JobCases ==
  ASSUME NEW p
  PROVE  LET m == p.msg IN
         /\ IsWhole(p) /\ m.type = "EVENT" /\ EventReadable(m.ev) =>
              JobOfPost(p) = [do |-> "put", ev |-> parse_client_event(m)]
         /\ IsWhole(p) /\ m.type = "REQ" /\ RequestReadable(m) =>
              JobOfPost(p) = [do |-> "get", authors |-> Elems(parse_request(m).filter.authors)]
         /\ (\/ ~IsWhole(p)
             \/ m.type = "EVENT" /\ ~EventReadable(m.ev)
             \/ m.type = "REQ" /\ ~RequestReadable(m)
             \/ m.type \notin {"EVENT", "REQ"}) =>
              JobOfPost(p) = [do |-> "nothing"]
BY DEF JobOfPost

\* A body that was handed on whole is of its own length, with nothing behind.
LEMMA ReceivedIsWhole ==
  ASSUME HttpInv, NEW c \in cur, Received(c)
  PROVE  IsWhole(PostOf(c)) /\ arrived[c] + out[c] = 0
<1>1. pc = "body" /\ left = 0 /\ got = PostOf(c).size BY DEF Received
<1>2. got = PostOf(c).length BY <1>1, BodyIsExact
<1>3. /\ PostOf(c).length \in 0..(Word - 1) /\ PostOf(c).length # 0
      /\ arrived[c] \in Nat /\ out[c] \in Nat /\ got + arrived[c] + out[c] = PostOf(c).size
      /\ Word \in Nat
  BY <1>1, OneIsRead
<1> QED BY <1>1, <1>2, <1>3 DEF IsWhole

\* The job of an EVENT whose body is in is to put it.
LEMMA EventIsPut ==
  ASSUME HttpInv, NEW c \in cur, Received(c), PostOf(c).msg.type = "EVENT",
         EventReadable(PostOf(c).msg.ev)
  PROVE  /\ c \in Client /\ parse_client_event(PostOf(c).msg) \in Event
         /\ Atomic!JobOf(c).do = "put" /\ Atomic!JobOf(c).ev = parse_client_event(PostOf(c).msg)
<1>1. c \in Client /\ turn[c] \in 1..Len(Program[c]) BY OneIsRead
<1>2. parse_client_event(PostOf(c).msg) \in Event BY <1>1, PostType DEF PostOf, EventOfPost
<1>3. Atomic!JobOf(c) = [do |-> "put", ev |-> parse_client_event(PostOf(c).msg)]
  BY <1>1, ReceivedIsWhole, JobIsPost, JobCases
<1> QED BY <1>1, <1>2, <1>3

\* What an append makes of the file is what a put may make of the store.
LEMMA SaveIsPut ==
  ASSUME HttpInv, NEW e \in Event, file' \in Saves(read(file) \o Append(database, e))
  PROVE  Stored' \in Atomic!Puts(e)
<1>1. \/ Elems(read(file')) = Elems(read(file)) \cup Elems(database) \cup {e}
      \/ Elems(read(file')) = Elems(read(file))
      \/ Elems(read(file')) = {}
  BY EventIsAdded
<1> QED BY <1>1 DEF Stored, Known, Atomic!Puts

\* A relay that closes without an answer has done nothing.
LEMMA NothingIsDone ==
  ASSUME HttpInv, NEW c \in cur, Close(c, <<>>), UNCHANGED <<file, database, cl, turn>>,
         JobOfPost(PostOf(c)) = [do |-> "nothing"] \/ cl[c] = "killed"
  PROVE  Atomic!Drop(c)
<1>1. /\ c \in Client /\ Atomic!Asked(c)
      /\ Replies' = [Replies EXCEPT ![c] = <<View(Silence)>>]
      /\ Up' = Up
  BY CloseShows
<1>2. View(Silence) = [type |-> "closed"] BY DEF View, Silence
<1>3. Stored' = Stored /\ Known' = Known BY DEF Stored, Known
<1>4. Atomic!JobOf(c) = JobOfPost(PostOf(c)) BY <1>1, JobIsPost
<1>5. JobOfPost(PostOf(c)) = [do |-> "nothing"] => Atomic!JobOf(c).do = "nothing" BY <1>4
<1> QED BY <1>1, <1>2, <1>3, <1>5 DEF Atomic!Drop, Atomic!Plain

LEMMA PutStep ==
  ASSUME HttpInv, NEW c \in cur, HandleEvent(c)
  PROVE  Atomic!Put(c)
<1> DEFINE m == PostOf(c).msg
           e == parse_client_event(m)
<1>1. /\ Received(c) /\ m.type = "EVENT" /\ EventReadable(m.ev)
      /\ database' = Append(database, e) /\ file' \in Saves(read(file) \o Append(database, e))
      /\ Close(c, <<Ok>>) /\ UNCHANGED <<cl, turn>>
  BY DEF HandleEvent, clients
<1>2. arrived[c] + out[c] = 0 BY <1>1, ReceivedIsWhole
<1>3. /\ Atomic!Asked(c) /\ Replies' = [Replies EXCEPT ![c] = <<View(Ok)>>] /\ Up' = Up
  BY <1>1, <1>2, CloseShows
<1>4. e \in Event /\ Atomic!JobOf(c).do = "put" /\ Atomic!JobOf(c).ev = e BY <1>1, EventIsPut
<1>5. View(Ok) = [type |-> "200"] BY DEF View, Ok
<1> HIDE DEF m, e
<1>6. Stored' \in Atomic!Puts(e) BY <1>1, <1>4, SaveIsPut
<1>7. Known' = Known \cup {e} BY <1>1, <1>4, EventIsAdded DEF Known
<1> QED BY <1>1, <1>3, <1>4, <1>5, <1>6, <1>7 DEF Atomic!Put, Atomic!Plain

LEMMA GetStep ==
  ASSUME HttpInv, NEW c \in cur, HandleRequest(c)
  PROVE  Atomic!Get(c)
<1> DEFINE m == PostOf(c).msg
           A == Elems(parse_request(m).filter.authors)
           f == Matches(parse_request(m).filter)
<1>1. /\ Received(c) /\ m.type = "REQ" /\ RequestReadable(m)
      /\ Close(c, <<Events(f)>>) /\ UNCHANGED <<file, database, cl, turn>>
  BY DEF HandleRequest, clients, store
<1>2. IsWhole(PostOf(c)) /\ arrived[c] + out[c] = 0 BY <1>1, ReceivedIsWhole
<1>3. /\ c \in Client /\ Atomic!Asked(c)
      /\ Replies' = [Replies EXCEPT ![c] = <<View(Events(f))>>] /\ Up' = Up
  BY <1>1, <1>2, CloseShows
<1>4. Atomic!JobOf(c) = [do |-> "get", authors |-> A] BY <1>1, <1>2, <1>3, JobIsPost, JobCases
<1>5. Atomic!JobOf(c).do = "get" /\ Atomic!JobOf(c).authors = A BY <1>4
<1>6. Stored' = Stored /\ Known' = Known BY <1>1 DEF Stored, Known
<1>7. Elems(f) = {ev \in Stored : ev.pubkey \in A} BY AllMatch DEF Stored
<1>8. View(Events(f)) = [type |-> "events", events |-> Elems(f)] BY DEF View, Events
<1> HIDE DEF m, A, f
<1> QED BY <1>1, <1>3, <1>5, <1>6, <1>7, <1>8 DEF Atomic!Get, Atomic!Found

\* The relay's end: who was not answered will not be.
LEMMA FallStep == HttpInv /\ Crash => Atomic!Fall
<1> SUFFICES ASSUME HttpInv, Crash PROVE Atomic!Fall OBVIOUS
<1>1. /\ pc' = "down" /\ file' \in FileAtEnd /\ database' = <<>>
      /\ shut' = [c \in Client |-> shut[c] \/ Pending(c)]
      /\ UNCHANGED <<cl, turn, inbox>>
  BY DEF Crash
<1>2. Up' = FALSE BY <1>1 DEF Up
<1>3. Known' = {} BY <1>1 DEF Known, Elems
<1>4. Replies' = [c \in Client |-> IF Atomic!Asked(c) THEN <<Atomic!Plain("closed")>> ELSE Replies[c]]
  <2>1. ASSUME NEW c \in Client
        PROVE  Replies'[c] = IF Atomic!Asked(c) THEN <<Atomic!Plain("closed")>> ELSE Replies[c]
    <3>1. Reply(c)' = Reply(c) /\ (shut'[c] <=> shut[c] \/ Pending(c)) BY <1>1 DEF Reply
    <3>2. CASE Pending(c)
      <4>1. cl[c] \in {"open", "killed"} BY <3>2 DEF Pending
      <4>2. Atomic!Asked(c) /\ Reply(c)' = Silence BY <3>1, <3>2, AskedIsPending
      <4>3. Replies'[c] = <<View(Silence)>> BY <1>1, <3>1, <3>2, <4>1, <4>2 DEF Replies
      <4>4. View(Silence) = Atomic!Plain("closed") BY DEF View, Silence, Atomic!Plain
      <4> QED BY <4>2, <4>3, <4>4
    <3>3. CASE ~Pending(c)
      <4>1. ~Atomic!Asked(c) BY <3>3, AskedIsPending
      <4>2. Replies'[c] = Replies[c] BY <1>1, <3>1, <3>3 DEF Replies
      <4> QED BY <4>1, <4>2
    <3> QED BY <3>2, <3>3
  <2>2. Replies' = [c \in Client |-> Replies'[c]] BY DEF Replies
  <2> HIDE DEF Atomic!Asked, Atomic!Plain
  <2> QED BY <2>1, <2>2
<1>5. Stored' \in {Stored, {}} \cup
        UNION {Atomic!Puts(Atomic!JobOf(c).ev) :
               c \in {b \in Client : Atomic!Asked(b) /\ Atomic!JobOf(b).do = "put"}}
  <2>1. CASE pc = "save"
    <3>1. database = <<>> /\ database \in Seq(Event) BY <2>1 DEF HttpInv, HttpTypeOK, NotYet, Up
    <3>2. Elems(database) = {} BY <3>1 DEF Elems
    <3>3. file' \in Saves(database) BY <1>1, <2>1 DEF FileAtEnd
    <3>4. Stored' \in {Stored, {}} BY <3>1, <3>2, <3>3, SavesAreFiles DEF Stored
    <3> QED BY <3>4
  <2>2. CASE file' = file
    <3>1. Stored' = Stored BY <2>2 DEF Stored
    <3> QED BY <3>1
  <2>3. ASSUME NEW c \in cur, Received(c), PostOf(c).msg.type = "EVENT",
               EventReadable(PostOf(c).msg.ev),
               file' \in Saves(read(file) \o Append(database, parse_client_event(PostOf(c).msg)))
        PROVE  \E b \in Client : /\ Atomic!Asked(b) /\ Atomic!JobOf(b).do = "put"
                                 /\ Stored' \in Atomic!Puts(Atomic!JobOf(b).ev)
    <3>1. /\ c \in Client /\ parse_client_event(PostOf(c).msg) \in Event
          /\ Atomic!JobOf(c).do = "put" /\ Atomic!JobOf(c).ev = parse_client_event(PostOf(c).msg)
      BY <2>3, EventIsPut
    <3>2. Stored' \in Atomic!Puts(Atomic!JobOf(c).ev) BY <2>3, <3>1, SaveIsPut
    <3>3. Pending(c) BY OneIsRead DEF Fresh
    <3>4. Atomic!Asked(c) BY <3>1, <3>3, AskedIsPending
    <3> QED BY <3>1, <3>2, <3>4
  <2>4. CASE pc # "save" /\ file' # file
    <3>1. \E c \in cur : /\ Received(c) /\ PostOf(c).msg.type = "EVENT"
                         /\ EventReadable(PostOf(c).msg.ev)
                         /\ file' \in Saves(read(file) \o Append(database, parse_client_event(PostOf(c).msg)))
      BY <1>1, <2>4 DEF FileAtEnd
    <3>2. \E b \in Client : /\ Atomic!Asked(b) /\ Atomic!JobOf(b).do = "put"
                            /\ Stored' \in Atomic!Puts(Atomic!JobOf(b).ev)
      BY <2>3, <3>1
    <3> QED BY <3>2
  <2> QED BY <2>1, <2>2, <2>4
<1> QED BY <1>1, <1>2, <1>3, <1>4, <1>5 DEF Atomic!Fall

----------------------------------------------------------------------------
(* The clients go on *)

LEMMA GoOnShows == ASSUME HttpInv, NEW c \in Client, Finish(c) PROVE Atomic!GoOn(c)
<1>1. Len(Jobs[c]) = Len(Program[c])
  <2>1. Len(Program[c]) \in Nat BY HttpAssumption
  <2> QED BY <2>1 DEF Jobs
<1> QED BY <1>1 DEF Finish, Atomic!GoOn

LEMMA TakeStep ==
  ASSUME HttpInv, NEW c \in Client, Receive(c)
  PROVE  Atomic!Take(c)
<1>1. /\ cl[c] = "open" /\ shut[c] /\ Finish(c)
      /\ shut' = [shut EXCEPT ![c] = FALSE] /\ inbox' = [inbox EXCEPT ![c] = <<>>]
      /\ UNCHANGED <<file, database, pc>>
  BY DEF Receive, relay, store
<1>2. /\ cl \in [Client -> {"idle", "open", "done", "killed"}]
      /\ shut \in [Client -> BOOLEAN] /\ inbox \in [Client -> Seq(Result)]
  BY DEF HttpInv, Shape, HttpTypeOK
<1>3. Atomic!GoOn(c) BY <1>1, GoOnShows
<1>4. Replies[c] = <<View(Reply(c))>> BY <1>1 DEF Replies
<1>5. Replies[c] # <<>> BY <1>4
<1>6. Stored' = Stored /\ Known' = Known /\ Up' = Up BY <1>1 DEF Stored, Known, Up
<1>7. Replies' = [Replies EXCEPT ![c] = <<>>]
  <2>1. /\ ~shut'[c]
        /\ \A b \in Client \ {c} : cl'[b] = cl[b] /\ shut'[b] = shut[b] /\ inbox'[b] = inbox[b]
    BY <1>1, <1>2 DEF Finish
  <2>2. Replies'[c] = <<>> BY <2>1 DEF Replies
  <2>3. \A b \in Client \ {c} : Replies'[b] = Replies[b] BY <2>1 DEF Replies, Reply
  <2>4. /\ Replies = [b \in Client |-> Replies[b]]
        /\ Replies' = [b \in Client |-> Replies'[b]]
    BY DEF Replies
  <2> QED BY <2>2, <2>3, <2>4
<1> QED BY <1>1, <1>3, <1>5, <1>6, <1>7 DEF Atomic!Take

LEMMA MissStep ==
  ASSUME HttpInv, NEW c \in Client, ConnectFails(c)
  PROVE  Atomic!Miss(c)
<1>1. /\ cl[c] = "idle" /\ Finish(c) /\ UNCHANGED <<file, database, pc, inbox, shut>>
  BY DEF ConnectFails, relay, store
<1>2. cl \in [Client -> {"idle", "open", "done", "killed"}] BY DEF HttpInv, HttpTypeOK
<1>3. Atomic!GoOn(c) BY <1>1, GoOnShows
<1>4. Stored' = Stored /\ Known' = Known /\ Up' = Up BY <1>1 DEF Stored, Known, Up
<1>5. Replies' = Replies
  <2>1. /\ ~(cl[c] \in {"open", "killed"}) /\ ~(cl'[c] \in {"open", "killed"})
        /\ \A b \in Client \ {c} : cl'[b] = cl[b]
    BY <1>1, <1>2 DEF Finish
  <2>2. \A b \in Client : Replies'[b] = Replies[b] BY <1>1, <2>1 DEF Replies, Reply
  <2> QED BY <2>2 DEF Replies
<1> QED BY <1>1, <1>3, <1>4, <1>5 DEF Atomic!Miss

----------------------------------------------------------------------------
(* The simulation *)

\* Each step of the relay is one on the set of events, or does not show.
LEMMA RelayPosts ==
  ASSUME HttpInv, RelayStep
  PROVE  Atomic!PostsNext \/ UNCHANGED Atomic!postVars
<1>0. \A c \in cur : c \in Client BY DEF HttpInv, HttpTypeOK
<1>1. CASE StartEmpty BY <1>1, OpenUpStep DEF Atomic!PostsNext
<1>2. CASE Accept \/ AcceptGone
  <2>1. UNCHANGED <<file, database, cl, turn, inbox, shut>> /\ (Up' <=> Up)
    BY <1>2 DEF Accept, AcceptGone, relay, clients, store, Up
  <2> QED BY <2>1, QuietStep
<1>3. ASSUME NEW c \in cur, ReadHeader(c)
      PROVE  Atomic!PostsNext \/ UNCHANGED Atomic!postVars
  <2>1. /\ pc = "header" /\ UNCHANGED <<file, database, cl, turn>>
        /\ \/ pc' = "body" /\ UNCHANGED <<shut, inbox>>
           \/ PostOf(c).length = 0 /\ Close(c, <<>>)
    BY <1>3 DEF ReadHeader, clients, store
  <2>2. CASE pc' = "body" /\ UNCHANGED <<shut, inbox>>
    <3>1. Up' <=> Up BY <2>1, <2>2 DEF Up
    <3> QED BY <2>1, <2>2, <3>1, QuietStep
  <2>3. CASE PostOf(c).length = 0 /\ Close(c, <<>>)
    <3>1. ~IsWhole(PostOf(c)) BY <2>3 DEF IsWhole
    <3>2. JobOfPost(PostOf(c)) = [do |-> "nothing"] BY <3>1, JobCases
    <3> QED BY <1>0, <2>1, <2>3, <3>2, NothingIsDone DEF Atomic!PostsNext
  <2> QED BY <2>1, <2>2, <2>3
<1>4. ASSUME NEW c \in cur, ReadBody(c) PROVE UNCHANGED Atomic!postVars
  <2>1. UNCHANGED <<file, database, cl, turn, inbox, shut>> /\ (Up' <=> Up)
    BY <1>4 DEF ReadBody, clients, store, Up
  <2> QED BY <2>1, QuietStep
<1>5. ASSUME NEW c \in cur, ReadFails(c) PROVE Atomic!PostsNext
  <2>1. cl[c] = "killed" /\ Close(c, <<>>) /\ UNCHANGED <<file, database, cl, turn>>
    BY <1>5 DEF ReadFails, clients, store
  <2> QED BY <1>0, <2>1, NothingIsDone DEF Atomic!PostsNext
<1>6. ASSUME NEW c \in cur, HandleEvent(c) \/ HandleRequest(c) PROVE Atomic!PostsNext
  BY <1>0, <1>6, PutStep, GetStep DEF Atomic!PostsNext
<1>7. ASSUME NEW c \in cur, HandleNothing(c) PROVE Atomic!PostsNext
  <2> DEFINE m == PostOf(c).msg
  <2>1. /\ pc = "body" /\ left = 0 /\ Close(c, <<>>)
        /\ \/ got # PostOf(c).size
           \/ m.type = "EVENT" /\ ~EventReadable(m.ev)
           \/ m.type = "REQ" /\ ~RequestReadable(m)
           \/ m.type \notin {"EVENT", "REQ"}
        /\ UNCHANGED <<file, database, cl, turn>>
    BY <1>7 DEF HandleNothing, clients, store
  <2>2. got # PostOf(c).size => ~IsWhole(PostOf(c)) BY <2>1, BodyIsExact
  <2>3. JobOfPost(PostOf(c)) = [do |-> "nothing"] BY <2>1, <2>2, JobCases
  <2> QED BY <1>0, <2>1, <2>3, NothingIsDone DEF Atomic!PostsNext
<1> QED BY <1>1, <1>2, <1>3, <1>4, <1>5, <1>6, <1>7 DEF RelayStep

LEMMA PostsStep == HttpInv /\ [Next]_vars => [Atomic!PostsNext]_(Atomic!postVars)
<1> SUFFICES ASSUME HttpInv, [Next]_vars
             PROVE  Atomic!PostsNext \/ UNCHANGED Atomic!postVars
  OBVIOUS
<1>1. CASE RelayStep BY <1>1, RelayPosts
<1>2. CASE Crash BY <1>2, FallStep DEF Atomic!PostsNext
<1>3. CASE Restart
  <2>1. UNCHANGED <<file, database, cl, turn, inbox, shut>> /\ (Up' <=> Up)
    BY <1>3 DEF Restart, clients, store, Up
  <2> QED BY <2>1, QuietStep
<1>4. ASSUME NEW c \in Client, Send(c) PROVE UNCHANGED Atomic!postVars
  <2>1. UNCHANGED <<file, database, cl, turn, inbox, shut>> /\ (Up' <=> Up)
    BY <1>4 DEF Send, relay, clients, store, Up
  <2> QED BY <2>1, QuietStep
<1>5. ASSUME NEW c \in Client, Connect(c) \/ Receive(c) \/ ConnectFails(c) \/ Kill(c)
      PROVE  Atomic!PostsNext
  BY <1>5, PostStep, TakeStep, MissStep, DieStep DEF Atomic!PostsNext
<1>6. CASE UNCHANGED vars
  <2>1. UNCHANGED <<file, database, cl, turn, inbox, shut>> /\ (Up' <=> Up)
    BY <1>6 DEF vars, relay, clients, store, Up
  <2> QED BY <2>1, QuietStep
<1> QED BY <1>1, <1>2, <1>3, <1>4, <1>5, <1>6 DEF Next, ClientStep

\* To its clients the relay is a set of events, and each post one step on it:
\* done whole or not at all, once at most, between its start and its end, and
\* saved with all that is known whenever a save goes through (http_relay.cc:28-113,
\* database.cc:59-88), for any clients, posts and pieces they come in, failing
\* saves, ends and restarts of the relay.
THEOREM HttpImplementsPosts == Spec => ImplementsPosts
<1>1. Init => Atomic!PostsInit
  <2> SUFFICES ASSUME Init PROVE Atomic!PostsInit OBVIOUS
  <2>1. Stored \in {Elems(read(f)) : f \in InitFiles} BY DEF Init, Stored
  <2>2. Replies = [c \in Client |-> <<>>] BY DEF Init, Replies
  <2>3. Known = {} BY DEF Init, Known, Elems
  <2>4. Up = FALSE BY DEF Init, Up
  <2> QED BY <2>1, <2>2, <2>3, <2>4 DEF Init, Atomic!PostsInit
<1> QED BY <1>1, HttpAlways, PostsStep, PTL DEF Spec, ImplementsPosts, Atomic!PostsSpec
=============================================================================
