------------------------------ MODULE Sessions ------------------------------
(***************************************************************************)
(* Clients talking to the relay over WebSocket connections: the relay of   *)
(* Vostro behind the callbacks of src/src/wss_relay.cc, and clients that   *)
(* connect, send one message, store what comes back and close:             *)
(*   "nostro": src/src/wss_client.cc and nostr::relay_to, which close at   *)
(*             the first message they receive;                             *)
(*   "wostro": ContainerHome::send_message of src/web/home.cc, which       *)
(*             closes at the first message that is not an EVENT.           *)
(* The WebSocket library keeps frames in order; an open connection has no  *)
(* timeout.  A client's start() runs until the close frame of the relay    *)
(* arrives or the connection breaks.                                       *)
(***************************************************************************)
EXTENDS Vostro

CONSTANTS
  Client,       \* the client processes, one connection each
  Kind,         \* their programs: a function from Client to {"nostro", "wostro"}
  Sent          \* the message each one sends: a function from Client to Msg

ASSUME ClientAssumption ==
  /\ Kind \in [Client -> {"nostro", "wostro"}]
  /\ Sent \in [Client -> Msg]
  /\ \A m \in Msg : m.type # "close frame"

VARIABLES
  cl,           \* "new", "open", "closing" (has sent its close frame), "done"
  link,         \* the connection: "none", "up", "closed" (in order) or "cut"
  toRelay,      \* frames on their way to the relay, by client
  toClient,     \* frames on their way to each client
  store,        \* the messages each client has stored
  served        \* the clients whose EVENT is being saved (one at most)

net == <<cl, link, toRelay, toClient, store, served>>
allVars == <<vars, net>>

CloseFrame == [type |-> "close frame"]
IsClose(frame) == frame.type = "close frame"

Prefixes(s) == {SubSeq(s, 1, n) : n \in 0..Len(s)}

SessionInit ==
  /\ Init
  /\ cl = [c \in Client |-> "new"]
  /\ link = [c \in Client |-> "none"]
  /\ toRelay = [c \in Client |-> <<>>]
  /\ toClient = [c \in Client |-> <<>>]
  /\ store = [c \in Client |-> <<>>]
  /\ served = {}

----------------------------------------------------------------------------
(* Clients *)

\* The handshake, which takes the relay's thread, then on_open: send(json).
Connect(c) ==
  /\ cl[c] = "new" /\ pc = "idle"
  /\ cl' = [cl EXCEPT ![c] = "open"]
  /\ link' = [link EXCEPT ![c] = "up"]
  /\ toRelay' = [toRelay EXCEPT ![c] = <<Sent[c]>>]
  /\ UNCHANGED <<vars, toClient, store, served>>

\* No relay, or no way to it: on_error, and start() returns.
ConnectFails(c) ==
  /\ cl[c] = "new"
  /\ cl' = [cl EXCEPT ![c] = "done"]
  /\ UNCHANGED <<vars, link, toRelay, toClient, store, served>>

\* Mutant: nostro waits for the end of stored events, like wostro.
ClosesAtEnd(c, msg) == msg.type # "EVENT"

\* Whether the client's on_message calls send_close.
Closes(c, msg) == Kind[c] = "nostro" \/ msg.type # "EVENT"

\* Mutant: the message that makes the client close is not stored.
KeptUnlessClosing(c, msg) == IF Closes(c, msg) THEN store[c] ELSE Append(store[c], msg)

\* store.push_back(str): every message, also the one that makes the client close.
Kept(c, msg) == Append(store[c], msg)

\* on_message; send_close sends one close frame only, and messages keep being
\* delivered after it.
OnMessage(c) ==
  LET msg == Head(toClient[c])
      closes == cl[c] = "open" /\ Closes(c, msg)
  IN  /\ cl[c] \in {"open", "closing"}
      /\ toClient[c] # <<>> /\ ~IsClose(msg)
      /\ store' = [store EXCEPT ![c] = Kept(c, msg)]
      /\ toClient' = [toClient EXCEPT ![c] = Tail(@)]
      /\ cl' = [cl EXCEPT ![c] = IF closes THEN "closing" ELSE @]
      /\ toRelay' = [toRelay EXCEPT ![c] =
                       IF closes /\ link[c] = "up" THEN Append(@, CloseFrame) ELSE @]
      /\ UNCHANGED <<vars, link, served>>

\* The relay's close frame: on_close, nothing more is read, start() returns.
OnClose(c) ==
  /\ cl[c] \in {"open", "closing"}
  /\ toClient[c] # <<>> /\ IsClose(Head(toClient[c]))
  /\ cl' = [cl EXCEPT ![c] = "done"]
  /\ toClient' = [toClient EXCEPT ![c] = <<>>]
  /\ link' = [link EXCEPT ![c] = "closed"]
  /\ UNCHANGED <<vars, toRelay, store, served>>

\* The connection is gone and what had arrived is read: on_error.
OnError(c) ==
  /\ cl[c] \in {"open", "closing"}
  /\ link[c] = "cut" /\ toClient[c] = <<>>
  /\ cl' = [cl EXCEPT ![c] = "done"]
  /\ UNCHANGED <<vars, link, toRelay, toClient, store, served>>

----------------------------------------------------------------------------
(* The relay's callbacks *)

Deliver(c, frame) ==
  toClient' = [toClient EXCEPT ![c] = IF link[c] = "up" THEN Append(@, frame) ELSE @]

\* on_message: make_response, then connection->send.  An EVENT whose file was
\* opened is answered when its save is over.
Serve(c) ==
  LET m == Head(toRelay[c])
  IN  /\ toRelay[c] # <<>> /\ ~IsClose(m)
      /\ \/ BeginPublish(m) /\ served' = {c} /\ UNCHANGED toClient
         \/ /\ PublishUnsaved(m) \/ Request(m) \/ Refuse(m)
            /\ Deliver(c, resp')
            /\ UNCHANGED served
      /\ toRelay' = [toRelay EXCEPT ![c] = Tail(@)]
      /\ UNCHANGED <<cl, link, store>>

\* Mutant: the response goes to any connection.
EndServeAnyone ==
  /\ EndPublish
  /\ \E c \in Client : Deliver(c, resp')
  /\ served' = {}
  /\ UNCHANGED <<cl, link, toRelay, store>>

\* The save is over: connection->send to the client whose EVENT it was.
EndServe ==
  /\ EndPublish
  /\ \E c \in served : Deliver(c, resp')
  /\ served' = {}
  /\ UNCHANGED <<cl, link, toRelay, store>>

\* A close frame is answered with a close frame.
ServeClose(c) ==
  /\ pc = "idle"
  /\ toRelay[c] # <<>> /\ IsClose(Head(toRelay[c]))
  /\ Deliver(c, CloseFrame)
  /\ toRelay' = [toRelay EXCEPT ![c] = <<>>]
  /\ UNCHANGED <<vars, cl, link, store, served>>

----------------------------------------------------------------------------
(* Failures *)

\* The connection breaks; each side still reads what had reached it.
Cut(c) ==
  /\ link[c] = "up"
  /\ link' = [link EXCEPT ![c] = "cut"]
  /\ \E s \in Prefixes(toRelay[c]) : toRelay' = [toRelay EXCEPT ![c] = s]
  /\ \E s \in Prefixes(toClient[c]) : toClient' = [toClient EXCEPT ![c] = s]
  /\ UNCHANGED <<vars, cl, store, served>>

\* The relay's process ends and takes every connection with it.
RelayCrash ==
  /\ Crash
  /\ link' = [c \in Client |-> IF link[c] = "up" THEN "cut" ELSE link[c]]
  /\ toRelay' = [c \in Client |-> <<>>]
  /\ toClient' \in {f \in [Client -> UNION {Prefixes(toClient[c]) : c \in Client}] :
                      \A c \in Client : f[c] \in Prefixes(toClient[c])}
  /\ served' = {}
  /\ UNCHANGED <<cl, store>>

RelayStart == Start /\ UNCHANGED net

ClientStep(c) == OnMessage(c) \/ OnClose(c) \/ OnError(c)
RelayStep(c) == Serve(c) \/ ServeClose(c)

SessionNext ==
  \/ \E c \in Client : \/ Connect(c) \/ ConnectFails(c) \/ ClientStep(c)
                       \/ RelayStep(c) \/ Cut(c)
  \/ EndServe
  \/ RelayCrash
  \/ RelayStart

\* The two event loops run whatever is ready; the user, the network and the
\* operator owe nothing.
Fairness ==
  /\ \A c \in Client : WF_allVars(ClientStep(c)) /\ WF_allVars(RelayStep(c))
  /\ WF_allVars(EndServe)

SessionSpec == SessionInit /\ [][SessionNext]_allVars /\ Fairness

----------------------------------------------------------------------------
(* Properties *)

\* Types of the connections' state.
SessionTypeOK ==
  /\ TypeOK
  /\ cl \in [Client -> {"new", "open", "closing", "done"}]
  /\ link \in [Client -> {"none", "up", "closed", "cut"}]
  /\ served \subseteq Client
  /\ \A c \in Client : /\ \A i \in DOMAIN toRelay[c] : toRelay[c][i] \in Msg \cup {CloseFrame}
                       /\ \A i \in DOMAIN store[c] : store[c][i] \in Response

\* r is a response to the message m.
IsAnswerTo(r, m) ==
  \/ m.type = "EVENT" /\ r = Eose(parse_client_event(m).id)
  \/ m.type = "REQ" /\ r.type \in {"EVENT", "EOSE"} /\ r.id = parse_request(m).id
  \/ m.type \notin {"EVENT", "REQ"} /\ r = Notice

\* Own answer (wss_relay.cc:34-52): a client stores at most one message, the
\* answer to its own, however the connections of several clients, saves and
\* crashes interleave.
OwnAnswer ==
  \A c \in Client :
    /\ Len(store[c]) <= 1
    /\ \A i \in DOMAIN store[c] : IsAnswerTo(store[c][i], Sent[c])

\* Told means kept (relay.cc:59-67): a client that stored the answer to its
\* EVENT can rely on it as the relay's Durable says: the event is in the file
\* after every crash but one that follows a failed save or interrupts one.
ToldIsKept ==
  \A c \in Client :
    /\ Sent[c].type = "EVENT" /\ store[c] # <<>>
    /\ ~cut /\ ~dirty /\ pc # "write"
    => parse_client_event(Sent[c]) \in Elems(read(file))

\* Silence means a broken connection (wss_client.cc:139-149): a client whose
\* start() returned with nothing stored never reached the relay, or lost it.
SilenceIsFailure ==
  \A c \in Client :
    cl[c] = "done" /\ store[c] = <<>> => link[c] \in {"none", "cut"}

\* start() returns (nostr.cc:341, wss_client.cc:192): a client that has sent
\* its message is done in the end, whatever crashes or breaks.
StartReturns == \A c \in Client : cl[c] = "open" ~> cl[c] = "done"

\* relay.cc:37 and home.cc:215, of the relay's messages: EOSE is "used to
\* indicate the end of stored events": a client that has received something
\* for its REQ receives an EOSE in the end, unless it is done before.
StoredEventsEnd ==
  \A c \in Client :
    Sent[c].type = "REQ" /\ store[c] # <<>>
      ~> cl[c] = "done" \/ \E i \in DOMAIN store[c] : store[c][i].type = "EOSE"
=============================================================================
