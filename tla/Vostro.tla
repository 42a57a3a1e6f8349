------------------------------- MODULE Vostro -------------------------------
(***************************************************************************)
(* The relay: relay_t::make_response (src/src/relay.cc) over the JSON file *)
(* database.json (src/src/database.cc), served by one thread               *)
(* (src/src/wss_relay.cc), with failing saves, crashes and restarts.       *)
(*                                                                         *)
(* The thread handles one message at a time, so the only point inside a    *)
(* handler where anything else can happen is database::append: between     *)
(* the open, which truncates the file, and the end of the write a crash    *)
(* leaves a strict prefix of the JSON text, which no longer parses.  The   *)
(* streams are never checked, so a save that fails is acknowledged just    *)
(* like one that succeeds.                                                 *)
(***************************************************************************)
EXTENDS Relay

CONSTANTS
  Msg,          \* the messages clients may send
  InitFiles,    \* what database.json may be before the relay first starts
  Pubkeys,      \* the public keys the properties speak of
  MaxEvents     \* bound: no event is accepted beyond this length of database

VARIABLES
  file,         \* database.json
  database,     \* relay_t::database, the vector in memory
  base,         \* database::append: the vector it read from the file
  pc,           \* "down", "idle", or "write": the file is open and truncated
  resp,         \* the last response made ("none" before the first)
  (* history, read by no action's guard and by no code *)
  acked,        \* the events a response has acknowledged
  dirty,        \* the last save failed, and no save has succeeded since
  cut           \* a crash came between a failed or unfinished save and the next

code == <<file, database, base, pc, resp>>
history == <<acked, dirty, cut>>
vars == <<file, database, base, pc, resp, acked, dirty, cut>>

ASSUME MsgAssumption == \A m \in Msg : IsClientMessage(m)
ASSUME InitFilesAssumption == \A f \in InitFiles : IsFile(f)
ASSUME MaxEventsAssumption == MaxEvents \in Nat

----------------------------------------------------------------------------
(* relay_t and the relay's process *)

\* Before the first response.
NoResponse == [type |-> "none"]

Init ==
  /\ file \in InitFiles
  /\ database = <<>> /\ base = <<>> /\ pc = "down" /\ resp = NoResponse
  /\ acked = {} /\ dirty = FALSE /\ cut = FALSE

\* Mutant: the vector starts empty, the file is not read.
StartEmpty ==
  /\ pc = "down"
  /\ database' = <<>>
  /\ pc' = "idle"
  /\ UNCHANGED <<file, base, resp, history>>

\* relay_t::relay_t, run by main before the server listens.
Start ==
  /\ pc = "down"
  /\ database' = read(file)
  /\ pc' = "idle"
  /\ UNCHANGED <<file, base, resp, history>>

\* make_response, EVENT, up to the open in database::append: the event, read
\* as far as it can be, joins the vector; the file is read and truncated.
BeginPublish(m) ==
  /\ pc = "idle"
  /\ get_message_type(m) = "EVENT"
  /\ Len(database) < MaxEvents
  /\ database' = Append(database, parse_client_event(m))
  /\ base' = read(file)
  /\ file' = NoJson
  /\ pc' = "write"
  /\ UNCHANGED <<resp, history>>

\* The same when the open fails: the stream drops the write, append returns
\* 0, and the event is acknowledged.
PublishUnsaved(m) ==
  /\ pc = "idle"
  /\ get_message_type(m) = "EVENT"
  /\ Len(database) < MaxEvents
  /\ database' = Append(database, parse_client_event(m))
  /\ resp' = Eose(parse_client_event(m).id)
  /\ acked' = acked \cup {parse_client_event(m)}
  /\ dirty' = TRUE
  /\ UNCHANGED <<file, base, pc, cut>>

\* Mutant: append is given the new event alone, as its name suggests.
EndPublishOne ==
  LET ev == database[Len(database)]
  IN  /\ pc = "write"
      /\ \/ file' = dump(Append(base, ev)) /\ dirty' = FALSE
         \/ file' = NoJson /\ dirty' = TRUE
      /\ base' = <<>>
      /\ pc' = "idle"
      /\ resp' = Eose(ev.id)
      /\ acked' = acked \cup {ev}
      /\ UNCHANGED <<database, cut>>

\* The rest of make_response: append has pushed the WHOLE vector behind what
\* it read, and either all of it is written or, silently, only a part.
EndPublish ==
  LET ev == database[Len(database)]
  IN  /\ pc = "write"
      /\ \/ file' = dump(base \o database) /\ dirty' = FALSE
         \/ file' = NoJson /\ dirty' = TRUE
      /\ base' = <<>>
      /\ pc' = "idle"
      /\ resp' = Eose(ev.id)
      /\ acked' = acked \cup {ev}
      /\ UNCHANGED <<database, cut>>

\* make_response, REQ.
Request(m) ==
  /\ pc = "idle"
  /\ get_message_type(m) = "REQ"
  /\ resp' = Answer(file, m)
  /\ UNCHANGED <<file, database, base, pc, history>>

\* make_response, anything else, CLOSE included.
Refuse(m) ==
  /\ pc = "idle"
  /\ get_message_type(m) \notin {"EVENT", "REQ"}
  /\ resp' = Notice
  /\ UNCHANGED <<file, database, base, pc, history>>

\* The process ends, anywhere.
Crash ==
  /\ pc # "down"
  /\ pc' = "down"
  /\ database' = <<>> /\ base' = <<>> /\ resp' = NoResponse
  /\ cut' = (cut \/ dirty \/ pc = "write")
  /\ dirty' = FALSE
  /\ UNCHANGED <<file, acked>>

Next ==
  \/ Start
  \/ \E m \in Msg : BeginPublish(m) \/ PublishUnsaved(m) \/ Request(m) \/ Refuse(m)
  \/ EndPublish
  \/ Crash

Spec == Init /\ [][Next]_vars

----------------------------------------------------------------------------
(* Properties *)

Response ==
  {NoResponse, Notice} \cup [type: {"EOSE"}, id: Text]
    \cup [type: {"EVENT"}, id: Text, ev: Event]

\* Types: the vectors hold complete events, whatever was parsed.
TypeOK ==
  /\ IsFile(file)
  /\ database \in Seq(Event)
  /\ base \in Seq(Event)
  /\ pc \in {"down", "idle", "write"}
  /\ resp \in Response
  /\ acked \subseteq Event
  /\ dirty \in BOOLEAN
  /\ cut \in BOOLEAN

\* Durability (relay.cc:61-65, database.cc:59-80): unless a crash came while
\* the file was open or after a save that failed, every event ever
\* acknowledged is in the running relay's memory, and it is in the file
\* whenever the last save succeeded, also when saves failed before it: the
\* next save that succeeds makes up for them.
Durable ==
  ~cut => /\ pc # "down" => acked \subseteq Elems(database)
          /\ pc # "write" /\ ~dirty => acked \subseteq Elems(read(file))

\* What a reader of the file would find, and what the relay knew, but for the
\* handler that is inside its write window.
Visible == IF pc = "write" THEN base ELSE read(file)
Held == IF pc = "write" THEN SubSeq(database, 1, Len(database) - 1) ELSE database

\* Agreement (relay.cc:84-89, database.cc:97-131): REQs are answered from the
\* file and events are kept in memory, and the file repeats them over and
\* over, yet for every set of authors the file's answer is the event that
\* comes first in memory; only after a failed save may it be no event at all.
Agreement ==
  pc # "down" =>
    \A authors \in SUBSET Pubkeys :
      LET seen == FirstMatch(Visible, authors)
      IN  seen = FirstMatch(Held, authors) \/ (dirty /\ seen = <<>>)

\* Oldest wins (relay.cc:89): no step, a crash or a restart included, turns the
\* answer to a REQ from one event into another; it may only disappear.  An
\* author's newer event never replaces an older one.
OldestWins ==
  [][\A authors \in SUBSET Pubkeys :
       LET now == FirstMatch(Visible, authors)
       IN  now # <<>> => FirstMatch(Visible', authors) \in {<<>>, now}]_vars

\* Read your writes (relay.cc:65 and 84, database.cc:59-131): while the file is
\* clean, no crash having cut a save or followed a failed one, a REQ that names
\* the author of an event ever acknowledged is answered with an event, whatever
\* saves failed on the way and however often the relay was restarted.
ReadYourWrites ==
  [][\A m \in Msg :
       /\ Request(m) /\ ~cut /\ ~dirty
       /\ \E ev \in acked : ev.pubkey \in Elems(parse_request(m).filter.authors)
       => resp'.type = "EVENT"]_vars

\* What the messages and the initial files can bring into the relay.
Publishable == {parse_client_event(m) : m \in {n \in Msg : get_message_type(n) = "EVENT"}}
Requests == {parse_request(m) : m \in {n \in Msg : get_message_type(n) = "REQ"}}

Store == INSTANCE EventStore WITH
  Events     <- Publishable \cup UNION {Elems(read(f)) : f \in InitFiles},
  Ids        <- {r.id : r \in Requests},
  AuthorSets <- {Elems(r.filter.authors) : r \in Requests},
  up         <- pc # "down",
  known      <- Elems(Held),
  stored     <- Elems(Visible)

\* Refinement (relay.cc:41-107, database.cc): to its clients the relay is a
\* set of events.  The entries the file repeats, their order and the window in
\* which the file is truncated do not show, and a REQ finds an event exactly
\* when the file holds one by its authors.
ImplementsStore == Store!StoreSpec

----------------------------------------------------------------------------
(* What the documents say and the code does not do *)

\* A save that succeeded is the step that leaves the write window clean.
Saved == pc = "write" /\ pc' = "idle" /\ ~dirty'

\* README.md: "To query for the event we just inserted in the datbase, we do"
\* a REQ for its author: the answer is the event just inserted.
JustInsertedIsFound ==
  [][Saved => LET ev == database[Len(database)]
              IN  FirstMatch(read(file'), {ev.pubkey}) = <<ev>>]_vars
=============================================================================
