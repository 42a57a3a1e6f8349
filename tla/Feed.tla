-------------------------------- MODULE Feed --------------------------------
(***************************************************************************)
(* The queries of src/src/nostr.cc (get_follows, get_feed, get_metadata,   *)
(* get_events) and the programs around them: each first asks a relay for a *)
(* contact list and then, key by key, for the events of those keys, every  *)
(* question on a connection of its own, while others go on publishing.     *)
(*   "feed":    ContainerFeed::get_feed of src/web/feed.cc, and get_events *)
(*              with Model::populate of src/mobile/model.cpp               *)
(*   "follows": ContainerFollows::get_follows of src/web/follows.cc        *)
(*   "test":    get_metadata of src/test/tests.cc                          *)
(* The relay is vostro, or one that follows NIP-01 and sends the newest    *)
(* matching events and an EOSE, perhaps after a NOTICE.                    *)
(***************************************************************************)
EXTENDS Relay, SequencesExt

CONSTANTS
  User,         \* the public key whose contact list is asked for
  Published,    \* the events that may be published
  MaxEvents     \* bound: the number of events published

ASSUME FeedAssumption ==
  /\ User \in Text /\ Published \subseteq Event
  /\ MaxEvents \in Nat
  /\ Bad \notin Int \cup Seq(Text) \cup Seq(Int) \cup {"uuid"}

VARIABLES
  program,      \* the program that runs: "feed", "follows" or "test"
  vostro,       \* the relay it asks is vostro
  events,       \* the relay's events, oldest first
  pc,           \* "follows", "keys", "done", or "aborted" (an exception is not caught)
  pubkeys,      \* what get_follows found
  pos,          \* idx_key, from 1
  rows,         \* what is shown or kept: the key asked for and the event
  (* history *)
  source,       \* the event get_follows took the keys from, if any
  lost,         \* a connection failed
  missing       \* keys that yielded no row although the relay had a note of theirs

run == <<program, vostro>>
vars == <<run, events, pc, pubkeys, pos, rows, source, lost, missing>>

----------------------------------------------------------------------------
(* The relay's side of relay_to *)

\* The elements of s at the positions in I, in the order they have in s.
Picked(s, I) ==
  LET n == Cardinality(I)
      at == CHOOSE f \in [1..n -> I] : \A i, j \in 1..n : i < j => f[i] < f[j]
  IN  [k \in 1..n |-> s[at[k]]]

AtMost(s, n) == SubSeq(s, 1, Min({n, Len(s)}))

\* What a relay that follows NIP-01 sends: the newest events of the authors
\* and kinds, as many as the limit says, then the end of stored events.
Matching(m) ==
  LET r == parse_request(m)
      found == {i \in DOMAIN events : /\ events[i].pubkey \in Elems(r.filter.authors)
                                      /\ events[i].kind \in Elems(r.filter.kinds)}
      newest == Reverse(Picked(events, found))
  IN  AtMost(newest, r.filter.limit)

Nip01(m) ==
  LET r == parse_request(m)
      found == Matching(m)
  IN  [i \in DOMAIN found |-> EventResponse(r.id, found[i])] \o <<Eose(r.id)>>

\* What the client may have stored when start() returns: it closes at the
\* first message, and keeps what still reaches it before the close is done.
\* vostro sends one message.
Stores(m) ==
  IF vostro THEN {<<Answer(dump(events), m)>>}
  ELSE (UNION {Prefixes(s) : s \in {Nip01(m), <<Notice>> \o Nip01(m)}}) \ {<<>>}

\* relay_to: something is stored, or nothing when the connection fails, which
\* its result does not tell.
relay_to(m, store) ==
  \/ store \in Stores(m) /\ UNCHANGED lost
  \/ store = <<>> /\ lost' = TRUE

----------------------------------------------------------------------------
(* The queries *)

\* Mutant: notes are asked for, whatever the query.
AskNotes(pubkey, kind, limit) ==
  make_request("uuid", [DefaultFilter EXCEPT !.authors = <<pubkey>>, !.kinds = <<1>>,
                                             !.limit = limit])

\* The request of a query for the events of one key and of one kind.
Ask(pubkey, kind, limit) ==
  make_request("uuid", [DefaultFilter EXCEPT !.authors = <<pubkey>>, !.kinds = <<kind>>,
                                             !.limit = limit])

\* Mutant: only the last message of a store is looked at.
LastEventIn(store) ==
  IF store # <<>> /\ Last(store).type = "EVENT" THEN <<Last(store).ev>> ELSE <<>>

\* The EVENT messages of a store, and the events in them.
EventMessages(store) == Picked(store, {i \in DOMAIN store : store[i].type = "EVENT"})

EventsIn(store) ==
  [i \in DOMAIN EventMessages(store) |-> EventMessages(store)[i].ev]

\* The second element of every p tag that has one.
Contacts(ev) ==
  LET p == Picked(ev.tags, {i \in DOMAIN ev.tags : Len(ev.tags[i]) > 1 /\ ev.tags[i][1] = "p"})
  IN  [i \in DOMAIN p |-> p[i][2]]

\* get_follows: the contacts of the first event that came, or none.
get_follows ==
  LET m == Ask(User, 3, 1)
  IN  /\ pc = "follows"
      /\ \E store \in Stores(m) \cup {<<>>} :
           /\ relay_to(m, store)
           /\ source' = AtMost(EventsIn(store), 1)
           /\ pubkeys' = IF EventsIn(store) = <<>> THEN <<>> ELSE Contacts(EventsIn(store)[1])
      /\ pc' = "keys" /\ pos' = 1
      /\ UNCHANGED <<run, events, rows, missing>>

\* The kind each program asks a key's events for, and the limit.
Kind == IF program = "feed" THEN 1 ELSE 0
Limit == IF program = "feed" THEN 2 ELSE 1

\* Mutant: get_metadata keeps the EVENT messages only, as get_feed does.
KeptEvents(store) == EventMessages(store)

\* The messages get_feed and get_metadata return: the EVENTs, or all.
Returned(store) ==
  IF program = "feed" THEN EventMessages(store) ELSE store

\* Mutant: the row is labelled with the user's key, the global pubkey that the
\* loop's variable of the same name hides.
RowsOfUser(key, store) == [i \in DOMAIN EventsIn(store) |-> [key |-> User, ev |-> EventsIn(store)[i]]]

\* Mutant: a row for every message.
RowsOfMessages(key, store) == [i \in DOMAIN store |-> [key |-> key, ev |-> store[i]]]

\* The rows a page adds for one key: the key it asked for beside each event.
RowsOf(key, store) == [i \in DOMAIN EventsIn(store) |-> [key |-> key, ev |-> EventsIn(store)[i]]]

\* get_feed or get_metadata for one key, and what the program does with it:
\* the pages show a row for every event, the test looks at messages.at(0),
\* outside its try block.
AskKey ==
  LET key == pubkeys[pos]
      m == Ask(key, Kind, Limit)
      had == \E i \in DOMAIN events : events[i].pubkey = key /\ events[i].kind = Kind
  IN  /\ pc = "keys" /\ pos <= Len(pubkeys)
      /\ \E store \in Stores(m) \cup {<<>>} :
           LET returned == Returned(store)
               seen == IF program = "test" THEN AtMost(returned, 1) ELSE returned
               new == RowsOf(key, seen)
           IN  /\ relay_to(m, store)
               /\ rows' = rows \o new
               /\ pc' = IF program = "test" /\ returned = <<>> THEN "aborted" ELSE pc
               /\ missing' = IF had /\ new = <<>> /\ store # <<>> /\ store[1] # Notice
                               THEN missing \cup {key} ELSE missing
      /\ pos' = pos + 1
      /\ UNCHANGED <<run, events, pubkeys, source>>

\* The loop over the keys is over.
Return ==
  /\ pc = "keys" /\ pos > Len(pubkeys)
  /\ pc' = "done"
  /\ UNCHANGED <<run, events, pubkeys, pos, rows, source, lost, missing>>

\* Somebody publishes an event, at any time.
Publish ==
  /\ Len(events) < MaxEvents
  /\ \E ev \in Published : events' = Append(events, ev)
  /\ UNCHANGED <<run, pc, pubkeys, pos, rows, source, lost, missing>>

Init ==
  /\ program \in {"feed", "follows", "test"} /\ vostro \in BOOLEAN
  /\ events = <<>> /\ pc = "follows" /\ pubkeys = <<>> /\ pos = 1 /\ rows = <<>>
  /\ source = <<>> /\ lost = FALSE /\ missing = {}

Next == get_follows \/ AskKey \/ Return \/ Publish

Spec == Init /\ [][Next]_vars

----------------------------------------------------------------------------
(* Properties *)

\* Types.
FeedTypeOK ==
  /\ program \in {"feed", "follows", "test"} /\ vostro \in BOOLEAN
  /\ events \in Seq(Event) /\ pc \in {"follows", "keys", "done", "aborted"}
  /\ pubkeys \in Seq(Text) /\ pos \in 1..(Len(pubkeys) + 1)
  /\ rows \in Seq([key: Text, ev: Event]) /\ source \in Seq(Event) /\ Len(source) <= 1
  /\ lost \in BOOLEAN /\ missing \subseteq Text

\* Rows are by their keys (feed.cc:104, follows.cc:107): a page shows the key
\* it asked for beside the content of the event it got, and the two belong
\* together, whatever was stored and published in the meantime.
RowsAreByTheirKeys ==
  \A i \in DOMAIN rows : /\ rows[i].ev.pubkey = rows[i].key
                         /\ rows[i].key \in Elems(pubkeys)

\* Who has notes is shown (nostr.cc:313, 524-542): although the client closes
\* at the first message and may store any number of them, a contact with an
\* event of the kind asked for has a row, unless the connection failed or the
\* relay began with a NOTICE.
ContactsAreShown == missing = {}

\* Only a lost connection aborts (tests.cc:211): metadata.at(0) throws, outside
\* any try block, only if a connection failed.
OnlyLossAborts == pc = "aborted" => lost

\* Follows are contacts (nostr.cc:437-502): get_follows does not look at the
\* kind of the first event it gets, which has to be a contact list because
\* nothing else was asked for.  From vostro, which does not look at kinds
\* either, it may be anything.
FollowsAreContacts == pubkeys # <<>> /\ ~vostro => source[1].kind = 3
=============================================================================
