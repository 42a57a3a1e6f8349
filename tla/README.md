# A TLA+ verification of Nostr_client_relay

This directory models the programs of the repository: the relay (Vostro) with its JSON database, the
second relay over HTTP and its client, the WebSocket sessions between relay and
clients (Nostro, Wostro), the queries for follows and feeds, the event builder (nostril)
with its encodings, and the pages of the web client. TLC checks the models on small
instances; TLAPS proves the safety of all of them, for every set of clients, messages, command lines,
keys, inputs and initial files and every bound.

## 1. The system and its hard parts (inventory)

| Part | Source | State | Operations | Talks to | Module |
|---|---|---|---|---|---|
| Nostr data | `src/nostr.hh`, `src/nostr.cc` | `event_t`, `filter_t` | `to_json`, `from_json`, `get_message_type`, `parse_*`, `make_request`, `make_event` | everything | `Nostr`, `Nostril` |
| Database | `src/database.cc` | `database.json` in the current directory | `read`, `save`, `append`, `request` | both relays, desktop client | `Database`, `Vostro`, `SharedFile` |
| Relay | `src/relay.cc`, `src/wss_relay.cc` | `relay_t::database`, a vector | `relay_t()`, `make_response` | database, WebSocket server | `Relay`, `Vostro`, `Sessions` |
| WebSocket clients | `src/wss_client.cc`, `nostr::relay_to`, `web/home.cc` | the messages received (`store`), the connection's `closed` flag | `on_open`, `on_message`, `on_close`, `on_error`, `start` | relay | `Sessions` |
| Queries | `nostr.cc` 437-607, `web/feed.cc`, `web/follows.cc`, `test/tests.cc` | lists of pubkeys and events | `get_follows`, `get_feed`, `get_metadata`, `get_events` | `relay_to` | `Feed` |
| HTTP relay and client | `src/http/*` | a vector, `database.json`, one socket at a time | accept loop, `http::parse`, `send` | database | `HttpRelay`, `SharedFile` |
| Event builder | `src/nostril/*`, `make_event` | an event under construction, an array of tags, a counter for mining | `parse_args`, keys, direct messages, commitment, mining, printing | clients | `Nostril` |
| Encodings | `nostril/hex.h`, `base64.c`, `proof.h`, `cursor.h`, `nostri.c` 26-71 | bounded buffers | hexadecimal, Base64, JSON strings, zero bits | event builder | `Codec` |
| Web pages | `web/web.cc`, `web/home.cc`, `web/feed.cc`, `web/follows.cc` | widgets, one global `pubkey` for all sessions | pages, fields, `make_message` | queries, event builder | `Wostro` |

What is hard to test, by part (the list with lines is `hazards` in `PROJECT.json`):

* **Database and relay.** Every save truncates the file and rewrites it whole, and no stream
  is ever checked; a crash inside the window leaves a file that does not parse; a
  failed save is acknowledged like any other. `append` is handed the *whole* vector
  and puts it behind whatever the file already holds, so entries repeat. REQs are
  answered from the file, not from memory, with the first match only. A message
  read half-way is stored half-way. Correct means: nothing acknowledged is lost, except
  by a crash that cuts a save or follows a failed one; file and memory agree on
  every answer; an answer never changes into another; to its clients the relay is a set of events.
* **Two relays, one file.** Reads, truncations and writes of two processes interleave without a lock. Correct means: a file that parses holds
  all that its last writer holds; a save that is left alone loses nothing of either.
* **Sessions.** Several connections meet one relay; connections break and the
  relay crashes at any point; an open connection has no timeout on either side (the server limits the handshake only). Correct means: a client stores one message, the answer to
  its own; an answered EVENT is kept; silence means a broken connection; `start()` returns.
* **HTTP relay.** The network cuts a post anywhere; what is left to read is an unsigned difference; one blocking loop serves everybody; a save that fails is answered with 200 all the same; a start empties the file.
  Correct means: a body is handed on with the length it announced or not at all; a whole post gets its answer; what was acknowledged since the start is read, by whomever, unless the last save failed; only a false length can keep the others waiting.
* **Queries.** The answer to one request decides the next; the number of messages stored depends on timing; a missing answer is an empty vector. Correct
  means: what is shown belongs to the key beside it, and no contact is passed over.
* **Event builder.** Arguments in any order change what is hashed and what is printed, at different points; arrays and buffers are fixed; mining must end.
  Correct means: the id is the hash of what is printed, the work is in it and no tag is lost, as long as no buffer was overrun.
* **Web pages.** Threads of different sessions write one global string. Correct means: a session asks for its own key unless another one has written since.

## 2. Modules

```
Nostr -> Database -> Relay -> Vostro -> Sessions        Nostril
             |         |        \- - implements EventStore
             |         \-> Feed                          Codec
             |-> SharedFile - - implements UnlockedStore
             \-> HttpRelay - - implements AtomicPosts    Wostro
```

Proofs: `DatabaseProofs` (lemmas about `Nostr`, `Database` and `Relay`) is extended by `VostroProofs`, `SharedFileProofs`, `HttpRelayProofs` and `FeedProofs`;
`NostrilProofs`, `WostroProofs` and `CodecProofs` stand alone. Each extends the module it is about; `VostroProofs` is about `Vostro` and, since every session theorem rests on the relay's, about `Sessions`.

An arrow is EXTENDS. `MC...` modules hold the small instances for TLC. A definition commented
"Mutant" is a plausible wrong version of the definition that follows it; no specification uses it: it stands in for that definition
to show that a property notices.

### Nostr, Database, Relay (constant level)

A JSON object is a function from field names to values. `EventFromJson(j, s)` is `from_json`: it assigns the fields up to the first one
that cannot be read and leaves the others as they were in `s`, which is what the relay
keeps, because it ignores the parsers' results. In an event every field is required, so an ill-typed field and an
absent one have the same effect (a throw) and both are modelled as absent. In a filter a field may be absent, so an ill-typed one
has the value `Bad` and stops the reading (`FilterThrows`). `FilterToJson` writes `kinds` and `limit` always, lists only
if they are not empty, and no times. Numeric narrowing in the JSON library (a float or a large number
read into an `int`) is not modelled: no decision of the relay depends on a number.
`Database` has the file's contents and what `read` and `request` make of them, `Relay` the messages of `make_response`.

### Vostro

| Variable | Code |
|---|---|
| `file` | `database.json`: absent, truncated or unreadable (`json = FALSE`), or a sequence of objects |
| `database` | `relay_t::database` |
| `base` | the local vector of `database::append`, while the file is open |
| `pc` | `down`, `idle`, or `write`: the file is open and truncated |
| `resp` | the last response of `make_response` |
| `acked`, `dirty`, `cut` | history: what was acknowledged; the last save failed; a crash cut a save or followed a failed one |

| Action | Code |
|---|---|
| `Start` | `relay_t::relay_t` |
| `BeginPublish`, `EndPublish` | `make_response` for an EVENT, split where `append` opens the file; `EndPublish` writes the whole text or, silently, a part |
| `PublishUnsaved` | the same when the open fails |
| `Request` | `make_response` for a REQ, which reads the file |
| `Refuse` | `make_response` for anything else |
| `Crash` | the process ends, anywhere |

The handler is otherwise atomic: `server.start` runs the callbacks in one thread (the library's default pool of one). `Held` and `Visible` are what the relay knew and what a
reader of the file would have found when the handler in progress began; outside
the write window they are `database` and `read(file)`.

Left out: files written for debugging (`json_to_file`, `log`), which nothing reads; a read of the file that fails although the
file is good; the loss of written data by the operating system (power failure). `MaxEvents` bounds the vector in memory by a
guard of the two publishing actions.

### EventStore

Publishing adds one event to what is known and makes findable either everything known, what was findable before, or nothing.
A crash keeps or loses what is findable. A REQ is answered with an event of its authors exactly when one is findable.
`Vostro` maps `known` to `Elems(Held)` and `stored` to `Elems(Visible)`.

### Sessions

`cl`, `link`, `toRelay`, `toClient` and `store` hold for each client its phase,
its connection, the frames under way and the messages stored; `served` is the client whose EVENT is being saved. `Serve` is the relay's
`on_message`, using `Vostro`'s actions, `EndServe` its end after a save. `OnMessage` is the client's; `Closes` tells the two client programs apart: Nostro and
`relay_to` close at the first message, Wostro at the first that is not an EVENT. `Cut` breaks a connection and loses any suffix of the frames
under way in either direction; `RelayCrash` does that to all of them. Each client makes one connection and sends one message, as the programs do. TLS, pings and
fragments are left out. A network that swallows frames for ever without breaking the connection is left out too: against it no
client of this repository returns, since none sets a timeout.

### SharedFile

`vostro` and `http_relay` in one directory. `append` is three steps, its accesses to the file: `Publish` (push_back and read), `Open` (truncate) and `Write`. A text written
by a process that opened the file before the other one wrote goes over that one's text from offset 0, and either replaces it or leaves
its end behind: both outcomes are possible. `StartHttp` is the `save` of an empty vector. Assumed: a read of the file is one step, and a text goes out in one `write(2)`.
Failing saves are in `Vostro`. `calm` and `prior` are history: whether the other process has touched the file since this one's read, and what the file held before it was opened.

`UnlockedStore` is what the two make of the file, as a set: a save takes what can be found when it begins, may make everything unfindable, and ends with what it took and what its relay holds,
whatever the other has stored since. Only a save that was interfered with may end with nothing to be found. `SharedFile` maps the set to `Elems(read(file))`; reading, truncating and writing
are the beginning, `Hide` and the end of a save.

### HttpRelay

A post is its header, one unit, and a body of a few bytes; `out`, `arrived` and `got` count those not sent, not read and read. `ReadHeader` takes any number of
body bytes along with the header, as `read_until` does, and computes `left` modulo `Word`; `ReadBody` is `transfer_exactly`; `ReadFails` the end of the stream.
`HandleEvent`, `HandleRequest` and `HandleNothing` are the rest of the accept loop's body, with `Close`, which may be a reset that overtakes the answer when the client had more to
say. Clients connect, send, receive, go on to the next post, fail to connect, or are killed. A body is JSON if and only if all of it was handed on. A REQ without a third element has no field `filter`: `at(2)` throws,
and it gets no answer (`RequestReadable`).

`StartEmpty` is the `save` of the empty vector in `main`. It and `HandleEvent` may leave the file in any state of `Saves`: written, as it was (the open failed), or cut short; the relay answers 200 in each case. `Crash` ends the
process anywhere: in the middle of a save the file is in one of that save's states (`FileAtEnd`), the vector is gone and all connections not yet closed break off; `Restart` enters `main` again. Until the acceptor is there, connecting fails.
`dirty` (the last append did not reach the file), `acked` (what a 200 was sent for since the start) and `broken` (the clients cut off by the relay's end) are history. A save that nothing cuts short is one step here; other readers of the file while it
is being written are in `SharedFile`.

`AtomicPosts` is the service the clients see: a set of events on which each post is one step between its start and its end, or, for a client that was killed or cut off, perhaps none. An event that is put is known until the relay falls (`Fall`); a save that goes through
brings all that is known into the set, a failed one leaves the set or empties it. `OpenUp` is the start, which empties the set if its own save goes through. `HttpRelay` maps a post
to the job it asks for (`JobOfPost`; nothing, if its length is not its own), the file to the set, the vector to what is known, and a connection that the relay has closed to an answer that waits; bytes, pieces and the backlog do not show.

### Feed

`get_follows`, then `AskKey` for each key, each through `relay_to` on a connection of its own, while `Publish` adds events to the relay. `Stores` are the messages that may be
stored when `start()` returns: one at least, and as many more as arrive before the close is done; or, with `lost`, none. `program` and `vostro`, chosen initially, tell apart the feed page
(also `get_events` with the mobile client's `populate`), the follows page and the test, and the two kinds of relay. The relay that follows NIP-01 is external (`Matching`, `Nip01`).
`Picked(s, I)`, the elements of a sequence at given positions, stands for the loops that push back what passes a test.

### Nostril

`main` step by step: `ParseField`, `ParseTag`, `ParseRefused` for each argument, `make_event_from_args`, `GetKey`, `make_encrypted_dm`, `generate_event_id` or
`ensure_nonce_tag` and `Mine`, and `SignAndPrint`; each failure has the exit code of the source. A hash is the record of what was hashed (`event_commitment`), a signature names its key and id,
encryption marks the content with its receiver: two hashes are equal only if what was hashed is. `timebuf` is the buffer in which the time is cut off. A nonce is lucky if it is in the constant `Lucky`. `make_event` is the library's own way to
an event (`nostr.cc` 349-431). `wanted` is history.

`parse_num` looks at nothing but whether `errno` is `EINVAL`, so an operand without digits (`NoNumber`) is refused or read as 0, as the C library has it: both are modelled.

Three buffers can be too small. That of the commitment is checked; the contents that do not fit are the constant `Huge`. `print_event` puts each line together with `sprintf` in `char str[1024]` (`nostri.c:619`, 633, 640), unchecked: fifteen tags of 64 digits are enough
to leave it. `TagsInStr` and `TextInStr` say which tags and contents fit. `encbuf` of `make_encrypted_dm` (`nostri.c:507`) is as long as the content and the remainder of its last block, while padding fills that block up, so it is too short for every
content whose length modulo 16 is below 8 (`EncbufFits`, `StrLen`). An overrun sets `overrun`; from then on the program may abort, or print an event any fields of which are unreadable (`Torn`). The properties of what is printed say so: they begin with `Printed`, which
is "printed, and nothing overrun". The cursor of `print_event` is of the commitment's size and holds less, so its failure (exit code 88) cannot happen behind a commitment that fits.

### Codec

Pure functions, with recursive functions (what a loop holds after `i` rounds) or positions of the output in place of loops, on a state that is one growing input: `hex_decode`, `hex_encode` and `base64_encode` into a buffer of any size (`hex_chars` and `base64_letters` are what the loops write, `hex_str_size` and `base64_encoded_length` what they need), `count_leading_zero_bits`, and JSON strings pushed
into a buffer of any size. Each is compared with a definition by bits, an inverse, or an external parser of JSON strings. The null pointer that `cursor_push_jsonstr` looks for first is left out: no caller passes one, since `parse_args` sets an empty content.

### Wostro

Sessions run in threads of their own and share `pubkey`. An assignment to it is two steps (`BeginAssign`, `EndAssign`); what is read during one, or left by two at once, may also be `Torn`: the outcomes of the data race.
`known`, `calm` and `strange` are history. `MakeEventFails` reads a buffer that was never written: no JSON, or a message from a buffer freed before.

## 3. Runs

Checked by TLC; all but the last three pass.

| Run | Bounds | Shows |
|---|---|---|
| `vostro` | 4 events (two by one author, one cut off after its id), 4 REQs (two with unreadable parts), 2 other messages, 3 initial files, `MaxEvents` 3 | `TypeOK`, `Durable`, `Agreement`, `OldestWins`, `ReadYourWrites`; `ImplementsStore` |
| `sessions` | two publishers, one reader | `SessionTypeOK`, `OwnAnswer`, `ToldIsKept`, `SilenceIsFailure` |
| `sessions_live` | one publisher, one reader, one client with a message the relay refuses | `StartReturns` |
| `shared_file` | 2 messages (one cut off), 2 initial files, `MaxEvents` 2 in each vector, `MaxEntries` 3 in the file when an event is accepted | `SharedTypeOK`, `LastWriterKept`, `SaveAloneLosesNothing`, `StartsEmpty`; `ImplementsUnlocked` |
| `http_relay` | `http_client` (2 posts) and a client with 7: an event, a message of another type, an unreadable event, a REQ without a filter, one without length, one too long, one too short; bodies up to 2 bytes, `Word` 16; any saves fail, the relay ends and starts any number of times | `HttpTypeOK`, `ExactlyTheBody`, `AckedIsRead`, `WholeIsAnswered`, `AllFinish`; `ImplementsPosts` |
| `feed` | 7 events that may be published, any 4 of them in any order; three programs, two relays | `FeedTypeOK`, `RowsAreByTheirKeys`, `ContactsAreShown`, `OnlyLossAborts`, `FollowsAreContacts` |
| `nostril` | all command lines of up to 3 of 21 arguments, 24 calls of `make_event`; `MaxTags` 2, 4 nonces of which one is lucky, times from `TimeLimit` 100 are cut off; two `e` or `p` tags and one of the contents do not fit `str`, one content of four fits `encbuf` when encrypted | `NostrilTypeOK`, `IdCommits`, `WorkIsDone`, `NoTagIsLost`, `Terminates` |
| `codec` | inputs of up to 4 bytes out of 16 at the edges of every case; all buffer sizes | `HexInverse`, `LeadingZeros`, `Base64Digits`, `JsonInverse` |
| `wostro_pages` | two sessions, one of which also makes messages; one key beside the default | `WostroTypeOK`, `FeedIsOwn`, `RequestsAreOwn` |
| `just_inserted` | as `vostro`, `MaxEvents` 2 | violated: an author's later event is never returned (README.md: "To query for the event we just inserted") |
| `wostro_waits` | one publisher, one reader, both Wostro | violated: an EVENT is never followed by EOSE (`relay.cc:37`), and Wostro waits for it for ever |
| `nostril_tags` | as `nostril` | violated: `make_event` returns an event with tags whose id is the hash of one without (`nip/01.md:33`) |

Why the bounds are enough. `vostro`: three events in memory allow two saves to fail before one succeeds, a restart in between,
and a repetition of entries that are themselves repeated; nothing in the code counts further, and the theorems have
no bounds. `sessions`: two publishers make one client's message wait while the other's is saved, and the reader meets every state of the file; the sessions
start with a relay that is down and may find one event in the file; `MaxEvents` 6 is above anything they reach. `shared_file`: each vector may hold an event that the other's file does not, and each process may be between any two accesses
of the other. `http_relay`: with bodies of two bytes a byte can come with the header or later, at and behind the announced end, and a difference below zero is far above any body modulo 16, as it is modulo 2^64; one client is read
while the other waits. The two readable events allow a save to fail before one succeeds. `feed`: two contact lists, two notes of one contact (the limit) and a note that mentions somebody, in every order. `nostril`: two tags are enough for arguments, receiver and nonce to compete for the last place; three arguments contain every pair that
`parse_args` relates, behind or before a third, and both ways to overrun `str` and the one to overrun `encbuf`, each with an argument to spare. `codec`: Base64 works on groups of three bytes, so four have every remainder; hexadecimal on pairs; escapes need two places. `wostro_pages`: two sessions race; a third adds no
other outcome of a read.

Fairness. `Sessions`: weak fairness of each client's callbacks and of the relay's, because both are asio event loops
that run whatever is ready, and of the end of a save, which is straight-line code. Nothing is assumed of the user,
the network or of anyone restarting a crashed relay. A relay that is down has broken its connections, so its clients see an error.
`HttpRelay`: weak fairness of the relay's only thread and of each client program, which is sequential and whose connect fails while there is no relay; none of failing saves, other failing connections and kills, and none of the relay's end or of anyone starting it again. `Nostril`: weak fairness of
the program's own steps, and some nonce is lucky: a hash without one would make mining endless. Runs that check deadlock: `vostro`, `sessions`, `sessions_live`, `shared_file`, `wostro_pages`; in
the others programs end.

What the violated properties and some of the guarded ones tell of the code (`findings` in `PROJECT.json` has those with a run):

* `FirstMatch` is the oldest entry, so only an author's first event can be queried, of whatever kind: `database::request` compares authors only.
* Each EVENT writes all earlier ones again. It is wasteful (the file grows quadratically), and it is also why a failed save is made good: with the new event alone, the mutant `EndPublishOne`, `Durable`, `ImplementsStore` and `ToldIsKept` fail.
* `read_left` wraps around when more body comes with the header than `Content-Length` says (`http.cc:152`). `ExactlyTheBody` holds because the next read then never ends well, and `AllFinish` names the price: the relay waits for that client.
* `http_relay` sends 200 whatever became of the append (`http_relay.cc:72`, `database.cc:77`), so an acknowledged event cannot be read until a later append goes through (the exception `dirty` in `AckedIsRead`), and a restart forgets all (`acked` starts anew).
* From a relay that ignores kinds, `get_follows` takes the people mentioned in a note for contacts (the exception in `FollowsAreContacts`).
* A time of more than 15 digits is cut off in the commitment and printed whole (`nostri.c:134`; the exception in `IdCommits`).
* `--tag nonce` with `--pow` fails the assertion at `nostri.c:472` (`Exit(Aborted)`); `-e`, `-p`, `-t` and `--dm` behind `--tags` are accepted and their tags not printed (the exception in `NoTagIsLost`); `--pow` with `--mine-pubkey` and `--sec` does no work (the exception in `WorkIsDone`).
* Fewer than `MAX_TAGS` ordinary tags overrun `str` in `print_event` (`nostri.c:633`), and half of all lengths of a direct message overrun `encbuf`, by up to fifteen bytes (`nostri.c:507`); the exception `Printed` in the three properties of what is printed.
* Control characters other than the five with a short escape go into JSON as they are (`nostri.c:38`; the condition `Printable` in `JsonInverse`).
* Opening the web client in another browser resets the key everybody's feed is asked for (`calm` in `FeedIsOwn`).

## 4. Proofs

Every theorem has the form `Spec => []P` or `Spec => [][A]_v` for a property some run checks or is a refinement, an implication between specifications (`SessionsImplementVostro`, `SessionsServeStore` and the three whose property begins with `Implements`), and holds for all values of
the constants: no bound of section 3 is in them. Each inductive invariant below was checked by TLC on the run's instance before it was proved.

Assumptions on constants, all evaluated by TLC in the runs:

| Assumption | Says | Why the code justifies it |
|---|---|---|
| `TextAssumption`, `NowAssumption` | the empty string is a text, the time a natural number | `Text` is a constant since the provers know nothing of the members of `STRING`; TLC runs with `Text <- STRING` |
| `MsgAssumption`, `InitFilesAssumption`, `SharedAssumption`, `HttpAssumption` | the fields that are present in messages, files and posts have their types; bounds are natural numbers | an ill-typed field is modelled as an absent one |
| `HttpAssumption` | `Word` is positive; lengths and sizes of posts are below `Word`; a client has something to post | they are of type `size_t`; `http_client` posts twice |
| `ClientAssumption` | a message is no close frame | opcodes tell them apart, no text does |
| `NostrilAssumption` | a command line is a sequence, the operand of `--created-at` a natural number or without digits; a call of `make_event` has a time and a (perhaps empty) list of tags | `nostril.c` (192) parses it into an unsigned number; the parameters of `make_event` |
| `WostroAssumption` | `None`, `Torn` and the default key are no keys that a user types, and differ | the first is no string, the second the outcome of a race; a user who types the default key adds nothing |
| `CodecAssumption` | bytes are numbers below 256, `MaxLen` a natural number | `uint8_t` and `char`; the bound is in the properties only as the range of buffer sizes, which has to cover the inputs |
| `FeedAssumption` | `Bad` is no number, no list of texts or numbers and no subscription id; what is published are events | `Bad` is a value of another type than the reader expects |

| Theorem | Property | Argument |
|---|---|---|
| **`VostroProofs`** | | |
| `TypeCorrect` | `TypeOK` | inductive with `Window`: in the write window the vector is not empty and the file is truncated, outside it `base` is empty |
| `Durability` | `Durable` | `DurableInv` adds that a relay that is down has no failed save pending: the crash has turned it into `cut` |
| `WritesAreRead` | `ReadYourWrites` | `DurableInv`, and a REQ finds an event exactly when there is one (`AnswerIsFound`) |
| `AnswersAgree` | `Agreement` | the first match of a concatenation (`FirstMatchConcat`) and a file that reads back as written (`ReadDump`, from `EventRoundTrip`): memory written behind the file cannot change an answer that agreed before |
| `OldestAlwaysWins` | `OldestWins` | from `VisibleStep`, the four things a step can do to what REQs find |
| `VostroImplementsStore` | `ImplementsStore` | `StoreInv` adds that the event in the write window came from a message; `EndPublish` is the abstract publishing step, `BeginPublish` a stutter |
| `VostroProofs`, sessions | | `SessionInv`: `Phase(c)` says where a client's only message is: unconnected, asking, answering or told. It is exhaustive, so no frame can be anywhere else. `ServedIsSaving` ties the save that goes on to the client it is for |
| `SessionsImplementVostro` | | every step of the composition is a `Vostro` step or leaves its variables alone, so the theorems above hold behind connections |
| `SessionsServeStore` | `ImplementsStore`, `OldestWins`, `Durable`, `Agreement` | from the frames to the abstract set of events: the composition of the two refinements |
| `SessionTypeCorrect` | `SessionTypeOK` | `NetShape` |
| `AnswersAreOwn` | `OwnAnswer` | `Told`: what is stored is one response out of `AnswersTo(c)` |
| `ToldEventsAreKept` | `ToldIsKept` | an answer to an EVENT leaves the relay only when it is in `acked`, and `DurableInv` keeps that |
| `SilenceMeansFailure` | `SilenceIsFailure` | a client that is done is unconnected, cut off while asking, or told |
| **`SharedFileProofs`** | | `SharedInv`: between its read and its open (`ReadIsFresh`), and between its open and its write (`OpenIsFresh`), a process that was left alone holds what the file held |
| `SharedTypeCorrect` | `SharedTypeOK` | what was written whole can be read (`ReadDump`) |
| `LastWriterIsKept` | `LastWriterKept` | every write puts the writer's vector behind what it read; the other process's steps either leave the text, or leave none that parses, or become the last writer |
| `SaveAloneKeeps` | `SaveAloneLosesNothing` | `OpenIsFresh` |
| `HttpStartsEmpty` | `StartsEmpty` | a start that opens the file writes an empty vector |
| `SharedImplementsUnlocked` | `ImplementsUnlocked` | adds `AloneIsEmpty`: whoever has the file open and was left alone finds it empty, so that only an interfered save can leave the end of another text behind; then one abstract action for each concrete one |
| **`HttpRelayProofs`** | | `HttpInv`: `Reading` conserves bytes (`got + arrived + out` is the size of the post) and says that `got + left` is the length, or the length and one turn of the counter; `Waiting` keeps connections apart; `Unanswered` and `AtRest` say where no reply can be; `NotYet`: a relay that does not listen has no events and no connections; `Memory`: what was acknowledged is in the vector, and the vector is in the file unless the last append failed |
| `HttpTypeCorrect` | `HttpTypeOK` | with `Shape` |
| `BodyHasItsLength` | `ExactlyTheBody` | with `left = 0` the second case of `Reading` would need more bytes than a post can have |
| `WholePostsAreAnswered` | `WholeIsAnswered` | a post of its own length never has bytes left behind when it is handed on, so the reply is not overtaken by a reset; a connection the relay's end breaks off is in `broken` |
| `AcknowledgedIsRead` | `AckedIsRead` | what was acknowledged is in the file unless it is dirty (`Memory`), only a REQ is answered with events (`OnlyRequestsSend`), and it returns every match in the file (`AllMatch`) |
| `HttpImplementsPosts` | `ImplementsPosts` | a save that goes through makes the set what it was, what is known and the new event (`EventIsAdded`, `SaveIsPut`); a post that is handled is of its own length with nothing behind (`ReceivedIsWhole`), so the close is the job's one step (`CloseShows`); the relay's end is `Fall`, whatever state a save is left in (`FallStep`), its start `OpenUp`; every other step of relay and network does not show (`QuietStep`) |
| **`NostrilProofs`** | | `NostrilInv` follows one event through `main`: `Made`, `Keyed`, `Tagged`, `Mining` and `Signable` say what is already true of it at each stage; nothing is claimed of what is printed after an overrun |
| `NostrilTypeCorrect` | `NostrilTypeOK` | every place that adds a tag looks at `MaxTags` first |
| `PrintedIdCommits` | `IdCommits` | `Signable`: the id is the commitment of the event as it is, and nothing changes between that and the print |
| `PrintedWorkIsDone` | `WorkIsDone` | `Mining`: the nonce tag is in the commitment, since `--tags`, which would hide it, is not let through with `--pow` |
| `PrintedTagsAreAll` | `NoTagIsLost` | `Tagged`: the array is what was wanted so far, up to the nonce |
| **`WostroProofs`** | | `WostroInv`: `CalmIsOwn` (a calm session alone with the global finds its own key in it, or is about to write it unraced), `RaceIsOn`, `FieldsAreKnown` |
| `WostroTypeCorrect` | `WostroTypeOK` | an assignment holds a value exactly while it goes on |
| `FeedsAreOwn` | `FeedIsOwn` | whoever ends an assignment has disturbed all others; one who ends it undisturbed and unraced has left its own key |
| `ShownRequestsAreOwn` | `RequestsAreOwn` | `FieldsAreKnown`, and a freed buffer holds EVENTs only |
| **`FeedProofs`** | | `StoresMeaning` says what may be stored after a query: messages about the key asked for, the first of them an event if there was one and no NOTICE. It rests on `AskMeaning` (the request reads back as it was made) and `PickedMeaning`, whose order of positions exists by a least counterexample (`PositionsHaveOrder`) |
| `FeedTypeCorrect` | `FeedTypeOK` | `ContactsType`, `RowsOfMeaning` |
| `RowsBelongToTheirKeys` | `RowsAreByTheirKeys` | every event in a store is by the key asked for, and rows are added for the same key; `get_follows` replaces the keys only when there are no rows (`AtStart`) |
| `ContactsWithNotesAreShown` | `ContactsAreShown` | a store that begins with an event yields a row for each program (`SeenMeaning`) |
| `AbortsOnlyByLoss` | `OnlyLossAborts` | without a loss something is stored, and `get_metadata` returns all of it |
| `FollowsComeFromContacts` | `FollowsAreContacts` | `MatchingMeaning`: such a relay sends what was asked for |
| **`CodecProofs`** | | the input is a sequence of bytes (`InputAlways`), and each claim holds of every such sequence |
| `HexIsExact` | `HexInverse` | a byte is its two halves, a digit of either case one of sixteen values; position by position, without induction; a buffer is written if and only if the digits and the final zero fit |
| `LeadingZerosAreCounted` | `LeadingZeros` | `ZeroBits` for one byte; `CountMeaning`: the loop counts eight for every byte before the first that is not zero, and the zeros of that one |
| `Base64IsExact` | `Base64Digits` | `TripletDigits`: the three bytes of a group as sums of their bits; a tail is a group with zeros (`GroupDigits`); the length from the remainder by 3, and with it the buffers that are refused |
| `JsonIsExact` | `JsonInverse` | forwards, what has been pushed after `i` characters is the quote and their escapes, and stays in the buffer (`JsonIsLoop`, `JsonFits`); backwards from the end of the text, the parser reads what was pushed from character `i` on as the rest of the input (`ReadsChar`, `JsonIsRead`), because no escape begins like another (`EscapesAreApart`) |

Only model-checked, and why: liveness (`StartReturns`, `AllFinish`, `Terminates`), which depends on fairness.

Induction over data. The theorems of `CodecProofs` are about inputs of every length. The library's induction takes an operator as a parameter, which no prover here can instantiate; a *set* of numbers
in its place can be: `LeastNumber` and `Induction` say that a set of natural numbers with 0 and every successor of a member is all of them, and `Recursion` that a loop with a step function has results at
every index. A recursive function of the model is then shown to be such a loop, and what it computes by applying `Induction` to the set of indices at which the claim holds.

Some definitions have the form the provers can reason about. `Picked` chooses the increasing enumeration of a set of positions instead of `SelectSeq` with a test, whose recursion
takes an operator; `HttpRelay!Matches` keeps the positions `request` found as its domain; `Codec` has recursive functions where folds would need an operator, and `base64_letters` gives each position of its output. None changes what TLC finds.

## 5. Not modelled, and the plan

Left out for good: ciphers, hashes and signatures (uninterpreted); logging and random identifiers; Qt and Wt widgets; the desktop client, whose only state is the vector it
reads once; `base64_decode` and the cursor operations no program calls; `parse_relay_event`, which nothing modelled calls; the vendored libraries (OpenSSL, Wt with SQLite, secp256k1, the JSON
library, asio) beyond the WebSocket close handshake. These libraries are nearly all of the repository's lines: its own C and C++ code is under twelve thousand lines of more than a million, of
which the models cover what keeps state or computes something.

All that was planned is done: every safety property that a run checks is also a theorem, and each of the three services on a file (`Vostro`, `SharedFile`, `HttpRelay`) is shown to implement an abstract
specification. What a next step would be: composing `HttpRelay` and `Vostro` on one file below the level of whole saves, and liveness, once a prover for it is at hand.
