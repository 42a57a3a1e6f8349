------------------------------- MODULE Nostr -------------------------------
(***************************************************************************)
(* The data of the protocol and its conversions: src/src/nostr.hh and the  *)
(* to_json / from_json / parse_* functions of src/src/nostr.cc.            *)
(*                                                                         *)
(* A JSON object is a function from the names of its fields to their       *)
(* values.  What matters about a field that a conversion cannot read (a    *)
(* number where a string is expected) is that the read throws:             *)
(*   - in an event every field is required, so an ill-typed field is       *)
(*     modelled as an absent one (both throw);                             *)
(*   - in a filter and in the head of a message a field may be absent,     *)
(*     so an ill-typed one has the value Bad.                              *)
(* A message is the record of the array elements the code looks at: its    *)
(* type (element 0), id (a subscription id) and ev or filter (an object).  *)
(* A text that is not a JSON array, or whose element 0 is not a string,    *)
(* has type Bad.  A missing object is the object with no fields: both make *)
(* the read of an event throw, and leave vostro, which goes on behind a    *)
(* throw, with an empty filter.  http_relay answers the one and not the    *)
(* other, so that for it a REQ without a third element has no filter.      *)
(***************************************************************************)
EXTENDS Integers, Sequences

CONSTANTS
  Text,       \* the strings
  Now,        \* std::time(0) at the moment an event_t or a filter_t is made
  Bad         \* a JSON value of another type than the reader expects

ASSUME TextAssumption == "" \in Text
ASSUME NowAssumption == Now \in Nat

----------------------------------------------------------------------------
(* event_t *)

Event == [id: Text, pubkey: Text, created_at: Int, kind: Int,
          tags: Seq(Seq(Text)), content: Text, sig: Text]

\* Mutant: a constructor that leaves kind out of its initialisers.
UninitializedEvent == [id |-> "", pubkey |-> "", created_at |-> Now, kind |-> Bad,
                       tags |-> <<>>, content |-> "", sig |-> ""]

\* The constructor of event_t: kind 1, the current time, all else empty.
DefaultEvent == [id |-> "", pubkey |-> "", created_at |-> Now, kind |-> 1,
                 tags |-> <<>>, content |-> "", sig |-> ""]

\* The order in which from_json reads the fields of an event.
EventFields == <<"id", "pubkey", "created_at", "kind", "tags", "content", "sig">>

\* from_json gets past its k-th read: none of the first k reads throws.
ReadsEvent(j, k) == \A i \in 1..k : EventFields[i] \in DOMAIN j

\* What from_json leaves in an event that held s: the fields read before the
\* first throw are assigned, the others keep their values.
EventFromJson(j, s) ==
  [id         |-> IF ReadsEvent(j, 1) THEN j.id         ELSE s.id,
   pubkey     |-> IF ReadsEvent(j, 2) THEN j.pubkey     ELSE s.pubkey,
   created_at |-> IF ReadsEvent(j, 3) THEN j.created_at ELSE s.created_at,
   kind       |-> IF ReadsEvent(j, 4) THEN j.kind       ELSE s.kind,
   tags       |-> IF ReadsEvent(j, 5) THEN j.tags       ELSE s.tags,
   content    |-> IF ReadsEvent(j, 6) THEN j.content    ELSE s.content,
   sig        |-> IF ReadsEvent(j, 7) THEN j.sig        ELSE s.sig]

\* from_json returns instead of throwing.
EventReadable(j) == ReadsEvent(j, 7)

\* to_json writes every field of an event, whatever it holds.
EventToJson(s) ==
  [id |-> s.id, pubkey |-> s.pubkey, created_at |-> s.created_at, kind |-> s.kind,
   tags |-> s.tags, content |-> s.content, sig |-> s.sig]

\* The objects an event may be read from: the fields present have their type.
IsEventObject(j) ==
  /\ "id"         \in DOMAIN j => j.id \in Text
  /\ "pubkey"     \in DOMAIN j => j.pubkey \in Text
  /\ "created_at" \in DOMAIN j => j.created_at \in Int
  /\ "kind"       \in DOMAIN j => j.kind \in Int
  /\ "tags"       \in DOMAIN j => j.tags \in Seq(Seq(Text))
  /\ "content"    \in DOMAIN j => j.content \in Text
  /\ "sig"        \in DOMAIN j => j.sig \in Text

----------------------------------------------------------------------------
(* filter_t *)

DefaultFilter ==
  [ids |-> <<>>, authors |-> <<>>, kinds |-> <<>>, e |-> <<>>, p |-> <<>>,
   since |-> 0, until |-> Now, limit |-> 1]

\* The order in which from_json reads a filter ("#e" and "#p" are e and p here).
FilterFields == <<"ids", "authors", "kinds", "e", "p", "since", "until", "limit">>

\* One of the first k reads of from_json throws.
FilterThrows(j, k) ==
  \E i \in 1..k : FilterFields[i] \in DOMAIN j /\ j[FilterFields[i]] = Bad

FilterFromJson(j, s) ==
  LET Assigned(k) == FilterFields[k] \in DOMAIN j /\ ~FilterThrows(j, k)
  IN  [f \in DOMAIN s |->
         IF \E k \in DOMAIN FilterFields : FilterFields[k] = f /\ Assigned(k)
           THEN j[f] ELSE s[f]]

\* to_json without times, as make_request calls it: kinds and limit always,
\* the lists only when they are not empty, since and until never.
FilterToJson(s) ==
  LET Written == {"kinds", "limit"} \cup {f \in {"ids", "authors", "e", "p"} : s[f] # <<>>}
  IN  [f \in Written |-> s[f]]

----------------------------------------------------------------------------
(* messages *)

MessageTypes == {"EVENT", "REQ", "CLOSE", "EOSE", "NOTICE"}

get_message_type(m) == IF m.type \in MessageTypes THEN m.type ELSE "UNKNOWN"

\* The event parse_client_event leaves behind: its callers ignore its result,
\* so a partial read leaves a partly default event.
parse_client_event(m) == EventFromJson(m.ev, DefaultEvent)

\* The subscription id and the filter parse_request leaves behind; an id
\* that cannot be read throws before the filter is looked at.
parse_request(m) ==
  [id     |-> IF m.id = Bad THEN "" ELSE m.id,
   filter |-> IF m.id = Bad THEN DefaultFilter ELSE FilterFromJson(m.filter, DefaultFilter)]

make_request(sub, filter) == [type |-> "REQ", id |-> sub, filter |-> FilterToJson(filter)]

\* The messages that reach a relay: a type, and by type an event object, or
\* a subscription id and a filter object.
IsClientMessage(m) ==
  /\ m.type = "EVENT" => IsEventObject(m.ev)
  /\ m.type = "REQ" => m.id \in Text \cup {Bad}
=============================================================================
