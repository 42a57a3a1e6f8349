------------------------------- MODULE Relay --------------------------------
(***************************************************************************)
(* What relay_t::make_response (src/src/relay.cc) answers, as operators:   *)
(* the messages a relay sends, and the answer to a REQ over the content of *)
(* database.json.                                                          *)
(***************************************************************************)
EXTENDS Database, FiniteSetsExt

\* Mutant: an EOSE that names nothing.
EoseBare(id) == [type |-> "EOSE"]

\* The messages a relay sends.
Eose(id) == [type |-> "EOSE", id |-> id]
Notice == [type |-> "NOTICE", id |-> "Error"]
EventResponse(id, ev) == [type |-> "EVENT", id |-> id, ev |-> ev]

\* Mutant: events.back().
LastMatch(s, authors) ==
  LET found == request(s, authors)
  IN  IF found = {} THEN <<>> ELSE <<s[Max(found)]>>

\* events.at(0), as a sequence of at most one event.
FirstMatch(s, authors) ==
  LET found == request(s, authors)
  IN  IF found = {} THEN <<>> ELSE <<s[Min(found)]>>

\* make_response, REQ: the first match only, and no EOSE behind it.
Answer(f, m) ==
  LET r == parse_request(m)
      first == FirstMatch(read(f), Elems(r.filter.authors))
  IN  IF first = <<>> THEN Eose(r.id) ELSE EventResponse(r.id, first[1])
=============================================================================
