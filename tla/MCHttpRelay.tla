---------------------------- MODULE MCHttpRelay -----------------------------
(* The program of http_client (an event, then a request for its author), a  *)
(* client with an event by the same author, messages the relay does not     *)
(* answer (another type, an unreadable event, a request without a filter),  *)
(* a body longer than its length and one shorter.                           *)
EXTENDS HttpRelay

MCText == STRING

Ev(id, pubkey) ==
  [id |-> id, pubkey |-> pubkey, created_at |-> 1, kind |-> 1, tags |-> <<>>,
   content |-> "some great content", sig |-> "s"]

EventOf(id, pubkey) == [type |-> "EVENT", ev |-> EventToJson(Ev(id, pubkey))]
AskFor(author) ==
  make_request("subscription_1", [DefaultFilter EXCEPT !.authors = <<author>>, !.limit = 100])

Exact(n, m) == [length |-> n, size |-> n, msg |-> m]

MCProgram ==
  [c \in Client |->
     CASE c = "http_client" -> <<Exact(1, EventOf("a1", "alice")), Exact(1, AskFor("alice"))>>
       [] c = "odd"         -> <<Exact(2, EventOf("a2", "alice")),
                                 Exact(1, [type |-> "CLOSE"]),
                                 Exact(1, [type |-> "EVENT", ev |-> [id |-> "x"]]),
                                 Exact(1, [type |-> "REQ", id |-> "s"]),
                                 [length |-> 0, size |-> 0, msg |-> EventOf("n1", "bob")],
                                 [length |-> 1, size |-> 2, msg |-> EventOf("o1", "alice")],
                                 [length |-> 2, size |-> 1, msg |-> EventOf("u1", "alice")]>>]

MCInitFiles == {NoJson}
=============================================================================
