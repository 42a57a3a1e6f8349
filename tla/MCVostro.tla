------------------------------ MODULE MCVostro ------------------------------
(* Vostro on a small instance: two authors, one of whom publishes twice, an *)
(* event cut short after its id, REQs with and without a readable filter.   *)
EXTENDS Vostro

MCText == STRING

Ev(id, pubkey, kind) ==
  [id |-> id, pubkey |-> pubkey, created_at |-> 1, kind |-> kind, tags |-> <<>>,
   content |-> "c", sig |-> "s"]

MCPubkeys == {"alice", "bob"}

Publish(ev) == [type |-> "EVENT", ev |-> EventToJson(ev)]
AskFor(author) ==
  make_request("sub", [DefaultFilter EXCEPT !.authors = <<author>>, !.kinds = <<1>>])

MCMsg ==
  { Publish(Ev("a0", "alice", 0)), Publish(Ev("a1", "alice", 1)), Publish(Ev("b1", "bob", 1)),
    [type |-> "EVENT", ev |-> [id |-> "x", content |-> "no pubkey"]],
    AskFor("alice"), AskFor("bob"),
    [type |-> "REQ", id |-> "sub", filter |-> [ids |-> Bad, authors |-> <<"alice">>]],
    [type |-> "REQ", id |-> Bad, filter |-> [authors |-> <<"alice">>]],
    [type |-> "CLOSE"], [type |-> Bad] }

MCInitFiles ==
  { NoJson, dump(<<Ev("b0", "bob", 1)>>),
    [json |-> TRUE, objs |-> <<EventToJson(Ev("b0", "bob", 1)), [id |-> "x"]>>] }
=============================================================================
