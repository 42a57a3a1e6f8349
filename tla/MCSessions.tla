----------------------------- MODULE MCSessions -----------------------------
(* Two publishers and a reader of one author, all nostro. *)
EXTENDS Sessions

MCText == STRING

Ev(id, pubkey, kind) ==
  [id |-> id, pubkey |-> pubkey, created_at |-> 1, kind |-> kind, tags |-> <<>>,
   content |-> "c", sig |-> "s"]

MCPubkeys == {"alice"}

MCSent ==
  [c \in Client |->
     CASE c = "pub1" -> [type |-> "EVENT", ev |-> EventToJson(Ev("a0", "alice", 0))]
       [] c = "pub2" -> [type |-> "EVENT", ev |-> EventToJson(Ev("a1", "alice", 1))]
       [] c = "req"  -> make_request("sub", [DefaultFilter EXCEPT !.authors = <<"alice">>])
       [] c = "bad"  -> [type |-> Bad]]

MCKind == [c \in Client |-> "nostro"]
Wostro == [c \in Client |-> "wostro"]
MCMsg == {MCSent[c] : c \in Client}
MCInitFiles == {NoJson, dump(<<Ev("a9", "alice", 1)>>)}
=============================================================================
