---------------------------- MODULE MCSharedFile ----------------------------
(* Two authors, an event cut short, and a file that one of them is in. *)
EXTENDS SharedFile

MCText == STRING

Ev(id, pubkey) ==
  [id |-> id, pubkey |-> pubkey, created_at |-> 1, kind |-> 1, tags |-> <<>>,
   content |-> "c", sig |-> "s"]

MCMsg ==
  { [type |-> "EVENT", ev |-> EventToJson(Ev("a1", "alice"))],
    [type |-> "EVENT", ev |-> [id |-> "x", content |-> "no pubkey"]] }

MCInitFiles == { NoJson, dump(<<Ev("b0", "bob")>>) }
=============================================================================
