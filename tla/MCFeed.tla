------------------------------- MODULE MCFeed -------------------------------
(* A user with two versions of a contact list, a note that mentions someone, *)
(* and two contacts of whom one has a profile and notes.                     *)
EXTENDS Feed

MCText == STRING

Ev(id, pubkey, kind, tags) ==
  [id |-> id, pubkey |-> pubkey, created_at |-> 1, kind |-> kind, tags |-> tags,
   content |-> "c", sig |-> "s"]

MCPublished ==
  { Ev("u1", "user", 1, << <<"p", "carol">> >>),
    Ev("u2", "user", 3, << <<"p", "alice">> >>),
    Ev("u3", "user", 3, << <<"p", "bob", "wss://r">>, <<"p">>, <<"e", "u1">>, <<"p", "alice">> >>),
    Ev("a0", "alice", 0, <<>>), Ev("a1", "alice", 1, <<>>), Ev("a2", "alice", 1, <<>>),
    Ev("b1", "bob", 1, <<>>) }
=============================================================================
