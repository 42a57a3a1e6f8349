------------------------------ MODULE Database ------------------------------
(***************************************************************************)
(* database.json and the functions of src/src/database.cc that read and    *)
(* write it, as operators on the content of the file.  When and by whom    *)
(* the file is opened, truncated and written is for the modules that       *)
(* extend this one.                                                        *)
(***************************************************************************)
EXTENDS Nostr

Elems(s) == {s[i] : i \in DOMAIN s}

----------------------------------------------------------------------------
(* The file.  It is absent, truncated or not an array of objects (json is  *)
(* FALSE), or it holds a sequence of objects.                              *)

NoJson == [json |-> FALSE, objs |-> <<>>]

IsFile(f) ==
  /\ f.json \in BOOLEAN
  /\ Len(f.objs) \in Nat
  /\ \A i \in 1..Len(f.objs) : IsEventObject(f.objs[i])

\* database::read: one object that cannot be read, like a text that does not
\* parse, throws away the whole file.
read(f) ==
  IF f.json /\ \A i \in 1..Len(f.objs) : EventReadable(f.objs[i])
    THEN [i \in 1..Len(f.objs) |-> EventFromJson(f.objs[i], DefaultEvent)]
    ELSE <<>>

\* js_database.dump(2) of a vector of events, written whole.
dump(s) == [json |-> TRUE, objs |-> [i \in 1..Len(s) |-> EventToJson(s[i])]]

\* Mutant: the loop stops one event early.
requestButLast(s, authors) == {i \in 1..(Len(s) - 1) : s[i].pubkey \in authors}

\* database::request: the positions of the matching events in the vector s it
\* read; of all the filter only the authors are compared.
request(s, authors) == {i \in 1..Len(s) : s[i].pubkey \in authors}
=============================================================================
