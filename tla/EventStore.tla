----------------------------- MODULE EventStore -----------------------------
(***************************************************************************)
(* What a relay of this repository promises its clients, as a set of       *)
(* events: no file, no order, no repetition and no half-done write.        *)
(*                                                                         *)
(* An event is published in one step.  It is known to the running relay    *)
(* from then on; what REQs can find is, after the step, everything known   *)
(* (the save worked), what they could find before (it could not be         *)
(* opened), or nothing (it was cut short).  A crash forgets what is known  *)
(* and leaves either everything that could be found or nothing.  A REQ is  *)
(* answered with a stored event of one of its authors exactly when there   *)
(* is one.                                                                 *)
(***************************************************************************)
CONSTANTS
  Events,       \* the events that may be published or found at the start
  Ids,          \* subscription ids and event ids
  AuthorSets    \* the sets of authors a REQ may name

VARIABLES
  up,           \* the relay is running
  known,        \* the events the running relay holds
  stored,       \* the events a REQ can find
  resp          \* the last response

storeVars == <<up, known, stored, resp>>

Nothing == [type |-> "none"]

StoreInit ==
  /\ up = FALSE
  /\ known = {}
  /\ stored \subseteq Events
  /\ resp = Nothing

StoreStart ==
  /\ ~up /\ up'
  /\ known' = stored
  /\ UNCHANGED <<stored, resp>>

StorePublish(ev) ==
  /\ up
  /\ known' = known \cup {ev}
  /\ stored' \in {stored \cup known \cup {ev}, stored, {}}
  /\ resp' = [type |-> "EOSE", id |-> ev.id]
  /\ UNCHANGED up

StoreRequest(id, authors) ==
  LET found == {ev \in stored : ev.pubkey \in authors}
  IN  /\ up
      /\ \/ /\ found = {}
            /\ resp' = [type |-> "EOSE", id |-> id]
         \/ \E ev \in found : resp' = [type |-> "EVENT", id |-> id, ev |-> ev]
      /\ UNCHANGED <<up, known, stored>>

StoreRefuse ==
  /\ up
  /\ resp' = [type |-> "NOTICE", id |-> "Error"]
  /\ UNCHANGED <<up, known, stored>>

StoreCrash ==
  /\ up /\ ~up'
  /\ known' = {}
  /\ stored' \in {stored, {}}
  /\ resp' = Nothing

StoreNext ==
  \/ StoreStart
  \/ \E ev \in Events : StorePublish(ev)
  \/ \E id \in Ids, authors \in AuthorSets : StoreRequest(id, authors)
  \/ StoreRefuse
  \/ StoreCrash

StoreSpec == StoreInit /\ [][StoreNext]_storeVars
=============================================================================
