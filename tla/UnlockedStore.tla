--------------------------- MODULE UnlockedStore ----------------------------
(***************************************************************************)
(* What two relays that share a file without a lock make of it, as a set   *)
(* of events: no text, no order, no repetition.                            *)
(*                                                                         *)
(* A save takes what can be found when it begins, may make everything      *)
(* unfindable on its way, and ends with what it took and what its relay    *)
(* holds, whatever the other has stored since: an update may be lost, but  *)
(* two are never mixed.  Only a save that the other one has interfered     *)
(* with may end with nothing to be found.                                  *)
(***************************************************************************)
CONSTANTS
  Process,      \* the relays
  Fresh,        \* those that begin with an empty store, for everybody
  Events,       \* the events that may be published
  Contents      \* what may be found at first

VARIABLES
  stored,       \* the events a reader finds
  held,         \* the events each relay holds
  taken,        \* what a save found when it began
  phase,        \* "down", "idle", "saving"
  alone         \* the other relay has not interfered since the save began

unlockedVars == <<stored, held, taken, phase, alone>>

UnlockedInit ==
  /\ stored \in Contents
  /\ held = [p \in Process |-> {}]
  /\ taken = [p \in Process |-> {}]
  /\ phase = [p \in Process |-> "down"]
  /\ alone = [p \in Process |-> TRUE]

\* The others are no longer alone.
Interfere(p) == alone' = [q \in Process |-> q = p /\ alone[q]]

Start(p) ==
  /\ p \notin Fresh /\ phase[p] = "down"
  /\ held' = [held EXCEPT ![p] = stored]
  /\ phase' = [phase EXCEPT ![p] = "idle"]
  /\ UNCHANGED <<stored, taken, alone>>

StartFresh(p) ==
  /\ p \in Fresh /\ phase[p] = "down"
  /\ stored' = {}
  /\ phase' = [phase EXCEPT ![p] = "saving"]
  /\ Interfere(p)
  /\ UNCHANGED <<held, taken>>

BeginSave(p, ev) ==
  /\ phase[p] = "idle"
  /\ held' = [held EXCEPT ![p] = @ \cup {ev}]
  /\ taken' = [taken EXCEPT ![p] = stored]
  /\ phase' = [phase EXCEPT ![p] = "saving"]
  /\ alone' = [alone EXCEPT ![p] = TRUE]
  /\ UNCHANGED stored

Hide(p) ==
  /\ phase[p] = "saving"
  /\ stored' = {}
  /\ Interfere(p)
  /\ UNCHANGED <<held, taken, phase>>

EndSave(p) ==
  /\ phase[p] = "saving"
  /\ \/ stored' = taken[p] \cup held[p]
     \/ ~alone[p] /\ stored' = {}
  /\ taken' = [taken EXCEPT ![p] = {}]
  /\ phase' = [phase EXCEPT ![p] = "idle"]
  /\ Interfere(p)
  /\ UNCHANGED held

Die(p) ==
  /\ phase[p] # "down"
  /\ held' = [held EXCEPT ![p] = {}]
  /\ taken' = [taken EXCEPT ![p] = {}]
  /\ phase' = [phase EXCEPT ![p] = "down"]
  /\ UNCHANGED <<stored, alone>>

UnlockedNext ==
  \E p \in Process :
    \/ Start(p) \/ StartFresh(p) \/ Hide(p) \/ EndSave(p) \/ Die(p)
    \/ \E ev \in Events : BeginSave(p, ev)

UnlockedSpec == UnlockedInit /\ [][UnlockedNext]_unlockedVars
=============================================================================
