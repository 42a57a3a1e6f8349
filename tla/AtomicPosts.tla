---------------------------- MODULE AtomicPosts -----------------------------
(***************************************************************************)
(* What the relay with HTTP transport promises its clients: a set of       *)
(* events on which every job that is posted is done in one step, once at   *)
(* most, between the post and its end.                                     *)
(*                                                                         *)
(* There are no bytes here, no lengths, no connections and no file.  A job *)
(* of a client that is still there is done as it was asked for and gets    *)
(* its whole answer; one of a client that was killed may also be dropped.  *)
(* An event that is put is known at once and until the relay falls; it is  *)
(* in the set when its own save or a later one goes through.  A save that  *)
(* does not leaves the set as it was, or empty.                            *)
(***************************************************************************)
EXTENDS Sequences, Naturals

CONSTANTS
  Client,       \* the client processes
  Jobs,         \* what each one wants, in order (field "do"): to put an event
                \* into the store, to get those of some authors, or nothing
  Old           \* what the store may hold from before

VARIABLES
  open,         \* the relay takes posts
  stored,       \* the events that can be got
  known,        \* those that were put since it opened
  phase,        \* each client: "idle", "open" (has posted), "done", "killed"
  turn,         \* the job it is at
  reply         \* the answer to it, once the job has been done

postVars == <<open, stored, known, phase, turn, reply>>

JobOf(c) == Jobs[c][turn[c]]

Found(events) == [type |-> "events", events |-> events]
Plain(type) == [type |-> type]

PostsInit ==
  /\ open = FALSE
  /\ stored \in Old
  /\ known = {}
  /\ phase = [c \in Client |-> "idle"]
  /\ turn = [c \in Client |-> 1]
  /\ reply = [c \in Client |-> <<>>]

\* The relay starts with an empty store, unless it fails to empty it.
OpenUp ==
  /\ ~open /\ open'
  /\ stored' \in {{}, stored}
  /\ UNCHANGED <<known, phase, turn, reply>>

Post(c) ==
  /\ open /\ phase[c] = "idle"
  /\ phase' = [phase EXCEPT ![c] = "open"]
  /\ UNCHANGED <<open, stored, known, turn, reply>>

Asked(c) == phase[c] \in {"open", "killed"} /\ reply[c] = <<>>

\* What the store may be once ev has been put.
Puts(ev) == {stored \cup known \cup {ev}, stored, {}}

\* The job is done, all of it at once.
Put(c) ==
  /\ Asked(c) /\ JobOf(c).do = "put"
  /\ known' = known \cup {JobOf(c).ev}
  /\ stored' \in Puts(JobOf(c).ev)
  /\ reply' = [reply EXCEPT ![c] = <<Plain("200")>>]
  /\ UNCHANGED <<open, phase, turn>>

Get(c) ==
  /\ Asked(c) /\ JobOf(c).do = "get"
  /\ reply' = [reply EXCEPT ![c] = <<Found({ev \in stored : ev.pubkey \in JobOf(c).authors})>>]
  /\ UNCHANGED <<open, stored, known, phase, turn>>

\* Nothing is done for a client that asks for nothing, or is gone.
Drop(c) ==
  /\ Asked(c) /\ (JobOf(c).do = "nothing" \/ phase[c] = "killed")
  /\ reply' = [reply EXCEPT ![c] = <<Plain("closed")>>]
  /\ UNCHANGED <<open, stored, known, phase, turn>>

\* The relay falls: what was only known is lost.  Nobody who asked will have an
\* answer; one of them may have had its event put.
Fall ==
  /\ open' = FALSE /\ known' = {}
  /\ stored' \in {stored, {}} \cup
       UNION {Puts(JobOf(c).ev) : c \in {b \in Client : Asked(b) /\ JobOf(b).do = "put"}}
  /\ reply' = [c \in Client |-> IF Asked(c) THEN <<Plain("closed")>> ELSE reply[c]]
  /\ UNCHANGED <<phase, turn>>

GoOn(c) ==
  /\ turn' = [turn EXCEPT ![c] = IF @ < Len(Jobs[c]) THEN @ + 1 ELSE @]
  /\ phase' = [phase EXCEPT ![c] = IF turn[c] < Len(Jobs[c]) THEN "idle" ELSE "done"]

Take(c) ==
  /\ phase[c] = "open" /\ reply[c] # <<>>
  /\ GoOn(c)
  /\ reply' = [reply EXCEPT ![c] = <<>>]
  /\ UNCHANGED <<open, stored, known>>

\* The relay is not reached; the job is not done.
Miss(c) ==
  /\ phase[c] = "idle"
  /\ GoOn(c)
  /\ UNCHANGED <<open, stored, known, reply>>

Die(c) ==
  /\ phase[c] = "open"
  /\ phase' = [phase EXCEPT ![c] = "killed"]
  /\ UNCHANGED <<open, stored, known, turn, reply>>

PostsNext ==
  \/ OpenUp \/ Fall
  \/ \E c \in Client : Post(c) \/ Put(c) \/ Get(c) \/ Drop(c) \/ Take(c) \/ Miss(c) \/ Die(c)

PostsSpec == PostsInit /\ [][PostsNext]_postVars
=============================================================================
