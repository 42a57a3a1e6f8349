------------------------------- MODULE Wostro -------------------------------
(***************************************************************************)
(* The pages of the web client: NostroApplication (src/web/web.cc), the    *)
(* home page (src/web/home.cc) and the menu that leads to the feed and the *)
(* follows (src/web/feed.cc, src/web/follows.cc), for several browser      *)
(* sessions.  The server runs every session's handlers one at a time, but  *)
(* different sessions in different threads, and they share one global      *)
(* string, pubkey, without a lock: an assignment is two steps here, and    *)
(* what is read or left while another one goes on may be a mixture.        *)
(*                                                                         *)
(* What is sent to a relay and what comes back is in Sessions and Feed.    *)
(***************************************************************************)
EXTENDS Integers, Sequences, FiniteSets

CONSTANTS
  Session,      \* the browser sessions
  Writer,       \* bound: those whose users also type authors and make messages
  Key,          \* the public keys the users may type
  DefKey,       \* def_pubkey
  Torn,         \* a string written by two threads at once
  None          \* nothing

ASSUME WostroAssumption ==
  /\ Writer \subseteq Session /\ DefKey \notin Key
  /\ Torn \notin Key \cup {DefKey, None} /\ None \notin Key \cup {DefKey}

VARIABLES
  pubkey,       \* the global
  page,         \* "none" before the session, "home", "feed" or "follows"
  pc,           \* a session's thread: "idle", "home" or "edit" (it assigns to
                \* pubkey) or "show" (it has yet to put it into its field)
  val,          \* what it assigns
  race,         \* the sessions whose assignment has met another one
  edit_pubkey,  \* m_edit_pubkey; on other pages, what it showed last
  edit_author,  \* m_edit_author
  area,         \* m_area_message
  freed,        \* the EVENT messages in buffers that were freed
  (* history *)
  known,        \* the keys each user has typed, or seen in the field
  calm,         \* no other session has assigned since this one began to
  strange       \* the sessions that asked for a feed or follows with another
                \* key than their own although they were calm

home == <<edit_pubkey, edit_author, area>>
vars == <<pubkey, page, pc, val, race, home, freed, known, calm, strange>>

Init ==
  /\ pubkey = "" /\ race = {} /\ freed = {}
  /\ page = [s \in Session |-> "none"]
  /\ pc = [s \in Session |-> "idle"]
  /\ val = [s \in Session |-> None]
  /\ edit_pubkey = [s \in Session |-> ""]
  /\ edit_author = [s \in Session |-> ""]
  /\ area = [s \in Session |-> None]
  /\ known = [s \in Session |-> {}]
  /\ calm = [s \in Session |-> TRUE]
  /\ strange = {}

----------------------------------------------------------------------------
(* The global string *)

Assigning == {s \in Session : pc[s] \in {"home", "edit"}}

\* What a thread may read.
Reads(s) ==
  {pubkey} \cup (IF Assigning \ {s} = {} THEN {} ELSE {Torn} \cup {val[q] : q \in Assigning \ {s}})

BeginAssign(s, k, where) ==
  /\ pc' = [pc EXCEPT ![s] = where]
  /\ val' = [val EXCEPT ![s] = k]
  /\ race' = IF Assigning = {} THEN race ELSE race \cup {s} \cup Assigning
  /\ calm' = [q \in Session |-> q = s]

EndAssign(s) ==
  /\ pc[s] \in {"home", "edit"}
  /\ pubkey' \in {val[s]} \cup (IF s \in race THEN {Torn} ELSE {})
  /\ race' = race \ {s}
  /\ pc' = [pc EXCEPT ![s] = IF @ = "home" THEN "show" ELSE "idle"]
  /\ val' = [val EXCEPT ![s] = None]
  /\ calm' = [q \in Session |-> q = s /\ calm[q]]
  /\ UNCHANGED <<page, home, freed, known, strange>>

----------------------------------------------------------------------------
(* Pages *)

\* A browser connects, or Home is selected: ContainerHome::ContainerHome, with
\* new widgets, up to the end of the assignment of the default key.
ContainerHome(s) ==
  /\ pc[s] = "idle"
  /\ page' = [page EXCEPT ![s] = "home"]
  /\ edit_author' = [edit_author EXCEPT ![s] = ""]
  /\ area' = [area EXCEPT ![s] = None]
  /\ BeginAssign(s, DefKey, "home")
  /\ UNCHANGED <<pubkey, edit_pubkey, freed, known, strange>>

\* The rest of the constructor: the field is filled from the global.
SetText(s) ==
  /\ pc[s] = "show"
  /\ \E k \in Reads(s) : /\ edit_pubkey' = [edit_pubkey EXCEPT ![s] = k]
                         /\ known' = [known EXCEPT ![s] = @ \cup {k}]
  /\ pc' = [pc EXCEPT ![s] = "idle"]
  /\ UNCHANGED <<pubkey, page, val, race, edit_author, area, freed, calm, strange>>

\* get_follows of nostr.cc is called with the global.
AskFor(s) ==
  \E k \in Reads(s) :
    strange' = strange \cup {q \in {s} : calm[q] /\ Assigning = {} /\ k # edit_pubkey[q]}

\* Feed is selected: the home page is destroyed, and the new one waits for its button.
ContainerFeed(s) ==
  /\ page[s] # "none" /\ pc[s] = "idle"
  /\ page' = [page EXCEPT ![s] = "feed"]
  /\ UNCHANGED <<pubkey, pc, val, race, home, freed, known, calm, strange>>

\* "Get Feed" is clicked.
get_feed(s) ==
  /\ page[s] = "feed" /\ pc[s] = "idle"
  /\ AskFor(s)
  /\ UNCHANGED <<pubkey, page, pc, val, race, home, freed, known, calm>>

\* Follows is selected, or its check box clicked: the constructor and the click
\* both ask.
get_follows(s) ==
  /\ page[s] # "none" /\ pc[s] = "idle"
  /\ page' = [page EXCEPT ![s] = "follows"]
  /\ AskFor(s)
  /\ UNCHANGED <<pubkey, pc, val, race, home, freed, known, calm>>

----------------------------------------------------------------------------
(* The home page *)

OnHome(s) == page[s] = "home" /\ pc[s] = "idle"

\* Mutant: the field's text is not copied to the global.
EditFieldOnly(s, k) ==
  /\ OnHome(s)
  /\ edit_pubkey' = [edit_pubkey EXCEPT ![s] = k]
  /\ known' = [known EXCEPT ![s] = @ \cup {k}]
  /\ UNCHANGED <<pubkey, page, pc, val, race, edit_author, area, freed, calm, strange>>

\* The public key is changed.
EditPubkey(s, k) ==
  /\ OnHome(s)
  /\ edit_pubkey' = [edit_pubkey EXCEPT ![s] = k]
  /\ known' = [known EXCEPT ![s] = @ \cup {k}]
  /\ BeginAssign(s, k, "edit")
  /\ UNCHANGED <<pubkey, page, edit_author, area, freed, strange>>

\* The author is typed, or copied from the public key when Contacts is chosen
\* for the kind.
EditAuthor(s, k) ==
  /\ OnHome(s)
  /\ edit_author' = [edit_author EXCEPT ![s] = k]
  /\ known' = [known EXCEPT ![s] = @ \cup {k}]
  /\ UNCHANGED <<pubkey, page, pc, val, race, edit_pubkey, area, freed, calm, strange>>

\* Mutant: without the local variable of the same name, the key is the global.
AuthorsFromGlobal(s, kind) ==
  CASE kind = 3 -> {pubkey} [] OTHER -> {edit_author[s]} \ {""}

\* Mutant: the author is added for either kind.
AuthorsOfBoth(s, kind) ==
  (IF kind = 3 THEN {edit_pubkey[s]} ELSE {}) \cup ({edit_author[s]} \ {""})

\* The authors of the filter: the session's own key for the contacts, the
\* author for notes, or none.
Authors(s, kind) ==
  CASE kind = 3 -> {edit_pubkey[s]} [] OTHER -> {edit_author[s]} \ {""}

\* make_message, Request.
MakeRequest(s, kind) ==
  /\ OnHome(s)
  /\ area' = [area EXCEPT ![s] = [type |-> "REQ", kind |-> kind, authors |-> Authors(s, kind)]]
  /\ UNCHANGED <<pubkey, page, pc, val, race, edit_pubkey, edit_author, freed, known, calm, strange>>

\* make_message, Event: nostril succeeds, and the text is in the area and in
\* the buffer that is freed.
MakeEvent(s) ==
  LET event == [type |-> "EVENT", by |-> s]
  IN  /\ OnHome(s)
      /\ area' = [area EXCEPT ![s] = event]
      /\ freed' = freed \cup {event}
      /\ UNCHANGED <<pubkey, page, pc, val, race, edit_pubkey, edit_author, known, calm, strange>>

\* ... or fails, with a code above zero that is not looked at: the buffer, which
\* nobody has written, is read.  It is no JSON, which leaves the area as it was,
\* or still holds a message from before it was freed.
MakeEventFails(s) ==
  /\ OnHome(s)
  /\ \E m \in freed \cup {area[s]} : area' = [area EXCEPT ![s] = m]
  /\ UNCHANGED <<pubkey, page, pc, val, race, edit_pubkey, edit_author, freed, known, calm, strange>>

Next ==
  \E s \in Session :
    \/ EndAssign(s) \/ ContainerHome(s) \/ SetText(s)
    \/ ContainerFeed(s) \/ get_feed(s) \/ get_follows(s)
    \/ \E k \in Key : EditPubkey(s, k)
    \/ /\ s \in Writer
       /\ \/ \E k \in Key \cup {edit_pubkey[s]} : EditAuthor(s, k)
          \/ \E kind \in {1, 3} : MakeRequest(s, kind)
          \/ MakeEvent(s) \/ MakeEventFails(s)

Spec == Init /\ [][Next]_vars

----------------------------------------------------------------------------
(* Properties *)

\* Types; a REQ has one author at most.
WostroTypeOK ==
  LET Keys == Key \cup {DefKey, Torn, ""}
  IN  /\ pubkey \in Keys /\ race \subseteq Session
      /\ page \in [Session -> {"none", "home", "feed", "follows"}]
      /\ pc \in [Session -> {"idle", "home", "edit", "show"}]
      /\ val \in [Session -> Key \cup {DefKey, None}]
      /\ edit_pubkey \in [Session -> Keys] /\ edit_author \in [Session -> Keys]
      /\ known \in [Session -> SUBSET Keys] /\ calm \in [Session -> BOOLEAN]
      /\ \A s \in Session : /\ val[s] # None <=> s \in Assigning
                            /\ area[s] # None /\ area[s].type = "REQ" =>
                                 Cardinality(area[s].authors) <= 1

\* The feed is one's own (web.cc:12, home.cc:23-71, feed.cc:56): the feed and
\* the follows are asked for the key that the home page showed last, from
\* whatever page and however often Home was visited, unless another session
\* has assigned to the shared key since: opening the site is enough for that.
FeedIsOwn == strange = {}

\* Requests are one's own (home.cc:336-360): whatever the other sessions do to
\* the shared key, the authors in the REQ that a page shows are keys its own
\* user has typed or seen.
RequestsAreOwn ==
  \A s \in Session :
    area[s] # None /\ area[s].type = "REQ" => area[s].authors \subseteq known[s]
=============================================================================
