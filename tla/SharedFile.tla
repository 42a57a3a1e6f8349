----------------------------- MODULE SharedFile -----------------------------
(***************************************************************************)
(* vostro (src/src/relay.cc) and http_relay (src/src/http/http_relay.cc)   *)
(* in one directory: two processes on one database.json, without a lock.   *)
(*                                                                         *)
(* database::append is three steps here, its accesses to the file: it      *)
(* reads it, opens it, which truncates it, and writes the text, which goes *)
(* out in one write at offset 0 when the stream is closed.  A text written *)
(* over another one, by a process that opened the file before the other    *)
(* wrote, leaves the end of the other text behind itself if that one was   *)
(* longer, and the file then does not parse.  Which text is longer is not  *)
(* modelled: both outcomes are possible.  A read of the file is one step.  *)
(* Saves that fail are in Vostro.                                          *)
(***************************************************************************)
EXTENDS Database

CONSTANTS
  Msg,          \* the EVENT messages the clients of either relay may send
  InitFiles,    \* what database.json may be at the start
  MaxEvents,    \* bound: no event is accepted beyond this length of database
  MaxEntries    \* bound: ... nor when the file holds more events than this

ASSUME SharedAssumption ==
  /\ \A m \in Msg : m.type = "EVENT" /\ IsEventObject(m.ev)
  /\ \A f \in InitFiles : IsFile(f)
  /\ MaxEvents \in Nat /\ MaxEntries \in Nat

Process == {"vostro", "http"}

VARIABLES
  file,         \* database.json
  empty,        \* its length is zero: no process has written since the last open
  database,     \* the vector in memory of each relay
  base,         \* what database::append read from the file
  pc,           \* "down", "idle", "read" (has read the file) or "open"
  (* history *)
  last,         \* the processes that wrote last (one, or none at first)
  calm,         \* no other process has opened or written the file since the
                \* read of this one
  prior         \* the events in the file just before this process opened it

vars == <<file, empty, database, base, pc, last, calm, prior>>

Init ==
  /\ file \in InitFiles /\ empty = FALSE
  /\ database = [p \in Process |-> <<>>]
  /\ base = [p \in Process |-> <<>>]
  /\ pc = [p \in Process |-> "down"]
  /\ last = {}
  /\ calm = [p \in Process |-> TRUE]
  /\ prior = [p \in Process |-> {}]

\* The other process is no longer alone with the file.
Disturb(p) == calm' = [q \in Process |-> q = p /\ calm[q]]

\* relay_t::relay_t.
StartVostro ==
  /\ pc["vostro"] = "down"
  /\ database' = [database EXCEPT !["vostro"] = read(file)]
  /\ pc' = [pc EXCEPT !["vostro"] = "idle"]
  /\ UNCHANGED <<file, empty, base, last, calm, prior>>

\* Mutant: the empty vector is appended instead of saved.
StartHttpAppend ==
  /\ pc["http"] = "down"
  /\ base' = [base EXCEPT !["http"] = read(file)]
  /\ file' = NoJson /\ empty' = TRUE
  /\ pc' = [pc EXCEPT !["http"] = "open"]
  /\ Disturb("http")
  /\ UNCHANGED <<database, last, prior>>

\* main of http_relay: database::save of an empty vector, up to the open.
StartHttp ==
  /\ pc["http"] = "down"
  /\ file' = NoJson /\ empty' = TRUE
  /\ pc' = [pc EXCEPT !["http"] = "open"]
  /\ Disturb("http")
  /\ UNCHANGED <<database, base, last, prior>>

\* The event a relay takes from a message: vostro ignores that it could not
\* be read to its end, in http_relay the exception ends the handler.
Accepts(p, m) == p = "vostro" \/ EventReadable(m.ev)

\* Mutant: what is in memory is taken for what the file holds.
PublishUnread(p, m) ==
  /\ pc[p] = "idle"
  /\ Accepts(p, m)
  /\ Len(database[p]) < MaxEvents /\ Len(read(file)) <= MaxEntries
  /\ database' = [database EXCEPT ![p] = Append(@, parse_client_event(m))]
  /\ base' = [base EXCEPT ![p] = database[p]]
  /\ pc' = [pc EXCEPT ![p] = "read"]
  /\ calm' = [calm EXCEPT ![p] = TRUE]
  /\ UNCHANGED <<file, empty, last, prior>>

\* EVENT: push_back, and the read of database::append.
Publish(p, m) ==
  /\ pc[p] = "idle"
  /\ Accepts(p, m)
  /\ Len(database[p]) < MaxEvents /\ Len(read(file)) <= MaxEntries
  /\ database' = [database EXCEPT ![p] = Append(@, parse_client_event(m))]
  /\ base' = [base EXCEPT ![p] = read(file)]
  /\ pc' = [pc EXCEPT ![p] = "read"]
  /\ calm' = [calm EXCEPT ![p] = TRUE]
  /\ UNCHANGED <<file, empty, last, prior>>

\* Mutant: the file is opened for writing first and read then.
OpenThenRead(p) ==
  /\ pc[p] = "read"
  /\ file' = NoJson /\ empty' = TRUE
  /\ base' = [base EXCEPT ![p] = <<>>]
  /\ pc' = [pc EXCEPT ![p] = "open"]
  /\ Disturb(p)
  /\ prior' = [prior EXCEPT ![p] = Elems(read(file))]
  /\ UNCHANGED <<database, last>>

\* ofs.open truncates, whoever else has the file open.
Open(p) ==
  /\ pc[p] = "read"
  /\ file' = NoJson /\ empty' = TRUE
  /\ pc' = [pc EXCEPT ![p] = "open"]
  /\ Disturb(p)
  /\ prior' = [prior EXCEPT ![p] = Elems(read(file))]
  /\ UNCHANGED <<database, base, last>>

\* Mutant: the new event alone is appended to what was read.
MergedOne(p) ==
  base[p] \o (IF database[p] = <<>> THEN <<>> ELSE <<database[p][Len(database[p])]>>)

\* What is written: the whole vector behind what was read.
Merged(p) == base[p] \o database[p]

\* ofs << json; ofs.close().
Write(p) ==
  /\ pc[p] = "open"
  /\ \/ file' = dump(Merged(p))
     \/ ~empty /\ file' = NoJson
  /\ empty' = FALSE
  /\ base' = [base EXCEPT ![p] = <<>>]
  /\ pc' = [pc EXCEPT ![p] = "idle"]
  /\ last' = {p}
  /\ Disturb(p)
  /\ UNCHANGED <<database, prior>>

\* A process ends, anywhere.
Crash(p) ==
  /\ pc[p] # "down"
  /\ pc' = [pc EXCEPT ![p] = "down"]
  /\ database' = [database EXCEPT ![p] = <<>>]
  /\ base' = [base EXCEPT ![p] = <<>>]
  /\ UNCHANGED <<file, empty, last, calm, prior>>

Next ==
  \/ StartVostro \/ StartHttp
  \/ \E p \in Process : \/ \E m \in Msg : Publish(p, m)
                        \/ Open(p) \/ Write(p) \/ Crash(p)

Spec == Init /\ [][Next]_vars

----------------------------------------------------------------------------
(* Properties *)

\* Types.
SharedTypeOK ==
  /\ IsFile(file) /\ empty \in BOOLEAN
  /\ database \in [Process -> Seq(Event)]
  /\ base \in [Process -> Seq(Event)]
  /\ pc \in [Process -> {"down", "idle", "read", "open"}]
  /\ last \subseteq Process
  /\ calm \in [Process -> BOOLEAN]
  /\ prior \in [Process -> SUBSET Event]

\* What a relay had acknowledged, or read when it started, before the event
\* it is saving now.
Held(p) ==
  IF pc[p] \in {"read", "open"} /\ database[p] # <<>>
    THEN SubSeq(database[p], 1, Len(database[p]) - 1) ELSE database[p]

\* The last writer is whole (database.cc:64-79): whatever the other process
\* read, truncated or wrote in between, a file that parses holds everything
\* the relay that wrote it has in memory: http_relay wipes the file when it
\* starts, and vostro's next save brings back all that vostro holds.
LastWriterKept ==
  \A p \in last :
    file.json => Elems(Held(p)) \subseteq Elems(read(file))

\* A save alone loses nothing (database.cc:64-79): when no other process has
\* touched the file between the read and the write of an append, everything
\* the file held before it was truncated, of either relay, is in it again.
SaveAloneLosesNothing ==
  [][\A p \in Process :
       pc[p] = "open" /\ pc'[p] = "idle" /\ calm[p] /\ database[p] # <<>> =>
         prior[p] \subseteq Elems(read(file'))]_vars

\* http_relay.cc:27 "start with an empty database": when the save at the start
\* of http_relay is over, the file has no events, also if vostro was writing.
StartsEmpty ==
  [][pc["http"] = "open" /\ pc'["http"] = "idle" /\ database["http"] = <<>> =>
       read(file') = <<>>]_vars

\* What a reader of the file finds, and what each relay holds and has read.
Findable == Elems(read(file))
HeldBy == [p \in Process |-> Elems(database[p])]
TakenBy == [p \in Process |-> Elems(base[p])]
PhaseOf == [p \in Process |-> IF pc[p] \in {"read", "open"} THEN "saving" ELSE pc[p]]

Unlocked == INSTANCE UnlockedStore WITH
  Fresh    <- {"http"},
  Events   <- {parse_client_event(m) : m \in Msg},
  Contents <- {Elems(read(f)) : f \in InitFiles},
  stored <- Findable, held <- HeldBy, taken <- TakenBy, phase <- PhaseOf, alone <- calm

\* Refinement (database.cc:59-88): to its readers the file is a set of events,
\* and a save by either relay leaves what that relay had read and holds: no
\* interleaving mixes two saves or brings back anything else, and a save that
\* ends leaves a file that cannot be read only if another one met it.
ImplementsUnlocked == Unlocked!UnlockedSpec
=============================================================================
