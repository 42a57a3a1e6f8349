-------------------------- MODULE SharedFileProofs --------------------------
(* Theorems about two relays on one file, for every set of messages and      *)
(* initial files and every bound.                                            *)
EXTENDS SharedFile, DatabaseProofs

----------------------------------------------------------------------------
(* The inductive invariant *)

\* A process that is down has nothing in memory.
DownIsEmpty == \A p \in Process : pc[p] = "down" => database[p] = <<>> /\ base[p] = <<>>

\* Between its read and its open a process has an event to save, and knows the
\* file as it is, if it was left alone.
ReadIsFresh ==
  \A p \in Process :
    pc[p] = "read" => database[p] # <<>> /\ (calm[p] => base[p] = read(file))

\* Between its open and its write a process that starts has nothing to write,
\* and one that saves and was left alone finds the file empty, and holds what
\* it truncated.
OpenIsFresh ==
  \A p \in Process :
    pc[p] = "open" =>
      /\ database[p] = <<>> => base[p] = <<>>
      /\ database[p] # <<>> /\ calm[p] => empty /\ prior[p] = Elems(base[p])

SharedInv == SharedTypeOK /\ DownIsEmpty /\ ReadIsFresh /\ OpenIsFresh

----------------------------------------------------------------------------
(* Steps *)

\* What either relay takes from a message is an event.
LEMMA TakenType ==
  ASSUME NEW m \in Msg
  PROVE  parse_client_event(m) \in Event
BY SharedAssumption, DefaultEventType, EventFromJsonType DEF parse_client_event

LEMMA SharedInit == Init => SharedInv
<1> SUFFICES ASSUME Init PROVE SharedInv OBVIOUS
<1>1. IsFile(file) BY SharedAssumption DEF Init
<1>2. <<>> \in Seq(Event) OBVIOUS
<1> QED
  BY <1>1, <1>2 DEF Init, SharedInv, SharedTypeOK, DownIsEmpty, ReadIsFresh, OpenIsFresh, Process

LEMMA SharedStep == SharedInv /\ [Next]_vars => SharedInv'
<1> SUFFICES ASSUME SharedInv, [Next]_vars PROVE SharedInv' OBVIOUS
<1> USE DEF SharedInv, SharedTypeOK, DownIsEmpty, ReadIsFresh, OpenIsFresh
<1>0. /\ read(file) \in Seq(Event) /\ <<>> \in Seq(Event) /\ IsFile(NoJson)
      /\ Elems(read(file)) \subseteq Event
  BY ReadType, ReadNoJson, ElemsType
<1>1. CASE StartVostro BY <1>1, <1>0 DEF StartVostro, Process
<1>2. CASE StartHttp BY <1>2, <1>0 DEF StartHttp, Disturb, Process
<1>3. ASSUME NEW p \in Process, NEW m \in Msg, Publish(p, m) PROVE SharedInv'
  <2>1. parse_client_event(m) \in Event BY TakenType
  <2>2. /\ Append(database[p], parse_client_event(m)) \in Seq(Event)
        /\ Append(database[p], parse_client_event(m)) # <<>>
    <3>1. database[p] \in Seq(Event) /\ Len(database[p]) \in Nat OBVIOUS
    <3> HIDE DEF SharedInv
    <3> QED BY <2>1, <3>1, ElemsAppend
  <2> QED BY <1>3, <1>0, <2>2 DEF Publish
<1>4. ASSUME NEW p \in Process, Open(p) PROVE SharedInv'
  BY <1>4, <1>0 DEF Open, Disturb
<1>5. ASSUME NEW p \in Process, Write(p) PROVE SharedInv'
  <2>1. Merged(p) \in Seq(Event) BY DEF Merged
  <2>2. IsFile(file') BY <1>5, <2>1, <1>0, ReadDump DEF Write
  <2> QED BY <1>5, <1>0, <2>2 DEF Write, Disturb
<1>6. ASSUME NEW p \in Process, Crash(p) PROVE SharedInv'
  BY <1>6, <1>0 DEF Crash
<1>7. CASE UNCHANGED vars BY <1>7 DEF vars
<1> QED BY <1>1, <1>2, <1>3, <1>4, <1>5, <1>6, <1>7 DEF Next

\* Types: however the two processes interleave, the file can be read by both
\* and their vectors hold events.
THEOREM SharedTypeCorrect == Spec => []SharedTypeOK
<1>1. SharedInv => SharedTypeOK BY DEF SharedInv
<1> QED BY <1>1, SharedInit, SharedStep, PTL DEF Spec

----------------------------------------------------------------------------
(* What is kept *)

\* A file that was written whole holds what was read and what is in memory.
LEMMA WrittenWhole ==
  ASSUME SharedInv, NEW p \in Process
  PROVE  /\ read(dump(Merged(p))) = Merged(p)
         /\ Elems(Merged(p)) = Elems(base[p]) \cup Elems(database[p])
<1>1. base[p] \in Seq(Event) /\ database[p] \in Seq(Event) BY DEF SharedInv, SharedTypeOK
<1>2. Merged(p) \in Seq(Event) BY <1>1 DEF Merged
<1>3. read(dump(Merged(p))) = Merged(p) BY <1>2, ReadDump
<1> QED BY <1>1, <1>3, ElemsConcat DEF Merged

LEMMA LastWriterStep == SharedInv /\ LastWriterKept /\ [Next]_vars => LastWriterKept'
<1> SUFFICES ASSUME SharedInv, LastWriterKept, [Next]_vars, NEW q \in last', file'.json
             PROVE  (Elems(Held(q)) \subseteq Elems(read(file)))'
  BY DEF LastWriterKept
<1>0. /\ database \in [Process -> Seq(Event)] /\ pc \in [Process -> {"down", "idle", "read", "open"}]
      /\ last \subseteq Process
  BY DEF SharedInv, SharedTypeOK
<1>1. \A p \in last : file.json => Elems(Held(p)) \subseteq Elems(read(file))
  BY DEF LastWriterKept
<1>2. ASSUME last' = last, file' = file,
             Held(q)' = Held(q) \/ Elems(Held(q)') \subseteq Elems(read(file))
      PROVE  (Elems(Held(q)) \subseteq Elems(read(file)))'
  BY <1>1, <1>2
<1>3. CASE StartVostro
  <2>1. last' = last /\ file' = file BY <1>3 DEF StartVostro
  <2>2. CASE q = "vostro"
    <3>1. Held(q)' = read(file) BY <1>0, <1>3, <2>2 DEF StartVostro, Held, Process
    <3> QED BY <2>1, <3>1, <1>2
  <2>3. CASE q # "vostro"
    <3>1. Held(q)' = Held(q) BY <1>0, <1>3, <2>1, <2>3 DEF StartVostro, Held, Process
    <3> QED BY <2>1, <3>1, <1>2
  <2> QED BY <2>2, <2>3
<1>4. CASE StartHttp BY <1>4 DEF StartHttp, NoJson
<1>5. ASSUME NEW p \in Process, NEW m \in Msg, Publish(p, m)
      PROVE  (Elems(Held(q)) \subseteq Elems(read(file)))'
  <2>1. last' = last /\ file' = file /\ q \in Process BY <1>0, <1>5 DEF Publish
  <2>2. CASE q = p
    <3>1. parse_client_event(m) \in Event /\ database[p] \in Seq(Event) BY <1>0, TakenType
    <3>2. /\ database'[p] = Append(database[p], parse_client_event(m))
          /\ pc'[p] = "read" /\ pc[p] = "idle"
      BY <1>0, <1>5 DEF Publish
    <3>3. /\ Len(database'[p]) = Len(database[p]) + 1 /\ Len(database[p]) \in Nat
          /\ SubSeq(database'[p], 1, Len(database[p])) = database[p]
      BY <3>1, <3>2, ElemsAppend
    <3>4. SubSeq(database'[p], 1, Len(database'[p]) - 1) = database[p]
      BY <3>3
    <3>5. Held(q)' = Held(q)
      <4>1. Held(p) = database[p] BY <3>2 DEF Held
      <4>2. database'[p] # <<>> BY <3>3
      <4>3. Held(p)' = SubSeq(database'[p], 1, Len(database'[p]) - 1)
        BY <3>2, <4>2 DEF Held
      <4> QED BY <4>1, <4>3, <3>4, <2>2
    <3> QED BY <2>1, <3>5, <1>2
  <2>3. CASE q # p
    <3>1. Held(q)' = Held(q) BY <1>0, <1>5, <2>1, <2>3 DEF Publish, Held
    <3> QED BY <2>1, <3>1, <1>2
  <2> QED BY <2>2, <2>3
<1>6. ASSUME NEW p \in Process, Open(p) PROVE FALSE
  BY <1>6 DEF Open, NoJson
<1>7. ASSUME NEW p \in Process, Write(p)
      PROVE  (Elems(Held(q)) \subseteq Elems(read(file)))'
  <2>1. q = p /\ file' = dump(Merged(p)) BY <1>7 DEF Write, NoJson
  <2>2. Held(p)' = database[p] BY <1>0, <1>7 DEF Write, Held
  <2> QED BY <2>1, <2>2, WrittenWhole
<1>8. ASSUME NEW p \in Process, Crash(p)
      PROVE  (Elems(Held(q)) \subseteq Elems(read(file)))'
  <2>1. last' = last /\ file' = file /\ q \in Process BY <1>0, <1>8 DEF Crash
  <2>2. CASE q = p
    <3>1. Held(q)' = <<>> BY <1>0, <1>8, <2>2 DEF Crash, Held
    <3>2. Elems(Held(q)') = {} BY <3>1 DEF Elems
    <3> QED BY <2>1, <3>2, <1>2
  <2>3. CASE q # p
    <3>1. Held(q)' = Held(q) BY <1>0, <1>8, <2>1, <2>3 DEF Crash, Held
    <3> QED BY <2>1, <3>1, <1>2
  <2> QED BY <2>2, <2>3
<1>9. CASE UNCHANGED vars
  <2>1. last' = last /\ file' = file /\ Held(q)' = Held(q) BY <1>9 DEF vars, Held
  <2> QED BY <2>1, <1>2
<1> QED BY <1>3, <1>4, <1>5, <1>6, <1>7, <1>8, <1>9 DEF Next

\* Whatever the other process read, truncated or wrote in between, a file that
\* parses holds everything that the relay that wrote it last holds.
THEOREM LastWriterIsKept == Spec => []LastWriterKept
<1>1. Init => LastWriterKept BY DEF Init, LastWriterKept
<1> QED BY <1>1, SharedInit, SharedStep, LastWriterStep, PTL DEF Spec

\* A save ends with a write, and with nothing else.
LEMMA WriteStep ==
  ASSUME SharedInv, [Next]_vars, NEW p \in Process, pc[p] = "open", pc'[p] = "idle"
  PROVE  Write(p)
<1>0. pc \in [Process -> {"down", "idle", "read", "open"}] BY DEF SharedInv, SharedTypeOK
<1>1. ~StartVostro /\ ~StartHttp BY <1>0 DEF StartVostro, StartHttp, Process
<1>2. ASSUME NEW q \in Process, NEW m \in Msg PROVE ~Publish(q, m)
  BY <1>0 DEF Publish
<1>3. ASSUME NEW q \in Process PROVE ~Open(q) /\ ~Crash(q) BY <1>0 DEF Open, Crash
<1>4. ASSUME NEW q \in Process, Write(q) PROVE q = p BY <1>0, <1>4 DEF Write
<1>5. ~UNCHANGED vars BY DEF vars
<1>6. PICK q \in Process : Write(q) BY <1>1, <1>2, <1>3, <1>5 DEF Next
<1> QED BY <1>4, <1>6

\* A save that nobody disturbs puts back all the file held, of either relay.
THEOREM SaveAloneKeeps == Spec => SaveAloneLosesNothing
<1>1. ASSUME SharedInv, [Next]_vars, NEW p \in Process,
             pc[p] = "open", pc'[p] = "idle", calm[p], database[p] # <<>>
      PROVE  prior[p] \subseteq Elems(read(file'))
  <2>1. Write(p) BY <1>1, WriteStep
  <2>2. empty /\ prior[p] = Elems(base[p]) BY <1>1 DEF SharedInv, OpenIsFresh
  <2>3. file' = dump(Merged(p)) BY <2>1, <2>2 DEF Write
  <2> QED BY <1>1, <2>2, <2>3, WrittenWhole
<1>2. SharedInv /\ [Next]_vars =>
        [\A p \in Process :
           pc[p] = "open" /\ pc'[p] = "idle" /\ calm[p] /\ database[p] # <<>> =>
             prior[p] \subseteq Elems(read(file'))]_vars
  BY <1>1
<1> QED BY <1>2, SharedInit, SharedStep, PTL DEF Spec, SaveAloneLosesNothing

\* http_relay starts with an empty database, also while vostro is saving.
THEOREM HttpStartsEmpty == Spec => StartsEmpty
<1>1. ASSUME SharedInv, [Next]_vars,
             pc["http"] = "open", pc'["http"] = "idle", database["http"] = <<>>
      PROVE  read(file') = <<>>
  <2>0. "http" \in Process BY DEF Process
  <2>1. Write("http") BY <1>1, <2>0, WriteStep
  <2>2. base["http"] = <<>> BY <1>1, <2>0 DEF SharedInv, OpenIsFresh
  <2>3. Merged("http") = <<>> BY <1>1, <2>2 DEF Merged
  <2> QED BY <1>1, <2>0, <2>1, <2>3, WrittenWhole, ReadNoJson DEF Write
<1>2. SharedInv /\ [Next]_vars =>
        [pc["http"] = "open" /\ pc'["http"] = "idle" /\ database["http"] = <<>> =>
           read(file') = <<>>]_vars
  BY <1>1
<1> QED BY <1>2, SharedInit, SharedStep, PTL DEF Spec, StartsEmpty

----------------------------------------------------------------------------
(* Refinement: a set of events that is read, changed and put back unlocked *)

\* Whoever has the file open and was left alone finds it empty.
AloneIsEmpty == \A p \in Process : pc[p] = "open" /\ calm[p] => empty

UnlockedInv == SharedInv /\ AloneIsEmpty

LEMMA AloneStep == UnlockedInv /\ [Next]_vars => AloneIsEmpty'
<1> SUFFICES ASSUME UnlockedInv, [Next]_vars PROVE AloneIsEmpty' OBVIOUS
<1>0. pc \in [Process -> {"down", "idle", "read", "open"}] /\ calm \in [Process -> BOOLEAN]
  BY DEF UnlockedInv, SharedInv, SharedTypeOK
<1> USE DEF UnlockedInv, AloneIsEmpty
<1>1. CASE StartVostro BY <1>0, <1>1 DEF StartVostro, Process
<1>2. CASE StartHttp BY <1>0, <1>2 DEF StartHttp, Disturb
<1>3. ASSUME NEW p \in Process, NEW m \in Msg, Publish(p, m) PROVE AloneIsEmpty'
  BY <1>0, <1>3 DEF Publish
<1>4. ASSUME NEW p \in Process, Open(p) PROVE AloneIsEmpty' BY <1>0, <1>4 DEF Open
<1>5. ASSUME NEW p \in Process, Write(p) PROVE AloneIsEmpty'
  BY <1>0, <1>5 DEF Write, Disturb
<1>6. ASSUME NEW p \in Process, Crash(p) PROVE AloneIsEmpty' BY <1>0, <1>6 DEF Crash
<1>7. CASE UNCHANGED vars BY <1>7 DEF vars
<1> QED BY <1>1, <1>2, <1>3, <1>4, <1>5, <1>6, <1>7 DEF Next

LEMMA UnlockedStep == UnlockedInv /\ [Next]_vars => [Unlocked!UnlockedNext]_(Unlocked!unlockedVars)
<1> SUFFICES ASSUME UnlockedInv, [Next]_vars
             PROVE  Unlocked!UnlockedNext \/ UNCHANGED Unlocked!unlockedVars
  OBVIOUS
<1>0. /\ pc \in [Process -> {"down", "idle", "read", "open"}] /\ calm \in [Process -> BOOLEAN]
      /\ database \in [Process -> Seq(Event)] /\ base \in [Process -> Seq(Event)] /\ IsFile(file)
  BY DEF UnlockedInv, SharedInv, SharedTypeOK
<1>a. Elems(<<>>) = {} /\ Elems(read(NoJson)) = {} BY ReadNoJson DEF Elems
<1>1. CASE StartVostro
  <2> DEFINE v == "vostro"
  <2>0. v \in Process /\ v \notin {"http"} BY DEF Process
  <2>1. /\ pc[v] = "down" /\ database' = [database EXCEPT ![v] = read(file)]
        /\ pc' = [pc EXCEPT ![v] = "idle"] /\ UNCHANGED <<file, base, calm>>
    BY <1>1 DEF StartVostro
  <2> HIDE DEF v
  <2>2. HeldBy' = [HeldBy EXCEPT ![v] = Findable] BY <1>0, <2>0, <2>1 DEF HeldBy, Findable
  <2>3. PhaseOf[v] = "down" /\ PhaseOf' = [PhaseOf EXCEPT ![v] = "idle"]
    BY <1>0, <2>0, <2>1 DEF PhaseOf
  <2>4. Findable' = Findable /\ TakenBy' = TakenBy BY <2>1 DEF Findable, TakenBy
  <2> QED BY <2>0, <2>1, <2>2, <2>3, <2>4 DEF Unlocked!UnlockedNext, Unlocked!Start
<1>2. CASE StartHttp
  <2> DEFINE h == "http"
  <2>0. h \in Process /\ h \in {"http"} BY DEF Process
  <2>1. /\ pc[h] = "down" /\ file' = NoJson /\ pc' = [pc EXCEPT ![h] = "open"]
        /\ Disturb(h) /\ UNCHANGED <<database, base>>
    BY <1>2 DEF StartHttp
  <2> HIDE DEF h
  <2>2. PhaseOf[h] = "down" /\ PhaseOf' = [PhaseOf EXCEPT ![h] = "saving"]
    BY <1>0, <2>0, <2>1 DEF PhaseOf
  <2>3. Findable' = {} BY <1>a, <2>1 DEF Findable
  <2>4. HeldBy' = HeldBy /\ TakenBy' = TakenBy BY <2>1 DEF HeldBy, TakenBy
  <2>5. Unlocked!Interfere(h) BY <2>1 DEF Disturb, Unlocked!Interfere
  <2> QED BY <2>0, <2>2, <2>3, <2>4, <2>5 DEF Unlocked!UnlockedNext, Unlocked!StartFresh
<1>3. ASSUME NEW p \in Process, NEW m \in Msg, Publish(p, m) PROVE Unlocked!UnlockedNext
  <2> DEFINE e == parse_client_event(m)
  <2>1. /\ pc[p] = "idle" /\ database' = [database EXCEPT ![p] = Append(@, e)]
        /\ base' = [base EXCEPT ![p] = read(file)] /\ pc' = [pc EXCEPT ![p] = "read"]
        /\ calm' = [calm EXCEPT ![p] = TRUE] /\ UNCHANGED file
    BY <1>3 DEF Publish
  <2>2. e \in Event /\ e \in {parse_client_event(n) : n \in Msg} BY TakenType
  <2> HIDE DEF e
  <2>3. Elems(Append(database[p], e)) = Elems(database[p]) \cup {e} BY <1>0, <2>2, ElemsAppend
  <2>4. HeldBy' = [HeldBy EXCEPT ![p] = @ \cup {e}] BY <1>0, <2>1, <2>3 DEF HeldBy
  <2>5. TakenBy' = [TakenBy EXCEPT ![p] = Findable] BY <1>0, <2>1 DEF TakenBy, Findable
  <2>6. PhaseOf[p] = "idle" /\ PhaseOf' = [PhaseOf EXCEPT ![p] = "saving"]
    BY <1>0, <2>1 DEF PhaseOf
  <2>7. Findable' = Findable BY <2>1 DEF Findable
  <2>8. Unlocked!BeginSave(p, e) BY <2>1, <2>4, <2>5, <2>6, <2>7 DEF Unlocked!BeginSave
  <2> QED BY <2>2, <2>8 DEF Unlocked!UnlockedNext
<1>4. ASSUME NEW p \in Process, Open(p) PROVE Unlocked!UnlockedNext
  <2>1. /\ pc[p] = "read" /\ file' = NoJson /\ pc' = [pc EXCEPT ![p] = "open"]
        /\ Disturb(p) /\ UNCHANGED <<database, base>>
    BY <1>4 DEF Open
  <2>2. PhaseOf[p] = "saving" /\ PhaseOf' = PhaseOf BY <1>0, <2>1 DEF PhaseOf
  <2>3. Findable' = {} BY <1>a, <2>1 DEF Findable
  <2>4. HeldBy' = HeldBy /\ TakenBy' = TakenBy BY <2>1 DEF HeldBy, TakenBy
  <2>5. Unlocked!Interfere(p) BY <2>1 DEF Disturb, Unlocked!Interfere
  <2> QED BY <2>2, <2>3, <2>4, <2>5 DEF Unlocked!UnlockedNext, Unlocked!Hide
<1>5. ASSUME NEW p \in Process, Write(p) PROVE Unlocked!UnlockedNext
  <2>1. /\ pc[p] = "open" /\ (file' = dump(Merged(p)) \/ (~empty /\ file' = NoJson))
        /\ base' = [base EXCEPT ![p] = <<>>] /\ pc' = [pc EXCEPT ![p] = "idle"]
        /\ Disturb(p) /\ UNCHANGED database
    BY <1>5 DEF Write
  <2>2. PhaseOf[p] = "saving" /\ PhaseOf' = [PhaseOf EXCEPT ![p] = "idle"]
    BY <1>0, <2>1 DEF PhaseOf
  <2>3. Findable' = TakenBy[p] \cup HeldBy[p] \/ (~calm[p] /\ Findable' = {})
    <3>1. CASE file' = dump(Merged(p))
      <4>1. /\ read(dump(Merged(p))) = Merged(p)
            /\ Elems(Merged(p)) = Elems(base[p]) \cup Elems(database[p])
        BY WrittenWhole DEF UnlockedInv
      <4> QED BY <3>1, <4>1 DEF Findable, TakenBy, HeldBy
    <3>2. CASE ~empty /\ file' = NoJson
      <4>1. ~calm[p] BY <1>0, <2>1, <3>2 DEF UnlockedInv, AloneIsEmpty
      <4> QED BY <1>a, <3>2, <4>1 DEF Findable
    <3> QED BY <2>1, <3>1, <3>2
  <2>4. HeldBy' = HeldBy BY <2>1 DEF HeldBy
  <2>5. TakenBy' = [TakenBy EXCEPT ![p] = {}] BY <1>0, <1>a, <2>1 DEF TakenBy
  <2>6. Unlocked!Interfere(p) BY <2>1 DEF Disturb, Unlocked!Interfere
  <2> QED BY <2>2, <2>3, <2>4, <2>5, <2>6 DEF Unlocked!UnlockedNext, Unlocked!EndSave
<1>6. ASSUME NEW p \in Process, Crash(p) PROVE Unlocked!UnlockedNext
  <2>1. /\ pc[p] # "down" /\ pc' = [pc EXCEPT ![p] = "down"]
        /\ database' = [database EXCEPT ![p] = <<>>] /\ base' = [base EXCEPT ![p] = <<>>]
        /\ UNCHANGED <<file, calm>>
    BY <1>6 DEF Crash
  <2>2. PhaseOf[p] # "down" /\ PhaseOf' = [PhaseOf EXCEPT ![p] = "down"]
    BY <1>0, <2>1 DEF PhaseOf
  <2>3. HeldBy' = [HeldBy EXCEPT ![p] = {}] BY <1>0, <1>a, <2>1 DEF HeldBy
  <2>4. TakenBy' = [TakenBy EXCEPT ![p] = {}] BY <1>0, <1>a, <2>1 DEF TakenBy
  <2>5. Findable' = Findable BY <2>1 DEF Findable
  <2> QED BY <2>1, <2>2, <2>3, <2>4, <2>5 DEF Unlocked!UnlockedNext, Unlocked!Die
<1>7. CASE UNCHANGED vars
  BY <1>7 DEF vars, Unlocked!unlockedVars, Findable, HeldBy, TakenBy, PhaseOf
<1> QED BY <1>1, <1>2, <1>3, <1>4, <1>5, <1>6, <1>7 DEF Next

\* To its readers the file is a set of events that each relay's save replaces
\* by what it had read and holds (database.cc:59-88), for every interleaving:
\* an update may be lost, two saves are never mixed, and one that was left
\* alone always ends with a file that can be read.
THEOREM SharedImplementsUnlocked == Spec => ImplementsUnlocked
<1>1. Init => Unlocked!UnlockedInit
  <2> SUFFICES ASSUME Init PROVE Unlocked!UnlockedInit OBVIOUS
  <2>1. Elems(<<>>) = {} BY DEF Elems
  <2>2. /\ Findable \in {Elems(read(f)) : f \in InitFiles}
        /\ HeldBy = [p \in Process |-> {}] /\ TakenBy = [p \in Process |-> {}]
        /\ PhaseOf = [p \in Process |-> "down"]
    BY <2>1 DEF Init, Findable, HeldBy, TakenBy, PhaseOf
  <2> QED BY <2>2 DEF Init, Unlocked!UnlockedInit
<1>2. Init => AloneIsEmpty BY DEF Init, AloneIsEmpty
<1> QED BY <1>1, <1>2, SharedInit, SharedStep, AloneStep, UnlockedStep, PTL
        DEF Spec, UnlockedInv, ImplementsUnlocked, Unlocked!UnlockedSpec
=============================================================================
