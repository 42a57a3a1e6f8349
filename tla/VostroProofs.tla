---------------------------- MODULE VostroProofs ----------------------------
(* Theorems about the relay behind its WebSocket: first the process alone    *)
(* (Vostro), for every set of messages and initial files, then with its      *)
(* connections (Sessions), for any number of clients of either kind.         *)
EXTENDS Sessions, DatabaseProofs

----------------------------------------------------------------------------
(* Types *)

\* Whatever a message holds, what is parsed from it has its type.
LEMMA ParsedTypes ==
  ASSUME NEW m \in Msg
  PROVE  /\ get_message_type(m) = "EVENT" => parse_client_event(m) \in Event
         /\ get_message_type(m) = "REQ" => parse_request(m).id \in Text
<1>1. get_message_type(m) = "EVENT" => m.type = "EVENT"
  BY DEF get_message_type, MessageTypes
<1>2. get_message_type(m) = "REQ" => m.type = "REQ"
  BY DEF get_message_type, MessageTypes
<1>3. ASSUME m.type = "EVENT" PROVE parse_client_event(m) \in Event
  BY <1>3, MsgAssumption, DefaultEventType, EventFromJsonType
     DEF IsClientMessage, parse_client_event
<1>4. ASSUME m.type = "REQ" PROVE parse_request(m).id \in Text
  <2>1. m.id \in Text \cup {Bad} BY <1>4, MsgAssumption DEF IsClientMessage
  <2> QED BY <2>1, TextAssumption DEF parse_request
<1> QED BY <1>1, <1>2, <1>3, <1>4

\* An answer to a REQ is a response.
LEMMA AnswerType ==
  ASSUME NEW m \in Msg, get_message_type(m) = "REQ", IsFile(file)
  PROVE  Answer(file, m) \in Response
<1> DEFINE r == parse_request(m)
           A == Elems(r.filter.authors)
           first == FirstMatch(read(file), A)
<1>1. r.id \in Text BY ParsedTypes
<1>2. read(file) \in Seq(Event) BY ReadType
<1>3. first # <<>> => first[1] \in Event
  <2> SUFFICES ASSUME first # <<>> PROVE first[1] \in Event OBVIOUS
  <2>1. PICK i \in 1..Len(read(file)) : first = <<read(file)[i]>>
    BY <1>2, FirstMatchCases
  <2> QED BY <2>1, <1>2
<1>4. Answer(file, m) = IF first = <<>> THEN Eose(r.id) ELSE EventResponse(r.id, first[1])
  BY DEF Answer
<1> HIDE DEF r, first
<1> QED BY <1>1, <1>3, <1>4 DEF Response, Eose, EventResponse

\* The write window opens behind a push_back and a truncation.
Window == pc = "write" => Len(database) > 0 /\ read(file) = <<>>

TypeInv == TypeOK /\ Window

LEMMA TypeInit == Init => TypeInv
<1> SUFFICES ASSUME Init PROVE TypeInv OBVIOUS
<1>1. IsFile(file) BY InitFilesAssumption DEF Init
<1>2. <<>> \in Seq(Event) OBVIOUS
<1> QED BY <1>1, <1>2 DEF Init, TypeInv, TypeOK, Window, Response

LEMMA TypeStep == TypeInv /\ [Next]_vars => TypeInv'
<1> SUFFICES ASSUME TypeInv, [Next]_vars PROVE TypeInv' OBVIOUS
<1> USE DEF TypeInv, TypeOK, Window, history
<1>0. read(file) \in Seq(Event) /\ <<>> \in Seq(Event) BY ReadType
<1>1. CASE Start BY <1>1, <1>0 DEF Start
<1>2. ASSUME NEW m \in Msg, BeginPublish(m) PROVE TypeInv'
  <2>1. parse_client_event(m) \in Event BY <1>2, ParsedTypes DEF BeginPublish
  <2>2. database' \in Seq(Event) /\ Len(database') > 0
    BY <1>2, <2>1 DEF BeginPublish
  <2>3. file' = NoJson /\ IsFile(file') /\ read(file') = <<>>
    BY <1>2, ReadNoJson DEF BeginPublish
  <2> QED BY <1>0, <1>2, <2>2, <2>3 DEF BeginPublish
<1>3. ASSUME NEW m \in Msg, PublishUnsaved(m) PROVE TypeInv'
  <2>1. parse_client_event(m) \in Event BY <1>3, ParsedTypes DEF PublishUnsaved
  <2>2. database' \in Seq(Event) BY <1>3, <2>1 DEF PublishUnsaved
  <2>3. resp' \in Response BY <1>3, <2>1 DEF PublishUnsaved, Response, Eose, Event
  <2> QED BY <1>3, <2>1, <2>2, <2>3 DEF PublishUnsaved
<1>4. ASSUME NEW m \in Msg, Request(m) PROVE TypeInv'
  <2>1. resp' \in Response BY <1>4, AnswerType DEF Request
  <2> QED BY <1>4, <2>1 DEF Request
<1>5. ASSUME NEW m \in Msg, Refuse(m) PROVE TypeInv'
  BY <1>5 DEF Refuse, Response
<1>6. CASE EndPublish
  <2>1. database[Len(database)] \in Event BY <1>6 DEF EndPublish
  <2>2. base \o database \in Seq(Event) OBVIOUS
  <2>3. IsFile(dump(base \o database)) BY <2>2, ReadDump
  <2>4. IsFile(file') BY <1>6, <2>3, ReadNoJson DEF EndPublish
  <2>5. resp' \in Response BY <1>6, <2>1 DEF EndPublish, Response, Eose, Event
  <2> QED BY <1>0, <1>6, <2>1, <2>4, <2>5 DEF EndPublish
<1>7. CASE Crash BY <1>0, <1>7 DEF Crash, Response
<1>8. CASE UNCHANGED vars BY <1>8 DEF vars
<1> QED BY <1>1, <1>2, <1>3, <1>4, <1>5, <1>6, <1>7, <1>8 DEF Next

\* Types: whatever is parsed, read or cut short, the relay's vectors hold
\* events and its responses are responses.
THEOREM TypeCorrect == Spec => []TypeOK
<1>1. TypeInv => TypeOK BY DEF TypeInv
<1> QED BY <1>1, TypeInit, TypeStep, PTL DEF Spec

----------------------------------------------------------------------------
(* Durability *)

\* While the relay is down no save can have failed since it crashed.
DurableInv == TypeInv /\ Durable /\ (pc = "down" => ~dirty)

LEMMA DurableStep == DurableInv /\ [Next]_vars => DurableInv'
<1> SUFFICES ASSUME DurableInv, [Next]_vars PROVE DurableInv' OBVIOUS
<1>0. TypeInv' /\ TypeOK BY TypeStep DEF DurableInv, TypeInv
<1> USE DEF DurableInv, Durable, history
<1>1. CASE Start BY <1>1, <1>0 DEF Start
<1>2. ASSUME NEW m \in Msg, BeginPublish(m) PROVE DurableInv'
  <2>1. parse_client_event(m) \in Event BY <1>2, ParsedTypes DEF BeginPublish
  <2>2. Elems(database) \subseteq Elems(database')
    BY <1>0, <1>2, <2>1, ElemsAppend DEF BeginPublish, TypeOK
  <2> QED BY <1>0, <1>2, <2>2 DEF BeginPublish
<1>3. ASSUME NEW m \in Msg, PublishUnsaved(m) PROVE DurableInv'
  <2>1. parse_client_event(m) \in Event BY <1>3, ParsedTypes DEF PublishUnsaved
  <2>2. Elems(database') = Elems(database) \cup {parse_client_event(m)}
    BY <1>0, <1>3, <2>1, ElemsAppend DEF PublishUnsaved, TypeOK
  <2> QED BY <1>0, <1>3, <2>2 DEF PublishUnsaved
<1>4. ASSUME NEW m \in Msg, Request(m) PROVE DurableInv'
  BY <1>4, <1>0 DEF Request
<1>5. ASSUME NEW m \in Msg, Refuse(m) PROVE DurableInv'
  BY <1>5, <1>0 DEF Refuse
<1>6. CASE EndPublish
  <2> DEFINE ev == database[Len(database)]
  <2>1. ev \in Elems(database)
    BY <1>0, <1>6 DEF EndPublish, TypeInv, TypeOK, Window, Elems
  <2>2. ~cut' => acked' \subseteq Elems(database) BY <1>6, <2>1 DEF EndPublish
  <2>3. read(dump(base \o database)) = base \o database
    <3>1. base \o database \in Seq(Event) BY <1>0 DEF TypeOK
    <3> QED BY <3>1, ReadDump
  <2>4. Elems(database) \subseteq Elems(base \o database)
    BY <1>0, ElemsConcat DEF TypeOK
  <2>5. ~dirty' => Elems(database) \subseteq Elems(read(file'))
    BY <1>6, <2>3, <2>4 DEF EndPublish
  <2> QED BY <1>0, <1>6, <2>2, <2>5 DEF EndPublish
<1>7. CASE Crash BY <1>7, <1>0 DEF Crash
<1>8. CASE UNCHANGED vars BY <1>8, <1>0 DEF vars
<1> QED BY <1>1, <1>2, <1>3, <1>4, <1>5, <1>6, <1>7, <1>8 DEF Next

\* Every acknowledged event survives any number of failed saves and of crashes,
\* but for a crash before the save after a failed one, or inside a save.
THEOREM Durability == Spec => []Durable
<1>1. Init => DurableInv
  BY TypeInit DEF DurableInv, Durable, Init
<1>2. DurableInv => Durable BY DEF DurableInv
<1> QED BY <1>1, <1>2, DurableStep, PTL DEF Spec

----------------------------------------------------------------------------
(* What REQs find *)

\* What a step does to what REQs find and to what the relay holds.
LEMMA VisibleStep ==
  ASSUME TypeInv, [Next]_vars
  PROVE  \/ /\ Visible' = Visible /\ Held' = Held /\ dirty' = dirty
            /\ pc' = "down" => pc = "down"
            /\ pc = "down" => pc' = "down"
         \/ pc = "down" /\ Visible' = Visible /\ Held' = Visible
         \/ pc' = "down" /\ Visible' \in {<<>>, Visible}
         \/ \E ev \in Event :
              /\ Held' = Append(Held, ev)
              /\ pc # "down"
              /\ \/ Visible' = Visible \o Held' /\ ~dirty'
                 \/ Visible' \in {<<>>, Visible} /\ dirty'
<1>0. TypeOK /\ TypeOK' /\ read(file) \in Seq(Event) BY TypeStep, ReadType DEF TypeInv, TypeOK
<1> USE DEF Visible, Held, history
<1>1. CASE Start BY <1>1 DEF Start
<1>2. ASSUME NEW m \in Msg, BeginPublish(m)
      PROVE  /\ Visible' = Visible /\ Held' = Held /\ dirty' = dirty
             /\ pc' # "down" /\ pc # "down"
  <2>1. parse_client_event(m) \in Event BY <1>2, ParsedTypes DEF BeginPublish
  <2>2. SubSeq(database', 1, Len(database') - 1) = database
    <3>1. Len(database') - 1 = Len(database)
      BY <1>0, <1>2, <2>1 DEF BeginPublish, TypeOK
    <3> QED BY <3>1, <1>0, <1>2, <2>1, ElemsAppend DEF BeginPublish, TypeOK
  <2> QED BY <1>2, <2>2 DEF BeginPublish
<1>3. ASSUME NEW m \in Msg, PublishUnsaved(m)
      PROVE  \E ev \in Event : /\ Held' = Append(Held, ev) /\ pc # "down"
                               /\ Visible' \in {<<>>, Visible} /\ dirty'
  <2>1. parse_client_event(m) \in Event BY <1>3, ParsedTypes DEF PublishUnsaved
  <2> QED BY <1>3, <2>1 DEF PublishUnsaved
<1>4. ASSUME NEW m \in Msg, Request(m) \/ Refuse(m)
      PROVE  Visible' = Visible /\ Held' = Held /\ dirty' = dirty /\ pc' = pc
  BY <1>4 DEF Request, Refuse
<1>5. CASE EndPublish
  <2> DEFINE ev == database[Len(database)]
  <2>1. ev \in Event /\ Len(database) > 0 /\ pc = "write"
    BY <1>0, <1>5 DEF EndPublish, TypeInv, TypeOK, Window
  <2>2. database = Append(SubSeq(database, 1, Len(database) - 1), ev)
    BY <1>0, <2>1 DEF TypeOK
  <2>3. Held' = Append(Held, ev) /\ Held' = database /\ Visible = base
    BY <1>5, <2>1, <2>2 DEF EndPublish
  <2>4. read(dump(base \o database)) = base \o database
    <3>1. base \o database \in Seq(Event) BY <1>0 DEF TypeOK
    <3> QED BY <3>1, ReadDump
  <2>5. \/ Visible' = base \o database /\ ~dirty'
        \/ Visible' = <<>> /\ dirty'
    BY <1>5, <2>4, ReadNoJson DEF EndPublish
  <2> QED BY <2>1, <2>3, <2>5
<1>6. CASE Crash BY <1>6, <1>0 DEF Crash, TypeInv, Window
<1>7. CASE UNCHANGED vars BY <1>7 DEF vars
<1> QED BY <1>1, <1>2, <1>3, <1>4, <1>5, <1>6, <1>7 DEF Next

\* What REQs find and what the relay holds are vectors of events.
LEMMA VisibleType ==
  ASSUME TypeInv
  PROVE  Visible \in Seq(Event) /\ Held \in Seq(Event)
<1>1. read(file) \in Seq(Event) BY ReadType DEF TypeInv, TypeOK
<1>2. pc = "write" => SubSeq(database, 1, Len(database) - 1) \in Seq(Event)
  BY DEF TypeInv, TypeOK, Window
<1> QED BY <1>1, <1>2 DEF Visible, Held, TypeInv, TypeOK

\* Nothing is found in an empty vector.
LEMMA FirstMatchEmpty == \A A : FirstMatch(<<>>, A) = <<>>
BY DEF FirstMatch, request

LEMMA AgreementStep == TypeInv /\ Agreement /\ [Next]_vars => Agreement'
<1> SUFFICES ASSUME TypeInv, Agreement, [Next]_vars, pc' # "down",
                    NEW A \in SUBSET Pubkeys
             PROVE  \/ FirstMatch(Visible', A) = FirstMatch(Held', A)
                    \/ dirty' /\ FirstMatch(Visible', A) = <<>>
  BY DEF Agreement
<1>1. Visible \in Seq(Event) /\ Held \in Seq(Event) BY VisibleType
<1>2. pc # "down" => \/ FirstMatch(Visible, A) = FirstMatch(Held, A)
                     \/ dirty /\ FirstMatch(Visible, A) = <<>>
  BY DEF Agreement
<1>3. CASE /\ Visible' = Visible /\ Held' = Held /\ dirty' = dirty
           /\ pc' = "down" => pc = "down"
           /\ pc = "down" => pc' = "down"
  BY <1>2, <1>3
<1>4. CASE pc = "down" /\ Visible' = Visible /\ Held' = Visible BY <1>4
<1>5. ASSUME NEW ev \in Event, Held' = Append(Held, ev), pc # "down",
             \/ Visible' = Visible \o Held' /\ ~dirty'
             \/ Visible' \in {<<>>, Visible} /\ dirty'
      PROVE  \/ FirstMatch(Visible', A) = FirstMatch(Held', A)
             \/ dirty' /\ FirstMatch(Visible', A) = <<>>
  <2>1. Held' = Held \o <<ev>> /\ <<ev>> \in Seq(Event) /\ Held' \in Seq(Event)
    BY <1>1, <1>5
  <2>2. FirstMatch(Held, A) # <<>> => FirstMatch(Held', A) = FirstMatch(Held, A)
    <3> DEFINE t == <<ev>>
    <3>1. t \in Seq(Event) /\ Held' = Held \o t BY <2>1
    <3> HIDE DEF t
    <3>2. FirstMatch(Held \o t, A) =
            IF FirstMatch(Held, A) = <<>> THEN FirstMatch(t, A) ELSE FirstMatch(Held, A)
      BY <1>1, <3>1, FirstMatchConcat
    <3> QED BY <3>1, <3>2
  <2>3. CASE Visible' = Visible \o Held'
    <3>1. FirstMatch(Visible', A) = IF FirstMatch(Visible, A) = <<>>
                                      THEN FirstMatch(Held', A) ELSE FirstMatch(Visible, A)
      <4>1. \A s, t \in Seq(Event) : FirstMatch(s \o t, A) =
              IF FirstMatch(s, A) = <<>> THEN FirstMatch(t, A) ELSE FirstMatch(s, A)
        BY FirstMatchConcat
      <4> QED BY <1>1, <2>1, <2>3, <4>1
    <3> QED BY <1>2, <1>5, <2>2, <3>1
  <2>4. CASE Visible' \in {<<>>, Visible} /\ dirty'
    BY <1>2, <1>5, <2>2, <2>4, FirstMatchEmpty
  <2> QED BY <1>5, <2>3, <2>4
<1> QED BY <1>3, <1>4, <1>5, VisibleStep

\* The answer read from the file is the one memory would give, unless the last
\* save failed and there is none.
THEOREM AnswersAgree == Spec => []Agreement
<1>1. Init => Agreement BY DEF Init, Agreement
<1> QED BY <1>1, TypeInit, TypeStep, AgreementStep, PTL DEF Spec

\* An author's answer is settled by the first event found: it never turns into
\* another one, whatever is published, fails or crashes.
THEOREM OldestAlwaysWins == Spec => OldestWins
<1> DEFINE Settled == \A authors \in SUBSET Pubkeys :
             LET now == FirstMatch(Visible, authors)
             IN  now # <<>> => FirstMatch(Visible', authors) \in {<<>>, now}
<1>1. TypeInv /\ [Next]_vars => [Settled]_vars
  <2> SUFFICES ASSUME TypeInv, [Next]_vars, NEW A \in SUBSET Pubkeys,
                      FirstMatch(Visible, A) # <<>>
               PROVE  FirstMatch(Visible', A) \in {<<>>, FirstMatch(Visible, A)}
    OBVIOUS
  <2>1. Visible \in Seq(Event) /\ Held \in Seq(Event) BY VisibleType
  <2>2. \/ Visible' = Visible \/ Visible' = <<>>
        \/ \E ev \in Event : Visible' = Visible \o Append(Held, ev)
    BY VisibleStep
  <2>3. ASSUME NEW ev \in Event
        PROVE  FirstMatch(Visible \o Append(Held, ev), A) = FirstMatch(Visible, A)
    <3> DEFINE t == Append(Held, ev)
    <3>1. t \in Seq(Event) BY <2>1
    <3> HIDE DEF t
    <3>2. FirstMatch(Visible \o t, A) = FirstMatch(Visible, A) BY <2>1, <3>1, FirstMatchConcat
    <3> QED BY <3>2 DEF t
  <2> QED BY <2>2, <2>3, FirstMatchEmpty
<1> QED BY <1>1, TypeInit, TypeStep, PTL DEF Spec, OldestWins

----------------------------------------------------------------------------
(* Refinement *)

\* The event being saved came in a message.
StoreInv == TypeInv /\ (pc = "write" => database[Len(database)] \in Publishable)

LEMMA StoreInvStep == StoreInv /\ [Next]_vars => StoreInv'
<1> SUFFICES ASSUME StoreInv, [Next]_vars PROVE StoreInv' OBVIOUS
<1>0. TypeInv /\ TypeInv' BY TypeStep DEF StoreInv
<1>1. ASSUME NEW m \in Msg, BeginPublish(m) PROVE StoreInv'
  <2>1. parse_client_event(m) \in Publishable /\ parse_client_event(m) \in Event
    BY <1>1, ParsedTypes DEF BeginPublish, Publishable
  <2>2. database'[Len(database')] = parse_client_event(m)
    BY <1>0, <1>1, <2>1 DEF BeginPublish, TypeInv, TypeOK
  <2> QED BY <1>0, <2>1, <2>2 DEF StoreInv
<1>2. CASE UNCHANGED vars BY <1>0, <1>2 DEF vars, StoreInv
<1>3. CASE pc' # "write" BY <1>0, <1>3 DEF StoreInv
<1> QED
  BY <1>1, <1>2, <1>3 DEF Next, Start, PublishUnsaved, Request, Refuse, EndPublish, Crash

\* A REQ is answered from what it can find, and with an event exactly when
\* there is one by its authors.
LEMMA AnswerIsFound ==
  ASSUME NEW m \in Msg, get_message_type(m) = "REQ", IsFile(file), pc # "write"
  PROVE  LET r == parse_request(m)
             found == {ev \in Elems(Visible) : ev.pubkey \in Elems(r.filter.authors)}
         IN  \/ found = {} /\ Answer(file, m) = [type |-> "EOSE", id |-> r.id]
             \/ \E ev \in found : Answer(file, m) = [type |-> "EVENT", id |-> r.id, ev |-> ev]
<1> DEFINE r == parse_request(m)
           A == Elems(r.filter.authors)
           s == read(file)
           found == {ev \in Elems(s) : ev.pubkey \in A}
           first == FirstMatch(s, A)
<1>1. s \in Seq(Event) /\ Visible = s BY ReadType DEF Visible
<1>2. Answer(file, m) = IF first = <<>> THEN Eose(r.id) ELSE EventResponse(r.id, first[1])
  BY DEF Answer
<1> HIDE DEF r, A, s
<1>3. CASE first = <<>>
  <2>1. \A i \in 1..Len(s) : s[i].pubkey \notin A BY <1>1, <1>3, FirstMatchCases
  <2>2. found = {} BY <1>1, <2>1 DEF Elems
  <2> QED BY <1>1, <1>2, <1>3, <2>2 DEF Eose, r, A
<1>4. CASE first # <<>>
  <2>1. PICK i \in 1..Len(s) : s[i].pubkey \in A /\ first = <<s[i]>>
    BY <1>1, <1>4, FirstMatchCases
  <2>2. s[i] \in found BY <1>1, <2>1 DEF Elems
  <2>3. Answer(file, m) = EventResponse(r.id, s[i]) BY <1>2, <1>4, <2>1
  <2> QED BY <1>1, <2>2, <2>3 DEF EventResponse, r, A
<1> QED BY <1>3, <1>4

\* While the file is clean, the author of an acknowledged event is always
\* answered: Durable puts the event in the file, and the REQ finds one.
THEOREM WritesAreRead == Spec => ReadYourWrites
<1> DEFINE Answered == \A m \in Msg :
             /\ Request(m) /\ ~cut /\ ~dirty
             /\ \E ev \in acked : ev.pubkey \in Elems(parse_request(m).filter.authors)
             => resp'.type = "EVENT"
<1>1. DurableInv => Answered
  <2> SUFFICES ASSUME DurableInv, NEW m \in Msg, Request(m), ~cut, ~dirty,
                      NEW ev \in acked,
                      ev.pubkey \in Elems(parse_request(m).filter.authors)
               PROVE  resp'.type = "EVENT"
    OBVIOUS
  <2>1. IsFile(file) /\ pc = "idle" /\ get_message_type(m) = "REQ" /\ resp' = Answer(file, m)
    BY DEF DurableInv, TypeInv, TypeOK, Request
  <2>2. ev \in Elems(Visible)
    BY <2>1 DEF DurableInv, Durable, Visible
  <2>3. \E e \in Elems(Visible) :
          Answer(file, m) = [type |-> "EVENT", id |-> parse_request(m).id, ev |-> e]
    BY <2>1, <2>2, AnswerIsFound
  <2> QED BY <2>1, <2>3
<1>2. Init => DurableInv
  BY TypeInit DEF DurableInv, Durable, Init
<1> QED BY <1>1, <1>2, DurableStep, PTL DEF Spec, ReadYourWrites

LEMMA StoreStep == StoreInv /\ [Next]_vars => [Store!StoreNext]_(Store!storeVars)
<1> SUFFICES ASSUME StoreInv, [Next]_vars
             PROVE  [Store!StoreNext]_(Store!storeVars)
  OBVIOUS
<1>0. TypeInv /\ TypeInv' /\ TypeOK /\ read(file) \in Seq(Event)
  BY TypeStep, ReadType DEF StoreInv, TypeInv, TypeOK
<1> USE DEF history
<1>1. CASE Start
  <2>1. Visible' = Visible /\ Held' = Visible BY <1>1 DEF Start, Visible, Held
  <2> QED BY <1>1, <2>1 DEF Start, Store!StoreNext, Store!StoreStart
<1>2. ASSUME NEW m \in Msg, BeginPublish(m) PROVE UNCHANGED Store!storeVars
  <2>1. parse_client_event(m) \in Event BY <1>2, ParsedTypes DEF BeginPublish
  <2>2. SubSeq(database', 1, Len(database') - 1) = database
    <3>1. Len(database') - 1 = Len(database)
      BY <1>0, <1>2, <2>1 DEF BeginPublish, TypeOK
    <3> QED BY <3>1, <1>0, <1>2, <2>1, ElemsAppend DEF BeginPublish, TypeOK
  <2>3. Held' = Held /\ Visible' = Visible BY <1>2, <2>2 DEF BeginPublish, Held, Visible
  <2> QED BY <1>2, <2>3 DEF BeginPublish, Store!storeVars
<1>3. ASSUME NEW m \in Msg, PublishUnsaved(m) PROVE Store!StoreNext
  <2> DEFINE ev == parse_client_event(m)
  <2>1. ev \in Event /\ ev \in Publishable
    BY <1>3, ParsedTypes DEF PublishUnsaved, Publishable
  <2>2. Elems(Held') = Elems(Held) \cup {ev}
    BY <1>0, <1>3, <2>1, ElemsAppend DEF PublishUnsaved, Held, TypeOK
  <2>3. Visible' = Visible BY <1>3 DEF PublishUnsaved, Visible
  <2>4. Store!StorePublish(ev)
    BY <1>3, <2>2, <2>3 DEF PublishUnsaved, Store!StorePublish, Eose
  <2> QED BY <2>1, <2>4 DEF Store!StoreNext
<1>4. ASSUME NEW m \in Msg, Request(m) PROVE Store!StoreNext
  <2> DEFINE r == parse_request(m)
  <2>1. r \in Requests BY <1>4 DEF Request, Requests
  <2>2. Visible' = Visible /\ Held' = Held BY <1>4 DEF Request, Visible, Held
  <2>3. Store!StoreRequest(r.id, Elems(r.filter.authors))
    BY <1>0, <1>4, <2>2, AnswerIsFound DEF Request, TypeOK, Store!StoreRequest
  <2> QED BY <2>1, <2>3 DEF Store!StoreNext
<1>5. ASSUME NEW m \in Msg, Refuse(m) PROVE Store!StoreNext
  <2>1. Visible' = Visible /\ Held' = Held BY <1>5 DEF Refuse, Visible, Held
  <2> QED BY <1>5, <2>1 DEF Refuse, Notice, Store!StoreNext, Store!StoreRefuse
<1>6. CASE EndPublish
  <2> DEFINE ev == database[Len(database)]
  <2>1. ev \in Publishable /\ ev \in Event /\ Len(database) > 0 /\ pc = "write"
    BY <1>0, <1>6 DEF EndPublish, StoreInv, TypeInv, TypeOK, Window
  <2>2. database = Append(Held, ev) /\ Held \in Seq(Event)
    BY <1>0, <2>1 DEF TypeOK, Held
  <2>3. Held' = database /\ Visible = base BY <1>6 DEF EndPublish, Held, Visible
  <2> HIDE DEF ev
  <2>4. Elems(Held') = Elems(Held) \cup {ev} BY <2>1, <2>2, <2>3, ElemsAppend
  <2>5. read(dump(base \o database)) = base \o database
    <3>1. base \o database \in Seq(Event) BY <1>0 DEF TypeOK
    <3> QED BY <3>1, ReadDump
  <2>6. Elems(base \o database) = Elems(Visible) \cup Elems(Held) \cup {ev}
    BY <1>0, <2>3, <2>4, ElemsConcat DEF TypeOK
  <2>7. Elems(<<>>) = {} BY DEF Elems
  <2>8. Elems(Visible') \in {Elems(Visible) \cup Elems(Held) \cup {ev}, {}}
    <3>1. Visible' = base \o database \/ Visible' = <<>>
      BY <1>6, <2>5, ReadNoJson DEF EndPublish, Visible
    <3> QED BY <3>1, <2>6, <2>7
  <2>9. Store!StorePublish(ev)
    BY <1>6, <2>4, <2>8 DEF EndPublish, Store!StorePublish, Eose, ev
  <2> QED BY <2>1, <2>9 DEF Store!StoreNext
<1>7. CASE Crash
  <2>1. Elems(<<>>) = {} BY DEF Elems
  <2>2. Held' = <<>> /\ (Visible' = Visible \/ Visible' = <<>>)
    BY <1>0, <1>7 DEF Crash, Held, Visible, TypeInv, Window
  <2>3. Store!StoreCrash
    BY <1>7, <2>1, <2>2 DEF Crash, NoResponse, Store!StoreCrash, Store!Nothing
  <2> QED BY <2>3 DEF Store!StoreNext
<1>8. CASE UNCHANGED vars
  BY <1>8 DEF vars, Held, Visible, Store!storeVars
<1> QED BY <1>1, <1>2, <1>3, <1>4, <1>5, <1>6, <1>7, <1>8 DEF Next

\* The relay with its file implements the abstract set of events.
THEOREM VostroImplementsStore == Spec => ImplementsStore
<1>1. Init => StoreInv BY TypeInit DEF StoreInv, Init
<1>2. Init => Store!StoreInit
  <2> SUFFICES ASSUME Init PROVE Store!StoreInit OBVIOUS
  <2>1. Elems(<<>>) = {} BY DEF Elems
  <2>2. Visible = read(file) /\ Held = <<>> /\ file \in InitFiles
    BY DEF Init, Visible, Held
  <2> QED BY <2>1, <2>2 DEF Init, NoResponse, Store!StoreInit, Store!Nothing
<1> QED BY <1>1, <1>2, StoreInvStep, StoreStep, PTL DEF Spec, ImplementsStore, Store!StoreSpec

----------------------------------------------------------------------------
(* The inductive invariant: where a client's only message is *)

NetShape ==
  /\ cl \in [Client -> {"new", "open", "closing", "done"}]
  /\ link \in [Client -> {"none", "up", "closed", "cut"}]
  /\ toRelay \in [Client -> Seq(Msg \cup {CloseFrame})]
  /\ toClient \in [Client -> Seq(Response \cup {CloseFrame})]
  /\ store \in [Client -> Seq(Response)]
  /\ served \subseteq Client

\* The EVENT that is being saved is the last one in memory.
ServedIsSaving ==
  \A c \in served :
    /\ \A b \in served : b = c
    /\ pc = "write" /\ Sent[c].type = "EVENT"
    /\ database[Len(database)] = parse_client_event(Sent[c])

\* What may reach a client: the answer to its message, and to an EVENT only
\* when it was acknowledged.
AnswersTo(c) ==
  {r \in Response : /\ IsAnswerTo(r, Sent[c])
                    /\ Sent[c].type = "EVENT" => parse_client_event(Sent[c]) \in acked}

\* Before the connection, or without one.
Unconnected(c) ==
  /\ link[c] = "none" /\ cl[c] \in {"new", "done"} /\ c \notin served
  /\ toRelay[c] = <<>> /\ toClient[c] = <<>> /\ store[c] = <<>>

\* The message is on its way, with the relay, or lost.
Asking(c) ==
  /\ link[c] \in {"up", "cut"} /\ (cl[c] = "open" \/ (cl[c] = "done" /\ link[c] = "cut"))
  /\ toRelay[c] = <<>> \/ (toRelay[c] = <<Sent[c]>> /\ c \notin served)
  /\ toClient[c] = <<>> /\ store[c] = <<>>

\* The answer is on its way.
Answering(c) ==
  /\ link[c] \in {"up", "cut"} /\ cl[c] = "open" /\ c \notin served
  /\ toRelay[c] = <<>> /\ store[c] = <<>>
  /\ \E r \in AnswersTo(c) : toClient[c] = <<r>>

\* The answer is stored; nothing but close frames travel.
Told(c) ==
  /\ link[c] # "none" /\ cl[c] # "new" /\ c \notin served
  /\ \/ toRelay[c] = <<>> /\ toClient[c] \in {<<>>, <<CloseFrame>>}
     \/ toRelay[c] = <<CloseFrame>> /\ toClient[c] = <<>>
  /\ \E r \in AnswersTo(c) : store[c] = <<r>>

Phase(c) == Unconnected(c) \/ Asking(c) \/ Answering(c) \/ Told(c)

SessionInv ==
  DurableInv /\ NetShape /\ ServedIsSaving /\ \A c \in Client : Phase(c)

----------------------------------------------------------------------------
(* Frames and answers *)

\* A close frame is neither a message nor a response.
LEMMA FrameTypes ==
  /\ IsClose(CloseFrame)
  /\ \A m \in Msg : ~IsClose(m)
  /\ \A r \in Response : ~IsClose(r)
  /\ \A c \in Client : Sent[c] \in Msg
<1>1. \A r \in Response : r.type \in {"none", "NOTICE", "EOSE", "EVENT"}
  BY DEF Response, NoResponse, Notice
<1>2. \A r \in Response : ~IsClose(r) BY <1>1 DEF IsClose
<1> QED BY <1>2, ClientAssumption DEF IsClose, CloseFrame

\* The response to a message is an answer to it.
LEMMA ResponseIsAnswer ==
  ASSUME NEW m \in Msg, IsFile(file)
  PROVE  /\ PublishUnsaved(m) => m.type = "EVENT" /\ IsAnswerTo(resp', m)
         /\ Request(m) => m.type = "REQ" /\ IsAnswerTo(resp', m)
         /\ Refuse(m) => m.type \notin {"EVENT", "REQ"} /\ IsAnswerTo(resp', m)
<1>1. /\ get_message_type(m) = "EVENT" <=> m.type = "EVENT"
      /\ get_message_type(m) = "REQ" <=> m.type = "REQ"
  BY DEF get_message_type, MessageTypes
<1>2. PublishUnsaved(m) => m.type = "EVENT" /\ IsAnswerTo(resp', m)
  BY <1>1 DEF PublishUnsaved, IsAnswerTo
<1>3. Answer(file, m).type \in {"EVENT", "EOSE"} /\ Answer(file, m).id = parse_request(m).id
  <2> DEFINE r == parse_request(m)
             first == FirstMatch(read(file), Elems(r.filter.authors))
  <2>1. Answer(file, m) = IF first = <<>> THEN Eose(r.id) ELSE EventResponse(r.id, first[1])
    BY DEF Answer
  <2> HIDE DEF r, first
  <2>2. Answer(file, m).type \in {"EVENT", "EOSE"} /\ Answer(file, m).id = r.id
    BY <2>1 DEF Eose, EventResponse
  <2> QED BY <2>2 DEF r
<1>4. Request(m) => m.type = "REQ" /\ IsAnswerTo(resp', m)
  BY <1>1, <1>3 DEF Request, IsAnswerTo
<1>5. Refuse(m) => m.type \notin {"EVENT", "REQ"} /\ IsAnswerTo(resp', m)
  BY <1>1 DEF Refuse, IsAnswerTo
<1> QED BY <1>2, <1>4, <1>5

----------------------------------------------------------------------------
(* Every step of the system is a step of the relay, or none *)

\* The message the relay reads next from c.
LEMMA HeadOfRelay ==
  ASSUME SessionInv, NEW c \in Client, toRelay[c] # <<>>
  PROVE  /\ Head(toRelay[c]) = Sent[c] <=> ~IsClose(Head(toRelay[c]))
         /\ ~IsClose(Head(toRelay[c])) =>
              Asking(c) /\ toRelay[c] = <<Sent[c]>> /\ c \notin served /\ Tail(toRelay[c]) = <<>>
         /\ IsClose(Head(toRelay[c])) => Told(c) /\ toRelay[c] = <<CloseFrame>>
<1>1. Phase(c) BY DEF SessionInv
<1>2. Sent[c] \in Msg /\ ~IsClose(Sent[c]) /\ IsClose(CloseFrame) BY FrameTypes
<1>3. \/ Asking(c) /\ toRelay[c] = <<Sent[c]>> /\ c \notin served
      \/ Told(c) /\ toRelay[c] = <<CloseFrame>>
  BY <1>1 DEF Phase, Unconnected, Asking, Answering, Told
<1>4. /\ Head(<<Sent[c]>>) = Sent[c] /\ Tail(<<Sent[c]>>) = <<>> /\ Head(<<CloseFrame>>) = CloseFrame
  OBVIOUS
<1> QED BY <1>2, <1>3, <1>4

LEMMA SessionRelayStep ==
  ASSUME SessionInv, [SessionNext]_allVars
  PROVE  [Next]_vars
<1>1. ASSUME NEW c \in Client,
             Connect(c) \/ ConnectFails(c) \/ ClientStep(c) \/ ServeClose(c) \/ Cut(c)
      PROVE  UNCHANGED vars
  BY <1>1 DEF Connect, ConnectFails, ClientStep, OnMessage, OnClose, OnError, ServeClose, Cut
<1>2. ASSUME NEW c \in Client, Serve(c) PROVE Next
  <2>1. Head(toRelay[c]) \in Msg
    BY <1>2, HeadOfRelay, FrameTypes DEF Serve
  <2> QED BY <1>2, <2>1 DEF Serve, Next
<1>3. CASE EndServe BY <1>3 DEF EndServe, Next
<1>4. CASE RelayCrash BY <1>4 DEF RelayCrash, Next
<1>5. CASE RelayStart BY <1>5 DEF RelayStart, Next
<1>6. CASE UNCHANGED allVars BY <1>6 DEF allVars
<1> QED BY <1>1, <1>2, <1>3, <1>4, <1>5, <1>6 DEF SessionNext, RelayStep

\* What is acknowledged stays so.
LEMMA AckedGrows ==
  ASSUME TypeInv, [Next]_vars
  PROVE  acked \subseteq acked'
BY DEF Next, Start, BeginPublish, PublishUnsaved, EndPublish, Request, Refuse, Crash, vars, history

----------------------------------------------------------------------------
(* Steps *)

\* A client whose connection does not move keeps its place.
LEMMA KeepsPhase ==
  ASSUME NEW c \in Client, Phase(c), acked \subseteq acked', c \in served' => c \in served,
         cl'[c] = cl[c], link'[c] = link[c], toRelay'[c] = toRelay[c],
         toClient'[c] = toClient[c], store'[c] = store[c]
  PROVE  Phase(c)'
<1>1. AnswersTo(c) \subseteq AnswersTo(c)' BY DEF AnswersTo
<1> QED BY <1>1 DEF Phase, Unconnected, Asking, Answering, Told

\* A step that moves one connection only.
LEMMA OneMoves ==
  ASSUME SessionInv, [Next]_vars, NEW c \in Client, NetShape', ServedIsSaving', Phase(c)',
         \A b \in Client \ {c} :
           /\ b \in served' => b \in served
           /\ cl'[b] = cl[b] /\ link'[b] = link[b] /\ toRelay'[b] = toRelay[b]
           /\ toClient'[b] = toClient[b] /\ store'[b] = store[b]
  PROVE  SessionInv'
<1>1. DurableInv' BY DurableStep DEF SessionInv
<1>2. acked \subseteq acked' BY AckedGrows DEF SessionInv, DurableInv
<1>3. ASSUME NEW b \in Client PROVE Phase(b)'
  <2>1. CASE b = c BY <2>1
  <2>2. CASE b # c BY <2>2, <1>2, KeepsPhase DEF SessionInv
  <2> QED BY <2>1, <2>2
<1> QED BY <1>1, <1>3 DEF SessionInv

LEMMA SessionInitially == SessionInit => SessionInv
<1> SUFFICES ASSUME SessionInit PROVE SessionInv OBVIOUS
<1>1. DurableInv BY TypeInit DEF SessionInit, DurableInv, Durable, Init
<1>2. \A S : <<>> \in Seq(S) OBVIOUS
<1>3. NetShape BY <1>2 DEF SessionInit, NetShape
<1>4. ServedIsSaving BY DEF SessionInit, ServedIsSaving
<1>5. \A c \in Client : Unconnected(c) BY DEF SessionInit, Unconnected
<1> QED BY <1>1, <1>3, <1>4, <1>5 DEF SessionInv, Phase

LEMMA ConnectStep ==
  ASSUME SessionInv, NEW c \in Client, Connect(c) \/ ConnectFails(c)
  PROVE  SessionInv'
<1>1. /\ NetShape /\ ServedIsSaving /\ Phase(c) /\ Sent[c] \in Msg BY FrameTypes DEF SessionInv
<1>2. <<Sent[c]>> \in Seq(Msg \cup {CloseFrame}) BY <1>1
<1>3. cl[c] = "new" /\ UNCHANGED <<vars, toClient, store, served>> BY DEF Connect, ConnectFails
<1>4. Unconnected(c) BY <1>1, <1>3 DEF Phase, Asking, Answering, Told
<1>5. NetShape'
  <2>1. CASE Connect(c) BY <2>1, <1>1, <1>2, <1>3 DEF NetShape, Connect
  <2>2. CASE ConnectFails(c) BY <2>2, <1>1, <1>3 DEF NetShape, ConnectFails
  <2> QED BY <2>1, <2>2
<1>6. ServedIsSaving' BY <1>1, <1>3 DEF ServedIsSaving, vars
<1>7. Phase(c)'
  <2>1. CASE Connect(c)
    <3>1. Asking(c)' BY <2>1, <1>1, <1>3, <1>4 DEF Connect, Unconnected, Asking, NetShape
    <3> QED BY <3>1 DEF Phase
  <2>2. CASE ConnectFails(c)
    <3>1. Unconnected(c)' BY <2>2, <1>1, <1>3, <1>4 DEF ConnectFails, Unconnected, NetShape
    <3> QED BY <3>1 DEF Phase
  <2> QED BY <2>1, <2>2
<1>8. \A b \in Client \ {c} :
        /\ cl'[b] = cl[b] /\ link'[b] = link[b] /\ toRelay'[b] = toRelay[b]
        /\ toClient'[b] = toClient[b] /\ store'[b] = store[b]
  BY <1>1, <1>3 DEF NetShape, Connect, ConnectFails
<1> QED BY <1>3, <1>5, <1>6, <1>7, <1>8, OneMoves

LEMMA OnMessageStep ==
  ASSUME SessionInv, NEW c \in Client, OnMessage(c)
  PROVE  SessionInv'
<1> DEFINE msg == Head(toClient[c])
           closes == cl[c] = "open" /\ Closes(c, msg)
<1>1. /\ cl[c] \in {"open", "closing"} /\ toClient[c] # <<>> /\ ~IsClose(msg)
      /\ store' = [store EXCEPT ![c] = Append(store[c], msg)]
      /\ toClient' = [toClient EXCEPT ![c] = Tail(@)]
      /\ cl' = [cl EXCEPT ![c] = IF closes THEN "closing" ELSE @]
      /\ toRelay' = [toRelay EXCEPT ![c] =
                       IF closes /\ link[c] = "up" THEN Append(@, CloseFrame) ELSE @]
      /\ UNCHANGED <<vars, link, served>>
  BY DEF OnMessage, Kept
<1>2. /\ NetShape /\ ServedIsSaving /\ Phase(c) BY DEF SessionInv
<1>3. Answering(c)
  <2>1. IsClose(CloseFrame) /\ Head(<<CloseFrame>>) = CloseFrame BY FrameTypes
  <2> QED BY <1>1, <1>2, <2>1 DEF Phase, Unconnected, Asking, Told
<1>4. PICK r \in AnswersTo(c) : toClient[c] = <<r>> BY <1>3 DEF Answering
<1>5. msg = r /\ Tail(toClient[c]) = <<>> /\ r \in Response BY <1>4 DEF AnswersTo
<1> HIDE DEF msg, closes
<1>6. toRelay[c] = <<>> /\ store[c] = <<>> /\ link[c] \in {"up", "cut"} /\ c \notin served
  BY <1>3 DEF Answering
<1>7. Append(<<>>, r) = <<r>> /\ Append(<<>>, CloseFrame) = <<CloseFrame>> OBVIOUS
<1>8. /\ store'[c] = <<r>> /\ toClient'[c] = <<>> /\ toRelay'[c] \in {<<>>, <<CloseFrame>>}
      /\ cl'[c] \in {"open", "closing"}
  BY <1>1, <1>2, <1>5, <1>6, <1>7 DEF NetShape
<1>9. NetShape'
  <2>1. \A S, x : x \in S => <<x>> \in Seq(S) OBVIOUS
  <2>2. <<r>> \in Seq(Response) /\ <<CloseFrame>> \in Seq(Msg \cup {CloseFrame})
    BY <1>5, <2>1
  <2>3. \A S : <<>> \in Seq(S) OBVIOUS
  <2>4. store' \in [Client -> Seq(Response)] BY <1>1, <1>2, <1>5, <1>6, <1>7, <2>2 DEF NetShape
  <2>5. toClient' \in [Client -> Seq(Response \cup {CloseFrame})] BY <1>1, <1>2, <1>5, <2>3 DEF NetShape
  <2>6. toRelay' \in [Client -> Seq(Msg \cup {CloseFrame})]
    BY <1>1, <1>2, <1>6, <1>7, <2>2, <2>3 DEF NetShape
  <2>7. cl' \in [Client -> {"new", "open", "closing", "done"}] BY <1>1, <1>2 DEF NetShape
  <2> QED BY <1>1, <1>2, <2>4, <2>5, <2>6, <2>7 DEF NetShape
<1>10. ServedIsSaving' BY <1>1, <1>2 DEF ServedIsSaving, vars
<1>11. Told(c)'
  <2>1. AnswersTo(c)' = AnswersTo(c) BY <1>1 DEF AnswersTo, vars
  <2> QED BY <1>1, <1>6, <1>8, <2>1 DEF Told
<1>12. \A b \in Client \ {c} :
        /\ cl'[b] = cl[b] /\ link'[b] = link[b] /\ toRelay'[b] = toRelay[b]
        /\ toClient'[b] = toClient[b] /\ store'[b] = store[b]
  BY <1>1, <1>2 DEF NetShape
<1> QED BY <1>1, <1>9, <1>10, <1>11, <1>12, OneMoves DEF Phase

LEMMA OnCloseStep ==
  ASSUME SessionInv, NEW c \in Client, OnClose(c) \/ OnError(c)
  PROVE  SessionInv'
<1>1. /\ NetShape /\ ServedIsSaving /\ Phase(c) BY DEF SessionInv
<1>2. /\ cl[c] \in {"open", "closing"} /\ cl' = [cl EXCEPT ![c] = "done"]
      /\ UNCHANGED <<vars, toRelay, store, served>>
  BY DEF OnClose, OnError
<1>3. NetShape'
  <2>1. \A S : <<>> \in Seq(S) OBVIOUS
  <2>2. cl' \in [Client -> {"new", "open", "closing", "done"}] BY <1>1, <1>2 DEF NetShape
  <2>3. CASE OnClose(c)
    <3>1. toClient' \in [Client -> Seq(Response \cup {CloseFrame})]
      BY <1>1, <2>1, <2>3 DEF NetShape, OnClose
    <3>2. link' \in [Client -> {"none", "up", "closed", "cut"}]
      BY <1>1, <2>3 DEF NetShape, OnClose
    <3> QED BY <1>1, <1>2, <2>2, <3>1, <3>2 DEF NetShape
  <2>4. CASE OnError(c) BY <1>1, <1>2, <2>2, <2>4 DEF NetShape, OnError
  <2> QED BY <2>3, <2>4
<1>4. ServedIsSaving' BY <1>1, <1>2 DEF ServedIsSaving, vars
<1>5. AnswersTo(c)' = AnswersTo(c) BY <1>2 DEF AnswersTo, vars
<1>6. CASE OnClose(c)
  <2>1. /\ toClient[c] # <<>> /\ IsClose(Head(toClient[c]))
        /\ toClient' = [toClient EXCEPT ![c] = <<>>] /\ link' = [link EXCEPT ![c] = "closed"]
    BY <1>6 DEF OnClose
  <2>2. Told(c)
    <3>1. ASSUME NEW r \in AnswersTo(c) PROVE ~IsClose(Head(<<r>>))
      BY FrameTypes DEF AnswersTo
    <3> QED BY <1>1, <2>1, <3>1 DEF Phase, Unconnected, Asking, Answering
  <2>3. Told(c)' BY <1>1, <1>2, <1>5, <2>1, <2>2 DEF Told, NetShape
  <2>4. \A b \in Client \ {c} :
          /\ cl'[b] = cl[b] /\ link'[b] = link[b] /\ toRelay'[b] = toRelay[b]
          /\ toClient'[b] = toClient[b] /\ store'[b] = store[b]
    BY <1>1, <1>2, <2>1 DEF NetShape
  <2> QED BY <1>2, <1>3, <1>4, <2>3, <2>4, OneMoves DEF Phase
<1>7. CASE OnError(c)
  <2>1. link[c] = "cut" /\ toClient[c] = <<>> /\ UNCHANGED <<link, toClient>> BY <1>7 DEF OnError
  <2>2. Asking(c) \/ Told(c) BY <1>1, <2>1 DEF Phase, Unconnected, Answering
  <2>3. Asking(c)' \/ Told(c)' BY <1>1, <1>2, <1>5, <2>1, <2>2 DEF Asking, Told, NetShape
  <2>4. \A b \in Client \ {c} : cl'[b] = cl[b] BY <1>1, <1>2 DEF NetShape
  <2> QED BY <1>2, <1>3, <1>4, <2>1, <2>3, <2>4, OneMoves DEF Phase
<1> QED BY <1>6, <1>7

LEMMA ServeCloseStep ==
  ASSUME SessionInv, NEW c \in Client, ServeClose(c)
  PROVE  SessionInv'
<1>1. /\ NetShape /\ ServedIsSaving BY DEF SessionInv
<1>2. /\ toRelay[c] # <<>> /\ IsClose(Head(toRelay[c]))
      /\ toClient' = [toClient EXCEPT ![c] = IF link[c] = "up" THEN Append(@, CloseFrame) ELSE @]
      /\ toRelay' = [toRelay EXCEPT ![c] = <<>>]
      /\ UNCHANGED <<vars, cl, link, store, served>>
  BY DEF ServeClose, Deliver
<1>3. Told(c) /\ toRelay[c] = <<CloseFrame>> BY <1>2, HeadOfRelay
<1>4. toClient[c] = <<>> /\ Append(<<>>, CloseFrame) = <<CloseFrame>> BY <1>3 DEF Told
<1>5. toClient'[c] \in {<<>>, <<CloseFrame>>} /\ toRelay'[c] = <<>> BY <1>1, <1>2, <1>4 DEF NetShape
<1>6. NetShape'
  <2>1. \A S : <<>> \in Seq(S) OBVIOUS
  <2>2. <<CloseFrame>> \in Seq(Response \cup {CloseFrame}) OBVIOUS
  <2>3. toClient' \in [Client -> Seq(Response \cup {CloseFrame})] BY <1>1, <1>2, <1>4, <2>1, <2>2 DEF NetShape
  <2>4. toRelay' \in [Client -> Seq(Msg \cup {CloseFrame})] BY <1>1, <1>2, <2>1 DEF NetShape
  <2> QED BY <1>1, <1>2, <2>3, <2>4 DEF NetShape
<1>7. ServedIsSaving' BY <1>1, <1>2 DEF ServedIsSaving, vars
<1>8. Told(c)'
  <2>1. AnswersTo(c)' = AnswersTo(c) BY <1>2 DEF AnswersTo, vars
  <2> QED BY <1>2, <1>3, <1>5, <2>1 DEF Told
<1>9. \A b \in Client \ {c} :
        /\ cl'[b] = cl[b] /\ link'[b] = link[b] /\ toRelay'[b] = toRelay[b]
        /\ toClient'[b] = toClient[b] /\ store'[b] = store[b]
  BY <1>1, <1>2 DEF NetShape
<1> QED BY <1>2, <1>6, <1>7, <1>8, <1>9, OneMoves DEF Phase

\* What is left of a sequence of one frame, or of none, when a connection
\* breaks.
LEMMA PrefixOfOne ==
  ASSUME NEW S, NEW s \in Seq(S), NEW t \in Prefixes(s), Len(s) <= 1
  PROVE  t \in Seq(S) /\ (t = <<>> \/ t = s)
<1>1. PICK n \in 0..Len(s) : t = SubSeq(s, 1, n) BY DEF Prefixes
<1>2. n = 0 \/ (n = 1 /\ Len(s) = 1) BY Len(s) \in Nat
<1>3. CASE n = 0 BY <1>1, <1>3
<1>4. CASE n = 1 /\ Len(s) = 1
  <2>1. t \in Seq(S) /\ Len(t) = 1 /\ t[1] = s[1] BY <1>1, <1>4
  <2>2. t = s BY <2>1, <1>4, SeqEqual
  <2> QED BY <2>1, <2>2
<1> QED BY <1>2, <1>3, <1>4

\* A connection that is cut keeps its client where it was, or loses its message.
LEMMA CutPhase ==
  ASSUME NEW c \in Client, Phase(c), acked' = acked, c \in served' => c \in served,
         cl'[c] = cl[c], store'[c] = store[c],
         link'[c] = IF link[c] = "up" THEN "cut" ELSE link[c],
         toRelay'[c] \in {<<>>, toRelay[c]}, toClient'[c] \in {<<>>, toClient[c]}
  PROVE  Phase(c)'
<1>1. AnswersTo(c)' = AnswersTo(c) BY DEF AnswersTo
<1>2. CASE Unconnected(c) BY <1>2 DEF Phase, Unconnected
<1>3. CASE Asking(c) BY <1>3 DEF Phase, Asking
<1>4. CASE Answering(c)
  <2>1. Answering(c)' \/ Asking(c)' BY <1>1, <1>4 DEF Asking, Answering
  <2> QED BY <2>1 DEF Phase
<1>5. CASE Told(c)
  <2>1. Told(c)' BY <1>1, <1>5 DEF Told
  <2> QED BY <2>1 DEF Phase
<1> QED BY <1>2, <1>3, <1>4, <1>5 DEF Phase

\* No more than one frame is on its way in either direction.
LEMMA OneFrame ==
  ASSUME SessionInv, NEW c \in Client
  PROVE  Len(toRelay[c]) <= 1 /\ Len(toClient[c]) <= 1
<1>1. Phase(c) BY DEF SessionInv
<1>3. toRelay[c] \in {<<>>, <<Sent[c]>>, <<CloseFrame>>}
  BY <1>1 DEF Phase, Unconnected, Asking, Answering, Told
<1>4. toClient[c] = <<>> \/ \E x : toClient[c] = <<x>>
  BY <1>1 DEF Phase, Unconnected, Asking, Answering, Told
<1>5. Len(toRelay[c]) <= 1
  <2>1. CASE toRelay[c] = <<>> BY <2>1
  <2>2. CASE toRelay[c] = <<Sent[c]>> BY <2>2
  <2>3. CASE toRelay[c] = <<CloseFrame>> BY <2>3
  <2> QED BY <1>3, <2>1, <2>2, <2>3
<1>6. Len(toClient[c]) <= 1
  <2>1. CASE toClient[c] = <<>> BY <2>1
  <2>2. CASE \E x : toClient[c] = <<x>> BY <2>2
  <2> QED BY <1>4, <2>1, <2>2
<1> QED BY <1>5, <1>6

LEMMA CutStep ==
  ASSUME SessionInv, NEW c \in Client, Cut(c)
  PROVE  SessionInv'
<1>1. /\ NetShape /\ ServedIsSaving /\ Phase(c) BY DEF SessionInv
<1>2. /\ link[c] = "up" /\ link' = [link EXCEPT ![c] = "cut"]
      /\ UNCHANGED <<vars, cl, store, served>>
  BY DEF Cut
<1>3. PICK s \in Prefixes(toRelay[c]) : toRelay' = [toRelay EXCEPT ![c] = s] BY DEF Cut
<1>4. PICK t \in Prefixes(toClient[c]) : toClient' = [toClient EXCEPT ![c] = t] BY DEF Cut
<1>5. /\ toRelay[c] \in Seq(Msg \cup {CloseFrame}) /\ toClient[c] \in Seq(Response \cup {CloseFrame})
      /\ Len(toRelay[c]) <= 1 /\ Len(toClient[c]) <= 1
  BY <1>1, OneFrame DEF NetShape
<1>6. s \in Seq(Msg \cup {CloseFrame}) /\ s \in {<<>>, toRelay[c]} BY <1>5, PrefixOfOne
<1>7. t \in Seq(Response \cup {CloseFrame}) /\ t \in {<<>>, toClient[c]} BY <1>5, PrefixOfOne
<1>8. NetShape' BY <1>1, <1>2, <1>3, <1>4, <1>6, <1>7 DEF NetShape
<1>9. ServedIsSaving' BY <1>1, <1>2 DEF ServedIsSaving, vars
<1>10. /\ toRelay'[c] = s /\ toClient'[c] = t /\ link'[c] = "cut"
       /\ \A b \in Client \ {c} :
            toRelay'[b] = toRelay[b] /\ toClient'[b] = toClient[b] /\ link'[b] = link[b]
  BY <1>1, <1>2, <1>3, <1>4 DEF NetShape
<1>11. Phase(c)' BY <1>1, <1>2, <1>6, <1>7, <1>10, CutPhase DEF vars
<1> QED BY <1>2, <1>8, <1>9, <1>10, <1>11, OneMoves

\* A response that is an answer reaches the client, or nobody.
LEMMA DeliverStep ==
  ASSUME SessionInv, [Next]_vars, NEW c \in Client, Asking(c), Deliver(c, resp'),
         resp' \in Response, IsAnswerTo(resp', Sent[c]),
         Sent[c].type = "EVENT" => parse_client_event(Sent[c]) \in acked',
         toRelay' = [toRelay EXCEPT ![c] = <<>>], UNCHANGED <<cl, link, store>>,
         c \notin served', \A b \in served' : b \in served, ServedIsSaving'
  PROVE  SessionInv'
<1>1. NetShape BY DEF SessionInv
<1>2. /\ toClient[c] = <<>> /\ store[c] = <<>> /\ link[c] \in {"up", "cut"}
      /\ cl[c] = "open" \/ (cl[c] = "done" /\ link[c] = "cut")
  BY DEF Asking
<1>3. Append(<<>>, resp') = <<resp'>> OBVIOUS
<1>4. /\ toRelay'[c] = <<>> /\ toClient'[c] = IF link[c] = "up" THEN <<resp'>> ELSE <<>>
  BY <1>1, <1>2, <1>3 DEF NetShape, Deliver
<1>5. \A b \in Client \ {c} : toRelay'[b] = toRelay[b] /\ toClient'[b] = toClient[b]
  BY <1>1 DEF NetShape, Deliver
<1>6. NetShape'
  <2>1. \A S : <<>> \in Seq(S) OBVIOUS
  <2>2. <<resp'>> \in Seq(Response \cup {CloseFrame}) OBVIOUS
  <2>3. toClient' \in [Client -> Seq(Response \cup {CloseFrame})]
    BY <1>1, <1>2, <1>3, <2>1, <2>2 DEF NetShape, Deliver
  <2>4. toRelay' \in [Client -> Seq(Msg \cup {CloseFrame})] BY <1>1, <2>1 DEF NetShape
  <2> QED BY <1>1, <2>3, <2>4 DEF NetShape
<1>7. resp' \in AnswersTo(c)' BY DEF AnswersTo
<1>8. CASE link[c] = "up"
  <2>1. Answering(c)' BY <1>2, <1>4, <1>7, <1>8 DEF Answering
  <2> QED BY <1>5, <1>6, <2>1, OneMoves DEF Phase
<1>9. CASE link[c] = "cut"
  <2>1. Asking(c)' BY <1>2, <1>4, <1>9 DEF Asking
  <2> QED BY <1>5, <1>6, <2>1, OneMoves DEF Phase
<1> QED BY <1>2, <1>8, <1>9

LEMMA ServeStep ==
  ASSUME SessionInv, [Next]_vars, NEW c \in Client, Serve(c)
  PROVE  SessionInv'
<1> DEFINE m == Head(toRelay[c])
<1>1. /\ toRelay[c] # <<>> /\ ~IsClose(m)
      /\ \/ BeginPublish(m) /\ served' = {c} /\ UNCHANGED toClient
         \/ /\ PublishUnsaved(m) \/ Request(m) \/ Refuse(m)
            /\ Deliver(c, resp') /\ UNCHANGED served
      /\ toRelay' = [toRelay EXCEPT ![c] = Tail(@)]
      /\ UNCHANGED <<cl, link, store>>
  BY DEF Serve
<1>2. /\ m = Sent[c] /\ Asking(c) /\ toRelay[c] = <<Sent[c]>> /\ c \notin served /\ Tail(toRelay[c]) = <<>>
      /\ Sent[c] \in Msg
  BY <1>1, HeadOfRelay, FrameTypes
<1>3. toRelay' = [toRelay EXCEPT ![c] = <<>>] BY <1>1, <1>2
<1>4. NetShape /\ ServedIsSaving /\ TypeInv /\ TypeOK BY DEF SessionInv, DurableInv, TypeInv
<1>5. DurableInv' /\ TypeOK' BY DurableStep DEF SessionInv, DurableInv, TypeInv
<1> HIDE DEF m
<1>6. CASE BeginPublish(m) /\ served' = {c} /\ UNCHANGED toClient
  <2>1. /\ m.type = "EVENT" /\ get_message_type(m) = "EVENT" /\ pc' = "write" /\ pc = "idle"
        /\ database' = Append(database, parse_client_event(m)) /\ acked' = acked
    BY <1>6 DEF BeginPublish, get_message_type, MessageTypes, history
  <2>2. parse_client_event(m) \in Event BY <1>2, <2>1, ParsedTypes
  <2>3. database'[Len(database')] = parse_client_event(m)
    BY <1>4, <2>1, <2>2, ElemsAppend DEF TypeOK
  <2>4. ServedIsSaving' BY <1>2, <1>6, <2>1, <2>3 DEF ServedIsSaving
  <2>5. served = {} BY <1>4, <2>1 DEF ServedIsSaving
  <2>6. /\ toRelay'[c] = <<>> /\ \A b \in Client \ {c} : toRelay'[b] = toRelay[b]
    BY <1>3, <1>4 DEF NetShape
  <2>7. NetShape'
    <3>1. \A S : <<>> \in Seq(S) OBVIOUS
    <3>2. toRelay' \in [Client -> Seq(Msg \cup {CloseFrame})] BY <1>3, <1>4, <3>1 DEF NetShape
    <3> QED BY <1>1, <1>4, <1>6, <3>2 DEF NetShape
  <2>8. Asking(c)' BY <1>1, <1>2, <1>6, <2>6 DEF Asking
  <2> QED BY <1>1, <1>6, <2>4, <2>6, <2>7, <2>8, OneMoves DEF Phase
<1>7. CASE /\ PublishUnsaved(m) \/ Request(m) \/ Refuse(m)
           /\ Deliver(c, resp') /\ UNCHANGED served
  <2>1. pc = "idle" BY <1>7 DEF PublishUnsaved, Request, Refuse
  <2>2. served = {} BY <1>4, <2>1 DEF ServedIsSaving
  <2>3. ServedIsSaving' BY <1>7, <2>2 DEF ServedIsSaving
  <2>4. /\ IsAnswerTo(resp', Sent[c])
        /\ Sent[c].type = "EVENT" => PublishUnsaved(m)
    BY <1>2, <1>4, <1>7, ResponseIsAnswer DEF TypeOK
  <2>5. Sent[c].type = "EVENT" => parse_client_event(Sent[c]) \in acked'
    BY <1>2, <2>4 DEF PublishUnsaved
  <2>6. resp' \in Response BY <1>5 DEF TypeOK
  <2> QED BY <1>1, <1>2, <1>3, <1>7, <2>2, <2>3, <2>4, <2>5, <2>6, DeliverStep
<1> QED BY <1>1, <1>6, <1>7

LEMMA EndServeStep ==
  ASSUME SessionInv, [Next]_vars, EndServe
  PROVE  SessionInv'
<1>1. /\ EndPublish /\ served' = {} /\ UNCHANGED <<cl, link, toRelay, store>> BY DEF EndServe
<1>2. PICK c \in served : Deliver(c, resp') BY DEF EndServe
<1>3. NetShape /\ ServedIsSaving /\ c \in Client /\ Phase(c) BY <1>2 DEF SessionInv, NetShape
<1>4. /\ Sent[c].type = "EVENT"
      /\ database[Len(database)] = parse_client_event(Sent[c])
  BY <1>3 DEF ServedIsSaving
<1>5. resp' = Eose(parse_client_event(Sent[c]).id) /\ parse_client_event(Sent[c]) \in acked'
  BY <1>1, <1>4 DEF EndPublish
<1>6. IsAnswerTo(resp', Sent[c]) BY <1>4, <1>5 DEF IsAnswerTo
<1>7. resp' \in Response BY DurableStep DEF SessionInv, DurableInv, TypeInv, TypeOK
<1>8. Asking(c) /\ toRelay[c] = <<>>
  BY <1>3 DEF Phase, Unconnected, Asking, Answering, Told
<1>9. toRelay' = [toRelay EXCEPT ![c] = <<>>] BY <1>1, <1>3, <1>8 DEF NetShape
<1>10. ServedIsSaving' BY <1>1 DEF ServedIsSaving
<1> QED BY <1>1, <1>2, <1>3, <1>5, <1>6, <1>7, <1>8, <1>9, <1>10, DeliverStep

LEMMA CrashStep ==
  ASSUME SessionInv, [Next]_vars, RelayCrash
  PROVE  SessionInv'
<1>1. /\ Crash /\ served' = {} /\ UNCHANGED <<cl, store>>
      /\ link' = [c \in Client |-> IF link[c] = "up" THEN "cut" ELSE link[c]]
      /\ toRelay' = [c \in Client |-> <<>>]
      /\ \E D : toClient' \in [Client -> D]
      /\ \A c \in Client : toClient'[c] \in Prefixes(toClient[c])
  BY DEF RelayCrash
<1>2. NetShape /\ \A c \in Client : Phase(c) BY DEF SessionInv
<1>3. ASSUME NEW c \in Client
      PROVE  toClient'[c] \in Seq(Response \cup {CloseFrame}) /\ toClient'[c] \in {<<>>, toClient[c]}
  <2>1. toClient[c] \in Seq(Response \cup {CloseFrame}) /\ Len(toClient[c]) <= 1
    BY <1>2, OneFrame DEF NetShape
  <2> QED BY <1>1, <2>1, PrefixOfOne
<1>4. NetShape'
  <2>1. \A S : <<>> \in Seq(S) OBVIOUS
  <2>2. toRelay' \in [Client -> Seq(Msg \cup {CloseFrame})] BY <1>1, <2>1
  <2>3. link' \in [Client -> {"none", "up", "closed", "cut"}] BY <1>1, <1>2 DEF NetShape
  <2>4. toClient' \in [Client -> Seq(Response \cup {CloseFrame})] BY <1>1, <1>3
  <2> QED BY <1>1, <1>2, <2>2, <2>3, <2>4 DEF NetShape
<1>5. ServedIsSaving' BY <1>1 DEF ServedIsSaving
<1>6. acked' = acked BY <1>1 DEF Crash
<1>7. ASSUME NEW c \in Client PROVE Phase(c)' BY <1>1, <1>2, <1>3, <1>6, CutPhase
<1>8. DurableInv' BY DurableStep DEF SessionInv
<1> QED BY <1>4, <1>5, <1>7, <1>8 DEF SessionInv

\* A step that moves no connection, and no EVENT that is being saved.
LEMMA QuietStep ==
  ASSUME SessionInv, [Next]_vars, UNCHANGED net, RelayStart \/ UNCHANGED allVars
  PROVE  SessionInv'
<1>1. UNCHANGED <<cl, link, toRelay, toClient, store, served>> BY DEF net
<1>2. NetShape' BY <1>1 DEF SessionInv, NetShape
<1>3. ServedIsSaving'
  BY <1>1 DEF SessionInv, ServedIsSaving, RelayStart, Start, allVars, vars
<1>4. acked \subseteq acked' BY AckedGrows DEF SessionInv, DurableInv
<1>5. \A c \in Client : Phase(c)' BY <1>1, <1>4, KeepsPhase DEF SessionInv
<1>6. DurableInv' BY DurableStep DEF SessionInv
<1> QED BY <1>2, <1>3, <1>5, <1>6 DEF SessionInv

LEMMA SessionStep == SessionInv /\ [SessionNext]_allVars => SessionInv'
<1> SUFFICES ASSUME SessionInv, [SessionNext]_allVars PROVE SessionInv' OBVIOUS
<1>1. [Next]_vars BY SessionRelayStep
<1>2. ASSUME NEW c \in Client,
             \/ Connect(c) \/ ConnectFails(c) \/ ClientStep(c) \/ RelayStep(c) \/ Cut(c)
      PROVE  SessionInv'
  BY <1>1, <1>2, ConnectStep, OnMessageStep, OnCloseStep, ServeStep, ServeCloseStep, CutStep
    DEF ClientStep, RelayStep
<1>3. CASE RelayStart \/ UNCHANGED allVars
  BY <1>1, <1>3, QuietStep DEF RelayStart, allVars
<1> QED BY <1>1, <1>2, <1>3, EndServeStep, CrashStep DEF SessionNext

----------------------------------------------------------------------------
(* Theorems *)

LEMMA SessionAlways == SessionSpec => []SessionInv
BY SessionInitially, SessionStep, PTL DEF SessionSpec

\* The relay behind its connections is the relay of Vostro: whatever clients,
\* network and operator do, it takes its steps and no others, so all that is
\* proved of Vostro holds here.
THEOREM SessionsImplementVostro == SessionSpec => Spec
<1>1. SessionInit => Init BY DEF SessionInit
<1>2. SessionInv /\ [SessionNext]_allVars => [Next]_vars BY SessionRelayStep
<1> QED BY <1>1, <1>2, SessionAlways, PTL DEF SessionSpec, Spec

\* From the frames on the network to the abstract set of events: behind any
\* number of connections that break at any time the relay (wss_relay.cc:34-52)
\* is that set, keeps what it acknowledged, answers alike from file and memory,
\* and never turns one answer into another.
THEOREM SessionsServeStore ==
  SessionSpec => ImplementsStore /\ OldestWins /\ []Durable /\ []Agreement
BY SessionsImplementVostro, VostroImplementsStore, OldestAlwaysWins, Durability, AnswersAgree, PTL

\* Types of the relay and of its connections.
THEOREM SessionTypeCorrect == SessionSpec => []SessionTypeOK
<1>1. SessionInv => SessionTypeOK
  <2> SUFFICES ASSUME SessionInv PROVE SessionTypeOK OBVIOUS
  <2>1. TypeOK /\ NetShape BY DEF SessionInv, DurableInv, TypeInv
  <2>2. ASSUME NEW c \in Client
        PROVE  /\ \A i \in DOMAIN toRelay[c] : toRelay[c][i] \in Msg \cup {CloseFrame}
               /\ \A i \in DOMAIN store[c] : store[c][i] \in Response
    <3>1. toRelay[c] \in Seq(Msg \cup {CloseFrame}) /\ store[c] \in Seq(Response) BY <2>1 DEF NetShape
    <3> QED BY <3>1
  <2> QED BY <2>1, <2>2 DEF SessionTypeOK, NetShape
<1> QED BY <1>1, SessionAlways, PTL

\* A client stores at most one message, the answer to its own.
THEOREM AnswersAreOwn == SessionSpec => []OwnAnswer
<1>1. SessionInv => OwnAnswer
  <2> SUFFICES ASSUME SessionInv, NEW c \in Client
               PROVE  /\ Len(store[c]) <= 1
                      /\ \A i \in DOMAIN store[c] : IsAnswerTo(store[c][i], Sent[c])
    BY DEF OwnAnswer
  <2>1. Phase(c) BY DEF SessionInv
  <2>2. CASE store[c] = <<>> BY <2>2
  <2>3. CASE store[c] # <<>>
    <3>1. PICK r \in AnswersTo(c) : store[c] = <<r>>
      BY <2>1, <2>3 DEF Phase, Unconnected, Asking, Answering, Told
    <3>2. IsAnswerTo(r, Sent[c]) BY DEF AnswersTo
    <3>3. Len(<<r>>) = 1 /\ DOMAIN <<r>> = {1} /\ <<r>>[1] = r OBVIOUS
    <3> QED BY <3>1, <3>2, <3>3
  <2> QED BY <2>2, <2>3
<1> QED BY <1>1, SessionAlways, PTL

\* A client that was told that its EVENT is kept finds it in the file after
\* every crash but one that follows a failed save or interrupts one.
THEOREM ToldEventsAreKept == SessionSpec => []ToldIsKept
<1>1. SessionInv => ToldIsKept
  <2> SUFFICES ASSUME SessionInv, NEW c \in Client, Sent[c].type = "EVENT", store[c] # <<>>,
                      ~cut, ~dirty, pc # "write"
               PROVE  parse_client_event(Sent[c]) \in Elems(read(file))
    BY DEF ToldIsKept
  <2>1. Phase(c) /\ Durable BY DEF SessionInv, DurableInv
  <2>2. PICK r \in AnswersTo(c) : store[c] = <<r>>
    BY <2>1 DEF Phase, Unconnected, Asking, Answering, Told
  <2>3. parse_client_event(Sent[c]) \in acked BY <2>2 DEF AnswersTo
  <2> QED BY <2>1, <2>3 DEF Durable
<1> QED BY <1>1, SessionAlways, PTL

\* A client that ends with nothing stored never reached the relay, or lost it.
THEOREM SilenceMeansFailure == SessionSpec => []SilenceIsFailure
<1>1. SessionInv => SilenceIsFailure
  <2> SUFFICES ASSUME SessionInv, NEW c \in Client, cl[c] = "done", store[c] = <<>>
               PROVE  link[c] \in {"none", "cut"}
    BY DEF SilenceIsFailure
  <2>1. Phase(c) BY DEF SessionInv
  <2>2. \A r : <<r>> # <<>> OBVIOUS
  <2> QED BY <2>1, <2>2 DEF Phase, Unconnected, Asking, Answering, Told
<1> QED BY <1>1, SessionAlways, PTL
=============================================================================
