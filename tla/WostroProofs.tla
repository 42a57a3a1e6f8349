---------------------------- MODULE WostroProofs ----------------------------
(* Proofs about the pages of the web client: for any number of sessions and  *)
(* keys, what a page asks for is its own as far as Wostro says.              *)
EXTENDS Wostro, FiniteSetTheorems, TLAPS

Keys == Key \cup {DefKey, Torn, ""}

\* The fields that Wostro's type invariant leaves open: what an area shows is
\* nothing or a message, and only EVENT messages were in the buffers.
Shape ==
  /\ DOMAIN area = Session
  /\ \A m \in freed : m.type = "EVENT"

\* A race is between assignments that still go on.
RaceIsOn == race \subseteq Assigning

\* A session that is calm and alone with the global has its own key there, or
\* is about to put it there undisturbed.
CalmIsOwn ==
  \A s \in Session : calm[s] /\ page[s] # "none" =>
    /\ pc[s] = "idle" /\ Assigning = {} => pubkey = edit_pubkey[s]
    /\ pc[s] = "edit" => val[s] = edit_pubkey[s]
    /\ pc[s] \in {"home", "edit"} /\ Assigning = {s} => s \notin race

\* The fields of a home page that is complete hold what its user knows.
FieldsAreKnown ==
  \A s \in Session : page[s] = "home" /\ pc[s] \in {"idle", "edit"} => edit_pubkey[s] \in known[s]

AuthorsAreKnown ==
  \A s \in Session : edit_author[s] \in known[s] \cup {""}

\* The inductive invariant.
WostroInv ==
  /\ WostroTypeOK /\ Shape /\ RaceIsOn /\ CalmIsOwn
  /\ FieldsAreKnown /\ AuthorsAreKnown
  /\ FeedIsOwn /\ RequestsAreOwn

----------------------------------------------------------------------------
(* The parts of the type invariant *)

TypedFields ==
  /\ pubkey \in Keys /\ race \subseteq Session
  /\ page \in [Session -> {"none", "home", "feed", "follows"}]
  /\ pc \in [Session -> {"idle", "home", "edit", "show"}]
  /\ val \in [Session -> Key \cup {DefKey, None}]
  /\ edit_pubkey \in [Session -> Keys] /\ edit_author \in [Session -> Keys]
  /\ known \in [Session -> SUBSET Keys] /\ calm \in [Session -> BOOLEAN]

ValIsAssigned == \A s \in Session : val[s] # None <=> s \in Assigning

OneAuthor ==
  \A s \in Session : area[s] # None /\ area[s].type = "REQ" => Cardinality(area[s].authors) <= 1

LEMMA TypeParts == WostroTypeOK <=> TypedFields /\ ValIsAssigned /\ OneAuthor
BY DEF WostroTypeOK, TypedFields, ValIsAssigned, OneAuthor, Keys

\* The authors of a REQ are one key or none.
LEMMA OneAuthorAtMost ==
  ASSUME NEW s, NEW kind \in {1, 3}
  PROVE  Cardinality(Authors(s, kind)) <= 1
<1>1. Cardinality({edit_pubkey[s]}) = 1 /\ Cardinality({edit_author[s]}) = 1
  BY FS_Singleton
<1>2. Cardinality({}) = 0 BY FS_EmptySet
<1>3. {edit_author[s]} \ {""} = {} \/ {edit_author[s]} \ {""} = {edit_author[s]} OBVIOUS
<1>4. Authors(s, kind) \in {{}, {edit_pubkey[s]}, {edit_author[s]}} BY <1>3 DEF Authors
<1> QED BY <1>1, <1>2, <1>4

----------------------------------------------------------------------------
(* Steps *)

LEMMA InitStep == Init => WostroInv
<1> SUFFICES ASSUME Init PROVE WostroInv OBVIOUS
<1>1. Assigning = {} BY DEF Init, Assigning
<1>2. TypedFields BY DEF Init, TypedFields, Keys
<1>3. ValIsAssigned /\ OneAuthor BY <1>1 DEF Init, ValIsAssigned, OneAuthor
<1>4. Shape /\ RaceIsOn /\ FeedIsOwn BY DEF Init, Shape, RaceIsOn, FeedIsOwn
<1>5. CalmIsOwn /\ FieldsAreKnown BY DEF Init, CalmIsOwn, FieldsAreKnown
<1>6. AuthorsAreKnown /\ RequestsAreOwn BY DEF Init, AuthorsAreKnown, RequestsAreOwn
<1> QED BY <1>2, <1>3, <1>4, <1>5, <1>6, TypeParts DEF WostroInv

\* The assignment of k begins: s is among those who assign, and alone if nobody
\* else was.
LEMMA BeginAssignStep ==
  ASSUME WostroInv, NEW s \in Session, NEW k \in Key \cup {DefKey}, NEW where \in {"home", "edit"},
         pc[s] = "idle", BeginAssign(s, k, where), UNCHANGED pubkey
  PROVE  /\ Assigning' = Assigning \cup {s} /\ s \notin Assigning
         /\ pc' = [pc EXCEPT ![s] = where] /\ val' = [val EXCEPT ![s] = k]
         /\ pc' \in [Session -> {"idle", "home", "edit", "show"}]
         /\ val' \in [Session -> Key \cup {DefKey, None}]
         /\ race' \subseteq Session /\ calm' \in [Session -> BOOLEAN]
         /\ ValIsAssigned' /\ RaceIsOn'
         /\ Assigning' = {s} => s \notin race'
         /\ calm'[s] /\ \A q \in Session \ {s} : ~calm'[q]
<1>1. TypedFields /\ ValIsAssigned /\ RaceIsOn BY TypeParts DEF WostroInv
<1>2. /\ pc' = [pc EXCEPT ![s] = where] /\ val' = [val EXCEPT ![s] = k]
      /\ calm' = [q \in Session |-> q = s]
      /\ race' = IF Assigning = {} THEN race ELSE race \cup {s} \cup Assigning
  BY DEF BeginAssign
<1>3. s \notin Assigning BY DEF Assigning
<1>4. /\ pc' \in [Session -> {"idle", "home", "edit", "show"}]
      /\ val' \in [Session -> Key \cup {DefKey, None}]
      /\ pc'[s] = where /\ val'[s] = k
      /\ \A q \in Session \ {s} : pc'[q] = pc[q] /\ val'[q] = val[q]
  BY <1>1, <1>2 DEF TypedFields
<1>5. Assigning' = Assigning \cup {s} BY <1>4 DEF Assigning
<1>6. ValIsAssigned' BY <1>1, <1>4, <1>5, WostroAssumption DEF ValIsAssigned
<1>7. race' \subseteq Session /\ race' \subseteq Assigning'
  BY <1>1, <1>2, <1>5 DEF TypedFields, RaceIsOn, Assigning
<1>8. Assigning' = {s} => s \notin race'
  <2>1. SUFFICES ASSUME Assigning' = {s} PROVE s \notin race' OBVIOUS
  <2>2. Assigning = {} BY <2>1, <1>3, <1>5
  <2> QED BY <2>2, <1>1, <1>2 DEF RaceIsOn
<1>9. calm' \in [Session -> BOOLEAN] /\ calm'[s] /\ \A q \in Session \ {s} : ~calm'[q]
  BY <1>2
<1> QED BY <1>2, <1>3, <1>4, <1>5, <1>6, <1>7, <1>8, <1>9 DEF RaceIsOn

LEMMA ContainerHomeStep ==
  ASSUME WostroInv, NEW s \in Session, ContainerHome(s)
  PROVE  WostroInv'
<1>1. /\ TypedFields /\ ValIsAssigned /\ OneAuthor /\ Shape /\ RaceIsOn /\ CalmIsOwn
      /\ FieldsAreKnown /\ AuthorsAreKnown /\ FeedIsOwn /\ RequestsAreOwn
  BY TypeParts DEF WostroInv
<1>2. /\ pc[s] = "idle" /\ BeginAssign(s, DefKey, "home")
      /\ page' = [page EXCEPT ![s] = "home"]
      /\ edit_author' = [edit_author EXCEPT ![s] = ""]
      /\ area' = [area EXCEPT ![s] = None]
      /\ UNCHANGED <<pubkey, edit_pubkey, freed, known, strange>>
  BY DEF ContainerHome
<1>3. /\ Assigning' = Assigning \cup {s}
      /\ pc' = [pc EXCEPT ![s] = "home"]
      /\ pc' \in [Session -> {"idle", "home", "edit", "show"}]
      /\ val' \in [Session -> Key \cup {DefKey, None}]
      /\ race' \subseteq Session /\ calm' \in [Session -> BOOLEAN]
      /\ ValIsAssigned' /\ RaceIsOn'
      /\ Assigning' = {s} => s \notin race'
      /\ calm'[s] /\ \A q \in Session \ {s} : ~calm'[q]
  BY <1>2, BeginAssignStep
<1>4. TypedFields'
  <2>1. "" \in Keys BY DEF Keys
  <2>2. edit_author' \in [Session -> Keys] BY <2>1, <1>1, <1>2 DEF TypedFields
  <2>3. page' \in [Session -> {"none", "home", "feed", "follows"}] BY <1>1, <1>2 DEF TypedFields
  <2> QED BY <2>2, <2>3, <1>1, <1>2, <1>3 DEF TypedFields
<1>5. /\ pc'[s] = "home" /\ page'[s] = "home" /\ edit_author'[s] = "" /\ area'[s] = None
      /\ \A q \in Session \ {s} : /\ pc'[q] = pc[q] /\ page'[q] = page[q]
                                  /\ edit_author'[q] = edit_author[q] /\ area'[q] = area[q]
  BY <1>1, <1>2, <1>3 DEF TypedFields, Shape
<1>6. OneAuthor' /\ RequestsAreOwn'
  <2>1. ASSUME NEW q \in Session, area'[q] # None PROVE area'[q] = area[q] BY <2>1, <1>5
  <2>2. OneAuthor' BY <1>1, <2>1 DEF OneAuthor
  <2>3. RequestsAreOwn' BY <1>1, <1>2, <2>1 DEF RequestsAreOwn
  <2> QED BY <2>2, <2>3
<1>7. Shape' BY <1>1, <1>2 DEF Shape
<1>8. CalmIsOwn' BY <1>3, <1>5 DEF CalmIsOwn
<1>9. FieldsAreKnown' BY <1>1, <1>2, <1>5 DEF FieldsAreKnown
<1>10. AuthorsAreKnown' BY <1>1, <1>2, <1>5 DEF AuthorsAreKnown
<1>11. FeedIsOwn' BY <1>1, <1>2 DEF FeedIsOwn
<1> QED BY <1>3, <1>4, <1>6, <1>7, <1>8, <1>9, <1>10, <1>11, TypeParts, PTL DEF WostroInv

LEMMA EditPubkeyStep ==
  ASSUME WostroInv, NEW s \in Session, NEW k \in Key, EditPubkey(s, k)
  PROVE  WostroInv'
<1>1. /\ TypedFields /\ ValIsAssigned /\ OneAuthor /\ Shape /\ RaceIsOn /\ CalmIsOwn
      /\ FieldsAreKnown /\ AuthorsAreKnown /\ FeedIsOwn /\ RequestsAreOwn
  BY TypeParts DEF WostroInv
<1>2. /\ page[s] = "home" /\ pc[s] = "idle" /\ BeginAssign(s, k, "edit")
      /\ edit_pubkey' = [edit_pubkey EXCEPT ![s] = k]
      /\ known' = [known EXCEPT ![s] = @ \cup {k}]
      /\ UNCHANGED <<pubkey, page, edit_author, area, freed, strange>>
  BY DEF EditPubkey, OnHome
<1>3. /\ Assigning' = Assigning \cup {s}
      /\ pc' = [pc EXCEPT ![s] = "edit"] /\ val' = [val EXCEPT ![s] = k]
      /\ pc' \in [Session -> {"idle", "home", "edit", "show"}]
      /\ val' \in [Session -> Key \cup {DefKey, None}]
      /\ race' \subseteq Session /\ calm' \in [Session -> BOOLEAN]
      /\ ValIsAssigned' /\ RaceIsOn'
      /\ Assigning' = {s} => s \notin race'
      /\ calm'[s] /\ \A q \in Session \ {s} : ~calm'[q]
  BY <1>2, BeginAssignStep
<1>4. TypedFields'
  <2>1. k \in Keys BY DEF Keys
  <2>2. edit_pubkey' \in [Session -> Keys] /\ known' \in [Session -> SUBSET Keys]
    BY <2>1, <1>1, <1>2 DEF TypedFields
  <2> QED BY <2>2, <1>1, <1>2, <1>3 DEF TypedFields
<1>5. /\ pc'[s] = "edit" /\ val'[s] = k /\ edit_pubkey'[s] = k /\ known'[s] = known[s] \cup {k}
      /\ \A q \in Session \ {s} : /\ pc'[q] = pc[q] /\ edit_pubkey'[q] = edit_pubkey[q]
                                  /\ known'[q] = known[q]
  BY <1>1, <1>2, <1>3 DEF TypedFields
<1>6. OneAuthor' /\ RequestsAreOwn' BY <1>1, <1>2, <1>5 DEF OneAuthor, RequestsAreOwn
<1>7. Shape' BY <1>1, <1>2 DEF Shape
<1>8. CalmIsOwn' BY <1>3, <1>5 DEF CalmIsOwn
<1>9. FieldsAreKnown' BY <1>1, <1>2, <1>5 DEF FieldsAreKnown
<1>10. AuthorsAreKnown' BY <1>1, <1>2, <1>5 DEF AuthorsAreKnown
<1>11. FeedIsOwn' BY <1>1, <1>2 DEF FeedIsOwn
<1> QED BY <1>3, <1>4, <1>6, <1>7, <1>8, <1>9, <1>10, <1>11, TypeParts, PTL DEF WostroInv

\* An assignment ends: nobody else is calm, and s only finds its own key if
\* nobody raced it.
LEMMA EndAssignStep ==
  ASSUME WostroInv, NEW s \in Session, EndAssign(s)
  PROVE  WostroInv'
<1>1. /\ TypedFields /\ ValIsAssigned /\ OneAuthor /\ Shape /\ RaceIsOn /\ CalmIsOwn
      /\ FieldsAreKnown /\ AuthorsAreKnown /\ FeedIsOwn /\ RequestsAreOwn
  BY TypeParts DEF WostroInv
<1>2. /\ pc[s] \in {"home", "edit"}
      /\ pubkey' \in {val[s]} \cup (IF s \in race THEN {Torn} ELSE {})
      /\ race' = race \ {s}
      /\ pc' = [pc EXCEPT ![s] = IF @ = "home" THEN "show" ELSE "idle"]
      /\ val' = [val EXCEPT ![s] = None]
      /\ calm' = [q \in Session |-> q = s /\ calm[q]]
      /\ UNCHANGED <<page, home, freed, known, strange>>
  BY DEF EndAssign
<1>3. UNCHANGED <<edit_pubkey, edit_author, area>> BY <1>2 DEF home
<1>4. s \in Assigning /\ val[s] # None BY <1>1, <1>2 DEF ValIsAssigned, Assigning
<1>5. val[s] \in Key \cup {DefKey} BY <1>1, <1>4 DEF TypedFields
<1>6. TypedFields'
  <2>1. pubkey' \in Keys BY <1>2, <1>5 DEF Keys
  <2>2. calm' \in [Session -> BOOLEAN] BY <1>1, <1>2 DEF TypedFields
  <2>3. pc' \in [Session -> {"idle", "home", "edit", "show"}] BY <1>1, <1>2 DEF TypedFields
  <2>4. val' \in [Session -> Key \cup {DefKey, None}] BY <1>1, <1>2 DEF TypedFields
  <2> QED BY <2>1, <2>2, <2>3, <2>4, <1>1, <1>2, <1>3 DEF TypedFields
<1>7. /\ pc'[s] = (IF pc[s] = "home" THEN "show" ELSE "idle") /\ val'[s] = None
      /\ \A q \in Session \ {s} : /\ pc'[q] = pc[q] /\ val'[q] = val[q] /\ ~calm'[q]
      /\ calm'[s] => calm[s]
  BY <1>1, <1>2 DEF TypedFields
<1>8. Assigning' = Assigning \ {s} BY <1>2, <1>7 DEF Assigning
<1>9. ValIsAssigned' /\ RaceIsOn' BY <1>1, <1>2, <1>7, <1>8 DEF ValIsAssigned, RaceIsOn
<1>10. CalmIsOwn'
  <2>1. SUFFICES ASSUME calm'[s], page[s] # "none", pc'[s] = "idle", Assigning' = {}
                 PROVE  pubkey' = edit_pubkey[s]
    BY <1>2, <1>3, <1>7 DEF CalmIsOwn
  <2>2. Assigning = {s} BY <2>1, <1>4, <1>8
  <2>3. pc[s] = "edit" BY <2>1, <1>2, <1>7
  <2>4. s \notin race /\ val[s] = edit_pubkey[s] BY <2>1, <2>2, <2>3, <1>1, <1>7 DEF CalmIsOwn
  <2> QED BY <2>4, <1>2
<1>11. OneAuthor' /\ RequestsAreOwn' BY <1>1, <1>2, <1>3 DEF OneAuthor, RequestsAreOwn
<1>12. Shape' BY <1>1, <1>2, <1>3 DEF Shape
<1>13. FieldsAreKnown' BY <1>1, <1>2, <1>3, <1>7 DEF FieldsAreKnown
<1>14. AuthorsAreKnown' BY <1>1, <1>2, <1>3 DEF AuthorsAreKnown
<1>15. FeedIsOwn' BY <1>1, <1>2 DEF FeedIsOwn
<1> QED BY <1>6, <1>9, <1>10, <1>11, <1>12, <1>13, <1>14, <1>15, TypeParts, PTL DEF WostroInv

\* Whatever a thread reads is a key, and it is the global if it is alone.
LEMMA ReadsType ==
  ASSUME WostroInv, NEW s \in Session
  PROVE  /\ Reads(s) \subseteq Keys
         /\ Assigning \ {s} = {} => Reads(s) = {pubkey}
<1>1. TypedFields /\ ValIsAssigned BY TypeParts DEF WostroInv
<1>2. \A q \in Assigning : val[q] \in Keys
  BY <1>1 DEF TypedFields, ValIsAssigned, Assigning, Keys
<1>3. pubkey \in Keys /\ Torn \in Keys BY <1>1 DEF TypedFields, Keys
<1> QED BY <1>2, <1>3 DEF Reads

LEMMA SetTextStep ==
  ASSUME WostroInv, NEW s \in Session, SetText(s)
  PROVE  WostroInv'
<1>1. /\ TypedFields /\ ValIsAssigned /\ OneAuthor /\ Shape /\ RaceIsOn /\ CalmIsOwn
      /\ FieldsAreKnown /\ AuthorsAreKnown /\ FeedIsOwn /\ RequestsAreOwn
  BY TypeParts DEF WostroInv
<1>2. PICK k \in Reads(s) : /\ edit_pubkey' = [edit_pubkey EXCEPT ![s] = k]
                            /\ known' = [known EXCEPT ![s] = @ \cup {k}]
  BY DEF SetText
<1>3. /\ pc[s] = "show" /\ pc' = [pc EXCEPT ![s] = "idle"]
      /\ UNCHANGED <<pubkey, page, val, race, edit_author, area, freed, calm, strange>>
  BY DEF SetText
<1>4. k \in Keys /\ (Assigning \ {s} = {} => k = pubkey) BY ReadsType
<1>5. TypedFields' BY <1>1, <1>2, <1>3, <1>4 DEF TypedFields
<1>6. /\ pc'[s] = "idle" /\ edit_pubkey'[s] = k /\ known'[s] = known[s] \cup {k}
      /\ \A q \in Session \ {s} : /\ pc'[q] = pc[q] /\ edit_pubkey'[q] = edit_pubkey[q]
                                  /\ known'[q] = known[q]
  BY <1>1, <1>2, <1>3 DEF TypedFields
<1>7. Assigning' = Assigning /\ s \notin Assigning BY <1>3, <1>6 DEF Assigning
<1>8. ValIsAssigned' /\ RaceIsOn' BY <1>1, <1>3, <1>7 DEF ValIsAssigned, RaceIsOn
<1>9. CalmIsOwn' BY <1>1, <1>3, <1>4, <1>6, <1>7 DEF CalmIsOwn
<1>10. OneAuthor' /\ RequestsAreOwn' BY <1>1, <1>3, <1>6 DEF OneAuthor, RequestsAreOwn
<1>11. Shape' BY <1>1, <1>3 DEF Shape
<1>12. FieldsAreKnown' BY <1>1, <1>3, <1>6 DEF FieldsAreKnown
<1>13. AuthorsAreKnown' BY <1>1, <1>3, <1>6 DEF AuthorsAreKnown
<1>14. FeedIsOwn' BY <1>1, <1>3 DEF FeedIsOwn
<1> QED BY <1>5, <1>8, <1>9, <1>10, <1>11, <1>12, <1>13, <1>14, TypeParts, PTL DEF WostroInv

\* Only a session that is disturbed is led astray by what it reads.
LEMMA AskForStep ==
  ASSUME WostroInv, NEW s \in Session, page[s] # "none", pc[s] = "idle", AskFor(s)
  PROVE  FeedIsOwn'
<1>1. CalmIsOwn /\ FeedIsOwn BY DEF WostroInv
<1>2. PICK k \in Reads(s) :
        strange' = strange \cup {q \in {s} : calm[q] /\ Assigning = {} /\ k # edit_pubkey[q]}
  BY DEF AskFor
<1>3. ASSUME calm[s], Assigning = {} PROVE k = edit_pubkey[s]
  <2>1. Reads(s) = {pubkey} BY <1>3, ReadsType
  <2> QED BY <2>1, <1>1, <1>3 DEF CalmIsOwn
<1> QED BY <1>1, <1>2, <1>3 DEF FeedIsOwn

\* A session that has a page goes to another one, or stays.
LEMMA PageStep ==
  ASSUME WostroInv, NEW s \in Session, page[s] # "none", NEW p \in {"feed", "follows"},
         page' = [page EXCEPT ![s] = p], FeedIsOwn',
         UNCHANGED <<pubkey, pc, val, race, home, freed, known, calm>>
  PROVE  WostroInv'
<1>1. /\ TypedFields /\ ValIsAssigned /\ OneAuthor /\ Shape /\ RaceIsOn /\ CalmIsOwn
      /\ FieldsAreKnown /\ AuthorsAreKnown /\ RequestsAreOwn
  BY TypeParts DEF WostroInv
<1>2. UNCHANGED <<edit_pubkey, edit_author, area>> BY DEF home
<1>3. TypedFields' BY <1>1, <1>2 DEF TypedFields
<1>4. page'[s] = p /\ \A q \in Session \ {s} : page'[q] = page[q] BY <1>1 DEF TypedFields
<1>5. Assigning' = Assigning BY DEF Assigning
<1>6. ValIsAssigned' /\ RaceIsOn' BY <1>1, <1>5 DEF ValIsAssigned, RaceIsOn
<1>7. CalmIsOwn' BY <1>1, <1>2, <1>4, <1>5 DEF CalmIsOwn
<1>8. OneAuthor' /\ RequestsAreOwn' /\ Shape' BY <1>1, <1>2 DEF OneAuthor, RequestsAreOwn, Shape
<1>9. FieldsAreKnown' BY <1>1, <1>2, <1>4 DEF FieldsAreKnown
<1>10. AuthorsAreKnown' BY <1>1, <1>2 DEF AuthorsAreKnown
<1> QED BY <1>3, <1>6, <1>7, <1>8, <1>9, <1>10, TypeParts, PTL DEF WostroInv

LEMMA MenuStep ==
  ASSUME WostroInv, NEW s \in Session, ContainerFeed(s) \/ get_feed(s) \/ get_follows(s)
  PROVE  WostroInv'
<1>1. TypedFields /\ FeedIsOwn BY TypeParts DEF WostroInv
<1>2. CASE ContainerFeed(s)
  <2>1. FeedIsOwn' BY <1>1, <1>2 DEF ContainerFeed, FeedIsOwn
  <2> QED BY <2>1, <1>2, PageStep DEF ContainerFeed
<1>3. CASE get_feed(s)
  <2>1. page[s] # "none" /\ FeedIsOwn' BY <1>3, AskForStep DEF get_feed
  <2>2. page' = [page EXCEPT ![s] = "feed"] BY <1>1, <1>3 DEF get_feed, TypedFields
  <2> QED BY <2>1, <2>2, <1>3, PageStep DEF get_feed
<1>4. CASE get_follows(s)
  <2>1. FeedIsOwn' BY <1>4, AskForStep DEF get_follows
  <2> QED BY <2>1, <1>4, PageStep DEF get_follows
<1> QED BY <1>2, <1>3, <1>4

\* What a step on the home page that leaves the keys alone has to show.
LEMMA HomeStep ==
  ASSUME WostroInv, UNCHANGED <<pubkey, page, pc, val, race, edit_pubkey, calm, strange>>,
         edit_author' \in [Session -> Keys], known' \in [Session -> SUBSET Keys],
         \A q \in Session : known[q] \subseteq known'[q],
         AuthorsAreKnown', OneAuthor', RequestsAreOwn', Shape'
  PROVE  WostroInv'
<1>1. /\ TypedFields /\ ValIsAssigned /\ RaceIsOn /\ CalmIsOwn /\ FieldsAreKnown /\ FeedIsOwn
  BY TypeParts DEF WostroInv
<1>2. TypedFields' BY <1>1 DEF TypedFields
<1>3. Assigning' = Assigning BY DEF Assigning
<1>4. ValIsAssigned' /\ RaceIsOn' BY <1>1, <1>3 DEF ValIsAssigned, RaceIsOn
<1>5. CalmIsOwn' BY <1>1, <1>3 DEF CalmIsOwn
<1>6. FieldsAreKnown' BY <1>1 DEF FieldsAreKnown
<1>7. FeedIsOwn' BY <1>1 DEF FeedIsOwn
<1> QED BY <1>2, <1>4, <1>5, <1>6, <1>7, TypeParts, PTL DEF WostroInv

LEMMA EditAuthorStep ==
  ASSUME WostroInv, NEW s \in Session, NEW k \in Key \cup {edit_pubkey[s]}, EditAuthor(s, k)
  PROVE  WostroInv'
<1>1. TypedFields /\ OneAuthor /\ Shape /\ AuthorsAreKnown /\ RequestsAreOwn
  BY TypeParts DEF WostroInv
<1>2. /\ edit_author' = [edit_author EXCEPT ![s] = k]
      /\ known' = [known EXCEPT ![s] = @ \cup {k}]
      /\ UNCHANGED <<pubkey, page, pc, val, race, edit_pubkey, area, freed, calm, strange>>
  BY DEF EditAuthor
<1>3. k \in Keys BY <1>1 DEF TypedFields, Keys
<1>4. /\ edit_author' \in [Session -> Keys] /\ known' \in [Session -> SUBSET Keys]
      /\ edit_author'[s] = k /\ known'[s] = known[s] \cup {k}
      /\ \A q \in Session \ {s} : edit_author'[q] = edit_author[q] /\ known'[q] = known[q]
  BY <1>1, <1>2, <1>3 DEF TypedFields
<1>5. AuthorsAreKnown' BY <1>1, <1>4 DEF AuthorsAreKnown
<1>6. OneAuthor' /\ RequestsAreOwn' BY <1>1, <1>2, <1>4 DEF OneAuthor, RequestsAreOwn
<1>7. Shape' BY <1>1, <1>2 DEF Shape
<1> QED BY <1>2, <1>4, <1>5, <1>6, <1>7, HomeStep

\* A message m appears in the area: it is an EVENT, what the area showed, or a
\* REQ for one key at most that the user knows.
LEMMA AreaStep ==
  ASSUME WostroInv, NEW s \in Session, NEW m, area' = [area EXCEPT ![s] = m],
         UNCHANGED <<pubkey, page, pc, val, race, edit_pubkey, edit_author, known, calm, strange>>,
         \A e \in freed' : e.type = "EVENT",
         m # None /\ m.type = "REQ" => Cardinality(m.authors) <= 1 /\ m.authors \subseteq known[s]
  PROVE  WostroInv'
<1>1. TypedFields /\ OneAuthor /\ Shape /\ AuthorsAreKnown /\ RequestsAreOwn
  BY TypeParts DEF WostroInv
<1>2. area'[s] = m /\ \A q \in Session \ {s} : area'[q] = area[q] BY <1>1 DEF Shape
<1>3. Shape' BY <1>1 DEF Shape
<1>4. OneAuthor' BY <1>1, <1>2 DEF OneAuthor
<1>5. RequestsAreOwn' BY <1>1, <1>2 DEF RequestsAreOwn
<1>6. AuthorsAreKnown' BY <1>1 DEF AuthorsAreKnown
<1>7. edit_author' \in [Session -> Keys] /\ known' \in [Session -> SUBSET Keys]
  BY <1>1 DEF TypedFields
<1> QED BY <1>3, <1>4, <1>5, <1>6, <1>7, HomeStep

LEMMA MakeRequestStep ==
  ASSUME WostroInv, NEW s \in Session, NEW kind \in {1, 3}, MakeRequest(s, kind)
  PROVE  WostroInv'
<1> DEFINE m == [type |-> "REQ", kind |-> kind, authors |-> Authors(s, kind)]
<1>1. FieldsAreKnown /\ AuthorsAreKnown /\ Shape BY DEF WostroInv
<1>2. /\ page[s] = "home" /\ pc[s] = "idle" /\ area' = [area EXCEPT ![s] = m]
      /\ UNCHANGED <<pubkey, page, pc, val, race, edit_pubkey, edit_author, freed, known, calm,
                     strange>>
  BY DEF MakeRequest, OnHome
<1>3. Authors(s, kind) \subseteq known[s]
  BY <1>1, <1>2 DEF Authors, FieldsAreKnown, AuthorsAreKnown
<1>4. m.authors = Authors(s, kind) OBVIOUS
<1>5. \A e \in freed' : e.type = "EVENT" BY <1>1, <1>2 DEF Shape
<1> HIDE DEF m
<1> QED BY <1>2, <1>3, <1>4, <1>5, OneAuthorAtMost, AreaStep

LEMMA MakeEventStep ==
  ASSUME WostroInv, NEW s \in Session, MakeEvent(s) \/ MakeEventFails(s)
  PROVE  WostroInv'
<1>1. Shape /\ OneAuthor /\ RequestsAreOwn BY TypeParts DEF WostroInv
<1>2. CASE MakeEvent(s)
  <2> DEFINE event == [type |-> "EVENT", by |-> s]
  <2>1. /\ area' = [area EXCEPT ![s] = event] /\ freed' = freed \cup {event}
        /\ UNCHANGED <<pubkey, page, pc, val, race, edit_pubkey, edit_author, known, calm, strange>>
    BY <1>2 DEF MakeEvent
  <2>2. event.type = "EVENT" OBVIOUS
  <2> HIDE DEF event
  <2>3. \A e \in freed' : e.type = "EVENT" BY <1>1, <2>1, <2>2 DEF Shape
  <2> QED BY <2>1, <2>2, <2>3, AreaStep
<1>3. CASE MakeEventFails(s)
  <2>1. PICK m \in freed \cup {area[s]} : area' = [area EXCEPT ![s] = m]
    BY <1>3 DEF MakeEventFails
  <2>2. UNCHANGED <<pubkey, page, pc, val, race, edit_pubkey, edit_author, freed, known, calm,
                    strange>>
    BY <1>3 DEF MakeEventFails
  <2>3. \A e \in freed' : e.type = "EVENT" BY <1>1, <2>2 DEF Shape
  <2>4. m # None /\ m.type = "REQ" => Cardinality(m.authors) <= 1 /\ m.authors \subseteq known[s]
    BY <1>1 DEF Shape, OneAuthor, RequestsAreOwn
  <2> QED BY <2>1, <2>2, <2>3, <2>4, AreaStep
<1> QED BY <1>2, <1>3

LEMMA NextStep == WostroInv /\ [Next]_vars => WostroInv'
<1> SUFFICES ASSUME WostroInv, [Next]_vars PROVE WostroInv' OBVIOUS
<1>1. CASE Next
  <2>1. PICK s \in Session :
          \/ EndAssign(s) \/ ContainerHome(s) \/ SetText(s)
          \/ ContainerFeed(s) \/ get_feed(s) \/ get_follows(s)
          \/ \E k \in Key : EditPubkey(s, k)
          \/ \E k \in Key \cup {edit_pubkey[s]} : EditAuthor(s, k)
          \/ \E kind \in {1, 3} : MakeRequest(s, kind)
          \/ MakeEvent(s) \/ MakeEventFails(s)
    BY <1>1 DEF Next
  <2>2. CASE EndAssign(s) BY <2>2, EndAssignStep
  <2>3. CASE ContainerHome(s) BY <2>3, ContainerHomeStep
  <2>4. CASE SetText(s) BY <2>4, SetTextStep
  <2>5. CASE ContainerFeed(s) \/ get_feed(s) \/ get_follows(s) BY <2>5, MenuStep
  <2>6. CASE \E k \in Key : EditPubkey(s, k) BY <2>6, EditPubkeyStep
  <2>7. CASE \E k \in Key \cup {edit_pubkey[s]} : EditAuthor(s, k) BY <2>7, EditAuthorStep
  <2>8. CASE \E kind \in {1, 3} : MakeRequest(s, kind) BY <2>8, MakeRequestStep
  <2>9. CASE MakeEvent(s) \/ MakeEventFails(s) BY <2>9, MakeEventStep
  <2> QED BY <2>1, <2>2, <2>3, <2>4, <2>5, <2>6, <2>7, <2>8, <2>9
<1>2. CASE UNCHANGED vars
  <2>1. /\ TypedFields /\ OneAuthor /\ Shape /\ AuthorsAreKnown /\ RequestsAreOwn
    BY TypeParts DEF WostroInv
  <2>2. UNCHANGED <<pubkey, page, pc, val, race, edit_pubkey, edit_author, area, freed, known,
                    calm, strange>>
    BY <1>2 DEF vars, home
  <2>3. AuthorsAreKnown' /\ OneAuthor' /\ RequestsAreOwn' /\ Shape'
    BY <2>1, <2>2 DEF AuthorsAreKnown, OneAuthor, RequestsAreOwn, Shape
  <2>4. edit_author' \in [Session -> Keys] /\ known' \in [Session -> SUBSET Keys]
    BY <2>1, <2>2 DEF TypedFields
  <2> QED BY <2>2, <2>3, <2>4, HomeStep
<1> QED BY <1>1, <1>2

LEMMA WostroInvariance == Spec => []WostroInv
BY InitStep, NextStep, PTL DEF Spec

----------------------------------------------------------------------------
(* Theorems *)

\* The pages of the web client keep their types whatever the sessions do, a
\* racing assignment to the shared key included (web.cc:12, home.cc:23-71).
THEOREM WostroTypeCorrect == Spec => []WostroTypeOK
BY WostroInvariance, PTL DEF WostroInv

\* For any number of sessions that share the unprotected global pubkey
\* (web.cc:12): the feed and the follows a page asks for (feed.cc:56,
\* follows.cc:59) are those of the key its home page showed last, unless
\* another session has assigned to the global since.
THEOREM FeedsAreOwn == Spec => []FeedIsOwn
BY WostroInvariance, PTL DEF WostroInv

\* For any number of sessions: the authors in the REQ that a home page shows
\* (home.cc:336-360) are keys its own user typed or saw there, also when the
\* area is filled from a freed buffer after nostril failed.
THEOREM ShownRequestsAreOwn == Spec => []RequestsAreOwn
BY WostroInvariance, PTL DEF WostroInv
=============================================================================
