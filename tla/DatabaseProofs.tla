--------------------------- MODULE DatabaseProofs ---------------------------
(* Lemmas about the conversions of Nostr, the file of Database, vectors of   *)
(* events and what Relay finds in them, for the proofs about the programs.   *)
EXTENDS Relay, SequenceTheorems, WellFoundedInduction, TLAPS

----------------------------------------------------------------------------
(* Conversions *)

\* The constructor of event_t makes an event.
LEMMA DefaultEventType == DefaultEvent \in Event
<1>1. <<>> \in Seq(Seq(Text)) OBVIOUS
<1>2. Now \in Int BY NowAssumption
<1>3. \A t \in Text, tags \in Seq(Seq(Text)) :
        [id |-> t, pubkey |-> t, created_at |-> Now, kind |-> 1,
         tags |-> tags, content |-> t, sig |-> t] \in Event
  BY <1>2 DEF Event
<1> QED BY <1>1, <1>3, TextAssumption DEF DefaultEvent

\* from_json leaves an event behind, however far it gets.
LEMMA EventFromJsonType ==
  ASSUME NEW j, IsEventObject(j), NEW s \in Event
  PROVE  EventFromJson(j, s) \in Event
<1>1. /\ ReadsEvent(j, 1) => "id" \in DOMAIN j
      /\ ReadsEvent(j, 2) => "pubkey" \in DOMAIN j
      /\ ReadsEvent(j, 3) => "created_at" \in DOMAIN j
      /\ ReadsEvent(j, 4) => "kind" \in DOMAIN j
      /\ ReadsEvent(j, 5) => "tags" \in DOMAIN j
      /\ ReadsEvent(j, 6) => "content" \in DOMAIN j
      /\ ReadsEvent(j, 7) => "sig" \in DOMAIN j
  BY DEF ReadsEvent, EventFields
<1> QED BY <1>1 DEF EventFromJson, IsEventObject, Event

\* to_json writes all that from_json reads: an event survives the round trip.
LEMMA EventRoundTrip ==
  ASSUME NEW e \in Event
  PROVE  /\ IsEventObject(EventToJson(e))
         /\ EventReadable(EventToJson(e))
         /\ EventFromJson(EventToJson(e), DefaultEvent) = e
<1> DEFINE j == EventToJson(e)
<1>1. DOMAIN j = {"id", "pubkey", "created_at", "kind", "tags", "content", "sig"}
  BY DEF EventToJson
<1>2. \A k \in 1..7 : ReadsEvent(j, k)
  BY <1>1 DEF ReadsEvent, EventFields
<1>3. EventReadable(j) BY <1>2 DEF EventReadable
<1>4. EventFromJson(j, DefaultEvent) = e
  BY <1>2 DEF EventFromJson, EventToJson, Event
<1>5. IsEventObject(j)
  BY DEF EventToJson, IsEventObject, Event
<1> QED BY <1>3, <1>4, <1>5

----------------------------------------------------------------------------
(* The file *)

\* A read of any file is a vector of events.
LEMMA ReadType ==
  ASSUME NEW f, IsFile(f)
  PROVE  read(f) \in Seq(Event)
<1>1. \A i \in 1..Len(f.objs) : EventFromJson(f.objs[i], DefaultEvent) \in Event
  BY DefaultEventType, EventFromJsonType DEF IsFile
<1> DEFINE s == [i \in 1..Len(f.objs) |-> EventFromJson(f.objs[i], DefaultEvent)]
<1>2. s \in Seq(Event)
  BY <1>1 DEF IsFile
<1>3. <<>> \in Seq(Event) OBVIOUS
<1> HIDE DEF s
<1>4. read(f) = s \/ read(f) = <<>> BY DEF read, s
<1> QED BY <1>2, <1>3, <1>4

\* A file that was cut short reads as empty.
LEMMA ReadNoJson == IsFile(NoJson) /\ read(NoJson) = <<>>
BY DEF NoJson, read, IsFile

\* A file written whole reads back as what was written.
LEMMA ReadDump ==
  ASSUME NEW s \in Seq(Event)
  PROVE  IsFile(dump(s)) /\ read(dump(s)) = s
<1> DEFINE o == [i \in 1..Len(s) |-> EventToJson(s[i])]
<1>1. Len(s) \in Nat /\ DOMAIN s = 1..Len(s) /\ \A i \in 1..Len(s) : s[i] \in Event
  OBVIOUS
<1>2. Len(o) = Len(s) BY <1>1
<1>3. \A i \in 1..Len(s) : o[i] = EventToJson(s[i]) OBVIOUS
<1>4. dump(s).json = TRUE /\ dump(s).objs = o BY DEF dump
<1> HIDE DEF o
<1>5. \A i \in 1..Len(s) : /\ IsEventObject(o[i])
                           /\ EventReadable(o[i])
                           /\ EventFromJson(o[i], DefaultEvent) = s[i]
  BY <1>1, <1>3, EventRoundTrip
<1>6. IsFile(dump(s))
  BY <1>1, <1>2, <1>4, <1>5 DEF IsFile
<1>7. read(dump(s)) = [i \in 1..Len(s) |-> EventFromJson(o[i], DefaultEvent)]
  BY <1>2, <1>4, <1>5 DEF read
<1>8. [i \in 1..Len(s) |-> EventFromJson(o[i], DefaultEvent)] = s
  BY <1>1, <1>5
<1> QED BY <1>6, <1>7, <1>8

----------------------------------------------------------------------------
(* Vectors of events *)

\* Concatenation joins the elements.
LEMMA ElemsConcat ==
  ASSUME NEW s \in Seq(Event), NEW t \in Seq(Event)
  PROVE  Elems(s \o t) = Elems(s) \cup Elems(t)
<1> DEFINE u == s \o t
<1>1. /\ u \in Seq(Event) /\ Len(u) = Len(s) + Len(t)
      /\ Len(s) \in Nat /\ Len(t) \in Nat
      /\ DOMAIN s = 1..Len(s) /\ DOMAIN t = 1..Len(t) /\ DOMAIN u = 1..Len(u)
  OBVIOUS
<1>2. \A i \in 1..Len(s) : u[i] = s[i] OBVIOUS
<1>3. \A i \in 1..Len(t) : u[Len(s) + i] = t[i] OBVIOUS
<1> HIDE DEF u
<1>4. ASSUME NEW i \in 1..Len(u) PROVE u[i] \in Elems(s) \cup Elems(t)
  <2>1. CASE i <= Len(s) BY <2>1, <1>1, <1>2 DEF Elems
  <2>2. CASE i > Len(s)
    <3>1. i - Len(s) \in 1..Len(t) /\ Len(s) + (i - Len(s)) = i BY <2>2, <1>1
    <3>2. u[i] = t[i - Len(s)] BY <3>1, <1>3
    <3> QED BY <3>1, <3>2, <1>1 DEF Elems
  <2> QED BY <2>1, <2>2, <1>1
<1>5. ASSUME NEW i \in 1..Len(s) PROVE s[i] \in Elems(u)
  BY <1>1, <1>2 DEF Elems
<1>6. ASSUME NEW i \in 1..Len(t) PROVE t[i] \in Elems(u)
  <2>1. Len(s) + i \in 1..Len(u) BY <1>1
  <2> QED BY <2>1, <1>1, <1>3 DEF Elems
<1>7. Elems(u) = Elems(s) \cup Elems(t)
  BY <1>1, <1>4, <1>5, <1>6 DEF Elems
<1> QED BY <1>7 DEF u

\* push_back adds one element.
LEMMA ElemsAppend ==
  ASSUME NEW s \in Seq(Event), NEW e \in Event
  PROVE  /\ Append(s, e) \in Seq(Event)
         /\ Len(Append(s, e)) = Len(s) + 1
         /\ Append(s, e)[Len(s) + 1] = e
         /\ SubSeq(Append(s, e), 1, Len(s)) = s
         /\ Elems(Append(s, e)) = Elems(s) \cup {e}
<1>1. Append(s, e) = s \o <<e>> /\ <<e>> \in Seq(Event) OBVIOUS
<1>2. Elems(<<e>>) = {e} BY DEF Elems
<1>3. Elems(Append(s, e)) = Elems(s) \cup {e} BY <1>1, <1>2, ElemsConcat
<1> QED BY <1>3

\* The elements of a vector of events are events.
LEMMA ElemsType ==
  ASSUME NEW s \in Seq(Event)
  PROVE  Elems(s) \subseteq Event
BY DEF Elems

----------------------------------------------------------------------------
(* What a REQ finds *)

\* A set of positions with a member has a least one.
LEMMA MinPosition ==
  ASSUME NEW S \in SUBSET Nat, S # {}
  PROVE  Min(S) \in S /\ \A y \in S : Min(S) <= y
<1> DEFINE R == OpToRel(<, Nat)
<1>1. PICK x \in S : \A y \in S : ~(<<y, x>> \in R)
  BY NatLessThanWellFounded, WFMin
<1>2. \A a, b \in Nat : a < b => <<a, b>> \in R
  BY DEF OpToRel
<1> HIDE DEF R
<1>3. ASSUME NEW y \in S PROVE x <= y
  <2>1. x \in Nat /\ y \in Nat OBVIOUS
  <2>2. ~(y < x) BY <2>1, <1>1, <1>2
  <2> QED BY <2>1, <2>2
<1> QED BY <1>3 DEF Min

\* FirstMatch is the first matching event, if there is one.
LEMMA FirstMatchMeaning ==
  ASSUME NEW s \in Seq(Event), NEW A, NEW i \in 1..Len(s),
         s[i].pubkey \in A, \A k \in 1..Len(s) : k < i => s[k].pubkey \notin A
  PROVE  FirstMatch(s, A) = <<s[i]>>
<1> DEFINE S == request(s, A)
<1>1. S \subseteq 1..Len(s) /\ i \in S /\ (\A k \in S : i <= k) /\ S \subseteq Nat
  BY DEF request
<1>2. Min(S) \in S /\ \A y \in S : Min(S) <= y
  BY <1>1, MinPosition
<1>3. Min(S) = i BY <1>1, <1>2
<1> QED BY <1>1, <1>3 DEF FirstMatch

\* FirstMatch is empty when nothing matches, and else has a first position.
LEMMA FirstMatchCases ==
  ASSUME NEW s \in Seq(Event), NEW A
  PROVE  \/ FirstMatch(s, A) = <<>> /\ \A i \in 1..Len(s) : s[i].pubkey \notin A
         \/ \E i \in 1..Len(s) : /\ s[i].pubkey \in A
                                 /\ \A k \in 1..Len(s) : k < i => s[k].pubkey \notin A
                                 /\ FirstMatch(s, A) = <<s[i]>>
                                 /\ FirstMatch(s, A) # <<>>
<1> DEFINE S == request(s, A)
<1>1. S \subseteq 1..Len(s) /\ S \subseteq Nat BY DEF request
<1>2. CASE S = {} BY <1>2 DEF request, FirstMatch
<1>3. CASE S # {}
  <2>1. Min(S) \in S /\ \A y \in S : Min(S) <= y BY <1>1, <1>3, MinPosition
  <2>2. Min(S) \in 1..Len(s) /\ s[Min(S)].pubkey \in A BY <2>1 DEF request
  <2>3. ASSUME NEW k \in 1..Len(s), k < Min(S) PROVE s[k].pubkey \notin A
    <3>1. k \notin S BY <2>1, <2>2, <2>3
    <3> QED BY <3>1 DEF request
  <2>4. FirstMatch(s, A) = <<s[Min(S)]>> BY <1>3 DEF FirstMatch
  <2>5. \A x : <<x>> # <<>> OBVIOUS
  <2> QED BY <2>2, <2>3, <2>4, <2>5
<1> QED BY <1>2, <1>3

\* The answer from a concatenation is that from its left part, if any.
LEMMA FirstMatchConcat ==
  ASSUME NEW s \in Seq(Event), NEW t \in Seq(Event), NEW A
  PROVE  FirstMatch(s \o t, A) =
           IF FirstMatch(s, A) = <<>> THEN FirstMatch(t, A) ELSE FirstMatch(s, A)
<1> DEFINE u == s \o t
<1>1. /\ u \in Seq(Event) /\ Len(u) = Len(s) + Len(t)
      /\ Len(s) \in Nat /\ Len(t) \in Nat
      /\ \A i \in 1..Len(s) : i \in 1..Len(u) /\ u[i] = s[i]
      /\ \A i \in 1..Len(t) : Len(s) + i \in 1..Len(u) /\ u[Len(s) + i] = t[i]
  OBVIOUS
<1>2. \A k \in 1..Len(u) : k > Len(s) => k - Len(s) \in 1..Len(t) /\ u[k] = t[k - Len(s)]
  <2> SUFFICES ASSUME NEW k \in 1..Len(u), k > Len(s)
               PROVE  k - Len(s) \in 1..Len(t) /\ u[k] = t[k - Len(s)]
    OBVIOUS
  <2>1. k - Len(s) \in 1..Len(t) /\ Len(s) + (k - Len(s)) = k BY <1>1
  <2> QED BY <2>1, <1>1
<1> HIDE DEF u
<1>3. CASE FirstMatch(s, A) # <<>>
  <2>1. PICK i \in 1..Len(s) : /\ s[i].pubkey \in A
                               /\ \A k \in 1..Len(s) : k < i => s[k].pubkey \notin A
                               /\ FirstMatch(s, A) = <<s[i]>>
    BY <1>3, FirstMatchCases
  <2>2. \A k \in 1..Len(u) : k < i => u[k].pubkey \notin A BY <1>1, <2>1
  <2>3. FirstMatch(u, A) = <<u[i]>> BY <1>1, <2>1, <2>2, FirstMatchMeaning
  <2> QED BY <1>1, <1>3, <2>1, <2>3 DEF u
<1>4. CASE FirstMatch(s, A) = <<>>
  <2>1. \A i \in 1..Len(s) : s[i].pubkey \notin A BY <1>4, FirstMatchCases
  <2>2. CASE FirstMatch(t, A) = <<>>
    <3>1. \A i \in 1..Len(t) : t[i].pubkey \notin A BY <2>2, FirstMatchCases
    <3>2. \A k \in 1..Len(u) : u[k].pubkey \notin A
      <4> SUFFICES ASSUME NEW k \in 1..Len(u) PROVE u[k].pubkey \notin A OBVIOUS
      <4>1. CASE k <= Len(s) BY <4>1, <1>1, <2>1
      <4>2. CASE k > Len(s) BY <4>2, <1>2, <3>1
      <4> QED BY <4>1, <4>2, <1>1
    <3>3. FirstMatch(u, A) = <<>> BY <3>2, <1>1, FirstMatchCases
    <3> QED BY <3>3, <1>4, <2>2 DEF u
  <2>3. CASE FirstMatch(t, A) # <<>>
    <3>1. PICK i \in 1..Len(t) : /\ t[i].pubkey \in A
                                 /\ \A k \in 1..Len(t) : k < i => t[k].pubkey \notin A
                                 /\ FirstMatch(t, A) = <<t[i]>>
      BY <2>3, FirstMatchCases
    <3>2. ASSUME NEW k \in 1..Len(u), k < Len(s) + i PROVE u[k].pubkey \notin A
      <4>1. CASE k <= Len(s) BY <4>1, <1>1, <2>1
      <4>2. CASE k > Len(s)
        <5>1. k - Len(s) < i BY <3>2, <1>1
        <5> QED BY <4>2, <5>1, <1>2, <3>1
      <4> QED BY <4>1, <4>2, <1>1
    <3>3. Len(s) + i \in 1..Len(u) /\ u[Len(s) + i] = t[i] BY <1>1
    <3>4. FirstMatch(u, A) = <<u[Len(s) + i]>>
      BY <3>1, <3>2, <3>3, <1>1, FirstMatchMeaning
    <3> QED BY <3>1, <3>3, <3>4, <1>4 DEF u
  <2> QED BY <2>2, <2>3
<1> QED BY <1>3, <1>4
=============================================================================
