----------------------------- MODULE FeedProofs -----------------------------
(* Proofs about the queries of Feed: for any published events and any        *)
(* contact list, what the pages and the test make of the answers.            *)
EXTENDS Feed, DatabaseProofs, FiniteSetTheorems

----------------------------------------------------------------------------
(* Picked and AtMost *)

Increasing(f, n) == \A i, j \in 1..n : i < j => f[i] < f[j]

\* The positions of a sequence can be put in increasing order.
LEMMA PositionsHaveOrder ==
  ASSUME NEW n \in Nat, NEW I \in SUBSET (1..n)
  PROVE  /\ IsFiniteSet(I) /\ Cardinality(I) \in Nat
         /\ \E f \in [1..Cardinality(I) -> I] : Increasing(f, Cardinality(I))
<1> DEFINE Ordered(J) == \E f \in [1..Cardinality(J) -> J] : Increasing(f, Cardinality(J))
           Unordered == {k \in Nat : \E J \in SUBSET (1..k) : ~Ordered(J)}
<1>1. ASSUME NEW k \in Nat, NEW J \in SUBSET (1..k)
      PROVE  IsFiniteSet(J) /\ Cardinality(J) \in Nat
  <2>1. 1 \in Int /\ k \in Int OBVIOUS
  <2>2. IsFiniteSet(1..k) BY <2>1, FS_Interval
  <2>3. IsFiniteSet(J) BY <2>2, FS_Subset
  <2> QED BY <2>3, FS_CardinalityType
<1>2. ASSUME NEW k \in Nat, k \in Unordered, k - 1 \notin Unordered PROVE FALSE
  <2>1. PICK J \in SUBSET (1..k) : ~Ordered(J) BY <1>2
  <2>2. CASE k = 0
    <3> J = {} BY <2>2
    <3>1. J = {} /\ Cardinality(J) = 0 BY FS_EmptySet
    <3>2. [i \in 1..0 |-> 0] \in [1..Cardinality(J) -> J] BY <3>1
    <3>3. Increasing([i \in 1..0 |-> 0], Cardinality(J)) BY <3>1 DEF Increasing
    <3> QED BY <2>1, <3>2, <3>3
  <2>3. CASE k > 0
    <3> DEFINE H == J \ {k}
               c == Cardinality(H)
    <3>1. k - 1 \in Nat /\ H \in SUBSET (1..(k - 1)) BY <2>3
    <3>2. IsFiniteSet(H) /\ c \in Nat BY <3>1, <1>1
    <3>3. Ordered(H) BY <3>1, <1>2
    <3>4. k \in J
      <4>1. k \notin J => H = J OBVIOUS
      <4> QED BY <4>1, <3>3, <2>1
    <3>5. Cardinality(J) = c + 1
      <4>1. H \cup {k} = J /\ k \notin H BY <3>4
      <4> QED BY <4>1, <3>2, FS_AddElement
    <3>6. PICK f \in [1..c -> H] : Increasing(f, c) BY <3>3
    <3> DEFINE g == [i \in 1..(c + 1) |-> IF i = c + 1 THEN k ELSE f[i]]
    <3> HIDE DEF c
    <3>7. g \in [1..(c + 1) -> J]
      <4>1. \A i \in 1..(c + 1) : i # c + 1 => f[i] \in H BY <3>2, <3>6
      <4> QED BY <4>1, <3>4
    <3>8. \A i \in 1..c : f[i] \in Nat /\ f[i] < k
      <4>1. \A h \in 1..(k - 1) : h \in Nat /\ h < k OBVIOUS
      <4>2. \A i \in 1..c : f[i] \in H BY <3>6
      <4> HIDE DEF H
      <4> QED BY <4>1, <4>2, <3>1
    <3>9. ASSUME NEW i \in 1..(c + 1), NEW j \in 1..(c + 1), i < j PROVE g[i] < g[j]
      <4>1. i \in 1..c /\ i # c + 1 BY <3>9, <3>2
      <4>2. g[i] = f[i] BY <4>1
      <4>3. CASE j = c + 1 BY <4>1, <4>2, <4>3, <3>8
      <4>4. CASE j # c + 1
        <5>1. j \in 1..c /\ g[j] = f[j] BY <4>4, <3>2
        <5> QED BY <5>1, <4>1, <4>2, <3>6, <3>9 DEF Increasing
      <4> QED BY <4>3, <4>4
    <3>10. Increasing(g, c + 1) BY <3>9 DEF Increasing
    <3> QED BY <3>5, <3>7, <3>10, <2>1
  <2> QED BY <2>2, <2>3
<1>3. Unordered = {}
  <2>1. SUFFICES ASSUME Unordered # {} PROVE FALSE OBVIOUS
  <2> DEFINE k == Min(Unordered)
  <2>2. k \in Unordered /\ \A y \in Unordered : k <= y
    <3>1. Unordered \in SUBSET Nat OBVIOUS
    <3> HIDE DEF Unordered
    <3> QED BY <3>1, <2>1, MinPosition
  <2>3. k \in Nat BY <2>2
  <2> HIDE DEF k, Unordered
  <2>4. k - 1 \notin Unordered BY <2>2, <2>3
  <2> QED BY <2>2, <2>3, <2>4, <1>2
<1>4. Ordered(I) BY <1>3
<1> QED BY <1>1, <1>4

\* Picked picks what is at the given positions, and something if there are any.
LEMMA PickedMeaning ==
  ASSUME NEW S, NEW s \in Seq(S), NEW I \in SUBSET (DOMAIN s)
  PROVE  /\ Picked(s, I) \in Seq({s[i] : i \in I})
         /\ Picked(s, I) = <<>> <=> I = {}
<1> DEFINE n == Cardinality(I)
           at == CHOOSE f \in [1..n -> I] : Increasing(f, n)
<1>1. Len(s) \in Nat /\ I \in SUBSET (1..Len(s)) OBVIOUS
<1>2. IsFiniteSet(I) /\ n \in Nat /\ at \in [1..n -> I] BY <1>1, PositionsHaveOrder
<1>3. Picked(s, I) = [k \in 1..n |-> s[at[k]]] BY DEF Picked, Increasing
<1>4. n = 0 <=> I = {} BY <1>2, FS_EmptySet
<1> HIDE DEF n, at
<1>5. \A k \in 1..n : s[at[k]] \in {s[i] : i \in I} BY <1>2
<1>6. Picked(s, I) \in Seq({s[i] : i \in I}) BY <1>2, <1>3, <1>5
<1>7. Len(Picked(s, I)) = n BY <1>2, <1>3
<1>8. Picked(s, I) = <<>> <=> Len(Picked(s, I)) = 0 BY <1>6
<1> QED BY <1>4, <1>6, <1>7, <1>8

\* AtMost keeps a front part, with the first element if it may keep any.
LEMMA AtMostMeaning ==
  ASSUME NEW S, NEW s \in Seq(S), NEW n \in Nat \ {0}
  PROVE  /\ AtMost(s, n) \in Seq(S) /\ Len(AtMost(s, n)) <= n
         /\ AtMost(s, n) = <<>> <=> s = <<>>
         /\ s # <<>> => AtMost(s, n)[1] = s[1]
<1> DEFINE k == Min({n, Len(s)})
<1>1. Len(s) \in Nat OBVIOUS
<1>2. k \in {n, Len(s)} /\ k <= n /\ k <= Len(s)
  <2>1. {n, Len(s)} \in SUBSET Nat /\ {n, Len(s)} # {} BY <1>1
  <2> QED BY <2>1, MinPosition
<1>3. AtMost(s, n) = SubSeq(s, 1, k) BY DEF AtMost
<1> HIDE DEF k
<1>4. k \in Nat /\ k <= n /\ k <= Len(s) /\ (k = 0 <=> Len(s) = 0) BY <1>1, <1>2
<1>5. SubSeq(s, 1, k) \in Seq(S) /\ Len(SubSeq(s, 1, k)) = k BY <1>1, <1>4
<1>6. s = <<>> <=> Len(s) = 0 OBVIOUS
<1>7. SubSeq(s, 1, k) = <<>> <=> k = 0
  <2> DEFINE t == SubSeq(s, 1, k)
  <2> HIDE DEF t
  <2>1. t \in Seq(S) /\ Len(t) = k BY <1>5 DEF t
  <2>2. t = <<>> <=> Len(t) = 0 BY <2>1
  <2> QED BY <2>1, <2>2 DEF t
<1>8. k > 0 => SubSeq(s, 1, k)[1] = s[1] BY <1>1, <1>4
<1> QED BY <1>3, <1>4, <1>5, <1>6, <1>7, <1>8

----------------------------------------------------------------------------
(* Requests *)

\* The relay reads from a query's request what the query put into it.
LEMMA AskMeaning ==
  ASSUME NEW key \in Text, NEW kind \in {0, 1, 3}, NEW limit \in {1, 2}
  PROVE  LET r == parse_request(Ask(key, kind, limit))
         IN  /\ r.id = "uuid" /\ r.filter.limit = limit
             /\ r.filter.authors = <<key>> /\ r.filter.kinds = <<kind>>
<1> DEFINE q == [DefaultFilter EXCEPT !.authors = <<key>>, !.kinds = <<kind>>, !.limit = limit]
           j == FilterToJson(q)
<1>1. /\ q.authors = <<key>> /\ q.kinds = <<kind>> /\ q.limit = limit
      /\ q.ids = <<>> /\ q.e = <<>> /\ q.p = <<>>
  BY DEF DefaultFilter
<1>2. <<key>> # <<>> OBVIOUS
<1> HIDE DEF q
<1>3. DOMAIN j = {"kinds", "limit", "authors"} BY <1>1, <1>2 DEF FilterToJson
<1>4. j.kinds = <<kind>> /\ j.limit = limit /\ j.authors = <<key>>
  BY <1>1, <1>2 DEF FilterToJson
<1>5. <<key>> \in Seq(Text) /\ <<kind>> \in Seq(Int) /\ limit \in Int OBVIOUS
<1>6. \A f \in DOMAIN j : j[f] # Bad BY <1>3, <1>4, <1>5, FeedAssumption
<1>7. Ask(key, kind, limit) = [type |-> "REQ", id |-> "uuid", filter |-> j]
  BY DEF Ask, make_request, q
<1> HIDE DEF j
<1>8. \A k \in 1..8 : ~FilterThrows(j, k) BY <1>6 DEF FilterThrows
<1> DEFINE r == FilterFromJson(j, DefaultFilter)
<1>9. \A f \in DOMAIN j \cap DOMAIN DefaultFilter :
        (\E k \in 1..8 : FilterFields[k] = f) => r[f] = j[f]
  BY <1>8 DEF FilterFromJson, FilterFields
<1>10. /\ FilterFields[2] = "authors" /\ FilterFields[3] = "kinds" /\ FilterFields[8] = "limit"
       /\ {"authors", "kinds", "limit"} \subseteq DOMAIN DefaultFilter
  BY DEF FilterFields, DefaultFilter
<1>11. r.authors = <<key>> /\ r.kinds = <<kind>> /\ r.limit = limit
  BY <1>3, <1>4, <1>9, <1>10
<1>12. Bad # "uuid" BY FeedAssumption
<1> QED BY <1>7, <1>11, <1>12 DEF parse_request

----------------------------------------------------------------------------
(* Answers *)

\* The events that may answer a query, and the messages that may be stored.
Wanted(key, kind) == {ev \in Event : ev.pubkey = key /\ (vostro \/ ev.kind = kind)}

Messages(key, kind) ==
  {Notice, Eose("uuid")} \cup {EventResponse("uuid", ev) : ev \in Wanted(key, kind)}

Had(key, kind) == \E i \in DOMAIN events : events[i].pubkey = key /\ events[i].kind = kind

LEMMA ElemsOne ==
  ASSUME NEW x
  PROVE  Elems(<<x>>) = {x}
<1>1. DOMAIN <<x>> = {1} /\ <<x>>[1] = x OBVIOUS
<1> QED BY <1>1 DEF Elems

LEMMA ReverseMeaning ==
  ASSUME NEW S, NEW s \in Seq(S)
  PROVE  Reverse(s) \in Seq(S) /\ (Reverse(s) = <<>> <=> s = <<>>)
<1> DEFINE t == Reverse(s)
<1>1. Len(s) \in Nat /\ \A i \in 1..Len(s) : (Len(s) - i) + 1 \in 1..Len(s) OBVIOUS
<1>2. t \in Seq(S) /\ Len(t) = Len(s) BY <1>1 DEF Reverse
<1> HIDE DEF t
<1>3. t = <<>> <=> Len(t) = 0 BY <1>2
<1>4. s = <<>> <=> Len(s) = 0 OBVIOUS
<1> QED BY <1>2, <1>3, <1>4 DEF t

\* A relay that follows NIP-01 finds nothing but what was asked for, and
\* something if there is any.
LEMMA MatchingMeaning ==
  ASSUME events \in Seq(Event), NEW key \in Text, NEW kind \in {0, 1, 3}, NEW limit \in {1, 2}
  PROVE  /\ Matching(Ask(key, kind, limit)) \in Seq({ev \in Event : ev.pubkey = key /\ ev.kind = kind})
         /\ Matching(Ask(key, kind, limit)) = <<>> <=> ~Had(key, kind)
<1> DEFINE r == parse_request(Ask(key, kind, limit))
           I == {i \in DOMAIN events : events[i].pubkey = key /\ events[i].kind = kind}
           E == {ev \in Event : ev.pubkey = key /\ ev.kind = kind}
           s == Picked(events, I)
<1>1. r.filter.limit = limit /\ r.filter.authors = <<key>> /\ r.filter.kinds = <<kind>>
  BY AskMeaning
<1>2. Elems(<<key>>) = {key} /\ Elems(<<kind>>) = {kind} BY ElemsOne
<1>3. Matching(Ask(key, kind, limit)) = AtMost(Reverse(s), limit)
  <2> HIDE DEF r
  <2>1. {i \in DOMAIN events : /\ events[i].pubkey \in Elems(r.filter.authors)
                               /\ events[i].kind \in Elems(r.filter.kinds)} = I
    BY <1>1, <1>2
  <2> HIDE DEF I
  <2> QED BY <2>1, <1>1 DEF Matching, r
<1>4. {events[i] : i \in I} \subseteq E OBVIOUS
<1>5. s \in Seq({events[i] : i \in I}) /\ (s = <<>> <=> I = {})
  <2>1. I \in SUBSET (DOMAIN events) OBVIOUS
  <2> HIDE DEF I
  <2> QED BY <2>1, PickedMeaning
<1>6. I = {} <=> ~Had(key, kind) BY DEF Had
<1> HIDE DEF I, E, s, r
<1>7. s \in Seq(E) BY <1>4, <1>5
<1>8. Reverse(s) \in Seq(E) /\ (Reverse(s) = <<>> <=> s = <<>>) BY <1>7, ReverseMeaning
<1>9. limit \in Nat \ {0} OBVIOUS
<1>10. AtMost(Reverse(s), limit) \in Seq(E) /\ (AtMost(Reverse(s), limit) = <<>> <=> Reverse(s) = <<>>)
  BY <1>8, <1>9, AtMostMeaning
<1> QED BY <1>3, <1>5, <1>6, <1>8, <1>10 DEF E

\* What it sends for that: the events, then the EOSE.
LEMMA Nip01Meaning ==
  ASSUME events \in Seq(Event), ~vostro,
         NEW key \in Text, NEW kind \in {0, 1, 3}, NEW limit \in {1, 2}
  PROVE  LET s == Nip01(Ask(key, kind, limit))
         IN  /\ s \in Seq(Messages(key, kind)) /\ s # <<>>
             /\ Had(key, kind) => s[1].type = "EVENT"
<1> DEFINE m == Ask(key, kind, limit)
           found == Matching(m)
           sent == [i \in DOMAIN found |-> EventResponse("uuid", found[i])]
           M == Messages(key, kind)
<1>1. found \in Seq(Wanted(key, kind)) /\ (found = <<>> <=> ~Had(key, kind))
  <2>1. {ev \in Event : ev.pubkey = key /\ ev.kind = kind} = Wanted(key, kind) BY DEF Wanted
  <2> QED BY <2>1, MatchingMeaning
<1>2. Nip01(m) = sent \o <<Eose("uuid")>> BY AskMeaning DEF Nip01
<1> HIDE DEF found
<1>3. sent \in Seq(M) /\ Len(sent) = Len(found)
  <2>1. \A i \in DOMAIN found : EventResponse("uuid", found[i]) \in M BY <1>1 DEF Messages
  <2>2. DOMAIN found = 1..Len(found) /\ Len(found) \in Nat BY <1>1
  <2> HIDE DEF M
  <2> QED BY <2>1, <2>2
<1>4. <<Eose("uuid")>> \in Seq(M) BY DEF Messages
<1>5. Had(key, kind) => Len(sent) \in Nat \ {0} /\ sent[1].type = "EVENT"
  <2>1. SUFFICES ASSUME Had(key, kind) PROVE Len(sent) \in Nat \ {0} /\ sent[1].type = "EVENT"
    OBVIOUS
  <2>2. Len(found) \in Nat \ {0} /\ 1 \in DOMAIN found BY <1>1, <2>1
  <2>3. sent[1] = EventResponse("uuid", found[1]) BY <2>2
  <2> QED BY <1>3, <2>2, <2>3 DEF EventResponse
<1> HIDE DEF sent, M
<1>6. Nip01(m) \in Seq(M) /\ Nip01(m) # <<>> BY <1>2, <1>3, <1>4
<1>7. Had(key, kind) => Nip01(m)[1] = sent[1] BY <1>2, <1>3, <1>4, <1>5
<1> QED BY <1>5, <1>6, <1>7 DEF M

LEMMA PrefixMeaning ==
  ASSUME NEW S, NEW s \in Seq(S), NEW t \in Prefixes(s)
  PROVE  t \in Seq(S) /\ (t # <<>> => t[1] = s[1])
<1>1. PICK n \in 0..Len(s) : t = SubSeq(s, 1, n) BY DEF Prefixes
<1>2. SubSeq(s, 1, n) \in Seq(S) /\ Len(SubSeq(s, 1, n)) = n OBVIOUS
<1>3. n > 0 => SubSeq(s, 1, n)[1] = s[1] OBVIOUS
<1>4. t \in Seq(S) /\ Len(t) = n BY <1>1, <1>2
<1>5. t # <<>> => Len(t) # 0 BY <1>4
<1> QED BY <1>1, <1>3, <1>4, <1>5

\* Whatever a client stored, it is not nothing, it is about the key asked for,
\* and it begins with an event if there was one and no NOTICE.
LEMMA StoresMeaning ==
  ASSUME events \in Seq(Event), vostro \in BOOLEAN,
         NEW key \in Text, NEW kind \in {0, 1, 3}, NEW limit \in {1, 2},
         NEW store \in Stores(Ask(key, kind, limit))
  PROVE  /\ store \in Seq(Messages(key, kind)) /\ store # <<>>
         /\ Had(key, kind) /\ store[1] # Notice => store[1].type = "EVENT"
<1> DEFINE m == Ask(key, kind, limit)
           M == Messages(key, kind)
<1>1. CASE vostro
  <2> DEFINE a == Answer(dump(events), m)
             first == FirstMatch(events, {key})
  <2>1. store = <<a>> BY <1>1 DEF Stores
  <2>2. read(dump(events)) = events BY ReadDump
  <2>3. a = IF first = <<>> THEN Eose("uuid") ELSE EventResponse("uuid", first[1])
    <3> DEFINE r == parse_request(m)
    <3>1. r.id = "uuid" /\ r.filter.authors = <<key>> BY AskMeaning
    <3>2. Elems(<<key>>) = {key} BY ElemsOne
    <3> HIDE DEF m, r
    <3> QED BY <2>2, <3>1, <3>2 DEF Answer, r
  <2>4. \/ first = <<>> /\ \A i \in 1..Len(events) : events[i].pubkey \notin {key}
        \/ \E i \in 1..Len(events) :
             events[i].pubkey \in {key} /\ first = <<events[i]>> /\ first # <<>>
    BY FirstMatchCases
  <2> HIDE DEF a, first
  <2>5. a \in M /\ (Had(key, kind) => a.type = "EVENT")
    <3>1. CASE first = <<>>
      <4>1. a = Eose("uuid") BY <2>3, <3>1
      <4>2. ~Had(key, kind) BY <2>4, <3>1 DEF Had
      <4> QED BY <4>1, <4>2 DEF Messages
    <3>2. CASE first # <<>>
      <4>1. PICK i \in 1..Len(events) : events[i].pubkey = key /\ first = <<events[i]>>
        BY <2>4, <3>2
      <4>2. a = EventResponse("uuid", events[i]) BY <2>3, <3>2, <4>1
      <4>3. events[i] \in Wanted(key, kind) BY <4>1, <1>1 DEF Wanted
      <4> QED BY <4>2, <4>3 DEF Messages, EventResponse
    <3> QED BY <3>1, <3>2
  <2> HIDE DEF M
  <2>6. <<a>> \in Seq(M) /\ <<a>> # <<>> /\ <<a>>[1] = a BY <2>5
  <2> QED BY <2>1, <2>5, <2>6 DEF M
<1>2. CASE ~vostro
  <2> DEFINE s == Nip01(m)
             n == <<Notice>> \o s
  <2>1. s \in Seq(M) /\ s # <<>> /\ (Had(key, kind) => s[1].type = "EVENT")
    BY <1>2, Nip01Meaning
  <2>2. (store \in Prefixes(s) \/ store \in Prefixes(n)) /\ store # <<>>
    <3>1. Stores(m) = (UNION {Prefixes(t) : t \in {s, n}}) \ {<<>>} BY <1>2 DEF Stores
    <3>2. store \in Stores(m) OBVIOUS
    <3> HIDE DEF s, n, m
    <3> DEFINE F == {Prefixes(t) : t \in {s, n}}
    <3>3. store # <<>> /\ store \in UNION F BY <3>1, <3>2
    <3>4. F = {Prefixes(s), Prefixes(n)} OBVIOUS
    <3> HIDE DEF F
    <3> QED BY <3>3, <3>4
  <2>3. Notice \in M BY DEF Messages
  <2> HIDE DEF s, M
  <2>4. n \in Seq(M) /\ n[1] = Notice BY <2>1, <2>3
  <2> HIDE DEF n
  <2>5. CASE store \in Prefixes(s)
    <3>1. store \in Seq(M) /\ store[1] = s[1] BY <2>1, <2>2, <2>5, PrefixMeaning
    <3> QED BY <2>1, <2>2, <3>1 DEF M
  <2>6. CASE store \in Prefixes(n)
    <3>1. store \in Seq(M) /\ store[1] = n[1] BY <2>2, <2>4, <2>6, PrefixMeaning
    <3> QED BY <2>2, <2>4, <3>1 DEF M
  <2> QED BY <2>2, <2>5, <2>6
<1> QED BY <1>1, <1>2

HasEvent(store) == \E i \in DOMAIN store : store[i].type = "EVENT"

\* The EVENT messages of a store, and its events, are some if it has one.
LEMMA EventsInMeaning ==
  ASSUME NEW key, NEW kind, NEW store \in Seq(Messages(key, kind))
  PROVE  /\ EventMessages(store) \in Seq(Messages(key, kind))
         /\ EventsIn(store) \in Seq(Wanted(key, kind))
         /\ EventMessages(store) = <<>> <=> ~HasEvent(store)
         /\ EventsIn(store) = <<>> <=> ~HasEvent(store)
         /\ \A i \in DOMAIN EventMessages(store) : EventMessages(store)[i].type = "EVENT"
<1> DEFINE M == Messages(key, kind)
           I == {i \in DOMAIN store : store[i].type = "EVENT"}
           s == EventMessages(store)
           R == {store[i] : i \in I}
<1>1. s \in Seq(R) /\ (s = <<>> <=> I = {})
  <2>1. I \in SUBSET (DOMAIN store) /\ s = Picked(store, I) BY DEF EventMessages
  <2> HIDE DEF I, s
  <2> QED BY <2>1, PickedMeaning
<1>2. \A x \in R : x \in M /\ x.type = "EVENT" OBVIOUS
<1>3. \A x \in M : x.type = "EVENT" => x.ev \in Wanted(key, kind)
  BY DEF Messages, Notice, Eose, EventResponse
<1>4. I = {} <=> ~HasEvent(store) BY DEF HasEvent
<1>5. EventsIn(store) = [i \in DOMAIN s |-> s[i].ev] BY DEF EventsIn
<1> HIDE DEF M, R, I, s
<1>6. s \in Seq(M) BY <1>1, <1>2
<1>7. Len(s) \in Nat /\ DOMAIN s = 1..Len(s) /\ \A i \in 1..Len(s) : s[i] \in R BY <1>1
<1>8. \A i \in 1..Len(s) : s[i].ev \in Wanted(key, kind) BY <1>2, <1>3, <1>7
<1>9. EventsIn(store) \in Seq(Wanted(key, kind)) /\ Len(EventsIn(store)) = Len(s)
  BY <1>5, <1>7, <1>8
<1>10. EventsIn(store) = <<>> <=> s = <<>>
  <2>1. EventsIn(store) = <<>> <=> Len(EventsIn(store)) = 0 BY <1>9
  <2>2. s = <<>> <=> Len(s) = 0 BY <1>1
  <2> QED BY <2>1, <2>2, <1>9
<1>11. \A i \in DOMAIN s : s[i].type = "EVENT" BY <1>2, <1>7
<1> QED BY <1>1, <1>4, <1>6, <1>9, <1>10, <1>11 DEF M, s

\* The rows for one key are of that key, and some if there is an EVENT.
LEMMA RowsOfMeaning ==
  ASSUME NEW key \in Text, NEW kind, NEW store \in Seq(Messages(key, kind))
  PROVE  /\ RowsOf(key, store) \in Seq({r \in [key: Text, ev: Event] : r.key = key /\ r.ev.pubkey = key})
         /\ RowsOf(key, store) = <<>> <=> ~HasEvent(store)
<1> DEFINE s == EventsIn(store)
           R == {r \in [key: Text, ev: Event] : r.key = key /\ r.ev.pubkey = key}
           t == RowsOf(key, store)
<1>1. s \in Seq(Wanted(key, kind)) /\ (s = <<>> <=> ~HasEvent(store)) BY EventsInMeaning
<1>2. t = [i \in DOMAIN s |-> [key |-> key, ev |-> s[i]]] BY DEF RowsOf
<1>3. \A ev \in Wanted(key, kind) : [key |-> key, ev |-> ev] \in R BY DEF Wanted
<1> HIDE DEF s, R, t
<1>4. Len(s) \in Nat /\ DOMAIN s = 1..Len(s) /\ \A i \in 1..Len(s) : s[i] \in Wanted(key, kind)
  BY <1>1
<1>5. t \in Seq(R) /\ Len(t) = Len(s) BY <1>2, <1>3, <1>4
<1>6. (t = <<>> <=> Len(t) = 0) /\ (s = <<>> <=> Len(s) = 0) BY <1>1, <1>5
<1> QED BY <1>1, <1>5, <1>6 DEF t, R

\* The contacts in an event are strings.
LEMMA ContactsType ==
  ASSUME NEW ev \in Event
  PROVE  Contacts(ev) \in Seq(Text)
<1> DEFINE tags == ev.tags
           I == {i \in DOMAIN tags : Len(tags[i]) > 1 /\ tags[i][1] = "p"}
           R == {tags[i] : i \in I}
           p == Picked(tags, I)
<1>1. tags \in Seq(Seq(Text)) BY DEF Event
<1>2. Contacts(ev) = [i \in DOMAIN p |-> p[i][2]] BY DEF Contacts
<1> HIDE DEF tags
<1>3. p \in Seq(R)
  <2>1. I \in SUBSET (DOMAIN tags) OBVIOUS
  <2> HIDE DEF I
  <2> QED BY <2>1, <1>1, PickedMeaning
<1>4. \A tag \in R : tag[2] \in Text
  <2>1. SUFFICES ASSUME NEW i \in I PROVE tags[i][2] \in Text OBVIOUS
  <2>2. tags[i] \in Seq(Text) /\ Len(tags[i]) > 1 BY <1>1
  <2> QED BY <2>2
<1> HIDE DEF R, I, p
<1>5. Len(p) \in Nat /\ DOMAIN p = 1..Len(p) /\ \A i \in 1..Len(p) : p[i] \in R BY <1>3
<1> QED BY <1>2, <1>4, <1>5

----------------------------------------------------------------------------
(* The invariant *)

AtStart == pc = "follows" => rows = <<>>

FeedInv ==
  /\ FeedTypeOK /\ AtStart
  /\ RowsAreByTheirKeys /\ ContactsAreShown /\ OnlyLossAborts /\ FollowsAreContacts

LEMMA InitStep == Init => FeedInv
<1> SUFFICES ASSUME Init PROVE FeedInv OBVIOUS
<1>1. FeedTypeOK
  <2>1. /\ events \in Seq(Event) /\ pubkeys \in Seq(Text) /\ source \in Seq(Event)
        /\ rows \in Seq([key: Text, ev: Event])
    BY DEF Init
  <2>2. Len(pubkeys) = 0 /\ Len(source) = 0 BY DEF Init
  <2>3. pos \in 1..(Len(pubkeys) + 1) /\ Len(source) <= 1 BY <2>2 DEF Init
  <2>4. /\ program \in {"feed", "follows", "test"} /\ vostro \in BOOLEAN /\ lost \in BOOLEAN
        /\ pc \in {"follows", "keys", "done", "aborted"} /\ missing \subseteq Text
    BY DEF Init
  <2> QED BY <2>1, <2>3, <2>4 DEF FeedTypeOK
<1>2. RowsAreByTheirKeys
  <2>1. DOMAIN <<>> = {} OBVIOUS
  <2> QED BY <2>1 DEF Init, RowsAreByTheirKeys
<1> QED BY <1>1, <1>2
        DEF Init, FeedInv, AtStart, ContactsAreShown, OnlyLossAborts, FollowsAreContacts

LEMMA GetFollowsStep ==
  ASSUME FeedInv, get_follows
  PROVE  FeedInv'
<1> DEFINE m == Ask(User, 3, 1)
<1>1. /\ FeedTypeOK /\ AtStart /\ ContactsAreShown /\ OnlyLossAborts BY DEF FeedInv
<1>2. PICK store \in Stores(m) \cup {<<>>} :
        /\ relay_to(m, store)
        /\ source' = AtMost(EventsIn(store), 1)
        /\ pubkeys' = IF EventsIn(store) = <<>> THEN <<>> ELSE Contacts(EventsIn(store)[1])
  BY DEF get_follows
<1>3. /\ pc = "follows" /\ pc' = "keys" /\ pos' = 1
      /\ UNCHANGED <<program, vostro, events, rows, missing>>
  BY DEF get_follows, run
<1>4. lost' \in BOOLEAN BY <1>1, <1>2 DEF relay_to, FeedTypeOK
<1> DEFINE evs == EventsIn(store)
           W == Wanted(User, 3)
<1>5. evs \in Seq(W)
  <2>1. User \in Text BY FeedAssumption
  <2>2. CASE store = <<>>
    <3>1. store \in Seq(Messages(User, 3)) BY <2>2
    <3> QED BY <3>1, EventsInMeaning
  <2>3. CASE store \in Stores(m)
    <3>1. store \in Seq(Messages(User, 3)) BY <2>1, <2>3, <1>1, StoresMeaning DEF FeedTypeOK
    <3> QED BY <3>1, EventsInMeaning
  <2> QED BY <1>2, <2>2, <2>3
<1>6. W \subseteq Event /\ \A ev \in W : vostro \/ ev.kind = 3 BY DEF Wanted
<1> HIDE DEF evs, W, m
<1>7. /\ source' \in Seq(W) /\ Len(source') <= 1
      /\ evs # <<>> => source'[1] = evs[1]
  BY <1>2, <1>5, AtMostMeaning DEF evs
<1>8. evs # <<>> => evs[1] \in W BY <1>5
<1>9. pubkeys' \in Seq(Text)
  <2>1. CASE evs = <<>> BY <2>1, <1>2 DEF evs
  <2>2. CASE evs # <<>>
    <3>1. pubkeys' = Contacts(evs[1]) BY <2>2, <1>2 DEF evs
    <3> QED BY <3>1, <2>2, <1>6, <1>8, ContactsType
  <2> QED BY <2>1, <2>2
<1>10. FeedTypeOK'
  <2>1. source' \in Seq(Event) BY <1>6, <1>7
  <2>2. 1 \in 1..(Len(pubkeys') + 1) BY <1>9
  <2> QED BY <2>1, <2>2, <1>1, <1>3, <1>4, <1>7, <1>9 DEF FeedTypeOK
<1>11. FollowsAreContacts'
  <2>1. SUFFICES ASSUME pubkeys' # <<>>, ~vostro PROVE source'[1].kind = 3
    BY <1>3 DEF FollowsAreContacts
  <2>2. evs # <<>> BY <2>1, <1>2 DEF evs
  <2> QED BY <2>1, <2>2, <1>6, <1>7, <1>8
<1>12. RowsAreByTheirKeys'
  <2>1. rows' = <<>> /\ DOMAIN <<>> = {} BY <1>1, <1>3 DEF AtStart
  <2> QED BY <2>1 DEF RowsAreByTheirKeys
<1> QED BY <1>1, <1>3, <1>10, <1>11, <1>12 DEF FeedInv, AtStart, ContactsAreShown, OnlyLossAborts

\* What is looked at of a store: messages for the key, of which one is an EVENT
\* if the store begins with one; nothing for the test only if nothing came.
LEMMA SeenMeaning ==
  ASSUME program \in {"feed", "follows", "test"}, NEW key, NEW kind,
         NEW store \in Seq(Messages(key, kind))
  PROVE  LET seen == IF program = "test" THEN AtMost(Returned(store), 1) ELSE Returned(store)
         IN  /\ seen \in Seq(Messages(key, kind))
             /\ store # <<>> /\ store[1].type = "EVENT" => HasEvent(seen)
<1> DEFINE M == Messages(key, kind)
<1> HIDE DEF M
<1>0. store \in Seq(M) BY DEF M
<1>1. CASE program = "feed"
  <2> DEFINE s == EventMessages(store)
  <2>1. /\ s \in Seq(M) /\ (s = <<>> <=> ~HasEvent(store))
        /\ \A i \in DOMAIN s : s[i].type = "EVENT"
    BY EventsInMeaning DEF M
  <2>2. store # <<>> => 1 \in DOMAIN store BY <1>0
  <2> HIDE DEF s
  <2>3. s # <<>> => 1 \in DOMAIN s BY <2>1
  <2>4. Returned(store) = s BY <1>1 DEF Returned, s
  <2>5. store # <<>> /\ store[1].type = "EVENT" => HasEvent(s) BY <2>1, <2>2, <2>3 DEF HasEvent
  <2> QED BY <1>1, <2>1, <2>4, <2>5 DEF M
<1>2. CASE program = "follows"
  <2>1. store # <<>> => 1 \in DOMAIN store BY <1>0
  <2> QED BY <2>1, <1>0, <1>2 DEF Returned, HasEvent, M
<1>3. CASE program = "test"
  <2> DEFINE s == AtMost(store, 1)
  <2>1. /\ s \in Seq(M) /\ (s = <<>> <=> store = <<>>)
        /\ store # <<>> => s[1] = store[1]
    BY <1>0, AtMostMeaning
  <2> HIDE DEF s
  <2>2. s # <<>> => 1 \in DOMAIN s BY <2>1
  <2>3. Returned(store) = store BY <1>3 DEF Returned
  <2> QED BY <1>3, <2>1, <2>2, <2>3 DEF HasEvent, M, s
<1> QED BY <1>1, <1>2, <1>3

LEMMA AskKeyStep ==
  ASSUME FeedInv, AskKey
  PROVE  FeedInv'
<1> DEFINE key == pubkeys[pos]
           m == Ask(key, Kind, Limit)
           M == Messages(key, Kind)
           Seen(store) == IF program = "test" THEN AtMost(Returned(store), 1) ELSE Returned(store)
<1>1. /\ FeedTypeOK /\ AtStart /\ RowsAreByTheirKeys /\ ContactsAreShown
      /\ OnlyLossAborts /\ FollowsAreContacts
  BY DEF FeedInv
<1>2. PICK store \in Stores(m) \cup {<<>>} :
        /\ relay_to(m, store)
        /\ rows' = rows \o RowsOf(key, Seen(store))
        /\ pc' = IF program = "test" /\ Returned(store) = <<>> THEN "aborted" ELSE pc
        /\ missing' = IF /\ \E i \in DOMAIN events : events[i].pubkey = key /\ events[i].kind = Kind
                         /\ RowsOf(key, Seen(store)) = <<>> /\ store # <<>> /\ store[1] # Notice
                        THEN missing \cup {key} ELSE missing
  BY DEF AskKey
<1>3. /\ pc = "keys" /\ pos <= Len(pubkeys) /\ pos' = pos + 1
      /\ UNCHANGED <<program, vostro, events, pubkeys, source>>
  BY DEF AskKey, run
<1>4. /\ key \in Text /\ pos \in DOMAIN pubkeys /\ pos' \in 1..(Len(pubkeys) + 1)
  BY <1>1, <1>3 DEF FeedTypeOK
<1>5. Kind \in {0, 1, 3} /\ Limit \in {1, 2} BY DEF Kind, Limit
<1>6. key \in Elems(pubkeys) BY <1>4 DEF Elems
<1>7. lost' \in BOOLEAN /\ (lost => lost') BY <1>1, <1>2 DEF relay_to, FeedTypeOK
<1>8. /\ store \in Seq(M)
      /\ store # <<>> /\ store[1] # Notice /\ Had(key, Kind) => store[1].type = "EVENT"
      /\ store = <<>> => lost'
  <2>1. events \in Seq(Event) /\ vostro \in BOOLEAN BY <1>1 DEF FeedTypeOK
  <2> HIDE DEF key
  <2>2. \A s \in Stores(m) : /\ s \in Seq(M) /\ s # <<>>
                             /\ Had(key, Kind) /\ s[1] # Notice => s[1].type = "EVENT"
    BY <2>1, <1>4, <1>5, StoresMeaning
  <2>3. <<>> \in Seq(M) OBVIOUS
  <2> HIDE DEF m, M
  <2> QED BY <2>2, <2>3, <1>2 DEF relay_to
<1> DEFINE seen == Seen(store)
           new == RowsOf(key, seen)
           G == {r \in [key: Text, ev: Event] : r.key = key /\ r.ev.pubkey = key}
<1>9. /\ seen \in Seq(M)
      /\ store # <<>> /\ store[1].type = "EVENT" => HasEvent(seen)
  BY <1>1, <1>8, SeenMeaning DEF FeedTypeOK
<1>10. new \in Seq(G) /\ (new = <<>> <=> ~HasEvent(seen))
  <2> HIDE DEF seen, key
  <2> QED BY <1>4, <1>9, RowsOfMeaning
<1>11. missing' = missing
  <2> HIDE DEF new, seen, key
  <2>1. Had(key, Kind) /\ store # <<>> /\ store[1] # Notice => new # <<>> BY <1>8, <1>9, <1>10
  <2> QED BY <2>1, <1>2 DEF new, seen, key, Had
<1>12. pc' = "aborted" => lost'
  <2>1. SUFFICES ASSUME pc' = "aborted" PROVE lost' OBVIOUS
  <2>2. program = "test" /\ Returned(store) = <<>> BY <2>1, <1>2, <1>3
  <2> QED BY <2>2, <1>8 DEF Returned
<1>13. rows' = rows \o new BY <1>2
<1>14. \A r \in G : /\ r \in [key: Text, ev: Event]
                    /\ r.ev.pubkey = r.key /\ r.key \in Elems(pubkeys)
  BY <1>6
<1> HIDE DEF new, G, key
<1>15. rows' \in Seq([key: Text, ev: Event]) /\ RowsAreByTheirKeys'
  <2> DEFINE R == {r \in [key: Text, ev: Event] :
                     r.ev.pubkey = r.key /\ r.key \in Elems(pubkeys)}
  <2>1. rows \in Seq(R)
    <3>1. rows \in Seq([key: Text, ev: Event]) BY <1>1 DEF FeedTypeOK
    <3>2. DOMAIN rows = 1..Len(rows) /\ Len(rows) \in Nat BY <3>1
    <3>3. ASSUME NEW i \in 1..Len(rows) PROVE rows[i] \in R
      <4>1. rows[i] \in [key: Text, ev: Event]
        <5> DEFINE Row == [key: Text, ev: Event]
        <5> HIDE DEF Row
        <5>1. rows \in Seq(Row) BY <3>1 DEF Row
        <5>2. rows[i] \in Row BY <5>1
        <5> QED BY <5>2 DEF Row
      <4>2. rows[i].ev.pubkey = rows[i].key /\ rows[i].key \in Elems(pubkeys)
        BY <1>1, <3>2 DEF RowsAreByTheirKeys
      <4> QED BY <4>1, <4>2
    <3> HIDE DEF R
    <3> QED BY <3>1, <3>3
  <2>2. new \in Seq(R) BY <1>10, <1>14
  <2>3. \A r \in R : r \in [key: Text, ev: Event] /\ r.ev.pubkey = r.key /\ r.key \in Elems(pubkeys)
    OBVIOUS
  <2> HIDE DEF R
  <2>4. rows' \in Seq(R) BY <1>13, <2>1, <2>2
  <2>5. rows' \in Seq([key: Text, ev: Event])
    <3> DEFINE Row == [key: Text, ev: Event]
    <3>1. \A r \in R : r \in Row BY <2>3
    <3> HIDE DEF Row
    <3>2. rows' \in Seq(Row) BY <3>1, <2>4
    <3> QED BY <3>2 DEF Row
  <2>6. \A i \in DOMAIN rows' : rows'[i] \in R BY <2>4
  <2> QED BY <2>3, <2>5, <2>6, <1>3 DEF RowsAreByTheirKeys
<1>16. pc' \in {"follows", "keys", "done", "aborted"} /\ pc' # "follows" BY <1>2, <1>3
<1>17. FeedTypeOK' BY <1>1, <1>3, <1>4, <1>7, <1>11, <1>15, <1>16 DEF FeedTypeOK
<1>18. FollowsAreContacts' BY <1>1, <1>3 DEF FollowsAreContacts
<1> QED BY <1>1, <1>11, <1>12, <1>15, <1>16, <1>17, <1>18
        DEF FeedInv, AtStart, ContactsAreShown, OnlyLossAborts

LEMMA QuietStep ==
  ASSUME FeedInv, Return \/ Publish \/ UNCHANGED vars
  PROVE  FeedInv'
<1>1. /\ FeedTypeOK /\ AtStart /\ RowsAreByTheirKeys /\ ContactsAreShown
      /\ OnlyLossAborts /\ FollowsAreContacts
  BY DEF FeedInv
<1>2. UNCHANGED <<program, vostro, pubkeys, pos, rows, source, lost, missing>>
  BY DEF Return, Publish, vars, run
<1>3. pc' = pc \/ pc' = "done" BY DEF Return, Publish, vars
<1>4. events' \in Seq(Event)
  <2>1. events \in Seq(Event) BY <1>1 DEF FeedTypeOK
  <2>2. CASE Publish
    <3>1. PICK ev \in Published : events' = Append(events, ev) BY <2>2 DEF Publish
    <3>2. ev \in Event BY FeedAssumption
    <3> QED BY <2>1, <3>1, <3>2
  <2>3. CASE Return \/ UNCHANGED vars BY <2>1, <2>3 DEF Return, vars
  <2> QED BY <2>2, <2>3
<1>5. FeedTypeOK' BY <1>1, <1>2, <1>3, <1>4 DEF FeedTypeOK
<1>6. AtStart' /\ OnlyLossAborts' BY <1>1, <1>2, <1>3 DEF AtStart, OnlyLossAborts
<1>7. RowsAreByTheirKeys' BY <1>1, <1>2 DEF RowsAreByTheirKeys
<1>8. ContactsAreShown' /\ FollowsAreContacts' BY <1>1, <1>2 DEF ContactsAreShown, FollowsAreContacts
<1> QED BY <1>5, <1>6, <1>7, <1>8 DEF FeedInv

LEMMA FeedInvariance == Spec => []FeedInv
<1>1. FeedInv /\ [Next]_vars => FeedInv'
  BY GetFollowsStep, AskKeyStep, QuietStep DEF Next
<1> QED BY <1>1, InitStep, PTL DEF Spec

----------------------------------------------------------------------------
(* Theorems *)

\* The queries and the programs around them keep their types, whatever was
\* published and stored in the meantime (nostr.cc:301-343, 437-575).
THEOREM FeedTypeCorrect == Spec => []FeedTypeOK
BY FeedInvariance, PTL DEF FeedInv

\* For any contact list and any published events: the key a page shows beside
\* an event (feed.cc:104, follows.cc:107) is the one that published it, and a
\* contact.
THEOREM RowsBelongToTheirKeys == Spec => []RowsAreByTheirKeys
BY FeedInvariance, PTL DEF FeedInv

\* For any number of events of a contact, and wherever the close cuts the
\* answer short (nostr.cc:313, 524-542): a contact who has one is shown, unless
\* the connection failed or the relay began with a NOTICE.
THEOREM ContactsWithNotesAreShown == Spec => []ContactsAreShown
BY FeedInvariance, PTL DEF FeedInv

\* The exception of metadata.at(0), outside the try block (tests.cc:211), is
\* thrown only after a connection has failed, whatever a relay answers.
THEOREM AbortsOnlyByLoss == Spec => []OnlyLossAborts
BY FeedInvariance, PTL DEF FeedInv

\* get_follows (nostr.cc:437-502) takes the contacts from a contact list when
\* the relay follows NIP-01, although it never looks at the kind it got.
THEOREM FollowsComeFromContacts == Spec => []FollowsAreContacts
BY FeedInvariance, PTL DEF FeedInv
=============================================================================
