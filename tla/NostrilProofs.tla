--------------------------- MODULE NostrilProofs ----------------------------
(* Theorems about the event builder, for every set of command lines and      *)
(* calls, every limit of tags, time and nonces and whatever nonces are       *)
(* lucky.                                                                    *)
EXTENDS Nostril, SequenceTheorems, TLAPS

----------------------------------------------------------------------------
(* The inductive invariant *)

\* What a tag can hold: operands of the command lines, the keys of the tags
\* that are added, and nonces.
Elem ==
  {line[i].val : line \in Argv, i \in Nat} \cup {line[i].key : line \in Argv, i \in Nat}
    \cup {"e", "p", "t", "nonce", None} \cup Nat

\* All the command line and the arrays of tags can be.
Shape ==
  /\ Len(argv) \in Nat /\ DOMAIN argv = 1..Len(argv) /\ (argv = <<>> \/ argv \in Argv)
  /\ DOMAIN args = DOMAIN NoArgs /\ DOMAIN ev = DOMAIN NoEvent
  /\ args.created_at \in Nat \cup {None} /\ args.pow \in Elem /\ args.dm \in Elem
  /\ ev.tags \in Seq(Seq(Elem)) /\ wanted \in Seq(Seq(Elem))

\* An event is printed once, at the end.
PrintedLast == pc # "exit" => printed = None

\* make_event starts with a blank event, and asks for no work.
Called ==
  pc = "make_event" =>
    /\ argv = <<>> /\ args.created_at \in Nat /\ args.pow = None /\ args.tags # None
    /\ ev = NoEvent /\ wanted = <<>>

\* Behind make_event_from_args the event has a time, and the text of --tags.
Made ==
  pc \in {"key", "dm", "id", "mine", "sign"} =>
    argv # <<>> /\ ev.explicit_tags = args.tags /\ ev.created_at \in Nat

\* A key that was generated was mined if that was asked for.
Keyed ==
  pc \in {"dm", "id", "mine", "sign"} /\ args.pow # None /\ args.mine_pubkey # None
    /\ args.sec = None => key = "mined key"

\* The array holds the tags that were asked for.
Tagged ==
  /\ Len(ev.tags) = Len(wanted)
  /\ \A i \in 1..Len(wanted) : ev.tags[i] = wanted[i] \/ wanted[i] = <<"nonce">>

\* While an event is mined its last tag is the nonce.
Mining ==
  pc = "mine" =>
    /\ args.pow # None /\ args.mine_pubkey = None /\ ev.pubkey = key
    /\ wanted # <<>> /\ wanted[Len(wanted)] = <<"nonce">>

\* An event that is signed has the id of what it holds, and that id has the
\* work.
Signable ==
  pc = "sign" =>
    /\ ev.pubkey = key /\ ev.id = event_commitment(ev)
    /\ args.pow # None /\ args.mine_pubkey = None => EnoughZeros(ev.id.tags)

NostrilInv ==
  /\ NostrilTypeOK /\ Shape /\ PrintedLast /\ Called /\ Made /\ Keyed /\ Tagged /\ Mining /\ Signable
  /\ IdCommits /\ WorkIsDone /\ NoTagIsLost

----------------------------------------------------------------------------
(* Steps *)

\* The operands of an argument, and the tag it adds, can be held by a tag.
LEMMA OperandType ==
  ASSUME Shape, argv # <<>>, NEW i \in Nat
  PROVE  /\ argv[i].val \in Elem /\ argv[i].key \in Elem
         /\ TagOf(argv[i]) \in Seq(Elem)
<1>1. argv[i].val \in Elem /\ argv[i].key \in Elem BY DEF Shape, Elem
<1>2. "e" \in Elem /\ "p" \in Elem /\ "t" \in Elem BY DEF Elem
<1> QED BY <1>1, <1>2 DEF TagOf

\* A tag more keeps the arrays in step.
LEMMA TaggedAppend ==
  ASSUME Shape, Tagged, HasRoom, NostrilTypeOK,
         NEW tag \in Seq(Elem), NEW want \in Seq(Elem), tag = want \/ want = <<"nonce">>,
         ev'.tags = Append(ev.tags, tag), wanted' = Append(wanted, want)
  PROVE  /\ ev'.tags \in Seq(Seq(Elem)) /\ wanted' \in Seq(Seq(Elem))
         /\ Tagged' /\ Len(ev'.tags) <= MaxTags
         /\ wanted' # <<>> /\ wanted'[Len(wanted')] = want
<1>1. /\ ev.tags \in Seq(Seq(Elem)) /\ wanted \in Seq(Seq(Elem)) /\ Len(ev.tags) = Len(wanted)
      /\ \A i \in 1..Len(wanted) : ev.tags[i] = wanted[i] \/ wanted[i] = <<"nonce">>
      /\ Len(ev.tags) < MaxTags /\ MaxTags \in Nat
  BY NostrilAssumption DEF Shape, Tagged, HasRoom
<1>2. /\ ev'.tags \in Seq(Seq(Elem)) /\ wanted' \in Seq(Seq(Elem))
      /\ Len(ev'.tags) = Len(ev.tags) + 1 /\ Len(wanted') = Len(wanted) + 1
      /\ wanted'[Len(wanted')] = want /\ ev'.tags[Len(ev'.tags)] = tag
  BY <1>1
<1>3. \A i \in 1..Len(wanted) : ev'.tags[i] = ev.tags[i] /\ wanted'[i] = wanted[i]
  BY <1>1
<1>4. ASSUME NEW i \in 1..Len(wanted')
      PROVE  ev'.tags[i] = wanted'[i] \/ wanted'[i] = <<"nonce">>
  <2>1. CASE i = Len(wanted') BY <1>1, <1>2, <2>1
  <2>2. CASE i # Len(wanted')
    <3>1. i \in 1..Len(wanted) BY <1>1, <1>2, <2>2
    <3> QED BY <1>1, <1>3, <3>1
  <2> QED BY <2>1, <2>2
<1>5. Len(ev'.tags) = Len(wanted') BY <1>1, <1>2
<1>6. Tagged' BY <1>4, <1>5 DEF Tagged
<1>7. Len(ev'.tags) <= MaxTags BY <1>1, <1>2
<1>8. wanted' # <<>>
  <2>1. Len(wanted') > 0 BY <1>1, <1>2
  <2> QED BY <2>1
<1> QED BY <1>2, <1>6, <1>7, <1>8

LEMMA NostrilInit == Init => NostrilInv
<1> SUFFICES ASSUME Init PROVE NostrilInv OBVIOUS
<1>1. /\ <<>> \in Seq(Seq(Elem)) /\ Len(<<>>) = 0 /\ None \in Elem /\ DOMAIN <<>> = 1..0
  BY DEF Elem
<1>2. Shape /\ Called
  <2>1. CASE argv \in Argv /\ args = NoArgs /\ pc = "parse_args"
    BY <1>1, <2>1, NostrilAssumption DEF Init, Shape, Called, NoArgs, NoEvent
  <2>2. CASE /\ argv = <<>> /\ pc = "make_event"
             /\ \E c \in Calls : args = [f \in DOMAIN NoArgs |-> IF f \in DOMAIN c THEN c[f] ELSE None]
    <3>1. PICK c \in Calls : args = [f \in DOMAIN NoArgs |-> IF f \in DOMAIN c THEN c[f] ELSE None]
      BY <2>2
    <3>2. DOMAIN NoArgs = {"sec", "tags", "content", "created_at", "kind", "pow", "mine_pubkey", "dm", "envelope"}
      BY DEF NoArgs
    <3>3. /\ DOMAIN c = {"sec", "tags", "content", "created_at", "kind"}
          /\ c.created_at \in Nat /\ c.tags # None
      BY NostrilAssumption
    <3>4. /\ args.created_at = c.created_at /\ args.tags = c.tags
          /\ args.pow = None /\ args.dm = None /\ DOMAIN args = DOMAIN NoArgs
      BY <3>1, <3>2, <3>3
    <3> QED BY <1>1, <2>2, <3>3, <3>4 DEF Init, Shape, Called, NoEvent
  <2> QED BY <2>1, <2>2 DEF Init
<1>3. NostrilTypeOK /\ Tagged
  <2>1. /\ ev.tags = <<>> /\ wanted = <<>> /\ pos = 1 /\ added = FALSE /\ nonce = 0
        /\ exit = None /\ pc \in {"parse_args", "make_event"} /\ overrun = FALSE
    BY DEF Init, NoEvent
  <2>2. pos \in 1..(Len(argv) + 1) /\ nonce \in 0..(Nonces - 1) /\ Len(ev.tags) <= MaxTags
    BY <1>1, <1>2, <2>1, NostrilAssumption DEF Shape
  <2> QED BY <1>1, <2>1, <2>2 DEF NostrilTypeOK, Tagged
<1>4. PrintedLast /\ Made /\ Keyed /\ Mining /\ Signable /\ IdCommits /\ WorkIsDone /\ NoTagIsLost
  BY DEF Init, PrintedLast, Made, Keyed, Mining, Signable, IdCommits, WorkIsDone, NoTagIsLost, Printed
<1> QED BY <1>2, <1>3, <1>4 DEF NostrilInv
\* A step that leaves the arguments, the event and what was asked for alone,
\* prints nothing, and does not go on to an event that is not ready.
LEMMA NothingBuilt ==
  ASSUME NostrilInv, UNCHANGED <<argv, pos, args, added, ev, nonce, printed, wanted>>,
         pc # "exit", pc' \in {"exit", "dm", "id"}, NostrilTypeOK', Made', Keyed'
  PROVE  NostrilInv'
BY DEF NostrilInv, Shape, PrintedLast, Called, Tagged, Mining, Signable,
       IdCommits, WorkIsDone, NoTagIsLost, Printed

LEMMA EndStep ==
  ASSUME NostrilInv, LibraryFails \/ ParseRefused \/ OverrunAborts
  PROVE  NostrilInv'
<1>1. /\ pc # "exit" /\ pc' = "exit" /\ exit' \in {1, 2, 6, Aborted}
      /\ UNCHANGED <<argv, pos, args, added, ev, nonce, printed, overrun, wanted>>
  BY DEF LibraryFails, ParseRefused, OverrunAborts, Exit
<1>2. NostrilTypeOK' /\ Made' /\ Keyed' BY <1>1 DEF NostrilInv, NostrilTypeOK, Made, Keyed
<1> QED BY <1>1, <1>2, NothingBuilt

LEMMA GetKeyStep ==
  ASSUME NostrilInv, GetKey
  PROVE  NostrilInv'
<1>1. /\ pc = "key" /\ pc' \in {"exit", "dm", "id"}
      /\ UNCHANGED <<argv, pos, args, added, ev, nonce, printed, overrun, wanted>>
  BY DEF GetKey, Exit
<1>2. NostrilTypeOK'
  BY <1>1 DEF NostrilInv, NostrilTypeOK, GetKey, Exit
<1>3. Made' BY <1>1 DEF NostrilInv, Made
<1>4. Keyed' BY DEF GetKey, Exit, Keyed
<1> QED BY <1>1, <1>2, <1>3, <1>4, NothingBuilt

LEMMA ParseFieldStep ==
  ASSUME NostrilInv, ParseField
  PROVE  NostrilInv'
<1> DEFINE a == argv[pos]
<1>1. /\ pc = "parse_args" /\ pos <= Len(argv) /\ pos' = pos + 1
      /\ UNCHANGED <<argv, added, ev, key, nonce, pc, exit, printed, overrun, wanted>>
  BY DEF ParseField
<1>2. PICK f \in DOMAIN Field : Field[f] = a.flag /\ args' = [args EXCEPT ![f] = Operand(a)]
  BY DEF ParseField
<1>3. pos \in 1..Len(argv) /\ Len(argv) \in Nat /\ argv \in Argv /\ argv # <<>>
  <2>1. Shape /\ NostrilTypeOK BY DEF NostrilInv
  <2>2. Len(argv) \in Nat /\ pos \in 1..Len(argv) BY <2>1, <1>1 DEF NostrilTypeOK, Shape
  <2>3. argv # <<>> BY <2>2
  <2> QED BY <2>1, <2>2, <2>3 DEF Shape
<1> DEFINE val == Operand(a)
<1>4. val \in Elem
  <2>1. Shape /\ pos \in Nat BY <1>3 DEF NostrilInv
  <2>2. a.val \in Elem /\ 0 \in Elem BY <2>1, <1>3, OperandType DEF Elem
  <2> QED BY <2>2 DEF Operand
<1>5. f = "created_at" => val \in Nat
  <2>1. f = "created_at" => a.flag = "--created-at" BY <1>2 DEF Field
  <2>2. a.flag = "--created-at" => a.val \in Nat \cup {NoNumber} BY <1>3, NostrilAssumption
  <2> QED BY <2>1, <2>2 DEF Operand, NotANumber, NumFlags
<1>6. Shape'
  <2>1. DOMAIN args = DOMAIN NoArgs /\ args.created_at \in Nat \cup {None}
        /\ args.pow \in Elem /\ args.dm \in Elem
    BY DEF NostrilInv, Shape
  <2>2. "created_at" \in DOMAIN args /\ "pow" \in DOMAIN args /\ "dm" \in DOMAIN args
    BY <2>1 DEF NoArgs
  <2> HIDE DEF a, val
  <2>3. DOMAIN args' = DOMAIN args BY <1>2
  <2>4. \A g \in DOMAIN args : args'[g] = IF g = f THEN val ELSE args[g] BY <1>2 DEF val
  <2>5. args'.created_at \in Nat \cup {None} BY <2>1, <2>2, <2>4, <1>5
  <2>6. args'.pow \in Elem /\ args'.dm \in Elem BY <2>1, <2>2, <2>4, <1>4
  <2> QED BY <1>1, <2>1, <2>3, <2>5, <2>6 DEF NostrilInv, Shape
<1>7. NostrilTypeOK' BY <1>1, <1>3 DEF NostrilInv, NostrilTypeOK
<1> QED
  BY <1>1, <1>6, <1>7 DEF NostrilInv, PrintedLast, Called, Made, Keyed, Tagged, Mining, Signable,
    IdCommits, WorkIsDone, NoTagIsLost, Printed

LEMMA ParseTagStep ==
  ASSUME NostrilInv, ParseTag
  PROVE  NostrilInv'
<1> DEFINE a == argv[pos]
           tag == TagOf(a)
<1>1. /\ pc = "parse_args" /\ pos <= Len(argv) /\ pos' = pos + 1 /\ added' = TRUE
      /\ ev' = [ev EXCEPT !.tags = Append(@, tag)] /\ wanted' = Append(wanted, tag)
      /\ UNCHANGED <<argv, args, key, nonce, pc, exit, printed, overrun>>
      /\ HasRoom
  BY DEF ParseTag, Refused
<1>2. pos \in 1..Len(argv) /\ Len(argv) \in Nat /\ argv # <<>>
  BY <1>1 DEF NostrilInv, NostrilTypeOK, Shape
<1>3. tag \in Seq(Elem) BY <1>2, OperandType DEF NostrilInv
<1> HIDE DEF tag
<1>4. ev'.tags = Append(ev.tags, tag) /\ DOMAIN ev' = DOMAIN ev
  BY <1>1 DEF NostrilInv, Shape, NoEvent
<1>5. /\ ev'.tags \in Seq(Seq(Elem)) /\ wanted' \in Seq(Seq(Elem)) /\ Tagged' /\ Len(ev'.tags) <= MaxTags
  BY <1>1, <1>3, <1>4, TaggedAppend DEF NostrilInv
<1>6. NostrilTypeOK'
  <2>1. NostrilTypeOK BY DEF NostrilInv
  <2>2. pos' \in 1..(Len(argv) + 1) BY <1>1, <1>2
  <2> QED BY <2>1, <2>2, <1>1, <1>5 DEF NostrilTypeOK
<1>7. Shape' BY <1>1, <1>4, <1>5 DEF NostrilInv, Shape
<1> QED
  BY <1>1, <1>5, <1>6, <1>7 DEF NostrilInv, PrintedLast, Called, Made, Keyed, Mining, Signable,
    IdCommits, WorkIsDone, NoTagIsLost, Printed

LEMMA FromArgsStep ==
  ASSUME NostrilInv, make_event_from_args
  PROVE  NostrilInv'
<1> DEFINE Or(field, default) == IF args[field] = None THEN default ELSE args[field]
<1>1. /\ pc = "parse_args" /\ argv # <<>> /\ pc' = "key"
      /\ ev' = [ev EXCEPT !.explicit_tags = args.tags,
                          !.created_at = Or("created_at", Time), !.kind = Or("kind", 1),
                          !.content = [text |-> Or("content", ""), to |-> None]]
      /\ UNCHANGED <<argv, pos, args, added, key, nonce, exit, printed, overrun, wanted>>
  BY DEF make_event_from_args
<1>2. Or("created_at", Time) \in Nat BY NostrilAssumption DEF NostrilInv, Shape
<1> HIDE DEF Or
<1>3. /\ DOMAIN ev' = DOMAIN ev /\ ev'.tags = ev.tags /\ ev'.explicit_tags = args.tags
      /\ ev'.created_at \in Nat
  BY <1>1, <1>2 DEF NostrilInv, Shape, NoEvent
<1> QED
  BY <1>1, <1>3 DEF NostrilInv, NostrilTypeOK, Shape, PrintedLast, Called, Made, Keyed, Tagged,
    Mining, Signable, IdCommits, WorkIsDone, NoTagIsLost, Printed

LEMMA DmStep ==
  ASSUME NostrilInv, make_encrypted_dm
  PROVE  NostrilInv'
<1>1. /\ pc = "dm" /\ UNCHANGED <<argv, pos, args, added, key, nonce, printed>>
  BY DEF make_encrypted_dm
<1>0. overrun' \in BOOLEAN BY Zenon DEF make_encrypted_dm
<1>2. CASE Exit(0) /\ UNCHANGED <<ev, wanted>>
  <2>1. pc' = "exit" /\ exit' = 0 BY <1>2 DEF Exit
  <2>2. NostrilTypeOK' /\ Made' /\ Keyed'
    BY <1>0, <1>1, <1>2, <2>1 DEF NostrilInv, NostrilTypeOK, Made, Keyed
  <2> QED BY <1>1, <1>2, <2>1, <2>2, NothingBuilt
<1>3. CASE ~(Exit(0) /\ UNCHANGED <<ev, wanted>>)
  <2> DEFINE tag == <<"p", args.dm>>
  <2>1. /\ HasRoom /\ pc' = "id" /\ UNCHANGED exit /\ wanted' = Append(wanted, tag)
        /\ ev' = [ev EXCEPT !.content = [ev.content EXCEPT !.to = args.dm],
                            !.kind = IF args.kind = None THEN 4 ELSE args.kind,
                            !.tags = Append(@, tag)]
    BY <1>3 DEF make_encrypted_dm
  <2>2. "p" \in Elem /\ args.dm \in Elem BY DEF NostrilInv, Shape, Elem
  <2>3. tag \in Seq(Elem) BY <2>2
  <2> HIDE DEF tag
  <2>4. /\ ev'.tags = Append(ev.tags, tag) /\ DOMAIN ev' = DOMAIN ev
        /\ ev'.explicit_tags = ev.explicit_tags /\ ev'.created_at = ev.created_at
    BY <2>1 DEF NostrilInv, Shape, NoEvent
  <2>5. /\ ev'.tags \in Seq(Seq(Elem)) /\ wanted' \in Seq(Seq(Elem)) /\ Tagged' /\ Len(ev'.tags) <= MaxTags
    BY <2>1, <2>3, <2>4, TaggedAppend DEF NostrilInv
  <2>6. NostrilTypeOK' BY <1>0, <1>1, <2>1, <2>5 DEF NostrilInv, NostrilTypeOK
  <2>7. Shape' BY <1>1, <2>4, <2>5 DEF NostrilInv, Shape
  <2> QED
    BY <1>1, <2>1, <2>4, <2>5, <2>6, <2>7 DEF NostrilInv, PrintedLast, Called, Made, Keyed, Mining,
      Signable, IdCommits, WorkIsDone, NoTagIsLost, Printed
<1> QED BY <1>2, <1>3

LEMMA IdStep ==
  ASSUME NostrilInv, generate_event_id
  PROVE  NostrilInv'
<1> DEFINE e == [ev EXCEPT !.pubkey = key]
<1>1. /\ pc = "id" /\ (args.pow = None \/ args.mine_pubkey # None)
      /\ UNCHANGED <<argv, pos, args, added, key, nonce, printed, overrun, wanted>>
  BY DEF generate_event_id
<1>2. \/ pc' = "exit" /\ exit' = 5 /\ ev' = e
      \/ ev' = [e EXCEPT !.id = event_commitment(e)] /\ pc' = "sign" /\ UNCHANGED exit
  BY DEF generate_event_id, Exit
<1>3. /\ DOMAIN e = DOMAIN ev /\ e.pubkey = key /\ e.tags = ev.tags
      /\ e.explicit_tags = ev.explicit_tags /\ e.created_at = ev.created_at
  BY DEF NostrilInv, Shape, NoEvent
<1> HIDE DEF e
<1>4. /\ DOMAIN ev' = DOMAIN ev /\ ev'.pubkey = key /\ ev'.tags = ev.tags
      /\ ev'.explicit_tags = ev.explicit_tags /\ ev'.created_at = ev.created_at
  BY <1>2, <1>3 DEF NostrilInv, Shape, NoEvent
<1>5. pc' = "sign" => ev'.id = event_commitment(ev')
  <2>1. SUFFICES ASSUME ev' = [e EXCEPT !.id = event_commitment(e)]
                 PROVE  ev'.id = event_commitment(ev')
    BY <1>2
  <2>2. ev'.id = event_commitment(e) /\ ev'.kind = e.kind /\ ev'.content = e.content
    BY <2>1, <1>3 DEF NostrilInv, Shape, NoEvent
  <2> QED BY <2>2, <1>3, <1>4 DEF event_commitment, PushTags
<1>6. Signable' BY <1>1, <1>4, <1>5 DEF Signable
<1>7. NostrilTypeOK' /\ Shape' BY <1>1, <1>2, <1>4 DEF NostrilInv, NostrilTypeOK, Shape
<1>8. Called' /\ Made' /\ Keyed' BY <1>1, <1>2, <1>4 DEF NostrilInv, Called, Made, Keyed
<1>9. Tagged' /\ Mining' BY <1>1, <1>2, <1>4 DEF NostrilInv, Tagged, Mining
<1>10. PrintedLast' /\ IdCommits' /\ WorkIsDone' /\ NoTagIsLost'
  BY <1>1, <1>2 DEF NostrilInv, PrintedLast, IdCommits, WorkIsDone, NoTagIsLost, Printed
<1> QED BY <1>6, <1>7, <1>8, <1>9, <1>10 DEF NostrilInv

LEMMA NonceTagStep ==
  ASSUME NostrilInv, ensure_nonce_tag
  PROVE  NostrilInv'
<1>1. /\ pc = "id" /\ args.pow # None /\ args.mine_pubkey = None
      /\ UNCHANGED <<argv, pos, args, added, key, nonce, printed, overrun>>
  BY DEF ensure_nonce_tag
<1>2. CASE pc' = "exit" /\ exit' \in {Aborted, 22} /\ UNCHANGED <<ev, wanted>>
  <2>1. NostrilTypeOK' /\ Made' /\ Keyed'
    BY <1>1, <1>2 DEF NostrilInv, NostrilTypeOK, Made, Keyed
  <2> QED BY <1>1, <1>2, <2>1, NothingBuilt
<1>3. CASE ~(pc' = "exit" /\ exit' \in {Aborted, 22} /\ UNCHANGED <<ev, wanted>>)
  <2> DEFINE tag == <<"nonce", 0, args.pow>>
             want == <<"nonce">>
  <2>1. /\ HasRoom /\ pc' = "mine" /\ UNCHANGED exit /\ wanted' = Append(wanted, want)
        /\ ev' = [ev EXCEPT !.pubkey = key, !.tags = Append(@, tag)]
    BY <1>3 DEF ensure_nonce_tag, Exit
  <2>2. "nonce" \in Elem /\ 0 \in Elem /\ args.pow \in Elem BY DEF NostrilInv, Shape, Elem
  <2>3. tag \in Seq(Elem) /\ want \in Seq(Elem) BY <2>2
  <2> HIDE DEF tag
  <2>4. /\ ev'.tags = Append(ev.tags, tag) /\ DOMAIN ev' = DOMAIN ev /\ ev'.pubkey = key
        /\ ev'.explicit_tags = ev.explicit_tags /\ ev'.created_at = ev.created_at
    BY <2>1 DEF NostrilInv, Shape, NoEvent
  <2>5. /\ ev'.tags \in Seq(Seq(Elem)) /\ wanted' \in Seq(Seq(Elem)) /\ Tagged' /\ Len(ev'.tags) <= MaxTags
        /\ wanted' # <<>> /\ wanted'[Len(wanted')] = want
    BY <2>1, <2>3, <2>4, TaggedAppend DEF NostrilInv
  <2>6. NostrilTypeOK' BY <1>1, <2>1, <2>5 DEF NostrilInv, NostrilTypeOK
  <2>7. Shape' BY <1>1, <2>4, <2>5 DEF NostrilInv, Shape
  <2> QED
    BY <1>1, <2>1, <2>4, <2>5, <2>6, <2>7 DEF NostrilInv, PrintedLast, Called, Made, Keyed, Mining,
      Signable, IdCommits, WorkIsDone, NoTagIsLost, Printed
<1> QED BY <1>2, <1>3

\* What an id commits to.
LEMMA Commitment ==
  ASSUME NEW e
  PROVE  /\ event_commitment(e).pubkey = e.pubkey /\ event_commitment(e).kind = e.kind
         /\ event_commitment(e).content = e.content /\ event_commitment(e).tags = PushTags(e)
         /\ event_commitment(e).created_at = timebuf(e.created_at)
         /\ e.created_at < TimeLimit => timebuf(e.created_at) = e.created_at
<1>1. e.created_at < TimeLimit => timebuf(e.created_at) = e.created_at BY DEF timebuf
<1> QED BY <1>1 DEF event_commitment

LEMMA MineStep ==
  ASSUME NostrilInv, Mine
  PROVE  NostrilInv'
<1> DEFINE e == [ev EXCEPT !.tags[Len(ev.tags)][2] = nonce]
           id == event_commitment(e)
<1>1. pc = "mine" /\ UNCHANGED <<argv, pos, args, added, key, printed, overrun, wanted>> BY DEF Mine
<1>2. \/ pc' = "exit" /\ exit' = 22 /\ ev' = e /\ UNCHANGED nonce
      \/ /\ ev' = [e EXCEPT !.id = id] /\ UNCHANGED exit
         /\ \/ EnoughZeros(id.tags) /\ pc' = "sign" /\ UNCHANGED nonce
            \/ nonce' = (nonce + 1) % Nonces /\ UNCHANGED pc
  BY DEF Mine, Exit
<1>3. /\ DOMAIN ev = {"id", "pubkey", "created_at", "kind", "tags", "explicit_tags", "content", "sig"}
      /\ ev.tags \in Seq(Seq(Elem)) /\ nonce \in 0..(Nonces - 1) /\ Nonces \in Nat \ {0}
      /\ Len(ev.tags) = Len(wanted) /\ wanted \in Seq(Seq(Elem)) /\ wanted # <<>>
      /\ wanted[Len(wanted)] = <<"nonce">>
      /\ \A i \in 1..Len(wanted) : ev.tags[i] = wanted[i] \/ wanted[i] = <<"nonce">>
  BY <1>1, NostrilAssumption DEF NostrilInv, NostrilTypeOK, Shape, NoEvent, Tagged, Mining
<1>4. nonce \in Elem BY <1>3 DEF Elem
<1> DEFINE tags == [ev.tags EXCEPT ![Len(ev.tags)] = [@ EXCEPT ![2] = nonce]]
<1>5. /\ DOMAIN e = DOMAIN ev /\ e.tags = tags /\ e.pubkey = ev.pubkey /\ e.kind = ev.kind
      /\ e.explicit_tags = ev.explicit_tags /\ e.created_at = ev.created_at /\ e.content = ev.content
  BY <1>3
<1>6. /\ tags \in Seq(Seq(Elem)) /\ Len(tags) = Len(ev.tags)
      /\ \A i \in 1..Len(wanted) : tags[i] = wanted[i] \/ wanted[i] = <<"nonce">>
  <2>1. Len(ev.tags) \in 1..Len(ev.tags) BY <1>3
  <2>2. ev.tags[Len(ev.tags)] \in Seq(Elem) BY <1>3, <2>1
  <2> DEFINE last == [ev.tags[Len(ev.tags)] EXCEPT ![2] = nonce]
  <2>3. last \in Seq(Elem)
    <3> DEFINE t == ev.tags[Len(ev.tags)]
    <3>1. CASE 2 \in 1..Len(t) BY <3>1, <2>2, <1>4, ExceptSeq
    <3>2. CASE 2 \notin 1..Len(t)
      <4> HIDE DEF t
      <4>1. [t EXCEPT ![2] = nonce] = t BY <3>2, <2>2 DEF t
      <4> QED BY <4>1, <2>2 DEF t
    <3> QED BY <3>1, <3>2
  <2> HIDE DEF last
  <2>4. tags = [ev.tags EXCEPT ![Len(ev.tags)] = last] BY DEF last
  <2> HIDE DEF tags
  <2>5. tags \in Seq(Seq(Elem)) /\ Len(tags) = Len(ev.tags)
    BY <1>3, <2>1, <2>3, <2>4, ExceptSeq
  <2>6. \A i \in 1..Len(wanted) : i # Len(wanted) => tags[i] = ev.tags[i] BY <1>3, <2>4
  <2> QED BY <1>3, <2>5, <2>6
<1> HIDE DEF e, tags
<1>7. /\ DOMAIN ev' = DOMAIN ev /\ ev'.tags = tags /\ ev'.pubkey = ev.pubkey
      /\ ev'.explicit_tags = ev.explicit_tags /\ ev'.created_at = ev.created_at
  BY <1>2, <1>3, <1>5
<1>8. pc' = "sign" => ev'.id = event_commitment(ev') /\ EnoughZeros(ev'.id.tags)
  <2>1. SUFFICES ASSUME ev' = [e EXCEPT !.id = id], EnoughZeros(id.tags)
                 PROVE  ev'.id = event_commitment(ev') /\ EnoughZeros(ev'.id.tags)
    BY <1>1, <1>2
  <2>2. ev'.id = id /\ ev'.kind = e.kind /\ ev'.content = e.content
    BY <2>1, <1>3, <1>5
  <2>3. id = event_commitment(ev') BY <2>2, <1>5, <1>7 DEF event_commitment, PushTags
  <2> QED BY <2>1, <2>2, <2>3
<1>9. nonce' \in 0..(Nonces - 1)
  <2>1. (nonce + 1) % Nonces \in 0..(Nonces - 1) BY <1>3
  <2> QED BY <1>2, <1>3, <2>1
<1>10. pc' \in {"exit", "mine", "sign"} /\ exit' \in {exit, 22} BY <1>1, <1>2
<1>11. NostrilTypeOK' BY <1>1, <1>6, <1>7, <1>9, <1>10 DEF NostrilInv, NostrilTypeOK
<1>12. Shape' /\ Tagged' BY <1>1, <1>3, <1>6, <1>7 DEF NostrilInv, Shape, Tagged
<1>13. Signable' /\ Mining'
  BY <1>1, <1>7, <1>8, <1>10 DEF NostrilInv, Signable, Mining
<1>14. PrintedLast' /\ Called' /\ Made' /\ Keyed'
  BY <1>1, <1>7, <1>10 DEF NostrilInv, PrintedLast, Called, Made, Keyed
<1>15. IdCommits' /\ WorkIsDone' /\ NoTagIsLost'
  BY <1>1 DEF NostrilInv, PrintedLast, IdCommits, WorkIsDone, NoTagIsLost, Printed
<1> QED BY <1>11, <1>12, <1>13, <1>14, <1>15 DEF NostrilInv

LEMMA PrintStep ==
  ASSUME NostrilInv, SignAndPrint
  PROVE  NostrilInv'
<1> DEFINE sig == [key |-> key, id |-> ev.id]
           text == [id |-> ev.id, pubkey |-> ev.pubkey, created_at |-> ev.created_at, kind |-> ev.kind,
                    tags |-> PushTags(ev), content |-> ev.content, sig |-> sig]
<1>1. /\ pc = "sign" /\ pc' = "exit" /\ exit' \in {0, Aborted}
      /\ UNCHANGED <<argv, pos, args, added, key, nonce, wanted>>
      /\ ev' = [ev EXCEPT !.sig = sig]
      /\ ~overrun' => printed' = text
  BY DEF SignAndPrint, Exit
<1>0. overrun' \in BOOLEAN BY Zenon DEF SignAndPrint
<1>2. /\ DOMAIN ev' = DOMAIN ev /\ ev'.tags = ev.tags /\ ev'.sig = sig
  BY <1>1 DEF NostrilInv, Shape, NoEvent
<1>3. /\ argv # <<>> /\ ev.explicit_tags = args.tags /\ ev.created_at \in Nat
      /\ ev.pubkey = key /\ ev.id = event_commitment(ev)
      /\ args.pow # None /\ args.mine_pubkey = None => EnoughZeros(ev.id.tags)
      /\ args.pow # None /\ args.mine_pubkey # None /\ args.sec = None => key = "mined key"
  BY <1>1 DEF NostrilInv, Made, Signable, Keyed
<1>4. /\ ev.id.pubkey = ev.pubkey /\ ev.id.kind = ev.kind /\ ev.id.content = ev.content
      /\ ev.id.tags = PushTags(ev) /\ ev.id.created_at = timebuf(ev.created_at)
      /\ ev.created_at < TimeLimit => timebuf(ev.created_at) = ev.created_at
  BY <1>3, Commitment
<1>5. /\ text.id = ev.id /\ text.pubkey = ev.pubkey /\ text.created_at = ev.created_at
      /\ text.kind = ev.kind /\ text.tags = PushTags(ev) /\ text.content = ev.content
      /\ text.sig = [key |-> key, id |-> ev.id]
  OBVIOUS
<1> HIDE DEF text, sig
<1>6. IdCommits'
  <2>1. SUFFICES ASSUME printed' = text PROVE IdCommits' BY <1>1 DEF IdCommits, Printed
  <2> QED BY <1>3, <1>4, <1>5, <2>1 DEF IdCommits
<1>7. WorkIsDone'
  <2>1. SUFFICES ASSUME printed' = text PROVE WorkIsDone' BY <1>1 DEF WorkIsDone, Printed
  <2> QED BY <1>1, <1>3, <1>4, <1>5, <2>1 DEF WorkIsDone
<1>8. NoTagIsLost'
  <2>1. args.tags = None => PushTags(ev) = ev.tags BY <1>3 DEF PushTags
  <2>2. DOMAIN wanted = 1..Len(wanted) BY DEF NostrilInv, Shape
  <2> QED BY <1>1, <1>5, <2>1, <2>2 DEF NostrilInv, Tagged, NoTagIsLost, Printed
<1>9. NostrilTypeOK' BY <1>0, <1>1, <1>2 DEF NostrilInv, NostrilTypeOK
<1> QED
  BY <1>1, <1>2, <1>6, <1>7, <1>8, <1>9 DEF NostrilInv, Shape, PrintedLast, Called, Made, Keyed,
    Tagged, Mining, Signable

LEMMA CallStep ==
  ASSUME NostrilInv, make_event
  PROVE  NostrilInv'
<1> DEFINE k == IF args.sec # None THEN args.sec ELSE "new key"
           nev == [NoEvent EXCEPT !.pubkey = k, !.created_at = args.created_at, !.kind = args.kind,
                                  !.content = [text |-> args.content, to |-> None]]
           id == event_commitment(nev)
<1>1. /\ pc = "make_event" /\ pc' = "exit" /\ exit' = 0
      /\ UNCHANGED <<argv, pos, args, added, nonce, overrun, wanted>>
  BY DEF make_event, Exit
<1>2. \/ UNCHANGED <<key, ev, printed>>
      \/ /\ ev' = [nev EXCEPT !.id = id, !.sig = [key |-> k, id |-> id]]
         /\ printed' = [id |-> id, pubkey |-> k, created_at |-> args.created_at,
                        kind |-> args.kind, tags |-> args.tags, content |-> nev.content,
                        sig |-> ev'.sig]
  BY DEF make_event
<1>3. /\ argv = <<>> /\ args.created_at \in Nat /\ args.pow = None /\ args.tags # None
      /\ ev = NoEvent /\ wanted = <<>> /\ printed = None
  BY <1>1 DEF NostrilInv, Called, PrintedLast
<1> HIDE DEF k
<1>4. /\ DOMAIN nev = DOMAIN NoEvent /\ nev.tags = <<>> /\ nev.pubkey = k
      /\ nev.created_at = args.created_at /\ nev.kind = args.kind
  BY DEF NoEvent
<1>5. DOMAIN nev = {"id", "pubkey", "created_at", "kind", "tags", "explicit_tags", "content", "sig"}
  BY <1>4 DEF NoEvent
<1> HIDE DEF nev
<1>6. /\ id.pubkey = k /\ id.kind = args.kind /\ id.content = nev.content
      /\ id.created_at = timebuf(args.created_at)
  BY <1>4 DEF event_commitment
<1> HIDE DEF id
<1>7. /\ DOMAIN ev' = DOMAIN NoEvent /\ ev'.tags = <<>>
      /\ printed' # None => ev'.sig = [key |-> k, id |-> id]
  <2>1. CASE UNCHANGED <<key, ev, printed>> BY <2>1, <1>3 DEF NoEvent
  <2>2. CASE ev' = [nev EXCEPT !.id = id, !.sig = [key |-> k, id |-> id]]
    BY <2>2, <1>4, <1>5
  <2> QED BY <1>2, <2>1, <2>2
<1>8. args.created_at < TimeLimit => timebuf(args.created_at) = args.created_at
  BY DEF timebuf
<1>9. IdCommits' BY <1>1, <1>2, <1>3, <1>6, <1>7, <1>8 DEF IdCommits, Printed
<1>10. WorkIsDone' /\ NoTagIsLost' BY <1>1, <1>3 DEF WorkIsDone, NoTagIsLost, Printed
<1>11. Shape' /\ Tagged' /\ NostrilTypeOK'
  BY <1>1, <1>3, <1>7 DEF NostrilInv, Shape, Tagged, NostrilTypeOK, NoEvent
<1> QED
  BY <1>1, <1>9, <1>10, <1>11 DEF NostrilInv, PrintedLast, Called, Made, Keyed, Mining, Signable

LEMMA NostrilStep == NostrilInv /\ [Next]_vars => NostrilInv'
<1> SUFFICES ASSUME NostrilInv, [Next]_vars PROVE NostrilInv' OBVIOUS
<1>1. CASE UNCHANGED vars
  <2>1. UNCHANGED <<argv, pos, args, added, ev, key, nonce, pc, exit, printed, overrun, wanted>>
    BY <1>1 DEF vars
  <2>2. /\ NostrilTypeOK' /\ Shape' /\ PrintedLast' /\ Called' /\ Made' /\ Keyed' /\ Tagged' /\ Mining'
    <3>1. NostrilTypeOK' BY <2>1 DEF NostrilInv, NostrilTypeOK
    <3>2. Shape' BY <2>1 DEF NostrilInv, Shape
    <3>3. PrintedLast' /\ Called' BY <2>1 DEF NostrilInv, PrintedLast, Called
    <3>4. Made' /\ Keyed' BY <2>1 DEF NostrilInv, Made, Keyed
    <3>5. Tagged' /\ Mining' BY <2>1 DEF NostrilInv, Tagged, Mining
    <3> QED BY <3>1, <3>2, <3>3, <3>4, <3>5
  <2>3. (Signable /\ IdCommits)' BY <2>1 DEF NostrilInv, Signable, IdCommits, Printed
  <2>4. WorkIsDone' BY <2>1 DEF NostrilInv, WorkIsDone, Printed
  <2>5. NoTagIsLost' BY <2>1 DEF NostrilInv, NoTagIsLost, Printed
  <2> QED BY <2>2, <2>3, <2>4, <2>5 DEF NostrilInv
<1> QED
  BY <1>1, CallStep, EndStep, ParseFieldStep, ParseTagStep, FromArgsStep, GetKeyStep, DmStep,
    IdStep, NonceTagStep, MineStep, PrintStep DEF Next

----------------------------------------------------------------------------
(* Theorems *)

LEMMA NostrilAlways == Spec => []NostrilInv
BY NostrilInit, NostrilStep, PTL DEF Spec

\* Types: no command line makes the builder write behind its array of tags
\* (nostri.c:364), read behind its arguments or leave the range of the nonce.
THEOREM NostrilTypeCorrect == Spec => []NostrilTypeOK
<1>1. NostrilInv => NostrilTypeOK BY DEF NostrilInv
<1> QED BY <1>1, NostrilAlways, PTL

\* For command lines of any length and any order of arguments (nostri.c:132-165,
\* 600-651): the id printed commits to what is printed beside it, if no buffer
\* was overrun.
THEOREM PrintedIdCommits == Spec => []IdCommits
<1>1. NostrilInv => IdCommits BY DEF NostrilInv
<1> QED BY <1>1, NostrilAlways, PTL

\* The work that --pow asks for (nostri.c:461-491, nostril.c:84-128) is in the
\* event that is printed, if no buffer was overrun.
THEOREM PrintedWorkIsDone == Spec => []WorkIsDone
<1>1. NostrilInv => WorkIsDone BY DEF NostrilInv
<1> QED BY <1>1, NostrilAlways, PTL

\* No tag that was asked for is missing from what is printed, whatever the limit
\* of the array is (nostri.c:364), if the text of the tags and of the content
\* fits the 1024 bytes of str (nostri.c:619-640), and the padding of an encrypted
\* content encbuf (nostri.c:507).
THEOREM PrintedTagsAreAll == Spec => []NoTagIsLost
<1>1. NostrilInv => NoTagIsLost BY DEF NostrilInv
<1> QED BY <1>1, NostrilAlways, PTL
=============================================================================
