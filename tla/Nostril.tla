------------------------------ MODULE Nostril -------------------------------
(***************************************************************************)
(* The event builder: parse_args and main of src/src/nostril/nostril.c and *)
(* the functions of src/src/nostril/nostri.c they call in order, which     *)
(* make_message, the web client's entry point, calls in the same order;    *)
(* and make_event of src/src/nostr.cc, the entry point of the library.     *)
(*                                                                         *)
(* An argument is a flag with its operands.  Hashes, signatures and        *)
(* ciphers are uninterpreted: an id is the commitment it is the hash of, a *)
(* signature the key and the id it signs, and an id has enough zero bits   *)
(* if the nonce it commits to is a lucky one.                              *)
(*                                                                         *)
(* Three buffers can be too small.  That of the commitment is checked; the *)
(* one for an encrypted content and the one print_event puts its lines     *)
(* together in are not: a text too long for them leads to an overrun, and  *)
(* what follows is whatever the build makes of it.                         *)
(***************************************************************************)
EXTENDS Integers, Sequences, SequencesExt

CONSTANTS
  Argv,         \* the command lines
  Calls,        \* the arguments of make_event: an event_t, with its key as sec
  BadHex,       \* operands of --sec and --dm that hex_decode or secp256k1 refuses
  NoNumber,     \* an operand without digits where a number is expected
  Huge,         \* contents whose commitment does not fit its buffer
  StrLen(_),    \* the bytes of a content, before it is encrypted
  TagsInStr(_), \* print_event's line of these tags fits str, of 1024 bytes
  TextInStr(_), \* and so does its line of this content, as it is then
  MaxTags,      \* MAX_TAGS
  Lucky,        \* the nonces that give an id of the difficulty asked for
  TimeLimit,    \* 10^15: a larger created_at does not fit timebuf
  Time,         \* what time() returns
  Nonces,       \* 2^64: the nonce is a uint64_t
  None          \* a null pointer or a flag that is not set

ASSUME NostrilAssumption ==
  /\ MaxTags \in Nat /\ Nonces \in Nat \ {0} /\ TimeLimit \in Nat \ {0} /\ Time \in Nat
  /\ Lucky \subseteq 0..(Nonces - 1)
  /\ \A line \in Argv :
       /\ Len(line) \in Nat /\ DOMAIN line = 1..Len(line)
       /\ \A i \in 1..Len(line) : line[i].flag = "--created-at" => line[i].val \in Nat \cup {NoNumber}
  /\ \A c \in Calls :
       /\ DOMAIN c = {"sec", "tags", "content", "created_at", "kind"}
       /\ c.created_at \in Nat /\ c.tags # None

VARIABLES
  argv, pos,    \* the command line and the position parse_args is at
  args,         \* struct args
  added,        \* has_added_tags
  ev,           \* struct nostr_event
  key,          \* struct key: its public key
  nonce,        \* the counter of mine_event
  pc,           \* the function main is at
  exit,         \* the exit code
  printed,      \* what print_event wrote, None before
  overrun,      \* something was written behind the end of a buffer
  wanted        \* history: the tags the arguments asked for, in order

vars == <<argv, pos, args, added, ev, key, nonce, pc, exit, printed, overrun, wanted>>

NoArgs == [sec |-> None, tags |-> None, content |-> None, created_at |-> None, kind |-> None,
           pow |-> None, mine_pubkey |-> None, dm |-> None, envelope |-> None]
NoEvent == [id |-> None, pubkey |-> None, created_at |-> None, kind |-> None, tags |-> <<>>,
            explicit_tags |-> None, content |-> None, sig |-> None]

Init ==
  /\ \/ argv \in Argv /\ args = NoArgs /\ pc = "parse_args"
     \/ /\ argv = <<>> /\ pc = "make_event"
        /\ \E c \in Calls : args = [f \in DOMAIN NoArgs |-> IF f \in DOMAIN c THEN c[f] ELSE None]
  /\ pos = 1 /\ added = FALSE /\ ev = NoEvent /\ key = None /\ nonce = 0 /\ exit = None
  /\ printed = None /\ overrun = FALSE /\ wanted = <<>>

Exit(code) == pc' = "exit" /\ exit' = code
Aborted == 134   \* the exit code of a failed assertion, and of abort()

\* init_secp_context finds no entropy; make_sig fails.
LibraryFails ==
  /\ \/ pc = "parse_args" /\ pos = 1 /\ argv # <<>> /\ Exit(2)
     \/ pc = "sign" /\ Exit(6)
  /\ UNCHANGED <<argv, pos, args, added, ev, key, nonce, printed, overrun, wanted>>

----------------------------------------------------------------------------
(* parse_args *)

\* The flags that only set a field of args, and the field.
Field == [sec |-> "--sec", created_at |-> "--created-at", kind |-> "--kind", tags |-> "--tags",
          pow |-> "--pow", dm |-> "--dm", content |-> "--content",
          envelope |-> "--envelope", mine_pubkey |-> "--mine-pubkey"]
TagFlags == {"--tag", "-e", "-p", "-t"}
NoOperand == {"--envelope", "--mine-pubkey"}

\* Mutant: one tag too many.
HasRoomForOneMore == Len(ev.tags) <= MaxTags

\* parse_num: strtol makes 0 of an operand without digits.
NumFlags == {"--created-at", "--kind", "--pow"}
NotANumber(a) == a.flag \in NumFlags /\ a.val = NoNumber
Operand(a) == IF NotANumber(a) THEN 0 ELSE a.val

\* nostr_add_tag_n, which fails when the array is full.
HasRoom == Len(ev.tags) < MaxTags

\* Mutant: --pow does not look for --tags.
RefusedButPow(a) ==
  \/ a.flag \notin Range(Field) \cup TagFlags
  \/ a.flag \in NoOperand /\ pos = Len(argv)
  \/ a.flag = "--tags" /\ (args.pow # None \/ added)
  \/ a.flag = "--tag" /\ args.tags # None
  \/ a.flag \in TagFlags /\ ~HasRoom
  \/ a.flag = "--dm" /\ a.val \in BadHex

\* The arguments that make parse_args return 0: an unknown flag, a flag that
\* ends the command line (whether or not it has an operand), --tags with --tag
\* or --pow, a full array of tags, a key that is no hex.
Refused(a) ==
  \/ a.flag \notin Range(Field) \cup TagFlags
  \/ a.flag \in NoOperand /\ pos = Len(argv)
  \/ a.flag = "--tags" /\ (args.pow # None \/ added)
  \/ a.flag = "--tag" /\ args.tags # None
  \/ a.flag = "--pow" /\ args.tags # None
  \/ a.flag \in TagFlags /\ ~HasRoom
  \/ a.flag = "--dm" /\ a.val \in BadHex

\* The usage is printed, which exits with 1; so it is without arguments.  All
\* parse_num looks at is whether errno is EINVAL, which some C libraries set for
\* an operand without digits and others do not.
ParseRefused ==
  /\ pc = "parse_args"
  /\ \/ argv = <<>>
     \/ pos <= Len(argv) /\ (Refused(argv[pos]) \/ NotANumber(argv[pos]))
  /\ Exit(1)
  /\ UNCHANGED <<argv, pos, args, added, ev, key, nonce, printed, overrun, wanted>>

ParseField ==
  LET a == argv[pos]
  IN  /\ pc = "parse_args" /\ pos <= Len(argv) /\ ~Refused(a)
      /\ \E f \in DOMAIN Field : Field[f] = a.flag /\ args' = [args EXCEPT ![f] = Operand(a)]
      /\ pos' = pos + 1
      /\ UNCHANGED <<argv, added, ev, key, nonce, pc, exit, printed, overrun, wanted>>

\* -e, -p and -t are short for --tag with the key e, p or t.
TagOf(a) ==
  <<CASE a.flag = "-e" -> "e" [] a.flag = "-p" -> "p" [] a.flag = "-t" -> "t" [] OTHER -> a.key,
    a.val>>

ParseTag ==
  LET a == argv[pos]
      tag == TagOf(a)
  IN  /\ pc = "parse_args" /\ pos <= Len(argv) /\ ~Refused(a) /\ a.flag \in TagFlags
      /\ added' = TRUE
      /\ ev' = [ev EXCEPT !.tags = Append(@, tag)]
      /\ wanted' = Append(wanted, tag)
      /\ pos' = pos + 1
      /\ UNCHANGED <<argv, args, key, nonce, pc, exit, printed, overrun>>

\* The end of parse_args, and make_event_from_args.
make_event_from_args ==
  LET Or(field, default) == IF args[field] = None THEN default ELSE args[field]
  IN  /\ pc = "parse_args" /\ argv # <<>> /\ pos > Len(argv)
      /\ ev' = [ev EXCEPT !.explicit_tags = args.tags,
                          !.created_at = Or("created_at", Time), !.kind = Or("kind", 1),
                          !.content = [text |-> Or("content", ""), to |-> None]]
      /\ pc' = "key"
      /\ UNCHANGED <<argv, pos, args, added, key, nonce, exit, printed, overrun, wanted>>

----------------------------------------------------------------------------
(* main, behind parse_args *)

\* decode_key of --sec, or generate_key, which goes on until the public key
\* has the zero bits if those were asked of it, or fails for want of entropy.
GetKey ==
  /\ pc = "key"
  /\ \/ args.sec \in BadHex /\ Exit(8) /\ UNCHANGED key
     \/ args.sec = None /\ Exit(4) /\ UNCHANGED key
     \/ /\ args.sec \notin BadHex
        /\ key' = IF args.sec # None THEN args.sec
                  ELSE IF args.pow # None /\ args.mine_pubkey # None THEN "mined key" ELSE "new key"
        /\ pc' = IF args.dm # None THEN "dm" ELSE "id"
        /\ UNCHANGED exit
  /\ UNCHANGED <<argv, pos, args, added, ev, nonce, printed, overrun, wanted>>

\* The size of encbuf is the content's length with the remainder of the blocks
\* of 16 added; aes_encrypt fills it up to the next whole block.
EncbufFits(text) ==
  LET n == StrLen(text) IN n + (16 - (n % 16)) <= n + (n % 16) + 1

\* make_encrypted_dm: the content is encrypted and the receiver's p tag added;
\* main returns 0 when it fails, for a public key that is not on the curve,
\* for want of entropy or because there are too many tags; nothing is allocated,
\* freed or printed then, so that an overrun of encbuf no longer matters.
make_encrypted_dm ==
  /\ pc = "dm"
  /\ \/ Exit(0) /\ UNCHANGED <<ev, wanted>>
     \/ /\ HasRoom
        /\ ev' = [ev EXCEPT !.content = [ev.content EXCEPT !.to = args.dm],
                            !.kind = IF args.kind = None THEN 4 ELSE args.kind,
                            !.tags = Append(@, <<"p", args.dm>>)]
        /\ wanted' = Append(wanted, <<"p", args.dm>>)
        /\ pc' = "id" /\ UNCHANGED exit
  /\ overrun' = (pc' = "id" /\ ~EncbufFits(ev.content.text))
  /\ UNCHANGED <<argv, pos, args, added, key, nonce, printed>>

\* Mutant: the loop stops before the last tag.
PushTagsButLast(e) ==
  IF e.explicit_tags # None THEN e.explicit_tags
  ELSE SubSeq(e.tags, 1, Len(e.tags) - 1)

\* cursor_push_tags: the text of --tags takes the place of all other tags.
PushTags(e) == IF e.explicit_tags # None THEN e.explicit_tags ELSE e.tags

\* snprintf into timebuf drops the digits that do not fit.
timebuf(t) ==
  LET fit[n \in Nat] == IF n < TimeLimit THEN n ELSE fit[n \div 10]
  IN  IF t < TimeLimit THEN t ELSE fit[t \div 10]

\* Mutant: the tags added one by one are committed to, whatever is printed.
CommitToArray(e) ==
  [pubkey |-> e.pubkey, created_at |-> timebuf(e.created_at), kind |-> e.kind, tags |-> e.tags,
   content |-> e.content]

\* event_commitment: what the id is the hash of.
event_commitment(e) ==
  [pubkey |-> e.pubkey, created_at |-> timebuf(e.created_at), kind |-> e.kind, tags |-> PushTags(e),
   content |-> e.content]

\* The commitment fits its buffer.
Fits(e) == e.content.text \notin Huge

\* The event's pubkey is set; without --pow, or with --mine-pubkey, then
\* generate_event_id.
generate_event_id ==
  LET e == [ev EXCEPT !.pubkey = key]
  IN  /\ pc = "id" /\ (args.pow = None \/ args.mine_pubkey # None)
      /\ \/ ~Fits(e) /\ Exit(5) /\ ev' = e
         \/ Fits(e) /\ ev' = [e EXCEPT !.id = event_commitment(e)] /\ pc' = "sign" /\ UNCHANGED exit
      /\ UNCHANGED <<argv, pos, args, added, key, nonce, printed, overrun, wanted>>

IsNonce(tag) == Len(tag) = 2 /\ tag[1] = "nonce"

\* mine_event up to its loop: ensure_nonce_tag takes a nonce tag of two elements
\* that is already there, which the assertion behind it refuses, or adds one.
ensure_nonce_tag ==
  /\ pc = "id" /\ args.pow # None /\ args.mine_pubkey = None
  /\ \/ (\E i \in DOMAIN ev.tags : IsNonce(ev.tags[i])) /\ Exit(Aborted) /\ UNCHANGED <<ev, wanted>>
     \/ /\ ~\E i \in DOMAIN ev.tags : IsNonce(ev.tags[i])
        /\ \/ ~HasRoom /\ Exit(22) /\ UNCHANGED <<ev, wanted>>
           \/ /\ HasRoom
              /\ ev' = [ev EXCEPT !.pubkey = key, !.tags = Append(@, <<"nonce", 0, args.pow>>)]
              /\ wanted' = Append(wanted, <<"nonce">>)
              /\ pc' = "mine" /\ UNCHANGED exit
  /\ UNCHANGED <<argv, pos, args, added, key, nonce, printed, overrun>>

\* The nonce an id commits to is a lucky one.
EnoughZeros(tags) ==
  \E i \in DOMAIN tags : Len(tags[i]) = 3 /\ tags[i][1] = "nonce" /\ tags[i][2] \in Lucky

\* Mutant: the counter moves on before the loop is left.
MineOneMore ==
  LET e == [ev EXCEPT !.tags[Len(ev.tags)][2] = nonce]
      id == event_commitment(e)
      next == [ev EXCEPT !.tags[Len(ev.tags)][2] = (nonce + 1) % Nonces]
  IN  /\ pc = "mine" /\ Fits(e)
      /\ ev' = [next EXCEPT !.id = id]
      /\ pc' = (IF EnoughZeros(id.tags) THEN "sign" ELSE pc) /\ UNCHANGED exit
      /\ nonce' = (nonce + 1) % Nonces
      /\ UNCHANGED <<argv, pos, args, added, key, printed, overrun, wanted>>

\* One turn of the loop of mine_event.
Mine ==
  LET e == [ev EXCEPT !.tags[Len(ev.tags)][2] = nonce]
      id == event_commitment(e)
  IN  /\ pc = "mine"
      /\ \/ /\ ~Fits(e) /\ Exit(22) /\ ev' = e /\ UNCHANGED nonce
         \/ /\ Fits(e) /\ ev' = [e EXCEPT !.id = id]
            /\ IF EnoughZeros(id.tags) THEN pc' = "sign" /\ UNCHANGED nonce
                                  ELSE nonce' = (nonce + 1) % Nonces /\ UNCHANGED pc
            /\ UNCHANGED exit
      /\ UNCHANGED <<argv, pos, args, added, key, printed, overrun, wanted>>

\* An overrun has damaged what free, malloc or a return relies on.
OverrunAborts ==
  /\ overrun /\ pc # "exit" /\ Exit(Aborted)
  /\ UNCHANGED <<argv, pos, args, added, ev, key, nonce, printed, overrun, wanted>>

\* A text print_event puts together, some fields of which an overrun has left
\* unreadable.
Torn(text, fields) == [f \in DOMAIN text |-> IF f \in fields THEN None ELSE text[f]]

\* sign_event and print_event, and the end of main.  The tags and the content
\* of a commitment that fits also fit print_event's cursor, of the same size,
\* but not str, from which the lines go to out.
SignAndPrint ==
  LET sig == [key |-> key, id |-> ev.id]
      text == [id |-> ev.id, pubkey |-> ev.pubkey, created_at |-> ev.created_at, kind |-> ev.kind,
               tags |-> PushTags(ev), content |-> ev.content, sig |-> sig]
  IN  /\ pc = "sign"
      /\ ev' = [ev EXCEPT !.sig = sig]
      /\ overrun' = (overrun \/ ~TagsInStr(text.tags) \/ ~TextInStr(text.content))
      /\ \/ ~overrun' /\ printed' = text /\ Exit(0)
         \/ /\ overrun' /\ \E fields \in SUBSET DOMAIN text : printed' = Torn(text, fields)
            /\ Exit(0) \/ Exit(Aborted)
         \/ overrun' /\ UNCHANGED printed /\ Exit(Aborted)
      /\ UNCHANGED <<argv, pos, args, added, key, nonce, wanted>>

----------------------------------------------------------------------------
(* nostr::make_event *)

\* It has its own copy of the event, without the tags, to hash and to sign,
\* and returns the caller's with its id, key and signature, or no text at all
\* if something fails.
make_event ==
  LET k == IF args.sec # None THEN args.sec ELSE "new key"
      nev == [NoEvent EXCEPT !.pubkey = k, !.created_at = args.created_at, !.kind = args.kind,
                             !.content = [text |-> args.content, to |-> None]]
      id == event_commitment(nev)
  IN  /\ pc = "make_event"
      /\ \/ UNCHANGED <<key, ev, printed>>
         \/ /\ args.sec \notin BadHex /\ Fits(nev)
            /\ key' = k
            /\ ev' = [nev EXCEPT !.id = id, !.sig = [key |-> k, id |-> id]]
            /\ printed' = [id |-> id, pubkey |-> k, created_at |-> args.created_at,
                           kind |-> args.kind, tags |-> args.tags, content |-> nev.content,
                           sig |-> ev'.sig]
      /\ Exit(0)
      /\ UNCHANGED <<argv, pos, args, added, nonce, overrun, wanted>>

Next ==
  \/ make_event \/ LibraryFails \/ ParseRefused \/ ParseField \/ ParseTag \/ make_event_from_args
  \/ GetKey \/ make_encrypted_dm \/ generate_event_id \/ ensure_nonce_tag \/ Mine
  \/ OverrunAborts \/ SignAndPrint

Spec == Init /\ [][Next]_vars /\ WF_vars(Next)

----------------------------------------------------------------------------
(* Properties *)

\* Types, and the bound of the array of tags.
NostrilTypeOK ==
  /\ pos \in 1..(Len(argv) + 1) /\ added \in BOOLEAN /\ nonce \in 0..(Nonces - 1)
  /\ pc \in {"make_event", "parse_args", "key", "dm", "id", "mine", "sign", "exit"}
  /\ exit \in {None, 0, 1, 2, 4, 5, 6, 8, 22, Aborted}
  /\ Len(ev.tags) <= MaxTags /\ overrun \in BOOLEAN

\* An event has been printed, and no text was too long for encbuf or str.
Printed == printed # None /\ ~overrun

\* The id commits to what is printed (nostri.c:132-165, 600-651): whatever the
\* arguments and their order, the id printed is the hash of the public key,
\* kind, tags and content printed beside it, and of the time if it fits its
\* buffer, after encryption and mining, and the signature is that key's
\* signature of that id, unless a buffer was overrun.  The tags given to
\* make_event are the exception.
IdCommits ==
  Printed =>
    /\ printed.id.pubkey = printed.pubkey /\ printed.id.kind = printed.kind
    /\ printed.id.content = printed.content
    /\ argv # <<>> => printed.id.tags = printed.tags
    /\ printed.created_at < TimeLimit => printed.id.created_at = printed.created_at
    /\ printed.sig = [key |-> printed.pubkey, id |-> printed.id]

\* The work is in the event (nostri.c:461-491, nostril.c:84-128): when --pow was
\* given, the nonce printed in the tags is the one that gave the id its zero
\* bits or, with --mine-pubkey, the public key has them, unless it came with
\* --sec: then nothing is mined.  A buffer that was overrun is the exception.
WorkIsDone ==
  Printed /\ args.pow # None =>
    IF args.mine_pubkey = None THEN EnoughZeros(printed.tags)
    ELSE args.sec = None => printed.pubkey = "mined key"

\* No tag is lost at the limit of the array (nostri.c:364): unless --tags was
\* given, an event that is printed has every tag the arguments asked for, the
\* receiver's and the nonce included, in order, however many of MAX_TAGS there
\* are, as long as their text fits print_event's str and so does the content's
\* (nostri.c:619-640), and an encrypted content its encbuf (nostri.c:507).
NoTagIsLost ==
  Printed /\ args.tags = None =>
    /\ Len(printed.tags) = Len(wanted)
    /\ \A i \in DOMAIN wanted : printed.tags[i] = wanted[i] \/ wanted[i] = <<"nonce">>

\* nostril ends (nostri.c:476): mining ends if some nonce is lucky, because the
\* nonce is always part of the commitment: parse_args lets no --tags, which
\* hides it, through with --pow, in either order.
Terminates == <>(pc = "exit")

----------------------------------------------------------------------------
(* What the documents say and the code does not do *)

\* nip/01.md:33-44: the id is the hash of, among others, the "tags, as an array
\* of arrays of non-null strings": the id commits to the tags beside it.
CommitsToTags == Printed => printed.id.tags = printed.tags
=============================================================================
