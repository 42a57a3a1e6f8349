----------------------------- MODULE MCNostril ------------------------------
(* Every command line of up to three of these arguments, and calls of the  *)
(* library.  Two e or p tags, of 64 digits each, are too long for the      *)
(* buffer of a line, and so is "long"; of the contents only "hi", of eight *)
(* bytes, has room for its padding.                                        *)
EXTENDS Nostril

Flag(f, v) == [flag |-> f, val |-> v]

Arguments ==
  { Flag("--sec", "key"), Flag("--sec", "junk"), Flag("--kind", 7), Flag("--kind", NoNumber),
    Flag("--created-at", 5), Flag("--created-at", 123),
    Flag("--content", "hi"), Flag("--content", "long"), Flag("--content", "huge"),
    Flag("--envelope", TRUE),
    Flag("--pow", 1), Flag("--mine-pubkey", TRUE),
    Flag("--tags", << <<"x", "y">> >>), Flag("-e", "id"), Flag("-p", "bob"), Flag("-t", "tag"),
    Flag("--dm", "bob"), Flag("--dm", "junk"), Flag("--uri", "host"),
    [flag |-> "--tag", key |-> "k", val |-> "v"], [flag |-> "--tag", key |-> "nonce", val |-> "v"] }

Call(sec, tags, content, time) ==
  [sec |-> sec, tags |-> tags, content |-> content, created_at |-> time, kind |-> 1]

MCCalls ==
  { Call(sec, tags, content, time) :
      sec \in {None, "key", "junk"}, tags \in {<<>>, << <<"e", "id">> >>},
      content \in {"hi", "huge"}, time \in {5, 123} }

MCStrLen(text) == CASE text = "" -> 0 [] text = "hi" -> 8 [] OTHER -> 1024
MCTagsInStr(tags) == \A i, j \in DOMAIN tags : {tags[i][1], tags[j][1]} \subseteq {"e", "p"} => i = j
MCTextInStr(content) == content.text # "long"

MCArgv == UNION {[1..n -> Arguments] : n \in 0..3}
=============================================================================
