--------------------------- MODULE MCWostroPages ----------------------------
(* Two sessions that may type one key besides the default. *)
EXTENDS Wostro

=============================================================================
