------------------------------ MODULE MCCodec -------------------------------
(* Bytes at the edges of every case: the digits and letters of hexadecimal *)
(* and their neighbours, quote, backslash and line feed, and the bytes     *)
(* that have few or many bits.                                             *)
EXTENDS Codec

MCByte == {0, 1, 10, 34, 47, 48, 57, 58, 65, 70, 92, 97, 102, 103, 128, 255}
=============================================================================
