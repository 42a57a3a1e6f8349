------------------------------- MODULE Codec --------------------------------
(***************************************************************************)
(* The conversions of bytes and texts under src/src/nostril: hexadecimal   *)
(* (hex.h), Base64 (base64.c), JSON strings (nostri.c) and the zero bits   *)
(* that the proof of work counts (proof.h).  Characters and bytes are      *)
(* numbers below 256.  The behaviour only grows the input, a byte at a     *)
(* time; each property compares an algorithm with a definition of what it  *)
(* computes, for every input it passes through.                            *)
(***************************************************************************)
EXTENDS Integers, Sequences

CONSTANTS
  Byte,         \* the bytes the inputs are made of
  MaxLen        \* bound: the length of an input

ASSUME CodecAssumption == Byte \subseteq 0..255 /\ MaxLen \in Nat

VARIABLE input

Init == input = <<>>
Next == Len(input) < MaxLen /\ \E b \in Byte : input' = Append(input, b)
Spec == Init /\ [][Next]_input

Failed == [ok |-> FALSE]
Ok(s) == [ok |-> TRUE, out |-> s]

----------------------------------------------------------------------------
(* hex.h *)

IsDigit(c) == c \in 48..57

\* The digits and the letters a-f and A-F.
IsHexChar(c) == IsDigit(c) \/ c \in 97..102 \/ c \in 65..70

char_to_hex(c) == IF IsDigit(c) THEN c - 48 ELSE IF c >= 97 THEN c - 87 ELSE c - 55

\* Mutant: a last character without a partner is passed over.
hex_decode_odd(str, bufsize) ==
  LET pairs == Len(str) \div 2
  IN  IF (\A i \in 1..(2 * pairs) : IsHexChar(str[i])) /\ pairs = bufsize
      THEN Ok([i \in 1..pairs |-> 16 * char_to_hex(str[2 * i - 1]) + char_to_hex(str[2 * i])])
      ELSE Failed

\* A byte from every pair of characters, while there are pairs and room; all
\* of both must be used up.
hex_decode(str, bufsize) ==
  LET pairs == Len(str) \div 2
  IN  IF (\A i \in 1..(2 * pairs) : IsHexChar(str[i])) /\ pairs = bufsize /\ Len(str) % 2 = 0
      THEN Ok([i \in 1..pairs |-> 16 * char_to_hex(str[2 * i - 1]) + char_to_hex(str[2 * i])])
      ELSE Failed

hexchar(val) == IF val < 10 THEN 48 + val ELSE 87 + val

\* Two characters for every byte, the upper half first.
hex_chars(buf) ==
  [i \in 1..(2 * Len(buf)) |->
     LET c == buf[(i + 1) \div 2] IN hexchar(IF i % 2 = 1 THEN c \div 16 ELSE c % 16)]

hex_str_size(bytes) == 2 * bytes + 1

\* Nothing is written unless the characters and the byte behind them fit.
hex_encode(buf, destsize) ==
  IF destsize < hex_str_size(Len(buf)) THEN Failed ELSE Ok(hex_chars(buf))

----------------------------------------------------------------------------
(* proof.h *)

\* 7 less the shifts that leave something of the byte.
zero_bits(b) ==
  IF b = 0 THEN 8
  ELSE LET n == CHOOSE k \in 0..7 : b \div 2^k = 1 IN 7 - n

\* Mutant: the loop does not stop at the first byte that is not zero.
count_all_zero_bits(hash) ==
  LET total[i \in 0..Len(hash)] == IF i = 0 THEN 0 ELSE total[i - 1] + zero_bits(hash[i])
  IN  total[Len(hash)]

\* total[i] is what the loop has counted after i bytes: it stops counting
\* behind the first byte that has a one.
count_leading_zero_bits(hash) ==
  LET total[i \in 0..Len(hash)] ==
        IF i = 0 THEN 0
        ELSE IF \E j \in 1..(i - 1) : zero_bits(hash[j]) # 8 THEN total[i - 1]
        ELSE total[i - 1] + zero_bits(hash[i])
  IN  total[Len(hash)]

----------------------------------------------------------------------------
(* base64.c; a letter of the alphabet stands for the number it encodes *)

Pad == -1   \* '='

encode_triplet(a, b, c) ==
  <<a \div 4, (a % 4) * 16 + b \div 16, c \div 64 + (b % 16) * 4, c % 64>>

\* A tail of one or two bytes, filled up with zeros; what the zeros alone
\* have put out is padding.
encode_tail(src) ==
  LET At(i) == IF i <= Len(src) THEN src[i] ELSE 0
      dest == encode_triplet(At(1), At(2), At(3))
  IN  [i \in 1..4 |-> IF i <= Len(src) + 1 THEN dest[i] ELSE Pad]

base64_encoded_length(srclen) == ((srclen + 2) \div 3) * 4

\* The four letters at place g: of the triplet there, or of the tail.
encode_group(src, g) ==
  IF 3 * g + 3 <= Len(src) THEN encode_triplet(src[3 * g + 1], src[3 * g + 2], src[3 * g + 3])
  ELSE encode_tail(SubSeq(src, 3 * g + 1, Len(src)))

\* Mutant: a tail of two bytes is left out.
base64_letters_short(src) ==
  LET groups == Len(src) \div 3 + (IF Len(src) % 3 = 1 THEN 1 ELSE 0)
  IN  [i \in 1..(4 * groups) |-> encode_group(src, (i - 1) \div 4)[((i - 1) % 4) + 1]]

\* A group for every triplet, and one more while bytes are left.
base64_letters(src) ==
  LET whole == Len(src) \div 3
      groups == IF 3 * whole < Len(src) THEN whole + 1 ELSE whole
  IN  [i \in 1..(4 * groups) |-> encode_group(src, (i - 1) \div 4)[((i - 1) % 4) + 1]]

\* The text and its length, or -1 if it does not fit.
base64_encode(src, destlen) ==
  IF destlen < base64_encoded_length(Len(src)) THEN Failed ELSE Ok(base64_letters(src))

----------------------------------------------------------------------------
(* cursor.h and the JSON strings of nostri.c: a cursor is what has been     *)
(* pushed into a buffer of "room" bytes                                     *)

\* A push that fails leaves what has been written.
Full(cur) == [cur EXCEPT !.ok = FALSE]

cursor_push_byte(cur, room, c) ==
  IF cur.ok /\ Len(cur.out) + 1 <= room THEN Ok(Append(cur.out, c)) ELSE Full(cur)

\* Mutant: the bound is looked at before the first byte only.
cursor_push_unbounded(cur, room, s) ==
  IF cur.ok /\ Len(cur.out) < room THEN Ok(cur.out \o s) ELSE Full(cur)

\* cursor_push, which never fills the last byte.
cursor_push_str(cur, room, s) ==
  IF cur.ok /\ Len(cur.out) + Len(s) < room THEN Ok(cur.out \o s) ELSE Full(cur)

\* The characters that are escaped, and the letter behind the backslash.
Escapes == [c \in {34, 92, 8, 12, 10, 13, 9} |->
              CASE c = 34 -> 34 [] c = 92 -> 92 [] c = 8 -> 98 [] c = 12 -> 102
                [] c = 10 -> 110 [] c = 13 -> 114 [] c = 9 -> 116]

cursor_push_escaped_char(cur, room, c) ==
  IF c \in DOMAIN Escapes THEN cursor_push_str(cur, room, <<92, Escapes[c]>>)
  ELSE cursor_push_byte(cur, room, c)

\* The cursor when i characters have been pushed behind the quote: a failed
\* push leaves it as it is for the rest.  The text is there: it is not NULL.
cursor_push_jsonstr(str, room) ==
  LET cur[i \in 0..Len(str)] ==
        IF i = 0 THEN cursor_push_byte(Ok(<<>>), room, 34)
        ELSE cursor_push_escaped_char(cur[i - 1], room, str[i])
  IN  cursor_push_byte(cur[Len(str)], room, 34)

\* What a JSON parser makes of a text that is a string (external): it refuses
\* a quote inside, control characters and unknown escapes.
Wrong == <<-1>>

Unescape(e) ==
  IF \E c \in DOMAIN Escapes : Escapes[c] = e
  THEN <<CHOOSE c \in DOMAIN Escapes : Escapes[c] = e>> ELSE Wrong

ParseString(text) ==
  LET From[i \in 2..(Len(text) + 1)] ==
        IF i > Len(text) THEN Wrong
        ELSE IF text[i] = 34 THEN IF i = Len(text) THEN <<>> ELSE Wrong
        ELSE IF text[i] = 92 THEN IF i < Len(text) THEN Unescape(text[i + 1]) \o From[i + 2] ELSE Wrong
        ELSE IF text[i] < 32 THEN Wrong \o From[i + 1]
        ELSE <<text[i]>> \o From[i + 1]
  IN  From[2]

----------------------------------------------------------------------------
(* Properties *)

\* The k-th bit of the input, from 0, the most significant first.
Bit(s, k) == IF k >= 8 * Len(s) THEN 0 ELSE (s[k \div 8 + 1] \div 2^(7 - (k % 8))) % 2

\* Hexadecimal is exact (hex.h:22-74): bytes are encoded when the text and the
\* byte that ends it fit, come back from that text at their own size and at no
\* other, and a text that is accepted for a size is a spelling, in letters of
\* either case, of the bytes it gives, nothing left over.
HexInverse ==
  LET Lower(str) == [i \in DOMAIN str |-> IF str[i] \in 65..70 THEN str[i] + 32 ELSE str[i]]
  IN  \A n \in 0..(MaxLen + 1) :
        /\ \A room \in 0..(2 * MaxLen + 2) :
             LET text == hex_encode(input, room)
             IN  /\ text.ok <=> 2 * Len(input) < room
                 /\ text.ok => hex_decode(text.out, n) = IF n = Len(input) THEN Ok(input) ELSE Failed
        /\ hex_decode(input, n).ok =>
             /\ Len(hex_decode(input, n).out) = n
             /\ hex_encode(hex_decode(input, n).out, Len(input) + 1) = Ok(Lower(input))

\* The difficulty of an id (proof.h:1-27): as many bits are counted as there
\* are before the first one that is set, across the bytes of the hash.
LeadingZeros ==
  LET z == count_leading_zero_bits(input)
      bits == 8 * Len(input)
  IN  /\ z \in 0..bits /\ \A k \in 0..(z - 1) : Bit(input, k) = 0
      /\ z < bits => Bit(input, z) = 1

\* Base64 (base64.c:60-119): the letters are the groups of six bits of the
\* input, zeros behind its end, padded to the length that make_encrypted_dm
\* reserved, with nothing of the input lost to the padding and nothing written
\* behind the end of the buffer, of whatever size.
Base64Digits ==
  LET At(i, k) == Bit(input, 6 * (i - 1) + k)
      Digit(i) == 32 * At(i, 0) + 16 * At(i, 1) + 8 * At(i, 2) + 4 * At(i, 3) + 2 * At(i, 4) + At(i, 5)
  IN  \A room \in 0..(2 * MaxLen + 4) :
        LET text == base64_encode(input, room)
        IN  /\ text.ok <=> base64_encoded_length(Len(input)) <= room
            /\ text.ok =>
                 /\ Len(text.out) = base64_encoded_length(Len(input))
                 /\ \A i \in DOMAIN text.out :
                      text.out[i] = IF 6 * (i - 1) < 8 * Len(input) THEN Digit(i) ELSE Pad

\* A text that C can hold, whose control characters are among the escaped ones.
Printable(s) == \A i \in DOMAIN s : s[i] >= 32 \/ s[i] \in DOMAIN Escapes

\* Strings survive JSON (nostri.c:26-72): for every size of the buffer, whatever
\* is written stays inside it, also if the text does not fit, and a parser reads
\* back the very text; with a byte to spare it always fits.
JsonInverse ==
  \A room \in 0..(2 * MaxLen + 3) :
    LET json == cursor_push_jsonstr(input, room)
    IN  /\ Len(json.out) <= room
        /\ json.ok /\ Printable(input) => ParseString(json.out) = input
        /\ room > 2 * Len(input) + 2 => json.ok
=============================================================================
