---------------------------- MODULE CodecProofs -----------------------------
(* Theorems about the conversions, for every set of bytes and every length   *)
(* of the input.                                                             *)
EXTENDS Codec, SequenceTheorems, WellFoundedInduction, TLAPS

----------------------------------------------------------------------------
(* The input, and induction *)

\* What the behaviour has put together is a text of bytes.
InputInv == input \in Seq(0..255) /\ Len(input) <= MaxLen

LEMMA InputAlways == Spec => []InputInv
<1>1. Init => InputInv
  BY CodecAssumption DEF Init, InputInv
<1>2. InputInv /\ [Next]_input => InputInv'
  <2> SUFFICES ASSUME InputInv, [Next]_input PROVE InputInv' OBVIOUS
  <2>1. CASE UNCHANGED input BY <2>1 DEF InputInv
  <2>2. CASE Next
    <3>1. PICK b \in Byte : input' = Append(input, b) BY <2>2 DEF Next
    <3>2. b \in 0..255 BY CodecAssumption
    <3>3. input' \in Seq(0..255) /\ Len(input') = Len(input) + 1
      BY <3>1, <3>2, AppendProperties DEF InputInv
    <3>4. Len(input) < MaxLen /\ Len(input) \in Nat /\ MaxLen \in Nat
      BY <2>2, CodecAssumption DEF Next, InputInv
    <3> QED BY <3>3, <3>4 DEF InputInv
  <2> QED BY <2>1, <2>2
<1> QED BY <1>1, <1>2, PTL DEF Spec

\* A set of numbers with a member has a least one.
LEMMA LeastNumber ==
  ASSUME NEW T \in SUBSET Nat, T # {}
  PROVE  \E x \in T : \A y \in T : x <= y
<1> DEFINE R == OpToRel(<, Nat)
<1>1. PICK x \in T : \A y \in T : ~(<<y, x>> \in R)
  BY NatLessThanWellFounded, WFMin
<1>2. \A a, b \in Nat : a < b => <<a, b>> \in R
  BY DEF OpToRel
<1> HIDE DEF R
<1>3. ASSUME NEW y \in T PROVE x <= y
  <2>1. x \in Nat /\ y \in Nat OBVIOUS
  <2>2. ~(y < x) BY <2>1, <1>1, <1>2
  <2> QED BY <2>1, <2>2
<1> QED BY <1>3

\* A set that has 0 and the successors of its members has every number.
LEMMA Induction ==
  ASSUME NEW S, 0 \in S, \A n \in Nat : n \in S => n + 1 \in S
  PROVE  \A n \in Nat : n \in S
<1> DEFINE T == Nat \ S
<1> SUFFICES ASSUME T # {} PROVE FALSE OBVIOUS
<1>1. PICK x \in T : \A y \in T : x <= y BY LeastNumber
<1>2. x \in Nat /\ x # 0 OBVIOUS
<1>3. x - 1 \in Nat /\ ~(x <= x - 1) /\ (x - 1) + 1 = x BY <1>2
<1>4. x - 1 \in S BY <1>1, <1>3
<1> QED BY <1>3, <1>4

----------------------------------------------------------------------------
(* Hexadecimal *)

\* The two characters of a byte are characters of hexadecimal, and give it back.
LEMMA HexByte ==
  ASSUME NEW b \in 0..255
  PROVE  /\ IsHexChar(hexchar(b \div 16)) /\ IsHexChar(hexchar(b % 16))
         /\ 16 * char_to_hex(hexchar(b \div 16)) + char_to_hex(hexchar(b % 16)) = b
<1>1. ASSUME NEW v \in 0..15
      PROVE  IsHexChar(hexchar(v)) /\ char_to_hex(hexchar(v)) = v
  BY DEF IsHexChar, IsDigit, hexchar, char_to_hex
<1>2. b \div 16 \in 0..15 /\ b % 16 \in 0..15 /\ b = 16 * (b \div 16) + (b % 16) OBVIOUS
<1> QED BY <1>1, <1>2

ByteOf(c, d) == 16 * char_to_hex(c) + char_to_hex(d)
LowerCase(c) == IF c \in 65..70 THEN c + 32 ELSE c

\* The characters that a byte is encoded by are c and d, in lower case.
Spells(c, d, b) == b \in 0..255 /\ hexchar(b \div 16) = LowerCase(c) /\ hexchar(b % 16) = LowerCase(d)

\* Two characters give a byte, whose halves are theirs.
LEMMA HexPair ==
  ASSUME NEW c \in 0..255, NEW d \in 0..255, IsHexChar(c), IsHexChar(d)
  PROVE  Spells(c, d, ByteOf(c, d))
<1>1. ASSUME NEW x \in 0..255, IsHexChar(x)
      PROVE  char_to_hex(x) \in 0..15 /\ hexchar(char_to_hex(x)) = LowerCase(x)
  BY <1>1 DEF IsHexChar, IsDigit, hexchar, char_to_hex, LowerCase
<1>2. char_to_hex(c) \in 0..15 /\ char_to_hex(d) \in 0..15 BY <1>1
<1>3. ASSUME NEW x \in 0..15, NEW y \in 0..15
      PROVE  16 * x + y \in 0..255 /\ (16 * x + y) \div 16 = x /\ (16 * x + y) % 16 = y
  OBVIOUS
<1>4. /\ ByteOf(c, d) \in 0..255
      /\ ByteOf(c, d) \div 16 = char_to_hex(c)
      /\ ByteOf(c, d) % 16 = char_to_hex(d)
  BY <1>2, <1>3 DEF ByteOf
<1> QED BY <1>1, <1>4 DEF Spells

\* Where the two characters of the i-th byte are.
LEMMA HexEncodeShape ==
  ASSUME NEW s \in Seq(0..255)
  PROVE  /\ hex_chars(s) \in [1..(2 * Len(s)) -> Int]
         /\ \A i \in 1..Len(s) :
              /\ hex_chars(s)[2 * i - 1] = hexchar(s[i] \div 16)
              /\ hex_chars(s)[2 * i] = hexchar(s[i] % 16)
<1> DEFINE n == Len(s)
<1>1. n \in Nat OBVIOUS
<1>2. ASSUME NEW i \in 1..(2 * n)
      PROVE  (i + 1) \div 2 \in 1..n
  BY <1>1
<1>3. ASSUME NEW b \in 0..255 PROVE hexchar(b \div 16) \in Int /\ hexchar(b % 16) \in Int
  BY DEF hexchar
<1>4. ASSUME NEW i \in 1..(2 * n)
      PROVE  hexchar(IF i % 2 = 1 THEN s[(i + 1) \div 2] \div 16 ELSE s[(i + 1) \div 2] % 16) \in Int
  <2>1. s[(i + 1) \div 2] \in 0..255
    <3> DEFINE j == (i + 1) \div 2
    <3>1. j \in 1..n BY <1>2
    <3> HIDE DEF j
    <3>2. s[j] \in 0..255 BY <3>1, ElementOfSeq
    <3> QED BY <3>2 DEF j
  <2> QED BY <2>1, <1>3
<1>5. ASSUME NEW i \in 1..n
      PROVE  /\ 2 * i - 1 \in 1..(2 * n) /\ (2 * i - 1) % 2 = 1 /\ ((2 * i - 1) + 1) \div 2 = i
             /\ 2 * i \in 1..(2 * n) /\ (2 * i) % 2 = 0 /\ (2 * i + 1) \div 2 = i
  BY <1>1
<1> DEFINE f == [i \in 1..(2 * n) |-> hexchar(IF i % 2 = 1 THEN s[(i + 1) \div 2] \div 16 ELSE s[(i + 1) \div 2] % 16)]
<1>6. hex_chars(s) = f BY DEF hex_chars
<1>7. f \in [1..(2 * n) -> Int] BY <1>4
<1>8. ASSUME NEW i \in 1..n
      PROVE  f[2 * i - 1] = hexchar(s[i] \div 16) /\ f[2 * i] = hexchar(s[i] % 16)
  <2> HIDE DEF n
  <2> QED BY <1>5
<1> HIDE DEF f
<1> QED BY <1>6, <1>7, <1>8

\* Decoding what was encoded.
LEMMA HexDecodeEncode ==
  ASSUME NEW s \in Seq(0..255), NEW n \in Nat
  PROVE  hex_decode(hex_chars(s), n) = IF n = Len(s) THEN Ok(s) ELSE Failed
<1> DEFINE t == hex_chars(s)
           m == Len(s)
           out == [i \in 1..m |-> 16 * char_to_hex(t[2 * i - 1]) + char_to_hex(t[2 * i])]
<1>1. m \in Nat /\ s = [i \in 1..m |-> s[i]] /\ \A i \in 1..m : s[i] \in 0..255
  <2>1. m \in Nat BY LenProperties
  <2>2. s = [i \in 1..m |-> s[i]] BY LenProperties
  <2>3. \A i \in 1..m : s[i] \in 0..255 BY ElementOfSeq
  <2> QED BY <2>1, <2>2, <2>3
<1>2. t \in Seq(Int) /\ Len(t) = 2 * m
  <2>1. 2 * m \in Nat BY <1>1
  <2>2. t \in [1..(2 * m) -> Int] BY HexEncodeShape
  <2> HIDE DEF t, m
  <2> QED BY <2>1, <2>2, IsASeq
<1>3. (2 * m) \div 2 = m /\ (2 * m) % 2 = 0
  <2> HIDE DEF m
  <2> QED BY <1>1
<1>4. ASSUME NEW i \in 1..m
      PROVE  t[2 * i - 1] = hexchar(s[i] \div 16) /\ t[2 * i] = hexchar(s[i] % 16)
  BY HexEncodeShape
<1> HIDE DEF t
<1>5. ASSUME NEW i \in 1..(2 * m) PROVE IsHexChar(t[i])
  <2> DEFINE j == (i + 1) \div 2
  <2>1. j \in 1..m /\ (i = 2 * j - 1 \/ i = 2 * j)
    <3> HIDE DEF m
    <3>1. m \in Nat /\ i \in 1..(2 * m) BY <1>1
    <3> QED BY <3>1
  <2> HIDE DEF j, m
  <2>2. s[j] \in 0..255 BY <1>1, <2>1
  <2>3. IsHexChar(t[2 * j - 1]) /\ IsHexChar(t[2 * j]) BY <2>1, <2>2, <1>4, HexByte
  <2> QED BY <2>1, <2>3
<1>6. out = s
  <2>1. ASSUME NEW i \in 1..m
        PROVE  16 * char_to_hex(t[2 * i - 1]) + char_to_hex(t[2 * i]) = s[i]
    BY <1>1, <1>4, HexByte
  <2> HIDE DEF m
  <2> QED BY <2>1, <1>1
<1> HIDE DEF m
<1>7. hex_decode(t, n) = IF m = n THEN Ok(out) ELSE Failed
  BY <1>2, <1>3, <1>5 DEF hex_decode
<1> HIDE DEF out
<1> QED BY <1>6, <1>7 DEF t, m

\* What is decoded is spelled by the text.
LEMMA HexEncodeDecode ==
  ASSUME NEW s \in Seq(0..255), NEW n \in Nat, hex_decode(s, n).ok
  PROVE  /\ Len(hex_decode(s, n).out) = n
         /\ hex_chars(hex_decode(s, n).out) = [i \in DOMAIN s |-> IF s[i] \in 65..70 THEN s[i] + 32 ELSE s[i]]
<1> DEFINE out == [i \in 1..n |-> 16 * char_to_hex(s[2 * i - 1]) + char_to_hex(s[2 * i])]
<1>1. /\ Len(s) \div 2 = n /\ Len(s) % 2 = 0 /\ hex_decode(s, n) = Ok(out)
      /\ \A i \in 1..(2 * n) : IsHexChar(s[i])
  BY DEF hex_decode, Failed
<1>2. Len(s) = 2 * n BY <1>1
<1>3. ASSUME NEW i \in 1..n
      PROVE  /\ out[i] \in 0..255
             /\ hexchar(out[i] \div 16) = LowerCase(s[2 * i - 1])
             /\ hexchar(out[i] % 16) = LowerCase(s[2 * i])
  <2>1. 2 * i - 1 \in 1..(2 * n) /\ 2 * i \in 1..(2 * n) OBVIOUS
  <2>2. s[2 * i - 1] \in 0..255 /\ s[2 * i] \in 0..255 BY <2>1, <1>2, ElementOfSeq
  <2>3. IsHexChar(s[2 * i - 1]) /\ IsHexChar(s[2 * i]) BY <2>1, <1>1
  <2>4. out[i] = ByteOf(s[2 * i - 1], s[2 * i]) BY DEF ByteOf
  <2> DEFINE c == s[2 * i - 1]
             d == s[2 * i]
             b == out[i]
  <2>5. c \in 0..255 /\ d \in 0..255 /\ IsHexChar(c) /\ IsHexChar(d) /\ b = ByteOf(c, d)
    BY <2>2, <2>3, <2>4
  <2> HIDE DEF out, b, c, d
  <2>6. Spells(c, d, ByteOf(c, d)) BY <2>5, HexPair, Zenon
  <2>7. Spells(c, d, b) BY <2>5, <2>6, Zenon
  <2> QED BY <2>7 DEF Spells, b, c, d
<1>4. out \in Seq(0..255) /\ Len(out) = n
  <2>1. out \in [1..n -> 0..255] BY <1>3
  <2> HIDE DEF out
  <2> QED BY <2>1, IsASeq
<1>5. Ok(out).out = out BY DEF Ok
<1> HIDE DEF out
<1> DEFINE t == hex_chars(out)
<1>6. t \in [1..(2 * n) -> Int] BY <1>4, HexEncodeShape
<1>7. ASSUME NEW i \in 1..n
      PROVE  t[2 * i - 1] = LowerCase(s[2 * i - 1]) /\ t[2 * i] = LowerCase(s[2 * i])
  <2>1. i \in 1..Len(out) BY <1>4
  <2>2. t[2 * i - 1] = hexchar(out[i] \div 16) /\ t[2 * i] = hexchar(out[i] % 16)
    BY <2>1, <1>4, HexEncodeShape
  <2> QED BY <2>2, <1>3
<1> HIDE DEF t
<1>8. ASSUME NEW i \in 1..(2 * n) PROVE t[i] = LowerCase(s[i])
  <2> DEFINE j == (i + 1) \div 2
  <2>1. j \in 1..n /\ (i = 2 * j - 1 \/ i = 2 * j) OBVIOUS
  <2> HIDE DEF j
  <2> QED BY <2>1, <1>7
<1>9. t = [i \in 1..(2 * n) |-> LowerCase(s[i])] BY <1>6, <1>8
<1>10. DOMAIN s = 1..(2 * n) BY <1>2
<1> QED BY <1>1, <1>4, <1>5, <1>9, <1>10 DEF t, LowerCase

\* Hexadecimal is exact for inputs of every length (hex.h:22-74): bytes come
\* back from their text at their own size and at no other, and an accepted text
\* spells the bytes it gives.
THEOREM HexIsExact == Spec => []HexInverse
<1>1. InputInv => HexInverse
  <2> DEFINE Lower(str) == [i \in DOMAIN str |-> IF str[i] \in 65..70 THEN str[i] + 32 ELSE str[i]]
  <2> SUFFICES ASSUME InputInv, NEW n \in 0..(MaxLen + 1)
               PROVE  /\ \A room \in 0..(2 * MaxLen + 2) :
                           /\ hex_encode(input, room).ok <=> 2 * Len(input) < room
                           /\ hex_encode(input, room).ok =>
                                hex_decode(hex_encode(input, room).out, n)
                                  = IF n = Len(input) THEN Ok(input) ELSE Failed
                      /\ hex_decode(input, n).ok =>
                           /\ Len(hex_decode(input, n).out) = n
                           /\ hex_encode(hex_decode(input, n).out, Len(input) + 1) = Ok(Lower(input))
    BY DEF HexInverse
  <2>1. n \in Nat /\ MaxLen \in Nat /\ input \in Seq(0..255) /\ Len(input) \in Nat
    BY CodecAssumption DEF InputInv
  <2>2. hex_decode(hex_chars(input), n) = IF n = Len(input) THEN Ok(input) ELSE Failed
    BY <2>1, HexDecodeEncode
  <2>3. ASSUME NEW room \in 0..(2 * MaxLen + 2)
        PROVE  /\ hex_encode(input, room).ok <=> 2 * Len(input) < room
               /\ hex_encode(input, room).ok => hex_encode(input, room).out = hex_chars(input)
    <3>1. room < hex_str_size(Len(input)) <=> ~(2 * Len(input) < room)
      BY <2>1 DEF hex_str_size
    <3> QED BY <3>1 DEF hex_encode, Ok, Failed
  <2>4. ASSUME hex_decode(input, n).ok
        PROVE  /\ Len(hex_decode(input, n).out) = n
               /\ hex_encode(hex_decode(input, n).out, Len(input) + 1) = Ok(Lower(input))
    <3>1. Len(hex_decode(input, n).out) = n /\ hex_chars(hex_decode(input, n).out) = Lower(input)
      BY <2>1, <2>4, HexEncodeDecode
    <3>2. Len(input) \div 2 = n /\ Len(input) % 2 = 0 BY <2>4 DEF hex_decode, Failed
    <3>3. ~(Len(input) + 1 < hex_str_size(n)) BY <2>1, <3>2 DEF hex_str_size
    <3> QED BY <3>1, <3>3 DEF hex_encode
  <2> QED BY <2>2, <2>3, <2>4
<1> QED BY <1>1, InputAlways, PTL

----------------------------------------------------------------------------
(* Recursive functions *)

IsRun(f, N, V, v, F) == f \in [0..N -> V] /\ f[0] = v /\ \A i \in 1..N : f[i] = F[i][f[i - 1]]

\* A loop that computes a member of V from the one before has a result after
\* every one of its N rounds.
LEMMA Recursion ==
  ASSUME NEW N \in Nat, NEW V, NEW v \in V, NEW F \in [1..N -> [V -> V]]
  PROVE  \E f : IsRun(f, N, V, v, F)
<1> DEFINE Run(f, n) == f \in [0..n -> V] /\ f[0] = v /\ \A i \in 1..n : f[i] = F[i][f[i - 1]]
           S == {n \in Nat : n <= N => \E f : Run(f, n)}
<1>1. 0 \in S
  <2> DEFINE f == [i \in 0..0 |-> v]
  <2>1. Run(f, 0) OBVIOUS
  <2> HIDE DEF f, Run
  <2> QED BY <2>1
<1>2. ASSUME NEW n \in Nat, n \in S PROVE n + 1 \in S
  <2> SUFFICES ASSUME n + 1 <= N PROVE \E f : Run(f, n + 1) OBVIOUS
  <2>1. PICK f : Run(f, n) BY <1>2
  <2> DEFINE g == [i \in 0..(n + 1) |-> IF i = n + 1 THEN F[n + 1][f[n]] ELSE f[i]]
  <2>2. f \in [0..n -> V] /\ f[0] = v /\ \A i \in 1..n : f[i] = F[i][f[i - 1]] BY <2>1
  <2>3. F[n + 1] \in [V -> V] /\ f[n] \in V
    <3>1. n + 1 \in 1..N /\ n \in 0..n OBVIOUS
    <3> QED BY <3>1, <2>2
  <2>4. F[n + 1][f[n]] \in V BY <2>3
  <2>5. g \in [0..(n + 1) -> V] /\ g[0] = v /\ g[n + 1] = F[n + 1][f[n]] /\ \A i \in 0..n : g[i] = f[i]
    BY <2>2, <2>4
  <2> HIDE DEF g
  <2>6. ASSUME NEW i \in 1..(n + 1) PROVE g[i] = F[i][g[i - 1]]
    <3>1. CASE i = n + 1
      <4>1. i - 1 = n /\ n \in 0..n BY <3>1
      <4> QED BY <4>1, <3>1, <2>5
    <3>2. CASE i # n + 1
      <4>1. i \in 1..n /\ i \in 0..n /\ i - 1 \in 0..n BY <3>2
      <4> QED BY <4>1, <2>2, <2>5
    <3> QED BY <3>1, <3>2
  <2>7. Run(g, n + 1) BY <2>5, <2>6
  <2> HIDE DEF Run
  <2> QED BY <2>7
<1> HIDE DEF S
<1>3. N \in S BY <1>1, <1>2, Induction
<1> QED BY <1>3 DEF S, IsRun

----------------------------------------------------------------------------
(* Zero bits *)

ByteBit(b, k) == (b \div 2^(7 - k)) % 2

\* The powers that shifts of a byte divide by.
LEMMA Powers == /\ 2^0 = 1 /\ 2^1 = 2 /\ 2^2 = 4 /\ 2^3 = 8
                /\ 2^4 = 16 /\ 2^5 = 32 /\ 2^6 = 64 /\ 2^7 = 128
OBVIOUS

\* The bits of a byte, the most significant first.
LEMMA ByteBits ==
  ASSUME NEW b \in 0..255
  PROVE  /\ ByteBit(b, 0) = (b \div 128) % 2 /\ ByteBit(b, 1) = (b \div 64) % 2
         /\ ByteBit(b, 2) = (b \div 32) % 2 /\ ByteBit(b, 3) = (b \div 16) % 2
         /\ ByteBit(b, 4) = (b \div 8) % 2 /\ ByteBit(b, 5) = (b \div 4) % 2
         /\ ByteBit(b, 6) = (b \div 2) % 2 /\ ByteBit(b, 7) = b % 2
BY Powers DEF ByteBit

\* zero_bits is the place of the first bit that is set.
LEMMA ZeroBits ==
  ASSUME NEW b \in 0..255
  PROVE  /\ zero_bits(b) \in 0..8 /\ (zero_bits(b) = 8 <=> b = 0)
         /\ \A k \in 0..7 : k < zero_bits(b) => ByteBit(b, k) = 0
         /\ b # 0 => ByteBit(b, zero_bits(b)) = 1
<1>1. CASE b = 0
  <2>1. zero_bits(b) = 8 BY <1>1 DEF zero_bits
  <2>2. ASSUME NEW k \in 0..7 PROVE ByteBit(0, k) = 0
    <3>1. k \in {0, 1, 2, 3, 4, 5, 6, 7} OBVIOUS
    <3> QED BY <3>1, ByteBits
  <2> QED BY <1>1, <2>1, <2>2
<1>2. CASE b # 0
  <2> DEFINE n == CHOOSE k \in 0..7 : b \div 2^k = 1
  <2>1. \E k \in 0..7 : b \div 2^k = 1
    <3>1. CASE b \in 1..1 BY <3>1, Powers
    <3>2. CASE b \in 2..3 BY <3>2, Powers
    <3>3. CASE b \in 4..7 BY <3>3, Powers
    <3>4. CASE b \in 8..15 BY <3>4, Powers
    <3>5. CASE b \in 16..31 BY <3>5, Powers
    <3>6. CASE b \in 32..63 BY <3>6, Powers
    <3>7. CASE b \in 64..127 BY <3>7, Powers
    <3>8. CASE b \in 128..255 BY <3>8, Powers
    <3> QED BY <1>2, <3>1, <3>2, <3>3, <3>4, <3>5, <3>6, <3>7, <3>8
  <2>2. n \in 0..7 /\ b \div 2^n = 1 BY <2>1
  <2>3. zero_bits(b) = 7 - n BY <1>2 DEF zero_bits
  <2> HIDE DEF n
  <2>4. n \in {0, 1, 2, 3, 4, 5, 6, 7} BY <2>2
  <2>5. ByteBit(b, 7 - n) = 1
    <3>1. 7 - (7 - n) = n BY <2>2
    <3>2. ByteBit(b, 7 - n) = (b \div 2^n) % 2 BY <3>1, Zenon DEF ByteBit
    <3>3. ByteBit(b, 7 - n) = 1 % 2 BY <2>2, <3>2
    <3> QED BY <3>3
  <2>6. ASSUME NEW k \in 0..7, k < 7 - n PROVE ByteBit(b, k) = 0
    <3>1. k \in {0, 1, 2, 3, 4, 5, 6, 7} OBVIOUS
    <3>2. CASE n = 0 BY <2>2, <2>6, <3>1, <3>2, Powers, ByteBits
    <3>3. CASE n = 1 BY <2>2, <2>6, <3>1, <3>3, Powers, ByteBits
    <3>4. CASE n = 2 BY <2>2, <2>6, <3>1, <3>4, Powers, ByteBits
    <3>5. CASE n = 3 BY <2>2, <2>6, <3>1, <3>5, Powers, ByteBits
    <3>6. CASE n = 4 BY <2>2, <2>6, <3>1, <3>6, Powers, ByteBits
    <3>7. CASE n = 5 BY <2>2, <2>6, <3>1, <3>7, Powers, ByteBits
    <3>8. CASE n = 6 BY <2>2, <2>6, <3>1, <3>8, Powers, ByteBits
    <3>9. CASE n = 7 BY <2>6, <3>9
    <3> QED BY <2>4, <3>2, <3>3, <3>4, <3>5, <3>6, <3>7, <3>8, <3>9
  <2> QED BY <1>2, <2>2, <2>3, <2>5, <2>6
<1> QED BY <1>1, <1>2

\* No bit of zero is set.
LEMMA ZeroByte == \A k \in 0..7 : ByteBit(0, k) = 0
<1>1. zero_bits(0) = 8 BY DEF zero_bits
<1>2. 0 \in 0..255 OBVIOUS
<1>3. \A k \in 0..7 : k < zero_bits(0) => ByteBit(0, k) = 0 BY <1>2, ZeroBits, Zenon
<1>4. \A k \in 0..7 : k < 8 OBVIOUS
<1> QED BY <1>1, <1>3, <1>4, Zenon

\* A round of the loop, and what it counts: eight for every byte before the
\* first one that is not zero, and the zero bits of that one.
CountRound(hash, total, i) ==
  IF i = 0 THEN 0
  ELSE IF \E j \in 1..(i - 1) : zero_bits(hash[j]) # 8 THEN total[i - 1]
  ELSE total[i - 1] + zero_bits(hash[i])

FirstSet(hash, f) == f \in 1..Len(hash) /\ hash[f] # 0 /\ \A j \in 1..(f - 1) : hash[j] = 0

LEMMA CountIsLoop ==
  ASSUME NEW hash \in Seq(0..255)
  PROVE  \E total : /\ total = [i \in 0..Len(hash) |-> CountRound(hash, total, i)]
                    /\ count_leading_zero_bits(hash) = total[Len(hash)]
<1> DEFINE n == Len(hash)
           Adds(i) == IF \E j \in 1..(i - 1) : zero_bits(hash[j]) # 8 THEN 0 ELSE zero_bits(hash[i])
           F == [i \in 1..n |-> [v \in Nat |-> v + Adds(i)]]
<1>1. n \in Nat OBVIOUS
<1>2. ASSUME NEW i \in 1..n PROVE Adds(i) \in Nat
  <2>1. hash[i] \in 0..255 BY ElementOfSeq
  <2>2. zero_bits(hash[i]) \in 0..8 BY <2>1, ZeroBits
  <2> QED BY <2>2
<1> HIDE DEF n
<1>3. F \in [1..n -> [Nat -> Nat]]
  <2> HIDE DEF Adds
  <2> QED BY <1>2
<1> HIDE DEF F
<1>10. PICK f : IsRun(f, n, Nat, 0, F)
  <2>1. 0 \in Nat OBVIOUS
  <2> QED BY <1>1, <1>3, <2>1, Recursion, Zenon
<1>4. f \in [0..n -> Nat] /\ f[0] = 0 /\ \A i \in 1..n : f[i] = F[i][f[i - 1]]
  BY <1>10, Zenon DEF IsRun
<1>5. ASSUME NEW i \in 1..n PROVE f[i] = f[i - 1] + Adds(i)
  <2>1. i - 1 \in 0..n /\ i \in 1..n BY <1>1
  <2>2. f[i - 1] \in Nat BY <1>4, <2>1
  <2> HIDE DEF Adds
  <2>3. F[i][f[i - 1]] = f[i - 1] + Adds(i) BY <2>1, <2>2 DEF F
  <2> QED BY <1>4, <2>3
<1>6. ASSUME NEW i \in 0..n PROVE f[i] = CountRound(hash, f, i)
  <2>1. CASE i = 0 BY <1>4, <2>1 DEF CountRound
  <2>2. CASE i # 0
    <3>1. i \in 1..n /\ i - 1 \in 0..n BY <1>1, <2>2
    <3>2. f[i - 1] \in Nat BY <1>4, <3>1
    <3>3. CASE \E j \in 1..(i - 1) : zero_bits(hash[j]) # 8
      <4>1. f[i] = f[i - 1] BY <3>1, <3>2, <3>3, <1>5
      <4> QED BY <4>1, <2>2, <3>3 DEF CountRound
    <3>4. CASE ~\E j \in 1..(i - 1) : zero_bits(hash[j]) # 8
      <4>1. f[i] = f[i - 1] + zero_bits(hash[i]) BY <3>1, <3>4, <1>5
      <4> QED BY <4>1, <2>2, <3>4 DEF CountRound
    <3> QED BY <3>3, <3>4
  <2> QED BY <2>1, <2>2
<1>7. f = [i \in 0..n |-> CountRound(hash, f, i)] BY <1>4, <1>6
<1> DEFINE total == CHOOSE t : t = [i \in 0..n |-> CountRound(hash, t, i)]
<1>8. total = [i \in 0..n |-> CountRound(hash, total, i)] BY <1>7, Zenon
<1>9. count_leading_zero_bits(hash) = total[n]
  BY Zenon DEF count_leading_zero_bits, CountRound, n
<1> HIDE DEF total
<1> QED BY <1>8, <1>9 DEF n

\* The loop counts eight for every byte before the first that is not zero, and
\* the zeros of that one.
LEMMA CountMeaning ==
  ASSUME NEW hash \in Seq(0..255)
  PROVE  /\ (\A j \in 1..Len(hash) : hash[j] = 0) => count_leading_zero_bits(hash) = 8 * Len(hash)
         /\ \A f : FirstSet(hash, f) => count_leading_zero_bits(hash) = 8 * (f - 1) + zero_bits(hash[f])
<1> DEFINE n == Len(hash)
<1>1. PICK total : /\ total = [i \in 0..n |-> CountRound(hash, total, i)]
                   /\ count_leading_zero_bits(hash) = total[n]
  BY CountIsLoop
<1>2. n \in Nat OBVIOUS
<1>3. ASSUME NEW j \in 1..n PROVE hash[j] \in 0..255 /\ zero_bits(hash[j]) \in 0..8 /\ (zero_bits(hash[j]) = 8 <=> hash[j] = 0)
  BY ElementOfSeq, ZeroBits
<1> HIDE DEF n
<1>4. total[0] = 0 BY <1>1, <1>2 DEF CountRound
<1>5. ASSUME NEW i \in 1..n
      PROVE  /\ (\A j \in 1..(i - 1) : hash[j] = 0) => total[i] = total[i - 1] + zero_bits(hash[i])
             /\ (\E j \in 1..(i - 1) : hash[j] # 0) => total[i] = total[i - 1]
  <2>1. total[i] = CountRound(hash, total, i)
    <3>1. i \in 0..n OBVIOUS
    <3> QED BY <3>1, <1>1
  <2>2. \A j \in 1..(i - 1) : j \in 1..n BY <1>2
  <2>3. \A j \in 1..(i - 1) : zero_bits(hash[j]) = 8 <=> hash[j] = 0 BY <2>2, <1>3
  <2> QED BY <2>1, <2>3 DEF CountRound
<1> DEFINE P(i) == /\ (\A j \in 1..i : hash[j] = 0) => total[i] = 8 * i
                   /\ \A f \in 1..i : FirstSet(hash, f) => total[i] = 8 * (f - 1) + zero_bits(hash[f])
           S == {i \in Nat : i <= n => P(i)}
<1>6. 0 \in S BY <1>4
<1>7. ASSUME NEW i \in Nat, i \in S PROVE i + 1 \in S
  <2> SUFFICES ASSUME i + 1 <= n PROVE P(i + 1) OBVIOUS
  <2>1. P(i) /\ i + 1 \in 1..n /\ (i + 1) - 1 = i BY <1>2, <1>7
  <2>2. CASE \A j \in 1..i : hash[j] = 0
    <3>1. total[i] = 8 * i BY <2>1, <2>2
    <3>2. total[i + 1] = 8 * i + zero_bits(hash[i + 1]) BY <2>1, <2>2, <3>1, <1>5
    <3>3. (\A j \in 1..(i + 1) : hash[j] = 0) => total[i + 1] = 8 * (i + 1)
      <4> SUFFICES ASSUME \A j \in 1..(i + 1) : hash[j] = 0 PROVE total[i + 1] = 8 * (i + 1) OBVIOUS
      <4>1. hash[i + 1] = 0 OBVIOUS
      <4>2. zero_bits(hash[i + 1]) = 8 BY <4>1, <2>1, <1>3
      <4> QED BY <4>2, <3>2
    <3>4. ASSUME NEW f \in 1..(i + 1), FirstSet(hash, f) PROVE total[i + 1] = 8 * (f - 1) + zero_bits(hash[f])
      <4>1. f = i + 1 BY <3>4, <2>2 DEF FirstSet
      <4>2. 8 * (f - 1) = 8 * i BY <4>1
      <4> QED BY <4>1, <4>2, <3>2
    <3> QED BY <3>3, <3>4
  <2>3. CASE \E j \in 1..i : hash[j] # 0
    <3>1. total[i + 1] = total[i] BY <2>1, <2>3, <1>5
    <3>2. ~\A j \in 1..(i + 1) : hash[j] = 0 BY <2>3
    <3>3. ASSUME NEW f \in 1..(i + 1), FirstSet(hash, f) PROVE total[i + 1] = 8 * (f - 1) + zero_bits(hash[f])
      <4>1. f \in 1..i BY <3>3, <2>3 DEF FirstSet
      <4> QED BY <4>1, <3>1, <3>3, <2>1
    <3> QED BY <3>2, <3>3
  <2> QED BY <2>2, <2>3
<1> HIDE DEF S
<1>8. n \in S BY <1>2, <1>6, <1>7, Induction
<1>9. P(n) BY <1>2, <1>8 DEF S
<1> QED BY <1>1, <1>9 DEF n, FirstSet

\* Before the place that is counted to, every bit is zero; there, one is set.
LEMMA LeadingZerosOfInput == InputInv => LeadingZeros
<1> SUFFICES ASSUME InputInv PROVE LeadingZeros OBVIOUS
<1> DEFINE n == Len(input)
           z == count_leading_zero_bits(input)
<1>1. input \in Seq(0..255) /\ n \in Nat BY DEF InputInv
<1>2. ASSUME NEW j \in 1..n PROVE input[j] \in 0..255 BY <1>1, ElementOfSeq
<1>3. ASSUME NEW k \in Nat, k < 8 * n
      PROVE  k \div 8 + 1 \in 1..n /\ k % 8 \in 0..7 /\ Bit(input, k) = ByteBit(input[k \div 8 + 1], k % 8)
  <2>1. k \div 8 + 1 \in 1..n /\ k % 8 \in 0..7
    <3> HIDE DEF n
    <3> QED BY <1>1, <1>3
  <2>2. ~(k >= 8 * n)
    <3> HIDE DEF n
    <3> QED BY <1>1, <1>3
  <2> QED BY <2>1, <2>2 DEF Bit, ByteBit
<1>4. CASE \A j \in 1..n : input[j] = 0
  <2>1. z = 8 * n BY <1>1, <1>4, CountMeaning
  <2> HIDE DEF n, z
  <2>2. ASSUME NEW k \in 0..(z - 1) PROVE Bit(input, k) = 0
    <3>1. k \in Nat /\ k < 8 * n BY <1>1, <2>1
    <3>2. input[k \div 8 + 1] = 0 BY <3>1, <1>3, <1>4
    <3> QED BY <3>1, <3>2, <1>3, ZeroByte
  <2> QED BY <1>1, <2>1, <2>2 DEF n, z, LeadingZeros
<1>5. CASE \E j \in 1..n : input[j] # 0
  <2> DEFINE T == {j \in 1..n : input[j] # 0}
  <2>1. PICK f \in T : \A y \in T : f <= y
    <3>1. T \in SUBSET Nat /\ T # {} BY <1>1, <1>5
    <3> HIDE DEF T
    <3> QED BY <3>1, LeastNumber
  <2>2. f \in 1..n /\ input[f] # 0 /\ \A j \in 1..(f - 1) : input[j] = 0
    <3>1. f \in 1..n /\ input[f] # 0 OBVIOUS
    <3>2. ASSUME NEW j \in 1..(f - 1) PROVE input[j] = 0
      <4>1. j \in 1..n /\ ~(f <= j) BY <1>1, <3>1
      <4> QED BY <4>1, <2>1
    <3> QED BY <3>1, <3>2
  <2> HIDE DEF T
  <2> DEFINE b == input[f]
             e == zero_bits(b)
  <2>3. FirstSet(input, f) BY <2>2 DEF FirstSet
  <2>4. z = 8 * (f - 1) + e BY <1>1, <2>3, CountMeaning
  <2>5. b \in 0..255 BY <1>2, <2>2
  <2>6. e \in 0..7 /\ ByteBit(b, e) = 1
    <3>1. e \in 0..8 /\ e # 8 /\ ByteBit(b, e) = 1 BY <2>2, <2>5, ZeroBits
    <3> HIDE DEF e, b
    <3> QED BY <3>1
  <2>7. \A k \in 0..7 : k < e => ByteBit(b, k) = 0 BY <2>5, ZeroBits
  <2> HIDE DEF n, z, e
  <2>8. z \in 0..(8 * n) /\ z < 8 * n /\ z \div 8 + 1 = f /\ z % 8 = e
    BY <1>1, <2>2, <2>4, <2>6
  <2>9. Bit(input, z) = 1
    <3>1. z \in Nat BY <2>8, <1>1
    <3>2. Bit(input, z) = ByteBit(input[z \div 8 + 1], z % 8) BY <3>1, <2>8, <1>3
    <3> QED BY <3>2, <2>6, <2>8
  <2>10. ASSUME NEW k \in 0..(z - 1) PROVE Bit(input, k) = 0
    <3> DEFINE q == k \div 8 + 1
               r == k % 8
    <3>1. k \in Nat /\ k < 8 * n /\ q \in 1..f /\ r \in 0..7 /\ (q = f => r < e)
      BY <1>1, <2>2, <2>4, <2>6, <2>8
    <3>2. Bit(input, k) = ByteBit(input[q], r) BY <3>1, <1>3
    <3> HIDE DEF q, r
    <3>3. CASE q = f BY <3>1, <3>2, <3>3, <2>7
    <3>4. CASE q # f
      <4>1. q \in 1..(f - 1) BY <3>1, <3>4, <2>2
      <4>2. input[q] = 0 BY <4>1, <2>2
      <4> QED BY <3>1, <3>2, <4>2, ZeroByte
    <3> QED BY <3>3, <3>4
  <2> QED BY <2>8, <2>9, <2>10 DEF n, z, LeadingZeros
<1> QED BY <1>4, <1>5

\* The difficulty of an id is the number of bits before the first one that is
\* set, for a hash of any length (proof.h:1-27).
THEOREM LeadingZerosAreCounted == Spec => []LeadingZeros
BY InputAlways, LeadingZerosOfInput, PTL

----------------------------------------------------------------------------
(* Base64 *)

\* The number that six bits of the text, from place k on, write.
SixBits(s, k) ==
  32 * Bit(s, k) + 16 * Bit(s, k + 1) + 8 * Bit(s, k + 2) + 4 * Bit(s, k + 3) + 2 * Bit(s, k + 4) + Bit(s, k + 5)

\* A byte of the text, or the zero behind its end.
ByteAt(s, i) == IF i <= Len(s) THEN s[i] ELSE 0

LEMMA ByteAtType ==
  ASSUME NEW s \in Seq(0..255), NEW i \in Nat \ {0}
  PROVE  ByteAt(s, i) \in 0..255
<1>1. CASE i <= Len(s)
  <2>1. i \in 1..Len(s) BY <1>1
  <2> QED BY <1>1, <2>1, ElementOfSeq DEF ByteAt
<1>2. CASE ~(i <= Len(s)) BY <1>2 DEF ByteAt
<1> QED BY <1>1, <1>2

\* A bit of the text is one of the byte it is in.
LEMMA BitOfByte ==
  ASSUME NEW s \in Seq(0..255), NEW k \in Nat, NEW q \in Nat, NEW r \in 0..7, k = 8 * q + r
  PROVE  Bit(s, k) = ByteBit(ByteAt(s, q + 1), r)
<1> DEFINE n == Len(s)
<1>1. n \in Nat OBVIOUS
<1> HIDE DEF n
<1>2. k \div 8 + 1 = q + 1 /\ k % 8 = r /\ (k >= 8 * n <=> ~(q + 1 <= n)) BY <1>1
<1>3. CASE q + 1 <= n
  <2>1. Bit(s, k) = (s[k \div 8 + 1] \div 2^(7 - (k % 8))) % 2 BY <1>2, <1>3 DEF Bit, n
  <2>2. Bit(s, k) = ByteBit(s[q + 1], r) BY <1>2, <2>1 DEF ByteBit
  <2> QED BY <1>3, <2>2 DEF ByteAt, n
<1>4. CASE ~(q + 1 <= n)
  <2>1. Bit(s, k) = 0 BY <1>2, <1>4 DEF Bit, n
  <2>2. ByteBit(0, r) = 0 BY ZeroByte
  <2> QED BY <1>4, <2>1, <2>2 DEF ByteAt, n
<1> QED BY <1>3, <1>4

\* The parts of a byte, from its bits.
LEMMA ByteSums ==
  ASSUME NEW b \in 0..255
  PROVE  /\ \A k \in 0..7 : ByteBit(b, k) \in 0..1
         /\ b \div 4 = 32 * ByteBit(b, 0) + 16 * ByteBit(b, 1) + 8 * ByteBit(b, 2)
                         + 4 * ByteBit(b, 3) + 2 * ByteBit(b, 4) + ByteBit(b, 5)
         /\ b % 4 = 2 * ByteBit(b, 6) + ByteBit(b, 7)
         /\ b \div 16 = 8 * ByteBit(b, 0) + 4 * ByteBit(b, 1) + 2 * ByteBit(b, 2) + ByteBit(b, 3)
         /\ b % 16 = 8 * ByteBit(b, 4) + 4 * ByteBit(b, 5) + 2 * ByteBit(b, 6) + ByteBit(b, 7)
         /\ b \div 64 = 2 * ByteBit(b, 0) + ByteBit(b, 1)
         /\ b % 64 = 32 * ByteBit(b, 2) + 16 * ByteBit(b, 3) + 8 * ByteBit(b, 4)
                        + 4 * ByteBit(b, 5) + 2 * ByteBit(b, 6) + ByteBit(b, 7)
<1>1. ASSUME NEW k \in 0..7 PROVE ByteBit(b, k) \in 0..1
  <2>1. k \in {0, 1, 2, 3, 4, 5, 6, 7} OBVIOUS
  <2> QED BY <2>1, ByteBits
<1>2. b \div 4 = 32 * ByteBit(b, 0) + 16 * ByteBit(b, 1) + 8 * ByteBit(b, 2)
                    + 4 * ByteBit(b, 3) + 2 * ByteBit(b, 4) + ByteBit(b, 5)
  BY ByteBits
<1>3. b % 4 = 2 * ByteBit(b, 6) + ByteBit(b, 7) BY ByteBits
<1>4. b \div 16 = 8 * ByteBit(b, 0) + 4 * ByteBit(b, 1) + 2 * ByteBit(b, 2) + ByteBit(b, 3) BY ByteBits
<1>5. b % 16 = 8 * ByteBit(b, 4) + 4 * ByteBit(b, 5) + 2 * ByteBit(b, 6) + ByteBit(b, 7) BY ByteBits
<1>6. b \div 64 = 2 * ByteBit(b, 0) + ByteBit(b, 1) BY ByteBits
<1>7. b % 64 = 32 * ByteBit(b, 2) + 16 * ByteBit(b, 3) + 8 * ByteBit(b, 4)
                 + 4 * ByteBit(b, 5) + 2 * ByteBit(b, 6) + ByteBit(b, 7)
  BY ByteBits
<1> QED BY <1>1, <1>2, <1>3, <1>4, <1>5, <1>6, <1>7

GroupBit(s, g, r) == Bit(s, 24 * g + r)

\* The letters of three bytes are the bits, by six.
LEMMA TripletDigits ==
  ASSUME NEW s \in Seq(0..255), NEW g \in Nat, NEW p \in 0..3
  PROVE  encode_triplet(ByteAt(s, 3 * g + 1), ByteAt(s, 3 * g + 2), ByteAt(s, 3 * g + 3))[p + 1]
           = SixBits(s, 24 * g + 6 * p)
<1> DEFINE a == ByteAt(s, 3 * g + 1)
           b == ByteAt(s, 3 * g + 2)
           c == ByteAt(s, 3 * g + 3)
<1>1. a \in 0..255 /\ b \in 0..255 /\ c \in 0..255
  <2>1. 3 * g + 1 \in Nat \ {0} /\ 3 * g + 2 \in Nat \ {0} /\ 3 * g + 3 \in Nat \ {0} OBVIOUS
  <2> QED BY <2>1, ByteAtType, Zenon
<1>2. /\ GroupBit(s, g, 0) = ByteBit(a, 0) /\ GroupBit(s, g, 1) = ByteBit(a, 1) /\ GroupBit(s, g, 2) = ByteBit(a, 2) /\ GroupBit(s, g, 3) = ByteBit(a, 3)
      /\ GroupBit(s, g, 4) = ByteBit(a, 4) /\ GroupBit(s, g, 5) = ByteBit(a, 5) /\ GroupBit(s, g, 6) = ByteBit(a, 6) /\ GroupBit(s, g, 7) = ByteBit(a, 7)
  <2>1. ASSUME NEW r \in 0..7 PROVE GroupBit(s, g, 0 + r) = ByteBit(a, r)
    <3> DEFINE k == 24 * g + (0 + r)
               q == 3 * g + 0
    <3>1. k \in Nat /\ q \in Nat /\ k = 8 * q + r /\ q + 1 = 3 * g + 1 OBVIOUS
    <3> HIDE DEF k, q
    <3>2. Bit(s, k) = ByteBit(ByteAt(s, q + 1), r) BY <3>1, BitOfByte
    <3> QED BY <3>1, <3>2 DEF k, GroupBit
  <2> HIDE DEF a
  <2> QED BY <2>1
<1>3. /\ GroupBit(s, g, 8) = ByteBit(b, 0) /\ GroupBit(s, g, 9) = ByteBit(b, 1) /\ GroupBit(s, g, 10) = ByteBit(b, 2) /\ GroupBit(s, g, 11) = ByteBit(b, 3)
      /\ GroupBit(s, g, 12) = ByteBit(b, 4) /\ GroupBit(s, g, 13) = ByteBit(b, 5) /\ GroupBit(s, g, 14) = ByteBit(b, 6) /\ GroupBit(s, g, 15) = ByteBit(b, 7)
  <2>1. ASSUME NEW r \in 0..7 PROVE GroupBit(s, g, 8 + r) = ByteBit(b, r)
    <3> DEFINE k == 24 * g + (8 + r)
               q == 3 * g + 1
    <3>1. k \in Nat /\ q \in Nat /\ k = 8 * q + r /\ q + 1 = 3 * g + 2 OBVIOUS
    <3> HIDE DEF k, q
    <3>2. Bit(s, k) = ByteBit(ByteAt(s, q + 1), r) BY <3>1, BitOfByte
    <3> QED BY <3>1, <3>2 DEF k, GroupBit
  <2> HIDE DEF b
  <2> QED BY <2>1
<1>4. /\ GroupBit(s, g, 16) = ByteBit(c, 0) /\ GroupBit(s, g, 17) = ByteBit(c, 1) /\ GroupBit(s, g, 18) = ByteBit(c, 2) /\ GroupBit(s, g, 19) = ByteBit(c, 3)
      /\ GroupBit(s, g, 20) = ByteBit(c, 4) /\ GroupBit(s, g, 21) = ByteBit(c, 5) /\ GroupBit(s, g, 22) = ByteBit(c, 6) /\ GroupBit(s, g, 23) = ByteBit(c, 7)
  <2>1. ASSUME NEW r \in 0..7 PROVE GroupBit(s, g, 16 + r) = ByteBit(c, r)
    <3> DEFINE k == 24 * g + (16 + r)
               q == 3 * g + 2
    <3>1. k \in Nat /\ q \in Nat /\ k = 8 * q + r /\ q + 1 = 3 * g + 3 OBVIOUS
    <3> HIDE DEF k, q
    <3>2. Bit(s, k) = ByteBit(ByteAt(s, q + 1), r) BY <3>1, BitOfByte
    <3> QED BY <3>1, <3>2 DEF k, GroupBit
  <2> HIDE DEF c
  <2> QED BY <2>1
<1>16. \A k \in 0..7 : ByteBit(a, k) \in 0..1 /\ ByteBit(b, k) \in 0..1 /\ ByteBit(c, k) \in 0..1
  BY <1>1, ByteSums
<1> HIDE DEF a, b, c
<1>5. a \div 4 = 32 * GroupBit(s, g, 0) + 16 * GroupBit(s, g, 1) + 8 * GroupBit(s, g, 2) + 4 * GroupBit(s, g, 3) + 2 * GroupBit(s, g, 4) + GroupBit(s, g, 5)
  <2>1. a \div 4 = 32 * ByteBit(a, 0) + 16 * ByteBit(a, 1) + 8 * ByteBit(a, 2)
                    + 4 * ByteBit(a, 3) + 2 * ByteBit(a, 4) + ByteBit(a, 5)
    BY <1>1, ByteSums
  <2> QED BY <2>1, <1>2
<1>6. (a % 4) * 16 + b \div 16 = 32 * GroupBit(s, g, 6) + 16 * GroupBit(s, g, 7) + 8 * GroupBit(s, g, 8) + 4 * GroupBit(s, g, 9) + 2 * GroupBit(s, g, 10) + GroupBit(s, g, 11)
  <2>1. a % 4 = 2 * ByteBit(a, 6) + ByteBit(a, 7) BY <1>1, ByteSums
  <2>2. b \div 16 = 8 * ByteBit(b, 0) + 4 * ByteBit(b, 1) + 2 * ByteBit(b, 2) + ByteBit(b, 3)
    BY <1>1, ByteSums
  <2>8. GroupBit(s, g, 6) = ByteBit(a, 6) /\ GroupBit(s, g, 7) = ByteBit(a, 7) BY <1>2
  <2>9. GroupBit(s, g, 8) = ByteBit(b, 0) /\ GroupBit(s, g, 9) = ByteBit(b, 1) /\ GroupBit(s, g, 10) = ByteBit(b, 2) /\ GroupBit(s, g, 11) = ByteBit(b, 3) BY <1>3
  <2>10. 0 \in 0..7 /\ 1 \in 0..7 /\ 2 \in 0..7 /\ 3 \in 0..7 /\ 4 \in 0..7 /\ 5 \in 0..7 /\ 6 \in 0..7 /\ 7 \in 0..7
    OBVIOUS
  <2>3. /\ GroupBit(s, g, 6) \in 0..1 /\ GroupBit(s, g, 7) \in 0..1 /\ GroupBit(s, g, 8) \in 0..1
        /\ GroupBit(s, g, 9) \in 0..1 /\ GroupBit(s, g, 10) \in 0..1 /\ GroupBit(s, g, 11) \in 0..1
    BY <1>16, <2>8, <2>9, <2>10, Zenon
  <2>4. a % 4 = 2 * GroupBit(s, g, 6) + GroupBit(s, g, 7) BY <2>1, <1>2
  <2>5. b \div 16 = 8 * GroupBit(s, g, 8) + 4 * GroupBit(s, g, 9) + 2 * GroupBit(s, g, 10) + GroupBit(s, g, 11) BY <2>2, <1>3
  <2>6. PICK u \in 0..1, v \in 0..1, w \in 0..1, x \in 0..1, y \in 0..1, z \in 0..1 :
          /\ u = GroupBit(s, g, 6) /\ v = GroupBit(s, g, 7) /\ w = GroupBit(s, g, 8)
          /\ x = GroupBit(s, g, 9) /\ y = GroupBit(s, g, 10) /\ z = GroupBit(s, g, 11)
    BY <2>3, Zenon
  <2>7. (2 * u + v) * 16 + (8 * w + 4 * x + 2 * y + z) = 32 * u + 16 * v + 8 * w + 4 * x + 2 * y + z
    OBVIOUS
  <2> QED BY <2>4, <2>5, <2>6, <2>7, Zenon
<1>7. c \div 64 + (b % 16) * 4 = 32 * GroupBit(s, g, 12) + 16 * GroupBit(s, g, 13) + 8 * GroupBit(s, g, 14) + 4 * GroupBit(s, g, 15) + 2 * GroupBit(s, g, 16) + GroupBit(s, g, 17)
  <2>1. b % 16 = 8 * ByteBit(b, 4) + 4 * ByteBit(b, 5) + 2 * ByteBit(b, 6) + ByteBit(b, 7)
    BY <1>1, ByteSums
  <2>2. c \div 64 = 2 * ByteBit(c, 0) + ByteBit(c, 1) BY <1>1, ByteSums
  <2>8. GroupBit(s, g, 12) = ByteBit(b, 4) /\ GroupBit(s, g, 13) = ByteBit(b, 5) /\ GroupBit(s, g, 14) = ByteBit(b, 6) /\ GroupBit(s, g, 15) = ByteBit(b, 7) BY <1>3
  <2>9. GroupBit(s, g, 16) = ByteBit(c, 0) /\ GroupBit(s, g, 17) = ByteBit(c, 1) BY <1>4
  <2>10. 0 \in 0..7 /\ 1 \in 0..7 /\ 2 \in 0..7 /\ 3 \in 0..7 /\ 4 \in 0..7 /\ 5 \in 0..7 /\ 6 \in 0..7 /\ 7 \in 0..7
    OBVIOUS
  <2>3. /\ GroupBit(s, g, 12) \in 0..1 /\ GroupBit(s, g, 13) \in 0..1 /\ GroupBit(s, g, 14) \in 0..1
        /\ GroupBit(s, g, 15) \in 0..1 /\ GroupBit(s, g, 16) \in 0..1 /\ GroupBit(s, g, 17) \in 0..1
    BY <1>16, <2>8, <2>9, <2>10, Zenon
  <2>4. b % 16 = 8 * GroupBit(s, g, 12) + 4 * GroupBit(s, g, 13) + 2 * GroupBit(s, g, 14) + GroupBit(s, g, 15) BY <2>1, <1>3
  <2>5. c \div 64 = 2 * GroupBit(s, g, 16) + GroupBit(s, g, 17) BY <2>2, <1>4
  <2>6. PICK u \in 0..1, v \in 0..1, w \in 0..1, x \in 0..1, y \in 0..1, z \in 0..1 :
          /\ u = GroupBit(s, g, 12) /\ v = GroupBit(s, g, 13) /\ w = GroupBit(s, g, 14)
          /\ x = GroupBit(s, g, 15) /\ y = GroupBit(s, g, 16) /\ z = GroupBit(s, g, 17)
    BY <2>3, Zenon
  <2>7. (2 * y + z) + (8 * u + 4 * v + 2 * w + x) * 4 = 32 * u + 16 * v + 8 * w + 4 * x + 2 * y + z
    OBVIOUS
  <2> QED BY <2>4, <2>5, <2>6, <2>7, Zenon
<1>8. c % 64 = 32 * GroupBit(s, g, 18) + 16 * GroupBit(s, g, 19) + 8 * GroupBit(s, g, 20) + 4 * GroupBit(s, g, 21) + 2 * GroupBit(s, g, 22) + GroupBit(s, g, 23)
  <2>1. c % 64 = 32 * ByteBit(c, 2) + 16 * ByteBit(c, 3) + 8 * ByteBit(c, 4)
                   + 4 * ByteBit(c, 5) + 2 * ByteBit(c, 6) + ByteBit(c, 7)
    BY <1>1, ByteSums
  <2> QED BY <2>1, <1>4
<1>9. ASSUME NEW q \in Nat
      PROVE  SixBits(s, 24 * g + q) = 32 * GroupBit(s, g, q) + 16 * GroupBit(s, g, q + 1) + 8 * GroupBit(s, g, q + 2) + 4 * GroupBit(s, g, q + 3) + 2 * GroupBit(s, g, q + 4) + GroupBit(s, g, q + 5)
  <2>1. /\ (24 * g + q) + 1 = 24 * g + (q + 1) /\ (24 * g + q) + 2 = 24 * g + (q + 2)
        /\ (24 * g + q) + 3 = 24 * g + (q + 3) /\ (24 * g + q) + 4 = 24 * g + (q + 4)
        /\ (24 * g + q) + 5 = 24 * g + (q + 5)
    OBVIOUS
  <2> QED BY <2>1, Zenon DEF SixBits, GroupBit
<1> DEFINE t == encode_triplet(a, b, c)
<1>10. /\ t[1] = a \div 4 /\ t[2] = (a % 4) * 16 + b \div 16
       /\ t[3] = c \div 64 + (b % 16) * 4 /\ t[4] = c % 64
  BY DEF encode_triplet
<1> HIDE DEF t
<1>11. CASE p = 0
  <2>1. SixBits(s, 24 * g + 0) = t[1] BY <1>9, <1>5, <1>10
  <2> QED BY <2>1, <1>11 DEF t, a, b, c
<1>12. CASE p = 1
  <2>1. SixBits(s, 24 * g + 6) = t[2] BY <1>9, <1>6, <1>10
  <2> QED BY <2>1, <1>12 DEF t, a, b, c
<1>13. CASE p = 2
  <2>1. SixBits(s, 24 * g + 12) = t[3] BY <1>9, <1>7, <1>10
  <2> QED BY <2>1, <1>13 DEF t, a, b, c
<1>14. CASE p = 3
  <2>1. SixBits(s, 24 * g + 18) = t[4] BY <1>9, <1>8, <1>10
  <2> QED BY <2>1, <1>14 DEF t, a, b, c
<1>15. p \in {0, 1, 2, 3} OBVIOUS
<1> QED BY <1>11, <1>12, <1>13, <1>14, <1>15

\* The letters at place g of the text: six bits each, as far as there is a bit
\* of the input in them.
LEMMA GroupDigits ==
  ASSUME NEW s \in Seq(0..255), NEW g \in Nat, NEW p \in 0..3, 3 * g < Len(s)
  PROVE  encode_group(s, g)[p + 1] = IF 24 * g + 6 * p < 8 * Len(s) THEN SixBits(s, 24 * g + 6 * p) ELSE Pad
<1> DEFINE n == Len(s)
           d == encode_triplet(ByteAt(s, 3 * g + 1), ByteAt(s, 3 * g + 2), ByteAt(s, 3 * g + 3))
<1>1. n \in Nat /\ 3 * g < n OBVIOUS
<1>2. d[p + 1] = SixBits(s, 24 * g + 6 * p) BY TripletDigits
<1>3. CASE 3 * g + 3 <= n
  <2>1. ByteAt(s, 3 * g + 1) = s[3 * g + 1] /\ ByteAt(s, 3 * g + 2) = s[3 * g + 2] /\ ByteAt(s, 3 * g + 3) = s[3 * g + 3]
    BY <1>1, <1>3 DEF ByteAt
  <2>2. encode_group(s, g) = d BY <1>3, <2>1 DEF encode_group
  <2>3. 24 * g + 6 * p < 8 * n
    <3> HIDE DEF n
    <3> QED BY <1>1, <1>3
  <2> HIDE DEF d
  <2> QED BY <1>2, <2>2, <2>3
<1>4. CASE ~(3 * g + 3 <= n)
  <2> DEFINE t == SubSeq(s, 3 * g + 1, n)
             At(i) == IF i <= Len(t) THEN t[i] ELSE 0
  <2>1. t \in Seq(0..255) /\ Len(t) = n - 3 * g /\ \A i \in 1..(n - 3 * g) : t[i] = s[3 * g + i]
    <3>1. 3 * g + 1 \in 1..n /\ n \in 1..n /\ n - (3 * g + 1) + 1 = n - 3 * g
      <4> HIDE DEF n
      <4> QED BY <1>1
    <3>2. /\ t \in Seq(0..255) /\ Len(t) = n - (3 * g + 1) + 1
          /\ \A i \in 1..(n - (3 * g + 1) + 1) : t[i] = s[(3 * g + 1) + i - 1]
      BY <3>1, SubSeqProperties
    <3>3. ASSUME NEW i \in 1..(n - 3 * g) PROVE t[i] = s[3 * g + i]
      <4>1. (3 * g + 1) + i - 1 = 3 * g + i OBVIOUS
      <4> HIDE DEF t, n
      <4> QED BY <3>1, <3>2, <4>1
    <3> HIDE DEF t, n
    <3> QED BY <3>1, <3>2, <3>3
  <2> HIDE DEF t, n
  <2>2. n - 3 * g \in 1..2 BY <1>1, <1>4
  <2>3. ASSUME NEW i \in 1..3 PROVE At(i) = ByteAt(s, 3 * g + i)
    <3>1. CASE i <= n - 3 * g
      <4>1. 3 * g + i <= n /\ i \in 1..(n - 3 * g) BY <1>1, <3>1
      <4> QED BY <4>1, <3>1, <2>1 DEF ByteAt, n
    <3>2. CASE ~(i <= n - 3 * g)
      <4>1. ~(3 * g + i <= n) BY <1>1, <3>2
      <4> QED BY <4>1, <3>2, <2>1 DEF ByteAt, n
    <3> QED BY <3>1, <3>2
  <2>4. d = encode_triplet(At(1), At(2), At(3))
    <3>1. At(1) = ByteAt(s, 3 * g + 1) /\ At(2) = ByteAt(s, 3 * g + 2) /\ At(3) = ByteAt(s, 3 * g + 3) BY <2>3
    <3> HIDE DEF At
    <3> QED BY <3>1
  <2>5. encode_tail(t) = [i \in 1..4 |-> IF i <= Len(t) + 1 THEN d[i] ELSE Pad]
    BY <2>4 DEF encode_tail
  <2>6. encode_group(s, g) = encode_tail(t) BY <1>4 DEF encode_group, t, n
  <2> HIDE DEF d, At
  <2>7. p + 1 \in 1..4 OBVIOUS
  <2>8. encode_group(s, g)[p + 1] = IF p + 1 <= Len(t) + 1 THEN d[p + 1] ELSE Pad BY <2>5, <2>6, <2>7
  <2>9. p + 1 <= Len(t) + 1 <=> 24 * g + 6 * p < 8 * n
    BY <1>1, <2>1, <2>2
  <2> QED BY <1>2, <2>8, <2>9 DEF n
<1> QED BY <1>3, <1>4

\* The letters of the whole text, and how many there are.
LEMMA Base64Letters ==
  ASSUME NEW s \in Seq(0..255)
  PROVE  /\ Len(base64_letters(s)) = base64_encoded_length(Len(s))
         /\ \A i \in DOMAIN base64_letters(s) :
              base64_letters(s)[i] = IF 6 * (i - 1) < 8 * Len(s) THEN SixBits(s, 6 * (i - 1)) ELSE Pad
<1> DEFINE n == Len(s)
           groups == IF 3 * (n \div 3) < n THEN n \div 3 + 1 ELSE n \div 3
           out == [i \in 1..(4 * groups) |-> encode_group(s, (i - 1) \div 4)[((i - 1) % 4) + 1]]
<1>1. n \in Nat OBVIOUS
<1>2. base64_letters(s) = out BY DEF base64_letters
<1> HIDE DEF n
<1>3. groups \in Nat /\ 4 * groups = base64_encoded_length(n) BY <1>1 DEF base64_encoded_length
<1>4. \A i \in 1..(4 * groups) : 3 * ((i - 1) \div 4) < n BY <1>1
<1> HIDE DEF groups
<1>5. Len(out) = 4 * groups
  <2>1. DOMAIN out = 1..(4 * groups) /\ 4 * groups \in Nat BY <1>3
  <2> HIDE DEF out
  <2> QED BY <2>1
<1>6. ASSUME NEW i \in 1..(4 * groups)
      PROVE  out[i] = IF 6 * (i - 1) < 8 * n THEN SixBits(s, 6 * (i - 1)) ELSE Pad
  <2> DEFINE g == (i - 1) \div 4
             p == (i - 1) % 4
  <2>1. g \in Nat /\ p \in 0..3 /\ 24 * g + 6 * p = 6 * (i - 1) BY <1>3
  <2>2. 3 * g < n BY <1>4
  <2>3. out[i] = encode_group(s, g)[p + 1] OBVIOUS
  <2> HIDE DEF g, p, out
  <2>4. encode_group(s, g)[p + 1] = IF 24 * g + 6 * p < 8 * n THEN SixBits(s, 24 * g + 6 * p) ELSE Pad
    BY <2>1, <2>2, GroupDigits DEF n
  <2> QED BY <2>1, <2>3, <2>4
<1>7. DOMAIN out = 1..(4 * groups) OBVIOUS
<1> HIDE DEF out
<1> QED BY <1>2, <1>3, <1>5, <1>6, <1>7 DEF n

LEMMA Base64OfInput == InputInv => Base64Digits
<1> SUFFICES ASSUME InputInv PROVE Base64Digits OBVIOUS
<1>1. input \in Seq(0..255) BY DEF InputInv
<1>2. /\ Len(base64_letters(input)) = base64_encoded_length(Len(input))
      /\ \A i \in DOMAIN base64_letters(input) :
           base64_letters(input)[i] = IF 6 * (i - 1) < 8 * Len(input) THEN SixBits(input, 6 * (i - 1)) ELSE Pad
  BY <1>1, Base64Letters
<1>3. DOMAIN base64_letters(input) \subseteq Int BY DEF base64_letters
<1>4. ASSUME NEW i \in Int
      PROVE  SixBits(input, 6 * (i - 1))
               = 32 * Bit(input, 6 * (i - 1) + 0) + 16 * Bit(input, 6 * (i - 1) + 1) + 8 * Bit(input, 6 * (i - 1) + 2)
                   + 4 * Bit(input, 6 * (i - 1) + 3) + 2 * Bit(input, 6 * (i - 1) + 4) + Bit(input, 6 * (i - 1) + 5)
  <2>1. 6 * (i - 1) + 0 = 6 * (i - 1) OBVIOUS
  <2> QED BY <2>1, Zenon DEF SixBits
<1> DEFINE At(i, k) == Bit(input, 6 * (i - 1) + k)
           Digit(i) == 32 * At(i, 0) + 16 * At(i, 1) + 8 * At(i, 2) + 4 * At(i, 3) + 2 * At(i, 4) + At(i, 5)
           length == base64_encoded_length(Len(input))
<1>5. \A i \in DOMAIN base64_letters(input) :
        base64_letters(input)[i] = IF 6 * (i - 1) < 8 * Len(input) THEN Digit(i) ELSE Pad
  BY <1>2, <1>3, <1>4, Zenon
<1> HIDE DEF Digit
<1>6. Len(input) \in Nat /\ MaxLen \in Nat BY <1>1, CodecAssumption
<1>7. length \in Nat BY <1>6 DEF base64_encoded_length
<1> HIDE DEF length
<1>8. ASSUME NEW room \in 0..(2 * MaxLen + 4)
      PROVE  LET text == base64_encode(input, room)
             IN  /\ text.ok <=> length <= room
                 /\ text.ok =>
                      /\ Len(text.out) = length
                      /\ \A i \in DOMAIN text.out :
                           text.out[i] = IF 6 * (i - 1) < 8 * Len(input) THEN Digit(i) ELSE Pad
  <2>1. CASE room < length
    <3>1. base64_encode(input, room) = Failed BY <2>1 DEF base64_encode, length
    <3>2. ~(length <= room) BY <2>1, <1>6, <1>7
    <3> QED BY <3>1, <3>2 DEF Failed
  <2>2. CASE ~(room < length)
    <3>1. base64_encode(input, room) = Ok(base64_letters(input)) BY <2>2 DEF base64_encode, length
    <3>2. length <= room BY <2>2, <1>6, <1>7
    <3>3. /\ base64_encode(input, room).ok
          /\ base64_encode(input, room).out = base64_letters(input)
      BY <3>1 DEF Ok
    <3>4. Len(base64_letters(input)) = length BY <1>2 DEF length
    <3> QED BY <1>5, <3>2, <3>3, <3>4
  <2> QED BY <2>1, <2>2
<1> QED BY <1>8, Zenon DEF Base64Digits, Digit, length

\* Base64 gives the groups of six bits of the input, of any length, padded to
\* the length that was reserved, with nothing of the input lost (base64.c:60-119).
THEOREM Base64IsExact == Spec => []Base64Digits
BY InputAlways, Base64OfInput, PTL

----------------------------------------------------------------------------
(* JSON strings *)

\* Cursors over a buffer of a size, and what a character becomes in a string.
Cursor(room) == {c \in [ok : BOOLEAN, out : Seq(0..255)] : Len(c.out) <= room}
JsonChar(c) == IF c \in DOMAIN Escapes THEN <<92, Escapes[c]>> ELSE <<c>>

\* No two characters have the same escape.
LEMMA EscapesAreApart ==
  /\ DOMAIN Escapes = {34, 92, 8, 12, 10, 13, 9}
  /\ \A c \in DOMAIN Escapes : Escapes[c] \in 0..255 /\ Unescape(Escapes[c]) = <<c>>
<1>1. DOMAIN Escapes = {34, 92, 8, 12, 10, 13, 9} BY DEF Escapes
<1>2. /\ Escapes[34] = 34 /\ Escapes[92] = 92 /\ Escapes[8] = 98 /\ Escapes[12] = 102
      /\ Escapes[10] = 110 /\ Escapes[13] = 114 /\ Escapes[9] = 116
  BY DEF Escapes
<1>3. ASSUME NEW c \in DOMAIN Escapes PROVE Unescape(Escapes[c]) = <<c>>
  <2>1. \A d \in DOMAIN Escapes : Escapes[d] = Escapes[c] => d = c BY <1>1, <1>2
  <2>2. (CHOOSE d \in DOMAIN Escapes : Escapes[d] = Escapes[c]) = c BY <2>1
  <2> QED BY <2>2 DEF Unescape
<1> QED BY <1>1, <1>2, <1>3

LEMMA JsonCharType ==
  ASSUME NEW c \in 0..255
  PROVE  JsonChar(c) \in Seq(0..255) /\ Len(JsonChar(c)) \in 1..2
<1>1. CASE c \in DOMAIN Escapes
  <2>1. Escapes[c] \in 0..255 /\ 92 \in 0..255 BY <1>1, EscapesAreApart
  <2>2. JsonChar(c) = <<92, Escapes[c]>> BY <1>1 DEF JsonChar
  <2> QED BY <2>1, <2>2
<1>2. CASE c \notin DOMAIN Escapes
  <2>1. JsonChar(c) = <<c>> BY <1>2 DEF JsonChar
  <2> QED BY <2>1
<1> QED BY <1>1, <1>2

\* A push that fails changes nothing but the verdict.
LEMMA FullType ==
  ASSUME NEW room \in Nat, NEW cur \in Cursor(room)
  PROVE  Full(cur) \in Cursor(room) /\ Full(cur).ok = FALSE /\ Full(cur).out = cur.out
BY DEF Full, Cursor

LEMMA OkType ==
  ASSUME NEW room \in Nat, NEW s \in Seq(0..255), Len(s) <= room
  PROVE  Ok(s) \in Cursor(room) /\ Ok(s).ok = TRUE /\ Ok(s).out = s
BY DEF Ok, Cursor

\* What a push of s does: all of it or nothing.
Pushes(cur, room, next, s) ==
  /\ next \in Cursor(room) /\ Len(next.out) <= Len(cur.out) + Len(s)
  /\ next.ok => cur.ok /\ next.out = cur.out \o s

LEMMA PushOk ==
  ASSUME NEW room \in Nat, NEW cur \in Cursor(room), NEW s \in Seq(0..255), cur.ok, Len(cur.out) + Len(s) <= room
  PROVE  Pushes(cur, room, Ok(cur.out \o s), s) /\ Ok(cur.out \o s).ok
<1>1. cur.out \in Seq(0..255) /\ Len(cur.out) \in Nat /\ Len(s) \in Nat BY DEF Cursor
<1>2. cur.out \o s \in Seq(0..255) /\ Len(cur.out \o s) = Len(cur.out) + Len(s)
  <2> DEFINE B == 0..255
  <2>1. cur.out \in Seq(B) /\ s \in Seq(B) BY <1>1
  <2> HIDE DEF B
  <2>2. cur.out \o s \in Seq(B) BY <2>1, ConcatProperties
  <2>3. Len(cur.out \o s) = Len(cur.out) + Len(s) BY <2>1, ConcatProperties
  <2> QED BY <2>2, <2>3 DEF B
<1> DEFINE t == cur.out \o s
<1>3. Ok(t) \in Cursor(room) /\ Ok(t).ok = TRUE /\ Ok(t).out = t
  <2>1. t \in Seq(0..255) /\ Len(t) <= room BY <1>2
  <2> HIDE DEF t
  <2> QED BY <2>1, OkType
<1>4. Len(t) <= Len(cur.out) + Len(s) BY <1>1, <1>2
<1> QED BY <1>3, <1>4 DEF Pushes

LEMMA PushFull ==
  ASSUME NEW room \in Nat, NEW cur \in Cursor(room), NEW s \in Seq(0..255)
  PROVE  Pushes(cur, room, Full(cur), s)
<1>1. Len(cur.out) \in Nat /\ Len(s) \in Nat BY DEF Cursor
<1>2. Full(cur) \in Cursor(room) /\ Full(cur).ok = FALSE /\ Full(cur).out = cur.out BY FullType
<1> QED BY <1>1, <1>2 DEF Pushes

LEMMA PushByte ==
  ASSUME NEW room \in Nat, NEW cur \in Cursor(room), NEW c \in 0..255
  PROVE  /\ Pushes(cur, room, cursor_push_byte(cur, room, c), <<c>>)
         /\ cur.ok /\ Len(cur.out) + 1 <= room => cursor_push_byte(cur, room, c).ok
<1>1. cur.out \in Seq(0..255) /\ Len(cur.out) \in Nat BY DEF Cursor
<1>2. Append(cur.out, c) = cur.out \o <<c>> BY <1>1, AppendIsConcat
<1>3. <<c>> \in Seq(0..255) /\ Len(<<c>>) = 1 OBVIOUS
<1>4. CASE cur.ok /\ Len(cur.out) + 1 <= room
  <2>1. cursor_push_byte(cur, room, c) = Ok(cur.out \o <<c>>) BY <1>2, <1>4 DEF cursor_push_byte
  <2>2. Len(cur.out) + Len(<<c>>) <= room BY <1>3, <1>4
  <2>3. Pushes(cur, room, Ok(cur.out \o <<c>>), <<c>>) /\ Ok(cur.out \o <<c>>).ok
    BY <1>3, <1>4, <2>2, PushOk, Zenon
  <2> QED BY <2>1, <2>3
<1>5. CASE ~(cur.ok /\ Len(cur.out) + 1 <= room)
  <2>1. cursor_push_byte(cur, room, c) = Full(cur) BY <1>5 DEF cursor_push_byte
  <2>2. Pushes(cur, room, Full(cur), <<c>>) BY <1>3, PushFull, Zenon
  <2> QED BY <1>5, <2>1, <2>2
<1> QED BY <1>4, <1>5

LEMMA PushChar ==
  ASSUME NEW room \in Nat, NEW cur \in Cursor(room), NEW c \in 0..255
  PROVE  /\ Pushes(cur, room, cursor_push_escaped_char(cur, room, c), JsonChar(c))
         /\ cur.ok /\ Len(cur.out) + 2 < room => cursor_push_escaped_char(cur, room, c).ok
<1> DEFINE next == cursor_push_escaped_char(cur, room, c)
           e == JsonChar(c)
<1>1. Len(cur.out) \in Nat BY DEF Cursor
<1>2. CASE c \notin DOMAIN Escapes
  <2>1. next = cursor_push_byte(cur, room, c) /\ e = <<c>> BY <1>2 DEF cursor_push_escaped_char, JsonChar
  <2>2. cur.ok /\ Len(cur.out) + 2 < room => Len(cur.out) + 1 <= room BY <1>1
  <2> QED BY <2>1, <2>2, PushByte
<1>3. CASE c \in DOMAIN Escapes
  <2>1. next = cursor_push_str(cur, room, e) BY <1>3 DEF cursor_push_escaped_char, JsonChar
  <2>2. e \in Seq(0..255) /\ Len(e) = 2
    <3>1. e \in Seq(0..255) BY JsonCharType
    <3>2. e = <<92, Escapes[c]>> BY <1>3 DEF JsonChar
    <3> QED BY <3>1, <3>2
  <2> HIDE DEF e, next
  <2>3. CASE cur.ok /\ Len(cur.out) + Len(e) < room
    <3>1. next = Ok(cur.out \o e) BY <2>1, <2>3 DEF cursor_push_str
    <3>2. Len(cur.out) + Len(e) <= room BY <1>1, <2>2, <2>3
    <3>3. Pushes(cur, room, Ok(cur.out \o e), e) /\ Ok(cur.out \o e).ok BY <2>2, <2>3, <3>2, PushOk, Zenon
    <3> QED BY <3>1, <3>3 DEF next, e
  <2>4. CASE ~(cur.ok /\ Len(cur.out) + Len(e) < room)
    <3>1. next = Full(cur) BY <2>1, <2>4 DEF cursor_push_str
    <3>2. Pushes(cur, room, Full(cur), e) BY <2>2, PushFull, Zenon
    <3> QED BY <2>2, <2>4, <3>1, <3>2 DEF next, e
  <2> QED BY <2>3, <2>4
<1> QED BY <1>2, <1>3

\* The cursors of cursor_push_jsonstr, one for every character.
IsPushed(cur, str, room) ==
  /\ cur \in [0..Len(str) -> Cursor(room)]
  /\ cur[0] = cursor_push_byte(Ok(<<>>), room, 34)
  /\ \A i \in 1..Len(str) : cur[i] = cursor_push_escaped_char(cur[i - 1], room, str[i])

PushRound(str, room, cur, i) ==
  IF i = 0 THEN cursor_push_byte(Ok(<<>>), room, 34)
  ELSE cursor_push_escaped_char(cur[i - 1], room, str[i])

LEMMA JsonIsLoop ==
  ASSUME NEW str \in Seq(0..255), NEW room \in Nat
  PROVE  \E cur : /\ IsPushed(cur, str, room)
                  /\ cursor_push_jsonstr(str, room) = cursor_push_byte(cur[Len(str)], room, 34)
<1> DEFINE n == Len(str)
           V == Cursor(room)
           v == cursor_push_byte(Ok(<<>>), room, 34)
           F == [i \in 1..n |-> [c \in V |-> cursor_push_escaped_char(c, room, str[i])]]
<1>1. n \in Nat OBVIOUS
<1>2. ASSUME NEW i \in 1..n, NEW c \in V PROVE cursor_push_escaped_char(c, room, str[i]) \in V
  <2>1. str[i] \in 0..255 BY ElementOfSeq
  <2> QED BY <2>1, PushChar DEF Pushes
<1>3. v \in V
  <2>1. <<>> \in Seq(0..255) /\ Len(<<>>) <= room OBVIOUS
  <2>2. Ok(<<>>) \in Cursor(room) BY <2>1, OkType
  <2>3. 34 \in 0..255 OBVIOUS
  <2>4. Pushes(Ok(<<>>), room, v, <<34>>) BY <2>2, <2>3, PushByte
  <2> QED BY <2>4 DEF Pushes
<1> HIDE DEF n, V, v
<1>4. F \in [1..n -> [V -> V]] BY <1>2
<1>5. PICK f : IsRun(f, n, V, v, F)
  <2> HIDE DEF F
  <2> QED BY <1>1, <1>3, <1>4, Recursion, Zenon
<1>6. f \in [0..n -> V] /\ f[0] = v /\ \A i \in 1..n : f[i] = F[i][f[i - 1]]
  <2> HIDE DEF F
  <2> QED BY <1>5, Zenon DEF IsRun
<1>7. ASSUME NEW i \in 0..n PROVE f[i] = PushRound(str, room, f, i)
  <2>1. CASE i = 0 BY <2>1, <1>6 DEF PushRound, v
  <2>2. CASE i # 0
    <3>1. i \in 1..n /\ i - 1 \in 0..n BY <1>1, <2>2
    <3>2. f[i - 1] \in V BY <1>6, <3>1
    <3>3. F[i][f[i - 1]] = cursor_push_escaped_char(f[i - 1], room, str[i]) BY <3>1, <3>2
    <3> HIDE DEF F
    <3> QED BY <2>2, <3>1, <3>3, <1>6 DEF PushRound
  <2> QED BY <2>1, <2>2
<1>8. f = [i \in 0..n |-> PushRound(str, room, f, i)] BY <1>6, <1>7
<1> DEFINE cur == CHOOSE t : t = [i \in 0..n |-> PushRound(str, room, t, i)]
<1>9. cur = [i \in 0..n |-> PushRound(str, room, cur, i)] BY <1>8, Zenon
<1>10. cursor_push_jsonstr(str, room) = cursor_push_byte(cur[n], room, 34)
  BY Zenon DEF cursor_push_jsonstr, PushRound, n
<1> HIDE DEF cur, F
<1>11. cur[0] = v
  <2>1. 0 \in 0..n BY <1>1
  <2>2. cur[0] = PushRound(str, room, cur, 0) BY <1>9, <2>1
  <2> QED BY <2>2 DEF PushRound, v
<1>12. ASSUME NEW i \in 1..n PROVE cur[i] = cursor_push_escaped_char(cur[i - 1], room, str[i])
  <2>1. i \in 0..n /\ i # 0 OBVIOUS
  <2>2. cur[i] = PushRound(str, room, cur, i) BY <1>9, <2>1
  <2> QED BY <2>1, <2>2 DEF PushRound
<1> DEFINE S == {i \in Nat : i <= n => cur[i] \in V}
<1>13. 0 \in S BY <1>3, <1>11
<1>14. ASSUME NEW i \in Nat, i \in S PROVE i + 1 \in S
  <2> SUFFICES ASSUME i + 1 <= n PROVE cur[i + 1] \in V OBVIOUS
  <2>1. cur[i] \in V /\ i + 1 \in 1..n /\ (i + 1) - 1 = i BY <1>1, <1>14
  <2>2. cur[i + 1] = cursor_push_escaped_char(cur[i], room, str[i + 1]) BY <1>12, <2>1
  <2> QED BY <1>2, <2>1, <2>2
<1> HIDE DEF S
<1>15. \A i \in Nat : i \in S BY <1>13, <1>14, Induction
<1>16. ASSUME NEW i \in 0..n PROVE cur[i] \in V BY <1>1, <1>15 DEF S
<1>17. cur \in [0..n -> V] BY <1>9, <1>16
<1> QED BY <1>10, <1>11, <1>12, <1>17 DEF IsPushed, n, V, v

\* How long the string may get, and that it fits with a byte to spare.
LEMMA JsonFits ==
  ASSUME NEW str \in Seq(0..255), NEW room \in Nat
  PROVE  /\ Len(cursor_push_jsonstr(str, room).out) <= room
         /\ room > 2 * Len(str) + 2 => cursor_push_jsonstr(str, room).ok
<1> DEFINE n == Len(str)
           json == cursor_push_jsonstr(str, room)
<1>1. PICK cur : IsPushed(cur, str, room) /\ json = cursor_push_byte(cur[n], room, 34) BY JsonIsLoop
<1>2. n \in Nat OBVIOUS
<1>3. cur \in [0..n -> Cursor(room)] /\ cur[n] \in Cursor(room)
  <2>1. cur \in [0..n -> Cursor(room)] BY <1>1 DEF IsPushed
  <2>2. n \in 0..n BY <1>2
  <2> HIDE DEF n
  <2> QED BY <2>1, <2>2
<1>4. ASSUME NEW i \in 0..n PROVE cur[i] \in Cursor(room) /\ Len(cur[i].out) \in Nat
  <2>1. cur[i] \in Cursor(room) BY <1>3
  <2> QED BY <2>1 DEF Cursor
<1>5. 34 \in 0..255 OBVIOUS
<1>6. Pushes(cur[n], room, json, <<34>>) /\ (cur[n].ok /\ Len(cur[n].out) + 1 <= room => json.ok)
  BY <1>1, <1>3, <1>5, PushByte
<1>7. Len(json.out) <= room
  <2>1. json \in Cursor(room) BY <1>6 DEF Pushes
  <2> HIDE DEF json
  <2>2. Len(json.out) <= room BY <2>1 DEF Cursor
  <2> QED BY <2>2
<1>8. ASSUME room > 2 * n + 2 PROVE json.ok
  <2> DEFINE S == {i \in Nat : i <= n => cur[i].ok /\ Len(cur[i].out) <= 2 * i + 1}
  <2>1. 0 \in S
    <3>1. <<>> \in Seq(0..255) /\ Len(<<>>) = 0 /\ Len(<<>>) <= room /\ Len(<<34>>) = 1 OBVIOUS
    <3>2. Ok(<<>>) \in Cursor(room) /\ Ok(<<>>).ok = TRUE /\ Ok(<<>>).out = <<>> BY <3>1, OkType
    <3>3. cur[0] = cursor_push_byte(Ok(<<>>), room, 34) BY <1>1 DEF IsPushed
    <3>4. Len(Ok(<<>>).out) + 1 <= room
      <4> HIDE DEF n
      <4> QED BY <1>2, <1>8, <3>1, <3>2
    <3>5. Pushes(Ok(<<>>), room, cur[0], <<34>>) /\ cur[0].ok BY <1>5, <3>2, <3>3, <3>4, PushByte
    <3>6. Len(cur[0].out) <= Len(Ok(<<>>).out) + Len(<<34>>) BY <3>5 DEF Pushes
    <3> QED BY <3>1, <3>2, <3>5, <3>6
  <2>2. ASSUME NEW i \in Nat, i \in S PROVE i + 1 \in S
    <3> SUFFICES ASSUME i + 1 <= n PROVE cur[i + 1].ok /\ Len(cur[i + 1].out) <= 2 * (i + 1) + 1 OBVIOUS
    <3> HIDE DEF n
    <3>1. i + 1 \in 1..n /\ i \in 0..n /\ i + 1 \in 0..n /\ (i + 1) - 1 = i BY <1>2
    <3>2. cur[i].ok /\ Len(cur[i].out) <= 2 * i + 1 BY <2>2, <3>1
    <3>3. cur[i + 1] = cursor_push_escaped_char(cur[i], room, str[i + 1])
      <4>1. cur[i + 1] = cursor_push_escaped_char(cur[(i + 1) - 1], room, str[i + 1]) BY <1>1, <3>1 DEF IsPushed, n
      <4> QED BY <3>1, <4>1
    <3>4. str[i + 1] \in 0..255 BY <3>1, ElementOfSeq DEF n
    <3>5. cur[i] \in Cursor(room) /\ Len(cur[i].out) \in Nat /\ Len(cur[i + 1].out) \in Nat BY <1>4, <3>1
    <3>6. Len(cur[i].out) + 2 < room BY <1>2, <1>8, <3>1, <3>2, <3>5
    <3>7. Pushes(cur[i], room, cur[i + 1], JsonChar(str[i + 1])) /\ cur[i + 1].ok
      <4> DEFINE next == cursor_push_escaped_char(cur[i], room, str[i + 1])
      <4>1. Pushes(cur[i], room, next, JsonChar(str[i + 1])) BY <3>4, <3>5, PushChar, Zenon
      <4>2. next.ok BY <3>2, <3>4, <3>5, <3>6, PushChar, Zenon
      <4> HIDE DEF next
      <4>3. cur[i + 1] = next BY <3>3 DEF next
      <4> QED BY <4>1, <4>2, <4>3, Zenon
    <3>8. Len(cur[i + 1].out) <= Len(cur[i].out) + Len(JsonChar(str[i + 1])) BY <3>7 DEF Pushes
    <3>9. Len(JsonChar(str[i + 1])) \in 1..2 BY <3>4, JsonCharType
    <3>10. Len(cur[i + 1].out) <= 2 * (i + 1) + 1
      <4> DEFINE x == Len(cur[i].out)
                 y == Len(cur[i + 1].out)
                 z == Len(JsonChar(str[i + 1]))
      <4>1. x \in Nat /\ y \in Nat /\ z \in 1..2 /\ x <= 2 * i + 1 /\ y <= x + z BY <3>2, <3>5, <3>8, <3>9
      <4> HIDE DEF x, y, z
      <4>2. y <= 2 * (i + 1) + 1 BY <4>1
      <4> QED BY <4>2 DEF y
    <3> QED BY <3>7, <3>10
  <2> HIDE DEF S
  <2>3. n \in S BY <1>2, <2>1, <2>2, Induction
  <2>4. cur[n].ok /\ Len(cur[n].out) <= 2 * n + 1 BY <1>2, <2>3 DEF S
  <2>5. Len(cur[n].out) \in Nat BY <1>2, <1>4
  <2>6. Len(cur[n].out) + 1 <= room
    <3> HIDE DEF n
    <3> QED BY <1>2, <1>8, <2>4, <2>5
  <2> QED BY <1>6, <2>4, <2>6
<1> QED BY <1>7, <1>8

\* The parser at the i-th character, when f gives what it reads from the later ones.
ParseAt(text, f, i) ==
  IF i > Len(text) THEN Wrong
  ELSE IF text[i] = 34 THEN IF i = Len(text) THEN <<>> ELSE Wrong
  ELSE IF text[i] = 92 THEN IF i < Len(text) THEN Unescape(text[i + 1]) \o f[i + 2] ELSE Wrong
  ELSE IF text[i] < 32 THEN Wrong \o f[i + 1]
  ELSE <<text[i]>> \o f[i + 1]

IsParser(From, text) == From = [i \in 2..(Len(text) + 1) |-> ParseAt(text, From, i)]

\* It looks at nothing before the i-th.
LEMMA ParseLooksAhead ==
  ASSUME NEW text, Len(text) \in Nat, NEW i \in Nat, i <= Len(text) + 1, NEW f, NEW g,
         \A k \in (i + 1)..(Len(text) + 1) : f[k] = g[k]
  PROVE  ParseAt(text, f, i) = ParseAt(text, g, i)
<1>1. i <= Len(text) => i + 1 \in (i + 1)..(Len(text) + 1) OBVIOUS
<1>2. i < Len(text) => i + 2 \in (i + 1)..(Len(text) + 1) OBVIOUS
<1>3. i > Len(text) \/ i <= Len(text) OBVIOUS
<1>4. CASE i > Len(text) BY <1>4 DEF ParseAt
<1>5. CASE ~(i > Len(text))
  <2>1. f[i + 1] = g[i + 1] BY <1>1, <1>3, <1>5
  <2>2. i < Len(text) => f[i + 2] = g[i + 2] BY <1>2
  <2> QED BY <2>1, <2>2 DEF ParseAt
<1> QED BY <1>4, <1>5

\* The parser has a result at every character of a text.
LEMMA ParserRuns ==
  ASSUME NEW text, Len(text) \in Nat
  PROVE  \E From : IsParser(From, text) /\ ParseString(text) = From[2]
<1> DEFINE L == Len(text)
           Ends(f, m) == f = [i \in m..(L + 1) |-> ParseAt(text, f, i)]
           S == {d \in Nat : d <= L => \E f : Ends(f, (L + 1) - d)}
<1>1. 0 \in S
  <2> DEFINE f == [i \in (L + 1)..(L + 1) |-> Wrong]
  <2>1. ASSUME NEW i \in (L + 1)..(L + 1) PROVE ParseAt(text, f, i) = Wrong
    <3>1. i > L OBVIOUS
    <3> QED BY <3>1 DEF ParseAt
  <2>2. (L + 1) - 0 = L + 1 OBVIOUS
  <2>3. f = [i \in (L + 1)..(L + 1) |-> ParseAt(text, f, i)] BY <2>1
  <2>4. Ends(f, L + 1) BY <2>3
  <2> HIDE DEF f, L, Ends
  <2> QED BY <2>2, <2>4
<1>2. ASSUME NEW d \in Nat, d \in S PROVE d + 1 \in S
  <2> SUFFICES ASSUME d + 1 <= L PROVE \E f : Ends(f, (L + 1) - (d + 1)) OBVIOUS
  <2> DEFINE m == (L + 1) - (d + 1)
  <2>1. m \in Nat /\ (L + 1) - d = m + 1 /\ m <= L /\ d <= L OBVIOUS
  <2>2. PICK f : Ends(f, m + 1)
    <3>1. \E f : Ends(f, (L + 1) - d) BY <1>2, <2>1
    <3> HIDE DEF Ends, m
    <3> QED BY <2>1, <3>1
  <2> HIDE DEF m
  <2>3. f = [i \in (m + 1)..(L + 1) |-> ParseAt(text, f, i)] BY <2>2
  <2> DEFINE g == [i \in m..(L + 1) |-> IF i = m THEN ParseAt(text, f, m) ELSE f[i]]
  <2>4. ASSUME NEW k \in (m + 1)..(L + 1) PROVE f[k] = g[k] BY <2>1
  <2>5. ASSUME NEW i \in m..(L + 1) PROVE ParseAt(text, f, i) = ParseAt(text, g, i)
    <3>1. \A k \in (i + 1)..(L + 1) : f[k] = g[k] BY <2>1, <2>4
    <3> HIDE DEF g
    <3>2. i \in Nat /\ i <= L + 1 BY <2>1
    <3> QED BY <3>1, <3>2, ParseLooksAhead
  <2>6. ASSUME NEW i \in m..(L + 1) PROVE g[i] = ParseAt(text, g, i)
    <3>1. CASE i = m
      <4>1. g[i] = ParseAt(text, f, i) BY <3>1
      <4> HIDE DEF g
      <4> QED BY <4>1, <2>5
    <3>2. CASE i # m
      <4>1. i \in (m + 1)..(L + 1) BY <2>1, <3>2
      <4>2. g[i] = f[i] BY <2>4, <4>1
      <4> HIDE DEF g, L
      <4>3. f[i] = ParseAt(text, f, i) BY <2>3, <4>1
      <4> QED BY <4>2, <4>3, <2>5
    <3> QED BY <3>1, <3>2
  <2>7. g = [i \in m..(L + 1) |-> ParseAt(text, g, i)] BY <2>6
  <2>8. Ends(g, m) BY <2>7
  <2> HIDE DEF g, Ends
  <2> QED BY <2>8 DEF m
<1>3. \E f : Ends(f, 2)
  <2>1. CASE L >= 1
    <3>1. L - 1 \in Nat /\ L - 1 <= L /\ (L + 1) - (L - 1) = 2 BY <2>1
    <3> HIDE DEF S
    <3>2. L - 1 \in S BY <3>1, <1>1, <1>2, Induction
    <3>3. \E f : Ends(f, (L + 1) - (L - 1)) BY <3>1, <3>2 DEF S
    <3> HIDE DEF Ends, L
    <3> QED BY <3>1, <3>3
  <2>2. CASE ~(L >= 1)
    <3> DEFINE f == [i \in 2..(L + 1) |-> Wrong]
    <3>1. 2..(L + 1) = {} BY <2>2
    <3>2. f = [i \in 2..(L + 1) |-> ParseAt(text, f, i)] BY <3>1
    <3>3. Ends(f, 2) BY <3>2
    <3> HIDE DEF f, Ends
    <3> QED BY <3>3
  <2> QED BY <2>1, <2>2
<1> DEFINE From == CHOOSE f : f = [i \in 2..(L + 1) |-> ParseAt(text, f, i)]
<1>4. From = [i \in 2..(L + 1) |-> ParseAt(text, From, i)] BY <1>3, Zenon
<1>5. ParseString(text) = From[2] BY Zenon DEF ParseString, ParseAt
<1>6. IsParser(From, text) BY <1>4, Zenon DEF IsParser
<1> HIDE DEF From
<1> QED BY <1>5, <1>6

\* The spelling of a character that may be in a text stands at place q of it,
\* before its end.
SpelledAt(text, q, c) ==
  /\ c >= 32 \/ c \in DOMAIN Escapes
  /\ q >= 2 /\ q + Len(JsonChar(c)) <= Len(text)
  /\ \A k \in 1..Len(JsonChar(c)) : text[(q - 1) + k] = JsonChar(c)[k]

ReadsAt(From, q, c) == From[q] = <<c>> \o From[q + Len(JsonChar(c))]

\* The parser reads one character from its spelling.
LEMMA ReadsChar ==
  ASSUME NEW text \in Seq(0..255), NEW From, IsParser(From, text),
         NEW c \in 0..255, NEW q \in Nat, SpelledAt(text, q, c)
  PROVE  ReadsAt(From, q, c)
<1> DEFINE L == Len(text)
           e == JsonChar(c)
           r == Len(e)
<1>1. L \in Nat /\ r \in 1..2
  <2>1. L \in Nat BY LenProperties
  <2>2. r \in 1..2 BY JsonCharType
  <2> QED BY <2>1, <2>2
<1>2. q \in 2..(L + 1) /\ ~(q > L) /\ q < L
  <2>1. q >= 2 /\ q + r <= L BY DEF SpelledAt
  <2> HIDE DEF L, r
  <2> QED BY <1>1, <2>1
<1>3. From[q] = ParseAt(text, From, q)
  <2>1. From = [i \in 2..(L + 1) |-> ParseAt(text, From, i)] BY DEF IsParser
  <2> HIDE DEF L
  <2> QED BY <1>2, <2>1
<1>4. (q - 1) + 1 = q /\ (q - 1) + 2 = q + 1 OBVIOUS
<1>5. \A k \in 1..Len(e) : text[(q - 1) + k] = e[k] BY DEF SpelledAt
<1> HIDE DEF e
<1>6. text[q] = e[1]
  <2>1. 1 \in 1..r
    <3> HIDE DEF r
    <3> QED BY <1>1
  <2>2. text[(q - 1) + 1] = e[1] BY <1>5, <2>1
  <2> QED BY <1>4, <2>2
<1>7. CASE c \in DOMAIN Escapes
  <2>1. e = <<92, Escapes[c]>> BY <1>7 DEF e, JsonChar
  <2>2. Len(e) = 2 /\ e[1] = 92 /\ e[2] = Escapes[c] BY <2>1
  <2>3. text[q + 1] = Escapes[c]
    <3>1. 2 \in 1..Len(e) BY <2>2
    <3>2. text[(q - 1) + 2] = e[2] BY <1>5, <3>1
    <3> QED BY <1>4, <2>2, <3>2
  <2>4. ParseAt(text, From, q) = Unescape(text[q + 1]) \o From[q + 2]
    <3>1. text[q] = 92 /\ 92 # 34 BY <1>6, <2>2
    <3> QED BY <1>2, <3>1, Zenon DEF ParseAt
  <2>5. Unescape(text[q + 1]) = <<c>> BY <1>7, <2>3, EscapesAreApart
  <2> QED BY <1>3, <2>2, <2>4, <2>5 DEF e, ReadsAt
<1>8. CASE c \notin DOMAIN Escapes
  <2>1. e = <<c>> BY <1>8 DEF e, JsonChar
  <2>2. Len(e) = 1 /\ e[1] = c BY <2>1
  <2>3. c # 34 /\ c # 92 BY <1>8, EscapesAreApart
  <2>4. ~(c < 32)
    <3>1. c >= 32 BY <1>8 DEF SpelledAt
    <3> QED BY <3>1
  <2>5. ParseAt(text, From, q) = <<text[q]>> \o From[q + 1]
    <3>1. text[q] = c BY <1>6, <2>2
    <3> QED BY <1>2, <2>3, <2>4, <3>1, Zenon DEF ParseAt
  <2>6. text[q] = c BY <1>6, <2>2
  <2> QED BY <1>3, <2>2, <2>5, <2>6 DEF e, ReadsAt
<1> QED BY <1>7, <1>8

\* What was written is read back.
LEMMA JsonIsRead ==
  ASSUME NEW str \in Seq(0..255), NEW room \in Nat, cursor_push_jsonstr(str, room).ok, Printable(str)
  PROVE  ParseString(cursor_push_jsonstr(str, room).out) = str
<1> DEFINE n == Len(str)
           json == cursor_push_jsonstr(str, room)
           text == json.out
           L == Len(text)
<1>1. PICK cur : IsPushed(cur, str, room) /\ json = cursor_push_byte(cur[n], room, 34) BY JsonIsLoop
<1>2. n \in Nat OBVIOUS
<1>3. ASSUME NEW i \in 0..n PROVE cur[i] \in Cursor(room) /\ cur[i].out \in Seq(0..255) /\ Len(cur[i].out) \in Nat
  <2>1. cur \in [0..n -> Cursor(room)] BY <1>1 DEF IsPushed
  <2>2. cur[i] \in Cursor(room) BY <2>1
  <2> QED BY <2>2 DEF Cursor
<1>4. ASSUME NEW i \in 1..n
      PROVE  Pushes(cur[i - 1], room, cur[i], JsonChar(str[i])) /\ str[i] \in 0..255
  <2>1. str[i] \in 0..255 BY ElementOfSeq
  <2>2. i - 1 \in 0..n BY <1>2
  <2>3. cur[i - 1] \in Cursor(room) BY <1>3, <2>2
  <2>4. cur[i] = cursor_push_escaped_char(cur[i - 1], room, str[i]) BY <1>1 DEF IsPushed
  <2> QED BY <2>1, <2>3, <2>4, PushChar
<1>5. cur[n].ok /\ text = cur[n].out \o <<34>> /\ text \in Seq(0..255)
  <2>1. 34 \in 0..255 /\ n \in 0..n BY <1>2
  <2>2. cur[n] \in Cursor(room) BY <1>3, <2>1
  <2>3. Pushes(cur[n], room, json, <<34>>) BY <1>1, <2>1, <2>2, PushByte
  <2> QED BY <2>3 DEF Pushes, Cursor
<1> HIDE DEF json, text, n
<1>6. L = Len(cur[n].out) + 1 /\ text[L] = 34 /\ \A k \in 1..Len(cur[n].out) : text[k] = cur[n].out[k]
  <2>1. n \in 0..n BY <1>2
  <2>2. cur[n].out \in Seq(0..255) /\ <<34>> \in Seq(0..255) /\ Len(<<34>>) = 1 BY <1>3, <2>1
  <2> QED BY <1>5, <2>2
<1>7. L \in Nat BY <1>5
<1>8. PICK From : IsParser(From, text) /\ ParseString(text) = From[2]
  BY <1>7, ParserRuns
<1>9. cur[0].ok => Len(cur[0].out) = 1
  <2>1. <<>> \in Seq(0..255) /\ Len(<<>>) <= room /\ 34 \in 0..255 OBVIOUS
  <2>2. Ok(<<>>) \in Cursor(room) /\ Ok(<<>>).out = <<>> BY <2>1, OkType
  <2>3. cur[0] = cursor_push_byte(Ok(<<>>), room, 34) BY <1>1 DEF IsPushed
  <2>4. Pushes(Ok(<<>>), room, cur[0], <<34>>) BY <2>1, <2>2, <2>3, PushByte
  <2>5. cur[0].ok => cur[0].out = <<>> \o <<34>> BY <2>2, <2>4 DEF Pushes
  <2>6. Len(<<>> \o <<34>>) = 1 OBVIOUS
  <2> QED BY <2>5, <2>6
<1>10. ASSUME NEW i \in 1..n, cur[i].ok
       PROVE  /\ cur[i - 1].ok /\ Len(cur[i].out) = Len(cur[i - 1].out) + Len(JsonChar(str[i]))
              /\ \A k \in 1..Len(cur[i - 1].out) : cur[i].out[k] = cur[i - 1].out[k]
              /\ \A k \in 1..Len(JsonChar(str[i])) : cur[i].out[Len(cur[i - 1].out) + k] = JsonChar(str[i])[k]
  <2> DEFINE s == cur[i - 1].out
             e == JsonChar(str[i])
  <2>1. i - 1 \in 0..n BY <1>2
  <2>2. s \in Seq(0..255) /\ e \in Seq(0..255) /\ Len(s) \in Nat /\ Len(e) \in 1..2
    <3>1. s \in Seq(0..255) /\ Len(s) \in Nat BY <1>3, <2>1, Zenon
    <3>2. str[i] \in 0..255 BY <1>4, Zenon
    <3>3. e \in Seq(0..255) /\ Len(e) \in 1..2 BY <3>2, JsonCharType, Zenon
    <3> QED BY <3>1, <3>3
  <2>3. cur[i - 1].ok /\ cur[i].out = s \o e BY <1>4, <1>10 DEF Pushes
  <2> HIDE DEF s, e
  <2>4. /\ Len(s \o e) = Len(s) + Len(e) /\ (\A k \in 1..Len(s) : (s \o e)[k] = s[k])
        /\ \A k \in 1..Len(e) : (s \o e)[Len(s) + k] = e[k]
    BY <2>2
  <2> QED BY <2>3, <2>4 DEF s, e
<1> DEFINE A == {i \in Nat : i <= n => (cur[i].ok => Len(cur[i].out) >= 1)}
<1>11. 0 \in A
  <2> SUFFICES ASSUME cur[0].ok PROVE Len(cur[0].out) >= 1 OBVIOUS
  <2>1. Len(cur[0].out) = 1 BY <1>9
  <2> QED BY <2>1
<1>12. ASSUME NEW i \in Nat, i \in A PROVE i + 1 \in A
  <2> SUFFICES ASSUME i + 1 <= n, cur[i + 1].ok PROVE Len(cur[i + 1].out) >= 1 OBVIOUS
  <2>1. i + 1 \in 1..n /\ i \in 0..n /\ (i + 1) - 1 = i BY <1>2
  <2>2. cur[i].ok /\ Len(cur[i + 1].out) = Len(cur[i].out) + Len(JsonChar(str[i + 1])) BY <1>10, <2>1
  <2>3. Len(cur[i].out) >= 1 /\ Len(cur[i].out) \in Nat BY <1>2, <1>3, <1>12, <2>1, <2>2
  <2>4. Len(JsonChar(str[i + 1])) \in 1..2 BY <1>4, <2>1, JsonCharType
  <2> DEFINE x == Len(cur[i].out)
             y == Len(cur[i + 1].out)
             z == Len(JsonChar(str[i + 1]))
  <2>5. x \in Nat /\ x >= 1 /\ z \in 1..2 /\ y = x + z BY <2>2, <2>3, <2>4
  <2> HIDE DEF x, y, z
  <2>6. y >= 1 BY <2>5
  <2> QED BY <2>6 DEF y
<1> HIDE DEF A
<1>13. ASSUME NEW i \in 0..n, cur[i].ok PROVE Len(cur[i].out) >= 1
  <2>1. \A j \in Nat : j \in A BY <1>11, <1>12, Induction, Zenon
  <2> QED BY <1>2, <1>13, <2>1 DEF A
<1> DEFINE P(i) == /\ cur[i].ok /\ Len(cur[i].out) < L
                   /\ \A k \in 1..Len(cur[i].out) : text[k] = cur[i].out[k]
                   /\ From[Len(cur[i].out) + 1] = SubSeq(str, i + 1, n)
           D == {d \in Nat : d <= n => P(n - d)}
<1>14. 0 \in D
  <2>1. n - 0 = n /\ n \in 0..n BY <1>2
  <2>2. Len(cur[n].out) \in Nat /\ Len(cur[n].out) >= 1 BY <1>3, <1>5, <1>13, <2>1
  <2>3. L \in 2..(L + 1) /\ Len(cur[n].out) < L BY <1>6, <1>7, <2>2
  <2>4. From[L] = ParseAt(text, From, L) BY <1>8, <2>3 DEF IsParser
  <2>5. ParseAt(text, From, L) = <<>> BY <1>6, <1>7 DEF ParseAt
  <2>6. SubSeq(str, n + 1, n) = <<>> BY <1>2
  <2>7. P(n) BY <1>5, <1>6, <2>3, <2>4, <2>5, <2>6
  <2> HIDE DEF P
  <2> QED BY <2>1, <2>7
<1>15. ASSUME NEW d \in Nat, d \in D PROVE d + 1 \in D
  <2> SUFFICES ASSUME d + 1 <= n PROVE P(n - (d + 1)) OBVIOUS
  <2> DEFINE i == n - d
             p == Len(cur[i - 1].out)
             c == str[i]
             e == JsonChar(c)
  <2>1. i \in 1..n /\ i \in 0..n /\ i - 1 \in 0..n /\ n - (d + 1) = i - 1 /\ (i - 1) + 1 = i /\ d <= n BY <1>2
  <2>2. P(i) BY <1>15, <2>1
  <2> HIDE DEF i
  <2>3. /\ cur[i - 1].ok /\ Len(cur[i].out) = p + Len(e)
        /\ \A k \in 1..p : cur[i].out[k] = cur[i - 1].out[k]
        /\ \A k \in 1..Len(e) : cur[i].out[p + k] = e[k]
    BY <1>10, <2>1, <2>2
  <2>4. p \in Nat /\ p >= 1 BY <1>3, <1>13, <2>1, <2>3
  <2>5. c \in 0..255 /\ Len(e) \in 1..2 BY <1>4, <2>1, JsonCharType
  <2>6. c >= 32 \/ c \in DOMAIN Escapes
    <3>1. i \in DOMAIN str BY <2>1 DEF n
    <3> QED BY <3>1 DEF Printable
  <2>17. Len(cur[i].out) < L /\ \A k \in 1..Len(cur[i].out) : text[k] = cur[i].out[k] BY <2>2
  <2>18. From[Len(cur[i].out) + 1] = SubSeq(str, i + 1, n) BY <2>2
  <2> HIDE DEF p, c, e, L, P
  <2>7. p + Len(e) < L /\ p < L BY <1>7, <2>3, <2>4, <2>5, <2>17
  <2>8. ASSUME NEW k \in 1..p PROVE text[k] = cur[i - 1].out[k]
    <3>1. k \in 1..(p + Len(e)) BY <2>4, <2>5
    <3> QED BY <2>3, <2>17, <3>1
  <2>9. ASSUME NEW k \in 1..Len(e) PROVE text[p + k] = e[k]
    <3>1. p + k \in 1..(p + Len(e)) BY <2>4, <2>5
    <3> QED BY <2>3, <2>17, <3>1
  <2> DEFINE q == p + 1
  <2>10. q \in Nat /\ q >= 2 /\ q + Len(e) <= L /\ q - 1 = p /\ q + Len(e) = (p + Len(e)) + 1 BY <1>7, <2>4, <2>5, <2>7
  <2> HIDE DEF q
  <2>11. \A k \in 1..Len(e) : text[(q - 1) + k] = e[k] BY <2>9, <2>10
  <2>12. From[q] = <<c>> \o From[q + Len(e)]
    <3>1. SpelledAt(text, q, c) BY <2>6, <2>10, <2>11 DEF SpelledAt, e, L
    <3>2. q \in Nat /\ c \in 0..255 /\ text \in Seq(0..255) BY <1>5, <2>5, <2>10
    <3>3. ReadsAt(From, q, c) BY <1>8, <3>1, <3>2, ReadsChar, Zenon
    <3> QED BY <3>3, Zenon DEF e, ReadsAt
  <2>13. From[q + Len(e)] = SubSeq(str, i + 1, n) BY <2>3, <2>10, <2>18
  <2>14. <<c>> \o SubSeq(str, i + 1, n) = SubSeq(str, i, n)
    BY <2>1, SubSeqRecursiveFirst DEF c, n
  <2>15. From[p + 1] = SubSeq(str, (i - 1) + 1, n) BY <2>1, <2>12, <2>13, <2>14 DEF q
  <2>16. P(i - 1) BY <2>3, <2>7, <2>8, <2>15 DEF P, p
  <2> QED BY <2>1, <2>16
<1> HIDE DEF D, P, L
<1>16. n \in D BY <1>2, <1>14, <1>15, Induction
<1>17. P(0)
  <2>1. n - n = 0 /\ n <= n BY <1>2
  <2> QED BY <1>2, <1>16, <2>1 DEF D
<1>18. From[2] = SubSeq(str, 1, n)
  <2>1. cur[0].ok /\ From[Len(cur[0].out) + 1] = SubSeq(str, 0 + 1, n) BY <1>17 DEF P
  <2>2. Len(cur[0].out) = 1 /\ 0 + 1 = 1 /\ 1 + 1 = 2 BY <1>9, <2>1
  <2> QED BY <2>1, <2>2
<1>19. SubSeq(str, 1, n) = str BY SubSeqFull DEF n
<1> QED BY <1>8, <1>18, <1>19 DEF text, json

LEMMA JsonOfInput == InputInv => JsonInverse
<1> SUFFICES ASSUME InputInv, NEW room \in 0..(2 * MaxLen + 3)
             PROVE  LET json == cursor_push_jsonstr(input, room)
                    IN  /\ Len(json.out) <= room
                        /\ json.ok /\ Printable(input) => ParseString(json.out) = input
                        /\ room > 2 * Len(input) + 2 => json.ok
  BY DEF JsonInverse
<1>1. input \in Seq(0..255) /\ room \in Nat BY CodecAssumption DEF InputInv
<1> QED BY <1>1, JsonFits, JsonIsRead

\* Strings of any length survive JSON (nostri.c:26-72): whatever is written stays
\* inside the buffer, a parser reads back the very text if it fits, and with a
\* byte to spare it always does.
THEOREM JsonIsExact == Spec => []JsonInverse
BY InputAlways, JsonOfInput, PTL
=============================================================================
