---------------------------- MODULE Base64Proofs ----------------------------
(***************************************************************************)
(* For sources and streams of any length, and any size of the decoder's    *)
(* input buffer: the encoder stays within the buffer that                  *)
(* uuencode_get_length is the size of, and its text has the bits of the    *)
(* source; the decoder stays within its buffers, decodes the stream as if  *)
(* it were in one piece, writes the bits of its characters, and reads back *)
(* what was encoded.  The invariant has a part for each of the two and for *)
(* both, EncoderInv, DecoderInv and ReaderInv; they rest on what is        *)
(* decoded from a text, Outcome, which lemmas follow from one character to *)
(* the next.                                                               *)
(***************************************************************************)
EXTENDS Base64, SequenceLemmas

(* Writing within the buffer leaves its length, and what is not written.   *)
FillsIn(w, p, text) ==
  /\ Len(w) = Len(store)
  /\ \A i \in 1..Len(store) :
       w[i] = IF p < i /\ i <= p + Len(text) THEN text[i - p] ELSE store[i]

LEMMA WrittenWithin ==
  ASSUME NEW p \in Nat, NEW text, Len(text) \in Nat, DOMAIN text = 1..Len(text),
         Len(store) \in Nat, p + Len(text) <= Len(store)
  PROVE  FillsIn(Written(p, text), p, text)
<1> DEFINE w == Written(p, text)
<1>1. w = [i \in 1..Len(store) |-> IF i - p \in DOMAIN text THEN text[i - p] ELSE store[i]]
  BY DEF Written
<1>2. \A i \in 1..Len(store) : i - p \in DOMAIN text <=> p < i /\ i <= p + Len(text)
  OBVIOUS
<1>3. \A i \in 1..Len(store) : w[i] = IF i - p \in DOMAIN text THEN text[i - p] ELSE store[i]
  BY <1>1
<1>4. Len(w) = Len(store)
  BY <1>1, LenOfFunction
<1> QED BY <1>2, <1>3, <1>4 DEF FillsIn

(* The four characters that stand for three bytes.                         *)
Sextets(s0, s1, s2) ==
  <<s0 \div 4, 16 * (s0 % 4) + s1 \div 16, 4 * (s1 % 16) + s2 \div 64, s2 % 64>>

SameNumber(c, s0, s1, s2) ==
  65536 * s0 + 256 * s1 + s2 = 262144 * c[1] + 4096 * c[2] + 64 * c[3] + c[4]

FourOfThree(c, s0, s1, s2) ==
  /\ c[1] \in 0..63 /\ c[2] \in 0..63 /\ c[3] \in 0..63 /\ c[4] \in 0..63
  /\ SameNumber(c, s0, s1, s2)
  /\ (s2 = 0 => c[4] = 0) /\ (s1 = 0 /\ s2 = 0 => c[3] = 0)

LEMMA GroupOfBytes ==
  ASSUME NEW s0 \in 0..255, NEW s1 \in 0..255, NEW s2 \in 0..255
  PROVE  FourOfThree(Sextets(s0, s1, s2), s0, s1, s2)
<1> DEFINE a == s0 \div 4  b == s0 % 4  c == s1 \div 16  d == s1 % 16
           e == s2 \div 64  f == s2 % 64
           chars == Sextets(s0, s1, s2)
<1>1. a \in 0..63 /\ b \in 0..3 /\ s0 = 4 * a + b
  OBVIOUS
<1>2. c \in 0..15 /\ d \in 0..15 /\ s1 = 16 * c + d
  OBVIOUS
<1>3. e \in 0..3 /\ f \in 0..63 /\ s2 = 64 * e + f
  OBVIOUS
<1>4. chars[1] = a /\ chars[2] = 16 * b + c /\ chars[3] = 4 * d + e /\ chars[4] = f
  BY DEF Sextets
<1> HIDE DEF a, b, c, d, e, f, chars
<1>5. chars[1] \in 0..63 /\ chars[2] \in 0..63 /\ chars[3] \in 0..63 /\ chars[4] \in 0..63
  BY <1>1, <1>2, <1>3, <1>4
<1>6. 65536 * s0 + 256 * s1 + s2 = 262144 * a + 4096 * (16 * b + c) + 64 * (4 * d + e) + f
  BY <1>1, <1>2, <1>3
<1>7. SameNumber(chars, s0, s1, s2)
  BY <1>4, <1>6, SMT DEF SameNumber
<1>8. (s2 = 0 => chars[4] = 0) /\ (s1 = 0 /\ s2 = 0 => chars[3] = 0)
  BY <1>2, <1>3, <1>4
<1> QED BY <1>5, <1>7, <1>8 DEF FourOfThree, chars

(* Such characters are of the table, and the last are 0 without bits.      *)
LEMMA FourChars ==
  ASSUME NEW c, NEW s0, NEW s1, NEW s2, FourOfThree(c, s0, s1, s2)
  PROVE  /\ \A j \in 1..4 : c[j] \in 0..63
         /\ s2 = 0 => c[4] = 0
         /\ s1 = 0 /\ s2 = 0 => c[3] = 0
<1>1. c[1] \in 0..63 /\ c[2] \in 0..63 /\ c[3] \in 0..63 /\ c[4] \in 0..63
  BY DEF FourOfThree
<1>2. (s2 = 0 => c[4] = 0) /\ (s1 = 0 /\ s2 = 0 => c[3] = 0)
  BY DEF FourOfThree
<1> QED BY <1>1, <1>2

(* Those of a group of the source.                                         *)
Chars(g) == Sextets(Byte(3 * g + 1), Byte(3 * g + 2), Byte(3 * g + 3))

(* What is encoded is bytes; by a name, as the provers get lost otherwise. *)
OfBytes == src \in Seq(0..255)

LEMMA ByteRange ==
  ASSUME OfBytes, NEW i \in Nat \ {0}
  PROVE  Byte(i) \in 0..255 /\ (i > Len(src) => Byte(i) = 0)
<1>1. Len(src) \in Nat /\ (i <= Len(src) => src[i] \in 0..255)
  BY ElementOfSeq, LenProperties DEF OfBytes
<1> QED BY <1>1 DEF Byte

(* The four characters of a group have the bits of its three bytes.        *)
LEMMA CharsOfGroup ==
  ASSUME OfBytes, NEW g \in Nat
  PROVE  /\ SameNumber(Chars(g), Byte(3 * g + 1), Byte(3 * g + 2), Byte(3 * g + 3))
         /\ \A j \in 1..4 : Chars(g)[j] \in 0..63
         /\ Len(src) < 3 * g + 3 => Chars(g)[4] = 0
         /\ Len(src) < 3 * g + 2 => Chars(g)[3] = 0 /\ Chars(g)[4] = 0
<1> DEFINE s0 == Byte(3 * g + 1)  s1 == Byte(3 * g + 2)  s2 == Byte(3 * g + 3)
<1>1. s0 \in 0..255 /\ s1 \in 0..255 /\ s2 \in 0..255
  <2>1. 3 * g + 1 \in Nat \ {0} /\ 3 * g + 2 \in Nat \ {0} /\ 3 * g + 3 \in Nat \ {0}
    OBVIOUS
  <2> HIDE DEF OfBytes
  <2> QED BY <2>1, ByteRange, Zenon
<1>2. (Len(src) < 3 * g + 3 => s2 = 0) /\ (Len(src) < 3 * g + 2 => s1 = 0 /\ s2 = 0)
  <2>1. /\ 3 * g + 2 \in Nat \ {0} /\ 3 * g + 3 \in Nat \ {0}
        /\ 3 * g + 2 > Len(src) => Byte(3 * g + 2) = 0
        /\ 3 * g + 3 > Len(src) => Byte(3 * g + 3) = 0
    BY ByteRange
  <2>2. Len(src) \in Nat
    BY LenProperties DEF OfBytes
  <2> QED BY <2>1, <2>2
<1>3. Chars(g) = Sextets(s0, s1, s2)
  BY DEF Chars
<1> HIDE DEF s0, s1, s2
<1>4. FourOfThree(Chars(g), s0, s1, s2)
  <2>1. FourOfThree(Sextets(s0, s1, s2), s0, s1, s2)
    BY <1>1, GroupOfBytes
  <2> QED BY <1>3, <2>1
<1>5. /\ \A j \in 1..4 : Chars(g)[j] \in 0..63
      /\ s2 = 0 => Chars(g)[4] = 0
      /\ s1 = 0 /\ s2 = 0 => Chars(g)[3] = 0
  BY <1>4, FourChars
<1>6. SameNumber(Chars(g), s0, s1, s2)
  BY <1>4 DEF FourOfThree
<1> QED BY <1>2, <1>5, <1>6 DEF s0, s1, s2

(* What is left shrinks by whole groups of three bytes, the groups before  *)
(* it are in the buffer, and behind them are zeros.                        *)
Groups(k) ==
  /\ length = Len(src) - 3 * k
  /\ \A g \in 0..k - 1 : \A j \in 1..4 : store[4 * g + j] = Chars(g)[j]
  /\ \A i \in 4 * k + 1..Len(store) : store[i] = Nul

EncoderInv ==
  /\ OfBytes /\ length \in Int /\ NothingPastEnd /\ EncodedBits
  /\ pc = "encode" => length >= -2 /\ \E k \in Nat : Groups(k)

(* The invariant holds when the buffer has been made.                      *)
LEMMA InitEncoder == Init => EncoderInv
<1> SUFFICES ASSUME Init PROVE EncoderInv
  OBVIOUS
<1>1. OfBytes /\ Len(src) \in Nat /\ length = Len(src)
  <2>1. src \in Sources \/ src = <<>>
    BY DEF Init
  <2>2. src \in Seq(0..255)
    <3>1. Sources \subseteq Seq(0..255) /\ <<>> \in Seq(0..255)
      BY Base64Assumption, EmptySeq
    <3> QED BY <2>1, <3>1
  <2> QED BY <2>2, LenProperties DEF Init, OfBytes
<1>2. uuencode_get_length(Len(src)) + 1 \in Nat
  BY <1>1 DEF uuencode_get_length
<1>3. Len(store) = uuencode_get_length(Len(src)) + 1
  BY <1>2, LenOfFunction DEF Init
<1> DEFINE size == uuencode_get_length(Len(src)) + 1
<1>4. \A i \in 1..size : store[i] = Nul
  BY DEF Init
<1>5. Groups(0)
  <2>1. length = Len(src) - 3 * 0 /\ 4 * 0 + 1 = 1 /\ ~\E g : g \in 0..0 - 1
    BY <1>1
  <2> QED BY <1>3, <1>4, <2>1 DEF Groups
<1>6. EncodedBits
  <2>1. pc # "encode" => Len(src) = 0 /\ store[1] = Nul
    <3>1. pc # "encode" => Len(src) = 0
      <4>1. pc # "encode" => src = <<>>
        BY Zenon DEF Init
      <4>2. Len(<<>>) = 0
        OBVIOUS
      <4> QED BY <4>1, <4>2, Zenon
    <3>2. Len(src) = 0 => 1 \in 1..size
      BY DEF uuencode_get_length
    <3> QED BY <1>4, <3>1, <3>2
  <2>2. Len(src) = 0 => uuencode_get_length(Len(src)) = 0
    BY DEF uuencode_get_length
  <2> QED BY <1>1, <2>1, <2>2, SMT DEF EncodedBits
<1> QED BY <1>1, <1>3, <1>5, <1>6 DEF EncoderInv, NothingPastEnd

(* A group is written behind the ones before it.                           *)
LEMMA EncodeKeeps ==
  ASSUME EncoderInv, Encode
  PROVE  EncoderInv'
<1>1. OfBytes /\ Len(src) \in Nat /\ length \in Int
      /\ Len(store) = 4 * ((Len(src) + 2) \div 3) + 1 /\ Len(store) \in Nat
  BY LenProperties DEF OfBytes, EncoderInv, NothingPastEnd, uuencode_get_length
<1>2. PICK k \in Nat : Groups(k)
  BY DEF EncoderInv, Encode
<1>3. Position = 4 * k /\ Used = 3 * k /\ length = Len(src) - 3 * k /\ length > 0
  BY <1>1, <1>2 DEF Position, Used, Groups, Encode
<1>4. 4 * k + 4 <= Len(store)
  BY <1>1, <1>3
<1>5. Group = Chars(k) /\ Len(Chars(k)) = 4 /\ DOMAIN Chars(k) = 1..4
  BY <1>3 DEF Group, Chars, Sextets
<1>6. store' = Written(4 * k, Chars(k))
  BY <1>3, <1>5 DEF Encode
<1>7. /\ Len(store') = Len(store)
      /\ \A i \in 1..Len(store) :
           store'[i] = IF 4 * k < i /\ i <= 4 * k + 4 THEN Chars(k)[i - 4 * k] ELSE store[i]
  <2>1. 4 * k \in Nat /\ Len(Chars(k)) \in Nat /\ DOMAIN Chars(k) = 1..Len(Chars(k))
        /\ 4 * k + Len(Chars(k)) <= Len(store)
    BY <1>4, <1>5
  <2>2. FillsIn(store', 4 * k, Chars(k))
    BY <1>1, <1>6, <2>1, WrittenWithin
  <2> QED BY <1>5, <2>2 DEF FillsIn
<1>8. /\ length' = Len(src) - 3 * (k + 1) /\ length' >= -2 /\ length' \in Int
      /\ src' = src /\ pc' = pc /\ pc = "encode" /\ k + 1 \in Nat
  BY <1>1, <1>3 DEF Encode
<1>9. ASSUME NEW g \in 0..k, NEW j \in 1..4 PROVE store'[4 * g + j] = Chars(g)[j]
  <2>1. 4 * g + j \in 1..Len(store)
    BY <1>1, <1>4
  <2>2. CASE g = k
    <3>1. 4 * k < 4 * g + j /\ 4 * g + j <= 4 * k + 4 /\ (4 * g + j) - 4 * k = j
      BY <2>2
    <3> QED BY <1>7, <2>1, <2>2, <3>1
  <2>3. CASE g # k
    <3>1. g \in 0..k - 1 /\ ~(4 * k < 4 * g + j)
      BY <2>3
    <3> QED BY <1>2, <1>7, <2>1, <3>1 DEF Groups
  <2> QED BY <2>2, <2>3
<1>10. ASSUME NEW i \in 4 * (k + 1) + 1..Len(store) PROVE store'[i] = Nul
  <2>1. i \in 1..Len(store) /\ ~(i <= 4 * k + 4) /\ i \in 4 * k + 1..Len(store)
    BY <1>1
  <2> QED BY <1>2, <1>7, <2>1 DEF Groups
<1>11. Groups(k + 1)'
  <2>1. \A g : Chars(g)' = Chars(g)
    BY <1>8 DEF Chars, Byte
  <2>2. (k + 1) - 1 = k
    OBVIOUS
  <2> QED BY <1>7, <1>8, <1>9, <1>10, <2>1, <2>2 DEF Groups
<1>12. NothingPastEnd'
  BY <1>1, <1>7, <1>8 DEF NothingPastEnd, uuencode_get_length
<1>13. EncodedBits'
  BY <1>8, SMT DEF EncodedBits
<1>14. OfBytes'
  BY <1>1, <1>8 DEF OfBytes
<1>15. \E j \in Nat : Groups(j)'
  BY <1>8, <1>11
<1> QED BY <1>8, <1>12, <1>13, <1>14, <1>15 DEF EncoderInv

(* The padding replaces the characters of the bytes that are not there.    *)
LEMMA EncodeEndKeeps ==
  ASSUME EncoderInv, EncodeEnd
  PROVE  EncoderInv'
<1> DEFINE text == [i \in 1..Padding |-> Pad] \o <<Nul>>
           n == uuencode_get_length(Len(src))
           pads == (-Len(src)) % 3
<1>1. OfBytes /\ Len(src) \in Nat /\ length \in Int
      /\ n = 4 * ((Len(src) + 2) \div 3) /\ Len(store) = n + 1 /\ Len(store) \in Nat
  BY LenProperties DEF OfBytes, EncoderInv, NothingPastEnd, uuencode_get_length
<1>2. PICK k \in Nat : Groups(k)
  BY DEF EncoderInv, EncodeEnd
<1>3. length \in {-2, -1, 0} /\ Padding \in Nat /\ Padding = -length /\ length = Len(src) - 3 * k
  <2>1. length <= 0 /\ length >= -2
    BY DEF EncoderInv, EncodeEnd
  <2>2. length = Len(src) - 3 * k
    BY <1>2 DEF Groups
  <2> QED BY <1>1, <2>1, <2>2 DEF Padding
<1>4. Position = 4 * k /\ n = 4 * k /\ (length = 0 \/ k >= 1)
  BY <1>1, <1>3 DEF Position, Used
<1>5. pads = Padding /\ n - Padding \in Nat
  BY <1>1, <1>3, <1>4
<1>6. /\ Len(text) = Padding + 1 /\ DOMAIN text = 1..Padding + 1 /\ text[Padding + 1] = Nul
      /\ \A i \in 1..Padding : text[i] = Pad
  <2> DEFINE row == [i \in 1..Padding |-> Pad]
  <2>1. Len(row) = Padding /\ \A i \in 1..Padding : row[i] = Pad
    BY <1>3, LenOfFunction
  <2>2. row \in Seq({Pad, Nul})
    <3>1. row \in [1..Padding -> {Pad, Nul}]
      OBVIOUS
    <3> QED BY <1>3, <3>1, SeqDef
  <2>3. <<Nul>> \in Seq({Pad, Nul}) /\ Len(<<Nul>>) = 1 /\ <<Nul>>[1] = Nul
    OBVIOUS
  <2> HIDE DEF row
  <2>4. /\ row \o <<Nul>> \in Seq({Pad, Nul}) /\ Len(row \o <<Nul>>) = Padding + 1
        /\ \A i \in 1..Padding + 1 :
             (row \o <<Nul>>)[i] = IF i <= Padding THEN row[i] ELSE <<Nul>>[i - Padding]
    BY <2>1, <2>2, <2>3, ConcatProperties
  <2>5. Padding + 1 \in 1..Padding + 1 /\ (Padding + 1) - Padding = 1
        /\ DOMAIN (row \o <<Nul>>) = 1..Padding + 1
    BY <1>3, <2>4, LenProperties
  <2>6. (row \o <<Nul>>)[Padding + 1] = Nul
    BY <1>3, <2>3, <2>4, <2>5
  <2>7. \A i \in 1..Padding : (row \o <<Nul>>)[i] = Pad
    BY <1>3, <2>1, <2>4
  <2> QED BY <2>4, <2>5, <2>6, <2>7 DEF row
<1>7. store' = Written(n - Padding, text)
  BY <1>4 DEF EncodeEnd
<1> HIDE DEF text, n, pads
<1>8. /\ Len(store') = n + 1
      /\ \A i \in 1..n + 1 :
           store'[i] = IF n - Padding < i /\ i <= (n - Padding) + (Padding + 1)
                       THEN text[i - (n - Padding)] ELSE store[i]
  <2>1. Len(text) \in Nat /\ DOMAIN text = 1..Len(text) /\ (n - Padding) + Len(text) <= Len(store)
    BY <1>1, <1>3, <1>4, <1>5, <1>6
  <2>2. FillsIn(store', n - Padding, text)
    BY <1>1, <1>5, <1>7, <2>1, WrittenWithin
  <2> QED BY <1>1, <1>6, <2>2 DEF FillsIn
<1>9. \A i \in 1..n - Padding : store'[i] = store[i]
  BY <1>1, <1>3, <1>5, <1>8
<1>10. \A i \in 1..n : i > n - Padding => store'[i] = Pad
  <2>1. ASSUME NEW i \in 1..n, i > n - Padding PROVE store'[i] = Pad
    <3>1. i \in 1..n + 1 /\ i <= (n - Padding) + (Padding + 1) /\ i - (n - Padding) \in 1..Padding
      BY <1>3, <1>5, <1>4, <2>1
    <3> QED BY <1>6, <1>8, <2>1, <3>1
  <2> QED BY <2>1
<1>11. store'[n + 1] = Nul
  <2>1. n + 1 \in 1..n + 1 /\ n - Padding < n + 1 /\ n + 1 <= (n - Padding) + (Padding + 1)
        /\ (n + 1) - (n - Padding) = Padding + 1
    BY <1>3, <1>4, <1>5
  <2> QED BY <1>6, <1>8, <2>1
<1>12. \A g \in 0..k - 1, j \in 1..4 : 4 * g + j <= n - Padding => store'[4 * g + j] = Chars(g)[j]
  <2>1. ASSUME NEW g \in 0..k - 1, NEW j \in 1..4, 4 * g + j <= n - Padding
        PROVE  store'[4 * g + j] = Chars(g)[j]
    <3>1. 4 * g + j \in 1..n - Padding
      BY <1>2, <1>5, <2>1
    <3>2. store[4 * g + j] = Chars(g)[j]
      BY <1>2 DEF Groups
    <3> QED BY <1>9, <3>1, <3>2
  <2> QED BY <2>1
<1>13. \A i \in 1..n : IF i > n - Padding THEN store'[i] = Pad ELSE store'[i] \in 0..63
  <2>1. ASSUME NEW i \in 1..n, ~(i > n - Padding) PROVE store'[i] \in 0..63
    <3>1. PICK g \in 0..k - 1, j \in 1..4 : i = 4 * g + j
      <4>1. (i - 1) \div 4 \in 0..k - 1 /\ ((i - 1) % 4) + 1 \in 1..4
            /\ i = 4 * ((i - 1) \div 4) + (((i - 1) % 4) + 1)
        BY <1>2, <1>4
      <4> QED BY <4>1
    <3>2. g \in Nat /\ 4 * g + j <= n - Padding
      BY <1>3, <1>5, <1>4, <2>1, <3>1
    <3> QED BY <1>1, <1>12, <3>1, <3>2, CharsOfGroup
  <2> QED BY <1>10, <2>1
<1>14. ASSUME NEW g \in 0..k - 1, NEW j \in 1..4
       PROVE  Chars(g)[j] = IF 4 * g + j > n - Padding THEN 0 ELSE store'[4 * g + j]
  <2>1. CASE 4 * g + j > n - Padding
    <3>1. /\ g \in Nat
          /\ \/ Padding = 1 /\ j = 4 /\ Len(src) < 3 * g + 3
             \/ Padding = 2 /\ j \in {3, 4} /\ Len(src) < 3 * g + 2
      <4>1. g \in Nat /\ n = 4 * k /\ Padding \in {0, 1, 2} /\ Len(src) = 3 * k - Padding
        <5>1. Padding \in {0, 1, 2}
          BY <1>3
        <5>2. Len(src) = 3 * k + length
          BY <1>1, <1>3
        <5>3. Len(src) = 3 * k - Padding
          BY <1>3, <5>2
        <5> QED BY <1>2, <1>4, <5>1, <5>3
      <4>2. g = k - 1 /\ j > 4 - Padding
        BY <1>2, <2>1, <4>1
      <4>3. Padding = 1 \/ Padding = 2
        BY <4>1, <4>2
      <4>4. CASE Padding = 1
        BY <1>2, <4>1, <4>2, <4>4
      <4>5. CASE Padding = 2
        BY <1>2, <4>1, <4>2, <4>5
      <4> QED BY <4>3, <4>4, <4>5
    <3> QED BY <1>1, <2>1, <3>1, CharsOfGroup
  <2>2. CASE ~(4 * g + j > n - Padding)
    <3>1. 4 * g + j <= n - Padding
      BY <1>3, <1>4, <1>5, <2>2
    <3> QED BY <1>12, <2>2, <3>1
  <2> QED BY <2>1, <2>2
<1>15. src' = src /\ length' = 0 /\ pc' = "read"
  BY DEF EncodeEnd
<1>16. EncodedBits'
  <2> DEFINE Six(i) == IF i > n - Padding THEN 0 ELSE store'[i]
  <2>1. ASSUME NEW g \in 0..n \div 4 - 1
        PROVE  65536 * Byte(3 * g + 1) + 256 * Byte(3 * g + 2) + Byte(3 * g + 3) =
                 262144 * Six(4 * g + 1) + 4096 * Six(4 * g + 2) + 64 * Six(4 * g + 3)
                   + Six(4 * g + 4)
    <3>1. g \in 0..k - 1 /\ g \in Nat
      BY <1>4
    <3>2. /\ Chars(g)[1] = Six(4 * g + 1) /\ Chars(g)[2] = Six(4 * g + 2)
          /\ Chars(g)[3] = Six(4 * g + 3) /\ Chars(g)[4] = Six(4 * g + 4)
      BY <1>14, <3>1
    <3>3. SameNumber(Chars(g), Byte(3 * g + 1), Byte(3 * g + 2), Byte(3 * g + 3))
      BY <1>1, <3>1, CharsOfGroup
    <3> HIDE DEF Six
    <3> QED BY <3>2, <3>3, SMT DEF SameNumber
  <2>2. \A i : Byte(i)' = Byte(i)
    BY <1>15 DEF Byte
  <2>3. uuencode_get_length(Len(src))' = n /\ ((-Len(src)) % 3)' = Padding
    BY <1>5, <1>15 DEF n, pads, uuencode_get_length
  <2> QED BY <1>11, <1>13, <1>15, <2>1, <2>2, <2>3, SMT DEF EncodedBits
<1>17. NothingPastEnd'
  BY <1>8, <1>15 DEF NothingPastEnd, n, uuencode_get_length
<1>18. OfBytes'
  BY <1>1, <1>15 DEF OfBytes
<1> QED BY <1>15, <1>16, <1>17, <1>18 DEF EncoderInv

(* Every step keeps the invariant.                                         *)
LEMMA NextEncoder == EncoderInv /\ [Next]_vars => EncoderInv'
<1> SUFFICES ASSUME EncoderInv, [Next]_vars PROVE EncoderInv'
  OBVIOUS
<1>1. CASE ReadTerminator \/ Decode \/ UNCHANGED vars
  <2>1. /\ src' = src /\ length' = length /\ store' = store
        /\ pc' # "encode" \/ UNCHANGED vars
        /\ pc # "encode" \/ UNCHANGED vars
    BY <1>1 DEF ReadTerminator, Decode, encoder, vars
  <2>2. (pc' = "encode" => pc = "encode") /\ (pc' # "encode" => pc # "encode")
    BY <2>1 DEF vars
  <2>3. (NothingPastEnd' <=> NothingPastEnd) /\ (OfBytes' <=> OfBytes)
    BY <2>1 DEF NothingPastEnd, OfBytes
  <2>4. EncodedBits => EncodedBits'
    BY <2>1, <2>2, SMT DEF EncodedBits, Byte
  <2>5. \A k : Groups(k)' <=> Groups(k)
    BY <2>1 DEF Groups, Chars, Byte
  <2> QED BY <2>1, <2>2, <2>3, <2>4, <2>5 DEF EncoderInv
<1> QED BY <1>1, EncodeKeeps, EncodeEndKeeps DEF Next

(* Each four characters stand for the 24 bits of three bytes, padding for  *)
(* the bytes that are not there, however many there are                    *)
(* (uuencode.c:56-85).                                                     *)
THEOREM SameBits == Spec => []EncodedBits
<1>1. EncoderInv => EncodedBits
  BY DEF EncoderInv
<1> QED BY InitEncoder, NextEncoder, <1>1, PTL DEF Spec

-----------------------------------------------------------------------------
(* decode_base64.  A decoder has up to three values, what it read since    *)
(* the last group, and what it wrote.                                      *)
Symbols == 0..Nul

Decoders == [six : Seq(Symbols), rest : Seq(Symbols), out : Seq(Int)]

Fresh == [six |-> <<>>, rest |-> <<>>, out |-> <<>>]

LEMMA ThreeInts ==
  ASSUME NEW a \in Int, NEW b \in Int, NEW c \in Int, NEW n \in Int, n <= 3
  PROVE  /\ SubSeq(<<a, b, c>>, 1, n) \in Seq(Int)
         /\ Len(SubSeq(<<a, b, c>>, 1, n)) = IF n >= 1 THEN n ELSE 0
<1> DEFINE y == <<a, b, c>>
<1>1. y[1] \in Int /\ y[2] \in Int /\ y[3] \in Int
  OBVIOUS
<1> HIDE DEF y
<1>2. \A j \in 1..n : j = 1 \/ j = 2 \/ j = 3
  OBVIOUS
<1>3. \A j \in 1..n : y[j] \in Int
  BY <1>1, <1>2
<1>4. SubSeq(y, 1, n) \in Seq(Int) /\ Len(SubSeq(y, 1, n)) = IF 1 <= n THEN n - 1 + 1 ELSE 0
  BY <1>3, SubSeqProperties
<1>5. (IF 1 <= n THEN n - 1 + 1 ELSE 0) = IF n >= 1 THEN n ELSE 0
  OBVIOUS
<1> QED BY <1>4, <1>5 DEF y

(* A group of n values gives n - 1 bytes.                                  *)
LEMMA BytesIs ==
  ASSUME NEW six \in Seq(Symbols), Len(six) <= 4
  PROVE  Bytes(six) \in Seq(Int) /\ Len(Bytes(six)) = IF Len(six) >= 2 THEN Len(six) - 1 ELSE 0
<1> DEFINE z == <<0, 0, 0, 0>>  x == six \o z
           a == 4 * x[1] + x[2] \div 16
           b == (16 * x[2] + x[3] \div 4) % 256
           c == (64 * x[3] + x[4]) % 256
           n == Len(six) - 1
<1>1. Len(six) \in Nat /\ six \in Seq(Int)
  <2>1. Symbols \subseteq Int
    BY DEF Symbols, Nul
  <2> QED BY <2>1, LenProperties, SeqMonotonic
<1>2. z \in Seq(Int) /\ Len(z) = 4
  OBVIOUS
<1> HIDE DEF z
<1>3. x \in Seq(Int) /\ Len(x) = Len(six) + Len(z)
  BY <1>1, <1>2, ConcatProperties
<1>4. \A j \in 1..4 : x[j] \in Int
  <2>1. \A j \in 1..4 : j \in 1..Len(x)
    BY <1>1, <1>2, <1>3
  <2> HIDE DEF x
  <2> QED BY <1>3, <2>1, ElementOfSeq
<1> HIDE DEF x
<1>5. a \in Int /\ b \in Int /\ c \in Int
  <2> DEFINE w1 == x[1]  w2 == x[2]  w3 == x[3]  w4 == x[4]
  <2>1. w1 \in Int /\ w2 \in Int /\ w3 \in Int /\ w4 \in Int
    BY <1>4
  <2> HIDE DEF w1, w2, w3, w4
  <2>2. /\ 4 * w1 + w2 \div 16 \in Int /\ (16 * w2 + w3 \div 4) % 256 \in Int
        /\ (64 * w3 + w4) % 256 \in Int
    BY <2>1
  <2> QED BY <2>2 DEF w1, w2, w3, w4
<1>6. Bytes(six) = SubSeq(<<a, b, c>>, 1, n)
  BY DEF Bytes, x, z
<1>7. n \in Int /\ n <= 3 /\ (n >= 1 <=> Len(six) >= 2)
  BY <1>1
<1> HIDE DEF a, b, c
<1>8. SubSeq(<<a, b, c>>, 1, n) \in Seq(Int)
      /\ Len(SubSeq(<<a, b, c>>, 1, n)) = IF n >= 1 THEN n ELSE 0
  <2> HIDE DEF n
  <2> QED BY <1>5, <1>7, ThreeInts
<1> QED BY <1>6, <1>7, <1>8

(* A decoder of n characters, and how much it holds.                       *)
Sound(d, n) ==
  /\ d \in Decoders
  /\ Len(d.six) <= 3 /\ Len(d.six) <= Len(d.rest) /\ Len(d.rest) <= n
  /\ 4 * Len(d.out) <= 3 * (n - Len(d.six))

Six(d, ch) == IF ch < Pad THEN Append(d.six, ch) ELSE d.six

(* It ends a group, or keeps what it read.                                 *)
Ends(d, ch) == ch = Pad \/ Len(Six(d, ch)) = 4

LEMMA NextIs ==
  ASSUME NEW d, NEW ch
  PROVE  Next64(d, ch) =
           IF Ends(d, ch)
           THEN [six |-> <<>>, rest |-> <<>>, out |-> d.out \o Bytes(Six(d, ch))]
           ELSE [six |-> Six(d, ch), rest |-> Append(d.rest, ch), out |-> d.out]
BY DEF Next64, Ends, Six

(* What the open group is with one more character.                         *)
LEMMA SixIs ==
  ASSUME NEW n, NEW d, Sound(d, n), NEW ch \in Symbols
  PROVE  /\ d.six \in Seq(Symbols) /\ d.rest \in Seq(Symbols) /\ d.out \in Seq(Int)
         /\ Len(d.six) \in 0..3 /\ Len(d.rest) \in Nat /\ Len(d.out) \in Nat
         /\ Six(d, ch) \in Seq(Symbols)
         /\ Len(Six(d, ch)) \in 0..4 /\ Len(Six(d, ch)) <= 4 /\ Len(d.six) # 4
         /\ ch < Pad => Len(Six(d, ch)) = Len(d.six) + 1
         /\ ~(ch < Pad) => Six(d, ch) = d.six
<1>1. d.six \in Seq(Symbols) /\ d.rest \in Seq(Symbols) /\ d.out \in Seq(Int)
  BY DEF Sound, Decoders
<1>2. Len(d.six) \in Nat /\ Len(d.rest) \in Nat /\ Len(d.out) \in Nat
  BY <1>1, LenProperties
<1>3. Len(d.six) <= 3
  BY DEF Sound
<1>4. Append(d.six, ch) \in Seq(Symbols) /\ Len(Append(d.six, ch)) = Len(d.six) + 1
  BY <1>1, AppendProperties
<1>5. CASE ch < Pad
  <2>1. Six(d, ch) = Append(d.six, ch)
    BY <1>5 DEF Six
  <2>2. Six(d, ch) \in Seq(Symbols) /\ Len(Six(d, ch)) = Len(d.six) + 1
    BY <1>4, <2>1
  <2>3. Len(d.six) \in 0..3 /\ Len(Six(d, ch)) \in 0..4 /\ Len(Six(d, ch)) <= 4 /\ Len(d.six) # 4
    <3> DEFINE l == Len(d.six)  k == Len(Six(d, ch))
    <3>1. l \in Nat /\ l <= 3 /\ (k = l \/ k = l + 1)
      BY <1>2, <1>3, <2>2
    <3> HIDE DEF l, k
    <3>2. l \in 0..3 /\ k \in 0..4 /\ k <= 4 /\ l # 4
      BY <3>1
    <3> QED BY <3>2 DEF l, k
  <2> HIDE <1>4
  <2> QED BY <1>1, <1>2, <1>5, <2>2, <2>3
<1>6. CASE ~(ch < Pad)
  <2>1. Six(d, ch) = d.six
    BY <1>6 DEF Six
  <2>2. Six(d, ch) \in Seq(Symbols) /\ Len(Six(d, ch)) = Len(d.six)
    BY <1>1, <2>1
  <2>3. Len(d.six) \in 0..3 /\ Len(Six(d, ch)) \in 0..4 /\ Len(Six(d, ch)) <= 4 /\ Len(d.six) # 4
    <3> DEFINE l == Len(d.six)  k == Len(Six(d, ch))
    <3>1. l \in Nat /\ l <= 3 /\ (k = l \/ k = l + 1)
      BY <1>2, <1>3, <2>2
    <3> HIDE DEF l, k
    <3>2. l \in 0..3 /\ k \in 0..4 /\ k <= 4 /\ l # 4
      BY <3>1
    <3> QED BY <3>2 DEF l, k
  <2> QED BY <1>1, <1>2, <1>6, <2>1, <2>2, <2>3
<1> QED BY <1>5, <1>6

(* A step of the decoder keeps the bounds on what it holds.                *)
LEMMA NextSound ==
  ASSUME NEW n \in Nat, NEW d, Sound(d, n), NEW ch \in Symbols
  PROVE  Sound(Next64(d, ch), n + 1)
<1> DEFINE six == Six(d, ch)  e == Next64(d, ch)
           lo == Len(d.out)  l == Len(d.six)  k == Len(six)  b == Len(Bytes(six))
<1>1. /\ d.six \in Seq(Symbols) /\ d.rest \in Seq(Symbols) /\ d.out \in Seq(Int)
      /\ l \in 0..3 /\ Len(d.rest) \in Nat /\ lo \in Nat
      /\ six \in Seq(Symbols) /\ k \in 0..4
      /\ k = l + 1 \/ k = l
      /\ ~(ch < Pad) => six = d.six
  BY SixIs
<1>2. l <= Len(d.rest) /\ Len(d.rest) <= n /\ 4 * lo <= 3 * (n - l)
  BY DEF Sound
<1>3. Ends(d, ch) => k = l \/ k = 4
  <2>1. ch = Pad => ~(ch < Pad)
    BY DEF Pad
  <2> QED BY <1>1, <2>1 DEF Ends
<1>4. ~Ends(d, ch) => k # 4
  BY DEF Ends
<1> HIDE DEF e, l, lo, k, b, six
<1>5. ASSUME Ends(d, ch) PROVE Sound(e, n + 1)
  <2>1. e = [six |-> <<>>, rest |-> <<>>, out |-> d.out \o Bytes(six)]
    BY <1>5, NextIs DEF e, six
  <2>2. Bytes(six) \in Seq(Int) /\ b = IF k >= 2 THEN k - 1 ELSE 0
    BY <1>1, BytesIs DEF k, b
  <2>3. d.out \o Bytes(six) \in Seq(Int) /\ Len(d.out \o Bytes(six)) = lo + b
    BY <1>1, <2>2, ConcatProperties DEF lo, b
  <2>4. <<>> \in Seq(Symbols) /\ Len(<<>>) = 0
    BY EmptySeq
  <2>5. e \in Decoders
    BY <2>1, <2>3, <2>4 DEF Decoders
  <2>6. Len(e.six) = 0 /\ Len(e.rest) = 0 /\ Len(e.out) = lo + b
    BY <2>1, <2>3, <2>4
  <2>7. 4 * (lo + b) <= 3 * (n + 1)
    BY <1>1, <1>2, <1>3, <1>5, <2>2
  <2> QED BY <2>5, <2>6, <2>7 DEF Sound
<1>6. ASSUME ~Ends(d, ch) PROVE Sound(e, n + 1)
  <2>1. e = [six |-> six, rest |-> Append(d.rest, ch), out |-> d.out]
    BY <1>6, NextIs DEF e, six
  <2>2. Append(d.rest, ch) \in Seq(Symbols) /\ Len(Append(d.rest, ch)) = Len(d.rest) + 1
    BY <1>1, AppendProperties
  <2>3. e \in Decoders
    BY <1>1, <2>1, <2>2 DEF Decoders
  <2>4. Len(e.six) = k /\ Len(e.rest) = Len(d.rest) + 1 /\ Len(e.out) = lo
    BY <2>1, <2>2 DEF k, lo
  <2>5. k <= 3 /\ k <= Len(d.rest) + 1 /\ Len(d.rest) + 1 <= n + 1 /\ 4 * lo <= 3 * ((n + 1) - k)
    BY <1>1, <1>2, <1>4, <1>6
  <2> QED BY <2>3, <2>4, <2>5 DEF Sound
<1> QED BY <1>5, <1>6 DEF e

(* The decoders of the beginnings of a text; the last of them is all that  *)
(* is in Decoded.                                                          *)
Sounds == {d \in Decoders : \E n \in Nat : Sound(d, n)}

Decodes(f, t) ==
  /\ f \in [0..Len(t) -> Sounds] /\ f[0] = Fresh
  /\ \A i \in 1..Len(t) : f[i] = Next64(f[i - 1], t[i])

LEMMA FreshSound == Fresh \in Sounds /\ Sound(Fresh, 0)
<1>1. <<>> \in Seq(Symbols) /\ <<>> \in Seq(Int) /\ Len(<<>>) = 0
  BY EmptySeq
<1>2. Fresh \in Decoders /\ Sound(Fresh, 0)
  BY <1>1 DEF Fresh, Decoders, Sound
<1> QED BY <1>2 DEF Sounds

(* Each step has its place in the recursion.                               *)
LEMMA NextInSounds ==
  ASSUME NEW d \in Sounds, NEW ch \in Symbols
  PROVE  Next64(d, ch) \in Sounds
<1>1. PICK n \in Nat : Sound(d, n)
  BY DEF Sounds
<1>2. Sound(Next64(d, ch), n + 1) /\ n + 1 \in Nat
  BY <1>1, NextSound
<1> QED BY <1>2 DEF Sounds, Sound

(* Decoded follows such a function.                                        *)
LEMMA DecodedIs ==
  ASSUME NEW t \in Seq(Symbols)
  PROVE  \E f : Decodes(f, t) /\ Decoded(t) = {f[Len(t)]}
<1> DEFINE n == Len(t)
           step == [p \in Sounds \X (1..n) |-> Next64(p[1], t[p[2]])]
           P(f) == f = [i \in 0..n |-> IF i = 0 THEN {Fresh} ELSE {Next64(d, t[i]) : d \in f[i - 1]}]
           upTo == CHOOSE f : P(f)
<1>1. n \in Nat /\ \A i \in 1..n : t[i] \in Symbols
  BY ElementOfSeq, LenProperties
<1>2. \A d \in Sounds, i \in 1..n : step[<<d, i>>] = Next64(d, t[i])
  OBVIOUS
<1>3. PICK f : f \in [0..n -> Sounds] /\ Recurs(f, Fresh, step, n)
  <2> HIDE DEF step
  <2>1. ASSUME NEW d \in Sounds, NEW i \in 1..n PROVE step[<<d, i>>] \in Sounds
    <3>1. Next64(d, t[i]) \in Sounds
      BY <1>1, NextInSounds
    <3> QED BY <1>2, <3>1
  <2> QED BY <1>1, <2>1, FreshSound, Recursion
<1> HIDE DEF step
<1>4. Decodes(f, t)
  <2>1. \A i \in 1..n : f[i - 1] \in Sounds
    BY <1>1, <1>3
  <2> QED BY <1>2, <1>3, <2>1 DEF Decodes, Recurs
<1> DEFINE g == [i \in 0..n |-> {f[i]}]
<1>5. P(g)
  <2>1. \A i \in 0..n : g[i] = {f[i]}
    OBVIOUS
  <2>2. ASSUME NEW i \in 1..n PROVE g[i] = {Next64(d, t[i]) : d \in g[i - 1]}
    <3>1. i \in 0..n /\ i - 1 \in 0..n
      BY <1>1
    <3>2. g[i] = {f[i]} /\ g[i - 1] = {f[i - 1]} /\ f[i] = Next64(f[i - 1], t[i])
      BY <1>4, <2>1, <3>1 DEF Decodes
    <3> HIDE DEF g
    <3> QED BY <3>2
  <2>3. g[0] = {Fresh}
    BY <1>1, <1>4, <2>1 DEF Decodes
  <2>4. g = [i \in 0..n |-> g[i]]
    OBVIOUS
  <2> HIDE DEF g
  <2>5. ASSUME NEW i \in 0..n
        PROVE  g[i] = IF i = 0 THEN {Fresh} ELSE {Next64(d, t[i]) : d \in g[i - 1]}
    <3>1. i = 0 \/ i \in 1..n
      BY <1>1
    <3>2. ~(0 \in 1..n)
      OBVIOUS
    <3> QED BY <2>2, <2>3, <3>1, <3>2, Zenon
  <2> QED BY <2>4, <2>5
<1>6. P(upTo)
  <2> HIDE DEF g
  <2> QED BY <1>5
<1>7. Decoded(t) = upTo[n]
  BY DEF Decoded, Fresh
<1> HIDE DEF upTo
<1>8. upTo[0] = g[0] /\ \A i \in 1..n : upTo[i - 1] = g[i - 1] => upTo[i] = g[i]
  <2>1. \A i \in 0..n : upTo[i] = IF i = 0 THEN {Fresh} ELSE {Next64(d, t[i]) : d \in upTo[i - 1]}
    BY <1>6
  <2> HIDE DEF g
  <2>2. \A i \in 0..n : g[i] = IF i = 0 THEN {Fresh} ELSE {Next64(d, t[i]) : d \in g[i - 1]}
    BY <1>5
  <2>3. 0 \in 0..n /\ \A i \in 1..n : i \in 0..n /\ i # 0
    BY <1>1
  <2>4. upTo[0] = {Fresh} /\ g[0] = {Fresh}
    BY <2>1, <2>2, <2>3
  <2>5. \A i \in 1..n : /\ upTo[i] = {Next64(d, t[i]) : d \in upTo[i - 1]}
                        /\ g[i] = {Next64(d, t[i]) : d \in g[i - 1]}
    BY <2>1, <2>2, <2>3
  <2> QED BY <2>4, <2>5
<1>9. upTo[n] = g[n]
  <2> HIDE DEF g
  <2>1. \A i \in 0..n : upTo[i] = g[i]
    BY <1>1, <1>8, SameRecursion
  <2> QED BY <1>1, <2>1
<1>10. g[n] = {f[n]}
  BY <1>1
<1> QED BY <1>4, <1>7, <1>9, <1>10

(* The decoder of a text.                                                  *)
Outcome(t) == CHOOSE d : Decoded(t) = {d}

LEMMA OutcomeIs ==
  ASSUME NEW t \in Seq(Symbols), NEW f, Decodes(f, t)
  PROVE  Decoded(t) = {Outcome(t)} /\ Outcome(t) = f[Len(t)]
<1>1. PICK g : Decodes(g, t) /\ Decoded(t) = {g[Len(t)]}
  BY DecodedIs
<1>2. Decoded(t) = {Outcome(t)}
  BY <1>1 DEF Outcome
<1>3. Outcome(t) = g[Len(t)]
  BY <1>1, <1>2
<1>4. Len(t) \in Nat
  BY LenProperties
<1>5. \A i \in 0..Len(t) : g[i] = f[i]
  <2>1. g[0] = f[0] /\ \A i \in 1..Len(t) : g[i - 1] = f[i - 1] => g[i] = f[i]
    BY <1>1 DEF Decodes
  <2> QED BY <1>4, <2>1, SameRecursion
<1> QED BY <1>2, <1>3, <1>4, <1>5

(* So the outcome can be followed character by character.                  *)
LEMMA OutcomeStep ==
  /\ Outcome(<<>>) = Fresh
  /\ \A t \in Seq(Symbols) :
       /\ Decoded(t) = {Outcome(t)} /\ Outcome(t) \in Sounds
       /\ \A ch \in Symbols : Outcome(Append(t, ch)) = Next64(Outcome(t), ch)
<1>1. Outcome(<<>>) = Fresh
  <2>1. <<>> \in Seq(Symbols) /\ Len(<<>>) = 0
    BY EmptySeq
  <2>2. PICK f : Decodes(f, <<>>)
    BY <2>1, DecodedIs
  <2>3. f[0] = Fresh
    BY <2>2 DEF Decodes
  <2> QED BY <2>1, <2>2, <2>3, OutcomeIs
<1>2. ASSUME NEW t \in Seq(Symbols)
      PROVE  Decoded(t) = {Outcome(t)} /\ Outcome(t) \in Sounds
  <2>1. PICK f : Decodes(f, t)
    BY DecodedIs
  <2>2. f[Len(t)] \in Sounds
    BY <2>1, LenProperties DEF Decodes
  <2> QED BY <2>1, <2>2, OutcomeIs
<1>3. ASSUME NEW t \in Seq(Symbols), NEW ch \in Symbols
      PROVE  Outcome(Append(t, ch)) = Next64(Outcome(t), ch)
  <2> DEFINE u == Append(t, ch)  n == Len(t)
  <2>1. u \in Seq(Symbols) /\ Len(u) = n + 1 /\ n \in Nat /\ u[n + 1] = ch
        /\ \A i \in 1..n : u[i] = t[i]
    BY AppendProperties, LenProperties
  <2> HIDE DEF u
  <2>2. PICK f : Decodes(f, u)
    BY <2>1, DecodedIs
  <2> DEFINE g == [i \in 0..n |-> f[i]]
  <2>3. Decodes(g, t)
    <3>1. \A i \in 0..n : g[i] = f[i]
      OBVIOUS
    <3>2. g \in [0..n -> Sounds]
      BY <2>1, <2>2 DEF Decodes
    <3> HIDE DEF g
    <3>3. \A i \in 1..n : i \in 0..n /\ i - 1 \in 0..n /\ i \in 1..n + 1
      BY <2>1
    <3>4. \A i \in 1..n : g[i] = Next64(g[i - 1], t[i])
      BY <2>1, <2>2, <3>1, <3>3 DEF Decodes
    <3>5. g[0] = Fresh
      BY <2>1, <2>2, <3>1 DEF Decodes
    <3> QED BY <3>2, <3>4, <3>5 DEF Decodes
  <2>4. g[n] = f[n]
    BY <2>1
  <2> HIDE DEF g
  <2>5. Outcome(t) = f[n]
    BY <2>3, <2>4, OutcomeIs
  <2>6. Outcome(u) = f[n + 1]
    BY <2>1, <2>2, OutcomeIs
  <2>7. f[n + 1] = Next64(f[n], u[n + 1])
    <3>1. n + 1 \in 1..n + 1 /\ (n + 1) - 1 = n
      BY <2>1
    <3> QED BY <2>1, <2>2, <3>1 DEF Decodes
  <2> QED BY <2>1, <2>5, <2>6, <2>7 DEF u
<1> QED BY <1>1, <1>2, <1>3

(* The bounds hold of the outcome of every text.                           *)
LEMMA OutcomeSound ==
  ASSUME NEW t \in Seq(Symbols)
  PROVE  Sound(Outcome(t), Len(t))
<1> DEFINE T == {s \in Seq(Symbols) : Sound(Outcome(s), Len(s))}
<1>1. <<>> \in T
  <2>1. <<>> \in Seq(Symbols) /\ Len(<<>>) = 0
    BY EmptySeq
  <2> QED BY <2>1, FreshSound, OutcomeStep
<1>2. ASSUME NEW s \in Seq(Symbols), NEW ch \in Symbols, s \in T PROVE Append(s, ch) \in T
  <2>1. /\ Append(s, ch) \in Seq(Symbols) /\ Len(Append(s, ch)) = Len(s) + 1 /\ Len(s) \in Nat
        /\ Outcome(Append(s, ch)) = Next64(Outcome(s), ch)
    BY AppendProperties, LenProperties, OutcomeStep
  <2>2. Sound(Next64(Outcome(s), ch), Len(s) + 1)
    BY <1>2, <2>1, NextSound
  <2> QED BY <2>1, <2>2
<1> HIDE DEF T
<1>3. t \in T
  BY <1>1, <1>2, SeqInduction
<1> QED BY <1>3 DEF T

(* What a decoder has not written yet is decoded again to what it was.     *)
Restarts(d) == Outcome(d.rest) = [six |-> d.six, rest |-> d.rest, out |-> <<>>]

LEMMA NextRestarts ==
  ASSUME NEW d, NEW n, Sound(d, n), Restarts(d), NEW ch \in Symbols
  PROVE  Restarts(Next64(d, ch))
<1> DEFINE e == Next64(d, ch)  b == [six |-> d.six, rest |-> d.rest, out |-> <<>>]
<1>1. d.rest \in Seq(Symbols)
  BY SixIs
<1>2. ASSUME Ends(d, ch) PROVE Restarts(e)
  <2>1. e.rest = <<>> /\ e.six = <<>>
    BY <1>2, NextIs
  <2> HIDE DEF e
  <2> QED BY <2>1, OutcomeStep DEF Restarts, Fresh
<1>3. ASSUME ~Ends(d, ch) PROVE Restarts(e)
  <2>1. e.rest = Append(d.rest, ch) /\ e.six = Six(d, ch)
    BY <1>3, NextIs
  <2>2. Outcome(Append(d.rest, ch)) = Next64(b, ch)
    <3>1. Outcome(Append(d.rest, ch)) = Next64(Outcome(d.rest), ch)
      BY <1>1, OutcomeStep
    <3> QED BY <3>1 DEF Restarts
  <2>3. Six(b, ch) = Six(d, ch) /\ (Ends(b, ch) <=> Ends(d, ch)) /\ b.rest = d.rest /\ b.out = <<>>
    BY DEF Six, Ends
  <2> HIDE DEF e, b
  <2>4. Next64(b, ch) = [six |-> Six(d, ch), rest |-> Append(d.rest, ch), out |-> <<>>]
    BY <1>3, <2>3, NextIs
  <2> QED BY <2>1, <2>2, <2>4 DEF Restarts
<1> QED BY <1>2, <1>3

(* What any text leaves over can be decoded afresh.                        *)
LEMMA OutcomeRestarts ==
  ASSUME NEW t \in Seq(Symbols)
  PROVE  Restarts(Outcome(t))
<1> DEFINE T == {s \in Seq(Symbols) : Restarts(Outcome(s))}
<1>1. <<>> \in T
  <2>1. <<>> \in Seq(Symbols)
    BY EmptySeq
  <2> QED BY <2>1, OutcomeStep DEF Restarts, Fresh
<1>2. ASSUME NEW s \in Seq(Symbols), NEW ch \in Symbols, s \in T PROVE Append(s, ch) \in T
  <2>1. /\ Append(s, ch) \in Seq(Symbols) /\ Outcome(Append(s, ch)) = Next64(Outcome(s), ch)
    BY AppendProperties, OutcomeStep
  <2>2. Restarts(Next64(Outcome(s), ch))
    BY <1>2, OutcomeSound, NextRestarts
  <2> QED BY <2>1, <2>2
<1> HIDE DEF T
<1>3. t \in T
  BY <1>1, <1>2, SeqInduction
<1> QED BY <1>3 DEF T

(* Two decoders go on in the same way from the same values, whatever one   *)
(* of them wrote before.                                                   *)
Follows(x, y, o) == x.six = y.six /\ x.out = o \o y.out

LEMMA NextFollows ==
  ASSUME NEW x, NEW y, NEW m, NEW n, Sound(x, m), Sound(y, n), NEW o \in Seq(Int),
         Follows(x, y, o), NEW ch \in Symbols
  PROVE  Follows(Next64(x, ch), Next64(y, ch), o)
<1>1. Six(x, ch) = Six(y, ch) /\ (Ends(x, ch) <=> Ends(y, ch)) /\ x.out = o \o y.out
  BY DEF Follows, Six, Ends
<1>2. Next64(x, ch).six = Next64(y, ch).six
  BY <1>1, NextIs
<1>3. CASE Ends(y, ch)
  <2>1. /\ Next64(x, ch).out = (o \o y.out) \o Bytes(Six(y, ch))
        /\ Next64(y, ch).out = y.out \o Bytes(Six(y, ch))
    BY <1>1, <1>3, NextIs
  <2>2. Six(y, ch) \in Seq(Symbols) /\ Len(Six(y, ch)) \in 0..4 /\ y.out \in Seq(Int)
    BY SixIs
  <2>3. Bytes(Six(y, ch)) \in Seq(Int)
    <3>1. Len(Six(y, ch)) <= 4
      BY SixIs
    <3> QED BY <2>2, <3>1, BytesIs
  <2>4. (o \o y.out) \o Bytes(Six(y, ch)) = o \o (y.out \o Bytes(Six(y, ch)))
    <3> DEFINE yo == y.out  z == Bytes(Six(y, ch))
    <3>1. yo \in Seq(Int) /\ z \in Seq(Int)
      BY <2>2, <2>3
    <3> HIDE DEF yo, z
    <3>2. (o \o yo) \o z = o \o (yo \o z)
      BY <3>1, ConcatAssociative
    <3> QED BY <3>2 DEF yo, z
  <2> QED BY <1>2, <2>1, <2>4 DEF Follows
<1>4. CASE ~Ends(y, ch)
  <2>1. Next64(x, ch).out = x.out /\ Next64(y, ch).out = y.out
    BY <1>1, <1>4, NextIs
  <2> QED BY <1>1, <1>2, <2>1 DEF Follows
<1> QED BY <1>3, <1>4

(* What follows two texts is decoded alike after both.                     *)
LEMMA OutcomeFollows ==
  ASSUME NEW a \in Seq(Symbols), NEW b \in Seq(Symbols), NEW o \in Seq(Int),
         Follows(Outcome(a), Outcome(b), o), NEW u \in Seq(Symbols)
  PROVE  Follows(Outcome(a \o u), Outcome(b \o u), o)
<1> DEFINE T == {s \in Seq(Symbols) : Follows(Outcome(a \o s), Outcome(b \o s), o)}
<1>1. <<>> \in T
  <2>1. <<>> \in Seq(Symbols) /\ a \o <<>> = a /\ b \o <<>> = b
    BY EmptySeq, ConcatEmptySeq
  <2> QED BY <2>1
<1>2. ASSUME NEW s \in Seq(Symbols), NEW ch \in Symbols, s \in T PROVE Append(s, ch) \in T
  <2>1. /\ AppendsTo(a, s, ch) /\ AppendsTo(b, s, ch) /\ Append(s, ch) \in Seq(Symbols)
        /\ a \o s \in Seq(Symbols) /\ b \o s \in Seq(Symbols)
    BY AppendToConcat, ConcatProperties, AppendProperties
  <2>2. /\ Outcome(a \o Append(s, ch)) = Next64(Outcome(a \o s), ch)
        /\ Outcome(b \o Append(s, ch)) = Next64(Outcome(b \o s), ch)
    BY <2>1, OutcomeStep DEF AppendsTo
  <2>3. Follows(Next64(Outcome(a \o s), ch), Next64(Outcome(b \o s), ch), o)
    <3>1. Sound(Outcome(a \o s), Len(a \o s)) /\ Sound(Outcome(b \o s), Len(b \o s))
      BY <2>1, OutcomeSound
    <3> QED BY <1>2, <3>1, NextFollows
  <2> QED BY <2>1, <2>2, <2>3
<1> HIDE DEF T
<1>3. u \in T
  BY <1>1, <1>2, SeqInduction
<1> QED BY <1>3 DEF T

(* What is not in the table changes neither.                               *)
LEMMA OutcomeSkips ==
  ASSUME NEW t \in Seq(Symbols), NEW ch \in Symbols, ch > Pad
  PROVE  /\ Outcome(Append(t, ch)).six = Outcome(t).six
         /\ Outcome(Append(t, ch)).out = Outcome(t).out
<1> DEFINE d == Outcome(t)
<1>1. Sound(d, Len(t)) /\ Outcome(Append(t, ch)) = Next64(d, ch)
  BY OutcomeSound, OutcomeStep
<1>2. ch # Pad /\ ~(ch < Pad)
  BY DEF Pad, Symbols
<1> HIDE DEF d
<1>3. Six(d, ch) = d.six /\ Len(d.six) # 4
  BY <1>1, <1>2, SixIs
<1>4. ~Ends(d, ch)
  BY <1>2, <1>3 DEF Ends
<1> QED BY <1>1, <1>3, <1>4, NextIs DEF d

-----------------------------------------------------------------------------
(* read_base64.  What the encoder wrote is the text up to the zero.        *)
LEMMA StringIs ==
  ASSUME EncoderInv', EncodeEnd
  PROVE  LET n == uuencode_get_length(Len(src)) IN
         /\ n \in Nat /\ String \in Seq(Symbols) /\ Len(String) = n
         /\ String = SubSeq(store', 1, n)
         /\ \A i \in 1..n : String[i] = store'[i] /\ store'[i] \in 0..Pad
<1> DEFINE n == uuencode_get_length(Len(src))
<1>1. src' = src /\ pc' = "read"
  BY DEF EncodeEnd
<1>2. OfBytes'
  BY DEF EncoderInv
<1>3. n \in Nat
  <2>1. Len(src) \in Nat
    BY <1>1, <1>2, LenProperties DEF OfBytes
  <2> QED BY <2>1 DEF uuencode_get_length
<1>4. Len(store') = n + 1
  BY <1>1 DEF EncoderInv, NothingPastEnd
<1>5. store'[n + 1] = Nul /\ \A i \in 1..n : store'[i] = Pad \/ store'[i] \in 0..63
  <2>1. EncodedBits'
    BY DEF EncoderInv
  <2> QED BY <1>1, <2>1, SMT DEF EncodedBits
<1> HIDE DEF n
<1>6. \A i \in 1..n : store'[i] \in 0..Pad /\ store'[i] # Nul /\ store'[i] \in Symbols
  BY <1>5 DEF Pad, Nul, Symbols
<1>7. First(store', Nul) = n + 1
  <2>1. n + 1 \in 1..Len(store') /\ (n + 1) - 1 = n /\ Len(store') \in Nat
    BY <1>3, <1>4
  <2> QED BY <1>5, <1>6, <2>1, FirstAt
<1>8. String = SubSeq(store', 1, n)
  <2>1. SelectInSeq(store', LAMBDA c : c = Nul) = First(store', Nul)
    BY DEF First, SelectInSeq
  <2>2. First(store', Nul) - 1 = n
    BY <1>3, <1>7
  <2> QED BY <2>1, <2>2 DEF String
<1>9. /\ String \in Seq(Symbols) /\ Len(String) = n
      /\ \A i \in 1..n : String[i] = store'[i]
  <2>1. /\ SubSeq(store', 1, n) \in Seq(Symbols)
        /\ Len(SubSeq(store', 1, n)) = IF 1 <= n THEN n - 1 + 1 ELSE 0
        /\ \A i \in 1..n - 1 + 1 : SubSeq(store', 1, n)[i] = store'[1 + i - 1]
    BY <1>3, <1>6, SubSeqProperties
  <2> QED BY <1>3, <1>8, <2>1
<1> QED BY <1>3, <1>6, <1>8, <1>9 DEF n

(* What is in the buffer is decoded to where the stream was left off.      *)
DecoderInv ==
  /\ in \in Seq(Symbols) /\ buf \in Seq(Symbols) /\ at \in 0..Len(in) /\ Unbroken
  /\ pc = "encode" => at = 0 /\ buf = <<>> /\ out = <<>>
  /\ pc = "read" =>
       LET d == Outcome(SubSeq(in, 1, at)) IN
       /\ Len(buf) <= BufferSize
       /\ out = d.out
       /\ Outcome(buf) = [six |-> d.six, rest |-> buf, out |-> <<>>]
       /\ \A i \in 1..at : in[i] # flags.stop



LEMMA FillIs ==
  ASSUME DecoderInv, pc = "read"
  PROVE  /\ Rest \in Seq(Symbols) /\ Len(Rest) = Len(in) - at
         /\ \A i \in 1..Len(in) - at : Rest[i] = in[at + i]
         /\ Room \in Nat /\ Fill \in Nat /\ Fill <= Room /\ Fill <= Len(in) - at
         /\ \A i \in 1..Fill : Rest[i] \notin {flags.stop, Blank}
         /\ Fill < Room /\ Fill < Len(in) - at => Rest[Fill + 1] \in {flags.stop, Blank}
<1>1. /\ in \in Seq(Symbols) /\ buf \in Seq(Symbols) /\ at \in 0..Len(in)
      /\ Len(buf) <= BufferSize /\ Len(buf) \in Nat /\ Len(in) \in Nat /\ BufferSize \in Nat
  BY Base64Assumption, LenProperties DEF DecoderInv
<1>2. /\ Rest \in Seq(Symbols) /\ Len(Rest) = Len(in) - at
      /\ \A i \in 1..Len(in) - at : Rest[i] = in[at + i]
  <2>1. 0 \in 0..Len(in) - at
    BY <1>1
  <2> QED BY <1>1, <2>1, FirstAndMore DEF Rest
<1>3. Room \in Nat
  BY <1>1 DEF Room
<1> DEFINE s == Rest \o <<Blank>>  m == Len(in) - at  C == {flags.stop, Blank}
<1>4. s \in Seq(Symbols) /\ Len(s) = m + 1 /\ s[m + 1] = Blank /\ \A i \in 1..m : s[i] = Rest[i]
  <2>1. Blank \in Symbols
    BY DEF Blank, Symbols, Nul
  <2>2. s = Append(Rest, Blank)
    BY <1>2, <2>1, AppendIsConcat
  <2> QED BY <1>2, <2>1, <2>2, AppendProperties
<1>5. m \in Nat
  BY <1>1
<1> HIDE DEF s, m
<1>6. PICK n \in 0..m + 1 : (\A i \in 1..n : s[i] \in Symbols \ C) /\ (n < m + 1 => s[n + 1] \notin Symbols \ C)
  <2> DEFINE W == Symbols \ C
  <2>1. Len(s) \in Nat
    BY <1>4, <1>5
  <2> HIDE DEF W
  <2>2. \E n \in 0..Len(s) : (\A i \in 1..n : s[i] \in W) /\ (n < Len(s) => s[n + 1] \notin W)
    BY <2>1, LongestHead
  <2> QED BY <1>4, <2>2 DEF W
<1>7. n < m + 1
  <2>1. m + 1 \in 1..m + 1
    BY <1>5
  <2>2. s[m + 1] \notin Symbols \ C
    BY <1>4
  <2> QED BY <1>5, <1>6, <2>1, <2>2
<1>8. Stop = n + 1
  <2>1. Stop = FirstIn(s, C)
    BY DEF Stop, FirstIn, SelectInSeq, s
  <2>2. n + 1 \in 1..Len(s) /\ Len(s) \in Nat /\ (n + 1) - 1 = n
    BY <1>4, <1>5, <1>7
  <2>3. s[n + 1] \in C
    BY <1>4, <1>6, <1>7, <2>2, ElementOfSeq
  <2>4. \A i \in 1..n : s[i] \notin C
    BY <1>6
  <2> HIDE DEF C
  <2> QED BY <2>1, <2>2, <2>3, <2>4, FirstInAt
<1>9. Fill = IF n < Room THEN n ELSE Room
  BY <1>5, <1>8 DEF Fill
<1>10. Fill \in Nat /\ Fill <= Room /\ Fill <= m /\ Fill <= n /\ (Fill < Room => Fill = n)
  BY <1>3, <1>5, <1>7, <1>9
<1>11. \A i \in 1..Fill : Rest[i] \notin C
  <2> TAKE i \in 1..Fill
  <2>1. i \in 1..m /\ i \in 1..n
    BY <1>5, <1>10
  <2> QED BY <1>4, <1>6, <2>1
<1>12. Fill < Room /\ Fill < m => Rest[Fill + 1] \in C
  <2> SUFFICES ASSUME Fill < Room, Fill < m PROVE Rest[Fill + 1] \in C
    OBVIOUS
  <2>1. Fill = n /\ n + 1 \in 1..m /\ n + 1 \in 1..Len(s)
    BY <1>4, <1>5, <1>10
  <2>2. s[n + 1] \in Symbols /\ s[n + 1] = Rest[n + 1]
    BY <1>4, <2>1, ElementOfSeq
  <2> QED BY <1>6, <1>7, <2>1, <2>2
<1> QED BY <1>2, <1>3, <1>10, <1>11, <1>12 DEF m

(* A line is decoded to the values and the bytes that the stream up to its *)
(* end has.                                                                *)
LineIs ==
  LET e == Outcome(SubSeq(in, 1, at + Fill))  d == Outcome(Line) IN
  /\ Line \in Seq(Symbols) /\ Len(Line) <= BufferSize
  /\ at + Fill \in 0..Len(in)
  /\ e.six = d.six /\ e.out = out \o d.out
  /\ \A i \in 1..at + Fill : in[i] # flags.stop

LEMMA LineDecoded ==
  ASSUME DecoderInv, pc = "read"
  PROVE  LineIs
<1> DEFINE a == SubSeq(in, 1, at)  u == SubSeq(Rest, 1, Fill)  ao == Outcome(a)
<1>1. /\ in \in Seq(Symbols) /\ buf \in Seq(Symbols) /\ at \in 0..Len(in) /\ Len(in) \in Nat
      /\ Len(buf) <= BufferSize /\ Len(buf) \in Nat /\ BufferSize \in Nat
      /\ out = ao.out
      /\ Outcome(buf) = [six |-> ao.six, rest |-> buf, out |-> <<>>]
      /\ \A i \in 1..at : in[i] # flags.stop
  BY Base64Assumption, LenProperties DEF DecoderInv
<1>2. /\ Len(Rest) = Len(in) - at /\ \A i \in 1..Len(in) - at : Rest[i] = in[at + i]
      /\ Room \in Nat /\ Fill \in Nat /\ Fill <= Room /\ Fill <= Len(in) - at
      /\ \A i \in 1..Fill : Rest[i] \notin {flags.stop, Blank}
  BY FillIs
<1>3. /\ a \in Seq(Symbols) /\ u \in Seq(Symbols) /\ Len(u) = Fill
      /\ a \o u = SubSeq(in, 1, at + Fill)
  <2> DEFINE f == Fill
  <2>1. f \in 0..Len(in) - at /\ at \in 0..Len(in) /\ in \in Seq(Symbols)
    BY <1>1, <1>2
  <2> HIDE DEF f
  <2>2. Rest = SubSeq(in, at + 1, Len(in))
    BY DEF Rest
  <2>3. /\ SubSeq(in, 1, at) \in Seq(Symbols)
        /\ SubSeq(Rest, 1, f) \in Seq(Symbols) /\ Len(SubSeq(Rest, 1, f)) = f
        /\ SubSeq(in, 1, at) \o SubSeq(Rest, 1, f) = SubSeq(in, 1, at + f)
    BY <2>1, <2>2, FirstAndMore
  <2> QED BY <2>3 DEF f
<1>4. Line = buf \o u
  BY DEF Line
<1> HIDE DEF a, u
<1>5. Line \in Seq(Symbols) /\ Len(Line) = Len(buf) + Fill
  BY <1>1, <1>3, <1>4, ConcatProperties
<1>6. Len(Line) <= BufferSize
  BY <1>1, <1>2, <1>5 DEF Room
<1>7. out \in Seq(Int)
  <2>1. Sound(ao, Len(a))
    BY <1>3, OutcomeSound
  <2> QED BY <1>1, <2>1 DEF Sound, Decoders
<1>8. Follows(ao, Outcome(buf), out)
  <2>1. out \o <<>> = out
    BY <1>7, ConcatEmptySeq
  <2>2. Outcome(buf).six = ao.six /\ Outcome(buf).out = <<>>
    BY <1>1
  <2> HIDE DEF ao
  <2> QED BY <1>1, <2>1, <2>2 DEF Follows
<1>9. Follows(Outcome(a \o u), Outcome(buf \o u), out)
  BY <1>1, <1>3, <1>7, <1>8, OutcomeFollows
<1>10. at + Fill \in 0..Len(in)
  BY <1>1, <1>2
<1>11. \A i \in 1..at + Fill : in[i] # flags.stop
  <2> TAKE i \in 1..at + Fill
  <2>1. CASE i <= at
    BY <1>1, <1>2, <2>1
  <2>2. CASE ~(i <= at)
    <3>1. i - at \in 1..Fill /\ i - at \in 1..Len(in) - at /\ at + (i - at) = i
      BY <1>1, <1>2, <2>2
    <3> QED BY <1>2, <3>1
  <2> QED BY <2>1, <2>2
<1> QED BY <1>3, <1>4, <1>5, <1>6, <1>9, <1>10, <1>11 DEF LineIs, Follows

(* What is left over gives the same open group, and no bytes.              *)
LEMMA TailIs ==
  ASSUME NEW t \in Seq(Symbols), NEW d, d = Outcome(t)
  PROVE  /\ Tail64(d) \in Seq(Symbols) /\ Len(Tail64(d)) <= Len(t)
         /\ Outcome(Tail64(d)) = [six |-> d.six, rest |-> Tail64(d), out |-> <<>>]
         /\ Tail64(d) = <<>> <=> d.six = <<>>
<1>1. Sound(d, Len(t)) /\ Restarts(d) /\ Len(t) \in Nat
  BY OutcomeSound, OutcomeRestarts, LenProperties
<1>2. /\ d.six \in Seq(Symbols) /\ d.rest \in Seq(Symbols)
      /\ Len(d.six) <= Len(d.rest) /\ Len(d.rest) <= Len(t)
  BY <1>1 DEF Sound, Decoders
<1>3. Len(d.six) \in Nat /\ Len(d.rest) \in Nat /\ <<>> \in Seq(Symbols) /\ Len(<<>>) = 0
  BY <1>2, EmptySeq, LenProperties
<1>4. CASE d.six = <<>>
  <2>1. Tail64(d) = <<>>
    BY <1>4 DEF Tail64
  <2>2. Outcome(<<>>) = [six |-> <<>>, rest |-> <<>>, out |-> <<>>]
    BY OutcomeStep DEF Fresh
  <2> QED BY <1>1, <1>3, <1>4, <2>1, <2>2
<1>5. CASE d.six # <<>>
  <2>1. Tail64(d) = d.rest
    BY <1>5 DEF Tail64
  <2>2. Len(d.six) # 0
    BY <1>2, <1>5, EmptySeq
  <2>3. d.rest # <<>>
    BY <1>2, <1>3, <2>2
  <2>4. Outcome(d.rest) = [six |-> d.six, rest |-> d.rest, out |-> <<>>]
    BY <1>1 DEF Restarts
  <2> QED BY <1>2, <1>5, <2>1, <2>3, <2>4
<1> QED BY <1>4, <1>5

(* Neither buffer runs over.                                               *)
LEMMA LineFits ==
  ASSUME DecoderInv, pc = "read"
  PROVE  DecoderFits
<1> DEFINE d == Outcome(Line)  k == Len(d.out)  m == Len(d.six)  n == Len(Line)
<1>1. Line \in Seq(Symbols) /\ n <= BufferSize /\ n \in Nat /\ Decoded(Line) = {d}
  BY LineDecoded, LenProperties, OutcomeStep DEF LineIs
<1>2. d.six \in Seq(Symbols) /\ d.out \in Seq(Int) /\ 4 * k <= 3 * (n - m)
  BY <1>1, OutcomeSound DEF Sound, Decoders
<1>3. k \in Nat /\ m \in Nat /\ BufferSize \in Nat
  BY <1>2, LenProperties, Base64Assumption
<1>4. Len(buf) <= BufferSize
  BY DEF DecoderInv
<1>5. k <= 3 * (BufferSize \div 4) + 2
  <2> HIDE DEF d, k, m, n
  <2> DEFINE q == BufferSize \div 4  r == BufferSize % 4
  <2>1. BufferSize = 4 * q + r /\ q \in Nat /\ r \in 0..3
    BY <1>3
  <2> HIDE DEF q, r
  <2>2. k <= 3 * q + 2
    BY <1>1, <1>2, <1>3, <2>1
  <2> QED BY <2>2 DEF q
<1> HIDE DEF d
<1> QED BY <1>1, <1>4, <1>5 DEF DecoderFits

(* Nothing is read yet: as long as the encoder works, and when it ended.   *)
Unread == in \in Seq(Symbols) /\ at = 0 /\ buf = <<>> /\ out = <<>> /\ pc # "done"

LEMMA Starts == Unread => DecoderInv
<1> SUFFICES ASSUME Unread PROVE DecoderInv
  OBVIOUS
<1>1. SubSeq(in, 1, at) = <<>> /\ <<>> \in Seq(Symbols) /\ Len(<<>>) = 0
  BY DEF Unread
<1>2. Outcome(<<>>) = [six |-> <<>>, rest |-> <<>>, out |-> <<>>] /\ Decoded(<<>>) = {Outcome(<<>>)}
  BY <1>1, OutcomeStep DEF Fresh
<1> DEFINE h == SubSeq(in, 1, at)  d == Outcome(h)
<1>3. /\ Decoded(h) = {d} /\ d.six = <<>> /\ d.out = <<>>
      /\ Outcome(buf) = [six |-> d.six, rest |-> buf, out |-> <<>>]
  <2>1. h = <<>> /\ buf = <<>>
    BY <1>1 DEF Unread
  <2> HIDE DEF h
  <2> QED BY <1>2, <2>1
<1> HIDE DEF d, h
<1>4. Unbroken
  <2>1. d \in Decoded(h) /\ out = d.out
    BY <1>3 DEF Unread
  <2>2. pc # "done"
    BY DEF Unread
  <2>3. pc = "read" => \E e \in Decoded(SubSeq(in, 1, at)) : out = e.out
    BY <2>1 DEF h
  <2> QED BY <2>2, <2>3 DEF Unbroken
<1>5. at \in 0..Len(in) /\ Len(buf) <= BufferSize /\ \A i \in 1..at : in[i] # flags.stop
  BY <1>1, Base64Assumption, LenProperties DEF Unread
<1>6. /\ in \in Seq(Symbols) /\ buf \in Seq(Symbols) /\ at = 0 /\ buf = <<>> /\ out = <<>>
      /\ out = d.out
  BY <1>1, <1>3 DEF Unread
<1> QED BY <1>3, <1>4, <1>5, <1>6, Zenon DEF DecoderInv, d, h

(* Nothing is read at first.                                               *)
LEMMA InitDecoder == Init => DecoderInv
<1> SUFFICES ASSUME Init PROVE Unread
  BY Starts
<1>1. Seq(0..Blank) \subseteq Seq(Symbols)
  <2>1. 0..Blank \subseteq Symbols
    BY DEF Symbols, Blank, Nul
  <2> QED BY <2>1, SeqMonotonic
<1>2. in \in Seq(Symbols)
  BY <1>1, Base64Assumption, EmptySeq DEF Init
<1> QED BY <1>2 DEF Init, Unread

(* The file that the encoder's text goes into is still unread.             *)
LEMMA EncodeEndStarts ==
  ASSUME DecoderInv, EncoderInv', EncodeEnd
  PROVE  Unread'
<1>1. pc' = "read" /\ at' = at /\ buf' = buf /\ out' = out /\ pc = "encode"
  BY DEF EncodeEnd, reader
<1>2. at' = 0 /\ buf' = <<>> /\ out' = <<>>
  BY <1>1 DEF DecoderInv
<1>3. String \in Seq(Symbols)
  BY StringIs
<1> DEFINE bar == <<Blank, Pad, Pad, Pad, Pad, Blank>>
<1>4. bar \in Seq(Symbols)
  BY DEF Symbols, Blank, Pad, Nul
<1> HIDE DEF bar
<1>5. (String \o bar) \o String \in Seq(Symbols)
  <2>1. String \o bar \in Seq(Symbols)
    BY <1>3, <1>4, ConcatProperties
  <2> QED BY <1>3, <2>1, ConcatProperties
<1>6. in' = IF flags.uu THEN (String \o bar) \o String ELSE String
  BY DEF EncodeEnd, bar
<1>7. in' \in Seq(Symbols)
  BY <1>3, <1>5, <1>6
<1> QED BY <1>1, <1>2, <1>7 DEF Unread

(* How far a step reads.                                                   *)
LEMMA AdvanceIs ==
  ASSUME DecoderInv, pc = "read", Advance
  PROVE  /\ at' \in 0..Len(in)
         /\ \/ at' = at + Fill
            \/ /\ at' = at + Fill + 1 /\ Fill < Room /\ Fill < Len(Rest) /\ at + Fill < Len(in)
               /\ in[at'] = Rest[Fill + 1]
               /\ Rest[Fill + 1] \in {flags.stop, Blank}
<1>1. /\ Len(Rest) = Len(in) - at /\ \A i \in 1..Len(in) - at : Rest[i] = in[at + i]
      /\ Fill \in Nat /\ Fill <= Len(in) - at
      /\ Fill < Room /\ Fill < Len(in) - at => Rest[Fill + 1] \in {flags.stop, Blank}
  BY FillIs
<1>2. at \in 0..Len(in) /\ Len(in) \in Nat
  BY LenProperties DEF DecoderInv
<1>3. CASE Fill < Room /\ Fill < Len(Rest)
  <2>1. at' = at + Fill + 1
    BY <1>3 DEF Advance
  <2>2. Fill + 1 \in 1..Len(in) - at /\ at + (Fill + 1) = at + Fill + 1
    BY <1>1, <1>2, <1>3
  <2>3. Rest[Fill + 1] = in[at + Fill + 1]
    BY <1>1, <2>2
  <2>4. at + Fill < Len(in) /\ at + Fill + 1 \in 0..Len(in)
    BY <1>1, <1>2, <1>3
  <2> QED BY <1>1, <1>3, <2>1, <2>3, <2>4
<1>4. CASE ~(Fill < Room /\ Fill < Len(Rest))
  <2>1. at' = at + Fill
    BY <1>4 DEF Advance
  <2> QED BY <1>1, <1>2, <2>1
<1> QED BY <1>3, <1>4

(* Up to a character that ends it, the stream is what was decoded.         *)
LEMMA BeforeIs ==
  ASSUME DecoderInv, pc = "read", TermSeen
  PROVE  Before(in) = SubSeq(in, 1, at + Fill)
<1>1. /\ at + Fill \in 0..Len(in) /\ \A i \in 1..at + Fill : in[i] # flags.stop
      /\ in \in Seq(Symbols) /\ Len(in) \in Nat
  BY LineDecoded, LenProperties DEF LineIs, DecoderInv
<1>2. /\ Len(Rest) = Len(in) - at /\ \A i \in 1..Len(in) - at : Rest[i] = in[at + i]
      /\ Fill \in Nat /\ Fill <= Len(in) - at /\ at \in Nat
  BY FillIs, <1>1 DEF DecoderInv
<1>3. Before(in) = IF First(in, flags.stop) = 0 THEN in
                   ELSE SubSeq(in, 1, First(in, flags.stop) - 1)
  BY DEF Before, First, SelectInSeq
<1>4. CASE Fill = Len(Rest)
  <2>1. at + Fill = Len(in)
    BY <1>1, <1>2, <1>4
  <2>2. First(in, flags.stop) = 0
    BY <1>1, <2>1, FirstMissing
  <2>3. SubSeq(in, 1, Len(in)) = in
    BY <1>1
  <2> QED BY <1>3, <2>1, <2>2, <2>3
<1>5. CASE Fill # Len(Rest)
  <2> DEFINE n == at + Fill + 1
  <2>1. Fill + 1 \in 1..Len(in) - at /\ at + (Fill + 1) = n /\ n \in 1..Len(in) /\ n - 1 = at + Fill
    <3> DEFINE f == Fill  l == Len(in)  r == Len(Rest)
    <3>1. f \in Nat /\ l \in Nat /\ at \in Nat /\ r = l - at /\ f <= l - at /\ f # r
      BY <1>1, <1>2, <1>5
    <3> HIDE DEF f, l, r
    <3>2. f + 1 \in 1..l - at /\ at + (f + 1) = n /\ n \in 1..l /\ n - 1 = at + f
      BY <3>1 DEF f
    <3> HIDE DEF n
    <3> QED BY <3>2 DEF f, l
  <2>2. in[n] = flags.stop
    BY <1>2, <1>5, <2>1 DEF TermSeen
  <2> HIDE DEF n
  <2>3. First(in, flags.stop) = n
    BY <1>1, <2>1, <2>2, FirstAt
  <2> QED BY <1>3, <2>1, <2>3
<1> QED BY <1>4, <1>5

(* What is decoded from the part of the stream that a step reads.          *)
DecodeReads ==
  LET c == Outcome(SubSeq(in, 1, at + Fill))
      e == Outcome(SubSeq(in, 1, at'))
      d == Outcome(Line)
  IN  /\ at' \in 0..Len(in) /\ buf' = Tail64(d)
      /\ c.six = d.six /\ c.out = out'
      /\ ~TermSeen => /\ e.six = d.six /\ e.out = out'
                      /\ \A i \in 1..at' : in[i] # flags.stop

LEMMA DecodeIs ==
  ASSUME DecoderInv, Decode
  PROVE  DecodeReads
<1> DEFINE k == at + Fill  p == SubSeq(in, 1, k)  e == Outcome(SubSeq(in, 1, at'))
           c == Outcome(p)  d == Outcome(Line)
<1>1. pc = "read" /\ Advance
  BY DEF Decode
<1>2. /\ Line \in Seq(Symbols) /\ k \in 0..Len(in) /\ c.six = d.six /\ c.out = out \o d.out
      /\ \A i \in 1..k : in[i] # flags.stop
      /\ in \in Seq(Symbols) /\ Len(in) \in Nat
  BY <1>1, LineDecoded, LenProperties DEF LineIs, DecoderInv
<1>3. Decoded(Line) = {d}
  BY <1>2, OutcomeStep
<1>4. out' = out \o d.out /\ buf' = Tail64(d)
  BY <1>3 DEF Decode
<1>5. at' \in 0..Len(in)
  BY <1>1, AdvanceIs
<1>6. ASSUME ~TermSeen
      PROVE  e.six = d.six /\ e.out = out' /\ \A i \in 1..at' : in[i] # flags.stop
  <2>1. CASE at' = k
    BY <1>2, <1>4, <2>1
  <2>2. CASE at' # k
    <3>1. /\ at' = k + 1 /\ k < Len(in) /\ k \in Nat /\ Fill < Room
          /\ in[at'] = Rest[Fill + 1] /\ Rest[Fill + 1] \in {flags.stop, Blank}
      BY <1>1, <1>2, <2>2, AdvanceIs
    <3>2. CASE in[at'] = Blank /\ in[at'] # flags.stop
      <4>1. p \in Seq(Symbols) /\ SubSeq(in, 1, k + 1) = Append(p, in[k + 1]) /\ Blank \in Symbols
        <5>1. Blank \in Symbols
          BY DEF Blank, Symbols, Nul
        <5> HIDE DEF k
        <5> QED BY <1>2, <3>1, <5>1, OneMore
      <4>2. Blank > Pad
        BY DEF Blank, Pad
      <4> HIDE DEF p
      <4>3. Outcome(Append(p, Blank)).six = c.six /\ Outcome(Append(p, Blank)).out = c.out
        BY <4>1, <4>2, OutcomeSkips
      <4>4. e.six = c.six /\ e.out = c.out
        BY <3>1, <3>2, <4>1, <4>3
      <4>5. \A i \in 1..at' : in[i] # flags.stop
        BY <1>2, <3>1, <3>2
      <4> QED BY <1>2, <1>4, <4>4, <4>5
    <3>3. CASE in[at'] = flags.stop
      BY <1>6, <3>1, <3>3 DEF TermSeen
    <3> QED BY <3>1, <3>2, <3>3
  <2> QED BY <2>1, <2>2
<1> QED BY <1>2, <1>4, <1>5, <1>6 DEF DecodeReads

(* A turn of the reader's loop keeps its invariant.                        *)
LEMMA DecodeKeeps ==
  ASSUME DecoderInv, Decode
  PROVE  DecoderInv'
<1> DEFINE h == SubSeq(in, 1, at')  c == Outcome(SubSeq(in, 1, at + Fill))
           e == Outcome(h)  d == Outcome(Line)
<1>1. /\ pc = "read" /\ in' = in /\ flags' = flags
      /\ in \in Seq(Symbols) /\ Len(in) \in Nat
  BY LenProperties DEF Decode, DecoderInv
<1>2. /\ at' \in 0..Len(in) /\ buf' = Tail64(d)
      /\ c.six = d.six /\ c.out = out'
  BY DecodeIs DEF DecodeReads
<1>3. Line \in Seq(Symbols) /\ Len(Line) <= BufferSize /\ at + Fill \in 0..Len(in)
  BY <1>1, LineDecoded DEF LineIs
<1>4. /\ buf' \in Seq(Symbols) /\ Len(buf') <= Len(Line)
      /\ Outcome(buf') = [six |-> d.six, rest |-> buf', out |-> <<>>]
      /\ buf' = <<>> <=> d.six = <<>>
  BY <1>2, <1>3, TailIs
<1>5. Len(buf') <= BufferSize
  <2>1. Len(buf') \in Nat /\ Len(Line) \in Nat /\ BufferSize \in Nat
    BY <1>3, <1>4, LenProperties, Base64Assumption
  <2> QED BY <1>3, <1>4, <2>1
<1>6. CASE TermSeen
  <2>1. pc' = "done" /\ result' = IF d.six = <<>> THEN 1 ELSE 0
    <3>1. Decoded(Line) = {d}
      BY <1>3, OutcomeStep
    <3>2. \E f \in Decoded(Line) :
            pc' = "done" /\ result' = IF Tail64(f) = <<>> THEN 1 ELSE 0
      BY <1>6 DEF Decode
    <3>3. pc' = "done" /\ result' = IF Tail64(d) = <<>> THEN 1 ELSE 0
      BY <3>1, <3>2
    <3> QED BY <1>2, <1>4, <3>3
  <2>2. Before(in)' = SubSeq(in, 1, at + Fill)
    <3>1. Before(in)' = Before(in)
      BY <1>1 DEF Before, SelectInSeq
    <3> QED BY <1>1, <1>6, <3>1, BeforeIs
  <2>3. c \in Decoded(SubSeq(in, 1, at + Fill))
    <3>1. SubSeq(in, 1, at + Fill) \in Seq(Symbols)
      <4> DEFINE n == at + Fill
      <4>1. n \in Nat /\ n <= Len(in) /\ \A i \in 1..n : in[i] \in Symbols
        BY <1>1, <1>3, ElementOfSeq
      <4> HIDE DEF n
      <4>2. SubSeq(in, 1, n) \in Seq(Symbols)
        BY <4>1, SubSeqProperties
      <4> QED BY <4>2 DEF n
    <3> QED BY <3>1, OutcomeStep
  <2> HIDE DEF c, d
  <2>4. \E f \in Decoded(Before(in)') : out' = f.out /\ result' = IF f.six = <<>> THEN 1 ELSE 0
    BY <1>2, <2>1, <2>2, <2>3
  <2>5. Unbroken'
    BY <2>1, <2>4 DEF Unbroken
  <2> QED BY <1>1, <1>2, <1>4, <2>1, <2>5 DEF DecoderInv
<1>7. CASE ~TermSeen
  <2>1. pc' = "read"
    BY <1>1, <1>7 DEF Decode
  <2>2. e.six = d.six /\ e.out = out' /\ \A i \in 1..at' : in[i] # flags.stop
    BY <1>7, DecodeIs DEF DecodeReads
  <2>3. h \in Seq(Symbols) /\ Decoded(h) = {e}
    <3> DEFINE n == at'
    <3>1. n \in Nat /\ n <= Len(in) /\ \A i \in 1..n : in[i] \in Symbols
      BY <1>1, <1>2, ElementOfSeq
    <3> HIDE DEF n
    <3>2. SubSeq(in, 1, n) \in Seq(Symbols)
      BY <3>1, SubSeqProperties
    <3>3. h \in Seq(Symbols)
      BY <3>2 DEF n
    <3> QED BY <3>3, OutcomeStep
  <2>4. SubSeq(in', 1, at') = h
    BY <1>1
  <2> HIDE DEF c, d, e, h
  <2>5. Unbroken'
    <3>1. \E f \in Decoded(SubSeq(in', 1, at')) : out' = f.out
      BY <2>2, <2>3, <2>4
    <3> QED BY <2>1, <3>1 DEF Unbroken
  <2>6. /\ out' = e.out
        /\ Outcome(buf') = [six |-> e.six, rest |-> buf', out |-> <<>>]
        /\ \A i \in 1..at' : in'[i] # flags'.stop
    BY <1>1, <1>4, <2>2
  <2>7. Outcome(SubSeq(in', 1, at')) = e
    BY <2>4 DEF e
  <2> QED BY <1>1, <1>2, <1>4, <1>5, <2>1, <2>5, <2>6, <2>7 DEF DecoderInv
<1> QED BY <1>6, <1>7

(* Every step keeps both invariants.                                       *)
LEMMA NextDecoder == DecoderInv /\ EncoderInv' /\ [Next]_vars => DecoderInv'
<1> SUFFICES ASSUME DecoderInv, EncoderInv', [Next]_vars PROVE DecoderInv'
  OBVIOUS
<1>1. CASE Encode
  <2>1. /\ pc = "encode" /\ pc' = pc /\ in' = in /\ flags' = flags
        /\ at' = at /\ buf' = buf /\ out' = out
    BY <1>1 DEF Encode, reader
  <2>2. Unread'
    BY <2>1 DEF DecoderInv, Unread
  <2> QED BY <2>2, Starts, PTL
<1>2. CASE EncodeEnd
  <2>1. Unread'
    BY <1>2, EncodeEndStarts
  <2> QED BY <2>1, Starts, PTL
<1>3. CASE ReadTerminator
  <2>1. /\ pc = "read" /\ pc' = "done" /\ flags' = flags /\ flags.uu /\ Advance
        /\ in' = in /\ buf' = buf
    BY <1>3 DEF ReadTerminator, Terminator
  <2>2. Unbroken'
    BY <2>1 DEF Unbroken
  <2>3. at' \in 0..Len(in)
    BY <2>1, AdvanceIs
  <2> QED BY <2>1, <2>2, <2>3 DEF DecoderInv
<1>4. CASE Decode
  BY <1>4, DecodeKeeps
<1>5. CASE UNCHANGED vars
  <2>1. /\ pc' = pc /\ in' = in /\ flags' = flags /\ at' = at /\ buf' = buf
        /\ out' = out /\ result' = result
    BY <1>5 DEF vars, reader
  <2>2. Before(in)' = Before(in)
    BY <2>1 DEF Before, SelectInSeq
  <2>3. Unbroken' <=> Unbroken
    BY <2>1, <2>2 DEF Unbroken
  <2> QED BY <2>1, <2>3 DEF DecoderInv
<1> QED BY <1>1, <1>2, <1>3, <1>4, <1>5 DEF Next

(* However many bytes are encoded, the text, its padding and the zero      *)
(* behind it fit the buffer that gst-util.c:50-52 makes; and whatever is   *)
(* read, neither in_buf nor out_buf runs over, if there is room for a      *)
(* group (uuencode.c:45-85, 179-236).                                      *)
THEOREM InBounds == Spec => []BuffersHold
<1>1. EncoderInv => NothingPastEnd
  BY DEF EncoderInv
<1>2. DecoderInv => DecoderFits
  BY LineFits DEF DecoderFits
<1>3. EncoderInv /\ DecoderInv => BuffersHold
  BY <1>1, <1>2 DEF BuffersHold
<1> QED BY InitEncoder, NextEncoder, InitDecoder, NextDecoder, <1>3, PTL DEF Spec

(* For any stream, and any size of the input buffer: that it is decoded a  *)
(* piece at a time cannot be told from what is written, nor from the       *)
(* result (uuencode.c:94-236).                                             *)
THEOREM InOnePiece == Spec => []Unbroken
<1>1. DecoderInv => Unbroken
  BY DEF DecoderInv
<1> QED BY InitEncoder, NextEncoder, InitDecoder, NextDecoder, <1>1, PTL DEF Spec

-----------------------------------------------------------------------------
(* What was encoded is read back.  First, a sequence that grows by the     *)
(* next elements of another.                                               *)
LEMMA HeadGrows ==
  ASSUME NEW S, NEW s \in Seq(S), NEW n \in Nat, NEW b \in Seq(S), n + Len(b) <= Len(s),
         \A i \in 1..Len(b) : b[i] = s[n + i]
  PROVE  SubSeq(s, 1, n) \o b = SubSeq(s, 1, n + Len(b))
<1> DEFINE m == Len(b)  h == SubSeq(s, 1, n)  w == SubSeq(s, 1, n + m)  v == h \o b
<1>1. m \in Nat /\ Len(s) \in Nat /\ \A i \in 1..Len(s) : s[i] \in S
  BY ElementOfSeq, LenProperties
<1>2. h \in Seq(S) /\ Len(h) = n /\ \A i \in 1..n : h[i] = s[i]
  <2>1. n <= Len(s) /\ \A i \in 1..n : s[i] \in S
    BY <1>1
  <2>2. /\ SubSeq(s, 1, n) \in Seq(S)
        /\ Len(SubSeq(s, 1, n)) = IF 1 <= n THEN n - 1 + 1 ELSE 0
        /\ \A i \in 1..n - 1 + 1 : SubSeq(s, 1, n)[i] = s[1 + i - 1]
    BY <2>1, SubSeqProperties
  <2> QED BY <2>2
<1>3. w \in Seq(S) /\ Len(w) = n + m /\ \A i \in 1..n + m : w[i] = s[i]
  <2> DEFINE k == n + m
  <2>1. k \in Nat /\ \A i \in 1..k : s[i] \in S
    BY <1>1
  <2> HIDE DEF k
  <2>2. /\ SubSeq(s, 1, k) \in Seq(S)
        /\ Len(SubSeq(s, 1, k)) = IF 1 <= k THEN k - 1 + 1 ELSE 0
        /\ \A i \in 1..k - 1 + 1 : SubSeq(s, 1, k)[i] = s[1 + i - 1]
    BY <2>1, SubSeqProperties
  <2>3. SubSeq(s, 1, k) \in Seq(S) /\ Len(SubSeq(s, 1, k)) = k /\ \A i \in 1..k : SubSeq(s, 1, k)[i] = s[i]
    BY <2>1, <2>2
  <2> QED BY <2>3 DEF k
<1> HIDE DEF h, w
<1>4. /\ v \in Seq(S) /\ Len(v) = n + m
      /\ \A i \in 1..n + m : v[i] = IF i <= n THEN h[i] ELSE b[i - n]
  BY <1>1, <1>2, ConcatProperties
<1> HIDE DEF v
<1>5. \A i \in 1..n + m : v[i] = w[i]
  <2> TAKE i \in 1..n + m
  <2>1. CASE i <= n
    BY <1>1, <1>2, <1>3, <1>4, <2>1
  <2>2. CASE ~(i <= n)
    <3>1. i - n \in 1..m /\ n + (i - n) = i
      BY <1>1, <2>2
    <3>2. v[i] = b[i - n] /\ w[i] = s[i]
      BY <1>3, <1>4, <2>2
    <3>3. b[i - n] = s[n + (i - n)]
      BY <3>1
    <3> QED BY <3>1, <3>2, <3>3
  <2> QED BY <2>1, <2>2
<1>6. v = w
  BY <1>3, <1>4, <1>5, SeqEqual
<1> QED BY <1>6 DEF v, h, w

(* The bytes of two, three or four values.                                 *)
BytesOf(six, b) ==
  /\ b \in Seq(Int) /\ Len(b) = Len(six) - 1
  /\ b[1] = 4 * six[1] + six[2] \div 16
  /\ Len(six) >= 3 => b[2] = (16 * six[2] + six[3] \div 4) % 256
  /\ Len(six) >= 4 => b[3] = (64 * six[3] + six[4]) % 256

LEMMA BytesAre ==
  ASSUME NEW six \in Seq(Symbols), Len(six) \in {2, 3, 4}
  PROVE  BytesOf(six, Bytes(six))
<1> DEFINE z == <<0, 0, 0, 0>>  x == six \o z
           a == 4 * x[1] + x[2] \div 16
           b == (16 * x[2] + x[3] \div 4) % 256
           c == (64 * x[3] + x[4]) % 256
           y == <<a, b, c>>
           n == Len(six) - 1
<1>1. Len(six) \in {2, 3, 4} /\ six \in Seq(Int)
  <2>1. Symbols \subseteq Int
    BY DEF Symbols
  <2> QED BY <2>1, SeqMonotonic
<1>2. z \in Seq(Int) /\ Len(z) = 4
  OBVIOUS
<1> HIDE DEF z
<1>3. /\ x \in Seq(Int) /\ Len(x) = Len(six) + Len(z)
      /\ \A i \in 1..Len(six) + Len(z) : x[i] = IF i <= Len(six) THEN six[i] ELSE z[i - Len(six)]
  BY <1>1, <1>2, ConcatProperties
<1> HIDE DEF x
<1>4. /\ x[1] = six[1] /\ x[2] = six[2]
      /\ Len(six) >= 3 => x[3] = six[3]
      /\ Len(six) >= 4 => x[4] = six[4]
  <2> DEFINE l == Len(six)
  <2>1. l \in {2, 3, 4} /\ \A i \in 1..l + 4 : x[i] = IF i <= l THEN six[i] ELSE z[i - l]
    BY <1>1, <1>2, <1>3
  <2> HIDE DEF l
  <2>2. x[1] = six[1] /\ x[2] = six[2] /\ (l >= 3 => x[3] = six[3]) /\ (l >= 4 => x[4] = six[4])
    BY <2>1
  <2> QED BY <2>2 DEF l
<1>5. x[1] \in Int /\ x[2] \in Int /\ x[3] \in Int /\ x[4] \in Int
  <2>1. \A i \in 1..4 : i \in 1..Len(x)
    BY <1>1, <1>2, <1>3
  <2>2. \A i \in 1..Len(x) : x[i] \in Int
    BY <1>3, ElementOfSeq
  <2> QED BY <2>1, <2>2
<1>6. a \in Int /\ b \in Int /\ c \in Int
  <2> DEFINE w1 == x[1]  w2 == x[2]  w3 == x[3]  w4 == x[4]
  <2>1. w1 \in Int /\ w2 \in Int /\ w3 \in Int /\ w4 \in Int
    BY <1>5
  <2> HIDE DEF w1, w2, w3, w4
  <2>2. /\ 4 * w1 + w2 \div 16 \in Int /\ (16 * w2 + w3 \div 4) % 256 \in Int
        /\ (64 * w3 + w4) % 256 \in Int
    BY <2>1
  <2> QED BY <2>2 DEF w1, w2, w3, w4
<1>7. Bytes(six) = SubSeq(y, 1, n)
  BY DEF Bytes, x, z
<1>8. y[1] = a /\ y[2] = b /\ y[3] = c
  OBVIOUS
<1> HIDE DEF a, b, c, y
<1>9. n \in {1, 2, 3} /\ (Len(six) >= 3 => n >= 2) /\ (Len(six) >= 4 => n >= 3)
  BY <1>1
<1> HIDE DEF n
<1>10. \A i \in 1..n : y[i] \in Int
  <2>1. \A i \in 1..n : i \in {1, 2, 3}
    BY <1>9
  <2> QED BY <1>6, <1>8, <2>1
<1>11. /\ SubSeq(y, 1, n) \in Seq(Int)
       /\ Len(SubSeq(y, 1, n)) = IF 1 <= n THEN n - 1 + 1 ELSE 0
       /\ \A i \in 1..n - 1 + 1 : SubSeq(y, 1, n)[i] = y[1 + i - 1]
  BY <1>9, <1>10, SubSeqProperties
<1>12. Len(SubSeq(y, 1, n)) = n /\ \A i \in 1..n : SubSeq(y, 1, n)[i] = y[i]
  BY <1>9, <1>11
<1>13. /\ Bytes(six)[1] = a
       /\ n >= 2 => Bytes(six)[2] = b
       /\ n >= 3 => Bytes(six)[3] = c
  BY <1>7, <1>8, <1>9, <1>12
<1>14. Len(Bytes(six)) = n /\ Bytes(six) \in Seq(Int)
  BY <1>7, <1>11, <1>12
<1>15. a = 4 * six[1] + six[2] \div 16
  BY <1>4 DEF a
<1>16. Len(six) >= 3 => b = (16 * six[2] + six[3] \div 4) % 256
  BY <1>4 DEF b
<1>17. Len(six) >= 4 => c = (64 * six[3] + six[4]) % 256
  BY <1>4 DEF c
<1> QED BY <1>9, <1>13, <1>14, <1>15, <1>16, <1>17 DEF n, BytesOf

(* Four values that are the same number as three bytes have their bits.    *)


BytesFrom(c1, c2, c3, c4, b1, b2, b3) ==
  /\ 4 * c1 + c2 \div 16 = b1
  /\ (16 * c2 + c3 \div 4) % 256 = b2
  /\ (64 * c3 + c4) % 256 = b3

LEMMA SameThreeBytes ==
  ASSUME NEW c, c[1] \in 0..63, c[2] \in 0..63, c[3] \in 0..63, c[4] \in 0..63,
         NEW b1 \in 0..255, NEW b2 \in 0..255, NEW b3 \in 0..255, SameNumber(c, b1, b2, b3)
  PROVE  BytesFrom(c[1], c[2], c[3], c[4], b1, b2, b3)
<1> DEFINE c1 == c[1]  c2 == c[2]  c3 == c[3]  c4 == c[4]
<1>0. /\ c1 \in 0..63 /\ c2 \in 0..63 /\ c3 \in 0..63 /\ c4 \in 0..63
      /\ 65536 * b1 + 256 * b2 + b3 = 262144 * c1 + 4096 * c2 + 64 * c3 + c4
  BY SMT DEF SameNumber
<1> HIDE DEF c1, c2, c3, c4
<1>1. PICK q \in 0..3, r \in 0..15 : c2 = 16 * q + r
  <2>1. c2 \div 16 \in 0..3 /\ c2 % 16 \in 0..15 /\ c2 = 16 * (c2 \div 16) + (c2 % 16)
    BY <1>0, SMT
  <2> QED BY <2>1
<1>2. PICK p \in 0..15, t \in 0..3 : c3 = 4 * p + t
  <2>1. c3 \div 4 \in 0..15 /\ c3 % 4 \in 0..3 /\ c3 = 4 * (c3 \div 4) + (c3 % 4)
    BY <1>0, SMT
  <2> QED BY <2>1
<1> DEFINE d1 == 4 * c1 + q  d2 == 16 * r + p  d3 == 64 * t + c4
<1>3. d1 \in 0..255 /\ d2 \in 0..255 /\ d3 \in 0..255
  BY <1>0, SMT
<1>4. 65536 * b1 + 256 * b2 + b3 = 65536 * d1 + 256 * d2 + d3
  BY <1>0, <1>1, <1>2, SMT
<1>5. c2 \div 16 = q /\ c3 \div 4 = p
  BY <1>1, <1>2, SMT
<1>6. 16 * c2 + c3 \div 4 = 256 * q + d2 /\ 64 * c3 + c4 = 256 * p + d3
  BY <1>0, <1>1, <1>2, <1>5, SMT
<1> HIDE DEF d1, d2, d3
<1>7. d1 = b1 /\ d2 = b2 /\ d3 = b3
  BY <1>3, <1>4, SMT
<1>8. (256 * q + d2) % 256 = d2 /\ (256 * p + d3) % 256 = d3
  BY <1>3, SMT
<1>9. (16 * c2 + c3 \div 4) % 256 = b2
  BY <1>6, <1>7, <1>8, Zenon
<1>10. (64 * c3 + c4) % 256 = b3
  BY <1>6, <1>7, <1>8, Zenon
<1>11. 4 * c1 + c2 \div 16 = b1
  BY <1>5, <1>7 DEF d1
<1>12. BytesFrom(c1, c2, c3, c4, b1, b2, b3)
  BY <1>9, <1>10, <1>11 DEF BytesFrom
<1> QED BY <1>12 DEF c1, c2, c3, c4

(* What a group of four characters, the last of which may be padding,      *)
(* gives.                                                                  *)
GroupBytes(c1, c2, c3, c4) ==
  Bytes(IF c3 = Pad THEN <<c1, c2>> ELSE IF c4 = Pad THEN <<c1, c2, c3>> ELSE <<c1, c2, c3, c4>>)

Value(ch) == IF ch = Pad THEN 0 ELSE ch

GroupOf(c1, c2, c3, c4, b1, b2, b3) == SameNumber(<<c1, c2, Value(c3), Value(c4)>>, b1, b2, b3)

Quad(c1, c2, c3, c4) ==
  /\ c1 \in 0..63 /\ c2 \in 0..63 /\ c3 \in 0..Pad /\ c4 \in 0..Pad
  /\ c3 = Pad => c4 = Pad

GroupIs(b, c3, c4, b1, b2, b3) ==
  /\ b \in Seq(Int) /\ b[1] = b1
  /\ Len(b) = IF c3 = Pad THEN 1 ELSE IF c4 = Pad THEN 2 ELSE 3
  /\ c3 # Pad => b[2] = b2
  /\ c4 # Pad => b[3] = b3

LEMMA GroupBytesAre ==
  ASSUME NEW c1, NEW c2, NEW c3, NEW c4, Quad(c1, c2, c3, c4),
         NEW b1 \in 0..255, NEW b2 \in 0..255, NEW b3 \in 0..255,
         GroupOf(c1, c2, c3, c4, b1, b2, b3)
  PROVE  GroupIs(GroupBytes(c1, c2, c3, c4), c3, c4, b1, b2, b3)
<1> DEFINE v3 == Value(c3)  v4 == Value(c4)
<1>1. /\ c1 \in 0..63 /\ c2 \in 0..63 /\ v3 \in 0..63 /\ v4 \in 0..63
      /\ c3 # Pad => v3 = c3
      /\ c4 # Pad => v4 = c4
      /\ c3 = Pad => c4 = Pad
  BY DEF Quad, Value, Pad
<1>2. SameNumber(<<c1, c2, v3, v4>>, b1, b2, b3)
  BY DEF GroupOf
<1> HIDE DEF v3, v4
<1>3. /\ 4 * c1 + c2 \div 16 = b1
      /\ (16 * c2 + v3 \div 4) % 256 = b2
      /\ (64 * v3 + v4) % 256 = b3
  <2> DEFINE c == <<c1, c2, v3, v4>>
  <2>1. c[1] = c1 /\ c[2] = c2 /\ c[3] = v3 /\ c[4] = v4 /\ SameNumber(c, b1, b2, b3)
    BY <1>2
  <2> HIDE DEF c
  <2>2. BytesFrom(c[1], c[2], c[3], c[4], b1, b2, b3)
    <3>1. c[1] \in 0..63 /\ c[2] \in 0..63 /\ c[3] \in 0..63 /\ c[4] \in 0..63
      BY <1>1, <2>1
    <3>2. SameNumber(c, b1, b2, b3)
      BY <2>1
    <3> QED BY <3>1, <3>2, SameThreeBytes, Zenon
  <2>3. BytesFrom(c1, c2, v3, v4, b1, b2, b3)
    BY <2>1, <2>2
  <2> QED BY <2>3 DEF BytesFrom
<1>4. 0..63 \subseteq Symbols
  BY DEF Symbols, Nul
<1>5. CASE c3 = Pad
  <2> DEFINE six == <<c1, c2>>
  <2>1. six \in Seq(Symbols) /\ Len(six) = 2 /\ six[1] = c1 /\ six[2] = c2
    BY <1>1, <1>4
  <2>2. GroupBytes(c1, c2, c3, c4) = Bytes(six)
    BY <1>5 DEF GroupBytes
  <2> HIDE DEF six
  <2>3. BytesOf(six, Bytes(six))
    BY <2>1, BytesAre
  <2>4. Bytes(six) \in Seq(Int) /\ Len(Bytes(six)) = 1 /\ Bytes(six)[1] = b1
    BY <1>3, <2>1, <2>3 DEF BytesOf
  <2> QED BY <1>1, <1>5, <2>2, <2>4 DEF GroupIs
<1>6. CASE c3 # Pad /\ c4 = Pad
  <2> DEFINE six == <<c1, c2, v3>>
  <2>1. six \in Seq(Symbols) /\ Len(six) = 3 /\ six[1] = c1 /\ six[2] = c2 /\ six[3] = v3
    BY <1>1, <1>4
  <2>2. GroupBytes(c1, c2, c3, c4) = Bytes(six)
    BY <1>1, <1>6 DEF GroupBytes
  <2> HIDE DEF six
  <2>3. BytesOf(six, Bytes(six))
    BY <2>1, BytesAre
  <2>4. Bytes(six) \in Seq(Int) /\ Len(Bytes(six)) = 2 /\ Bytes(six)[1] = b1 /\ Bytes(six)[2] = b2
    BY <1>3, <2>1, <2>3 DEF BytesOf
  <2> QED BY <1>6, <2>2, <2>4 DEF GroupIs
<1>7. CASE c3 # Pad /\ c4 # Pad
  <2> DEFINE six == <<c1, c2, v3, v4>>
  <2>1. six \in Seq(Symbols) /\ Len(six) = 4
    BY <1>1, <1>4
  <2>2. six[1] = c1 /\ six[2] = c2 /\ six[3] = v3 /\ six[4] = v4
    OBVIOUS
  <2>3. GroupBytes(c1, c2, c3, c4) = Bytes(six)
    BY <1>1, <1>7 DEF GroupBytes
  <2> HIDE DEF six
  <2>4. BytesOf(six, Bytes(six))
    BY <2>1, BytesAre
  <2>5. /\ Bytes(six) \in Seq(Int) /\ Len(Bytes(six)) = 3
        /\ Bytes(six)[1] = b1 /\ Bytes(six)[2] = b2 /\ Bytes(six)[3] = b3
    BY <1>3, <2>1, <2>2, <2>4 DEF BytesOf
  <2> QED BY <1>7, <2>3, <2>5 DEF GroupIs
<1> QED BY <1>5, <1>6, <1>7

(* A decoder that is between groups.                                       *)
Between(o) == [six |-> <<>>, rest |-> <<>>, out |-> o]

Gives(t, o) == Outcome(t) = Between(o)

Part(s, o) == [six |-> s, rest |-> s, out |-> o]

LEMMA NextIsPart ==
  ASSUME NEW s, NEW o, NEW ch, ch < Pad, ch # Pad
  PROVE  Next64(Part(s, o), ch) = IF Len(Append(s, ch)) = 4 THEN Between(o \o Bytes(Append(s, ch)))
                                  ELSE Part(Append(s, ch), o)
BY NextIs DEF Ends, Six, Part, Between

(* A padding ends the group.                                               *)
LEMMA NextIsPad ==
  ASSUME NEW s, NEW o
  PROVE  Next64(Part(s, o), Pad) = Between(o \o Bytes(s))
<1>1. ~(Pad < Pad)
  BY DEF Pad
<1> QED BY <1>1, NextIs DEF Ends, Six, Part, Between

Appends(x, e, y) == Append(x, e) = y

(* How to tell what a sequence is with one more element.                   *)
LEMMA AppendIs ==
  ASSUME NEW S, NEW x \in Seq(S), NEW e \in S, NEW y \in Seq(S), Len(y) = Len(x) + 1,
         y[Len(x) + 1] = e, \A i \in 1..Len(x) : y[i] = x[i]
  PROVE  Appends(x, e, y)
<1> DEFINE z == Append(x, e)
<1>1. /\ z \in Seq(S) /\ Len(z) = Len(x) + 1 /\ z[Len(x) + 1] = e /\ Len(x) \in Nat
      /\ \A i \in 1..Len(x) : z[i] = x[i]
  BY AppendProperties, LenProperties
<1> HIDE DEF z
<1>2. \A i \in 1..Len(z) : z[i] = y[i]
  BY <1>1
<1>3. z = y
  BY <1>1, <1>2, SeqEqual
<1> QED BY <1>3 DEF Appends, z

(* Tuples, element by element.                                             *)
LEMMA AppendToTuple ==
  ASSUME NEW a \in Symbols, NEW b \in Symbols, NEW c \in Symbols, NEW d \in Symbols
  PROVE  /\ Appends(<<>>, a, <<a>>)
         /\ Appends(<<a>>, b, <<a, b>>)
         /\ Appends(<<a, b>>, c, <<a, b, c>>)
         /\ Appends(<<a, b, c>>, d, <<a, b, c, d>>)
<1>1. Appends(<<>>, a, <<a>>)
  BY DEF Appends
<1>2. Appends(<<a>>, b, <<a, b>>)
  <2> DEFINE x == <<a>>  y == <<a, b>>
  <2>1. x \in Seq(Symbols) /\ Len(x) = 1 /\ x[1] = a
    OBVIOUS
  <2>2. y \in Seq(Symbols) /\ Len(y) = 2 /\ y[1] = a /\ y[2] = b
    OBVIOUS
  <2> HIDE DEF x, y
  <2>3. Len(y) = Len(x) + 1 /\ y[Len(x) + 1] = b /\ \A i \in 1..Len(x) : y[i] = x[i]
    BY <2>1, <2>2
  <2>4. Appends(x, b, y)
    BY <2>1, <2>2, <2>3, AppendIs
  <2> QED BY <2>4 DEF x, y
<1>3. Appends(<<a, b>>, c, <<a, b, c>>)
  <2> DEFINE x == <<a, b>>  y == <<a, b, c>>
  <2>1. x \in Seq(Symbols) /\ Len(x) = 2 /\ x[1] = a /\ x[2] = b
    OBVIOUS
  <2>2. y \in Seq(Symbols) /\ Len(y) = 3 /\ y[1] = a /\ y[2] = b /\ y[3] = c
    OBVIOUS
  <2> HIDE DEF x, y
  <2>3. Len(y) = Len(x) + 1 /\ y[Len(x) + 1] = c /\ \A i \in 1..Len(x) : y[i] = x[i]
    BY <2>1, <2>2
  <2>4. Appends(x, c, y)
    BY <2>1, <2>2, <2>3, AppendIs
  <2> QED BY <2>4 DEF x, y
<1>4. Appends(<<a, b, c>>, d, <<a, b, c, d>>)
  <2> DEFINE x == <<a, b, c>>  y == <<a, b, c, d>>
  <2>1. x \in Seq(Symbols) /\ Len(x) = 3 /\ x[1] = a /\ x[2] = b /\ x[3] = c
    OBVIOUS
  <2>2. y \in Seq(Symbols) /\ Len(y) = 4 /\ y[1] = a /\ y[2] = b /\ y[3] = c /\ y[4] = d
    OBVIOUS
  <2> HIDE DEF x, y
  <2>3. Len(y) = Len(x) + 1 /\ y[Len(x) + 1] = d /\ \A i \in 1..Len(x) : y[i] = x[i]
    BY <2>1, <2>2
  <2>4. Appends(x, d, y)
    BY <2>1, <2>2, <2>3, AppendIs
  <2> QED BY <2>4 DEF x, y
<1> QED BY <1>1, <1>2, <1>3, <1>4

(* A whole group is decoded to its bytes.                                  *)
LEMMA GroupOutcome ==
  ASSUME NEW t \in Seq(Symbols), NEW o \in Seq(Int), Gives(t, o),
         NEW c1, NEW c2, NEW c3, NEW c4, Quad(c1, c2, c3, c4)
  PROVE  Gives(Append(Append(Append(Append(t, c1), c2), c3), c4),
               o \o GroupBytes(c1, c2, c3, c4))
<1>1. /\ c1 \in Symbols /\ c2 \in Symbols /\ c3 \in Symbols /\ c4 \in Symbols
      /\ c1 < Pad /\ c2 < Pad /\ c1 # Pad /\ c2 # Pad
      /\ (c3 < Pad <=> c3 # Pad) /\ (c4 < Pad <=> c4 # Pad)
      /\ c3 = Pad => c4 = Pad
  BY DEF Quad, Symbols, Pad, Nul
<1> DEFINE t1 == Append(t, c1)  t2 == Append(t1, c2)  t3 == Append(t2, c3)  t4 == Append(t3, c4)
<1>2. t1 \in Seq(Symbols) /\ t2 \in Seq(Symbols) /\ t3 \in Seq(Symbols)
  BY <1>1, AppendProperties
<1>3. /\ Outcome(t1) = Next64(Outcome(t), c1) /\ Outcome(t2) = Next64(Outcome(t1), c2)
      /\ Outcome(t3) = Next64(Outcome(t2), c3) /\ Outcome(t4) = Next64(Outcome(t3), c4)
  BY <1>1, <1>2, OutcomeStep
<1> DEFINE w1 == <<c1>>  w2 == <<c1, c2>>  w3 == <<c1, c2, c3>>  w4 == <<c1, c2, c3, c4>>
<1>4. Append(<<>>, c1) = w1
  <2>1. Appends(<<>>, c1, w1)
    BY <1>1, AppendToTuple
  <2> QED BY <2>1 DEF Appends
<1>5. Append(w1, c2) = w2
  <2>1. Appends(w1, c2, w2)
    BY <1>1, AppendToTuple
  <2> QED BY <2>1 DEF Appends
<1>6. Append(w2, c3) = w3
  <2>1. Appends(w2, c3, w3)
    BY <1>1, AppendToTuple
  <2> QED BY <2>1 DEF Appends
<1>7. Append(w3, c4) = w4
  <2>1. Appends(w3, c4, w4)
    BY <1>1, AppendToTuple
  <2> QED BY <2>1 DEF Appends
<1>14. Len(w1) # 4 /\ Len(w2) # 4 /\ Len(w3) # 4 /\ Len(w4) = 4
  OBVIOUS
<1>8. w2 \in Seq(Symbols) /\ Len(w2) = 2
  BY <1>1
<1> HIDE DEF t1, t2, t3, t4, w1, w2, w3, w4
<1>9. Outcome(t) = Part(<<>>, o)
  BY DEF Between, Part, Gives
<1>10. Outcome(t1) = Part(w1, o)
  BY <1>1, <1>3, <1>4, <1>9, <1>14, NextIsPart
<1>11. Outcome(t2) = Part(w2, o)
  BY <1>1, <1>3, <1>5, <1>10, <1>14, NextIsPart
<1>12. CASE c3 = Pad
  <2>1. Outcome(t3) = Between(o \o Bytes(w2))
    BY <1>3, <1>11, <1>12, NextIsPad
  <2>2. Outcome(t3) = Part(<<>>, o \o Bytes(w2))
    BY <2>1 DEF Between, Part
  <2>3. Outcome(t4) = Between((o \o Bytes(w2)) \o Bytes(<<>>))
    BY <1>1, <1>3, <1>12, <2>2, NextIsPad
  <2>4. Bytes(<<>>) = <<>>
    <3>1. <<>> \in Seq(Symbols) /\ Len(<<>>) = 0
      BY EmptySeq
    <3> DEFINE e == <<>>
    <3>2. e \in Seq(Symbols) /\ Len(e) = 0 /\ Len(e) <= 4 /\ ~(Len(e) >= 2)
      BY <3>1
    <3> HIDE DEF e
    <3>3. Bytes(e) \in Seq(Int) /\ Len(Bytes(e)) = 0
      BY <3>2, BytesIs
    <3>4. Bytes(e) = <<>>
      BY <3>3, EmptySeq
    <3> QED BY <3>4 DEF e
  <2>5. (o \o Bytes(w2)) \o <<>> = o \o Bytes(w2)
    <3>1. Bytes(w2) \in Seq(Int)
      <4>1. Len(w2) <= 4
        BY <1>8
      <4> QED BY <1>8, <4>1, BytesIs
    <3>2. o \o Bytes(w2) \in Seq(Int)
      BY <3>1, ConcatProperties
    <3> QED BY <3>2, ConcatEmptySeq
  <2>6. GroupBytes(c1, c2, c3, c4) = Bytes(w2)
    BY <1>12 DEF GroupBytes, w2
  <2> QED BY <2>3, <2>4, <2>5, <2>6 DEF t1, t2, t3, t4, Gives
<1>13. CASE c3 # Pad
  <2>1. Outcome(t3) = Part(w3, o)
    BY <1>1, <1>3, <1>6, <1>11, <1>13, <1>14, NextIsPart
  <2>2. CASE c4 = Pad
    <3>1. Outcome(t4) = Between(o \o Bytes(w3))
      BY <1>3, <2>1, <2>2, NextIsPad
    <3>2. GroupBytes(c1, c2, c3, c4) = Bytes(w3)
      BY <1>13, <2>2 DEF GroupBytes, w3
    <3> QED BY <3>1, <3>2 DEF t1, t2, t3, t4, Gives
  <2>3. CASE c4 # Pad
    <3>1. Outcome(t4) = Between(o \o Bytes(w4))
      BY <1>1, <1>3, <1>7, <1>14, <2>1, <2>3, NextIsPart
    <3>2. GroupBytes(c1, c2, c3, c4) = Bytes(w4)
      BY <1>13, <2>3 DEF GroupBytes, w4
    <3> QED BY <3>1, <3>2 DEF t1, t2, t3, t4, Gives
  <2> QED BY <2>2, <2>3
<1> QED BY <1>12, <1>13

(* A text with its next group.                                             *)
LEMMA FourMore ==
  ASSUME NEW S, NEW s \in Seq(S), NEW n \in Nat, n + 4 <= Len(s)
  PROVE  SubSeq(s, 1, n + 4) =
           Append(Append(Append(Append(SubSeq(s, 1, n), s[n + 1]), s[n + 2]), s[n + 3]), s[n + 4])
<1> DEFINE n1 == n + 1  n2 == n + 2  n3 == n + 3  n4 == n + 4
<1>1. Len(s) \in Nat
  BY LenProperties
<1>2. /\ n1 \in Nat /\ n2 \in Nat /\ n3 \in Nat
      /\ n < Len(s) /\ n1 < Len(s) /\ n2 < Len(s) /\ n3 < Len(s)
      /\ n + 1 = n1 /\ n1 + 1 = n2 /\ n2 + 1 = n3 /\ n3 + 1 = n4
  BY <1>1
<1> HIDE DEF n1, n2, n3, n4
<1>3. SubSeq(s, 1, n1) = Append(SubSeq(s, 1, n), s[n1])
  BY <1>2, OneMore
<1>4. SubSeq(s, 1, n2) = Append(SubSeq(s, 1, n1), s[n2])
  BY <1>2, OneMore
<1>5. SubSeq(s, 1, n3) = Append(SubSeq(s, 1, n2), s[n3])
  BY <1>2, OneMore
<1>6. SubSeq(s, 1, n4) = Append(SubSeq(s, 1, n3), s[n4])
  BY <1>2, OneMore
<1>7. SubSeq(s, 1, n4) = Append(Append(Append(Append(SubSeq(s, 1, n), s[n1]), s[n2]), s[n3]), s[n4])
  BY <1>3, <1>4, <1>5, <1>6, Zenon
<1> QED BY <1>7 DEF n1, n2, n3, n4

(* The text that the encoder made, and its groups.                         *)
Text == SubSeq(store, 1, uuencode_get_length(Len(src)))

Quarter(g) ==
  LET c3 == Text[4 * g + 3]  c4 == Text[4 * g + 4] IN
  /\ Quad(Text[4 * g + 1], Text[4 * g + 2], c3, c4)
  /\ c3 = Pad <=> 3 * g + 2 > Len(src)
  /\ c4 = Pad <=> 3 * g + 3 > Len(src)
  /\ GroupOf(Text[4 * g + 1], Text[4 * g + 2], c3, c4,
             Byte(3 * g + 1), Byte(3 * g + 2), Byte(3 * g + 3))

LEMMA TextIs ==
  ASSUME EncoderInv, pc # "encode"
  PROVE  LET k == (Len(src) + 2) \div 3 IN
         /\ k \in Nat /\ 3 * k - 2 <= Len(src) /\ Len(src) <= 3 * k
         /\ uuencode_get_length(Len(src)) = 4 * k
         /\ Text \in Seq(0..Pad) /\ Len(Text) = 4 * k
         /\ \A i \in 1..4 * k : Text[i] = Pad => i > 4 * k - 2
         /\ \A g \in 0..k - 1 : Quarter(g)
<1> DEFINE L == Len(src)  k == (L + 2) \div 3  n == uuencode_get_length(L)  pads == (-L) % 3
<1>1. OfBytes /\ EncodedBits /\ NothingPastEnd /\ L \in Nat
  BY LenProperties DEF EncoderInv, OfBytes
<1>2. k \in Nat /\ n = 4 * k /\ pads \in 0..2 /\ 3 * k = L + pads
  <2> HIDE DEF L
  <2>1. PICK q \in Nat, r \in 0..2 : L = 3 * q + r
    <3>1. L \div 3 \in Nat /\ L % 3 \in 0..2 /\ L = 3 * (L \div 3) + (L % 3)
      BY <1>1, SMT
    <3> QED BY <3>1
  <2> QED BY <1>1, <2>1, SMT DEF uuencode_get_length
<1> DEFINE Zero(i) == IF i > n - pads THEN 0 ELSE store[i]
<1>3. /\ \A i \in 1..n : IF i > n - pads THEN store[i] = Pad ELSE store[i] \in 0..63
      /\ \A g \in 0..n \div 4 - 1 :
           65536 * Byte(3 * g + 1) + 256 * Byte(3 * g + 2) + Byte(3 * g + 3) =
             262144 * Zero(4 * g + 1) + 4096 * Zero(4 * g + 2) + 64 * Zero(4 * g + 3) + Zero(4 * g + 4)
  BY <1>1, SMT DEF EncodedBits
<1> HIDE DEF Zero
<1>4. \A g \in 0..k - 1 :
        SameNumber(<<Zero(4 * g + 1), Zero(4 * g + 2), Zero(4 * g + 3), Zero(4 * g + 4)>>,
                   Byte(3 * g + 1), Byte(3 * g + 2), Byte(3 * g + 3))
  <2>1. n \div 4 = k
    <3> HIDE DEF k, n
    <3> QED BY <1>2, SMT
  <2> TAKE g \in 0..k - 1
  <2> DEFINE z1 == Zero(4 * g + 1)  z2 == Zero(4 * g + 2)  z3 == Zero(4 * g + 3)  z4 == Zero(4 * g + 4)
             y1 == Byte(3 * g + 1)  y2 == Byte(3 * g + 2)  y3 == Byte(3 * g + 3)
  <2>2. 65536 * y1 + 256 * y2 + y3 = 262144 * z1 + 4096 * z2 + 64 * z3 + z4
    <3> HIDE DEF k, n
    <3> QED BY <1>3, <2>1, SMT
  <2> HIDE DEF z1, z2, z3, z4, y1, y2, y3
  <2>3. SameNumber(<<z1, z2, z3, z4>>, y1, y2, y3)
    BY <2>2, SMT DEF SameNumber
  <2> QED BY <2>3 DEF z1, z2, z3, z4, y1, y2, y3
<1>5. \A i \in 1..n : store[i] \in 0..Pad
  BY <1>3 DEF Pad
<1> HIDE DEF k, n, pads
<1>6. Text \in Seq(0..Pad) /\ Len(Text) = n /\ \A i \in 1..n : Text[i] = store[i]
  <2>1. n \in Nat
    BY <1>2
  <2>2. /\ SubSeq(store, 1, n) \in Seq(0..Pad)
        /\ Len(SubSeq(store, 1, n)) = IF 1 <= n THEN n - 1 + 1 ELSE 0
        /\ \A i \in 1..n - 1 + 1 : SubSeq(store, 1, n)[i] = store[1 + i - 1]
    BY <1>5, <2>1, SubSeqProperties
  <2>3. SubSeq(store, 1, n) = Text
    BY DEF Text, n
  <2>4. Len(SubSeq(store, 1, n)) = n /\ \A i \in 1..n : SubSeq(store, 1, n)[i] = store[i]
    BY <2>1, <2>2
  <2> QED BY <2>2, <2>3, <2>4
<1>7. \A i \in 1..n : (Text[i] = Pad <=> i > n - pads) /\ (i <= n - pads => Text[i] \in 0..63)
  <2> TAKE i \in 1..n
  <2> DEFINE x == store[i]
  <2>1. Text[i] = x /\ (i > n - pads => x = Pad) /\ (~(i > n - pads) => x \in 0..63)
    BY <1>3, <1>6
  <2> HIDE DEF x
  <2>2. i <= n - pads <=> ~(i > n - pads)
    BY <1>2
  <2>3. x \in 0..63 => x # Pad
    BY DEF Pad
  <2> QED BY <2>1, <2>2, <2>3
<1>8. ASSUME NEW g \in 0..k - 1 PROVE Quarter(g)
  <2> DEFINE i1 == 4 * g + 1  i2 == 4 * g + 2  i3 == 4 * g + 3  i4 == 4 * g + 4
             c1 == Text[i1]  c2 == Text[i2]  c3 == Text[i3]  c4 == Text[i4]
  <2>1. /\ i1 \in 1..n /\ i2 \in 1..n /\ i3 \in 1..n /\ i4 \in 1..n
        /\ i1 <= n - pads /\ i2 <= n - pads
        /\ i3 > n - pads <=> 3 * g + 2 > L
        /\ i4 > n - pads <=> 3 * g + 3 > L
    <3> HIDE DEF L
    <3> QED BY <1>1, <1>2, SMT
  <2> HIDE DEF i1, i2, i3, i4
  <2>2. /\ c1 \in 0..63 /\ c2 \in 0..63
        /\ (c3 = Pad <=> i3 > n - pads) /\ (c4 = Pad <=> i4 > n - pads)
    BY <1>7, <2>1
  <2>3. c3 \in 0..Pad /\ c4 \in 0..Pad
    BY <1>5, <1>6, <2>1
  <2>4. c3 = Pad => c4 = Pad
    <3> HIDE DEF c3, c4
    <3> QED BY <1>1, <2>1, <2>2
  <2>5. Zero(i1) = c1 /\ Zero(i2) = c2 /\ Zero(i3) = Value(c3) /\ Zero(i4) = Value(c4)
    <3>1. c1 = store[i1] /\ c2 = store[i2] /\ c3 = store[i3] /\ c4 = store[i4]
      BY <1>6, <2>1
    <3>2. ~(i1 > n - pads) /\ ~(i2 > n - pads)
      <4>1. n - pads \in Int /\ i1 \in Int /\ i2 \in Int
        BY <1>2, <2>1
      <4> QED BY <2>1, <4>1
    <3> HIDE DEF c1, c2, c3, c4
    <3> QED BY <2>2, <3>1, <3>2 DEF Zero, Value
  <2>6. GroupOf(c1, c2, c3, c4, Byte(3 * g + 1), Byte(3 * g + 2), Byte(3 * g + 3))
    <3>1. SameNumber(<<Zero(i1), Zero(i2), Zero(i3), Zero(i4)>>,
                     Byte(3 * g + 1), Byte(3 * g + 2), Byte(3 * g + 3))
      BY <1>4 DEF i1, i2, i3, i4
    <3> HIDE DEF c1, c2, c3, c4
    <3> QED BY <2>5, <3>1 DEF GroupOf
  <2>7. Quad(c1, c2, c3, c4)
    BY <2>2, <2>3, <2>4 DEF Quad
  <2>8. (c3 = Pad <=> 3 * g + 2 > Len(src)) /\ (c4 = Pad <=> 3 * g + 3 > Len(src))
    BY <2>1, <2>2
  <2> QED BY <2>6, <2>7, <2>8 DEF Quarter, c1, c2, c3, c4, i1, i2, i3, i4
<1>9. \A i \in 1..4 * k : Text[i] = Pad => i > 4 * k - 2
  BY <1>2, <1>7
<1>10. 3 * k - 2 <= Len(src) /\ Len(src) <= 3 * k
  <2> HIDE DEF L
  <2>1. 3 * k - 2 <= L /\ L <= 3 * k
    BY <1>1, <1>2
  <2> QED BY <2>1 DEF L
<1> QED BY <1>2, <1>6, <1>8, <1>9, <1>10 DEF k, n, L

(* Read back in one piece, it is the source, and nothing is left over.     *)
LEMMA TextOutcome ==
  ASSUME EncoderInv, pc # "encode"
  PROVE  Text \in Seq(Symbols) /\ Outcome(Text) = Between(src)
<1> DEFINE L == Len(src)  k == (L + 2) \div 3  UpTo(g) == IF 3 * g <= L THEN 3 * g ELSE L
<1>1. /\ k \in Nat /\ 3 * k - 2 <= L /\ L <= 3 * k
      /\ Text \in Seq(0..Pad) /\ Len(Text) = 4 * k
      /\ \A g \in 0..k - 1 : Quarter(g)
  BY TextIs
<1>2. OfBytes
  BY DEF EncoderInv
<1>3. L \in Nat /\ src \in Seq(Int) /\ \A i \in Nat \ {0} : Byte(i) \in 0..255
  <2>1. 0..255 \subseteq Int
    OBVIOUS
  <2>2. src \in Seq(Int)
    BY <1>2, <2>1, SeqMonotonic DEF OfBytes
  <2>3. L \in Nat
    BY <2>2, LenProperties
  <2> QED BY <1>2, <2>2, <2>3, ByteRange
<1>4. Text \in Seq(Symbols)
  <2>1. 0..Pad \subseteq Symbols
    BY DEF Symbols, Pad, Nul
  <2> QED BY <1>1, <2>1, SeqMonotonic
<1> HIDE DEF k, L
<1> DEFINE T == {g \in Nat : g <= k =>
                   Outcome(SubSeq(Text, 1, 4 * g)) = Between(SubSeq(src, 1, UpTo(g)))}
<1>5. 0 \in T
  <2>1. SubSeq(Text, 1, 4 * 0) = <<>> /\ SubSeq(src, 1, 0) = <<>> /\ UpTo(0) = 0
    BY <1>3
  <2>2. Outcome(<<>>) = Between(<<>>)
    BY OutcomeStep DEF Fresh, Between
  <2> HIDE DEF UpTo
  <2>3. Outcome(SubSeq(Text, 1, 4 * 0)) = Between(SubSeq(src, 1, UpTo(0)))
    BY <2>1, <2>2, Zenon
  <2> QED BY <2>3
<1>6. ASSUME NEW g \in Nat, g \in T PROVE g + 1 \in T
  <2>1. ASSUME g + 1 <= k
        PROVE  Outcome(SubSeq(Text, 1, 4 * (g + 1))) = Between(SubSeq(src, 1, UpTo(g + 1)))
    <3> DEFINE c1 == Text[4 * g + 1]  c2 == Text[4 * g + 2]  c3 == Text[4 * g + 3]
               c4 == Text[4 * g + 4]  b == GroupBytes(c1, c2, c3, c4)
               b1 == Byte(3 * g + 1)  b2 == Byte(3 * g + 2)  b3 == Byte(3 * g + 3)
               m == IF 3 * g + 2 > L THEN 1 ELSE IF 3 * g + 3 > L THEN 2 ELSE 3
               t == SubSeq(Text, 1, 4 * g)  o == SubSeq(src, 1, 3 * g)
    <3>1. /\ UpTo(g) = 3 * g /\ g <= k /\ g \in 0..k - 1 /\ 4 * g + 4 <= 4 * k
          /\ UpTo(g + 1) = 3 * g + m /\ 3 * g + m <= L /\ m \in 1..3 /\ 3 * g <= L
          /\ 3 * g + 1 \in Nat \ {0} /\ 3 * g + 2 \in Nat \ {0} /\ 3 * g + 3 \in Nat \ {0}
      BY <1>1, <1>3, <2>1, SMT
    <3>2. /\ Quad(c1, c2, c3, c4)
          /\ c3 = Pad <=> 3 * g + 2 > L
          /\ c4 = Pad <=> 3 * g + 3 > L
          /\ GroupOf(c1, c2, c3, c4, b1, b2, b3)
      <4>1. Quarter(g)
        BY <1>1, <3>1
      <4> QED BY <4>1 DEF Quarter, L
    <3>3. b1 \in 0..255 /\ b2 \in 0..255 /\ b3 \in 0..255
      BY <1>3, <3>1
    <3>4. GroupIs(b, c3, c4, b1, b2, b3)
      <4> HIDE DEF c1, c2, c3, c4, b1, b2, b3
      <4>1. GroupIs(GroupBytes(c1, c2, c3, c4), c3, c4, b1, b2, b3)
        <5>1. Quad(c1, c2, c3, c4) /\ GroupOf(c1, c2, c3, c4, b1, b2, b3)
          BY <3>2
        <5> QED BY <3>3, <5>1, GroupBytesAre, Zenon
      <4> QED BY <4>1 DEF b
    <3>5. b \in Seq(Int) /\ Len(b) = m /\ \A i \in 1..m : b[i] = src[3 * g + i]
      <4>1. b1 = src[3 * g + 1] /\ (m >= 2 => b2 = src[3 * g + 2]) /\ (m >= 3 => b3 = src[3 * g + 3])
        <5>1. 3 * g + 1 <= Len(src) /\ (m >= 2 => 3 * g + 2 <= Len(src)) /\ (m >= 3 => 3 * g + 3 <= Len(src))
          BY <1>3, <3>1 DEF L
        <5> QED BY <5>1 DEF Byte
      <4>2. Len(b) = m
        <5> HIDE DEF c1, c2, c3, c4, b, b1, b2, b3
        <5> QED BY <3>2, <3>4 DEF GroupIs
      <4>3. (m >= 2 => c3 # Pad) /\ (m >= 3 => c4 # Pad)
        <5> HIDE DEF c1, c2, c3, c4
        <5> QED BY <3>2
      <4> HIDE DEF c1, c2, c3, c4, b, b1, b2, b3, m
      <4>4. b[1] = src[3 * g + 1] /\ (m >= 2 => b[2] = src[3 * g + 2]) /\ (m >= 3 => b[3] = src[3 * g + 3])
        BY <3>4, <4>1, <4>3 DEF GroupIs
      <4>5. \A i \in 1..m : b[i] = src[3 * g + i]
        <5> TAKE i \in 1..m
        <5>1. i = 1 \/ (i = 2 /\ m >= 2) \/ (i = 3 /\ m >= 3)
          BY <3>1
        <5> QED BY <4>4, <5>1
      <4> QED BY <3>4, <4>2, <4>5 DEF GroupIs
    <3>6. /\ t \in Seq(Symbols) /\ Outcome(t) = Between(o)
          /\ SubSeq(Text, 1, 4 * (g + 1)) = Append(Append(Append(Append(t, c1), c2), c3), c4)
      <4> DEFINE n == 4 * g
      <4>1. n \in Nat /\ n + 4 <= Len(Text) /\ 4 * (g + 1) = n + 4 /\ n < Len(Text)
        BY <1>1, <3>1
      <4> HIDE DEF n
      <4>2. SubSeq(Text, 1, n + 4) =
              Append(Append(Append(Append(SubSeq(Text, 1, n), Text[n + 1]), Text[n + 2]), Text[n + 3]), Text[n + 4])
        BY <1>4, <4>1, FourMore
      <4>3. SubSeq(Text, 1, n) \in Seq(Symbols)
        BY <1>4, <4>1, OneMore
      <4>4. Outcome(t) = Between(o)
        <5> HIDE DEF UpTo
        <5> QED BY <1>6, <3>1
      <4> QED BY <4>1, <4>2, <4>3, <4>4 DEF n
    <3>7. o \in Seq(Int) /\ o \o b = SubSeq(src, 1, 3 * g + m)
      <4> DEFINE n == 3 * g
      <4>1. n \in Nat /\ n + m <= Len(src) /\ n < Len(src) /\ 3 * g = n
        BY <1>3, <3>1 DEF L
      <4>2. b \in Seq(Int) /\ Len(b) = m /\ \A i \in 1..Len(b) : b[i] = src[n + i]
        BY <3>5
      <4> HIDE DEF n, b, m
      <4>3. SubSeq(src, 1, n) \in Seq(Int)
        BY <1>3, <4>1, OneMore
      <4>4. SubSeq(src, 1, n) \o b = SubSeq(src, 1, n + Len(b))
        <5>1. n + Len(b) <= Len(src)
          BY <4>1, <4>2
        <5> QED BY <1>3, <4>1, <4>2, <5>1, HeadGrows
      <4> QED BY <4>2, <4>3, <4>4 DEF n
    <3>8. Outcome(Append(Append(Append(Append(t, c1), c2), c3), c4)) = Between(o \o b)
      <4> HIDE DEF t, o, c1, c2, c3, c4
      <4>1. Gives(t, o)
        BY <3>6 DEF Gives
      <4>2. Gives(Append(Append(Append(Append(t, c1), c2), c3), c4), o \o GroupBytes(c1, c2, c3, c4))
        BY <3>2, <3>6, <3>7, <4>1, GroupOutcome
      <4> QED BY <4>2 DEF Gives, b
    <3> HIDE DEF b, m, t, o, c1, c2, c3, c4, UpTo
    <3> QED BY <3>1, <3>6, <3>7, <3>8
  <2> HIDE DEF UpTo
  <2> QED BY <2>1
<1> HIDE DEF T
<1>7. k \in T
  BY <1>1, <1>5, <1>6, Induction
<1>8. Outcome(SubSeq(Text, 1, 4 * k)) = Between(SubSeq(src, 1, UpTo(k)))
  BY <1>1, <1>7 DEF T
<1>9. UpTo(k) = L
  BY <1>1, <1>3
<1>10. SubSeq(Text, 1, 4 * k) = Text /\ SubSeq(src, 1, L) = src
  <2>1. SubSeq(Text, 1, Len(Text)) = Text
    BY <1>4
  <2>2. SubSeq(src, 1, Len(src)) = src
    BY <1>3
  <2> QED BY <1>1, <2>1, <2>2 DEF L
<1> HIDE DEF UpTo
<1> QED BY <1>4, <1>8, <1>9, <1>10

(* There is no padding in what is kept for the next round: it ends a group.*)
Unpadded(t) == \A i \in 1..Len(t) : t[i] # Pad

LEMMA OutcomeUnpadded ==
  ASSUME NEW t \in Seq(Symbols)
  PROVE  Unpadded(Outcome(t).rest)
<1> DEFINE T == {s \in Seq(Symbols) : Unpadded(Outcome(s).rest)}
<1>1. <<>> \in T
  <2>1. <<>> \in Seq(Symbols) /\ Len(<<>>) = 0
    BY EmptySeq
  <2>2. Outcome(<<>>).rest = <<>>
    BY OutcomeStep DEF Fresh
  <2> QED BY <2>1, <2>2 DEF Unpadded
<1>2. ASSUME NEW s \in Seq(Symbols), NEW ch \in Symbols, s \in T PROVE Append(s, ch) \in T
  <2> DEFINE d == Outcome(s)  e == Outcome(Append(s, ch))  r == d.rest
  <2>1. /\ Append(s, ch) \in Seq(Symbols) /\ e = Next64(d, ch) /\ Unpadded(r)
        /\ r \in Seq(Symbols)
    BY <1>2, AppendProperties, OutcomeStep, OutcomeSound DEF Sound, Decoders
  <2> HIDE DEF d, e
  <2>2. CASE Ends(d, ch)
    <3>1. e.rest = <<>> /\ Len(<<>>) = 0
      BY <2>1, <2>2, NextIs, EmptySeq
    <3>2. Unpadded(e.rest)
      BY <3>1 DEF Unpadded
    <3> QED BY <2>1, <3>2 DEF e
  <2>3. CASE ~Ends(d, ch)
    <3>1. e.rest = Append(r, ch)
      BY <2>1, <2>3, NextIs
    <3>2. ch # Pad
      BY <2>3 DEF Ends
    <3> HIDE DEF r
    <3>3. /\ Len(Append(r, ch)) = Len(r) + 1 /\ Len(r) \in Nat /\ Append(r, ch)[Len(r) + 1] = ch
          /\ \A i \in 1..Len(r) : Append(r, ch)[i] = r[i]
      BY <2>1, AppendProperties, LenProperties
    <3> DEFINE a == Append(r, ch)  l == Len(r)
    <3>4. Len(a) = l + 1 /\ l \in Nat /\ a[l + 1] = ch /\ \A i \in 1..l : a[i] = r[i] /\ r[i] # Pad
      BY <2>1, <3>3 DEF Unpadded
    <3> HIDE DEF a, l
    <3>5. Unpadded(a)
      BY <3>2, <3>4 DEF Unpadded
    <3>6. Unpadded(e.rest)
      BY <3>1, <3>5 DEF a
    <3> QED BY <2>1, <3>6 DEF e
  <2> QED BY <2>2, <2>3
<1> HIDE DEF T
<1>3. t \in T
  BY <1>1, <1>2, SeqInduction
<1> QED BY <1>3 DEF T

(* What the file of an encoded source has, and how far it is read where a  *)
(* line of paddings ends it.                                               *)
Bar == <<Blank, Pad, Pad, Pad, Pad, Blank>>

ReaderInv ==
  /\ pc = "encode" => flags.stop = None
  /\ pc # "encode" /\ (flags.uu \/ src # <<>>) =>
       /\ flags.stop = None
       /\ in = IF flags.uu THEN (Text \o Bar) \o Text ELSE Text
  /\ pc = "read" /\ flags.uu =>
       /\ at <= Len(Text) + 1
       /\ Outcome(SubSeq(in, 1, at)).six = <<>> => buf = <<>>
  /\ pc = "done" /\ flags.uu => out = src /\ result = 1

BarIs(n) ==
  /\ n \in Nat /\ n = Len(Text) /\ Len(in) = 2 * n + 6
  /\ SubSeq(in, 1, n + 1) = Append(Text, Blank)
  /\ \A i \in 1..n : in[i] = Text[i] /\ (in[i] = Pad => i > n - 2)
  /\ in[n + 1] = Blank /\ in[n + 6] = Blank
  /\ \A i \in n + 2..n + 5 : in[i] = Pad

LEMMA UuStream ==
  ASSUME EncoderInv, DecoderInv, ReaderInv, pc = "read", flags.uu
  PROVE  BarIs(Len(Text)) /\ flags.stop = None
<1> DEFINE n == Len(Text)  b == Bar  tb == Text \o b
<1>1. Text \in Seq(Symbols) /\ n \in Nat
  BY TextOutcome, LenProperties
<1>2. in = tb \o Text /\ flags.stop = None
  BY DEF ReaderInv
<1>3. b \in Seq(Symbols) /\ Len(b) = 6
  BY DEF Bar, Symbols, Blank, Pad, Nul
<1>4. b[1] = Blank /\ b[2] = Pad /\ b[3] = Pad /\ b[4] = Pad /\ b[5] = Pad /\ b[6] = Blank
  BY DEF Bar
<1> HIDE DEF b
<1>5. /\ tb \in Seq(Symbols) /\ Len(tb) = n + Len(b)
      /\ \A i \in 1..n + Len(b) : tb[i] = IF i <= n THEN Text[i] ELSE b[i - n]
  <2>1. Text \in Seq(Symbols) /\ b \in Seq(Symbols)
    BY <1>1, <1>3
  <2> QED BY <2>1, ConcatProperties
<1> HIDE DEF tb
<1>6. /\ in \in Seq(Symbols) /\ Len(in) = Len(tb) + n
      /\ \A i \in 1..Len(tb) + n : in[i] = IF i <= Len(tb) THEN tb[i] ELSE Text[i - Len(tb)]
  BY <1>1, <1>2, <1>5, ConcatProperties
<1>7. \A i \in 1..n + 6 : in[i] = IF i <= n THEN Text[i] ELSE b[i - n]
  <2> TAKE i \in 1..n + 6
  <2>1. i \in 1..n + Len(b) /\ i \in 1..Len(tb) + n /\ i <= Len(tb)
    BY <1>1, <1>3, <1>5
  <2>2. in[i] = tb[i]
    BY <1>6, <2>1
  <2>3. tb[i] = IF i <= n THEN Text[i] ELSE b[i - n]
    BY <1>5, <2>1
  <2> QED BY <2>2, <2>3
<1>8. Len(in) = 2 * n + 6
  BY <1>1, <1>3, <1>5, <1>6
<1>9. \A i \in 1..n : in[i] = Text[i] /\ (in[i] = Pad => i > n - 2)
  <2> DEFINE k == (Len(src) + 2) \div 3
  <2>1. k \in Nat /\ n = 4 * k /\ \A i \in 1..4 * k : Text[i] = Pad => i > 4 * k - 2
    BY TextIs
  <2> HIDE DEF k
  <2>2. \A i \in 1..n : in[i] = Text[i]
    BY <1>1, <1>7
  <2>3. \A i \in 1..n : Text[i] = Pad => i > n - 2
    BY <2>1
  <2> QED BY <2>2, <2>3
<1> HIDE DEF n
<1>10. in[n + 1] = Blank /\ in[n + 6] = Blank /\ \A i \in n + 2..n + 5 : in[i] = Pad
  <2>1. \A i \in 1..6 : in[n + i] = b[i]
    <3> TAKE i \in 1..6
    <3>1. n + i \in 1..n + 6 /\ ~(n + i <= n) /\ (n + i) - n = i
      BY <1>1
    <3> QED BY <1>7, <3>1
  <2>2. /\ in[n + 1] = b[1] /\ in[n + 2] = b[2] /\ in[n + 3] = b[3] /\ in[n + 4] = b[4]
        /\ in[n + 5] = b[5] /\ in[n + 6] = b[6]
    BY <2>1
  <2>3. \A i \in n + 2..n + 5 : i = n + 2 \/ i = n + 3 \/ i = n + 4 \/ i = n + 5
    BY <1>1
  <2> QED BY <1>4, <2>2, <2>3
<1>11. SubSeq(in, 1, n + 1) = Append(Text, Blank)
  <2>1. n < Len(in)
    BY <1>1, <1>8
  <2>2. SubSeq(in, 1, n) \in Seq(Symbols) /\ Len(SubSeq(in, 1, n)) = n
        /\ SubSeq(in, 1, n + 1) = Append(SubSeq(in, 1, n), in[n + 1])
    BY <1>1, <1>6, <2>1, OneMore
  <2>3. \A i \in 1..n : SubSeq(in, 1, n)[i] = in[i]
    <3>1. \A i \in 1..n : in[i] \in Symbols
      BY <1>1, <1>6, <2>1, ElementOfSeq
    <3>2. \A i \in 1..n - 1 + 1 : SubSeq(in, 1, n)[i] = in[1 + i - 1]
      BY <1>1, <3>1, SubSeqProperties
    <3> QED BY <1>1, <3>2
  <2>4. SubSeq(in, 1, n) = Text
    <3>1. Len(Text) = n
      BY DEF n
    <3>2. \A i \in 1..n : SubSeq(in, 1, n)[i] = Text[i]
      BY <1>9, <2>3
    <3> QED BY <1>1, <2>2, <3>1, <3>2, SeqEqual
  <2> QED BY <1>10, <2>2, <2>4
<1> QED BY <1>1, <1>2, <1>8, <1>9, <1>10, <1>11 DEF BarIs, n

(* In the text itself, no line is the one that ends it ...                 *)
LEMMA BeforeBar ==
  ASSUME EncoderInv, DecoderInv, ReaderInv, pc = "read", flags.uu, at <= Len(Text)
  PROVE  at + Fill <= Len(Text) /\ ~Terminator /\ ~TermSeen
<1> DEFINE n == Len(Text)  f == Fill  l == Len(in)
<1>1. BarIs(n) /\ flags.stop = None
  BY UuStream
<1>2. /\ Rest \in Seq(Symbols) /\ Len(Rest) = l - at
      /\ \A i \in 1..l - at : Rest[i] = in[at + i]
      /\ f \in Nat /\ f <= l - at
      /\ \A i \in 1..f : Rest[i] \notin {flags.stop, Blank}
      /\ f < Room /\ f < l - at => Rest[f + 1] \in {flags.stop, Blank}
  BY FillIs
<1>3. n \in Nat /\ l = 2 * n + 6 /\ in[n + 1] = Blank /\ at \in 0..l /\ at <= n
  BY <1>1 DEF BarIs, DecoderInv
<1>4. \A i \in 1..n : in[i] = Pad => i > n - 2
  BY <1>1 DEF BarIs
<1> HIDE DEF n, f, l
<1>5. at + f <= n
  <2> SUFFICES ASSUME ~(at + f <= n) PROVE FALSE
    OBVIOUS
  <2>1. n + 1 - at \in 1..f /\ n + 1 - at \in 1..l - at /\ at + (n + 1 - at) = n + 1
    BY <1>2, <1>3
  <2>2. Rest[n + 1 - at] = in[n + 1]
    BY <1>2, <2>1
  <2> QED BY <1>2, <1>3, <2>1, <2>2
<1>6. ~TermSeen
  <2>1. f # Len(Rest)
    BY <1>2, <1>3, <1>5
  <2>2. f < l - at => Rest[f + 1] # None
    <3>1. f < l - at => f + 1 \in 1..Len(Rest)
      BY <1>2, <1>3
    <3>2. f < l - at => Rest[f + 1] \in Symbols
      BY <1>2, <3>1, ElementOfSeq
    <3>3. None \notin Symbols
      BY DEF None, Symbols, Nul
    <3> QED BY <3>2, <3>3
  <2>3. f < l - at
    BY <1>2, <1>3, <1>5
  <2> QED BY <1>1, <2>1, <2>2, <2>3 DEF TermSeen, f
<1>7. ~Terminator
  <2> SUFFICES ASSUME Terminator PROVE FALSE
    OBVIOUS
  <2> DEFINE four == <<Pad, Pad, Pad, Pad>>  u == SubSeq(Rest, 1, f)
  <2>1. Line = four /\ Line = buf \o u
    BY DEF Terminator, Line, f
  <2>2. Len(four) = 4 /\ four[1] = Pad
    OBVIOUS
  <2>3. u \in Seq(Symbols) /\ Len(u) = f /\ \A i \in 1..f : u[i] = Rest[i]
    <3>1. f <= Len(Rest) /\ Len(Rest) \in Nat
      BY <1>2, LenProperties
    <3>2. \A i \in 1..f : Rest[i] \in Symbols
      BY <1>2, <3>1, ElementOfSeq
    <3>3. /\ SubSeq(Rest, 1, f) \in Seq(Symbols)
          /\ Len(SubSeq(Rest, 1, f)) = IF 1 <= f THEN f - 1 + 1 ELSE 0
          /\ \A i \in 1..f - 1 + 1 : SubSeq(Rest, 1, f)[i] = Rest[1 + i - 1]
      BY <1>2, <3>2, SubSeqProperties
    <3> QED BY <1>2, <3>3
  <2>4. buf \in Seq(Symbols) /\ Unpadded(buf)
    <3>1. buf \in Seq(Symbols) /\ Outcome(buf).rest = buf
      BY DEF DecoderInv
    <3> QED BY <3>1, OutcomeUnpadded
  <2> HIDE DEF four, u
  <2>5. /\ Len(Line) = Len(buf) + Len(u) /\ Len(buf) \in Nat
        /\ \A i \in 1..Len(buf) + Len(u) : Line[i] = IF i <= Len(buf) THEN buf[i] ELSE u[i - Len(buf)]
    <3> DEFINE w == buf \o u
    <3>1. u \in Seq(Symbols)
      BY <2>3
    <3>2. /\ Len(w) = Len(buf) + Len(u) /\ Len(buf) \in Nat
          /\ \A i \in 1..Len(buf) + Len(u) : w[i] = IF i <= Len(buf) THEN buf[i] ELSE u[i - Len(buf)]
      BY <2>4, <3>1, ConcatProperties, LenProperties
    <3>3. Line = w
      BY <2>1
    <3> HIDE DEF w
    <3> QED BY <3>2, <3>3
  <2>6. Len(buf) = 0
    <3> SUFFICES ASSUME Len(buf) # 0 PROVE FALSE
      OBVIOUS
    <3>1. 1 \in 1..Len(buf) + Len(u) /\ 1 <= Len(buf) /\ 1 \in 1..Len(buf)
      BY <1>2, <2>3, <2>5
    <3>2. Line[1] = buf[1]
      BY <2>5, <3>1
    <3> QED BY <2>1, <2>2, <2>4, <3>1, <3>2 DEF Unpadded
  <2>7. f = 4 /\ Line[1] = u[1]
    <3>1. f = 4
      BY <1>2, <2>1, <2>2, <2>3, <2>5, <2>6
    <3>2. 1 \in 1..Len(buf) + Len(u) /\ ~(1 <= Len(buf)) /\ 1 - Len(buf) = 1
      BY <2>3, <2>6, <3>1
    <3>3. Line[1] = u[1 - Len(buf)]
      BY <2>5, <3>2
    <3> QED BY <3>1, <3>2, <3>3
  <2>8. in[at + 1] = Pad
    <3>1. 1 \in 1..f /\ 1 \in 1..l - at
      BY <1>2, <1>3, <2>7
    <3> QED BY <1>2, <2>1, <2>2, <2>3, <2>7, <3>1
  <2>9. at + 1 \in 1..n /\ ~(at + 1 > n - 2)
    BY <1>3, <1>5, <2>7
  <2> QED BY <1>4, <2>8, <2>9
<1> QED BY <1>5, <1>6, <1>7 DEF n, f

(* ... and behind it, the line is.                                         *)
LEMMA AtBar ==
  ASSUME EncoderInv, DecoderInv, ReaderInv, pc = "read", flags.uu, at = Len(Text) + 1
  PROVE  Terminator /\ out = src
<1> DEFINE n == Len(Text)  f == Fill  l == Len(in)
<1>1. BarIs(n) /\ flags.stop = None
  BY UuStream
<1>2. /\ Rest \in Seq(Symbols) /\ Len(Rest) = l - at
      /\ \A i \in 1..l - at : Rest[i] = in[at + i]
      /\ Room \in Nat /\ f \in Nat /\ f <= Room /\ f <= l - at
      /\ \A i \in 1..f : Rest[i] \notin {flags.stop, Blank}
      /\ f < Room /\ f < l - at => Rest[f + 1] \in {flags.stop, Blank}
  BY FillIs
<1>3. /\ n \in Nat /\ l = 2 * n + 6 /\ in[n + 6] = Blank /\ \A i \in n + 2..n + 5 : in[i] = Pad
      /\ SubSeq(in, 1, n + 1) = Append(Text, Blank)
  BY <1>1 DEF BarIs
<1>4. Text \in Seq(Symbols) /\ Outcome(Text) = Between(src)
  BY TextOutcome
<1>5. at = n + 1
  OBVIOUS
<1>6. /\ Outcome(SubSeq(in, 1, at)).six = <<>> /\ Outcome(SubSeq(in, 1, at)).out = src
  <2>1. Blank \in Symbols /\ Blank > Pad
    BY DEF Blank, Pad, Symbols, Nul
  <2>2. Outcome(Append(Text, Blank)).six = Outcome(Text).six /\ Outcome(Append(Text, Blank)).out = Outcome(Text).out
    BY <1>4, <2>1, OutcomeSkips
  <2>3. SubSeq(in, 1, at) = Append(Text, Blank)
    BY <1>3, <1>5
  <2>4. Outcome(Text).six = <<>> /\ Outcome(Text).out = src
    BY <1>4 DEF Between
  <2> QED BY <2>2, <2>3, <2>4
<1>7. out = src /\ buf = <<>>
  BY <1>6 DEF DecoderInv, ReaderInv
<1> HIDE DEF n, f, l
<1>8. \A i \in 1..4 : Rest[i] = Pad
  <2> TAKE i \in 1..4
  <2>1. i \in 1..l - at /\ at + i \in n + 2..n + 5
    BY <1>3, <1>5
  <2> QED BY <1>2, <1>3, <2>1
<1>9. f = 4
  <2>1. Rest[5] = Blank /\ 5 \in 1..l - at
    <3>1. 5 \in 1..l - at /\ at + 5 = n + 6
      BY <1>3, <1>5
    <3> QED BY <1>2, <1>3, <3>1
  <2>2. f <= 4
    <3> SUFFICES ASSUME ~(f <= 4) PROVE FALSE
      OBVIOUS
    <3>1. 5 \in 1..f
      BY <1>2
    <3> QED BY <1>2, <2>1, <3>1
  <2>3. f >= 4
    <3> SUFFICES ASSUME ~(f >= 4) PROVE FALSE
      OBVIOUS
    <3>1. Room >= 4
      <4>1. Len(buf) = 0
        BY <1>7, EmptySeq
      <4> QED BY <4>1, Base64Assumption DEF Room
    <3>2. f < Room /\ f < l - at /\ f + 1 \in 1..4
      BY <1>2, <2>1, <3>1
    <3>3. Rest[f + 1] \in {None, Blank} /\ Rest[f + 1] = Pad
      BY <1>1, <1>2, <1>8, <3>2
    <3>4. Pad # None /\ Pad # Blank
      BY DEF Pad, None, Blank
    <3> QED BY <3>3, <3>4
  <2> QED BY <1>2, <2>2, <2>3
<1> DEFINE u == SubSeq(Rest, 1, f)  four == <<Pad, Pad, Pad, Pad>>
<1>10. u \in Seq(Symbols) /\ Len(u) = 4 /\ \A i \in 1..4 : u[i] = Pad
  <2>1. \A i \in 1..f : Rest[i] \in Symbols
    <3>1. \A i \in 1..f : i \in 1..Len(Rest)
      BY <1>2
    <3> QED BY <1>2, <3>1, ElementOfSeq
  <2>2. /\ SubSeq(Rest, 1, f) \in Seq(Symbols)
        /\ Len(SubSeq(Rest, 1, f)) = IF 1 <= f THEN f - 1 + 1 ELSE 0
        /\ \A i \in 1..f - 1 + 1 : SubSeq(Rest, 1, f)[i] = Rest[1 + i - 1]
    BY <1>2, <2>1, SubSeqProperties
  <2> QED BY <1>8, <1>9, <2>2
<1>11. four \in Seq(Symbols) /\ Len(four) = 4 /\ \A i \in 1..4 : four[i] = Pad
  <2>1. Pad \in Symbols
    BY DEF Pad, Symbols, Nul
  <2>2. four \in Seq(Symbols) /\ Len(four) = 4 /\ four[1] = Pad /\ four[2] = Pad /\ four[3] = Pad /\ four[4] = Pad
    BY <2>1
  <2> HIDE DEF four
  <2>3. \A i \in 1..4 : i = 1 \/ i = 2 \/ i = 3 \/ i = 4
    OBVIOUS
  <2> QED BY <2>2, <2>3
<1> HIDE DEF u, four
<1>12. u = four
  BY <1>10, <1>11, SeqEqual
<1>13. Line = u
  <2>1. <<>> \o u = u
    BY <1>10, ConcatEmptySeq
  <2> QED BY <1>7, <2>1 DEF Line, u, f
<1> QED BY <1>7, <1>12, <1>13 DEF Terminator, four

(* Before anything is encoded no character stops the reader.               *)
LEMMA InitReader == Init => ReaderInv
<1> SUFFICES ASSUME Init PROVE ReaderInv
  OBVIOUS
<1>1. CASE pc = "encode"
  <2>1. flags.stop = None
    BY <1>1 DEF Init
  <2> QED BY <1>1, <2>1 DEF ReaderInv
<1>2. CASE pc # "encode"
  <2>1. pc = "read" /\ src = <<>> /\ ~flags.uu
    BY <1>2 DEF Init
  <2> QED BY <2>1 DEF ReaderInv
<1> QED BY <1>1, <1>2

(* Reading leaves the file, and ends where it should.                      *)
LEMMA DecodeKeepsReader ==
  ASSUME EncoderInv, DecoderInv, ReaderInv, Decode
  PROVE  ReaderInv'
<1>1. /\ pc = "read" /\ ~Terminator /\ Advance
      /\ in' = in /\ flags' = flags /\ src' = src /\ store' = store
  BY DEF Decode, encoder
<1>2. Text' = Text /\ Bar' = Bar
  BY <1>1 DEF Text, uuencode_get_length, Bar
<1>3. pc' # "encode"
  BY <1>1 DEF Decode
<1>4. CASE ~flags.uu
  BY <1>1, <1>2, <1>3, <1>4 DEF ReaderInv
<1>5. CASE flags.uu
  <2> DEFINE n == Len(Text)
  <2>1. n \in Nat /\ at \in Nat /\ Fill \in Nat
    <3>1. Text \in Seq(Symbols)
      BY <1>1, TextOutcome
    <3> QED BY <1>1, <3>1, LenProperties, FillIs DEF DecoderInv
  <2>2. at <= n + 1
    BY <1>1, <1>5 DEF ReaderInv
  <2>3. at # n + 1
    BY <1>1, <1>5, AtBar
  <2>4. at <= n
    <3> HIDE DEF n
    <3> QED BY <2>1, <2>2, <2>3
  <2>5. at + Fill <= n /\ ~TermSeen
    BY <1>1, <1>5, <2>4, BeforeBar
  <2>6. at' <= n + 1
    <3>1. at' = at + Fill \/ at' = at + Fill + 1
      BY <1>1, AdvanceIs
    <3> HIDE DEF n
    <3> QED BY <2>1, <2>5, <3>1
  <2>7. pc' = "read"
    BY <1>1, <2>5 DEF Decode
  <2>8. Outcome(SubSeq(in, 1, at')).six = <<>> => buf' = <<>>
    <3> DEFINE e == Outcome(SubSeq(in, 1, at'))  d == Outcome(Line)
    <3>1. buf' = Tail64(d) /\ e.six = d.six
      BY <2>5, DecodeIs DEF DecodeReads
    <3> HIDE DEF e, d
    <3>2. e.six = <<>> => buf' = <<>>
      BY <3>1 DEF Tail64
    <3> QED BY <3>2 DEF e
  <2>9. in = (Text \o Bar) \o Text /\ flags.stop = None
    BY <1>1, <1>5 DEF ReaderInv
  <2> QED BY <1>1, <1>2, <1>5, <2>6, <2>7, <2>8, <2>9 DEF ReaderInv
<1> QED BY <1>4, <1>5

(* Every step keeps the reader's invariant.                                *)
LEMMA NextReader ==
  EncoderInv /\ DecoderInv /\ ReaderInv /\ EncoderInv' /\ [Next]_vars => ReaderInv'
<1> SUFFICES ASSUME EncoderInv, DecoderInv, ReaderInv, EncoderInv', [Next]_vars PROVE ReaderInv'
  OBVIOUS
<1>1. CASE Encode
  <2>1. pc' = "encode" /\ flags' = flags /\ flags.stop = None
    BY <1>1 DEF Encode, ReaderInv
  <2> QED BY <2>1 DEF ReaderInv
<1>2. CASE EncodeEnd
  <2> DEFINE n == uuencode_get_length(Len(src))
  <2>1. /\ pc = "encode" /\ pc' = "read" /\ src' = src /\ flags' = flags /\ flags.stop = None
        /\ at = 0 /\ at' = at /\ buf = <<>> /\ buf' = buf
    BY <1>2 DEF EncodeEnd, reader, ReaderInv, DecoderInv
  <2>2. /\ String \in Seq(Symbols) /\ String = SubSeq(store', 1, n)
    BY <1>2, StringIs
  <2>3. Text' = String
    BY <2>1, <2>2 DEF Text, uuencode_get_length
  <2>4. in' = IF flags.uu THEN (String \o Bar) \o String ELSE String
    BY <1>2 DEF EncodeEnd, Bar
  <2>5. in' = IF flags'.uu THEN (Text' \o Bar) \o Text' ELSE Text'
    BY <2>1, <2>3, <2>4
  <2>6. Len(Text') \in Nat
    BY <2>2, <2>3, LenProperties
  <2>7. at' <= Len(Text') + 1
    BY <2>1, <2>6
  <2> QED BY <2>1, <2>5, <2>7 DEF ReaderInv, Bar
<1>3. CASE ReadTerminator
  <2>1. /\ pc = "read" /\ pc' = "done" /\ Terminator /\ flags.uu /\ result' = 1
        /\ in' = in /\ flags' = flags /\ src' = src /\ store' = store /\ out' = out
    BY <1>3 DEF ReadTerminator, Terminator, encoder
  <2>2. Text' = Text
    BY <2>1 DEF Text, uuencode_get_length
  <2>3. out = src
    <3> DEFINE n == Len(Text)
    <3>1. n \in Nat /\ at \in Nat
      <4>1. Text \in Seq(Symbols)
        BY <2>1, TextOutcome
      <4> QED BY <2>1, <4>1, LenProperties DEF DecoderInv
    <3>2. at <= n + 1 /\ ~(at <= n)
      BY <2>1, BeforeBar DEF ReaderInv
    <3>3. at = n + 1
      <4> HIDE DEF n
      <4> QED BY <3>1, <3>2
    <3> QED BY <2>1, <3>3, AtBar
  <2> QED BY <2>1, <2>2, <2>3 DEF ReaderInv, Bar
<1>4. CASE Decode
  BY <1>4, DecodeKeepsReader
<1>5. CASE UNCHANGED vars
  <2>1. /\ pc' = pc /\ in' = in /\ flags' = flags /\ at' = at /\ buf' = buf
        /\ out' = out /\ result' = result /\ src' = src /\ store' = store
    BY <1>5 DEF vars, reader, encoder
  <2>2. Text' = Text
    BY <2>1 DEF Text, uuencode_get_length
  <2> QED BY <2>1, <2>2 DEF ReaderInv, Bar
<1> QED BY <1>1, <1>2, <1>3, <1>4, <1>5 DEF Next

(* With the three invariants, what was encoded is read back.               *)
LEMMA AllRead == EncoderInv /\ DecoderInv /\ ReaderInv => ReadsBack
<1> SUFFICES ASSUME EncoderInv, DecoderInv, ReaderInv, pc = "done", flags.uu \/ src # <<>>
             PROVE  out = src /\ result = 1
  BY DEF ReadsBack
<1>1. CASE flags.uu
  BY <1>1 DEF ReaderInv
<1>2. CASE ~flags.uu
  <2>1. in = Text /\ flags.stop = None
    BY <1>2 DEF ReaderInv
  <2>2. Text \in Seq(Symbols) /\ Outcome(Text) = Between(src) /\ Decoded(Text) = {Outcome(Text)}
    BY TextOutcome, OutcomeStep
  <2>3. Before(in) = Text
    <3>1. Before(in) = IF First(in, flags.stop) = 0 THEN in
                       ELSE SubSeq(in, 1, First(in, flags.stop) - 1)
      BY DEF Before, First, SelectInSeq
    <3>2. \A i \in 1..Len(in) : in[i] # flags.stop
      <4>1. None \notin Symbols
        BY DEF None, Symbols, Nul
      <4>2. \A i \in 1..Len(in) : in[i] \in Symbols
        BY <2>1, <2>2, ElementOfSeq
      <4> QED BY <2>1, <4>1, <4>2
    <3>3. First(in, flags.stop) = 0
      BY <3>2, FirstMissing
    <3> QED BY <2>1, <3>1, <3>3
  <2>4. \E d \in Decoded(Before(in)) : out = d.out /\ result = IF d.six = <<>> THEN 1 ELSE 0
    BY <1>2 DEF DecoderInv, Unbroken
  <2>5. Decoded(Before(in)) = {Between(src)}
    BY <2>2, <2>3
  <2> QED BY <2>4, <2>5 DEF Between
<1> QED BY <1>1, <1>2

(* Whatever is encoded, and however large the input buffer is, it is read  *)
(* back as it was: all of it and nothing else, with the result 1, up to    *)
(* the line that ends it if there is one (uuencode.c:45-236).              *)
THEOREM RoundTrip == Spec => []ReadsBack
<1>1. Init => EncoderInv /\ DecoderInv /\ ReaderInv
  BY InitEncoder, InitDecoder, InitReader
<1>2. EncoderInv /\ DecoderInv /\ ReaderInv /\ [Next]_vars => (EncoderInv /\ DecoderInv /\ ReaderInv)'
  BY NextEncoder, NextDecoder, NextReader
<1> QED BY <1>1, <1>2, AllRead, PTL DEF Spec

-----------------------------------------------------------------------------
(* What is written are the bits of the characters.  First, the three       *)
(* bytes of a number of 24 bits, and the numbers of a sequence.            *)
Table == 0..63

InTable(s, i) == IF i <= Len(s) THEN s[i] ELSE 0

Octet(n, j) == (n \div <<65536, 256, 1>>[j + 1]) % 256

LEMMA OctetOfNumber ==
  ASSUME NEW x1 \in Table, NEW x2 \in Table, NEW x3 \in Table, NEW x4 \in Table, NEW n,
         n = 262144 * x1 + 4096 * x2 + 64 * x3 + x4
  PROVE  /\ Octet(n, 0) = 4 * x1 + x2 \div 16
         /\ Octet(n, 1) = (16 * x2 + x3 \div 4) % 256
         /\ Octet(n, 2) = (64 * x3 + x4) % 256
<1> DEFINE a == x2 \div 16  b == x2 % 16  c == x3 \div 4  d == x3 % 4
<1>1. a \in 0..3 /\ b \in 0..15 /\ x2 = 16 * a + b
  BY DEF Table
<1>2. c \in 0..15 /\ d \in 0..3 /\ x3 = 4 * c + d
  BY DEF Table
<1>3. x1 \in 0..63 /\ x4 \in 0..63
  BY DEF Table
<1> DEFINE u == 4 * x1 + a  v == 16 * b + c  w == 64 * d + x4
<1> HIDE DEF a, b, c, d
<1>4. u \in 0..255 /\ v \in 0..255 /\ w \in 0..255
  BY <1>1, <1>2, <1>3
<1>5. n = 65536 * u + 256 * v + w
  BY <1>1, <1>2, <1>3
<1>6. (16 * x2 + c) % 256 = v /\ (64 * x3 + x4) % 256 = w
  <2>1. 16 * x2 + c = 256 * a + v /\ 64 * x3 + x4 = 256 * c + w
    BY <1>1, <1>2, <1>3
  <2> HIDE DEF v, w
  <2> QED BY <1>1, <1>2, <1>4, <2>1
<1> HIDE DEF u, v, w
<1>7. (n \div 65536) % 256 = u /\ (n \div 256) % 256 = v /\ (n \div 1) % 256 = w
  <2>1. n \div 65536 = u
    BY <1>4, <1>5
  <2>2. n \div 256 = 256 * u + v /\ n \div 1 = 256 * (256 * u + v) + w
    BY <1>4, <1>5
  <2>3. (256 * u + v) % 256 = v
    BY <1>4
  <2>4. (256 * (256 * u + v) + w) % 256 = w
    BY <1>4
  <2> QED BY <1>4, <2>1, <2>2, <2>3, <2>4
<1>8. Octet(n, 0) = (n \div 65536) % 256 /\ Octet(n, 1) = (n \div 256) % 256
      /\ Octet(n, 2) = (n \div 1) % 256
  BY DEF Octet
<1> QED BY <1>6, <1>7, <1>8 DEF a, c, u

(* By a name, as the provers get lost in these terms otherwise.            *)
IsNumber(n, x1, x2, x3, x4) ==
  /\ x1 \in Table /\ x2 \in Table /\ x3 \in Table /\ x4 \in Table
  /\ n = 262144 * x1 + 4096 * x2 + 64 * x3 + x4

Numbered(s, g) ==
  IsNumber(Number(s, g), InTable(s, 4 * g + 1), InTable(s, 4 * g + 2),
           InTable(s, 4 * g + 3), InTable(s, 4 * g + 4))

LEMMA NumberIs ==
  ASSUME NEW s \in Seq(Table), NEW g \in Nat
  PROVE  Numbered(s, g)
<1>1. ASSUME NEW i \in 1..4 PROVE InTable(s, 4 * g + i) \in Table
  <2>1. 4 * g + i \in Nat \ {0} /\ Len(s) \in Nat /\ 0 \in Table
    BY LenProperties DEF Table
  <2>2. 4 * g + i <= Len(s) => s[4 * g + i] \in Table
    BY <2>1, ElementOfSeq
  <2> QED BY <2>1, <2>2 DEF InTable
<1>2. InTable(s, 4 * g + 1) \in Table /\ InTable(s, 4 * g + 2) \in Table
      /\ InTable(s, 4 * g + 3) \in Table /\ InTable(s, 4 * g + 4) \in Table
  BY <1>1
<1>3. Number(s, g) = 262144 * InTable(s, 4 * g + 1) + 4096 * InTable(s, 4 * g + 2)
                     + 64 * InTable(s, 4 * g + 3) + InTable(s, 4 * g + 4)
  BY SMT DEF Number, InTable
<1> QED BY <1>2, <1>3, SMT DEF Numbered, IsNumber

(* The bytes of the numbers of a sequence.                                 *)
LEMMA OctetsAre ==
  ASSUME NEW s \in Seq(Table)
  PROVE  /\ Octets(s) \in Seq(Int) /\ Len(s) \in Nat /\ Len(Octets(s)) = (3 * Len(s)) \div 4
         /\ \A k \in 1..(3 * Len(s)) \div 4 :
              Octets(s)[k] = Octet(Number(s, (k - 1) \div 3), (k - 1) % 3)
<1> DEFINE n == (3 * Len(s)) \div 4
<1>1. Len(s) \in Nat /\ n \in Nat
  BY LenProperties
<1>2. Octets(s) = [k \in 1..n |-> Octet(Number(s, (k - 1) \div 3), (k - 1) % 3)]
  BY DEF Octets, Octet
<1>3. ASSUME NEW k \in 1..n PROVE Octet(Number(s, (k - 1) \div 3), (k - 1) % 3) \in Int
  <2> DEFINE g == (k - 1) \div 3  j == (k - 1) % 3  m == Number(s, g)
  <2>1. g \in Nat /\ j \in {0, 1, 2}
    BY <1>1
  <2> HIDE DEF g, j, m
  <2>2. m \in Int
    <3>1. Numbered(s, g)
      BY <2>1, NumberIs
    <3>2. \A v, x1, x2, x3, x4 : IsNumber(v, x1, x2, x3, x4) => v \in Int
      BY SMT DEF IsNumber, Table
    <3> QED BY <3>1, <3>2, SMT DEF Numbered, m
  <2>3. Octet(m, j) \in Int
    <3>1. (m \div 65536) % 256 \in Int /\ (m \div 256) % 256 \in Int /\ (m \div 1) % 256 \in Int
      BY <2>2
    <3>2. Octet(m, 0) = (m \div 65536) % 256 /\ Octet(m, 1) = (m \div 256) % 256
          /\ Octet(m, 2) = (m \div 1) % 256
      BY DEF Octet
    <3> QED BY <2>1, <3>1, <3>2
  <2> QED BY <2>3 DEF g, j, m
<1> HIDE DEF n
<1>4. Octets(s) \in [1..n -> Int]
  BY <1>2, <1>3
<1>5. Octets(s) \in Seq(Int)
  BY <1>1, <1>4, SeqDef
<1>6. Octets(s) = [k \in 1..n |-> Octets(s)[k]]
  BY <1>2
<1>7. Len(Octets(s)) = n
  BY <1>1, <1>6, LenOfFunction
<1> QED BY <1>1, <1>2, <1>5, <1>7 DEF n

(* Whole groups and up to one group behind them give the bytes of each.    *)
OctetsJoin(a, b) == Octets(a \o b) = Octets(a) \o Bytes(b)

LEMMA OctetsOfConcat ==
  ASSUME NEW a \in Seq(Table), NEW b \in Seq(Table), Len(a) % 4 = 0, Len(b) <= 4
  PROVE  OctetsJoin(a, b)
<1> DEFINE c == a \o b  q == Len(a) \div 4  l == Len(b)  m == (3 * l) \div 4
           p == Octets(c)  o == Octets(a)  w == Bytes(b)  v == o \o w
<1>1. q \in Nat /\ Len(a) = 4 * q /\ l \in 0..4 /\ b \in Seq(Symbols)
  <2>1. Table \subseteq Symbols
    BY DEF Table, Symbols, Nul
  <2>2. Len(a) \in Nat /\ l \in Nat /\ b \in Seq(Symbols)
    BY <2>1, LenProperties, SeqMonotonic
  <2>3. Len(a) \div 4 \in Nat /\ Len(a) = 4 * (Len(a) \div 4)
    <3> DEFINE n == Len(a)
    <3>1. n \in Nat /\ n % 4 = 0
      BY <2>2
    <3> HIDE DEF n
    <3>2. n \div 4 \in Nat /\ n = 4 * (n \div 4)
      BY <3>1
    <3> QED BY <3>2 DEF n
  <2>4. l \in 0..4
    <3>1. l <= 4
      OBVIOUS
    <3> HIDE DEF l
    <3> QED BY <2>2, <3>1
  <2> QED BY <2>2, <2>3, <2>4
<1>2. /\ c \in Seq(Table) /\ Len(c) = 4 * q + l
      /\ \A i \in 1..4 * q + l : c[i] = IF i <= 4 * q THEN a[i] ELSE b[i - 4 * q]
  <2>1. /\ c \in Seq(Table) /\ Len(c) = Len(a) + l
        /\ \A i \in 1..Len(a) + l : c[i] = IF i <= Len(a) THEN a[i] ELSE b[i - Len(a)]
    BY ConcatProperties
  <2> HIDE DEF c, q
  <2> QED BY <1>1, <2>1
<1>3. w \in Seq(Int) /\ Len(w) = m
  <2>1. w \in Seq(Int) /\ Len(w) = IF l >= 2 THEN l - 1 ELSE 0
    <3> l \in Nat /\ l <= 4
      BY <1>1
    <3> QED BY <1>1, BytesIs
  <2>2. m = IF l >= 2 THEN l - 1 ELSE 0
    <3> HIDE DEF l
    <3> QED BY <1>1
  <2> QED BY <2>1, <2>2
<1> HIDE DEF c, q, l
<1>4. (3 * (4 * q + l)) \div 4 = 3 * q + m /\ (3 * (4 * q)) \div 4 = 3 * q /\ m \in 0..3
  BY <1>1
<1>5. /\ p \in Seq(Int) /\ Len(p) = 3 * q + m
      /\ \A k \in 1..3 * q + m : p[k] = Octet(Number(c, (k - 1) \div 3), (k - 1) % 3)
  BY <1>2, <1>4, OctetsAre
<1>6. /\ o \in Seq(Int) /\ Len(o) = 3 * q
      /\ \A k \in 1..3 * q : o[k] = Octet(Number(a, (k - 1) \div 3), (k - 1) % 3)
  BY <1>1, <1>4, OctetsAre
<1> HIDE DEF m, p, o, w
<1>7. /\ v \in Seq(Int) /\ Len(v) = 3 * q + m
      /\ \A k \in 1..3 * q + m : v[k] = IF k <= 3 * q THEN o[k] ELSE w[k - 3 * q]
  <2>1. /\ v \in Seq(Int) /\ Len(v) = Len(o) + Len(w)
        /\ \A k \in 1..Len(o) + Len(w) : v[k] = IF k <= Len(o) THEN o[k] ELSE w[k - Len(o)]
    BY <1>3, <1>6, ConcatProperties
  <2> HIDE DEF v
  <2> QED BY <1>3, <1>6, <2>1
<1> HIDE DEF v
<1>8. ASSUME NEW k \in 1..3 * q PROVE p[k] = v[k]
  <2> DEFINE g == (k - 1) \div 3
  <2>1. g \in Nat /\ 4 * g + 4 <= 4 * q /\ k \in 1..3 * q + m
    BY <1>1, <1>4
  <2> HIDE DEF g
  <2>2. \A i \in 1..4 : InTable(c, 4 * g + i) = InTable(a, 4 * g + i)
    <3> TAKE i \in 1..4
    <3>1. 4 * g + i \in 1..4 * q + l /\ 4 * g + i <= 4 * q
      BY <1>1, <2>1
    <3>2. 4 * g + i <= Len(c) /\ 4 * g + i <= Len(a)
      BY <1>1, <1>2, <3>1
    <3> QED BY <1>2, <3>1, <3>2 DEF InTable
  <2>3. Number(c, g) = Number(a, g)
    BY <2>2 DEF Number, InTable
  <2>4. p[k] = Octet(Number(c, g), (k - 1) % 3) /\ o[k] = Octet(Number(a, g), (k - 1) % 3)
    BY <1>5, <1>6, <2>1 DEF g
  <2>5. v[k] = o[k]
    BY <1>7, <2>1
  <2> QED BY <2>3, <2>4, <2>5
<1>9. ASSUME NEW j \in 1..m PROVE p[3 * q + j] = v[3 * q + j]
  <2> DEFINE x1 == InTable(c, 4 * q + 1)  x2 == InTable(c, 4 * q + 2)
             x3 == InTable(c, 4 * q + 3)  x4 == InTable(c, 4 * q + 4)
  <2>1. IsNumber(Number(c, q), x1, x2, x3, x4)
    <3>1. Numbered(c, q)
      BY <1>1, <1>2, NumberIs
    <3> QED BY <3>1, SMT DEF Numbered
  <2>2. \A i \in 1..4 : InTable(c, 4 * q + i) = IF i <= l THEN b[i] ELSE 0
    <3> TAKE i \in 1..4
    <3>1. i <= l => 4 * q + i \in 1..4 * q + l /\ ~(4 * q + i <= 4 * q) /\ (4 * q + i) - 4 * q = i
      BY <1>1
    <3>2. (i <= l <=> 4 * q + i <= 4 * q + l)
      BY <1>1
    <3> QED BY <1>2, <3>1, <3>2 DEF InTable
  <2> HIDE DEF x1, x2, x3, x4
  <2>3. /\ Octet(Number(c, q), 0) = 4 * x1 + x2 \div 16
        /\ Octet(Number(c, q), 1) = (16 * x2 + x3 \div 4) % 256
        /\ Octet(Number(c, q), 2) = (64 * x3 + x4) % 256
    BY <2>1, OctetOfNumber, SMT DEF IsNumber
  <2>4. l \in {2, 3, 4} /\ j \in 1..l - 1
    BY <1>1, <1>4 DEF m
  <2>5. BytesOf(b, w)
    BY <1>1, <2>4, BytesAre DEF l, w
  <2>6. x1 = b[1] /\ x2 = b[2] /\ (l >= 3 => x3 = b[3]) /\ (l >= 4 => x4 = b[4])
    BY <2>2, <2>4 DEF x1, x2, x3, x4
  <2>7. /\ w[1] = 4 * b[1] + b[2] \div 16
        /\ l >= 3 => w[2] = (16 * b[2] + b[3] \div 4) % 256
        /\ l >= 4 => w[3] = (64 * b[3] + b[4]) % 256
    BY <2>5 DEF BytesOf, l
  <2>8. w[j] = Octet(Number(c, q), j - 1)
    <3>1. CASE j = 1
      BY <2>3, <2>6, <2>7, <3>1
    <3>2. CASE j = 2
      BY <2>3, <2>4, <2>6, <2>7, <3>2
    <3>3. CASE j = 3
      BY <2>3, <2>4, <2>6, <2>7, <3>3
    <3> QED BY <2>4, <3>1, <3>2, <3>3
  <2>9. /\ 3 * q + j \in 1..3 * q + m /\ ~(3 * q + j <= 3 * q) /\ (3 * q + j) - 3 * q = j
        /\ ((3 * q + j) - 1) \div 3 = q /\ ((3 * q + j) - 1) % 3 = j - 1
    BY <1>1, <1>4
  <2> QED BY <1>5, <1>7, <2>8, <2>9
<1>10. \A k \in 1..3 * q + m : p[k] = v[k]
  <2> TAKE k \in 1..3 * q + m
  <2>1. CASE k <= 3 * q
    BY <1>1, <1>8, <2>1
  <2>2. CASE ~(k <= 3 * q)
    <3>1. k - 3 * q \in 1..m /\ 3 * q + (k - 3 * q) = k
      BY <1>1, <1>4, <2>2
    <3> QED BY <1>9, <3>1
  <2> QED BY <2>1, <2>2
<1>11. p = v
  BY <1>5, <1>7, <1>10, SeqEqual
<1> QED BY <1>11 DEF OctetsJoin, p, c, v, o, w

(* The pieces of a text, of which there is at least one; one character     *)
(* more adds to the last, or starts the next.                              *)
PieceLists == {ps \in Seq(Seq(Table)) : Len(ps) >= 1}

LEMMA PieceListIs ==
  ASSUME NEW ps \in PieceLists
  PROVE  /\ ps \in Seq(Seq(Table)) /\ Len(ps) \in Nat \ {0} /\ DOMAIN ps = 1..Len(ps)
         /\ \A j \in 1..Len(ps) : ps[j] \in Seq(Table)
         /\ Last(ps) = ps[Len(ps)] /\ Last(ps) \in Seq(Table)
<1>1. ps \in Seq(Seq(Table)) /\ Len(ps) \in Nat \ {0} /\ DOMAIN ps = 1..Len(ps)
  BY LenProperties DEF PieceLists
<1>2. \A j \in 1..Len(ps) : ps[j] \in Seq(Table)
  BY <1>1, ElementOfSeq
<1>3. Len(ps) \in 1..Len(ps)
  BY <1>1
<1> QED BY <1>1, <1>2, <1>3 DEF Last

Started(ps, qs) ==
  /\ Len(qs) = Len(ps) + 1 /\ Last(qs) = <<>>
  /\ \A j \in 1..Len(ps) : qs[j] = ps[j]

Continued(ps, qs, ch) ==
  /\ Len(qs) = Len(ps) /\ Last(qs) = Append(Last(ps), ch)
  /\ \A j \in 1..Len(ps) - 1 : qs[j] = ps[j]

(* A character continues the last piece, starts another, or does nothing.  *)
LEMMA CutIs ==
  ASSUME NEW ps \in PieceLists, NEW ch \in Symbols
  PROVE  /\ Cut(ps, ch) \in PieceLists
         /\ ch < Pad => ch \in Table /\ Continued(ps, Cut(ps, ch), ch)
         /\ ch = Pad => Started(ps, Cut(ps, ch))
         /\ ch > Pad => Cut(ps, ch) = ps
<1> DEFINE m == Len(ps)  last == ps[m]
<1>1. /\ ps \in Seq(Seq(Table)) /\ m \in Nat \ {0} /\ DOMAIN ps = 1..m
      /\ \A j \in 1..m : ps[j] \in Seq(Table)
      /\ Last(ps) = last /\ last \in Seq(Table)
  BY PieceListIs
<1>2. CASE ch < Pad
  <2> DEFINE p == Append(last, ch)  qs == [ps EXCEPT ![m] = p]
  <2>1. ch \in Table
    BY <1>2 DEF Table, Pad, Symbols, Nul
  <2>2. p \in Seq(Table)
    BY <1>1, <2>1, AppendProperties
  <2>3. Cut(ps, ch) = qs
    BY <1>2 DEF Cut
  <2> HIDE DEF p, m
  <2>4. qs = [j \in 1..m |-> IF j = m THEN p ELSE ps[j]]
    BY <1>1
  <2>5. qs \in [1..m -> Seq(Table)] /\ qs[m] = p /\ \A j \in 1..m - 1 : qs[j] = ps[j]
    BY <1>1, <2>2, <2>4
  <2> HIDE DEF qs
  <2>6. qs \in Seq(Seq(Table)) /\ Len(qs) = m
    <3>1. qs = [j \in 1..m |-> qs[j]]
      BY <2>5
    <3>2. Len(qs) = m
      BY <1>1, <3>1, LenOfFunction
    <3> QED BY <1>1, <2>5, <3>2, SeqDef
  <2>7. qs \in PieceLists /\ Last(qs) = p
    BY <1>1, <2>5, <2>6 DEF PieceLists, Last
  <2>8. Continued(ps, qs, ch)
    BY <1>1, <2>5, <2>6, <2>7 DEF Continued, p, m
  <2> QED BY <1>2, <2>1, <2>3, <2>7, <2>8 DEF Pad, Symbols
<1>3. CASE ch = Pad
  <2> DEFINE qs == Append(ps, <<>>)
  <2>1. Cut(ps, ch) = qs
    BY <1>3 DEF Cut, Pad
  <2>2. <<>> \in Seq(Table)
    BY EmptySeq
  <2>3. /\ qs \in Seq(Seq(Table)) /\ Len(qs) = m + 1 /\ qs[m + 1] = <<>>
        /\ \A j \in 1..m : qs[j] = ps[j]
    BY <1>1, <2>2, AppendProperties
  <2> HIDE DEF qs
  <2>4. qs \in PieceLists /\ Started(ps, qs)
    BY <1>1, <2>3 DEF PieceLists, Started, Last
  <2> QED BY <1>3, <2>1, <2>4 DEF Pad
<1>4. CASE ch > Pad
  BY <1>4 DEF Cut, Pad, Symbols
<1> QED BY <1>2, <1>3, <1>4 DEF Pad, Symbols

OnePiece == << <<>> >>

Cuts(f, t) ==
  /\ f \in [0..Len(t) -> PieceLists] /\ f[0] = OnePiece
  /\ \A i \in 1..Len(t) : f[i] = Cut(f[i - 1], t[i])

(* What Pieces starts with.                                                *)
LEMMA OnePieceIs == OnePiece \in PieceLists /\ Len(OnePiece) = 1 /\ Last(OnePiece) = <<>>
<1>1. <<>> \in Seq(Table)
  BY EmptySeq
<1> QED BY <1>1 DEF OnePiece, PieceLists, Last

(* There is a function that satisfies the equations of Pieces, ...         *)
LEMMA PiecesExist ==
  ASSUME NEW t \in Seq(Symbols)
  PROVE  \E f : Cuts(f, t)
<1> DEFINE n == Len(t)
           step == [p \in PieceLists \X (1..n) |-> Cut(p[1], t[p[2]])]
<1>1. n \in Nat /\ \A i \in 1..n : t[i] \in Symbols
  BY ElementOfSeq, LenProperties
<1>2. \A ps \in PieceLists, i \in 1..n : step[<<ps, i>>] = Cut(ps, t[i])
  OBVIOUS
<1> HIDE DEF step
<1>3. ASSUME NEW ps \in PieceLists, NEW i \in 1..n PROVE step[<<ps, i>>] \in PieceLists
  <2>1. Cut(ps, t[i]) \in PieceLists
    BY <1>1, CutIs
  <2> QED BY <1>2, <2>1
<1>4. PICK f : f \in [0..n -> PieceLists] /\ Recurs(f, OnePiece, step, n)
  BY <1>1, <1>3, OnePieceIs, Recursion
<1>5. \A i \in 1..n : f[i - 1] \in PieceLists
  BY <1>1, <1>4
<1> QED BY <1>2, <1>4, <1>5 DEF Cuts, Recurs

(* ... and only one, ...                                                   *)
LEMMA PiecesAre ==
  ASSUME NEW t \in Seq(Symbols), NEW f, Cuts(f, t)
  PROVE  Pieces(t) = f[Len(t)] /\ Pieces(t) \in PieceLists
<1> DEFINE n == Len(t)
           P(g) == g = [i \in 0..n |-> IF i = 0 THEN OnePiece ELSE Cut(g[i - 1], t[i])]
           upTo == CHOOSE g : P(g)
<1>1. n \in Nat
  BY LenProperties
<1>2. P(f)
  <2>1. f = [i \in 0..n |-> f[i]] /\ f[0] = OnePiece
        /\ \A i \in 1..n : f[i] = Cut(f[i - 1], t[i])
    BY DEF Cuts
  <2>2. \A i \in 0..n : i = 0 \/ i \in 1..n
    BY <1>1
  <2>3. ~(0 \in 1..n)
    OBVIOUS
  <2>4. \A i \in 0..n : f[i] = IF i = 0 THEN OnePiece ELSE Cut(f[i - 1], t[i])
    BY <2>1, <2>2, <2>3
  <2> QED BY <2>1, <2>4
<1>3. P(upTo)
  BY <1>2
<1>4. Pieces(t) = upTo[n]
  BY DEF Pieces, OnePiece
<1> HIDE DEF upTo
<1>5. /\ \A i \in 0..n : upTo[i] = IF i = 0 THEN OnePiece ELSE Cut(upTo[i - 1], t[i])
      /\ \A i \in 0..n : f[i] = IF i = 0 THEN OnePiece ELSE Cut(f[i - 1], t[i])
  BY <1>2, <1>3
<1>6. 0 \in 0..n /\ \A i \in 1..n : i \in 0..n /\ i # 0
  BY <1>1
<1>7. upTo[0] = f[0] /\ \A i \in 1..n : upTo[i - 1] = f[i - 1] => upTo[i] = f[i]
  BY <1>5, <1>6
<1>8. \A i \in 0..n : upTo[i] = f[i]
  BY <1>1, <1>7, SameRecursion
<1>9. n \in 0..n /\ f[n] \in PieceLists
  BY <1>1 DEF Cuts
<1> QED BY <1>4, <1>8, <1>9

(* ... so that Pieces can be followed character by character.              *)
LEMMA PiecesStep ==
  /\ Pieces(<<>>) = OnePiece
  /\ \A t \in Seq(Symbols) :
       /\ Pieces(t) \in PieceLists
       /\ \A ch \in Symbols : Pieces(Append(t, ch)) = Cut(Pieces(t), ch)
<1>1. Pieces(<<>>) = OnePiece
  <2>1. <<>> \in Seq(Symbols) /\ Len(<<>>) = 0
    BY EmptySeq
  <2>2. PICK f : Cuts(f, <<>>)
    BY <2>1, PiecesExist
  <2> QED BY <2>1, <2>2, PiecesAre DEF Cuts
<1>2. ASSUME NEW t \in Seq(Symbols)
      PROVE  Pieces(t) \in PieceLists
  BY PiecesExist, PiecesAre
<1>3. ASSUME NEW t \in Seq(Symbols), NEW ch \in Symbols
      PROVE  Pieces(Append(t, ch)) = Cut(Pieces(t), ch)
  <2> DEFINE u == Append(t, ch)  n == Len(t)
  <2>1. u \in Seq(Symbols) /\ Len(u) = n + 1 /\ n \in Nat /\ u[n + 1] = ch
        /\ \A i \in 1..n : u[i] = t[i]
    BY AppendProperties, LenProperties
  <2> HIDE DEF u
  <2>2. PICK f : Cuts(f, u)
    BY <2>1, PiecesExist
  <2> DEFINE g == [i \in 0..n |-> f[i]]
  <2>3. Cuts(g, t)
    <3>1. \A i \in 0..n : g[i] = f[i]
      OBVIOUS
    <3>2. g \in [0..n -> PieceLists]
      BY <2>1, <2>2 DEF Cuts
    <3> HIDE DEF g
    <3>3. \A i \in 1..n : i \in 0..n /\ i - 1 \in 0..n /\ i \in 1..n + 1
      BY <2>1
    <3>4. \A i \in 1..n : g[i] = Cut(g[i - 1], t[i])
      BY <2>1, <2>2, <3>1, <3>3 DEF Cuts
    <3>5. g[0] = OnePiece
      BY <2>1, <2>2, <3>1 DEF Cuts
    <3> QED BY <3>2, <3>4, <3>5 DEF Cuts
  <2>4. g[n] = f[n]
    BY <2>1
  <2> HIDE DEF g
  <2>5. Pieces(t) = f[n]
    BY <2>3, <2>4, PiecesAre
  <2>6. Pieces(u) = f[n + 1]
    BY <2>1, <2>2, PiecesAre
  <2>7. f[n + 1] = Cut(f[n], u[n + 1])
    <3>1. n + 1 \in 1..n + 1 /\ (n + 1) - 1 = n
      BY <2>1
    <3> QED BY <2>1, <2>2, <3>1 DEF Cuts
  <2> QED BY <2>1, <2>5, <2>6, <2>7 DEF u
<1> QED BY <1>1, <1>2, <1>3

(* What the pieces before the last one give.                               *)
Given(ps) == FlattenSeq([j \in 1..Len(ps) - 1 |-> Octets(ps[j])])

GivesMore(qs, ps, more) == Given(qs) = Given(ps) \o more

LEMMA GivenIs ==
  ASSUME NEW ps \in PieceLists, NEW qs \in PieceLists
  PROVE  /\ Given(ps) \in Seq(Int)
         /\ Len(ps) = 1 => Given(ps) = <<>>
         /\ \A ch : Continued(ps, qs, ch) => Given(qs) = Given(ps)
         /\ Started(ps, qs) => GivesMore(qs, ps, Octets(Last(ps)))
<1> DEFINE m == Len(ps)  os == [j \in 1..m |-> Octets(ps[j])]
<1>1. m \in Nat \ {0} /\ \A j \in 1..m : os[j] = Octets(ps[j]) /\ os[j] \in Seq(Int)
  BY PieceListIs, OctetsAre
<1>11. Last(ps) = ps[m] /\ (m - 1) + 1 = m /\ m - 1 \in 0..m /\ m \in 0..m /\ m \in 1..m
  BY <1>1, PieceListIs
<1>12. Given(ps) = FlattenSeq([j \in 1..m - 1 |-> Octets(ps[j])])
  BY DEF Given
<1> HIDE DEF os, m
<1>2. \A k \in 0..m : [j \in 1..k |-> Octets(ps[j])] = [j \in 1..k |-> os[j]]
  BY <1>1
<1>3. \A k \in 0..m : FlattenSeq([j \in 1..k |-> Octets(ps[j])]) = Joined(os, k)
  BY <1>2 DEF Joined
<1>4. Given(ps) = Joined(os, m - 1)
  BY <1>3, <1>11, <1>12
<1>5. Given(ps) \in Seq(Int)
  BY <1>1, <1>4, JoinedType
<1>6. m = 1 => Given(ps) = <<>>
  BY <1>4, JoinedZero
<1>7. ASSUME NEW ch, Continued(ps, qs, ch) PROVE Given(qs) = Given(ps)
  <2>1. Len(qs) = m /\ \A j \in 1..m - 1 : qs[j] = ps[j]
    BY <1>7 DEF Continued, m
  <2>2. [j \in 1..Len(qs) - 1 |-> Octets(qs[j])] = [j \in 1..m - 1 |-> Octets(ps[j])]
    BY <2>1
  <2> QED BY <1>12, <2>2 DEF Given
<1>8. ASSUME Started(ps, qs) PROVE GivesMore(qs, ps, Octets(Last(ps)))
  <2>1. Len(qs) = m + 1 /\ \A j \in 1..m : qs[j] = ps[j]
    BY <1>8 DEF Started, m
  <2>2. [j \in 1..Len(qs) - 1 |-> Octets(qs[j])] = [j \in 1..m |-> Octets(ps[j])]
    <3>1. Len(qs) - 1 = m
      BY <1>1, <2>1
    <3> QED BY <2>1, <3>1
  <2>3. Given(qs) = Joined(os, m)
    BY <1>3, <1>11, <2>2 DEF Given
  <2>4. Joined(os, (m - 1) + 1) = Joined(os, m - 1) \o os[(m - 1) + 1]
    <3>1. m - 1 \in Nat /\ \A j \in 1..(m - 1) + 1 : os[j] \in Seq(Int)
      BY <1>1
    <3> QED BY <3>1, JoinedStep
  <2>5. os[m] = Octets(Last(ps))
    BY <1>1, <1>11
  <2> QED BY <1>4, <1>11, <2>3, <2>4, <2>5 DEF GivesMore
<1> QED BY <1>5, <1>6, <1>7, <1>8 DEF m

(* The decoder has written the pieces before the last one and the whole    *)
(* groups w of the last one, and has the rest of it.                       *)
Matches(ps, d, w) ==
  /\ w \in Seq(Table) /\ Len(w) % 4 = 0 /\ d.six \in Seq(Table)
  /\ Last(ps) = w \o d.six /\ d.out = Given(ps) \o Octets(w)

LEMMA OctetsOfNone == Octets(<<>>) = <<>>
<1>1. <<>> \in Seq(Table) /\ Len(<<>>) = 0
  BY EmptySeq
<1>2. Octets(<<>>) \in Seq(Int) /\ Len(Octets(<<>>)) = 0
  <2>1. Octets(<<>>) \in Seq(Int) /\ Len(Octets(<<>>)) = (3 * Len(<<>>)) \div 4
    BY <1>1, OctetsAre
  <2>2. (3 * 0) \div 4 = 0
    OBVIOUS
  <2> QED BY <1>1, <2>1, <2>2, Zenon
<1> QED BY <1>2, EmptySeq

(* The decoder and the reference go on in step, ...                        *)
LEMMA NextMatches ==
  ASSUME NEW d, NEW n, Sound(d, n), NEW ps \in PieceLists, NEW w, Matches(ps, d, w),
         NEW ch \in Symbols
  PROVE  \E v : Matches(Cut(ps, ch), Next64(d, ch), v)
<1> DEFINE qs == Cut(ps, ch)  e == Next64(d, ch)  x == Append(d.six, ch)  g == Given(ps)
<1>1. /\ w \in Seq(Table) /\ Len(w) % 4 = 0 /\ d.six \in Seq(Table) /\ Len(w) \in Nat
      /\ Last(ps) = w \o d.six /\ d.out = g \o Octets(w)
  BY LenProperties DEF Matches
<1>2. /\ qs \in PieceLists /\ (ch < Pad => ch \in Table /\ Continued(ps, qs, ch))
      /\ (ch = Pad => Started(ps, qs)) /\ (ch > Pad => qs = ps)
  BY CutIs
<1>3. /\ Len(d.six) <= 4 /\ Len(d.six) # 4
      /\ Six(d, ch) = IF ch < Pad THEN x ELSE d.six
  <2>1. Len(d.six) \in 0..3 /\ Len(d.six) # 4
    BY SixIs
  <2>2. Len(d.six) <= 4
    <3> DEFINE l == Len(d.six)
    <3> HIDE DEF l
    <3>1. l \in 0..3 => l <= 4
      OBVIOUS
    <3> QED BY <2>1, <3>1 DEF l
  <2> QED BY <2>1, <2>2 DEF Six
<1>4. e = IF Ends(d, ch)
          THEN [six |-> <<>>, rest |-> <<>>, out |-> d.out \o Bytes(Six(d, ch))]
          ELSE [six |-> Six(d, ch), rest |-> Append(d.rest, ch), out |-> d.out]
  BY NextIs
<1>5. g \in Seq(Int) /\ Octets(w) \in Seq(Int)
  BY <1>1, GivenIs, OctetsAre
<1>6. ASSUME NEW y \in Seq(Table), Len(y) <= 4
      PROVE  (g \o Octets(w)) \o Bytes(y) = g \o Octets(w \o y)
  <2>1. Table \subseteq Symbols
    BY DEF Table, Symbols, Nul
  <2>2. Bytes(y) \in Seq(Int)
    BY <1>6, <2>1, BytesIs, SeqMonotonic
  <2>3. Octets(w \o y) = Octets(w) \o Bytes(y)
    BY <1>1, <1>6, OctetsOfConcat DEF OctetsJoin
  <2> QED BY <1>5, <2>2, <2>3, ConcatAssociative
<1>7. <<>> \in Seq(Table)
  BY EmptySeq
<1> HIDE DEF qs, e, x, g
<1>8. CASE ch < Pad
  <2>1. Continued(ps, qs, ch) /\ ch \in Table /\ x \in Seq(Table) /\ Six(d, ch) = x
    BY <1>1, <1>2, <1>3, <1>8, AppendProperties DEF x
  <2>2. Given(qs) = g
    BY <1>2, <2>1, GivenIs DEF g
  <2>3. Last(qs) = w \o x
    <3>1. AppendsTo(w, d.six, ch)
      BY <1>1, <2>1, AppendToConcat
    <3> QED BY <1>1, <2>1, <3>1 DEF Continued, AppendsTo, x
  <2>4. ch # Pad
    BY <1>8 DEF Pad
  <2>5. CASE Len(x) = 4
    <3>1. e.six = <<>> /\ e.out = d.out \o Bytes(x)
      BY <1>4, <2>1, <2>5 DEF Ends
    <3>2. /\ w \o x \in Seq(Table) /\ Len(w \o x) % 4 = 0
      <4> DEFINE k == Len(w)  y == w \o x
      <4>1. y \in Seq(Table) /\ Len(y) = k + 4 /\ k \in Nat /\ k % 4 = 0
        <5>1. y \in Seq(Table) /\ Len(y) = Len(w) + Len(x)
          BY <1>1, <2>1, ConcatProperties
        <5> QED BY <1>1, <2>5, <5>1
      <4> HIDE DEF k, y
      <4> QED BY <4>1 DEF y
    <3>3. (w \o x) \o <<>> = w \o x
      BY <3>2, ConcatEmptySeq
    <3>4. e.out = g \o Octets(w \o x)
      <4>1. Len(x) <= 4
        BY <2>5
      <4>2. (g \o Octets(w)) \o Bytes(x) = g \o Octets(w \o x)
        BY <1>6, <2>1, <4>1
      <4> QED BY <1>1, <3>1, <4>2
    <3>5. Matches(qs, e, w \o x)
      BY <1>7, <2>2, <2>3, <3>1, <3>2, <3>3, <3>4 DEF Matches
    <3> QED BY <3>5 DEF qs, e
  <2>6. CASE Len(x) # 4
    <3>1. e.six = x /\ e.out = d.out
      BY <1>4, <2>1, <2>4, <2>6 DEF Ends
    <3>2. Matches(qs, e, w)
      BY <1>1, <2>1, <2>2, <2>3, <3>1 DEF Matches
    <3> QED BY <3>2 DEF qs, e
  <2> QED BY <2>5, <2>6
<1>9. CASE ch = Pad
  <2>1. Started(ps, qs) /\ Six(d, ch) = d.six
    BY <1>2, <1>3, <1>9 DEF Pad
  <2>2. e.six = <<>> /\ e.out = d.out \o Bytes(d.six)
    BY <1>4, <1>9, <2>1 DEF Ends
  <2>3. Len(d.six) <= 4
    BY <1>3
  <2>4. e.out = Given(qs)
    <3>1. GivesMore(qs, ps, Octets(Last(ps)))
      BY <1>2, <2>1, GivenIs
    <3>2. e.out = g \o Octets(w \o d.six)
      BY <1>1, <1>6, <2>2, <2>3
    <3> QED BY <1>1, <3>1, <3>2 DEF GivesMore, g
  <2>5. /\ Given(qs) \o Octets(<<>>) = Given(qs)
        /\ <<>> \o <<>> = <<>> /\ Len(<<>>) % 4 = 0
    <3>1. Given(qs) \in Seq(Int)
      BY <1>2, GivenIs
    <3> QED BY <3>1, OctetsOfNone, ConcatEmptySeq
  <2>6. Last(qs) = <<>>
    BY <2>1 DEF Started
  <2>7. Matches(qs, e, <<>>)
    BY <1>7, <2>2, <2>4, <2>5, <2>6 DEF Matches
  <2> QED BY <2>7 DEF qs, e
<1>10. CASE ch > Pad
  <2>1. Six(d, ch) = d.six /\ qs = ps /\ ch # Pad
    BY <1>2, <1>3, <1>10 DEF Pad, Symbols
  <2>2. ~Ends(d, ch)
    BY <1>3, <2>1 DEF Ends
  <2>3. e.six = d.six /\ e.out = d.out
    BY <1>4, <2>1, <2>2
  <2>4. Matches(qs, e, w)
    BY <2>1, <2>3 DEF Matches
  <2> QED BY <2>4 DEF qs, e
<1> QED BY <1>8, <1>9, <1>10 DEF Pad, Symbols

(* ... whatever the text.                                                  *)
LEMMA OutcomeMatches ==
  ASSUME NEW t \in Seq(Symbols)
  PROVE  \E w : Matches(Pieces(t), Outcome(t), w)
<1> DEFINE T == {s \in Seq(Symbols) : \E w : Matches(Pieces(s), Outcome(s), w)}
<1>1. <<>> \in T
  <2>1. /\ <<>> \in Seq(Symbols) /\ <<>> \in Seq(Table) /\ Len(<<>>) % 4 = 0
        /\ <<>> \o <<>> = <<>>
    BY EmptySeq
  <2>2. Given(OnePiece) = <<>>
    BY OnePieceIs, GivenIs
  <2>3. Matches(OnePiece, Fresh, <<>>)
    BY <2>1, <2>2, OnePieceIs, OctetsOfNone DEF Matches, Fresh
  <2> QED BY <2>1, <2>3, OutcomeStep, PiecesStep
<1>2. ASSUME NEW s \in Seq(Symbols), NEW ch \in Symbols, s \in T PROVE Append(s, ch) \in T
  <2>1. PICK w : Matches(Pieces(s), Outcome(s), w)
    BY <1>2
  <2>2. /\ Append(s, ch) \in Seq(Symbols) /\ Outcome(Append(s, ch)) = Next64(Outcome(s), ch)
        /\ Pieces(Append(s, ch)) = Cut(Pieces(s), ch) /\ Pieces(s) \in PieceLists
        /\ Sound(Outcome(s), Len(s))
    BY AppendProperties, OutcomeStep, PiecesStep, OutcomeSound
  <2>3. \E v : Matches(Cut(Pieces(s), ch), Next64(Outcome(s), ch), v)
    BY <2>1, <2>2, NextMatches
  <2> QED BY <2>2, <2>3
<1> HIDE DEF T
<1>3. t \in T
  BY <1>1, <1>2, SeqInduction
<1> QED BY <1>3 DEF T

(* The groups of the last piece that are whole are those.                  *)
LEMMA WholeIs ==
  ASSUME NEW t \in Seq(Symbols)
  PROVE  LET last == Last(Pieces(t)) IN
         /\ Outcome(t).out = Given(Pieces(t)) \o Octets(Whole(last))
         /\ Whole(last) = last <=> Outcome(t).six = <<>>
<1> DEFINE d == Outcome(t)  last == Last(Pieces(t))
<1>1. PICK w : Matches(Pieces(t), d, w)
  BY OutcomeMatches
<1>2. /\ w \in Seq(Table) /\ Len(w) \in Nat /\ Len(w) % 4 = 0 /\ d.six \in Seq(Table)
      /\ last = w \o d.six /\ d.out = Given(Pieces(t)) \o Octets(w)
  BY <1>1, LenProperties DEF Matches
<1>3. Len(d.six) \in 0..3
  <2>1. 0 \in Symbols
    BY DEF Symbols, Nul
  <2> QED BY <2>1, OutcomeSound, SixIs
<1> HIDE DEF d, last
<1>4. /\ last \in Seq(Table) /\ Len(last) = Len(w) + Len(d.six)
      /\ \A i \in 1..Len(w) + Len(d.six) :
           last[i] = IF i <= Len(w) THEN w[i] ELSE d.six[i - Len(w)]
  BY <1>2, ConcatProperties
<1>5. 4 * (Len(last) \div 4) = Len(w)
  <2> DEFINE a == Len(w)  b == Len(d.six)  c == Len(last)
  <2>1. a \in Nat /\ a % 4 = 0 /\ b \in 0..3 /\ c = a + b
    BY <1>2, <1>3, <1>4
  <2> HIDE DEF a, b, c
  <2>2. 4 * (c \div 4) = a
    BY <2>1
  <2> QED BY <2>2 DEF a, c
<1>6. Whole(last) = SubSeq(last, 1, Len(w))
  BY <1>5 DEF Whole
<1>7. Whole(last) = w
  <2> DEFINE n == Len(w)  u == SubSeq(last, 1, n)
  <2>1. n \in Nat /\ \A i \in 1..n : last[i] = w[i] /\ w[i] \in Table
    BY <1>2, <1>3, <1>4, ElementOfSeq
  <2> HIDE DEF n
  <2>2. /\ u \in Seq(Table) /\ Len(u) = IF 1 <= n THEN n - 1 + 1 ELSE 0
        /\ \A i \in 1..n - 1 + 1 : u[i] = last[1 + i - 1]
    BY <2>1, SubSeqProperties
  <2> HIDE DEF u
  <2>3. Len(u) = n /\ \A i \in 1..n : u[i] = w[i]
    BY <2>1, <2>2
  <2>4. u = w
    BY <1>2, <2>2, <2>3, SeqEqual DEF n
  <2> QED BY <1>6, <2>4 DEF u, n
<1>8. w = last <=> d.six = <<>>
  <2>1. w = last => Len(d.six) = 0
    BY <1>2, <1>3, <1>4
  <2>2. w \o <<>> = w
    BY <1>2, ConcatEmptySeq
  <2>3. Len(d.six) = 0 => d.six = <<>>
    BY <1>2, EmptySeq
  <2> QED BY <1>2, <2>1, <2>2, <2>3
<1> QED BY <1>2, <1>7, <1>8 DEF d, last

(* What is before a stop is a text too.                                    *)
LEMMA BeforeType ==
  ASSUME in \in Seq(Symbols)
  PROVE  Before(in) \in Seq(Symbols)
<1> DEFINE S == Symbols \ {flags.stop}
<1>1. Before(in) = IF First(in, flags.stop) = 0 THEN in
                   ELSE SubSeq(in, 1, First(in, flags.stop) - 1)
  BY DEF Before, First, SelectInSeq
<1>2. Len(in) \in Nat /\ \A i \in 1..Len(in) : in[i] \in Symbols
  BY ElementOfSeq, LenProperties
<1>3. PICK n \in 0..Len(in) :
        (\A i \in 1..n : in[i] \in S) /\ (n < Len(in) => in[n + 1] \notin S)
  BY <1>2, LongestHead
<1>4. CASE n = Len(in)
  <2>1. First(in, flags.stop) = 0
    BY <1>3, <1>4, FirstMissing
  <2> QED BY <1>1, <2>1
<1>5. CASE n # Len(in)
  <2>1. n \in Nat /\ n < Len(in) /\ n + 1 \in 1..Len(in) /\ (n + 1) - 1 = n
    BY <1>2, <1>3, <1>5
  <2>2. in[n + 1] = flags.stop
    BY <1>2, <1>3, <2>1
  <2>3. First(in, flags.stop) = n + 1
    BY <1>2, <1>3, <2>1, <2>2, FirstAt
  <2>4. SubSeq(in, 1, n) \in Seq(Symbols)
    BY <2>1, OneMore
  <2> QED BY <1>1, <2>1, <2>3, <2>4
<1> QED BY <1>4, <1>5

(* For any stream, and any size of the input buffer: what is written are   *)
(* the bits of the characters between one padding and the next, as whole   *)
(* bytes, and at the end those of whole groups; the result says whether    *)
(* there are characters left over (uuencode.c:94-236).                     *)
THEOREM BitsKept == Spec => []DecodedBits
<1>1. DecoderInv => DecodedBits
  <2> SUFFICES ASSUME DecoderInv, pc = "done", ~flags.uu
               PROVE  LET pieces == Pieces(Before(in))  last == Last(pieces) IN
                      /\ out = Given(pieces) \o Octets(Whole(last))
                      /\ result = IF Whole(last) = last THEN 1 ELSE 0
    BY DEF DecodedBits, Given
  <2>1. Before(in) \in Seq(Symbols)
    BY BeforeType DEF DecoderInv
  <2>2. Decoded(Before(in)) = {Outcome(Before(in))}
    BY <2>1, OutcomeStep
  <2>3. \E d \in Decoded(Before(in)) :
          out = d.out /\ result = IF d.six = <<>> THEN 1 ELSE 0
    BY DEF DecoderInv, Unbroken
  <2>4. /\ out = Outcome(Before(in)).out
        /\ result = IF Outcome(Before(in)).six = <<>> THEN 1 ELSE 0
    BY <2>2, <2>3
  <2> QED BY <2>1, <2>4, WholeIs
<1> QED BY InitEncoder, NextEncoder, InitDecoder, NextDecoder, <1>1, PTL DEF Spec
=============================================================================
