------------------------------- MODULE Base64 -------------------------------
(***************************************************************************)
(* src/src/uuencode.c: a buffer in a tag is encoded into a buffer of its   *)
(* caller (gst-util.c), and a stream is decoded, a line or a full input    *)
(* buffer at a time.  What follows the encoder here is that its text is    *)
(* written to a file and read back; the decoder also gets any other file.  *)
(*                                                                         *)
(* A character of the table is its index: 0 to 63, and 64 for the padding. *)
(***************************************************************************)
EXTENDS Integers, SequencesExt

CONSTANTS
  Sources,    \* what is encoded: sequences of bytes
  Streams,    \* files with other contents
  BufferSize  \* the size of read_base64's input buffer, 64

Pad == 64
Junk == 65   \* a character that is not in the table
Blank == 66  \* a line end, space or control character
Nul == 67
None == 68   \* no character: BASE64_FLAG_NO_STOP_CHAR

ASSUME Base64Assumption ==
  /\ Sources \subseteq Seq(0..255) /\ Streams \subseteq Seq(0..Blank)
  /\ BufferSize \in Nat /\ BufferSize >= 4

VARIABLES
  pc,      \* "encode", "read", "done"
  src,     \* the bytes to encode
  length,  \* those left: below 0 when the last group has too few
  store,   \* the buffer for the text, by position
  in,      \* the file
  flags,   \* of read_base64: the character that ends it, and whether a
           \* line of four paddings does
  at,      \* how far the file is read
  buf,     \* in_buf
  out,     \* what is written to the other file
  result   \* what read_base64 returns

encoder == <<src, length, store>>
reader == <<at, buf, out, result>>
vars == <<pc, encoder, in, flags, reader>>

(* Mutant: a last group of one byte is forgotten. *)
TooShort(n) == 4 * ((n + 1) \div 3)

uuencode_get_length(n) == 4 * ((n + 2) \div 3)

Init ==
  /\ \/ /\ pc = "encode" /\ src \in Sources /\ in = <<>>
        /\ flags \in [stop : {None}, uu : BOOLEAN]
     \/ /\ pc = "read" /\ src = <<>> /\ in \in Streams
        /\ flags \in [stop : {None, Junk}, uu : {FALSE}]
  /\ length = Len(src)
  /\ store = [i \in 1..uuencode_get_length(Len(src)) + 1 |-> Nul]
  /\ at = 0 /\ buf = <<>> /\ out = <<>> /\ result = -1

-----------------------------------------------------------------------------
(* Writing to the buffer; past its end, it makes it longer.                *)
Written(p, text) ==
  [i \in 1..(IF p + Len(text) > Len(store) THEN p + Len(text) ELSE Len(store)) |->
     IF i - p \in DOMAIN text THEN text[i - p] ELSE store[i]]

(* How far source and buffer are used. *)
Used == Len(src) - length
Position == 4 * (Used \div 3)

(* Three bytes as four characters; a byte that is not there counts as 0.   *)
Byte(i) == IF i <= Len(src) THEN src[i] ELSE 0

Group ==
  LET s0 == Byte(Used + 1)  s1 == Byte(Used + 2)  s2 == Byte(Used + 3) IN
  <<s0 \div 4, 16 * (s0 % 4) + s1 \div 16, 4 * (s1 % 16) + s2 \div 64, s2 % 64>>

Encode ==
  /\ pc = "encode" /\ length > 0
  /\ length' = length - 3
  /\ store' = Written(Position, Group)
  /\ UNCHANGED <<pc, src, in, flags, reader>>

(* The string ends, and its last -length characters are padding.  The text  *)
(* is written to the file, as lines up to one of four paddings or as it is. *)
(* Mutant: one character of padding at most.                                *)
OnePad == IF length = 0 THEN 0 ELSE 1

Padding == -length

String == SubSeq(store', 1, SelectInSeq(store', LAMBDA c : c = Nul) - 1)

EncodeEnd ==
  /\ pc = "encode" /\ length <= 0
  /\ store' = Written(Position - Padding, [i \in 1..Padding |-> Pad] \o <<Nul>>)
  /\ length' = 0 /\ pc' = "read"
  /\ in' = IF flags.uu
           THEN String \o <<Blank, Pad, Pad, Pad, Pad, Blank>> \o String ELSE String
  /\ UNCHANGED <<src, flags, reader>>

-----------------------------------------------------------------------------
(* decode_base64: up to four values of six bits are one byte less.         *)
Bytes(six) ==
  LET x == six \o <<0, 0, 0, 0>> IN
  SubSeq(<<4 * x[1] + x[2] \div 16,
           (16 * x[2] + x[3] \div 4) % 256,
           (64 * x[3] + x[4]) % 256>>, 1, Len(six) - 1)

(* A group is four characters of the table, or fewer and one of padding;   *)
(* what is not in the table is skipped.                                    *)
Next64(d, ch) ==
  LET six == IF ch < Pad THEN Append(d.six, ch) ELSE d.six IN
  IF ch = Pad \/ Len(six) = 4
  THEN [six |-> <<>>, rest |-> <<>>, out |-> d.out \o Bytes(six)]
  ELSE [six |-> six, rest |-> Append(d.rest, ch), out |-> d.out]

(* As a set of one, whose member TLC evaluates once.                       *)
Decoded(text) ==
  LET upTo[i \in 0..Len(text)] ==
        IF i = 0 THEN {[six |-> <<>>, rest |-> <<>>, out |-> <<>>]}
        ELSE {Next64(d, text[i]) : d \in upTo[i - 1]}
  IN  upTo[Len(text)]

(* The part of the text that is not decoded: the last group, if it is not  *)
(* complete, and what is skipped before and in it.  Mutant: it is dropped. *)
NoTail(d) == <<>>

Tail64(d) == IF d.six = <<>> THEN <<>> ELSE d.rest

-----------------------------------------------------------------------------
(* read_base64.  The inner loop fills the buffer up to a character that    *)
(* stops it, if there is room for what comes before.                       *)
Rest == SubSeq(in, at + 1, Len(in))

(* Mutant: what the last round left over is not counted.                   *)
EmptyBuffer == BufferSize

Room == BufferSize - Len(buf)
Stop == SelectInSeq(Rest \o <<Blank>>, LAMBDA ch : ch \in {flags.stop, Blank})
Fill == IF Stop - 1 < Room THEN Stop - 1 ELSE Room

Line == buf \o SubSeq(Rest, 1, Fill)

(* It saw the end of the file, or the character to end at.  Mutant: only   *)
(* that.                                                                   *)
ExitChar == Fill < Room /\ Fill < Len(Rest) /\ Rest[Fill + 1] = flags.stop

TermSeen == Fill < Room /\ (Fill = Len(Rest) \/ Rest[Fill + 1] = flags.stop)

Terminator == flags.uu /\ Line = <<Pad, Pad, Pad, Pad>>

(* The character that stops the line is read, the one that finds no room   *)
(* is not.  Mutant: both are.                                              *)
ReadFirst == at' = IF Fill < Len(Rest) THEN at + Fill + 1 ELSE at + Fill

Advance == at' = IF Fill < Room /\ Fill < Len(Rest) THEN at + Fill + 1 ELSE at + Fill

ReadTerminator ==
  /\ pc = "read" /\ Terminator
  /\ Advance /\ pc' = "done" /\ result' = 1
  /\ UNCHANGED <<encoder, in, flags, buf, out>>

Decode ==
  /\ pc = "read" /\ ~Terminator
  /\ Advance
  /\ \E line \in {Line} : \E d \in Decoded(line) :
       /\ out' = out \o d.out /\ buf' = Tail64(d)
       /\ IF TermSeen
          THEN pc' = "done" /\ result' = IF Tail64(d) = <<>> THEN 1 ELSE 0
          ELSE UNCHANGED <<pc, result>>
  /\ UNCHANGED <<encoder, in, flags>>

Next == Encode \/ EncodeEnd \/ ReadTerminator \/ Decode

Spec == Init /\ [][Next]_vars /\ WF_vars(Next)

-----------------------------------------------------------------------------
(* The encoder does not write past the buffer its caller made from         *)
(* uuencode_get_length: not for the last group, nor for the zero behind it *)
(* (uuencode.c:45-85, gst-util.c:50-52).                                   *)
NothingPastEnd == Len(store) = uuencode_get_length(Len(src)) + 1

(* The text has four characters for every three bytes, of the same 24      *)
(* bits: bytes that are not there have 0, and padding has, which stands at *)
(* the end for each of these.  Behind it the text ends (uuencode.c:56-85). *)
EncodedBits ==
  pc # "encode" =>
    LET n == uuencode_get_length(Len(src))
        pads == (-Len(src)) % 3
        Six(i) == IF i > n - pads THEN 0 ELSE store[i]
    IN  /\ \A i \in 1..n : IF i > n - pads THEN store[i] = Pad ELSE store[i] \in 0..63
        /\ store[n + 1] = Nul
        /\ \A g \in 0..n \div 4 - 1 :
             65536 * Byte(3 * g + 1) + 256 * Byte(3 * g + 2) + Byte(3 * g + 3) =
               262144 * Six(4 * g + 1) + 4096 * Six(4 * g + 2) + 64 * Six(4 * g + 3) + Six(4 * g + 4)

(* Neither do in_buf and out_buf run over, whatever is read                *)
(* (uuencode.c:179-236).                                                   *)
DecoderFits ==
  pc = "read" =>
    /\ Len(buf) <= BufferSize /\ Len(Line) <= BufferSize
    /\ \A d \in Decoded(Line) : Len(d.out) <= 3 * (BufferSize \div 4) + 2

BuffersHold == NothingPastEnd /\ DecoderFits

(* It does not matter where blanks and the ends of the input buffer cut a  *)
(* stream: what is written is the stream decoded in one piece, as far as   *)
(* it is read (uuencode.c:94-236).                                         *)
Before(s) ==
  LET n == SelectInSeq(s, LAMBDA ch : ch = flags.stop)
  IN  IF n = 0 THEN s ELSE SubSeq(s, 1, n - 1)

Unbroken ==
  /\ pc = "read" => \E d \in Decoded(SubSeq(in, 1, at)) : out = d.out
  /\ pc = "done" /\ ~flags.uu =>
       \E d \in Decoded(Before(in)) :
         out = d.out /\ result = IF d.six = <<>> THEN 1 ELSE 0

(* The reference: the bits of s, six to each element, in whole bytes; by   *)
(* numbers of four elements, where one that is not there counts as 0.      *)
Number(s, g) ==
  LET Six(i) == IF i <= Len(s) THEN s[i] ELSE 0 IN
  262144 * Six(4 * g + 1) + 4096 * Six(4 * g + 2) + 64 * Six(4 * g + 3) + Six(4 * g + 4)

Octets(s) ==
  [k \in 1..(3 * Len(s)) \div 4 |->
     (Number(s, (k - 1) \div 3) \div <<65536, 256, 1>>[((k - 1) % 3) + 1]) % 256]

(* What stands between one padding and the next, of characters of the      *)
(* table; there is always a last piece.                                    *)
Cut(pieces, ch) ==
  IF ch < Pad THEN [pieces EXCEPT ![Len(pieces)] = Append(@, ch)]
  ELSE IF ch = Pad THEN Append(pieces, <<>>) ELSE pieces

Pieces(s) ==
  LET upTo[i \in 0..Len(s)] == IF i = 0 THEN << <<>> >> ELSE Cut(upTo[i - 1], s[i])
  IN  upTo[Len(s)]

Whole(piece) == SubSeq(piece, 1, 4 * (Len(piece) \div 4))

(* A stream gives the bits between one padding and the next, as whole      *)
(* bytes, and at its end whole groups; if characters are left over, the    *)
(* result is 0 (uuencode.c:94-236).                                        *)
DecodedBits ==
  pc = "done" /\ ~flags.uu =>
    LET pieces == Pieces(Before(in))  last == Last(pieces) IN
    /\ out = FlattenSeq([j \in 1..Len(pieces) - 1 |-> Octets(pieces[j])]) \o Octets(Whole(last))
    /\ result = IF Whole(last) = last THEN 1 ELSE 0

(* What the encoder wrote is read back, up to a line of four paddings if   *)
(* that is where it has to end (uuencode.c:45-236).                        *)
ReadsBack == pc = "done" /\ (flags.uu \/ src # <<>>) => out = src /\ result = 1

(* The reader ends, unless its buffer fills up with junk and less than a   *)
(* group: it then neither reads nor decodes anything any more.  For that   *)
(* it takes BufferSize characters in a row, not counting blanks, of which  *)
(* one to three are in the table and none is padding (uuencode.c:192-235). *)
Fed(s) ==
  LET t == SelectSeq(s, LAMBDA ch : ch # Blank) IN
  \A i \in 0..Len(t) - BufferSize :
    LET window == SubSeq(t, i + 1, i + BufferSize)
        known == SelectSeq(window, LAMBDA ch : ch < Pad)
    IN  Len(known) \in 1..3 => \E j \in 1..BufferSize : window[j] = Pad

EndsIfFed == pc = "read" /\ Fed(in) ~> pc = "done"
=============================================================================
