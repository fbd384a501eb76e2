-------------------------------- MODULE Utf ---------------------------------
(***************************************************************************)
(* The conversions of serial/detail/utf.h: to_utf8 of UTF-16 text and      *)
(* from_utf8. Both are loops that decode one character and append it in    *)
(* the other form; the state is the text, how far it was read and the      *)
(* characters found. An ill-formed place throws.                           *)
(***************************************************************************)
EXTENDS Integers, Sequences, SequencesExt

CONSTANTS Texts8,   \* UTF-8 texts: sequences of bytes
          Texts16   \* UTF-16 texts: sequences of 16-bit units

VARIABLES form,     \* "utf8" (from_utf8) or "utf16" (to_utf8)
          text, position,
          points,   \* the code points decoded so far
          thrown

vars == <<form, text, position, points, thrown>>

is_surrogate(c) == c \in 55296 .. 57343         \* D800 .. DFFF
MaxPoint == 1114111                             \* 10FFFF
Scalar(c) == c \in 0 .. MaxPoint /\ ~is_surrogate(c)

-----------------------------------------------------------------------------
\* append_utf8; throws unless c is a scalar value.
Utf8(c) ==
    CASE c < 128 -> <<c>>
      [] c \in 128 .. 2047 -> <<192 + (c \div 64), 128 + (c % 64)>>
      [] c \in 2048 .. 65535 ->
            <<224 + (c \div 4096), 128 + ((c \div 64) % 64), 128 + (c % 64)>>
      [] OTHER ->
            <<240 + (c \div 262144), 128 + ((c \div 4096) % 64),
              128 + ((c \div 64) % 64), 128 + (c % 64)>>

\* How from_utf8 appends a code point to 16-bit text.
Utf16(c) ==
    IF c >= 65536
    THEN <<55296 + ((c - 65536) \div 1024), 56320 + ((c - 65536) % 1024)>>
    ELSE <<c>>

\* The length, the payload bits and the least code point a lead byte of
\* decode_utf8 announces; length 0 for a byte that cannot lead.
Lead(b) ==
    CASE b < 128 -> [length |-> 1, bits |-> b, minimum |-> 0]
      [] b \in 192 .. 223 -> [length |-> 2, bits |-> b % 32, minimum |-> 128]
      [] b \in 224 .. 239 -> [length |-> 3, bits |-> b % 16, minimum |-> 2048]
      [] b \in 240 .. 247 -> [length |-> 4, bits |-> b % 8, minimum |-> 65536]
      [] OTHER -> [length |-> 0, bits |-> 0, minimum |-> 0]

IsContinuation(b) == b \in 128 .. 191

\* The code point of a sequence whose lead announced `lead`.
Assemble(lead, s, p) ==
    FoldLeft(LAMBDA c, i : c * 64 + (s[p + 1 + i] % 64), lead.bits,
             [i \in 1 .. lead.length - 1 |-> i])

-----------------------------------------------------------------------------
Init ==
    /\ \/ form = "utf8" /\ text \in Texts8
       \/ form = "utf16" /\ text \in Texts16
    /\ position = 0
    /\ points = <<>>
    /\ thrown = FALSE

Throw == thrown' = TRUE /\ UNCHANGED <<form, text, position, points>>

Found(c, length) ==
    /\ position' = position + length
    /\ points' = Append(points, c)
    /\ UNCHANGED <<form, text, thrown>>

\* MUTANT: surrogates are not refused.
Legal_Surrogate(c, lead) == c >= lead.minimum /\ c <= MaxPoint

\* The last test of decode_utf8.
Legal(c, lead) == c >= lead.minimum /\ Scalar(c)

\* One iteration of from_utf8: decode_utf8.
decode_utf8 ==
    /\ form = "utf8" /\ ~thrown /\ position < Len(text)
    /\ LET lead == Lead(text[position + 1]) IN
       IF \/ lead.length = 0
          \/ position + lead.length > Len(text)
          \/ \E i \in 2 .. lead.length : ~IsContinuation(text[position + i])
          \/ ~Legal(Assemble(lead, text, position), lead)
       THEN Throw
       ELSE Found(Assemble(lead, text, position), lead.length)

\* One iteration of to_utf8 for 16-bit characters. A low surrogate on its
\* own is refused by append_utf8.
to_utf8 ==
    /\ form = "utf16" /\ ~thrown /\ position < Len(text)
    /\ LET unit == text[position + 1]
           low == IF position + 1 < Len(text) THEN text[position + 2] ELSE 0
       IN  IF unit \in 55296 .. 56319
           THEN IF low \in 56320 .. 57343
                THEN Found(65536 + (unit - 55296) * 1024 + (low - 56320), 2)
                ELSE Throw
           ELSE IF Scalar(unit) THEN Found(unit, 1) ELSE Throw

Next == decode_utf8 \/ to_utf8
Spec == Init /\ [][Next]_vars

-----------------------------------------------------------------------------
\* Everything decoded is a Unicode scalar value.
TypeOK ==
    /\ position \in 0 .. Len(text)
    /\ thrown \in BOOLEAN
    /\ \A i \in DOMAIN points : Scalar(points[i])

Encoded ==
    FlattenSeq([i \in DOMAIN points |->
                    IF form = "utf8" THEN Utf8(points[i]) ELSE Utf16(points[i])])

\* No two texts mean the same characters: encoding what was decoded gives
\* back the units that were read, so nothing overlong is accepted and a
\* string that goes to the other form and back is the same string.
Lossless == Encoded = SubSeq(text, 1, position)

\* Table 3-7 of the Unicode standard: the bytes that may follow each lead.
Table == <<
    [lead |-> 0 .. 127,   rest |-> <<>>],
    [lead |-> 194 .. 223, rest |-> <<128 .. 191>>],
    [lead |-> {224},      rest |-> <<160 .. 191, 128 .. 191>>],
    [lead |-> 225 .. 236, rest |-> <<128 .. 191, 128 .. 191>>],
    [lead |-> {237},      rest |-> <<128 .. 159, 128 .. 191>>],
    [lead |-> 238 .. 239, rest |-> <<128 .. 191, 128 .. 191>>],
    [lead |-> {240},      rest |-> <<144 .. 191, 128 .. 191, 128 .. 191>>],
    [lead |-> 241 .. 243, rest |-> <<128 .. 191, 128 .. 191, 128 .. 191>>],
    [lead |-> {244},      rest |-> <<128 .. 143, 128 .. 191, 128 .. 191>>] >>

WellFormed8(s, p) ==
    \E k \in DOMAIN Table :
        /\ s[p + 1] \in Table[k].lead
        /\ p + 1 + Len(Table[k].rest) <= Len(s)
        /\ \A i \in DOMAIN Table[k].rest : s[p + 1 + i] \in Table[k].rest[i]

WellFormed16(s, p) ==
    \/ ~is_surrogate(s[p + 1])
    \/ /\ s[p + 1] < 56320
       /\ p + 1 < Len(s) /\ s[p + 2] \in 56320 .. 57343

\* The conversion throws only at a place the Unicode standard calls
\* ill-formed.
ThrowsOnlyIllFormed ==
    thrown => ~(IF form = "utf8" THEN WellFormed8(text, position)
                                 ELSE WellFormed16(text, position))
=============================================================================
