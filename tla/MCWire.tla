------------------------------- MODULE MCWire -------------------------------
(***************************************************************************)
(* Both wire formats for TLC: the binary reader on inputs nobody wrote     *)
(* (part "input"), the binary writer and reader end to end with nested     *)
(* documents ("binary") and with numbers and lengths at the edges of a     *)
(* group ("words"), the JSON writer and reader with line breaks ("json")   *)
(* and without ("compact"), and the algorithms on text, which share their  *)
(* variables.                                                              *)
(* Three payload bits per byte and seven-bit integers: a word takes one to *)
(* three groups, and the third holds one bit.                              *)
(***************************************************************************)
EXTENDS BinaryInput, BinaryWire, JsonWire, SequencesExt

VARIABLES part,
          data, found, place, stage, passage    \* a conversion of a text

scratch == <<data, found, place, stage, passage>>
vars == <<part, rvars, bvars, scratch, jvars>>

\* Every input of up to two bytes, and longer ones over the bytes that open
\* containers, count their items and continue a varint; the longest nest
\* deeper than the reader allows.
MCInputs ==
    BoundedSeq(Byte, 2) \cup BoundedSeq({0, 1, 6, 8, 9}, 4)
        \cup {<<8, 1>> \o s : s \in BoundedSeq({0, 1, 8}, 4)}

MCJsonNumbers == {-5, 12}

MCByteTexts == {<<>>, <<9>>}
MCWords == {0, 7, 8, 127}
MCIntegers == {-64, -1, 0, 63}
MCFloats == {<<8>>}

\* Lengths on both sides of the first group, nested once.
L == INSTANCE BinaryWire WITH
    WriterDepth <- 1,
    ByteTexts <- {[j \in 1 .. 7 |-> 8], [j \in 1 .. 8 |-> 8]},
    Words <- {7, 8, 63, 64, 127}, Integers64 <- {-64, -5, -4, 3, 4, 63}, Floats <- {},
    Sizes <- {1, 2}, MaxOutput <- 15

\* Enough tokens for an object of two members.
C == INSTANCE JsonWire WITH
    MaxDepth <- 1, Indent <- FALSE, Texts <- {"key"}, Malformed <- {}, Numbers <- {},
    MaxTokens <- 9

ASSUME WriterAssumption /\ L!WriterAssumption /\ C!W!WriterAssumption

-----------------------------------------------------------------------------
(* Leads and continuations on both sides of every boundary of the UTF-8    *)
(* tables, two characters in a row, and surrogates in every arrangement.   *)

Leads == {65, 127, 128, 191, 192, 193, 194, 223, 224, 225, 236, 237, 238, 239,
          240, 241, 243, 244, 245, 247, 248, 255}
Nexts == {65, 127, 128, 143, 144, 159, 160, 191, 192}
Lasts == {127, 128, 191, 194}

MCTexts8 ==
    {<<>>} \cup {<<a>> : a \in Leads}
    \cup {<<a, b>> : a \in Leads, b \in Nexts}
    \cup {<<a, b, c>> : a \in Leads, b \in Nexts, c \in Lasts}
    \cup {<<a, b, c, d>> : a \in Leads, b \in Nexts, c \in Lasts, d \in Lasts}
    \cup {<<a, b, 65, 195, 128>> : a \in Leads, b \in Nexts}

Units == {0, 127, 128, 2047, 2048, 55295, 55296, 56319, 56320, 57343, 57344, 65535}
MCTexts16 == UNION {[1 .. n -> Units] : n \in 0 .. 3}

U == INSTANCE Utf WITH Texts8 <- MCTexts8, Texts16 <- MCTexts16,
                       form <- data, text <- passage, position <- place, points <- found, thrown <- stage

-----------------------------------------------------------------------------
(* Payloads of every length modulo three with bytes at the edges, and      *)
(* texts of up to two groups with padding and foreign characters anywhere. *)

MCPayloads == UNION {[1 .. n -> {0, 1, 127, 255}] : n \in 0 .. 4}
    \cup UNION {[1 .. n -> {3, 252}] : n \in 5 .. 7}
Digits64 == {0, 17, 63, 64, 65}
MCForeign64 == UNION {[1 .. n -> Digits64] : n \in 0 .. 5}
    \cup {a \o <<b, 0, c, d>> : a \in [1 .. 4 -> {0, 64}], b \in {0, 65}, c \in Digits64, d \in Digits64}

D == INSTANCE Base64 WITH Payloads <- MCPayloads, Foreign <- MCForeign64,
                          source <- data, text <- passage, i <- place, decoded <- found, thrown <- stage

-----------------------------------------------------------------------------
(* Strings of the characters that are escaped, in a row; inputs made of    *)
(* escapes, whole and cut, with surrogate halves in every order.           *)

Chars == {0, 1, 8, 9, 10, 11, 12, 13, 27, 31, 32, 34, 47, 65, 92, 117, 127, 233}
MCStrings == UNION {[1 .. n -> Chars] : n \in 0 .. 2}

Hex(a, b, c, d) == <<92, 117, a, b, c, d>>
Pieces == {Hex(68, 56, 48, 48), Hex(100, 98, 102, 102), Hex(68, 67, 48, 48),
           Hex(100, 102, 70, 102), Hex(69, 48, 48, 48), Hex(48, 48, 52, 103),
           <<92, 110>>, <<92, 47>>, <<92, 120>>, <<92>>, <<92, 117, 100>>,
           <<65>>, <<34>>, <<10>>}
MCForeign == {FlattenSeq(s) : s \in UNION {[1 .. n -> Pieces] : n \in 0 .. 3}}

S == INSTANCE JsonString WITH Strings <- MCStrings, Foreign <- MCForeign,
                              source <- data, text <- passage, position <- place, result <- found, state <- stage

-----------------------------------------------------------------------------
(* Inputs of up to five characters, and the shapes std::to_chars gives: an *)
(* integer part, and possibly a fraction and a signed exponent.            *)

MCNumbers == UNION {[1 .. n -> {"-", "0", "d", ".", "e", "+", "x"}] : n \in 0 .. 5}
MCPrinted ==
    {sign \o int \o frac \o exp :
        sign \in {<<>>, <<"-">>}, int \in {<<"0">>, <<"d">>, <<"d", "0">>},
        frac \in {<<>>, <<".", "d">>, <<".", "0", "d">>},
        exp \in {<<>>, <<"e", "+", "d", "0">>, <<"e", "-", "0", "d">>}}

N == INSTANCE JsonNumber WITH Inputs <- MCNumbers, Printed <- MCPrinted,
                              text <- passage, position <- place, part <- stage, printed <- data

-----------------------------------------------------------------------------
\* What a part that is not looked at does not touch.
NoText == data = <<>> /\ found = <<>> /\ place = 0 /\ stage = "none" /\ passage = <<>>

MCInit ==
    \/ part = "input" /\ Init /\ BinaryInit /\ JsonInit /\ NoText
    \/ part \in {"binary", "words", "json", "compact"} /\ RInit(<<>>) /\ BinaryInit /\ JsonInit /\ NoText
    \/ /\ \/ part = "utf" /\ U!Init
          \/ part = "base64" /\ D!Init
          \/ part = "string" /\ S!Init
          \/ part = "number" /\ N!Init /\ found = <<>>
       /\ RInit(<<>>) /\ BinaryInit /\ JsonInit

InputStep(A) == part = "input" /\ A /\ UNCHANGED <<part, bvars, scratch, jvars>>
BinaryStep(p, A) == part = p /\ A /\ UNCHANGED <<part, rvars, scratch, jvars>>
JsonStep(p, A) == part = p /\ A /\ UNCHANGED <<part, rvars, bvars, scratch>>
TextStep(p, A) == part = p /\ A /\ UNCHANGED <<part, rvars, bvars, jvars>>

MCNext ==
    \/ InputStep(Next)
    \/ BinaryStep("binary", BinaryNext) \/ BinaryStep("words", L!BinaryNext)
    \/ JsonStep("json", JsonNext) \/ JsonStep("compact", C!JsonNext)
    \/ TextStep("utf", U!Next) \/ TextStep("base64", D!Next) \/ TextStep("string", S!Next)
    \/ TextStep("number", N!Next /\ UNCHANGED found)

MCSpec == MCInit /\ [][MCNext]_vars

-----------------------------------------------------------------------------
\* Reading ends on whatever was handed over: every step of skip_value on
\* arbitrary bytes, and every step of a caller that reads a binary document or
\* a JSON text, leaves less to do.
ReadingEnds ==
    /\ Progress
    /\ SkipEnds
    /\ [][BinaryAdvances]_bvars
    /\ [][Advances]_jvars

\* from_utf8 and to_utf8 decode Unicode scalar values only; encoding them again
\* gives back what was read, so nothing overlong is accepted and no two texts
\* mean the same string; they throw only where the Unicode standard calls the
\* text ill-formed. base64_decode gives back the bytes that base64_encode was
\* given, and accepts only what base64_encode writes, but for the unused bits
\* of the last character before the padding. parse_string reads back what
\* append_quoted wrote, to its closing quote, and lets no half of a surrogate
\* pair into a string. scan_number takes the longest number of RFC 8259 the
\* input starts with and refuses no input that starts with one; what
\* append_floating writes is scanned whole and read as a float.
TextExact ==
    /\ part = "utf" => U!TypeOK /\ U!Lossless /\ U!ThrowsOnlyIllFormed
    /\ part = "base64" => D!RoundTrip /\ D!Strict
    /\ part = "string" => S!RoundTrip /\ S!ScalarsOnly
    /\ part = "number" => N!ScansNumbers /\ N!RefusesOthers /\ N!FloatsStayFloats
=============================================================================
