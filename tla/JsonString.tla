----------------------------- MODULE JsonString -----------------------------
(***************************************************************************)
(* Strings of the JSON backend: append_quoted of json/writer.h, and        *)
(* parse_string with append_escape and read_hex4 of json/reader.h, one     *)
(* character or escape per step. A character is its code; the UTF-8 form   *)
(* of a character above 7F is module Utf's matter and one code here.       *)
(***************************************************************************)
EXTENDS Integers, Sequences, SequencesExt

CONSTANTS Strings,  \* strings the writer quotes
          Foreign   \* what may stand behind an opening quote in an input

Quote == 34
Backslash == 92
LowerU == 117

\* The two-character escapes both sides know, and the code each stands for.
\* The reader also takes an escaped slash.
Short == {<<34, 34>>, <<92, 92>>, <<98, 8>>, <<102, 12>>, <<110, 10>>,
          <<114, 13>>, <<116, 9>>}
Slash == <<47, 47>>

HexDigit(n) == IF n < 10 THEN 48 + n ELSE 87 + n

\* One character of append_quoted.
Escaped(c) ==
    IF \E e \in Short : e[2] = c
    THEN <<Backslash, (CHOOSE e \in Short : e[2] = c)[1]>>
    ELSE IF c < 32
    THEN <<Backslash, LowerU, 48, 48, HexDigit(c \div 16), HexDigit(c % 16)>>
    ELSE <<c>>

\* append_quoted without the opening quote.
Quoted(s) == FlattenSeq([k \in DOMAIN s |-> Escaped(s[k])]) \o <<Quote>>

-----------------------------------------------------------------------------
VARIABLES source,   \* history: the string that was quoted
          text, position, result,
          state     \* "reading", "closed" or "thrown"

vars == <<source, text, position, result, state>>

Init ==
    /\ \/ \E s \in Strings : source = <<s>> /\ text = Quoted(s)
       \/ source = <<>> /\ text \in Foreign
    /\ position = 0
    /\ result = <<>>
    /\ state = "reading"

\* current(), n characters on: 0 behind the end.
Current(n) == IF position + n < Len(text) THEN text[position + n + 1] ELSE 0

Throw == state' = "thrown" /\ UNCHANGED <<source, text, position, result>>
Take(c, length) ==
    /\ position' = position + length
    /\ result' = Append(result, c)
    /\ UNCHANGED <<source, text, state>>

HexValue(c) ==
    CASE c \in 48 .. 57 -> c - 48
      [] c \in 97 .. 102 -> c - 87
      [] c \in 65 .. 70 -> c - 55
      [] OTHER -> -1
IsHex4(n) == \A k \in 0 .. 3 : HexValue(Current(n + k)) >= 0
\* read_hex4 of the digits from the n-th character on.
Hex4(n) == FoldLeft(LAMBDA v, k : v * 16 + HexValue(Current(n + k)), 0, <<0, 1, 2, 3>>)

High == 55296 .. 56319      \* D800 .. DBFF
Low == 56320 .. 57343       \* DC00 .. DFFF

\* A low half follows the high half at the position.
Paired ==
    Current(6) = Backslash /\ Current(7) = LowerU /\ IsHex4(8) /\ Hex4(8) \in Low

EscapeU ==
    /\ Current(1) = LowerU
    /\ IF ~IsHex4(2) THEN Throw
       ELSE IF Hex4(2) \in High
       THEN IF Paired
            THEN Take(65536 + (Hex4(2) - 55296) * 1024 + (Hex4(8) - 56320), 12)
            ELSE Throw
       ELSE IF Hex4(2) \in Low THEN Throw
       ELSE Take(Hex4(2), 6)

\* append_escape
append_escape ==
    \/ \E e \in Short \cup {Slash} : Current(1) = e[1] /\ Take(e[2], 2)
    \/ EscapeU
    \/ Current(1) \notin {e[1] : e \in Short \cup {Slash}} \cup {LowerU} /\ Throw

\* One iteration of the loop of parse_string.
parse_string ==
    /\ state = "reading"
    /\ IF position >= Len(text) THEN Throw
       ELSE LET c == text[position + 1] IN
            \/ /\ c = Quote
               /\ position' = position + 1
               /\ state' = "closed"
               /\ UNCHANGED <<source, text, result>>
            \/ c < 32 /\ Throw
            \/ c = Backslash /\ append_escape
            \/ c >= 32 /\ c \notin {Quote, Backslash} /\ Take(c, 1)

Next == parse_string
Spec == Init /\ [][Next]_vars

-----------------------------------------------------------------------------
\* Escapes combine to scalar values only: no half of a surrogate pair gets
\* into a string, where append_utf8 would refuse it or another reader would.
ScalarsOnly ==
    \A k \in DOMAIN result : result[k] \in 0 .. 1114111 /\ result[k] \notin High \cup Low

\* A quoted string is read back as it was, and its closing quote is the
\* first one that is seen.
RoundTrip ==
    source # <<>> =>
        /\ state # "thrown"
        /\ state = "closed" => result = source[1] /\ position = Len(text)
=============================================================================
