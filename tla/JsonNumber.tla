----------------------------- MODULE JsonNumber -----------------------------
(***************************************************************************)
(* Numbers of the JSON backend: scan_number and is_integer_token of        *)
(* json/reader.h, one part of the number per step, on any input and on     *)
(* what append_floating of json/writer.h writes. Characters are classes:   *)
(* "d" is a digit from 1 to 9, "e" either case, "x" anything else.         *)
(***************************************************************************)
EXTENDS Integers, Sequences, SequencesExt, FiniteSetsExt

CONSTANTS Inputs,   \* inputs that start where a number is expected
          Printed   \* what to_chars prints for a finite floating value

VARIABLES text, position,
          part,     \* the part of the number that is scanned next
          printed   \* history: the text is a float the writer wrote

vars == <<text, position, part, printed>>

Digits == {"0", "d"}

\* is_integer_token
is_integer_token(token) == \A k \in DOMAIN token : token[k] \notin {".", "e"}

\* append_floating: a number without point or exponent gets ".0".
append_floating(token) ==
    IF is_integer_token(token) THEN token \o <<".", "0">> ELSE token

Init ==
    /\ \/ printed = FALSE /\ text \in Inputs
       \/ /\ printed = TRUE
          /\ \E token \in Printed, behind \in {<<>>, <<"x">>} :
                 text = append_floating(token) \o behind
    /\ position = 0
    /\ part = "sign"

Current(p) == IF p < Len(text) THEN text[p + 1] ELSE "end"

\* The position behind the digits that start at p.
PastDigits(p) == Min({q \in p .. Len(text) : Current(q) \notin Digits})

Goto(p, next) == position' = p /\ part' = next /\ UNCHANGED <<text, printed>>

ScanSign ==
    /\ part = "sign"
    /\ Goto(IF Current(0) = "-" THEN 1 ELSE 0, "integer")

\* A zero stands alone.
ScanInteger ==
    /\ part = "integer"
    /\ CASE Current(position) = "0" -> Goto(position + 1, "fraction")
         [] Current(position) = "d" -> Goto(PastDigits(position), "fraction")
         [] OTHER -> Goto(position, "thrown")

ScanFraction ==
    /\ part = "fraction"
    /\ CASE Current(position) # "." -> Goto(position, "exponent")
         [] Current(position + 1) \in Digits ->
                Goto(PastDigits(position + 1), "exponent")
         [] OTHER -> Goto(position + 1, "thrown")

ScanExponent ==
    /\ part = "exponent"
    /\ LET first == IF Current(position + 1) \in {"+", "-"}
                    THEN position + 2 ELSE position + 1
       IN  CASE Current(position) # "e" -> Goto(position, "done")
             [] Current(position) = "e" /\ Current(first) \in Digits ->
                    Goto(PastDigits(first), "done")
             [] OTHER -> Goto(first, "thrown")

Next == ScanSign \/ ScanInteger \/ ScanFraction \/ ScanExponent
Spec == Init /\ [][Next]_vars

-----------------------------------------------------------------------------
(* The grammar of RFC 8259.                                                *)

AllDigits(s) == s # <<>> /\ \A k \in DOMAIN s : s[k] \in Digits
IsInt(s) == s = <<"0">> \/ (AllDigits(s) /\ s[1] # "0")
IsFrac(s) == s = <<>> \/ (s[1] = "." /\ AllDigits(Tail(s)))
IsExp(s) ==
    \/ s = <<>>
    \/ /\ s[1] = "e"
       /\ \/ AllDigits(Tail(s))
          \/ Len(s) > 1 /\ s[2] \in {"+", "-"} /\ AllDigits(SubSeq(s, 3, Len(s)))

IsNumber(s) ==
    \E a \in 0 .. 1, b, c \in 0 .. Len(s) :
        /\ a <= b /\ b <= c
        /\ a = 1 => s # <<>> /\ s[1] = "-"
        /\ IsInt(SubSeq(s, a + 1, b))
        /\ IsFrac(SubSeq(s, b + 1, c))
        /\ IsExp(SubSeq(s, c + 1, Len(s)))

Prefix(n) == SubSeq(text, 1, n)

\* A token that was scanned is a number of the grammar, and the longest one
\* the input starts with.
ScansNumbers ==
    part = "done" =>
        /\ IsNumber(Prefix(position))
        /\ \A n \in position + 1 .. Len(text) : ~IsNumber(Prefix(n))

\* An input that is refused does not start with a number that something
\* other than a further part of a number follows.
RefusesOthers ==
    part = "thrown" =>
        ~\E n \in 1 .. Len(text) :
            IsNumber(Prefix(n)) /\ Current(n) \notin {".", "e"} \cup Digits

\* What the writer writes for a floating value is scanned whole and is not
\* taken for an integer.
FloatsStayFloats ==
    printed => /\ part # "thrown"
               /\ part = "done" => /\ Current(position) \in {"end", "x"}
                                   /\ ~is_integer_token(Prefix(position))
=============================================================================
