------------------------------- MODULE Base64 -------------------------------
(***************************************************************************)
(* base64_encode and base64_decode (json/base64.h). A character of the     *)
(* alphabet stands for its value 0 .. 63; Pad is '=' and Other any other   *)
(* character. The state is a text on its way through base64_decode, one    *)
(* iteration per group of four characters.                                 *)
(***************************************************************************)
EXTENDS Integers, Sequences, SequencesExt

CONSTANTS Payloads,     \* byte sequences to encode
          Foreign       \* texts nobody encoded

Pad == 64
Other == 65

-----------------------------------------------------------------------------
\* The characters of the bytes i+1 .. i+3 (fewer at the end).
EncodeGroup(bytes, i) ==
    LET rest == Len(bytes) - i
        At(j) == IF j <= rest THEN bytes[i + j] ELSE 0
        chunk == At(1) * 65536 + At(2) * 256 + At(3)
    IN  << chunk \div 262144, (chunk \div 4096) % 64,
           IF rest >= 2 THEN (chunk \div 64) % 64 ELSE Pad,
           IF rest >= 3 THEN chunk % 64 ELSE Pad >>

base64_encode(bytes) ==
    FlattenSeq([g \in 1 .. (Len(bytes) + 2) \div 3 |->
                    EncodeGroup(bytes, 3 * (g - 1))])

-----------------------------------------------------------------------------
VARIABLES source,   \* history: the bytes that were encoded, or "foreign"
          text, i, decoded, thrown

vars == <<source, text, i, decoded, thrown>>

Init ==
    /\ \/ \E bytes \in Payloads :
              source = <<bytes>> /\ text = base64_encode(bytes)
       \/ source = <<>> /\ text \in Foreign
    /\ i = 0
    /\ decoded = <<>>
    /\ thrown = (Len(text) % 4 # 0)

\* Padding is looked for in the last group only.
Padding ==
    IF i + 4 # Len(text) \/ text[i + 4] # Pad THEN 0
    ELSE IF text[i + 3] = Pad THEN 2 ELSE 1

\* How many of the three bytes of the group are kept.
Kept == 3 - Padding

\* A character before the padding is not of the alphabet.
Refused == \E j \in 1 .. 4 - Padding : text[i + j] \notin 0 .. 63

DecodeGroup ==
    /\ ~thrown /\ i < Len(text)
    /\ LET At(j) == IF j > 4 - Padding THEN 0 ELSE text[i + j] % 64
           chunk == At(1) * 262144 + At(2) * 4096 + At(3) * 64 + At(4)
           bytes == <<chunk \div 65536, (chunk \div 256) % 256, chunk % 256>>
       IN  IF Refused
           THEN thrown' = TRUE /\ UNCHANGED <<i, decoded>>
           ELSE /\ decoded' = decoded \o SubSeq(bytes, 1, Kept)
                /\ i' = i + 4
                /\ UNCHANGED thrown
    /\ UNCHANGED <<source, text>>

Next == DecodeGroup
Spec == Init /\ [][Next]_vars

Done == ~thrown /\ i = Len(text)

-----------------------------------------------------------------------------
\* What was encoded is decoded to the same bytes.
RoundTrip == source # <<>> => ~thrown /\ (Done => decoded = source[1])

\* The decoder is strict about what its comment names: whatever it accepts
\* is, but for the unused bits of the last character before the padding,
\* exactly what the encoder writes for the decoded bytes.
Strict ==
    Done =>
        LET again == base64_encode(decoded) IN
        /\ Len(again) = Len(text)
        /\ \A j \in DOMAIN text :
              \/ text[j] = again[j]
              \/ /\ j < Len(text) /\ text[j + 1] = Pad /\ text[j] # Pad
                 /\ again[j] <= text[j]
=============================================================================
