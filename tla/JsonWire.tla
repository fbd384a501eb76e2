------------------------------ MODULE JsonWire ------------------------------
(***************************************************************************)
(* What the JSON writer writes, the JSON reader reads: json::to_string and *)
(* json::from_string around any sequence of calls. The text may be cut     *)
(* anywhere, also inside a scalar, before it is read. The names of this    *)
(* module stand beside those of the binary reader in MCWire.               *)
(***************************************************************************)
EXTENDS Integers, Sequences

CONSTANTS MaxDepth, Indent, Texts, Malformed, Numbers, MaxTokens  \* see JsonWriter

VARIABLES output, stack, root_started, inline_next, refused,    \* the writer
          text, at, nesting, skipping, answer,                  \* the reader
          due       \* what the protocol asks of the reading caller next

W == INSTANCE JsonWriter
R == INSTANCE JsonReader WITH
    ReaderDepth <- MaxDepth,
    input <- text, position <- at, open <- nesting, skip <- skipping, result <- answer

ASSUME JsonAssumption == W!WriterAssumption

writing == <<output, stack, root_started, inline_next, refused>>
reading == <<text, at, nesting, skipping, answer>>
jvars == <<writing, reading, due>>

JsonInit == W!WInit /\ R!RInit /\ due = "document"

\* An exception leaves to_string; no text is handed over then.
Produce ==
    /\ due = "document" /\ ~refused
    /\ W!WNext
    /\ UNCHANGED <<reading, due>>

\* What is left of a token that is cut inside: a shorter integer, or nothing
\* that can be read.
Cuts(t) ==
    CASE t.kind \in {"int", "float"} ->
            {W!Token("broken", 0)}
            \cup (IF t.value >= 10 THEN {W!Token("int", t.value \div 10)} ELSE {})
            \cup (IF t.kind = "float" THEN {W!Token("int", t.value)} ELSE {})
      [] t.kind \in {"null", "bool", "string"} -> {W!Token("broken", 0)}
      [] OTHER -> {}

HandOver ==
    /\ due = "document" /\ ~refused
    /\ due' = "value"
    /\ \E n \in 0 .. Len(output) :
           \/ text' = SubSeq(output, 1, n)
           \/ /\ n < Len(output)
              /\ \E t \in Cuts(output[n + 1]) :
                     text' = Append(SubSeq(output, 1, n), t)
    /\ UNCHANGED <<writing, at, nesting, skipping, answer>>

-----------------------------------------------------------------------------
AfterValue ==
    due' = IF ~answer'.ok THEN "thrown"
           ELSE IF nesting' = <<>> THEN "finish" ELSE "slot"

\* The caller reads what peek() announced.
ReadValue ==
    /\ due = "value"
    /\ CASE R!Current = "null" -> R!read_null
         [] R!Current = "bool" -> R!read_bool
         [] R!Current = "int" -> R!read_int \/ R!read_uint \/ R!read_float
         [] R!Current = "float" -> R!read_float
         [] R!Current = "string" -> R!read_string \/ R!read_bytes
         [] R!Current = "array" -> R!begin_array
         [] R!Current = "object" -> R!begin_object
         [] OTHER -> R!Fail("peek")
    /\ AfterValue
    /\ UNCHANGED writing

StartSkip ==
    /\ due = "value"
    /\ R!skip_value
    /\ due' = "skip"
    /\ UNCHANGED writing

GoOnSkipping ==
    /\ due = "skip"
    /\ R!Skip
    /\ IF skipping'.at # "idle" THEN UNCHANGED due ELSE AfterValue
    /\ UNCHANGED writing

ReadSlot ==
    /\ due = "slot"
    /\ IF R!Inside(TRUE) THEN R!next_key ELSE R!next_element
    /\ due' = IF ~answer'.ok THEN "thrown"
              ELSE IF answer'.call = "end" THEN "close" ELSE "value"
    /\ UNCHANGED writing

ReadClose ==
    /\ due = "close"
    /\ IF R!Inside(TRUE) THEN R!end_object ELSE R!end_array
    /\ AfterValue
    /\ UNCHANGED writing

Finish ==
    /\ due = "finish"
    /\ R!finish
    /\ due' = IF answer'.ok THEN "accepted" ELSE "thrown"
    /\ UNCHANGED writing

Read == ReadValue \/ StartSkip \/ GoOnSkipping \/ ReadSlot \/ ReadClose \/ Finish
JsonNext == Produce \/ HandOver \/ Read

JsonSpec == JsonInit /\ [][JsonNext]_jvars

-----------------------------------------------------------------------------
\* The types of both sides; both keep to the depth they share.
JsonTypeOK ==
    /\ stack \in Seq(W!Frame) /\ Len(stack) <= MaxDepth
    /\ nesting \in Seq([is_object : BOOLEAN, first : BOOLEAN])
    /\ Len(nesting) <= MaxDepth
    /\ at \in 0 .. Len(text)

\* The reader never refuses the text of a complete writer, with or without
\* line breaks, whichever values are skipped, except for a negative number
\* read as unsigned or a plain string read as bytes.
RoundTrip ==
    W!complete /\ due = "thrown" /\ text = output =>
        answer.call \in {"uint", "bytes"}

\* A text that is accepted was not cut, unless its root is a number: cutting
\* a number can leave a number. (Whitespace at the end may be missing.)
OnlyWhole ==
    due = "accepted" => (W!complete /\ text = output) \/ text[1].kind = "int"

\* What the JSON format promises: json::reader reads back every whole text of
\* json::writer and accepts nothing else, but for a number that was cut.
JsonExact == JsonTypeOK /\ RoundTrip /\ OnlyWhole

\* What is left for the reading caller: tokens not read yet, containers to
\* close, and the place in the protocol.
Left ==
    CASE due \in {"accepted", "thrown"} -> 0
      [] due = "finish" -> 1
      [] due = "skip" -> IF skipping.at = "slot" THEN 3 ELSE 2
      [] due \in {"value", "close"} -> 3
      [] OTHER -> 4
Remaining == 8 * (Len(text) - at) + 4 * Len(nesting) + Left

\* Every step of a reading caller leaves less to do, so that reading ends on
\* whatever was handed over, cut, foreign or skipped.
Advances == due # "document" => Remaining' < Remaining
=============================================================================
