----------------------------- MODULE JsonReader -----------------------------
(***************************************************************************)
(* json::reader (include/reflgen/json/reader.h) over a sequence of tokens. *)
(* How one scalar is scanned is the matter of JsonString and JsonNumber;   *)
(* here a scalar is one token, and a token of kind "broken" is one that    *)
(* every scan of it refuses. A reader that threw is not used again, so a   *)
(* failure only sets result.                                               *)
(***************************************************************************)
EXTENDS Integers, Sequences, FiniteSetsExt

CONSTANT ReaderDepth    \* max_depth_

VARIABLES input, position,
          open,         \* stack_
          skip,         \* skip_value: what it does next and where it started
          result        \* whether the last call returned, and what

rvars == <<input, position, open, skip, result>>

NotSkipping == [at |-> "idle", depth |-> 0]
Idle == skip.at = "idle"

RInit ==
    /\ input = <<>>
    /\ position = 0
    /\ open = <<>>
    /\ skip = NotSkipping
    /\ result = [call |-> "none", ok |-> TRUE]

Fail(call) ==
    /\ result' = [call |-> call, ok |-> FALSE]
    /\ skip' = NotSkipping
    /\ UNCHANGED <<input, position, open>>

Return(call, p, frames) ==
    /\ position' = p
    /\ open' = frames
    /\ result' = [call |-> call, ok |-> TRUE]
    /\ UNCHANGED input

\* skip_value behind a value, when `frames` are open.
Behind(frames) ==
    skip' = IF Idle \/ Len(frames) = skip.depth THEN NotSkipping
            ELSE [skip EXCEPT !.at = "slot"]
SkipTo(at) == skip' = IF Idle THEN skip ELSE [skip EXCEPT !.at = at]

-----------------------------------------------------------------------------
\* skip_whitespace from offset p on.
Skipped(p) ==
    Min({q \in p .. Len(input) : q = Len(input) \/ input[q + 1].kind # "space"})
KindAt(p) == IF p < Len(input) THEN input[p + 1].kind ELSE "end"
ValueAt(p) == input[p + 1].value

Here == Skipped(position)
Current == KindAt(Here)
Scalars == {"null", "bool", "int", "float", "string"}

Scalar(call, accepted) ==
    IF accepted THEN Return(call, Here + 1, open) /\ Behind(open) ELSE Fail(call)

read_null == Scalar("null", Current = "null")
read_bool == Scalar("bool", Current = "bool")
read_int == Scalar("int", Current = "int")
read_uint == Scalar("uint", Current = "int" /\ ValueAt(Here) >= 0)
read_float == Scalar("float", Current \in {"int", "float"})
read_string == Scalar("string", Current = "string")
\* base64_decode refuses what is not base64.
read_bytes == Scalar("bytes", Current = "string" /\ ValueAt(Here) = 1)

\* begin_array and begin_object, with enter().
Begin(bracket) ==
    IF Current # bracket \/ Len(open) >= ReaderDepth THEN Fail(bracket)
    ELSE LET frames == Append(open, [is_object |-> bracket = "object", first |-> TRUE])
         IN  Return(bracket, Here + 1, frames) /\ Behind(frames)

begin_array == Begin("array")
begin_object == Begin("object")

Innermost == open[Len(open)]
Inside(is_object) == open # <<>> /\ Innermost.is_object = is_object
Closing == IF Innermost.is_object THEN "object_end" ELSE "array_end"

\* advance(): whether the container ends here, where the next item starts
\* otherwise, and whether what stands in front of it is accepted.
Ends == Current = Closing
ItemAt == IF Innermost.first THEN Here ELSE Skipped(Here + 1)

Separated == Innermost.first \/ (Current = "comma" /\ KindAt(ItemAt) # Closing)

Entered == [open EXCEPT ![Len(open)].first = FALSE]

\* MUTANT: skip_value asks for another item where it should close.
NoItem_Again == Return("end", Here, Entered) /\ SkipTo("slot")

\* There is no further item; the bracket is left to end_array or end_object.
NoItem == Return("end", Here, Entered) /\ SkipTo("close")

next_element ==
    IF ~Inside(FALSE) THEN Fail("element")
    ELSE \/ Ends /\ NoItem
         \/ ~Ends /\ ~Separated /\ Fail("element")
         \/ ~Ends /\ Separated /\ Return("element", ItemAt, Entered) /\ SkipTo("value")

\* Behind the key, parse_string has moved to the colon.
Colon == Skipped(ItemAt + 1)
KeyFollows == KindAt(ItemAt) = "string" /\ KindAt(Colon) = "colon"

next_key ==
    IF ~Inside(TRUE) THEN Fail("key")
    ELSE \/ Ends /\ NoItem
         \/ ~Ends /\ ~(Separated /\ KeyFollows) /\ Fail("key")
         \/ ~Ends /\ Separated /\ KeyFollows /\ Return("key", Colon + 1, Entered)
                  /\ SkipTo("value")

\* end_array and end_object.
End(is_object) ==
    IF ~Inside(is_object) \/ Current # Closing THEN Fail("close")
    ELSE LET frames == SubSeq(open, 1, Len(open) - 1)
         IN  Return("close", Here + 1, frames) /\ Behind(frames)
end_array == End(FALSE)
end_object == End(TRUE)

finish ==
    IF Here # Len(input) THEN Fail("finish")
    ELSE Return("finish", Here, open) /\ UNCHANGED skip

-----------------------------------------------------------------------------
skip_value ==
    /\ skip' = [at |-> "value", depth |-> Len(open)]
    /\ UNCHANGED <<input, position, open, result>>

\* MUTANT: a scalar is skipped without being scanned to its end.
SkipValue_Loose ==
    /\ skip.at = "value"
    /\ CASE Current = "array" -> begin_array
         [] Current = "object" -> begin_object
         [] OTHER -> Scalar("skip", Current \in Scalars \cup {"broken"})

SkipValue ==
    /\ skip.at = "value"
    /\ CASE Current = "array" -> begin_array
         [] Current = "object" -> begin_object
         [] OTHER -> Scalar("skip", Current \in Scalars)

SkipSlot == skip.at = "slot" /\ IF Inside(TRUE) THEN next_key ELSE next_element
SkipClose == skip.at = "close" /\ IF Inside(TRUE) THEN end_object ELSE end_array
Skip == SkipValue \/ SkipSlot \/ SkipClose
=============================================================================
