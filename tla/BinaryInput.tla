---------------------------- MODULE BinaryInput -----------------------------
(***************************************************************************)
(* binary::reader given any bytes and called in any order: what the reader *)
(* itself guarantees against an input nobody checked ("신뢰할 수 없는       *)
(* 입력을 전제로 한다", reader.h).                                          *)
(***************************************************************************)
EXTENDS BinaryReader

CONSTANT Inputs     \* the byte sequences the reader may be given

ASSUME InputAssumption == Inputs \subseteq Seq(Byte)

Init == \E bytes \in Inputs : RInit(bytes)

\* A caller's call. serial/reader.h asks the caller not to go on with a
\* reader that threw; what the reader guarantees below does not rest on it.
Call ==
    /\ Idle
    /\ \/ read_null \/ read_bool \/ read_int \/ read_uint \/ read_float
       \/ read_string \/ read_bytes
       \/ begin_array \/ next_element \/ end_array
       \/ begin_object \/ next_key \/ end_object
       \/ skip_value \/ finish

Next == Call \/ Skip

Spec == Init /\ [][Next]_rvars

-----------------------------------------------------------------------------
ReaderFrame == [is_object : BOOLEAN, remaining : Nat]

\* The types of the reader's state; a frame never counts below zero.
TypeOK ==
    /\ input \in Seq(Byte)
    /\ position \in Nat
    /\ open \in Seq(ReaderFrame)
    /\ skip \in [at : {"idle", "value", "slot", "close"}, depth : Nat]
    /\ result.ok \in BOOLEAN /\ result.at \in Nat

\* The reader never stands outside its input, whatever the lengths in the
\* input claim: position_ <= input_.size(), so that size() - position_ in
\* require and take_length does not wrap around.
InBounds == position <= Len(input)

\* What a begin_ returns fits in the bytes that are left after its head, so
\* a caller may reserve that many elements (the comment at the top of
\* reader.h: without the test a few bytes could claim 2^60 elements).
CountsFit ==
    result.ok =>
        /\ result.call = "array" => result.value <= Len(input) - position
        /\ result.call = "object" => 2 * result.value <= Len(input) - position

\* No more frames than max_depth_ are open, and skip_value never closes a
\* frame that was open when it was called.
DepthBounded ==
    /\ Len(open) <= ReaderDepth
    /\ ~Idle => Len(open) >= skip.depth
    /\ skip.at \in {"slot", "close"} => Len(open) > skip.depth

\* A method that returns a value or a key has consumed at least one byte,
\* and no method, not even one that throws, moves back.
Progress ==
    [][/\ position' >= position
       /\ result'.ok /\ result'.call \in Consuming
              => result'.at < position']_rvars

\* What is left for a running skip_value: bytes, frames and the phase.
SkipLeft ==
    4 * (Len(input) - position) + 2 * Len(open)
    + CASE skip.at = "idle" -> 0 [] skip.at = "slot" -> 2 [] OTHER -> 1

\* Every step of skip_value leaves less to do, so that it returns or throws
\* on every input, however its counts and its nesting mislead it.
SkipEnds == [][~Idle => SkipLeft' < SkipLeft]_rvars
=============================================================================
