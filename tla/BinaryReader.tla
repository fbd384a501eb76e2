---------------------------- MODULE BinaryReader ----------------------------
(***************************************************************************)
(* binary::reader (include/reflgen/binary/reader.h) over an input it does  *)
(* not trust. Every operation is one method; a method that throws leaves   *)
(* the reader where it stopped. skip_value is a recursion over the same    *)
(* frames and is modelled one value, slot or closing at a time, so that    *)
(* its termination is a property and not an assumption.                    *)
(***************************************************************************)
EXTENDS BinaryFormat

CONSTANT ReaderDepth    \* max_depth_

ASSUME ReaderAssumption == ReaderDepth \in Nat

VARIABLES
    input,          \* input_
    position,       \* position_
    open,           \* stack_, innermost frame last
    skip,           \* skip_value running: what it does next, and the number
                    \* of frames that were open when it was called
    result          \* what the last method returned, or that it threw

rvars == <<input, position, open, skip, result>>

NotSkipping == [at |-> "idle", depth |-> 0]
Idle == skip.at = "idle"

Returned(call, value) ==
    [call |-> call, ok |-> TRUE, at |-> position, value |-> value]
Threw(call) == [call |-> call, ok |-> FALSE, at |-> position, value |-> 0]

RInit(bytes) ==
    /\ input = bytes
    /\ position = 0
    /\ open = <<>>
    /\ skip = NotSkipping
    /\ result = [call |-> "none", ok |-> TRUE, at |-> 0, value |-> 0]

\* The method throws with the reader at offset p. The exception ends every
\* level of skip_value.
Throw(call, p) ==
    /\ position' = p
    /\ result' = Threw(call)
    /\ skip' = NotSkipping
    /\ UNCHANGED input

Fail(call, p) == Throw(call, p) /\ UNCHANGED open

\* skip_value after a value, when `frames` are open: done when they are the
\* frames it started with.
Behind(frames) ==
    IF Idle \/ Len(frames) = skip.depth THEN NotSkipping
    ELSE [skip EXCEPT !.at = "slot"]

\* The method returns `value` and the reader stands at offset p.
Return(call, value, p, frames) ==
    /\ position' = p
    /\ open' = frames
    /\ result' = Returned(call, value)
    /\ UNCHANGED input

Scalar(call, value, p) ==
    Return(call, value, p, open) /\ skip' = Behind(open)

-----------------------------------------------------------------------------
\* peek_tag: there is a byte and it is a tag.
HasTag == position < Len(input) /\ input[position + 1] \in Tags
Peek(tags) == HasTag /\ input[position + 1] \in tags
Is(tag) == Peek({tag})

\* What take_varint finds at offset p: a number and the offset behind it, or
\* an exception and the offset it stopped at.
TakeVarint(p) ==
    IF VarintEnds(input, p) = {}
    THEN {[ok |-> FALSE, at |-> p + VarintLost(input, p), value |-> 0]}
    ELSE {t \in [ok : {TRUE}, at : p + 1 .. p + Groups, value : Word] :
              VarintAt(input, p, t.at - p, t.value)}

\* MUTANT: rounds the number of items that fit up.
TakeLength_RoundUp(p, least) ==
    {[t EXCEPT !.ok = t.ok /\ t.value <= (Len(input) - t.at + least - 1) \div least] :
        t \in TakeVarint(p)}

\* take_length: so many items of at least `least` bytes must still fit.
TakeLength(p, least) ==
    {[t EXCEPT !.ok = t.ok /\ t.value <= (Len(input) - t.at) \div least] :
        t \in TakeVarint(p)}

\* The bytes of a text or byte array whose length t was taken.
Cut(t) == SubSeq(input, t.at + 1, t.at + t.value)

-----------------------------------------------------------------------------
read_null ==
    \/ ~Is(Null) /\ Fail("null", position)
    \/ Is(Null) /\ Scalar("null", 0, position + 1)

\* read_bool, read_int and read_uint take the tag before they test it.
TagTaken == IF HasTag THEN position + 1 ELSE position

read_bool ==
    \/ ~Peek({True, False}) /\ Fail("bool", TagTaken)
    \/ Peek({True, False}) /\ Scalar("bool", Is(True), position + 1)

\* read_int also takes an unsigned number that fits, read_uint a signed one
\* that is not negative.
read_int ==
    \/ ~Peek({Signed, Unsigned}) /\ Fail("int", TagTaken)
    \/ /\ Peek({Signed, Unsigned})
       /\ \E t \in TakeVarint(position + 1) :
              IF ~t.ok \/ (Is(Unsigned) /\ t.value > MaxInt)
              THEN Fail("int", t.at)
              ELSE Scalar("int", IF Is(Signed) THEN UnZigZag(t.value)
                                               ELSE t.value, t.at)

read_uint ==
    \/ ~Peek({Signed, Unsigned}) /\ Fail("uint", TagTaken)
    \/ /\ Peek({Signed, Unsigned})
       /\ \E t \in TakeVarint(position + 1) :
              IF ~t.ok \/ (Is(Signed) /\ UnZigZag(t.value) < 0)
              THEN Fail("uint", t.at)
              ELSE Scalar("uint", IF Is(Signed) THEN UnZigZag(t.value)
                                                ELSE t.value, t.at)

\* A floating payload is taken bit for bit. An integer is read with read_int
\* or read_uint, whichever its tag names, and neither can then be out of
\* range; the rounding of a large integer to a double is left out.
read_float ==
    \/ ~Peek({Signed, Unsigned, Floating}) /\ Fail("float", position)
    \/ Is(Signed) /\ read_int
    \/ Is(Unsigned) /\ read_uint
    \/ /\ Is(Floating)
       /\ LET end == position + 1 + FloatBytes IN
          IF end > Len(input) THEN Fail("float", position + 1)
          ELSE Scalar("float", SubSeq(input, position + 2, end), end)

ReadText(call, tag) ==
    \/ ~Is(tag) /\ Fail(call, position)
    \/ /\ Is(tag)
       /\ \E t \in TakeLength(position + 1, 1) :
              IF ~t.ok THEN Fail(call, t.at)
              ELSE Scalar(call, Cut(t), t.at + t.value)

read_string == ReadText("string", String)
read_bytes == ReadText("bytes", Bytes)

-----------------------------------------------------------------------------
\* MUTANT: enter() tests the depth with > instead of >=.
Begin_OneDeeper(call, tag, least) ==
    \/ ~Is(tag) /\ Fail(call, position)
    \/ /\ Is(tag)
       /\ \E t \in TakeLength(position + 1, least) :
              IF ~t.ok \/ Len(open) > ReaderDepth THEN Fail(call, t.at)
              ELSE LET frames == Append(open, [is_object |-> tag = Object,
                                               remaining |-> t.value])
                   IN  /\ Return(call, t.value, t.at, frames)
                       /\ skip' = Behind(frames)

\* begin_array and begin_object: the head, then enter().
Begin(call, tag, least) ==
    \/ ~Is(tag) /\ Fail(call, position)
    \/ /\ Is(tag)
       /\ \E t \in TakeLength(position + 1, least) :
              IF ~t.ok \/ Len(open) >= ReaderDepth THEN Fail(call, t.at)
              ELSE LET frames == Append(open, [is_object |-> tag = Object,
                                               remaining |-> t.value])
                   IN  /\ Return(call, t.value, t.at, frames)
                       /\ skip' = Behind(frames)

begin_array == Begin("array", Array, 1)
\* An entry of an object has at least the length of its key and a tag.
begin_object == Begin("object", Object, 2)

Innermost == open[Len(open)]
Inside(is_object) == open # <<>> /\ Innermost.is_object = is_object
Slot == [open EXCEPT ![Len(open)].remaining = @ - 1]

SkipTo(at) == skip' = IF Idle THEN skip ELSE [skip EXCEPT !.at = at]

\* There is no further element or entry.
NoSlot ==
    /\ Innermost.remaining = 0
    /\ Return("end", 0, position, open)
    /\ SkipTo("close")

next_element ==
    \/ ~Inside(FALSE) /\ Fail("element", position)
    \/ Inside(FALSE) /\ NoSlot
    \/ /\ Inside(FALSE) /\ Innermost.remaining # 0
       /\ Return("element", 0, position, Slot)
       /\ SkipTo("value")

\* The slot is consumed before the key is read, also when reading it throws.
next_key ==
    \/ ~Inside(TRUE) /\ Fail("key", position)
    \/ Inside(TRUE) /\ NoSlot
    \/ /\ Inside(TRUE) /\ Innermost.remaining # 0
       /\ \E t \in TakeLength(position, 1) :
              IF ~t.ok THEN Throw("key", t.at) /\ open' = Slot
              ELSE Return("key", Cut(t), t.at + t.value, Slot) /\ SkipTo("value")

\* end_array, end_object and leave().
Leave(is_object) ==
    IF ~Inside(is_object) \/ Innermost.remaining # 0
    THEN Fail("close", position)
    ELSE LET frames == SubSeq(open, 1, Len(open) - 1)
         IN  Return("close", 0, position, frames) /\ skip' = Behind(frames)

end_array == Leave(FALSE)
end_object == Leave(TRUE)

\* finish(): nothing may follow the root value.
finish ==
    IF position # Len(input) THEN Fail("finish", position)
    ELSE Return("finish", 0, position, open) /\ UNCHANGED skip

-----------------------------------------------------------------------------
\* skip_value is called: it reads one value with the methods above.
skip_value ==
    /\ skip' = [at |-> "value", depth |-> Len(open)]
    /\ UNCHANGED <<input, position, open, result>>

SkipValue ==
    /\ skip.at = "value"
    /\ \/ ~HasTag /\ Fail("skip", position)
       \/ Is(Null) /\ read_null
       \/ Peek({True, False}) /\ read_bool
       \/ Peek({Signed, Unsigned, Floating}) /\ read_float
       \/ Is(String) /\ read_string
       \/ Is(Bytes) /\ read_bytes
       \/ Is(Array) /\ begin_array
       \/ Is(Object) /\ begin_object

SkipSlot ==
    /\ skip.at = "slot"
    /\ \/ Inside(FALSE) /\ next_element
       \/ Inside(TRUE) /\ next_key

SkipClose ==
    /\ skip.at = "close"
    /\ \/ Inside(FALSE) /\ end_array
       \/ Inside(TRUE) /\ end_object

Skip == SkipValue \/ SkipSlot \/ SkipClose
=============================================================================
