---------------------------- MODULE BinaryWriter ----------------------------
(***************************************************************************)
(* binary::writer (include/reflgen/binary/writer.h). The writer appends to *)
(* a byte vector and keeps one frame per open container. Sizes are written *)
(* before the elements, so the frames count what was promised. A call that *)
(* breaks the protocol throws; the caller may go on with the same writer.  *)
(***************************************************************************)
EXTENDS BinaryFormat

CONSTANTS WriterDepth,  \* max_depth_ of the writer and of the reader
          ByteTexts,    \* strings, keys and byte arrays the caller writes
          Words,        \* words the caller writes with write_uint
          Integers64,   \* integers the caller writes with write_int
          Floats,       \* payloads of floats: sequences of FloatBytes bytes
          Sizes,        \* sizes the caller declares
          MaxOutput     \* bound on the length of the output

WriterAssumption ==
    /\ WriterDepth \in Nat
    /\ ByteTexts \subseteq {s \in Seq(Byte) : Len(s) \in Word}
    /\ Words \subseteq Word
    /\ Integers64 \subseteq Int64
    /\ Floats \subseteq [1 .. FloatBytes -> Byte]
    /\ Sizes \subseteq Word
    /\ MaxOutput \in Nat

VARIABLES
    buffer,         \* output_
    nested,         \* stack_, innermost frame last
    started,        \* root_started_
    written         \* history: which call wrote which value at which offset,
                    \* the offset behind it, and the frames before and after

wvars == <<buffer, nested, started, written>>

Frame == [is_object : BOOLEAN, remaining : Nat, awaiting_value : BOOLEAN]

Top == nested[Len(nested)]
SetTop(frame) == [nested EXCEPT ![Len(nested)] = frame]
Pop(s) == SubSeq(s, 1, Len(s) - 1)

WInit ==
    /\ buffer = <<>>
    /\ nested = <<>>
    /\ started = FALSE
    /\ written = {}

\* complete()
complete == started /\ nested = <<>>

-----------------------------------------------------------------------------
\* begin_value accepts a value: at the root once, in an object after a key,
\* in an array while elements are left.
CanBegin ==
    IF nested = <<>> THEN ~started
    ELSE IF Top.is_object THEN Top.awaiting_value
    ELSE Top.remaining > 0

\* The frames once begin_value has taken the slot of the value.
Begun ==
    IF nested = <<>> THEN nested
    ELSE IF Top.is_object THEN SetTop([Top EXCEPT !.awaiting_value = FALSE])
    ELSE SetTop([Top EXCEPT !.remaining = @ - 1])

\* A caller's call that puts `bytes` for one value or key and leaves `frames`.
Put(call, value, bytes, frames) ==
    /\ Len(buffer) + Len(bytes) <= MaxOutput
    /\ buffer' = buffer \o bytes
    /\ nested' = frames
    /\ written' = written \cup
                  {[call |-> call, value |-> value, at |-> Len(buffer),
                    next |-> Len(buffer) + Len(bytes),
                    before |-> nested, after |-> frames]}

WriteScalar(call, value, bytes) ==
    /\ CanBegin
    /\ started' = TRUE
    /\ Put(call, value, bytes, Begun)

write_null == WriteScalar("null", 0, <<Null>>)

write_bool ==
    \E value \in BOOLEAN :
        WriteScalar("bool", value, <<IF value THEN True ELSE False>>)

write_int ==
    \E value \in Integers64 :
        WriteScalar("int", value, <<Signed>> \o Varint(ZigZag(value)))

write_uint ==
    \E value \in Words :
        WriteScalar("uint", value, <<Unsigned>> \o Varint(value))

write_float ==
    \E value \in Floats : WriteScalar("float", value, <<Floating>> \o value)

Text(text) == Varint(Len(text)) \o text

write_string ==
    \E value \in ByteTexts : WriteScalar("string", value, <<String>> \o Text(value))

write_bytes ==
    \E value \in ByteTexts : WriteScalar("bytes", value, <<Bytes>> \o Text(value))

\* begin_array and begin_object: check_depth, then begin_value, then the head
\* and a frame.
Open(call, is_object, tag, size) ==
    /\ Len(nested) < WriterDepth
    /\ CanBegin
    /\ started' = TRUE
    /\ Put(call, size, <<tag>> \o Varint(size),
           Append(Begun, [is_object |-> is_object, remaining |-> size,
                          awaiting_value |-> FALSE]))

write_array == \E size \in Sizes : Open("array", FALSE, Array, size)
write_object == \E size \in Sizes : Open("object", TRUE, Object, size)

write_key ==
    \E key \in ByteTexts :
        /\ nested # <<>>
        /\ Top.is_object /\ ~Top.awaiting_value
        /\ Top.remaining > 0
        /\ Put("key", key, Text(key),
               SetTop([Top EXCEPT !.remaining = @ - 1, !.awaiting_value = TRUE]))
        /\ UNCHANGED started

\* close(), called by end_array and end_object: every promised element has been written.
Close ==
    /\ Top.remaining = 0
    /\ nested' = Pop(nested)
    /\ UNCHANGED <<buffer, started, written>>

close_array == nested # <<>> /\ ~Top.is_object /\ Close
close_object ==
    nested # <<>> /\ Top.is_object /\ ~Top.awaiting_value /\ Close

\* A call whose checks fail throws before it changes anything, so in the
\* state it is a step that is not taken.
WNext ==
    \/ write_null \/ write_bool \/ write_int \/ write_uint \/ write_float
    \/ write_string \/ write_bytes
    \/ write_array \/ close_array \/ write_object \/ write_key \/ close_object
=============================================================================
