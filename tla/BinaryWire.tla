----------------------------- MODULE BinaryWire -----------------------------
(***************************************************************************)
(* What the binary writer writes, a reader reads. A caller drives the      *)
(* writer through any sequence of accepted calls and hands the bytes over, *)
(* whole, cut short or with a byte behind them; a caller of the reader     *)
(* follows the protocol of serial/reader.h (peek, read what was peeked,    *)
(* next, end, finish), reads a number with any of the three number methods *)
(* and may skip any value instead of reading it. The names of this module  *)
(* stand beside those of the binary reader and of JsonWire in MCWire.      *)
(***************************************************************************)
EXTENDS BinaryWriter

CONSTANT Trailing   \* bytes that may follow a document

VARIABLES handed, offset, opened, passing, returned,  \* the reader
          turn      \* what the protocol asks of the reading caller next

B == INSTANCE BinaryReader WITH
    ReaderDepth <- WriterDepth,
    input <- handed, position <- offset, open <- opened, skip <- passing, result <- returned

readerVars == <<handed, offset, opened, passing, returned>>
bvars == <<wvars, readerVars, turn>>

BinaryInit ==
          /\ WInit
          /\ B!RInit(<<>>)
          /\ turn = "document"

Write ==
    /\ turn = "document"
    /\ WNext
    /\ UNCHANGED <<readerVars, turn>>

\* The bytes change hands. The writer may be abandoned before it is complete.
Deliver ==
    /\ turn = "document"
    /\ turn' = "value"
    /\ \/ \E n \in 0 .. Len(buffer) : handed' = SubSeq(buffer, 1, n)
       \/ complete /\ \E byte \in Trailing : handed' = Append(buffer, byte)
    /\ UNCHANGED <<wvars, offset, opened, passing, returned>>

-----------------------------------------------------------------------------
\* What is due after a value: the next slot of its container, or the end.
AfterItem ==
    turn' = IF ~returned'.ok THEN "thrown"
            ELSE IF opened' = <<>> THEN "finish" ELSE "slot"

ReadScalar ==
    \/ B!Is(Null) /\ B!read_null
    \/ B!Peek({True, False}) /\ B!read_bool
    \/ B!Peek({Signed, Unsigned}) /\ (B!read_int \/ B!read_uint \/ B!read_float)
    \/ B!Is(Floating) /\ B!read_float
    \/ B!Is(String) /\ B!read_string
    \/ B!Is(Bytes) /\ B!read_bytes

ReadItem ==
    /\ turn = "value"
    /\ \/ ~B!HasTag /\ B!Fail("peek", offset)
       \/ ReadScalar
       \/ B!Is(Array) /\ B!begin_array
       \/ B!Is(Object) /\ B!begin_object
    /\ AfterItem
    /\ UNCHANGED wvars

SkipItem ==
    /\ turn = "value"
    /\ B!skip_value
    /\ turn' = "skip"
    /\ UNCHANGED wvars

SkipOn ==
      /\ turn = "skip"
      /\ B!Skip
      /\ IF passing'.at # "idle" THEN UNCHANGED turn ELSE AfterItem
      /\ UNCHANGED wvars

ReadNext ==
    /\ turn = "slot"
    /\ IF B!Inside(TRUE) THEN B!next_key ELSE B!next_element
    /\ turn' = IF ~returned'.ok THEN "thrown"
               ELSE IF returned'.call = "end" THEN "close" ELSE "value"
    /\ UNCHANGED wvars

ReadEnd ==
    /\ turn = "close"
    /\ IF B!Inside(TRUE) THEN B!end_object ELSE B!end_array
    /\ AfterItem
    /\ UNCHANGED wvars

FinishReading ==
    /\ turn = "finish"
    /\ B!finish
    /\ turn' = IF returned'.ok THEN "accepted" ELSE "thrown"
    /\ UNCHANGED wvars

ReadBack == ReadItem \/ SkipItem \/ SkipOn \/ ReadNext \/ ReadEnd \/ FinishReading
BinaryNext == Write \/ Deliver \/ ReadBack

BinarySpec == BinaryInit /\ [][BinaryNext]_bvars

-----------------------------------------------------------------------------
\* The types of the writer's state; begin_value never takes a slot that is
\* not there.
BinaryTypeOK ==
    /\ buffer \in Seq(Byte)
    /\ nested \in Seq(Frame)
    /\ started \in BOOLEAN
    /\ turn \in {"document", "value", "skip", "slot", "close", "finish",
                 "accepted", "thrown"}

IntegerCalls == {"int", "uint"}

\* The reader returned what the writer was given at the same offset.
Same(w) ==
    /\ w.at = returned.at
    /\ \/ w.call = returned.call
       \/ w.call \in IntegerCalls /\ returned.call \in IntegerCalls
    /\ w.value = returned.value

\* A method may refuse what was written only because the number is not in
\* its range.
OutOfRange ==
    \E w \in written :
        /\ w.at = returned.at
        /\ \/ returned.call = "int" /\ w.call = "uint" /\ w.value > MaxInt
           \/ returned.call = "uint" /\ w.call = "int" /\ w.value < 0

\* Round trip: on the bytes of a complete writer every method of the reader
\* returns the value that was written at that place, also behind skipped
\* values, and throws only for a number that its type cannot hold.
ReadsWritten ==
    turn # "document" /\ complete /\ handed = buffer =>
        IF returned.ok
        THEN returned.call \in Consuming => \E w \in written : Same(w)
        ELSE OutOfRange

\* Everything that was promised has been written; the calls that close the
\* containers add no byte.
Whole ==
    /\ started
    /\ \A i \in DOMAIN nested : nested[i].remaining = 0 /\ ~nested[i].awaiting_value

\* Nothing but the bytes of a whole document is accepted: not one that was
\* abandoned, nor one that was cut or has a byte behind it.
WholeOnly == turn = "accepted" => Whole /\ handed = buffer

\* What the binary format promises a caller of both sides: binary::reader reads
\* back what binary::writer wrote, and accepts only whole documents.
BinaryExact == ReadsWritten /\ WholeOnly

\* What is left for the reading caller: bytes not read yet, containers to
\* close, and the place in the protocol.
LeftToRead ==
    8 * (Len(handed) - offset) + 4 * Len(opened)
    + CASE turn \in {"accepted", "thrown"} -> 0
        [] turn = "finish" -> 1
        [] turn = "skip" -> IF passing.at = "slot" THEN 3 ELSE 2
        [] turn \in {"value", "close"} -> 3
        [] OTHER -> 4

\* Every step of a reading caller leaves less to do, so that reading ends on
\* whatever was handed over, cut, foreign or skipped.
BinaryAdvances == turn # "document" => LeftToRead' < LeftToRead
=============================================================================
