---------------------------- MODULE Wire_proofs -----------------------------
(***************************************************************************)
(* The guarantees of the binary reader for every input, every sequence of  *)
(* calls and every depth limit, group size and integer width; and that the *)
(* JSON reader reads what the JSON writer writes, and nothing else, for    *)
(* every sequence of calls of either, every depth limit and indentation.   *)
(***************************************************************************)
EXTENDS BinaryInput, JsonWire, SequenceTheorems, WellFoundedInduction, TLAPS


-----------------------------------------------------------------------------
(* Numbers and lengths.                                                    *)

LEMMA WordsAreNat == Word \subseteq Nat
  BY DEF Word

LEMMA GroupsPositive == Groups \in Nat \ {0}
  BY FormatAssumption DEF Groups

LEMMA Shortened ==
    ASSUME NEW T, NEW s \in Seq(T), s # <<>>
    PROVE  LET u == SubSeq(s, 1, Len(s) - 1) IN
           /\ u \in Seq(T) /\ Len(u) = Len(s) - 1
           /\ \A i \in 1 .. Len(s) - 1 : u[i] = s[i]
<1> DEFINE m == Len(s) - 1
           u == SubSeq(s, 1, m)
<1>1. m \in Nat /\ \A i \in 1 .. m : s[i] \in T
  OBVIOUS
<1>2. /\ u \in Seq(T) /\ Len(u) = IF 1 <= m THEN m - 1 + 1 ELSE 0
      /\ \A i \in 1 .. m - 1 + 1 : u[i] = s[1 + i - 1]
  <2>1. 1 \in Int /\ m \in Int
    BY <1>1
  <2> HIDE DEF m
  <2> QED BY <1>1, <2>1, SubSeqProperties
<1> HIDE DEF u
<1>3. Len(u) = m /\ \A i \in 1 .. m : u[i] = s[i]
  <2> HIDE DEF m
  <2> QED BY <1>1, <1>2
<1> QED BY <1>2, <1>3 DEF u

\* take_varint stops inside the input, behind where it started, and behind a
\* byte when it returns.
LEMMA VarintInside ==
    ASSUME input \in Seq(Byte), NEW p \in Nat, p <= Len(input),
           NEW t \in TakeVarint(p)
    PROVE  /\ t.ok \in BOOLEAN
           /\ t.at \in Nat /\ p <= t.at /\ t.at <= Len(input)
           /\ t.value \in Nat
           /\ t.ok => p < t.at
<1>0. Len(input) \in Nat
  OBVIOUS
<1>1. CASE VarintEnds(input, p) = {}
  <2>1. t = [ok |-> FALSE, at |-> p + VarintLost(input, p), value |-> 0]
    BY <1>1 DEF TakeVarint
  <2>2. /\ VarintLost(input, p) \in Nat
        /\ p + VarintLost(input, p) <= Len(input)
    BY <1>0, GroupsPositive DEF VarintLost
  <2> QED BY <2>1, <2>2
<1>2. CASE VarintEnds(input, p) # {}
  <2>1. /\ t \in [ok : {TRUE}, at : p + 1 .. p + Groups, value : Word]
        /\ t.at - p \in VarintEnds(input, p)
    BY <1>2 DEF TakeVarint, VarintAt
  <2>2. t.at \in p + 1 .. p + Groups /\ t.value \in Nat /\ t.ok = TRUE
    BY <2>1, WordsAreNat
  <2>3. p + (t.at - p) <= Len(input)
    BY <2>1 DEF VarintEnds
  <2>4. t.at \in Nat /\ p < t.at /\ p <= t.at /\ t.at <= Len(input)
    BY <1>0, <2>2, <2>3, GroupsPositive
  <2> QED BY <2>2, <2>4
<1> QED BY <1>1, <1>2

\* take_length also bounds what it returns by the bytes that are left.
LEMMA LengthInside ==
    ASSUME input \in Seq(Byte), NEW p \in Nat, p <= Len(input),
           NEW least \in {1, 2}, NEW t \in TakeLength(p, least)
    PROVE  /\ t.ok \in BOOLEAN
           /\ t.at \in Nat /\ p <= t.at /\ t.at <= Len(input)
           /\ t.value \in Nat
           /\ t.ok => p < t.at /\ least * t.value <= Len(input) - t.at
<1>1. PICK u \in TakeVarint(p) :
        t = [u EXCEPT !.ok = u.ok /\ u.value <= (Len(input) - u.at) \div least]
  BY DEF TakeLength
<1>2. /\ u.ok \in BOOLEAN
      /\ u.at \in Nat /\ p <= u.at /\ u.at <= Len(input)
      /\ u.value \in Nat
      /\ u.ok => p < u.at
  BY VarintInside
<1>3. /\ t.at = u.at /\ t.value = u.value
      /\ t.ok = (u.ok /\ u.value <= (Len(input) - u.at) \div least)
  <2>1. \E k, v, w : u = [ok |-> k, at |-> v, value |-> w]
    BY DEF TakeVarint
  <2> QED BY <1>1, <2>1
<1>4. u.value <= (Len(input) - u.at) \div least
        => least * u.value <= Len(input) - u.at
  BY <1>2, SMT
<1> QED BY <1>2, <1>3, <1>4

-----------------------------------------------------------------------------
(* The inductive invariant: what the properties say, together. The depth   *)
(* of skip_value's frames needs the types, the counts need the bounds.     *)

\* The result of a method that consumes was read before the position.
Consumed == result.ok /\ result.call \in Consuming => result.at < position

ReaderInv == TypeOK /\ InBounds /\ CountsFit /\ DepthBounded /\ Consumed

\* What a step must establish.
Sound ==
    /\ input' = input
    /\ ReaderInv'
    /\ position' >= position

\* A method that throws inside the input.
LEMMA ThrowSound ==
    ASSUME ReaderInv, NEW call, NEW p \in Nat, position <= p, p <= Len(input),
           Throw(call, p),
           open' \in Seq(ReaderFrame), Len(open') <= ReaderDepth
    PROVE  Sound
  BY DEF ReaderInv, Sound, TypeOK, InBounds, CountsFit, DepthBounded, Consumed,
         Throw, Threw, NotSkipping, Idle

LEMMA FailSound ==
    ASSUME ReaderInv, NEW call, NEW p \in Nat, position <= p, p <= Len(input),
           Fail(call, p)
    PROVE  Sound
  BY ThrowSound DEF Fail, ReaderInv, TypeOK, DepthBounded

\* Where skip_value stands once `frames` are open.
LEMMA BehindSound ==
    ASSUME ReaderInv, NEW frames \in Seq(ReaderFrame),
           Idle \/ Len(frames) >= skip.depth
    PROVE  /\ Behind(frames) \in [at : {"idle", "value", "slot", "close"}, depth : Nat]
           /\ Behind(frames).at # "idle" => Len(frames) > Behind(frames).depth
           /\ Behind(frames).at \in {"idle", "slot"}
  BY DEF ReaderInv, TypeOK, Behind, NotSkipping, Idle

\* A method that returns: it moved if it consumes, and its count fits.
LEMMA ReturnSound ==
    ASSUME ReaderInv, NEW call, NEW value, NEW p \in Nat,
           NEW frames \in Seq(ReaderFrame),
           position <= p, p <= Len(input),
           call \in Consuming => position < p,
           call = "array" => value <= Len(input) - p,
           call = "object" => 2 * value <= Len(input) - p,
           Len(frames) <= ReaderDepth,
           Return(call, value, p, frames),
           skip' \in [at : {"idle", "value", "slot", "close"}, depth : Nat],
           skip'.at # "idle" => Len(frames) >= skip'.depth,
           skip'.at \in {"slot", "close"} => Len(frames) > skip'.depth
    PROVE  Sound
  BY DEF ReaderInv, Sound, TypeOK, InBounds, CountsFit, DepthBounded, Consumed,
         Return, Returned, Idle

LEMMA ScalarSound ==
    ASSUME ReaderInv, NEW call, NEW value, NEW p \in Nat,
           position < p, p <= Len(input),
           call \notin {"array", "object"},
           Scalar(call, value, p)
    PROVE  Sound
<1>1. /\ open \in Seq(ReaderFrame) /\ Len(open) <= ReaderDepth
      /\ Len(open) \in Nat
      /\ Idle \/ Len(open) >= skip.depth
  BY DEF ReaderInv, TypeOK, DepthBounded
<1>2. /\ skip' \in [at : {"idle", "value", "slot", "close"}, depth : Nat]
      /\ skip'.at # "idle" => Len(open) > skip'.depth
      /\ skip'.at \in {"idle", "slot"}
  BY <1>1, BehindSound DEF Scalar
<1>3. position <= p
  BY DEF ReaderInv, TypeOK
<1>4. /\ skip'.at # "idle" => Len(open) >= skip'.depth
      /\ skip'.at \in {"slot", "close"} => Len(open) > skip'.depth
  BY <1>1, <1>2
<1>5. Return(call, value, p, open)
  BY DEF Scalar
<1> QED BY <1>1, <1>2, <1>3, <1>4, <1>5, ReturnSound

-----------------------------------------------------------------------------
(* One lemma per method.                                                   *)

\* The position is a place in the input, and the tag that was peeked is one.
LEMMA Standing ==
    ASSUME ReaderInv
    PROVE  /\ input \in Seq(Byte) /\ Len(input) \in Nat
           /\ position \in Nat /\ position <= Len(input)
           /\ HasTag => position + 1 \in Nat /\ position + 1 <= Len(input)
           /\ \A tags : Peek(tags) => HasTag
           /\ \A tag : Is(tag) => HasTag
           /\ TagTaken \in Nat /\ position <= TagTaken /\ TagTaken <= Len(input)
  BY DEF ReaderInv, TypeOK, InBounds, HasTag, Peek, Is, TagTaken

LEMMA ReadNull == ASSUME ReaderInv, read_null PROVE Sound
<1>1. CASE Fail("null", position)
  BY <1>1, Standing, FailSound
<1>2. CASE Is(Null) /\ Scalar("null", 0, position + 1)
  BY <1>2, Standing, ScalarSound
<1> QED BY <1>1, <1>2 DEF read_null

LEMMA ReadBool == ASSUME ReaderInv, read_bool PROVE Sound
<1>1. CASE Fail("bool", TagTaken)
  BY <1>1, Standing, FailSound
<1>2. CASE Peek({True, False}) /\ Scalar("bool", Is(True), position + 1)
  BY <1>2, Standing, ScalarSound
<1> QED BY <1>1, <1>2 DEF read_bool

\* The number behind a tag.
LEMMA NumberInside ==
    ASSUME ReaderInv, HasTag, NEW t \in TakeVarint(position + 1)
    PROVE  /\ t.ok \in BOOLEAN
           /\ t.at \in Nat /\ position < t.at /\ position <= t.at
           /\ t.at <= Len(input)
<1>1. position + 1 \in Nat /\ position + 1 <= Len(input)
  BY Standing
<1>2. t.ok \in BOOLEAN /\ t.at \in Nat /\ position + 1 <= t.at /\ t.at <= Len(input)
  BY <1>1, Standing, VarintInside
<1> QED BY <1>2, Standing

LEMMA ReadInt == ASSUME ReaderInv, read_int PROVE Sound
<1>1. CASE Fail("int", TagTaken)
  BY <1>1, Standing, FailSound
<1>2. CASE /\ Peek({Signed, Unsigned})
           /\ \E t \in TakeVarint(position + 1) :
                \/ Fail("int", t.at)
                \/ \E value : Scalar("int", value, t.at)
  BY <1>2, Standing, NumberInside, FailSound, ScalarSound
<1> QED BY <1>1, <1>2 DEF read_int

LEMMA ReadUint == ASSUME ReaderInv, read_uint PROVE Sound
<1>1. CASE Fail("uint", TagTaken)
  BY <1>1, Standing, FailSound
<1>2. CASE /\ Peek({Signed, Unsigned})
           /\ \E t \in TakeVarint(position + 1) :
                \/ Fail("uint", t.at)
                \/ \E value : Scalar("uint", value, t.at)
  BY <1>2, Standing, NumberInside, FailSound, ScalarSound
<1> QED BY <1>1, <1>2 DEF read_uint

LEMMA ReadFloat == ASSUME ReaderInv, read_float PROVE Sound
<1>1. CASE Fail("float", position)
  BY <1>1, Standing, FailSound
<1>2. CASE read_int \/ read_uint
  BY <1>2, ReadInt, ReadUint
<1>3. CASE Is(Floating) /\ Fail("float", position + 1)
  BY <1>3, Standing, FailSound
<1>4. CASE /\ position + 1 + FloatBytes <= Len(input)
           /\ \E value : Scalar("float", value, position + 1 + FloatBytes)
  BY <1>4, Standing, FormatAssumption, ScalarSound
<1> QED BY <1>1, <1>2, <1>3, <1>4, Standing, FormatAssumption DEF read_float

LEMMA ReadTextSound ==
    ASSUME ReaderInv, NEW call \in {"string", "bytes"}, NEW tag, ReadText(call, tag)
    PROVE  Sound
<1>1. CASE Fail(call, position)
  BY <1>1, Standing, FailSound
<1>2. CASE /\ Is(tag)
           /\ \E t \in TakeLength(position + 1, 1) :
                IF ~t.ok THEN Fail(call, t.at)
                ELSE Scalar(call, Cut(t), t.at + t.value)
  <2>1. PICK t \in TakeLength(position + 1, 1) :
               IF ~t.ok THEN Fail(call, t.at)
               ELSE Scalar(call, Cut(t), t.at + t.value)
    BY <1>2
  <2>2. /\ t.ok \in BOOLEAN
        /\ t.at \in Nat /\ position + 1 <= t.at /\ t.at <= Len(input)
        /\ t.value \in Nat
        /\ t.ok => 1 * t.value <= Len(input) - t.at
    BY <1>2, Standing, LengthInside
  <2>3. position <= t.at
    BY <2>2, Standing
  <2>4. t.ok => /\ t.at + t.value \in Nat
                /\ position < t.at + t.value
                /\ t.at + t.value <= Len(input)
    BY <2>2, Standing
  <2>5. CASE t.ok
    BY <2>1, <2>4, <2>5, ScalarSound
  <2>6. CASE ~t.ok
    BY <2>1, <2>2, <2>3, <2>6, FailSound
  <2> QED BY <2>5, <2>6
<1> QED BY <1>1, <1>2 DEF ReadText

LEMMA BeginSound ==
    ASSUME ReaderInv, NEW call, NEW tag, NEW least,
           \/ call = "array" /\ least = 1
           \/ call = "object" /\ least = 2,
           Begin(call, tag, least)
    PROVE  Sound
<1>1. CASE Fail(call, position)
  BY <1>1, Standing, FailSound
<1>2. CASE Is(tag) /\ ~Fail(call, position)
  <2> DEFINE frames(t) == Append(open, [is_object |-> tag = Object,
                                        remaining |-> t.value])
  <2>1. PICK t \in TakeLength(position + 1, least) :
               IF ~t.ok \/ Len(open) >= ReaderDepth THEN Fail(call, t.at)
               ELSE /\ Return(call, t.value, t.at, frames(t))
                    /\ skip' = Behind(frames(t))
    BY <1>2 DEF Begin
  <2>2. /\ t.ok \in BOOLEAN
        /\ t.at \in Nat /\ position + 1 <= t.at /\ t.at <= Len(input)
        /\ t.value \in Nat
        /\ t.ok => least * t.value <= Len(input) - t.at
    BY <1>2, Standing, LengthInside
  <2>3. position <= t.at /\ position < t.at
    BY <2>2, Standing
  <2>4. CASE ~t.ok \/ Len(open) >= ReaderDepth
    BY <2>1, <2>2, <2>3, <2>4, FailSound
  <2>5. CASE t.ok /\ ~(Len(open) >= ReaderDepth)
    <3>1. /\ frames(t) \in Seq(ReaderFrame)
          /\ Len(frames(t)) = Len(open) + 1
      BY <2>2 DEF ReaderInv, TypeOK, ReaderFrame
    <3>2. /\ Len(frames(t)) \in Nat /\ Len(frames(t)) <= ReaderDepth
          /\ Idle \/ Len(frames(t)) >= skip.depth
      BY <2>5, <3>1, ReaderAssumption DEF ReaderInv, TypeOK, DepthBounded
    <3>3. /\ skip' \in [at : {"idle", "value", "slot", "close"}, depth : Nat]
          /\ skip'.at # "idle" => Len(frames(t)) > skip'.depth
      BY <2>1, <2>5, <3>1, <3>2, BehindSound
    <3>4. /\ skip'.at # "idle" => Len(frames(t)) >= skip'.depth
          /\ skip'.at \in {"slot", "close"} => Len(frames(t)) > skip'.depth
      BY <3>2, <3>3
    <3>5. /\ call = "array" => t.value <= Len(input) - t.at
          /\ call = "object" => 2 * t.value <= Len(input) - t.at
      BY <2>2, <2>5
    <3>6. Return(call, t.value, t.at, frames(t))
      BY <2>1, <2>5
    <3> HIDE DEF frames
    <3> QED BY <2>2, <2>3, <3>1, <3>2, <3>3, <3>4, <3>5, <3>6, ReturnSound
  <2> QED BY <2>2, <2>4, <2>5
<1> QED BY <1>1, <1>2 DEF Begin

\* The frames once a slot of the innermost one was consumed.
LEMMA SlotSound ==
    ASSUME ReaderInv, NEW b \in BOOLEAN, Inside(b), Innermost.remaining # 0
    PROVE  Slot \in Seq(ReaderFrame) /\ Len(Slot) = Len(open)
<1>1. open \in Seq(ReaderFrame) /\ Len(open) \in Nat /\ Len(open) \in 1 .. Len(open)
  BY DEF ReaderInv, TypeOK, Inside
<1>2. open[Len(open)] \in ReaderFrame
  BY <1>1
<1>3. [open[Len(open)] EXCEPT !.remaining = @ - 1] \in ReaderFrame
  BY <1>2 DEF ReaderFrame, Innermost
<1>4. Slot = [open EXCEPT ![Len(open)] = [open[Len(open)] EXCEPT !.remaining = @ - 1]]
  BY DEF Slot
<1> QED BY <1>1, <1>3, <1>4

\* next_element and next_key while skip_value is between two items, or not
\* running.
LEMMA SkipToSound ==
    ASSUME ReaderInv, Idle \/ skip.at = "slot",
           NEW where \in {"value", "close"}, SkipTo(where)
    PROVE  /\ skip' \in [at : {"idle", "value", "slot", "close"}, depth : Nat]
           /\ skip'.at # "idle" => Len(open) >= skip'.depth
           /\ skip'.at \in {"slot", "close"} => Len(open) > skip'.depth
<1>1. Len(open) \in Nat /\ skip.depth \in Nat
  BY DEF ReaderInv, TypeOK
<1>2. CASE Idle
  BY <1>2 DEF SkipTo, ReaderInv, TypeOK, Idle
<1>3. CASE skip.at = "slot"
  <2>1. Len(open) > skip.depth
    BY <1>3 DEF ReaderInv, DepthBounded
  <2>2. skip' = [skip EXCEPT !.at = where]
    BY <1>3 DEF SkipTo, Idle
  <2>3. /\ skip' \in [at : {"idle", "value", "slot", "close"}, depth : Nat]
        /\ skip'.depth = skip.depth
    BY <2>2 DEF ReaderInv, TypeOK
  <2> QED BY <1>1, <2>1, <2>3
<1> QED BY <1>2, <1>3

LEMMA NoSlotSound ==
    ASSUME ReaderInv, Idle \/ skip.at = "slot", NoSlot
    PROVE  Sound
<1>1. /\ open \in Seq(ReaderFrame) /\ Len(open) <= ReaderDepth
  BY DEF ReaderInv, TypeOK, DepthBounded
<1> QED BY <1>1, Standing, SkipToSound, ReturnSound DEF NoSlot, Consuming

LEMMA NextElement ==
    ASSUME ReaderInv, Idle \/ skip.at = "slot", next_element
    PROVE  Sound
<1>1. CASE Fail("element", position)
  BY <1>1, Standing, FailSound
<1>2. CASE NoSlot
  BY <1>2, NoSlotSound
<1>3. CASE /\ Inside(FALSE) /\ Innermost.remaining # 0
           /\ Return("element", 0, position, Slot)
           /\ SkipTo("value")
  <2>1. Slot \in Seq(ReaderFrame) /\ Len(Slot) = Len(open) /\ Len(Slot) <= ReaderDepth
    BY <1>3, SlotSound DEF ReaderInv, DepthBounded
  <2> QED BY <1>3, <2>1, Standing, SkipToSound, ReturnSound DEF Consuming
<1> QED BY <1>1, <1>2, <1>3 DEF next_element

LEMMA NextKey ==
    ASSUME ReaderInv, Idle \/ skip.at = "slot", next_key
    PROVE  Sound
<1>1. CASE Fail("key", position)
  BY <1>1, Standing, FailSound
<1>2. CASE NoSlot
  BY <1>2, NoSlotSound
<1>3. CASE /\ Inside(TRUE) /\ Innermost.remaining # 0
           /\ \E t \in TakeLength(position, 1) :
                IF ~t.ok THEN Throw("key", t.at) /\ open' = Slot
                ELSE /\ Return("key", Cut(t), t.at + t.value, Slot)
                     /\ SkipTo("value")
  <2>1. Slot \in Seq(ReaderFrame) /\ Len(Slot) = Len(open) /\ Len(Slot) <= ReaderDepth
    BY <1>3, SlotSound DEF ReaderInv, DepthBounded
  <2>2. PICK t \in TakeLength(position, 1) :
                IF ~t.ok THEN Throw("key", t.at) /\ open' = Slot
                ELSE /\ Return("key", Cut(t), t.at + t.value, Slot)
                     /\ SkipTo("value")
    BY <1>3
  <2>3. /\ t.ok \in BOOLEAN
        /\ t.at \in Nat /\ position <= t.at /\ t.at <= Len(input)
        /\ t.value \in Nat
        /\ t.ok => position < t.at /\ 1 * t.value <= Len(input) - t.at
    BY Standing, LengthInside
  <2>4. CASE ~t.ok
    BY <2>1, <2>2, <2>3, <2>4, ThrowSound
  <2>5. CASE t.ok
    <3>1. /\ t.at + t.value \in Nat
          /\ position <= t.at + t.value /\ position < t.at + t.value
          /\ t.at + t.value <= Len(input)
      BY <2>3, <2>5, Standing
    <3>2. Return("key", Cut(t), t.at + t.value, Slot) /\ SkipTo("value")
      BY <2>2, <2>5
    <3> QED BY <2>1, <3>1, <3>2, SkipToSound, ReturnSound DEF Consuming
  <2> QED BY <2>3, <2>4, <2>5
<1> QED BY <1>1, <1>2, <1>3 DEF next_key

LEMMA LeaveSound ==
    ASSUME ReaderInv, Idle \/ skip.at = "close", NEW b \in BOOLEAN, Leave(b)
    PROVE  Sound
<1>1. CASE ~Inside(b) \/ Innermost.remaining # 0
  BY <1>1, Standing, FailSound DEF Leave
<1>2. CASE Inside(b) /\ Innermost.remaining = 0
  <2> DEFINE frames == SubSeq(open, 1, Len(open) - 1)
  <2>1. Return("close", 0, position, frames) /\ skip' = Behind(frames)
    BY <1>2 DEF Leave
  <2>2. /\ open \in Seq(ReaderFrame) /\ Len(open) \in Nat /\ Len(open) # 0
        /\ skip.depth \in Nat /\ Len(open) <= ReaderDepth
        /\ Idle \/ Len(open) > skip.depth
    BY <1>2 DEF ReaderInv, TypeOK, DepthBounded, Inside
  <2>3. frames \in Seq(ReaderFrame) /\ Len(frames) = Len(open) - 1
    BY <1>2, <2>2, Shortened DEF Inside
  <2>4. /\ Len(frames) \in Nat /\ Len(frames) <= ReaderDepth
        /\ Idle \/ Len(frames) >= skip.depth
    BY <2>2, <2>3, ReaderAssumption
  <2> HIDE DEF frames
  <2>5. /\ skip' \in [at : {"idle", "value", "slot", "close"}, depth : Nat]
        /\ skip'.at # "idle" => Len(frames) > skip'.depth
    BY <2>1, <2>3, <2>4, BehindSound
  <2>6. /\ skip'.at # "idle" => Len(frames) >= skip'.depth
        /\ skip'.at \in {"slot", "close"} => Len(frames) > skip'.depth
    BY <2>4, <2>5
  <2> QED BY <2>1, <2>3, <2>4, <2>5, <2>6, Standing, ReturnSound DEF Consuming
<1> QED BY <1>1, <1>2

LEMMA FinishSound == ASSUME ReaderInv, Idle, finish PROVE Sound
<1>1. /\ open \in Seq(ReaderFrame) /\ Len(open) <= ReaderDepth
      /\ skip \in [at : {"idle", "value", "slot", "close"}, depth : Nat]
      /\ skip.at = "idle"
  BY DEF ReaderInv, TypeOK, DepthBounded, Idle
<1>2. CASE Fail("finish", position)
  BY <1>2, Standing, FailSound
<1>3. CASE Return("finish", 0, position, open) /\ UNCHANGED skip
  BY <1>1, <1>3, Standing, ReturnSound DEF Consuming
<1> QED BY <1>2, <1>3 DEF finish

-----------------------------------------------------------------------------
(* Every step.                                                             *)

LEMMA CallSound == ASSUME ReaderInv, Call PROVE Sound
<1>1. Idle
  BY DEF Call
<1>2. CASE read_null \/ read_bool \/ read_int \/ read_uint \/ read_float
  BY <1>2, ReadNull, ReadBool, ReadInt, ReadUint, ReadFloat
<1>3. CASE read_string \/ read_bytes
  BY <1>3, ReadTextSound DEF read_string, read_bytes
<1>4. CASE begin_array \/ begin_object
  BY <1>4, BeginSound DEF begin_array, begin_object
<1>5. CASE next_element \/ next_key
  BY <1>1, <1>5, NextElement, NextKey
<1>6. CASE end_array \/ end_object
  BY <1>1, <1>6, LeaveSound DEF end_array, end_object
<1>7. CASE skip_value
  <2>1. Len(open) \in Nat
    BY DEF ReaderInv, TypeOK
  <2>2. /\ skip' = [at |-> "value", depth |-> Len(open)]
        /\ input' = input /\ position' = position
        /\ open' = open /\ result' = result
    BY <1>7 DEF skip_value
  <2>3. TypeOK' /\ InBounds' /\ CountsFit' /\ Consumed'
    BY <2>1, <2>2 DEF ReaderInv, TypeOK, InBounds, CountsFit, Consumed
  <2>4. DepthBounded'
    BY <2>1, <2>2 DEF ReaderInv, DepthBounded, Idle
  <2> QED BY <2>2, <2>3, <2>4 DEF Sound, ReaderInv, TypeOK
<1>8. CASE finish
  BY <1>1, <1>8, FinishSound
<1> QED BY <1>2, <1>3, <1>4, <1>5, <1>6, <1>7, <1>8 DEF Call

LEMMA SkipSound == ASSUME ReaderInv, Skip PROVE Sound
<1>1. CASE SkipValue
  <2>1. CASE Fail("skip", position)
    BY <2>1, Standing, FailSound
  <2>2. CASE read_null \/ read_bool \/ read_float
    BY <2>2, ReadNull, ReadBool, ReadFloat
  <2>3. CASE read_string \/ read_bytes
    BY <2>3, ReadTextSound DEF read_string, read_bytes
  <2>4. CASE begin_array \/ begin_object
    BY <2>4, BeginSound DEF begin_array, begin_object
  <2> QED BY <1>1, <2>1, <2>2, <2>3, <2>4 DEF SkipValue
<1>2. CASE SkipSlot
  BY <1>2, NextElement, NextKey DEF SkipSlot
<1>3. CASE SkipClose
  BY <1>3, LeaveSound DEF SkipClose, end_array, end_object
<1> QED BY <1>1, <1>2, <1>3 DEF Skip

\* The four invariants hold together in every reachable state of the reader.
THEOREM ReaderInvariant == Spec => []ReaderInv
<1>1. Init => ReaderInv
  BY InputAssumption, ReaderAssumption
     DEF Init, RInit, ReaderInv, TypeOK, InBounds, CountsFit, DepthBounded,
         Consumed, Consuming, NotSkipping, Idle, ReaderFrame
<1>2. ReaderInv /\ [Next]_rvars => ReaderInv'
  <2>1. ASSUME ReaderInv, Next PROVE ReaderInv'
    BY <2>1, CallSound, SkipSound DEF Next, Sound
  <2>2. ASSUME ReaderInv, UNCHANGED rvars PROVE ReaderInv'
    BY <2>2 DEF rvars, ReaderInv, TypeOK, InBounds, CountsFit, DepthBounded,
                Consumed, Idle
  <2> QED BY <2>1, <2>2
<1> QED BY <1>1, <1>2, PTL DEF Spec

\* Whatever bytes binary::reader is given and however it is called, position_
\* stays within input_: take_length and require cannot wrap around.
THEOREM StaysInBounds == Spec => []InBounds
  BY ReaderInvariant, PTL DEF ReaderInv

\* The count a begin_ of binary::reader returns fits in the bytes that are
\* left, for every input.
THEOREM CountsAlwaysFit == Spec => []CountsFit
  BY ReaderInvariant, PTL DEF ReaderInv

\* binary::reader never opens more than max_depth_ containers, in skip_value
\* neither, and skip_value only closes what it opened.
THEOREM DepthIsBounded == Spec => []DepthBounded
  BY ReaderInvariant, PTL DEF ReaderInv

\* Every method of binary::reader that returns a value has consumed a byte,
\* and none moves back: the measure that makes skip_value end.
THEOREM AlwaysProgress == Spec => Progress
<1>1. ReaderInv /\ [Next]_rvars =>
        [/\ position' >= position
         /\ result'.ok /\ result'.call \in Consuming
                => result'.at < position']_rvars
  BY CallSound, SkipSound DEF Next, Sound, ReaderInv, Consumed
<1> QED BY <1>1, ReaderInvariant, PTL DEF Spec, Progress

-----------------------------------------------------------------------------
(* The measure of skip_value.                                              *)

\* A step of skip_value that throws, and one that reads a whole value or the
\* head of a container.
Throws == skip'.at = "idle" /\ Len(open') = Len(open)
Reads ==
    /\ result'.ok /\ result'.call \in Consuming /\ result'.at = position
    /\ skip'.at \in {"idle", "slot"}
    /\ Len(open') <= Len(open) + 1

LEMMA FailThrows == ASSUME NEW call, NEW p, Fail(call, p) PROVE Throws
  BY DEF Fail, Throw, Throws, NotSkipping

LEMMA ReturnReads ==
    ASSUME ReaderInv, ~Idle, NEW call \in Consuming, NEW value, NEW p, NEW frames,
           Return(call, value, p, frames), skip' = Behind(frames),
           Len(frames) <= Len(open) + 1
    PROVE  Reads
<1>1. Behind(frames).at \in {"idle", "slot"}
  BY DEF ReaderInv, TypeOK, Behind, NotSkipping
<1> QED BY <1>1 DEF Return, Returned, Reads

LEMMA ScalarReads ==
    ASSUME ReaderInv, ~Idle, NEW call \in Consuming, NEW value, NEW p,
           Scalar(call, value, p)
    PROVE  Reads
<1>1. Len(open) <= Len(open) + 1
  BY DEF ReaderInv, TypeOK
<1> QED BY <1>1, ReturnReads DEF Scalar

LEMMA NumberReads ==
    ASSUME ReaderInv, ~Idle, read_int \/ read_uint
    PROVE  Throws \/ Reads
<1>1. \/ \E call, p : Fail(call, p)
      \/ \E call \in {"int", "uint"} : \E value, p : Scalar(call, value, p)
  BY DEF read_int, read_uint
<1> QED BY <1>1, FailThrows, ScalarReads DEF Consuming

LEMMA TextReads ==
    ASSUME ReaderInv, ~Idle, read_string \/ read_bytes
    PROVE  Throws \/ Reads
<1>1. \/ \E call, p : Fail(call, p)
      \/ \E call \in {"string", "bytes"} : \E value, p : Scalar(call, value, p)
  BY DEF read_string, read_bytes, ReadText
<1> QED BY <1>1, FailThrows, ScalarReads DEF Consuming

LEMMA BeginReads ==
    ASSUME ReaderInv, ~Idle, NEW call \in {"array", "object"}, NEW tag, NEW least,
           Begin(call, tag, least)
    PROVE  Throws \/ Reads
<1>1. CASE \E p : Fail(call, p)
  BY <1>1, FailThrows
<1>2. ASSUME NEW frame, NEW value, NEW p,
             Return(call, value, p, Append(open, frame)),
             skip' = Behind(Append(open, frame))
      PROVE  Reads
  <2>1. open \in Seq(ReaderFrame \cup {frame}) /\ Len(open) \in Nat
    BY DEF ReaderInv, TypeOK
  <2>2. Len(Append(open, frame)) <= Len(open) + 1
    BY <2>1, AppendProperties
  <2> QED BY <1>2, <2>2, ReturnReads DEF Consuming
<1>3. ASSUME NEW t \in TakeLength(position + 1, least),
             LET frames == Append(open, [is_object |-> tag = Object,
                                         remaining |-> t.value])
             IN  Return(call, t.value, t.at, frames) /\ skip' = Behind(frames)
      PROVE  Reads
  BY <1>2, <1>3
<1> QED BY <1>1, <1>3 DEF Begin

LEMMA SkipValueReads ==
    ASSUME ReaderInv, SkipValue
    PROVE  Throws \/ Reads
<1>1. ~Idle
  BY DEF SkipValue, Idle
<1>2. CASE Fail("skip", position)
  BY <1>2, FailThrows
<1>3. CASE read_null \/ read_bool
  <2>1. \/ \E call, p : Fail(call, p)
        \/ \E call \in {"null", "bool"} : \E value, p : Scalar(call, value, p)
    BY <1>3 DEF read_null, read_bool
  <2> QED BY <1>1, <2>1, FailThrows, ScalarReads DEF Consuming
<1>4. CASE read_float
  <2>1. \/ read_int \/ read_uint
        \/ \E call, p : Fail(call, p)
        \/ \E value, p : Scalar("float", value, p)
    BY <1>4 DEF read_float
  <2> QED BY <1>1, <2>1, NumberReads, FailThrows, ScalarReads DEF Consuming
<1>5. CASE read_string \/ read_bytes
  BY <1>1, <1>5, TextReads
<1>6. CASE begin_array \/ begin_object
  BY <1>1, <1>6, BeginReads DEF begin_array, begin_object
<1> QED BY <1>2, <1>3, <1>4, <1>5, <1>6 DEF SkipValue

\* Between two items the next one is announced, the container is at its end,
\* or reading the key throws.
LEMMA SkipSlotMoves ==
    ASSUME ReaderInv, SkipSlot
    PROVE  Len(open') = Len(open) /\ skip'.at \in {"idle", "value", "close"}
<1>1. skip.at = "slot" /\ skip \in [at : {"idle", "value", "slot", "close"}, depth : Nat]
  BY DEF SkipSlot, ReaderInv, TypeOK
<1>2. \A where \in {"value", "close"} : SkipTo(where) => skip'.at = where
  BY <1>1 DEF SkipTo, Idle
<1>3. ASSUME \E call, p : Fail(call, p)
      PROVE  Len(open') = Len(open) /\ skip'.at \in {"idle", "value", "close"}
  BY <1>3, FailThrows DEF Throws
<1>4. ASSUME NoSlot
      PROVE  Len(open') = Len(open) /\ skip'.at \in {"idle", "value", "close"}
  BY <1>2, <1>4 DEF NoSlot, Return
<1>5. CASE Inside(FALSE) /\ next_element
  <2>1. CASE Innermost.remaining # 0 /\ Return("element", 0, position, Slot)
             /\ SkipTo("value")
    BY <1>2, <1>5, <2>1, SlotSound DEF Return
  <2> QED BY <1>3, <1>4, <1>5, <2>1 DEF next_element
<1>6. CASE Inside(TRUE) /\ next_key
  <2>1. CASE /\ Innermost.remaining # 0
             /\ open' = Slot
             /\ skip' = NotSkipping \/ SkipTo("value")
    <3>1. Len(open') = Len(open)
      BY <1>6, <2>1, SlotSound
    <3>2. skip'.at \in {"idle", "value"}
      BY <1>2, <2>1 DEF NotSkipping
    <3> QED BY <3>1, <3>2
  <2> QED BY <1>3, <1>4, <1>6, <2>1 DEF next_key, Throw, Return
<1> QED BY <1>5, <1>6 DEF SkipSlot

LEMMA SkipCloseMoves ==
    ASSUME ReaderInv, SkipClose
    PROVE  \/ Throws
           \/ Len(open') = Len(open) - 1 /\ skip'.at \in {"idle", "slot"}
<1>1. CASE \E call, p : Fail(call, p)
  BY <1>1, FailThrows
<1>2. CASE /\ open # <<>>
           /\ open' = SubSeq(open, 1, Len(open) - 1)
           /\ skip' = Behind(SubSeq(open, 1, Len(open) - 1))
  <2>1. open \in Seq(ReaderFrame) /\ Len(open) \in Nat \ {0}
    BY <1>2 DEF ReaderInv, TypeOK
  <2>2. Len(SubSeq(open, 1, Len(open) - 1)) = Len(open) - 1
    BY <1>2, <2>1, Shortened
  <2>3. \A frames : Behind(frames).at \in {"idle", "slot"}
    BY DEF ReaderInv, TypeOK, Behind, NotSkipping
  <2> QED BY <1>2, <2>2, <2>3
<1> QED BY <1>1, <1>2 DEF SkipClose, end_array, end_object, Leave, Inside, Return

\* Every step of skip_value leaves fewer bytes, frames or phases to go
\* through, so that it returns or throws on every input, whatever the counts
\* and the nesting of the input claim.
THEOREM SkippingEnds == Spec => SkipEnds
<1>1. ReaderInv /\ [Next]_rvars => [~Idle => SkipLeft' < SkipLeft]_rvars
  <2>1. SUFFICES ASSUME ReaderInv, Next, ~Idle PROVE SkipLeft' < SkipLeft
    OBVIOUS
  <2>2. Skip /\ Sound
    BY <2>1, SkipSound DEF Next, Call
  <2>3. /\ Len(input) \in Nat /\ position \in Nat /\ Len(open) \in Nat
        /\ Len(input') = Len(input) /\ position' \in Nat /\ Len(open') \in Nat
        /\ position' >= position
    BY <2>1, <2>2 DEF Sound, ReaderInv, TypeOK
  <2>4. CASE SkipValue
    <3>1. skip.at = "value"
      BY <2>4 DEF SkipValue
    <3>2. CASE Throws
      BY <2>3, <3>1, <3>2 DEF Throws, SkipLeft
    <3>3. CASE Reads
      <4>1. position < position'
        BY <2>2, <3>3 DEF Reads, Sound, ReaderInv, Consumed
      <4> QED BY <2>3, <3>1, <3>3, <4>1 DEF Reads, SkipLeft
    <3> QED BY <2>1, <2>4, <3>2, <3>3, SkipValueReads
  <2>5. CASE SkipSlot
    <3>1. skip.at = "slot" /\ Len(open') = Len(open)
          /\ skip'.at \in {"idle", "value", "close"}
      BY <2>1, <2>5, SkipSlotMoves DEF SkipSlot
    <3> QED BY <2>3, <3>1 DEF SkipLeft
  <2>6. CASE SkipClose
    <3>1. skip.at = "close"
      BY <2>6 DEF SkipClose
    <3>2. \/ Throws
          \/ Len(open') = Len(open) - 1 /\ skip'.at \in {"idle", "slot"}
      BY <2>1, <2>6, SkipCloseMoves
    <3> QED BY <2>3, <3>1, <3>2 DEF Throws, SkipLeft
  <2> QED BY <2>2, <2>4, <2>5, <2>6 DEF Skip
<1> QED BY <1>1, ReaderInvariant, PTL DEF Spec, SkipEnds


-----------------------------------------------------------------------------
(* The grammar of a text. A place of a text is the containers that are     *)
(* open there (TRUE for an object) and what may follow.                    *)

Wants == {"value", "first", "next", "item", "colon", "done"}
Place(shape, want) == [shape |-> shape, want |-> want]
Places == [shape : Seq(BOOLEAN), want : Wants]

Within(a, is_object) == a.shape # <<>> /\ a.shape[Len(a.shape)] = is_object
ValueFits(a) ==
    a.want = "value" \/ (Within(a, FALSE) /\ a.want \in {"first", "item"})
After(shape) == Place(shape, IF shape = <<>> THEN "done" ELSE "next")

\* Token t leads from place a to place b.
Takes(t, a, b) ==
    \/ t.kind = "space" /\ a.shape # <<>> /\ b = a
    \/ t.kind \in R!Scalars /\ ValueFits(a) /\ b = After(a.shape)
    \/ /\ t.kind \in {"array", "object"} /\ ValueFits(a)
       /\ b = Place(Append(a.shape, t.kind = "object"), "first")
    \/ /\ t.kind = "string" /\ Within(a, TRUE) /\ a.want \in {"first", "item"}
       /\ b = Place(a.shape, "colon")
    \/ t.kind = "colon" /\ a.want = "colon" /\ b = Place(a.shape, "value")
    \/ t.kind = "comma" /\ a.want = "next" /\ b = Place(a.shape, "item")
    \/ /\ t.kind \in {"array_end", "object_end"} /\ Within(a, t.kind = "object_end")
       /\ a.want \in {"first", "next"}
       /\ b = After(SubSeq(a.shape, 1, Len(a.shape) - 1))

\* A place that the writer and the reader can come to.
Good(a) ==
    /\ a \in Places /\ Len(a.shape) <= MaxDepth
    /\ a.want = "value" => a.shape = <<>> \/ Within(a, TRUE)
    /\ a.want \in {"first", "next", "item"} => a.shape # <<>>
    /\ a.want = "colon" => Within(a, TRUE)
    /\ a.want = "done" => a.shape = <<>>

Begins == Place(<<>>, "value")

\* r names the place behind each of the first n tokens of s.
Run(r, s, n) ==
    /\ r[0] = Begins
    /\ \A i \in 0 .. n : Good(r[i])
    /\ \A i \in 1 .. n : Takes(s[i], r[i - 1], r[i]) /\ r[i] # Begins

Reaches(s, a) == \E r : Run(r, s, Len(s)) /\ r[Len(s)] = a

Kinds == R!Scalars \cup {"space", "comma", "colon", "array", "array_end",
                         "object", "object_end", "broken"}
Tokens == [kind : Kinds, value : Int]

LEMMA PlaceFields ==
    ASSUME NEW shape, NEW want
    PROVE  Place(shape, want).shape = shape /\ Place(shape, want).want = want
  BY DEF Place

\* A step of the grammar keeps to places that can be, and nothing follows a
\* whole value.
LEMMA TakesGood ==
    ASSUME NEW t, NEW a, NEW b, Good(a), Takes(t, a, b), Len(b.shape) <= MaxDepth
    PROVE  Good(b) /\ b # Begins /\ a.want # "done"
<1>0. a \in Places /\ a.shape \in Seq(BOOLEAN) /\ a.want \in Wants
  BY DEF Good, Places
<1>a. After(a.shape) \in Places
  BY <1>0 DEF After, Place, Places, Wants
<1>1. CASE t.kind = "space" /\ a.shape # <<>> /\ b = a
  <2>1. Begins.shape = <<>>
    BY PlaceFields DEF Begins
  <2>2. a.want # "done"
    BY <1>1 DEF Good
  <2>3. b # Begins
    BY <1>1, <2>1
  <2> QED BY <1>1, <2>2, <2>3
<1>2. CASE t.kind \in R!Scalars /\ ValueFits(a) /\ b = After(a.shape)
  <2>1. a.want # "done"
    BY <1>2 DEF ValueFits
  <2> QED BY <1>2, <1>a, <2>1 DEF Good, After, Place, Begins
<1>3. CASE /\ t.kind \in {"array", "object"} /\ ValueFits(a)
           /\ b = Place(Append(a.shape, t.kind = "object"), "first")
  <2> DEFINE deeper == t.kind = "object"
  <2>0. deeper \in BOOLEAN
    OBVIOUS
  <2> HIDE DEF deeper
  <2>1. Append(a.shape, deeper) \in Seq(BOOLEAN) /\ Append(a.shape, deeper) # <<>>
    BY <1>0, <2>0
  <2>2. b \in Places /\ b.shape # <<>> /\ b.want = "first"
    BY <1>3, <2>1 DEF Place, Places, Wants, deeper
  <2> QED BY <1>3, <2>2 DEF Good, Begins, Place, ValueFits
<1>4. CASE /\ t.kind = "string" /\ Within(a, TRUE) /\ a.want \in {"first", "item"}
           /\ b = Place(a.shape, "colon")
  <2>1. b \in Places /\ b.shape = a.shape /\ b.want = "colon"
    BY <1>0, <1>4 DEF Place, Places, Wants
  <2> QED BY <1>4, <2>1 DEF Good, Begins, Place, Within
<1>5. CASE t.kind = "colon" /\ a.want = "colon" /\ b = Place(a.shape, "value")
  <2>1. b \in Places /\ b.shape = a.shape /\ b.want = "value"
    BY <1>0, <1>5 DEF Place, Places, Wants
  <2> QED BY <1>5, <2>1 DEF Good, Begins, Place, Within
<1>6. CASE t.kind = "comma" /\ a.want = "next" /\ b = Place(a.shape, "item")
  <2>1. b \in Places /\ b.shape = a.shape /\ b.want = "item"
    BY <1>0, <1>6 DEF Place, Places, Wants
  <2> QED BY <1>6, <2>1 DEF Good, Begins, Place, Within
<1>7. CASE /\ t.kind \in {"array_end", "object_end"} /\ Within(a, t.kind = "object_end")
           /\ a.want \in {"first", "next"}
           /\ b = After(SubSeq(a.shape, 1, Len(a.shape) - 1))
  <2>1. SubSeq(a.shape, 1, Len(a.shape) - 1) \in Seq(BOOLEAN)
    BY <1>0
  <2>2. b \in Places /\ b.want \in {"done", "next"} /\ (b.want = "done" <=> b.shape = <<>>)
    BY <1>7, <2>1 DEF After, Place, Places, Wants
  <2>3. a.want # "done" /\ b.want \notin {"value", "first", "item", "colon"}
    BY <1>7, <2>2
  <2>4. b # Begins
    BY <2>2, PlaceFields DEF Begins
  <2>5. b.want = "next" => b.shape # <<>>
    BY <2>2
  <2> QED BY <2>2, <2>3, <2>4, <2>5 DEF Good
<1> QED BY <1>1, <1>2, <1>3, <1>4, <1>5, <1>6, <1>7 DEF Takes

LEMMA StartReached ==
    ASSUME MaxDepth \in Nat
    PROVE  Reaches(<<>>, Begins)
<1> DEFINE r == [i \in {0} |-> Begins]
<1>1. Good(Begins)
  BY DEF Good, Begins, Place, Places, Wants
<1>2. Run(r, <<>>, 0) /\ r[0] = Begins
  BY <1>1 DEF Run
<1> QED BY <1>2 DEF Reaches

LEMMA ReachedIsGood ==
    ASSUME NEW s, NEW a, s \in Seq(Tokens), Reaches(s, a)
    PROVE  Good(a)
<1>1. Len(s) \in 0 .. Len(s)
  OBVIOUS
<1> QED BY <1>1 DEF Reaches, Run

LEMMA OneMore ==
    ASSUME NEW s, NEW a, NEW t, NEW b,
           s \in Seq(Tokens), t \in Tokens, Reaches(s, a),
           Takes(t, a, b), Len(b.shape) <= MaxDepth
    PROVE  Append(s, t) \in Seq(Tokens) /\ Reaches(Append(s, t), b)
<1>1. PICK r : Run(r, s, Len(s)) /\ r[Len(s)] = a
  BY DEF Reaches
<1> DEFINE n == Len(s)
           e == [i \in 0 .. n + 1 |-> IF i <= n THEN r[i] ELSE b]
           u == Append(s, t)
<1>2. n \in Nat /\ u \in Seq(Tokens) /\ Len(u) = n + 1 /\ u[n + 1] = t
      /\ \A i \in 1 .. n : u[i] = s[i]
  OBVIOUS
<1>3. Good(a)
  BY ReachedIsGood
<1>4. Good(b) /\ b # Begins
  BY <1>3, TakesGood
<1>5. /\ \A i \in 0 .. n : e[i] = r[i]
      /\ e[n + 1] = b
  BY <1>2
<1> HIDE DEF e, u
<1>6. e[0] = Begins
  BY <1>1, <1>2, <1>5 DEF Run
<1>7. \A i \in 0 .. n + 1 : Good(e[i])
  BY <1>1, <1>2, <1>4, <1>5 DEF Run
<1>8. \A i \in 1 .. n + 1 : Takes(u[i], e[i - 1], e[i]) /\ e[i] # Begins
  <2> SUFFICES ASSUME NEW i \in 1 .. n + 1 PROVE Takes(u[i], e[i - 1], e[i]) /\ e[i] # Begins
    OBVIOUS
  <2>1. CASE i = n + 1
    <3>1. i - 1 = n /\ e[i - 1] = a /\ e[i] = b /\ u[i] = t
      BY <1>1, <1>2, <1>5, <2>1
    <3> QED BY <3>1, <1>4
  <2>2. CASE i # n + 1
    <3>1. i \in 1 .. n /\ i - 1 \in 0 .. n /\ i \in 0 .. n
      BY <2>2, <1>2
    <3>2. e[i - 1] = r[i - 1] /\ e[i] = r[i] /\ u[i] = s[i]
      BY <3>1, <1>2, <1>5
    <3> QED BY <3>1, <3>2, <1>1 DEF Run
  <2> QED BY <2>1, <2>2
<1>9. Run(e, u, Len(u)) /\ e[Len(u)] = b
  BY <1>2, <1>5, <1>6, <1>7, <1>8 DEF Run
<1> QED BY <1>2, <1>9 DEF Reaches, u

-----------------------------------------------------------------------------
(* The writer.                                                             *)

LEMMA Joined ==
    ASSUME NEW s \in Seq(Tokens), NEW u \in Seq(Tokens), NEW t \in Tokens
    PROVE  /\ s \o <<>> = s /\ <<>> \o s = s
           /\ s \o u \in Seq(Tokens)
           /\ <<t>> \in Seq(Tokens) /\ s \o <<t>> = Append(s, t)
           /\ s \o Append(u, t) = Append(s \o u, t)
<1>1. s \o u \in Seq(Tokens) /\ s \o <<>> = s /\ <<>> \o s = s
  BY ConcatProperties, ConcatEmptySeq
<1>2. <<t>> \in Seq(Tokens)
  OBVIOUS
<1>3. Append(s, t) = s \o <<t>> /\ Append(u, t) = u \o <<t>>
  BY AppendIsConcat
<1>4. Append(s \o u, t) = (s \o u) \o <<t>>
  BY <1>1, AppendIsConcat
<1>5. (s \o u) \o <<t>> = s \o (u \o <<t>>)
  BY <1>2, ConcatAssociative
<1> QED BY <1>1, <1>2, <1>3, <1>4, <1>5

LEMMA Associates ==
    ASSUME NEW s \in Seq(Tokens), NEW u \in Seq(Tokens), NEW v \in Seq(Tokens)
    PROVE  (s \o u) \o v = s \o (u \o v)
  BY ConcatAssociative

LEMMA TokenFields ==
    ASSUME NEW c \in Kinds, NEW v \in Int
    PROVE  W!Token(c, v) \in Tokens /\ W!Token(c, v).kind = c
  BY DEF W!Token, Tokens

LEMMA Replaced ==
    ASSUME NEW T, NEW s \in Seq(T), NEW m \in 1 .. Len(s), NEW g \in T
    PROVE  LET u == [s EXCEPT ![m] = g] IN
           /\ u \in Seq(T) /\ Len(u) = Len(s) /\ u[m] = g
           /\ \A i \in 1 .. Len(s) : i # m => u[i] = s[i]
  OBVIOUS

LEMMA PunctFields ==
    ASSUME NEW c \in Kinds
    PROVE  W!Punct(c) \in Tokens /\ W!Punct(c).kind = c
  BY DEF W!Punct, Tokens

LEMMA SpaceFields == W!Space \in Tokens /\ W!Space.kind = "space"
  BY PunctFields DEF W!Space, Kinds

LEMMA Spaces ==
    ASSUME NEW s \in Seq(Tokens), NEW a, Reaches(s, a), a.shape # <<>>
    PROVE  /\ W!newline \in Seq(Tokens)
           /\ s \o W!newline \in Seq(Tokens) /\ Reaches(s \o W!newline, a)
<1>1. W!Space \in Tokens /\ W!Space.kind = "space"
  BY SpaceFields
<1>2. Takes(W!Space, a, a) /\ Len(a.shape) <= MaxDepth
  BY <1>1, ReachedIsGood DEF Takes, Good
<1>3. Append(s, W!Space) \in Seq(Tokens) /\ Reaches(Append(s, W!Space), a)
  BY <1>1, <1>2, OneMore
<1>4. <<>> \in Seq(Tokens)
  OBVIOUS
<1>5. s \o <<W!Space>> = Append(s, W!Space) /\ s \o <<>> = s /\ <<W!Space>> \in Seq(Tokens)
  BY <1>1, <1>4, Joined
<1> QED BY <1>3, <1>4, <1>5 DEF W!newline

\* The place that the frames of the writer stand for.
ShapeOf(frames) == [i \in 1 .. Len(frames) |-> frames[i].is_object]
WantOf(frames, started) ==
    IF frames = <<>> THEN (IF started THEN "done" ELSE "value")
    ELSE IF frames[Len(frames)].awaiting_value THEN "value"
    ELSE IF frames[Len(frames)].has_items THEN "next" ELSE "first"

\* A container around another has an item, and its key has got its value.
Nested(frames) ==
    /\ frames \in Seq(W!Frame) /\ Len(frames) <= MaxDepth
    /\ \A i \in 1 .. Len(frames) :
           /\ frames[i].awaiting_value => frames[i].is_object /\ frames[i].has_items
           /\ i < Len(frames) => frames[i].has_items /\ ~frames[i].awaiting_value

WriterTypes ==
    /\ output \in Seq(Tokens)
    /\ Nested(stack)
    /\ root_started \in BOOLEAN /\ inline_next \in BOOLEAN /\ refused \in BOOLEAN
    /\ ~root_started => stack = <<>>

\* What was written leads to where the writer believes it is.
Written == Reaches(output, Place(ShapeOf(stack), WantOf(stack, root_started)))

WriterInv == WriterTypes /\ (~refused => Written)

LEMMA FrameFields ==
    ASSUME NEW f \in W!Frame
    PROVE  /\ f.is_object \in BOOLEAN /\ f.has_items \in BOOLEAN
           /\ f.awaiting_value \in BOOLEAN /\ f.is_inline \in BOOLEAN
  BY DEF W!Frame

LEMMA ShapeType ==
    ASSUME NEW frames \in Seq(W!Frame)
    PROVE  /\ ShapeOf(frames) \in Seq(BOOLEAN) /\ Len(ShapeOf(frames)) = Len(frames)
           /\ Len(frames) \in Nat
           /\ frames # <<>> <=> ShapeOf(frames) # <<>>
           /\ frames # <<>> =>
                  /\ Len(frames) \in 1 .. Len(frames) /\ frames[Len(frames)] \in W!Frame
                  /\ ShapeOf(frames)[Len(ShapeOf(frames))] = frames[Len(frames)].is_object
<1>1. Len(frames) \in Nat /\ (frames # <<>> <=> Len(frames) # 0)
  OBVIOUS
<1>2. \A i \in 1 .. Len(frames) : frames[i] \in W!Frame /\ frames[i].is_object \in BOOLEAN
  BY FrameFields
<1>3. ShapeOf(frames) \in [1 .. Len(frames) -> BOOLEAN]
  BY <1>2 DEF ShapeOf
<1>4. ShapeOf(frames) \in Seq(BOOLEAN) /\ Len(ShapeOf(frames)) = Len(frames)
  BY <1>1, <1>3
<1>5. frames # <<>> => Len(frames) \in 1 .. Len(frames)
  BY <1>1
<1>6. ShapeOf(frames) # <<>> <=> Len(ShapeOf(frames)) # 0
  BY <1>4
<1> QED BY <1>1, <1>2, <1>4, <1>5, <1>6 DEF ShapeOf

\* separate() leads to where an element or a key may start.
LEMMA SeparatorReaches ==
    ASSUME WriterTypes, Written, stack # <<>>, ~W!Top.awaiting_value
    PROVE  /\ W!Separator \in Seq(Tokens)
           /\ output \o W!Separator \in Seq(Tokens)
           /\ Reaches(output \o W!Separator,
                      Place(ShapeOf(stack), IF W!Top.has_items THEN "item" ELSE "first"))
<1> DEFINE a == Place(ShapeOf(stack), WantOf(stack, root_started))
           b == Place(ShapeOf(stack), "item")
           comma == W!Punct("comma")
<1>0. /\ output \in Seq(Tokens) /\ Reaches(output, a) /\ a.shape = ShapeOf(stack)
      /\ ShapeOf(stack) # <<>> /\ b.shape = ShapeOf(stack) /\ b.want = "item"
      /\ Len(ShapeOf(stack)) <= MaxDepth
      /\ a.want = IF W!Top.has_items THEN "next" ELSE "first"
  BY ShapeType, PlaceFields DEF WriterTypes, Nested, Written, WantOf, W!Top
<1>1. comma \in Tokens /\ comma.kind = "comma"
  BY PunctFields DEF Kinds
<1>2. /\ <<>> \in Seq(Tokens) /\ output \o <<>> = output /\ <<>> \o <<>> = <<>>
      /\ <<comma>> \in Seq(Tokens) /\ output \o <<comma>> = Append(output, comma)
  <2>1. <<>> \in Seq(Tokens)
    OBVIOUS
  <2> HIDE DEF comma
  <2> QED BY <1>0, <1>1, <2>1, Joined
<1>3. CASE W!Top.has_items
  <2>1. Takes(comma, a, b)
    BY <1>0, <1>1, <1>3 DEF Takes
  <2>2. Append(output, comma) \in Seq(Tokens) /\ Reaches(Append(output, comma), b)
    BY <1>0, <1>1, <2>1, OneMore
  <2>3. /\ W!newline \in Seq(Tokens)
        /\ Append(output, comma) \o W!newline \in Seq(Tokens)
        /\ Reaches(Append(output, comma) \o W!newline, b)
    BY <1>0, <2>2, Spaces
  <2>4. Append(output, comma) \o W!newline = output \o (<<comma>> \o W!newline)
    <3>1. (output \o <<comma>>) \o W!newline = output \o (<<comma>> \o W!newline)
      BY <1>0, <1>2, <2>3, ConcatAssociative
    <3> QED BY <1>2, <3>1
  <2>5. <<comma>> \o W!newline \in Seq(Tokens) /\ <<comma>> \o <<>> = <<comma>>
        /\ (<<comma>> \o W!newline) \o <<>> = <<comma>> \o W!newline
    BY <1>2, <2>3, ConcatProperties, ConcatEmptySeq
  <2>6. W!Separator = <<comma>> \o W!newline
    BY <1>3, <2>5 DEF W!Separator
  <2> QED BY <1>3, <2>3, <2>4, <2>5, <2>6
<1>4. CASE ~W!Top.has_items
  <2>1. /\ W!newline \in Seq(Tokens) /\ output \o W!newline \in Seq(Tokens)
        /\ Reaches(output \o W!newline, a)
    BY <1>0, Spaces
  <2>2. W!Separator = <<>> \/ W!Separator = W!newline
    <3>1. <<>> \o W!newline = W!newline
      BY <2>1, ConcatEmptySeq
    <3> QED BY <1>2, <1>4, <3>1 DEF W!Separator
  <2>3. a = Place(ShapeOf(stack), "first")
    BY <1>4 DEF WantOf, W!Top
  <2> QED BY <1>0, <1>2, <1>4, <2>1, <2>2, <2>3
<1> QED BY <1>3, <1>4

\* begin_value leads to where a value may start.
LEMMA LeadReaches ==
    ASSUME WriterTypes, Written, W!CanBegin
    PROVE  /\ W!Lead \in Seq(Tokens) /\ output \o W!Lead \in Seq(Tokens)
           /\ \E a : /\ Reaches(output \o W!Lead, a)
                     /\ a.shape = ShapeOf(stack) /\ ValueFits(a)
<1>0. /\ output \in Seq(Tokens) /\ <<>> \in Seq(Tokens) /\ output \o <<>> = output
      /\ stack \in Seq(W!Frame)
  BY ConcatEmptySeq DEF WriterTypes, Nested
<1> DEFINE a == Place(ShapeOf(stack), WantOf(stack, root_started))
<1>1. Reaches(output, a) /\ a.shape = ShapeOf(stack) /\ a.want = WantOf(stack, root_started)
  BY PlaceFields DEF Written
<1> HIDE DEF a
<1>2. CASE stack = <<>> \/ W!Top.is_object
  <2>1. W!Lead = <<>>
    BY <1>2 DEF W!Lead
  <2>2. a.want = "value"
    BY <1>1, <1>2 DEF W!CanBegin, WantOf, W!Top
  <2> QED BY <1>0, <1>1, <2>1, <2>2 DEF ValueFits
<1>3. CASE stack # <<>> /\ ~W!Top.is_object
  <2>1. ~W!Top.awaiting_value /\ ShapeOf(stack)[Len(ShapeOf(stack))] = W!Top.is_object
        /\ ShapeOf(stack) # <<>> /\ W!Top.is_object = FALSE
    BY <1>0, <1>3, ShapeType, FrameFields DEF WriterTypes, Nested, W!Top
  <2> DEFINE b == Place(ShapeOf(stack), IF W!Top.has_items THEN "item" ELSE "first")
  <2>2. /\ W!Separator \in Seq(Tokens) /\ output \o W!Separator \in Seq(Tokens)
        /\ Reaches(output \o W!Separator, b)
    BY <1>3, <2>1, SeparatorReaches
  <2>3. W!Lead = W!Separator
    BY <1>3 DEF W!Lead
  <2>4. b.shape = ShapeOf(stack) /\ b.want \in {"item", "first"}
    BY PlaceFields
  <2>5. ValueFits(b)
    BY <2>1, <2>4 DEF ValueFits, Within
  <2> QED BY <2>2, <2>3, <2>4, <2>5
<1> QED BY <1>2, <1>3

\* The frames once begin_value has taken the slot of the value.
LEMMA BegunSound ==
    ASSUME Nested(stack), W!CanBegin
    PROVE  /\ Nested(W!Begun) /\ Len(W!Begun) = Len(stack)
           /\ ShapeOf(W!Begun) = ShapeOf(stack)
           /\ \A i \in 1 .. Len(stack) :
                  W!Begun[i].has_items /\ ~W!Begun[i].awaiting_value
<1> DEFINE n == Len(stack)
<1>0. stack \in Seq(W!Frame) /\ n \in Nat /\ n <= MaxDepth
  BY DEF Nested
<1>1. CASE stack = <<>>
  BY <1>1 DEF W!Begun, Nested
<1>2. CASE stack # <<>>
  <2> DEFINE f == stack[n]
             g == IF f.is_object THEN [f EXCEPT !.awaiting_value = FALSE]
                                 ELSE [f EXCEPT !.has_items = TRUE]
  <2>1. n \in 1 .. n /\ f \in W!Frame
    BY <1>0, <1>2
  <2>2. W!Begun = [stack EXCEPT ![n] = g]
    BY <1>2 DEF W!Begun
  <2>3. /\ f.is_object \in BOOLEAN
        /\ f.is_object => f.awaiting_value /\ f.has_items
        /\ ~f.is_object => ~f.awaiting_value
    BY <1>2, <2>1, FrameFields DEF W!CanBegin, W!Top, Nested
  <2>4. g \in W!Frame /\ g.is_object = f.is_object /\ g.has_items /\ ~g.awaiting_value
    BY <2>1, <2>3, FrameFields DEF W!Frame
  <2> HIDE DEF f, g
  <2>5. /\ W!Begun \in Seq(W!Frame) /\ Len(W!Begun) = n /\ W!Begun[n] = g
        /\ \A i \in 1 .. n : i # n => W!Begun[i] = stack[i]
    BY <1>0, <2>1, <2>2, <2>4
  <2>6. \A i \in 1 .. n : W!Begun[i].is_object = stack[i].is_object
    BY <2>4, <2>5 DEF f
  <2>7. \A i \in 1 .. n : W!Begun[i].has_items /\ ~W!Begun[i].awaiting_value
    <3>1. \A i \in 1 .. n : i # n => i < n
      BY <1>0
    <3> QED BY <2>4, <2>5, <3>1 DEF Nested
  <2>8. ShapeOf(W!Begun) = ShapeOf(stack)
    BY <2>5, <2>6 DEF ShapeOf
  <2> QED BY <1>0, <2>5, <2>7, <2>8 DEF Nested
<1> QED BY <1>1, <1>2

LEMMA WriteSound ==
    ASSUME WriterInv, ~refused, NEW token \in Tokens, token.kind \in R!Scalars,
           W!Write(token)
    PROVE  WriterInv'
<1>0. /\ WriterTypes /\ Written /\ W!CanBegin /\ Nested(stack)
      /\ output' = output \o Append(W!Lead, token)
      /\ stack' = W!Begun /\ root_started' = TRUE
      /\ inline_next' = inline_next /\ refused' = refused
  BY DEF WriterInv, WriterTypes, W!Write, W!Emit
<1>1. /\ W!Lead \in Seq(Tokens) /\ output \o W!Lead \in Seq(Tokens)
  BY <1>0, LeadReaches
<1>2. PICK a : Reaches(output \o W!Lead, a) /\ a.shape = ShapeOf(stack) /\ ValueFits(a)
  BY <1>0, LeadReaches
<1>3. output' = Append(output \o W!Lead, token)
  BY <1>0, <1>1, Joined DEF WriterTypes
<1>4. Good(a)
  BY <1>1, <1>2, ReachedIsGood
<1>5. Takes(token, a, After(a.shape)) /\ Len(After(a.shape).shape) <= MaxDepth
  BY <1>2, <1>4, PlaceFields DEF Takes, After, Good
<1>6. output' \in Seq(Tokens) /\ Reaches(output', After(a.shape))
  BY <1>1, <1>2, <1>3, <1>5, OneMore
<1>7. /\ Nested(stack') /\ ShapeOf(stack') = ShapeOf(stack) /\ Len(stack') = Len(stack)
      /\ \A i \in 1 .. Len(stack') : stack'[i].has_items /\ ~stack'[i].awaiting_value
  BY <1>0, BegunSound
<1>8. WantOf(stack', root_started') = IF stack' = <<>> THEN "done" ELSE "next"
  <2>1. stack' # <<>> => Len(stack') \in 1 .. Len(stack')
    BY <1>7 DEF Nested
  <2> QED BY <1>0, <1>7, <2>1 DEF WantOf
<1>9. After(a.shape) = Place(ShapeOf(stack'), WantOf(stack', root_started'))
  <2>1. stack' = <<>> <=> ShapeOf(stack') = <<>>
    BY <1>7, ShapeType DEF Nested
  <2> QED BY <1>2, <1>7, <1>8, <2>1 DEF After
<1> QED BY <1>0, <1>6, <1>7, <1>9 DEF WriterInv, WriterTypes, Written

LEMMA OpenSound ==
    ASSUME WriterInv, ~refused, NEW bracket \in {"array", "object"},
           W!Open(bracket = "object", bracket)
    PROVE  WriterInv'
<1> DEFINE is_object == bracket = "object"
           token == W!Punct(bracket)
           n == Len(stack)
<1>a. is_object \in BOOLEAN /\ bracket \in Kinds
  BY DEF Kinds
<1>b. token \in Tokens /\ token.kind = bracket
  BY <1>a, PunctFields
<1> DEFINE inside == inline_next \/ (stack # <<>> /\ W!Top.is_inline)
           frame == [is_object |-> is_object, has_items |-> FALSE,
                     awaiting_value |-> FALSE, is_inline |-> inside]
<1>0. /\ WriterTypes /\ Written /\ W!CanBegin /\ Nested(stack) /\ n < MaxDepth
      /\ output' = output \o Append(W!Lead, token)
      /\ stack' = Append(W!Begun, frame) /\ root_started' = TRUE
      /\ inline_next' = FALSE /\ refused' = refused
  BY DEF WriterInv, WriterTypes, W!Open, W!Emit
<1>c. frame \in W!Frame /\ frame.is_object = is_object /\ ~frame.awaiting_value
      /\ ~frame.has_items
  <2>1. inside \in BOOLEAN
    <3>1. stack # <<>> => W!Top \in W!Frame
      BY <1>0, ShapeType DEF Nested, W!Top
    <3>2. stack # <<>> => W!Top.is_inline \in BOOLEAN
      BY <3>1, FrameFields
    <3>3. inline_next \in BOOLEAN
      BY <1>0 DEF WriterTypes
    <3> QED BY <3>2, <3>3
  <2> HIDE DEF inside, is_object
  <2> QED BY <1>a, <2>1 DEF W!Frame
<1> HIDE DEF is_object, token, inside, frame
<1>1. /\ W!Lead \in Seq(Tokens) /\ output \o W!Lead \in Seq(Tokens)
  BY <1>0, LeadReaches
<1>2. PICK a : Reaches(output \o W!Lead, a) /\ a.shape = ShapeOf(stack) /\ ValueFits(a)
  BY <1>0, LeadReaches
<1>3. output' = Append(output \o W!Lead, token)
  BY <1>0, <1>1, <1>b, Joined DEF WriterTypes
<1> DEFINE S == ShapeOf(stack)
           b == Place(Append(S, is_object), "first")
<1>4. S \in Seq(BOOLEAN) /\ Len(S) = n /\ n \in Nat
  BY <1>0, ShapeType DEF Nested
<1> HIDE DEF S
<1>5. b.shape = Append(S, is_object) /\ b.want = "first" /\ Len(b.shape) = n + 1
  <2>1. b.shape = Append(S, is_object) /\ b.want = "first"
    BY PlaceFields
  <2>2. Len(Append(S, is_object)) = n + 1
    BY <1>4, <1>a, AppendProperties
  <2> QED BY <2>1, <2>2
<1>6. Takes(token, a, b)
  BY <1>2, <1>b DEF Takes, is_object, S
<1>m. Len(b.shape) <= MaxDepth
  BY <1>0, <1>4, <1>5, JsonAssumption DEF W!WriterAssumption
<1>7. output' \in Seq(Tokens) /\ Reaches(output', b)
  BY <1>1, <1>2, <1>3, <1>6, <1>b, <1>m, OneMore
<1>8. /\ Nested(W!Begun) /\ ShapeOf(W!Begun) = S /\ Len(W!Begun) = n
      /\ \A i \in 1 .. n : W!Begun[i].has_items /\ ~W!Begun[i].awaiting_value
  BY <1>0, BegunSound DEF S
<1>9. /\ stack' \in Seq(W!Frame) /\ Len(stack') = n + 1 /\ stack'[n + 1] = frame
      /\ \A i \in 1 .. n : stack'[i] = W!Begun[i]
  BY <1>0, <1>c, <1>8 DEF Nested
<1>10. Nested(stack')
  <2>1. n + 1 <= MaxDepth
    BY <1>5, <1>m
  <2>2. \A i \in 1 .. n + 1 :
           /\ stack'[i].awaiting_value => stack'[i].is_object /\ stack'[i].has_items
           /\ i < n + 1 => stack'[i].has_items /\ ~stack'[i].awaiting_value
    <3> TAKE i \in 1 .. n + 1
    <3>1. CASE i \in 1 .. n
      BY <1>8, <1>9, <3>1
    <3>2. CASE i = n + 1
      BY <1>c, <1>9, <3>2
    <3> QED BY <1>4, <3>1, <3>2
  <2> QED BY <1>9, <2>1, <2>2 DEF Nested
<1>11. ShapeOf(stack') = Append(S, is_object)
  <2>1. \A i \in 1 .. n : stack'[i].is_object = S[i]
    <3>1. \A i \in 1 .. n : ShapeOf(W!Begun)[i] = W!Begun[i].is_object
      BY <1>8 DEF ShapeOf
    <3> QED BY <1>8, <1>9, <3>1
  <2>2. stack'[n + 1].is_object = is_object
    BY <1>c, <1>9
  <2>3. /\ ShapeOf(stack') \in Seq(BOOLEAN) /\ Len(ShapeOf(stack')) = n + 1
        /\ \A i \in 1 .. n + 1 : ShapeOf(stack')[i] = stack'[i].is_object
    BY <1>9, ShapeType DEF ShapeOf
  <2>4. /\ Append(S, is_object) \in Seq(BOOLEAN) /\ Len(Append(S, is_object)) = n + 1
        /\ Append(S, is_object)[n + 1] = is_object
        /\ \A i \in 1 .. n : Append(S, is_object)[i] = S[i]
    BY <1>4, <1>a, AppendProperties
  <2>5. \A i \in 1 .. n + 1 : i \in 1 .. n \/ i = n + 1
    BY <1>4
  <2>6. \A i \in 1 .. n + 1 : ShapeOf(stack')[i] = Append(S, is_object)[i]
    BY <2>1, <2>2, <2>3, <2>4, <2>5
  <2> QED BY <2>3, <2>4, <2>6, SeqEqual
<1>12. WantOf(stack', root_started') = "first"
  <2>1. stack' # <<>> /\ stack'[Len(stack')] = frame
    BY <1>4, <1>9
  <2> QED BY <1>c, <2>1 DEF WantOf
<1> QED BY <1>0, <1>7, <1>10, <1>11, <1>12 DEF WriterInv, WriterTypes, Written

LEMMA KeySound ==
    ASSUME WriterInv, ~refused, W!CanKey,
           output' = output \o (W!Separator \o <<W!Token("string", 0), W!Punct("colon")>>
                                \o W!newline),
           stack' = [stack EXCEPT ![Len(stack)] =
                        [@ EXCEPT !.has_items = TRUE, !.awaiting_value = TRUE]],
           UNCHANGED <<root_started, inline_next, refused>>
    PROVE  WriterInv'
<1> DEFINE n == Len(stack)
           f == stack[n]
           g == [f EXCEPT !.has_items = TRUE, !.awaiting_value = TRUE]
           S == ShapeOf(stack)
           k == W!Token("string", 0)
           c == W!Punct("colon")
<1>0. /\ WriterTypes /\ Written /\ Nested(stack) /\ stack # <<>>
      /\ f.is_object /\ ~f.awaiting_value /\ n <= MaxDepth
      /\ output \in Seq(Tokens) /\ stack \in Seq(W!Frame)
  BY DEF WriterInv, WriterTypes, W!CanKey, W!Top, Nested
<1>1. /\ n \in 1 .. n /\ n \in Nat /\ f \in W!Frame
      /\ S # <<>> /\ S[Len(S)] = f.is_object /\ Len(S) = n
  BY <1>0, ShapeType
<1>k. k \in Tokens /\ k.kind = "string" /\ c \in Tokens /\ c.kind = "colon"
  BY TokenFields, PunctFields DEF Kinds, R!Scalars
<1>f. f.is_object = TRUE
  BY <1>0, <1>1, FrameFields
<1>g. g \in W!Frame /\ g.is_object = TRUE /\ g.has_items /\ g.awaiting_value
  BY <1>1, <1>f, FrameFields DEF W!Frame
<1> DEFINE b == Place(S, IF W!Top.has_items THEN "item" ELSE "first")
           d == Place(S, "colon")
           e == Place(S, "value")
<1>2. /\ W!Separator \in Seq(Tokens) /\ output \o W!Separator \in Seq(Tokens)
      /\ Reaches(output \o W!Separator, b)
  BY <1>0, SeparatorReaches DEF W!Top
<1>3. /\ b.shape = S /\ b.want \in {"item", "first"}
      /\ d.shape = S /\ d.want = "colon" /\ e.shape = S /\ e.want = "value"
  BY PlaceFields
<1> DEFINE u == output \o W!Separator
<1> HIDE DEF f, g, S, k, c, b, d, e, u
<1>4. Takes(k, b, d) /\ Takes(c, d, e)
  <2>1. Within(b, TRUE)
    BY <1>1, <1>3, <1>f DEF Within
  <2>2. Takes(k, b, d)
    BY <1>3, <1>k, <2>1 DEF Takes, d
  <2>3. Takes(c, d, e)
    BY <1>3, <1>k DEF Takes, e
  <2> QED BY <2>2, <2>3
<1>5. Append(u, k) \in Seq(Tokens) /\ Reaches(Append(u, k), d)
  BY <1>0, <1>1, <1>2, <1>3, <1>4, <1>k, OneMore DEF u
<1>6. Append(Append(u, k), c) \in Seq(Tokens) /\ Reaches(Append(Append(u, k), c), e)
  BY <1>0, <1>1, <1>3, <1>4, <1>5, <1>k, OneMore
<1>7. /\ W!newline \in Seq(Tokens)
      /\ Append(Append(u, k), c) \o W!newline \in Seq(Tokens)
      /\ Reaches(Append(Append(u, k), c) \o W!newline, e)
  BY <1>1, <1>3, <1>6, Spaces
<1>8. output' = Append(Append(u, k), c) \o W!newline
  <2>1. <<k, c>> = Append(<<k>>, c) /\ <<k>> \in Seq(Tokens) /\ <<k, c>> \in Seq(Tokens)
    BY <1>k
  <2>2. u \o <<k>> = Append(u, k) /\ u \in Seq(Tokens)
    BY <1>2, <1>k, Joined DEF u
  <2>3. u \o <<k, c>> = Append(Append(u, k), c)
    BY <1>k, <2>1, <2>2, Joined
  <2>4. W!Separator \o <<k, c>> \in Seq(Tokens)
    BY <1>2, <2>1, ConcatProperties
  <2>5. output' = (output \o (W!Separator \o <<k, c>>)) \o W!newline
    <3> DEFINE v == W!Separator \o <<k, c>>
    <3>1. output' = output \o (v \o W!newline)
      BY DEF k, c
    <3> HIDE DEF v
    <3>2. v \in Seq(Tokens)
      BY <2>4 DEF v
    <3>3. (output \o v) \o W!newline = output \o (v \o W!newline)
      <4>1. output \in Seq(Tokens) /\ W!newline \in Seq(Tokens)
        BY <1>0, <1>7
      <4> HIDE DEF k, c
      <4> QED BY <3>2, <4>1, Associates
    <3> QED BY <3>1, <3>3 DEF v
  <2>6. output \o (W!Separator \o <<k, c>>) = u \o <<k, c>>
    BY <1>0, <1>2, <2>1, Associates DEF u
  <2> QED BY <2>3, <2>5, <2>6
<1>9. stack' = [stack EXCEPT ![n] = g]
  BY DEF g, f
<1>10. /\ stack' \in Seq(W!Frame) /\ Len(stack') = n /\ stack'[n] = g
       /\ \A i \in 1 .. n : i # n => stack'[i] = stack[i]
  <2> DEFINE w == [stack EXCEPT ![n] = g]
  <2>1. /\ w \in Seq(W!Frame) /\ Len(w) = n /\ w[n] = g
        /\ \A i \in 1 .. n : i # n => w[i] = stack[i]
    BY <1>0, <1>1, <1>g, Replaced
  <2> HIDE DEF w
  <2>2. stack' = w
    BY <1>9 DEF w
  <2> QED BY <2>1, <2>2
<1>11. Nested(stack')
  <2>1. \A i \in 1 .. n :
           /\ stack'[i].awaiting_value => stack'[i].is_object /\ stack'[i].has_items
           /\ i < n => stack'[i].has_items /\ ~stack'[i].awaiting_value
    <3> TAKE i \in 1 .. n
    <3>1. CASE i = n
      <4>1. stack'[i] = g /\ ~(i < n)
        BY <1>1, <1>10, <3>1
      <4> QED BY <1>g, <4>1
    <3>2. CASE i # n
      BY <1>0, <1>10, <3>2 DEF Nested
    <3> QED BY <3>1, <3>2
  <2> QED BY <1>0, <1>10, <2>1 DEF Nested
<1>12. ShapeOf(stack') = S
  <2>1. \A i \in 1 .. n : stack'[i].is_object = stack[i].is_object
    BY <1>10, <1>g, <1>f DEF f
  <2> QED BY <1>10, <2>1 DEF ShapeOf, S
<1>13. WantOf(stack', root_started') = "value"
  BY <1>1, <1>10, <1>g DEF WantOf
<1>14. stack' # <<>> /\ root_started
  BY <1>0, <1>1, <1>10 DEF WriterTypes
<1> QED BY <1>0, <1>7, <1>8, <1>11, <1>12, <1>13, <1>14 DEF WriterInv, WriterTypes, Written, e

LEMMA CloseSound ==
    ASSUME WriterInv, ~refused, stack # <<>>,
           NEW bracket \in {"array_end", "object_end"},
           W!Top.is_object <=> bracket = "object_end", ~W!Top.awaiting_value,
           W!Close(bracket)
    PROVE  WriterInv'
<1> DEFINE n == Len(stack)
           S == ShapeOf(stack)
           a == Place(S, WantOf(stack, root_started))
           token == W!Punct(bracket)
           u == output \o (IF W!Top.has_items /\ ~W!Top.is_inline THEN W!newline ELSE <<>>)
           rest == SubSeq(stack, 1, n - 1)
           b == After(SubSeq(S, 1, n - 1))
<1>0. /\ WriterTypes /\ Written /\ Nested(stack) /\ n <= MaxDepth
      /\ output \in Seq(Tokens) /\ stack \in Seq(W!Frame)
      /\ stack' = rest /\ root_started' = root_started
      /\ inline_next' = inline_next /\ refused' = refused
  BY DEF WriterInv, WriterTypes, W!Close, Nested
<1>1. /\ n \in 1 .. n /\ n \in Nat /\ W!Top \in W!Frame
      /\ S \in Seq(BOOLEAN) /\ S # <<>> /\ S[Len(S)] = W!Top.is_object /\ Len(S) = n
  BY <1>0, ShapeType DEF W!Top
<1>2. a.shape = S /\ a.want \in {"first", "next"} /\ Reaches(output, a)
  BY <1>0, PlaceFields DEF WantOf, W!Top, Written
<1>k. token \in Tokens /\ token.kind = bracket
  BY PunctFields DEF Kinds
<1> HIDE DEF token, a
<1>3. output' = Append(u, token) /\ u \in Seq(Tokens) /\ Reaches(u, a)
  <2>1. /\ W!newline \in Seq(Tokens) /\ output \o W!newline \in Seq(Tokens)
        /\ Reaches(output \o W!newline, a)
    BY <1>0, <1>1, <1>2, Spaces
  <2>2. <<>> \in Seq(Tokens) /\ output \o <<>> = output
    BY <1>0, ConcatEmptySeq
  <2> DEFINE nl == IF W!Top.has_items /\ ~W!Top.is_inline THEN W!newline ELSE <<>>
  <2>3. nl \in Seq(Tokens) /\ output \o nl \in Seq(Tokens) /\ Reaches(output \o nl, a)
    BY <1>0, <1>2, <2>1, <2>2
  <2>4. output' = output \o (nl \o <<token>>)
    BY DEF W!Close, W!Emit, token
  <2> HIDE DEF nl
  <2>5. nl \o <<token>> = Append(nl, token)
    BY <1>k, <2>3, AppendIsConcat
  <2>6. output \o Append(nl, token) = Append(output \o nl, token)
    BY <1>0, <1>k, <2>3, Joined
  <2> QED BY <2>3, <2>4, <2>5, <2>6 DEF nl
<1> HIDE DEF u, S
<1>4. SubSeq(S, 1, n - 1) \in Seq(BOOLEAN) /\ Len(SubSeq(S, 1, n - 1)) = n - 1
      /\ \A i \in 1 .. n - 1 : SubSeq(S, 1, n - 1)[i] = S[i]
  BY <1>1
<1>5. b.shape = SubSeq(S, 1, n - 1)
  BY PlaceFields DEF After
<1>6. Takes(token, a, b)
  <2>1. W!Top.is_object = (bracket = "object_end")
    BY <1>1, FrameFields
  <2>2. Within(a, token.kind = "object_end")
    BY <1>1, <1>2, <1>k, <2>1 DEF Within
  <2> QED BY <1>1, <1>2, <1>k, <2>2 DEF Takes
<1>m. Len(b.shape) <= MaxDepth
  BY <1>0, <1>1, <1>4, <1>5, JsonAssumption DEF W!WriterAssumption
<1> HIDE DEF b
<1>7. output' \in Seq(Tokens) /\ Reaches(output', b)
  BY <1>3, <1>6, <1>k, <1>m, OneMore
<1>8. /\ rest \in Seq(W!Frame) /\ Len(rest) = n - 1
      /\ \A i \in 1 .. n - 1 : rest[i] = stack[i]
  BY <1>0, <1>1
<1> HIDE DEF rest
<1>9. Nested(rest)
  <2>1. \A i \in 1 .. n - 1 : i \in 1 .. n /\ i < n
    BY <1>1
  <2>2. n - 1 <= MaxDepth
    BY <1>m, <1>4, <1>5
  <2>3. \A i \in 1 .. n - 1 :
           /\ rest[i].awaiting_value => rest[i].is_object /\ rest[i].has_items
           /\ i < n - 1 => rest[i].has_items /\ ~rest[i].awaiting_value
    <3> TAKE i \in 1 .. n - 1
    <3>1. /\ stack[i].awaiting_value => stack[i].is_object /\ stack[i].has_items
          /\ stack[i].has_items /\ ~stack[i].awaiting_value
      BY <1>0, <2>1 DEF Nested
    <3>2. rest[i] = stack[i]
      BY <1>8
    <3> QED BY <3>1, <3>2
  <2> QED BY <1>8, <2>2, <2>3 DEF Nested
<1>10. ShapeOf(rest) = SubSeq(S, 1, n - 1)
  <2>1. \A i \in 1 .. n - 1 : S[i] = stack[i].is_object
    BY <1>1 DEF S, ShapeOf
  <2>2. ShapeOf(rest) = [i \in 1 .. n - 1 |-> stack[i].is_object]
    BY <1>8 DEF ShapeOf
  <2>3. SubSeq(S, 1, n - 1) = [i \in 1 .. n - 1 |-> S[i]]
    BY <1>1
  <2> QED BY <2>1, <2>2, <2>3
<1>11. root_started
  BY <1>0 DEF WriterTypes
<1>12. WantOf(rest, root_started) = IF rest = <<>> THEN "done" ELSE "next"
  <2>1. CASE rest = <<>>
    BY <1>11, <2>1 DEF WantOf
  <2>2. CASE rest # <<>>
    <3>1. n - 1 \in 1 .. n - 1 /\ n - 1 \in 1 .. n /\ n - 1 < n
      BY <1>1, <1>8, <2>2
    <3>2. rest[Len(rest)].has_items /\ ~rest[Len(rest)].awaiting_value
      BY <1>0, <1>8, <3>1 DEF Nested
    <3> QED BY <2>2, <3>2 DEF WantOf
  <2> QED BY <2>1, <2>2
<1>13. b = Place(ShapeOf(rest), WantOf(rest, root_started))
  <2>1. rest = <<>> <=> SubSeq(S, 1, n - 1) = <<>>
    <3>1. rest = <<>> <=> n - 1 = 0
      BY <1>8, EmptySeq
    <3>2. SubSeq(S, 1, n - 1) = <<>> <=> n - 1 = 0
      BY <1>4, EmptySeq
    <3> QED BY <3>1, <3>2
  <2> QED BY <1>10, <1>12, <2>1 DEF b, After
<1> QED BY <1>0, <1>7, <1>9, <1>11, <1>13 DEF WriterInv, WriterTypes, Written

\* A text that is not UTF-8 leaves its mark, but no frame that could not be.
LEMMA RefusedSound ==
    ASSUME WriterInv, ~refused, W!CanBegin,
           output' = output \o W!Lead, stack' = W!Begun, root_started' = TRUE,
           refused' = TRUE, inline_next' = inline_next
    PROVE  WriterInv'
<1>1. WriterTypes /\ Written /\ Nested(stack)
  BY DEF WriterInv, WriterTypes
<1>2. output' \in Seq(Tokens)
  BY <1>1, LeadReaches
<1>3. Nested(stack')
  BY <1>1, BegunSound
<1> QED BY <1>1, <1>2, <1>3 DEF WriterInv, WriterTypes

LEMMA WriterSound ==
    ASSUME WriterInv, ~refused, W!WNext
    PROVE  WriterInv'
<1>0. WriterTypes /\ Written /\ Nested(stack) /\ stack \in Seq(W!Frame)
  BY DEF WriterInv, WriterTypes, Nested
<1>t. \A kind \in R!Scalars, value \in Int :
          W!Token(kind, value) \in Tokens /\ W!Token(kind, value).kind \in R!Scalars
  BY TokenFields DEF Kinds
<1>n. Numbers \subseteq Int
  BY JsonAssumption DEF W!WriterAssumption
<1>1. ASSUME NEW kind \in R!Scalars, NEW value \in Int, W!Write(W!Token(kind, value))
      PROVE  WriterInv'
  BY <1>1, <1>t, WriteSound
<1>2. CASE W!write_null
  BY <1>1, <1>2 DEF W!write_null, R!Scalars
<1>3. CASE W!write_bool
  BY <1>1, <1>3 DEF W!write_bool, R!Scalars
<1>4. CASE W!write_int
  BY <1>1, <1>4, <1>n DEF W!write_int, R!Scalars
<1>5. CASE W!write_float
  BY <1>1, <1>5, <1>n DEF W!write_float, R!Scalars
<1>6. CASE W!write_bytes
  BY <1>1, <1>6 DEF W!write_bytes, R!Scalars
<1>7. CASE W!write_string
  <2>1. PICK value \in Texts :
            IF value \notin Malformed THEN W!Write(W!Token("string", 0))
            ELSE /\ W!CanBegin /\ W!Emit(W!Lead) /\ stack' = W!Begun
                 /\ root_started' = TRUE /\ refused' = TRUE /\ UNCHANGED inline_next
    BY <1>7 DEF W!write_string
  <2>2. CASE value \notin Malformed
    BY <1>1, <2>1, <2>2 DEF R!Scalars
  <2>3. CASE value \in Malformed
    BY <2>1, <2>3, RefusedSound DEF W!Emit
  <2> QED BY <2>2, <2>3
<1>8. CASE W!prefer_inline
  <2>1. UNCHANGED <<output, stack, root_started, refused>> /\ inline_next' = TRUE
    BY <1>8 DEF W!prefer_inline
  <2>2. Written'
    BY <1>0, <2>1 DEF Written
  <2> QED BY <1>0, <2>1, <2>2 DEF WriterInv, WriterTypes
<1>9. CASE W!begin_array
  BY <1>9, OpenSound DEF W!begin_array
<1>10. CASE W!begin_object
  BY <1>10, OpenSound DEF W!begin_object
<1>11. CASE W!end_array
  <2>1. stack # <<>> /\ ~W!Top.is_object /\ W!Close("array_end")
    BY <1>11 DEF W!end_array
  <2>2. ~W!Top.awaiting_value
    BY <1>0, <2>1, ShapeType DEF Nested, W!Top
  <2> QED BY <2>1, <2>2, CloseSound
<1>12. CASE W!end_object
  BY <1>12, CloseSound DEF W!end_object, W!CanKey
<1>13. CASE W!write_key
  <2>1. PICK key \in Texts :
            IF key \in Malformed
            THEN W!Emit(W!Separator) /\ refused' = TRUE /\ UNCHANGED stack
            ELSE /\ W!Emit(W!Separator \o <<W!Token("string", 0), W!Punct("colon")>>
                           \o W!newline)
                 /\ stack' = [stack EXCEPT ![Len(stack)] =
                        [@ EXCEPT !.has_items = TRUE, !.awaiting_value = TRUE]]
                 /\ UNCHANGED refused
    BY <1>13 DEF W!write_key
  <2>2. W!CanKey /\ UNCHANGED <<root_started, inline_next>>
    BY <1>13 DEF W!write_key
  <2>3. CASE key \notin Malformed
    BY <2>1, <2>2, <2>3, KeySound DEF W!Emit
  <2>4. CASE key \in Malformed
    <3>1. output' = output \o W!Separator /\ refused' = TRUE /\ stack' = stack
      BY <2>1, <2>4 DEF W!Emit
    <3>2. output' \in Seq(Tokens)
      BY <1>0, <2>2, <3>1, SeparatorReaches DEF W!CanKey
    <3> QED BY <1>0, <2>2, <3>1, <3>2 DEF WriterInv, WriterTypes
  <2> QED BY <2>3, <2>4
<1> QED
  BY <1>2, <1>3, <1>4, <1>5, <1>6, <1>7, <1>8, <1>9, <1>10, <1>11, <1>12, <1>13
  DEF W!WNext

-----------------------------------------------------------------------------
(* The reader.                                                             *)

LEMMA LeastNat ==
    ASSUME NEW T, T \subseteq Nat, T # {}
    PROVE  \E x \in T : \A y \in T : x <= y
<1> DEFINE less == OpToRel(<, Nat)
<1>1. IsWellFoundedOn(less, Nat)
  BY NatLessThanWellFounded
<1>2. \A x, y \in Nat : y < x => <<y, x>> \in less
  BY DEF OpToRel
<1> HIDE DEF less
<1>3. \E x \in T : \A y \in T : ~(<<y, x>> \in less)
  BY <1>1, WFMin
<1>4. PICK x \in T : \A y \in T : ~(<<y, x>> \in less)
  BY <1>3
<1>5. \A y \in T : ~(y < x)
  BY <1>2, <1>4, Zenon
<1> QED BY <1>4, <1>5

\* skip_whitespace stops at the first token that is not a space.
LEMMA SkippedAt ==
    ASSUME text \in Seq(Tokens), NEW p \in 0 .. Len(text)
    PROVE  /\ R!Skipped(p) \in p .. Len(text)
           /\ R!Skipped(p) < Len(text) => text[R!Skipped(p) + 1].kind # "space"
           /\ \A i \in p + 1 .. R!Skipped(p) : text[i].kind = "space"
           /\ p < Len(text) /\ text[p + 1].kind # "space" => R!Skipped(p) = p
<1> DEFINE T == {q \in p .. Len(text) : q = Len(text) \/ text[q + 1].kind # "space"}
           m == CHOOSE x \in T : \A y \in T : x <= y
<1>0. Len(text) \in Nat /\ p \in Nat /\ p <= Len(text)
  OBVIOUS
<1>1. T \subseteq Nat /\ Len(text) \in T
  BY <1>0
<1>2. m \in T /\ \A y \in T : m <= y
  BY <1>1, LeastNat
<1>3. R!Skipped(p) = m
  BY DEF R!Skipped, R!Min
<1> HIDE DEF m
<1>4. m \in p .. Len(text) /\ (m = Len(text) \/ text[m + 1].kind # "space")
  BY <1>2
<1>5. \A i \in p + 1 .. m : text[i].kind = "space"
  <2> SUFFICES ASSUME NEW i \in p + 1 .. m PROVE text[i].kind = "space"
    OBVIOUS
  <2>1. i - 1 \in p .. Len(text) /\ i - 1 < m /\ i - 1 # Len(text) /\ (i - 1) + 1 = i
    BY <1>0, <1>4
  <2>2. i - 1 \notin T
    <3>1. m \in Nat /\ i - 1 \in Nat /\ ~(m <= i - 1)
      BY <1>0, <1>4, <2>1
    <3> HIDE DEF T
    <3> QED BY <1>2, <3>1
  <2> QED BY <2>1, <2>2
<1>6. p < Len(text) /\ text[p + 1].kind # "space" => m = p
  <2>1. p < Len(text) /\ text[p + 1].kind # "space" => p \in T
    BY <1>0
  <2> QED BY <1>0, <1>2, <1>4, <2>1
<1> HIDE DEF T
<1> QED BY <1>0, <1>3, <1>4, <1>5, <1>6

Whole == W!complete /\ text = output

\* r is the run of the text that was handed over, up to a token that was cut.
\* A value ends before the text does only if the root is a number.
Parsed(r, n) ==
    /\ n \in 0 .. Len(text) /\ Run(r, text, n)
    /\ n < Len(text) => n + 1 = Len(text) /\ text[n + 1].kind = "broken"
    /\ \A p \in 0 .. n : r[p].want = "done" =>
           p = Len(text) /\ (Whole \/ text[1].kind = "int")
    /\ Whole => n = Len(text) /\ r[n].want = "done"

LEMMA SpacesStay ==
    ASSUME text \in Seq(Tokens), NEW r, NEW n, Parsed(r, n), NEW p \in 0 .. n,
           NEW q \in p .. n, \A i \in p + 1 .. q : text[i].kind = "space"
    PROVE  r[q] = r[p]
<1> DEFINE T == {i \in p .. q : r[i] # r[p]}
<1>0. n \in Nat /\ p \in Nat /\ q \in Nat /\ p <= q /\ q <= n
  BY DEF Parsed
<1>1. SUFFICES ASSUME T # {} PROVE FALSE
  <2>1. q \in p .. q
    BY <1>0
  <2> QED BY <2>1
<1>2. T \subseteq Nat
  BY <1>0
<1>3. PICK x \in T : \A y \in T : x <= y
  BY <1>1, <1>2, LeastNat
<1>4. x \in p + 1 .. q /\ x \in 1 .. n /\ x - 1 \in p .. q /\ x - 1 < x
  BY <1>0, <1>3
<1>5. r[x - 1] = r[p]
  BY <1>3, <1>4
<1>6. Takes(text[x], r[x - 1], r[x]) /\ text[x].kind = "space"
  BY <1>4 DEF Parsed, Run
<1>7. r[x] = r[x - 1]
  BY <1>6 DEF Takes, R!Scalars
<1> QED BY <1>3, <1>5, <1>7

\* The token behind the whitespace leads on from the place in front of it.
LEMMA NextToken ==
    ASSUME text \in Seq(Tokens), NEW r, NEW n, Parsed(r, n), NEW p \in 0 .. n
    PROVE  LET q == R!Skipped(p) IN
           /\ q \in p .. n /\ q \in Nat /\ r[q] = r[p] /\ Good(r[p])
           /\ R!KindAt(q) # "space"
           /\ R!KindAt(q) \notin {"end", "broken"} =>
                  /\ q < n /\ q < Len(text) /\ q + 1 \in 0 .. n
                  /\ text[q + 1].kind = R!KindAt(q) /\ text[q + 1] \in Tokens
                  /\ Takes(text[q + 1], r[p], r[q + 1]) /\ Good(r[q + 1])
           /\ Whole /\ r[p].want # "done" => R!KindAt(q) \notin {"end", "broken"}
<1> DEFINE q == R!Skipped(p)
<1>0. /\ n \in Nat /\ Len(text) \in Nat /\ n <= Len(text) /\ p \in 0 .. Len(text)
      /\ Run(r, text, n)
  BY DEF Parsed
<1>1. /\ q \in p .. Len(text) /\ q \in Nat
      /\ q < Len(text) => text[q + 1].kind # "space"
      /\ \A i \in p + 1 .. q : text[i].kind = "space"
  BY <1>0, SkippedAt
<1> HIDE DEF q
<1>2. q <= n
  <2> SUFFICES ASSUME n < q PROVE FALSE
    BY <1>0, <1>1
  <2>1. n < Len(text) /\ n + 1 \in p + 1 .. q
    BY <1>0, <1>1
  <2> QED BY <1>1, <2>1 DEF Parsed
<1>3. q \in p .. n
  BY <1>0, <1>1, <1>2
<1>4. r[q] = r[p]
  BY <1>1, <1>3, SpacesStay
<1>5. Good(r[p])
  BY <1>0 DEF Run
<1>6. R!KindAt(q) = IF q < Len(text) THEN text[q + 1].kind ELSE "end"
  BY DEF R!KindAt
<1>7. R!KindAt(q) # "space"
  BY <1>1, <1>6
<1>8. ASSUME R!KindAt(q) \notin {"end", "broken"}
      PROVE  /\ q < n /\ q < Len(text) /\ q + 1 \in 0 .. n
             /\ text[q + 1].kind = R!KindAt(q) /\ text[q + 1] \in Tokens
             /\ Takes(text[q + 1], r[p], r[q + 1]) /\ Good(r[q + 1])
  <2>1. q < Len(text) /\ text[q + 1].kind = R!KindAt(q)
    BY <1>6, <1>8
  <2>2. q # n
    BY <1>8, <2>1 DEF Parsed
  <2>3. q < n /\ q + 1 \in 1 .. n /\ (q + 1) - 1 = q /\ q + 1 \in 0 .. n
    BY <1>0, <1>1, <1>2, <2>2
  <2>4. Takes(text[q + 1], r[q], r[q + 1]) /\ Good(r[q + 1])
    BY <1>0, <2>3 DEF Run
  <2>5. text[q + 1] \in Tokens
    BY <1>0, <2>3
  <2> QED BY <1>4, <2>1, <2>3, <2>4, <2>5
<1>9. ASSUME Whole, r[p].want # "done"
      PROVE  R!KindAt(q) \notin {"end", "broken"}
  <2>1. n = Len(text) /\ r[n].want = "done"
    BY <1>9 DEF Parsed
  <2>2. q # n
    BY <1>4, <1>9, <2>1
  <2>3. q < Len(text) /\ q + 1 \in 1 .. n /\ (q + 1) - 1 = q
    BY <1>0, <1>1, <1>2, <2>1, <2>2
  <2>4. Takes(text[q + 1], r[q], r[q + 1])
    BY <1>0, <2>3 DEF Run
  <2>5. text[q + 1].kind \notin {"broken", "end"}
    BY <2>4 DEF Takes, R!Scalars
  <2> QED BY <1>6, <2>3, <2>5
<1> QED BY <1>1, <1>3, <1>4, <1>5, <1>7, <1>8, <1>9 DEF q

OpenFrame == [is_object : BOOLEAN, first : BOOLEAN]

ReaderTypes ==
    /\ text \in Seq(Tokens)
    /\ nesting \in Seq(OpenFrame)
    /\ skipping \in [at : {"idle", "value", "slot", "close"}, depth : Nat]

\* The reader is at the place its open containers stand for.
StandsAt(r, n) ==
    ReaderTypes /\ Parsed(r, n) /\ at \in 0 .. n /\ ShapeOf(nesting) = r[at].shape

\* Where a value is due, where the next slot of a container is, where it ends.
ValueAt(frames, p, a) ==
    /\ ValueFits(a)
    /\ \A k \in 1 .. Len(frames) : ~frames[k].first
    /\ a.want = "first" => R!KindAt(p) \notin {"space", "array_end"}
SlotAt(frames, a) ==
    /\ frames # <<>>
    /\ a.want = IF frames[Len(frames)].first THEN "first" ELSE "next"
    /\ \A k \in 1 .. Len(frames) - 1 : ~frames[k].first
CloseAt(frames, p, a) ==
    /\ frames # <<>> /\ a.want \in {"first", "next"}
    /\ R!KindAt(p) = IF frames[Len(frames)].is_object THEN "object_end" ELSE "array_end"
    /\ \A k \in 1 .. Len(frames) : ~frames[k].first
Settled(frames, a) == IF frames = <<>> THEN a.want = "done" ELSE SlotAt(frames, a)

\* A call that returned has moved along the run.
Moves(r, n) ==
    /\ answer'.ok = TRUE /\ text' = text /\ at' \in 0 .. n /\ at <= at'
    /\ nesting' \in Seq(OpenFrame) /\ ShapeOf(nesting') = r[at'].shape

LEMMA OpenFields ==
    ASSUME NEW frames \in Seq(OpenFrame)
    PROVE  /\ ShapeOf(frames) \in Seq(BOOLEAN) /\ Len(ShapeOf(frames)) = Len(frames)
           /\ Len(frames) \in Nat
           /\ frames # <<>> <=> ShapeOf(frames) # <<>>
           /\ \A i \in 1 .. Len(frames) :
                  /\ frames[i] \in OpenFrame
                  /\ frames[i].is_object \in BOOLEAN /\ frames[i].first \in BOOLEAN
                  /\ ShapeOf(frames)[i] = frames[i].is_object
           /\ frames # <<>> =>
                  /\ Len(frames) \in 1 .. Len(frames) /\ frames[Len(frames)] \in OpenFrame
                  /\ ShapeOf(frames)[Len(ShapeOf(frames))] = frames[Len(frames)].is_object
                  /\ frames[Len(frames)].is_object \in BOOLEAN
                  /\ frames[Len(frames)].first \in BOOLEAN
<1>1. Len(frames) \in Nat /\ (frames # <<>> <=> Len(frames) # 0)
  OBVIOUS
<1>f. \A f \in OpenFrame : f.is_object \in BOOLEAN /\ f.first \in BOOLEAN
  BY DEF OpenFrame
<1>2. \A i \in 1 .. Len(frames) :
          /\ frames[i] \in OpenFrame
          /\ frames[i].is_object \in BOOLEAN /\ frames[i].first \in BOOLEAN
  BY <1>f
<1>3. ShapeOf(frames) \in [1 .. Len(frames) -> BOOLEAN]
  BY <1>2 DEF ShapeOf
<1>4. ShapeOf(frames) \in Seq(BOOLEAN) /\ Len(ShapeOf(frames)) = Len(frames)
  BY <1>1, <1>3
<1>5. frames # <<>> => Len(frames) \in 1 .. Len(frames)
  BY <1>1
<1>6. ShapeOf(frames) # <<>> <=> Len(ShapeOf(frames)) # 0
  BY <1>4
<1>7. \A i \in 1 .. Len(frames) : ShapeOf(frames)[i] = frames[i].is_object
  BY DEF ShapeOf
<1> QED BY <1>1, <1>2, <1>4, <1>5, <1>6, <1>7

\* The token in front of the reader.
LEMMA AtHere ==
    ASSUME NEW r, NEW n, StandsAt(r, n)
    PROVE  /\ R!Here \in at .. n /\ R!Here \in Nat /\ at \in Nat /\ n \in Nat
           /\ r[R!Here] = r[at] /\ Good(r[at])
           /\ R!Current = R!KindAt(R!Here) /\ R!Current # "space"
           /\ R!Current \notin {"end", "broken"} =>
                  /\ R!Here + 1 \in 0 .. n /\ R!Here < Len(text)
                  /\ text[R!Here + 1].kind = R!Current
                  /\ Takes(text[R!Here + 1], r[at], r[R!Here + 1])
                  /\ Good(r[R!Here + 1])
           /\ Whole /\ r[at].want # "done" => R!Current \notin {"end", "broken"}
<1>1. text \in Seq(Tokens) /\ Parsed(r, n) /\ at \in 0 .. n /\ n \in Nat
  BY DEF StandsAt, ReaderTypes, Parsed
<1> QED BY <1>1, NextToken DEF R!Here, R!Current

LEMMA JsonScalarSound ==
    ASSUME NEW r, NEW n, StandsAt(r, n), ValueAt(nesting, at, r[at]),
           NEW call, R!Current \in R!Scalars, R!Scalar(call, TRUE)
    PROVE  /\ Moves(r, n) /\ Settled(nesting', r[at']) /\ at < at'
           /\ nesting' = nesting /\ R!Behind(nesting') /\ answer'.call = call
<1>1. /\ at' = R!Here + 1 /\ nesting' = nesting /\ text' = text
      /\ answer' = [call |-> call, ok |-> TRUE] /\ R!Behind(nesting)
  BY DEF R!Scalar, R!Return
<1>2. R!Current \notin {"end", "broken"}
  BY DEF R!Scalars
<1>3. /\ at' \in 0 .. n /\ at < at' /\ at <= at'
      /\ text[at'].kind = R!Current /\ Takes(text[at'], r[at], r[at'])
  BY <1>1, <1>2, AtHere
<1>4. r[at'] = After(r[at].shape)
  BY <1>3 DEF Takes, R!Scalars, ValueAt, ValueFits, Within
<1>5. /\ r[at'].shape = ShapeOf(nesting) /\ nesting \in Seq(OpenFrame)
      /\ r[at'].want = IF ShapeOf(nesting) = <<>> THEN "done" ELSE "next"
  BY <1>4, PlaceFields DEF After, StandsAt, ReaderTypes
<1>6. Settled(nesting, r[at'])
  <2>1. nesting = <<>> <=> ShapeOf(nesting) = <<>>
    BY <1>5, OpenFields
  <2>2. nesting # <<>> => /\ ~nesting[Len(nesting)].first
                          /\ \A k \in 1 .. Len(nesting) - 1 : ~nesting[k].first
    BY <1>5, OpenFields DEF ValueAt
  <2> QED BY <1>5, <2>1, <2>2 DEF Settled, SlotAt
<1> QED BY <1>1, <1>3, <1>5, <1>6 DEF Moves

LEMMA JsonBeginSound ==
    ASSUME NEW r, NEW n, StandsAt(r, n), ValueAt(nesting, at, r[at]),
           NEW bracket \in {"array", "object"}, R!Current = bracket, R!Begin(bracket)
    PROVE  /\ Moves(r, n) /\ Settled(nesting', r[at']) /\ at < at'
           /\ Len(nesting') = Len(nesting) + 1 /\ nesting' # <<>> /\ R!Behind(nesting')
<1> DEFINE is_object == bracket = "object"
           frame == [is_object |-> is_object, first |-> TRUE]
           S == ShapeOf(nesting)
           m == Len(nesting)
<1>0. /\ nesting \in Seq(OpenFrame) /\ m \in Nat /\ S \in Seq(BOOLEAN) /\ Len(S) = m
      /\ S = r[at].shape /\ is_object \in BOOLEAN /\ MaxDepth \in Nat
      /\ \A i \in 1 .. m : S[i] = nesting[i].is_object
  BY OpenFields, JsonAssumption DEF StandsAt, ReaderTypes, W!WriterAssumption
<1>f. frame \in OpenFrame /\ frame.is_object = is_object /\ frame.first = TRUE
  BY <1>0 DEF OpenFrame
<1>1. R!Current \notin {"end", "broken"}
  OBVIOUS
<1>2. /\ R!Here + 1 \in 0 .. n /\ at < R!Here + 1 /\ at <= R!Here + 1
      /\ text[R!Here + 1].kind = bracket
      /\ Takes(text[R!Here + 1], r[at], r[R!Here + 1]) /\ Good(r[R!Here + 1])
  BY <1>1, AtHere
<1> HIDE DEF S
<1>3. r[R!Here + 1] = Place(Append(S, is_object), "first")
  BY <1>0, <1>2 DEF Takes, R!Scalars
<1>4. r[R!Here + 1].shape = Append(S, is_object) /\ r[R!Here + 1].want = "first"
  BY <1>3 DEF Place
<1> HIDE DEF is_object, frame
<1>5. /\ Append(S, is_object) \in Seq(BOOLEAN) /\ Len(Append(S, is_object)) = m + 1
      /\ Append(S, is_object)[m + 1] = is_object
      /\ \A i \in 1 .. m : Append(S, is_object)[i] = S[i]
  BY <1>0, AppendProperties
<1>6. m < MaxDepth
  <2>1. m + 1 <= MaxDepth
    BY <1>2, <1>4, <1>5 DEF Good
  <2> QED BY <1>0, <2>1
<1>7. /\ at' = R!Here + 1 /\ nesting' = Append(nesting, frame) /\ text' = text
      /\ answer' = [call |-> bracket, ok |-> TRUE] /\ R!Behind(nesting')
  <2>1. ~(R!Current # bracket \/ m >= MaxDepth)
    BY <1>0, <1>6
  <2> QED BY <2>1 DEF R!Begin, R!Return, frame, is_object
<1>8. /\ nesting' \in Seq(OpenFrame) /\ Len(nesting') = m + 1 /\ nesting'[m + 1] = frame
      /\ \A i \in 1 .. m : nesting'[i] = nesting[i]
  BY <1>0, <1>7, <1>f
<1>9. ShapeOf(nesting') = Append(S, is_object)
  <2>1. /\ ShapeOf(nesting') \in Seq(BOOLEAN) /\ Len(ShapeOf(nesting')) = m + 1
        /\ \A i \in 1 .. m + 1 : ShapeOf(nesting')[i] = nesting'[i].is_object
    BY <1>8, OpenFields
  <2>2. \A i \in 1 .. m + 1 : i \in 1 .. m \/ i = m + 1
    BY <1>0
  <2>3. \A i \in 1 .. m : ShapeOf(nesting')[i] = Append(S, is_object)[i]
    BY <1>0, <1>5, <1>8, <2>1
  <2>4. ShapeOf(nesting')[m + 1] = Append(S, is_object)[m + 1]
    BY <1>0, <1>5, <1>8, <1>f, <2>1
  <2> QED BY <1>5, <2>1, <2>2, <2>3, <2>4, SeqEqual
<1>10. nesting' # <<>>
  BY <1>0, <1>8
<1>11. Settled(nesting', r[at'])
  <2>1. \A k \in 1 .. m : ~nesting'[k].first
    BY <1>8 DEF ValueAt
  <2>2. Len(nesting') - 1 = m /\ nesting'[Len(nesting')].first = TRUE
    BY <1>0, <1>8, <1>f
  <2> QED BY <1>4, <1>7, <1>10, <2>1, <2>2 DEF Settled, SlotAt
<1> QED BY <1>0, <1>2, <1>4, <1>7, <1>8, <1>9, <1>10, <1>11 DEF Moves

\* Where a value is due in a whole text there is one.
LEMMA WholeValue ==
    ASSUME NEW r, NEW n, StandsAt(r, n), ValueAt(nesting, at, r[at]), Whole
    PROVE  R!Current \in R!Scalars \cup {"array", "object"}
<1>1. r[at].want # "done"
  BY DEF ValueAt, ValueFits
<1>2. /\ R!Current \notin {"end", "broken"} /\ R!Current # "space"
      /\ R!Here < Len(text) /\ at \in Nat
      /\ text[R!Here + 1].kind = R!Current
      /\ Takes(text[R!Here + 1], r[at], r[R!Here + 1])
  BY <1>1, AtHere
<1>3. r[at].want = "first" => R!Current # "array_end"
  <2>1. ASSUME r[at].want = "first", R!Here # at PROVE FALSE
    <3>1. R!KindAt(at) # "space"
      BY <2>1 DEF ValueAt
    <3>2. text \in Seq(Tokens) /\ at \in 0 .. Len(text) /\ Len(text) \in Nat
      BY DEF StandsAt, ReaderTypes, Parsed
    <3>3. at < Len(text)
      BY <1>2, <2>1, <3>2, SkippedAt DEF R!Here
    <3> QED BY <2>1, <3>1, <3>2, <3>3, SkippedAt DEF R!Here, R!KindAt
  <2> QED BY <2>1, AtHere DEF ValueAt
<1>4. r[at].want = "value" \/ (Within(r[at], FALSE) /\ r[at].want \in {"first", "item"})
  BY DEF ValueAt, ValueFits
<1> QED BY <1>2, <1>3, <1>4 DEF Takes, Within, R!Scalars

LEMMA EnteredFrames ==
    ASSUME NEW a, ReaderTypes, SlotAt(nesting, a)
    PROVE  /\ R!Entered \in Seq(OpenFrame) /\ Len(R!Entered) = Len(nesting)
           /\ R!Entered # <<>> /\ ShapeOf(R!Entered) = ShapeOf(nesting)
           /\ R!Entered[Len(nesting)].is_object = R!Innermost.is_object
           /\ \A k \in 1 .. Len(nesting) : ~R!Entered[k].first
<1> DEFINE n == Len(nesting)
           f == nesting[n]
           g == [f EXCEPT !.first = FALSE]
<1>0. /\ nesting \in Seq(OpenFrame) /\ n \in Nat /\ n \in 1 .. n /\ f \in OpenFrame
      /\ n # 0
  BY OpenFields DEF ReaderTypes, SlotAt
<1>1. g \in OpenFrame /\ g.is_object = f.is_object /\ g.first = FALSE
  BY <1>0 DEF OpenFrame
<1>2. R!Entered = [nesting EXCEPT ![n] = g]
  BY DEF R!Entered
<1> HIDE DEF f, g
<1>3. /\ R!Entered \in Seq(OpenFrame) /\ Len(R!Entered) = n /\ R!Entered[n] = g
      /\ \A i \in 1 .. n : i # n => R!Entered[i] = nesting[i]
  BY <1>0, <1>1, <1>2, Replaced
<1>4. \A i \in 1 .. n : R!Entered[i].is_object = nesting[i].is_object
  BY <1>1, <1>3 DEF f
<1>5. \A i \in 1 .. n : ~R!Entered[i].first
  <2> TAKE i \in 1 .. n
  <2>1. i # n => i \in 1 .. n - 1
    BY <1>0
  <2> QED BY <1>1, <1>3, <2>1 DEF SlotAt
<1>6. ShapeOf(R!Entered) = ShapeOf(nesting)
  BY <1>3, <1>4 DEF ShapeOf
<1>7. R!Entered # <<>>
  BY <1>0, <1>3
<1> QED BY <1>1, <1>3, <1>5, <1>6, <1>7 DEF R!Innermost, f

LEMMA NoItemSound ==
    ASSUME NEW r, NEW n, StandsAt(r, n), SlotAt(nesting, r[at]), R!Ends, R!NoItem
    PROVE  /\ Moves(r, n) /\ CloseAt(nesting', at', r[at'])
           /\ nesting' = R!Entered /\ answer'.call = "end" /\ R!SkipTo("close")
<1>1. /\ at' = R!Here /\ nesting' = R!Entered /\ text' = text
      /\ answer' = [call |-> "end", ok |-> TRUE] /\ R!SkipTo("close")
  BY DEF R!NoItem, R!Return
<1>2. R!Here \in at .. n /\ at \in Nat /\ n \in Nat /\ r[R!Here] = r[at]
      /\ R!Current = R!KindAt(R!Here)
  BY AtHere
<1>3. ReaderTypes /\ ShapeOf(nesting) = r[at].shape /\ at \in 0 .. n
  BY DEF StandsAt
<1>4. /\ R!Entered \in Seq(OpenFrame) /\ Len(R!Entered) = Len(nesting)
      /\ R!Entered # <<>> /\ ShapeOf(R!Entered) = ShapeOf(nesting)
      /\ R!Entered[Len(nesting)].is_object = R!Innermost.is_object
      /\ \A k \in 1 .. Len(nesting) : ~R!Entered[k].first
  BY <1>3, EnteredFrames
<1>5. Moves(r, n)
  BY <1>1, <1>2, <1>3, <1>4 DEF Moves
<1>6. r[at].want \in {"first", "next"}
  BY DEF SlotAt
<1>7. CloseAt(nesting', at', r[at'])
  BY <1>1, <1>2, <1>4, <1>6 DEF CloseAt, R!Ends, R!Closing
<1> QED BY <1>1, <1>5, <1>7

\* Where the item starts that separated() looks for.
LEMMA ItemPlace ==
    ASSUME NEW r, NEW n, StandsAt(r, n), SlotAt(nesting, r[at]), ~R!Ends, R!Separated
    PROVE  /\ R!ItemAt \in at .. n /\ R!ItemAt \in Nat
           /\ r[R!ItemAt] = Place(r[at].shape, IF R!Innermost.first THEN "first" ELSE "item")
           /\ R!KindAt(R!ItemAt) \notin {"space", R!Closing}
           /\ Whole => R!KindAt(R!ItemAt) \notin {"end", "broken"}
<1>0. /\ R!Here \in at .. n /\ R!Here \in Nat /\ at \in Nat /\ n \in Nat
      /\ r[R!Here] = r[at] /\ Good(r[at])
      /\ R!Current = R!KindAt(R!Here) /\ R!Current # "space"
      /\ r[at].want # "done"
      /\ Whole => R!Current \notin {"end", "broken"}
  BY AtHere DEF SlotAt
<1>p. r[at] = Place(r[at].shape, r[at].want)
  BY <1>0 DEF Good, Places, Place
<1>1. CASE R!Innermost.first
  <2>1. R!ItemAt = R!Here
    BY <1>1 DEF R!ItemAt
  <2>2. r[at].want = "first"
    BY <1>1 DEF SlotAt, R!Innermost
  <2> QED BY <1>0, <1>1, <1>p, <2>1, <2>2 DEF R!Ends
<1>2. CASE ~R!Innermost.first
  <2>1. /\ R!ItemAt = R!Skipped(R!Here + 1) /\ R!Current = "comma"
        /\ R!KindAt(R!ItemAt) # R!Closing
    BY <1>2 DEF R!ItemAt, R!Separated
  <2>2. /\ R!Here + 1 \in 0 .. n /\ text[R!Here + 1].kind = "comma"
        /\ Takes(text[R!Here + 1], r[at], r[R!Here + 1])
    BY <2>1, AtHere
  <2>3. r[R!Here + 1] = Place(r[at].shape, "item")
    BY <2>2 DEF Takes, R!Scalars
  <2>4. r[R!Here + 1].want # "done"
    BY <2>3, PlaceFields
  <2>5. text \in Seq(Tokens) /\ Parsed(r, n)
    BY DEF StandsAt, ReaderTypes
  <2>6. /\ R!ItemAt \in R!Here + 1 .. n /\ R!ItemAt \in Nat /\ r[R!ItemAt] = r[R!Here + 1]
        /\ R!KindAt(R!ItemAt) # "space"
        /\ Whole => R!KindAt(R!ItemAt) \notin {"end", "broken"}
    BY <2>1, <2>2, <2>4, <2>5, NextToken
  <2>7. R!ItemAt \in at .. n
    BY <1>0, <2>6
  <2> QED BY <1>2, <2>1, <2>3, <2>6, <2>7
<1> QED BY <1>1, <1>2

\* In a whole text an item follows where the container does not end.
LEMMA WholeItem ==
    ASSUME NEW r, NEW n, StandsAt(r, n), SlotAt(nesting, r[at]), ~R!Ends, Whole
    PROVE  R!Separated
<1>0. /\ Good(r[at]) /\ R!Current = R!KindAt(R!Here) /\ R!Current # "space"
      /\ r[at].want # "done" /\ n \in Nat
  BY AtHere DEF SlotAt
<1>1. /\ R!Current \notin {"end", "broken"} /\ R!Here + 1 \in 0 .. n
      /\ text[R!Here + 1].kind = R!Current
      /\ Takes(text[R!Here + 1], r[at], r[R!Here + 1])
  BY <1>0, AtHere
<1>2. SUFFICES ASSUME ~R!Innermost.first
      PROVE  R!Current = "comma" /\ R!KindAt(R!ItemAt) # R!Closing
  BY DEF R!Separated
<1>3. r[at].want = "next"
  BY <1>2 DEF SlotAt, R!Innermost
<1>4. /\ nesting \in Seq(OpenFrame) /\ nesting # <<>> /\ ShapeOf(nesting) = r[at].shape
      /\ text \in Seq(Tokens) /\ Parsed(r, n)
  BY DEF StandsAt, ReaderTypes, SlotAt
<1>5. /\ r[at].shape[Len(r[at].shape)] = R!Innermost.is_object
      /\ R!Innermost.is_object \in BOOLEAN /\ r[at].shape # <<>>
  BY <1>4, OpenFields DEF R!Innermost
<1>6. R!Current = "comma"
  <2>1. R!Current # R!Closing
    BY DEF R!Ends
  <2> QED BY <1>0, <1>1, <1>3, <1>5, <2>1 DEF Takes, R!Scalars, ValueFits, Within, R!Closing
<1>7. r[R!Here + 1] = Place(r[at].shape, "item")
  BY <1>1, <1>6 DEF Takes, R!Scalars
<1>8. r[R!Here + 1].want = "item"
  BY <1>7 DEF Place
<1>9. R!ItemAt = R!Skipped(R!Here + 1)
  BY <1>2 DEF R!ItemAt
<1>10. R!KindAt(R!ItemAt) \notin {"end", "broken"}
  BY <1>1, <1>4, <1>8, <1>9, NextToken
<1>11. /\ text[R!ItemAt + 1].kind = R!KindAt(R!ItemAt)
       /\ Takes(text[R!ItemAt + 1], r[R!Here + 1], r[R!ItemAt + 1])
  BY <1>1, <1>4, <1>9, <1>10, NextToken
<1>12. R!KindAt(R!ItemAt) \notin {"array_end", "object_end"}
  BY <1>8, <1>11 DEF Takes, R!Scalars
<1> QED BY <1>6, <1>12 DEF R!Closing

\* next_element() and next_key() stop in front of a value, or in front of the
\* bracket that closes, or throw; in a whole text they do not throw.
Slotted(r, n) ==
    \/ ~Whole /\ \E call : R!Fail(call)
    \/ /\ Moves(r, n) /\ CloseAt(nesting', at', r[at']) /\ answer'.call = "end"
       /\ nesting' = R!Entered /\ R!SkipTo("close")
    \/ /\ Moves(r, n) /\ ValueAt(nesting', at', r[at']) /\ answer'.call # "end"
       /\ nesting' = R!Entered /\ R!SkipTo("value")

LEMMA ElementSound ==
    ASSUME NEW r, NEW n, StandsAt(r, n), SlotAt(nesting, r[at]),
           R!Inside(FALSE), R!next_element
    PROVE  Slotted(r, n)
<1>1. CASE R!Ends
  <2>1. R!NoItem
    BY <1>1 DEF R!next_element
  <2> QED BY <1>1, <2>1, NoItemSound DEF Slotted
<1>2. CASE ~R!Ends /\ ~R!Separated
  <2>1. R!Fail("element")
    BY <1>2 DEF R!next_element
  <2>2. ~Whole
    BY <1>2, WholeItem
  <2> QED BY <2>1, <2>2 DEF Slotted
<1>3. CASE ~R!Ends /\ R!Separated
  <2>1. /\ at' = R!ItemAt /\ nesting' = R!Entered /\ text' = text
        /\ answer' = [call |-> "element", ok |-> TRUE] /\ R!SkipTo("value")
    BY <1>3 DEF R!next_element, R!Return
  <2>2. /\ R!ItemAt \in at .. n /\ R!ItemAt \in Nat
        /\ r[R!ItemAt] = Place(r[at].shape, IF R!Innermost.first THEN "first" ELSE "item")
        /\ R!KindAt(R!ItemAt) \notin {"space", R!Closing}
    BY <1>3, ItemPlace
  <2>3. /\ ReaderTypes /\ ShapeOf(nesting) = r[at].shape /\ at \in 0 .. n /\ at \in Nat
        /\ n \in Nat /\ nesting \in Seq(OpenFrame) /\ nesting # <<>>
    BY DEF StandsAt, ReaderTypes, SlotAt, Parsed
  <2>4. /\ R!Entered \in Seq(OpenFrame) /\ Len(R!Entered) = Len(nesting)
        /\ ShapeOf(R!Entered) = ShapeOf(nesting)
        /\ \A k \in 1 .. Len(nesting) : ~R!Entered[k].first
    BY <2>3, EnteredFrames
  <2>5. r[R!ItemAt].shape = r[at].shape /\ r[R!ItemAt].want \in {"first", "item"}
    BY <2>2 DEF Place
  <2>6. R!ItemAt \in 0 .. n /\ at <= R!ItemAt
    BY <2>2, <2>3
  <2>7. Moves(r, n)
    BY <2>1, <2>3, <2>4, <2>5, <2>6 DEF Moves
  <2>8. R!Innermost.is_object = FALSE
    BY DEF R!Inside
  <2>9. Within(r[R!ItemAt], FALSE)
    BY <2>3, <2>5, <2>8, OpenFields DEF Within, R!Innermost
  <2>10. ValueAt(nesting', at', r[at'])
    BY <2>1, <2>2, <2>4, <2>5, <2>8, <2>9 DEF ValueAt, ValueFits, R!Closing
  <2> QED BY <2>1, <2>7, <2>10 DEF Slotted
<1> QED BY <1>1, <1>2, <1>3

\* Behind a key there is a colon, and behind the colon a value is due.
LEMMA ColonPlace ==
    ASSUME NEW r, NEW n, StandsAt(r, n), SlotAt(nesting, r[at]), R!Inside(TRUE),
           ~R!Ends, R!Separated
    PROVE  /\ Whole => R!KeyFollows
           /\ R!KeyFollows =>
                  /\ R!Colon + 1 \in 0 .. n /\ at <= R!Colon + 1
                  /\ r[R!Colon + 1] = Place(r[at].shape, "value")
<1>1. /\ R!ItemAt \in at .. n /\ R!ItemAt \in Nat
      /\ r[R!ItemAt] = Place(r[at].shape, IF R!Innermost.first THEN "first" ELSE "item")
      /\ R!KindAt(R!ItemAt) \notin {"space", R!Closing}
      /\ Whole => R!KindAt(R!ItemAt) \notin {"end", "broken"}
  BY ItemPlace
<1>2. /\ text \in Seq(Tokens) /\ Parsed(r, n) /\ n \in Nat /\ at \in Nat
      /\ nesting \in Seq(OpenFrame) /\ nesting # <<>> /\ ShapeOf(nesting) = r[at].shape
  BY DEF StandsAt, ReaderTypes, Parsed, SlotAt
<1>3. /\ r[R!ItemAt].shape = r[at].shape /\ r[R!ItemAt].want \in {"first", "item"}
      /\ R!ItemAt \in 0 .. n
  BY <1>1, <1>2 DEF Place
<1>4. R!Innermost.is_object = TRUE /\ R!Closing = "object_end"
  BY DEF R!Inside, R!Closing
<1>5. /\ r[R!ItemAt].shape[Len(r[R!ItemAt].shape)] = TRUE
  BY <1>2, <1>3, <1>4, OpenFields DEF R!Innermost
<1>6. R!Skipped(R!ItemAt) = R!ItemAt \/ R!KindAt(R!ItemAt) = "end"
  <2>1. R!ItemAt \in 0 .. Len(text) /\ Len(text) \in Nat
    BY <1>2, <1>3 DEF Parsed
  <2> QED BY <1>1, <1>2, <2>1, SkippedAt DEF R!KindAt
<1>7. ASSUME R!KindAt(R!ItemAt) \notin {"end", "broken"}
      PROVE  /\ R!ItemAt + 1 \in 0 .. n /\ R!KindAt(R!ItemAt) = "string"
             /\ r[R!ItemAt + 1] = Place(r[at].shape, "colon")
  <2>1. R!Skipped(R!ItemAt) = R!ItemAt
    BY <1>6, <1>7
  <2>2. /\ R!ItemAt + 1 \in 0 .. n /\ text[R!ItemAt + 1].kind = R!KindAt(R!ItemAt)
        /\ Takes(text[R!ItemAt + 1], r[R!ItemAt], r[R!ItemAt + 1])
    BY <1>2, <1>3, <1>7, <2>1, NextToken
  <2>3. text[R!ItemAt + 1].kind \notin {"space", "object_end"}
    BY <1>1, <1>4, <2>2
  <2>4. ~Within(r[R!ItemAt], FALSE)
    BY <1>5 DEF Within
  <2>5. ~ValueFits(r[R!ItemAt])
    BY <1>3, <2>4 DEF ValueFits
  <2>6. /\ text[R!ItemAt + 1].kind = "string"
        /\ r[R!ItemAt + 1] = Place(r[R!ItemAt].shape, "colon")
    BY <1>3, <2>2, <2>3, <2>4, <2>5 DEF Takes, R!Scalars
  <2> QED BY <1>3, <2>2, <2>6
<1>8. ASSUME R!KindAt(R!ItemAt) \notin {"end", "broken"}
      PROVE  /\ R!Colon \in R!ItemAt + 1 .. n /\ R!Colon \in Nat
             /\ Whole => R!KindAt(R!Colon) = "colon"
             /\ R!KindAt(R!Colon) = "colon" =>
                    /\ R!Colon + 1 \in 0 .. n
                    /\ r[R!Colon + 1] = Place(r[at].shape, "value")
  <2>1. /\ R!ItemAt + 1 \in 0 .. n
        /\ r[R!ItemAt + 1].shape = r[at].shape /\ r[R!ItemAt + 1].want = "colon"
    BY <1>7, <1>8 DEF Place
  <2>2. /\ R!Colon \in R!ItemAt + 1 .. n /\ R!Colon \in Nat
        /\ R!KindAt(R!Colon) # "space"
        /\ R!KindAt(R!Colon) \notin {"end", "broken"} =>
               /\ R!Colon + 1 \in 0 .. n /\ text[R!Colon + 1].kind = R!KindAt(R!Colon)
               /\ Takes(text[R!Colon + 1], r[R!ItemAt + 1], r[R!Colon + 1])
        /\ Whole => R!KindAt(R!Colon) \notin {"end", "broken"}
    BY <1>2, <2>1, NextToken DEF R!Colon
  <2>3. ASSUME R!KindAt(R!Colon) \notin {"end", "broken"}
        PROVE  /\ R!KindAt(R!Colon) = "colon"
               /\ r[R!Colon + 1] = Place(r[at].shape, "value")
    <3>1. /\ text[R!Colon + 1].kind = R!KindAt(R!Colon)
          /\ Takes(text[R!Colon + 1], r[R!ItemAt + 1], r[R!Colon + 1])
      BY <2>2, <2>3
    <3> QED BY <2>1, <2>2, <3>1 DEF Takes, R!Scalars, ValueFits
  <2> QED BY <2>2, <2>3
<1>9. R!KeyFollows <=> R!KindAt(R!ItemAt) = "string" /\ R!KindAt(R!Colon) = "colon"
  BY DEF R!KeyFollows
<1>10. ASSUME Whole PROVE R!KeyFollows
  <2>1. R!KindAt(R!ItemAt) \notin {"end", "broken"}
    BY <1>1, <1>10
  <2> QED BY <1>7, <1>8, <1>9, <1>10, <2>1
<1>11. ASSUME R!KeyFollows
       PROVE  /\ R!Colon + 1 \in 0 .. n /\ at <= R!Colon + 1
              /\ r[R!Colon + 1] = Place(r[at].shape, "value")
  <2>1. R!KindAt(R!ItemAt) \notin {"end", "broken"} /\ R!KindAt(R!Colon) = "colon"
    BY <1>9, <1>11
  <2>2. /\ R!Colon \in R!ItemAt + 1 .. n /\ R!Colon \in Nat /\ R!Colon + 1 \in 0 .. n
        /\ r[R!Colon + 1] = Place(r[at].shape, "value")
    BY <1>8, <2>1
  <2>3. at <= R!Colon + 1
    BY <1>1, <1>2, <2>2
  <2> QED BY <2>2, <2>3
<1> QED BY <1>10, <1>11

LEMMA NextKeySound ==
    ASSUME NEW r, NEW n, StandsAt(r, n), SlotAt(nesting, r[at]),
           R!Inside(TRUE), R!next_key
    PROVE  Slotted(r, n)
<1>1. CASE R!Ends
  <2>1. R!NoItem
    BY <1>1 DEF R!next_key
  <2> QED BY <1>1, <2>1, NoItemSound DEF Slotted
<1>2. CASE ~R!Ends /\ ~(R!Separated /\ R!KeyFollows)
  <2>1. R!Fail("key")
    BY <1>2 DEF R!next_key
  <2>2. ~Whole
    BY <1>2, WholeItem, ColonPlace
  <2> QED BY <2>1, <2>2 DEF Slotted
<1>3. CASE ~R!Ends /\ R!Separated /\ R!KeyFollows
  <2>1. /\ at' = R!Colon + 1 /\ nesting' = R!Entered /\ text' = text
        /\ answer' = [call |-> "key", ok |-> TRUE] /\ R!SkipTo("value")
    BY <1>3 DEF R!next_key, R!Return
  <2>2. /\ R!Colon + 1 \in 0 .. n /\ at <= R!Colon + 1
        /\ r[R!Colon + 1] = Place(r[at].shape, "value")
    BY <1>3, ColonPlace
  <2>3. ReaderTypes /\ ShapeOf(nesting) = r[at].shape
    BY DEF StandsAt
  <2>4. /\ R!Entered \in Seq(OpenFrame) /\ Len(R!Entered) = Len(nesting)
        /\ ShapeOf(R!Entered) = ShapeOf(nesting)
        /\ \A k \in 1 .. Len(nesting) : ~R!Entered[k].first
    BY <2>3, EnteredFrames
  <2>5. r[at'].shape = r[at].shape /\ r[at'].want = "value"
    BY <2>1, <2>2 DEF Place
  <2>6. Moves(r, n)
    BY <2>1, <2>2, <2>3, <2>4, <2>5 DEF Moves
  <2>7. ValueAt(nesting', at', r[at'])
    BY <2>1, <2>4, <2>5 DEF ValueAt, ValueFits
  <2> QED BY <2>1, <2>6, <2>7 DEF Slotted
<1> QED BY <1>1, <1>2, <1>3

\* end_array() and end_object() close what next_element() and next_key() left.
LEMMA EndSound ==
    ASSUME NEW r, NEW n, StandsAt(r, n), CloseAt(nesting, at, r[at]),
           NEW is_object \in BOOLEAN, R!Inside(is_object), R!End(is_object)
    PROVE  /\ Moves(r, n) /\ Settled(nesting', r[at']) /\ at < at'
           /\ Len(nesting') = Len(nesting) - 1 /\ R!Behind(nesting')
<1> DEFINE m == Len(nesting)
           rest == SubSeq(nesting, 1, m - 1)
           S == ShapeOf(nesting)
<1>0. /\ nesting \in Seq(OpenFrame) /\ nesting # <<>> /\ S = r[at].shape
      /\ text \in Seq(Tokens) /\ Parsed(r, n) /\ at \in 0 .. n /\ n \in Nat
      /\ at \in 0 .. Len(text) /\ Len(text) \in Nat
      /\ r[at].want \in {"first", "next"}
      /\ R!Innermost.is_object = is_object
  BY DEF StandsAt, ReaderTypes, Parsed, CloseAt, R!Inside
<1>1. /\ m \in Nat /\ m \in 1 .. m /\ S \in Seq(BOOLEAN) /\ Len(S) = m /\ S[m] = is_object
      /\ \A i \in 1 .. m : S[i] = nesting[i].is_object
  BY <1>0, OpenFields DEF R!Innermost
<1>2. R!KindAt(at) = R!Closing /\ R!Closing = IF is_object THEN "object_end" ELSE "array_end"
  BY <1>0 DEF CloseAt, R!Closing, R!Innermost
<1>3. at < Len(text) /\ text[at + 1].kind # "space"
  BY <1>2 DEF R!KindAt
<1>4. R!Skipped(at) = at
  BY <1>0, <1>3, SkippedAt
<1>5. R!Here = at /\ R!Current = R!Closing
  BY <1>2, <1>4 DEF R!Here, R!Current
<1>6. /\ at + 1 \in 0 .. n /\ text[at + 1].kind = R!Closing
      /\ Takes(text[at + 1], r[at], r[at + 1])
  BY <1>0, <1>2, <1>4, NextToken
<1>7. /\ at' = at + 1 /\ nesting' = rest /\ text' = text
      /\ answer' = [call |-> "close", ok |-> TRUE] /\ R!Behind(rest)
  BY <1>5 DEF R!End, R!Return
<1> HIDE DEF S
<1>8. r[at + 1] = After(SubSeq(S, 1, m - 1))
  BY <1>0, <1>1, <1>2, <1>6 DEF Takes, R!Scalars
<1>9. /\ SubSeq(S, 1, m - 1) \in Seq(BOOLEAN) /\ Len(SubSeq(S, 1, m - 1)) = m - 1
      /\ \A i \in 1 .. m - 1 : SubSeq(S, 1, m - 1)[i] = S[i]
  BY <1>1
<1>10. /\ rest \in Seq(OpenFrame) /\ Len(rest) = m - 1
       /\ \A i \in 1 .. m - 1 : rest[i] = nesting[i]
  BY <1>0, Shortened
<1> HIDE DEF rest
<1>11. ShapeOf(rest) = SubSeq(S, 1, m - 1)
  <2>1. /\ ShapeOf(rest) \in Seq(BOOLEAN) /\ Len(ShapeOf(rest)) = m - 1
        /\ \A i \in 1 .. m - 1 : ShapeOf(rest)[i] = rest[i].is_object
    BY <1>10, OpenFields
  <2>2. \A i \in 1 .. m - 1 : ShapeOf(rest)[i] = SubSeq(S, 1, m - 1)[i]
    <3> TAKE i \in 1 .. m - 1
    <3>1. i \in 1 .. m
      BY <1>1
    <3> QED BY <1>1, <1>9, <1>10, <2>1, <3>1
  <2> QED BY <1>9, <2>1, <2>2, SeqEqual
<1>12. r[at'].shape = ShapeOf(rest)
       /\ r[at'].want = IF ShapeOf(rest) = <<>> THEN "done" ELSE "next"
  BY <1>7, <1>8, <1>11 DEF After, Place
<1>13. Settled(rest, r[at'])
  <2>1. rest = <<>> <=> ShapeOf(rest) = <<>>
    BY <1>10, OpenFields
  <2>2. rest # <<>> => m - 1 \in 1 .. m - 1
    BY <1>1, <1>10
  <2>3. \A k \in 1 .. m - 1 : ~rest[k].first
    <3> TAKE k \in 1 .. m - 1
    <3>1. k \in 1 .. m
      BY <1>1
    <3> QED BY <1>10, <3>1 DEF CloseAt
  <2>4. \A k \in 1 .. (m - 1) - 1 : k \in 1 .. m - 1
    BY <1>1
  <2> QED BY <1>10, <1>12, <2>1, <2>2, <2>3, <2>4 DEF Settled, SlotAt
<1>14. at < at' /\ at <= at' /\ at' \in 0 .. n
  BY <1>0, <1>6, <1>7
<1> QED BY <1>7, <1>10, <1>12, <1>13, <1>14 DEF Moves

-----------------------------------------------------------------------------
(* The invariant.                                                          *)

\* Each place in the protocol agrees with the place in the grammar, also
\* inside skip_value, which closes only what it opened itself.
Reading(r, n) ==
    /\ StandsAt(r, n)
    /\ due \in {"value", "skip", "slot", "close", "finish", "accepted", "thrown"}
    /\ due = "skip" <=> skipping.at # "idle"
    /\ due = "value" \/ skipping.at = "value" => ValueAt(nesting, at, r[at])
    /\ due = "slot" \/ skipping.at = "slot" => SlotAt(nesting, r[at])
    /\ due = "close" \/ skipping.at = "close" => CloseAt(nesting, at, r[at])
    /\ due = "skip" => skipping.depth <= Len(nesting)
    /\ skipping.at \in {"slot", "close"} => skipping.depth < Len(nesting)
    /\ due = "finish" => nesting = <<>>
    /\ due \in {"finish", "accepted"} => r[at].want = "done"
    /\ due = "thrown" /\ Whole => answer.call \in {"uint", "bytes"}

JsonInv ==
    /\ WriterInv
    /\ due = "document" =>
           text = <<>> /\ at = 0 /\ nesting = <<>> /\ skipping = R!NotSkipping
    /\ due # "document" => \E r, n : Reading(r, n)

LEMMA StandsKept ==
    ASSUME NEW r, NEW n, StandsAt(r, n), UNCHANGED writing, text' = text,
           at' \in 0 .. n, nesting' \in Seq(OpenFrame), ShapeOf(nesting') = r[at'].shape,
           skipping' \in [at : {"idle", "value", "slot", "close"}, depth : Nat]
    PROVE  StandsAt(r, n)'
<1>1. Whole' <=> Whole
  BY DEF writing, Whole, W!complete
<1>2. Parsed(r, n)'
  BY <1>1 DEF StandsAt, Parsed, Run
<1>3. ReaderTypes'
  BY DEF StandsAt, ReaderTypes
<1> QED BY <1>2, <1>3 DEF StandsAt

LEMMA LessLeft ==
    ASSUME NEW r, NEW n, StandsAt(r, n), text' = text, at' \in 0 .. n,
           nesting' \in Seq(OpenFrame),
           Left' < Left + 8 * (at' - at) + 4 * (Len(nesting) - Len(nesting'))
    PROVE  Remaining' < Remaining
<1>1. /\ at \in Int /\ at' \in Int /\ Len(text) \in Int /\ Len(text') = Len(text)
      /\ Len(nesting) \in Int /\ Len(nesting') \in Int
  BY OpenFields DEF StandsAt, ReaderTypes, Parsed
<1>2. Left \in Int /\ Left' \in Int
  <2>1. Left \in 0 .. 4 /\ Left' \in 0 .. 4
    BY DEF Left
  <2> QED BY <2>1
<1>3. ASSUME NEW l \in Int, NEW m \in Int, NEW k \in Int, NEW p \in Int, NEW q \in Int,
             NEW x \in Int, NEW y \in Int, y < x + 8 * (q - p) + 4 * (m - k)
      PROVE  8 * (l - q) + 4 * k + y < 8 * (l - p) + 4 * m + x
  BY <1>3
<1>4. 8 * (Len(text) - at') + 4 * Len(nesting') + Left'
          < 8 * (Len(text) - at) + 4 * Len(nesting) + Left
  BY <1>1, <1>2, <1>3
<1> QED BY <1>1, <1>4 DEF Remaining

\* A token has been read, and at most one container was opened.
LEMMA Further ==
    ASSUME NEW r, NEW n, StandsAt(r, n), Moves(r, n), at < at',
           Len(nesting') <= Len(nesting) + 1, due \in {"value", "close", "skip"}
    PROVE  Remaining' < Remaining
<1>1. Left \in 2 .. 4 /\ Left' \in 0 .. 4
  BY DEF Left
<1>2. at \in Int /\ at' \in Int /\ Len(nesting) \in Int /\ Len(nesting') \in Int
  BY OpenFields DEF StandsAt, ReaderTypes, Parsed, Moves
<1>3. Left' < Left + 8 * (at' - at) + 4 * (Len(nesting) - Len(nesting'))
  BY <1>1, <1>2
<1> QED BY <1>3, LessLeft DEF Moves

LEMMA FailReading ==
    ASSUME NEW r, NEW n, StandsAt(r, n), UNCHANGED writing, NEW call, R!Fail(call),
           Whole => call \in {"uint", "bytes"}, due' = "thrown",
           due \in {"value", "close", "skip", "slot"}
    PROVE  Reading(r, n)' /\ Remaining' < Remaining
<1>1. /\ answer' = [call |-> call, ok |-> FALSE] /\ skipping' = R!NotSkipping
      /\ text' = text /\ at' = at /\ nesting' = nesting
  BY DEF R!Fail
<1>2. skipping' = [at |-> "idle", depth |-> 0]
  BY <1>1 DEF R!NotSkipping
<1>3. skipping' \in [at : {"idle", "value", "slot", "close"}, depth : Nat]
  BY <1>2
<1>4. StandsAt(r, n)'
  BY <1>1, <1>3, StandsKept DEF StandsAt, ReaderTypes
<1>5. Whole' <=> Whole
  BY <1>1 DEF writing, Whole, W!complete
<1>6. skipping'.at = "idle" /\ answer'.call = call
  BY <1>1, <1>2
<1>7. Remaining' < Remaining
  <2>1. Left \in 2 .. 4 /\ Left' = 0
    BY DEF Left
  <2>2. /\ at' \in 0 .. n /\ at' - at = 0 /\ Len(nesting) - Len(nesting') = 0
        /\ nesting' \in Seq(OpenFrame)
    BY <1>1, OpenFields DEF StandsAt, ReaderTypes, Parsed
  <2>3. Left' < Left + 8 * (at' - at) + 4 * (Len(nesting) - Len(nesting'))
    BY <2>1, <2>2
  <2> QED BY <1>1, <2>2, <2>3, LessLeft
<1> QED BY <1>4, <1>5, <1>6, <1>7 DEF Reading

\* A value has been read: the reader goes on in its container or is at the end.
LEMMA SettledReading ==
    ASSUME NEW r, NEW n, StandsAt(r, n), UNCHANGED writing,
           Moves(r, n), Settled(nesting', r[at']), AfterValue,
           skipping' = R!NotSkipping, at < at', Len(nesting') <= Len(nesting) + 1,
           due \in {"value", "close", "skip"}
    PROVE  Reading(r, n)' /\ Remaining' < Remaining
<1>1. skipping' = [at |-> "idle", depth |-> 0]
  BY DEF R!NotSkipping
<1>2. skipping' \in [at : {"idle", "value", "slot", "close"}, depth : Nat]
      /\ skipping'.at = "idle"
  BY <1>1
<1>3. StandsAt(r, n)'
  BY <1>2, StandsKept DEF Moves
<1>4. due' = IF nesting' = <<>> THEN "finish" ELSE "slot"
  BY DEF AfterValue, Moves
<1>f. Remaining' < Remaining
  BY Further
<1>5. CASE nesting' = <<>>
  <2>1. due' = "finish" /\ r[at'].want = "done"
    BY <1>4, <1>5 DEF Settled
  <2> QED BY <1>f, <1>2, <1>3, <1>4, <1>5, <2>1 DEF Reading
<1>6. CASE nesting' # <<>>
  <2>1. due' = "slot" /\ SlotAt(nesting', r[at'])
    BY <1>4, <1>6 DEF Settled
  <2>2. SlotAt(nesting, r[at])'
    BY <2>1 DEF SlotAt
  <2> QED BY <1>f, <1>2, <1>3, <1>4, <2>1, <2>2 DEF Reading
<1> QED BY <1>f, <1>5, <1>6

LEMMA ReadValueSound ==
    ASSUME NEW r, NEW n, Reading(r, n), ReadValue
    PROVE  Reading(r, n)' /\ Remaining' < Remaining
<1>0. /\ due = "value" /\ AfterValue /\ UNCHANGED writing /\ StandsAt(r, n)
      /\ ValueAt(nesting, at, r[at]) /\ R!Idle
  BY DEF Reading, ReadValue, R!Idle
<1>1. ASSUME NEW frames, R!Behind(frames) PROVE skipping' = R!NotSkipping
  BY <1>0, <1>1 DEF R!Behind
<1>2. ASSUME NEW call, R!Current \in R!Scalars, R!Scalar(call, TRUE)
      PROVE  Reading(r, n)' /\ Remaining' < Remaining
  <2>1. /\ Moves(r, n) /\ Settled(nesting', r[at']) /\ at < at' /\ nesting' = nesting
        /\ R!Behind(nesting')
    BY <1>0, <1>2, JsonScalarSound
  <2>2. Len(nesting') <= Len(nesting) + 1
    BY <1>0, <2>1, OpenFields DEF StandsAt, ReaderTypes
  <2> QED BY <1>0, <1>1, <2>1, <2>2, SettledReading
<1>3. ASSUME NEW call, R!Fail(call), Whole => call \in {"uint", "bytes"}
      PROVE  Reading(r, n)' /\ Remaining' < Remaining
  <2>1. answer'.ok = FALSE
    BY <1>3 DEF R!Fail
  <2>2. due' = "thrown"
    BY <1>0, <2>1 DEF AfterValue
  <2> QED BY <1>0, <1>3, <2>2, FailReading
<1>4. ASSUME NEW bracket \in {"array", "object"}, R!Current = bracket, R!Begin(bracket)
      PROVE  Reading(r, n)' /\ Remaining' < Remaining
  <2>1. /\ Moves(r, n) /\ Settled(nesting', r[at']) /\ at < at'
        /\ Len(nesting') = Len(nesting) + 1 /\ R!Behind(nesting')
    BY <1>0, <1>4, JsonBeginSound
  <2>2. Len(nesting') <= Len(nesting) + 1
    BY <1>0, <2>1, OpenFields DEF StandsAt, ReaderTypes
  <2> QED BY <1>0, <1>1, <2>1, <2>2, SettledReading
<1>5. CASE R!Current = "null"
  BY <1>2, <1>5 DEF ReadValue, R!read_null, R!Scalar, R!Scalars
<1>6. CASE R!Current = "bool"
  BY <1>2, <1>6 DEF ReadValue, R!read_bool, R!Scalar, R!Scalars
<1>7. CASE R!Current = "int"
  <2>1. R!read_int \/ R!read_uint \/ R!read_float
    BY <1>7 DEF ReadValue
  <2>2. CASE R!read_int
    BY <1>2, <1>7, <2>2 DEF R!read_int, R!Scalar, R!Scalars
  <2>3. CASE R!read_uint
    <3>1. CASE R!ValueAt(R!Here) >= 0
      BY <1>2, <1>7, <2>3, <3>1 DEF R!read_uint, R!Scalar, R!Scalars
    <3>2. CASE ~(R!ValueAt(R!Here) >= 0)
      BY <1>3, <1>7, <2>3, <3>2 DEF R!read_uint, R!Scalar
    <3> QED BY <3>1, <3>2
  <2>4. CASE R!read_float
    BY <1>2, <1>7, <2>4 DEF R!read_float, R!Scalar, R!Scalars
  <2> QED BY <2>1, <2>2, <2>3, <2>4
<1>8. CASE R!Current = "float"
  BY <1>2, <1>8 DEF ReadValue, R!read_float, R!Scalar, R!Scalars
<1>9. CASE R!Current = "string"
  <2>1. R!read_string \/ R!read_bytes
    BY <1>9 DEF ReadValue
  <2>2. CASE R!read_string
    BY <1>2, <1>9, <2>2 DEF R!read_string, R!Scalar, R!Scalars
  <2>3. CASE R!read_bytes
    <3>1. CASE R!ValueAt(R!Here) = 1
      BY <1>2, <1>9, <2>3, <3>1 DEF R!read_bytes, R!Scalar, R!Scalars
    <3>2. CASE R!ValueAt(R!Here) # 1
      BY <1>3, <1>9, <2>3, <3>2 DEF R!read_bytes, R!Scalar
    <3> QED BY <3>1, <3>2
  <2> QED BY <2>1, <2>2, <2>3
<1>10. CASE R!Current = "array"
  BY <1>4, <1>10 DEF ReadValue, R!begin_array
<1>11. CASE R!Current = "object"
  BY <1>4, <1>11 DEF ReadValue, R!begin_object
<1>12. CASE R!Current \notin R!Scalars \cup {"array", "object"}
  <2>1. R!Fail("peek")
    BY <1>12 DEF ReadValue, R!Scalars
  <2>2. ~Whole
    BY <1>0, <1>12, WholeValue
  <2> QED BY <1>3, <2>1, <2>2
<1> QED
  BY <1>5, <1>6, <1>7, <1>8, <1>9, <1>10, <1>11, <1>12 DEF R!Scalars

LEMMA ReadSlotSound ==
    ASSUME NEW r, NEW n, Reading(r, n), ReadSlot
    PROVE  Reading(r, n)' /\ Remaining' < Remaining
<1>0. /\ due = "slot" /\ UNCHANGED writing /\ StandsAt(r, n)
      /\ SlotAt(nesting, r[at]) /\ R!Idle /\ skipping.at = "idle"
      /\ skipping \in [at : {"idle", "value", "slot", "close"}, depth : Nat]
      /\ due' = IF ~answer'.ok THEN "thrown"
                ELSE IF answer'.call = "end" THEN "close" ELSE "value"
  BY DEF Reading, ReadSlot, R!Idle, StandsAt, ReaderTypes
<1>1. Slotted(r, n)
  <2>1. CASE R!Inside(TRUE)
    BY <1>0, <2>1, NextKeySound DEF ReadSlot
  <2>2. CASE ~R!Inside(TRUE)
    <3>1. nesting \in Seq(OpenFrame) /\ nesting # <<>>
      BY <1>0 DEF StandsAt, ReaderTypes, SlotAt
    <3>2. R!Inside(FALSE)
      BY <2>2, <3>1, OpenFields DEF R!Inside, R!Innermost
    <3> QED BY <1>0, <2>2, <3>2, ElementSound DEF ReadSlot
  <2> QED BY <2>1, <2>2
<1>2. CASE ~Whole /\ \E call : R!Fail(call)
  <2>1. PICK call : R!Fail(call)
    BY <1>2
  <2>2. due' = "thrown"
    BY <1>0, <2>1 DEF R!Fail
  <2> QED BY <1>0, <1>2, <2>1, <2>2, FailReading
<1>3. ASSUME Moves(r, n), NEW where, R!SkipTo(where)
      PROVE  StandsAt(r, n)' /\ skipping' = skipping /\ answer'.ok = TRUE /\ text' = text
  <2>1. skipping' = skipping
    BY <1>0, <1>3 DEF R!SkipTo
  <2> QED BY <1>0, <1>3, <2>1, StandsKept DEF Moves
<1>f. ASSUME Moves(r, n), nesting' = R!Entered, Left' < Left
      PROVE  Remaining' < Remaining
  <2>1. /\ Len(nesting') = Len(nesting) /\ Len(nesting) \in Int
        /\ at \in Int /\ at' \in Int /\ at' \in 0 .. n /\ at <= at'
    BY <1>0, <1>f, EnteredFrames, OpenFields DEF Moves, StandsAt, ReaderTypes, Parsed, SlotAt
  <2>2. Left \in Int /\ Left' \in Int
    <3>1. Left \in 0 .. 4 /\ Left' \in 0 .. 4
      BY DEF Left
    <3> QED BY <3>1
  <2>3. Left' < Left + 8 * (at' - at) + 4 * (Len(nesting) - Len(nesting'))
    <3>1. ASSUME NEW x \in Int, NEW y \in Int, y < x, NEW p \in Int, NEW q \in Int, p <= q,
                 NEW m \in Int
          PROVE  y < x + 8 * (q - p) + 4 * (m - m)
      BY <3>1
    <3> QED BY <1>f, <2>1, <2>2, <3>1
  <2> QED BY <1>0, <1>f, <2>1, <2>3, LessLeft DEF Moves
<1>4. CASE /\ Moves(r, n) /\ CloseAt(nesting', at', r[at']) /\ answer'.call = "end"
           /\ nesting' = R!Entered /\ R!SkipTo("close")
  <2>1. StandsAt(r, n)' /\ skipping' = skipping /\ due' = "close" /\ text' = text
    BY <1>0, <1>3, <1>4
  <2>2. CloseAt(nesting, at, r[at])'
    BY <1>4, <2>1 DEF CloseAt, R!KindAt
  <2>3. Remaining' < Remaining
    <3>1. Left' < Left
      BY <1>0, <2>1 DEF Left
    <3> QED BY <1>f, <1>4, <3>1
  <2> QED BY <1>0, <2>1, <2>2, <2>3 DEF Reading
<1>5. CASE /\ Moves(r, n) /\ ValueAt(nesting', at', r[at']) /\ answer'.call # "end"
           /\ nesting' = R!Entered /\ R!SkipTo("value")
  <2>1. StandsAt(r, n)' /\ skipping' = skipping /\ due' = "value" /\ text' = text
    BY <1>0, <1>3, <1>5
  <2>2. ValueAt(nesting, at, r[at])'
    BY <1>5, <2>1 DEF ValueAt, R!KindAt
  <2>3. Remaining' < Remaining
    <3>1. Left' < Left
      BY <1>0, <2>1 DEF Left
    <3> QED BY <1>f, <1>5, <3>1
  <2> QED BY <1>0, <2>1, <2>2, <2>3 DEF Reading
<1> QED BY <1>1, <1>2, <1>4, <1>5 DEF Slotted

LEMMA ReadCloseSound ==
    ASSUME NEW r, NEW n, Reading(r, n), ReadClose
    PROVE  Reading(r, n)' /\ Remaining' < Remaining
<1>0. /\ due = "close" /\ UNCHANGED writing /\ StandsAt(r, n) /\ AfterValue
      /\ CloseAt(nesting, at, r[at]) /\ R!Idle
  BY DEF Reading, ReadClose, R!Idle
<1>1. /\ Moves(r, n) /\ Settled(nesting', r[at']) /\ R!Behind(nesting')
      /\ at < at' /\ Len(nesting') = Len(nesting) - 1
  <2>1. CASE R!Inside(TRUE)
    BY <1>0, <2>1, EndSound DEF ReadClose, R!end_object
  <2>2. CASE ~R!Inside(TRUE)
    <3>1. nesting \in Seq(OpenFrame) /\ nesting # <<>>
      BY <1>0 DEF StandsAt, ReaderTypes, CloseAt
    <3>2. R!Inside(FALSE)
      BY <2>2, <3>1, OpenFields DEF R!Inside, R!Innermost
    <3> QED BY <1>0, <2>2, <3>2, EndSound DEF ReadClose, R!end_array
  <2> QED BY <2>1, <2>2
<1>2. skipping' = R!NotSkipping
  BY <1>0, <1>1 DEF R!Behind
<1>3. Len(nesting') <= Len(nesting) + 1
  BY <1>0, <1>1, OpenFields DEF StandsAt, ReaderTypes
<1> QED BY <1>0, <1>1, <1>2, <1>3, SettledReading

LEMMA JsonFinishSound ==
    ASSUME NEW r, NEW n, Reading(r, n), Finish
    PROVE  Reading(r, n)' /\ Remaining' < Remaining
<1>0. /\ due = "finish" /\ UNCHANGED writing /\ StandsAt(r, n) /\ skipping.at = "idle"
      /\ r[at].want = "done" /\ text \in Seq(Tokens) /\ Parsed(r, n) /\ at \in 0 .. n
      /\ nesting \in Seq(OpenFrame) /\ ShapeOf(nesting) = r[at].shape
      /\ skipping \in [at : {"idle", "value", "slot", "close"}, depth : Nat]
      /\ due' = IF answer'.ok THEN "accepted" ELSE "thrown"
  BY DEF Reading, Finish, StandsAt, ReaderTypes
<1>1. at = Len(text) /\ Len(text) \in Nat
  BY <1>0 DEF Parsed
<1>2. R!Here = Len(text)
  BY <1>0, <1>1, SkippedAt DEF R!Here
<1>3. /\ answer' = [call |-> "finish", ok |-> TRUE] /\ at' = at /\ nesting' = nesting
      /\ text' = text /\ skipping' = skipping
  BY <1>1, <1>2 DEF Finish, R!finish, R!Return
<1>4. due' = "accepted"
  BY <1>0, <1>3
<1>5. StandsAt(r, n)'
  BY <1>0, <1>3, StandsKept
<1>6. Remaining' < Remaining
  <2>1. Left' < Left /\ Left \in 0 .. 4 /\ Left' \in 0 .. 4
    BY <1>0, <1>4 DEF Left
  <2>2. /\ nesting' \in Seq(OpenFrame) /\ at' \in 0 .. n /\ at' = at /\ nesting' = nesting
        /\ Len(nesting) \in Int /\ at \in Int /\ text' = text
    BY <1>0, <1>3, OpenFields DEF StandsAt, ReaderTypes, Parsed
  <2>3. Left' < Left + 8 * (at' - at) + 4 * (Len(nesting) - Len(nesting'))
    BY <2>1, <2>2
  <2> QED BY <1>0, <2>2, <2>3, LessLeft
<1> QED BY <1>0, <1>3, <1>4, <1>5, <1>6 DEF Reading

LEMMA StartSkipSound ==
    ASSUME NEW r, NEW n, Reading(r, n), StartSkip
    PROVE  Reading(r, n)' /\ Remaining' < Remaining
<1>0. /\ due = "value" /\ UNCHANGED writing /\ StandsAt(r, n)
      /\ ValueAt(nesting, at, r[at]) /\ Len(nesting) \in Nat
      /\ skipping' = [at |-> "value", depth |-> Len(nesting)]
      /\ text' = text /\ at' = at /\ nesting' = nesting /\ due' = "skip"
  BY OpenFields DEF Reading, StartSkip, R!skip_value, StandsAt, ReaderTypes
<1>1. /\ skipping' \in [at : {"idle", "value", "slot", "close"}, depth : Nat]
      /\ skipping'.at = "value" /\ skipping'.depth = Len(nesting)
  BY <1>0
<1>2. StandsAt(r, n)'
  BY <1>0, <1>1, StandsKept DEF StandsAt, ReaderTypes
<1>3. ValueAt(nesting, at, r[at])'
  BY <1>0 DEF ValueAt, R!KindAt
<1>4. (skipping.depth <= Len(nesting))'
  BY <1>0, <1>1
<1>5. Remaining' < Remaining
  <2>1. Left' < Left /\ Left \in 0 .. 4 /\ Left' \in 0 .. 4
    BY <1>0, <1>1 DEF Left
  <2>2. /\ nesting' \in Seq(OpenFrame) /\ at' \in 0 .. n /\ at' = at /\ nesting' = nesting
        /\ Len(nesting) \in Int /\ at \in Int /\ text' = text
    BY <1>0, OpenFields DEF StandsAt, ReaderTypes, Parsed
  <2>3. Left' < Left + 8 * (at' - at) + 4 * (Len(nesting) - Len(nesting'))
    BY <2>1, <2>2
  <2> QED BY <1>0, <2>2, <2>3, LessLeft
<1> QED BY <1>0, <1>1, <1>2, <1>3, <1>4, <1>5 DEF Reading

\* Behind a value inside skip_value: it is done, or it goes on in a container
\* that it opened.
LEMMA SkippedValue ==
    ASSUME NEW r, NEW n, StandsAt(r, n), UNCHANGED writing, due = "skip",
           skipping.at # "idle", skipping.depth <= Len(nesting'),
           at < at', Len(nesting') <= Len(nesting) + 1,
           Moves(r, n), Settled(nesting', r[at']), R!Behind(nesting'),
           IF skipping'.at # "idle" THEN UNCHANGED due ELSE AfterValue
    PROVE  Reading(r, n)' /\ Remaining' < Remaining
<1>0. /\ skipping \in [at : {"idle", "value", "slot", "close"}, depth : Nat]
      /\ nesting' \in Seq(OpenFrame) /\ Len(nesting') \in Nat /\ ~R!Idle
  BY DEF StandsAt, ReaderTypes, Moves, R!Idle
<1>f. Remaining' < Remaining
  BY Further
<1>1. CASE Len(nesting') = skipping.depth
  <2>1. skipping' = R!NotSkipping /\ skipping'.at = "idle"
    BY <1>1 DEF R!Behind, R!NotSkipping
  <2> QED BY <2>1, SettledReading
<1>2. CASE Len(nesting') # skipping.depth
  <2>1. skipping' = [skipping EXCEPT !.at = "slot"]
    BY <1>0, <1>2 DEF R!Behind
  <2>2. /\ skipping' \in [at : {"idle", "value", "slot", "close"}, depth : Nat]
        /\ skipping'.at = "slot" /\ skipping'.depth = skipping.depth
    BY <1>0, <2>1
  <2>3. StandsAt(r, n)' /\ due' = "skip"
    BY <2>2, StandsKept DEF Moves
  <2>4. skipping.depth < Len(nesting') /\ nesting' # <<>>
    BY <1>0, <1>2
  <2>5. SlotAt(nesting, r[at])'
    BY <2>4 DEF Settled, SlotAt
  <2>6. (skipping.depth < Len(nesting))' /\ (skipping.depth <= Len(nesting))'
    BY <1>0, <2>2, <2>4
  <2> QED BY <1>f, <2>2, <2>3, <2>5, <2>6 DEF Reading
<1> QED BY <1>f, <1>1, <1>2

LEMMA SkipValueSound ==
    ASSUME NEW r, NEW n, Reading(r, n), GoOnSkipping, R!SkipValue
    PROVE  Reading(r, n)' /\ Remaining' < Remaining
<1>0. /\ due = "skip" /\ UNCHANGED writing /\ StandsAt(r, n) /\ skipping.at = "value"
      /\ ValueAt(nesting, at, r[at]) /\ skipping.depth <= Len(nesting)
      /\ skipping.depth \in Nat /\ Len(nesting) \in Nat
      /\ IF skipping'.at # "idle" THEN UNCHANGED due ELSE AfterValue
  BY OpenFields DEF Reading, GoOnSkipping, R!SkipValue, StandsAt, ReaderTypes
<1>1. CASE R!Current \in R!Scalars
  <2>1. R!Scalar("skip", TRUE)
    BY <1>1 DEF R!SkipValue, R!Scalars
  <2>2. /\ Moves(r, n) /\ Settled(nesting', r[at']) /\ nesting' = nesting
        /\ R!Behind(nesting') /\ at < at'
    BY <1>0, <1>1, <2>1, JsonScalarSound
  <2>3. Len(nesting') <= Len(nesting) + 1
    BY <1>0, <2>2
  <2> QED BY <1>0, <2>2, <2>3, SkippedValue
<1>2. CASE R!Current \in {"array", "object"}
  <2>1. R!Begin(R!Current)
    BY <1>2 DEF R!SkipValue, R!begin_array, R!begin_object
  <2>2. /\ Moves(r, n) /\ Settled(nesting', r[at']) /\ at < at'
        /\ Len(nesting') = Len(nesting) + 1 /\ R!Behind(nesting')
    BY <1>0, <1>2, <2>1, JsonBeginSound
  <2>3. skipping.depth <= Len(nesting') /\ Len(nesting') <= Len(nesting) + 1
    BY <1>0, <2>2
  <2> QED BY <1>0, <2>2, <2>3, SkippedValue
<1>3. CASE R!Current \notin R!Scalars \cup {"array", "object"}
  <2>1. R!Fail("skip")
    BY <1>3 DEF R!SkipValue, R!Scalar
  <2>2. ~Whole
    BY <1>0, <1>3, WholeValue
  <2>3. due' = "thrown"
    BY <1>0, <2>1 DEF R!Fail, R!NotSkipping, AfterValue
  <2> QED BY <1>0, <2>1, <2>2, <2>3, FailReading
<1> QED BY <1>1, <1>2, <1>3

LEMMA SkipSlotSound ==
    ASSUME NEW r, NEW n, Reading(r, n), GoOnSkipping, R!SkipSlot
    PROVE  Reading(r, n)' /\ Remaining' < Remaining
<1>0. /\ due = "skip" /\ UNCHANGED writing /\ StandsAt(r, n) /\ skipping.at = "slot"
      /\ SlotAt(nesting, r[at]) /\ skipping.depth < Len(nesting) /\ ReaderTypes
      /\ skipping \in [at : {"idle", "value", "slot", "close"}, depth : Nat]
      /\ nesting \in Seq(OpenFrame) /\ Len(nesting) \in Nat /\ nesting # <<>> /\ ~R!Idle
      /\ IF skipping'.at # "idle" THEN UNCHANGED due ELSE AfterValue
  BY OpenFields DEF Reading, GoOnSkipping, R!SkipSlot, StandsAt, ReaderTypes, R!Idle, SlotAt
<1>1. Slotted(r, n)
  <2>1. CASE R!Inside(TRUE)
    BY <1>0, <2>1, NextKeySound DEF R!SkipSlot
  <2>2. CASE ~R!Inside(TRUE)
    <3>1. R!Inside(FALSE)
      BY <1>0, <2>2, OpenFields DEF R!Inside, R!Innermost
    <3> QED BY <1>0, <2>2, <3>1, ElementSound DEF R!SkipSlot
  <2> QED BY <2>1, <2>2
<1>2. CASE ~Whole /\ \E call : R!Fail(call)
  <2>1. PICK call : R!Fail(call)
    BY <1>2
  <2>2. due' = "thrown"
    BY <1>0, <2>1 DEF R!Fail, R!NotSkipping, AfterValue
  <2> QED BY <1>0, <1>2, <2>1, <2>2, FailReading
<1>3. ASSUME Moves(r, n), nesting' = R!Entered, NEW where \in {"value", "close"},
             R!SkipTo(where)
      PROVE  /\ StandsAt(r, n)' /\ skipping'.at = where /\ due' = "skip" /\ text' = text
             /\ (skipping.depth < Len(nesting))' /\ (skipping.depth <= Len(nesting))'
  <2>1. skipping' = [skipping EXCEPT !.at = where]
    BY <1>0, <1>3 DEF R!SkipTo
  <2>2. /\ skipping' \in [at : {"idle", "value", "slot", "close"}, depth : Nat]
        /\ skipping'.at = where /\ skipping'.depth = skipping.depth
    BY <1>0, <2>1
  <2>3. Len(nesting') = Len(nesting)
    BY <1>0, <1>3, EnteredFrames
  <2>4. StandsAt(r, n)'
    BY <1>0, <1>3, <2>2, StandsKept DEF Moves
  <2> QED BY <1>0, <1>3, <2>2, <2>3, <2>4 DEF Moves
<1>f. ASSUME Moves(r, n), nesting' = R!Entered, Left' < Left
      PROVE  Remaining' < Remaining
  <2>1. /\ Len(nesting') = Len(nesting) /\ Len(nesting) \in Int
        /\ at \in Int /\ at' \in Int /\ at' \in 0 .. n /\ at <= at'
    BY <1>0, <1>f, EnteredFrames, OpenFields DEF Moves, StandsAt, ReaderTypes, Parsed, SlotAt
  <2>2. Left \in Int /\ Left' \in Int
    <3>1. Left \in 0 .. 4 /\ Left' \in 0 .. 4
      BY DEF Left
    <3> QED BY <3>1
  <2>3. Left' < Left + 8 * (at' - at) + 4 * (Len(nesting) - Len(nesting'))
    <3>1. ASSUME NEW x \in Int, NEW y \in Int, y < x, NEW p \in Int, NEW q \in Int, p <= q,
                 NEW m \in Int
          PROVE  y < x + 8 * (q - p) + 4 * (m - m)
      BY <3>1
    <3> QED BY <1>f, <2>1, <2>2, <3>1
  <2> QED BY <1>0, <1>f, <2>1, <2>3, LessLeft DEF Moves
<1>4. CASE /\ Moves(r, n) /\ CloseAt(nesting', at', r[at']) /\ nesting' = R!Entered
           /\ R!SkipTo("close")
  <2>1. /\ StandsAt(r, n)' /\ skipping'.at = "close" /\ due' = "skip" /\ text' = text
        /\ (skipping.depth < Len(nesting))' /\ (skipping.depth <= Len(nesting))'
    BY <1>3, <1>4
  <2>2. CloseAt(nesting, at, r[at])'
    BY <1>4, <2>1 DEF CloseAt, R!KindAt
  <2>3. Remaining' < Remaining
    <3>1. Left' < Left
      BY <1>0, <2>1 DEF Left
    <3> QED BY <1>f, <1>4, <3>1
  <2> QED BY <2>1, <2>2, <2>3 DEF Reading
<1>5. CASE /\ Moves(r, n) /\ ValueAt(nesting', at', r[at']) /\ nesting' = R!Entered
           /\ R!SkipTo("value")
  <2>1. /\ StandsAt(r, n)' /\ skipping'.at = "value" /\ due' = "skip" /\ text' = text
        /\ (skipping.depth < Len(nesting))' /\ (skipping.depth <= Len(nesting))'
    BY <1>3, <1>5
  <2>2. ValueAt(nesting, at, r[at])'
    BY <1>5, <2>1 DEF ValueAt, R!KindAt
  <2>3. Remaining' < Remaining
    <3>1. Left' < Left
      BY <1>0, <2>1 DEF Left
    <3> QED BY <1>f, <1>5, <3>1
  <2> QED BY <2>1, <2>2, <2>3 DEF Reading
<1> QED BY <1>1, <1>2, <1>4, <1>5 DEF Slotted

LEMMA SkipCloseSound ==
    ASSUME NEW r, NEW n, Reading(r, n), GoOnSkipping, R!SkipClose
    PROVE  Reading(r, n)' /\ Remaining' < Remaining
<1>0. /\ due = "skip" /\ UNCHANGED writing /\ StandsAt(r, n) /\ skipping.at = "close"
      /\ CloseAt(nesting, at, r[at]) /\ skipping.depth < Len(nesting)
      /\ skipping.depth \in Nat /\ Len(nesting) \in Nat /\ nesting # <<>>
      /\ nesting \in Seq(OpenFrame)
      /\ IF skipping'.at # "idle" THEN UNCHANGED due ELSE AfterValue
  BY OpenFields DEF Reading, GoOnSkipping, R!SkipClose, StandsAt, ReaderTypes, CloseAt
<1>1. /\ Moves(r, n) /\ Settled(nesting', r[at']) /\ R!Behind(nesting')
      /\ at < at' /\ Len(nesting') = Len(nesting) - 1
  <2>1. CASE R!Inside(TRUE)
    BY <1>0, <2>1, EndSound DEF R!SkipClose, R!end_object
  <2>2. CASE ~R!Inside(TRUE)
    <3>1. R!Inside(FALSE)
      BY <1>0, <2>2, OpenFields DEF R!Inside, R!Innermost
    <3> QED BY <1>0, <2>2, <3>1, EndSound DEF R!SkipClose, R!end_array
  <2> QED BY <2>1, <2>2
<1>2. skipping.depth <= Len(nesting') /\ Len(nesting') <= Len(nesting) + 1
  BY <1>0, <1>1
<1> QED BY <1>0, <1>1, <1>2, SkippedValue

LEMMA ReadSound ==
    ASSUME NEW r, NEW n, Reading(r, n), Read
    PROVE  Reading(r, n)' /\ Remaining' < Remaining
<1>1. CASE GoOnSkipping
  BY <1>1, SkipValueSound, SkipSlotSound, SkipCloseSound DEF GoOnSkipping, R!Skip
<1> QED
  BY <1>1, ReadValueSound, ReadSlotSound, ReadCloseSound, JsonFinishSound, StartSkipSound DEF Read

-----------------------------------------------------------------------------
\* What is left of a token that is cut has the class of the token, or nothing
\* can be read of it.
LEMMA CutToken ==
    ASSUME NEW t \in Tokens, NEW c \in Cuts(t)
    PROVE  /\ c \in Tokens
           /\ \/ c.kind = "broken"
              \/ c.kind = "int" /\ t.kind \in R!Scalars \ {"string"}
<1>1. "broken" \in Kinds /\ "int" \in Kinds /\ t.value \in Int
  BY DEF Kinds, R!Scalars, Tokens
<1>2. W!Token("broken", 0) \in Tokens /\ W!Token("broken", 0).kind = "broken"
  BY <1>1, TokenFields
<1>3. CASE t.kind \in {"int", "float"}
  <2>1. c = W!Token("broken", 0) \/ c = W!Token("int", t.value \div 10)
        \/ c = W!Token("int", t.value)
    BY <1>3 DEF Cuts
  <2>2. t.value \div 10 \in Int
    BY <1>1
  <2>3. \A v \in Int : W!Token("int", v) \in Tokens /\ W!Token("int", v).kind = "int"
    BY <1>1, TokenFields
  <2>4. t.kind \in R!Scalars \ {"string"}
    BY <1>3 DEF R!Scalars
  <2> QED BY <1>1, <1>2, <2>1, <2>2, <2>3, <2>4
<1>4. CASE t.kind \in {"null", "bool", "string"}
  <2>1. c = W!Token("broken", 0)
    BY <1>4 DEF Cuts
  <2> QED BY <1>2, <2>1
<1>5. CASE t.kind \notin {"int", "float", "null", "bool", "string"}
  BY <1>5 DEF Cuts
<1> QED BY <1>3, <1>4, <1>5

\* What is behind a place whose text goes on is not done.
LEMMA DoneAtEnd ==
    ASSUME NEW r, NEW s, NEW n \in Nat, Run(r, s, n), NEW p \in 0 .. n, r[p].want = "done"
    PROVE  p = n
<1> SUFFICES ASSUME p # n PROVE FALSE
  OBVIOUS
<1>1. p + 1 \in 1 .. n /\ p + 1 \in 0 .. n /\ (p + 1) - 1 = p
  OBVIOUS
<1>2. Takes(s[p + 1], r[p], r[p + 1]) /\ Good(r[p]) /\ Good(r[p + 1])
  BY <1>1 DEF Run
<1>3. Len(r[p + 1].shape) <= MaxDepth
  BY <1>2 DEF Good
<1> QED BY <1>2, <1>3, TakesGood

LEMMA CompleteDone ==
    ASSUME WriterTypes
    PROVE  W!complete <=> Place(ShapeOf(stack), WantOf(stack, root_started)).want = "done"
  BY PlaceFields DEF W!complete, WantOf

\* Whatever is handed over is parsed up to a token that was cut inside.
LEMMA HandedOver ==
    ASSUME WriterInv, HandOver
    PROVE  \E r, n : Parsed(r, n)' /\ text' \in Seq(Tokens)
<1> DEFINE m == Len(output)
<1>0. /\ WriterTypes /\ Written /\ output \in Seq(Tokens) /\ m \in Nat
      /\ UNCHANGED writing
  BY DEF WriterInv, WriterTypes, HandOver
<1>1. PICK r : Run(r, output, m) /\ r[m] = Place(ShapeOf(stack), WantOf(stack, root_started))
  BY <1>0 DEF Written, Reaches
<1>2. W!complete <=> r[m].want = "done"
  BY <1>0, <1>1, CompleteDone
<1>3. Whole' <=> W!complete /\ text' = output
  BY <1>0 DEF writing, Whole, W!complete
<1>4. PICK k \in 0 .. m :
          \/ text' = SubSeq(output, 1, k)
          \/ k < m /\ \E t \in Cuts(output[k + 1]) : text' = Append(SubSeq(output, 1, k), t)
  BY DEF HandOver
<1>5. /\ SubSeq(output, 1, k) \in Seq(Tokens) /\ Len(SubSeq(output, 1, k)) = k
      /\ \A i \in 1 .. k : SubSeq(output, 1, k)[i] = output[i]
      /\ k = m => SubSeq(output, 1, k) = output
  BY <1>0
<1>6. \A i \in 1 .. m : Takes(output[i], r[i - 1], r[i]) /\ r[i] # Begins /\ Good(r[i - 1])
  BY <1>0, <1>1 DEF Run
<1>7. \A p \in 0 .. m : r[p].want = "done" => p = m
  BY <1>0, <1>1, DoneAtEnd
<1>8. ASSUME NEW n \in 0 .. m, \A i \in 1 .. n : Takes(text'[i], r[i - 1], r[i])
      PROVE  Run(r, text', n)
  BY <1>0, <1>1, <1>8 DEF Run
<1>9. CASE text' = SubSeq(output, 1, k)
  <2>1. Run(r, text', k) /\ Len(text') = k /\ text' \in Seq(Tokens)
    BY <1>0, <1>5, <1>6, <1>8, <1>9
  <2>2. \A p \in 0 .. k : r[p].want = "done" => p = Len(text') /\ Whole'
    <3> SUFFICES ASSUME NEW p \in 0 .. k, r[p].want = "done" PROVE p = Len(text') /\ Whole'
      OBVIOUS
    <3>1. p = m /\ k = m
      BY <1>0, <1>7
    <3> QED BY <1>2, <1>3, <1>5, <1>9, <2>1, <3>1
  <2>3. Whole' => r[k].want = "done"
    BY <1>2, <1>3, <2>1
  <2>4. Parsed(r, k)'
    BY <2>1, <2>2, <2>3 DEF Parsed
  <2> QED BY <2>1, <2>4
<1>10. ASSUME k < m, NEW t \in Cuts(output[k + 1]), text' = Append(SubSeq(output, 1, k), t)
       PROVE  \E n : Parsed(r, n)' /\ text' \in Seq(Tokens)
  <2>0. k + 1 \in 1 .. m /\ (k + 1) - 1 = k /\ output[k + 1] \in Tokens
    BY <1>0, <1>10
  <2>1. /\ t \in Tokens
        /\ t.kind = "broken" \/ (t.kind = "int" /\ output[k + 1].kind \in R!Scalars \ {"string"})
    BY <1>10, <2>0, CutToken
  <2>2. /\ text' \in Seq(Tokens) /\ Len(text') = k + 1 /\ text'[k + 1] = t
        /\ \A i \in 1 .. k : text'[i] = output[i]
    BY <1>0, <1>5, <1>10, <2>1
  <2>3. Takes(output[k + 1], r[k], r[k + 1]) /\ r[k + 1] # Begins /\ Good(r[k])
    BY <1>6, <2>0
  <2>4. CASE t.kind = "broken"
    <3>1. Run(r, text', k)
      BY <1>0, <1>6, <1>8, <2>2
    <3>2. \A p \in 0 .. k : r[p].want # "done"
      BY <1>0, <1>7, <1>10
    <3>3. output[k + 1].kind # "broken"
      BY <2>3 DEF Takes, R!Scalars
    <3>4. ~Whole'
      BY <1>3, <2>2, <2>4, <3>3
    <3>5. Parsed(r, k)'
      BY <1>0, <2>2, <2>4, <3>1, <3>2, <3>4 DEF Parsed
    <3> QED BY <2>2, <3>5
  <2>5. CASE t.kind = "int" /\ output[k + 1].kind \in R!Scalars \ {"string"}
    <3>1. ValueFits(r[k]) /\ r[k + 1] = After(r[k].shape)
      BY <2>3, <2>5 DEF Takes, R!Scalars
    <3>2. Takes(t, r[k], r[k + 1])
      BY <2>5, <3>1 DEF Takes, R!Scalars
    <3>3. Run(r, text', k + 1)
      <4>1. \A i \in 1 .. k + 1 : Takes(text'[i], r[i - 1], r[i])
        <5> TAKE i \in 1 .. k + 1
        <5>1. CASE i = k + 1
          BY <2>0, <2>2, <3>2, <5>1
        <5>2. CASE i \in 1 .. k
          BY <1>0, <1>6, <2>2, <5>2
        <5> QED BY <5>1, <5>2
      <4>2. k + 1 \in 0 .. m
        BY <2>0
      <4> QED BY <1>8, <4>1, <4>2
    <3>4. r[k + 1].want = "done" => k = 0
      <4> SUFFICES ASSUME r[k + 1].want = "done", k # 0 PROVE FALSE
        OBVIOUS
      <4>1. r[k].shape = <<>>
        BY <3>1, PlaceFields DEF After
      <4>2. r[k].want = "value"
        BY <3>1, <4>1 DEF ValueFits, Within
      <4>3. r[k] = Begins
        BY <2>3, <4>1, <4>2 DEF Good, Places, Begins, Place
      <4>4. k \in 1 .. m
        BY <1>0
      <4> QED BY <1>6, <4>3, <4>4
    <3>5. \A p \in 0 .. k + 1 : r[p].want = "done" => p = Len(text') /\ text'[1].kind = "int"
      <4> SUFFICES ASSUME NEW p \in 0 .. k + 1, r[p].want = "done"
                   PROVE  p = Len(text') /\ text'[1].kind = "int"
        OBVIOUS
      <4>1. p = m /\ k + 1 = m
        BY <1>0, <1>7, <2>0
      <4>2. k = 0 /\ k + 1 = 1
        BY <3>4, <4>1
      <4>3. text'[1].kind = "int"
        BY <2>2, <2>5, <4>2
      <4> QED BY <2>2, <4>1, <4>3
    <3>6. Whole' => r[k + 1].want = "done"
      BY <1>2, <1>3, <2>2
    <3>7. Parsed(r, k + 1)'
      <4>1. k + 1 \in 0 .. Len(text')
        BY <2>2
      <4> QED BY <2>2, <3>3, <3>5, <3>6, <4>1 DEF Parsed
    <3> QED BY <2>2, <3>7
  <2> QED BY <2>1, <2>4, <2>5
<1> QED BY <1>4, <1>9, <1>10

LEMMA HandOverSound ==
    ASSUME JsonInv, HandOver
    PROVE  \E r, n : Reading(r, n)'
<1>1. PICK r, n : Parsed(r, n)' /\ text' \in Seq(Tokens)
  BY HandedOver DEF JsonInv
<1>2. /\ at' = 0 /\ nesting' = <<>> /\ skipping' = [at |-> "idle", depth |-> 0]
      /\ due' = "value"
  BY DEF JsonInv, HandOver, R!NotSkipping
<1>3. n \in Nat /\ 0 \in 0 .. n /\ r[0] = Begins
  BY <1>1 DEF Parsed, Run
<1>4. Begins.shape = <<>> /\ Begins.want = "value"
  BY PlaceFields DEF Begins
<1>5. nesting' \in Seq(OpenFrame) /\ ShapeOf(nesting') = <<>> /\ Len(nesting') = 0
  BY <1>2 DEF ShapeOf
<1>6. skipping' \in [at : {"idle", "value", "slot", "close"}, depth : Nat]
      /\ skipping'.at = "idle"
  BY <1>2
<1>7. StandsAt(r, n)'
  BY <1>1, <1>2, <1>3, <1>4, <1>5, <1>6 DEF StandsAt, ReaderTypes
<1>8. ValueAt(nesting, at, r[at])'
  BY <1>2, <1>3, <1>4, <1>5 DEF ValueAt, ValueFits
<1>9. Reading(r, n)'
  BY <1>2, <1>6, <1>7, <1>8 DEF Reading
<1> QED BY <1>9

LEMMA WriterStutters ==
    ASSUME WriterInv, UNCHANGED writing
    PROVE  WriterInv'
  BY DEF WriterInv, WriterTypes, Written, Nested, writing

\* A caller that has nothing to read yet, or is done, takes no reading step.
LEMMA ReadingIsDue ==
    ASSUME JsonInv, Read
    PROVE  due # "document" /\ UNCHANGED writing
  BY DEF Read, ReadValue, StartSkip, GoOnSkipping, ReadSlot, ReadClose, Finish

LEMMA JsonStarts ==
    ASSUME JsonInit
    PROVE  JsonInv
<1>1. /\ output = <<>> /\ stack = <<>> /\ root_started = FALSE /\ inline_next = FALSE
      /\ refused = FALSE /\ due = "document"
      /\ text = <<>> /\ at = 0 /\ nesting = <<>> /\ skipping = R!NotSkipping
  BY DEF JsonInit, W!WInit, R!RInit
<1>2. MaxDepth \in Nat
  BY JsonAssumption DEF W!WriterAssumption
<1>3. Place(ShapeOf(stack), WantOf(stack, root_started)) = Begins
  BY <1>1 DEF ShapeOf, WantOf, Begins
<1>4. Written
  BY <1>1, <1>2, <1>3, StartReached DEF Written
<1>5. WriterTypes
  <2>1. Nested(stack)
    BY <1>1, <1>2 DEF Nested
  <2>2. output \in Seq(Tokens)
    BY <1>1
  <2>3. root_started \in BOOLEAN /\ inline_next \in BOOLEAN /\ refused \in BOOLEAN
    BY <1>1
  <2> QED BY <1>1, <2>1, <2>2, <2>3 DEF WriterTypes
<1> QED BY <1>1, <1>4, <1>5 DEF JsonInv, WriterInv

LEMMA JsonStep ==
    ASSUME JsonInv, [JsonNext]_jvars
    PROVE  JsonInv'
<1>1. CASE Produce
  <2>1. WriterInv'
    BY <1>1, WriterSound DEF Produce, JsonInv
  <2> QED BY <1>1, <2>1 DEF Produce, JsonInv, reading
<1>2. CASE HandOver
  <2>1. WriterInv' /\ due' = "value"
    BY <1>2, WriterStutters DEF HandOver, JsonInv
  <2> QED BY <1>2, <2>1, HandOverSound DEF JsonInv
<1>3. CASE Read
  <2>1. PICK r, n : Reading(r, n)
    BY <1>3, ReadingIsDue DEF JsonInv
  <2>2. Reading(r, n)'
    BY <1>3, <2>1, ReadSound
  <2>3. WriterInv' /\ due' # "document"
    BY <1>3, <2>2, ReadingIsDue, WriterStutters DEF JsonInv, Reading
  <2> QED BY <2>2, <2>3 DEF JsonInv
<1>4. CASE UNCHANGED jvars
  <2>1. /\ UNCHANGED writing /\ text' = text /\ at' = at /\ nesting' = nesting
        /\ skipping' = skipping /\ answer' = answer /\ due' = due
    BY <1>4 DEF jvars, reading
  <2>2. WriterInv'
    BY <2>1, WriterStutters DEF JsonInv
  <2>3. ASSUME NEW r, NEW n, Reading(r, n) PROVE Reading(r, n)'
    <3>1. StandsAt(r, n)'
      BY <2>1, <2>3, StandsKept DEF Reading, StandsAt, ReaderTypes
    <3>2. Whole' <=> Whole
      BY <2>1 DEF writing, Whole, W!complete
    <3>3. /\ ValueAt(nesting, at, r[at])' <=> ValueAt(nesting, at, r[at])
          /\ SlotAt(nesting, r[at])' <=> SlotAt(nesting, r[at])
          /\ CloseAt(nesting, at, r[at])' <=> CloseAt(nesting, at, r[at])
      BY <2>1 DEF ValueAt, SlotAt, CloseAt, R!KindAt
    <3> QED BY <2>1, <2>3, <3>1, <3>2, <3>3 DEF Reading
  <2> QED BY <2>1, <2>2, <2>3 DEF JsonInv
<1> QED BY <1>1, <1>2, <1>3, <1>4 DEF JsonNext

\* At every moment the writer is where its frames say, and the reader is where
\* its open containers say, on one and the same run of the grammar.
THEOREM JsonInvariant == JsonSpec => []JsonInv
<1>1. JsonInit => JsonInv
  BY JsonStarts
<1>2. JsonInv /\ [JsonNext]_jvars => JsonInv'
  BY JsonStep
<1> QED BY <1>1, <1>2, PTL DEF JsonSpec

LEMMA JsonInvExact ==
    ASSUME JsonInv
    PROVE  JsonExact
<1>1. stack \in Seq(W!Frame) /\ Len(stack) <= MaxDepth
  BY DEF JsonInv, WriterInv, WriterTypes, Nested
<1>2. MaxDepth \in Nat
  BY JsonAssumption DEF W!WriterAssumption
<1>3. CASE due = "document"
  <2>1. text = <<>> /\ at = 0 /\ nesting = <<>>
    BY <1>3 DEF JsonInv
  <2>2. JsonTypeOK
    BY <1>1, <1>2, <2>1 DEF JsonTypeOK
  <2> QED BY <1>3, <2>2 DEF JsonExact, RoundTrip, OnlyWhole
<1>4. CASE due # "document"
  <2>1. PICK r, n : Reading(r, n)
    BY <1>4 DEF JsonInv
  <2>2. /\ StandsAt(r, n) /\ Parsed(r, n) /\ at \in 0 .. n /\ n \in 0 .. Len(text)
        /\ text \in Seq(Tokens) /\ nesting \in Seq(OpenFrame)
        /\ ShapeOf(nesting) = r[at].shape
    BY <2>1 DEF Reading, StandsAt, ReaderTypes, Parsed
  <2>3. Len(nesting) <= MaxDepth
    <3>1. Len(ShapeOf(nesting)) = Len(nesting)
      BY <2>2, OpenFields
    <3>2. Good(r[at])
      BY <2>2, AtHere
    <3> QED BY <2>2, <3>1, <3>2 DEF Good
  <2>4. at \in 0 .. Len(text)
    BY <2>2
  <2>5. JsonTypeOK
    BY <1>1, <2>2, <2>3, <2>4 DEF JsonTypeOK, OpenFrame
  <2>6. RoundTrip
    BY <2>1 DEF RoundTrip, Reading, Whole
  <2>7. OnlyWhole
    BY <2>1, <2>2 DEF OnlyWhole, Reading, Parsed, Whole
  <2> QED BY <2>5, <2>6, <2>7 DEF JsonExact
<1> QED BY <1>3, <1>4

\* A whole text of json::writer is read back to its end, whatever the caller
\* reads or skips, and no other text is accepted, but for a number that was
\* cut: for every depth, indentation and sequence of calls.
THEOREM JsonIsExact == JsonSpec => []JsonExact
<1>1. JsonInv => JsonExact
  BY JsonInvExact
<1> QED BY <1>1, JsonInvariant, PTL

\* Each call of a reading caller leaves less to read, also inside skip_value,
\* so that reading any text ends.
THEOREM JsonReadingAdvances == JsonSpec => [][Advances]_jvars
<1>1. JsonInv /\ [JsonNext]_jvars => [Advances]_jvars
  <2> SUFFICES ASSUME JsonInv, [JsonNext]_jvars, due # "document", ~UNCHANGED jvars
               PROVE  Remaining' < Remaining
    BY DEF Advances
  <2>1. Read
    BY DEF JsonNext, Produce, HandOver
  <2>2. PICK r, n : Reading(r, n)
    BY DEF JsonInv
  <2> QED BY <2>1, <2>2, ReadSound
<1> QED BY <1>1, JsonInvariant, PTL DEF JsonSpec
=============================================================================
