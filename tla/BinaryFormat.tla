---------------------------- MODULE BinaryFormat ----------------------------
(***************************************************************************)
(* The binary wire format (include/reflgen/binary/format.h): one tag byte  *)
(* per value, LEB128 numbers and lengths, a fixed-size floating payload.   *)
(* The code has seven payload bits per varint byte, 64-bit words and       *)
(* eight-byte floats; the three sizes are parameters here, and everything  *)
(* that depends on them (how many groups a word takes, where the last      *)
(* group may overflow, the range of zigzag numbers) is written in them.    *)
(***************************************************************************)
EXTENDS Integers, Sequences

CONSTANTS GroupBits,    \* payload bits of one varint byte (7)
          WordBits,     \* width of the integers (64)
          FloatBytes    \* size of the payload of a float (8)

\* Two to the n, and the weight of the group behind j others.
Power[n \in Nat] == IF n = 0 THEN 1 ELSE 2 * Power[n - 1]
Weight(j) == Power[GroupBits * j]

Base == Power[GroupBits]        \* also the continuation bit of a byte
Byte == 0 .. 2 * Base - 1
Word == 0 .. Power[WordBits] - 1
MaxInt == Power[WordBits - 1] - 1
Int64 == -MaxInt - 1 .. MaxInt

\* take_varint tests `shift == 63 && byte > 1`: the last group of a word
\* holds exactly one bit, so its shift is the width minus one.
Groups == WordBits \div GroupBits + 1

ASSUME FormatAssumption ==
    /\ GroupBits \in Nat \ {0, 1}
    /\ WordBits \in Nat \ {0}
    /\ FloatBytes \in Nat \ {0}
    /\ WordBits % GroupBits = 1
    /\ 9 \in Byte

Null == 0
False == 1
True == 2
Signed == 3
Unsigned == 4
Floating == 5
String == 6
Bytes == 7
Array == 8
Object == 9
Tags == Null .. Object

\* The calls that put or take a value or a key.
Consuming == {"null", "bool", "int", "uint", "float", "string", "bytes",
              "array", "object", "key"}

-----------------------------------------------------------------------------
\* MUTANT: a number that just does not fit in k groups is written in k.
VarintLength_Short(v) ==
    CHOOSE k \in 1 .. Groups : v <= Weight(k) /\ (k = 1 \/ v > Weight(k - 1))

\* put_varint: groups of payload bits, least significant first, every byte
\* but the last with the continuation bit.
VarintLength(v) ==
    CHOOSE k \in 1 .. Groups : v < Weight(k) /\ (k = 1 \/ v >= Weight(k - 1))

Varint(v) ==
    LET k == VarintLength(v) IN
    [j \in 1 .. k |->
        ((v \div Weight(j - 1)) % Base) + (IF j < k THEN Base ELSE 0)]

\* take_varint: the bytes of s after offset p that make one number. A number
\* ends at the first byte without the continuation bit; the byte of the last
\* group may be 0 or 1 only.
VarintEnds(s, p) ==
    {k \in 1 .. Groups :
        /\ p + k <= Len(s)
        /\ s[p + k] < Base
        /\ \A j \in 1 .. k - 1 : s[p + j] >= Base
        /\ k = Groups => s[p + k] <= 1}

\* What the groups add up to, shifted into a word.
VarintValue(s, p, k) ==
    LET sum[j \in 0 .. k] ==
            IF j = 0 THEN 0 ELSE sum[j - 1] + (s[p + j] % Base) * Weight(j - 1)
    IN  sum[k] % Power[WordBits]

\* v is the number at offset p of s, and it takes k bytes.
VarintAt(s, p, k, v) == k \in VarintEnds(s, p) /\ v = VarintValue(s, p, k)

\* MUTANT: the position moves on before require() has looked for a byte.
VarintLost_Past(s, p) == Groups

\* How many bytes a take_varint that throws has consumed: all that are left
\* when the input ends inside the number, all groups when it overflows.
VarintLost(s, p) == IF Len(s) - p < Groups THEN Len(s) - p ELSE Groups

-----------------------------------------------------------------------------
\* (v << 1) ^ (v >> 63): shifting left drops the top bit, and for a negative
\* v the second operand is all ones, which complements the first.
ZigZag(v) ==
    LET shifted == (2 * v) % Power[WordBits]
    IN  IF v < 0 THEN Power[WordBits] - 1 - shifted ELSE shifted

\* (e >> 1) ^ -(e & 1): an odd e complements its upper half.
UnZigZag(e) == IF e % 2 = 1 THEN -(e \div 2) - 1 ELSE e \div 2
=============================================================================
