-------------------------- MODULE BinaryWire_proofs --------------------------
(***************************************************************************)
(* BinaryWire for every sequence of calls, every depth limit, group size,  *)
(* integer width and length of floats: what the writer writes is read back *)
(* as it was written, and nothing but a whole document is accepted.        *)
(*                                                                         *)
(* The writer's history is a chain of items, each with the frames before   *)
(* and behind it (WriterInv). An item starts where the last one ends; its  *)
(* frames are those the last one left, without the frames that were full   *)
(* and have been closed. The reader, which sees bytes only, stands at an   *)
(* item or behind one, with the item's frames open but for those it has    *)
(* closed (ReadInv). Two facts carry the argument: a number is read back   *)
(* from the bytes it was written in (VarintIsRead, by the digits of a      *)
(* number), and the item behind a frame with slots left fills the next of  *)
(* them (NextSlot). Where the bytes were cut the reader stands at the end  *)
(* of the input before it is behind the last item, and throws.             *)
(***************************************************************************)
EXTENDS BinaryWire, SequenceTheorems, WellFoundedInduction, TLAPS

-----------------------------------------------------------------------------
(* Recursion over numbers.                                                 *)

LEMMA LeastNat ==
    ASSUME NEW U, U \subseteq Nat, U # {}
    PROVE  \E k \in U : \A j \in U : k <= j
<1> DEFINE Before == OpToRel(<, Nat)
<1>1. IsWellFoundedOn(Before, Nat)
  BY NatLessThanWellFounded
<1>2. \A j, k \in Nat : j < k => <<j, k>> \in Before
  BY DEF OpToRel
<1> HIDE DEF Before
<1>3. PICK k \in U : \A j \in U : ~(<<j, k>> \in Before)
  BY <1>1, WFMin
<1>4. \A j \in U : ~(j < k)
  BY <1>2, <1>3
<1> QED BY <1>4

\* What holds of zero and from each number to the next holds of all up to n.
LEMMA Climb ==
    ASSUME NEW n \in Nat, NEW P, 0 \in P,
           \A j \in 1 .. n : j - 1 \in P => j \in P
    PROVE  \A j \in 0 .. n : j \in P
<1> DEFINE Bad == {j \in 0 .. n : j \notin P}
<1>1. SUFFICES ASSUME Bad # {} PROVE FALSE
  OBVIOUS
<1>2. Bad \subseteq Nat
  OBVIOUS
<1>3. PICK k \in Bad : \A j \in Bad : k <= j
  <2> HIDE DEF Bad
  <2> QED BY <1>1, <1>2, LeastNat
<1>4. k \in 0 .. n /\ k \notin P /\ k # 0
  OBVIOUS
<1>5. k \in 1 .. n /\ k - 1 \in 0 .. n /\ ~(k <= k - 1)
  BY <1>4
<1>6. k - 1 \in P
  BY <1>3, <1>5
<1> QED BY <1>4, <1>5, <1>6

\* f has the values of a loop over S that starts with b; its round j is g[j].
Loop(f, n, b, g) == f[0] = b /\ \A j \in 1 .. n : f[j] = g[j][f[j - 1]]

LEMMA LoopExists ==
    ASSUME NEW n \in Nat, NEW S, NEW b \in S, NEW g \in [1 .. n -> [S -> S]]
    PROVE  \E f \in [0 .. n -> S] : Loop(f, n, b, g)
<1> DEFINE Runs(f, m) == Loop(f, m, b, g)
           P == {m \in Nat : \E f \in [0 .. m -> S] : Runs(f, m)}
<1>1. 0 \in P
  <2>1. [j \in 0 .. 0 |-> b] \in [0 .. 0 -> S] /\ Runs([j \in 0 .. 0 |-> b], 0)
    BY DEF Loop
  <2> QED BY <2>1
<1>2. ASSUME NEW m \in 1 .. n, m - 1 \in P PROVE m \in P
  <2>1. m - 1 \in Nat /\ m \in Nat /\ m - 1 \in 0 .. m - 1
    OBVIOUS
  <2>2. PICK f \in [0 .. m - 1 -> S] : Runs(f, m - 1)
    BY <1>2
  <2> DEFINE h == [j \in 0 .. m |-> IF j = m THEN g[m][f[m - 1]] ELSE f[j]]
  <2>3. f[m - 1] \in S /\ g[m] \in [S -> S]
    BY <2>1
  <2>4. h \in [0 .. m -> S]
    <3> SUFFICES ASSUME NEW j \in 0 .. m PROVE (IF j = m THEN g[m][f[m - 1]] ELSE f[j]) \in S
      OBVIOUS
    <3>1. j # m => j \in 0 .. m - 1
      OBVIOUS
    <3> QED BY <2>3, <3>1
  <2>5. h[0] = b
    <3>1. 0 \in 0 .. m /\ 0 # m
      OBVIOUS
    <3> QED BY <2>2, <3>1 DEF Loop
  <2>6. ASSUME NEW j \in 1 .. m PROVE h[j] = g[j][h[j - 1]]
    <3>1. j \in 0 .. m /\ j - 1 \in 0 .. m /\ j - 1 # m /\ j - 1 \in 0 .. m - 1
      OBVIOUS
    <3>2. h[j - 1] = f[j - 1]
      BY <3>1
    <3>3. CASE j = m
      BY <3>1, <3>2, <3>3
    <3>4. CASE j # m
      <4>1. j \in 1 .. m - 1
        BY <3>4
      <4>2. f[j] = g[j][f[j - 1]]
        BY <2>2, <4>1 DEF Loop
      <4>3. h[j] = f[j]
        BY <3>1, <3>4
      <4> QED BY <3>2, <4>2, <4>3
    <3> QED BY <3>3, <3>4
  <2> HIDE DEF h
  <2>7. Runs(h, m)
    BY <2>5, <2>6 DEF Loop
  <2> QED BY <2>1, <2>4, <2>7
<1>3. n \in 0 .. n
  OBVIOUS
<1> HIDE DEF P
<1>4. n \in P
  BY <1>1, <1>2, <1>3, Climb
<1> QED BY <1>4 DEF P

-----------------------------------------------------------------------------
(* Powers of two and the weights of groups.                                *)

LEMMA PowerEquation ==
    Power = [n \in Nat |-> IF n = 0 THEN 1 ELSE 2 * Power[n - 1]]
<1> DEFINE E(f) == f = [n \in Nat |-> IF n = 0 THEN 1 ELSE 2 * f[n - 1]]
           twice(n) == [j \in 1 .. n |-> [x \in Nat |-> 2 * x]]
           Up(f, n) == f[0] = 1 /\ \A j \in 1 .. n : f[j] = 2 * f[j - 1]
           part(n) == CHOOSE f \in [0 .. n -> Nat] : Up(f, n)
           p == [n \in Nat |-> part(n)[n]]
<1>1. ASSUME NEW n \in Nat PROVE part(n) \in [0 .. n -> Nat] /\ Up(part(n), n)
  <2>1. twice(n) \in [1 .. n -> [Nat -> Nat]] /\ 1 \in Nat
    OBVIOUS
  <2> DEFINE g == twice(n)
             b == 1
  <2>2. g \in [1 .. n -> [Nat -> Nat]] /\ b \in Nat
    BY <2>1
  <2> HIDE DEF g, b
  <2>3. PICK f \in [0 .. n -> Nat] : Loop(f, n, b, g)
    BY <2>2, LoopExists
  <2>4. Up(f, n)
    <3>1. f[0] = 1
      BY <2>3 DEF Loop, b
    <3>2. ASSUME NEW j \in 1 .. n PROVE f[j] = 2 * f[j - 1]
      <4>1. f[j] = g[j][f[j - 1]] /\ j - 1 \in 0 .. n
        BY <2>3 DEF Loop
      <4>2. f[j - 1] \in Nat
        BY <4>1
      <4> QED BY <4>1, <4>2 DEF g
    <3> QED BY <3>1, <3>2
  <2> HIDE DEF Up
  <2> QED BY <2>4
<1> HIDE DEF part
<1>2. ASSUME NEW n \in Nat, n # 0 PROVE part(n)[n - 1] = part(n - 1)[n - 1]
  <2>1. n - 1 \in Nat /\ n \in Nat /\ n - 1 \in 0 .. n - 1
    BY <1>2
  <2> DEFINE P == {j \in Nat : part(n)[j] = part(n - 1)[j]}
  <2>2. 0 \in P
    BY <1>1, <2>1
  <2>3. ASSUME NEW j \in 1 .. n - 1, j - 1 \in P PROVE j \in P
    <3>1. j \in 1 .. n /\ j \in Nat
      BY <2>1
    <3> QED BY <1>1, <2>1, <2>3, <3>1
  <2> HIDE DEF P
  <2>4. n - 1 \in P
    BY <2>1, <2>2, <2>3, Climb
  <2> QED BY <2>4 DEF P
<1>3. E(p)
  <2>1. ASSUME NEW n \in Nat PROVE p[n] = IF n = 0 THEN 1 ELSE 2 * p[n - 1]
    <3>1. CASE n = 0
      BY <1>1, <3>1
    <3>2. CASE n # 0
      <4>1. n \in 1 .. n /\ n - 1 \in Nat
        BY <3>2
      <4> QED BY <1>1, <1>2, <3>2, <4>1
    <3> QED BY <3>1, <3>2
  <2>2. p = [n \in Nat |-> p[n]]
    OBVIOUS
  <2> HIDE DEF p
  <2>3. p = [n \in Nat |-> IF n = 0 THEN 1 ELSE 2 * p[n - 1]]
    BY <2>1, <2>2
  <2> QED BY <2>3
<1>4. Power = CHOOSE f : E(f)
  BY DEF Power
<1> HIDE DEF E, p
<1>5. E(Power)
  BY <1>3, <1>4
<1> QED BY <1>5 DEF E

LEMMA PowerIsNat ==
    /\ Power[0] = 1
    /\ \A n \in Nat : Power[n] \in Nat \ {0} /\ Power[n + 1] = 2 * Power[n]
<1>0. \A n \in Nat : Power[n] = IF n = 0 THEN 1 ELSE 2 * Power[n - 1]
  <2> DEFINE f == Power
  <2>1. f = [n \in Nat |-> IF n = 0 THEN 1 ELSE 2 * f[n - 1]]
    BY PowerEquation
  <2> HIDE DEF f
  <2>2. \A n \in Nat : f[n] = IF n = 0 THEN 1 ELSE 2 * f[n - 1]
    BY <2>1
  <2> QED BY <2>2 DEF f
<1>1. Power[0] = 1
  BY <1>0
<1>2. ASSUME NEW n \in Nat PROVE Power[n + 1] = 2 * Power[n]
  <2>1. n + 1 \in Nat /\ n + 1 # 0 /\ (n + 1) - 1 = n
    OBVIOUS
  <2> QED BY <1>0, <2>1
<1>3. ASSUME NEW n \in Nat PROVE Power[n] \in Nat \ {0}
  <2> DEFINE P == {j \in Nat : Power[j] \in Nat \ {0}}
  <2>1. 0 \in P
    BY <1>1
  <2>2. ASSUME NEW j \in 1 .. n, j - 1 \in P PROVE j \in P
    <3>1. j \in Nat /\ j # 0 /\ Power[j - 1] \in Nat \ {0}
      BY <2>2
    <3>2. Power[j] = 2 * Power[j - 1]
      BY <1>0, <3>1
    <3> QED BY <3>1, <3>2
  <2> HIDE DEF P
  <2>3. n \in P
    BY <2>1, <2>2, Climb
  <2> QED BY <2>3 DEF P
<1> QED BY <1>1, <1>2, <1>3

LEMMA PowerSum ==
    ASSUME NEW a \in Nat, NEW b \in Nat
    PROVE  Power[a + b] = Power[a] * Power[b]
<1> DEFINE P == {j \in Nat : Power[a + j] = Power[a] * Power[j]}
<1>1. 0 \in P
  BY PowerIsNat
<1>2. ASSUME NEW j \in 1 .. b, j - 1 \in P PROVE j \in P
  <2>1. /\ j \in Nat /\ j - 1 \in Nat /\ a + (j - 1) \in Nat
        /\ a + j = (a + (j - 1)) + 1 /\ j = (j - 1) + 1
    OBVIOUS
  <2>2. Power[a + j] = 2 * Power[a + (j - 1)] /\ Power[j] = 2 * Power[j - 1]
    BY <2>1, PowerIsNat
  <2>3. Power[a] \in Nat /\ Power[j - 1] \in Nat
    BY <2>1, PowerIsNat
  <2>4. Power[a + (j - 1)] = Power[a] * Power[j - 1]
    BY <1>2
  <2>5. 2 * (Power[a] * Power[j - 1]) = Power[a] * (2 * Power[j - 1])
    BY <2>3
  <2> QED BY <2>1, <2>2, <2>4, <2>5
<1> HIDE DEF P
<1>3. b \in P
  BY <1>1, <1>2, Climb
<1> QED BY <1>3 DEF P

LEMMA PowerMono ==
    ASSUME NEW a \in Nat, NEW b \in Nat, a <= b
    PROVE  Power[a] <= Power[b]
<1>1. b - a \in Nat /\ a + (b - a) = b
  OBVIOUS
<1>2. Power[b] = Power[a] * Power[b - a]
  BY <1>1, PowerSum
<1>3. Power[a] \in Nat /\ Power[b - a] \in Nat /\ Power[b - a] >= 1
  BY <1>1, PowerIsNat
<1>4. \A x, y \in Nat : y >= 1 => x <= x * y
  OBVIOUS
<1> QED BY <1>2, <1>3, <1>4

LEMMA Weights ==
    /\ Groups \in Nat \ {0}
    /\ Base \in Nat /\ Base > 1
    /\ Weight(0) = 1
    /\ \A j \in Nat : Weight(j) \in Nat \ {0} /\ Weight(j + 1) = Weight(j) * Base
    /\ Power[WordBits] = 2 * Weight(Groups - 1)
    /\ Power[WordBits] <= Weight(Groups)
<1>0. /\ GroupBits \in Nat /\ GroupBits >= 2
      /\ WordBits \in Nat /\ WordBits >= 1 /\ WordBits % GroupBits = 1
  BY FormatAssumption
<1>1. \A j \in Nat : /\ GroupBits * j \in Nat
                     /\ GroupBits * (j + 1) = GroupBits * j + GroupBits
  BY <1>0
<1>2. /\ Groups \in Nat \ {0}
      /\ GroupBits * (Groups - 1) = WordBits - 1
      /\ GroupBits * Groups >= WordBits
      /\ GroupBits * Groups \in Nat
  <2> DEFINE q == WordBits \div GroupBits
  <2>1. q \in Nat /\ WordBits = GroupBits * q + 1
    BY <1>0
  <2> HIDE DEF q
  <2>2. Groups = q + 1
    BY DEF Groups, q
  <2>3. GroupBits * (q + 1) = GroupBits * q + GroupBits /\ GroupBits * q \in Nat
    BY <1>0, <2>1
  <2> QED BY <1>0, <2>1, <2>2, <2>3
<1>3. Base \in Nat /\ Base > 1
  <2>1. Power[1] = 2
    BY PowerIsNat
  <2>2. Power[1] <= Power[GroupBits]
    BY <1>0, PowerMono
  <2> QED BY <1>0, <2>1, <2>2, PowerIsNat DEF Base
<1>4. Weight(0) = 1
  <2>1. GroupBits * 0 = 0
    BY <1>0
  <2> QED BY <2>1, PowerIsNat DEF Weight
<1>5. ASSUME NEW j \in Nat PROVE Weight(j) \in Nat \ {0} /\ Weight(j + 1) = Weight(j) * Base
  <2>1. Power[GroupBits * (j + 1)] = Power[GroupBits * j] * Power[GroupBits]
    BY <1>0, <1>1, PowerSum
  <2> QED BY <1>1, <2>1, PowerIsNat DEF Weight, Base
<1>6. Power[WordBits] = 2 * Weight(Groups - 1)
  <2>1. Power[(WordBits - 1) + 1] = 2 * Power[WordBits - 1]
    BY <1>0, PowerIsNat
  <2>2. (WordBits - 1) + 1 = WordBits
    BY <1>0
  <2> QED BY <1>2, <2>1, <2>2 DEF Weight
<1>7. Power[WordBits] <= Weight(Groups)
  BY <1>0, <1>2, PowerMono DEF Weight
<1> QED BY <1>2, <1>3, <1>4, <1>5, <1>6, <1>7

-----------------------------------------------------------------------------
(* Numbers: take_varint reads what put_varint writes, and finds no number  *)
(* where one is cut.                                                       *)

LEMMA DivMod ==
    ASSUME NEW a \in Nat, NEW b \in Nat, b > 0
    PROVE  a = b * (a \div b) + (a % b) /\ a % b \in 0 .. b - 1 /\ a \div b \in Nat
  OBVIOUS

LEMMA DivUnique ==
    ASSUME NEW b \in Nat, b > 0, NEW q \in Nat, NEW r \in 0 .. b - 1
    PROVE  (b * q + r) \div b = q /\ (b * q + r) % b = r
  OBVIOUS

LEMMA WordsAreNat == Power[WordBits] \in Nat \ {0} /\ Word \subseteq Nat
<1>1. WordBits \in Nat
  BY FormatAssumption
<1> QED BY <1>1, PowerIsNat DEF Word

\* One more digit: v modulo w * b.
LEMMA OneMoreDigit ==
    ASSUME NEW v \in Nat, NEW w \in Nat \ {0}, NEW b \in Nat \ {0}
    PROVE  v % (w * b) = (v % w) + ((v \div w) % b) * w
<1> DEFINE q == v \div w
           d == q % b
           h == q \div b
           r == v % w
<1>1. q \in Nat /\ r \in 0 .. w - 1 /\ v = w * q + r
  BY DivMod
<1>2. h \in Nat /\ d \in 0 .. b - 1 /\ q = b * h + d
  BY <1>1, DivMod
<1> HIDE DEF q, d, h, r
<1>3. w * b \in Nat /\ w * b > 0
  OBVIOUS
<1>4. w * q = (w * b) * h + d * w
  <2>1. w * (b * h + d) = w * (b * h) + w * d /\ w * (b * h) = (w * b) * h /\ w * d = d * w
    BY <1>2
  <2> QED BY <1>2, <2>1
<1>5. d * w + r \in 0 .. (w * b) - 1
  <2>1. d * w <= (b - 1) * w /\ (b - 1) * w = w * b - w
    BY <1>2
  <2>2. d * w \in Nat /\ d * w <= w * b - w /\ w * b \in Nat
    BY <1>2, <1>3, <2>1
  <2> QED BY <1>1, <2>2
<1>6. v = (w * b) * h + (d * w + r)
  <2>1. (w * b) * h \in Nat /\ d * w \in Nat
    BY <1>2, <1>3
  <2> QED BY <1>1, <1>4, <2>1
<1>7. v % (w * b) = d * w + r
  <2> DEFINE m == w * b
             e == d * w + r
  <2>1. m \in Nat /\ m > 0 /\ e \in 0 .. m - 1 /\ v = m * h + e
    BY <1>3, <1>5, <1>6
  <2> HIDE DEF m, e
  <2>2. v % m = e
    BY <1>2, <2>1, DivUnique
  <2> QED BY <2>2 DEF m, e
<1>8. v % (w * b) = r + d * w
  <2>1. d * w \in Nat
    BY <1>2
  <2> QED BY <1>1, <1>7, <2>1
<1> QED BY <1>8 DEF q, d, r

LEMMA LengthOfVarint ==
    ASSUME NEW v \in Word
    PROVE  LET k == VarintLength(v) IN
           /\ k \in 1 .. Groups
           /\ v < Weight(k)
           /\ k = 1 \/ v >= Weight(k - 1)
<1> DEFINE Fits(k) == v < Weight(k) /\ (k = 1 \/ v >= Weight(k - 1))
           U == {k \in 1 .. Groups : v < Weight(k)}
<1>1. v \in Nat /\ v < Power[WordBits]
  BY WordsAreNat DEF Word
<1>2. Groups \in U
  <2>1. Groups \in 1 .. Groups /\ Groups \in Nat
    BY Weights
  <2> QED BY <1>1, <2>1, Weights, WordsAreNat
<1>3. U \subseteq Nat
  OBVIOUS
<1>4. PICK k \in U : \A j \in U : k <= j
  <2> HIDE DEF U
  <2> QED BY <1>2, <1>3, LeastNat
<1>5. k \in 1 .. Groups /\ v < Weight(k)
  OBVIOUS
<1>6. k = 1 \/ v >= Weight(k - 1)
  <2>1. SUFFICES ASSUME k # 1, ~(v >= Weight(k - 1)) PROVE FALSE
    OBVIOUS
  <2>2. k - 1 \in 1 .. Groups /\ k - 1 \in Nat /\ ~(k <= k - 1)
    BY <1>5, <2>1, Weights
  <2>3. v < Weight(k - 1)
    BY <1>1, <2>1, <2>2, Weights
  <2> QED BY <1>4, <2>2, <2>3
<1>7. \E j \in 1 .. Groups : Fits(j)
  BY <1>5, <1>6
<1>8. VarintLength(v) = CHOOSE j \in 1 .. Groups : Fits(j)
  BY DEF VarintLength
<1> HIDE DEF Fits
<1>9. VarintLength(v) \in 1 .. Groups /\ Fits(VarintLength(v))
  BY <1>7, <1>8
<1> QED BY <1>9 DEF Fits

Digit(v, j) == (v \div Weight(j - 1)) % Base

\* The bytes of a number.
LEMMA BytesOfVarint ==
    ASSUME NEW v \in Word
    PROVE  LET k == VarintLength(v) IN
           /\ Len(Varint(v)) = k /\ Varint(v) \in Seq(Byte)
           /\ \A j \in 1 .. k : /\ Varint(v)[j] % Base = Digit(v, j)
                                /\ Varint(v)[j] < Base <=> j = k
           /\ k = Groups => Varint(v)[k] <= 1
<1> DEFINE k == VarintLength(v)
           d(j) == Digit(v, j)
<1>1. k \in 1 .. Groups /\ k \in Nat /\ v < Weight(k) /\ v \in Nat /\ v < Power[WordBits]
  BY LengthOfVarint, Weights, WordsAreNat DEF Word
<1>a. Base \in Nat /\ Base > 0
  BY Weights
<1>2. ASSUME NEW j \in 1 .. k PROVE d(j) \in 0 .. Base - 1
  <2>1. Weight(j - 1) \in Nat \ {0}
    <3>1. j - 1 \in Nat
      BY <1>1
    <3> QED BY <3>1, Weights
  <2>2. v \div Weight(j - 1) \in Nat
    BY <1>1, <2>1, DivMod
  <2> QED BY <2>2, Weights, DivMod DEF Digit
<1>3. Varint(v) = [j \in 1 .. k |-> d(j) + (IF j < k THEN Base ELSE 0)]
  BY DEF Varint, Digit
<1> HIDE DEF k, d
<1>4. \A j \in 1 .. k : Varint(v)[j] = d(j) + (IF j < k THEN Base ELSE 0)
  BY <1>3
<1>5. Varint(v) \in Seq(Byte) /\ Len(Varint(v)) = k
  <2>1. \A j \in 1 .. k : d(j) + (IF j < k THEN Base ELSE 0) \in Byte
    BY <1>1, <1>2, Weights DEF Byte
  <2> QED BY <1>1, <1>3, <2>1
<1>6. ASSUME NEW j \in 1 .. k
      PROVE  Varint(v)[j] % Base = d(j) /\ (Varint(v)[j] < Base <=> j = k)
  <2>1. CASE j < k
    <3>1. Varint(v)[j] = Base * 1 + d(j)
      BY <1>2, <1>4, <2>1, Weights
    <3>2. (Base * 1 + d(j)) % Base = d(j)
      BY <1>2, <1>a, DivUnique
    <3> QED BY <1>1, <1>2, <2>1, <3>1, <3>2, Weights
  <2>2. CASE ~(j < k)
    <3>1. j = k /\ Varint(v)[j] = Base * 0 + d(j)
      BY <1>1, <1>2, <1>4, <2>2, Weights
    <3>2. (Base * 0 + d(j)) % Base = d(j)
      BY <1>2, <1>a, DivUnique
    <3> QED BY <1>1, <1>2, <3>1, <3>2, Weights
  <2> QED BY <2>1, <2>2
<1>7. k = Groups => Varint(v)[k] <= 1
  <2>1. SUFFICES ASSUME k = Groups PROVE Varint(v)[k] <= 1
    OBVIOUS
  <2> DEFINE w == Weight(k - 1)
             q == v \div w
  <2>2. w \in Nat \ {0} /\ v < 2 * w
    <3>1. k - 1 \in Nat
      BY <1>1
    <3> QED BY <1>1, <2>1, <3>1, Weights
  <2>3. q \in Nat /\ q <= 1
    BY <1>1, <2>2
  <2>4. Varint(v)[k] = d(k) /\ k \in 1 .. k
    BY <1>1, <1>2, <1>4
  <2>5. d(k) = q % Base
    BY DEF d, Digit
  <2> HIDE DEF q
  <2>6. q % Base <= 1
    <3>1. q = Base * 0 + q /\ q \in 0 .. Base - 1
      BY <2>3, Weights
    <3>2. q % Base = q
      BY <3>1, Weights, DivUnique
    <3> QED BY <2>3, <3>2
  <2> QED BY <2>4, <2>5, <2>6
<1> QED BY <1>5, <1>6, <1>7 DEF k, d

\* s has v's number at offset p, as far as it reaches.
WrittenAt(s, p, bytes) == \A j \in 1 .. Len(bytes) : p + j <= Len(s) => s[p + j] = bytes[j]

LEMMA VarintIsRead ==
    ASSUME NEW v \in Word, NEW s, Len(s) \in Nat, NEW p \in Nat, WrittenAt(s, p, Varint(v))
    PROVE  LET k == Len(Varint(v)) IN
           /\ VarintEnds(s, p) = IF p + k <= Len(s) THEN {k} ELSE {}
           /\ p + k <= Len(s) => VarintValue(s, p, k) = v
<1> DEFINE k == Len(Varint(v))
<1>w. /\ Base \in Nat \ {0}
      /\ \A i \in Nat : Weight(i) \in Nat \ {0} /\ Weight(i + 1) = Weight(i) * Base
  <2>1. Base \in Nat /\ Base > 1
    BY Weights
  <2>2. \A i \in Nat : Weight(i) \in Nat \ {0} /\ Weight(i + 1) = Weight(i) * Base
    BY Weights, Zenon
  <2> QED BY <2>1, <2>2
<1>a. VarintLength(v) \in 1 .. Groups
  BY LengthOfVarint
<1>b. k = VarintLength(v) /\ Varint(v) \in Seq(Byte)
  BY BytesOfVarint
<1>1. k = VarintLength(v) /\ k \in 1 .. Groups /\ k \in Nat /\ Groups \in Nat
  BY <1>a, <1>b, Weights
<1>2. \A j \in 1 .. k : p + j <= Len(s) =>
        s[p + j] % Base = Digit(v, j) /\ (s[p + j] < Base <=> j = k)
  BY <1>1, BytesOfVarint DEF WrittenAt
<1>2a. \A j \in 1 .. k : p + j <= Len(s) => (s[p + j] >= Base <=> ~(s[p + j] < Base))
  <2>1. \A j \in 1 .. k : Varint(v)[j] \in Byte
    BY <1>b
  <2>2. Base \in Nat /\ \A j \in 1 .. k : Varint(v)[j] \in Nat
    BY <2>1, Weights DEF Byte
  <2>3. \A j \in 1 .. k : p + j <= Len(s) => s[p + j] = Varint(v)[j]
    BY DEF WrittenAt
  <2> HIDE DEF k
  <2> QED BY <2>2, <2>3
<1>3. k = Groups /\ p + k <= Len(s) => s[p + k] <= 1
  BY <1>1, BytesOfVarint DEF WrittenAt
<1> HIDE DEF k
<1>4. ASSUME NEW e \in VarintEnds(s, p) PROVE e = k /\ p + k <= Len(s)
  <2>1. /\ e \in 1 .. Groups /\ p + e <= Len(s) /\ s[p + e] < Base
        /\ \A j \in 1 .. e - 1 : s[p + j] >= Base
    BY DEF VarintEnds
  <2>2. CASE e < k
    BY <1>1, <1>2, <2>1, <2>2
  <2>3. CASE k < e
    <3>1. k \in 1 .. e - 1 /\ k \in 1 .. k /\ p + k <= Len(s)
      BY <1>1, <2>1, <2>3
    <3> QED BY <1>2, <1>2a, <2>1, <3>1
  <2> QED BY <1>1, <2>1, <2>2, <2>3
<1>5. ASSUME p + k <= Len(s) PROVE k \in VarintEnds(s, p)
  <2>1. \A j \in 1 .. k : p + j <= Len(s)
    BY <1>1, <1>5
  <2>2. \A j \in 1 .. k - 1 : s[p + j] >= Base
    BY <1>1, <1>2, <1>2a, <2>1
  <2>3. s[p + k] < Base
    BY <1>1, <1>2, <2>1
  <2> QED BY <1>1, <1>3, <1>5, <2>2, <2>3 DEF VarintEnds
<1>6. ASSUME p + k <= Len(s) PROVE VarintValue(s, p, k) = v
  <2> DEFINE E(f) == f = [j \in 0 .. k |->
                 IF j = 0 THEN 0 ELSE f[j - 1] + (s[p + j] % Base) * Weight(j - 1)]
             sum == CHOOSE f : E(f)
             good == [j \in 0 .. k |-> v % Weight(j)]
  <2>0. v \in Nat
    BY WordsAreNat
  <2>1. ASSUME NEW j \in 1 .. k
        PROVE  v % Weight(j) = (v % Weight(j - 1)) + (s[p + j] % Base) * Weight(j - 1)
    <3>1. p + j <= Len(s) /\ j - 1 \in Nat /\ (j - 1) + 1 = j
      BY <1>1, <1>6
    <3>2. s[p + j] % Base = (v \div Weight(j - 1)) % Base
      BY <1>2, <3>1 DEF Digit
    <3>3. /\ Weight(j - 1) \in Nat \ {0} /\ Base \in Nat \ {0}
          /\ Weight((j - 1) + 1) = Weight(j - 1) * Base
      BY <1>w, <3>1
    <3>4. v % (Weight(j - 1) * Base) =
            (v % Weight(j - 1)) + ((v \div Weight(j - 1)) % Base) * Weight(j - 1)
      BY <2>0, <3>3, OneMoreDigit
    <3> QED BY <3>1, <3>2, <3>3, <3>4
  <2>2. v % Weight(0) = 0
    BY <2>0, Weights
  <2>3. E(good)
    <3>1. ASSUME NEW j \in 0 .. k
          PROVE  good[j] = IF j = 0 THEN 0 ELSE good[j - 1] + (s[p + j] % Base) * Weight(j - 1)
      <4>1. CASE j = 0
        BY <2>2, <4>1
      <4>2. CASE j # 0
        <5>1. j \in 1 .. k /\ j - 1 \in 0 .. k
          BY <1>1, <4>2
        <5> QED BY <2>1, <4>2, <5>1
      <4> QED BY <4>1, <4>2
    <3>2. good = [j \in 0 .. k |-> good[j]]
      OBVIOUS
    <3> HIDE DEF good
    <3> QED BY <3>1, <3>2
  <2>4. VarintValue(s, p, k) = sum[k] % Power[WordBits]
    BY DEF VarintValue
  <2>5. E(sum)
    <3> HIDE DEF E
    <3> QED BY <2>3
  <2> HIDE DEF sum
  <2>6. \A j \in 0 .. k :
            sum[j] = IF j = 0 THEN 0 ELSE sum[j - 1] + (s[p + j] % Base) * Weight(j - 1)
    BY <2>5
  <2> HIDE DEF E
  <2> DEFINE P == {j \in Nat : sum[j] = v % Weight(j)}
  <2>7. 0 \in P
    <3>1. 0 \in 0 .. k
      BY <1>1
    <3> QED BY <2>2, <2>6, <3>1
  <2>8. ASSUME NEW j \in 1 .. k, j - 1 \in P PROVE j \in P
    <3>1. j \in 0 .. k /\ j # 0 /\ j \in Nat /\ sum[j - 1] = v % Weight(j - 1)
      BY <2>8
    <3> QED BY <2>1, <2>6, <3>1
  <2> HIDE DEF P
  <2>9. k \in P
    <3>1. k \in 0 .. k
      BY <1>1
    <3> QED BY <1>1, <2>7, <2>8, <3>1, Climb
  <2>10. sum[k] = v
    <3>1. sum[k] = v % Weight(k)
      BY <2>9 DEF P
    <3>2. v < Weight(k) /\ Weight(k) \in Nat
      BY <1>1, LengthOfVarint, Weights
    <3>3. v % Weight(k) = v
      BY <2>0, <3>2
    <3> QED BY <3>1, <3>3
  <2>11. v % Power[WordBits] = v
    BY <2>0, WordsAreNat DEF Word
  <2> QED BY <2>4, <2>10, <2>11
<1>7. VarintEnds(s, p) = IF p + k <= Len(s) THEN {k} ELSE {}
  BY <1>4, <1>5
<1> QED BY <1>6, <1>7 DEF k

-----------------------------------------------------------------------------
(* Signed numbers.                                                         *)

LEMMA ZigZagIsUndone ==
    ASSUME NEW v \in Int64
    PROVE  ZigZag(v) \in Word /\ UnZigZag(ZigZag(v)) = v /\ v \in Int
<1> DEFINE m == Power[WordBits - 1]
<1>1. m \in Nat \ {0} /\ Power[WordBits] = 2 * m
  <2>1. WordBits - 1 \in Nat /\ (WordBits - 1) + 1 = WordBits
    BY FormatAssumption
  <2> QED BY <2>1, PowerIsNat
<1>2. v \in Int /\ -m <= v /\ v <= m - 1
  <2>1. Int64 = -(m - 1) - 1 .. m - 1
    BY DEF Int64, MaxInt
  <2> HIDE DEF m
  <2> QED BY <1>1, <2>1
<1> HIDE DEF m
<1>3. CASE v < 0
  <2>1. (2 * v) % (2 * m) = 2 * v + 2 * m
    <3>1. 2 * v = (2 * m) * (-1) + (2 * v + 2 * m) /\ 2 * v + 2 * m \in 0 .. 2 * m - 1
      BY <1>1, <1>2, <1>3
    <3> QED BY <1>1, <1>2, <3>1
  <2>2. ZigZag(v) = -(2 * v) - 1
    BY <1>1, <1>2, <1>3, <2>1 DEF ZigZag
  <2>3. ZigZag(v) \in Word
    BY <1>1, <1>2, <1>3, <2>2 DEF Word
  <2>4. (-(2 * v) - 1) % 2 = 1 /\ (-(2 * v) - 1) \div 2 = -v - 1
    BY <1>2
  <2> QED BY <1>2, <2>2, <2>3, <2>4 DEF UnZigZag
<1>4. CASE v >= 0
  <2>1. (2 * v) % (2 * m) = 2 * v
    BY <1>1, <1>2, <1>4
  <2>2. ZigZag(v) = 2 * v
    BY <1>1, <1>2, <1>4, <2>1 DEF ZigZag
  <2>3. ZigZag(v) \in Word
    BY <1>1, <1>2, <1>4, <2>2 DEF Word
  <2>4. (2 * v) % 2 = 0 /\ (2 * v) \div 2 = v
    BY <1>2
  <2> QED BY <1>2, <2>2, <2>3, <2>4 DEF UnZigZag
<1> QED BY <1>2, <1>3, <1>4

-----------------------------------------------------------------------------
(* The writer. The history is a chain of items: the next one starts where  *)
(* the last one ends, with the frames the last one left, but for those     *)
(* that were complete and have been closed.                                *)

Containers == {"array", "object"}
WithText == {"string", "bytes", "key"}
Calls == {"null", "bool", "int", "uint", "float"} \cup WithText \cup Containers

\* What a call may be given, and the bytes it writes.
Fits(call, value) ==
    /\ call \in Calls
    /\ call = "null" => value = 0
    /\ call = "bool" => value \in BOOLEAN
    /\ call = "int" => value \in Int64
    /\ call = "float" => value \in [1 .. FloatBytes -> Byte]
    /\ call \in WithText => value \in Seq(Byte) /\ Len(value) \in Word
    /\ call \in {"uint"} \cup Containers => value \in Word

Encoded(call, value) ==
    CASE call = "null" -> <<Null>>
      [] call = "bool" -> <<IF value THEN True ELSE False>>
      [] call = "int" -> <<Signed>> \o Varint(ZigZag(value))
      [] call = "uint" -> <<Unsigned>> \o Varint(value)
      [] call = "float" -> <<Floating>> \o value
      [] call = "string" -> <<String>> \o Text(value)
      [] call = "bytes" -> <<Bytes>> \o Text(value)
      [] call = "array" -> <<Array>> \o Varint(value)
      [] call = "object" -> <<Object>> \o Varint(value)
      [] call = "key" -> Text(value)

\* Only the innermost frame, that of an object, waits for the value of a key.
OnlyTop(f) == \A i \in 1 .. Len(f) : f[i].awaiting_value => i = Len(f) /\ f[i].is_object

\* A call takes its slot in the innermost frame of f and leaves g.
Slotted(call, value, f, g) ==
    LET n == Len(f) IN
    /\ \A i \in 1 .. n - 1 : g[i] = f[i]
    /\ n > 0 => g[n].is_object = f[n].is_object
    /\ call = "key" =>
           /\ n > 0 /\ Len(g) = n
           /\ f[n].is_object /\ ~f[n].awaiting_value /\ f[n].remaining > 0
           /\ g[n].remaining = f[n].remaining - 1 /\ g[n].awaiting_value
    /\ call # "key" /\ n > 0 =>
           /\ ~g[n].awaiting_value
           /\ IF f[n].is_object
              THEN f[n].awaiting_value /\ g[n].remaining = f[n].remaining
              ELSE f[n].remaining > 0 /\ g[n].remaining = f[n].remaining - 1
    /\ call \notin Containers => Len(g) = n
    /\ call \in Containers =>
           /\ Len(g) = n + 1
           /\ g[n + 1] = [is_object |-> call = "object", remaining |-> value,
                          awaiting_value |-> FALSE]

\* g is f without frames that were complete.
Settles(f, g) ==
    /\ Len(g) <= Len(f)
    /\ \A i \in 1 .. Len(g) : g[i] = f[i]
    /\ \A i \in Len(g) + 1 .. Len(f) : f[i].remaining = 0 /\ ~f[i].awaiting_value

Item(w) ==
    /\ Fits(w.call, w.value)
    /\ w.at \in Nat /\ w.next \in Nat
    /\ w.next = w.at + Len(Encoded(w.call, w.value)) /\ w.at < w.next
    /\ w.before \in Seq(Frame) /\ w.after \in Seq(Frame)
    /\ w.call \in Containers => Len(w.before) < WriterDepth
    /\ OnlyTop(w.before)
    /\ w.at = 0 <=> w.before = <<>>
    /\ Slotted(w.call, w.value, w.before, w.after)

\* The frame of the container w is open still, and what it is owed.
Depth(w) == Len(w.before) + 1
Stands(w) ==
    /\ Len(nested) >= Depth(w)
    /\ \A v \in written : v.at > w.at => Len(v.before) >= Depth(w)
Least(w) == IF w.call = "object" THEN 2 ELSE 1
Owed(w) ==
    Least(w) * nested[Depth(w)].remaining
    + (IF nested[Depth(w)].awaiting_value THEN 1 ELSE 0)

Framed ==
    /\ buffer \in Seq(Byte) /\ nested \in Seq(Frame) /\ started \in BOOLEAN
    /\ OnlyTop(nested)
    /\ buffer = <<>> => nested = <<>>
    /\ started <=> buffer # <<>>
Itemized ==
    \A w \in written :
        /\ Item(w) /\ w.next <= Len(buffer)
        /\ WrittenAt(buffer, w.at, Encoded(w.call, w.value))
Chained ==
    /\ buffer # <<>> => \E w \in written : w.at = 0
    /\ \A w \in written :
        /\ w.next = Len(buffer) => Settles(w.after, nested)
        /\ w.next < Len(buffer) => \E v \in written : v.at = w.next
        /\ \A v \in written : v.at = w.next => Settles(w.after, v.before)
\* A container has at least the bytes that its count promises, written or owed.
Counted ==
    \A w \in written : w.call \in Containers =>
        /\ Stands(w) =>
               /\ nested[Depth(w)].is_object <=> w.call = "object"
               /\ Least(w) * w.value <= Len(buffer) - w.next + Owed(w)
        /\ ~Stands(w) => Least(w) * w.value <= Len(buffer) - w.next

WriterInv == Framed /\ Itemized /\ Chained /\ Counted

-----------------------------------------------------------------------------
\* Every tag is a byte, and every encoding begins with one.
LEMMA TagsAreBytes == Tags \subseteq Byte /\ Base \in Nat
<1>1. 9 \in Byte
  BY FormatAssumption
<1> QED BY <1>1, Weights DEF Tags, Byte, Null, Object

LEMMA VarintBytes ==
    ASSUME NEW v \in Word
    PROVE  Varint(v) \in Seq(Byte) /\ Len(Varint(v)) \in Nat \ {0}
<1>1. VarintLength(v) \in 1 .. Groups
  BY LengthOfVarint
<1>2. Varint(v) \in Seq(Byte) /\ Len(Varint(v)) = VarintLength(v)
  BY BytesOfVarint
<1> QED BY <1>1, <1>2

LEMMA EncodedBytes ==
    ASSUME NEW call, NEW value, Fits(call, value)
    PROVE  Encoded(call, value) \in Seq(Byte) /\ Len(Encoded(call, value)) \in Nat \ {0}
<1>1. \A t \in Tags : <<t>> \in Seq(Byte) /\ Len(<<t>>) = 1
  BY TagsAreBytes
<1>2. \A t \in Tags, s \in Seq(Byte) :
        <<t>> \o s \in Seq(Byte) /\ Len(<<t>> \o s) \in Nat \ {0}
  BY <1>1
<1>3. Null \in Tags /\ False \in Tags /\ True \in Tags /\ Signed \in Tags /\ Unsigned \in Tags
      /\ Floating \in Tags /\ String \in Tags /\ Bytes \in Tags /\ Array \in Tags /\ Object \in Tags
  BY DEF Tags, Null, False, True, Signed, Unsigned, Floating, String, Bytes, Array, Object
<1>4. call \in WithText => Text(value) \in Seq(Byte) /\ Len(Text(value)) \in Nat \ {0}
  <2>1. SUFFICES ASSUME call \in WithText
                 PROVE  Text(value) \in Seq(Byte) /\ Len(Text(value)) \in Nat \ {0}
    OBVIOUS
  <2>2. value \in Seq(Byte) /\ Len(value) \in Word
    BY <2>1 DEF Fits
  <2>3. Varint(Len(value)) \in Seq(Byte) /\ Len(Varint(Len(value))) \in Nat \ {0}
    BY <2>2, VarintBytes
  <2> QED BY <2>2, <2>3 DEF Text
<1>5. CASE call = "null"
  BY <1>1, <1>3, <1>5 DEF Encoded
<1>6. CASE call = "bool"
  BY <1>1, <1>3, <1>6 DEF Encoded
<1>7. CASE call = "int"
  <2>1. value \in Int64
    BY <1>7 DEF Fits
  <2>2. Varint(ZigZag(value)) \in Seq(Byte)
    BY <2>1, ZigZagIsUndone, VarintBytes
  <2>3. Encoded(call, value) = <<Signed>> \o Varint(ZigZag(value))
    BY <1>7 DEF Encoded
  <2> QED BY <1>2, <1>3, <2>2, <2>3
<1>8. CASE call \in {"uint"} \cup Containers
  <2>1. Varint(value) \in Seq(Byte)
    BY <1>8, VarintBytes DEF Fits
  <2>2. \E t \in Tags : Encoded(call, value) = <<t>> \o Varint(value)
    BY <1>3, <1>8 DEF Encoded, Containers
  <2> QED BY <1>2, <2>1, <2>2
<1>9. CASE call = "float"
  <2>1. value \in Seq(Byte)
    <3>1. FloatBytes \in Nat /\ value \in [1 .. FloatBytes -> Byte]
      BY <1>9, FormatAssumption DEF Fits
    <3> QED BY <3>1
  <2>2. Encoded(call, value) = <<Floating>> \o value
    BY <1>9 DEF Encoded
  <2> QED BY <1>2, <1>3, <2>1, <2>2
<1>10. CASE call \in {"string", "bytes"}
  <2>1. Text(value) \in Seq(Byte)
    BY <1>4, <1>10 DEF WithText
  <2>2. \E t \in Tags : Encoded(call, value) = <<t>> \o Text(value)
    BY <1>3, <1>10 DEF Encoded
  <2> QED BY <1>2, <2>1, <2>2
<1>11. CASE call = "key"
  <2>1. Encoded(call, value) = Text(value)
    BY <1>11 DEF Encoded
  <2> QED BY <1>4, <1>11, <2>1 DEF WithText
<1>12. call \in Calls
  BY DEF Fits
<1> QED BY <1>5, <1>6, <1>7, <1>8, <1>9, <1>10, <1>11, <1>12 DEF Calls, WithText, Containers

-----------------------------------------------------------------------------
(* The steps of the writer.                                                *)

FrameOf(o, r, a) == [is_object |-> o, remaining |-> r, awaiting_value |-> a]

LEMMA FrameType ==
    /\ \A f \in Frame :
           f.is_object \in BOOLEAN /\ f.remaining \in Nat /\ f.awaiting_value \in BOOLEAN
    /\ \A o \in BOOLEAN, r \in Nat, a \in BOOLEAN : FrameOf(o, r, a) \in Frame
    /\ \A s \in Seq(Frame) : /\ Len(s) \in Nat
                             /\ s = <<>> <=> Len(s) = 0
                             /\ \A i \in 1 .. Len(s) :
                                    /\ s[i].is_object \in BOOLEAN /\ s[i].remaining \in Nat
                                    /\ s[i].awaiting_value \in BOOLEAN
<1>1. \A f \in Frame :
        f.is_object \in BOOLEAN /\ f.remaining \in Nat /\ f.awaiting_value \in BOOLEAN
  BY DEF Frame
<1>2. \A o \in BOOLEAN, r \in Nat, a \in BOOLEAN : FrameOf(o, r, a) \in Frame
  BY DEF Frame, FrameOf
<1>3. ASSUME NEW s \in Seq(Frame)
      PROVE  /\ Len(s) \in Nat
             /\ s = <<>> <=> Len(s) = 0
             /\ \A i \in 1 .. Len(s) : s[i] \in Frame
  OBVIOUS
<1> QED BY <1>1, <1>2, <1>3

\* The frames that begin_value and write_key leave.
LEMMA TopSet ==
    ASSUME nested \in Seq(Frame), nested # <<>>, NEW f \in Frame
    PROVE  /\ SetTop(f) \in Seq(Frame) /\ Len(SetTop(f)) = Len(nested)
           /\ \A i \in 1 .. Len(nested) - 1 : SetTop(f)[i] = nested[i]
           /\ SetTop(f)[Len(nested)] = f
           /\ Len(nested) \in Nat /\ Len(nested) > 0 /\ Top \in Frame
  BY DEF SetTop, Top

LEMMA BegunIs ==
    ASSUME nested \in Seq(Frame), CanBegin
    PROVE  LET n == Len(nested) IN
           /\ Begun \in Seq(Frame) /\ Len(Begun) = n
           /\ \A i \in 1 .. n - 1 : Begun[i] = nested[i]
           /\ n > 0 =>
                /\ Begun[n].is_object = nested[n].is_object
                /\ nested[n].is_object =>
                       /\ nested[n].awaiting_value /\ ~Begun[n].awaiting_value
                       /\ Begun[n].remaining = nested[n].remaining
                /\ ~nested[n].is_object =>
                       /\ Begun[n].awaiting_value = nested[n].awaiting_value
                       /\ nested[n].remaining > 0
                       /\ Begun[n].remaining = nested[n].remaining - 1
<1>1. CASE nested = <<>>
  BY <1>1 DEF Begun
<1>2. CASE nested # <<>>
  <2> DEFINE n == Len(nested)
             t == Top
             f == [t EXCEPT !.awaiting_value = FALSE]
             g == [t EXCEPT !.remaining = @ - 1]
  <2>1. n \in Nat /\ n > 0 /\ t \in Frame /\ t = nested[n]
    BY <1>2 DEF Top
  <2>2. CASE t.is_object
    <3>1. t.awaiting_value /\ Begun = SetTop(f)
      BY <1>2, <2>2 DEF CanBegin, Begun
    <3>2. f \in Frame /\ f.is_object = t.is_object /\ f.remaining = t.remaining /\ ~f.awaiting_value
      BY <2>1 DEF Frame
    <3> HIDE DEF f, t
    <3>3. /\ SetTop(f) \in Seq(Frame) /\ Len(SetTop(f)) = n
          /\ \A i \in 1 .. n - 1 : SetTop(f)[i] = nested[i]
          /\ SetTop(f)[n] = f
      BY <1>2, <3>2, TopSet
    <3> QED BY <2>1, <2>2, <3>1, <3>2, <3>3
  <2>3. CASE ~t.is_object
    <3>1. t.remaining > 0 /\ Begun = SetTop(g)
      BY <1>2, <2>3 DEF CanBegin, Begun
    <3>2. /\ g \in Frame /\ g.is_object = t.is_object
          /\ g.remaining = t.remaining - 1 /\ g.awaiting_value = t.awaiting_value
      BY <2>1, <3>1 DEF Frame
    <3> HIDE DEF g, t
    <3>3. /\ SetTop(g) \in Seq(Frame) /\ Len(SetTop(g)) = n
          /\ \A i \in 1 .. n - 1 : SetTop(g)[i] = nested[i]
          /\ SetTop(g)[n] = g
      BY <1>2, <3>2, TopSet
    <3> QED BY <2>1, <2>3, <3>1, <3>2, <3>3
  <2> QED BY <2>2, <2>3
<1> QED BY <1>1, <1>2

\* A call that writes puts the encoding of what it is given and takes a slot.
Puts(call, value) ==
    /\ Fits(call, value)
    /\ buffer' = buffer \o Encoded(call, value)
    /\ written' = written \cup
          {[call |-> call, value |-> value, at |-> Len(buffer),
            next |-> Len(buffer) + Len(Encoded(call, value)),
            before |-> nested, after |-> nested']}
    /\ started' = TRUE
    /\ nested' \in Seq(Frame)
    /\ Slotted(call, value, nested, nested')
    /\ nested = <<>> => ~started
    /\ call \in Containers => Len(nested) < WriterDepth

LEMMA ScalarPuts ==
    ASSUME Framed, NEW call \in Calls \ (Containers \cup {"key"}), NEW value, Fits(call, value),
           WriteScalar(call, value, Encoded(call, value))
    PROVE  Puts(call, value)
<1>1. CanBegin /\ nested' = Begun /\ started' = TRUE
  BY DEF WriteScalar, Put
<1>2. nested = <<>> => ~started
  BY <1>1 DEF CanBegin
<1>3. Slotted(call, value, nested, nested')
  <2>1. \A i \in 1 .. Len(nested) : nested[i].awaiting_value => nested[i].is_object
    BY DEF Framed, OnlyTop
  <2>2. \A i \in 1 .. Len(nested) :
            nested[i].is_object \in BOOLEAN /\ nested[i].awaiting_value \in BOOLEAN
    BY FrameType DEF Framed
  <2>3. Len(nested) \in Nat /\ call # "key" /\ call \notin Containers
    BY FrameType DEF Framed
  <2>4. Len(nested) > 0 => Len(nested) \in 1 .. Len(nested)
    BY <2>3
  <2> QED BY <1>1, <2>1, <2>2, <2>3, <2>4, BegunIs DEF Slotted, Framed
<1> QED BY <1>1, <1>2, <1>3, BegunIs DEF Puts, WriteScalar, Put, Framed

LEMMA OpenPuts ==
    ASSUME Framed, NEW call \in Containers, NEW value \in Word, NEW tag,
           <<tag>> \o Varint(value) = Encoded(call, value),
           Open(call, call = "object", tag, value)
    PROVE  Puts(call, value)
<1> DEFINE f == FrameOf(call = "object", value, FALSE)
           n == Len(nested)
<1>1. /\ n < WriterDepth /\ CanBegin
      /\ nested' = Append(Begun, f) /\ started' = TRUE
      /\ Put(call, value, Encoded(call, value), nested')
  BY DEF Open, Put, FrameOf
<1>2. f \in Frame
  <2>1. (call = "object") \in BOOLEAN /\ value \in Nat
    BY WordsAreNat
  <2> QED BY <2>1, FrameType
<1>3. Begun \in Seq(Frame) /\ Len(Begun) = n /\ n \in Nat
  BY <1>1, BegunIs, FrameType DEF Framed
<1> HIDE DEF n
<1>4. /\ nested' \in Seq(Frame) /\ Len(nested') = n + 1 /\ nested'[n + 1] = f
      /\ \A i \in 1 .. n : nested'[i] = Begun[i]
  <2> HIDE DEF f
  <2> QED BY <1>1, <1>2, <1>3
<1>5. nested = <<>> => ~started
  BY <1>1 DEF CanBegin
<1>6. Fits(call, value)
  BY DEF Fits, Calls, Containers, WithText
<1>7. Slotted(call, value, nested, nested')
  <2>1. \A i \in 1 .. n : nested[i].awaiting_value => nested[i].is_object
    BY DEF Framed, OnlyTop, n
  <2>2. \A i \in 1 .. n : nested[i].is_object \in BOOLEAN /\ nested[i].awaiting_value \in BOOLEAN
    BY FrameType DEF Framed, n
  <2>3. call # "key"
    BY DEF Containers
  <2>4. n > 0 => n \in 1 .. n
    BY <1>3
  <2>5. \A i \in 1 .. n - 1 : i \in 1 .. n
    BY <1>3
  <2>6. /\ \A i \in 1 .. n - 1 : nested'[i] = nested[i]
        /\ n > 0 =>
             /\ nested'[n].is_object = nested[n].is_object
             /\ ~nested'[n].awaiting_value
             /\ nested[n].is_object =>
                    nested[n].awaiting_value /\ nested'[n].remaining = nested[n].remaining
             /\ ~nested[n].is_object =>
                    nested[n].remaining > 0 /\ nested'[n].remaining = nested[n].remaining - 1
    <3>1. /\ \A i \in 1 .. n - 1 : Begun[i] = nested[i]
          /\ n > 0 =>
               /\ Begun[n].is_object = nested[n].is_object
               /\ nested[n].is_object =>
                      /\ nested[n].awaiting_value /\ ~Begun[n].awaiting_value
                      /\ Begun[n].remaining = nested[n].remaining
               /\ ~nested[n].is_object =>
                      /\ Begun[n].awaiting_value = nested[n].awaiting_value
                      /\ nested[n].remaining > 0
                      /\ Begun[n].remaining = nested[n].remaining - 1
      BY <1>1, BegunIs DEF Framed, n
    <3>2. n > 0 => nested'[n] = Begun[n]
      BY <1>4, <2>4
    <3>3. \A i \in 1 .. n - 1 : nested'[i] = nested[i]
      BY <1>4, <2>5, <3>1
    <3> QED BY <2>1, <2>2, <2>4, <3>1, <3>2, <3>3
  <2> QED BY <1>4, <2>3, <2>6 DEF Slotted, n, FrameOf
<1> QED BY <1>1, <1>4, <1>5, <1>6, <1>7 DEF Puts, Put, n

LEMMA KeyFrame ==
    ASSUME NEW t \in Frame, t.remaining > 0
    PROVE  LET f == [t EXCEPT !.remaining = @ - 1, !.awaiting_value = TRUE] IN
           /\ f \in Frame /\ f.is_object = t.is_object
           /\ f.remaining = t.remaining - 1 /\ f.awaiting_value
<1> DEFINE f == [t EXCEPT !.remaining = @ - 1]
           g == [f EXCEPT !.awaiting_value = TRUE]
<1>1. f \in Frame /\ f.is_object = t.is_object /\ f.remaining = t.remaining - 1
  BY DEF Frame
<1>2. [t EXCEPT !.remaining = @ - 1, !.awaiting_value = TRUE] = g
  BY DEF Frame
<1> HIDE DEF f
<1>3. g \in Frame /\ g.is_object = f.is_object /\ g.remaining = f.remaining /\ g.awaiting_value
  BY <1>1 DEF Frame
<1> QED BY <1>1, <1>2, <1>3

LEMMA KeyPuts ==
    ASSUME WriterAssumption, Framed, write_key
    PROVE  \E key : Puts("key", key)
<1>1. PICK key \in ByteTexts :
        /\ nested # <<>>
        /\ Top.is_object /\ ~Top.awaiting_value /\ Top.remaining > 0
        /\ Put("key", key, Text(key),
               SetTop([Top EXCEPT !.remaining = @ - 1, !.awaiting_value = TRUE]))
        /\ started' = started
  BY DEF write_key
<1> DEFINE n == Len(nested)
           t == Top
           f == [t EXCEPT !.remaining = @ - 1, !.awaiting_value = TRUE]
<1>2. Fits("key", key) /\ Encoded("key", key) = Text(key)
  BY DEF WriterAssumption, Fits, Calls, WithText, Containers, Encoded
<1>3. n \in Nat /\ n > 0 /\ t \in Frame /\ t = nested[n]
  BY <1>1, TopSet DEF Framed, Top
<1>4. f \in Frame /\ f.is_object = t.is_object /\ f.remaining = t.remaining - 1 /\ f.awaiting_value
  <2>1. t \in Frame /\ t.remaining > 0
    BY <1>1, <1>3
  <2> HIDE DEF t
  <2> QED BY <2>1, KeyFrame
<1>5. nested' = SetTop(f)
  BY <1>1 DEF Put
<1> HIDE DEF f, t
<1>6. /\ nested' \in Seq(Frame) /\ Len(nested') = n /\ nested'[n] = f
      /\ \A i \in 1 .. n - 1 : nested'[i] = nested[i]
  BY <1>1, <1>4, <1>5, TopSet DEF Framed
<1>7. Slotted("key", key, nested, nested')
  BY <1>1, <1>3, <1>4, <1>6 DEF Slotted, t, Containers
<1>8. started
  BY <1>1 DEF Framed
<1>9. Put("key", key, Encoded("key", key), nested') /\ started' = TRUE
  BY <1>1, <1>2, <1>8 DEF Put
<1> QED BY <1>1, <1>2, <1>6, <1>7, <1>9 DEF Puts, Put, Containers

\* A container is closed when it is complete.
Closes ==
    /\ nested # <<>> /\ Top.remaining = 0 /\ ~Top.awaiting_value
    /\ nested' = Pop(nested)
    /\ UNCHANGED <<buffer, started, written>>

LEMMA WriterMoves ==
    ASSUME WriterAssumption, Framed, WNext
    PROVE  Closes \/ \E call, value : Puts(call, value)
<1>1. CASE write_null
  <2>1. /\ Fits("null", 0) /\ Encoded("null", 0) = <<Null>>
        /\ "null" \in Calls \ (Containers \cup {"key"})
    BY DEF Fits, Encoded, Calls, WithText, Containers
  <2> QED BY <1>1, <2>1, ScalarPuts DEF write_null
<1>2. CASE write_bool
  <2>1. PICK value \in BOOLEAN : WriteScalar("bool", value, <<IF value THEN True ELSE False>>)
    BY <1>2 DEF write_bool
  <2>2. Fits("bool", value) /\ "bool" \in Calls \ (Containers \cup {"key"})
        /\ Encoded("bool", value) = <<IF value THEN True ELSE False>>
    BY DEF Fits, Encoded, Calls, WithText, Containers
  <2> QED BY <2>1, <2>2, ScalarPuts
<1>3. CASE write_int
  <2>1. PICK value \in Integers64 : WriteScalar("int", value, <<Signed>> \o Varint(ZigZag(value)))
    BY <1>3 DEF write_int
  <2>2. Fits("int", value) /\ "int" \in Calls \ (Containers \cup {"key"})
        /\ Encoded("int", value) = <<Signed>> \o Varint(ZigZag(value))
    BY DEF WriterAssumption, Fits, Encoded, Calls, WithText, Containers
  <2> QED BY <2>1, <2>2, ScalarPuts
<1>4. CASE write_uint
  <2>1. PICK value \in Words : WriteScalar("uint", value, <<Unsigned>> \o Varint(value))
    BY <1>4 DEF write_uint
  <2>2. Fits("uint", value) /\ "uint" \in Calls \ (Containers \cup {"key"})
        /\ Encoded("uint", value) = <<Unsigned>> \o Varint(value)
    BY DEF WriterAssumption, Fits, Encoded, Calls, WithText, Containers
  <2> QED BY <2>1, <2>2, ScalarPuts
<1>5. CASE write_float
  <2>1. PICK value \in Floats : WriteScalar("float", value, <<Floating>> \o value)
    BY <1>5 DEF write_float
  <2>2. Fits("float", value) /\ "float" \in Calls \ (Containers \cup {"key"})
        /\ Encoded("float", value) = <<Floating>> \o value
    BY DEF WriterAssumption, Fits, Encoded, Calls, WithText, Containers
  <2> QED BY <2>1, <2>2, ScalarPuts
<1>6. CASE write_string
  <2>1. PICK value \in ByteTexts : WriteScalar("string", value, <<String>> \o Text(value))
    BY <1>6 DEF write_string
  <2>2. Fits("string", value) /\ "string" \in Calls \ (Containers \cup {"key"})
        /\ Encoded("string", value) = <<String>> \o Text(value)
    BY DEF WriterAssumption, Fits, Encoded, Calls, WithText, Containers
  <2> QED BY <2>1, <2>2, ScalarPuts
<1>7. CASE write_bytes
  <2>1. PICK value \in ByteTexts : WriteScalar("bytes", value, <<Bytes>> \o Text(value))
    BY <1>7 DEF write_bytes
  <2>2. Fits("bytes", value) /\ "bytes" \in Calls \ (Containers \cup {"key"})
        /\ Encoded("bytes", value) = <<Bytes>> \o Text(value)
    BY DEF WriterAssumption, Fits, Encoded, Calls, WithText, Containers
  <2> QED BY <2>1, <2>2, ScalarPuts
<1>8. CASE write_array
  <2>1. PICK size \in Sizes : Open("array", FALSE, Array, size)
    BY <1>8 DEF write_array
  <2>2. /\ size \in Word /\ "array" \in Containers /\ FALSE = ("array" = "object")
        /\ <<Array>> \o Varint(size) = Encoded("array", size)
    BY DEF WriterAssumption, Encoded, Containers
  <2> QED BY <2>1, <2>2, OpenPuts
<1>9. CASE write_object
  <2>1. PICK size \in Sizes : Open("object", TRUE, Object, size)
    BY <1>9 DEF write_object
  <2>2. /\ size \in Word /\ "object" \in Containers /\ TRUE = ("object" = "object")
        /\ <<Object>> \o Varint(size) = Encoded("object", size)
    BY DEF WriterAssumption, Encoded, Containers
  <2> QED BY <2>1, <2>2, OpenPuts
<1>10. CASE write_key
  BY <1>10, KeyPuts
<1>11. CASE close_array \/ close_object
  <2>1. nested # <<>> /\ Close /\ (~Top.is_object \/ ~Top.awaiting_value)
    BY <1>11 DEF close_array, close_object
  <2>2. Len(nested) \in 1 .. Len(nested) /\ Top = nested[Len(nested)] /\ Top \in Frame
    BY <2>1, TopSet, FrameType DEF Framed, Top
  <2>3. Top.awaiting_value => Top.is_object
    BY <2>2 DEF Framed, OnlyTop
  <2>4. Top.awaiting_value \in BOOLEAN
    BY <2>2, FrameType
  <2> QED BY <2>1, <2>3, <2>4 DEF Close, Closes
<1> QED BY <1>1, <1>2, <1>3, <1>4, <1>5, <1>6, <1>7, <1>8, <1>9, <1>10, <1>11 DEF WNext

-----------------------------------------------------------------------------
(* The invariant of the writer.                                            *)

LEMMA WriterStarts ==
    ASSUME WInit
    PROVE  WriterInv
<1>1. /\ buffer = <<>> /\ nested = <<>> /\ started = FALSE /\ written = {}
      /\ Len(nested) = 0 /\ buffer \in Seq(Byte) /\ nested \in Seq(Frame)
  BY DEF WInit
<1>2. Framed
  <2>1. OnlyTop(nested)
    <3>1. \A i \in 1 .. Len(nested) : FALSE
      BY <1>1
    <3> QED BY <3>1 DEF OnlyTop
  <2>2. ~started /\ started \in BOOLEAN /\ ~(buffer # <<>>)
    BY <1>1
  <2> QED BY <1>1, <2>1, <2>2 DEF Framed
<1>3. Itemized /\ Chained /\ Counted
  BY <1>1 DEF Itemized, Chained, Counted
<1> QED BY <1>2, <1>3 DEF WriterInv

\* The frames after a call: none waits, but for the key's.
LEMMA SlottedOnlyTop ==
    ASSUME NEW f \in Seq(Frame), NEW g \in Seq(Frame), NEW call, NEW value,
           OnlyTop(f), Slotted(call, value, f, g)
    PROVE  /\ OnlyTop(g)
           /\ call # "key" => \A i \in 1 .. Len(g) : ~g[i].awaiting_value
<1> DEFINE n == Len(f)
<1>1. n \in Nat /\ Len(g) \in Nat /\ Len(g) \in {n, n + 1}
  BY FrameType DEF Slotted
<1>2. \A i \in 1 .. n - 1 : g[i] = f[i] /\ ~f[i].awaiting_value
  BY <1>1 DEF Slotted, OnlyTop
<1>3. CASE call = "key"
  BY <1>1, <1>2, <1>3 DEF Slotted, OnlyTop, Containers
<1>4. CASE call # "key"
  <2>1. n > 0 => ~g[n].awaiting_value
    BY <1>4 DEF Slotted
  <2>2. Len(g) = n + 1 => ~g[n + 1].awaiting_value
    BY <1>1 DEF Slotted
  <2>3. \A i \in 1 .. Len(g) : i \in 1 .. n - 1 \/ (i = n /\ n > 0) \/ (i = n + 1 /\ Len(g) = n + 1)
    BY <1>1
  <2>4. \A i \in 1 .. Len(g) : ~g[i].awaiting_value
    BY <1>2, <2>1, <2>2, <2>3
  <2> QED BY <1>4, <2>4 DEF OnlyTop
<1> QED BY <1>3, <1>4

\* What has been written stays where it is.
LEMMA StaysWritten ==
    ASSUME NEW s \in Seq(Byte), NEW b \in Seq(Byte), NEW e \in Seq(Byte), NEW p \in Nat,
           p + Len(e) <= Len(s), WrittenAt(s, p, e)
    PROVE  WrittenAt(s \o b, p, e)
  BY DEF WrittenAt

LEMMA JustWritten ==
    ASSUME NEW s \in Seq(Byte), NEW e \in Seq(Byte)
    PROVE  WrittenAt(s \o e, Len(s), e)
  BY DEF WrittenAt

\* What an item of the history has for the proofs.
LEMMA ItemFacts ==
    ASSUME WriterInv, NEW w \in written
    PROVE  /\ Item(w) /\ w.next <= Len(buffer)
           /\ w.at \in Nat /\ w.next \in Nat /\ w.at < w.next
           /\ Len(w.before) \in Nat /\ Len(w.after) \in Nat
           /\ Encoded(w.call, w.value) \in Seq(Byte)
           /\ w.next = w.at + Len(Encoded(w.call, w.value))
           /\ WrittenAt(buffer, w.at, Encoded(w.call, w.value))
           /\ w.before \in Seq(Frame) /\ w.after \in Seq(Frame)
           /\ Slotted(w.call, w.value, w.before, w.after)
           /\ OnlyTop(w.before)
           /\ w.call \in Containers => w.value \in Nat
<1>1. Item(w) /\ w.next <= Len(buffer) /\ WrittenAt(buffer, w.at, Encoded(w.call, w.value))
  BY DEF WriterInv, Itemized
<1>2. Encoded(w.call, w.value) \in Seq(Byte)
  BY <1>1, EncodedBytes DEF Item
<1>3. w.call \in Containers => w.value \in Nat
  BY <1>1, WordsAreNat DEF Item, Fits
<1> QED BY <1>1, <1>2, <1>3, FrameType DEF Item

LEMMA PutsKeepsInv ==
    ASSUME WriterInv, NEW call, NEW value, Puts(call, value)
    PROVE  WriterInv'
<1> DEFINE e == Encoded(call, value)
           new == [call |-> call, value |-> value, at |-> Len(buffer),
                   next |-> Len(buffer) + Len(e), before |-> nested, after |-> nested']
<1>1. e \in Seq(Byte) /\ Len(e) \in Nat /\ Len(e) > 0
  BY EncodedBytes DEF Puts
<1>2. /\ buffer \in Seq(Byte) /\ Len(buffer) \in Nat
      /\ buffer' \in Seq(Byte) /\ buffer' = buffer \o e
      /\ Len(buffer') = Len(buffer) + Len(e)
  BY <1>1 DEF Puts, WriterInv, Framed
<1>3. written' = written \cup {new}
  BY DEF Puts
<1>4. /\ new.call = call /\ new.value = value /\ new.at = Len(buffer)
      /\ new.next = Len(buffer') /\ new.before = nested /\ new.after = nested'
  BY <1>2
<1>5. /\ nested \in Seq(Frame) /\ nested' \in Seq(Frame)
      /\ Len(nested) \in Nat /\ Len(nested') \in Nat /\ OnlyTop(nested)
      /\ Slotted(call, value, nested, nested') /\ Fits(call, value)
      /\ call \in Containers => Len(nested) < WriterDepth
  BY FrameType DEF Puts, WriterInv, Framed
<1> HIDE DEF new, e
<1>6. OnlyTop(nested')
  BY <1>5, SlottedOnlyTop
<1>7. Framed'
  <2>1. buffer' # <<>>
    BY <1>1, <1>2
  <2>2. OnlyTop(nested)'
    BY <1>6 DEF OnlyTop
  <2> QED BY <1>2, <1>5, <2>1, <2>2 DEF Framed, Puts
<1>8. Item(new)
  <2>1. Len(buffer) = 0 <=> nested = <<>>
    <3>1. nested = <<>> => buffer = <<>>
      BY DEF Puts, WriterInv, Framed
    <3>2. buffer = <<>> => nested = <<>>
      BY DEF WriterInv, Framed
    <3> QED BY <1>2, <3>1, <3>2
  <2> QED BY <1>1, <1>2, <1>4, <1>5, <2>1 DEF Item, e
<1>9. Itemized'
  <2>1. ASSUME NEW w \in written'
        PROVE  /\ Item(w) /\ w.next <= Len(buffer')
               /\ WrittenAt(buffer', w.at, Encoded(w.call, w.value))
    <3>1. CASE w \in written
      <4>1. WrittenAt(buffer \o e, w.at, Encoded(w.call, w.value))
        BY <1>1, <1>2, <3>1, ItemFacts, StaysWritten
      <4> QED BY <1>1, <1>2, <3>1, <4>1, ItemFacts
    <3>2. CASE w = new
      <4>1. WrittenAt(buffer \o e, Len(buffer), e)
        BY <1>1, <1>2, JustWritten
      <4> QED BY <1>2, <1>4, <1>8, <3>2, <4>1 DEF e
    <3> QED BY <1>3, <3>1, <3>2
  <2> QED BY <2>1 DEF Itemized, Item, Slotted, OnlyTop, WrittenAt
<1>10. Chained'
  <2>1. buffer' # <<>> => \E w \in written' : w.at = 0
    <3>1. CASE buffer = <<>>
      BY <1>3, <1>4, <3>1
    <3>2. CASE buffer # <<>>
      BY <1>3, <3>2 DEF WriterInv, Chained
    <3> QED BY <3>1, <3>2
  <2>2. ASSUME NEW w \in written'
        PROVE  /\ w.next = Len(buffer') => Settles(w.after, nested')
               /\ w.next < Len(buffer') => \E v \in written' : v.at = w.next
               /\ \A v \in written' : v.at = w.next => Settles(w.after, v.before)
    <3>1. CASE w \in written
      <4>1. w.next <= Len(buffer) /\ w.next \in Nat
        BY <3>1, ItemFacts
      <4>2. w.next # Len(buffer')
        BY <1>1, <1>2, <4>1
      <4>3. w.next = Len(buffer) => Settles(w.after, nested)
        BY <3>1 DEF WriterInv, Chained
      <4>4. \E v \in written' : v.at = w.next
        <5>1. CASE w.next = Len(buffer)
          BY <1>3, <1>4, <5>1
        <5>2. CASE w.next < Len(buffer)
          BY <1>3, <3>1, <5>2 DEF WriterInv, Chained
        <5> QED BY <1>2, <4>1, <5>1, <5>2
      <4>5. ASSUME NEW v \in written', v.at = w.next PROVE Settles(w.after, v.before)
        <5>1. CASE v \in written
          BY <3>1, <4>5, <5>1 DEF WriterInv, Chained
        <5>2. CASE v = new
          BY <1>4, <4>3, <4>5, <5>2
        <5> QED BY <1>3, <5>1, <5>2
      <4> QED BY <4>2, <4>4, <4>5
    <3>2. CASE w = new
      <4>1. w.next = Len(buffer') /\ w.after = nested'
        BY <1>4, <3>2
      <4>2. Settles(nested', nested')
        BY <1>5 DEF Settles
      <4>3. \A v \in written' : v.at # w.next
        <5> SUFFICES ASSUME NEW v \in written' PROVE v.at # w.next
          OBVIOUS
        <5>1. CASE v \in written
          <6>1. v.at < v.next /\ v.next <= Len(buffer) /\ v.at \in Nat /\ v.next \in Nat
            BY <5>1, ItemFacts
          <6> QED BY <1>1, <1>2, <4>1, <6>1
        <5>2. CASE v = new
          BY <1>1, <1>2, <1>4, <4>1, <5>2
        <5> QED BY <1>3, <5>1, <5>2
      <4> QED BY <1>2, <4>1, <4>2, <4>3
    <3> QED BY <1>3, <3>1, <3>2
  <2> QED BY <2>1, <2>2 DEF Chained, Settles
<1>11. Counted'
  <2>1. ASSUME NEW w \in written', w.call \in Containers
        PROVE  /\ Stands(w)' =>
                    /\ nested'[Depth(w)].is_object <=> w.call = "object"
                    /\ Least(w) * w.value <= Len(buffer') - w.next + Owed(w)'
               /\ ~Stands(w)' => Least(w) * w.value <= Len(buffer') - w.next
    <3> DEFINE d == Depth(w)
    <3>0. \A v \in written : v.at < Len(buffer) /\ v.at \in Nat
      BY <1>2, ItemFacts
    <3>1. CASE w \in written
      <4>1. /\ w.value \in Nat /\ w.next \in Nat /\ w.next <= Len(buffer)
            /\ d \in Nat /\ d >= 1 /\ Least(w) \in {1, 2}
            /\ Least(w) = 2 <=> w.call = "object"
        BY <3>1, <2>1, ItemFacts DEF Depth, Least
      <4>2. Stands(w)' <=> Stands(w)
        <5>1. Len(nested') >= Len(nested)
          BY <1>5 DEF Slotted
        <5>2. new.at > w.at /\ new.before = nested
          BY <1>4, <3>0, <3>1
        <5>3. Stands(w)' <=> /\ Len(nested') >= d
                             /\ \A v \in written' : v.at > w.at => Len(v.before) >= d
          BY DEF Stands, Depth
        <5>4. (\A v \in written' : v.at > w.at => Len(v.before) >= d)
                <=> /\ \A v \in written : v.at > w.at => Len(v.before) >= d
                    /\ Len(nested) >= d
          BY <1>3, <5>2
        <5>5. Len(nested) >= d => Len(nested') >= d
          BY <1>5, <4>1, <5>1
        <5> QED BY <5>3, <5>4, <5>5 DEF Stands
      <4>3. CASE ~Stands(w)
        <5>1. Least(w) * w.value <= Len(buffer) - w.next /\ Least(w) * w.value \in Nat
          BY <2>1, <3>1, <4>1, <4>3 DEF WriterInv, Counted
        <5> QED BY <1>1, <1>2, <4>1, <4>2, <4>3, <5>1
      <4>4. CASE Stands(w)
        <5>1. /\ d \in 1 .. Len(nested)
              /\ nested[d].is_object <=> w.call = "object"
              /\ Least(w) * w.value <= Len(buffer) - w.next + Owed(w)
          BY <1>5, <2>1, <3>1, <4>1, <4>4 DEF WriterInv, Counted, Stands
        <5>2. /\ nested[d].is_object \in BOOLEAN /\ nested[d].remaining \in Nat
              /\ nested[d].awaiting_value \in BOOLEAN
          BY <1>5, <5>1, FrameType
        <5>3. nested[d].awaiting_value => d = Len(nested) /\ nested[d].is_object
          BY <1>5, <5>1 DEF OnlyTop
        <5> DEFINE r == nested[d].remaining
                   q == nested'[d].remaining
                   one == IF nested[d].awaiting_value THEN 1 ELSE 0
                   eins == IF nested'[d].awaiting_value THEN 1 ELSE 0
        <5>4. Owed(w) = Least(w) * r + one /\ Owed(w)' = Least(w) * q + eins
          BY DEF Owed, Depth, Least
        <5>4a. d \in 1 .. Len(nested')
          BY <1>5, <5>1 DEF Slotted
        <5>4b. q \in Nat /\ nested'[d].is_object \in BOOLEAN /\ nested'[d].awaiting_value \in BOOLEAN
          BY <1>5, <5>4a, FrameType
        <5>4c. r \in Nat /\ Len(buffer) < Len(buffer') /\ Least(w) * w.value \in Nat
               /\ Len(buffer) \in Nat /\ Len(buffer') \in Nat /\ w.next \in Nat
          BY <1>1, <1>2, <4>1, <5>2
        <5>5. CASE d < Len(nested)
          <6>1. nested'[d] = nested[d]
            BY <1>5, <5>1, <5>5 DEF Slotted
          <6>2. Owed(w)' = Owed(w) /\ Owed(w) \in Nat
            BY <4>1, <5>2, <5>4, <6>1
          <6>3. Least(w) * w.value \in Nat
            BY <4>1
          <6> QED BY <1>1, <1>2, <4>1, <4>2, <4>4, <5>1, <6>1, <6>2, <6>3
        <5>6. CASE d = Len(nested)
          <6>1. nested'[d].is_object = nested[d].is_object
            BY <1>5, <5>1, <5>6 DEF Slotted
          <6>2. CASE call = "key"
            <7>1. /\ nested[d].is_object /\ ~nested[d].awaiting_value /\ r > 0
                  /\ q = r - 1 /\ nested'[d].awaiting_value
              BY <1>5, <5>6, <6>2 DEF Slotted
            <7>2. Least(w) = 2 /\ one = 0 /\ eins = 1
              BY <4>1, <5>1, <7>1
            <7> HIDE DEF one, eins, r, q
            <7>3. Owed(w) = 2 * r /\ Owed(w)' = 2 * q + 1
              BY <5>4, <5>4b, <5>4c, <7>2
            <7>4. Least(w) * w.value <= Len(buffer') - w.next + Owed(w)'
              <8> HIDE DEF d
              <8> QED BY <5>1, <5>4b, <5>4c, <7>1, <7>3
            <7> QED BY <4>2, <4>4, <5>1, <6>1, <7>4
          <6>3. CASE call # "key" /\ nested[d].is_object
            <7>1. nested[d].awaiting_value /\ ~nested'[d].awaiting_value /\ q = r
              BY <1>5, <5>1, <5>6, <6>3 DEF Slotted
            <7>2. Least(w) = 2 /\ one = 1 /\ eins = 0
              BY <4>1, <5>1, <6>3, <7>1
            <7> HIDE DEF one, eins, r, q
            <7>3. Owed(w) = 2 * r + 1 /\ Owed(w)' = 2 * q
              BY <5>4, <5>4b, <5>4c, <7>2
            <7>4. Least(w) * w.value <= Len(buffer') - w.next + Owed(w)'
              <8> HIDE DEF d
              <8> QED BY <5>1, <5>4b, <5>4c, <7>1, <7>3
            <7> QED BY <4>2, <4>4, <5>1, <6>1, <7>4
          <6>4. CASE call # "key" /\ ~nested[d].is_object
            <7>1. r > 0 /\ q = r - 1 /\ ~nested'[d].awaiting_value
              BY <1>5, <5>1, <5>6, <6>4 DEF Slotted
            <7>2. Least(w) = 1 /\ one = 0 /\ eins = 0
              BY <4>1, <5>1, <5>3, <6>4, <7>1
            <7> HIDE DEF one, eins, r, q
            <7>3. Owed(w) = r /\ Owed(w)' = q
              BY <5>4, <5>4b, <5>4c, <7>2
            <7>4. Least(w) * w.value <= Len(buffer') - w.next + Owed(w)'
              <8> HIDE DEF d
              <8> QED BY <5>1, <5>4b, <5>4c, <7>1, <7>3
            <7> QED BY <4>2, <4>4, <5>1, <6>1, <7>4
          <6> QED BY <6>2, <6>3, <6>4
        <5> QED BY <5>1, <5>5, <5>6
      <4> QED BY <4>3, <4>4
    <3>2. CASE w = new
      <4>1. w.call = call /\ w.value = value /\ w.next = Len(buffer') /\ d = Len(nested) + 1
        BY <1>4, <3>2 DEF Depth
      <4>2. /\ Len(nested') = d /\ nested'[d].is_object = (call = "object")
            /\ nested'[d].remaining = value /\ ~nested'[d].awaiting_value
        BY <1>5, <2>1, <4>1 DEF Slotted
      <4>3. Stands(w)'
        <5>1. \A v \in written' : ~(v.at > w.at)
          <6>1. w.at = Len(buffer)
            BY <1>4, <3>2
          <6> QED BY <1>2, <1>3, <1>4, <3>0, <6>1
        <5>2. Len(nested') >= d
          BY <1>5, <4>2
        <5> QED BY <5>1, <5>2 DEF Stands, Depth
      <4>4a. Least(w) * value \in Nat
        <5>1. value \in Nat
          BY <1>5, <2>1, <4>1, WordsAreNat DEF Fits
        <5> QED BY <5>1 DEF Least
      <4>4. Owed(w)' = Least(w) * value
        <5>1. Owed(w)' = Least(w) * value + 0
          BY <4>2 DEF Owed, Depth, Least
        <5> QED BY <4>4a, <5>1
      <4>5. nested'[d].is_object <=> w.call = "object"
        BY <4>1, <4>2
      <4>6. Least(w) * w.value <= Len(buffer') - w.next + Owed(w)'
        BY <1>1, <1>2, <4>1, <4>4, <4>4a
      <4> QED BY <4>3, <4>5, <4>6
    <3> QED BY <1>3, <3>1, <3>2
  <2> QED BY <2>1 DEF Counted, Depth, Least
<1> QED BY <1>7, <1>9, <1>10, <1>11 DEF WriterInv

LEMMA Popped ==
    ASSUME NEW S, NEW s \in Seq(S), s # <<>>
    PROVE  LET n == Len(s)
               t == SubSeq(s, 1, n - 1)
           IN  t \in Seq(S) /\ Len(t) = n - 1 /\ \A i \in 1 .. n - 1 : t[i] = s[i]
<1> DEFINE m == Len(s) - 1
           t == SubSeq(s, 1, m)
<1>1. 1 \in Int /\ m \in Nat /\ \A i \in 1 .. m : s[i] \in S
  OBVIOUS
<1> HIDE DEF m
<1>2. /\ t \in Seq(S)
      /\ Len(t) = IF 1 <= m THEN m - 1 + 1 ELSE 0
      /\ \A i \in 1 .. m - 1 + 1 : t[i] = s[1 + i - 1]
  BY <1>1, SubSeqProperties
<1>3. Len(t) = m /\ \A i \in 1 .. m : t[i] = s[i]
  <2> HIDE DEF t
  <2>1. \A i \in 1 .. m : i \in 1 .. m - 1 + 1 /\ 1 + i - 1 = i
    BY <1>1
  <2> QED BY <1>1, <1>2, <2>1
<1> QED BY <1>2, <1>3 DEF m

LEMMA CloseKeepsInv ==
    ASSUME WriterInv, Closes
    PROVE  WriterInv'
<1> DEFINE n == Len(nested)
<1>1. /\ nested \in Seq(Frame) /\ n \in Nat /\ n > 0 /\ buffer # <<>>
      /\ nested[n].remaining = 0 /\ ~nested[n].awaiting_value
      /\ buffer \in Seq(Byte) /\ Len(buffer) \in Nat
  <2>1. nested \in Seq(Frame) /\ nested # <<>> /\ Top.remaining = 0 /\ ~Top.awaiting_value
    BY DEF Closes, WriterInv, Framed
  <2> QED BY <2>1 DEF Top, WriterInv, Framed
<1>2. /\ nested' \in Seq(Frame) /\ Len(nested') = n - 1
      /\ \A i \in 1 .. n - 1 : nested'[i] = nested[i]
  BY <1>1, Popped DEF Closes, Pop
<1>3. buffer' = buffer /\ started' = started /\ written' = written
  BY DEF Closes
<1> HIDE DEF n
<1>4. Framed'
  <2>1. \A i \in 1 .. n - 1 : ~nested'[i].awaiting_value
    BY <1>1, <1>2 DEF WriterInv, Framed, OnlyTop, n
  <2>2. OnlyTop(nested)'
    BY <1>2, <2>1 DEF OnlyTop
  <2> QED BY <1>1, <1>2, <1>3, <2>2 DEF WriterInv, Framed
<1>5. Itemized'
  <2>1. \A w \in written' :
            /\ Item(w) /\ w.next <= Len(buffer')
            /\ WrittenAt(buffer', w.at, Encoded(w.call, w.value))
    BY <1>3 DEF WriterInv, Itemized
  <2> QED BY <2>1 DEF Itemized
<1>6. Chained'
  <2>1. ASSUME NEW w \in written, w.next = Len(buffer) PROVE Settles(w.after, nested')
    <3>1. Settles(w.after, nested)
      BY <2>1 DEF WriterInv, Chained
    <3>2. Len(w.after) \in Nat
      BY ItemFacts
    <3> QED BY <1>1, <1>2, <3>1, <3>2 DEF Settles, n
  <2> QED BY <1>1, <1>3, <2>1 DEF WriterInv, Chained, Settles
<1>7. Counted'
  <2>1. ASSUME NEW w \in written, w.call \in Containers
        PROVE  /\ Stands(w)' =>
                    /\ nested'[Depth(w)].is_object <=> w.call = "object"
                    /\ Least(w) * w.value <= Len(buffer') - w.next + Owed(w)'
               /\ ~Stands(w)' => Least(w) * w.value <= Len(buffer') - w.next
    <3> DEFINE d == Depth(w)
    <3>1. d \in Nat /\ d >= 1
      BY ItemFacts DEF Depth
    <3>2. Stands(w)' <=> Stands(w) /\ d # n
      BY <1>1, <1>2, <1>3, <3>1 DEF Stands, Depth, n
    <3>3. CASE ~Stands(w)
      BY <1>3, <2>1, <3>2, <3>3 DEF WriterInv, Counted
    <3>4. CASE Stands(w) /\ d # n
      <4>1. d \in 1 .. n - 1
        BY <1>1, <3>1, <3>4 DEF Stands, n
      <4>2. nested'[d] = nested[d]
        BY <1>2, <4>1
      <4>3. Owed(w)' = Owed(w)
        BY <4>2 DEF Owed, Depth, Least
      <4> QED BY <1>3, <2>1, <3>2, <3>4, <4>2, <4>3 DEF WriterInv, Counted
    <3>5. CASE Stands(w) /\ d = n
      <4>1. Least(w) * w.value <= Len(buffer) - w.next + Owed(w)
        BY <2>1, <3>5 DEF WriterInv, Counted
      <4>2. Owed(w) = 0
        BY <1>1, <3>5 DEF Owed, Least
      <4>3. w.next \in Nat /\ Least(w) * w.value \in Nat
        <5>1. w.value \in Nat /\ w.next \in Nat
          BY <2>1, ItemFacts
        <5> QED BY <5>1 DEF Least
      <4> QED BY <1>1, <1>3, <3>2, <3>5, <4>1, <4>2, <4>3
    <3> QED BY <3>3, <3>4, <3>5
  <2> QED BY <1>3, <2>1 DEF Counted, Depth, Least
<1> QED BY <1>4, <1>5, <1>6, <1>7 DEF WriterInv

LEMMA WriterStaysStill ==
    ASSUME WriterInv, UNCHANGED wvars
    PROVE  WriterInv'
<1>1. buffer' = buffer /\ nested' = nested /\ started' = started /\ written' = written
  BY DEF wvars
<1>2. Framed' /\ Chained'
  BY <1>1 DEF WriterInv, Framed, Chained, OnlyTop, Settles
<1>2a. Itemized'
  <2>1. \A w \in written' :
            /\ Item(w) /\ w.next <= Len(buffer')
            /\ WrittenAt(buffer', w.at, Encoded(w.call, w.value))
    BY <1>1 DEF WriterInv, Itemized
  <2> QED BY <2>1 DEF Itemized
<1>3. Counted'
  BY <1>1 DEF WriterInv, Counted, Stands, Depth, Owed, Least
<1> QED BY <1>2, <1>2a, <1>3 DEF WriterInv

LEMMA WriterKeepsInv ==
    ASSUME WriterAssumption, WriterInv, WNext
    PROVE  WriterInv'
<1>1. Closes \/ \E call, value : Puts(call, value)
  BY WriterMoves DEF WriterInv
<1> QED BY <1>1, PutsKeepsInv, CloseKeepsInv

-----------------------------------------------------------------------------
(* What a whole document promises its reader.                              *)

\* Behind an item stands the next one, or the end.
LEMMA NextItem ==
    ASSUME WriterInv, NEW w \in written, w.next # Len(buffer)
    PROVE  \E v \in written : v.at = w.next /\ Settles(w.after, v.before)
<1>1. w.next < Len(buffer)
  <2>1. w.next <= Len(buffer) /\ w.next \in Nat /\ Len(buffer) \in Nat
    BY ItemFacts DEF WriterInv, Framed
  <2> QED BY <2>1
<1> QED BY <1>1 DEF WriterInv, Chained

\* An item with a slot to fill is not the last of a complete document.
LEMMA SlotIsFilled ==
    ASSUME WriterInv, complete, NEW w \in written, NEW i \in 1 .. Len(w.after),
           w.after[i].remaining # 0 \/ w.after[i].awaiting_value
    PROVE  w.next # Len(buffer)
<1>1. SUFFICES ASSUME w.next = Len(buffer) PROVE FALSE
  OBVIOUS
<1>2. Settles(w.after, nested) /\ Len(nested) = 0
  BY <1>1 DEF WriterInv, Chained, complete
<1>3. i \in Len(nested) + 1 .. Len(w.after)
  BY <1>2
<1> QED BY <1>2, <1>3 DEF Settles

\* In a complete document a container's count fits the bytes behind its head.
LEMMA CountFits ==
    ASSUME WriterInv, complete, NEW w \in written, w.call \in Containers
    PROVE  Least(w) * w.value <= Len(buffer) - w.next
<1>1. ~Stands(w)
  <2>1. Len(nested) = 0 /\ Depth(w) >= 1
    BY ItemFacts DEF complete, Depth
  <2> QED BY <2>1, ItemFacts DEF Stands, Depth
<1> QED BY <1>1 DEF WriterInv, Counted

-----------------------------------------------------------------------------
(* What the reader finds where an item is written. The definitions of the  *)
(* format are the same on both sides.                                      *)

LEMMA SameFormat ==
    /\ B!Groups = Groups /\ B!Word = Word
    /\ \A s, p : B!VarintEnds(s, p) = VarintEnds(s, p)
    /\ \A s, p, k : B!VarintValue(s, p, k) = VarintValue(s, p, k)
    /\ B!MaxInt = MaxInt
    /\ \A e : B!UnZigZag(e) = UnZigZag(e)
<1>1. B!Power = Power
  BY DEF B!Power, Power
<1>2. B!Base = Base /\ B!Groups = Groups /\ B!Word = Word /\ B!MaxInt = MaxInt
  BY <1>1 DEF B!Base, Base, B!Groups, Groups, B!Word, Word, B!MaxInt, MaxInt
<1>3. \A j : B!Weight(j) = Weight(j)
  BY <1>1 DEF B!Weight, Weight
<1>4. \A s, p : B!VarintEnds(s, p) = VarintEnds(s, p)
  BY <1>2 DEF B!VarintEnds, VarintEnds
<1>5. \A s, p, k : B!VarintValue(s, p, k) = VarintValue(s, p, k)
  BY <1>1, <1>2, <1>3 DEF B!VarintValue, VarintValue
<1>6. \A e : B!UnZigZag(e) = UnZigZag(e)
  BY DEF B!UnZigZag, UnZigZag
<1> QED BY <1>2, <1>4, <1>5, <1>6

LEMMA TakeNumber ==
    ASSUME NEW v \in Word, NEW p \in Nat, Len(handed) \in Nat, p <= Len(handed),
           WrittenAt(handed, p, Varint(v)), NEW t \in B!TakeVarint(p)
    PROVE  LET k == Len(Varint(v)) IN
           /\ k \in Nat /\ k > 0
           /\ t.ok <=> p + k <= Len(handed)
           /\ t.ok => t.at = p + k /\ t.value = v
           /\ t.at \in Nat /\ p <= t.at
           /\ t.ok \in BOOLEAN /\ t = [ok |-> t.ok, at |-> t.at, value |-> t.value]
<1> DEFINE k == Len(Varint(v))
<1>1. k \in Nat /\ k > 0
  BY VarintBytes
<1>2. /\ VarintEnds(handed, p) = IF p + k <= Len(handed) THEN {k} ELSE {}
      /\ p + k <= Len(handed) => VarintValue(handed, p, k) = v
  BY VarintIsRead
<1> HIDE DEF k
<1>3. CASE p + k <= Len(handed)
  <2>1. /\ t \in [ok : {TRUE}, at : p + 1 .. p + Groups, value : Word]
        /\ t.at - p \in VarintEnds(handed, p) /\ t.value = VarintValue(handed, p, t.at - p)
    BY <1>2, <1>3, SameFormat DEF B!TakeVarint, B!VarintAt
  <2>2. t.ok = TRUE /\ t.at \in p + 1 .. p + Groups /\ Groups \in Nat
        /\ t = [ok |-> t.ok, at |-> t.at, value |-> t.value]
    BY <2>1, Weights
  <2>3. t.at - p = k
    BY <1>2, <1>3, <2>1
  <2>4. t.value = v
    BY <1>2, <1>3, <2>1, <2>3
  <2>5. t.at = p + k
    BY <1>1, <2>2, <2>3
  <2>6. t.ok /\ t.ok \in BOOLEAN /\ t = [ok |-> t.ok, at |-> t.at, value |-> t.value]
    BY <2>2
  <2> QED BY <1>1, <1>3, <2>4, <2>5, <2>6 DEF k
<1>4. CASE ~(p + k <= Len(handed))
  <2>1. t = [ok |-> FALSE, at |-> p + B!VarintLost(handed, p), value |-> 0]
    BY <1>2, <1>4, SameFormat DEF B!TakeVarint
  <2>2. B!VarintLost(handed, p) \in Nat
    BY SameFormat, Weights DEF B!VarintLost
  <2> QED BY <1>1, <1>4, <2>1, <2>2 DEF k
<1> QED BY <1>3, <1>4

\* What take_length finds at p, where the count v was written: the count is
\* there and so many items of the least size fit behind it, or it throws.
TakesCount(t, p, v, least) ==
    LET k == Len(Varint(v)) IN
    /\ t.ok <=> p + k <= Len(handed) /\ least * v <= Len(handed) - (p + k)
    /\ t.ok => t.at = p + k /\ t.value = v
    /\ t.at \in Nat /\ p <= t.at

LEMMA TakeCount ==
    ASSUME NEW v \in Word, NEW p \in Nat, Len(handed) \in Nat, p <= Len(handed),
           WrittenAt(handed, p, Varint(v)), NEW least \in {1, 2}, NEW t \in B!TakeLength(p, least)
    PROVE  TakesCount(t, p, v, least)
<1> DEFINE k == Len(Varint(v))
<1>1. PICK u \in B!TakeVarint(p) :
        t = [u EXCEPT !.ok = u.ok /\ u.value <= (Len(handed) - u.at) \div least]
  BY DEF B!TakeLength
<1>2. /\ k \in Nat /\ k > 0
      /\ u.ok <=> p + k <= Len(handed)
      /\ u.ok => u.at = p + k /\ u.value = v
      /\ u.at \in Nat /\ p <= u.at
      /\ u.ok \in BOOLEAN /\ u = [ok |-> u.ok, at |-> u.at, value |-> u.value]
  BY TakeNumber
<1>3. /\ t.at = u.at /\ t.value = u.value
      /\ t.ok = (u.ok /\ u.value <= (Len(handed) - u.at) \div least)
  BY <1>1, <1>2
<1>4. v \in Nat
  BY WordsAreNat
<1> HIDE DEF k
<1>5. p + k <= Len(handed) =>
        (v <= (Len(handed) - (p + k)) \div least <=> least * v <= Len(handed) - (p + k))
  BY <1>2, <1>4
<1> QED BY <1>2, <1>3, <1>5 DEF k, TakesCount

\* A part of what is written.
LEMMA WrittenParts ==
    ASSUME NEW s, NEW p \in Nat, NEW a \in Seq(Byte), NEW b \in Seq(Byte),
           WrittenAt(s, p, a \o b)
    PROVE  WrittenAt(s, p, a) /\ WrittenAt(s, p + Len(a), b)
<1>1. Len(a \o b) = Len(a) + Len(b) /\ Len(a) \in Nat /\ Len(b) \in Nat
  OBVIOUS
<1>2. \A j \in 1 .. Len(a) : (a \o b)[j] = a[j] /\ j \in 1 .. Len(a \o b)
  OBVIOUS
<1>3. \A j \in 1 .. Len(b) : (a \o b)[Len(a) + j] = b[j] /\ Len(a) + j \in 1 .. Len(a \o b)
  OBVIOUS
<1>4. WrittenAt(s, p, a)
  BY <1>2 DEF WrittenAt
<1>5. ASSUME NEW j \in 1 .. Len(b), (p + Len(a)) + j <= Len(s)
      PROVE  s[(p + Len(a)) + j] = b[j]
  <2>1. p + (Len(a) + j) = (p + Len(a)) + j
    BY <1>1
  <2> QED BY <1>3, <1>5, <2>1 DEF WrittenAt
<1> QED BY <1>4, <1>5 DEF WrittenAt

LEMMA CutIs ==
    ASSUME NEW s, Len(s) \in Nat, NEW p \in Nat, NEW b \in Seq(Byte), WrittenAt(s, p, b),
           p + Len(b) <= Len(s)
    PROVE  SubSeq(s, p + 1, p + Len(b)) = b
<1> DEFINE n == Len(b)
           c == SubSeq(s, p + 1, p + n)
<1>1. n \in Nat /\ p + 1 \in Int /\ p + n \in Int
  OBVIOUS
<1>2. \A j \in 1 .. n : s[p + j] = b[j] /\ b[j] \in Byte
  BY DEF WrittenAt
<1>3. \A i \in p + 1 .. p + n : s[i] \in Byte
  <2>1. \A i \in p + 1 .. p + n : i - p \in 1 .. n /\ p + (i - p) = i
    BY <1>1
  <2> QED BY <1>2, <2>1
<1> HIDE DEF n
<1>4. /\ c \in Seq(Byte)
      /\ Len(c) = IF p + 1 <= p + n THEN (p + n) - (p + 1) + 1 ELSE 0
      /\ \A i \in 1 .. (p + n) - (p + 1) + 1 : c[i] = s[p + 1 + i - 1]
  BY <1>1, <1>3, SubSeqProperties
<1>5. Len(c) = n /\ \A i \in 1 .. n : c[i] = b[i]
  <2> HIDE DEF c
  <2>1. \A i \in 1 .. n : i \in 1 .. (p + n) - (p + 1) + 1 /\ p + 1 + i - 1 = p + i
    BY <1>1
  <2> QED BY <1>1, <1>2, <1>4, <2>1
<1>6. c = b
  <2>1. Len(c) = Len(b) /\ \A i \in 1 .. Len(b) : c[i] = b[i]
    BY <1>5 DEF n
  <2>2. c \in Seq(Byte)
    BY <1>4
  <2> HIDE DEF c
  <2> QED BY <2>1, <2>2
<1> QED BY <1>6 DEF n

-----------------------------------------------------------------------------
(* Where the reader stands.                                                *)

ReaderFrame == [is_object : BOOLEAN, remaining : Nat]
Phases == {"value", "slot", "close", "finish", "accepted", "thrown"}

\* What reading does next, for its caller or for skip_value.
Phase == IF turn = "skip" THEN passing.at ELSE turn

Handed ==
    \/ \E n \in 0 .. Len(buffer) : handed = SubSeq(buffer, 1, n)
    \/ complete /\ \E byte \in Trailing : handed = Append(buffer, byte)

\* The m frames of the reader are the first of the writer's frames f.
Like(f, m) ==
    /\ Len(opened) = m
    /\ \A i \in 1 .. m : /\ opened[i].is_object = f[i].is_object
                         /\ opened[i].remaining = f[i].remaining

\* The reader stands before the value v, whose slot it has taken.
AtItem(v) == v.call # "key" /\ v.at = offset /\ Like(v.after, Len(v.before))

\* The reader stands behind w; it has closed all but m frames.
BehindItem(w, m) ==
    /\ w.call # "key" /\ w.next = offset
    /\ m \in 0 .. Len(w.after)
    /\ \A i \in m + 1 .. Len(w.after) : w.after[i].remaining = 0
    /\ Like(w.after, m)

\* The input ends where a value is due. It is not a whole document.
NoMore == Len(handed) <= offset /\ ~(complete /\ handed = buffer)

Standing ==
    /\ Phase = "value" => NoMore \/ \E v \in written : AtItem(v)
    /\ Phase \in {"slot", "close"} =>
           \E w \in written : BehindItem(w, Len(opened)) /\ Len(opened) > 0
    /\ Phase = "close" => opened[Len(opened)].remaining = 0
    /\ Phase = "finish" => \E w \in written : BehindItem(w, 0)

Skipping ==
    /\ passing \in [at : {"idle", "value", "slot", "close"}, depth : Nat]
    /\ turn = "skip" <=> passing.at # "idle"
    /\ turn = "skip" => passing.depth <= Len(opened)
    /\ turn = "skip" /\ passing.at # "value" => passing.depth < Len(opened)

Answered ==
    handed = buffer =>
        IF returned.ok
        THEN returned.call \in Consuming => \E w \in written : Same(w)
        ELSE complete => OutOfRange

ReadInv ==
    /\ Handed
    /\ offset \in Nat /\ opened \in Seq(ReaderFrame)
    /\ turn # "thrown" => offset <= Len(handed)
    /\ Phase \in Phases
    /\ returned.ok \in BOOLEAN
    /\ Standing /\ Skipping /\ Answered
    /\ WholeOnly

LEMMA HandedFacts ==
    ASSUME WriterInv, Handed
    PROVE  /\ Len(handed) \in Nat /\ Len(buffer) \in Nat /\ buffer \in Seq(Byte)
           /\ \A i \in 1 .. Len(handed) : i <= Len(buffer) => handed[i] = buffer[i]
           /\ Len(buffer) < Len(handed) => complete
           /\ Len(handed) = Len(buffer) => handed = buffer
<1>1. buffer \in Seq(Byte) /\ Len(buffer) \in Nat
  BY DEF WriterInv, Framed
<1>2. CASE \E n \in 0 .. Len(buffer) : handed = SubSeq(buffer, 1, n)
  <2>1. PICK n \in 0 .. Len(buffer) : handed = SubSeq(buffer, 1, n)
    BY <1>2
  <2>2. n \in Nat /\ 1 \in Int /\ n \in Int /\ \A i \in 1 .. n : buffer[i] \in Byte
    BY <1>1
  <2>3. /\ SubSeq(buffer, 1, n) \in Seq(Byte)
        /\ Len(SubSeq(buffer, 1, n)) = IF 1 <= n THEN n - 1 + 1 ELSE 0
        /\ \A i \in 1 .. n - 1 + 1 : SubSeq(buffer, 1, n)[i] = buffer[1 + i - 1]
    BY <2>2, SubSeqProperties
  <2>4. handed \in Seq(Byte) /\ Len(handed) = n /\ \A i \in 1 .. n : handed[i] = buffer[i]
    <3>1. \A i \in 1 .. n : i \in 1 .. n - 1 + 1 /\ 1 + i - 1 = i
      BY <2>2
    <3> QED BY <2>1, <2>2, <2>3, <3>1
  <2>5. n = Len(buffer) => handed = buffer
    BY <1>1, <2>4
  <2> QED BY <1>1, <2>4, <2>5
<1>3. CASE complete /\ \E byte \in Trailing : handed = Append(buffer, byte)
  <2>1. PICK byte : complete /\ handed = Append(buffer, byte)
    BY <1>3
  <2> QED BY <1>1, <2>1
<1> QED BY <1>2, <1>3 DEF Handed

\* The input shows the item, as far as it reaches.
LEMMA InputShows ==
    ASSUME WriterInv, Handed, NEW w \in written
    PROVE  WrittenAt(handed, w.at, Encoded(w.call, w.value))
<1>1. /\ WrittenAt(buffer, w.at, Encoded(w.call, w.value))
      /\ w.next = w.at + Len(Encoded(w.call, w.value)) /\ w.next <= Len(buffer)
      /\ w.at \in Nat /\ Encoded(w.call, w.value) \in Seq(Byte)
  BY ItemFacts
<1> DEFINE e == Encoded(w.call, w.value)
<1>2. Len(e) \in Nat
  BY <1>1
<1> HIDE DEF e
<1>3. ASSUME NEW j \in 1 .. Len(e), w.at + j <= Len(handed)
      PROVE  handed[w.at + j] = e[j]
  <2>1. w.at + j \in 1 .. Len(handed) /\ w.at + j <= Len(buffer)
    BY <1>1, <1>2, <1>3, HandedFacts DEF e
  <2> QED BY <1>1, <2>1, HandedFacts DEF WrittenAt, e
<1> QED BY <1>3 DEF WrittenAt, e

-----------------------------------------------------------------------------
(* Reading a value.                                                        *)

TagOf(call, value) ==
    CASE call = "null" -> Null
      [] call = "bool" -> (IF value THEN True ELSE False)
      [] call = "int" -> Signed
      [] call = "uint" -> Unsigned
      [] call = "float" -> Floating
      [] call = "string" -> String
      [] call = "bytes" -> Bytes
      [] call = "array" -> Array
      [] call = "object" -> Object

BodyOf(call, value) ==
    CASE call \in {"null", "bool"} -> <<>>
      [] call = "int" -> Varint(ZigZag(value))
      [] call \in {"uint"} \cup Containers -> Varint(value)
      [] call = "float" -> value
      [] call \in {"string", "bytes"} -> Text(value)

\* Call by call.
LEMMA TagsAndBodies ==
    ASSUME NEW call, NEW value
    PROVE  /\ call = "null" => TagOf(call, value) = Null /\ BodyOf(call, value) = <<>>
           /\ call = "bool" => /\ TagOf(call, value) = IF value THEN True ELSE False
                              /\ BodyOf(call, value) = <<>>
           /\ call = "int" => TagOf(call, value) = Signed /\ BodyOf(call, value) = Varint(ZigZag(value))
           /\ call = "uint" => TagOf(call, value) = Unsigned /\ BodyOf(call, value) = Varint(value)
           /\ call = "float" => TagOf(call, value) = Floating /\ BodyOf(call, value) = value
           /\ call = "string" => TagOf(call, value) = String /\ BodyOf(call, value) = Text(value)
           /\ call = "bytes" => TagOf(call, value) = Bytes /\ BodyOf(call, value) = Text(value)
           /\ call = "array" => TagOf(call, value) = Array /\ BodyOf(call, value) = Varint(value)
           /\ call = "object" => TagOf(call, value) = Object /\ BodyOf(call, value) = Varint(value)
<1>1. call = "null" => TagOf(call, value) = Null /\ BodyOf(call, value) = <<>>
  BY DEF TagOf, BodyOf, Containers
<1>2. call = "bool" => /\ TagOf(call, value) = IF value THEN True ELSE False
                       /\ BodyOf(call, value) = <<>>
  BY DEF TagOf, BodyOf, Containers
<1>3. call = "int" => TagOf(call, value) = Signed /\ BodyOf(call, value) = Varint(ZigZag(value))
  BY DEF TagOf, BodyOf, Containers
<1>4. call = "uint" => TagOf(call, value) = Unsigned /\ BodyOf(call, value) = Varint(value)
  BY DEF TagOf, BodyOf, Containers
<1>5. call = "float" => TagOf(call, value) = Floating /\ BodyOf(call, value) = value
  BY DEF TagOf, BodyOf, Containers
<1>6. call = "string" => TagOf(call, value) = String /\ BodyOf(call, value) = Text(value)
  BY DEF TagOf, BodyOf, Containers
<1>7. call = "bytes" => TagOf(call, value) = Bytes /\ BodyOf(call, value) = Text(value)
  BY DEF TagOf, BodyOf, Containers
<1>8. call = "array" => TagOf(call, value) = Array /\ BodyOf(call, value) = Varint(value)
  BY DEF TagOf, BodyOf, Containers
<1>9. call = "object" => TagOf(call, value) = Object /\ BodyOf(call, value) = Varint(value)
  BY DEF TagOf, BodyOf, Containers
<1> QED BY <1>1, <1>2, <1>3, <1>4, <1>5, <1>6, <1>7, <1>8, <1>9

LEMMA TagAndBody ==
    ASSUME NEW call, NEW value, Fits(call, value), call # "key"
    PROVE  /\ Encoded(call, value) = <<TagOf(call, value)>> \o BodyOf(call, value)
           /\ TagOf(call, value) \in Tags /\ TagOf(call, value) \in Byte
           /\ BodyOf(call, value) \in Seq(Byte)
<1>1. TagOf(call, value) \in Tags
  BY DEF Fits, Calls, WithText, Containers, TagOf, Tags, Null, False, True, Signed, Unsigned,
         Floating, String, Bytes, Array, Object
<1>2. BodyOf(call, value) \in Seq(Byte)
  <2>1. CASE call \in {"null", "bool"}
    <3>1. BodyOf(call, value) = <<>>
      BY <2>1, TagsAndBodies
    <3> QED BY <3>1
  <2>2. CASE call = "int"
    <3>1. ZigZag(value) \in Word
      BY <2>2, ZigZagIsUndone DEF Fits
    <3>2. BodyOf(call, value) = Varint(ZigZag(value))
      BY <2>2, TagsAndBodies
    <3> QED BY <3>1, <3>2, VarintBytes
  <2>3. CASE call \in {"uint"} \cup Containers
    <3>1. value \in Word
      BY <2>3 DEF Fits
    <3>2. BodyOf(call, value) = Varint(value)
      BY <2>3 DEF BodyOf, Containers
    <3> QED BY <3>1, <3>2, VarintBytes
  <2>4. CASE call = "float"
    <3>1. FloatBytes \in Nat /\ value \in [1 .. FloatBytes -> Byte]
      BY <2>4, FormatAssumption DEF Fits
    <3> QED BY <2>4, <3>1 DEF BodyOf, Containers
  <2>5. CASE call \in {"string", "bytes"}
    <3>1. value \in Seq(Byte) /\ Len(value) \in Word
      BY <2>5 DEF Fits, WithText
    <3>2. BodyOf(call, value) = Varint(Len(value)) \o value
      BY <2>5 DEF BodyOf, Containers, Text
    <3> QED BY <3>1, <3>2, VarintBytes
  <2> QED BY <2>1, <2>2, <2>3, <2>4, <2>5 DEF Fits, Calls, WithText, Containers
<1>3. Encoded(call, value) = <<TagOf(call, value)>> \o BodyOf(call, value)
  <2>1. CASE call \in {"null", "bool"}
    <3>1. Encoded(call, value) = <<TagOf(call, value)>> /\ BodyOf(call, value) = <<>>
      BY <2>1, TagsAndBodies DEF Encoded
    <3>2. <<TagOf(call, value)>> \in Seq(Tags)
      BY <1>1
    <3> QED BY <3>1, <3>2
  <2>2. CASE call \notin {"null", "bool"}
    BY <2>2 DEF Encoded, TagOf, BodyOf, Fits, Calls, WithText, Containers
  <2> QED BY <2>1, <2>2
<1> QED BY <1>1, <1>2, <1>3, TagsAreBytes

LEMMA TagTells ==
    ASSUME NEW call, NEW value, Fits(call, value), call # "key"
    PROVE  LET t == TagOf(call, value) IN
           /\ t = Null => call = "null"
           /\ t \in {True, False} => call = "bool" /\ value = (t = True)
           /\ t = Signed => call = "int"
           /\ t = Unsigned => call = "uint"
           /\ t = Floating => call = "float"
           /\ t = String => call = "string"
           /\ t = Bytes => call = "bytes"
           /\ t = Array => call = "array"
           /\ t = Object => call = "object"
<1> DEFINE t == TagOf(call, value)
<1>1. /\ call = "null" => t = 0
      /\ call = "bool" => t = IF value THEN 2 ELSE 1
      /\ call = "int" => t = 3
      /\ call = "uint" => t = 4
      /\ call = "float" => t = 5
      /\ call = "string" => t = 6
      /\ call = "bytes" => t = 7
      /\ call = "array" => t = 8
      /\ call = "object" => t = 9
  BY TagsAndBodies DEF Null, False, True, Signed, Unsigned, Floating, String, Bytes, Array, Object
<1>2. /\ call \in {"null", "bool", "int", "uint", "float", "string", "bytes", "array", "object"}
      /\ call = "bool" => value \in BOOLEAN
  BY DEF Fits, Calls, WithText, Containers
<1> HIDE DEF t
<1>3. /\ Null = 0 /\ False = 1 /\ True = 2 /\ Signed = 3 /\ Unsigned = 4 /\ Floating = 5
      /\ String = 6 /\ Bytes = 7 /\ Array = 8 /\ Object = 9
  BY DEF Null, False, True, Signed, Unsigned, Floating, String, Bytes, Array, Object
<1>4. t \in {1, 2} => call = "bool" /\ value = (t = 2)
  BY <1>1, <1>2
<1> QED BY <1>1, <1>2, <1>3, <1>4 DEF t

\* Where the reader stands at a value and bytes are left, it sees its tag.
LEMMA Shown ==
    ASSUME WriterInv, Handed, offset \in Nat, offset < Len(handed),
           NEW v \in written, v.at = offset, v.call # "key"
    PROVE  /\ handed[offset + 1] = TagOf(v.call, v.value)
           /\ B!HasTag
           /\ WrittenAt(handed, offset + 1, BodyOf(v.call, v.value))
           /\ BodyOf(v.call, v.value) \in Seq(Byte)
           /\ v.next = (offset + 1) + Len(BodyOf(v.call, v.value))
<1> DEFINE t == TagOf(v.call, v.value)
           b == BodyOf(v.call, v.value)
           e == Encoded(v.call, v.value)
<1>1. e = <<t>> \o b /\ t \in Tags /\ t \in Byte /\ b \in Seq(Byte)
  BY ItemFacts, TagAndBody DEF Item
<1>2. WrittenAt(handed, offset, e) /\ v.next = offset + Len(e)
  BY InputShows, ItemFacts
<1>3. Len(handed) \in Nat
  BY HandedFacts
<1> HIDE DEF t, b, e
<1>4. <<t>> \in Seq(Byte) /\ Len(<<t>>) = 1 /\ <<t>>[1] = t
  BY <1>1
<1>5. WrittenAt(handed, offset, <<t>>) /\ WrittenAt(handed, offset + 1, b)
  BY <1>1, <1>2, <1>4, WrittenParts
<1>6. handed[offset + 1] = t
  BY <1>3, <1>4, <1>5 DEF WrittenAt
<1>7. v.next = (offset + 1) + Len(b)
  <2>1. Len(e) = 1 + Len(b) /\ Len(b) \in Nat
    BY <1>1, <1>4
  <2> QED BY <1>2, <2>1
<1>8. B!HasTag
  <2>1. B!Tags = Tags
    BY DEF B!Tags, Tags, B!Null, B!Object, Null, Object
  <2> QED BY <1>1, <1>6, <2>1 DEF B!HasTag
<1> QED BY <1>1, <1>5, <1>6, <1>7, <1>8 DEF t, b

-----------------------------------------------------------------------------
\* The method throws: the input is not a whole document, or the number is not in
\* the range of the method.
OutOf(call) ==
    \E w \in written :
        /\ w.at = offset
        /\ \/ call = "int" /\ w.call = "uint" /\ w.value > MaxInt
           \/ call = "uint" /\ w.call = "int" /\ w.value < 0

Refuses ==
    /\ returned'.ok = FALSE /\ returned'.at = offset
    /\ passing' = B!NotSkipping
    /\ handed' = handed
    /\ offset' \in Nat /\ offset <= offset'
    /\ opened' \in Seq(ReaderFrame) /\ Len(opened') = Len(opened)
    /\ complete /\ handed = buffer => OutOf(returned'.call)

\* The method returns what was written.
Answers(w) ==
    /\ returned'.ok = TRUE /\ returned'.at = w.at
    /\ returned'.call = w.call \/ (returned'.call \in IntegerCalls /\ w.call \in IntegerCalls)
    /\ returned'.value = w.value

Reads(w) ==
    /\ Answers(w)
    /\ handed' = handed
    /\ w.at = offset /\ offset' = w.next /\ w.next <= Len(handed)
    /\ opened' \in Seq(ReaderFrame)
    /\ Like(w.after, Len(w.after))'

\* A value that was read; skip_value sees where it stands.
ReadsValue(w) ==
    /\ Reads(w) /\ w.call # "key"
    /\ passing' = B!Behind(opened') /\ Len(opened) <= Len(opened') /\ Len(opened') <= Len(opened) + 1

LEMMA FailRefuses ==
    ASSUME ReadInv, NEW call, NEW p \in Nat, offset <= p, B!Fail(call, p),
           ~(complete /\ handed = buffer) \/ OutOf(call)
    PROVE  Refuses
  BY DEF ReadInv, B!Fail, B!Throw, B!Threw, Refuses

\* In a whole document there is a tag, and the whole item.
LEMMA WholeHolds ==
    ASSUME WriterInv, ReadInv, NEW v \in written, v.at = offset, handed = buffer
    PROVE  offset < Len(handed) /\ v.next <= Len(handed)
  BY ItemFacts, HandedFacts DEF ReadInv

LEMMA ScalarReads ==
    ASSUME WriterInv, ReadInv, NEW v \in written, AtItem(v), v.call \notin Containers,
           NEW call, NEW value, NEW p, B!Scalar(call, value, p),
           p = v.next, p <= Len(handed), value = v.value,
           call = v.call \/ (call \in IntegerCalls /\ v.call \in IntegerCalls)
    PROVE  ReadsValue(v)
<1>1. /\ offset' = p /\ opened' = opened /\ handed' = handed /\ passing' = B!Behind(opened)
      /\ returned' = [call |-> call, ok |-> TRUE, at |-> offset, value |-> value]
  BY DEF B!Scalar, B!Return, B!Returned
<1>2. Len(v.after) = Len(v.before) /\ v.at = offset /\ v.call # "key"
  BY ItemFacts DEF Slotted, AtItem
<1>3. Len(opened) \in Nat
  BY DEF ReadInv
<1>4. Like(v.after, Len(v.after))'
  BY <1>1, <1>2 DEF AtItem, Like
<1> QED BY <1>1, <1>2, <1>3, <1>4 DEF ReadsValue, Reads, Answers, ReadInv

LEMMA SameTags ==
    /\ B!Null = Null /\ B!False = False /\ B!True = True /\ B!Signed = Signed
    /\ B!Unsigned = Unsigned /\ B!Floating = Floating /\ B!String = String
    /\ B!Bytes = Bytes /\ B!Array = Array /\ B!Object = Object
    /\ Signed # Unsigned /\ Array # Object
  BY DEF B!Null, B!False, B!True, B!Signed, B!Unsigned, B!Floating, B!String, B!Bytes,
         B!Array, B!Object,
         Null, False, True, Signed, Unsigned, Floating, String, Bytes, Array, Object

\* What a reader that sees a tag knows of the item there.
LEMMA Seen ==
    ASSUME WriterInv, ReadInv, NEW v \in written, AtItem(v), offset < Len(handed)
    PROVE  LET t == handed[offset + 1] IN
           /\ offset + 1 \in Nat /\ offset + 1 <= Len(handed) /\ Len(handed) \in Nat
           /\ t = TagOf(v.call, v.value)
           /\ WrittenAt(handed, offset + 1, BodyOf(v.call, v.value))
           /\ BodyOf(v.call, v.value) \in Seq(Byte)
           /\ v.next = (offset + 1) + Len(BodyOf(v.call, v.value))
           /\ Fits(v.call, v.value) /\ v.call # "key" /\ v.at = offset
           /\ t = Null => v.call = "null"
           /\ t \in {True, False} => v.call = "bool" /\ v.value = (t = True)
           /\ t = Signed => v.call = "int"
           /\ t = Unsigned => v.call = "uint"
           /\ t = Floating => v.call = "float"
           /\ t = String => v.call = "string"
           /\ t = Bytes => v.call = "bytes"
           /\ t = Array => v.call = "array"
           /\ t = Object => v.call = "object"
<1>1. /\ Handed /\ offset \in Nat /\ v.at = offset /\ v.call # "key" /\ Len(handed) \in Nat
      /\ Fits(v.call, v.value)
  BY ItemFacts, HandedFacts DEF ReadInv, AtItem, Item
<1>2. /\ handed[offset + 1] = TagOf(v.call, v.value)
      /\ WrittenAt(handed, offset + 1, BodyOf(v.call, v.value))
      /\ BodyOf(v.call, v.value) \in Seq(Byte)
      /\ v.next = (offset + 1) + Len(BodyOf(v.call, v.value))
  BY <1>1, Shown
<1> QED BY <1>1, <1>2, TagTells

LEMMA NoTagRefuses ==
    ASSUME WriterInv, ReadInv, NEW v \in written, AtItem(v), NEW call,
           ~B!HasTag, B!Fail(call, offset)
    PROVE  Refuses
<1>1. ASSUME handed = buffer PROVE FALSE
  <2>1. offset < Len(handed) /\ v.at = offset /\ v.call # "key" /\ offset \in Nat /\ Handed
    BY <1>1, WholeHolds DEF AtItem, ReadInv
  <2> QED BY <2>1, Shown
<1>2. offset \in Nat /\ offset <= offset
  BY DEF ReadInv
<1> QED BY <1>1, <1>2, FailRefuses

LEMMA NullRead ==
    ASSUME WriterInv, ReadInv, NEW v \in written, AtItem(v), B!Is(B!Null), B!read_null
    PROVE  ReadsValue(v)
<1>1. offset < Len(handed) /\ handed[offset + 1] = Null
  BY SameTags DEF B!Is, B!Peek, B!HasTag
<1>2. B!Scalar("null", 0, offset + 1)
  BY DEF B!read_null
<1>3. /\ v.call = "null" /\ Fits(v.call, v.value)
      /\ v.next = (offset + 1) + Len(BodyOf(v.call, v.value))
  BY <1>1, Seen
<1>4. v.value = 0 /\ v.next = offset + 1
  <2>1. BodyOf(v.call, v.value) = <<>>
    BY <1>3, TagsAndBodies
  <2>2. Len(<<>>) = 0 /\ offset \in Nat
    BY DEF ReadInv
  <2> QED BY <1>3, <2>1, <2>2 DEF Fits
<1>5. offset + 1 <= Len(handed)
  BY <1>1, HandedFacts DEF ReadInv
<1> QED BY <1>2, <1>3, <1>4, <1>5, ScalarReads DEF Containers

LEMMA BoolRead ==
    ASSUME WriterInv, ReadInv, NEW v \in written, AtItem(v),
           B!Peek({B!True, B!False}), B!read_bool
    PROVE  ReadsValue(v)
<1>1. offset < Len(handed) /\ handed[offset + 1] \in {True, False}
  BY SameTags DEF B!Peek, B!HasTag
<1>2. B!Scalar("bool", B!Is(B!True), offset + 1)
  BY DEF B!read_bool
<1>3. /\ v.call = "bool" /\ v.value = (handed[offset + 1] = True)
      /\ v.next = (offset + 1) + Len(BodyOf(v.call, v.value))
  BY <1>1, Seen
<1>4. v.next = offset + 1
  <2>1. BodyOf(v.call, v.value) = <<>>
    BY <1>3, TagsAndBodies
  <2>2. Len(<<>>) = 0 /\ offset \in Nat
    BY DEF ReadInv
  <2> QED BY <1>3, <2>1, <2>2
<1>5. B!Is(B!True) = v.value
  <2>1. B!Is(B!True) <=> handed[offset + 1] = True
    BY SameTags DEF B!Is, B!Peek
  <2>2. B!Is(B!True) \in BOOLEAN
    BY DEF B!Is, B!Peek
  <2> QED BY <1>3, <2>1, <2>2
<1> DEFINE b == B!Is(B!True)
<1>6. b = v.value /\ B!Scalar("bool", b, offset + 1)
  BY <1>2, <1>5
<1> HIDE DEF b
<1>7. offset + 1 <= Len(handed)
  BY <1>1, HandedFacts DEF ReadInv
<1> QED BY <1>3, <1>4, <1>6, <1>7, ScalarReads DEF Containers

\* The number behind a tag.
NumberOf(v) == IF v.call = "int" THEN ZigZag(v.value) ELSE v.value

LEMMA NumberSeen ==
    ASSUME WriterInv, ReadInv, NEW v \in written, AtItem(v),
           B!Peek({B!Signed, B!Unsigned}), NEW t \in B!TakeVarint(offset + 1)
    PROVE  /\ v.call \in IntegerCalls
           /\ B!Is(B!Signed) <=> v.call = "int"
           /\ B!Is(B!Unsigned) <=> v.call = "uint"
           /\ handed = buffer => t.ok
           /\ t.ok \in BOOLEAN
           /\ t.ok => t.at = v.next /\ t.value = NumberOf(v) /\ t.at <= Len(handed)
           /\ v.call = "int" => B!UnZigZag(NumberOf(v)) = v.value /\ v.value \in Int
           /\ v.call = "uint" => v.value \in Nat
           /\ t.at \in Nat /\ offset <= t.at
<1>1. offset < Len(handed) /\ handed[offset + 1] \in {Signed, Unsigned}
  BY SameTags DEF B!Peek, B!HasTag
<1>2. /\ offset + 1 \in Nat /\ offset + 1 <= Len(handed) /\ Len(handed) \in Nat
      /\ WrittenAt(handed, offset + 1, BodyOf(v.call, v.value))
      /\ v.next = (offset + 1) + Len(BodyOf(v.call, v.value))
      /\ Fits(v.call, v.value) /\ v.at = offset
  BY <1>1, Seen
<1>3. /\ handed[offset + 1] = Signed => v.call = "int"
      /\ handed[offset + 1] = Unsigned => v.call = "uint"
  BY <1>1, Seen
<1>4. v.call \in IntegerCalls
  BY <1>1, <1>3 DEF IntegerCalls
<1>5. /\ B!Is(B!Signed) <=> v.call = "int"
      /\ B!Is(B!Unsigned) <=> v.call = "uint"
  BY <1>1, <1>3, SameTags DEF B!Is, B!Peek
<1>6. NumberOf(v) \in Word /\ BodyOf(v.call, v.value) = Varint(NumberOf(v))
  BY <1>2, <1>4, TagsAndBodies, ZigZagIsUndone DEF NumberOf, IntegerCalls, Fits
<1>7. /\ t.ok <=> (offset + 1) + Len(Varint(NumberOf(v))) <= Len(handed)
      /\ t.ok => t.at = (offset + 1) + Len(Varint(NumberOf(v))) /\ t.value = NumberOf(v)
      /\ t.at \in Nat /\ offset + 1 <= t.at /\ t.ok \in BOOLEAN
  BY <1>2, <1>6, TakeNumber
<1>8. handed = buffer => t.ok
  BY <1>2, <1>6, <1>7, WholeHolds
<1>9. v.call = "int" => B!UnZigZag(NumberOf(v)) = v.value /\ v.value \in Int
  BY <1>2, ZigZagIsUndone, SameFormat DEF NumberOf, Fits
<1>10. v.call = "uint" => v.value \in Nat
  BY <1>2, WordsAreNat DEF Fits
<1>11. offset <= t.at
  BY <1>7 DEF ReadInv
<1> QED BY <1>2, <1>4, <1>5, <1>6, <1>7, <1>8, <1>9, <1>10, <1>11

LEMMA IntRead ==
    ASSUME WriterInv, ReadInv, NEW v \in written, AtItem(v),
           B!Peek({B!Signed, B!Unsigned}), B!read_int
    PROVE  ReadsValue(v) \/ Refuses
<1>1. PICK t \in B!TakeVarint(offset + 1) :
        IF ~t.ok \/ (B!Is(B!Unsigned) /\ t.value > B!MaxInt)
        THEN B!Fail("int", t.at)
        ELSE B!Scalar("int", IF B!Is(B!Signed) THEN B!UnZigZag(t.value) ELSE t.value, t.at)
  BY DEF B!read_int
<1>2. /\ v.call \in IntegerCalls
      /\ B!Is(B!Signed) <=> v.call = "int"
      /\ B!Is(B!Unsigned) <=> v.call = "uint"
      /\ handed = buffer => t.ok
      /\ t.ok \in BOOLEAN
      /\ t.ok => t.at = v.next /\ t.value = NumberOf(v) /\ t.at <= Len(handed)
      /\ v.call = "int" => B!UnZigZag(NumberOf(v)) = v.value /\ v.value \in Int
      /\ v.call = "uint" => v.value \in Nat
      /\ t.at \in Nat /\ offset <= t.at
  BY NumberSeen
<1>3. v.call = "uint" => NumberOf(v) = v.value
  BY DEF NumberOf
<1>4. CASE ~t.ok
  BY <1>1, <1>2, <1>4, FailRefuses
<1>5. CASE t.ok /\ v.call = "uint" /\ t.value > MaxInt
  <2>1. B!Fail("int", t.at)
    BY <1>1, <1>2, <1>5, SameFormat
  <2>2. OutOf("int")
    BY <1>2, <1>3, <1>5 DEF OutOf, AtItem
  <2> QED BY <1>2, <2>1, <2>2, FailRefuses
<1>6. CASE t.ok /\ ~(v.call = "uint" /\ t.value > MaxInt)
  <2> DEFINE n == IF B!Is(B!Signed) THEN B!UnZigZag(t.value) ELSE t.value
  <2>1. B!Scalar("int", n, t.at)
    BY <1>1, <1>2, <1>6, SameFormat
  <2>2. n = v.value
    BY <1>2, <1>3, <1>6 DEF IntegerCalls
  <2> HIDE DEF n
  <2>3. v.call \notin Containers /\ "int" \in IntegerCalls
    BY <1>2 DEF Containers, IntegerCalls
  <2> QED BY <1>2, <1>6, <2>1, <2>2, <2>3, ScalarReads
<1> QED BY <1>2, <1>4, <1>5, <1>6

LEMMA UintRead ==
    ASSUME WriterInv, ReadInv, NEW v \in written, AtItem(v),
           B!Peek({B!Signed, B!Unsigned}), B!read_uint
    PROVE  ReadsValue(v) \/ Refuses
<1>1. PICK t \in B!TakeVarint(offset + 1) :
        IF ~t.ok \/ (B!Is(B!Signed) /\ B!UnZigZag(t.value) < 0)
        THEN B!Fail("uint", t.at)
        ELSE B!Scalar("uint", IF B!Is(B!Signed) THEN B!UnZigZag(t.value) ELSE t.value, t.at)
  BY DEF B!read_uint
<1>2. /\ v.call \in IntegerCalls
      /\ B!Is(B!Signed) <=> v.call = "int"
      /\ handed = buffer => t.ok
      /\ t.ok \in BOOLEAN
      /\ t.ok => t.at = v.next /\ t.value = NumberOf(v) /\ t.at <= Len(handed)
      /\ v.call = "int" => B!UnZigZag(NumberOf(v)) = v.value /\ v.value \in Int
      /\ t.at \in Nat /\ offset <= t.at
  BY NumberSeen
<1>3. v.call = "uint" => NumberOf(v) = v.value
  BY DEF NumberOf
<1>4. CASE ~t.ok
  BY <1>1, <1>2, <1>4, FailRefuses
<1>5. CASE t.ok /\ v.call = "int" /\ v.value < 0
  <2>1. B!Fail("uint", t.at)
    BY <1>1, <1>2, <1>5
  <2>2. OutOf("uint")
    BY <1>5 DEF OutOf, AtItem
  <2> QED BY <1>2, <2>1, <2>2, FailRefuses
<1>6. CASE t.ok /\ ~(v.call = "int" /\ v.value < 0)
  <2> DEFINE n == IF B!Is(B!Signed) THEN B!UnZigZag(t.value) ELSE t.value
  <2>1. B!Scalar("uint", n, t.at)
    BY <1>1, <1>2, <1>6
  <2>2. n = v.value
    BY <1>2, <1>3, <1>6 DEF IntegerCalls
  <2> HIDE DEF n
  <2>3. v.call \notin Containers /\ "uint" \in IntegerCalls
    BY <1>2 DEF Containers, IntegerCalls
  <2> QED BY <1>2, <1>6, <2>1, <2>2, <2>3, ScalarReads
<1> QED BY <1>2, <1>4, <1>5, <1>6

LEMMA FloatRead ==
    ASSUME WriterInv, ReadInv, NEW v \in written, AtItem(v),
           B!Peek({B!Signed, B!Unsigned, B!Floating}), B!read_float
    PROVE  ReadsValue(v) \/ Refuses
<1>1. CASE B!Is(B!Signed) \/ B!Is(B!Unsigned)
  <2>1. B!Peek({B!Signed, B!Unsigned})
    BY <1>1 DEF B!Is, B!Peek
  <2>2. ~B!Is(B!Floating)
    BY <1>1 DEF B!Is, B!Peek, B!Signed, B!Unsigned, B!Floating
  <2>3. B!read_int \/ B!read_uint
    BY <2>2, Zenon DEF B!read_float
  <2> QED BY <2>1, <2>3, IntRead, UintRead
<1>2. CASE ~(B!Is(B!Signed) \/ B!Is(B!Unsigned))
  <2>1. offset < Len(handed) /\ handed[offset + 1] = Floating
    BY <1>2, SameTags DEF B!Is, B!Peek, B!HasTag
  <2> DEFINE end == offset + 1 + FloatBytes
  <2>2. IF end > Len(handed) THEN B!Fail("float", offset + 1)
        ELSE B!Scalar("float", SubSeq(handed, offset + 2, end), end)
    BY <1>2 DEF B!read_float
  <2>3. /\ offset \in Nat /\ offset + 1 \in Nat /\ Len(handed) \in Nat
        /\ v.call = "float" /\ Fits(v.call, v.value) /\ v.at = offset
        /\ WrittenAt(handed, offset + 1, BodyOf(v.call, v.value))
        /\ v.next = (offset + 1) + Len(BodyOf(v.call, v.value))
    BY <2>1, Seen DEF ReadInv
  <2>4. /\ BodyOf(v.call, v.value) = v.value /\ v.value \in Seq(Byte)
        /\ Len(v.value) = FloatBytes /\ FloatBytes \in Nat
    <3>1. FloatBytes \in Nat /\ v.value \in [1 .. FloatBytes -> Byte]
      BY <2>3, FormatAssumption DEF Fits
    <3> QED BY <2>3, <3>1, TagsAndBodies
  <2>5. end = v.next /\ offset + 2 = (offset + 1) + 1 /\ end = (offset + 1) + Len(v.value)
    BY <2>3, <2>4
  <2> HIDE DEF end
  <2>6. CASE end > Len(handed)
    <3>1. ~(handed = buffer)
      BY <2>3, <2>5, <2>6, WholeHolds
    <3> QED BY <2>2, <2>3, <2>6, <3>1, FailRefuses
  <2>7. CASE ~(end > Len(handed))
    <3>1. SubSeq(handed, offset + 2, end) = v.value
      <4>1. (offset + 1) + Len(v.value) <= Len(handed)
        BY <2>3, <2>4, <2>5, <2>7
      <4> QED BY <2>3, <2>4, <2>5, <4>1, CutIs
    <3>2. B!Scalar("float", v.value, end)
      BY <2>2, <2>7, <3>1
    <3>3. end <= Len(handed)
      BY <2>3, <2>4, <2>5, <2>7
    <3> QED BY <2>3, <2>5, <3>2, <3>3, ScalarReads DEF Containers
  <2> QED BY <2>6, <2>7
<1> QED BY <1>1, <1>2

\* The text at offset p.
LEMMA TextTaken ==
    ASSUME NEW value \in Seq(Byte), Len(value) \in Word, NEW p \in Nat, Len(handed) \in Nat,
           p <= Len(handed), WrittenAt(handed, p, Text(value)), NEW t \in B!TakeLength(p, 1)
    PROVE  /\ t.ok <=> p + Len(Text(value)) <= Len(handed)
           /\ t.ok => B!Cut(t) = value /\ t.at + t.value = p + Len(Text(value))
           /\ t.at \in Nat /\ p <= t.at
<1> DEFINE h == Varint(Len(value))
           n == Len(value)
<1>1. h \in Seq(Byte) /\ Len(h) \in Nat /\ n \in Nat
  BY VarintBytes, WordsAreNat
<1>2. Text(value) = h \o value
  BY DEF Text
<1>3. WrittenAt(handed, p, h) /\ WrittenAt(handed, p + Len(h), value)
  <2> HIDE DEF h
  <2> QED BY <1>1, <1>2, WrittenParts
<1>4. Len(Text(value)) = Len(h) + n
  BY <1>1, <1>2
<1>5. /\ t.ok <=> p + Len(h) <= Len(handed) /\ 1 * n <= Len(handed) - (p + Len(h))
      /\ t.ok => t.at = p + Len(h) /\ t.value = n
      /\ t.at \in Nat /\ p <= t.at
  <2>1. TakesCount(t, p, n, 1)
    BY <1>3, TakeCount
  <2> QED BY <2>1 DEF TakesCount
<1> HIDE DEF h, n
<1>6. t.ok <=> p + Len(Text(value)) <= Len(handed)
  BY <1>1, <1>4, <1>5
<1>7. ASSUME t.ok PROVE B!Cut(t) = value /\ t.at + t.value = p + Len(Text(value))
  <2>1. t.at = p + Len(h) /\ t.value = n /\ (p + Len(h)) + n <= Len(handed)
    BY <1>1, <1>5, <1>7
  <2>2. SubSeq(handed, (p + Len(h)) + 1, (p + Len(h)) + n) = value
    BY <1>1, <1>3, <2>1, CutIs DEF n
  <2> QED BY <1>1, <1>4, <2>1, <2>2 DEF B!Cut
<1> QED BY <1>5, <1>6, <1>7

LEMMA TextRead ==
    ASSUME WriterInv, ReadInv, NEW v \in written, AtItem(v), NEW call, NEW tag,
           (call = "string" /\ tag = B!String) \/ (call = "bytes" /\ tag = B!Bytes),
           B!Is(tag), B!ReadText(call, tag)
    PROVE  ReadsValue(v) \/ Refuses
<1>1. offset < Len(handed) /\ handed[offset + 1] = tag
  BY DEF B!Is, B!Peek, B!HasTag
<1>2. /\ offset + 1 \in Nat /\ offset + 1 <= Len(handed) /\ Len(handed) \in Nat
      /\ WrittenAt(handed, offset + 1, BodyOf(v.call, v.value))
      /\ v.next = (offset + 1) + Len(BodyOf(v.call, v.value))
      /\ Fits(v.call, v.value) /\ v.at = offset
  BY <1>1, Seen
<1>3. v.call = call
  BY <1>1, SameTags, Seen
<1>4. BodyOf(v.call, v.value) = Text(v.value) /\ v.value \in Seq(Byte) /\ Len(v.value) \in Word
  BY <1>2, <1>3, TagsAndBodies DEF Fits, WithText
<1>5. PICK t \in B!TakeLength(offset + 1, 1) :
        IF ~t.ok THEN B!Fail(call, t.at) ELSE B!Scalar(call, B!Cut(t), t.at + t.value)
  BY DEF B!ReadText
<1>6. /\ t.ok <=> v.next <= Len(handed)
      /\ t.ok => B!Cut(t) = v.value /\ t.at + t.value = v.next
      /\ t.at \in Nat /\ offset + 1 <= t.at
  <2> DEFINE p == offset + 1
             x == v.value
             b == BodyOf(v.call, v.value)
  <2>1. p \in Nat /\ p <= Len(handed) /\ x \in Seq(Byte) /\ Len(x) \in Word
        /\ b = Text(x) /\ WrittenAt(handed, p, b) /\ v.next = p + Len(b) /\ Len(handed) \in Nat
        /\ t \in B!TakeLength(p, 1)
    BY <1>2, <1>4
  <2> HIDE DEF p, x, b
  <2>2. /\ t.ok <=> p + Len(Text(x)) <= Len(handed)
        /\ t.ok => B!Cut(t) = x /\ t.at + t.value = p + Len(Text(x))
        /\ t.at \in Nat /\ p <= t.at
    BY <2>1, TextTaken
  <2> QED BY <2>1, <2>2 DEF p, x
<1>7. CASE ~t.ok
  <2>1. ~(handed = buffer)
    BY <1>2, <1>6, <1>7, WholeHolds
  <2>2. offset <= t.at
    BY <1>6 DEF ReadInv
  <2> QED BY <1>5, <1>6, <1>7, <2>1, <2>2, FailRefuses
<1>8. CASE t.ok
  <2>1. B!Scalar(call, v.value, v.next)
    BY <1>5, <1>6, <1>8
  <2> QED BY <1>3, <1>6, <1>8, <2>1, ScalarReads DEF Containers
<1> QED BY <1>7, <1>8

\* The frames of the reader.
LEMMA OneMoreFrame ==
    ASSUME opened \in Seq(ReaderFrame), NEW o \in BOOLEAN, NEW r \in Nat
    PROVE  LET s == Append(opened, [is_object |-> o, remaining |-> r])
               n == Len(opened)
           IN  /\ s \in Seq(ReaderFrame) /\ Len(s) = n + 1 /\ n \in Nat
               /\ \A i \in 1 .. n : s[i] = opened[i]
               /\ s[n + 1].is_object = o /\ s[n + 1].remaining = r
<1>1. [is_object |-> o, remaining |-> r] \in ReaderFrame
  BY DEF ReaderFrame
<1> QED BY <1>1

LEMMA BeginRead ==
    ASSUME WriterAssumption, WriterInv, ReadInv, NEW v \in written, AtItem(v),
           NEW call, NEW tag, NEW least,
           \/ call = "array" /\ tag = B!Array /\ least = 1
           \/ call = "object" /\ tag = B!Object /\ least = 2,
           B!Is(tag), B!Begin(call, tag, least)
    PROVE  ReadsValue(v) \/ Refuses
<1>1. offset < Len(handed) /\ handed[offset + 1] = tag
  BY DEF B!Is, B!Peek, B!HasTag
<1>2. /\ offset + 1 \in Nat /\ offset + 1 <= Len(handed) /\ Len(handed) \in Nat
      /\ WrittenAt(handed, offset + 1, BodyOf(v.call, v.value))
      /\ v.next = (offset + 1) + Len(BodyOf(v.call, v.value))
      /\ Fits(v.call, v.value) /\ v.at = offset
  BY <1>1, Seen
<1>3. v.call = call /\ v.call \in Containers /\ (tag = B!Object) = (v.call = "object")
  BY <1>1, SameTags, Seen DEF Containers
<1>4. BodyOf(v.call, v.value) = Varint(v.value) /\ v.value \in Word /\ v.value \in Nat
  <2>1. v.value \in Word
    BY <1>2, <1>3 DEF Fits
  <2>2. BodyOf(v.call, v.value) = Varint(v.value)
    BY <1>3, TagsAndBodies DEF Containers
  <2> QED BY <2>1, <2>2, WordsAreNat
<1>5. PICK t \in B!TakeLength(offset + 1, least) :
        IF ~t.ok \/ Len(opened) >= WriterDepth THEN B!Fail(call, t.at)
        ELSE LET frames == Append(opened, [is_object |-> tag = B!Object,
                                           remaining |-> t.value])
             IN  /\ B!Return(call, t.value, t.at, frames)
                 /\ passing' = B!Behind(frames)
  BY DEF B!Begin
<1>6. least \in {1, 2} /\ least = Least(v)
  BY <1>3 DEF Least
<1>7. /\ t.ok <=> v.next <= Len(handed) /\ least * v.value <= Len(handed) - v.next
      /\ t.ok => t.at = v.next /\ t.value = v.value
      /\ t.at \in Nat /\ offset + 1 <= t.at
  <2> DEFINE p == offset + 1
             x == v.value
             b == BodyOf(v.call, v.value)
  <2>1. p \in Nat /\ p <= Len(handed) /\ x \in Word
        /\ b = Varint(x) /\ WrittenAt(handed, p, b) /\ v.next = p + Len(b) /\ Len(handed) \in Nat
        /\ t \in B!TakeLength(p, least)
    BY <1>2, <1>4
  <2> HIDE DEF p, x, b
  <2>2. /\ t.ok <=> p + Len(Varint(x)) <= Len(handed)
                     /\ least * x <= Len(handed) - (p + Len(Varint(x)))
        /\ t.ok => t.at = p + Len(Varint(x)) /\ t.value = x
        /\ t.at \in Nat /\ p <= t.at
    <3>1. /\ x \in Word /\ p \in Nat /\ Len(handed) \in Nat /\ p <= Len(handed)
          /\ WrittenAt(handed, p, Varint(x)) /\ least \in {1, 2} /\ t \in B!TakeLength(p, least)
      BY <1>6, <2>1
    <3>2. TakesCount(t, p, x, least)
      BY <3>1, TakeCount
    <3> QED BY <3>2 DEF TakesCount
  <2> QED BY <2>1, <2>2 DEF p, x
<1>8. Len(v.after) = Len(v.before) + 1 /\ Len(opened) = Len(v.before) /\ Len(opened) < WriterDepth
      /\ Len(opened) \in Nat
  BY <1>3, ItemFacts DEF Item, Slotted, AtItem, Like
<1>9. CASE ~t.ok
  <2>1. ~(complete /\ handed = buffer)
    <3>1. SUFFICES ASSUME complete, handed = buffer PROVE FALSE
      OBVIOUS
    <3>2. v.next <= Len(handed)
      BY <1>2, <3>1, WholeHolds
    <3>3. Least(v) * v.value <= Len(buffer) - v.next
      BY <1>3, <3>1, CountFits
    <3> QED BY <1>6, <1>7, <1>9, <3>1, <3>2, <3>3
  <2>2. offset <= t.at
    BY <1>7 DEF ReadInv
  <2> QED BY <1>5, <1>7, <1>9, <2>1, <2>2, FailRefuses
<1>10. CASE t.ok
  <2> DEFINE o == v.call = "object"
             frames == Append(opened, [is_object |-> o, remaining |-> v.value])
  <2>0. ~(Len(opened) >= WriterDepth)
    BY <1>8 DEF WriterAssumption
  <2>1. /\ offset' = v.next /\ opened' = frames /\ handed' = handed /\ passing' = B!Behind(frames)
        /\ returned' = [call |-> call, ok |-> TRUE, at |-> offset, value |-> v.value]
    <3>1. t.at = v.next /\ t.value = v.value /\ (tag = B!Object) = o
      BY <1>3, <1>7, <1>10
    <3>2. /\ B!Return(call, v.value, v.next, frames)
          /\ passing' = B!Behind(frames)
      BY <1>5, <1>10, <2>0, <3>1
    <3> HIDE DEF frames
    <3> QED BY <3>2 DEF B!Return, B!Returned
  <2>2. /\ frames \in Seq(ReaderFrame) /\ Len(frames) = Len(opened) + 1
        /\ \A i \in 1 .. Len(opened) : frames[i] = opened[i]
        /\ frames[Len(opened) + 1].is_object = o /\ frames[Len(opened) + 1].remaining = v.value
    <3>1. opened \in Seq(ReaderFrame) /\ o \in BOOLEAN /\ v.value \in Nat
      BY <1>4 DEF ReadInv
    <3> HIDE DEF o
    <3> QED BY <3>1, OneMoreFrame
  <2> HIDE DEF frames
  <2>3. /\ v.after[Len(opened) + 1].is_object = o
        /\ v.after[Len(opened) + 1].remaining = v.value
    <3>1. v.after[Len(v.before) + 1]
              = [is_object |-> o, remaining |-> v.value, awaiting_value |-> FALSE]
      BY <1>3, ItemFacts DEF Slotted
    <3> QED BY <1>8, <3>1
  <2>4. Like(v.after, Len(v.after))'
    BY <1>8, <2>1, <2>2, <2>3 DEF Like, AtItem
  <2>5. Answers(v)
    BY <1>2, <1>3, <2>1 DEF Answers
  <2>6. v.call # "key"
    BY <1>3 DEF Containers
  <2> QED BY <1>2, <1>7, <1>8, <1>10, <2>1, <2>2, <2>4, <2>5, <2>6 DEF ReadsValue, Reads
<1> QED BY <1>9, <1>10

-----------------------------------------------------------------------------
(* Between the values.                                                     *)

\* Behind a value no frame waits for one.
LEMMA NoneAwaits ==
    ASSUME WriterInv, NEW w \in written, w.call # "key"
    PROVE  \A i \in 1 .. Len(w.after) : ~w.after[i].awaiting_value
<1> DEFINE n == Len(w.before)
<1>1. OnlyTop(w.before) /\ Slotted(w.call, w.value, w.before, w.after) /\ n \in Nat
      /\ w.after \in Seq(Frame)
  BY ItemFacts DEF Item
<1>2. \A i \in 1 .. n - 1 : w.after[i] = w.before[i] /\ ~w.before[i].awaiting_value
  BY <1>1 DEF OnlyTop, Slotted
<1>3. n > 0 => ~w.after[n].awaiting_value
  BY <1>1 DEF Slotted
<1>4. Len(w.after) = n \/ (Len(w.after) = n + 1 /\ ~w.after[n + 1].awaiting_value)
  <2>1. CASE w.call \in Containers
    <3>1. Len(w.after) = n + 1
          /\ w.after[n + 1] = [is_object |-> w.call = "object", remaining |-> w.value,
                               awaiting_value |-> FALSE]
      BY <1>1, <2>1 DEF Slotted
    <3> QED BY <3>1
  <2>2. CASE w.call \notin Containers
    BY <1>1, <2>2 DEF Slotted
  <2> QED BY <2>1, <2>2
<1> HIDE DEF n
<1> QED BY <1>1, <1>2, <1>3, <1>4

\* The item behind a value whose frames are complete but for the first m takes
\* its slot in the m-th.
LEMMA NextSlot ==
    ASSUME WriterInv, NEW w \in written, w.call # "key", w.next # Len(buffer),
           NEW m \in 0 .. Len(w.after),
           \A i \in m + 1 .. Len(w.after) : w.after[i].remaining = 0,
           m > 0 => w.after[m].remaining # 0
    PROVE  m > 0 /\ \E v \in written :
               /\ v.at = w.next /\ Len(v.before) = m
               /\ \A i \in 1 .. m : v.before[i] = w.after[i]
               /\ v.call = "key" <=> w.after[m].is_object
<1>1. PICK v \in written : v.at = w.next /\ Settles(w.after, v.before)
  BY NextItem
<1> DEFINE n == Len(v.before)
<1>2. /\ Slotted(v.call, v.value, v.before, v.after) /\ n \in Nat /\ v.before \in Seq(Frame)
      /\ Len(w.after) \in Nat /\ m \in Nat
      /\ v.at = 0 <=> v.before = <<>>
  BY ItemFacts DEF Item
<1>3. n > 0
  <2>1. v.at # 0
    BY <1>1, ItemFacts
  <2> QED BY <1>2, <2>1
<1>4. n <= Len(w.after) /\ v.before[n] = w.after[n] /\ ~v.before[n].awaiting_value
  BY <1>1, <1>2, <1>3, NoneAwaits DEF Settles
<1>5. v.before[n].remaining # 0
  <2>1. CASE v.call = "key"
    BY <1>2, <2>1 DEF Slotted
  <2>2. CASE v.call # "key"
    BY <1>2, <1>3, <1>4, <2>2 DEF Slotted
  <2> QED BY <2>1, <2>2
<1>6. n <= m
  BY <1>2, <1>3, <1>4, <1>5
<1>7. m <= n
  <2>1. SUFFICES ASSUME n < m PROVE FALSE
    BY <1>2
  <2>2. m \in Len(v.before) + 1 .. Len(w.after)
    BY <1>2, <2>1
  <2>3. w.after[m].remaining = 0
    BY <1>1, <2>2 DEF Settles
  <2> QED BY <1>2, <1>3, <2>1, <2>3
<1>8. n = m
  BY <1>2, <1>6, <1>7
<1>9. v.call = "key" <=> v.before[n].is_object
  <2>1. v.call = "key" => v.before[n].is_object
    BY <1>2 DEF Slotted
  <2>2. v.call # "key" => ~v.before[n].is_object
    BY <1>2, <1>3, <1>4 DEF Slotted
  <2> QED BY <2>1, <2>2
<1>10. \A i \in 1 .. n : v.before[i] = w.after[i]
  BY <1>1 DEF Settles
<1> QED BY <1>1, <1>3, <1>4, <1>8, <1>9, <1>10

\* The value behind a key.
LEMMA NextValue ==
    ASSUME WriterInv, NEW w \in written, w.call = "key", w.next # Len(buffer)
    PROVE  \E v \in written :
               /\ v.at = w.next /\ v.call # "key"
               /\ Len(v.before) = Len(w.after)
               /\ \A i \in 1 .. Len(w.after) : v.before[i] = w.after[i]
<1>1. PICK v \in written : v.at = w.next /\ Settles(w.after, v.before)
  BY NextItem
<1> DEFINE n == Len(w.after)
<1>2. /\ Slotted(w.call, w.value, w.before, w.after)
      /\ Slotted(v.call, v.value, v.before, v.after)
      /\ w.after \in Seq(Frame) /\ n \in Nat /\ Len(v.before) \in Nat
  BY ItemFacts DEF Item
<1>3. n > 0 /\ w.after[n].awaiting_value
  BY <1>2 DEF Slotted
<1>4. Len(v.before) = n /\ \A i \in 1 .. n : v.before[i] = w.after[i]
  <2>1. Len(v.before) <= n /\ \A i \in 1 .. Len(v.before) : v.before[i] = w.after[i]
    BY <1>1 DEF Settles
  <2>2. ~(n \in Len(v.before) + 1 .. Len(w.after))
    BY <1>1, <1>3 DEF Settles
  <2> QED BY <1>2, <2>1, <2>2
<1>5. v.call # "key"
  BY <1>2, <1>3, <1>4 DEF Slotted
<1> QED BY <1>1, <1>4, <1>5

\* Where the input ends there is no number.
LEMMA NothingTaken ==
    ASSUME NEW p \in Nat, Len(handed) \in Nat, p = Len(handed), NEW least,
           NEW t \in B!TakeLength(p, least)
    PROVE  t.ok = FALSE /\ t.at = p
<1>1. VarintEnds(handed, p) = {}
  <2>1. \A k \in 1 .. Groups : ~(p + k <= Len(handed))
    BY Weights
  <2> QED BY <2>1 DEF VarintEnds
<1>2. B!VarintLost(handed, p) = 0
  BY SameFormat, Weights DEF B!VarintLost
<1>3. PICK u \in B!TakeVarint(p) :
        t = [u EXCEPT !.ok = u.ok /\ u.value <= (Len(handed) - u.at) \div least]
  BY DEF B!TakeLength
<1>4. u = [ok |-> FALSE, at |-> p + B!VarintLost(handed, p), value |-> 0]
  BY <1>1, SameFormat DEF B!TakeVarint
<1>5. u.ok = FALSE /\ u.at = p /\ u = [ok |-> u.ok, at |-> u.at, value |-> u.value]
  BY <1>2, <1>4
<1> DEFINE fits == u.value <= (Len(handed) - u.at) \div least
<1>6. t = [u EXCEPT !.ok = u.ok /\ fits]
  BY <1>3
<1> HIDE DEF fits
<1>7. (u.ok /\ fits) = FALSE
  BY <1>5
<1>8. t = [u EXCEPT !.ok = FALSE]
  BY <1>6, <1>7
<1> QED BY <1>5, <1>8

\* The innermost frame counts one slot less.
LEMMA SlotTaken ==
    ASSUME opened \in Seq(ReaderFrame), Len(opened) > 0, opened[Len(opened)].remaining # 0
    PROVE  LET n == Len(opened) IN
           /\ B!Slot \in Seq(ReaderFrame) /\ Len(B!Slot) = n /\ n \in Nat
           /\ \A i \in 1 .. n - 1 : B!Slot[i] = opened[i]
           /\ B!Slot[n].is_object = opened[n].is_object
           /\ B!Slot[n].remaining = opened[n].remaining - 1
<1> DEFINE n == Len(opened)
           f == [opened[n] EXCEPT !.remaining = @ - 1]
<1>1. n \in Nat /\ n \in 1 .. n /\ opened[n] \in ReaderFrame
  OBVIOUS
<1>2. f \in ReaderFrame /\ f.is_object = opened[n].is_object
      /\ f.remaining = opened[n].remaining - 1
  BY <1>1 DEF ReaderFrame
<1>3. B!Slot = [opened EXCEPT ![n] = f]
  BY DEF B!Slot
<1> HIDE DEF f, n
<1>4. B!Slot \in Seq(ReaderFrame) /\ Len(B!Slot) = Len(opened)
      /\ \A i \in 1 .. Len(opened) : B!Slot[i] = IF i = n THEN f ELSE opened[i]
  BY <1>1, <1>2, <1>3 DEF n
<1> QED BY <1>1, <1>2, <1>4 DEF n

\* There is no further slot.
Ends ==
    /\ returned'.ok = TRUE /\ returned'.call = "end"
    /\ handed' = handed /\ offset' = offset /\ opened' = opened
    /\ opened[Len(opened)].remaining = 0
    /\ B!SkipTo("close")

\* A slot was taken; a key was read if the container is an object.
Takes ==
    /\ returned'.ok = TRUE /\ returned'.call # "end"
    /\ returned'.call \in Consuming => \E v \in written : Answers(v)
    /\ handed' = handed
    /\ offset' \in Nat /\ offset <= offset' /\ offset' <= Len(handed)
    /\ opened' \in Seq(ReaderFrame) /\ Len(opened') = Len(opened)
    /\ B!SkipTo("value")
    /\ NoMore' \/ \E v \in written : AtItem(v)'

LEMMA NoSlotEnds ==
    ASSUME B!NoSlot
    PROVE  Ends
  BY DEF B!NoSlot, B!Return, B!Returned, B!Innermost, Ends

\* The frames of the reader once it has taken the slot that item v fills.
LEMMA SlotIsLike ==
    ASSUME WriterInv, ReadInv, Len(opened) > 0, opened[Len(opened)].remaining # 0,
           NEW w \in written, BehindItem(w, Len(opened)),
           NEW v \in written, Len(v.before) = Len(opened),
           \A i \in 1 .. Len(opened) : v.before[i] = w.after[i],
           v.call = "key" <=> w.after[Len(opened)].is_object,
           opened' = B!Slot
    PROVE  /\ opened' \in Seq(ReaderFrame) /\ Len(opened') = Len(opened)
           /\ Like(v.after, Len(v.before))'
<1> DEFINE n == Len(opened)
<1>1. /\ B!Slot \in Seq(ReaderFrame) /\ Len(B!Slot) = n /\ n \in Nat
      /\ \A i \in 1 .. n - 1 : B!Slot[i] = opened[i]
      /\ B!Slot[n].is_object = opened[n].is_object
      /\ B!Slot[n].remaining = opened[n].remaining - 1
  BY SlotTaken DEF ReadInv
<1>2. \A i \in 1 .. n : /\ opened[i].is_object = v.before[i].is_object
                        /\ opened[i].remaining = v.before[i].remaining
  BY DEF BehindItem, Like
<1>3. Slotted(v.call, v.value, v.before, v.after)
  BY ItemFacts
<1>4. v.before[n].is_object = (v.call = "key")
  <2>1. w.after \in Seq(Frame) /\ n \in 1 .. Len(w.after)
    BY <1>1, ItemFacts DEF BehindItem
  <2>2. w.after[n].is_object \in BOOLEAN
    <3>1. w.after[n] \in Frame
      BY <2>1
    <3> QED BY <3>1 DEF Frame
  <2>3. v.before[n] = w.after[n]
    BY <1>1
  <2> QED BY <2>2, <2>3
<1>5. /\ \A i \in 1 .. n - 1 : v.after[i] = v.before[i]
      /\ v.after[n].is_object = v.before[n].is_object
      /\ v.after[n].remaining = v.before[n].remaining - 1
  BY <1>1, <1>3, <1>4 DEF Slotted
<1>6. \A i \in 1 .. n : /\ B!Slot[i].is_object = v.after[i].is_object
                        /\ B!Slot[i].remaining = v.after[i].remaining
  <2> TAKE i \in 1 .. n
  <2>1. CASE i = n
    BY <1>1, <1>2, <1>5, <2>1
  <2>2. CASE i # n
    <3>1. i \in 1 .. n - 1
      BY <1>1, <2>2
    <3> QED BY <1>1, <1>2, <1>5, <3>1
  <2> QED BY <2>1, <2>2
<1> QED BY <1>1, <1>6 DEF Like

\* The reader stands behind a value, in a container that has a slot left.
LEMMA SlotFound ==
    ASSUME WriterInv, ReadInv, offset <= Len(handed),
           Len(opened) > 0, opened[Len(opened)].remaining # 0,
           NEW w \in written, BehindItem(w, Len(opened))
    PROVE  \/ Len(handed) = offset /\ ~complete
           \/ \E v \in written :
                  /\ v.at = offset /\ Len(v.before) = Len(opened)
                  /\ \A i \in 1 .. Len(opened) : v.before[i] = w.after[i]
                  /\ v.call = "key" <=> w.after[Len(opened)].is_object
<1> DEFINE m == Len(opened)
<1>1. /\ w.call # "key" /\ w.next = offset /\ m \in 0 .. Len(w.after) /\ m \in Nat
      /\ \A i \in m + 1 .. Len(w.after) : w.after[i].remaining = 0
      /\ w.after[m].remaining # 0
  BY DEF BehindItem, Like
<1>2. CASE w.next = Len(buffer)
  <2>1. m \in 1 .. Len(w.after)
    BY <1>1
  <2>2. ~complete
    BY <1>1, <1>2, <2>1, SlotIsFilled
  <2>3. Len(handed) = offset
    BY <1>1, <1>2, <2>2, HandedFacts DEF ReadInv
  <2> QED BY <2>2, <2>3
<1>3. CASE w.next # Len(buffer)
  <2> HIDE DEF m
  <2>1. \E v \in written :
            /\ v.at = w.next /\ Len(v.before) = m
            /\ \A i \in 1 .. m : v.before[i] = w.after[i]
            /\ v.call = "key" <=> w.after[m].is_object
    BY <1>1, <1>3, NextSlot
  <2> QED BY <1>1, <2>1 DEF m
<1> QED BY <1>2, <1>3

LEMMA ElementTaken ==
    ASSUME WriterInv, ReadInv, offset <= Len(handed), Len(opened) > 0, UNCHANGED wvars,
           NEW w \in written, BehindItem(w, Len(opened)), B!Inside(FALSE), B!next_element
    PROVE  Ends \/ Takes
<1>1. CASE B!NoSlot
  BY <1>1, NoSlotEnds
<1>2. CASE ~B!NoSlot
  <2>1. /\ opened[Len(opened)].remaining # 0 /\ opened[Len(opened)].is_object = FALSE
        /\ B!Return("element", 0, offset, B!Slot) /\ B!SkipTo("value")
    BY <1>2 DEF B!next_element, B!Inside, B!Innermost
  <2>2. /\ offset' = offset /\ opened' = B!Slot /\ handed' = handed
        /\ returned' = [call |-> "element", ok |-> TRUE, at |-> offset, value |-> 0]
    BY <2>1 DEF B!Return, B!Returned
  <2>3. opened' \in Seq(ReaderFrame) /\ Len(opened') = Len(opened)
    BY <2>1, <2>2, SlotTaken DEF ReadInv
  <2>4. NoMore' \/ \E v \in written : AtItem(v)'
    <3>1. CASE Len(handed) = offset /\ ~complete
      BY <2>2, <3>1 DEF NoMore, complete, wvars, ReadInv
    <3>2. CASE \E v \in written :
                  /\ v.at = offset /\ Len(v.before) = Len(opened)
                  /\ \A i \in 1 .. Len(opened) : v.before[i] = w.after[i]
                  /\ v.call = "key" <=> w.after[Len(opened)].is_object
      <4>1. PICK v \in written :
                  /\ v.at = offset /\ Len(v.before) = Len(opened)
                  /\ \A i \in 1 .. Len(opened) : v.before[i] = w.after[i]
                  /\ v.call = "key" <=> w.after[Len(opened)].is_object
        BY <3>2
      <4>2. Like(v.after, Len(v.before))'
        BY <2>1, <2>2, <4>1, SlotIsLike
      <4>3. v.call # "key"
        BY <2>1, <4>1 DEF BehindItem, Like
      <4> QED BY <2>2, <4>1, <4>2, <4>3 DEF AtItem
    <3> QED BY <2>1, <3>1, <3>2, SlotFound
  <2>5. offset' \in Nat /\ offset <= offset' /\ offset' <= Len(handed)
    BY <2>2 DEF ReadInv
  <2> QED BY <2>1, <2>2, <2>3, <2>4, <2>5 DEF Takes, Consuming
<1> QED BY <1>1, <1>2

\* The reader at a key.
LEMMA KeyTaken ==
    ASSUME WriterInv, ReadInv, offset <= Len(handed), Len(opened) > 0, UNCHANGED wvars,
           NEW w \in written, BehindItem(w, Len(opened)), B!Inside(TRUE), B!next_key
    PROVE  Refuses \/ Ends \/ Takes
<1> DEFINE m == Len(opened)
<1>1. CASE B!NoSlot
  BY <1>1, NoSlotEnds
<1>2. CASE ~B!NoSlot
  <2>1. /\ opened[m].remaining # 0 /\ opened[m].is_object = TRUE
        /\ \E t \in B!TakeLength(offset, 1) :
               IF ~t.ok THEN B!Throw("key", t.at) /\ opened' = B!Slot
               ELSE B!Return("key", B!Cut(t), t.at + t.value, B!Slot) /\ B!SkipTo("value")
    BY <1>2 DEF B!next_key, B!Inside, B!Innermost
  <2>2. PICK t \in B!TakeLength(offset, 1) :
               IF ~t.ok THEN B!Throw("key", t.at) /\ opened' = B!Slot
               ELSE B!Return("key", B!Cut(t), t.at + t.value, B!Slot) /\ B!SkipTo("value")
    BY <2>1
  <2>3. B!Slot \in Seq(ReaderFrame) /\ Len(B!Slot) = Len(opened)
    BY <2>1, SlotTaken DEF ReadInv
  <2>4. offset \in Nat /\ Len(handed) \in Nat /\ Handed
    BY HandedFacts DEF ReadInv
  <2>5. ASSUME ~t.ok, t.at \in Nat, offset <= t.at, ~(complete /\ handed = buffer)
        PROVE  Refuses
    BY <2>2, <2>3, <2>5 DEF Refuses, B!Throw, B!Threw
  <2>6. CASE Len(handed) = offset /\ ~complete
    <3>1. t.ok = FALSE /\ t.at = offset
      BY <2>4, <2>6, NothingTaken
    <3> QED BY <2>4, <2>5, <2>6, <3>1
  <2>7. CASE \E v \in written :
                /\ v.at = offset /\ Len(v.before) = Len(opened)
                /\ \A i \in 1 .. Len(opened) : v.before[i] = w.after[i]
                /\ v.call = "key" <=> w.after[Len(opened)].is_object
    <3>1. PICK v \in written :
                /\ v.at = offset /\ Len(v.before) = Len(opened)
                /\ \A i \in 1 .. Len(opened) : v.before[i] = w.after[i]
                /\ v.call = "key" <=> w.after[Len(opened)].is_object
      BY <2>7
    <3>2. v.call = "key"
      BY <2>1, <3>1 DEF BehindItem, Like
    <3>3. /\ v.value \in Seq(Byte) /\ Len(v.value) \in Word
          /\ Encoded(v.call, v.value) = Text(v.value)
          /\ v.next = v.at + Len(Text(v.value)) /\ v.next \in Nat /\ v.at < v.next
          /\ Slotted(v.call, v.value, v.before, v.after) /\ v.next <= Len(buffer)
      BY <3>2, ItemFacts DEF Item, Fits, WithText, Encoded
    <3>4. WrittenAt(handed, offset, Text(v.value))
      BY <2>4, <3>1, <3>3, InputShows
    <3>5. /\ t.ok <=> offset + Len(Text(v.value)) <= Len(handed)
          /\ t.ok => B!Cut(t) = v.value /\ t.at + t.value = offset + Len(Text(v.value))
          /\ t.at \in Nat /\ offset <= t.at
      BY <2>4, <3>3, <3>4, TextTaken
    <3>6. CASE ~t.ok
      <4>1. ~(handed = buffer)
        BY <3>1, <3>3, <3>5, <3>6
      <4> QED BY <2>5, <3>5, <3>6, <4>1
    <3>7. CASE t.ok
      <4>1. /\ offset' = v.next /\ opened' = B!Slot /\ handed' = handed /\ B!SkipTo("value")
            /\ returned' = [call |-> "key", ok |-> TRUE, at |-> offset, value |-> v.value]
        <5>1. B!Return("key", v.value, v.next, B!Slot) /\ B!SkipTo("value")
          BY <2>2, <3>1, <3>3, <3>5, <3>7
        <5> QED BY <5>1 DEF B!Return, B!Returned
      <4>2. Like(v.after, Len(v.before))'
        BY <2>1, <3>1, <4>1, SlotIsLike
      <4>3. v.next <= Len(handed)
        BY <3>1, <3>3, <3>5, <3>7
      <4>4. Len(v.after) = m /\ m \in 1 .. m /\ v.after[m].awaiting_value
        BY <3>1, <3>2, <3>3 DEF Slotted, ReadInv
      <4>5. NoMore' \/ \E u \in written : AtItem(u)'
        <5>1. CASE v.next = Len(buffer)
          <6>1. ~complete
            BY <4>4, <5>1, SlotIsFilled
          <6>2. Len(handed) <= Len(buffer)
            BY <2>4, <6>1, HandedFacts
          <6> QED BY <4>1, <5>1, <6>1, <6>2 DEF NoMore, complete, wvars
        <5>2. CASE v.next # Len(buffer)
          <6>1. PICK u \in written :
                   /\ u.at = v.next /\ u.call # "key"
                   /\ Len(u.before) = Len(v.after)
                   /\ \A i \in 1 .. Len(v.after) : u.before[i] = v.after[i]
            BY <3>2, <5>2, NextValue
          <6>2. Slotted(u.call, u.value, u.before, u.after)
            BY ItemFacts
          <6>3. v.after[m].is_object
            BY <3>1, <3>2, <3>3 DEF Slotted
          <6>4. /\ \A i \in 1 .. m - 1 : u.after[i] = u.before[i]
                /\ u.after[m].is_object = u.before[m].is_object
                /\ u.after[m].remaining = u.before[m].remaining
            BY <4>4, <6>1, <6>2, <6>3 DEF Slotted
          <6>5. \A i \in 1 .. m : /\ u.after[i].is_object = v.after[i].is_object
                                  /\ u.after[i].remaining = v.after[i].remaining
            <7> TAKE i \in 1 .. m
            <7>1. u.before[i] = v.after[i]
              BY <4>4, <6>1
            <7>2. i = m \/ i \in 1 .. m - 1
              BY <4>4
            <7> QED BY <6>4, <7>1, <7>2
          <6>6. Like(u.after, Len(u.before))'
            BY <3>1, <4>2, <4>4, <6>1, <6>5 DEF Like
          <6> QED BY <4>1, <6>1, <6>6 DEF AtItem
        <5> QED BY <5>1, <5>2
      <4>6. Answers(v)
        BY <3>1, <3>2, <4>1 DEF Answers
      <4>7. offset' \in Nat /\ offset <= offset' /\ offset' <= Len(handed)
        BY <2>4, <3>1, <3>3, <4>1, <4>3
      <4> QED BY <2>3, <4>1, <4>5, <4>6, <4>7 DEF Takes
    <3> QED BY <3>6, <3>7
  <2> QED BY <2>1, <2>6, <2>7, SlotFound
<1> QED BY <1>1, <1>2

\* The container is closed.
Shuts(w) ==
    /\ returned'.ok = TRUE /\ returned'.call = "close"
    /\ handed' = handed /\ offset' = offset
    /\ opened' \in Seq(ReaderFrame) /\ Len(opened') = Len(opened) - 1
    /\ passing' = B!Behind(opened')
    /\ BehindItem(w, Len(opened))'

LEMMA Closed ==
    ASSUME WriterInv, ReadInv, Len(opened) > 0, opened[Len(opened)].remaining = 0,
           NEW w \in written, BehindItem(w, Len(opened)),
           NEW is_object, B!Inside(is_object), B!Leave(is_object)
    PROVE  Shuts(w)
<1> DEFINE n == Len(opened)
           frames == SubSeq(opened, 1, n - 1)
<1>1. B!Return("close", 0, offset, frames) /\ passing' = B!Behind(frames)
  BY DEF B!Leave, B!Innermost
<1>2. /\ frames \in Seq(ReaderFrame) /\ Len(frames) = n - 1 /\ n \in Nat
      /\ \A i \in 1 .. n - 1 : frames[i] = opened[i]
  <2>1. opened \in Seq(ReaderFrame) /\ opened # <<>>
    BY DEF ReadInv
  <2> QED BY <2>1, Popped
<1> HIDE DEF frames
<1>3. /\ offset' = offset /\ opened' = frames /\ handed' = handed
      /\ returned' = [call |-> "close", ok |-> TRUE, at |-> offset, value |-> 0]
  BY <1>1 DEF B!Return, B!Returned
<1>4. BehindItem(w, Len(opened))'
  <2>1. /\ w.call # "key" /\ w.next = offset /\ n \in 0 .. Len(w.after)
        /\ \A i \in n + 1 .. Len(w.after) : w.after[i].remaining = 0
        /\ \A i \in 1 .. n : /\ opened[i].is_object = w.after[i].is_object
                             /\ opened[i].remaining = w.after[i].remaining
        /\ Len(w.after) \in Nat
    BY ItemFacts DEF BehindItem, Like
  <2>2. n - 1 \in 0 .. Len(w.after) /\ w.after[n].remaining = 0
    BY <1>2, <2>1
  <2>3. \A i \in (n - 1) + 1 .. Len(w.after) : w.after[i].remaining = 0
    BY <1>2, <2>1, <2>2
  <2>4. /\ Len(opened') = n - 1
        /\ \A i \in 1 .. n - 1 : /\ opened'[i].is_object = w.after[i].is_object
                                 /\ opened'[i].remaining = w.after[i].remaining
    <3>1. Len(opened') = n - 1 /\ \A i \in 1 .. n - 1 : opened'[i] = opened[i]
      BY <1>2, <1>3
    <3>2. \A i \in 1 .. n - 1 : i \in 1 .. n
      BY <1>2
    <3> QED BY <2>1, <3>1, <3>2
  <2> HIDE DEF n
  <2> QED BY <1>3, <2>1, <2>2, <2>3, <2>4 DEF BehindItem, Like
<1> QED BY <1>1, <1>2, <1>3, <1>4 DEF Shuts

-----------------------------------------------------------------------------
(* The steps of reading.                                                   *)

\* A value is read, by the caller or by skip_value.
ValueStep ==
    \/ ~B!HasTag /\ \E call : B!Fail(call, offset)
    \/ B!Is(B!Null) /\ B!read_null
    \/ B!Peek({B!True, B!False}) /\ B!read_bool
    \/ B!Peek({B!Signed, B!Unsigned}) /\ (B!read_int \/ B!read_uint)
    \/ B!Peek({B!Signed, B!Unsigned, B!Floating}) /\ B!read_float
    \/ B!Is(B!String) /\ B!read_string
    \/ B!Is(B!Bytes) /\ B!read_bytes
    \/ B!Is(B!Array) /\ B!begin_array
    \/ B!Is(B!Object) /\ B!begin_object

LEMMA ReadingAtItem ==
    ASSUME WriterAssumption, WriterInv, ReadInv, NEW v \in written, AtItem(v), ValueStep
    PROVE  Refuses \/ ReadsValue(v)
<1>1. CASE ~B!HasTag /\ \E call : B!Fail(call, offset)
  BY <1>1, NoTagRefuses
<1>2. CASE B!Is(B!Null) /\ B!read_null
  BY <1>2, NullRead
<1>3. CASE B!Peek({B!True, B!False}) /\ B!read_bool
  BY <1>3, BoolRead
<1>4. CASE B!Peek({B!Signed, B!Unsigned}) /\ (B!read_int \/ B!read_uint)
  BY <1>4, IntRead, UintRead
<1>5. CASE B!Peek({B!Signed, B!Unsigned, B!Floating}) /\ B!read_float
  BY <1>5, FloatRead
<1>6. CASE B!Is(B!String) /\ B!read_string
  BY <1>6, TextRead DEF B!read_string
<1>7. CASE B!Is(B!Bytes) /\ B!read_bytes
  BY <1>7, TextRead DEF B!read_bytes
<1>8. CASE B!Is(B!Array) /\ B!begin_array
  BY <1>8, BeginRead DEF B!begin_array
<1>9. CASE B!Is(B!Object) /\ B!begin_object
  BY <1>9, BeginRead DEF B!begin_object
<1> QED BY <1>1, <1>2, <1>3, <1>4, <1>5, <1>6, <1>7, <1>8, <1>9 DEF ValueStep

LEMMA ValueRead ==
    ASSUME WriterAssumption, WriterInv, ReadInv, Phase = "value", ValueStep
    PROVE  Refuses \/ \E v \in written : ReadsValue(v)
<1>1. CASE \E v \in written : AtItem(v)
  BY <1>1, ReadingAtItem
<1>2. CASE NoMore
  <2>1. ~B!HasTag
    BY <1>2, HandedFacts DEF NoMore, B!HasTag, ReadInv
  <2>2. PICK call : B!Fail(call, offset)
    BY <2>1 DEF ValueStep, B!Is, B!Peek
  <2>3. offset \in Nat /\ offset <= offset
    BY DEF ReadInv
  <2> QED BY <1>2, <2>2, <2>3, FailRefuses DEF NoMore
<1> QED BY <1>1, <1>2 DEF ReadInv, Standing

\* The next slot, or the end of the container.
LEMMA SlotRead ==
    ASSUME WriterInv, ReadInv, Phase = "slot", UNCHANGED wvars,
           \/ B!Inside(TRUE) /\ B!next_key
           \/ B!Inside(FALSE) /\ B!next_element
    PROVE  Refuses \/ Ends \/ Takes
<1>1. offset <= Len(handed)
  BY DEF ReadInv, Phase
<1>2. PICK w \in written : BehindItem(w, Len(opened)) /\ Len(opened) > 0
  BY DEF ReadInv, Standing
<1> QED BY <1>1, <1>2, ElementTaken, KeyTaken

LEMMA CloseRead ==
    ASSUME WriterInv, ReadInv, Phase = "close",
           \/ B!Inside(TRUE) /\ B!end_object
           \/ B!Inside(FALSE) /\ B!end_array
    PROVE  \E w \in written : Shuts(w)
<1>1. PICK w \in written : BehindItem(w, Len(opened)) /\ Len(opened) > 0
  BY DEF ReadInv, Standing
<1>2. opened[Len(opened)].remaining = 0
  BY DEF ReadInv, Standing
<1> QED BY <1>1, <1>2, Closed DEF B!end_object, B!end_array

\* Where the caller goes after a value, also when skip_value reads it.
Goes == IF turn = "skip" /\ passing'.at # "idle" THEN turn' = turn ELSE AfterItem

LEMMA WrittenSame ==
    ASSUME UNCHANGED wvars, handed' = handed
    PROVE  /\ buffer' = buffer /\ written' = written /\ nested' = nested
           /\ started' = started
           /\ complete' = complete
           /\ Handed => Handed'
  BY DEF wvars, complete, Handed

LEMMA RefusalKeepsInv ==
    ASSUME ReadInv, UNCHANGED wvars, Refuses, turn' = "thrown"
    PROVE  ReadInv'
<1>1. /\ buffer' = buffer /\ written' = written /\ complete' = complete /\ Handed'
      /\ handed' = handed
  BY WrittenSame DEF Refuses, ReadInv
<1>2. /\ offset' \in Nat /\ opened' \in Seq(ReaderFrame) /\ returned'.ok = FALSE
      /\ passing' = [at |-> "idle", depth |-> 0] /\ returned'.at = offset
      /\ complete /\ handed = buffer => OutOf(returned'.call)
  BY DEF Refuses, B!NotSkipping
<1>3. Phase' = "thrown"
  BY DEF Phase
<1>4. Standing' /\ Skipping'
  BY <1>2, <1>3 DEF Standing, Skipping
<1>5. Answered'
  BY <1>1, <1>2 DEF Answered, OutOf, OutOfRange
<1> QED BY <1>1, <1>2, <1>3, <1>4, <1>5 DEF ReadInv, Phases, WholeOnly

\* A step that returns: what is left to show is where it leaves the reader.
LEMMA ReturnKeepsInv ==
    ASSUME ReadInv, UNCHANGED wvars, handed' = handed, returned'.ok = TRUE,
           returned'.call \in Consuming => \E v \in written : Answers(v),
           offset' \in Nat, offset' <= Len(handed), opened' \in Seq(ReaderFrame),
           Standing', Skipping', Phase' \in Phases, turn' # "accepted"
    PROVE  ReadInv'
<1>1. /\ buffer' = buffer /\ written' = written /\ Handed'
  BY WrittenSame DEF ReadInv
<1>2. Answered'
  BY <1>1 DEF Answered, Answers, Same
<1> QED BY <1>1, <1>2 DEF ReadInv, WholeOnly

\* Behind a value.
LEMMA ValueDone ==
    ASSUME ReadInv, Phase \in {"value", "close"}, turn \in {"value", "close", "skip"}, Goes,
           returned'.ok = TRUE, opened' \in Seq(ReaderFrame),
           passing' = B!Behind(opened'), turn = "skip" => passing.depth <= Len(opened'),
           NEW w, w \in written', BehindItem(w, Len(opened))'
    PROVE  Standing' /\ Skipping' /\ Phase' \in Phases /\ turn' # "accepted"
<1>1. /\ passing \in [at : {"idle", "value", "slot", "close"}, depth : Nat]
      /\ turn = "skip" <=> passing.at # "idle"
      /\ Len(opened') \in Nat
      /\ opened' = <<>> <=> Len(opened') = 0
  BY DEF ReadInv, Skipping
<1>2. CASE turn = "skip" /\ Len(opened') # passing.depth
  <2>1. passing' = [passing EXCEPT !.at = "slot"]
    BY <1>1, <1>2 DEF B!Behind, B!Idle
  <2>2. passing'.at = "slot" /\ passing'.depth = passing.depth
        /\ passing' \in [at : {"idle", "value", "slot", "close"}, depth : Nat]
    BY <1>1, <2>1
  <2>3. turn' = "skip" /\ Phase' = "slot"
    BY <1>2, <2>2 DEF Goes, Phase
  <2>4. passing'.depth \in Nat /\ passing'.depth < Len(opened')
    BY <1>1, <1>2, <2>2
  <2> QED BY <1>1, <2>2, <2>3, <2>4 DEF Standing, Skipping, Phases
<1>3. CASE ~(turn = "skip" /\ Len(opened') # passing.depth)
  <2>1. passing' = [at |-> "idle", depth |-> 0]
    BY <1>1, <1>3 DEF B!Behind, B!Idle, B!NotSkipping
  <2>2. passing'.at = "idle" /\ passing' \in [at : {"idle", "value", "slot", "close"}, depth : Nat]
    BY <2>1
  <2>3. turn' = IF opened' = <<>> THEN "finish" ELSE "slot"
    BY <2>2 DEF Goes, AfterItem
  <2>4. Phase' = turn'
    BY <2>3 DEF Phase
  <2>5. Standing'
    BY <1>1, <2>3, <2>4 DEF Standing
  <2>6. Skipping'
    BY <2>2, <2>3 DEF Skipping
  <2> QED BY <2>3, <2>4, <2>5, <2>6 DEF Phases
<1> QED BY <1>2, <1>3

LEMMA ValueKeepsInv ==
    ASSUME WriterAssumption, WriterInv, ReadInv, Phase = "value", turn \in {"value", "skip"},
           ValueStep, UNCHANGED wvars, Goes
    PROVE  ReadInv'
<1>1. CASE Refuses
  <2>1. turn' = "thrown"
    BY <1>1 DEF Refuses, Goes, AfterItem, B!NotSkipping
  <2> QED BY <1>1, <2>1, RefusalKeepsInv
<1>2. CASE \E v \in written : ReadsValue(v)
  <2>1. PICK v \in written : ReadsValue(v)
    BY <1>2
  <2>2. /\ returned'.ok = TRUE /\ handed' = handed /\ opened' \in Seq(ReaderFrame)
        /\ passing' = B!Behind(opened') /\ offset' = v.next /\ v.next <= Len(handed)
        /\ Len(opened) <= Len(opened') /\ Like(v.after, Len(v.after))'
        /\ v.call # "key" /\ Answers(v)
    BY <2>1 DEF ReadsValue, Reads, Answers
  <2>3. v \in written' /\ v.next \in Nat /\ Len(v.after) \in Nat
    BY WrittenSame, <2>2, ItemFacts
  <2>4. BehindItem(v, Len(opened))'
    <3>1. Len(opened') = Len(v.after)
      BY <2>2 DEF Like
    <3> QED BY <2>2, <2>3, <3>1 DEF BehindItem, Like
  <2>5. turn = "skip" => passing.depth <= Len(opened')
    <3>1. turn = "skip" => passing.depth \in Nat /\ passing.depth <= Len(opened)
      BY DEF ReadInv, Skipping
    <3>2. Len(opened) \in Nat /\ Len(opened') \in Nat
      BY <2>2 DEF ReadInv
    <3> QED BY <2>2, <3>1, <3>2
  <2>6. Standing' /\ Skipping' /\ Phase' \in Phases /\ turn' # "accepted"
    BY <2>2, <2>3, <2>4, <2>5, ValueDone
  <2>7. offset' \in Nat /\ offset' <= Len(handed)
    BY <2>2, <2>3
  <2>8. returned'.call \in Consuming => \E u \in written : Answers(u)
    BY <2>2
  <2> QED BY <2>2, <2>6, <2>7, <2>8, ReturnKeepsInv
<1> QED BY <1>1, <1>2, ValueRead

LEMMA ShutKeepsInv ==
    ASSUME WriterInv, ReadInv, Phase = "close", turn \in {"close", "skip"},
           \/ B!Inside(TRUE) /\ B!end_object
           \/ B!Inside(FALSE) /\ B!end_array,
           UNCHANGED wvars, Goes
    PROVE  ReadInv'
<1>1. PICK w \in written : Shuts(w)
  BY CloseRead
<1>2. /\ returned'.ok = TRUE /\ returned'.call = "close" /\ handed' = handed /\ offset' = offset
      /\ opened' \in Seq(ReaderFrame) /\ Len(opened') = Len(opened) - 1
      /\ passing' = B!Behind(opened') /\ BehindItem(w, Len(opened))'
  BY <1>1 DEF Shuts
<1>3. w \in written'
  BY <1>2, WrittenSame
<1>4. turn = "skip" => passing.depth <= Len(opened')
  <2>1. turn = "skip" => passing.depth \in Nat /\ passing.depth < Len(opened)
    BY DEF ReadInv, Skipping, Phase
  <2>2. Len(opened) \in Nat
    BY DEF ReadInv
  <2> QED BY <1>2, <2>1, <2>2
<1>5. Standing' /\ Skipping' /\ Phase' \in Phases /\ turn' # "accepted"
  BY <1>2, <1>3, <1>4, ValueDone
<1>6. offset' \in Nat /\ offset' <= Len(handed)
  BY <1>2 DEF ReadInv, Phase
<1>7. "close" \notin Consuming
  BY DEF Consuming
<1> QED BY <1>2, <1>5, <1>6, <1>7, ReturnKeepsInv

\* Where the caller goes after a slot, also when skip_value asks for it.
GoesOn ==
    IF turn = "skip" THEN Goes
    ELSE turn' = IF ~returned'.ok THEN "thrown"
                 ELSE IF returned'.call = "end" THEN "close" ELSE "value"

LEMMA SlotDone ==
    ASSUME ReadInv, Phase = "slot", turn \in {"slot", "skip"}, GoesOn, returned'.ok = TRUE,
           NEW at, at = IF returned'.call = "end" THEN "close" ELSE "value",
           B!SkipTo(at), Len(opened') = Len(opened)
    PROVE  Skipping' /\ Phase' = at /\ turn' # "accepted"
<1>1. /\ passing \in [at : {"idle", "value", "slot", "close"}, depth : Nat]
      /\ turn = "skip" <=> passing.at # "idle"
      /\ turn = "skip" => passing.depth < Len(opened)
      /\ Len(opened) \in Nat
  BY DEF ReadInv, Skipping, Phase
<1>2. CASE turn = "skip"
  <2>1. passing' = [passing EXCEPT !.at = at]
    BY <1>1, <1>2 DEF B!SkipTo, B!Idle
  <2>2. /\ passing'.at = at /\ passing'.depth = passing.depth /\ at \in {"value", "close"}
        /\ passing' \in [at : {"idle", "value", "slot", "close"}, depth : Nat]
    BY <1>1, <2>1
  <2>3. turn' = "skip"
    BY <1>2, <2>2 DEF GoesOn, Goes
  <2> QED BY <1>1, <1>2, <2>2, <2>3 DEF Skipping, Phase
<1>3. CASE turn = "slot"
  <2>1. passing' = passing /\ turn' = at /\ at \in {"value", "close"}
    BY <1>1, <1>3 DEF B!SkipTo, B!Idle, GoesOn
  <2> QED BY <1>1, <1>3, <2>1 DEF Skipping, Phase
<1> QED BY <1>2, <1>3

LEMMA SlotKeepsInv ==
    ASSUME WriterInv, ReadInv, Phase = "slot", turn \in {"slot", "skip"},
           \/ B!Inside(TRUE) /\ B!next_key
           \/ B!Inside(FALSE) /\ B!next_element,
           UNCHANGED wvars, GoesOn
    PROVE  ReadInv'
<1>1. CASE Refuses
  <2>1. turn' = "thrown"
    BY <1>1 DEF Refuses, GoesOn, Goes, AfterItem, B!NotSkipping
  <2> QED BY <1>1, <2>1, RefusalKeepsInv
<1>2. CASE Ends
  <2>1. /\ returned'.ok = TRUE /\ returned'.call = "end" /\ handed' = handed
        /\ offset' = offset /\ opened' = opened /\ opened[Len(opened)].remaining = 0
        /\ B!SkipTo("close")
    BY <1>2 DEF Ends
  <2>2. Skipping' /\ Phase' = "close" /\ turn' # "accepted"
    BY <2>1, SlotDone
  <2>3. Standing'
    <3>1. PICK w \in written : BehindItem(w, Len(opened)) /\ Len(opened) > 0
      BY DEF ReadInv, Standing
    <3>2. w \in written' /\ BehindItem(w, Len(opened))' /\ Len(opened') > 0
      BY <2>1, <3>1, WrittenSame DEF BehindItem, Like
    <3> QED BY <2>1, <2>2, <3>2 DEF Standing
  <2>4. "end" \notin Consuming
    BY DEF Consuming
  <2>5. offset' \in Nat /\ offset' <= Len(handed) /\ opened' \in Seq(ReaderFrame)
    BY <2>1 DEF ReadInv, Phase
  <2> QED BY <2>1, <2>2, <2>3, <2>4, <2>5, ReturnKeepsInv DEF Phases
<1>3. CASE Takes
  <2>1. /\ returned'.ok = TRUE /\ returned'.call # "end" /\ handed' = handed
        /\ returned'.call \in Consuming => \E v \in written : Answers(v)
        /\ offset' \in Nat /\ offset' <= Len(handed)
        /\ opened' \in Seq(ReaderFrame) /\ Len(opened') = Len(opened)
        /\ B!SkipTo("value")
        /\ NoMore' \/ \E v \in written : AtItem(v)'
    BY <1>3 DEF Takes
  <2>2. Skipping' /\ Phase' = "value" /\ turn' # "accepted"
    BY <2>1, SlotDone
  <2>3. Standing'
    BY <2>1, <2>2, WrittenSame DEF Standing
  <2> QED BY <2>1, <2>2, <2>3, ReturnKeepsInv DEF Phases
<1> QED BY <1>1, <1>2, <1>3, SlotRead

\* Behind the root value nothing may follow; a document that is accepted is
\* whole.
LEMMA FinishKeepsInv ==
    ASSUME WriterInv, ReadInv, turn = "finish", FinishReading
    PROVE  ReadInv'
<1>1. PICK w \in written : BehindItem(w, 0)
  BY DEF ReadInv, Standing, Phase
<1>2. /\ w.call # "key" /\ w.next = offset /\ Len(w.after) \in Nat
      /\ \A i \in 1 .. Len(w.after) : w.after[i].remaining = 0
      /\ w.next <= Len(buffer) /\ w.next \in Nat /\ w.at \in Nat /\ w.at < w.next
  BY <1>1, ItemFacts DEF BehindItem
<1>3. w.next = Len(buffer)
  <2>1. SUFFICES ASSUME w.next # Len(buffer) PROVE FALSE
    OBVIOUS
  <2> DEFINE m == 0
  <2>2. /\ m \in 0 .. Len(w.after) /\ ~(m > 0)
        /\ \A i \in m + 1 .. Len(w.after) : w.after[i].remaining = 0
    BY <1>2
  <2> HIDE DEF m
  <2> QED BY <1>2, <2>1, <2>2, NextSlot
<1>4. UNCHANGED wvars /\ B!finish /\ turn' = IF returned'.ok THEN "accepted" ELSE "thrown"
  BY DEF FinishReading
<1>5. offset \in Nat /\ Len(handed) \in Nat /\ Len(buffer) \in Nat /\ buffer \in Seq(Byte)
  BY HandedFacts DEF ReadInv
<1>6. CASE offset # Len(handed)
  <2>1. B!Fail("finish", offset)
    BY <1>4, <1>6 DEF B!finish
  <2>2. ~(handed = buffer)
    BY <1>2, <1>3, <1>6
  <2>3. Refuses
    BY <1>5, <2>1, <2>2, FailRefuses
  <2>4. turn' = "thrown"
    BY <1>4, <2>3 DEF Refuses
  <2> QED BY <1>4, <2>3, <2>4, RefusalKeepsInv
<1>7. CASE offset = Len(handed)
  <2>1. B!Return("finish", 0, offset, opened) /\ passing' = passing
    BY <1>4, <1>7 DEF B!finish
  <2>2. /\ offset' = offset /\ opened' = opened /\ handed' = handed /\ passing' = passing
        /\ returned' = [call |-> "finish", ok |-> TRUE, at |-> offset, value |-> 0]
        /\ turn' = "accepted"
    BY <1>4, <2>1 DEF B!Return, B!Returned
  <2>3. handed = buffer
    BY <1>2, <1>3, <1>7, HandedFacts DEF ReadInv
  <2>4. Whole
    <3>1. buffer # <<>>
      BY <1>2, <1>3, <1>5
    <3>2. Settles(w.after, nested)
      BY <1>3 DEF WriterInv, Chained
    <3>3. nested \in Seq(Frame) /\ Len(nested) \in Nat
      BY DEF WriterInv, Framed
    <3>4. \A i \in 1 .. Len(nested) : nested[i].remaining = 0 /\ ~nested[i].awaiting_value
      BY <1>2, <3>2, <3>3, NoneAwaits DEF Settles
    <3>5. DOMAIN nested = 1 .. Len(nested)
      BY <3>3
    <3> QED BY <3>1, <3>4, <3>5 DEF Whole, WriterInv, Framed
  <2>5. Whole' /\ handed' = buffer' /\ Handed'
    BY <1>4, <2>2, <2>3, <2>4, WrittenSame DEF Whole, ReadInv
  <2>6. Phase' = "accepted"
    BY <2>2 DEF Phase
  <2>7. Standing'
    BY <2>6 DEF Standing
  <2>8. Skipping'
    BY <2>2 DEF Skipping, ReadInv
  <2>9. Answered'
    BY <2>2 DEF Answered, Consuming
  <2> QED BY <2>2, <2>5, <2>6, <2>7, <2>8, <2>9 DEF ReadInv, Phases, WholeOnly
<1> QED BY <1>6, <1>7

LEMMA SkipCallKeepsInv ==
    ASSUME ReadInv, SkipItem
    PROVE  ReadInv'
<1>1. /\ turn = "value" /\ turn' = "skip" /\ UNCHANGED wvars
      /\ passing' = [at |-> "value", depth |-> Len(opened)]
      /\ handed' = handed /\ offset' = offset /\ opened' = opened /\ returned' = returned
  BY DEF SkipItem, B!skip_value
<1>2. Phase = "value" /\ Phase' = "value"
  BY <1>1 DEF Phase
<1>3. /\ buffer' = buffer /\ written' = written /\ complete' = complete /\ Handed'
  BY <1>1, WrittenSame DEF ReadInv
<1>4. Standing'
  BY <1>1, <1>2, <1>3 DEF ReadInv, Standing, NoMore, AtItem, Like
<1>5. Skipping'
  <2>1. Len(opened) \in Nat
    BY DEF ReadInv
  <2> QED BY <1>1, <2>1 DEF Skipping
<1>6. Answered'
  BY <1>1, <1>3 DEF ReadInv, Answered, OutOfRange, Same
<1> QED BY <1>1, <1>2, <1>3, <1>4, <1>5, <1>6 DEF ReadInv, Phases, WholeOnly

LEMMA HandOverStarts ==
    ASSUME WriterInv, Deliver, offset = 0, opened = <<>>, passing = B!NotSkipping,
           returned.ok = TRUE, returned.call = "none"
    PROVE  ReadInv'
<1>1. /\ turn' = "value" /\ UNCHANGED wvars
      /\ offset' = 0 /\ opened' = <<>> /\ passing' = [at |-> "idle", depth |-> 0]
      /\ returned'.ok = TRUE /\ returned'.call = "none"
      /\ \/ \E n \in 0 .. Len(buffer) : handed' = SubSeq(buffer, 1, n)
         \/ complete /\ \E byte \in Trailing : handed' = Append(buffer, byte)
  BY DEF Deliver, B!NotSkipping
<1>2. /\ buffer' = buffer /\ written' = written /\ nested' = nested
      /\ started' = started /\ complete' = complete
  BY <1>1 DEF wvars, complete
<1>3. Handed'
  BY <1>1, <1>2 DEF Handed
<1>4. Phase' = "value"
  BY <1>1 DEF Phase
<1>5. NoMore' \/ \E v \in written : AtItem(v)'
  <2>1. CASE buffer = <<>>
    <3>1. ~complete
      BY <2>1 DEF WriterInv, Framed, complete
    <3>2. PICK n \in 0 .. Len(buffer) : handed' = SubSeq(buffer, 1, n)
      BY <1>1, <3>1
    <3>3. n = 0
      BY <2>1, <3>2
    <3>4. Len(handed') = 0
      BY <2>1, <3>2, <3>3
    <3> QED BY <1>1, <1>2, <3>1, <3>4 DEF NoMore
  <2>2. CASE buffer # <<>>
    <3>1. PICK v \in written : v.at = 0
      BY <2>2 DEF WriterInv, Chained
    <3>2. Slotted(v.call, v.value, v.before, v.after) /\ Len(v.before) = 0
      BY <3>1, ItemFacts DEF Item
    <3>3. v.call # "key"
      BY <3>2 DEF Slotted
    <3>4. Like(v.after, Len(v.before))'
      BY <1>1, <3>2 DEF Like
    <3> QED BY <1>1, <3>1, <3>3, <3>4 DEF AtItem
  <2> QED BY <2>1, <2>2
<1>6. Standing'
  BY <1>2, <1>4, <1>5 DEF Standing
<1>7. Skipping'
  BY <1>1 DEF Skipping
<1>8. Answered'
  BY <1>1 DEF Answered, Consuming
<1>9. offset' <= Len(handed')
  <2>1. buffer \in Seq(Byte) /\ Len(buffer) \in Nat
    BY DEF WriterInv, Framed
  <2>2. CASE \E n \in 0 .. Len(buffer) : handed' = SubSeq(buffer, 1, n)
    <3>1. PICK n \in 0 .. Len(buffer) : handed' = SubSeq(buffer, 1, n)
      BY <2>2
    <3>2. 1 \in Int /\ n \in Int /\ \A i \in 1 .. n : buffer[i] \in Byte
      BY <2>1, <3>1
    <3>3. SubSeq(buffer, 1, n) \in Seq(Byte)
      BY <3>2, SubSeqProperties
    <3> QED BY <1>1, <3>1, <3>3
  <2>3. CASE \E byte \in Trailing : handed' = Append(buffer, byte)
    BY <1>1, <2>1, <2>3
  <2> QED BY <1>1, <2>2, <2>3
<1>10. opened' \in Seq(ReaderFrame) /\ offset' \in Nat /\ returned'.ok \in BOOLEAN
  <2>1. <<>> \in Seq(ReaderFrame)
    OBVIOUS
  <2> QED BY <1>1, <2>1
<1>11. Phase' \in Phases /\ WholeOnly'
  BY <1>1, <1>4 DEF Phases, WholeOnly
<1> QED BY <1>3, <1>6, <1>7, <1>8, <1>9, <1>10, <1>11 DEF ReadInv

-----------------------------------------------------------------------------
(* The composition.                                                        *)

Fresh ==
    /\ offset = 0 /\ opened = <<>> /\ passing = B!NotSkipping
    /\ returned.ok = TRUE /\ returned.call = "none"

Inv ==
    /\ WriterInv
    /\ turn = "document" => Fresh
    /\ turn # "document" => ReadInv

\* What a call of the reading caller is, by the phase it is made in.
LEMMA ReadMoves ==
    ASSUME ReadInv, ReadBack
    PROVE  \/ /\ Phase = "value" /\ turn \in {"value", "skip"}
              /\ ValueStep /\ UNCHANGED wvars /\ Goes
           \/ /\ Phase = "slot" /\ turn \in {"slot", "skip"}
              /\ \/ B!Inside(TRUE) /\ B!next_key
                 \/ B!Inside(FALSE) /\ B!next_element
              /\ UNCHANGED wvars /\ GoesOn
           \/ /\ Phase = "close" /\ turn \in {"close", "skip"}
              /\ \/ B!Inside(TRUE) /\ B!end_object
                 \/ B!Inside(FALSE) /\ B!end_array
              /\ UNCHANGED wvars /\ Goes
           \/ SkipItem
           \/ turn = "finish" /\ FinishReading
<1>1. /\ passing \in [at : {"idle", "value", "slot", "close"}, depth : Nat]
      /\ turn = "skip" <=> passing.at # "idle"
      /\ opened \in Seq(ReaderFrame)
  BY DEF ReadInv, Skipping
<1>2. B!Inside(FALSE) => ~B!Inside(TRUE)
  BY DEF B!Inside
<1>3. Phase = "slot" \/ Phase = "close" => B!Inside(TRUE) \/ B!Inside(FALSE)
  <2>1. SUFFICES ASSUME Phase \in {"slot", "close"} PROVE B!Inside(TRUE) \/ B!Inside(FALSE)
    OBVIOUS
  <2>2. Len(opened) > 0
    BY <2>1 DEF ReadInv, Standing
  <2>3. opened[Len(opened)] \in ReaderFrame /\ opened # <<>>
    BY <1>1, <2>2
  <2> QED BY <2>3 DEF ReaderFrame, B!Inside, B!Innermost
<1>4. CASE ReadItem
  <2>1. turn = "value" /\ AfterItem /\ UNCHANGED wvars /\ Phase = "value"
    BY <1>4 DEF ReadItem, Phase
  <2>2. \/ ~B!HasTag /\ B!Fail("peek", offset)
        \/ ReadScalar
        \/ B!Is(B!Array) /\ B!begin_array
        \/ B!Is(B!Object) /\ B!begin_object
    BY <1>4, SameTags DEF ReadItem
  <2>3. ReadScalar => ValueStep
    <3>1. CASE B!Is(Null) /\ B!read_null
      BY <3>1, SameTags DEF ValueStep
    <3>2. CASE B!Peek({True, False}) /\ B!read_bool
      BY <3>2, SameTags DEF ValueStep
    <3>3. CASE B!Peek({Signed, Unsigned}) /\ (B!read_int \/ B!read_uint)
      BY <3>3, SameTags DEF ValueStep
    <3>4. CASE B!Peek({Signed, Unsigned}) /\ B!read_float
      <4>1. B!Peek({B!Signed, B!Unsigned, B!Floating})
        BY <3>4, SameTags DEF B!Peek
      <4> QED BY <3>4, <4>1 DEF ValueStep
    <3>5. CASE B!Is(Floating) /\ B!read_float
      <4>1. B!Peek({B!Signed, B!Unsigned, B!Floating})
        BY <3>5, SameTags DEF B!Peek, B!Is
      <4> QED BY <3>5, <4>1 DEF ValueStep
    <3>6. CASE B!Is(String) /\ B!read_string
      BY <3>6, SameTags DEF ValueStep
    <3>7. CASE B!Is(Bytes) /\ B!read_bytes
      BY <3>7, SameTags DEF ValueStep
    <3> QED BY <3>1, <3>2, <3>3, <3>4, <3>5, <3>6, <3>7 DEF ReadScalar
  <2>4. ValueStep
    BY <2>2, <2>3 DEF ValueStep
  <2> QED BY <2>1, <2>4 DEF Goes
<1>5. CASE SkipOn
  <2>1. /\ turn = "skip" /\ B!Skip /\ UNCHANGED wvars /\ Goes /\ GoesOn
        /\ Phase = passing.at
    BY <1>5 DEF SkipOn, Goes, GoesOn, Phase
  <2>2. CASE B!SkipValue
    <3>1. ValueStep
      BY <2>2 DEF B!SkipValue, ValueStep
    <3>2. Phase = "value"
      BY <2>1, <2>2 DEF B!SkipValue
    <3> QED BY <2>1, <3>1, <3>2
  <2>3. CASE B!SkipSlot
    <3>1. /\ \/ B!Inside(TRUE) /\ B!next_key
             \/ B!Inside(FALSE) /\ B!next_element
          /\ Phase = "slot"
      BY <2>1, <2>3 DEF B!SkipSlot
    <3> QED BY <2>1, <3>1
  <2>4. CASE B!SkipClose
    <3>1. /\ \/ B!Inside(TRUE) /\ B!end_object
             \/ B!Inside(FALSE) /\ B!end_array
          /\ Phase = "close"
      BY <2>1, <2>4 DEF B!SkipClose
    <3> QED BY <2>1, <3>1
  <2> QED BY <2>1, <2>2, <2>3, <2>4 DEF B!Skip
<1>6. CASE ReadNext
  <2>1. turn = "slot" /\ UNCHANGED wvars /\ Phase = "slot" /\ GoesOn
    BY <1>6 DEF ReadNext, Phase, GoesOn
  <2>2. IF B!Inside(TRUE) THEN B!next_key ELSE B!next_element
    BY <1>6 DEF ReadNext
  <2>3. \/ B!Inside(TRUE) /\ B!next_key
        \/ B!Inside(FALSE) /\ B!next_element
    <3>1. CASE B!Inside(TRUE)
      BY <2>2, <3>1
    <3>2. CASE ~B!Inside(TRUE)
      <4>1. B!Inside(FALSE)
        BY <1>3, <2>1, <3>2
      <4>2. B!next_element
        BY <2>2, <3>2
      <4> QED BY <4>1, <4>2
    <3> QED BY <3>1, <3>2
  <2> QED BY <2>1, <2>3
<1>7. CASE ReadEnd
  <2>1. turn = "close" /\ UNCHANGED wvars /\ Phase = "close" /\ Goes
    BY <1>7 DEF ReadEnd, Phase, Goes
  <2>2. IF B!Inside(TRUE) THEN B!end_object ELSE B!end_array
    BY <1>7 DEF ReadEnd
  <2>3. \/ B!Inside(TRUE) /\ B!end_object
        \/ B!Inside(FALSE) /\ B!end_array
    <3>1. CASE B!Inside(TRUE)
      BY <2>2, <3>1
    <3>2. CASE ~B!Inside(TRUE)
      <4>1. B!Inside(FALSE)
        BY <1>3, <2>1, <3>2
      <4>2. B!end_array
        BY <2>2, <3>2
      <4> QED BY <4>1, <4>2
    <3> QED BY <3>1, <3>2
  <2> QED BY <2>1, <2>3
<1>8. CASE FinishReading
  BY <1>8 DEF FinishReading
<1> QED BY <1>4, <1>5, <1>6, <1>7, <1>8 DEF ReadBack

LEMMA ReadKeepsInv ==
    ASSUME WriterAssumption, WriterInv, ReadInv, ReadBack
    PROVE  ReadInv' /\ UNCHANGED wvars /\ turn' # "document"
<1>1. ReadInv'
  BY ReadMoves, ValueKeepsInv, SlotKeepsInv, ShutKeepsInv, SkipCallKeepsInv, FinishKeepsInv
<1>2. UNCHANGED wvars
  BY DEF ReadBack, ReadItem, SkipItem, SkipOn, ReadNext, ReadEnd, FinishReading
<1>3. turn' # "document"
  BY <1>1 DEF ReadInv, Phase, Phases
<1> QED BY <1>1, <1>2, <1>3

\* Nothing changes.
LEMMA StillKeepsInv ==
    ASSUME Inv, UNCHANGED bvars
    PROVE  Inv'
<1>1. /\ UNCHANGED wvars /\ handed' = handed /\ offset' = offset /\ opened' = opened
      /\ passing' = passing /\ returned' = returned /\ turn' = turn
  BY DEF bvars, readerVars
<1>2. WriterInv'
  BY <1>1, WriterStaysStill DEF Inv
<1>3. /\ buffer' = buffer /\ written' = written /\ nested' = nested
      /\ started' = started /\ complete' = complete
  BY <1>1 DEF wvars, complete
<1>4. ASSUME ReadInv PROVE ReadInv'
  <2>1. Handed' /\ Phase' = Phase
    BY <1>1, <1>3, <1>4 DEF ReadInv, Handed, Phase
  <2>2. Standing'
    BY <1>1, <1>3, <1>4, <2>1 DEF ReadInv, Standing, NoMore, AtItem, BehindItem, Like
  <2>3. Skipping'
    BY <1>1, <1>4 DEF ReadInv, Skipping
  <2>4. Answered'
    BY <1>1, <1>3, <1>4 DEF ReadInv, Answered, OutOfRange, Same
  <2>5. WholeOnly'
    BY <1>1, <1>3, <1>4 DEF ReadInv, WholeOnly, Whole
  <2> QED BY <1>1, <1>4, <2>1, <2>2, <2>3, <2>4, <2>5 DEF ReadInv
<1> QED BY <1>1, <1>2, <1>4 DEF Inv, Fresh

\* The initial states satisfy the invariant, and every step keeps it.
LEMMA InitHolds == BinaryInit => Inv
<1> SUFFICES ASSUME BinaryInit PROVE Inv
  OBVIOUS
<1>1. WriterInv
  BY WriterStarts DEF BinaryInit
<1> QED BY <1>1 DEF BinaryInit, Inv, Fresh, B!RInit, ReadInv

LEMMA StepHolds ==
    ASSUME WriterAssumption, Inv, [BinaryNext]_bvars
    PROVE  Inv'
<1>1. CASE Write
  <2>1. WriterInv'
    BY <1>1, WriterKeepsInv DEF Write, Inv
  <2> QED BY <1>1, <2>1 DEF Write, Inv, Fresh, readerVars
<1>2. CASE Deliver
  <2>1. /\ turn = "document" /\ turn' = "value" /\ UNCHANGED wvars
    BY <1>2 DEF Deliver
  <2>2. WriterInv'
    BY <2>1, WriterStaysStill DEF Inv
  <2>3. ReadInv'
    BY <1>2, <2>1, HandOverStarts DEF Inv, Fresh
  <2> QED BY <2>1, <2>2, <2>3 DEF Inv
<1>3. CASE ReadBack
  <2>1. turn # "document"
    BY <1>3 DEF ReadBack, ReadItem, SkipItem, SkipOn, ReadNext, ReadEnd, FinishReading
  <2>2. ReadInv' /\ UNCHANGED wvars /\ turn' # "document"
    BY <1>3, <2>1, ReadKeepsInv DEF Inv
  <2>3. WriterInv'
    BY <2>2, WriterStaysStill DEF Inv
  <2> QED BY <2>2, <2>3 DEF Inv
<1>4. CASE UNCHANGED bvars
  BY <1>4, StillKeepsInv
<1> QED BY <1>1, <1>2, <1>3, <1>4 DEF BinaryNext

LEMMA InvIsExact == Inv => BinaryExact
<1> SUFFICES ASSUME Inv PROVE BinaryExact
  OBVIOUS
<1>1. CASE turn = "document"
  BY <1>1 DEF BinaryExact, ReadsWritten, WholeOnly
<1>2. CASE turn # "document"
  BY <1>2 DEF Inv, ReadInv, Answered, BinaryExact, ReadsWritten
<1> QED BY <1>1, <1>2

THEOREM BinaryRoundTrip ==
    ASSUME WriterAssumption
    PROVE  BinarySpec => []BinaryExact
<1>1. BinaryInit => Inv
  BY InitHolds
<1>2. Inv /\ [BinaryNext]_bvars => Inv'
  BY StepHolds
<1>3. Inv => BinaryExact
  BY InvIsExact
<1> QED BY <1>1, <1>2, <1>3, PTL DEF BinarySpec

-----------------------------------------------------------------------------
(* Reading ends.                                                           *)

\* What is left at the place the caller is in.
Left ==
    CASE turn \in {"accepted", "thrown"} -> 0
      [] turn = "finish" -> 1
      [] turn = "skip" -> IF passing.at = "slot" THEN 3 ELSE 2
      [] turn \in {"value", "close"} -> 3
      [] OTHER -> 4

LEMMA LeftIs ==
    /\ Left \in 0 .. 4
    /\ turn \in {"accepted", "thrown"} => Left = 0
    /\ turn = "finish" => Left = 1
    /\ turn = "skip" => Left = IF passing.at = "slot" THEN 3 ELSE 2
    /\ turn \in {"value", "close"} => Left = 3
    /\ turn = "slot" => Left = 4
  BY DEF Left

LEMMA NextLeftIs ==
    /\ Left' \in 0 .. 4
    /\ turn' \in {"accepted", "thrown"} => Left' = 0
    /\ turn' = "finish" => Left' = 1
    /\ turn' = "skip" => Left' = IF passing'.at = "slot" THEN 3 ELSE 2
    /\ turn' \in {"value", "close"} => Left' = 3
    /\ turn' = "slot" => Left' = 4
  BY DEF Left

LEMMA ReadAdvances ==
    ASSUME WriterAssumption, WriterInv, ReadInv, ReadBack
    PROVE  LeftToRead' < LeftToRead
<1>1. /\ LeftToRead = 8 * (Len(handed) - offset) + 4 * Len(opened) + Left
      /\ LeftToRead' = 8 * (Len(handed') - offset') + 4 * Len(opened') + Left'
  BY DEF LeftToRead, Left
<1>2. /\ offset \in Nat /\ Len(opened) \in Nat /\ Len(handed) \in Nat
      /\ Left \in 0 .. 4 /\ Left' \in 0 .. 4
      /\ turn = "skip" <=> passing.at # "idle"
      /\ passing \in [at : {"idle", "value", "slot", "close"}, depth : Nat]
  BY LeftIs, NextLeftIs, HandedFacts DEF ReadInv, Skipping
<1>3. ASSUME Refuses, turn' = "thrown", Left > 0 PROVE LeftToRead' < LeftToRead
  BY <1>1, <1>2, <1>3, NextLeftIs DEF Refuses
<1>4. CASE Phase = "value" /\ turn \in {"value", "skip"} /\ ValueStep /\ UNCHANGED wvars /\ Goes
  <2>1. Left >= 2
    BY <1>4, LeftIs DEF Phase
  <2>2. CASE Refuses
    <3>1. turn' = "thrown"
      BY <1>4, <2>2 DEF Refuses, Goes, AfterItem, B!NotSkipping
    <3> QED BY <1>2, <1>3, <2>1, <2>2, <3>1
  <2>3. CASE \E v \in written : ReadsValue(v)
    <3>1. PICK v \in written : ReadsValue(v)
      BY <2>3
    <3>2. /\ handed' = handed /\ offset' = v.next /\ v.at = offset
          /\ v.next \in Nat /\ v.at < v.next
          /\ opened' \in Seq(ReaderFrame) /\ Len(opened') <= Len(opened) + 1
      BY <3>1, ItemFacts DEF ReadsValue, Reads
    <3>3. Len(opened') \in Nat
      BY <3>2
    <3> DEFINE b == Len(handed) - offset
               a == Len(handed') - offset'
    <3>4. a \in Int /\ b \in Int /\ a + 1 <= b
      BY <1>2, <3>2
    <3>5. /\ LeftToRead = 8 * b + 4 * Len(opened) + Left
          /\ LeftToRead' = 8 * a + 4 * Len(opened') + Left'
      BY <1>1
    <3> HIDE DEF a, b
    <3>6. Len(opened') <= Len(opened) + 1 /\ Len(opened) \in Nat /\ Left \in 2 .. 4 /\ Left' \in 0 .. 4
      BY <1>2, <2>1, <3>2
    <3> QED BY <3>3, <3>4, <3>5, <3>6
  <2> QED BY <1>4, <2>2, <2>3, ValueRead
<1>5. CASE /\ Phase = "slot" /\ turn \in {"slot", "skip"}
           /\ \/ B!Inside(TRUE) /\ B!next_key
              \/ B!Inside(FALSE) /\ B!next_element
           /\ UNCHANGED wvars /\ GoesOn
  <2>1. Left = IF turn = "skip" THEN 3 ELSE 4
    BY <1>5, LeftIs DEF Phase
  <2>2. CASE Refuses
    <3>1. turn' = "thrown"
      BY <1>5, <2>2 DEF Refuses, GoesOn, Goes, AfterItem, B!NotSkipping
    <3> QED BY <1>2, <1>3, <2>1, <2>2, <3>1
  <2>3. CASE Ends \/ Takes
    <3> DEFINE at == IF returned'.call = "end" THEN "close" ELSE "value"
    <3>1. /\ handed' = handed /\ offset' \in Nat /\ offset <= offset'
          /\ Len(opened') = Len(opened) /\ returned'.ok = TRUE /\ B!SkipTo(at)
      BY <1>2, <2>3 DEF Ends, Takes
    <3>2. CASE turn = "skip"
      <4>1. passing' = [passing EXCEPT !.at = at]
        BY <1>2, <3>1, <3>2 DEF B!SkipTo, B!Idle
      <4>2. passing'.at = at
        BY <1>2, <4>1
      <4>3. turn' = "skip"
        BY <1>5, <3>2, <4>2 DEF GoesOn, Goes
      <4>4. Left' = 2
        BY <4>2, <4>3, NextLeftIs
      <4> QED BY <1>1, <1>2, <2>1, <3>1, <3>2, <4>4
    <3>3. CASE turn = "slot"
      <4>1. turn' = at
        BY <1>5, <3>1, <3>3 DEF GoesOn
      <4>2. Left' = 3
        BY <4>1, NextLeftIs
      <4> QED BY <1>1, <1>2, <2>1, <3>1, <3>3, <4>2
    <3> QED BY <1>5, <3>2, <3>3
  <2> QED BY <1>5, <2>2, <2>3, SlotRead
<1>6. CASE /\ Phase = "close" /\ turn \in {"close", "skip"}
           /\ \/ B!Inside(TRUE) /\ B!end_object
              \/ B!Inside(FALSE) /\ B!end_array
           /\ UNCHANGED wvars /\ Goes
  <2>1. Left >= 2
    BY <1>6, LeftIs DEF Phase
  <2>2. PICK w \in written : Shuts(w)
    BY <1>6, CloseRead
  <2>3. handed' = handed /\ offset' = offset /\ Len(opened') = Len(opened) - 1
    BY <2>2 DEF Shuts
  <2> QED BY <1>1, <1>2, <2>1, <2>3
<1>7. CASE SkipItem
  <2>1. /\ turn = "value" /\ turn' = "skip" /\ passing'.at = "value"
        /\ handed' = handed /\ offset' = offset /\ opened' = opened
    BY <1>7 DEF SkipItem, B!skip_value
  <2>2. Left = 3 /\ Left' = 2
    BY <2>1, LeftIs, NextLeftIs
  <2> QED BY <1>1, <1>2, <2>1, <2>2
<1>8. CASE turn = "finish" /\ FinishReading
  <2>1. /\ handed' = handed /\ offset' = offset /\ opened' = opened
        /\ turn' \in {"accepted", "thrown"}
    BY <1>8 DEF FinishReading, B!finish, B!Fail, B!Throw, B!Return
  <2>2. Left = 1 /\ Left' = 0
    BY <1>8, <2>1, LeftIs, NextLeftIs
  <2> QED BY <1>1, <1>2, <2>1, <2>2
<1> QED BY <1>4, <1>5, <1>6, <1>7, <1>8, ReadMoves

THEOREM BinaryReadingEnds ==
    ASSUME WriterAssumption
    PROVE  BinarySpec => [][BinaryAdvances]_bvars
<1>1. BinaryInit => Inv
  BY InitHolds
<1>2. Inv /\ [BinaryNext]_bvars => Inv'
  BY StepHolds
<1>3. Inv /\ [BinaryNext]_bvars => [BinaryAdvances]_bvars
  <2>1. SUFFICES ASSUME Inv, BinaryNext PROVE BinaryAdvances
    OBVIOUS
  <2>2. CASE turn = "document"
    BY <2>2 DEF BinaryAdvances
  <2>3. CASE turn # "document"
    <3>1. ReadBack
      BY <2>1, <2>3 DEF BinaryNext, Write, Deliver
    <3> QED BY <2>1, <2>3, <3>1, ReadAdvances DEF Inv, BinaryAdvances
  <2> QED BY <2>2, <2>3
<1> QED BY <1>1, <1>2, <1>3, PTL DEF BinarySpec
=============================================================================
