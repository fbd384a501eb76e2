----------------------------- MODULE Serial_proofs -----------------------------
(***************************************************************************)
(* Proofs about the serialization layer.                                   *)
(*                                                                         *)
(* WritePath, for any graph of objects, any threads and any limit of the   *)
(* writer.  A thread's three stacks are grown and undone by                *)
(* different destructors, so each step is shown on the three sequences of  *)
(* one thread: an advance, a push and a pop keep them matched.  That the   *)
(* recursion is bounded needs the match of the addresses: the guard only   *)
(* looks at active_indirections.  That a written document holds no cycle   *)
(* needs what the calls have left behind them: ExploredInv.                *)
(*                                                                         *)
(* ObjectRead, for any hierarchy of classes, any fields with keys of their *)
(* own and any input.  The walk over the hierarchy and the search for a    *)
(* key are recursive: a recursion that looks only at smaller classes has a *)
(* fixed point, reached by repeating its step (FixedPoint), so both have   *)
(* the value their equations state.  A key then leads to a field that      *)
(* takes it, whichever class declares it (KeyFound): the least class of    *)
(* which this were false has only bases of which it is true.               *)
(*                                                                         *)
(* PolymorphicPointer and Registry, for any types, threads, depth and      *)
(* heap.  Every level of a read asks the registry on its own, so what the  *)
(* levels were given has to be told without saying when: a type that a     *)
(* name once meant is the one it means, because add never replaces an      *)
(* entry.  The only exception is the fallback for the static type, and the *)
(* invariant carries it from the writer's tag to the reader's pointer.     *)
(***************************************************************************)
EXTENDS WritePath, PolymorphicPointer, ObjectRead, FiniteSetTheorems, SequenceTheorems,
        WellFoundedInduction, TLAPS

FieldType == [guarded : BOOLEAN, to : Objects \cup {Null}]
Addresses == {Address[o] : o \in Objects}

\* The stacks of one thread: calls c, addresses a, segments p.
Matched(c, a, p) ==
    /\ Len(p) = IF c = <<>> THEN 0 ELSE Len(c) - 1
    /\ \A k \in DOMAIN p : Fields(c[k].object)[p[k]].to = c[k + 1].object
    /\ Len(a) = Indirections(c, Len(c))
    /\ \A k \in DOMAIN c : c[k].guarded => a[Indirections(c, k)] = Address[c[k].object]

\* No address is entered twice behind a pointer.
Distinct(c) ==
    \A i, j \in DOMAIN c :
        c[i].guarded /\ c[j].guarded /\ Address[c[i].object] = Address[c[j].object] => i = j

WriteInv == TypeOK /\ \A t \in Threads : Matched(calls[t], active[t], path[t]) /\ Distinct(calls[t])

-----------------------------------------------------------------------------
LEMMA FieldsType ==
  ASSUME WritePathAssumption, TypeOK, NEW o \in Objects
  PROVE  Fields(o) \in Seq(FieldType) /\ Len(Fields(o)) \in Nat /\ Len(Fields(o)) <= Pointers + 1
<1>1. Pointers \in Nat  BY DEF WritePathAssumption
<1>2. PICK q : q = [k \in 1 .. Pointers |-> [guarded |-> TRUE, to |-> pointers[o][k]]]  OBVIOUS
<1>3. q \in Seq(FieldType) /\ Len(q) = Pointers
  <2>0. \A k \in 1 .. Pointers : pointers[o][k] \in Objects \cup {Null}
    <3>1. pointers[o] \in [1 .. Pointers -> Objects \cup {Null}]  BY DEF TypeOK
    <3> QED  BY <3>1
  <2>1. \A k \in 1 .. Pointers : [guarded |-> TRUE, to |-> pointers[o][k]] \in FieldType
    BY <2>0 DEF FieldType
  <2>2. q \in [1 .. Pointers -> FieldType]  BY <1>2, <2>1
  <2> QED  BY <1>1, <2>2, LenProperties
<1>4. CASE o \in DOMAIN Inner
  <2>1. Inner[o] \in Objects  BY <1>4 DEF WritePathAssumption
  <2>2. PICK f \in FieldType : f = [guarded |-> FALSE, to |-> Inner[o]]  BY <2>1 DEF FieldType
  <2>3. Fields(o) = <<f>> \o q  BY <1>2, <1>4, <2>2 DEF Fields
  <2>4. <<f>> \in Seq(FieldType) /\ Len(<<f>>) = 1  OBVIOUS
  <2> QED  BY <1>1, <1>3, <2>3, <2>4, ConcatProperties
<1>5. CASE o \notin DOMAIN Inner
  <2>1. Fields(o) = <<>> \o q  BY <1>2, <1>5 DEF Fields
  <2>2. Fields(o) = q  BY <1>3, <2>1
  <2> QED  BY <1>1, <1>3, <2>2
<1> QED  BY <1>4, <1>5

\* The innermost call and the field it is at.
LEMMA TopType ==
  ASSUME TypeOK, NEW t \in Threads, calls[t] # <<>>
  PROVE  /\ Len(calls[t]) \in Nat \ {0} /\ Top(t) = calls[t][Len(calls[t])]
         /\ Top(t) \in FrameType
  BY DEF TypeOK, Top, Last

LEMMA FieldOfTop ==
  ASSUME WritePathAssumption, TypeOK, NEW t \in Threads, calls[t] # <<>>, HasField(t)
  PROVE  Top(t).next \in 1 .. Pointers + 1 /\ Field(t) \in FieldType
<1>1. Top(t) \in FrameType  BY TopType
<1>2. PICK o \in Objects : o = Top(t).object  BY <1>1 DEF FrameType
<1>3. Fields(o) \in Seq(FieldType) /\ Len(Fields(o)) \in Nat /\ Len(Fields(o)) <= Pointers + 1  BY <1>2, FieldsType
<1>4. Pointers \in Nat  BY DEF WritePathAssumption
<1>5. Top(t).next \in Nat /\ 1 <= Top(t).next /\ Top(t).next <= Len(Fields(o))  BY <1>1, <1>2, <1>4 DEF HasField, FrameType
<1>6. Top(t).next \in 1 .. Len(Fields(o))  BY <1>3, <1>5
<1>7. Field(t) \in FieldType  BY <1>2, <1>3, <1>6, ElementOfSeq DEF Field
<1> QED  BY <1>3, <1>4, <1>5, <1>7

-----------------------------------------------------------------------------
(* Counting the calls that came through a pointer.                          *)

Guards(c, k) == {j \in 1 .. k : c[j].guarded}

LEMMA GuardsFinite ==
  ASSUME NEW c, NEW k \in Nat
  PROVE  IsFiniteSet(Guards(c, k)) /\ Indirections(c, k) \in Nat /\ Indirections(c, k) = Cardinality(Guards(c, k))
<1>1. IsFiniteSet(1 .. k)  BY FS_Interval
<1>2. IsFiniteSet(Guards(c, k))  BY <1>1, FS_Subset DEF Guards
<1> QED  BY <1>2, FS_CardinalityType DEF Guards, Indirections

LEMMA GuardsNone == ASSUME NEW c PROVE Indirections(c, 0) = 0
<1>1. {j \in 1 .. 0 : c[j].guarded} = {}  OBVIOUS
<1> QED  BY <1>1, FS_EmptySet DEF Indirections

LEMMA GuardsNext ==
  ASSUME NEW c, NEW k \in Nat, c[k + 1].guarded \in BOOLEAN
  PROVE  Indirections(c, k + 1) = Indirections(c, k) + IF c[k + 1].guarded THEN 1 ELSE 0
<1>1. IsFiniteSet(Guards(c, k)) /\ k + 1 \notin Guards(c, k)
  <2>1. IsFiniteSet(Guards(c, k))  BY GuardsFinite
  <2>2. k + 1 \notin Guards(c, k)  BY DEF Guards
  <2> QED  BY <2>1, <2>2
<1>2. CASE c[k + 1].guarded
  <2>1. Guards(c, k + 1) = Guards(c, k) \cup {k + 1}  BY <1>2 DEF Guards
  <2>2. Cardinality(Guards(c, k) \cup {k + 1}) = Cardinality(Guards(c, k)) + 1  BY <1>1, FS_AddElement
  <2> QED  BY <1>2, <2>1, <2>2 DEF Guards, Indirections
<1>3. CASE ~c[k + 1].guarded
  <2>1. Guards(c, k + 1) = Guards(c, k)  BY <1>3 DEF Guards
  <2>2. Indirections(c, k + 1) = Indirections(c, k) /\ Indirections(c, k) \in Nat
    BY <2>1, GuardsFinite DEF Guards, Indirections
  <2> QED  BY <1>3, <2>2
<1> QED  BY <1>2, <1>3

\* A call through a pointer has its number among those up to any later call.
LEMMA GuardsWithin ==
  ASSUME NEW c, NEW n \in Nat, NEW k \in 1 .. n, c[k].guarded
  PROVE  Indirections(c, k) \in 1 .. Indirections(c, n)
<1>1. Guards(c, k) \subseteq Guards(c, n) /\ k \in Guards(c, k)  BY DEF Guards
<1>2. /\ IsFiniteSet(Guards(c, k)) /\ Indirections(c, k) \in Nat /\ Indirections(c, k) = Cardinality(Guards(c, k))
      /\ IsFiniteSet(Guards(c, n)) /\ Indirections(c, n) \in Nat /\ Indirections(c, n) = Cardinality(Guards(c, n))
  BY GuardsFinite
<1>3. Cardinality(Guards(c, k)) <= Cardinality(Guards(c, n))  BY <1>1, <1>2, FS_Subset
<1>4. Cardinality(Guards(c, k)) # 0  BY <1>1, <1>2, FS_EmptySet
<1> QED  BY <1>2, <1>3, <1>4

\* The count looks at the calls up to k only.
LEMMA GuardsSame ==
  ASSUME NEW c, NEW d, NEW k \in Nat, \A j \in 1 .. k : c[j].guarded = d[j].guarded
  PROVE  Indirections(c, k) = Indirections(d, k)
<1>1. {j \in 1 .. k : c[j].guarded} = {j \in 1 .. k : d[j].guarded}  OBVIOUS
<1> QED  BY <1>1 DEF Indirections

-----------------------------------------------------------------------------
(* The stacks of one thread.                                                *)

\* Only a position changes.
LEMMA AdvanceMatched ==
  ASSUME NEW c \in Seq(FrameType), NEW d \in Seq(FrameType), Len(d) = Len(c),
         \A k \in 1 .. Len(c) : d[k].object = c[k].object /\ d[k].guarded = c[k].guarded,
         NEW a, NEW p \in Places, Matched(c, a, p), Distinct(c)
  PROVE  Matched(d, a, p) /\ Distinct(d)
<1>1. Len(c) \in Nat /\ DOMAIN c = 1 .. Len(c) /\ DOMAIN d = 1 .. Len(c) /\ (c = <<>> <=> Len(c) = 0) /\ (d = <<>> <=> Len(c) = 0)
  OBVIOUS
<1>2. Len(p) \in Nat /\ DOMAIN p = 1 .. Len(p) /\ Len(p) = IF c = <<>> THEN 0 ELSE Len(c) - 1
  BY DEF Matched, Places
<1>3. \A k \in DOMAIN p : k \in 1 .. Len(c) /\ k + 1 \in 1 .. Len(c)
  <2>1. CASE Len(c) = 0  BY <1>1, <1>2, <2>1
  <2>2. CASE Len(c) # 0  BY <1>1, <1>2, <2>2
  <2> QED  BY <2>1, <2>2
<1>4. \A k \in DOMAIN p : Fields(d[k].object)[p[k]].to = d[k + 1].object  BY <1>3 DEF Matched
<1>5. ASSUME NEW k \in 0 .. Len(c) PROVE Indirections(c, k) = Indirections(d, k)
  <2>1. k \in Nat /\ \A j \in 1 .. k : j \in 1 .. Len(c)  BY <1>1
  <2> QED  BY <2>1, GuardsSame
<1>6. Len(a) = Indirections(d, Len(d))
  <2>1. Len(c) \in 0 .. Len(c)  BY <1>1
  <2> QED  BY <1>5, <2>1 DEF Matched
<1>7. ASSUME NEW k \in DOMAIN d, d[k].guarded PROVE a[Indirections(d, k)] = Address[d[k].object]
  <2>1. k \in DOMAIN c /\ k \in 1 .. Len(c) /\ k \in 0 .. Len(c)  BY <1>1
  <2>2. Indirections(c, k) = Indirections(d, k)  BY <1>5, <2>1
  <2> QED  BY <1>7, <2>1, <2>2 DEF Matched
<1>8. Distinct(d)  BY <1>1 DEF Distinct
<1> QED  BY <1>1, <1>2, <1>4, <1>6, <1>7, <1>8 DEF Matched

\* The call of an object is entered.
LEMMA PushMatched ==
  ASSUME NEW c \in Seq(FrameType), c # <<>>, NEW a \in Seq(Addresses), NEW p \in Places, Matched(c, a, p), Distinct(c),
         NEW f \in FrameType, NEW at \in 1 .. Pointers + 1, Fields(c[Len(c)].object)[at].to = f.object,
         f.guarded => \A i \in DOMAIN a : a[i] # Address[f.object],
         NEW b, b = IF f.guarded THEN Append(a, Address[f.object]) ELSE a
  PROVE  Matched(Append(c, f), b, Append(p, at)) /\ Distinct(Append(c, f))
<1>1. PICK n \in Nat \ {0} : n = Len(c)  OBVIOUS
<1>2. PICK d : d = Append(c, f)  OBVIOUS
<1>3. /\ d \in Seq(FrameType) /\ Len(d) = n + 1 /\ d[n + 1] = f /\ \A k \in 1 .. n : d[k] = c[k]
      /\ DOMAIN d = 1 .. n + 1 /\ DOMAIN c = 1 .. n /\ d # <<>>
  BY <1>1, <1>2
<1>4. PICK q : q = Append(p, at)  OBVIOUS
<1>5. /\ Len(p) = n - 1 /\ Len(q) = n /\ q[n] = at /\ \A k \in 1 .. n - 1 : q[k] = p[k]
      /\ DOMAIN q = 1 .. n /\ DOMAIN p = 1 .. n - 1
  BY <1>1, <1>4 DEF Matched, Places
<1>6. ASSUME NEW k \in 1 .. n PROVE Fields(d[k].object)[q[k]].to = d[k + 1].object
  <2>1. CASE k = n  BY <1>1, <1>3, <1>5, <2>1
  <2>2. CASE k # n
    <3>1. k \in 1 .. n - 1 /\ k + 1 \in 1 .. n  BY <1>1, <2>2
    <3>2. Fields(c[k].object)[p[k]].to = c[k + 1].object  BY <1>5, <3>1 DEF Matched
    <3> QED  BY <1>3, <1>5, <3>1, <3>2
  <2> QED  BY <2>1, <2>2
<1>7. ASSUME NEW k \in 0 .. n PROVE Indirections(d, k) = Indirections(c, k)
  <2>1. k \in Nat /\ \A j \in 1 .. k : j \in 1 .. n  BY <1>1
  <2> QED  BY <1>3, <2>1, GuardsSame
<1>8. PICK m \in Nat : m = Indirections(c, n)  BY <1>1, GuardsFinite
<1>9. Len(a) = m /\ \A k \in 1 .. n : c[k].guarded => a[Indirections(c, k)] = Address[c[k].object]
  BY <1>1, <1>3, <1>8 DEF Matched
<1>10. f.guarded \in BOOLEAN /\ f.object \in Objects /\ Address[f.object] \in Addresses  BY DEF FrameType, Addresses
<1>11. Indirections(d, n + 1) = m + IF f.guarded THEN 1 ELSE 0
  <2>1. Indirections(d, n) = m /\ d[n + 1].guarded \in BOOLEAN  BY <1>1, <1>3, <1>7, <1>8, <1>10
  <2> QED  BY <1>1, <1>3, <2>1, GuardsNext
<1>12. Len(b) = (m + IF f.guarded THEN 1 ELSE 0) /\ (\A i \in 1 .. m : b[i] = a[i]) /\ (f.guarded => b[m + 1] = Address[f.object])
  BY <1>9, <1>10
<1>13. ASSUME NEW k \in 1 .. n, c[k].guarded
       PROVE  Indirections(c, k) \in 1 .. m /\ a[Indirections(c, k)] = Address[c[k].object]
  BY <1>8, <1>9, <1>13, GuardsWithin
<1>14. ASSUME NEW k \in 1 .. n + 1, d[k].guarded PROVE b[Indirections(d, k)] = Address[d[k].object]
  <2>1. CASE k = n + 1  BY <1>3, <1>11, <1>12, <1>14, <2>1
  <2>2. CASE k # n + 1
    <3>1. k \in 1 .. n /\ k \in 0 .. n  BY <1>1, <2>2
    <3>2. d[k] = c[k] /\ Indirections(d, k) = Indirections(c, k)  BY <1>3, <1>7, <3>1
    <3> QED  BY <1>12, <1>13, <1>14, <3>1, <3>2
  <2> QED  BY <2>1, <2>2
<1>15. ASSUME f.guarded, NEW k \in 1 .. n, c[k].guarded PROVE Address[c[k].object] # Address[f.object]
  <2>1. DOMAIN a = 1 .. m  BY <1>9
  <2> QED  BY <1>13, <1>15, <2>1
<1>16. Distinct(d)
  <2>1. \A k \in 1 .. n + 1 : k = n + 1 \/ k \in 1 .. n  BY <1>1
  <2>2. \A i, j \in 1 .. n : c[i].guarded /\ c[j].guarded /\ Address[c[i].object] = Address[c[j].object] => i = j
    BY <1>3 DEF Distinct
  <2> QED  BY <1>3, <1>15, <2>1, <2>2 DEF Distinct
<1>17. Matched(d, b, q)
  <2>1. Len(q) = IF d = <<>> THEN 0 ELSE Len(d) - 1  BY <1>1, <1>3, <1>5
  <2>2. \A k \in DOMAIN q : Fields(d[k].object)[q[k]].to = d[k + 1].object  BY <1>5, <1>6
  <2>3. Len(b) = Indirections(d, Len(d))  BY <1>3, <1>11, <1>12
  <2>4. \A k \in DOMAIN d : d[k].guarded => b[Indirections(d, k)] = Address[d[k].object]  BY <1>3, <1>14
  <2> QED  BY <2>1, <2>2, <2>3, <2>4 DEF Matched
<1> QED  BY <1>2, <1>4, <1>16, <1>17
LEMMA FrontOf ==
  ASSUME NEW S, NEW q \in Seq(S), q # <<>>
  PROVE  LET r == SubSeq(q, 1, Len(q) - 1) IN
         r \in Seq(S) /\ Len(r) = Len(q) - 1 /\ \A k \in 1 .. Len(q) - 1 : r[k] = q[k]
<1>1. Len(q) \in Nat /\ Len(q) # 0 /\ \A i \in 1 .. Len(q) : q[i] \in S  OBVIOUS
<1>2. PICK n \in Nat : Len(q) = n + 1
  <2>1. Len(q) - 1 \in Nat /\ Len(q) = (Len(q) - 1) + 1  BY <1>1
  <2> QED  BY <2>1
<1>3. /\ 1 \in Int /\ n \in Int /\ n - 1 + 1 = n /\ (1 <= n \/ n = 0) /\ (n + 1) - 1 = n
      /\ (\A i \in 1 .. n : 1 + i - 1 = i) /\ 1 .. n \subseteq 1 .. n + 1
  BY <1>2
<1>4. \A i \in 1 .. n : q[i] \in S  BY <1>1, <1>2, <1>3
<1>5. /\ SubSeq(q, 1, n) \in Seq(S) /\ Len(SubSeq(q, 1, n)) = n
      /\ \A i \in 1 .. n : SubSeq(q, 1, n)[i] = q[i]
  BY <1>3, <1>4, SubSeqProperties
<1> QED  BY <1>2, <1>3, <1>5

\* The innermost call is left, on return or on a throw: d, b and q are what
\* Pop makes of the stacks.
Popped(c, a, p, d, b, q) ==
    /\ d = SubSeq(c, 1, Len(c) - 1)
    /\ q = IF p = <<>> THEN p ELSE SubSeq(p, 1, Len(p) - 1)
    /\ b = IF c[Len(c)].guarded THEN SubSeq(a, 1, Len(a) - 1) ELSE a

LEMMA PopMatched ==
  ASSUME NEW c \in Seq(FrameType), c # <<>>, NEW a \in Seq(Addresses), NEW p \in Places, Matched(c, a, p), Distinct(c),
         NEW d, NEW b, NEW q, Popped(c, a, p, d, b, q)
  PROVE  /\ Matched(d, b, q) /\ Distinct(d)
         /\ d \in Seq(FrameType) /\ b \in Seq(Addresses) /\ q \in Places
<1>1. PICK n \in Nat : Len(c) = n + 1
  <2>1. Len(c) \in Nat /\ Len(c) # 0  OBVIOUS
  <2>2. Len(c) - 1 \in Nat /\ Len(c) = (Len(c) - 1) + 1  BY <2>1
  <2> QED  BY <2>2
<1>2. (n + 1) - 1 = n /\ DOMAIN c = 1 .. n + 1 /\ n + 1 \in 1 .. n + 1 /\ c[n + 1] \in FrameType  BY <1>1
<1>3. /\ d \in Seq(FrameType) /\ Len(d) = n /\ DOMAIN d = 1 .. n /\ (d = <<>> <=> n = 0)
      /\ \A k \in 1 .. n : d[k] = c[k]
  <2>1. d \in Seq(FrameType) /\ Len(d) = n /\ \A k \in 1 .. n : d[k] = c[k]  BY <1>1, <1>2, FrontOf DEF Popped
  <2>2. DOMAIN d = 1 .. n  BY <2>1, LenProperties
  <2>3. d = <<>> <=> n = 0  BY <2>1, EmptySeq
  <2> QED  BY <2>1, <2>2, <2>3
<1>4. Len(p) = n  BY <1>1, <1>2 DEF Matched
<1>5. /\ q \in Places /\ Len(q) = (IF n = 0 THEN 0 ELSE n - 1) /\ DOMAIN q = 1 .. Len(q)
      /\ \A k \in 1 .. Len(q) : q[k] = p[k]
  <2>1. p \in Seq(1 .. Pointers + 1)  BY DEF Places
  <2>2. CASE n = 0
    <3>1. p = <<>>  BY <1>4, <2>1, <2>2
    <3>2. q = p  BY <3>1 DEF Popped
    <3> QED  BY <1>4, <2>1, <2>2, <3>2 DEF Places
  <2>3. CASE n # 0
    <3>1. p # <<>>  BY <1>4, <2>1, <2>3
    <3>2. q = SubSeq(p, 1, Len(p) - 1)  BY <3>1 DEF Popped
    <3>3. q \in Seq(1 .. Pointers + 1) /\ Len(q) = n - 1 /\ \A k \in 1 .. n - 1 : q[k] = p[k]
      <4>1. q \in Seq(1 .. Pointers + 1) /\ Len(q) = Len(p) - 1 /\ \A k \in 1 .. Len(p) - 1 : q[k] = p[k]
        <5>1. PICK S : S = 1 .. Pointers + 1  OBVIOUS
        <5>2. p \in Seq(S)  BY <2>1, <5>1
        <5>3. q \in Seq(S) /\ Len(q) = Len(p) - 1 /\ \A k \in 1 .. Len(p) - 1 : q[k] = p[k]
          BY <3>1, <3>2, <5>2, FrontOf
        <5> QED  BY <5>1, <5>3
      <4> QED  BY <1>4, <4>1
    <3>4. DOMAIN q = 1 .. Len(q)  BY <3>3, LenProperties
    <3> QED  BY <2>3, <3>3, <3>4 DEF Places
  <2> QED  BY <2>2, <2>3
<1>6. ASSUME NEW k \in DOMAIN q PROVE Fields(d[k].object)[q[k]].to = d[k + 1].object
  <2>1. k \in 1 .. n /\ k + 1 \in 1 .. n /\ k \in 1 .. Len(p) /\ k \in 1 .. Len(q)
    <3>1. k \in 1 .. Len(q)  BY <1>5
    <3>2. n # 0 /\ Len(q) = n - 1
      <4>1. CASE n = 0
        <5>1. Len(q) = 0  BY <1>5, <4>1
        <5>2. k \in 1 .. 0  BY <3>1, <5>1
        <5> QED  BY <5>2
      <4>2. CASE n # 0  BY <1>5, <4>2
      <4> QED  BY <4>1, <4>2
    <3> QED  BY <1>4, <3>1, <3>2
  <2>2. Fields(c[k].object)[p[k]].to = c[k + 1].object  BY <2>1 DEF Matched, Places
  <2> QED  BY <1>3, <1>5, <2>1, <2>2
<1>7. ASSUME NEW k \in 0 .. n PROVE Indirections(d, k) = Indirections(c, k)
  <2>1. k \in Nat /\ \A j \in 1 .. k : j \in 1 .. n  OBVIOUS
  <2> QED  BY <1>3, <2>1, GuardsSame
<1>8. PICK m \in Nat : m = Indirections(c, n)  BY GuardsFinite
<1>9. c[n + 1].guarded \in BOOLEAN  BY <1>2 DEF FrameType
<1>10. Len(a) = m + IF c[n + 1].guarded THEN 1 ELSE 0
  <2>1. Indirections(c, n + 1) = m + IF c[n + 1].guarded THEN 1 ELSE 0  BY <1>8, <1>9, GuardsNext
  <2> QED  BY <1>1, <2>1 DEF Matched
<1>11. b \in Seq(Addresses) /\ Len(b) = m /\ \A i \in 1 .. m : b[i] = a[i]
  <2>1. CASE c[n + 1].guarded
    <3>1. Len(a) = m + 1 /\ a # <<>> /\ (m + 1) - 1 = m  BY <1>10, <2>1
    <3>2. b = SubSeq(a, 1, Len(a) - 1)  BY <1>1, <2>1 DEF Popped
    <3> QED  BY <3>1, <3>2, FrontOf
  <2>2. CASE ~c[n + 1].guarded
    <3>1. b = a /\ Len(a) = m  BY <1>1, <1>10, <2>2 DEF Popped
    <3> QED  BY <3>1
  <2> QED  BY <2>1, <2>2
<1>12. ASSUME NEW k \in DOMAIN d, d[k].guarded PROVE b[Indirections(d, k)] = Address[d[k].object]
  <2>1. k \in 1 .. n /\ k \in 0 .. n /\ k \in DOMAIN c /\ d[k] = c[k]  BY <1>2, <1>3
  <2>2. Indirections(c, k) \in 1 .. m  BY <1>8, <1>12, <2>1, GuardsWithin
  <2>3. a[Indirections(c, k)] = Address[c[k].object]  BY <1>12, <2>1 DEF Matched
  <2> QED  BY <1>7, <1>11, <2>1, <2>2, <2>3
<1>13. Matched(d, b, q)
  <2>1. Len(q) = IF d = <<>> THEN 0 ELSE Len(d) - 1  BY <1>3, <1>5
  <2>2. Len(b) = Indirections(d, Len(d))
    <3>1. n \in 0 .. n  OBVIOUS
    <3> QED  BY <1>3, <1>7, <1>8, <1>11, <3>1
  <2> QED  BY <1>6, <1>12, <2>1, <2>2 DEF Matched
<1>14. Distinct(d)
  <2>1. \A k \in 1 .. n : k \in DOMAIN c  BY <1>2
  <2>2. ASSUME NEW i \in 1 .. n, NEW j \in 1 .. n, d[i].guarded, d[j].guarded, Address[d[i].object] = Address[d[j].object]
        PROVE  i = j
    <3>1. d[i] = c[i] /\ d[j] = c[j] /\ i \in DOMAIN c /\ j \in DOMAIN c  BY <1>3, <2>1
    <3> QED  BY <2>2, <3>1 DEF Distinct
  <2> QED  BY <1>3, <2>2 DEF Distinct
<1> QED  BY <1>3, <1>5, <1>11, <1>13, <1>14

-----------------------------------------------------------------------------
(* The actions.                                                             *)

\* A step of t leaves the other threads' stacks and the graph alone.
LEMMA OneThread ==
  ASSUME WriteInv, NEW t \in Threads, TypeOK', pointers' = pointers,
         \A u \in Threads : u # t => calls'[u] = calls[u] /\ active'[u] = active[u] /\ path'[u] = path[u],
         Matched(calls'[t], active'[t], path'[t]), Distinct(calls'[t])
  PROVE  WriteInv'
<1>1. \A o : Fields(o)' = Fields(o)  BY DEF Fields
<1>2. ASSUME NEW u \in Threads PROVE Matched(calls'[u], active'[u], path'[u]) /\ Distinct(calls'[u])
  <2>1. CASE u = t  BY <2>1
  <2>2. CASE u # t  BY <2>2 DEF WriteInv
  <2> QED  BY <2>1, <2>2
<1>3. \A u \in Threads : Matched(calls[u], active[u], path[u])' /\ Distinct(calls[u])'
  BY <1>1, <1>2 DEF Matched, Distinct
<1> QED  BY <1>3 DEF WriteInv
LEMMA StartKept ==
  ASSUME WritePathAssumption, WriteInv, NEW t \in Threads, NEW object \in Objects, Start(t, object)
  PROVE  WriteInv'
<1>1. PICK f : f = Frame(object, FALSE)  OBVIOUS
<1>2. Pointers \in Nat  BY DEF WritePathAssumption
<1>3. f \in FrameType /\ f.guarded = FALSE  BY <1>1, <1>2 DEF Frame, FrameType
<1>4. /\ calls' = [calls EXCEPT ![t] = <<f>>] /\ calls[t] = <<>>
      /\ pointers' = pointers /\ active' = active /\ path' = path
      /\ outcome' = [outcome EXCEPT ![t] = "writing"] /\ error' = [error EXCEPT ![t] = <<>>]
  BY <1>1 DEF Start
<1>5. <<f>> \in Seq(FrameType) /\ Len(<<f>>) = 1 /\ <<f>>[1] = f /\ DOMAIN <<f>> = 1 .. 1  BY <1>3
<1>6. calls' \in [Threads -> Seq(FrameType)] /\ calls'[t] = <<f>> /\ \A u \in Threads : u # t => calls'[u] = calls[u]
  BY <1>4, <1>5 DEF WriteInv, TypeOK
<1>7. TypeOK'
  <2>1. <<>> \in Places  BY DEF Places
  <2>2. "writing" \in Outcomes  BY DEF Outcomes
  <2> QED  BY <1>4, <1>6, <2>1, <2>2 DEF WriteInv, TypeOK
<1>8. Len(path[t]) = 0 /\ Len(active[t]) = 0 /\ path[t] \in Places
  <2>1. Matched(calls[t], active[t], path[t]) /\ Len(calls[t]) = 0  BY <1>4 DEF WriteInv
  <2>2. Indirections(calls[t], 0) = 0  BY GuardsNone
  <2> QED  BY <1>4, <2>1, <2>2 DEF Matched, WriteInv, TypeOK
<1>9. Indirections(<<f>>, 1) = 0
  <2>1. Indirections(<<f>>, 0) = 0  BY GuardsNone
  <2>2. <<f>>[0 + 1].guarded = FALSE /\ 0 + 1 = 1  BY <1>3, <1>5
  <2>3. Indirections(<<f>>, 0 + 1) = Indirections(<<f>>, 0) + IF <<f>>[0 + 1].guarded THEN 1 ELSE 0
    BY <2>2, GuardsNext
  <2> QED  BY <2>1, <2>2, <2>3
<1>10. Matched(<<f>>, active[t], path[t])
  <2>1. <<f>> # <<>> /\ 1 - 1 = 0  OBVIOUS
  <2>2. DOMAIN path[t] = {}  BY <1>8 DEF Places
  <2>3. \A k \in DOMAIN <<f>> : ~<<f>>[k].guarded  BY <1>3, <1>5
  <2> QED  BY <1>5, <1>8, <1>9, <2>1, <2>2, <2>3 DEF Matched
<1>11. Distinct(<<f>>)  BY <1>5 DEF Distinct
<1> QED  BY <1>4, <1>6, <1>7, <1>10, <1>11, OneThread

\* Advanced: the position in the innermost call.
LEMMA AdvancedCalls ==
  ASSUME WritePathAssumption, WriteInv, NEW t \in Threads, calls[t] # <<>>, HasField(t), NEW d, d = Advanced(t)
  PROVE  /\ d \in Seq(FrameType) /\ d # <<>> /\ Len(d) = Len(calls[t])
         /\ \A k \in 1 .. Len(d) : d[k].object = calls[t][k].object /\ d[k].guarded = calls[t][k].guarded
         /\ Matched(d, active[t], path[t]) /\ Distinct(d)
<1>1. PICK c \in Seq(FrameType) : c = calls[t]  BY DEF WriteInv, TypeOK
<1>2. PICK n \in Nat \ {0} : n = Len(c)  BY <1>1
<1>3. c[n] = Top(t) /\ c[n] \in FrameType /\ Top(t).next \in 1 .. Pointers + 1
  BY <1>1, <1>2, TopType, FieldOfTop DEF WriteInv
<1>4. PICK f : f = [c[n] EXCEPT !.next = @ + 1]  OBVIOUS
<1>5. f \in FrameType /\ f.object = c[n].object /\ f.guarded = c[n].guarded
  <2>1. Pointers \in Nat  BY DEF WritePathAssumption
  <2>2. c[n].next + 1 \in 1 .. Pointers + 2  BY <1>3, <2>1
  <2> QED  BY <1>3, <1>4, <2>2 DEF FrameType
<1>6. d = [c EXCEPT ![n] = f]  BY <1>1, <1>2, <1>4 DEF Advanced
<1>7. /\ d \in Seq(FrameType) /\ Len(d) = n
      /\ \A k \in 1 .. n : d[k].object = c[k].object /\ d[k].guarded = c[k].guarded
  <2>1. d \in Seq(FrameType) /\ Len(d) = n /\ d[n] = f /\ \A k \in 1 .. n : k # n => d[k] = c[k]
    BY <1>2, <1>5, <1>6
  <2> QED  BY <1>5, <2>1
<1>8. Matched(c, active[t], path[t]) /\ Distinct(c) /\ path[t] \in Places  BY <1>1 DEF WriteInv, TypeOK
<1>9. Matched(d, active[t], path[t]) /\ Distinct(d)  BY <1>2, <1>7, <1>8, AdvanceMatched
<1> QED  BY <1>1, <1>2, <1>7, <1>9, EmptySeq

LEMMA WriteNullKept ==
  ASSUME WritePathAssumption, WriteInv, NEW t \in Threads, WriteNull(t)
  PROVE  WriteInv'
<1>1. PICK d : d = Advanced(t)  OBVIOUS
<1>2. d \in Seq(FrameType) /\ Matched(d, active[t], path[t]) /\ Distinct(d)
  BY <1>1, AdvancedCalls DEF WriteNull, Writing
<1>3. /\ calls' = [calls EXCEPT ![t] = d] /\ pointers' = pointers /\ active' = active /\ path' = path
      /\ error' = error /\ outcome' = outcome
  BY <1>1 DEF WriteNull
<1>4. calls' \in [Threads -> Seq(FrameType)] /\ calls'[t] = d /\ \A u \in Threads : u # t => calls'[u] = calls[u]
  BY <1>2, <1>3 DEF WriteInv, TypeOK
<1>5. TypeOK'  BY <1>3, <1>4 DEF WriteInv, TypeOK
<1> QED  BY <1>2, <1>3, <1>4, <1>5, OneThread

LEMMA ThrowKept ==
  ASSUME WriteInv, NEW t \in Threads, NEW kind \in Outcomes, NEW place \in Places, Throw(t, kind, place)
  PROVE  WriteInv'
<1>1. /\ calls' = calls /\ pointers' = pointers /\ active' = active /\ path' = path
      /\ outcome' = [outcome EXCEPT ![t] = kind] /\ error' = [error EXCEPT ![t] = place]
  BY DEF Throw
<1>2. TypeOK'  BY <1>1 DEF WriteInv, TypeOK
<1> QED  BY <1>1, <1>2, OneThread DEF WriteInv

\* The path to the field that is being written.
LEMMA SegmentType ==
  ASSUME WritePathAssumption, WriteInv, NEW t \in Threads, Writing(t), HasField(t)
  PROVE  path[t] \in Places /\ Segment(t) \in Places
<1>1. Top(t).next \in 1 .. Pointers + 1  BY FieldOfTop DEF WriteInv, Writing
<1>2. path[t] \in Seq(1 .. Pointers + 1)  BY DEF WriteInv, TypeOK, Places
<1>3. PICK S : S = 1 .. Pointers + 1  OBVIOUS
<1>4. Append(path[t], Top(t).next) \in Seq(S)  BY <1>1, <1>2, <1>3
<1> QED  BY <1>2, <1>3, <1>4 DEF Places, Segment

LEMMA EnterKept ==
  ASSUME WritePathAssumption, WriteInv, NEW t \in Threads, Enter(t)
  PROVE  WriteInv'
<1>1. Writing(t) /\ calls[t] # <<>> /\ HasField(t) /\ Field(t).to # Null  BY DEF Enter, Writing
<1>2. PICK fd \in FieldType : fd = Field(t)  BY <1>1, FieldOfTop DEF WriteInv
<1>3. PICK f : f = Frame(fd.to, fd.guarded)  OBVIOUS
<1>4. f \in FrameType /\ f.object = fd.to /\ f.guarded = fd.guarded /\ f.guarded \in BOOLEAN /\ f.object \in Objects
  <2>1. Pointers \in Nat /\ 1 \in 1 .. Pointers + 2  BY DEF WritePathAssumption
  <2>2. fd.to \in Objects /\ fd.guarded \in BOOLEAN  BY <1>1, <1>2 DEF FieldType
  <2> QED  BY <1>3, <2>1, <2>2 DEF Frame, FrameType
<1>5. PICK d : d = Advanced(t)  OBVIOUS
<1>6. /\ d \in Seq(FrameType) /\ d # <<>> /\ Len(d) = Len(calls[t])
      /\ \A k \in 1 .. Len(d) : d[k].object = calls[t][k].object /\ d[k].guarded = calls[t][k].guarded
      /\ Matched(d, active[t], path[t]) /\ Distinct(d)
  BY <1>1, <1>5, AdvancedCalls
<1>7. PICK at \in 1 .. Pointers + 1 : at = Top(t).next  BY <1>1, FieldOfTop DEF WriteInv
<1>8. Fields(d[Len(d)].object)[at].to = f.object
  <2>1. Len(d) \in 1 .. Len(d)  BY <1>6
  <2>2. d[Len(d)].object = Top(t).object  BY <1>1, <1>6, <2>1, TopType DEF WriteInv
  <2> QED  BY <1>2, <1>4, <1>7, <2>2 DEF Field
<1>9. active[t] \in Seq(Addresses) /\ path[t] \in Places /\ Address[f.object] \in Addresses
  BY <1>4 DEF WriteInv, TypeOK, Addresses
<1>10. f.guarded => \A i \in DOMAIN active[t] : active[t][i] # Address[f.object]
  BY <1>2, <1>4 DEF Enter, OnPath, ToSet
<1>11. PICK b : b = IF f.guarded THEN Append(active[t], Address[f.object]) ELSE active[t]  OBVIOUS
<1>12. PICK q : q = Append(path[t], at)  OBVIOUS
<1>13. PICK c : c = Append(d, f)  OBVIOUS
<1>14. Matched(c, b, q) /\ Distinct(c)
  BY <1>4, <1>6, <1>7, <1>8, <1>9, <1>10, <1>11, <1>12, <1>13, PushMatched
<1>15. c \in Seq(FrameType) /\ b \in Seq(Addresses) /\ q \in Places
  <2>1. c \in Seq(FrameType)  BY <1>4, <1>6, <1>13
  <2>2. b \in Seq(Addresses)  BY <1>9, <1>11
  <2>3. q = Segment(t)  BY <1>7, <1>12 DEF Segment
  <2> QED  BY <1>1, <2>1, <2>2, <2>3, SegmentType
<1>16. /\ calls' = [calls EXCEPT ![t] = c] /\ path' = [path EXCEPT ![t] = q] /\ active' = [active EXCEPT ![t] = b]
       /\ pointers' = pointers /\ error' = error /\ outcome' = outcome
  BY <1>2, <1>3, <1>4, <1>5, <1>7, <1>11, <1>12, <1>13 DEF Enter, Segment
<1>17. /\ calls' \in [Threads -> Seq(FrameType)] /\ calls'[t] = c /\ active'[t] = b /\ path'[t] = q
       /\ active' \in [Threads -> Seq(Addresses)] /\ path' \in [Threads -> Places]
       /\ \A u \in Threads : u # t => calls'[u] = calls[u] /\ active'[u] = active[u] /\ path'[u] = path[u]
  BY <1>15, <1>16 DEF WriteInv, TypeOK, Addresses
<1>18. TypeOK'  BY <1>16, <1>17 DEF WriteInv, TypeOK, Addresses
<1> QED  BY <1>14, <1>16, <1>17, <1>18, OneThread

LEMMA PopKept ==
  ASSUME WriteInv, NEW t \in Threads, calls[t] # <<>>, Pop(t), outcome' \in [Threads -> Outcomes]
  PROVE  WriteInv'
<1>1. PICK c \in Seq(FrameType) : c = calls[t]  BY DEF WriteInv, TypeOK
<1>2. PICK a \in Seq(Addresses) : a = active[t]  BY DEF WriteInv, TypeOK, Addresses
<1>3. PICK p \in Places : p = path[t]  BY DEF WriteInv, TypeOK
<1>4. c # <<>> /\ Matched(c, a, p) /\ Distinct(c) /\ Top(t) = c[Len(c)]  BY <1>1, <1>2, <1>3, TopType DEF WriteInv
<1>5. PICK d : d = SubSeq(c, 1, Len(c) - 1)  OBVIOUS
<1>6. PICK q : q = IF p = <<>> THEN p ELSE SubSeq(p, 1, Len(p) - 1)  OBVIOUS
<1>7. PICK b : b = IF c[Len(c)].guarded THEN SubSeq(a, 1, Len(a) - 1) ELSE a  OBVIOUS
<1>8. Matched(d, b, q) /\ Distinct(d) /\ d \in Seq(FrameType) /\ b \in Seq(Addresses) /\ q \in Places
  <2>1. Popped(c, a, p, d, b, q)  BY <1>5, <1>6, <1>7 DEF Popped
  <2> QED  BY <1>4, <2>1, PopMatched
<1>9. /\ calls' = [calls EXCEPT ![t] = d] /\ active' = [active EXCEPT ![t] = b] /\ path' = [path EXCEPT ![t] = q]
      /\ pointers' = pointers /\ error' = error
  BY <1>1, <1>2, <1>3, <1>4, <1>5, <1>6, <1>7 DEF Pop, Left, Front
<1>10. /\ calls' \in [Threads -> Seq(FrameType)] /\ calls'[t] = d /\ active'[t] = b /\ path'[t] = q
       /\ active' \in [Threads -> Seq(Addresses)] /\ path' \in [Threads -> Places]
       /\ \A u \in Threads : u # t => calls'[u] = calls[u] /\ active'[u] = active[u] /\ path'[u] = path[u]
  BY <1>8, <1>9 DEF WriteInv, TypeOK, Addresses
<1>11. TypeOK'  BY <1>9, <1>10 DEF WriteInv, TypeOK, Addresses
<1> QED  BY <1>8, <1>9, <1>10, <1>11, OneThread

-----------------------------------------------------------------------------
LEMMA InitKept == ASSUME WritePathAssumption, Init PROVE WriteInv
<1>1. TypeOK
  <2>1. <<>> \in Places /\ "idle" \in Outcomes /\ <<>> \in Seq(FrameType)  BY DEF Places, Outcomes
  <2> QED  BY <2>1 DEF Init, TypeOK
<1>2. ASSUME NEW t \in Threads PROVE Matched(calls[t], active[t], path[t]) /\ Distinct(calls[t])
  <2>1. calls[t] = <<>> /\ active[t] = <<>> /\ path[t] = <<>>  BY DEF Init
  <2>2. Indirections(<<>>, 0) = 0  BY GuardsNone
  <2> QED  BY <2>1, <2>2 DEF Matched, Distinct
<1> QED  BY <1>1, <1>2 DEF WriteInv

LEMMA StepKept ==
  ASSUME WritePathAssumption, WriteInv, [Next]_vars
  PROVE  WriteInv'
<1>1. CASE UNCHANGED vars
  <2>1. /\ pointers' = pointers /\ calls' = calls /\ active' = active /\ path' = path
        /\ error' = error /\ outcome' = outcome
    BY <1>1 DEF vars
  <2>2. \A o : Fields(o)' = Fields(o)  BY <2>1 DEF Fields
  <2>3. TypeOK'  BY <2>1 DEF WriteInv, TypeOK
  <2>4. \A t \in Threads : Matched(calls[t], active[t], path[t])' /\ Distinct(calls[t])'
    BY <2>1, <2>2 DEF WriteInv, Matched, Distinct
  <2> QED  BY <2>3, <2>4 DEF WriteInv
<1>2. ASSUME NEW t \in Threads, NEW o \in Objects, Start(t, o) PROVE WriteInv'  BY <1>2, StartKept
<1>3. ASSUME NEW t \in Threads, WriteNull(t) PROVE WriteInv'  BY <1>3, WriteNullKept
<1>4. ASSUME NEW t \in Threads, Cycle(t) PROVE WriteInv'
  <2>1. Segment(t) \in Places /\ "cyclic" \in Outcomes  BY <1>4, SegmentType DEF Cycle, Outcomes
  <2> QED  BY <1>4, <2>1, ThrowKept DEF Cycle
<1>5. ASSUME NEW t \in Threads, Enter(t) PROVE WriteInv'  BY <1>5, EnterKept
<1>6. ASSUME NEW t \in Threads, Refuse(t) PROVE WriteInv'
  <2>1. path[t] \in Places /\ Segment(t) \in Places /\ "refused" \in Outcomes  BY <1>6, SegmentType DEF Refuse, Outcomes
  <2>2. PICK place \in Places : Throw(t, "refused", place)  BY <1>6, <2>1 DEF Refuse
  <2> QED  BY <2>1, <2>2, ThrowKept
<1>7. ASSUME NEW t \in Threads, Return(t) PROVE WriteInv'
  <2>1. PICK r : r = IF Len(calls[t]) = 1 THEN "written" ELSE outcome[t]  OBVIOUS
  <2>2. r \in Outcomes /\ outcome' = [outcome EXCEPT ![t] = r]
    BY <1>7, <2>1 DEF Return, Outcomes, WriteInv, TypeOK
  <2>3. outcome' \in [Threads -> Outcomes]  BY <2>2 DEF WriteInv, TypeOK
  <2> QED  BY <1>7, <2>3, PopKept DEF Return, Writing
<1>8. ASSUME NEW t \in Threads, Unwind(t) PROVE WriteInv'
  <2>1. outcome' \in [Threads -> Outcomes]  BY <1>8 DEF Unwind, WriteInv, TypeOK
  <2> QED  BY <1>8, <2>1, PopKept DEF Unwind
<1> QED  BY <1>1, <1>2, <1>3, <1>4, <1>5, <1>6, <1>7, <1>8 DEF Next, Serialize

LEMMA WriteImpliesPath == WriteInv => PathInv
<1> SUFFICES ASSUME WriteInv PROVE PathInv  OBVIOUS
<1>1. StacksMatch  BY DEF WriteInv, StacksMatch, Matched
<1>2. RecursionBounded  BY DEF WriteInv, RecursionBounded, Distinct
<1> QED  BY <1>1, <1>2 DEF WriteInv, PathInv

\* active_indirections (serial/detail/cycle.h) and active_path
\* (serial/detail/path.h) tell where write_fields and write_pointer are, on
\* return as on a throw, and no object is entered twice behind a pointer: for
\* any graph of objects, cyclic ones included, any number of threads and any
\* limit of the writer.
THEOREM StacksTellThePath == ASSUME WritePathAssumption PROVE Spec => []PathInv
<1>1. Init => WriteInv  BY InitKept
<1>2. WriteInv /\ [Next]_vars => WriteInv'  BY StepKept
<1>3. Spec => []WriteInv  BY <1>1, <1>2, PTL DEF Spec
<1> QED  BY <1>3, WriteImpliesPath, PTL

-----------------------------------------------------------------------------
(* Cycles and only cycles.                                                  *)

LEMMA LeastNat ==
  ASSUME NEW U, U \subseteq Nat, U # {}
  PROVE  \E x \in U : \A y \in U : x <= y
<1> DEFINE R == OpToRel(<, Nat)
<1>1. IsWellFoundedOn(R, Nat)  BY NatLessThanWellFounded
<1>2. \A x, y \in Nat : y < x => <<y, x>> \in R  BY DEF OpToRel
<1> HIDE DEF R
<1>3. \E x \in U : \A y \in U : ~(<<y, x>> \in R)  BY <1>1, WFMin
<1>4. PICK x \in U : \A y \in U : ~(<<y, x>> \in R)  BY <1>3
<1>5. \A y \in U : ~(y < x)  BY <1>2, <1>4, Zenon
<1> QED  BY <1>4, <1>5

\* Among the first n calls each number of an indirection is that of a call.
LEMMA GuardsAll ==
  ASSUME NEW c, NEW n \in Nat, \A j \in 1 .. n : c[j].guarded \in BOOLEAN, NEW i \in 1 .. Indirections(c, n)
  PROVE  \E k \in 1 .. n : c[k].guarded /\ Indirections(c, k) = i
<1> DEFINE U == {k \in 0 .. n : i <= Indirections(c, k)}
<1>1. \A k \in 0 .. n : Indirections(c, k) \in Nat  BY GuardsFinite
<1>2. i \in Nat /\ 1 <= i /\ n \in 0 .. n /\ i <= Indirections(c, n)
  <2>1. n \in 0 .. n  OBVIOUS
  <2> QED  BY <1>1, <2>1
<1>3. PICK k \in U : \A y \in U : k <= y
  <2>1. n \in U /\ U \subseteq Nat  BY <1>2
  <2> QED  BY <2>1, LeastNat
<1>4. k \in 0 .. n /\ i <= Indirections(c, k)  BY <1>3
<1>5. k # 0
  <2>1. Indirections(c, 0) = 0  BY GuardsNone
  <2> QED  BY <1>2, <1>4, <2>1
<1>6. PICK m \in Nat : m + 1 = k
  <2>1. k - 1 \in Nat /\ (k - 1) + 1 = k  BY <1>4, <1>5
  <2> QED  BY <2>1
<1>7. m \in 0 .. n /\ ~(k <= m) /\ k \in 1 .. n  BY <1>4, <1>6
<1>8. m \notin U  BY <1>3, <1>7
<1>9. ~(i <= Indirections(c, m)) /\ Indirections(c, m) \in Nat  BY <1>1, <1>7, <1>8
<1>10. c[m + 1].guarded \in BOOLEAN  BY <1>6, <1>7
<1>11. Indirections(c, m + 1) = Indirections(c, m) + IF c[m + 1].guarded THEN 1 ELSE 0  BY <1>10, GuardsNext
<1> QED  BY <1>2, <1>4, <1>6, <1>7, <1>9, <1>11

LEMMA TargetsAreObjects ==
  ASSUME WritePathAssumption, TypeOK, NEW o \in Objects
  PROVE  Targets(o) \subseteq Objects
<1>1. PICK q : q = Fields(o)  OBVIOUS
<1>2. q \in Seq(FieldType) /\ Len(q) \in Nat  BY <1>1, FieldsType
<1>3. \A k \in DOMAIN q : q[k] \in FieldType  BY <1>2
<1>4. \A k \in DOMAIN q : q[k].to \in Objects \cup {Null}  BY <1>3 DEF FieldType
<1> QED  BY <1>1, <1>4 DEF Targets

LEMMA ReachableClosed ==
  ASSUME WritePathAssumption, TypeOK, NEW o \in Objects
  PROVE  /\ Reachable(o) \subseteq Objects /\ o \in Reachable(o)
         /\ \A s \in Reachable(o) : Targets(s) \subseteq Reachable(o)
         /\ \A d \in Reachable(o) : d # o => \E u \in Targets(o) : d \in Reachable(u)
<1>1. Reachable(o) \subseteq Objects /\ o \in Reachable(o)  BY DEF Reachable
<1>2. ASSUME NEW r \in Objects, NEW s \in Reachable(r), NEW d \in Targets(s) PROVE d \in Reachable(r)
  <2>1. s \in Objects /\ d \in Objects  BY <1>2, TargetsAreObjects DEF Reachable
  <2>2. ASSUME NEW S \in SUBSET Objects, r \in S, \A x \in S : Targets(x) \subseteq S PROVE d \in S
    <3>1. s \in S  BY <2>2 DEF Reachable
    <3> QED  BY <2>2, <3>1
  <2> QED  BY <2>1, <2>2 DEF Reachable
<1>3. PICK S : S = {o} \cup {d \in Objects : \E u \in Targets(o) : d \in Reachable(u)}  OBVIOUS
<1>4. \A x \in S : Targets(x) \subseteq S
  <2> SUFFICES ASSUME NEW x \in S, NEW y \in Targets(x) PROVE y \in S  OBVIOUS
  <2>1. CASE x = o
    <3>1. y \in Objects  BY <2>1, TargetsAreObjects
    <3>2. y \in Reachable(y)  BY <3>1 DEF Reachable
    <3> QED  BY <1>3, <2>1, <3>1, <3>2
  <2>2. CASE x # o
    <3>1. PICK u \in Targets(o) : x \in Reachable(u)  BY <1>3, <2>2
    <3>2. u \in Objects /\ x \in Objects  BY <3>1, TargetsAreObjects DEF Reachable
    <3>3. y \in Reachable(u) /\ y \in Objects  BY <1>2, <3>1, <3>2 DEF Reachable
    <3> QED  BY <1>3, <3>1, <3>3
  <2> QED  BY <2>1, <2>2
<1>5. Reachable(o) \subseteq S
  <2>1. S \in SUBSET Objects /\ o \in S  BY <1>3
  <2> QED  BY <1>4, <2>1 DEF Reachable
<1> QED  BY <1>1, <1>2, <1>3, <1>5

\* A cycle that an object leads to is one that a target of it leads to.
LEMMA CycleBelow ==
  ASSUME WritePathAssumption, TypeOK, NEW o \in Objects, \A u \in Targets(o) : ~Cyclic(u)
  PROVE  ~Cyclic(o)
<1> SUFFICES ASSUME NEW C \in (SUBSET Reachable(o)) \ {{}}, \A x \in C : Targets(x) \cap C # {} PROVE FALSE
  BY DEF Cyclic
<1>1. PICK e \in C, u \in Targets(o) : e \in Reachable(u)
  <2>1. PICK x \in C : TRUE  OBVIOUS
  <2>2. CASE x # o  BY <2>1, <2>2, ReachableClosed
  <2>3. CASE x = o
    <3>1. PICK y \in Targets(o) \cap C : TRUE  BY <2>1, <2>3
    <3>2. y \in Reachable(y)  BY <3>1, TargetsAreObjects, ReachableClosed
    <3> QED  BY <3>1, <3>2
  <2> QED  BY <2>2, <2>3
<1>2. u \in Objects  BY <1>1, TargetsAreObjects
<1>3. PICK D : D = C \cap Reachable(u)  OBVIOUS
<1>4. D \in (SUBSET Reachable(u)) \ {{}}  BY <1>1, <1>3
<1>5. ASSUME NEW x \in D PROVE Targets(x) \cap D # {}
  <2>1. PICK y : y \in Targets(x) /\ y \in C  BY <1>3
  <2>2. y \in Reachable(u)  BY <1>2, <1>3, <2>1, ReachableClosed
  <2> QED  BY <1>3, <2>1, <2>2
<1> QED  BY <1>1, <1>4, <1>5 DEF Cyclic

\* The objects of which nothing leads to a cycle, and Null.
Harmless == {o \in Objects \cup {Null} : o = Null \/ ~Cyclic(o)}

\* What the calls c have left behind them was harmless, and the field that
\* a call is in is the one before its position.
Explored(c, p) ==
    /\ \A k \in 1 .. Len(c) : \A j \in 1 .. c[k].next - 1 :
           \/ Fields(c[k].object)[j].to \in Harmless
           \/ k < Len(c) /\ j = c[k].next - 1
    /\ \A k \in 1 .. Len(c) - 1 : p[k] = c[k].next - 1

ExploredInv == WriteInv /\ \A t \in Threads : Writing(t) => Explored(calls[t], path[t])

\* A field that is written without a call was Null.
LEMMA NullExplored ==
  ASSUME NEW c \in Seq(FrameType), NEW n \in Nat \ {0}, Len(c) = n, NEW d \in Seq(FrameType), Len(d) = n,
         \A k \in 1 .. n : d[k].object = c[k].object, \A k \in 1 .. n : k # n => d[k] = c[k],
         NEW at \in Nat \ {0}, c[n].next = at, d[n].next = at + 1,
         Fields(c[n].object)[at].to \in Harmless, NEW p, Explored(c, p)
  PROVE  Explored(d, p)
<1>1. ASSUME NEW k \in 1 .. n, NEW j \in 1 .. d[k].next - 1
      PROVE  Fields(d[k].object)[j].to \in Harmless \/ (k < n /\ j = d[k].next - 1)
  <2>1. CASE k # n  BY <1>1, <2>1 DEF Explored
  <2>2. CASE k = n
    <3>1. j \in 1 .. at  BY <1>1, <2>2
    <3>2. CASE j = at  BY <2>2, <3>2
    <3>3. CASE j # at
      <4>1. j \in 1 .. c[n].next - 1 /\ n \in 1 .. n /\ ~(n < n)  BY <3>1, <3>3
      <4>2. Fields(c[n].object)[j].to \in Harmless  BY <4>1 DEF Explored
      <4> QED  BY <2>2, <4>2
    <3> QED  BY <3>2, <3>3
  <2> QED  BY <2>1, <2>2
<1>2. ASSUME NEW k \in 1 .. n - 1 PROVE p[k] = d[k].next - 1
  <2>1. k \in 1 .. n /\ k # n  OBVIOUS
  <2> QED  BY <2>1 DEF Explored
<1> QED  BY <1>1, <1>2 DEF Explored

\* The field that a call enters is the one it is in from then on.
LEMMA PushExplored ==
  ASSUME NEW c \in Seq(FrameType), NEW n \in Nat \ {0}, Len(c) = n, NEW d \in Seq(FrameType), Len(d) = n,
         \A k \in 1 .. n : d[k].object = c[k].object, \A k \in 1 .. n : k # n => d[k] = c[k],
         NEW at \in 1 .. Pointers + 1, c[n].next = at, d[n].next = at + 1,
         NEW f \in FrameType, f.next = 1, NEW p \in Places, Len(p) = n - 1, Explored(c, p)
  PROVE  Explored(Append(d, f), Append(p, at))
<1>1. PICK e : e = Append(d, f)  OBVIOUS
<1>2. PICK q : q = Append(p, at)  OBVIOUS
<1>3. Len(e) = n + 1 /\ e[n + 1] = f /\ \A k \in 1 .. n : e[k] = d[k]  BY <1>1
<1>4. q[n] = at /\ \A k \in 1 .. n - 1 : q[k] = p[k]  BY <1>2 DEF Places
<1>5. ASSUME NEW k \in 1 .. n + 1, NEW j \in 1 .. e[k].next - 1
      PROVE  Fields(e[k].object)[j].to \in Harmless \/ (k < n + 1 /\ j = e[k].next - 1)
  <2>1. CASE k = n + 1
    <3>1. j \in 1 .. 0  BY <1>3, <1>5, <2>1
    <3> QED  BY <3>1
  <2>2. CASE k = n
    <3>1. j \in 1 .. at /\ e[k].next - 1 = at /\ k < n + 1  BY <1>3, <1>5, <2>2
    <3>2. CASE j = at  BY <3>1, <3>2
    <3>3. CASE j # at
      <4>1. j \in 1 .. c[n].next - 1 /\ n \in 1 .. n /\ ~(n < n)  BY <3>1, <3>3
      <4>2. Fields(c[n].object)[j].to \in Harmless  BY <4>1 DEF Explored
      <4> QED  BY <1>3, <2>2, <4>2
    <3> QED  BY <3>2, <3>3
  <2>3. CASE k \in 1 .. n /\ k # n
    <3>1. e[k] = c[k] /\ k < n + 1  BY <1>3, <2>3
    <3>2. Fields(c[k].object)[j].to \in Harmless \/ j = c[k].next - 1  BY <1>5, <2>3, <3>1 DEF Explored
    <3> QED  BY <3>1, <3>2
  <2> QED  BY <2>1, <2>2, <2>3
<1>6. ASSUME NEW k \in 1 .. (n + 1) - 1 PROVE q[k] = e[k].next - 1
  <2>1. CASE k = n
    <3>1. e[k] = d[n] /\ (at + 1) - 1 = at  BY <1>3, <2>1
    <3> QED  BY <1>4, <2>1, <3>1
  <2>2. CASE k # n
    <3>1. k \in 1 .. n /\ k \in 1 .. n - 1  BY <2>2
    <3>2. e[k] = c[k] /\ q[k] = p[k]  BY <1>3, <1>4, <2>2, <3>1
    <3> QED  BY <3>1, <3>2 DEF Explored
  <2> QED  BY <2>1, <2>2
<1> QED  BY <1>1, <1>2, <1>3, <1>5, <1>6 DEF Explored

\* The object of a call that returns was harmless, and so is the field of
\* the call outside it.
LEMMA PopExplored ==
  ASSUME NEW c \in Seq(FrameType), NEW n \in Nat, Len(c) = n + 1, NEW d, Len(d) = n, \A k \in 1 .. n : d[k] = c[k],
         NEW p, NEW q, n > 0 => \A k \in 1 .. n - 1 : q[k] = p[k],
         n > 0 => Fields(c[n].object)[p[n]].to = c[n + 1].object,
         c[n + 1].object \in Harmless, Explored(c, p)
  PROVE  Explored(d, q)
<1>1. ASSUME NEW k \in 1 .. n, NEW j \in 1 .. d[k].next - 1
      PROVE  Fields(d[k].object)[j].to \in Harmless \/ (k < n /\ j = d[k].next - 1)
  <2>1. d[k] = c[k] /\ k \in 1 .. n + 1 /\ n > 0  BY <1>1
  <2>2. Fields(c[k].object)[j].to \in Harmless \/ j = c[k].next - 1  BY <1>1, <2>1 DEF Explored
  <2>3. ASSUME k = n, j = c[k].next - 1 PROVE Fields(c[k].object)[j].to \in Harmless
    <3>1. n \in 1 .. (n + 1) - 1  BY <2>1
    <3>2. p[n] = c[n].next - 1  BY <3>1 DEF Explored
    <3> QED  BY <2>1, <2>3, <3>2
  <2> QED  BY <2>1, <2>2, <2>3
<1>2. ASSUME NEW k \in 1 .. n - 1 PROVE q[k] = d[k].next - 1
  <2>1. k \in 1 .. n /\ k \in 1 .. (n + 1) - 1 /\ n > 0  OBVIOUS
  <2>2. p[k] = c[k].next - 1 /\ q[k] = p[k]  BY <2>1 DEF Explored
  <2> QED  BY <2>1, <2>2
<1> QED  BY <1>1, <1>2 DEF Explored

LEMMA HarmlessStays == ASSUME pointers' = pointers PROVE Harmless' = Harmless /\ \A o : Fields(o)' = Fields(o)
<1>1. \A o : Fields(o)' = Fields(o)  BY DEF Fields
<1>2. \A o : Targets(o)' = Targets(o)  BY <1>1 DEF Targets
<1>3. \A o : Reachable(o)' = Reachable(o)  BY <1>2 DEF Reachable
<1>4. \A o : Cyclic(o)' = Cyclic(o)  BY <1>2, <1>3 DEF Cyclic
<1> QED  BY <1>1, <1>4 DEF Harmless

\* A step of t leaves what the other threads are in.
LEMMA OneExplored ==
  ASSUME ExploredInv, WriteInv', NEW t \in Threads, pointers' = pointers,
         \A u \in Threads : u # t => calls'[u] = calls[u] /\ path'[u] = path[u] /\ outcome'[u] = outcome[u],
         Writing(t)' => Explored(calls'[t], path'[t])
  PROVE  ExploredInv'
<1>1. Harmless' = Harmless /\ \A o : Fields(o)' = Fields(o)  BY HarmlessStays
<1>2. ASSUME NEW u \in Threads, Writing(u)' PROVE Explored(calls'[u], path'[u])
  <2>1. CASE u = t  BY <1>2, <2>1
  <2>2. CASE u # t
    <3>1. calls'[u] = calls[u] /\ path'[u] = path[u] /\ outcome'[u] = outcome[u]  BY <2>2
    <3>2. Writing(u)  BY <1>2, <3>1 DEF Writing
    <3> QED  BY <3>1, <3>2 DEF ExploredInv
  <2> QED  BY <2>1, <2>2
<1>3. \A u \in Threads : Writing(u)' => Explored(calls[u], path[u])'  BY <1>1, <1>2 DEF Explored
<1> QED  BY <1>3 DEF ExploredInv

\* Advanced, position by position.
LEMMA AdvancedNext ==
  ASSUME WritePathAssumption, WriteInv, NEW t \in Threads, calls[t] # <<>>, HasField(t),
         NEW d, d = Advanced(t), NEW n, n = Len(calls[t])
  PROVE  /\ n \in Nat \ {0} /\ d \in Seq(FrameType) /\ Len(d) = n
         /\ \A k \in 1 .. n : d[k].object = calls[t][k].object
         /\ \A k \in 1 .. n : k # n => d[k] = calls[t][k]
         /\ calls[t][n].next = Top(t).next /\ d[n].next = Top(t).next + 1
<1>1. PICK c \in Seq(FrameType) : c = calls[t]  BY DEF WriteInv, TypeOK
<1>2. n \in Nat \ {0} /\ n = Len(c)  BY <1>1
<1>3. c[n] = Top(t) /\ c[n] \in FrameType  BY <1>1, <1>2, TopType DEF WriteInv
<1>4. PICK f : f = [c[n] EXCEPT !.next = @ + 1]  OBVIOUS
<1>5. f.next = c[n].next + 1  BY <1>3, <1>4 DEF FrameType
<1>6. d = [c EXCEPT ![n] = f]  BY <1>1, <1>2, <1>4 DEF Advanced
<1>7. d[n] = f /\ \A k \in 1 .. n : k # n => d[k] = c[k]  BY <1>2, <1>6
<1>8. d \in Seq(FrameType) /\ Len(d) = n /\ \A k \in 1 .. n : d[k].object = c[k].object
  BY <1>1, <1>2, AdvancedCalls
<1> QED  BY <1>1, <1>2, <1>3, <1>5, <1>7, <1>8

LEMMA StartExplored ==
  ASSUME ExploredInv, WriteInv', NEW t \in Threads, NEW o \in Objects, Start(t, o)
  PROVE  ExploredInv'
<1>1. PICK f : f = Frame(o, FALSE)  OBVIOUS
<1>2. PICK c : c = <<f>>  OBVIOUS
<1>3. f.next = 1 /\ Len(c) = 1 /\ c[1] = f  BY <1>1, <1>2 DEF Frame
<1>4. calls' = [calls EXCEPT ![t] = c] /\ pointers' = pointers /\ path' = path /\ outcome' = [outcome EXCEPT ![t] = "writing"]
  BY <1>1, <1>2 DEF Start
<1>5. calls'[t] = c /\ \A u \in Threads : u # t => calls'[u] = calls[u] /\ path'[u] = path[u] /\ outcome'[u] = outcome[u]
  BY <1>4 DEF ExploredInv, WriteInv, TypeOK
<1>6. Explored(c, path'[t])
  <2>1. \A k \in 1 .. 1 : c[k].next - 1 = 0  BY <1>3
  <2>2. 1 .. 0 = {} /\ 1 .. 1 - 1 = {}  OBVIOUS
  <2> QED  BY <1>3, <2>1, <2>2 DEF Explored
<1> QED  BY <1>4, <1>5, <1>6, OneExplored

LEMMA WriteNullExplored ==
  ASSUME WritePathAssumption, ExploredInv, WriteInv', NEW t \in Threads, WriteNull(t)
  PROVE  ExploredInv'
<1>1. WriteInv /\ Writing(t) /\ calls[t] # <<>> /\ HasField(t) /\ Field(t).to = Null
  BY DEF WriteNull, Writing, ExploredInv
<1>2. PICK c \in Seq(FrameType) : c = calls[t]  BY <1>1 DEF WriteInv, TypeOK
<1>3. PICK d : d = Advanced(t)  OBVIOUS
<1>4. PICK n : n = Len(c)  OBVIOUS
<1>5. PICK at \in Nat \ {0} : at = Top(t).next
  <2>1. Top(t).next \in 1 .. Pointers + 1 /\ Pointers \in Nat  BY <1>1, FieldOfTop DEF WriteInv, WritePathAssumption
  <2> QED  BY <2>1
<1>6. /\ n \in Nat \ {0} /\ d \in Seq(FrameType) /\ Len(d) = n
      /\ \A k \in 1 .. n : d[k].object = c[k].object
      /\ \A k \in 1 .. n : k # n => d[k] = c[k]
      /\ c[n].next = at /\ d[n].next = at + 1
  <2>1. d = Advanced(t) /\ n = Len(calls[t])  BY <1>2, <1>3, <1>4
  <2>2. /\ n \in Nat \ {0} /\ d \in Seq(FrameType) /\ Len(d) = n
        /\ \A k \in 1 .. n : d[k].object = calls[t][k].object
        /\ \A k \in 1 .. n : k # n => d[k] = calls[t][k]
        /\ calls[t][n].next = Top(t).next /\ d[n].next = Top(t).next + 1
    BY <1>1, <2>1, AdvancedNext
  <2> QED  BY <1>2, <1>5, <2>2
<1>7. Fields(c[n].object)[at].to \in Harmless
  <2>1. c[n] = Top(t)  BY <1>1, <1>2, <1>4, TopType DEF WriteInv
  <2> QED  BY <1>1, <1>5, <2>1 DEF Field, Harmless
<1>8. Explored(d, path[t])
  <2>1. Explored(c, path[t])  BY <1>1, <1>2 DEF ExploredInv
  <2> QED  BY <1>4, <1>6, <1>7, <2>1, NullExplored
<1>9. calls' = [calls EXCEPT ![t] = d] /\ pointers' = pointers /\ path' = path /\ outcome' = outcome
  BY <1>3 DEF WriteNull
<1>10. calls'[t] = d /\ \A u \in Threads : u # t => calls'[u] = calls[u]  BY <1>1, <1>9 DEF WriteInv, TypeOK
<1> QED  BY <1>1, <1>8, <1>9, <1>10, OneExplored

LEMMA EnterExplored ==
  ASSUME WritePathAssumption, ExploredInv, WriteInv', NEW t \in Threads, Enter(t)
  PROVE  ExploredInv'
<1>1. WriteInv /\ Writing(t) /\ calls[t] # <<>> /\ HasField(t) /\ Field(t).to # Null
  BY DEF Enter, Writing, ExploredInv
<1>2. PICK c \in Seq(FrameType) : c = calls[t]  BY <1>1 DEF WriteInv, TypeOK
<1>3. PICK d : d = Advanced(t)  OBVIOUS
<1>4. PICK n : n = Len(c)  OBVIOUS
<1>5. PICK at \in 1 .. Pointers + 1 : at = Top(t).next  BY <1>1, FieldOfTop DEF WriteInv
<1>6. /\ n \in Nat \ {0} /\ d \in Seq(FrameType) /\ Len(d) = n
      /\ \A k \in 1 .. n : d[k].object = c[k].object
      /\ \A k \in 1 .. n : k # n => d[k] = c[k]
      /\ c[n].next = at /\ d[n].next = at + 1
  <2>1. d = Advanced(t) /\ n = Len(calls[t])  BY <1>2, <1>3, <1>4
  <2>2. /\ n \in Nat \ {0} /\ d \in Seq(FrameType) /\ Len(d) = n
        /\ \A k \in 1 .. n : d[k].object = calls[t][k].object
        /\ \A k \in 1 .. n : k # n => d[k] = calls[t][k]
        /\ calls[t][n].next = Top(t).next /\ d[n].next = Top(t).next + 1
    BY <1>1, <2>1, AdvancedNext
  <2> QED  BY <1>2, <1>5, <2>2
<1>7. PICK f \in FrameType : f = Frame(Field(t).to, Field(t).guarded) /\ f.next = 1
  <2>1. PICK fd \in FieldType : fd = Field(t)  BY <1>1, FieldOfTop DEF WriteInv
  <2>2. fd.to \in Objects /\ fd.guarded \in BOOLEAN /\ Pointers \in Nat  BY <1>1, <2>1 DEF FieldType, WritePathAssumption
  <2>3. 1 \in 1 .. Pointers + 2  BY <2>2
  <2>4. PICK f : f = Frame(fd.to, fd.guarded)  OBVIOUS
  <2>5. f \in FrameType /\ f.next = 1  BY <2>2, <2>3, <2>4 DEF Frame, FrameType
  <2> QED  BY <2>1, <2>4, <2>5
<1>8. PICK p \in Places : p = path[t]  BY <1>1 DEF WriteInv, TypeOK
<1>9. Len(p) = n - 1
  <2>1. c # <<>>  BY <1>1, <1>2
  <2> QED  BY <1>1, <1>2, <1>4, <1>8, <2>1 DEF WriteInv, Matched
<1>10. Explored(Append(d, f), Append(p, at))
  <2>1. Explored(c, p)  BY <1>1, <1>2, <1>8 DEF ExploredInv
  <2> QED  BY <1>4, <1>5, <1>6, <1>7, <1>8, <1>9, <2>1, PushExplored
<1>11. PICK e : e = Append(d, f)  OBVIOUS
<1>12. PICK q : q = Append(p, at)  OBVIOUS
<1>13. calls' = [calls EXCEPT ![t] = e] /\ path' = [path EXCEPT ![t] = q] /\ pointers' = pointers /\ outcome' = outcome
  BY <1>3, <1>5, <1>7, <1>8, <1>11, <1>12 DEF Enter, Segment
<1>14. calls'[t] = e /\ path'[t] = q /\ \A u \in Threads : u # t => calls'[u] = calls[u] /\ path'[u] = path[u]
  BY <1>1, <1>13 DEF WriteInv, TypeOK
<1> QED  BY <1>10, <1>11, <1>12, <1>13, <1>14, OneExplored

\* An object of which every field was written leads to no cycle.
LEMMA WholeIsHarmless ==
  ASSUME WritePathAssumption, ExploredInv, NEW t \in Threads, Writing(t), ~HasField(t)
  PROVE  Top(t).object \in Harmless /\ Top(t).object \in Objects /\ ~Cyclic(Top(t).object)
<1>1. WriteInv /\ TypeOK /\ calls[t] # <<>>  BY DEF ExploredInv, WriteInv, Writing
<1>2. PICK c \in Seq(FrameType) : c = calls[t]  BY <1>1 DEF TypeOK
<1>3. PICK n \in Nat \ {0} : n = Len(c)  BY <1>1, <1>2
<1>4. c[n] = Top(t) /\ c[n] \in FrameType  BY <1>1, <1>2, <1>3, TopType
<1>5. PICK o \in Objects : o = c[n].object  BY <1>4 DEF FrameType
<1>6. PICK q : q = Fields(o)  OBVIOUS
<1>7. q \in Seq(FieldType) /\ Len(q) \in Nat  BY <1>1, <1>5, <1>6, FieldsType
<1>8. c[n].next \in Nat /\ ~(c[n].next <= Len(q))
  <2>1. Pointers \in Nat /\ c[n].next \in 1 .. Pointers + 2  BY <1>4 DEF WritePathAssumption, FrameType
  <2> QED  BY <1>4, <1>5, <1>6, <2>1 DEF HasField
<1>9. ASSUME NEW j \in DOMAIN q PROVE q[j].to \in Harmless
  <2>1. j \in 1 .. Len(q)  BY <1>7
  <2>2. j \in 1 .. c[n].next - 1 /\ n \in 1 .. Len(c) /\ ~(n < Len(c))  BY <1>3, <1>7, <1>8, <2>1
  <2>3. Explored(c, path[t])  BY <1>2 DEF ExploredInv
  <2> QED  BY <1>5, <1>6, <2>2, <2>3 DEF Explored
<1>10. \A u \in Targets(o) : ~Cyclic(u)  BY <1>6, <1>9 DEF Targets, Harmless
<1>11. ~Cyclic(o)  BY <1>1, <1>10, CycleBelow
<1> QED  BY <1>4, <1>5, <1>11 DEF Harmless

LEMMA ReturnExplored ==
  ASSUME WritePathAssumption, ExploredInv, WriteInv', NEW t \in Threads, Return(t)
  PROVE  ExploredInv'
<1>1. WriteInv /\ Writing(t) /\ calls[t] # <<>> /\ ~HasField(t)  BY DEF Return, Writing, ExploredInv
<1>2. PICK c \in Seq(FrameType) : c = calls[t]  BY <1>1 DEF WriteInv, TypeOK
<1>3. PICK p \in Places : p = path[t]  BY <1>1 DEF WriteInv, TypeOK
<1>4. PICK n \in Nat : Len(c) = n + 1
  <2>1. Len(c) \in Nat /\ Len(c) # 0  BY <1>1, <1>2
  <2>2. Len(c) - 1 \in Nat /\ Len(c) = (Len(c) - 1) + 1  BY <2>1
  <2> QED  BY <2>2
<1>5. PICK d : d = SubSeq(c, 1, Len(c) - 1)  OBVIOUS
<1>6. PICK q : q = IF p = <<>> THEN p ELSE SubSeq(p, 1, Len(p) - 1)  OBVIOUS
<1>7. c # <<>> /\ Len(d) = n /\ \A k \in 1 .. n : d[k] = c[k]
  <2>1. c # <<>> /\ (n + 1) - 1 = n  BY <1>1, <1>2
  <2> QED  BY <1>4, <1>5, <2>1, FrontOf
<1>8. Matched(c, active[t], p) /\ Explored(c, p)  BY <1>1, <1>2, <1>3 DEF WriteInv, ExploredInv
<1>9. Len(p) = n
  <2>1. (n + 1) - 1 = n  OBVIOUS
  <2> QED  BY <1>4, <1>7, <1>8, <2>1 DEF Matched
<1>10. ASSUME n > 0
       PROVE  (\A k \in 1 .. n - 1 : q[k] = p[k]) /\ Fields(c[n].object)[p[n]].to = c[n + 1].object
  <2>1. PICK S : S = 1 .. Pointers + 1  OBVIOUS
  <2>2. p \in Seq(S) /\ p # <<>>  BY <1>9, <1>10, <2>1 DEF Places
  <2>3. q = SubSeq(p, 1, Len(p) - 1)  BY <1>6, <2>2
  <2>4. \A k \in 1 .. n - 1 : q[k] = p[k]  BY <1>9, <2>2, <2>3, FrontOf
  <2>5. n \in DOMAIN p  BY <1>9, <1>10, <2>2
  <2>6. Fields(c[n].object)[p[n]].to = c[n + 1].object  BY <1>8, <2>5 DEF Matched
  <2> QED  BY <2>4, <2>6
<1>11. c[n + 1].object \in Harmless
  <2>1. Top(t) = c[n + 1]  BY <1>1, <1>2, <1>4, TopType DEF WriteInv
  <2> QED  BY <1>1, <2>1, WholeIsHarmless
<1>12. Explored(d, q)
  <2>1. n > 0 => \A k \in 1 .. n - 1 : q[k] = p[k]  BY <1>10
  <2>2. n > 0 => Fields(c[n].object)[p[n]].to = c[n + 1].object  BY <1>10
  <2> QED  BY <1>4, <1>7, <1>8, <1>11, <2>1, <2>2, PopExplored
<1>13. PICK r : r = IF Len(calls[t]) = 1 THEN "written" ELSE outcome[t]  OBVIOUS
<1>14. /\ calls' = [calls EXCEPT ![t] = d] /\ path' = [path EXCEPT ![t] = q] /\ pointers' = pointers
       /\ outcome' = [outcome EXCEPT ![t] = r]
  BY <1>1, <1>2, <1>3, <1>5, <1>6, <1>13 DEF Return, Pop, Front, WriteInv, TypeOK
<1>15. calls'[t] = d /\ path'[t] = q
       /\ \A u \in Threads : u # t => calls'[u] = calls[u] /\ path'[u] = path[u] /\ outcome'[u] = outcome[u]
  BY <1>1, <1>14 DEF WriteInv, TypeOK
<1> QED  BY <1>12, <1>14, <1>15, OneExplored

\* On a throw, and when it is done, a thread is not writing any more.
LEMMA LeaveExplored ==
  ASSUME ExploredInv, WriteInv', NEW t \in Threads, Cycle(t) \/ Refuse(t) \/ Unwind(t)
  PROVE  ExploredInv'
<1>1. WriteInv  BY DEF ExploredInv
<1>2. /\ pointers' = pointers /\ ~Writing(t)'
      /\ \A u \in Threads : u # t => calls'[u] = calls[u] /\ path'[u] = path[u] /\ outcome'[u] = outcome[u]
  <2>1. CASE Cycle(t) \/ Refuse(t)
    <3>1. PICK kind \in {"cyclic", "refused"} :
              outcome' = [outcome EXCEPT ![t] = kind] /\ pointers' = pointers /\ calls' = calls /\ path' = path
      BY <2>1 DEF Cycle, Refuse, Throw
    <3> QED  BY <1>1, <3>1 DEF Writing, WriteInv, TypeOK
  <2>2. CASE Unwind(t)
    <3>1. outcome' = outcome /\ outcome[t] # "writing" /\ pointers' = pointers  BY <2>2 DEF Unwind, Pop
    <3>2. PICK d, q : calls' = [calls EXCEPT ![t] = d] /\ path' = [path EXCEPT ![t] = q]
      <4>1. /\ calls' = [calls EXCEPT ![t] = Front(calls[t])]
            /\ path' = [path EXCEPT ![t] = IF path[t] = <<>> THEN path[t] ELSE Front(path[t])]
        BY <1>1, <2>2 DEF Unwind, Pop, WriteInv, TypeOK
      <4> QED  BY <4>1
    <3> QED  BY <1>1, <3>1, <3>2 DEF Writing, WriteInv, TypeOK
  <2> QED  BY <2>1, <2>2
<1> QED  BY <1>2, OneExplored

LEMMA ExploredKept ==
  ASSUME WritePathAssumption, ExploredInv, [Next]_vars
  PROVE  ExploredInv'
<1>1. WriteInv /\ WriteInv'  BY StepKept DEF ExploredInv
<1>2. CASE UNCHANGED vars
  <2>1. calls' = calls /\ path' = path /\ outcome' = outcome /\ pointers' = pointers  BY <1>2 DEF vars
  <2>2. Harmless' = Harmless /\ \A o : Fields(o)' = Fields(o)  BY <2>1, HarmlessStays
  <2>3. \A t \in Threads : Writing(t)' => Explored(calls[t], path[t])'
    BY <2>1, <2>2 DEF ExploredInv, Writing, Explored
  <2> QED  BY <1>1, <2>3 DEF ExploredInv
<1>3. CASE Next
  <2>1. PICK t \in Threads :
            \/ \E o \in Objects : Start(t, o)
            \/ WriteNull(t) \/ Cycle(t) \/ Enter(t) \/ Refuse(t)
            \/ Return(t) \/ Unwind(t)
    BY <1>3 DEF Next, Serialize
  <2> QED  BY <1>1, <2>1, StartExplored, WriteNullExplored, EnterExplored, ReturnExplored, LeaveExplored
<1> QED  BY <1>2, <1>3

\* Only a cycle ends a document as cyclic, only the last return as written.
LEMMA HowItEnds ==
  ASSUME WriteInv, Next, NEW t \in Threads, Writing(t)
  PROVE  /\ outcome'[t] = "cyclic" => Cycle(t)
         /\ outcome'[t] = "written" => Return(t) /\ Len(calls[t]) = 1
<1>1. PICK u \in Threads :
          \/ \E o \in Objects : Start(u, o)
          \/ WriteNull(u) \/ Cycle(u) \/ Enter(u) \/ Refuse(u)
          \/ Return(u) \/ Unwind(u)
  BY DEF Next, Serialize
<1>2. outcome \in [Threads -> Outcomes] /\ outcome[t] = "writing" /\ calls[t] # <<>>
  BY DEF WriteInv, TypeOK, Writing
<1>3. CASE u # t
  <2>1. \/ outcome' = outcome
        \/ \E kind \in {"writing", "cyclic", "refused", "written", outcome[u]} : outcome' = [outcome EXCEPT ![u] = kind]
    BY <1>1 DEF Start, WriteNull, Cycle, Enter, Refuse, Return, Unwind, Throw
  <2>2. outcome'[t] = "writing"  BY <1>2, <1>3, <2>1
  <2> QED  BY <2>2
<1>4. CASE u = t
  <2>1. CASE \E o \in Objects : Start(t, o)  BY <1>2, <2>1 DEF Start
  <2>2. CASE WriteNull(t) \/ Enter(t)  BY <1>2, <2>2 DEF WriteNull, Enter
  <2>3. CASE Unwind(t)  BY <1>2, <2>3 DEF Unwind
  <2>4. CASE Refuse(t)
    <3>1. outcome'[t] = "refused"  BY <1>2, <2>4 DEF Refuse, Throw
    <3> QED  BY <3>1
  <2>5. CASE Cycle(t)
    <3>1. outcome'[t] = "cyclic"  BY <1>2, <2>5 DEF Cycle, Throw
    <3> QED  BY <2>5, <3>1
  <2>6. CASE Return(t)
    <3>1. outcome'[t] = IF Len(calls[t]) = 1 THEN "written" ELSE "writing"  BY <1>2, <2>6 DEF Return
    <3> QED  BY <2>6, <3>1
  <2> QED  BY <1>1, <1>4, <2>1, <2>2, <2>3, <2>4, <2>5, <2>6
<1> QED  BY <1>3, <1>4

\* The address that the guard finds is that of an object of the calls.
LEMMA FoundIsCalled ==
  ASSUME WritePathAssumption, AddressesDiffer, WriteInv, NEW t \in Threads, NEW o \in Objects, OnPath(t, o)
  PROVE  \E k \in 1 .. Len(calls[t]) : calls[t][k].object = o
<1>1. PICK c \in Seq(FrameType) : c = calls[t]  BY DEF WriteInv, TypeOK
<1>2. PICK a \in Seq(Addresses) : a = active[t]  BY DEF WriteInv, TypeOK, Addresses
<1>3. PICK n \in Nat : n = Len(c)  OBVIOUS
<1>4. Matched(c, a, path[t])  BY <1>1, <1>2 DEF WriteInv
<1>5. PICK i \in DOMAIN a : a[i] = Address[o]  BY <1>2 DEF OnPath, ToSet
<1>6. \A k \in 1 .. n : c[k] \in FrameType  BY <1>1, <1>3
<1>7. i \in 1 .. Indirections(c, n)  BY <1>3, <1>4, <1>5, LenProperties DEF Matched
<1>8. PICK k \in 1 .. n : c[k].guarded /\ Indirections(c, k) = i
  <2>1. \A k \in 1 .. n : c[k].guarded \in BOOLEAN  BY <1>6 DEF FrameType
  <2> QED  BY <1>7, <2>1, GuardsAll
<1>9. k \in DOMAIN c /\ c[k].object \in Objects  BY <1>3, <1>6, <1>8 DEF FrameType
<1>10. Address[c[k].object] = Address[o]  BY <1>4, <1>5, <1>8, <1>9 DEF Matched
<1> QED  BY <1>1, <1>3, <1>8, <1>9, <1>10 DEF AddressesDiffer

LEMMA CycleStepIsReal ==
  ASSUME WritePathAssumption, AddressesDiffer, WriteInv, WriteInv', Next
  PROVE  CycleIsReal
<1> SUFFICES ASSUME NEW t \in Threads, Writing(t), outcome'[t] = "cyclic"
             PROVE  LET objects == [k \in DOMAIN calls[t] |-> calls[t][k].object]
                        fields == [k \in DOMAIN calls[t] |-> Fields(objects[k])[error'[t][k]].to]
                    IN  /\ Len(error'[t]) = Len(calls[t])
                        /\ \A k \in 1 .. Len(calls[t]) - 1 : fields[k] = objects[k + 1]
                        /\ fields[Len(calls[t])] \in Range(objects)
  BY DEF CycleIsReal
<1>1. Cycle(t) /\ calls[t] # <<>> /\ HasField(t) /\ Field(t).to # Null /\ OnPath(t, Field(t).to)
  BY HowItEnds DEF Cycle, Writing
<1>2. PICK c \in Seq(FrameType) : c = calls[t]  BY DEF WriteInv, TypeOK
<1>3. PICK n \in Nat \ {0} : n = Len(c)  BY <1>1, <1>2
<1>4. DOMAIN c = 1 .. n  BY <1>3
<1>5. PICK at \in 1 .. Pointers + 1 : at = Top(t).next  BY <1>1, FieldOfTop DEF WriteInv
<1>6. PICK p \in Places : p = path[t]  BY DEF WriteInv, TypeOK
<1>7. Matched(c, active[t], p) /\ Len(p) = n - 1 /\ DOMAIN p = 1 .. n - 1
  <2>1. Matched(c, active[t], p) /\ c # <<>>  BY <1>1, <1>2, <1>6 DEF WriteInv
  <2>2. Len(p) = n - 1  BY <1>3, <2>1 DEF Matched
  <2> QED  BY <2>1, <2>2, LenProperties DEF Places
<1>8. PICK e : e = Append(p, at)  OBVIOUS
<1>9. error'[t] = e  BY <1>1, <1>5, <1>6, <1>8 DEF Cycle, Throw, Segment, WriteInv, TypeOK
<1>10. Len(e) = n /\ e[n] = at /\ \A k \in 1 .. n - 1 : e[k] = p[k]  BY <1>7, <1>8 DEF Places
<1>11. PICK objects : objects = [k \in 1 .. n |-> c[k].object]  OBVIOUS
<1>12. PICK fields : fields = [k \in 1 .. n |-> Fields(objects[k])[e[k]].to]  OBVIOUS
<1>13. \A k \in 1 .. n - 1 : fields[k] = objects[k + 1]
  <2> SUFFICES ASSUME NEW k \in 1 .. n - 1 PROVE fields[k] = objects[k + 1]  OBVIOUS
  <2>1. k \in 1 .. n /\ k + 1 \in 1 .. n  OBVIOUS
  <2>2. Fields(c[k].object)[p[k]].to = c[k + 1].object  BY <1>7 DEF Matched
  <2> QED  BY <1>10, <1>11, <1>12, <2>1, <2>2
<1>14. fields[n] \in Range(objects)
  <2>1. c[n] = Top(t)  BY <1>1, <1>2, <1>3, TopType DEF WriteInv
  <2>2. fields[n] = Field(t).to  BY <1>5, <1>10, <1>11, <1>12, <2>1 DEF Field
  <2>3. PICK to \in Objects : to = Field(t).to
    <3>1. Field(t) \in FieldType  BY <1>1, FieldOfTop DEF WriteInv
    <3> QED  BY <1>1, <3>1 DEF FieldType
  <2>4. PICK k \in 1 .. n : c[k].object = to  BY <1>1, <1>2, <1>3, <2>3, FoundIsCalled
  <2>5. objects[k] = to /\ k \in DOMAIN objects  BY <1>11, <2>4
  <2> QED  BY <2>2, <2>3, <2>5 DEF Range
<1> QED  BY <1>2, <1>3, <1>4, <1>9, <1>10, <1>11, <1>12, <1>13, <1>14

LEMMA WrittenStepIsAcyclic ==
  ASSUME WritePathAssumption, ExploredInv, Next
  PROVE  WrittenIsAcyclic
<1> SUFFICES ASSUME NEW t \in Threads, Writing(t), outcome'[t] = "written" PROVE ~Cyclic(Top(t).object)
  BY DEF WrittenIsAcyclic
<1>1. Return(t)  BY HowItEnds DEF ExploredInv
<1> QED  BY <1>1, WholeIsHarmless DEF Return

\* "cyclic reference: the object is already being serialized on this path"
\* (serial/detail/cycle.h) is said of cycles and only of cycles: for any
\* graph of objects at addresses of their own, the path of the error leads
\* from the root through the objects that are being written back to one of
\* them, whatever other threads write at the same time; and a document that
\* is written to its end is of objects that hold no cycle.
THEOREM OnlyCyclesRefused ==
  ASSUME WritePathAssumption, AddressesDiffer
  PROVE  Spec => CyclesOnly
<1>1. Init => ExploredInv
  <2> SUFFICES ASSUME Init PROVE ExploredInv  OBVIOUS
  <2>1. \A t \in Threads : ~Writing(t)  BY DEF Init, Writing
  <2> QED  BY <2>1, InitKept DEF ExploredInv
<1>2. ExploredInv /\ [Next]_vars => ExploredInv'  BY ExploredKept
<1>3. ExploredInv /\ ExploredInv' /\ [Next]_vars => [CycleIsReal /\ WrittenIsAcyclic]_vars
  <2> SUFFICES ASSUME ExploredInv, ExploredInv', Next PROVE CycleIsReal /\ WrittenIsAcyclic  OBVIOUS
  <2> QED  BY CycleStepIsReal, WrittenStepIsAcyclic DEF ExploredInv
<1> QED  BY <1>1, <1>2, <1>3, PTL DEF Spec, CyclesOnly

-----------------------------------------------------------------------------
(* Recursion. A recursive definition over a range of numbers, or over the  *)
(* classes from the bases up, has the value that its equation states.      *)

\* f[k] is b after the first k of the n steps of g.
Repeats(f, b, g, n) == f[0] = b /\ \A k \in 1 .. n : f[k] = g[k][f[k - 1]]

LEMMA Iterated ==
    ASSUME NEW S, NEW b \in S, NEW n \in Nat, NEW g \in [1 .. n -> [S -> S]]
    PROVE  \E f \in [0 .. n -> S] : Repeats(f, b, g, n)
<1> USE DEF Repeats
<1> DEFINE Fits(f, m) == Repeats(f, b, g, m)
           Bad == {m \in 0 .. n : ~\E f \in [0 .. m -> S] : Fits(f, m)}
<1>1. SUFFICES ASSUME Bad # {} PROVE FALSE
  <2>1. n \in 0 .. n
    OBVIOUS
  <2> QED BY <2>1
<1>2. Bad \subseteq Nat
  OBVIOUS
<1>3. PICK m \in Bad : \A y \in Bad : m <= y
  BY <1>1, <1>2, LeastNat
<1>4. m \in Nat /\ m \in 0 .. n
  OBVIOUS
<1>5. CASE m = 0
  <2>1. [k \in 0 .. 0 |-> b] \in [0 .. 0 -> S] /\ Fits([k \in 0 .. 0 |-> b], 0)
    OBVIOUS
  <2> QED BY <1>5, <2>1
<1>6. CASE m # 0
  <2>1. m - 1 \in 0 .. n /\ m - 1 \in Nat /\ m \in 1 .. n /\ ~(m <= m - 1)
    BY <1>4, <1>6
  <2>2. PICK f \in [0 .. m - 1 -> S] : Fits(f, m - 1)
    BY <1>3, <2>1
  <2> DEFINE h == [k \in 0 .. m |-> IF k = m THEN g[m][f[m - 1]] ELSE f[k]]
  <2>3. g[m] \in [S -> S] /\ f[m - 1] \in S
    BY <2>1
  <2>4. h \in [0 .. m -> S]
    <3> SUFFICES ASSUME NEW k \in 0 .. m PROVE (IF k = m THEN g[m][f[m - 1]] ELSE f[k]) \in S
      OBVIOUS
    <3>1. k # m => k \in 0 .. m - 1
      BY <1>4
    <3> QED BY <2>3, <3>1
  <2>5. h[0] = b
    BY <1>4, <1>6, <2>2
  <2>6. ASSUME NEW k \in 1 .. m PROVE h[k] = g[k][h[k - 1]]
    <3>1. k - 1 \in 0 .. m - 1 /\ k - 1 \in 0 .. m /\ k \in 0 .. m /\ k - 1 # m
      BY <1>4
    <3>2. h[k - 1] = f[k - 1]
      BY <3>1
    <3>3. CASE k = m
      BY <3>1, <3>2, <3>3
    <3>4. CASE k # m
      <4>1. k \in 1 .. m - 1
        BY <1>4, <3>4
      <4>2. h[k] = f[k] /\ f[k] = g[k][f[k - 1]]
        BY <2>2, <3>1, <3>4, <4>1
      <4> QED BY <3>2, <4>2
    <3> QED BY <3>3, <3>4
  <2> HIDE DEF h
  <2>7. Fits(h, m)
    BY <2>5, <2>6
  <2> QED BY <2>4, <2>7
<1> QED BY <1>5, <1>6

\* A step that looks only at smaller classes has a fixed point.
LEMMA FixedPoint ==
    ASSUME NumClasses \in Nat, NEW V, V # {},
           NEW G \in [[Classes -> V] -> [Classes -> V]],
           \A f, h \in [Classes -> V], c \in Classes :
               (\A b \in Classes : b < c => f[b] = h[b]) => G[f][c] = G[h][c]
    PROVE  \E f \in [Classes -> V] : f = G[f]
<1> DEFINE N == NumClasses
           S == [Classes -> V]
<1>1. PICK v \in V : TRUE
  OBVIOUS
<1>2. [c \in Classes |-> v] \in S /\ N + 1 \in Nat
  OBVIOUS
<1>3. [k \in 1 .. N + 1 |-> G] \in [1 .. N + 1 -> [S -> S]]
  OBVIOUS
<1>4. PICK f \in [0 .. N + 1 -> S] : \A k \in 1 .. N + 1 : f[k] = G[f[k - 1]]
  <2> DEFINE g == [k \in 1 .. N + 1 |-> G]
             b == [c \in Classes |-> v]
  <2>1. \E f \in [0 .. N + 1 -> S] : Repeats(f, b, g, N + 1)
    <3> DEFINE M == N + 1
    <3>1. b \in S /\ g \in [1 .. M -> [S -> S]] /\ M \in Nat
      OBVIOUS
    <3> HIDE DEF g, b, S, M
    <3>2. \E f \in [0 .. M -> S] : Repeats(f, b, g, M)
      BY <3>1, Iterated
    <3> QED BY <3>2 DEF M
  <2>2. \A k \in 1 .. N + 1 : g[k] = G
    OBVIOUS
  <2> HIDE DEF S
  <2> QED BY <2>1, <2>2 DEF Repeats
<1> DEFINE Settled(k) == \A c \in Classes : c <= k => f[k + 1][c] = f[k][c]
           Bad == {k \in 0 .. N : ~Settled(k)}
<1>5. \A k \in 0 .. N : Settled(k)
  <2>1. SUFFICES ASSUME Bad # {} PROVE FALSE
    OBVIOUS
  <2>2. Bad \subseteq Nat
    OBVIOUS
  <2>3. PICK k \in Bad : \A y \in Bad : k <= y
    <3> HIDE DEF Bad
    <3> QED BY <2>1, <2>2, LeastNat
  <2>4. k \in 0 .. N /\ k \in Nat /\ ~Settled(k)
    OBVIOUS
  <2>5. PICK c \in Classes : c <= k /\ f[k + 1][c] # f[k][c]
    BY <2>4
  <2>6. c \in 1 .. N /\ k # 0
    BY <2>4, <2>5 DEF Classes
  <2>7. k - 1 \in 0 .. N /\ k \in 1 .. N + 1 /\ k + 1 \in 1 .. N + 1 /\ (k + 1) - 1 = k
        /\ (k - 1) + 1 = k /\ ~(k <= k - 1)
    BY <2>4, <2>6
  <2>8. Settled(k - 1)
    BY <2>3, <2>7
  <2>9. \A b \in Classes : b < c => f[k][b] = f[k - 1][b]
    <3> SUFFICES ASSUME NEW b \in Classes, b < c PROVE f[k][b] = f[k - 1][b]
      OBVIOUS
    <3>1. b <= k - 1
      BY <2>4, <2>5, <2>6 DEF Classes
    <3> QED BY <2>7, <2>8, <3>1
  <2>10. f[k] \in S /\ f[k - 1] \in S
    BY <2>4, <2>7
  <2>11. G[f[k]][c] = G[f[k - 1]][c]
    BY <2>9, <2>10
  <2>12. f[k + 1] = G[f[k]] /\ f[k] = G[f[k - 1]]
    BY <1>4, <2>7
  <2> QED BY <2>5, <2>11, <2>12
<1>6. f[N] \in S /\ f[N + 1] \in S /\ f[N + 1] = G[f[N]]
  <2>1. N \in 0 .. N + 1 /\ N + 1 \in 0 .. N + 1 /\ N + 1 \in 1 .. N + 1 /\ (N + 1) - 1 = N
    OBVIOUS
  <2> HIDE DEF S
  <2> QED BY <1>4, <2>1
<1>7. \A c \in Classes : f[N + 1][c] = f[N][c]
  <2>1. N \in 0 .. N /\ \A c \in Classes : c <= N
    BY DEF Classes
  <2> QED BY <1>5, <2>1
<1>8. f[N + 1] = f[N]
  BY <1>6, <1>7
<1> QED BY <1>6, <1>8

-----------------------------------------------------------------------------
(* Sequences in a row.                                                     *)

\* f[k] holds the first k of the n sequences of s in a row.
Rows(A, s, n, f) ==
    /\ s \in [1 .. n -> Seq(A)]
    /\ f \in [0 .. n -> Seq(A)] /\ f[0] = <<>>
    /\ \A k \in 1 .. n : f[k] = f[k - 1] \o s[k]

LEMMA ConcatFacts ==
    ASSUME NEW A, NEW t \in Seq(A), NEW u \in Seq(A)
    PROVE  /\ Len(t) \in Nat /\ Len(u) \in Nat /\ t \o u \in Seq(A)
           /\ Len(t \o u) = Len(t) + Len(u)
           /\ \A x \in 1 .. Len(t) : (t \o u)[x] = t[x]
           /\ \A x \in 1 .. Len(u) : (t \o u)[Len(t) + x] = u[x]
  OBVIOUS

LEMMA Within ==
    ASSUME NEW a \in Nat, NEW b \in Nat
    PROVE  /\ a + b \in Nat
           /\ \A j \in 1 .. b : a + j \in 1 .. a + b
           /\ \A p \in 1 .. a : p \in 1 .. a + b
           /\ \A p \in 1 .. a + b : ~(p <= a) => p - a \in 1 .. b /\ p = a + (p - a)
  OBVIOUS

\* f[i] is f[i - 1] and then s[i].
Extends(s, f, i) ==
    /\ Len(f[i - 1]) \in Nat /\ Len(s[i]) \in Nat
    /\ Len(f[i]) = Len(f[i - 1]) + Len(s[i])
    /\ \A x \in 1 .. Len(f[i - 1]) : f[i][x] = f[i - 1][x]
    /\ \A x \in 1 .. Len(s[i]) : f[i][Len(f[i - 1]) + x] = s[i][x]

LEMMA RowStep ==
    ASSUME NEW A, NEW n \in Nat, NEW s, NEW f, Rows(A, s, n, f), NEW i \in 1 .. n
    PROVE  Extends(s, f, i)
<1>1. i - 1 \in 0 .. n /\ i \in 0 .. n
  OBVIOUS
<1>2. f[i - 1] \in Seq(A) /\ s[i] \in Seq(A) /\ f[i] = f[i - 1] \o s[i]
  <2> DEFINE S == Seq(A)
  <2>1. /\ s \in [1 .. n -> S] /\ f \in [0 .. n -> S]
        /\ \A k \in 1 .. n : f[k] = f[k - 1] \o s[k]
    BY DEF Rows
  <2> HIDE DEF S
  <2>2. f[i - 1] \in S /\ s[i] \in S /\ f[i] = f[i - 1] \o s[i]
    BY <1>1, <2>1
  <2> QED BY <2>2 DEF S
<1> DEFINE t == f[i - 1]
           u == s[i]
<1>3. /\ Len(t) \in Nat /\ Len(u) \in Nat
      /\ Len(t \o u) = Len(t) + Len(u)
      /\ \A x \in 1 .. Len(t) : (t \o u)[x] = t[x]
      /\ \A x \in 1 .. Len(u) : (t \o u)[Len(t) + x] = u[x]
  <2>1. t \in Seq(A) /\ u \in Seq(A)
    BY <1>2
  <2> HIDE DEF t, u
  <2> QED BY <2>1, ConcatFacts
<1>4. f[i] = t \o u
  BY <1>2
<1>5. /\ Len(f[i]) = Len(t) + Len(u)
      /\ \A x \in 1 .. Len(t) : f[i][x] = t[x]
      /\ \A x \in 1 .. Len(u) : f[i][Len(t) + x] = u[x]
  <2> HIDE DEF t, u
  <2> QED BY <1>3, <1>4
<1> QED BY <1>3, <1>5 DEF Extends

LEMMA RowsExist ==
    ASSUME NEW A, NEW n \in Nat, NEW s \in [1 .. n -> Seq(A)]
    PROVE  \E f : Rows(A, s, n, f)
<1> DEFINE S == Seq(A)
           step(k) == [x \in S |-> x \o s[k]]
           g == [k \in 1 .. n |-> step(k)]
           b == <<>>
<1>1. b \in S
  OBVIOUS
<1>2. g \in [1 .. n -> [S -> S]]
  <2> SUFFICES ASSUME NEW k \in 1 .. n PROVE step(k) \in [S -> S]
    OBVIOUS
  <2>1. s[k] \in Seq(A)
    <3> HIDE DEF S
    <3> QED OBVIOUS
  <2>2. \A x \in S : x \o s[k] \in S
    BY <2>1, ConcatProperties
  <2> QED BY <2>2
<1>3. \E f \in [0 .. n -> S] : Repeats(f, b, g, n)
  <2> HIDE DEF g, S, b
  <2> QED BY <1>1, <1>2, Iterated, Zenon
<1>4. PICK f \in [0 .. n -> S] : f[0] = <<>> /\ \A k \in 1 .. n : f[k] = g[k][f[k - 1]]
  BY <1>3 DEF Repeats
<1>5. ASSUME NEW k \in 1 .. n PROVE f[k] = f[k - 1] \o s[k]
  <2>1. k - 1 \in 0 .. n
    OBVIOUS
  <2> HIDE DEF S
  <2>2. f[k - 1] \in S
    BY <2>1
  <2>3. f[k] = g[k][f[k - 1]] /\ g[k] = step(k)
    BY <1>4
  <2> HIDE DEF g
  <2> QED BY <2>2, <2>3
<1>6. f[0] = <<>> /\ s \in [1 .. n -> S]
  BY <1>4
<1> HIDE DEF g
<1> QED BY <1>4, <1>5, <1>6 DEF Rows

LEMMA FlattenIs ==
    ASSUME NEW A, NEW n \in Nat, NEW s, NEW f, Rows(A, s, n, f)
    PROVE  FlattenSeq(s) = f[n]
<1> DEFINE S == Seq(A)
<1>0. /\ s \in [1 .. n -> S] /\ f \in [0 .. n -> S] /\ f[0] = <<>>
      /\ \A k \in 1 .. n : f[k] = f[k - 1] \o s[k]
  BY DEF Rows
<1>1. Len(s) = n /\ (n = 0 <=> s = <<>>)
  BY <1>0
<1>4. CASE n = 0
  BY <1>0, <1>1, <1>4 DEF FlattenSeq
<1>5. CASE n # 0
  <2> DEFINE Equation(h) == h = [i \in 1 .. n |-> IF i = 1 THEN s[i] ELSE h[i - 1] \o s[i]]
             flatten == CHOOSE h : Equation(h)
             rows == [i \in 1 .. n |-> f[i]]
  <2>1. Equation(rows)
    <3> SUFFICES ASSUME NEW i \in 1 .. n
                 PROVE  f[i] = IF i = 1 THEN s[i] ELSE rows[i - 1] \o s[i]
      OBVIOUS
    <3>1. CASE i = 1
      <4>1. f[1] = <<>> \o s[1]
        <5>1. 1 \in 1 .. n /\ 1 - 1 = 0
          BY <1>5
        <5>2. f[1] = f[1 - 1] \o s[1]
          BY <1>0, <5>1
        <5> QED BY <1>0, <5>1, <5>2
      <4>2. s[1] \in Seq(A)
        <5>1. s[1] \in S
          <6> HIDE DEF S
          <6> QED BY <1>0, <3>1
        <5> QED BY <5>1
      <4>3. <<>> \o s[1] = s[1]
        BY <4>2, ConcatEmptySeq
      <4> QED BY <3>1, <4>1, <4>3
    <3>2. CASE i # 1
      <4>1. i - 1 \in 1 .. n
        BY <3>2
      <4>2. rows[i - 1] = f[i - 1]
        BY <4>1
      <4>3. f[i] = f[i - 1] \o s[i]
        BY <1>0
      <4> QED BY <3>2, <4>2, <4>3
    <3> QED BY <3>1, <3>2
  <2>2. Equation(flatten)
    <3> HIDE DEF Equation
    <3> QED BY <2>1
  <2>3. FlattenSeq(s) = flatten[n]
    BY <1>1, <1>5 DEF FlattenSeq
  <2> HIDE DEF flatten
  <2>4. \A i \in 1 .. n : flatten[i] = f[i]
    <3> DEFINE Bad == {i \in 1 .. n : flatten[i] # f[i]}
    <3>1. SUFFICES ASSUME Bad # {} PROVE FALSE
      OBVIOUS
    <3>2. Bad \subseteq Nat
      OBVIOUS
    <3>3. PICK i \in Bad : \A y \in Bad : i <= y
      <4> HIDE DEF Bad
      <4> QED BY <3>1, <3>2, LeastNat
    <3>4. i \in 1 .. n /\ flatten[i] # f[i]
      OBVIOUS
    <3>5. flatten[i] = IF i = 1 THEN s[i] ELSE flatten[i - 1] \o s[i]
      BY <2>2, <3>4
    <3>6. rows[i] = IF i = 1 THEN s[i] ELSE rows[i - 1] \o s[i]
      BY <2>1, <3>4
    <3>7. i # 1 => i - 1 \in 1 .. n /\ ~(i <= i - 1)
      BY <3>4
    <3>8. i # 1 => flatten[i - 1] = f[i - 1]
      BY <3>3, <3>7
    <3>9. i # 1 => rows[i - 1] = f[i - 1]
      BY <3>7
    <3>10. rows[i] = f[i]
      BY <3>4
    <3> HIDE DEF rows
    <3> QED BY <3>4, <3>5, <3>6, <3>8, <3>9, <3>10
  <2>5. n \in 1 .. n
    BY <1>5
  <2> QED BY <2>3, <2>4, <2>5
<1> QED BY <1>4, <1>5

\* Where the elements of the sequences come to stand, and that nothing else is
\* in the row.
InPlace(s, n, f) ==
    \A k \in 1 .. n : \A j \in 1 .. Len(s[k]) :
        Len(f[k - 1]) + j \in 1 .. Len(f[n]) /\ f[n][Len(f[k - 1]) + j] = s[k][j]

Covered(s, n, f) ==
    \A p \in 1 .. Len(f[n]) :
        \E k \in 1 .. n : \E j \in 1 .. Len(s[k]) : p = Len(f[k - 1]) + j

LEMMA RowPlaces ==
    ASSUME NEW A, NEW n \in Nat, NEW s, NEW f, Rows(A, s, n, f)
    PROVE  InPlace(s, n, f)
<1> SUFFICES ASSUME NEW k \in 1 .. n, NEW j \in 1 .. Len(s[k])
             PROVE  /\ Len(f[k - 1]) + j \in 1 .. Len(f[n])
                    /\ f[n][Len(f[k - 1]) + j] = s[k][j]
  BY Zenon DEF InPlace
<1> DEFINE p == Len(f[k - 1]) + j
           Stands(i) == p \in 1 .. Len(f[i]) /\ f[i][p] = s[k][j]
           Bad == {i \in k .. n : ~Stands(i)}
<1>0. k \in Nat /\ n \in k .. n
  OBVIOUS
<1>1. SUFFICES ASSUME Bad # {} PROVE FALSE
  BY <1>0
<1>2. Bad \subseteq Nat
  BY <1>0
<1>3. PICK i \in Bad : \A y \in Bad : i <= y
  <2> HIDE DEF Bad
  <2> QED BY <1>1, <1>2, LeastNat
<1>4. i \in k .. n /\ ~Stands(i) /\ i \in 1 .. n /\ i \in Nat
  BY <1>0
<1>5. \A y \in 1 .. n : Extends(s, f, y)
  BY RowStep
<1>6. CASE i = k
  <2>1. /\ Len(f[k - 1]) \in Nat /\ Len(s[k]) \in Nat
        /\ Len(f[k]) = Len(f[k - 1]) + Len(s[k])
        /\ f[k][Len(f[k - 1]) + j] = s[k][j]
    BY <1>0, <1>5, Zenon DEF Extends
  <2>3. p \in 1 .. Len(f[k])
    BY <2>1, Within, Zenon
  <2> QED BY <1>4, <1>6, <2>1, <2>3
<1>7. CASE i # k
  <2>1. i - 1 \in k .. n /\ ~(i <= i - 1)
    BY <1>0, <1>4, <1>7
  <2>2. Stands(i - 1)
    BY <1>3, <2>1
  <2> HIDE DEF p
  <2>3. /\ Len(f[i - 1]) \in Nat /\ Len(s[i]) \in Nat
        /\ Len(f[i]) = Len(f[i - 1]) + Len(s[i])
        /\ f[i][p] = f[i - 1][p]
    BY <1>4, <1>5, <2>2, Zenon DEF Extends
  <2>4. p \in 1 .. Len(f[i])
    BY <2>2, <2>3, Within, Zenon
  <2> QED BY <1>4, <2>2, <2>3, <2>4
<1> QED BY <1>6, <1>7

LEMMA RowCovers ==
    ASSUME NEW A, NEW n \in Nat, NEW s, NEW f, Rows(A, s, n, f)
    PROVE  Covered(s, n, f)
<1> SUFFICES ASSUME NEW p \in 1 .. Len(f[n])
             PROVE  \E k \in 1 .. n : \E j \in 1 .. Len(s[k]) : p = Len(f[k - 1]) + j
  BY Zenon DEF Covered
<1> DEFINE Bad == {i \in 0 .. n : p <= Len(f[i])}
<1>0. Len(f[0]) = 0
  BY DEF Rows
<1>r. \A y \in 1 .. n : Extends(s, f, y)
  BY RowStep
<1>1. p \in Int /\ 1 <= p /\ p <= Len(f[n])
  <2>1. CASE n = 0
    BY <1>0, <2>1
  <2>2. CASE n # 0
    <3>1. n \in 1 .. n
      BY <2>2
    <3>2. Len(f[n]) \in Nat
      <4>1. Extends(s, f, n)
        BY <1>r, <3>1
      <4>2. Len(f[n - 1]) \in Nat /\ Len(s[n]) \in Nat /\ Len(f[n]) = Len(f[n - 1]) + Len(s[n])
        BY <4>1, Zenon DEF Extends
      <4>3. Len(f[n - 1]) + Len(s[n]) \in Nat
        BY <4>2, Within, Zenon
      <4> QED BY <4>2, <4>3, Zenon
    <3> QED BY <3>2
  <2> QED BY <2>1, <2>2
<1>2. Bad \subseteq Nat /\ n \in Bad
  BY <1>1
<1>3. PICK k \in Bad : \A y \in Bad : k <= y
  <2> HIDE DEF Bad
  <2> QED BY <1>2, LeastNat
<1>4. k \in 0 .. n /\ p <= Len(f[k])
  OBVIOUS
<1>5. k # 0
  BY <1>0, <1>1, <1>4
<1>6. k \in 1 .. n /\ k - 1 \in 0 .. n /\ k \in 1 .. n /\ ~(k <= k - 1)
  BY <1>4, <1>5
<1>7. ~(p <= Len(f[k - 1]))
  BY <1>3, <1>6
<1>8. Len(f[k]) = Len(f[k - 1]) + Len(s[k]) /\ Len(s[k]) \in Nat /\ Len(f[k - 1]) \in Nat
  BY <1>6, <1>r, Zenon DEF Extends
<1>9. p - Len(f[k - 1]) \in 1 .. Len(s[k]) /\ p = Len(f[k - 1]) + (p - Len(f[k - 1]))
  <2>1. p \in 1 .. Len(f[k - 1]) + Len(s[k])
    <3>1. p \in 1 .. Len(f[k])
      BY <1>1, <1>4
    <3> QED BY <1>8, <3>1, Zenon
  <2> QED BY <1>7, <1>8, <2>1, Within, Zenon
<1> QED BY <1>6, <1>9

-----------------------------------------------------------------------------
(* The fields of a class.                                                  *)

\* What holds of the class from the start on: every base is declared before.
Hierarchy ==
    /\ NumClasses \in Nat
    /\ bases \in [Classes -> Seq(Classes)]
    /\ own \in [Classes -> Seq(OwnField)]
    /\ \A c \in Classes : \A k \in DOMAIN bases[c] : bases[c][k] < c

\* What f holds for each of the direct bases.
OfBases(f, c) == [k \in DOMAIN bases[c] |-> f[bases[c][k]]]

LEMMA LeastClass ==
    ASSUME NEW S, S \subseteq Classes, S # {}
    PROVE  \E c \in S : \A b \in Classes : b < c => b \notin S
<1>1. S \subseteq Nat
  BY DEF Classes
<1>2. PICK c \in S : \A b \in S : c <= b
  BY <1>1, LeastNat
<1>3. ASSUME NEW b \in Classes, b < c, b \in S PROVE FALSE
  <2>1. c <= b /\ b \in Nat /\ c \in Nat
    BY <1>1, <1>2, <1>3
  <2> QED BY <1>3, <2>1
<1> QED BY <1>2, <1>3

LEMMA DirectBases ==
    ASSUME Hierarchy, NEW c \in Classes
    PROVE  /\ Len(bases[c]) \in Nat /\ DOMAIN bases[c] = 1 .. Len(bases[c])
           /\ \A k \in 1 .. Len(bases[c]) : bases[c][k] \in Classes /\ bases[c][k] < c
           /\ own[c] \in Seq(OwnField)
<1>1. bases[c] \in Seq(Classes)
  <2> DEFINE S == Seq(Classes)
  <2>1. bases \in [Classes -> S]
    BY DEF Hierarchy
  <2> HIDE DEF S
  <2>2. bases[c] \in S
    BY <2>1
  <2> QED BY <2>2 DEF S
<1>2. own[c] \in Seq(OwnField)
  <2> DEFINE S == Seq(OwnField)
  <2>1. own \in [Classes -> S]
    BY DEF Hierarchy
  <2> HIDE DEF S
  <2>2. own[c] \in S
    BY <2>1
  <2> QED BY <2>2 DEF S
<1> DEFINE s == bases[c]
<1>3. /\ Len(s) \in Nat /\ DOMAIN s = 1 .. Len(s)
      /\ \A k \in 1 .. Len(s) : s[k] \in Classes
  <2>1. s \in Seq(Classes)
    BY <1>1
  <2> HIDE DEF s
  <2> QED BY <2>1
<1>4. \A k \in DOMAIN s : s[k] < c
  BY DEF Hierarchy
<1>5. \A k \in 1 .. Len(s) : s[k] \in Classes /\ s[k] < c
  <2> HIDE DEF s
  <2> QED BY <1>3, <1>4
<1> QED BY <1>2, <1>3, <1>5

\* The fields of the bases in a row are a sequence of fields.
LEMMA BasesInARow ==
    ASSUME Hierarchy, NEW c \in Classes, NEW v,
           \A k \in 1 .. Len(bases[c]) : v[bases[c][k]] \in Seq(OwnField)
    PROVE  /\ \E f : Rows(OwnField, OfBases(v, c), Len(bases[c]), f)
           /\ \A f : Rows(OwnField, OfBases(v, c), Len(bases[c]), f) =>
                         /\ FlattenSeq(OfBases(v, c)) = f[Len(bases[c])]
                         /\ f[Len(bases[c])] \in Seq(OwnField)
           /\ FlattenSeq(OfBases(v, c)) \o own[c] \in Seq(OwnField)
<1> DEFINE n == Len(bases[c])
           S == Seq(OwnField)
           s == OfBases(v, c)
<1>1. n \in Nat /\ DOMAIN bases[c] = 1 .. n /\ own[c] \in S
  BY DirectBases
<1>2. s \in [1 .. n -> S]
  <2>1. \A k \in 1 .. n : v[bases[c][k]] \in S
    OBVIOUS
  <2> HIDE DEF n, S
  <2> QED BY <1>1, <2>1 DEF OfBases
<1>3. \E f : Rows(OwnField, s, n, f)
  <2> HIDE DEF n, s
  <2> QED BY <1>1, <1>2, RowsExist
<1>4. ASSUME NEW f, Rows(OwnField, s, n, f)
      PROVE  FlattenSeq(s) = f[n] /\ f[n] \in S
  <2>1. FlattenSeq(s) = f[n]
    <3> HIDE DEF n, s
    <3> QED BY <1>1, <1>4, FlattenIs
  <2>2. f \in [0 .. n -> S]
    BY <1>4 DEF Rows
  <2>3. f[n] \in S
    <3> HIDE DEF n, S
    <3> QED BY <1>1, <2>2
  <2> QED BY <2>1, <2>3
<1>5. FlattenSeq(s) \o own[c] \in S
  <2>1. FlattenSeq(s) \in S
    BY <1>3, <1>4
  <2> DEFINE t == FlattenSeq(s)
             u == own[c]
  <2>2. t \in Seq(OwnField) /\ u \in Seq(OwnField)
    BY <1>1, <2>1
  <2>3. t \o u \in Seq(OwnField)
    <3> HIDE DEF t, u
    <3> QED BY <2>2, ConcatFacts
  <2> QED BY <2>3
<1> QED BY <1>3, <1>4, <1>5

\* visit_fields has the value its equation states, a sequence of fields for
\* every class.
LEMMA VisitIs ==
    ASSUME Hierarchy
    PROVE  /\ visit_fields = [c \in Classes |-> FlattenSeq(OfBases(visit_fields, c)) \o own[c]]
           /\ visit_fields \in [Classes -> Seq(OwnField)]
<1> DEFINE V == Seq(OwnField)
           M == [Classes -> V]
           walk(f) == [c \in Classes |-> FlattenSeq(OfBases(f, c)) \o own[c]]
           G == [f \in M |-> walk(f)]
<1>1. ASSUME NEW f, NEW c \in Classes, \A b \in Classes : b < c => f[b] \in V
      PROVE  FlattenSeq(OfBases(f, c)) \o own[c] \in V
  <2>1. \A k \in 1 .. Len(bases[c]) : f[bases[c][k]] \in V
    <3> HIDE DEF V
    <3> QED BY <1>1, DirectBases
  <2> QED BY <2>1, BasesInARow
<1>2. G \in [M -> M]
  <2> SUFFICES ASSUME NEW f \in M PROVE walk(f) \in M
    OBVIOUS
  <2>1. \A c \in Classes : FlattenSeq(OfBases(f, c)) \o own[c] \in V
    <3> HIDE DEF V
    <3> QED BY <1>1
  <2> HIDE DEF V
  <2> QED BY <2>1
<1>3. ASSUME NEW f, NEW h, NEW c \in Classes,
             \A b \in Classes : b < c => f[b] = h[b]
      PROVE  OfBases(f, c) = OfBases(h, c)
  <2>1. DOMAIN bases[c] = 1 .. Len(bases[c])
    BY DirectBases
  <2>2. \A k \in 1 .. Len(bases[c]) : f[bases[c][k]] = h[bases[c][k]]
    BY <1>3, DirectBases
  <2> QED BY <2>1, <2>2 DEF OfBases
<1>4. \A f, h \in M, c \in Classes :
          (\A b \in Classes : b < c => f[b] = h[b]) => G[f][c] = G[h][c]
  <2> SUFFICES ASSUME NEW f \in M, NEW h \in M, NEW c \in Classes,
                      \A b \in Classes : b < c => f[b] = h[b]
               PROVE  G[f][c] = G[h][c]
    OBVIOUS
  <2>1. OfBases(f, c) = OfBases(h, c)
    BY <1>3
  <2>2. G[f][c] = FlattenSeq(OfBases(f, c)) \o own[c]
        /\ G[h][c] = FlattenSeq(OfBases(h, c)) \o own[c]
    <3> HIDE DEF M
    <3> QED OBVIOUS
  <2> QED BY <2>1, <2>2, Zenon
<1>5. \E f \in M : f = walk(f)
  <2>1. \E f \in M : f = G[f]
    <3>1. V # {} /\ NumClasses \in Nat
      <4>1. <<>> \in V
        OBVIOUS
      <4>2. NumClasses \in Nat
        BY DEF Hierarchy
      <4> QED BY <4>1, <4>2
    <3>2. M = [Classes -> V]
      OBVIOUS
    <3> HIDE DEF G, V
    <3>3. G \in [[Classes -> V] -> [Classes -> V]]
      BY <1>2, <3>2
    <3>4. \A f, h \in [Classes -> V], c \in Classes :
             (\A b \in Classes : b < c => f[b] = h[b]) => G[f][c] = G[h][c]
      BY <1>4, <3>2
    <3>5. \E f \in [Classes -> V] : f = G[f]
      BY <3>1, <3>3, <3>4, FixedPoint, Zenon
    <3> QED BY <3>2, <3>5, Zenon
  <2> HIDE DEF M
  <2> QED BY <2>1
<1>6. visit_fields = walk(visit_fields)
  <2>1. \E f : f = walk(f)
    BY <1>5
  <2> DEFINE E(f) == f = walk(f)
  <2>2. visit_fields = CHOOSE f : E(f)
    BY DEF visit_fields, OfBases
  <2>3. \E f : E(f)
    BY <2>1
  <2> HIDE DEF E
  <2>4. E(visit_fields)
    BY <2>2, <2>3
  <2> QED BY <2>4 DEF E
<1>7. visit_fields \in [Classes -> V]
  <2> DEFINE Bad == {c \in Classes : visit_fields[c] \notin V}
  <2>1. Bad = {}
    <3>1. SUFFICES ASSUME Bad # {} PROVE FALSE
      OBVIOUS
    <3>2. PICK c \in Bad : \A b \in Classes : b < c => b \notin Bad
      <4>1. Bad \subseteq Classes
        OBVIOUS
      <4> HIDE DEF Bad
      <4> QED BY <3>1, <4>1, LeastClass
    <3>3. c \in Classes /\ visit_fields[c] \notin V
      BY Zenon
    <3>4. \A b \in Classes : b < c => visit_fields[b] \in V
      BY <3>2, Zenon
    <3>5. FlattenSeq(OfBases(visit_fields, c)) \o own[c] \in V
      <4> HIDE DEF V
      <4> QED BY <1>1, <3>3, <3>4
    <3>6. visit_fields[c] = FlattenSeq(OfBases(visit_fields, c)) \o own[c]
      <4> DEFINE w == visit_fields
      <4>1. w = walk(w)
        BY <1>6
      <4> HIDE DEF w
      <4>2. w[c] = FlattenSeq(OfBases(w, c)) \o own[c]
        BY <3>3, <4>1
      <4> QED BY <4>2 DEF w
    <3> QED BY <3>3, <3>5, <3>6, Zenon
  <2>2. visit_fields = [c \in Classes |-> visit_fields[c]]
    <3> DEFINE w == visit_fields
    <3>1. w = walk(w)
      BY <1>6
    <3> HIDE DEF w
    <3>2. w = [c \in Classes |-> w[c]]
      BY <3>1
    <3> QED BY <3>2 DEF w
  <2> DEFINE w == visit_fields
  <2>3. \A c \in Classes : w[c] \in V
    BY <2>1, Zenon
  <2>4. w = [c \in Classes |-> w[c]]
    BY <2>2
  <2>5. w \in [Classes -> V]
    <3> HIDE DEF w, V
    <3> QED BY <2>3, <2>4
  <2> QED BY <2>5
<1> QED BY <1>6, <1>7

\* The fields of a class: those of its bases in a row, and its own.
LEMMA FieldsInARow ==
    ASSUME Hierarchy, NEW c \in Classes
    PROVE  /\ visit_fields[c] \in Seq(OwnField) /\ own[c] \in Seq(OwnField)
           /\ field_count[c] = Len(visit_fields[c]) /\ field_count[c] \in Nat
           /\ Len(bases[c]) \in Nat
           /\ \E f : Rows(OwnField, OfBases(visit_fields, c), Len(bases[c]), f)
           /\ \A f : Rows(OwnField, OfBases(visit_fields, c), Len(bases[c]), f) =>
                         /\ f[Len(bases[c])] \in Seq(OwnField)
                         /\ visit_fields[c] = f[Len(bases[c])] \o own[c]
<1> DEFINE V == Seq(OwnField)
           n == Len(bases[c])
           s == OfBases(visit_fields, c)
<1>1. \A b \in Classes : visit_fields[b] \in V
  <2>1. visit_fields \in [Classes -> V]
    BY VisitIs
  <2> HIDE DEF V
  <2> QED BY <2>1
<1>2. \A k \in 1 .. n : visit_fields[bases[c][k]] \in V
  <2> HIDE DEF V
  <2> QED BY <1>1, DirectBases
<1>3. /\ \E f : Rows(OwnField, s, n, f)
      /\ \A f : Rows(OwnField, s, n, f) => FlattenSeq(s) = f[n] /\ f[n] \in V
  BY <1>2, BasesInARow
<1>4. visit_fields[c] = FlattenSeq(s) \o own[c]
  <2> DEFINE w == visit_fields
  <2>1. w = [d \in Classes |-> FlattenSeq(OfBases(w, d)) \o own[d]]
    BY VisitIs
  <2> HIDE DEF w
  <2>2. w[c] = FlattenSeq(OfBases(w, c)) \o own[c]
    BY <2>1
  <2> QED BY <2>2 DEF w
<1>5. field_count[c] = Len(visit_fields[c])
  BY DEF field_count
<1>6. Len(visit_fields[c]) \in Nat
  <2> DEFINE t == visit_fields[c]
  <2>1. t \in Seq(OwnField)
    BY <1>1
  <2> HIDE DEF t
  <2>2. Len(t) \in Nat
    BY <2>1
  <2> QED BY <2>2 DEF t
<1>7. own[c] \in V /\ n \in Nat
  BY DirectBases
<1> HIDE DEF s, n
<1>8. \A f : Rows(OwnField, s, n, f) => f[n] \in V /\ visit_fields[c] = f[n] \o own[c]
  BY <1>3, <1>4, Zenon
<1>9. visit_fields[c] \in V /\ field_count[c] \in Nat
  BY <1>1, <1>5, <1>6, Zenon
<1> QED BY <1>3, <1>5, <1>7, <1>8, <1>9, Zenon DEF s, n

\* Offset is where the fields of a direct base begin.
LEMMA OffsetIs ==
    ASSUME Hierarchy, NEW c \in Classes, NEW f,
           Rows(OwnField, OfBases(visit_fields, c), Len(bases[c]), f),
           NEW k \in 0 .. Len(bases[c])
    PROVE  Offset(c, k) = Len(f[k])
<1> DEFINE N == Len(bases[c])
           s == OfBases(visit_fields, c)
           more(n) == field_count[bases[c][n]]
           E(h) == h = [n \in 0 .. N |-> IF n = 0 THEN 0 ELSE h[n - 1] + more(n)]
           sum == CHOOSE h : E(h)
           lens == [n \in 0 .. N |-> Len(f[n])]
<1>1. N \in Nat /\ k \in 0 .. N
  BY DirectBases
<1>2. ASSUME NEW n \in 1 .. N PROVE Len(f[n]) = Len(f[n - 1]) + more(n)
  <2>1. Extends(s, f, n)
    BY <1>1, <1>2, RowStep
  <2>2. Len(f[n]) = Len(f[n - 1]) + Len(s[n])
    <3> HIDE DEF s
    <3> QED BY <2>1, Zenon DEF Extends
  <2>3. n \in DOMAIN bases[c] /\ bases[c][n] \in Classes
    BY <1>2, DirectBases
  <2>4. s[n] = visit_fields[bases[c][n]]
    <3> HIDE DEF N
    <3> QED BY <2>3 DEF OfBases
  <2>5. more(n) = Len(visit_fields[bases[c][n]])
    BY <2>3, FieldsInARow, Zenon
  <2> HIDE DEF s, N
  <2> QED BY <2>2, <2>4, <2>5, Zenon
<1>3. Len(f[0]) = 0
  BY DEF Rows
<1>4. E(lens)
  <2>1. ASSUME NEW n \in 0 .. N
        PROVE  Len(f[n]) = IF n = 0 THEN 0 ELSE lens[n - 1] + more(n)
    <3>1. CASE n = 0
      BY <1>3, <3>1
    <3>2. CASE n # 0
      <4> HIDE DEF more, N
      <4>1. n \in 1 .. N /\ n - 1 \in 0 .. N
        BY <1>1, <3>2
      <4>2. lens[n - 1] = Len(f[n - 1])
        BY <4>1
      <4> HIDE DEF lens
      <4>3. Len(f[n]) = Len(f[n - 1]) + more(n)
        BY <1>2, <4>1
      <4> QED BY <3>2, <4>2, <4>3, Zenon
    <3> QED BY <3>1, <3>2
  <2> HIDE DEF more, N
  <2>2. [n \in 0 .. N |-> Len(f[n])] =
            [n \in 0 .. N |-> IF n = 0 THEN 0 ELSE lens[n - 1] + more(n)]
    <3> HIDE DEF lens
    <3> QED BY <2>1, Zenon
  <2> QED BY <2>2, Zenon
<1>5. E(sum)
  <2> HIDE DEF E
  <2> QED BY <1>4
<1>6. Offset(c, k) = sum[k]
  BY DEF Offset
<1> HIDE DEF sum
<1>7. \A n \in 0 .. N : sum[n] = Len(f[n])
  <2> DEFINE Bad == {n \in 0 .. N : sum[n] # Len(f[n])}
  <2>1. SUFFICES ASSUME Bad # {} PROVE FALSE
    OBVIOUS
  <2>2. Bad \subseteq Nat
    BY <1>1
  <2>3. PICK n \in Bad : \A y \in Bad : n <= y
    <3> HIDE DEF Bad
    <3> QED BY <2>1, <2>2, LeastNat
  <2>4. n \in 0 .. N /\ sum[n] # Len(f[n])
    BY Zenon
  <2>5. n # 0 => n \in 1 .. N /\ n - 1 \in 0 .. N /\ ~(n <= n - 1)
    <3> HIDE DEF N
    <3> QED BY <1>1, <2>4
  <2>6. n # 0 => sum[n - 1] = Len(f[n - 1])
    <3> HIDE DEF N
    <3> QED BY <2>3, <2>5, Zenon
  <2>7. sum[n] = IF n = 0 THEN 0 ELSE sum[n - 1] + more(n)
    <3> HIDE DEF N, more
    <3> QED BY <1>5, <2>4
  <2>8. CASE n = 0
    BY <1>3, <2>4, <2>7, <2>8, Zenon
  <2>9. CASE n # 0
    <3>1. Len(f[n]) = Len(f[n - 1]) + more(n)
      BY <1>2, <2>5, <2>9
    <3> HIDE DEF more, N
    <3> QED BY <2>4, <2>6, <2>7, <2>9, <3>1, Zenon
  <2> QED BY <2>8, <2>9
<1> QED BY <1>1, <1>6, <1>7, Zenon

LEMMA LeastOf ==
    ASSUME NEW S, S \subseteq Nat, S # {}
    PROVE  Min(S) \in S /\ \A y \in S : Min(S) <= y
<1>1. \E x \in S : \A y \in S : x <= y
  BY LeastNat
<1> QED BY <1>1 DEF Min

\* The length of the row behind the first k bases is a number.
LEMMA OffsetType ==
    ASSUME Hierarchy, NEW c \in Classes, NEW k \in 0 .. Len(bases[c])
    PROVE  Offset(c, k) \in Nat
<1> DEFINE n == Len(bases[c])
           s == OfBases(visit_fields, c)
<1>1. PICK f : Rows(OwnField, s, n, f)
  BY FieldsInARow
<1>2. Offset(c, k) = Len(f[k])
  BY <1>1, OffsetIs
<1>3. n \in Nat /\ k \in 0 .. n
  BY DirectBases
<1> HIDE DEF s, n
<1>4. f \in [0 .. n -> Seq(OwnField)]
  BY <1>1 DEF Rows
<1>5. f[k] \in Seq(OwnField)
  <2> DEFINE V == Seq(OwnField)
  <2> HIDE DEF V
  <2>1. f[k] \in V
    BY <1>3, <1>4 DEF V
  <2> QED BY <2>1 DEF V
<1>6. Len(f[k]) \in Nat
  <2> DEFINE t == f[k]
  <2>1. t \in Seq(OwnField)
    BY <1>5
  <2> HIDE DEF t
  <2>2. Len(t) \in Nat
    BY <2>1
  <2> QED BY <2>2 DEF t
<1> QED BY <1>2, <1>6, Zenon

-----------------------------------------------------------------------------
(* The field a key belongs to.                                             *)

InBase(f, c) == {k \in DOMAIN bases[c] : f[bases[c][k]] # field_count[bases[c][k]]}
InOwn(c, key) == {n \in DOMAIN own[c] : Takes(own[c][n], key)}

\* The index for class c, given by f for the classes before it.
IndexIn(f, c, key) ==
    IF InBase(f, c) # {}
    THEN Offset(c, Min(InBase(f, c)) - 1) + f[bases[c][Min(InBase(f, c))]]
    ELSE IF InOwn(c, key) # {} THEN Offset(c, Len(bases[c])) + Min(InOwn(c, key)) - 1
    ELSE field_count[c]

LEMMA FirstInBase ==
    ASSUME Hierarchy, NEW c \in Classes, NEW f, InBase(f, c) # {}
    PROVE  LET k == Min(InBase(f, c)) IN
           /\ k \in 1 .. Len(bases[c]) /\ k - 1 \in 0 .. Len(bases[c])
           /\ bases[c][k] \in Classes /\ bases[c][k] < c
           /\ f[bases[c][k]] # field_count[bases[c][k]]
<1> DEFINE S == InBase(f, c)
           k == Min(S)
           n == Len(bases[c])
<1>1. n \in Nat /\ S \subseteq 1 .. n
  BY DirectBases DEF InBase
<1>2. k \in S
  <2>1. S \subseteq Nat
    <3> HIDE DEF S, n
    <3> QED BY <1>1
  <2>2. S # {}
    OBVIOUS
  <2> HIDE DEF S
  <2> QED BY <2>1, <2>2, LeastOf
<1>3. f[bases[c][k]] # field_count[bases[c][k]]
  <2>1. \A x \in S : f[bases[c][x]] # field_count[bases[c][x]]
    BY Zenon DEF InBase
  <2> HIDE DEF S
  <2> QED BY <1>2, <2>1, Zenon
<1>4. k \in 1 .. n
  <2> HIDE DEF S, n
  <2> QED BY <1>1, <1>2
<1>5. k - 1 \in 0 .. n
  <2> HIDE DEF k, n
  <2> QED BY <1>1, <1>4
<1>6. bases[c][k] \in Classes /\ bases[c][k] < c
  <2> HIDE DEF k
  <2> QED BY <1>4, DirectBases, Zenon
<1> QED BY <1>3, <1>4, <1>5, <1>6, Zenon

LEMMA FirstInOwn ==
    ASSUME Hierarchy, NEW c \in Classes, NEW key, InOwn(c, key) # {}
    PROVE  LET m == Min(InOwn(c, key)) IN
           /\ m \in 1 .. Len(own[c]) /\ Len(own[c]) \in Nat
           /\ Takes(own[c][m], key)
<1> DEFINE S == InOwn(c, key)
           m == Min(S)
           u == own[c]
<1>1. Len(u) \in Nat /\ DOMAIN u = 1 .. Len(u)
  <2>1. u \in Seq(OwnField)
    BY DirectBases
  <2> HIDE DEF u
  <2> QED BY <2>1
<1>2. S \subseteq 1 .. Len(u) /\ \A x \in S : Takes(u[x], key)
  BY <1>1 DEF InOwn
<1>3. S \subseteq Nat
  <2> HIDE DEF S, u
  <2> QED BY <1>1, <1>2
<1>4. m \in S
  <2>1. S # {}
    OBVIOUS
  <2> HIDE DEF S
  <2> QED BY <1>3, <2>1, LeastOf
<1> HIDE DEF m, S
<1>5. m \in 1 .. Len(u) /\ Takes(u[m], key)
  BY <1>2, <1>4, Zenon
<1> QED BY <1>1, <1>5, Zenon DEF m, S

LEMMA ReadIs ==
    ASSUME Hierarchy, NEW key
    PROVE  read_field(key) = [c \in Classes |-> IndexIn(read_field(key), c, key)]
<1> DEFINE M == [Classes -> Nat]
           find(f) == [c \in Classes |-> IndexIn(f, c, key)]
           G == [f \in M |-> find(f)]
<1>1. ASSUME NEW f \in M, NEW c \in Classes PROVE IndexIn(f, c, key) \in Nat
  <2> DEFINE k == Min(InBase(f, c))
             m == Min(InOwn(c, key))
             n == Len(bases[c])
  <2>1. CASE InBase(f, c) # {}
    <3>1. k - 1 \in 0 .. n /\ bases[c][k] \in Classes
      BY <2>1, FirstInBase, Zenon
    <3>2. Offset(c, k - 1) \in Nat /\ f[bases[c][k]] \in Nat
      <4> HIDE DEF k
      <4>1. Offset(c, k - 1) \in Nat
        BY <3>1, OffsetType
      <4> QED BY <3>1, <4>1
    <3>3. Offset(c, k - 1) + f[bases[c][k]] \in Nat
      BY <3>2, Within, Zenon
    <3> QED BY <2>1, <3>3, Zenon DEF IndexIn
  <2>2. CASE InBase(f, c) = {} /\ InOwn(c, key) # {}
    <3>1. m \in 1 .. Len(own[c]) /\ Len(own[c]) \in Nat
      BY <2>2, FirstInOwn, Zenon
    <3>2. Offset(c, n) \in Nat
      <4>1. n \in 0 .. n
        BY DirectBases
      <4> QED BY <4>1, OffsetType
    <3>3. Offset(c, n) + m - 1 \in Nat
      <4> DEFINE o == Offset(c, n)
      <4>1. o \in Nat
        BY <3>2
      <4> HIDE DEF m, o
      <4>2. m \in Nat /\ 1 <= m
        BY <3>1
      <4>3. o + m - 1 \in Nat
        BY <4>1, <4>2
      <4> QED BY <4>3 DEF o
    <3> QED BY <2>2, <3>3, Zenon DEF IndexIn
  <2>3. CASE InBase(f, c) = {} /\ InOwn(c, key) = {}
    <3>1. field_count[c] \in Nat
      BY FieldsInARow, Zenon
    <3> QED BY <2>3, <3>1, Zenon DEF IndexIn
  <2> QED BY <2>1, <2>2, <2>3
<1>2. G \in [M -> M]
  <2> SUFFICES ASSUME NEW f \in M PROVE find(f) \in M
    OBVIOUS
  <2>1. \A c \in Classes : IndexIn(f, c, key) \in Nat
    BY <1>1
  <2> QED BY <2>1
<1>3. ASSUME NEW f \in M, NEW h \in M, NEW c \in Classes,
             \A b \in Classes : b < c => f[b] = h[b]
      PROVE  IndexIn(f, c, key) = IndexIn(h, c, key)
  <2>1. DOMAIN bases[c] = 1 .. Len(bases[c])
        /\ \A k \in DOMAIN bases[c] : f[bases[c][k]] = h[bases[c][k]]
    <3>1. \A k \in 1 .. Len(bases[c]) : f[bases[c][k]] = h[bases[c][k]]
      BY <1>3, DirectBases
    <3>2. DOMAIN bases[c] = 1 .. Len(bases[c])
      BY DirectBases
    <3> QED BY <3>1, <3>2, Zenon
  <2>2. InBase(f, c) = InBase(h, c)
    BY <2>1 DEF InBase
  <2>3. CASE InBase(f, c) # {}
    <3> DEFINE k == Min(InBase(f, c))
    <3>1. bases[c][k] \in Classes /\ bases[c][k] < c
      BY <2>3, FirstInBase, Zenon
    <3>2. f[bases[c][k]] = h[bases[c][k]]
      <4> HIDE DEF k
      <4> QED BY <1>3, <3>1, Zenon
    <3> QED BY <2>2, <2>3, <3>2, Zenon DEF IndexIn
  <2>4. CASE InBase(f, c) = {}
    BY <2>2, <2>4, Zenon DEF IndexIn
  <2> QED BY <2>3, <2>4
<1>4. \A f, h \in M, c \in Classes :
          (\A b \in Classes : b < c => f[b] = h[b]) => G[f][c] = G[h][c]
  <2> SUFFICES ASSUME NEW f \in M, NEW h \in M, NEW c \in Classes,
                      \A b \in Classes : b < c => f[b] = h[b]
               PROVE  G[f][c] = G[h][c]
    OBVIOUS
  <2>1. IndexIn(f, c, key) = IndexIn(h, c, key)
    BY <1>3
  <2>2. G[f][c] = IndexIn(f, c, key) /\ G[h][c] = IndexIn(h, c, key)
    <3> HIDE DEF M
    <3> QED OBVIOUS
  <2> QED BY <2>1, <2>2, Zenon
<1>5. \E f \in M : f = find(f)
  <2>1. \E f \in M : f = G[f]
    <3>1. NumClasses \in Nat /\ Nat # {}
      BY DEF Hierarchy
    <3> HIDE DEF G
    <3>2. G \in [[Classes -> Nat] -> [Classes -> Nat]]
      BY <1>2
    <3>3. \A f, h \in [Classes -> Nat], c \in Classes :
             (\A b \in Classes : b < c => f[b] = h[b]) => G[f][c] = G[h][c]
      BY <1>4
    <3>4. \E f \in [Classes -> Nat] : f = G[f]
      BY <3>1, <3>2, <3>3, FixedPoint, Zenon
    <3> QED BY <3>4
  <2> HIDE DEF M
  <2> QED BY <2>1
<1> DEFINE E(f) == f = find(f)
<1>6. read_field(key) = CHOOSE f : E(f)
  BY Zenon DEF read_field, IndexIn, InBase, InOwn
<1>7. \E f : E(f)
  BY <1>5, Zenon
<1> HIDE DEF E
<1>8. E(read_field(key))
  BY <1>6, <1>7, Zenon
<1> QED BY <1>8, Zenon DEF E

\* For every class, a key that some field takes leads to a field that takes
\* it, and any other to none.
Leads(index, c, key) ==
    /\ index \in 0 .. field_count[c]
    /\ index # field_count[c] =>
           /\ index + 1 \in 1 .. Len(visit_fields[c])
           /\ Takes(visit_fields[c][index + 1], key)
    /\ index = field_count[c] =>
           \A i \in 1 .. Len(visit_fields[c]) : ~Takes(visit_fields[c][i], key)

\* An index below the count is a place among the first fields, or behind them.
LEMMA Below ==
    ASSUME NEW a \in Nat, NEW b \in Nat
    PROVE  /\ \A j \in 1 .. a : j - 1 \in 0 .. a + b /\ j - 1 # a + b /\ (j - 1) + 1 = j
                                /\ j \in 1 .. a + b
           /\ \A j \in 1 .. b : /\ a + j - 1 \in 0 .. a + b /\ a + j - 1 # a + b
                                /\ (a + j - 1) + 1 = a + j /\ a + j \in 1 .. a + b
           /\ a + b \in 0 .. a + b
           /\ \A i \in 0 .. b : i # b => i + 1 \in 1 .. b /\ a + i \in Nat
                                         /\ (a + (i + 1)) - 1 = a + i
  OBVIOUS

LEMMA KeyFound ==
    ASSUME Hierarchy, NEW key
    PROVE  \A c \in Classes : Leads(read_field(key)[c], c, key)
<1> DEFINE r == read_field(key)
           Bad == {c \in Classes : ~Leads(r[c], c, key)}
<1>1. SUFFICES ASSUME Bad # {} PROVE FALSE
  BY Zenon
<1>2. PICK c \in Bad : \A b \in Classes : b < c => b \notin Bad
  <2>1. Bad \subseteq Classes
    OBVIOUS
  <2> HIDE DEF Bad
  <2> QED BY <1>1, <2>1, LeastClass
<1>3. c \in Classes /\ ~Leads(r[c], c, key)
  BY Zenon
<1>4. ASSUME NEW k \in 1 .. Len(bases[c])
      PROVE  bases[c][k] \in Classes /\ Leads(r[bases[c][k]], bases[c][k], key)
  <2>1. bases[c][k] \in Classes /\ bases[c][k] < c
    BY <1>3, DirectBases
  <2> QED BY <1>2, <2>1, Zenon
<1> DEFINE n == Len(bases[c])
           s == OfBases(visit_fields, c)
           u == own[c]
           k == Min(InBase(r, c))
           m == Min(InOwn(c, key))
<1>5. PICK f : Rows(OwnField, s, n, f)
  BY <1>3, FieldsInARow
<1> DEFINE t == f[n]
<1>6. /\ t \in Seq(OwnField) /\ u \in Seq(OwnField) /\ n \in Nat
      /\ visit_fields[c] = t \o u /\ field_count[c] = Len(visit_fields[c])
  BY <1>3, <1>5, FieldsInARow
<1>7. /\ Len(t) \in Nat /\ Len(u) \in Nat /\ Len(visit_fields[c]) = Len(t) + Len(u)
      /\ \A x \in 1 .. Len(t) : visit_fields[c][x] = t[x]
      /\ \A x \in 1 .. Len(u) : visit_fields[c][Len(t) + x] = u[x]
  <2>1. t \in Seq(OwnField) /\ u \in Seq(OwnField) /\ visit_fields[c] = t \o u
    BY <1>6, Zenon
  <2> DEFINE w == visit_fields[c]
  <2>2. w = t \o u
    BY <2>1, Zenon
  <2> HIDE DEF t, u, w
  <2>3. /\ Len(t) \in Nat /\ Len(u) \in Nat
        /\ Len(t \o u) = Len(t) + Len(u)
        /\ \A x \in 1 .. Len(t) : (t \o u)[x] = t[x]
        /\ \A x \in 1 .. Len(u) : (t \o u)[Len(t) + x] = u[x]
    BY <2>1, ConcatFacts
  <2>4. /\ Len(t) \in Nat /\ Len(u) \in Nat
        /\ Len(w) = Len(t) + Len(u)
        /\ \A x \in 1 .. Len(t) : w[x] = t[x]
        /\ \A x \in 1 .. Len(u) : w[Len(t) + x] = u[x]
    BY <2>2, <2>3
  <2> QED BY <2>4, Zenon DEF w
<1>13. InPlace(s, n, f) /\ Covered(s, n, f)
  <2> HIDE DEF s, n
  <2> QED BY <1>5, <1>6, RowPlaces, RowCovers
<1>8. ASSUME NEW x \in 1 .. n PROVE s[x] = visit_fields[bases[c][x]] /\ n \in 0 .. n
  <2>1. DOMAIN bases[c] = 1 .. n
    BY <1>3, DirectBases
  <2> HIDE DEF n
  <2> QED BY <1>6, <2>1 DEF OfBases
<1>9. r[c] = IndexIn(r, c, key)
  <2>1. r = [d \in Classes |-> IndexIn(r, d, key)]
    BY ReadIs
  <2> HIDE DEF r
  <2> QED BY <1>3, <2>1
<1> HIDE DEF r
<1>10. CASE InBase(r, c) # {}
  <2>1. /\ k \in 1 .. n /\ k - 1 \in 0 .. n /\ bases[c][k] \in Classes
        /\ r[bases[c][k]] # field_count[bases[c][k]]
    BY <1>3, <1>10, FirstInBase, Zenon
  <2> DEFINE d == bases[c][k]
             i == r[d]
             o == Len(f[k - 1])
             j == o + (i + 1)
  <2> HIDE DEF k
  <2>2. Leads(i, d, key) /\ d \in Classes /\ i # field_count[d]
    BY <1>4, <2>1, Zenon
  <2>3. i + 1 \in 1 .. Len(visit_fields[d]) /\ Takes(visit_fields[d][i + 1], key)
        /\ i \in 0 .. field_count[d]
    BY <2>2, Zenon DEF Leads
  <2>4. s[k] = visit_fields[d] /\ n \in 0 .. n
    BY <1>8, <2>1, Zenon
  <2>5. j \in 1 .. Len(t) /\ t[j] = s[k][i + 1]
    <3>1. i + 1 \in 1 .. Len(s[k])
      BY <2>3, <2>4, Zenon
    <3> HIDE DEF s, n, d, i
    <3> QED BY <1>13, <2>1, <3>1, Zenon DEF InPlace
  <2>6. Offset(c, k - 1) = o
    BY <1>3, <1>5, <2>1, OffsetIs, Zenon
  <2>7. r[c] = o + i
    BY <1>9, <1>10, <2>6, Zenon DEF IndexIn, k
  <2>8. o + i = j - 1
    <3>1. field_count[d] \in Nat
      BY <2>2, FieldsInARow, Zenon
    <3>2. Extends(s, f, k)
      <4> HIDE DEF s, n
      <4> QED BY <1>5, <1>6, <2>1, RowStep
    <3>3. o \in Nat
      BY <3>2, Zenon DEF Extends
    <3> HIDE DEF o, i, d
    <3>4. (o + (i + 1)) - 1 = o + i
      BY <2>2, <2>3, <3>1, <3>3
    <3> QED BY <3>4, Zenon
  <2>9. visit_fields[c][j] = t[j] /\ Takes(visit_fields[c][j], key)
    BY <1>7, <2>3, <2>4, <2>5, Zenon
  <2> HIDE DEF j, t, u
  <2>10. /\ j - 1 \in 0 .. Len(t) + Len(u) /\ j - 1 # Len(t) + Len(u) /\ (j - 1) + 1 = j
         /\ j \in 1 .. Len(t) + Len(u)
    BY <1>7, <2>5, Below, Zenon
  <2>11. r[c] = j - 1
    BY <2>7, <2>8, Zenon
  <2>12. Leads(r[c], c, key)
    BY <1>6, <1>7, <2>9, <2>10, <2>11, Zenon DEF Leads
  <2> QED BY <1>3, <2>12, Zenon
<1>11. CASE InBase(r, c) = {} /\ InOwn(c, key) # {}
  <2>1. m \in 1 .. Len(u) /\ Takes(u[m], key)
    BY <1>3, <1>11, FirstInOwn, Zenon
  <2>2. Offset(c, n) = Len(t)
    <3>1. n \in 0 .. n
      <4> HIDE DEF n
      <4> QED BY <1>6
    <3> QED BY <1>3, <1>5, <3>1, OffsetIs, Zenon
  <2>3. r[c] = Len(t) + m - 1
    BY <1>9, <1>11, <2>2, Zenon DEF IndexIn
  <2> HIDE DEF m, t, u
  <2>4. visit_fields[c][Len(t) + m] = u[m]
    BY <1>7, <2>1, Zenon
  <2>5. /\ Len(t) + m - 1 \in 0 .. Len(t) + Len(u) /\ Len(t) + m - 1 # Len(t) + Len(u)
        /\ (Len(t) + m - 1) + 1 = Len(t) + m /\ Len(t) + m \in 1 .. Len(t) + Len(u)
    BY <1>7, <2>1, Below, Zenon
  <2>6. Leads(r[c], c, key)
    BY <1>6, <1>7, <2>1, <2>3, <2>4, <2>5, Zenon DEF Leads
  <2> QED BY <1>3, <2>6, Zenon
<1>12. CASE InBase(r, c) = {} /\ InOwn(c, key) = {}
  <2>1. r[c] = field_count[c]
    BY <1>9, <1>12, Zenon DEF IndexIn
  <2>2. \A x \in 1 .. Len(u) : ~Takes(u[x], key)
    <3>1. DOMAIN u = 1 .. Len(u)
      <4>1. u \in Seq(OwnField)
        BY <1>6, Zenon
      <4> HIDE DEF u
      <4> QED BY <4>1
    <3> QED BY <1>12, <3>1, Zenon DEF InOwn
  <2>3. ASSUME NEW p \in 1 .. Len(t) PROVE ~Takes(t[p], key)
    <3>2. PICK x \in 1 .. n : \E y \in 1 .. Len(s[x]) : p = Len(f[x - 1]) + y
      <4> HIDE DEF n, s
      <4> QED BY <1>13, <2>3, Zenon DEF Covered
    <3>3. PICK y \in 1 .. Len(s[x]) : p = Len(f[x - 1]) + y
      BY <3>2, Zenon
    <3>4. t[p] = s[x][y]
      <4>1. f[n][Len(f[x - 1]) + y] = s[x][y]
        <5> HIDE DEF n, s
        <5> QED BY <1>13, Zenon DEF InPlace
      <4> QED BY <3>3, <4>1, Zenon
    <3>5. s[x] = visit_fields[bases[c][x]]
      BY <1>8, Zenon
    <3>6. r[bases[c][x]] = field_count[bases[c][x]]
      <4>1. DOMAIN bases[c] = 1 .. n
        BY <1>3, DirectBases, Zenon
      <4> QED BY <1>12, <4>1, Zenon DEF InBase
    <3>7. Leads(r[bases[c][x]], bases[c][x], key)
      BY <1>4, Zenon
    <3>8. \A z \in 1 .. Len(visit_fields[bases[c][x]]) :
              ~Takes(visit_fields[bases[c][x]][z], key)
      BY <3>6, <3>7, Zenon DEF Leads
    <3> QED BY <3>4, <3>5, <3>8, Zenon
  <2> HIDE DEF t, u
  <2>4. ASSUME NEW p \in 1 .. Len(t) + Len(u) PROVE ~Takes(visit_fields[c][p], key)
    <3>1. CASE p <= Len(t)
      <4>1. p \in 1 .. Len(t)
        BY <1>7, <2>4, <3>1
      <4> QED BY <1>7, <2>3, <4>1, Zenon
    <3>2. CASE ~(p <= Len(t))
      <4>1. p - Len(t) \in 1 .. Len(u) /\ p = Len(t) + (p - Len(t))
        BY <1>7, <2>4, <3>2, Within, Zenon
      <4> QED BY <1>7, <2>2, <4>1, Zenon
    <3> QED BY <3>1, <3>2
  <2>5. Len(t) + Len(u) \in 0 .. Len(t) + Len(u)
    BY <1>7, Below, Zenon
  <2>6. Leads(r[c], c, key)
    BY <1>6, <1>7, <2>1, <2>4, <2>5, Zenon DEF Leads
  <2> QED BY <1>3, <2>6, Zenon
<1> QED BY <1>10, <1>11, <1>12

-----------------------------------------------------------------------------
(* What was stored is what the input said last.                            *)

Named(key, t) == {n \in 1 .. t : input[n].key = key}
LastNamed(key, t) == IF Named(key, t) # {} THEN Max(Named(key, t)) ELSE 0

LEMMA GreatestOf ==
    ASSUME NEW t \in Nat, NEW S, S \subseteq 1 .. t, S # {}
    PROVE  Max(S) \in S /\ \A y \in S : y <= Max(S)
<1> DEFINE B == {b \in Nat : \A y \in S : y <= b}
<1>1. t \in B /\ B \subseteq Nat
  OBVIOUS
<1>2. PICK b \in B : \A z \in B : b <= z
  <2> HIDE DEF B
  <2> QED BY <1>1, LeastNat
<1>3. b \in Nat /\ \A y \in S : y <= b
  OBVIOUS
<1>4. b \in S
  <2>1. SUFFICES ASSUME b \notin S PROVE FALSE
    OBVIOUS
  <2>2. PICK x \in S : TRUE
    OBVIOUS
  <2>3. b # 0
    BY <1>3, <2>2
  <2>4. ASSUME NEW y \in S PROVE y <= b - 1
    <3>1. y \in Nat /\ y <= b /\ y # b
      BY <1>3, <2>1
    <3> QED BY <1>3, <3>1
  <2>5. b - 1 \in B /\ ~(b <= b - 1)
    BY <1>3, <2>3, <2>4
  <2> HIDE DEF B
  <2> QED BY <1>2, <2>5
<1>5. \E x \in S : \A y \in S : x >= y
  <2>1. \A y \in S : b >= y
    BY <1>3
  <2> QED BY <1>4, <2>1
<1>6. Max(S) \in S /\ \A y \in S : Max(S) >= y
  BY <1>5 DEF Max
<1>7. \A y \in S : y \in Nat
  OBVIOUS
<1> QED BY <1>6, <1>7

\* The last of the first t keys, and of one more.
LEMMA LastNamedIs ==
    ASSUME NEW t \in Nat, NEW key
    PROVE  /\ LastNamed(key, t) \in 0 .. t
           /\ LastNamed(key, 0) = 0
           /\ input[t + 1].key = key => LastNamed(key, t + 1) = t + 1
           /\ input[t + 1].key # key => LastNamed(key, t + 1) = LastNamed(key, t)
<1> DEFINE S == Named(key, t)
           S1 == Named(key, t + 1)
<1>1. S \subseteq 1 .. t /\ S1 \subseteq 1 .. t + 1 /\ t + 1 \in Nat /\ Named(key, 0) = {}
  BY DEF Named
<1>2. LastNamed(key, t) \in 0 .. t
  <2>1. CASE S = {}
    BY <2>1 DEF LastNamed
  <2>2. CASE S # {}
    <3>1. Max(S) \in S
      <4> HIDE DEF S
      <4> QED BY <1>1, <2>2, GreatestOf
    <3> DEFINE m == Max(S)
    <3>2. m \in S
      BY <3>1
    <3> HIDE DEF m, S
    <3>3. m \in 0 .. t
      BY <1>1, <3>2
    <3> QED BY <2>2, <3>3, Zenon DEF LastNamed, m, S
  <2> QED BY <2>1, <2>2
<1>3. LastNamed(key, 0) = 0
  BY <1>1 DEF LastNamed
<1>4. ASSUME input[t + 1].key = key PROVE LastNamed(key, t + 1) = t + 1
  <2>1. t + 1 \in S1
    BY <1>4 DEF Named
  <2>2. Max(S1) \in S1 /\ \A y \in S1 : y <= Max(S1)
    <3> HIDE DEF S1
    <3> QED BY <1>1, <2>1, GreatestOf
  <2> DEFINE m == Max(S1)
  <2>3. m \in 1 .. t + 1 /\ t + 1 <= m
    <3> HIDE DEF S1
    <3> QED BY <1>1, <2>1, <2>2
  <2> HIDE DEF m
  <2>4. m = t + 1
    BY <2>3
  <2> QED BY <2>1, <2>4, Zenon DEF LastNamed, m
<1>5. ASSUME input[t + 1].key # key PROVE LastNamed(key, t + 1) = LastNamed(key, t)
  <2>1. ASSUME NEW n PROVE n \in S1 <=> n \in S
    <3>1. n \in 1 .. t + 1 /\ n # t + 1 <=> n \in 1 .. t
      OBVIOUS
    <3>2. n \in S1 <=> n \in 1 .. t + 1 /\ input[n].key = key
      BY Zenon DEF Named
    <3>3. n \in S <=> n \in 1 .. t /\ input[n].key = key
      BY Zenon DEF Named
    <3>4. n = t + 1 => input[n].key # key
      BY <1>5, Zenon
    <3> HIDE DEF S, S1
    <3> QED BY <3>1, <3>2, <3>3, <3>4, Zenon
  <2>2. S1 = S
    <3> HIDE DEF S, S1
    <3> QED BY <2>1, Zenon
  <2> QED BY <2>2, Zenon DEF LastNamed
<1> QED BY <1>2, <1>3, <1>4, <1>5

-----------------------------------------------------------------------------
(* The invariant.                                                          *)

\* What is chosen at the start.
Chosen ==
    /\ Hierarchy
    /\ serialized_keys_unique(T)
    /\ input \in Seq(Member)
    /\ taken \in 0 .. Len(input)

\* Until an exception, seen[] tells which fields hold a new value.
SeenIsStored ==
    reading # "failed" => seen = {k \in DOMAIN value : value[k] # 0}

ObjectInv == Chosen /\ FieldsExact /\ SeenIsStored

\* The key that the first t of the input stored in field k.
LastStored(k, t) ==
    IF Kept(visit_fields[T][k + 1]) THEN LastNamed(visit_fields[T][k + 1].key, t) ELSE 0

\* Stored, by field.
Holds(k) == value[k] = LastStored(k, taken) \/ (reading = "failed" /\ LastStored(k, taken) = taken)
AllHold == \A k \in DOMAIN value : Holds(k)

LEMMA StoredIsHolds == Stored <=> AllHold
<1>1. ASSUME NEW k
      PROVE  LET field == visit_fields[T][k + 1]
                 named == {n \in 1 .. taken : input[n].key = field.key}
             IN  LastStored(k, taken) = IF Kept(field) /\ named # {} THEN Max(named) ELSE 0
  BY Zenon DEF LastStored, LastNamed, Named
<1> QED BY <1>1, Zenon DEF Stored, AllHold, Holds

LEMMA LastStep ==
    ASSUME NEW t \in Nat, NEW k
    PROVE  /\ LastStored(k, t) \in 0 .. t /\ LastStored(k, 0) = 0
           /\ Takes(visit_fields[T][k + 1], input[t + 1].key) => LastStored(k, t + 1) = t + 1
           /\ ~Takes(visit_fields[T][k + 1], input[t + 1].key) => LastStored(k, t + 1) = LastStored(k, t)
<1>1. 0 \in 0 .. t
  OBVIOUS
<1> QED BY <1>1, LastNamedIs, Zenon DEF LastStored, Takes

LEMMA Bounded ==
    ASSUME NEW S, NEW n \in Nat PROVE BoundedSeq(S, n) \subseteq Seq(S)
<1> SUFFICES ASSUME NEW s \in BoundedSeq(S, n) PROVE s \in Seq(S)
  OBVIOUS
<1>1. PICK m \in 0 .. n : s \in [1 .. m -> S]
  BY Zenon DEF BoundedSeq, SeqOf
<1>2. m \in Nat
  OBVIOUS
<1> QED BY <1>1, <1>2

\* The numbers below the count, and the places of the fields.
LEMMA FieldIndices ==
    ASSUME Hierarchy, T \in Classes
    PROVE  /\ field_count[T] \in Nat
           /\ DOMAIN visit_fields[T] = 1 .. field_count[T]
           /\ \A k \in 0 .. field_count[T] - 1 : k + 1 \in DOMAIN visit_fields[T]
<1> DEFINE t == visit_fields[T]
<1>1. t \in Seq(OwnField) /\ field_count[T] = Len(t) /\ field_count[T] \in Nat
  BY FieldsInARow
<1>2. DOMAIN t = 1 .. Len(t)
  <2>1. t \in Seq(OwnField)
    BY <1>1
  <2> HIDE DEF t
  <2> QED BY <2>1
<1> HIDE DEF t
<1>3. DOMAIN t = 1 .. field_count[T]
  BY <1>1, <1>2
<1>4. \A k \in 0 .. field_count[T] - 1 : k + 1 \in DOMAIN t
  BY <1>1, <1>3
<1> QED BY <1>1, <1>3, <1>4 DEF t

LEMMA TopClass ==
    ASSUME Hierarchy, ObjectAssumption PROVE T \in Classes
  BY DEF ObjectAssumption, Classes, T

\* No step changes the class or the input.
LEMMA SameClass ==
    ASSUME UNCHANGED <<bases, own, input>>
    PROVE  /\ visit_fields' = visit_fields /\ field_count' = field_count
           /\ \A k, t : LastStored(k, t)' = LastStored(k, t)
<1>1. bases' = bases /\ own' = own /\ input' = input
  OBVIOUS
<1>2. visit_fields' = visit_fields
  BY <1>1 DEF visit_fields
<1>3. field_count' = field_count
  BY <1>2 DEF field_count
<1>4. \A key, t : LastNamed(key, t)' = LastNamed(key, t)
  BY <1>1 DEF LastNamed, Named
<1>5. \A k, t : LastStored(k, t)' = LastStored(k, t)
  BY <1>2, <1>4, Zenon DEF LastStored
<1> QED BY <1>2, <1>3, <1>5

LEMMA SameChosen ==
    ASSUME Chosen, UNCHANGED <<bases, own, input>>, taken' \in 0 .. Len(input)
    PROVE  Chosen'
<1>1. bases' = bases /\ own' = own /\ input' = input /\ visit_fields' = visit_fields
  BY SameClass
<1>2. Hierarchy'
  BY <1>1, Zenon DEF Chosen, Hierarchy
<1>3. serialized_keys_unique(T)'
  BY <1>1, Zenon DEF Chosen, serialized_keys_unique
<1> QED BY <1>1, <1>2, <1>3, Zenon DEF Chosen

\* The place in the input.
LEMMA MoreInput ==
    ASSUME Chosen, More
    PROVE  /\ taken \in Nat /\ taken + 1 \in Nat /\ taken + 1 \in 0 .. Len(input)
           /\ Current = input[taken + 1] /\ Current \in Member
<1>1. input \in Seq(Member) /\ taken \in 0 .. Len(input) /\ taken < Len(input)
  BY DEF Chosen, More
<1>2. taken + 1 \in 1 .. Len(input)
  BY <1>1
<1> QED BY <1>1, <1>2 DEF Current

\* Only one field takes a key.
LEMMA OneField ==
    ASSUME Hierarchy, T \in Classes, serialized_keys_unique(T),
           NEW key, NEW i \in 0 .. field_count[T] - 1, NEW k \in 0 .. field_count[T] - 1,
           Takes(visit_fields[T][i + 1], key), Takes(visit_fields[T][k + 1], key)
    PROVE  i = k
<1>1. i + 1 \in DOMAIN visit_fields[T] /\ k + 1 \in DOMAIN visit_fields[T]
  BY FieldIndices, Zenon
<1>2. i + 1 = k + 1
  BY <1>1, Zenon DEF serialized_keys_unique, Takes
<1>3. i \in Int /\ k \in Int
  BY FieldIndices
<1> QED BY <1>2, <1>3

LEMMA ReadStep ==
    ASSUME ObjectInv, ObjectAssumption, ReadField
    PROVE  ObjectInv'
<1> DEFINE key == Current.key
           i == read_field(key)[T]
           n == field_count[T]
           D == 0 .. n - 1
<1>1. /\ Hierarchy /\ Chosen /\ serialized_keys_unique(T) /\ T \in Classes
      /\ reading = "reading" /\ More
  BY TopClass, Zenon DEF ObjectInv, Chosen, ReadField
<1>2. /\ taken \in Nat /\ taken + 1 \in Nat /\ taken + 1 \in 0 .. Len(input)
      /\ Current = input[taken + 1] /\ Current.readable \in BOOLEAN
  BY <1>1, MoreInput DEF Member
<1>3. taken' = taken + 1 /\ UNCHANGED <<bases, own, input>> /\ i # n
  BY Zenon DEF ReadField
<1>4. /\ visit_fields' = visit_fields /\ field_count' = field_count /\ n' = n /\ D' = D
      /\ \A k, t : LastStored(k, t)' = LastStored(k, t)
  BY <1>3, SameClass
<1>5. Chosen'
  BY <1>1, <1>2, <1>3, SameChosen
<1>6. n \in Nat /\ i \in D /\ Takes(visit_fields[T][i + 1], key)
  <2>1. Leads(i, T, key)
    BY <1>1, KeyFound, Zenon
  <2>2. n \in Nat
    BY <1>1, FieldIndices, Zenon
  <2>3. i \in 0 .. n /\ Takes(visit_fields[T][i + 1], key)
    BY <1>3, <2>1, Zenon DEF Leads
  <2> HIDE DEF i, n
  <2>4. i \in 0 .. n - 1
    BY <1>3, <2>2, <2>3
  <2> QED BY <2>2, <2>3, <2>4 DEF i
<1>7. \A k \in D : k # i => ~Takes(visit_fields[T][k + 1], key)
  <2> HIDE DEF i, key
  <2> QED BY <1>1, <1>6, OneField, Zenon
<1>8. value \in [D -> 0 .. taken] /\ seen \subseteq D /\ DOMAIN value = D
  BY DEF ObjectInv, FieldsExact, FieldTypes
<1>9. \A k \in D : value[k] = LastStored(k, taken)
  <2>1. \A k \in D : Holds(k)
    BY <1>8, StoredIsHolds, Zenon DEF ObjectInv, FieldsExact, AllHold
  <2>2. reading # "failed"
    BY <1>1
  <2> QED BY <2>1, <2>2, Zenon DEF Holds
<1>10. seen = {k \in D : value[k] # 0}
  BY <1>1, <1>8 DEF ObjectInv, SeenIsStored
<1>11. /\ LastStored(i, taken + 1) = taken + 1
       /\ \A k \in D : k # i => LastStored(k, taken + 1) = LastStored(k, taken)
  BY <1>2, <1>6, <1>7, LastStep, Zenon
<1> HIDE DEF i, key, n, D
<1>12. CASE /\ value' = [value EXCEPT ![i] = taken + 1]
            /\ seen' = seen \cup {i} /\ reading' = "reading"
  <2>1. value' \in [D -> 0 .. taken + 1] /\ seen' \subseteq D /\ DOMAIN value' = D
    BY <1>2, <1>6, <1>8, <1>12
  <2>2. \A k \in D : value'[k] = LastStored(k, taken + 1)
    BY <1>6, <1>8, <1>9, <1>11, <1>12
  <2>3. seen' = {k \in D : value'[k] # 0}
    BY <1>2, <1>6, <1>8, <1>10, <1>12
  <2>4. FieldTypes'
    BY <1>3, <1>4, <1>12, <2>1 DEF FieldTypes, D, n
  <2>5. Stored'
    <3>1. \A k \in DOMAIN value' : Holds(k)'
      BY <1>3, <1>4, <2>1, <2>2, Zenon DEF Holds
    <3>2. AllHold'
      BY <3>1 DEF AllHold
    <3> QED BY <3>2, StoredIsHolds, PTL
  <2>6. RequiredWasRead' /\ MissingIsMissing' /\ SeenIsStored'
    BY <1>12, <2>1, <2>3 DEF RequiredWasRead, MissingIsMissing, SeenIsStored
  <2> QED BY <1>5, <2>4, <2>5, <2>6, Zenon DEF ObjectInv, FieldsExact
<1>14. CASE /\ value' \in {value, [value EXCEPT ![i] = taken + 1]}
            /\ seen' = seen /\ reading' = "failed"
  <2>1. value' \in [D -> 0 .. taken + 1] /\ DOMAIN value' = D
    BY <1>2, <1>6, <1>8, <1>14
  <2>2. \A k \in D : k # i => value'[k] = LastStored(k, taken + 1)
    BY <1>6, <1>8, <1>9, <1>11, <1>14
  <2>3. FieldTypes'
    BY <1>3, <1>4, <1>8, <1>14, <2>1 DEF FieldTypes, D, n
  <2>4. Stored'
    <3>1. \A k \in DOMAIN value' : Holds(k)'
      BY <1>3, <1>4, <1>11, <1>14, <2>1, <2>2, Zenon DEF Holds
    <3>2. AllHold'
      BY <3>1 DEF AllHold
    <3> QED BY <3>2, StoredIsHolds, PTL
  <2>5. RequiredWasRead' /\ MissingIsMissing' /\ SeenIsStored'
    BY <1>14 DEF RequiredWasRead, MissingIsMissing, SeenIsStored
  <2> QED BY <1>5, <2>3, <2>4, <2>5, Zenon DEF ObjectInv, FieldsExact
<1> QED BY <1>1, <1>2, <1>12, <1>14 DEF ReadField, i, key

\* A step that stores nothing keeps what was stored, if what the input said
\* last stays the same.
LEMMA NothingStored ==
    ASSUME ObjectInv, UNCHANGED <<bases, own, input, seen, value>>,
           reading = "reading", taken \in Nat, taken' \in 0 .. Len(input),
           taken' \in Nat, taken <= taken',
           \A k \in 0 .. field_count[T] - 1 : LastStored(k, taken') = LastStored(k, taken)
    PROVE  Chosen' /\ Stored' /\ SeenIsStored'
           /\ (reading' \in {"reading", "read", "missing", "failed"} => FieldTypes')
<1> DEFINE n == field_count[T]
           D == 0 .. n - 1
<1>1. Chosen'
  BY SameChosen DEF ObjectInv
<1>2. /\ visit_fields' = visit_fields /\ field_count' = field_count
      /\ \A k, t : LastStored(k, t)' = LastStored(k, t)
  BY SameClass
<1>3. value \in [D -> 0 .. taken] /\ seen \subseteq D /\ DOMAIN value = D
      /\ value' = value /\ seen' = seen
  BY DEF ObjectInv, FieldsExact, FieldTypes
<1>4. \A k \in D : value[k] = LastStored(k, taken)
  <2>1. \A k \in D : Holds(k)
    BY <1>3, StoredIsHolds, Zenon DEF ObjectInv, FieldsExact, AllHold
  <2>2. reading # "failed"
    OBVIOUS
  <2> QED BY <2>1, <2>2, Zenon DEF Holds
<1>5. Stored'
  <2>1. \A k \in DOMAIN value' : Holds(k)'
    BY <1>2, <1>3, <1>4, Zenon DEF Holds
  <2>2. AllHold'
    BY <2>1 DEF AllHold
  <2> QED BY <2>2, StoredIsHolds, PTL
<1>6. SeenIsStored'
  BY <1>3 DEF ObjectInv, SeenIsStored
<1>7. value' \in [D -> 0 .. taken']
  <2> HIDE DEF D
  <2>1. 0 .. taken \subseteq 0 .. taken'
    OBVIOUS
  <2> QED BY <1>3, <2>1
<1> QED BY <1>1, <1>2, <1>3, <1>5, <1>6, <1>7 DEF FieldTypes

LEMMA SkipStep ==
    ASSUME ObjectInv, ObjectAssumption, SkipValue
    PROVE  ObjectInv'
<1> DEFINE key == Current.key
           n == field_count[T]
           D == 0 .. n - 1
<1>1. /\ Hierarchy /\ Chosen /\ T \in Classes /\ reading = "reading" /\ More
  BY TopClass, Zenon DEF ObjectInv, Chosen, SkipValue
<1>2. /\ taken \in Nat /\ taken + 1 \in Nat /\ taken + 1 \in 0 .. Len(input)
      /\ Current = input[taken + 1]
  BY <1>1, MoreInput
<1>3. /\ taken' = taken + 1 /\ UNCHANGED <<bases, own, input, seen, value>>
      /\ read_field(key)[T] = n /\ reading' \in {"reading", "failed"}
  BY <1>1 DEF SkipValue
<1>4. \A k \in D : ~Takes(visit_fields[T][k + 1], key)
  <2>1. Leads(read_field(key)[T], T, key)
    BY <1>1, KeyFound, Zenon
  <2>2. \A x \in 1 .. Len(visit_fields[T]) : ~Takes(visit_fields[T][x], key)
    BY <1>3, <2>1, Zenon DEF Leads
  <2>3. Len(visit_fields[T]) = n
    BY <1>1, FieldsInARow, Zenon
  <2>4. ASSUME NEW k \in D PROVE k + 1 \in 1 .. n
    BY <1>1, FieldIndices, <2>4
  <2> QED BY <2>2, <2>3, <2>4, Zenon
<1>5. \A k \in D : LastStored(k, taken + 1) = LastStored(k, taken)
  BY <1>2, <1>4, LastStep, Zenon
<1>6. Chosen' /\ FieldTypes' /\ Stored' /\ SeenIsStored'
  <2>1. taken' \in 0 .. Len(input) /\ taken' \in Nat /\ taken <= taken'
    BY <1>2, <1>3
  <2>2. \A k \in D : LastStored(k, taken') = LastStored(k, taken)
    BY <1>3, <1>5, Zenon
  <2>3. reading' \in {"reading", "read", "missing", "failed"}
    BY <1>3
  <2>4. UNCHANGED <<bases, own, input, seen, value>>
    BY <1>3
  <2> HIDE DEF key
  <2> QED BY <1>1, <1>2, <2>1, <2>2, <2>3, <2>4, NothingStored
<1>7. RequiredWasRead' /\ MissingIsMissing'
  BY <1>3 DEF RequiredWasRead, MissingIsMissing
<1> QED BY <1>6, <1>7, Zenon DEF ObjectInv, FieldsExact

LEMMA EndStep ==
    ASSUME ObjectInv, ObjectAssumption, End
    PROVE  ObjectInv'
<1> DEFINE n == field_count[T]
           D == 0 .. n - 1
<1>1. /\ Hierarchy /\ Chosen /\ T \in Classes /\ reading = "reading"
  BY TopClass, Zenon DEF ObjectInv, Chosen, End
<1>2. UNCHANGED <<bases, own, input, seen, value>> /\ taken' = taken
  BY DEF End
<1>3. taken \in Nat /\ taken \in 0 .. Len(input)
  BY <1>1 DEF Chosen
<1>4. Chosen' /\ FieldTypes' /\ Stored' /\ SeenIsStored'
  <2>1. taken' \in 0 .. Len(input) /\ taken' \in Nat /\ taken <= taken'
    BY <1>2, <1>3
  <2>2. \A k \in D : LastStored(k, taken') = LastStored(k, taken)
    BY <1>2, Zenon
  <2>3. reading' \in {"reading", "read", "missing", "failed"}
    BY DEF End
  <2> QED BY <1>1, <1>2, <1>3, <2>1, <2>2, <2>3, NothingStored
<1>5. visit_fields' = visit_fields /\ value' = value /\ DOMAIN value = D
      /\ seen = {k \in D : value[k] # 0}
  <2>1. DOMAIN value = D /\ reading # "failed"
    BY <1>1 DEF ObjectInv, FieldsExact, FieldTypes
  <2>2. visit_fields' = visit_fields
    BY <1>2, SameClass
  <2> QED BY <1>2, <2>1, <2>2 DEF ObjectInv, SeenIsStored
<1>6. Missing = {k \in D : visit_fields[T][k + 1].attribute = "required" /\ value[k] = 0}
  BY <1>5 DEF Missing
<1>7. reading' = IF Missing = {} THEN "read" ELSE "missing"
  BY DEF End
<1>8. RequiredWasRead' /\ MissingIsMissing'
  <2> HIDE DEF D
  <2> QED BY <1>5, <1>6, <1>7 DEF RequiredWasRead, MissingIsMissing
<1> QED BY <1>4, <1>8, Zenon DEF ObjectInv, FieldsExact

LEMMA StayStep ==
    ASSUME ObjectInv, UNCHANGED objectVars
    PROVE  ObjectInv'
<1>1. /\ bases' = bases /\ own' = own /\ input' = input /\ taken' = taken
      /\ seen' = seen /\ value' = value /\ reading' = reading
  BY DEF objectVars
<1>2. visit_fields' = visit_fields /\ field_count' = field_count
  BY <1>1, SameClass
<1>3. Chosen'
  <2>1. taken \in 0 .. Len(input)
    BY DEF ObjectInv, Chosen
  <2> QED BY <1>1, <2>1, SameChosen DEF ObjectInv
<1>4. FieldTypes' /\ Stored' /\ RequiredWasRead' /\ MissingIsMissing' /\ SeenIsStored'
  BY <1>1, <1>2 DEF ObjectInv, FieldsExact, FieldTypes, Stored, RequiredWasRead,
                    MissingIsMissing, SeenIsStored
<1> QED BY <1>3, <1>4, Zenon DEF ObjectInv, FieldsExact

\* The bounds on the fields have a greatest.
LEMMA BoundIsNat ==
    ASSUME ObjectAssumption
    PROVE  Max({MaxOwn[c] : c \in Classes}) \in Nat
<1> DEFINE N == NumClasses
           Highest(n) == \E b \in 1 .. n : \A c \in 1 .. n : MaxOwn[c] <= MaxOwn[b]
           Bad == {n \in 1 .. N : ~Highest(n)}
           S == {MaxOwn[c] : c \in Classes}
<1>1. N \in Nat /\ N # 0 /\ MaxOwn \in [Classes -> Nat] /\ Classes = 1 .. N
  BY DEF ObjectAssumption, Classes
<1>2. \A c \in 1 .. N : MaxOwn[c] \in Nat
  BY <1>1
<1>3. Highest(N)
  <2>1. SUFFICES ASSUME Bad # {} PROVE FALSE
    <3>1. N \in 1 .. N
      BY <1>1
    <3> HIDE DEF Highest
    <3> QED BY <3>1
  <2>2. PICK n \in Bad : \A y \in Bad : n <= y
    <3>1. Bad \subseteq Nat
      BY <1>1
    <3> HIDE DEF Bad
    <3> QED BY <2>1, <3>1, LeastNat
  <2>3. n \in 1 .. N /\ ~Highest(n)
    BY Zenon
  <2>4. CASE n = 1
    <3>1. \A c \in 1 .. 1 : MaxOwn[c] <= MaxOwn[1]
      BY <1>1, <1>2
    <3>2. 1 \in 1 .. 1
      OBVIOUS
    <3> QED BY <2>3, <2>4, <3>1, <3>2
  <2>5. CASE n # 1
    <3>1. n - 1 \in 1 .. N /\ ~(n <= n - 1) /\ n \in Nat
      BY <1>1, <2>3, <2>5
    <3>2. Highest(n - 1)
      <4> HIDE DEF Highest
      <4> QED BY <2>2, <3>1
    <3>3. PICK b \in 1 .. n - 1 : \A c \in 1 .. n - 1 : MaxOwn[c] <= MaxOwn[b]
      BY <3>2
    <3>4. b \in 1 .. N /\ b \in 1 .. n /\ n \in 1 .. n
      BY <1>1, <2>3, <3>1
    <3>5. MaxOwn[b] \in Nat /\ MaxOwn[n] \in Nat
      BY <1>2, <2>3, <3>4
    <3>6. \A c \in 1 .. n : c \in 1 .. n - 1 \/ c = n
      BY <3>1
    <3>7. \A c \in 1 .. n - 1 : c \in 1 .. N
      BY <1>1, <2>3
    <3>8. CASE MaxOwn[n] <= MaxOwn[b]
      <4>1. \A c \in 1 .. n : MaxOwn[c] <= MaxOwn[b]
        BY <3>3, <3>6, <3>8
      <4> QED BY <2>3, <3>4, <4>1
    <3>9. CASE ~(MaxOwn[n] <= MaxOwn[b])
      <4>1. ASSUME NEW c \in 1 .. n PROVE MaxOwn[c] <= MaxOwn[n]
        <5>1. CASE c = n
          BY <3>5, <5>1
        <5>2. CASE c # n
          <6>1. c \in 1 .. n - 1 /\ MaxOwn[c] <= MaxOwn[b] /\ MaxOwn[c] \in Nat
            BY <1>2, <3>3, <3>6, <3>7, <5>2
          <6> QED BY <3>5, <3>9, <6>1
        <5> QED BY <5>1, <5>2
      <4> QED BY <2>3, <3>4, <4>1
    <3> QED BY <3>8, <3>9
  <2> QED BY <2>4, <2>5
<1>4. PICK b \in 1 .. N : \A c \in 1 .. N : MaxOwn[c] <= MaxOwn[b]
  BY <1>3
<1>5. S \subseteq Nat /\ \E x \in S : \A y \in S : x >= y
  <2>1. MaxOwn[b] \in S
    BY <1>1
  <2>2. ASSUME NEW y \in S PROVE MaxOwn[b] >= y /\ y \in Nat
    <3>1. PICK c \in 1 .. N : y = MaxOwn[c]
      BY <1>1
    <3> QED BY <1>2, <1>4, <3>1
  <2> QED BY <2>1, <2>2
<1>6. Max(S) \in S
  <2> HIDE DEF S
  <2> QED BY <1>5 DEF Max
<1> QED BY <1>5, <1>6

LEMMA ObjectStart ==
    ASSUME ObjectAssumption, ObjectInit
    PROVE  ObjectInv
<1> DEFINE n == field_count[T]
           D == 0 .. n - 1
<1>1. Hierarchy
  <2>1. NumClasses \in Nat
    BY DEF ObjectAssumption
  <2>2. bases \in [Classes -> Seq(Classes)]
        /\ \A c \in Classes : \A k \in DOMAIN bases[c] : bases[c][k] < c
    BY Zenon DEF ObjectAssumption, ObjectInit
  <2>3. own \in [Classes -> Seq(OwnField)]
    <3> DEFINE m == Max({MaxOwn[c] : c \in Classes})
               B == BoundedSeq(OwnField, m)
               V == Seq(OwnField)
    <3>1. m \in Nat
      BY BoundIsNat
    <3>2. B \subseteq V
      <4> HIDE DEF m
      <4> QED BY <3>1, Bounded
    <3>3. own \in [Classes -> B]
      BY Zenon DEF ObjectInit
    <3> HIDE DEF B, V
    <3>4. own \in [Classes -> V]
      BY <3>2, <3>3
    <3> QED BY <3>4 DEF V
  <2> QED BY <2>1, <2>2, <2>3, Zenon DEF Hierarchy
<1>2. T \in Classes
  BY <1>1, TopClass
<1>3. input \in Seq(Member)
  <2>1. BoundedSeq(Member, MaxInput) \subseteq Seq(Member)
    BY Bounded DEF ObjectAssumption
  <2>2. input \in BoundedSeq(Member, MaxInput)
    BY Zenon DEF ObjectInit
  <2> QED BY <2>1, <2>2, Zenon
<1>4. /\ taken = 0 /\ seen = {} /\ value = [k \in D |-> 0] /\ reading = "reading"
      /\ serialized_keys_unique(T)
  BY Zenon DEF ObjectInit
<1>5. Chosen
  <2>1. 0 \in 0 .. Len(input)
    BY <1>3
  <2> QED BY <1>1, <1>3, <1>4, <2>1, Zenon DEF Chosen
<1>6. FieldTypes
  <2> HIDE DEF D
  <2>1. value \in [D -> 0 .. taken] /\ seen \subseteq D
    BY <1>4
  <2> QED BY <1>4, <2>1, Zenon DEF FieldTypes, D
<1>7. Stored
  <2> HIDE DEF D
  <2>1. \A k : LastStored(k, 0) = 0
    <3>1. 0 \in Nat
      OBVIOUS
    <3> QED BY <3>1, LastStep, Zenon
  <2>2. \A k \in DOMAIN value : value[k] = 0
    BY <1>4
  <2>3. AllHold
    BY <1>4, <2>1, <2>2, Zenon DEF AllHold, Holds
  <2> QED BY <2>3, StoredIsHolds
<1>8. RequiredWasRead /\ MissingIsMissing
  BY <1>4 DEF RequiredWasRead, MissingIsMissing
<1>9. SeenIsStored
  <2> HIDE DEF D
  <2> QED BY <1>4 DEF SeenIsStored
<1> QED BY <1>5, <1>6, <1>7, <1>8, <1>9, Zenon DEF ObjectInv, FieldsExact

THEOREM ObjectInvariant == ObjectSpec => []ObjectInv
<1>1. ObjectInit => ObjectInv
  BY ObjectAssumption, ObjectStart
<1>2. ObjectInv /\ [ObjectNext]_objectVars => ObjectInv'
  <2> SUFFICES ASSUME ObjectInv, [ObjectNext]_objectVars PROVE ObjectInv'
    OBVIOUS
  <2>1. CASE ReadField
    BY <2>1, ObjectAssumption, ReadStep
  <2>2. CASE SkipValue
    BY <2>2, ObjectAssumption, SkipStep
  <2>3. CASE End
    BY <2>3, ObjectAssumption, EndStep
  <2>4. CASE UNCHANGED objectVars
    BY <2>4, StayStep
  <2> QED BY <2>1, <2>2, <2>3, <2>4 DEF ObjectNext
<1> QED BY <1>1, <1>2, PTL DEF ObjectSpec

\* read_object stores what the input says, the last of a key that comes twice,
\* and returns exactly when no required field was missing: for every hierarchy
\* of classes, every list of fields whose keys are unique, every input.
THEOREM FieldsAreExact == ObjectSpec => []FieldsExact
<1>1. ObjectInv => FieldsExact
  BY DEF ObjectInv
<1> QED BY <1>1, ObjectInvariant, PTL

-----------------------------------------------------------------------------
(* Pointers to derived types.                                              *)

DocType == [written : Seq(Types), tags : Seq(Names \cup {None})]
LevelType == [type : Types, own : SUBSET Heap, below : Seq(Types)]
HeldType == [doc : DocType, kinds : Seq(Types), own : SUBSET Heap]
Ops == {"idle", "write", "find", "cast", "value", "end"}

PTypeOK ==
    /\ file \in DocType
    /\ work \in [Callers -> [op : Ops, doc : DocType]]
    /\ frames \in [Callers -> Seq(LevelType)]
    /\ held \in [Callers -> HeldType]
    /\ live \subseteq Heap

-----------------------------------------------------------------------------
(* Owners.                                                                  *)

\* What a pointer h and the frames f of a read own.
FrameOwn(f) == UNION {f[i].own : i \in DOMAIN f}
OwnOf(h, f) == h.own \cup FrameOwn(f)
ThreadOwn(th) == OwnOf(held[th], frames[th])

\* They share nothing.
Apart(h, f) ==
    /\ \A i \in DOMAIN f : h.own \cap f[i].own = {}
    /\ \A i, j \in DOMAIN f : i # j => f[i].own \cap f[j].own = {}

Owners ==
    /\ live = UNION {ThreadOwn(th) : th \in Callers}
    /\ \A t1, t2 \in Callers : t1 # t2 => ThreadOwn(t1) \cap ThreadOwn(t2) = {}
    /\ \A th \in Callers : Apart(held[th], frames[th])

-----------------------------------------------------------------------------
(* Documents.                                                               *)

\* A tag names its type; the registry has the type, or it is the static one.
\* Of a document that nobody wrote, nothing is known.
DocOk(d) ==
    \A i \in DOMAIN d.tags : i \in DOMAIN d.written =>
        /\ d.tags[i] = NameOf[d.written[i]]
        /\ by_name_[d.tags[i]] = d.written[i] \/ d.written[i] = Static

\* What TagsMeanTypes says of one level: type t for level i of document d.
Meant(t, d, i) ==
    /\ NameOf[t] = d.tags[i]
    /\ i \in DOMAIN d.written =>
           t = d.written[i] \/ (d.written[i] = Static /\ by_name_[NameOf[Static]] = t)

\* A read: every frame has the type of its level, the innermost is castable
\* once the cast was looked at, and what hangs below it is the rest.
ReadOk(op, d, f) ==
    LET n == Len(f) IN
    /\ \A i \in 1 .. n : Meant(f[i].type, d, i) /\ (i < n \/ op # "cast" => f[i].type \in Declared)
    /\ op = "find" => n < Len(d.tags)
    /\ op \in {"cast", "value"} => n \in 1 .. Len(d.tags) /\ f[n].below = <<>>
    /\ op = "end" =>
           /\ n # 0 /\ Len(d.tags) = n + Len(f[n].below)
           /\ \A j \in DOMAIN f[n].below : Meant(f[n].below[j], d, n + j) /\ f[n].below[j] \in Declared

WorkOk(w, f) ==
    /\ DocOk(w.doc)
    /\ w.op = "write" => Len(w.doc.tags) < Len(w.doc.written)
    /\ IF w.op \in {"idle", "write"} THEN f = <<>> ELSE ReadOk(w.op, w.doc, f)

HeldOk(h) ==
    h # Empty =>
        /\ Len(h.kinds) = Len(h.doc.tags)
        /\ \A i \in DOMAIN h.kinds : Meant(h.kinds[i], h.doc, i) /\ h.kinds[i] \in Declared

Documents == DocOk(file) /\ \A th \in Callers : WorkOk(work[th], frames[th]) /\ HeldOk(held[th])

-----------------------------------------------------------------------------
Listed == {types_[i] : i \in DOMAIN types_}
Tagged == {t \in Types : by_name_[NameOf[t]] = t}

RegistryInv == RegistryTypeOK /\ IndexesAgree /\ IsFiniteSet(Listed)

PointerInv == RegistryInv /\ PTypeOK /\ Owners /\ Documents

-----------------------------------------------------------------------------
(* The registry.                                                            *)

LEMMA RegisterKept ==
  ASSUME PointerAssumption, RegistryInv, NEW t \in Types, add(t)
  PROVE  RegistryInv' /\ \A n \in Names : by_name_[n] # None => by_name_'[n] = by_name_[n]
<1>1. PICK n \in Names : n = NameOf[t]  BY DEF Names
<1>2. PICK k \in 1 .. 5 :
           /\ by_name_' = IF k > 1 THEN [by_name_ EXCEPT ![n] = t] ELSE by_name_
           /\ by_id_' = IF k > 2 THEN by_id_ \cup {t} ELSE by_id_
           /\ by_rtti_' = IF k > 3 THEN by_rtti_ \cup {t} ELSE by_rtti_
           /\ types_' = IF k > 4 THEN Append(types_, t) ELSE types_
           /\ failed' = (failed \/ k < 5)
  BY <1>1 DEF add
<1>3. /\ by_name_ \in [Names -> Types \cup {None}] /\ by_id_ \subseteq Types /\ by_rtti_ \subseteq Types
      /\ types_ \in Seq(Types) /\ failed \in BOOLEAN
      /\ None \notin Types /\ by_name_[n] = None
  BY <1>1 DEF RegistryInv, RegistryTypeOK, PointerAssumption, add, find_name
<1>4. /\ \A m \in Names : by_name_[m] = None \/ NameOf[by_name_[m]] = m
      /\ Listed \subseteq by_rtti_ /\ by_rtti_ \subseteq by_id_ /\ by_id_ \subseteq Tagged
      /\ ~failed => Listed = Tagged
      /\ Cardinality(Listed) = Len(types_) /\ IsFiniteSet(Listed)
  BY DEF RegistryInv, IndexesAgree, Listed, Tagged
<1>5. /\ by_name_' \in [Names -> Types \cup {None}]
      /\ \A m \in Names : by_name_'[m] = IF k > 1 /\ m = n THEN t ELSE by_name_[m]
  BY <1>2, <1>3
<1>6. RegistryTypeOK'
  <2>1. failed' \in BOOLEAN  BY <1>2, Zenon
  <2>2. types_' \in Seq(Types)  BY <1>2, <1>3
  <2> QED  BY <1>2, <1>3, <1>5, <2>1, <2>2 DEF RegistryTypeOK
<1>7. \A m \in Names : by_name_[m] # None => by_name_'[m] = by_name_[m]  BY <1>3, <1>5
<1>8. \A m \in Names : by_name_'[m] = None \/ NameOf[by_name_'[m]] = m  BY <1>1, <1>4, <1>5
<1>9. t \notin Tagged /\ \A s \in Types : NameOf[s] \in Names  BY <1>1, <1>3 DEF Tagged, Names
<1>10. Tagged' = IF k > 1 THEN Tagged \cup {t} ELSE Tagged
  <2>1. ASSUME NEW s \in Types PROVE by_name_'[NameOf[s]] = s <=> (s \in Tagged \/ (k > 1 /\ s = t))
    <3>1. NameOf[s] \in Names  BY <1>9
    <3>2. CASE NameOf[s] = n
      <4>1. s \notin Tagged  BY <1>3, <3>2 DEF Tagged
      <4> QED  BY <1>1, <1>3, <1>5, <3>2, <4>1
    <3>3. CASE NameOf[s] # n  BY <1>1, <1>5, <3>1, <3>3 DEF Tagged
    <3> QED  BY <3>2, <3>3
  <2> QED  BY <2>1 DEF Tagged
<1>11. Listed' = IF k > 4 THEN Listed \cup {t} ELSE Listed
  <2>1. CASE k > 4
    <3>1. types_' = Append(types_, t)  BY <1>2, <2>1
    <3>2. PICK l \in Nat : l = Len(types_) /\ DOMAIN types_ = 1 .. l  BY <1>3
    <3>3. DOMAIN types_' = 1 .. l + 1 /\ types_'[l + 1] = t /\ \A i \in 1 .. l : types_'[i] = types_[i]
      BY <1>3, <3>1, <3>2
    <3>4. \A i \in 1 .. l + 1 : i = l + 1 \/ i \in 1 .. l  OBVIOUS
    <3>5. \A i \in 1 .. l : i \in 1 .. l + 1  OBVIOUS
    <3>6. l + 1 \in 1 .. l + 1  OBVIOUS
    <3> QED  BY <2>1, <3>2, <3>3, <3>4, <3>5, <3>6 DEF Listed
  <2>2. CASE ~(k > 4)
    <3>1. types_' = types_  BY <1>2, <2>2
    <3> QED  BY <2>2, <3>1 DEF Listed
  <2> QED  BY <2>1, <2>2
<1>12. Listed' \subseteq by_rtti_' /\ by_rtti_' \subseteq by_id_' /\ by_id_' \subseteq Tagged'
  BY <1>2, <1>4, <1>10, <1>11
<1>13. ~failed' => Listed' = Tagged'
  <2>1. ~failed' => ~failed /\ k = 5
    <3>1. ~failed' => ~failed /\ ~(k < 5)  BY <1>2, Zenon
    <3> QED  BY <3>1
  <2> QED  BY <1>4, <1>10, <1>11, <2>1
<1>14. Cardinality(Listed') = Len(types_') /\ IsFiniteSet(Listed')
  <2>1. CASE k > 4
    <3>1. t \notin Listed  BY <1>4, <1>9
    <3>2. Cardinality(Listed \cup {t}) = Cardinality(Listed) + 1 /\ IsFiniteSet(Listed \cup {t})  BY <1>4, <3>1, FS_AddElement
    <3>3. Len(types_') = Len(types_) + 1  BY <1>2, <1>3, <2>1
    <3> QED  BY <1>4, <1>11, <2>1, <3>2, <3>3
  <2>2. CASE ~(k > 4)  BY <1>2, <1>4, <1>11, <2>2
  <2> QED  BY <2>1, <2>2
<1> QED  BY <1>6, <1>7, <1>8, <1>12, <1>13, <1>14 DEF RegistryInv, IndexesAgree, Listed, Tagged

\* What was meant stays meant while names are added.
LEMMA MeantStays ==
  ASSUME PointerAssumption, \A n \in Names : by_name_[n] # None => by_name_'[n] = by_name_[n],
         NEW t \in Types, NEW d, NEW i, Meant(t, d, i)
  PROVE  Meant(t, d, i)'
<1>1. NameOf[Static] \in Names /\ t # None  BY DEF PointerAssumption, Names
<1> QED  BY <1>1 DEF Meant

LEMMA DocStays ==
  ASSUME PointerAssumption, \A n \in Names : by_name_[n] # None => by_name_'[n] = by_name_[n],
         NEW d \in DocType, DocOk(d)
  PROVE  DocOk(d)'
<1> SUFFICES ASSUME NEW i \in DOMAIN d.tags, i \in DOMAIN d.written
             PROVE  /\ d.tags[i] = NameOf[d.written[i]]
                    /\ by_name_'[d.tags[i]] = d.written[i] \/ d.written[i] = Static
  BY DEF DocOk
<1>1. d.written[i] \in Types /\ d.written[i] # None  BY DEF DocType, PointerAssumption
<1>2. d.tags[i] = NameOf[d.written[i]] /\ (by_name_[d.tags[i]] = d.written[i] \/ d.written[i] = Static)  BY DEF DocOk
<1>3. d.tags[i] \in Names  BY <1>1, <1>2 DEF Names
<1> QED  BY <1>1, <1>2, <1>3

LEMMA WorkStays ==
  ASSUME PointerAssumption, \A n \in Names : by_name_[n] # None => by_name_'[n] = by_name_[n],
         NEW w \in [op : Ops, doc : DocType], NEW f \in Seq(LevelType), WorkOk(w, f)
  PROVE  WorkOk(w, f)'
<1>1. DocOk(w.doc)'  BY DocStays DEF WorkOk
<1>2. ASSUME ReadOk(w.op, w.doc, f) PROVE ReadOk(w.op, w.doc, f)'
  <2>1. \A i \in 1 .. Len(f) : f[i].type \in Types /\ f[i].below \in Seq(Types)
    <3>1. \A i \in 1 .. Len(f) : f[i] \in LevelType  OBVIOUS
    <3> QED  BY <3>1 DEF LevelType
  <2>2. \A i \in 1 .. Len(f) : Meant(f[i].type, w.doc, i)'  BY <1>2, <2>1, MeantStays DEF ReadOk
  <2>3. ASSUME w.op = "end", NEW j \in DOMAIN f[Len(f)].below PROVE Meant(f[Len(f)].below[j], w.doc, Len(f) + j)'
    <3>1. Len(f) \in 1 .. Len(f)  BY <1>2, <2>3 DEF ReadOk
    <3>2. f[Len(f)].below[j] \in Types  BY <2>1, <3>1
    <3>3. Meant(f[Len(f)].below[j], w.doc, Len(f) + j)  BY <1>2, <2>3 DEF ReadOk
    <3> QED  BY <3>2, <3>3, MeantStays
  <2> QED  BY <1>2, <2>2, <2>3 DEF ReadOk
<1> QED  BY <1>1, <1>2 DEF WorkOk

LEMMA HeldStays ==
  ASSUME PointerAssumption, \A n \in Names : by_name_[n] # None => by_name_'[n] = by_name_[n],
         NEW h \in HeldType, HeldOk(h)
  PROVE  HeldOk(h)'
<1>1. \A i \in DOMAIN h.kinds : h.kinds[i] \in Types  BY DEF HeldType
<1> QED  BY <1>1, MeantStays DEF HeldOk

LEMMA RegisterStep ==
  ASSUME PointerAssumption, PointerInv, Register
  PROVE  PointerInv'
<1>1. PICK t \in Types : add(t) /\ UNCHANGED pointer  BY DEF Register
<1>2. file' = file /\ work' = work /\ frames' = frames /\ held' = held /\ live' = live  BY <1>1 DEF pointer
<1>3. RegistryInv' /\ \A n \in Names : by_name_[n] # None => by_name_'[n] = by_name_[n]
  BY <1>1, RegisterKept DEF PointerInv
<1>4. PTypeOK'  BY <1>2 DEF PointerInv, PTypeOK
<1>5. Owners'  BY <1>2 DEF PointerInv, Owners, ThreadOwn
<1>6. DocOk(file)'  BY <1>2, <1>3, DocStays DEF PointerInv, PTypeOK, Documents
<1>7. ASSUME NEW th \in Callers PROVE WorkOk(work[th], frames[th])' /\ HeldOk(held[th])'
  <2>1. PICK w \in [op : Ops, doc : DocType] : w = work[th]  BY DEF PointerInv, PTypeOK
  <2>2. PICK f \in Seq(LevelType) : f = frames[th]  BY DEF PointerInv, PTypeOK
  <2>3. PICK h \in HeldType : h = held[th]  BY DEF PointerInv, PTypeOK
  <2>4. WorkOk(w, f) /\ HeldOk(h)  BY <2>1, <2>2, <2>3 DEF PointerInv, Documents
  <2>5. WorkOk(w, f)' /\ HeldOk(h)'  BY <1>3, <2>4, WorkStays, HeldStays
  <2> QED  BY <1>2, <2>1, <2>2, <2>3, <2>5
<1>8. Documents'  BY <1>6, <1>7 DEF Documents
<1> QED  BY <1>3, <1>4, <1>5, <1>8 DEF PointerInv
-----------------------------------------------------------------------------
(* One thread at a time.                                                    *)

\* A step of th gives its pointer and frames what N says and frees the rest.
LEMMA OwnersStep ==
  ASSUME Owners, NEW th \in Callers, NEW N,
         \A u \in Callers : u # th => held'[u] = held[u] /\ frames'[u] = frames[u],
         ThreadOwn(th)' = N, N \cap (live \ ThreadOwn(th)) = {}, live' = (live \ ThreadOwn(th)) \cup N,
         Apart(held'[th], frames'[th])
  PROVE  Owners'
<1>1. \A u \in Callers : u # th => ThreadOwn(u)' = ThreadOwn(u)  BY DEF ThreadOwn
<1>2. \A u \in Callers : u # th => ThreadOwn(u) \subseteq live \ ThreadOwn(th)  BY DEF Owners
<1>3. \A t1, t2 \in Callers : t1 # t2 => ThreadOwn(t1)' \cap ThreadOwn(t2)' = {}  BY <1>1, <1>2 DEF Owners
<1>4. live' = UNION {ThreadOwn(u)' : u \in Callers}
  <2>1. ASSUME NEW x \in live' PROVE \E u \in Callers : x \in ThreadOwn(u)'
    <3>1. CASE x \in N  BY <3>1
    <3>2. CASE x \notin N
      <4>1. x \in live /\ x \notin ThreadOwn(th)  BY <2>1, <3>2
      <4>2. PICK u \in Callers : x \in ThreadOwn(u)  BY <4>1 DEF Owners
      <4> QED  BY <1>1, <4>1, <4>2
    <3> QED  BY <3>1, <3>2
  <2>2. ASSUME NEW u \in Callers, NEW x \in ThreadOwn(u)' PROVE x \in live'
    <3>1. CASE u = th  BY <2>2, <3>1
    <3>2. CASE u # th  BY <1>1, <1>2, <2>2, <3>2
    <3> QED  BY <3>1, <3>2
  <2> QED  BY <2>1, <2>2
<1>5. \A u \in Callers : Apart(held'[u], frames'[u])  BY DEF Owners
<1> QED  BY <1>3, <1>4, <1>5 DEF Owners, Apart

\* The registry stays as it is, and so does what the documents mean.
LEMMA SameNames ==
  ASSUME by_name_' = by_name_
  PROVE  /\ \A d : DocOk(d)' <=> DocOk(d)
         /\ \A w, f : WorkOk(w, f)' <=> WorkOk(w, f)
         /\ \A h : HeldOk(h)' <=> HeldOk(h)
<1>1. \A t, d, i : Meant(t, d, i)' <=> Meant(t, d, i)  BY DEF Meant
<1>2. \A d : DocOk(d)' <=> DocOk(d)  BY DEF DocOk
<1>3. \A op, d, f : ReadOk(op, d, f)' <=> ReadOk(op, d, f)  BY <1>1 DEF ReadOk
<1>4. \A w, f : WorkOk(w, f)' <=> WorkOk(w, f)  BY <1>2, <1>3 DEF WorkOk
<1>5. \A h : HeldOk(h)' <=> HeldOk(h)  BY <1>1 DEF HeldOk
<1> QED  BY <1>2, <1>4, <1>5

\* A step of th: what is left to show.
LEMMA ThreadStep ==
  ASSUME PointerInv, UNCHANGED registry, PTypeOK', NEW th \in Callers,
         \A u \in Callers : u # th => work'[u] = work[u] /\ held'[u] = held[u] /\ frames'[u] = frames[u],
         DocOk(file'), WorkOk(work'[th], frames'[th]), HeldOk(held'[th]), Owners'
  PROVE  PointerInv'
<1>1. /\ by_name_' = by_name_ /\ by_id_' = by_id_ /\ by_rtti_' = by_rtti_ /\ types_' = types_ /\ failed' = failed
  BY DEF registry
<1>2. RegistryInv'  BY <1>1 DEF PointerInv, RegistryInv, RegistryTypeOK, IndexesAgree, Listed
<1>3. ASSUME NEW u \in Callers PROVE WorkOk(work'[u], frames'[u]) /\ HeldOk(held'[u])
  <2>1. CASE u = th  BY <2>1
  <2>2. CASE u # th  BY <2>2 DEF PointerInv, Documents
  <2> QED  BY <2>1, <2>2
<1>4. /\ \A d : DocOk(d)' <=> DocOk(d)
      /\ \A w, f : WorkOk(w, f)' <=> WorkOk(w, f)
      /\ \A h : HeldOk(h)' <=> HeldOk(h)
  BY <1>1, SameNames
<1>5. DocOk(file)'
  <2>1. PICK d : d = file'  OBVIOUS
  <2>2. DocOk(d)'  BY <1>4, <2>1
  <2> QED  BY <2>1, <2>2
<1>6. ASSUME NEW u \in Callers PROVE WorkOk(work[u], frames[u])' /\ HeldOk(held[u])'
  <2>1. PICK w, f, h : w = work'[u] /\ f = frames'[u] /\ h = held'[u]  OBVIOUS
  <2>2. WorkOk(w, f) /\ HeldOk(h)  BY <1>3, <2>1
  <2>3. WorkOk(w, f)' /\ HeldOk(h)'  BY <1>4, <2>2
  <2> QED  BY <2>1, <2>3
<1> QED  BY <1>2, <1>5, <1>6 DEF PointerInv, Documents

\* A step that moves no object.
LEMMA OwnersSame ==
  ASSUME Owners, held' = held, live' = live, frames' = frames
  PROVE  Owners'
  BY DEF Owners, ThreadOwn

\* What the invariant says of one thread.
LEMMA ThreadFacts ==
  ASSUME PointerInv, NEW th \in Callers
  PROVE  /\ work[th] \in [op : Ops, doc : DocType] /\ frames[th] \in Seq(LevelType) /\ held[th] \in HeldType
         /\ WorkOk(work[th], frames[th]) /\ HeldOk(held[th]) /\ DocOk(file) /\ file \in DocType
         /\ Apart(held[th], frames[th]) /\ ThreadOwn(th) \subseteq live /\ live \subseteq Heap /\ Owners
         /\ PTypeOK /\ RegistryInv
<1>1. ThreadOwn(th) \subseteq live  BY DEF PointerInv, Owners
<1> QED  BY <1>1 DEF PointerInv, PTypeOK, Documents, Owners

-----------------------------------------------------------------------------
(* write_pointer                                                            *)

\* Nothing is known of no document.
LEMMA EmptyDoc == DocOk(Doc(<<>>, <<>>)) /\ Doc(<<>>, <<>>) \in DocType /\ WorkOk(Idle, <<>>) /\ Idle \in [op : Ops, doc : DocType]
<1>1. <<>> \in Seq(Types) /\ <<>> \in Seq(Names \cup {None})  OBVIOUS
<1>2. Doc(<<>>, <<>>) \in DocType  BY <1>1 DEF Doc, DocType
<1>3. DocOk(Doc(<<>>, <<>>))  BY DEF Doc, DocOk
<1>4. Idle.op = "idle" /\ Idle.doc = Doc(<<>>, <<>>) /\ Idle \in [op : Ops, doc : DocType]  BY <1>2 DEF Idle, Ops
<1> QED  BY <1>2, <1>3, <1>4 DEF WorkOk

\* Only the call under way changes.
LEMMA WorkOnly ==
  ASSUME PointerInv, NEW th \in Callers, NEW w \in [op : Ops, doc : DocType], work' = [work EXCEPT ![th] = w],
         WorkOk(w, frames[th]), UNCHANGED <<registry, frames, held, live>>, file' \in DocType, DocOk(file')
  PROVE  PointerInv'
<1>1. work' \in [Callers -> [op : Ops, doc : DocType]] /\ work'[th] = w /\ \A u \in Callers : u # th => work'[u] = work[u]
  BY DEF PointerInv, PTypeOK
<1>2. frames' = frames /\ held' = held /\ live' = live /\ UNCHANGED registry  OBVIOUS
<1>3. PTypeOK'  BY <1>1, <1>2 DEF PointerInv, PTypeOK
<1>4. Owners'  BY <1>2, OwnersSame DEF PointerInv
<1>5. HeldOk(held'[th]) /\ WorkOk(work'[th], frames'[th])  BY <1>1, <1>2, ThreadFacts
<1> QED  BY <1>1, <1>2, <1>3, <1>4, <1>5, ThreadStep

LEMMA IdleFacts ==
  ASSUME PointerInv, NEW th \in Callers, work[th] = Idle
  PROVE  frames[th] = <<>>
<1>1. work[th].op = "idle"  BY DEF Idle
<1> QED  BY <1>1, ThreadFacts DEF WorkOk

LEMMA StartWriteKept ==
  ASSUME PointerAssumption, PointerInv, NEW th \in Callers, StartWrite(th)
  PROVE  PointerInv'
<1>1. PICK chain \in Chains : work' = [work EXCEPT ![th] = [op |-> "write", doc |-> Doc(chain, <<>>)]]  BY DEF StartWrite
<1>2. chain \in Seq(Types) /\ Len(chain) \in Nat \ {0}
  <2>1. PICK n \in 1 .. MaxChain : chain \in [1 .. n -> Types]  BY DEF Chains
  <2>2. n \in Nat \ {0}  BY <2>1 DEF PointerAssumption
  <2> QED  BY <2>1, <2>2, LenProperties
<1>3. PICK w : w = [op |-> "write", doc |-> Doc(chain, <<>>)]  OBVIOUS
<1>4. w \in [op : Ops, doc : DocType] /\ w.op = "write" /\ w.doc.tags = <<>> /\ w.doc.written = chain
  <2>1. Doc(chain, <<>>) \in DocType  BY <1>2 DEF Doc, DocType
  <2> QED  BY <1>3, <2>1 DEF Ops, Doc
<1>5. WorkOk(w, frames[th])
  <2>1. frames[th] = <<>>  BY IdleFacts DEF StartWrite
  <2>2. DocOk(w.doc)  BY <1>4 DEF DocOk
  <2>3. Len(w.doc.tags) < Len(w.doc.written)  BY <1>2, <1>4
  <2> QED  BY <1>4, <2>1, <2>2, <2>3 DEF WorkOk
<1>6. file' \in DocType /\ DocOk(file')  BY ThreadFacts DEF StartWrite
<1> QED  BY <1>1, <1>3, <1>4, <1>5, <1>6, WorkOnly DEF StartWrite

LEMMA TagFacts ==
  ASSUME PointerAssumption, RegistryInv, NEW t \in Types, Tag(t) # None
  PROVE  Tag(t) = NameOf[t] /\ Tag(t) \in Names /\ (by_name_[NameOf[t]] = t \/ t = Static)
<1>1. CASE t \in by_rtti_
  <2>1. t \in Tagged  BY <1>1 DEF RegistryInv, IndexesAgree, Tagged
  <2> QED  BY <1>1, <2>1 DEF Tag, find_rtti, Tagged, Names, PointerAssumption
<1>2. CASE t \notin by_rtti_  BY <1>2 DEF Tag, find_rtti, Names, PointerAssumption
<1> QED  BY <1>1, <1>2

LEMMA WriteKept ==
  ASSUME PointerAssumption, PointerInv, NEW th \in Callers, write_polymorphic(th)
  PROVE  PointerInv'
<1>1. PICK d \in DocType : d = work[th].doc  BY ThreadFacts
<1>2. PICK k \in Nat : k = Len(d.tags)  BY DEF DocType
<1>3. PICK tag : tag = Tag(d.written[k + 1])  OBVIOUS
<1>4. PICK more : more = [d EXCEPT !.tags = Append(@, tag)]  OBVIOUS
<1>5. /\ work[th].op = "write" /\ UNCHANGED <<registry, frames, held, live>>
      /\ \/ tag = None /\ work' = [work EXCEPT ![th] = Idle] /\ file' = file
         \/ tag # None /\ Len(more.tags) < Len(d.written) /\ work' = [work EXCEPT ![th].doc = more] /\ file' = file
         \/ tag # None /\ Len(more.tags) = Len(d.written) /\ work' = [work EXCEPT ![th] = Idle] /\ file' = more
  BY <1>1, <1>2, <1>3, <1>4 DEF write_polymorphic
<1>6. WorkOk(work[th], frames[th]) /\ work[th] \in [op : Ops, doc : DocType] /\ DocOk(file) /\ file \in DocType /\ RegistryInv
  BY ThreadFacts
<1>7. frames[th] = <<>> /\ k < Len(d.written) /\ DocOk(d)  BY <1>1, <1>2, <1>5, <1>6 DEF WorkOk
<1>8. d.written \in Seq(Types) /\ d.tags \in Seq(Names \cup {None}) /\ k + 1 \in DOMAIN d.written /\ d.written[k + 1] \in Types
  BY <1>2, <1>7 DEF DocType
<1>9. ASSUME tag # None PROVE more \in DocType /\ more.written = d.written /\ DocOk(more)
  <2>1. tag = NameOf[d.written[k + 1]] /\ tag \in Names /\ (by_name_[tag] = d.written[k + 1] \/ d.written[k + 1] = Static)
    BY <1>3, <1>6, <1>8, <1>9, TagFacts
  <2>2. PICK tags : tags = Append(d.tags, tag)  OBVIOUS
  <2>3. /\ tags \in Seq(Names \cup {None}) /\ Len(tags) = k + 1 /\ DOMAIN tags = 1 .. k + 1 /\ tags[k + 1] = tag
        /\ \A i \in 1 .. k : tags[i] = d.tags[i] /\ i \in DOMAIN d.tags
    BY <1>2, <1>8, <2>1, <2>2
  <2>4. more \in DocType /\ more.written = d.written /\ more.tags = tags  BY <1>4, <2>2, <2>3 DEF DocType
  <2>5. ASSUME NEW i \in DOMAIN tags, i \in DOMAIN d.written
        PROVE  tags[i] = NameOf[d.written[i]] /\ (by_name_[tags[i]] = d.written[i] \/ d.written[i] = Static)
    <3>1. CASE i = k + 1  BY <2>1, <2>3, <3>1
    <3>2. CASE i # k + 1
      <4>1. i \in 1 .. k  BY <2>3, <2>5, <3>2
      <4> QED  BY <1>7, <2>3, <2>5, <4>1 DEF DocOk
    <3> QED  BY <3>1, <3>2
  <2> QED  BY <2>4, <2>5 DEF DocOk
<1>10. CASE tag = None
  BY <1>5, <1>6, <1>7, <1>10, EmptyDoc, WorkOnly
<1>11. CASE tag # None /\ Len(more.tags) < Len(d.written)
  <2>1. PICK w : w = [work[th] EXCEPT !.doc = more]  OBVIOUS
  <2>2. w \in [op : Ops, doc : DocType] /\ w.op = "write" /\ w.doc = more  BY <1>5, <1>6, <1>9, <1>11, <2>1
  <2>3. work' = [work EXCEPT ![th] = w] /\ file' = file
    <3>1. work' = [work EXCEPT ![th].doc = more] /\ file' = file  BY <1>5, <1>9, <1>11 DEF DocType
    <3> QED  BY <2>1, <3>1
  <2>4. WorkOk(w, frames[th])  BY <1>7, <1>9, <1>11, <2>2 DEF WorkOk
  <2> QED  BY <1>5, <1>6, <2>2, <2>3, <2>4, WorkOnly
<1>12. CASE tag # None /\ ~(Len(more.tags) < Len(d.written))
  <2>1. work' = [work EXCEPT ![th] = Idle] /\ file' = more  BY <1>5, <1>12
  <2> QED  BY <1>5, <1>7, <1>9, <1>12, <2>1, EmptyDoc, WorkOnly
<1> QED  BY <1>10, <1>11, <1>12
-----------------------------------------------------------------------------
(* read_pointer                                                             *)

LEMMA StartReadKept ==
  ASSUME PointerAssumption, PointerInv, NEW th \in Callers, StartRead(th)
  PROVE  PointerInv'
<1>1. PICK d \in {file} \cup {Doc(<<>>, <<n>>) : n \in Names \cup {None}} :
           d.tags # <<>> /\ work' = [work EXCEPT ![th] = [op |-> "find", doc |-> d]]
  BY DEF StartRead
<1>2. d \in DocType /\ DocOk(d)
  <2>1. CASE d = file  BY <2>1, ThreadFacts
  <2>2. CASE d # file
    <3>1. PICK n \in Names \cup {None} : d = Doc(<<>>, <<n>>)  BY <1>1, <2>2
    <3>2. <<>> \in Seq(Types) /\ <<n>> \in Seq(Names \cup {None})  OBVIOUS
    <3>3. d.written = <<>> /\ d \in DocType  BY <3>1, <3>2 DEF Doc, DocType
    <3> QED  BY <3>3 DEF DocOk
  <2> QED  BY <2>1, <2>2
<1>3. PICK w : w = [op |-> "find", doc |-> d]  OBVIOUS
<1>4. w \in [op : Ops, doc : DocType] /\ w.op = "find" /\ w.doc = d  BY <1>2, <1>3 DEF Ops
<1>5. frames[th] = <<>>  BY IdleFacts DEF StartRead
<1>6. ReadOk("find", d, <<>>)
  <2>1. Len(<<>>) = 0 /\ 1 .. 0 = {}  OBVIOUS
  <2>2. 0 < Len(d.tags)  BY <1>1, <1>2 DEF DocType
  <2> QED  BY <2>1, <2>2 DEF ReadOk
<1>7. WorkOk(w, frames[th])  BY <1>2, <1>4, <1>5, <1>6 DEF WorkOk
<1>8. file' \in DocType /\ DocOk(file')  BY ThreadFacts DEF StartRead
<1> QED  BY <1>1, <1>3, <1>4, <1>7, <1>8, WorkOnly DEF StartRead

LEMMA NoFrames == FrameOwn(<<>>) = {} /\ (\A h : OwnOf(h, <<>>) = h.own) /\ \A h : Apart(h, <<>>)
<1>1. DOMAIN <<>> = {}  OBVIOUS
<1> QED  BY <1>1 DEF FrameOwn, OwnOf, Apart

LEMMA ReadNullKept ==
  ASSUME PointerInv, NEW th \in Callers, ReadNull(th)
  PROVE  PointerInv'
<1>1. /\ frames[th] = <<>> /\ live' = live \ held[th].own /\ held' = [held EXCEPT ![th] = Empty]
      /\ UNCHANGED registry /\ file' = file /\ work' = work /\ frames' = frames
  BY IdleFacts DEF ReadNull
<1>2. Empty \in HeldType /\ Empty.own = {} /\ HeldOk(Empty)
  <2>1. <<>> \in Seq(Types)  OBVIOUS
  <2> QED  BY <2>1, EmptyDoc DEF Empty, HeldType, HeldOk
<1>3. held' \in [Callers -> HeldType] /\ held'[th] = Empty /\ \A u \in Callers : u # th => held'[u] = held[u]
  BY <1>1, <1>2 DEF PointerInv, PTypeOK
<1>4. PTypeOK'  BY <1>1, <1>3 DEF PointerInv, PTypeOK
<1>5. ThreadOwn(th) = held[th].own /\ ThreadOwn(th)' = {}  BY <1>1, <1>2, <1>3, NoFrames DEF ThreadOwn
<1>6. Owners'
  <2>1. live' = (live \ ThreadOwn(th)) \cup {}  BY <1>1, <1>5
  <2>2. Apart(held'[th], frames'[th])  BY <1>1, NoFrames
  <2> QED  BY <1>1, <1>3, <1>5, <2>1, <2>2, ThreadFacts, OwnersStep
<1>7. DocOk(file') /\ WorkOk(work'[th], frames'[th]) /\ HeldOk(held'[th])  BY <1>1, <1>2, <1>3, ThreadFacts
<1> QED  BY <1>1, <1>3, <1>4, <1>6, <1>7, ThreadStep

LEMMA ReadThrowKept ==
  ASSUME PointerInv, NEW th \in Callers, Fails(th)
  PROVE  PointerInv'
<1>1. /\ work' = [work EXCEPT ![th] = Idle] /\ frames' = [frames EXCEPT ![th] = <<>>]
      /\ live' = live \ FrameOwn(frames[th]) /\ UNCHANGED registry /\ file' = file /\ held' = held
  BY DEF Fails, FrameOwn
<1>2. /\ work' \in [Callers -> [op : Ops, doc : DocType]] /\ work'[th] = Idle
      /\ frames' \in [Callers -> Seq(LevelType)] /\ frames'[th] = <<>>
      /\ \A u \in Callers : u # th => work'[u] = work[u] /\ frames'[u] = frames[u]
  <2>1. <<>> \in Seq(LevelType)  OBVIOUS
  <2> QED  BY <1>1, <2>1, EmptyDoc DEF PointerInv, PTypeOK
<1>3. PTypeOK'  BY <1>1, <1>2 DEF PointerInv, PTypeOK
<1>4. PICK h, f : h = held[th] /\ f = frames[th]  OBVIOUS
<1>5. ThreadOwn(th) = h.own \cup FrameOwn(f) /\ ThreadOwn(th)' = h.own
  BY <1>1, <1>2, <1>4, NoFrames DEF ThreadOwn, OwnOf
<1>6. h.own \cap FrameOwn(f) = {} /\ h.own \subseteq live
  BY <1>4, <1>5, ThreadFacts DEF Apart, FrameOwn
<1>7. Owners'
  <2>1. live' = (live \ ThreadOwn(th)) \cup h.own /\ h.own \cap (live \ ThreadOwn(th)) = {}  BY <1>1, <1>4, <1>5, <1>6
  <2>2. Apart(held'[th], frames'[th])  BY <1>2, NoFrames
  <2> QED  BY <1>1, <1>2, <1>5, <2>1, <2>2, ThreadFacts, OwnersStep
<1>8. DocOk(file') /\ WorkOk(work'[th], frames'[th]) /\ HeldOk(held'[th])  BY <1>1, <1>2, EmptyDoc, ThreadFacts
<1> QED  BY <1>1, <1>2, <1>3, <1>7, <1>8, ThreadStep

\* What read_polymorphic takes a tag for is what the tag means.
LEMMA TypeOfFacts ==
  ASSUME PointerAssumption, RegistryInv, NEW d \in DocType, DocOk(d), NEW i \in DOMAIN d.tags,
         NEW t \in Types, t = TypeOf(d.tags[i])
  PROVE  Meant(t, d, i)
<1>1. PICK n \in Names \cup {None} : n = d.tags[i]  BY DEF DocType
<1>2. None \notin Types /\ None \notin Names /\ Static \in Types  BY DEF PointerAssumption
<1>3. \/ n \in Names /\ by_name_[n] # None /\ t = by_name_[n]
      \/ n = NameOf[Static] /\ t = Static /\ (n \in Names => by_name_[n] = None)
  BY <1>1, <1>2 DEF TypeOf, find_name
<1>4. NameOf[t] = n  BY <1>3 DEF RegistryInv, IndexesAgree
<1>5. ASSUME i \in DOMAIN d.written
      PROVE  t = d.written[i] \/ (d.written[i] = Static /\ by_name_[NameOf[Static]] = t)
  <2>1. d.written[i] \in Types /\ n = NameOf[d.written[i]] /\ n \in Names /\ (by_name_[n] = d.written[i] \/ d.written[i] = Static)
    BY <1>1, <1>5 DEF DocOk, DocType, Names
  <2> QED  BY <1>2, <1>3, <2>1
<1> QED  BY <1>1, <1>4, <1>5 DEF Meant

LEMMA CreateKept ==
  ASSUME PointerAssumption, PointerInv, NEW th \in Callers, Create(th)
  PROVE  PointerInv'
<1>1. PICK w \in [op : Ops, doc : DocType] : w = work[th]  BY ThreadFacts
<1>2. PICK f \in Seq(LevelType) : f = frames[th]  BY ThreadFacts
<1>3. PICK h \in HeldType : h = held[th]  BY ThreadFacts
<1>4. PICK n \in Nat : n = Len(f)  OBVIOUS
<1>5. PICK t : t = TypeOf(w.doc.tags[n + 1])  OBVIOUS
<1>6. w.op = "find" /\ DocOk(w.doc) /\ ReadOk("find", w.doc, f) /\ w.doc \in DocType /\ n < Len(w.doc.tags)
  BY <1>1, <1>2, <1>4, ThreadFacts DEF Create, At, WorkOk, ReadOk
<1>7. CASE t \notin Constructible
  <2>1. Fails(th)  BY <1>1, <1>2, <1>4, <1>5, <1>7 DEF Create, Level
  <2> QED  BY <2>1, ReadThrowKept
<1>8. CASE t \in Constructible
  <2>1. PICK o : o = CHOOSE x \in Heap : x \notin live  OBVIOUS
  <2>2. PICK g : g = [type |-> t, own |-> {o}, below |-> <<>>]  OBVIOUS
  <2>3. /\ Heap \ live # {} /\ live' = live \cup {o}
        /\ frames' = [frames EXCEPT ![th] = Append(f, g)] /\ work' = [work EXCEPT ![th].op = "cast"]
        /\ UNCHANGED registry /\ file' = file /\ held' = held
    BY <1>1, <1>2, <1>4, <1>5, <1>8, <2>1, <2>2 DEF Create, Level, Goes
  <2>4. o \in Heap /\ o \notin live  BY <2>1, <2>3
  <2>5. t \in Types  BY <1>8 DEF PointerAssumption
  <2>6. g \in LevelType /\ g.own = {o} /\ g.type = t /\ g.below = <<>>
    <3>1. <<>> \in Seq(Types)  OBVIOUS
    <3> QED  BY <2>2, <2>4, <2>5, <3>1 DEF LevelType
  <2>7. PICK e : e = Append(f, g)  OBVIOUS
  <2>8. /\ e \in Seq(LevelType) /\ Len(e) = n + 1 /\ e[n + 1] = g /\ (\A i \in 1 .. n : e[i] = f[i])
        /\ DOMAIN e = 1 .. n + 1 /\ DOMAIN f = 1 .. n
    BY <1>4, <2>6, <2>7
  <2>9. \A i \in 1 .. n + 1 : i = n + 1 \/ i \in 1 .. n  OBVIOUS
  <2>10. PICK v : v = [w EXCEPT !.op = "cast"]  OBVIOUS
  <2>11. v \in [op : Ops, doc : DocType] /\ v.op = "cast" /\ v.doc = w.doc  BY <2>10 DEF Ops
  <2>12. /\ work' \in [Callers -> [op : Ops, doc : DocType]] /\ work'[th] = v
         /\ frames' \in [Callers -> Seq(LevelType)] /\ frames'[th] = e
         /\ \A u \in Callers : u # th => work'[u] = work[u] /\ frames'[u] = frames[u]
    <3>1. work' = [work EXCEPT ![th] = v]  BY <1>1, <2>3, <2>10
    <3>2. work \in [Callers -> [op : Ops, doc : DocType]] /\ frames \in [Callers -> Seq(LevelType)]
      BY DEF PointerInv, PTypeOK
    <3>3. frames' = [frames EXCEPT ![th] = e] /\ e \in Seq(LevelType)  BY <2>3, <2>7, <2>8
    <3>4. /\ work' \in [Callers -> [op : Ops, doc : DocType]] /\ work'[th] = v
          /\ \A u \in Callers : u # th => work'[u] = work[u]
      BY <2>11, <3>1, <3>2
    <3>5. /\ frames' \in [Callers -> Seq(LevelType)] /\ frames'[th] = e
          /\ \A u \in Callers : u # th => frames'[u] = frames[u]
      BY <3>2, <3>3
    <3> QED  BY <3>4, <3>5
  <2>13. PTypeOK'  BY <2>3, <2>4, <2>12 DEF PointerInv, PTypeOK
  <2>14. ReadOk("cast", w.doc, e)
    <3>1. n + 1 \in DOMAIN w.doc.tags /\ n + 1 \in 1 .. Len(w.doc.tags)  BY <1>6 DEF DocType
    <3>2. Meant(t, w.doc, n + 1)  BY <1>5, <1>6, <2>5, <3>1, ThreadFacts, TypeOfFacts
    <3>3. \A i \in 1 .. n : Meant(f[i].type, w.doc, i) /\ f[i].type \in Declared  BY <1>4, <1>6 DEF ReadOk
    <3>4. \A i \in 1 .. n + 1 : Meant(e[i].type, w.doc, i) /\ (i < n + 1 => e[i].type \in Declared)
      BY <2>6, <2>8, <2>9, <3>2, <3>3
    <3> QED  BY <2>6, <2>8, <3>1, <3>4 DEF ReadOk
  <2>15. WorkOk(work'[th], frames'[th])  BY <1>6, <2>11, <2>12, <2>14 DEF WorkOk
  <2>16. FrameOwn(e) = FrameOwn(f) \cup {o}  BY <2>6, <2>8, <2>9 DEF FrameOwn
  <2>17. ThreadOwn(th)' = ThreadOwn(th) \cup {o}  BY <1>2, <1>3, <2>3, <2>12, <2>16 DEF ThreadOwn, OwnOf
  <2>18. ThreadOwn(th) \subseteq live /\ h.own \subseteq ThreadOwn(th) /\ \A i \in 1 .. n : f[i].own \subseteq ThreadOwn(th)
    BY <1>2, <1>3, <2>8, ThreadFacts DEF ThreadOwn, OwnOf, FrameOwn
  <2>19. Apart(h, e)
    <3>1. Apart(h, f)  BY <1>2, <1>3, ThreadFacts
    <3>2. o \notin h.own /\ \A i \in 1 .. n : o \notin f[i].own  BY <2>4, <2>18
    <3>3. \A i \in DOMAIN e : h.own \cap e[i].own = {}  BY <2>6, <2>8, <2>9, <3>1, <3>2 DEF Apart
    <3>4. \A i, j \in DOMAIN e : i # j => e[i].own \cap e[j].own = {}  BY <2>6, <2>8, <2>9, <3>1, <3>2 DEF Apart
    <3> QED  BY <3>3, <3>4 DEF Apart
  <2>20. Owners'
    <3>1. PICK N : N = ThreadOwn(th) \cup {o}  OBVIOUS
    <3>2. live' = (live \ ThreadOwn(th)) \cup N /\ N \cap (live \ ThreadOwn(th)) = {}  BY <2>3, <2>4, <2>18, <3>1
    <3>3. ThreadOwn(th)' = N /\ Apart(held'[th], frames'[th])  BY <1>3, <2>3, <2>12, <2>17, <2>19, <3>1
    <3> QED  BY <2>3, <2>12, <3>2, <3>3, ThreadFacts, OwnersStep
  <2> QED  BY <2>3, <2>12, <2>13, <2>15, <2>20, ThreadFacts, ThreadStep
<1> QED  BY <1>7, <1>8

\* The read goes on to op with the frames it has.
LEMMA GoesKept ==
  ASSUME PointerInv, NEW th \in Callers, NEW op \in {"find", "cast", "value", "end"}, Goes(th, op),
         UNCHANGED <<registry, file, frames, held, live>>, ReadOk(op, work[th].doc, frames[th])
  PROVE  PointerInv'
<1>1. PICK w : w = [work[th] EXCEPT !.op = op]  OBVIOUS
<1>2. w \in [op : Ops, doc : DocType] /\ w.op = op /\ w.doc = work[th].doc  BY <1>1, ThreadFacts DEF Ops
<1>3. work' = [work EXCEPT ![th] = w]  BY <1>1 DEF Goes
<1>4. WorkOk(w, frames[th])  BY <1>2, ThreadFacts DEF WorkOk
<1>5. file' \in DocType /\ DocOk(file')  BY ThreadFacts
<1> QED  BY <1>2, <1>3, <1>4, <1>5, WorkOnly

LEMMA CastKept ==
  ASSUME PointerInv, NEW th \in Callers, Cast(th)
  PROVE  PointerInv'
<1>1. CASE Fails(th)  BY <1>1, ReadThrowKept
<1>2. CASE Innermost(th).type \in Declared /\ Goes(th, "value") /\ UNCHANGED <<registry, file, frames, held, live>>
  <2>1. PICK f \in Seq(LevelType) : f = frames[th]  BY ThreadFacts
  <2>2. PICK d : d = work[th].doc  OBVIOUS
  <2>3. ReadOk("cast", d, f)  BY <2>1, <2>2, ThreadFacts DEF Cast, At, WorkOk
  <2>4. f[Len(f)].type \in Declared /\ Len(f) \in Nat  BY <1>2, <2>1 DEF Innermost, Level
  <2>5. \A i \in 1 .. Len(f) : i < Len(f) \/ i = Len(f)  BY <2>4
  <2>6. ReadOk("value", d, f)  BY <2>3, <2>4, <2>5 DEF ReadOk
  <2> QED  BY <1>2, <2>1, <2>2, <2>6, GoesKept
<1> QED  BY <1>1, <1>2 DEF Cast

LEMMA ValueKept ==
  ASSUME PointerInv, NEW th \in Callers, Value(th)
  PROVE  PointerInv'
<1>1. CASE Fails(th)  BY <1>1, ReadThrowKept
<1>2. CASE ~Fails(th)
  <2>1. PICK f \in Seq(LevelType) : f = frames[th]  BY ThreadFacts
  <2>2. PICK d \in DocType : d = work[th].doc  BY ThreadFacts
  <2>3. ReadOk("value", d, f)  BY <2>1, <2>2, ThreadFacts DEF Value, At, WorkOk
  <2>4. PICK op : op = IF Len(f) < Len(d.tags) THEN "find" ELSE "end"  OBVIOUS
  <2>5. Goes(th, op) /\ UNCHANGED <<registry, file, frames, held, live>>
    BY <1>2, <2>1, <2>2, <2>4 DEF Value, Level
  <2>6. ReadOk(op, d, f)
    <3>1. Len(f) \in Nat /\ Len(d.tags) \in Nat /\ Len(f) \in 1 .. Len(d.tags) /\ f[Len(f)].below = <<>>
      BY <2>3 DEF ReadOk, DocType
    <3>2. CASE Len(f) < Len(d.tags)  BY <2>3, <2>4, <3>2 DEF ReadOk
    <3>3. CASE ~(Len(f) < Len(d.tags))
      <4>1. op = "end" /\ Len(d.tags) = Len(f) + Len(<<>>) /\ Len(f) # 0 /\ DOMAIN <<>> = {}  BY <2>4, <3>1, <3>3
      <4> QED  BY <2>3, <3>1, <4>1 DEF ReadOk
    <3> QED  BY <3>2, <3>3
  <2> QED  BY <2>1, <2>2, <2>4, <2>5, <2>6, GoesKept
<1> QED  BY <1>1, <1>2
\* The chain that a finished level hands on.
LEMMA KindsOf ==
  ASSUME NEW d, NEW m \in Nat, NEW t \in Types, NEW below \in Seq(Types), Meant(t, d, m + 1), t \in Declared,
         \A j \in DOMAIN below : Meant(below[j], d, (m + 1) + j) /\ below[j] \in Declared,
         NEW kinds, kinds = <<t>> \o below
  PROVE  /\ kinds \in Seq(Types) /\ Len(kinds) = 1 + Len(below)
         /\ \A j \in DOMAIN kinds : Meant(kinds[j], d, m + j) /\ kinds[j] \in Declared
<1>1. PICK l \in Nat : l = Len(below) /\ DOMAIN below = 1 .. l  OBVIOUS
<1>2. <<t>> \in Seq(Types) /\ Len(<<t>>) = 1  OBVIOUS
<1>3. kinds \in Seq(Types) /\ Len(kinds) = 1 + l /\ DOMAIN kinds = 1 .. l + 1 /\ kinds[1] = t
  BY <1>1, <1>2
<1>4. \A j \in 1 .. l + 1 : j # 1 => kinds[j] = below[j - 1]  BY <1>1, <1>2
<1>5. ASSUME NEW j \in 1 .. l + 1 PROVE Meant(kinds[j], d, m + j) /\ kinds[j] \in Declared
  <2>1. CASE j = 1  BY <1>3, <2>1
  <2>2. CASE j # 1
    <3>1. j - 1 \in 1 .. l /\ (m + 1) + (j - 1) = m + j  BY <2>2
    <3> QED  BY <1>1, <1>4, <2>2, <3>1
  <2> QED  BY <2>1, <2>2
<1> QED  BY <1>1, <1>3, <1>5

\* The frame of a level goes, what it owned is its parent's.
HandedOn(f, e, n, p) ==
    /\ e \in Seq(LevelType) /\ Len(e) = n - 1 /\ e[n - 1] = p
    /\ \A i \in 1 .. n - 2 : e[i] = f[i]
    /\ p.type = f[n - 1].type /\ p.own = f[n - 1].own \cup f[n].own

LEMMA HandOn ==
  ASSUME NEW f \in Seq(LevelType), NEW n \in Nat, n = Len(f), n > 1,
         NEW p \in LevelType, p.type = f[n - 1].type, p.own = f[n - 1].own \cup f[n].own,
         NEW e, e = Append(SubSeq(f, 1, n - 2), p)
  PROVE  HandedOn(f, e, n, p)
<1>1. PICK m \in Nat : n = m + 2
  <2>1. n - 2 \in Nat /\ n = (n - 2) + 2  OBVIOUS
  <2> QED  BY <2>1
<1>2. /\ n - 2 = m /\ n - 1 = m + 1 /\ 1 \in Int /\ m \in Int /\ m - 1 + 1 = m /\ (1 <= m \/ m = 0)
      /\ (\A i \in 1 .. m : 1 + i - 1 = i) /\ \A i \in 1 .. m : i \in 1 .. Len(f)
  BY <1>1
<1>3. \A i \in 1 .. m : f[i] \in LevelType  BY <1>2
<1>4. /\ SubSeq(f, 1, m) \in Seq(LevelType) /\ Len(SubSeq(f, 1, m)) = m
      /\ \A i \in 1 .. m : SubSeq(f, 1, m)[i] = f[i]
  BY <1>2, <1>3, SubSeqProperties
<1>5. e = Append(SubSeq(f, 1, m), p)  BY <1>2
<1>6. e \in Seq(LevelType) /\ Len(e) = m + 1 /\ e[m + 1] = p /\ \A i \in 1 .. m : e[i] = f[i]
  <2>1. PICK q \in Seq(LevelType) : q = SubSeq(f, 1, m)  BY <1>4
  <2>2. Len(q) = m /\ (\A i \in 1 .. m : q[i] = f[i]) /\ p \in LevelType /\ e = Append(q, p)  BY <1>4, <1>5, <2>1
  <2> QED  BY <2>2
<1> QED  BY <1>2, <1>6 DEF HandedOn

LEMMA HandedOwners ==
  ASSUME NEW h, NEW f \in Seq(LevelType), NEW n \in Nat, n = Len(f), n > 1, NEW e, NEW p, HandedOn(f, e, n, p), Apart(h, f)
  PROVE  FrameOwn(e) = FrameOwn(f) /\ Apart(h, e)
<1>1. PICK m \in Nat : m = n - 2  BY n - 2 \in Nat
<1>2. /\ n - 1 = m + 1 /\ n = m + 2 /\ DOMAIN f = 1 .. m + 2
      /\ \A i \in 1 .. m + 2 : i \in 1 .. m \/ i = m + 1 \/ i = m + 2
      /\ \A i \in 1 .. m : i \in 1 .. m + 2 /\ i # m + 1 /\ i # m + 2
      /\ m + 1 \in 1 .. m + 2 /\ m + 2 \in 1 .. m + 2 /\ m + 1 # m + 2
  BY <1>1
<1>3. /\ e \in Seq(LevelType) /\ DOMAIN e = 1 .. m + 1 /\ (\A i \in 1 .. m : e[i] = f[i])
      /\ e[m + 1] = p /\ p.own = f[m + 1].own \cup f[m + 2].own
  BY <1>1, <1>2 DEF HandedOn
<1>4. \A i \in 1 .. m + 1 : i \in 1 .. m \/ i = m + 1  OBVIOUS
<1>5. (\A i \in 1 .. m : i \in 1 .. m + 1) /\ m + 1 \in 1 .. m + 1  OBVIOUS
<1>6. FrameOwn(e) = FrameOwn(f)
  <2>1. ASSUME NEW x \in FrameOwn(e) PROVE x \in FrameOwn(f)
    <3>1. PICK i \in 1 .. m + 1 : x \in e[i].own  BY <1>3, <2>1 DEF FrameOwn
    <3> QED  BY <1>2, <1>3, <1>4, <3>1 DEF FrameOwn
  <2>2. ASSUME NEW x \in FrameOwn(f) PROVE x \in FrameOwn(e)
    <3>1. PICK i \in 1 .. m + 2 : x \in f[i].own  BY <1>2, <2>2 DEF FrameOwn
    <3>2. CASE i \in 1 .. m  BY <1>3, <1>5, <3>1, <3>2 DEF FrameOwn
    <3>3. CASE i \notin 1 .. m
      <4>1. x \in e[m + 1].own  BY <1>2, <1>3, <3>1, <3>3
      <4> QED  BY <1>3, <1>5, <4>1 DEF FrameOwn
    <3> QED  BY <3>2, <3>3
  <2> QED  BY <2>1, <2>2
<1>7. /\ \A i \in 1 .. m + 2 : h.own \cap f[i].own = {}
      /\ \A i, j \in 1 .. m + 2 : i # j => f[i].own \cap f[j].own = {}
  BY <1>2 DEF Apart
<1>8. \A i \in 1 .. m + 1 : h.own \cap e[i].own = {}  BY <1>2, <1>3, <1>4, <1>7
<1>9. ASSUME NEW i \in 1 .. m PROVE e[i].own \cap e[m + 1].own = {}  BY <1>2, <1>3, <1>7
<1>10. \A i, j \in 1 .. m + 1 : i # j => e[i].own \cap e[j].own = {}  BY <1>2, <1>3, <1>4, <1>7, <1>9
<1> QED  BY <1>3, <1>6, <1>8, <1>10 DEF Apart

LEMMA EndObjectKept ==
  ASSUME PointerAssumption, PointerInv, NEW th \in Callers, EndObject(th)
  PROVE  PointerInv'
<1>1. PICK f \in Seq(LevelType) : f = frames[th]  BY ThreadFacts
<1>2. PICK n \in Nat : n = Len(f)  OBVIOUS
<1>3. PICK d \in DocType : d = work[th].doc  BY ThreadFacts
<1>4. PICK h \in HeldType : h = held[th]  BY ThreadFacts
<1>5. work[th].op = "end" /\ ReadOk("end", d, f) /\ DocOk(d)  BY <1>1, <1>3, ThreadFacts DEF EndObject, At, WorkOk
<1>6. n # 0 /\ f[n] \in LevelType /\ f[n].type \in Types /\ f[n].below \in Seq(Types) /\ f[n].own \subseteq Heap
  <2>1. n # 0  BY <1>2, <1>5 DEF ReadOk
  <2>2. n \in 1 .. Len(f)  BY <1>2, <2>1
  <2>3. f[n] \in LevelType  BY <2>2
  <2> QED  BY <2>1, <2>3 DEF LevelType
<1>7. PICK kinds : kinds = <<f[n].type>> \o f[n].below  OBVIOUS
<1>8. PICK m \in Nat : n = m + 1
  <2>1. n - 1 \in Nat /\ n = (n - 1) + 1  BY <1>6
  <2> QED  BY <2>1
<1>9. /\ \A i \in 1 .. n : Meant(f[i].type, d, i) /\ f[i].type \in Declared
      /\ Len(d.tags) = n + Len(f[n].below)
      /\ \A j \in DOMAIN f[n].below : Meant(f[n].below[j], d, n + j) /\ f[n].below[j] \in Declared
  BY <1>2, <1>5 DEF ReadOk
<1>10. /\ kinds \in Seq(Types) /\ Len(kinds) = 1 + Len(f[n].below)
       /\ \A j \in DOMAIN kinds : Meant(kinds[j], d, m + j) /\ kinds[j] \in Declared
  <2>1. n \in 1 .. n  BY <1>6
  <2>2. Meant(f[n].type, d, m + 1) /\ f[n].type \in Declared  BY <1>8, <1>9, <2>1
  <2>3. \A j \in DOMAIN f[n].below : Meant(f[n].below[j], d, (m + 1) + j) /\ f[n].below[j] \in Declared  BY <1>8, <1>9
  <2> QED  BY <1>6, <1>7, <2>2, <2>3, KindsOf
<1>11. CASE Fails(th)  BY <1>11, ReadThrowKept
<1>12. CASE ~Fails(th) /\ n > 1
  <2>1. PICK p : p = [type |-> f[n - 1].type, own |-> f[n - 1].own \cup f[n].own, below |-> kinds]  OBVIOUS
  <2>2. PICK e : e = Append(SubSeq(f, 1, n - 2), p)  OBVIOUS
  <2>3. /\ frames' = [frames EXCEPT ![th] = e] /\ UNCHANGED registry /\ file' = file /\ work' = work
        /\ held' = held /\ live' = live
    <3>1. Level(th) = n /\ Innermost(th) = f[n]  BY <1>1, <1>2 DEF Innermost, Level
    <3>2. /\ frames' = [frames EXCEPT ![th] = Append(SubSeq(f, 1, n - 2),
                 [type |-> f[n - 1].type, own |-> f[n - 1].own \cup f[n].own, below |-> <<f[n].type>> \o f[n].below])]
          /\ UNCHANGED <<registry, file, work, held, live>>
      BY <1>1, <1>12, <3>1 DEF EndObject
    <3> QED  BY <1>7, <2>1, <2>2, <3>2
  <2>4. HandedOn(f, e, n, p) /\ p.below = kinds
    <3>1. n > 1 /\ kinds \in Seq(Types)  BY <1>10, <1>12
    <3>2. f[n - 1] \in LevelType /\ f[n] \in LevelType
      <4>1. n - 1 \in 1 .. Len(f) /\ n \in 1 .. Len(f)  BY <1>2, <3>1
      <4> QED  BY <4>1
    <3>3. p \in LevelType /\ p.type = f[n - 1].type /\ p.own = f[n - 1].own \cup f[n].own /\ p.below = kinds
      BY <2>1, <3>1, <3>2 DEF LevelType
    <3>4. HandedOn(f, e, n, p)  BY <1>2, <2>2, <3>1, <3>3, HandOn
    <3> QED  BY <3>3, <3>4
  <2>5. FrameOwn(e) = FrameOwn(f) /\ Apart(h, e)
    BY <1>1, <1>2, <1>4, <1>12, <2>4, HandedOwners, ThreadFacts
  <2>6. /\ e \in Seq(LevelType) /\ Len(e) = m /\ e[m] = p /\ p.type = f[m].type /\ m # 0
        /\ \A i \in 1 .. m : e[i].type = f[i].type
    <3>1. n - 1 = m /\ m # 0 /\ \A i \in 1 .. m : i = m \/ i \in 1 .. n - 2  BY <1>8, <1>12
    <3> QED  BY <2>4, <3>1 DEF HandedOn
  <2>7. /\ frames' \in [Callers -> Seq(LevelType)] /\ frames'[th] = e
        /\ \A u \in Callers : u # th => frames'[u] = frames[u]
    BY <2>3, <2>6 DEF PointerInv, PTypeOK
  <2>8. PTypeOK'  BY <2>3, <2>7 DEF PointerInv, PTypeOK
  <2>9. ReadOk("end", d, e)
    <3>1. \A i \in 1 .. m : i \in 1 .. n  BY <1>8
    <3>2. \A i \in 1 .. m : Meant(e[i].type, d, i) /\ e[i].type \in Declared  BY <1>9, <2>6, <3>1
    <3>3. Len(d.tags) = m + Len(kinds)
      <4>1. PICK l \in Nat : l = Len(f[n].below)  BY <1>6
      <4>2. Len(d.tags) = n + l /\ Len(kinds) = 1 + l  BY <1>9, <1>10, <4>1
      <4> QED  BY <1>8, <4>2
    <3> QED  BY <1>10, <2>4, <2>6, <3>2, <3>3 DEF ReadOk
  <2>10. WorkOk(work'[th], frames'[th])  BY <1>3, <1>5, <2>3, <2>7, <2>9 DEF WorkOk
  <2>11. Owners'
    <3>1. PICK N : N = ThreadOwn(th)  OBVIOUS
    <3>2. ThreadOwn(th)' = N  BY <1>1, <2>3, <2>5, <2>7, <3>1 DEF ThreadOwn, OwnOf
    <3>3. live' = (live \ ThreadOwn(th)) \cup N /\ N \cap (live \ ThreadOwn(th)) = {}  BY <2>3, <3>1, ThreadFacts
    <3>4. Apart(held'[th], frames'[th])  BY <1>4, <2>3, <2>5, <2>7
    <3> QED  BY <2>3, <2>7, <3>2, <3>3, <3>4, ThreadFacts, OwnersStep
  <2> QED  BY <2>3, <2>7, <2>8, <2>10, <2>11, ThreadFacts, ThreadStep
<1>13. CASE ~Fails(th) /\ ~(n > 1)
  <2>1. n = 1 /\ m = 0  BY <1>6, <1>8, <1>13
  <2>2. PICK g : g = [doc |-> d, kinds |-> kinds, own |-> f[n].own]  OBVIOUS
  <2>3. /\ live' = live \ h.own /\ held' = [held EXCEPT ![th] = g]
        /\ frames' = [frames EXCEPT ![th] = <<>>] /\ work' = [work EXCEPT ![th] = Idle]
        /\ UNCHANGED registry /\ file' = file
    BY <1>1, <1>2, <1>3, <1>4, <1>7, <1>13, <2>2 DEF EndObject, Innermost, Level
  <2>4. g \in HeldType /\ g.own = f[n].own /\ g.doc = d /\ g.kinds = kinds  BY <1>6, <1>10, <2>2 DEF HeldType
  <2>5. HeldOk(g)
    <3>1. Len(kinds) = Len(d.tags)  BY <1>9, <1>10, <2>1
    <3>2. \A j \in DOMAIN kinds : j \in Nat /\ 0 + j = j  BY <1>10
    <3>3. \A j \in DOMAIN kinds : Meant(kinds[j], d, j) /\ kinds[j] \in Declared  BY <1>10, <2>1, <3>2
    <3> QED  BY <2>4, <3>1, <3>3 DEF HeldOk
  <2>6. /\ work' \in [Callers -> [op : Ops, doc : DocType]] /\ work'[th] = Idle
        /\ frames' \in [Callers -> Seq(LevelType)] /\ frames'[th] = <<>>
        /\ held' \in [Callers -> HeldType] /\ held'[th] = g
        /\ \A u \in Callers : u # th => work'[u] = work[u] /\ frames'[u] = frames[u] /\ held'[u] = held[u]
    <3>1. <<>> \in Seq(LevelType)  OBVIOUS
    <3> QED  BY <2>3, <2>4, <3>1, EmptyDoc DEF PointerInv, PTypeOK
  <2>7. PTypeOK'  BY <2>3, <2>6 DEF PointerInv, PTypeOK
  <2>8. FrameOwn(f) = f[n].own
    <3>1. 1 .. 1 = {1}  OBVIOUS
    <3>2. DOMAIN f = {n}  BY <1>2, <2>1, <3>1, LenProperties
    <3> QED  BY <3>2 DEF FrameOwn
  <2>9. Owners'
    <3>1. PICK N : N = f[n].own  OBVIOUS
    <3>2. ThreadOwn(th)' = N /\ ThreadOwn(th) = h.own \cup N
      BY <1>1, <1>4, <2>4, <2>6, <2>8, <3>1, NoFrames DEF ThreadOwn, OwnOf
    <3>3. h.own \cap N = {}
      <4>1. n \in DOMAIN f
        <5>1. DOMAIN f = 1 .. n  BY <1>2, LenProperties
        <5>2. n \in 1 .. n  BY <2>1
        <5> QED  BY <5>1, <5>2
      <4> QED  BY <1>1, <1>4, <3>1, <4>1, ThreadFacts DEF Apart
    <3>4. live' = (live \ ThreadOwn(th)) \cup N /\ N \cap (live \ ThreadOwn(th)) = {}
      BY <2>3, <3>2, <3>3, ThreadFacts
    <3>5. Apart(held'[th], frames'[th])  BY <2>6, NoFrames
    <3> QED  BY <2>6, <3>2, <3>4, <3>5, ThreadFacts, OwnersStep
  <2>10. DocOk(file') /\ WorkOk(work'[th], frames'[th]) /\ HeldOk(held'[th])  BY <2>3, <2>5, <2>6, EmptyDoc, ThreadFacts
  <2> QED  BY <2>3, <2>6, <2>7, <2>9, <2>10, ThreadStep
<1> QED  BY <1>11, <1>12, <1>13

-----------------------------------------------------------------------------
LEMMA InitPointers == ASSUME PointerAssumption, PointerInit PROVE PointerInv
<1>1. RegistryInv
  <2>1. types_ = <<>> /\ DOMAIN types_ = {} /\ Len(types_) = 0  BY DEF PointerInit, RegistryInit
  <2>2. Listed = {}  BY <2>1 DEF Listed
  <2>3. \A n \in Names : by_name_[n] = None  BY DEF PointerInit, RegistryInit
  <2>4. Tagged = {}  BY <2>3 DEF Tagged, Names, PointerAssumption
  <2>5. RegistryTypeOK
    <3>1. types_ \in Seq(Types)  BY <2>1, EmptySeq
    <3>2. by_name_ \in [Names -> Types \cup {None}]  BY DEF PointerInit, RegistryInit
    <3>3. failed \in BOOLEAN  BY Zenon DEF PointerInit, RegistryInit
    <3>4. by_id_ \subseteq Types /\ by_rtti_ \subseteq Types  BY DEF PointerInit, RegistryInit
    <3> QED  BY <3>1, <3>2, <3>3, <3>4, Zenon DEF RegistryTypeOK
  <2>6. IsFiniteSet(Listed) /\ Cardinality(Listed) = 0  BY <2>2, FS_EmptySet
  <2>7. by_id_ = {} /\ by_rtti_ = {}  BY DEF PointerInit, RegistryInit
  <2>8. IndexesAgree  BY <2>1, <2>2, <2>3, <2>4, <2>6, <2>7 DEF IndexesAgree, Listed, Tagged
  <2> QED  BY <2>5, <2>6, <2>8 DEF RegistryInv
<1>2. Empty \in HeldType /\ Empty.own = {} /\ HeldOk(Empty)
  <2>1. <<>> \in Seq(Types)  OBVIOUS
  <2> QED  BY <2>1, EmptyDoc DEF Empty, HeldType, HeldOk
<1>3. /\ file = Doc(<<>>, <<>>) /\ work = [th \in Callers |-> Idle] /\ frames = [th \in Callers |-> <<>>]
      /\ held = [th \in Callers |-> Empty] /\ live = {}
  BY DEF PointerInit
<1>4. PTypeOK
  <2>1. <<>> \in Seq(LevelType)  OBVIOUS
  <2> QED  BY <1>2, <1>3, <2>1, EmptyDoc DEF PTypeOK
<1>5. \A th \in Callers : work[th] = Idle /\ frames[th] = <<>> /\ held[th] = Empty  BY <1>3
<1>6. Documents  BY <1>2, <1>3, <1>5, EmptyDoc DEF Documents
<1>7. \A th \in Callers : ThreadOwn(th) = {} /\ Apart(held[th], frames[th])  BY <1>2, <1>5, NoFrames DEF ThreadOwn
<1>8. Owners  BY <1>3, <1>7 DEF Owners
<1> QED  BY <1>1, <1>4, <1>6, <1>8 DEF PointerInv

LEMMA StepPointers ==
  ASSUME PointerAssumption, PointerInv, [PointerNext]_pointerVars
  PROVE  PointerInv'
<1>1. CASE UNCHANGED pointerVars
  <2>1. UNCHANGED registry /\ file' = file /\ work' = work /\ frames' = frames /\ held' = held /\ live' = live
    BY <1>1 DEF pointerVars, pointer
  <2>2. /\ by_name_' = by_name_ /\ by_id_' = by_id_ /\ by_rtti_' = by_rtti_ /\ types_' = types_ /\ failed' = failed
    BY <2>1 DEF registry
  <2>3. RegistryInv'  BY <2>2 DEF PointerInv, RegistryInv, RegistryTypeOK, IndexesAgree, Listed
  <2>4. PTypeOK' /\ Owners'  BY <2>1, OwnersSame DEF PointerInv, PTypeOK
  <2>5. /\ \A d : DocOk(d)' <=> DocOk(d)
        /\ \A w, f : WorkOk(w, f)' <=> WorkOk(w, f)
        /\ \A h : HeldOk(h)' <=> HeldOk(h)
    BY <2>2, SameNames
  <2>6. DocOk(file)'
    <3>1. PICK d : d = file  OBVIOUS
    <3>2. DocOk(d)'  BY <2>5, <3>1 DEF PointerInv, Documents
    <3> QED  BY <2>1, <3>1, <3>2
  <2>7. ASSUME NEW u \in Callers PROVE WorkOk(work[u], frames[u])' /\ HeldOk(held[u])'
    <3>1. PICK w, f, h : w = work[u] /\ f = frames[u] /\ h = held[u]  OBVIOUS
    <3>2. WorkOk(w, f)' /\ HeldOk(h)'  BY <2>5, <3>1 DEF PointerInv, Documents
    <3> QED  BY <2>1, <3>1, <3>2
  <2> QED  BY <2>3, <2>4, <2>6, <2>7 DEF PointerInv, Documents
<1>2. CASE Register  BY <1>2, RegisterStep
<1>3. ASSUME NEW th \in Callers, StartWrite(th) PROVE PointerInv'  BY <1>3, StartWriteKept
<1>4. ASSUME NEW th \in Callers, write_polymorphic(th) PROVE PointerInv'  BY <1>4, WriteKept
<1>5. ASSUME NEW th \in Callers, StartRead(th) PROVE PointerInv'  BY <1>5, StartReadKept
<1>6. ASSUME NEW th \in Callers, ReadNull(th) PROVE PointerInv'  BY <1>6, ReadNullKept
<1>7. ASSUME NEW th \in Callers, Create(th) PROVE PointerInv'  BY <1>7, CreateKept
<1>8. ASSUME NEW th \in Callers, Cast(th) PROVE PointerInv'  BY <1>8, CastKept
<1>9. ASSUME NEW th \in Callers, Value(th) PROVE PointerInv'  BY <1>9, ValueKept
<1>10. ASSUME NEW th \in Callers, EndObject(th) PROVE PointerInv'  BY <1>10, EndObjectKept
<1> QED  BY <1>1, <1>2, <1>3, <1>4, <1>5, <1>6, <1>7, <1>8, <1>9, <1>10 DEF PointerNext

LEMMA PointersFollow == PointerInv => PointersExact
<1> SUFFICES ASSUME PointerInv PROVE PointersExact  OBVIOUS
<1>1. OneOwner
  <2>1. ASSUME NEW th \in Callers PROVE UNION Sets(th) = ThreadOwn(th)  BY DEF Sets, ThreadOwn, OwnOf, FrameOwn
  <2>2. live = UNION UNION {Sets(th) : th \in Callers}
    <3>1. ASSUME NEW x \in live PROVE x \in UNION UNION {Sets(th) : th \in Callers}
      <4>1. PICK th \in Callers : x \in ThreadOwn(th)  BY <3>1 DEF PointerInv, Owners
      <4>2. PICK a \in Sets(th) : x \in a  BY <2>1, <4>1
      <4> QED  BY <4>2
    <3>2. ASSUME NEW x \in UNION UNION {Sets(th) : th \in Callers} PROVE x \in live
      <4>1. PICK a \in UNION {Sets(th) : th \in Callers} : x \in a  BY <3>2
      <4>2. PICK th \in Callers : a \in Sets(th)  BY <4>1
      <4>3. x \in ThreadOwn(th)  BY <2>1, <4>1, <4>2
      <4> QED  BY <4>3 DEF PointerInv, Owners
    <3> QED  BY <3>1, <3>2
  <2>3. ASSUME NEW t1 \in Callers, NEW t2 \in Callers, NEW a \in Sets(t1), NEW b \in Sets(t2), t1 # t2 \/ a # b
        PROVE  a \cap b = {}
    <3>1. a \subseteq ThreadOwn(t1) /\ b \subseteq ThreadOwn(t2)  BY <2>1
    <3>2. CASE t1 # t2  BY <3>1, <3>2 DEF PointerInv, Owners
    <3>3. CASE t1 = t2
      <4>1. Apart(held[t1], frames[t1]) /\ a # b  BY <2>3, <3>3 DEF PointerInv, Owners
      <4> QED  BY <3>3, <4>1 DEF Apart, Sets
    <3> QED  BY <3>2, <3>3
  <2> QED  BY <2>2, <2>3 DEF OneOwner
<1>2. TagsMeanTypes  BY DEF PointerInv, Documents, HeldOk, Meant, TagsMeanTypes
<1> QED  BY <1>1, <1>2 DEF PointerInv, RegistryInv, PointersExact

\* read_polymorphic and write_polymorphic (serial/detail/pointer.h) while
\* registry::add (runtime/registry.h) runs and fails half way: every object
\* that a read created has one owner through every exception, and a pointer
\* holds at every level the type that its document names.  For any types,
\* names, threads, depth of the chain and size of the heap.
THEOREM PointersStayExact == ASSUME PointerAssumption PROVE PointerSpec => []PointersExact
<1>1. PointerInit => PointerInv  BY InitPointers
<1>2. PointerInv /\ [PointerNext]_pointerVars => PointerInv'  BY StepPointers
<1>3. PointerSpec => []PointerInv  BY <1>1, <1>2, PTL DEF PointerSpec
<1> QED  BY <1>3, PointersFollow, PTL
=============================================================================
