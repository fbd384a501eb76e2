------------------------ MODULE RuntimeValues_proofs ------------------------
(***************************************************************************)
(* Proofs about ValueViews, for any number of slots and blocks, and about  *)
(* MethodCall, for any calls of any signature.                             *)
(*                                                                         *)
(* A view does not name everything it needs: its storage_ names some       *)
(* blocks, those keep others (the record of a bound call keeps what its    *)
(* receiver and its arguments had), and so on.  What storage keeps is the  *)
(* closure of its blocks under holds.  The argument is that a view shows   *)
(* something that its own storage keeps, and that in every chain of        *)
(* storage the blocks that a block points into are kept by the chain from  *)
(* that block on, so that releasing the chain in order never destroys a    *)
(* block before one that points into it.                                   *)
(***************************************************************************)
EXTENDS ValueViews, MethodCall, WellFoundedInduction, TLAPS

\* What the blocks of S keep, themselves included, where h[c] is the storage
\* that block c keeps.
Closed(h, T) == \A c \in T : ToSet(h[c]) \subseteq T
Closure(h, S) == {b \in Blocks : \A T \in SUBSET Blocks : S \subseteq T /\ Closed(h, T) => b \in T}

\* From each place of the storage s on, s keeps what the block at that place
\* points into, where r[c] are the blocks that c points into.
Suffix(s, k) == {s[j] : j \in k .. Len(s)}
Backed(h, r, s) == \A k \in 1 .. Len(s) : r[s[k]] \subseteq Closure(h, Suffix(s, k))

\* Storage that may be held while the blocks of A are allocated.
Sound(h, r, A, s) == s \in Seq(Blocks) /\ ToSet(s) \subseteq A /\ Backed(h, r, s)

\* A view whose own storage keeps what it shows.
Grounded(h, v) == v.block \in Closure(h, ToSet(v.storage)) \cup {Native}

AllSound ==
    /\ \A s \in Slots : Held(s) => Sound(holds, refers, alive, views[s][1].storage)
    /\ \A c \in alive : Sound(holds, refers, alive, holds[c])
    /\ Sound(holds, refers, alive, dying)
ShownKept == \A s \in Slots : Held(s) => Grounded(holds, views[s][1])
\* The record of a call keeps only what was there before it.
Older == \A c \in alive : \A b \in ToSet(holds[c]) : b < c
AllKept == \A b \in alive : Keeps(b) \/ b \in ToSet(dying)

ViewsInv == TypeOK /\ AllSound /\ ShownKept /\ Older /\ AllKept

-----------------------------------------------------------------------------
(* What storage keeps.                                                      *)

LEMMA ClosureLeast ==
  ASSUME NEW h, NEW S, NEW T \in SUBSET Blocks, S \subseteq T, Closed(h, T)
  PROVE  Closure(h, S) \subseteq T
  BY DEF Closure

LEMMA ClosureBase ==
  ASSUME NEW h, NEW S \in SUBSET Blocks
  PROVE  S \subseteq Closure(h, S) /\ Closure(h, S) \subseteq Blocks
  BY DEF Closure

LEMMA ClosureClosed ==
  ASSUME NEW h, \A c \in Blocks : ToSet(h[c]) \subseteq Blocks, NEW S
  PROVE  Closed(h, Closure(h, S))
  BY DEF Closure, Closed

\* Storage that is kept adds nothing to what is kept.
LEMMA ClosureMono ==
  ASSUME NEW h, \A c \in Blocks : ToSet(h[c]) \subseteq Blocks,
         NEW S, NEW R, S \subseteq Closure(h, R)
  PROVE  Closure(h, S) \subseteq Closure(h, R)
<1>1. Closure(h, R) \in SUBSET Blocks  BY DEF Closure
<1> QED  BY <1>1, ClosureClosed, ClosureLeast

LEMMA ClosureSubset ==
  ASSUME NEW h, NEW S, NEW R, S \subseteq R
  PROVE  Closure(h, S) \subseteq Closure(h, R)
  BY DEF Closure

\* What blocks of A keep depends only on what the blocks of A hold.
LEMMA ClosureSame ==
  ASSUME NEW g, NEW h, NEW A \in SUBSET Blocks, Closed(h, A),
         \A c \in A : g[c] = h[c], NEW S \in SUBSET A
  PROVE  Closure(g, S) = Closure(h, S) /\ Closure(h, S) \subseteq A
<1>1. Closed(g, A)  BY DEF Closed
<1>2. ASSUME NEW b \in Closure(h, S), NEW T \in SUBSET Blocks, S \subseteq T, Closed(g, T)
      PROVE  b \in T
  <2>1. Closed(h, T \cap A)  BY <1>1, <1>2 DEF Closed
  <2> QED  BY <2>1, <1>2, ClosureLeast
<1>3. ASSUME NEW b \in Closure(g, S), NEW T \in SUBSET Blocks, S \subseteq T, Closed(h, T)
      PROVE  b \in T
  <2>1. Closed(g, T \cap A)  BY <1>3 DEF Closed
  <2> QED  BY <2>1, <1>3, ClosureLeast
<1>4. Closure(h, S) \subseteq A  BY ClosureLeast
<1>5. Closure(h, S) \subseteq Blocks /\ Closure(g, S) \subseteq Blocks  BY DEF Closure
<1>6. Closure(h, S) \subseteq Closure(g, S)  BY <1>2, <1>5 DEF Closure
<1>7. Closure(g, S) \subseteq Closure(h, S)  BY <1>3, <1>5 DEF Closure
<1> QED  BY <1>4, <1>6, <1>7

-----------------------------------------------------------------------------
(* Chains of storage.                                                       *)

LEMMA SetOfSeq ==
  ASSUME NEW s \in Seq(Blocks)
  PROVE  /\ ToSet(s) = {s[k] : k \in 1 .. Len(s)}
         /\ ToSet(s) = Suffix(s, 1) /\ ToSet(s) \in SUBSET Blocks
         /\ \A k \in 1 .. Len(s) : s[k] \in ToSet(s) /\ Suffix(s, k) \subseteq ToSet(s)
  BY DEF ToSet, Suffix

LEMMA SetOfConcat ==
  ASSUME NEW s \in Seq(Blocks), NEW t \in Seq(Blocks)
  PROVE  s \o t \in Seq(Blocks) /\ ToSet(s \o t) = ToSet(s) \cup ToSet(t)
<1> DEFINE u == s \o t
<1>1. /\ u \in Seq(Blocks) /\ Len(u) = Len(s) + Len(t)
      /\ \A k \in 1 .. Len(s) : u[k] = s[k]
      /\ \A k \in 1 .. Len(t) : u[k + Len(s)] = t[k]
  OBVIOUS
<1>2. \A k \in 1 .. Len(u) : k \in 1 .. Len(s) \/ (k - Len(s) \in 1 .. Len(t) /\ u[k] = t[k - Len(s)])
  BY <1>1
<1> HIDE DEF u
<1>3. ToSet(u) = {u[k] : k \in 1 .. Len(u)} /\ ToSet(s) = {s[k] : k \in 1 .. Len(s)}
      /\ ToSet(t) = {t[k] : k \in 1 .. Len(t)}
  BY <1>1, SetOfSeq
<1>4. ToSet(u) \subseteq ToSet(s) \cup ToSet(t)  BY <1>1, <1>2, <1>3
<1>5. ToSet(s) \subseteq ToSet(u)  BY <1>1, <1>3
<1>6. ToSet(t) \subseteq ToSet(u)
  <2> SUFFICES ASSUME NEW k \in 1 .. Len(t) PROVE t[k] \in ToSet(u)  BY <1>3
  <2>1. k + Len(s) \in 1 .. Len(u) /\ u[k + Len(s)] = t[k]  BY <1>1
  <2> QED  BY <2>1, <1>3
<1> QED  BY <1>1, <1>4, <1>5, <1>6 DEF u

LEMMA SetOfTail ==
  ASSUME NEW s \in Seq(Blocks), s # <<>>
  PROVE  /\ Tail(s) \in Seq(Blocks) /\ Len(Tail(s)) = Len(s) - 1
         /\ Head(s) = s[1] /\ Head(s) \in ToSet(s)
         /\ \A k \in 1 .. Len(s) - 1 : Tail(s)[k] = s[k + 1]
         /\ ToSet(s) = {Head(s)} \cup ToSet(Tail(s))
<1>1. /\ Tail(s) \in Seq(Blocks) /\ Len(Tail(s)) = Len(s) - 1 /\ Head(s) = s[1]
      /\ \A k \in 1 .. Len(s) - 1 : Tail(s)[k] = s[k + 1] /\ Len(s) \in Nat \ {0}
  OBVIOUS
<1>2. ToSet(s) = {s[k] : k \in 1 .. Len(s)} /\ ToSet(Tail(s)) = {Tail(s)[k] : k \in 1 .. Len(Tail(s))}
  BY <1>1, SetOfSeq
<1>3. ASSUME NEW k \in 1 .. Len(s) PROVE s[k] \in {Head(s)} \cup ToSet(Tail(s))
  <2>1. k = 1 \/ (k - 1 \in 1 .. Len(s) - 1 /\ Tail(s)[k - 1] = s[k])  BY <1>1
  <2> QED  BY <2>1, <1>1, <1>2
<1>4. ASSUME NEW k \in 1 .. Len(s) - 1 PROVE Tail(s)[k] \in ToSet(s)
  <2>1. k + 1 \in 1 .. Len(s) /\ Tail(s)[k] = s[k + 1]  BY <1>1
  <2> QED  BY <2>1, <1>2
<1>5. Head(s) \in ToSet(s)  BY <1>1, <1>2
<1> QED  BY <1>1, <1>2, <1>3, <1>4, <1>5

\* Two chains in a row.
LEMMA SoundConcat ==
  ASSUME NEW h, NEW r, NEW A, NEW s, NEW t, Sound(h, r, A, s), Sound(h, r, A, t)
  PROVE  Sound(h, r, A, s \o t)
<1> DEFINE u == s \o t
<1>1. s \in Seq(Blocks) /\ t \in Seq(Blocks)  BY DEF Sound
<1>2. u \in Seq(Blocks) /\ ToSet(u) \subseteq A  BY <1>1, SetOfConcat DEF Sound
<1>3. /\ Len(u) = Len(s) + Len(t) /\ Len(s) \in Nat /\ Len(t) \in Nat
      /\ \A k \in 1 .. Len(s) : u[k] = s[k]
      /\ \A k \in 1 .. Len(t) : u[k + Len(s)] = t[k]
  BY <1>1
<1> HIDE DEF u
<1>4. ASSUME NEW k \in 1 .. Len(u) PROVE r[u[k]] \subseteq Closure(h, Suffix(u, k))
  <2>1. CASE k \in 1 .. Len(s)
    <3>1. Suffix(s, k) \subseteq Suffix(u, k)
      <4> SUFFICES ASSUME NEW j \in k .. Len(s) PROVE s[j] \in Suffix(u, k)  BY DEF Suffix
      <4>1. j \in k .. Len(u) /\ u[j] = s[j]  BY <1>3, <2>1
      <4> QED  BY <4>1 DEF Suffix
    <3>2. r[s[k]] \subseteq Closure(h, Suffix(s, k))  BY <2>1 DEF Sound, Backed
    <3> QED  BY <3>1, <3>2, <1>3, <2>1, ClosureSubset
  <2>2. CASE k \notin 1 .. Len(s)
    <3> DEFINE m == k - Len(s)
    <3>1. m \in 1 .. Len(t) /\ u[k] = t[m] /\ k = m + Len(s)
      <4>1. m \in 1 .. Len(t) /\ k = m + Len(s)  BY <1>3, <2>2
      <4> QED  BY <4>1, <1>3
    <3>2. Suffix(t, m) \subseteq Suffix(u, k)
      <4> SUFFICES ASSUME NEW j \in m .. Len(t) PROVE t[j] \in Suffix(u, k)  BY DEF Suffix
      <4>1. j \in 1 .. Len(t)  BY <3>1
      <4>2. j + Len(s) \in k .. Len(u) /\ u[j + Len(s)] = t[j]  BY <4>1, <1>3, <3>1
      <4> QED  BY <4>2 DEF Suffix
    <3>3. r[t[m]] \subseteq Closure(h, Suffix(t, m))  BY <3>1 DEF Sound, Backed
    <3> QED  BY <3>1, <3>2, <3>3, ClosureSubset
  <2> QED  BY <2>1, <2>2
<1> QED  BY <1>2, <1>4 DEF Sound, Backed, u

LEMMA SetOfCons ==
  ASSUME NEW b \in Blocks, NEW t \in Seq(Blocks)
  PROVE  /\ Cons(b, t) \in Seq(Blocks) /\ ToSet(Cons(b, t)) = {b} \cup ToSet(t)
         /\ Len(Cons(b, t)) = 1 + Len(t) /\ Cons(b, t)[1] = b
         /\ \A k \in 1 .. Len(t) : Cons(b, t)[k + 1] = t[k]
<1> DEFINE s == <<b>>
<1>1. s \in Seq(Blocks) /\ ToSet(s) = {b}  BY SetOfSeq DEF ToSet
<1>2. s \o t \in Seq(Blocks) /\ ToSet(s \o t) = {b} \cup ToSet(t)  BY <1>1, SetOfConcat
<1>3. /\ Len(s \o t) = 1 + Len(t) /\ (s \o t)[1] = b
      /\ \A k \in 1 .. Len(t) : (s \o t)[k + 1] = t[k]
  OBVIOUS
<1> QED  BY <1>2, <1>3 DEF Cons

\* A block in front of a chain that keeps what the block points into.
LEMMA SoundCons ==
  ASSUME NEW h, NEW r, NEW A \in SUBSET Blocks, NEW b \in A, NEW t, Sound(h, r, A, t),
         r[b] \subseteq Closure(h, ToSet(Cons(b, t)))
  PROVE  Sound(h, r, A, Cons(b, t))
<1> DEFINE u == Cons(b, t)
<1>1. t \in Seq(Blocks) /\ ToSet(t) \subseteq A /\ Len(t) \in Nat  BY DEF Sound
<1>2. /\ u \in Seq(Blocks) /\ ToSet(u) = {b} \cup ToSet(t) /\ Len(u) = 1 + Len(t) /\ u[1] = b
      /\ \A k \in 1 .. Len(t) : u[k + 1] = t[k]
  BY <1>1, SetOfCons
<1> HIDE DEF u
<1>3. ASSUME NEW k \in 1 .. Len(u) PROVE r[u[k]] \subseteq Closure(h, Suffix(u, k))
  <2>1. CASE k = 1  BY <2>1, <1>2, SetOfSeq DEF u
  <2>2. CASE k # 1
    <3> DEFINE m == k - 1
    <3>1. m \in 1 .. Len(t) /\ k = m + 1  BY <1>1, <1>2, <2>2
    <3> HIDE DEF m
    <3>2. Suffix(t, m) \subseteq Suffix(u, k)
      <4> SUFFICES ASSUME NEW j \in m .. Len(t) PROVE t[j] \in Suffix(u, k)  BY DEF Suffix
      <4>1. j \in 1 .. Len(t)  BY <3>1
      <4>2. j + 1 \in k .. Len(u) /\ u[j + 1] = t[j]  BY <4>1, <1>1, <1>2, <3>1
      <4> QED  BY <4>2 DEF Suffix
    <3>3. r[t[m]] \subseteq Closure(h, Suffix(t, m)) /\ u[k] = t[m]  BY <3>1, <1>2 DEF Sound, Backed
    <3> QED  BY <3>2, <3>3, ClosureSubset
  <2> QED  BY <2>1, <2>2
<1> QED  BY <1>1, <1>2, <1>3 DEF Sound, Backed, u

LEMMA SoundTail ==
  ASSUME NEW h, NEW r, NEW A, NEW s, Sound(h, r, A, s), s # <<>>
  PROVE  Sound(h, r, A, Tail(s))
<1> DEFINE t == Tail(s)
<1>1. s \in Seq(Blocks) /\ Len(s) \in Nat  BY DEF Sound
<1>2. /\ t \in Seq(Blocks) /\ Len(t) = Len(s) - 1 /\ ToSet(t) \subseteq A
      /\ \A k \in 1 .. Len(s) - 1 : t[k] = s[k + 1]
  BY <1>1, SetOfTail DEF Sound
<1> HIDE DEF t
<1>3. ASSUME NEW k \in 1 .. Len(t) PROVE r[t[k]] \subseteq Closure(h, Suffix(t, k))
  <2>1. k + 1 \in 1 .. Len(s) /\ t[k] = s[k + 1]  BY <1>1, <1>2
  <2>2. Suffix(s, k + 1) \subseteq Suffix(t, k)
    <3> SUFFICES ASSUME NEW j \in k + 1 .. Len(s) PROVE s[j] \in Suffix(t, k)  BY DEF Suffix
    <3>1. PICK m \in k .. Len(t) : j = m + 1 /\ m \in 1 .. Len(s) - 1  BY <1>1, <1>2
    <3> QED  BY <3>1, <1>2 DEF Suffix
  <2>3. r[s[k + 1]] \subseteq Closure(h, Suffix(s, k + 1))  BY <2>1 DEF Sound, Backed
  <2> QED  BY <2>1, <2>2, <2>3, ClosureSubset
<1> QED  BY <1>2, <1>3 DEF Sound, Backed, t

LEMMA SoundEmpty ==
  ASSUME NEW h, NEW r, NEW A
  PROVE  Sound(h, r, A, <<>>) /\ ToSet(<<>>) = {}
  BY DEF Sound, Backed, ToSet

\* Storage stays sound when other blocks come and go.
LEMMA SoundSame ==
  ASSUME NEW g, NEW h, NEW q, NEW r, NEW A \in SUBSET Blocks, NEW B, A \subseteq B, Closed(h, A),
         \A c \in A : g[c] = h[c] /\ q[c] = r[c], NEW s, Sound(h, r, A, s)
  PROVE  Sound(g, q, B, s) /\ Closure(g, ToSet(s)) = Closure(h, ToSet(s))
<1>1. s \in Seq(Blocks) /\ ToSet(s) \subseteq A  BY DEF Sound
<1>2. ASSUME NEW k \in 1 .. Len(s) PROVE q[s[k]] \subseteq Closure(g, Suffix(s, k))
  <2>1. s[k] \in A /\ Suffix(s, k) \subseteq A  BY <1>1, SetOfSeq
  <2>2. r[s[k]] \subseteq Closure(h, Suffix(s, k))  BY DEF Sound, Backed
  <2> QED  BY <2>1, <2>2, ClosureSame
<1>3. Closure(g, ToSet(s)) = Closure(h, ToSet(s))  BY <1>1, ClosureSame
<1> QED  BY <1>1, <1>2, <1>3 DEF Sound, Backed

\* Sound storage keeps everything that can be reached from what it keeps.
LEMMA SoundReaches ==
  ASSUME NEW h, NEW r, NEW A \in SUBSET Blocks, \A c \in Blocks : ToSet(h[c]) \subseteq Blocks,
         \A c \in A : Sound(h, r, A, h[c]), NEW s, Sound(h, r, A, s),
         NEW b \in Closure(h, ToSet(s))
  PROVE  r[b] \subseteq Closure(h, ToSet(s)) /\ b \in A
<1> DEFINE K == Closure(h, ToSet(s))
           T == {c \in K : c \in A /\ r[c] \subseteq K}
<1>1. s \in Seq(Blocks) /\ ToSet(s) \subseteq A  BY DEF Sound
<1>2. K \in SUBSET Blocks /\ ToSet(s) \subseteq K  BY <1>1, SetOfSeq, ClosureBase
<1>3. Closed(h, K)  BY ClosureClosed
<1> HIDE DEF K
<1>4. ASSUME NEW t, Sound(h, r, A, t), ToSet(t) \subseteq K, NEW c \in ToSet(t)
      PROVE  c \in T
  <2>1. t \in Seq(Blocks) /\ ToSet(t) \subseteq A  BY <1>4 DEF Sound
  <2>2. PICK k \in 1 .. Len(t) : c = t[k]  BY <2>1, <1>4, SetOfSeq
  <2>3. Suffix(t, k) \subseteq K  BY <2>1, <1>4, SetOfSeq
  <2>4. Closure(h, Suffix(t, k)) \subseteq K  BY <2>3, <1>2, <1>3, ClosureLeast
  <2>5. r[c] \subseteq Closure(h, Suffix(t, k))  BY <2>2, <1>4 DEF Sound, Backed
  <2> QED  BY <2>1, <2>4, <2>5, <1>4
<1>5. ToSet(s) \subseteq T  BY <1>2, <1>4
<1>6. ASSUME NEW c \in T PROVE ToSet(h[c]) \subseteq T
  <2>1. ToSet(h[c]) \subseteq K /\ Sound(h, r, A, h[c])  BY <1>3, <1>6 DEF Closed
  <2> HIDE DEF T
  <2> QED  BY <2>1, <1>4
<1>7. T \in SUBSET Blocks /\ Closed(h, T)  BY <1>2, <1>6 DEF Closed
<1>8. K \subseteq T
  <2> HIDE DEF T
  <2> QED  BY <1>5, <1>7, ClosureLeast DEF K
<1> QED  BY <1>8 DEF K

-----------------------------------------------------------------------------
(* Views that are given.                                                    *)

\* What a call of the library may start from: a view that is held, or none.
Source(v) == v \in View /\ Sound(holds, refers, alive, v.storage) /\ Grounded(holds, v)

LEMMA AliveFacts ==
  ASSUME ViewsAssumption, ViewsInv
  PROVE  /\ alive \in SUBSET Blocks /\ Closed(holds, alive) /\ used \in Nat
         /\ \A c \in Blocks : ToSet(holds[c]) \subseteq Blocks
<1>1. alive \in SUBSET Blocks /\ used \in Nat  BY DEF ViewsInv, TypeOK, Blocks, ViewsAssumption
<1>2. \A c \in Blocks : ToSet(holds[c]) \subseteq Blocks  BY SetOfSeq DEF ViewsInv, TypeOK
<1>3. Closed(holds, alive)  BY DEF ViewsInv, AllSound, Sound, Closed
<1> QED  BY <1>1, <1>2, <1>3

LEMMA HeldIsSource ==
  ASSUME ViewsAssumption, ViewsInv, NEW s \in Slots, Held(s)
  PROVE  Source(views[s][1])
<1>1. views[s] \in Seq(View) /\ Len(views[s]) <= 1 /\ views[s] # <<>>
  BY DEF ViewsInv, TypeOK, Held
<1>2. views[s][1] \in View  BY <1>1
<1> QED  BY <1>2 DEF ViewsInv, AllSound, ShownKept, Source

LEMMA NoViewIsSource == Source(NoView)
<1>1. NoView = [block |-> 0, writable |-> FALSE, storage |-> <<>>, frozen |-> FALSE]
  BY DEF NoView, New, Native
<1>2. NoView \in View  BY <1>1 DEF View, Native
<1> QED  BY <1>1, <1>2, SoundEmpty DEF Source, Grounded, Native

LEMMA SourceReaches ==
  ASSUME ViewsAssumption, ViewsInv, NEW v, Source(v)
  PROVE  /\ Reachable(v.block) \subseteq Closure(holds, ToSet(v.storage)) \cup {Native}
         /\ Closure(holds, ToSet(v.storage)) \subseteq alive
<1>1. \A b \in Closure(holds, ToSet(v.storage)) :
          refers[b] \subseteq Closure(holds, ToSet(v.storage)) /\ b \in alive
  BY AliveFacts, SoundReaches DEF Source, ViewsInv, AllSound
<1> QED  BY <1>1 DEF Source, Grounded, Reachable

\* A call that puts the view w into a free slot, with storage of its own or
\* without.
LEMMA GiveKeeps ==
  ASSUME ViewsAssumption, ViewsInv, NEW d \in Slots, NEW w \in View, Give(d, w),
         used' \in 0 .. MaxBlocks, alive \subseteq alive', alive' \subseteq 1 .. used',
         refers' \in [Blocks -> SUBSET Blocks], holds' \in [Blocks -> Seq(Blocks)], dying' = dying,
         \A c \in alive : holds'[c] = holds[c] /\ refers'[c] = refers[c],
         \A c \in alive' \ alive :
             /\ Sound(holds', refers', alive', holds'[c]) /\ c \in ToSet(w.storage)
             /\ \A b \in ToSet(holds'[c]) : b < c,
         Sound(holds', refers', alive', w.storage), Grounded(holds', w)
  PROVE  ViewsInv'
<1>1. /\ views' = [views EXCEPT ![d] = <<w>>] /\ views \in [Slots -> Seq(View)] /\ ~Held(d)
      /\ \A s \in Slots : Len(views[s]) <= 1
  BY DEF Give, ViewsInv, TypeOK
<1>2. /\ views'[d] = <<w>> /\ views'[d][1] = w
      /\ \A s \in Slots : s # d => views'[s] = views[s]
  BY <1>1
<1>3. TypeOK'
  <2>1. views' \in [Slots -> Seq(View)] /\ \A s \in Slots : Len(views'[s]) <= 1  BY <1>1
  <2> QED  BY <2>1 DEF ViewsInv, TypeOK
<1>4. ASSUME NEW t, Sound(holds, refers, alive, t)
      PROVE  Sound(holds', refers', alive', t) /\ Closure(holds', ToSet(t)) = Closure(holds, ToSet(t))
  BY <1>4, AliveFacts, SoundSame
<1>5. \A s \in Slots : Held(s)' /\ s # d => Held(s) /\ views'[s][1] = views[s][1]
  BY <1>2 DEF Held
<1>6. AllSound'
  <2>1. ASSUME NEW s \in Slots, Held(s)' PROVE Sound(holds', refers', alive', views'[s][1].storage)
    BY <2>1, <1>2, <1>4, <1>5 DEF ViewsInv, AllSound
  <2>2. ASSUME NEW c \in alive' PROVE Sound(holds', refers', alive', holds'[c])
    BY <2>2, <1>4 DEF ViewsInv, AllSound
  <2>3. Sound(holds', refers', alive', dying')  BY <1>4 DEF ViewsInv, AllSound
  <2> QED  BY <2>1, <2>2, <2>3 DEF AllSound
<1>7. ShownKept'
  <2> SUFFICES ASSUME NEW s \in Slots, Held(s)' PROVE Grounded(holds', views'[s][1])  BY DEF ShownKept
  <2>1. CASE s = d  BY <2>1, <1>2
  <2>2. CASE s # d
    <3>1. Sound(holds, refers, alive, views[s][1].storage) /\ Grounded(holds, views[s][1])
      BY <2>2, <1>5 DEF ViewsInv, AllSound, ShownKept
    <3> QED  BY <3>1, <1>4, <1>5, <2>2 DEF Grounded
  <2> QED  BY <2>1, <2>2
<1>8. Older'  BY DEF Older, ViewsInv
<1>9. AllKept'
  <2> SUFFICES ASSUME NEW b \in alive' PROVE Keeps(b)' \/ b \in ToSet(dying)'  BY DEF AllKept
  <2>1. Held(d)'  BY <1>2 DEF Held
  <2>2. CASE b \notin alive  BY <2>1, <2>2, <1>2 DEF Keeps
  <2>3. CASE b \in alive
    <3>1. Keeps(b) \/ b \in ToSet(dying)  BY <2>3 DEF ViewsInv, AllKept
    <3>2. ASSUME NEW s \in Slots, Held(s), b \in ToSet(views[s][1].storage) PROVE Keeps(b)'
      BY <3>2, <1>1, <1>2 DEF Keeps, Held
    <3>3. ASSUME NEW c \in alive, b \in ToSet(holds[c]) PROVE Keeps(b)'
      BY <3>3 DEF Keeps
    <3> QED  BY <3>1, <3>2, <3>3 DEF Keeps
  <2> QED  BY <2>2, <2>3
<1> QED  BY <1>3, <1>6, <1>7, <1>8, <1>9 DEF ViewsInv

\* Without a block of its own: the view keeps what v keeps and shows what can
\* be reached from v.
LEMMA GiveNone ==
  ASSUME ViewsAssumption, ViewsInv, NEW d \in Slots, NEW v, Source(v), NEW w \in View, Give(d, w), NoBlock,
         w.storage = v.storage, w.block \in Reachable(v.block)
  PROVE  ViewsInv'
<1>1. /\ used' = used /\ alive' = alive /\ refers' = refers /\ holds' = holds /\ dying' = dying
      /\ used' \in 0 .. MaxBlocks /\ alive' \subseteq 1 .. used'
      /\ refers' \in [Blocks -> SUBSET Blocks] /\ holds' \in [Blocks -> Seq(Blocks)]
  BY DEF NoBlock, ViewsInv, TypeOK
<1>2. Grounded(holds', w)  BY <1>1, SourceReaches DEF Grounded
<1>3. Sound(holds', refers', alive', w.storage)  BY <1>1 DEF Source
<1> QED  BY <1>1, <1>2, <1>3, GiveKeeps

\* The blocks that are allocated, one or two.
LEMMA AllocateOne ==
  ASSUME ViewsAssumption, ViewsInv, NEW into, into \ {Native} \subseteq Blocks, NEW keep \in Seq(Blocks),
         Allocate(<<into>>, <<keep>>)
  PROVE  LET n == used + 1 IN
         /\ n \in Blocks /\ n \notin alive /\ used' = n /\ alive' = alive \cup {n} /\ dying' = dying
         /\ used' \in 0 .. MaxBlocks /\ alive' \subseteq 1 .. used'
         /\ refers' \in [Blocks -> SUBSET Blocks] /\ holds' \in [Blocks -> Seq(Blocks)]
         /\ refers'[n] = into \ {Native} /\ holds'[n] = keep
         /\ \A c \in alive : holds'[c] = holds[c] /\ refers'[c] = refers[c]
<1> DEFINE n == used + 1
<1>1. used \in Nat /\ MaxBlocks \in Nat /\ alive \subseteq 1 .. used /\ alive \subseteq Blocks
      /\ refers \in [Blocks -> SUBSET Blocks] /\ holds \in [Blocks -> Seq(Blocks)]
  BY AliveFacts DEF ViewsInv, TypeOK, ViewsAssumption
<1>2. used + 1 .. used + Len(<<into>>) = {n} /\ Len(<<into>>) = 1  BY <1>1
<1>3. /\ n <= MaxBlocks /\ used' = n /\ alive' = alive \cup {n} /\ dying' = dying
      /\ refers' = [b \in Blocks |-> IF b \in {n} THEN <<into>>[b - used] \ {Native} ELSE refers[b]]
      /\ holds' = [b \in Blocks |-> IF b \in {n} THEN <<keep>>[b - used] ELSE holds[b]]
  BY <1>2 DEF Allocate
<1>4. n - used = 1 /\ <<into>>[1] = into /\ <<keep>>[1] = keep /\ n \in Blocks /\ n \notin alive
  BY <1>1, <1>3 DEF Blocks
<1>5. /\ refers' = [b \in Blocks |-> IF b = n THEN into \ {Native} ELSE refers[b]]
      /\ holds' = [b \in Blocks |-> IF b = n THEN keep ELSE holds[b]]
  BY <1>3, <1>4
<1>6. refers' \in [Blocks -> SUBSET Blocks] /\ holds' \in [Blocks -> Seq(Blocks)]  BY <1>1, <1>5
<1>7. \A c \in alive : holds'[c] = holds[c] /\ refers'[c] = refers[c]  BY <1>1, <1>4, <1>5
<1>8. used' \in 0 .. MaxBlocks /\ alive' \subseteq 1 .. used'  BY <1>1, <1>3
<1> QED  BY <1>3, <1>4, <1>5, <1>6, <1>7, <1>8

LEMMA AllocateTwo ==
  ASSUME ViewsAssumption, ViewsInv, NEW into, into \ {Native} \subseteq Blocks, NEW keep \in Seq(Blocks),
         Allocate(<<{}, into>>, <<keep, <<>>>>)
  PROVE  LET n == used + 1 IN
         /\ n \in Blocks /\ n + 1 \in Blocks /\ n \notin alive /\ n + 1 \notin alive
         /\ used' = n + 1 /\ alive' = alive \cup {n, n + 1} /\ dying' = dying
         /\ used' \in 0 .. MaxBlocks /\ alive' \subseteq 1 .. used'
         /\ refers' \in [Blocks -> SUBSET Blocks] /\ holds' \in [Blocks -> Seq(Blocks)]
         /\ refers'[n] = {} /\ holds'[n] = keep
         /\ refers'[n + 1] = into \ {Native} /\ holds'[n + 1] = <<>>
         /\ \A c \in alive : holds'[c] = holds[c] /\ refers'[c] = refers[c]
<1> DEFINE n == used + 1
           i == <<{}, into>>
           k == <<keep, <<>>>>
<1>1. used \in Nat /\ MaxBlocks \in Nat /\ alive \subseteq 1 .. used /\ alive \subseteq Blocks
      /\ refers \in [Blocks -> SUBSET Blocks] /\ holds \in [Blocks -> Seq(Blocks)]
  BY AliveFacts DEF ViewsInv, TypeOK, ViewsAssumption
<1>2. used + 1 .. used + Len(i) = {n, n + 1} /\ Len(i) = 2  BY <1>1
<1>3. /\ n + 1 <= MaxBlocks /\ used' = n + 1 /\ alive' = alive \cup {n, n + 1} /\ dying' = dying
      /\ refers' = [b \in Blocks |-> IF b \in {n, n + 1} THEN i[b - used] \ {Native} ELSE refers[b]]
      /\ holds' = [b \in Blocks |-> IF b \in {n, n + 1} THEN k[b - used] ELSE holds[b]]
  BY <1>1, <1>2 DEF Allocate
<1>4. /\ n - used = 1 /\ (n + 1) - used = 2 /\ n # n + 1 /\ i[1] = {} /\ i[2] = into /\ k[1] = keep /\ k[2] = <<>>
      /\ n \in Blocks /\ n + 1 \in Blocks /\ n \notin alive /\ n + 1 \notin alive
  BY <1>1, <1>3 DEF Blocks
<1> HIDE DEF i, k
<1>5. /\ refers' = [b \in Blocks |-> IF b = n THEN {} ELSE IF b = n + 1 THEN into \ {Native} ELSE refers[b]]
      /\ holds' = [b \in Blocks |-> IF b = n THEN keep ELSE IF b = n + 1 THEN <<>> ELSE holds[b]]
  BY <1>3, <1>4
<1>6. refers' \in [Blocks -> SUBSET Blocks] /\ holds' \in [Blocks -> Seq(Blocks)]  BY <1>1, <1>5
<1>7. \A c \in alive : holds'[c] = holds[c] /\ refers'[c] = refers[c]  BY <1>1, <1>4, <1>5
<1>8. used' \in 0 .. MaxBlocks /\ alive' \subseteq 1 .. used'
  <2>1. used' \in 0 .. MaxBlocks /\ n \in 1 .. used' /\ n + 1 \in 1 .. used'  BY <1>1, <1>3
  <2>2. alive \subseteq 1 .. used'  BY <1>1, <1>3
  <2> QED  BY <2>1, <2>2, <1>3
<1>9. refers'[n] = {} /\ holds'[n] = keep /\ refers'[n + 1] = into \ {Native} /\ holds'[n + 1] = <<>>
  BY <1>4, <1>5
<1> QED  BY <1>3, <1>4, <1>6, <1>7, <1>8, <1>9

\* With one block: a snapshot, a result, materialized arguments or the record
\* of a bound call; it keeps `keep`, and the view keeps `tail` besides.
LEMMA GiveOne ==
  ASSUME ViewsAssumption, ViewsInv, NEW d \in Slots, NEW w \in View, Give(d, w),
         NEW tail, Sound(holds, refers, alive, tail), NEW keep, Sound(holds, refers, alive, keep),
         NEW into, Allocate(<<into>>, <<keep>>), w.storage = Cons(used + 1, tail),
         into \cup {w.block} \subseteq {Native, used + 1} \cup Closure(holds, ToSet(tail)) \cup Closure(holds, ToSet(keep))
  PROVE  ViewsInv'
<1> DEFINE n == used + 1
           near == {n} \cup Closure(holds, ToSet(tail)) \cup Closure(holds, ToSet(keep))
<1>1. keep \in Seq(Blocks) /\ tail \in Seq(Blocks) /\ ToSet(keep) \subseteq alive /\ ToSet(tail) \subseteq alive
  BY DEF Sound
<1>2. n \in Blocks
  BY AliveFacts DEF Allocate, Blocks, ViewsAssumption
<1>3. into \ {Native} \subseteq near /\ near \subseteq Blocks /\ w.block \in near \cup {Native}
  BY <1>2, <1>1, SetOfSeq, ClosureBase
<1>4. /\ n \notin alive /\ used' = n /\ alive' = alive \cup {n} /\ dying' = dying
      /\ used' \in 0 .. MaxBlocks /\ alive' \subseteq 1 .. used'
      /\ refers' \in [Blocks -> SUBSET Blocks] /\ holds' \in [Blocks -> Seq(Blocks)]
      /\ refers'[n] = into \ {Native} /\ holds'[n] = keep
      /\ \A c \in alive : holds'[c] = holds[c] /\ refers'[c] = refers[c]
  BY <1>1, <1>3, AllocateOne
<1>5. ASSUME NEW t, Sound(holds, refers, alive, t)
      PROVE  Sound(holds', refers', alive', t) /\ Closure(holds', ToSet(t)) = Closure(holds, ToSet(t))
  <2>1. alive \subseteq alive' /\ \A c \in alive : holds'[c] = holds[c] /\ refers'[c] = refers[c]  BY <1>4
  <2>2. alive \in SUBSET Blocks /\ Closed(holds, alive)  BY AliveFacts
  <2> QED  BY <2>1, <2>2, <1>5, SoundSame
<1>6. alive' \in SUBSET Blocks /\ \A c \in Blocks : ToSet(holds'[c]) \subseteq Blocks
  BY <1>2, <1>4, AliveFacts, SetOfSeq
<1>7. near \subseteq Closure(holds', {n} \cup ToSet(tail))
  <2> DEFINE K == Closure(holds', {n} \cup ToSet(tail))
  <2>1. {n} \cup ToSet(tail) \subseteq K /\ K \subseteq Blocks  BY <1>1, <1>2, SetOfSeq, ClosureBase
  <2>2. Closed(holds', K)  BY <1>6, ClosureClosed
  <2>3. ToSet(keep) \subseteq K  BY <2>1, <2>2, <1>4 DEF Closed
  <2>4. ToSet(keep) \subseteq K /\ ToSet(tail) \subseteq K /\ n \in K  BY <2>1, <2>3
  <2>5. Closure(holds, ToSet(keep)) = Closure(holds', ToSet(keep))  BY <1>5
  <2>6. Closure(holds, ToSet(tail)) = Closure(holds', ToSet(tail))  BY <1>5
  <2>7. Closure(holds', ToSet(keep)) \subseteq K  BY <2>4, <1>6, ClosureMono
  <2>8. Closure(holds', ToSet(tail)) \subseteq K  BY <2>4, <1>6, ClosureMono
  <2> QED  BY <2>4, <2>5, <2>6, <2>7, <2>8
<1>8. Sound(holds', refers', alive', w.storage) /\ ToSet(w.storage) = {n} \cup ToSet(tail)
  <2>1. ToSet(Cons(n, tail)) = {n} \cup ToSet(tail)  BY <1>1, <1>2, SetOfCons
  <2>2. refers'[n] \subseteq Closure(holds', ToSet(Cons(n, tail))) /\ n \in alive'  BY <2>1, <1>3, <1>4, <1>7
  <2>3. Sound(holds', refers', alive', tail) /\ alive' \in SUBSET Blocks  BY <1>5, <1>6
  <2> QED  BY <2>1, <2>2, <2>3, SoundCons
<1>9. Grounded(holds', w)  BY <1>3, <1>7, <1>8 DEF Grounded
<1>10. \A b \in ToSet(holds'[n]) : b < n
  <2>1. \A b \in alive : b < n  BY AliveFacts DEF ViewsInv, TypeOK
  <2> QED  BY <2>1, <1>1, <1>4
<1> QED  BY <1>4, <1>5, <1>8, <1>9, <1>10, GiveKeeps

\* With two blocks: a result (the second) that lives beside its arguments or
\* beside the record of its call (the first).
LEMMA GiveTwo ==
  ASSUME ViewsAssumption, ViewsInv, NEW d \in Slots, NEW w \in View, Give(d, w),
         NEW tail, Sound(holds, refers, alive, tail), NEW keep, Sound(holds, refers, alive, keep),
         NEW into, Allocate(<<{}, into>>, <<keep, <<>>>>),
         w.storage = Cons(used + 2, Cons(used + 1, tail)), w.block = used + 2,
         into \subseteq {Native, used + 1} \cup Closure(holds, ToSet(tail)) \cup Closure(holds, ToSet(keep))
  PROVE  ViewsInv'
<1> DEFINE n == used + 1
           m == used + 2
           near == {n} \cup Closure(holds, ToSet(tail)) \cup Closure(holds, ToSet(keep))
<1>1. keep \in Seq(Blocks) /\ tail \in Seq(Blocks) /\ ToSet(keep) \subseteq alive /\ ToSet(tail) \subseteq alive
  BY DEF Sound
<1>2. n \in Blocks /\ m \in Blocks /\ n + 1 = m
  BY AliveFacts DEF Allocate, Blocks, ViewsAssumption
<1>3. into \ {Native} \subseteq near /\ near \subseteq Blocks
  BY <1>2, <1>1, SetOfSeq, ClosureBase
<1>4. /\ n \notin alive /\ m \notin alive /\ used' = m /\ alive' = alive \cup {n, m} /\ dying' = dying
      /\ used' \in 0 .. MaxBlocks /\ alive' \subseteq 1 .. used'
      /\ refers' \in [Blocks -> SUBSET Blocks] /\ holds' \in [Blocks -> Seq(Blocks)]
      /\ refers'[n] = {} /\ holds'[n] = keep
      /\ refers'[m] = into \ {Native} /\ holds'[m] = <<>>
      /\ \A c \in alive : holds'[c] = holds[c] /\ refers'[c] = refers[c]
  BY <1>1, <1>2, <1>3, AllocateTwo
<1>5. ASSUME NEW t, Sound(holds, refers, alive, t)
      PROVE  Sound(holds', refers', alive', t) /\ Closure(holds', ToSet(t)) = Closure(holds, ToSet(t))
  <2>1. alive \subseteq alive' /\ \A c \in alive : holds'[c] = holds[c] /\ refers'[c] = refers[c]  BY <1>4
  <2>2. alive \in SUBSET Blocks /\ Closed(holds, alive)  BY AliveFacts
  <2> QED  BY <2>1, <2>2, <1>5, SoundSame
<1>6. alive' \in SUBSET Blocks /\ \A c \in Blocks : ToSet(holds'[c]) \subseteq Blocks
  BY <1>2, <1>4, AliveFacts, SetOfSeq
<1> DEFINE one == Cons(n, tail)
           two == Cons(m, one)
<1>7. /\ one \in Seq(Blocks) /\ ToSet(one) = {n} \cup ToSet(tail)
      /\ two \in Seq(Blocks) /\ ToSet(two) = {m} \cup ToSet(one) /\ w.storage = two
  BY <1>1, <1>2, SetOfCons
<1>8. Sound(holds', refers', alive', one)
  <2>1. Sound(holds', refers', alive', tail) /\ n \in alive' /\ refers'[n] = {}  BY <1>4, <1>5
  <2> QED  BY <2>1, <1>6, SoundCons
<1>9. near \subseteq Closure(holds', ToSet(two)) /\ m \in Closure(holds', ToSet(two))
  <2> DEFINE K == Closure(holds', ToSet(two))
  <2>1. ToSet(two) \subseteq K /\ K \subseteq Blocks  BY <1>7, SetOfSeq, ClosureBase
  <2>2. Closed(holds', K)  BY <1>6, ClosureClosed
  <2> HIDE DEF one, two, K
  <2>3. n \in K /\ m \in K /\ ToSet(tail) \subseteq K  BY <2>1, <1>7
  <2>4. ToSet(keep) \subseteq K  BY <2>2, <2>3, <1>4 DEF Closed
  <2> QED  BY <2>3, <2>4, <1>5, <1>6, ClosureMono DEF K
<1>10. Sound(holds', refers', alive', two)
  <2>1. refers'[m] \subseteq Closure(holds', ToSet(two)) /\ m \in alive'  BY <1>3, <1>4, <1>9
  <2> HIDE DEF one
  <2> QED  BY <2>1, <1>6, <1>8, SoundCons
<1> HIDE DEF one, two
<1>11. Grounded(holds', w)  BY <1>7, <1>9 DEF Grounded
<1>12. \A b \in ToSet(holds'[n]) : b < n
  <2>1. \A b \in alive : b < n  BY AliveFacts DEF ViewsInv, TypeOK
  <2> QED  BY <2>1, <1>1, <1>4
<1>13. Sound(holds', refers', alive', <<>>) /\ ToSet(<<>>) = {}  BY SoundEmpty
<1>14. \A c \in alive' \ alive :
           /\ Sound(holds', refers', alive', holds'[c]) /\ c \in ToSet(w.storage)
           /\ \A b \in ToSet(holds'[c]) : b < c
  <2>1. \A c \in alive' \ alive : c = n \/ c = m  BY <1>4
  <2>2. n \in ToSet(w.storage) /\ m \in ToSet(w.storage)  BY <1>7
  <2>3. Sound(holds', refers', alive', holds'[n]) /\ Sound(holds', refers', alive', holds'[m])
    BY <1>4, <1>5, <1>13
  <2> QED  BY <2>1, <2>2, <2>3, <1>4, <1>12, <1>13
<1>15. Sound(holds', refers', alive', w.storage) /\ alive \subseteq alive'  BY <1>4, <1>7, <1>10
<1> QED  BY <1>4, <1>11, <1>14, <1>15, GiveKeeps

-----------------------------------------------------------------------------
(* retain_storage and retain_parent.                                        *)

LEMMA RetainPlain ==
  ASSUME NEW v, v.storage \in Seq(Blocks), NEW b, NEW writable, NEW frozen
  PROVE  LET w == retain_parent(New(b, writable, <<>>, frozen), v) IN
         w = New(b, writable /\ v.writable, v.storage, frozen)
<1>1. <<>> \o v.storage = v.storage  OBVIOUS
<1> QED  BY <1>1 DEF retain_parent, retain_storage, New

LEMMA RetainOwn ==
  ASSUME NEW v, v.storage \in Seq(Blocks), NEW n \in Blocks, n \notin ToSet(v.storage),
         NEW writable, NEW frozen, NEW b
  PROVE  LET w == retain_parent(New(b, writable, <<n>>, frozen), v) IN
         w = New(b, writable /\ v.writable, Cons(n, v.storage), frozen)
<1>1. <<n>> \o <<>> = <<n>>  OBVIOUS
<1>2. v.storage # <<n>>
  <2>1. n \in ToSet(<<n>>)  BY DEF ToSet
  <2> QED  BY <2>1
<1> QED  BY <1>1, <1>2 DEF retain_parent, retain_storage, New, Cons

LEMMA RetainPair ==
  ASSUME NEW v, v.storage \in Seq(Blocks), NEW n \in Blocks, NEW m \in Blocks, n # m,
         m \notin ToSet(v.storage), NEW writable, NEW frozen, NEW b
  PROVE  LET w == retain_parent(retain_storage(New(b, writable, <<m>>, frozen), <<n>>), v) IN
         w = New(b, writable /\ v.writable, Cons(m, Cons(n, v.storage)), frozen)
<1> DEFINE pair == <<m>> \o <<n>>
<1>1. retain_storage(New(b, writable, <<m>>, frozen), <<n>>) = New(b, writable, pair, frozen)
  <2>1. <<n>> # <<>> /\ <<n>> # <<m>>  OBVIOUS
  <2> QED  BY <2>1 DEF retain_storage, New
<1>2. v.storage # pair
  <2>1. pair \in Seq(Blocks) /\ Len(pair) = 2 /\ pair[1] = m  OBVIOUS
  <2>2. m \in ToSet(pair)
    <3> HIDE DEF pair
    <3> QED  BY <2>1, SetOfSeq
  <2> QED  BY <2>2
<1>3. pair \o v.storage = Cons(m, Cons(n, v.storage)) /\ pair \o <<>> = pair  BY DEF Cons
<1> HIDE DEF pair
<1> QED  BY <1>1, <1>2, <1>3 DEF retain_parent, retain_storage, New

LEMMA RetainBlock ==
  ASSUME NEW n \in Blocks, NEW b, NEW writable, NEW frozen
  PROVE  /\ retain_storage(New(b, writable, <<>>, frozen), <<n>>) = New(b, writable, <<n>>, frozen)
         /\ Cons(n, <<>>) = <<n>>
<1>1. <<>> \o <<n>> = <<n>> /\ <<n>> \o <<>> = <<n>> /\ <<n>> # <<>>  OBVIOUS
<1> QED  BY <1>1 DEF retain_storage, New, Cons

LEMMA RetainTwo ==
  ASSUME NEW n \in Blocks, NEW m \in Blocks, n # m, NEW b, NEW writable, NEW frozen
  PROVE  retain_storage(New(b, writable, <<m>>, frozen), <<n>>) = New(b, writable, Cons(m, Cons(n, <<>>)), frozen)
<1>1. <<n>> # <<>> /\ <<n>> # <<m>> /\ <<n>> \o <<>> = <<n>>  OBVIOUS
<1> QED  BY <1>1 DEF retain_storage, New, Cons

LEMMA NewIsView ==
  ASSUME NEW b \in Blocks \cup {Native}, NEW writable \in BOOLEAN, NEW storage \in Seq(Blocks),
         NEW frozen \in BOOLEAN
  PROVE  New(b, writable, storage, frozen) \in View
  BY DEF New, View

LEMMA NewFields ==
  ASSUME NEW b, NEW writable, NEW storage, NEW frozen
  PROVE  LET w == New(b, writable, storage, frozen) IN
         w.block = b /\ w.writable = writable /\ w.storage = storage /\ w.frozen = frozen
  BY DEF New

-----------------------------------------------------------------------------
(* The calls of the library.                                                *)

LEMMA SourceFacts ==
  ASSUME ViewsAssumption, ViewsInv, NEW v, Source(v)
  PROVE  /\ v.storage \in Seq(Blocks) /\ v.writable \in BOOLEAN /\ v.frozen \in BOOLEAN
         /\ v.block \in Blocks \cup {Native} /\ v.block \in Reachable(v.block)
         /\ ToSet(v.storage) \subseteq alive /\ Reachable(v.block) \subseteq Blocks \cup {Native}
<1>1. v \in View  BY DEF Source
<1>2. /\ v.storage \in Seq(Blocks) /\ v.writable \in BOOLEAN /\ v.frozen \in BOOLEAN
      /\ v.block \in Blocks \cup {Native}
  BY <1>1 DEF View
<1>3. v.block \in Reachable(v.block)  BY DEF Reachable
<1>4. ToSet(v.storage) \subseteq alive  BY DEF Source, Sound
<1>5. Reachable(v.block) \subseteq Blocks \cup {Native}  BY AliveFacts, SourceReaches
<1> QED  BY <1>2, <1>3, <1>4, <1>5

LEMMA RootKeeps ==
  ASSUME ViewsAssumption, ViewsInv, NEW d \in Slots, NEW writable \in BOOLEAN, Root(d, writable)
  PROVE  ViewsInv'
<1> DEFINE w == New(Native, writable, <<>>, ~writable)
<1>1. w \in View
  <2>1. (~writable) \in BOOLEAN /\ <<>> \in Seq(Blocks)  OBVIOUS
  <2> QED  BY <2>1, NewIsView
<1>2. w.storage = NoView.storage /\ w.block \in Reachable(NoView.block)
  BY DEF New, NoView, Reachable
<1>3. Give(d, w) /\ NoBlock  BY DEF Root
<1> HIDE DEF w
<1> QED  BY <1>1, <1>2, <1>3, NoViewIsSource, GiveNone

LEMMA MemberKeeps ==
  ASSUME ViewsAssumption, ViewsInv, NEW d \in Slots, NEW v, Source(v), NEW readonly \in BOOLEAN,
         select_member(d, v, readonly)
  PROVE  ViewsInv'
<1> DEFINE w == New(v.block, v.writable /\ ~readonly, v.storage, v.frozen \/ readonly)
<1>1. (v.writable /\ ~readonly) \in BOOLEAN /\ (v.frozen \/ readonly) \in BOOLEAN  OBVIOUS
<1>2. w \in View  BY <1>1, SourceFacts, NewIsView
<1>3. w.storage = v.storage /\ w.block \in Reachable(v.block)  BY NewFields, SourceFacts
<1>4. Give(d, w) /\ NoBlock  BY DEF select_member
<1> HIDE DEF w
<1> QED  BY <1>2, <1>3, <1>4, GiveNone

\* A child, a target or a returned reference that is shown where it lies.
LEMMA BorrowKeeps ==
  ASSUME ViewsAssumption, ViewsInv, NEW d \in Slots, NEW v, Source(v), NEW b \in Reachable(v.block),
         NEW writable \in BOOLEAN, NEW frozen \in BOOLEAN,
         Give(d, retain_parent(New(b, writable, <<>>, frozen), v)), NoBlock
  PROVE  ViewsInv'
<1> DEFINE w == New(b, writable /\ v.writable, v.storage, frozen)
<1>1. (writable /\ v.writable) \in BOOLEAN /\ b \in Blocks \cup {Native}  BY SourceFacts
<1>2. w \in View  BY <1>1, SourceFacts, NewIsView
<1>3. w.storage = v.storage /\ w.block = b  BY NewFields
<1>4. Give(d, w)  BY SourceFacts, RetainPlain
<1> HIDE DEF w
<1> QED  BY <1>2, <1>3, <1>4, GiveNone

\* A copy: a snapshot of a proxy, or a result that was returned by value.
LEMMA CopyKeeps ==
  ASSUME ViewsAssumption, ViewsInv, NEW d \in Slots, NEW v, Source(v), NEW into \in SUBSET Reachable(v.block),
         NEW writable \in BOOLEAN, NEW frozen \in BOOLEAN,
         Give(d, retain_parent(New(used + 1, writable, <<used + 1>>, frozen), v)),
         Allocate(<<into>>, <<<<>>>>)
  PROVE  ViewsInv'
<1> DEFINE n == used + 1
           w == New(n, writable /\ v.writable, Cons(n, v.storage), frozen)
<1>1. n \in Blocks /\ n \notin alive
  BY AliveFacts DEF Allocate, Blocks, ViewsAssumption, ViewsInv, TypeOK
<1>2. (writable /\ v.writable) \in BOOLEAN /\ Cons(n, v.storage) \in Seq(Blocks)  BY <1>1, SourceFacts, SetOfCons
<1>3. w \in View  BY <1>1, <1>2, NewIsView
<1>4. w.storage = Cons(n, v.storage) /\ w.block = n  BY NewFields
<1>5. Give(d, w)
  <2>1. n \notin ToSet(v.storage) /\ v.storage \in Seq(Blocks)  BY <1>1, SourceFacts
  <2> QED  BY <2>1, <1>1, RetainOwn
<1>6. into \cup {w.block} \subseteq {Native, n} \cup Closure(holds, ToSet(v.storage)) \cup Closure(holds, ToSet(<<>>))
  BY <1>4, SourceReaches
<1>7. Sound(holds, refers, alive, v.storage) /\ Sound(holds, refers, alive, <<>>)  BY SoundEmpty DEF Source
<1> HIDE DEF w
<1> QED  BY <1>3, <1>4, <1>5, <1>6, <1>7, GiveOne

LEMMA ArgumentsKeep ==
  ASSUME ViewsAssumption, ViewsInv, NEW d \in Slots, NEW v, Source(v), NEW byValue \in BOOLEAN,
         borrow_result_with_arguments(d, v, byValue)
  PROVE  ViewsInv'
<1> DEFINE n == used + 1
           m == used + 2
<1>0. used \in Nat /\ n + 1 = m /\ n # m /\ m \notin alive /\ n \notin alive
  BY AliveFacts DEF ViewsInv, TypeOK
<1>1. Sound(holds, refers, alive, v.storage) /\ Sound(holds, refers, alive, <<>>)  BY SoundEmpty DEF Source
<1>2. n \notin ToSet(v.storage) /\ m \notin ToSet(v.storage) /\ v.storage \in Seq(Blocks)  BY <1>0, SourceFacts
<1>3. CASE byValue
  <2>1. PICK into \in SUBSET ({n} \cup Reachable(v.block)) :
            /\ Give(d, retain_parent(retain_storage(New(m, FALSE, <<m>>, v.frozen), <<n>>), v))
            /\ Allocate(<<{}, into>>, <<<<>>, <<>>>>)
    BY <1>0, <1>3 DEF borrow_result_with_arguments
  <2>2. n \in Blocks /\ m \in Blocks  BY <2>1, <1>0 DEF Allocate, Blocks, ViewsAssumption
  <2>3. ASSUME NEW access \in BOOLEAN,
               Give(d, retain_parent(retain_storage(New(m, access, <<m>>, v.frozen), <<n>>), v))
        PROVE  ViewsInv'
    <3> DEFINE w == New(m, access /\ v.writable, Cons(m, Cons(n, v.storage)), v.frozen)
    <3>1. (access /\ v.writable) \in BOOLEAN /\ Cons(m, Cons(n, v.storage)) \in Seq(Blocks)
      BY <2>2, <1>2, SetOfCons
    <3>2. w \in View  BY <2>2, <3>1, SourceFacts, NewIsView
    <3>3. w.storage = Cons(m, Cons(n, v.storage)) /\ w.block = m  BY NewFields
    <3>4. Give(d, w)  BY <2>2, <2>3, <1>0, <1>2, RetainPair
    <3>5. into \subseteq {Native, n} \cup Closure(holds, ToSet(v.storage)) \cup Closure(holds, ToSet(<<>>))
      BY SourceReaches
    <3> HIDE DEF w
    <3> QED  BY <2>1, <3>2, <3>3, <3>4, <3>5, <1>1, GiveTwo
  <2>4. FALSE \in BOOLEAN  OBVIOUS
  <2> QED  BY <2>1, <2>3, <2>4
<1>4. CASE ~byValue
  <2>1. PICK b \in {n} \cup Reachable(v.block) :
            /\ Give(d, retain_parent(retain_storage(New(b, FALSE, <<>>, v.frozen), <<n>>), v))
            /\ Allocate(<<{}>>, <<<<>>>>)
    BY <1>4 DEF borrow_result_with_arguments
  <2> DEFINE w == New(b, FALSE /\ v.writable, Cons(n, v.storage), v.frozen)
  <2>2. n \in Blocks  BY <2>1, <1>0 DEF Allocate, Blocks, ViewsAssumption
  <2>3. (FALSE /\ v.writable) \in BOOLEAN /\ Cons(n, v.storage) \in Seq(Blocks) /\ b \in Blocks \cup {Native}
    BY <2>2, <1>2, SourceFacts, SetOfCons
  <2>4. w \in View  BY <2>3, SourceFacts, NewIsView
  <2>5. w.storage = Cons(n, v.storage) /\ w.block = b  BY NewFields
  <2>6. Give(d, w)
    <3>1. retain_storage(New(b, FALSE, <<>>, v.frozen), <<n>>) = New(b, FALSE, <<n>>, v.frozen)
      BY <2>2, RetainBlock
    <3>2. retain_parent(New(b, FALSE, <<n>>, v.frozen), v) = w  BY <2>2, <1>2, RetainOwn, ZenonT(60)
    <3> QED  BY <3>1, <3>2, <2>1
  <2>7. {} \cup {w.block} \subseteq {Native, n} \cup Closure(holds, ToSet(v.storage)) \cup Closure(holds, ToSet(<<>>))
    BY <2>5, SourceReaches
  <2> HIDE DEF w
  <2> QED  BY <2>1, <2>4, <2>5, <2>6, <2>7, <1>1, GiveOne
<1> QED  BY <1>3, <1>4

LEMMA InvokeKeeps ==
  ASSUME ViewsAssumption, ViewsInv, NEW d \in Slots, NEW v, Source(v), NEW bound, Source(bound),
         NEW constant \in BOOLEAN, NEW consent \in BOOLEAN, NEW result \in {"value", "reference", "argument"},
         NEW arity \in 0 .. 1, invoke_bound(d, v, bound, constant, result, arity, consent)
  PROVE  ViewsInv'
<1> DEFINE n == used + 1
           m == used + 2
           near == {n} \cup Reachable(v.block) \cup Reachable(bound.block)
           keep == bound.storage \o v.storage
           writable == arity = 0 /\ v.writable /\ consent
           frozen == v.frozen \/ bound.frozen
<1>0. used \in Nat /\ n + 1 = m /\ n # m  BY AliveFacts
<1>1. Sound(holds, refers, alive, keep) /\ Sound(holds, refers, alive, <<>>)  BY SoundConcat, SoundEmpty DEF Source
<1>2. near \subseteq {Native, n} \cup Closure(holds, ToSet(<<>>)) \cup Closure(holds, ToSet(keep))
  <2>1. ToSet(keep) = ToSet(bound.storage) \cup ToSet(v.storage)  BY SourceFacts, SetOfConcat
  <2>2. /\ Closure(holds, ToSet(bound.storage)) \subseteq Closure(holds, ToSet(keep))
        /\ Closure(holds, ToSet(v.storage)) \subseteq Closure(holds, ToSet(keep))
    BY <2>1, ClosureSubset
  <2>3. /\ Reachable(v.block) \subseteq Closure(holds, ToSet(v.storage)) \cup {Native}
        /\ Reachable(bound.block) \subseteq Closure(holds, ToSet(bound.storage)) \cup {Native}
    BY SourceReaches
  <2> QED  BY <2>2, <2>3
<1>3. writable \in BOOLEAN /\ frozen \in BOOLEAN  OBVIOUS
<1>4. near \ {n} \subseteq Blocks \cup {Native}  BY SourceFacts
<1>5. \/ \E into \in SUBSET near :
            /\ Give(d, retain_storage(New(n + 1, writable, <<n + 1>>, frozen), <<n>>))
            /\ Allocate(<<{}, into>>, <<keep, <<>>>>)
      \/ \E b \in near :
            /\ Give(d, retain_storage(New(b, writable, <<>>, frozen), <<n>>))
            /\ Allocate(<<{}>>, <<keep>>)
      \/ /\ Give(d, retain_storage(New(n, FALSE, <<>>, frozen), <<n>>))
         /\ Allocate(<<{}>>, <<keep>>)
  BY DEF invoke_bound, CallStorage
<1> HIDE DEF keep, near, writable, frozen
<1>6. ASSUME NEW into \in SUBSET near,
             Give(d, retain_storage(New(n + 1, writable, <<n + 1>>, frozen), <<n>>)),
             Allocate(<<{}, into>>, <<keep, <<>>>>)
      PROVE  ViewsInv'
  <2> DEFINE w == New(m, writable, Cons(m, Cons(n, <<>>)), frozen)
  <2>1. n \in Blocks /\ m \in Blocks  BY <1>6, <1>0 DEF Allocate, Blocks, ViewsAssumption
  <2>2. Cons(m, Cons(n, <<>>)) \in Seq(Blocks)
    <3>1. <<>> \in Seq(Blocks)  OBVIOUS
    <3> QED  BY <3>1, <2>1, SetOfCons
  <2>3. w \in View  BY <2>1, <2>2, <1>3, NewIsView
  <2>4. w.storage = Cons(m, Cons(n, <<>>)) /\ w.block = m  BY NewFields
  <2>5. Give(d, w)  BY <2>1, <1>0, <1>6, RetainTwo
  <2>6. into \subseteq {Native, n} \cup Closure(holds, ToSet(<<>>)) \cup Closure(holds, ToSet(keep))  BY <1>2
  <2> HIDE DEF w
  <2> QED  BY <2>3, <2>4, <2>5, <2>6, <1>1, <1>6, GiveTwo
<1>7. ASSUME NEW b \in near \cup {n}, NEW access \in BOOLEAN,
             Give(d, retain_storage(New(b, access, <<>>, frozen), <<n>>)),
             Allocate(<<{}>>, <<keep>>)
      PROVE  ViewsInv'
  <2> DEFINE w == New(b, access, <<n>>, frozen)
  <2>1. n \in Blocks  BY <1>7, <1>0 DEF Allocate, Blocks, ViewsAssumption
  <2>2. b \in Blocks \cup {Native} /\ <<n>> \in Seq(Blocks)  BY <2>1, <1>4
  <2>3. w \in View  BY <2>2, <1>3, NewIsView
  <2>4. w.storage = Cons(n, <<>>) /\ w.block = b  BY <2>1, RetainBlock, NewFields
  <2>5. Give(d, w)  BY <2>1, <1>7, RetainBlock
  <2>6. {} \cup {w.block} \subseteq {Native, n} \cup Closure(holds, ToSet(<<>>)) \cup Closure(holds, ToSet(keep))
    BY <1>2, <2>4
  <2> HIDE DEF w
  <2> QED  BY <2>3, <2>4, <2>5, <2>6, <1>1, <1>7, GiveOne
<1>8. FALSE \in BOOLEAN  OBVIOUS
<1> QED  BY <1>3, <1>5, <1>6, <1>7, <1>8

-----------------------------------------------------------------------------
(* Views that are let go.                                                   *)

LEMMA DropKeeps ==
  ASSUME ViewsAssumption, ViewsInv, NEW s \in Slots, Drop(s)
  PROVE  ViewsInv'
<1>1. /\ Held(s) /\ dying = <<>> /\ dying' = views[s][1].storage /\ views' = [views EXCEPT ![s] = <<>>]
      /\ alive' = alive /\ refers' = refers /\ holds' = holds /\ used' = used
      /\ views \in [Slots -> Seq(View)] /\ \A t \in Slots : Len(views[t]) <= 1
  BY DEF Drop, ViewsInv, TypeOK
<1>2. views'[s] = <<>> /\ \A t \in Slots : t # s => views'[t] = views[t]  BY <1>1
<1>3. Sound(holds, refers, alive, views[s][1].storage)  BY <1>1 DEF ViewsInv, AllSound
<1>4. TypeOK'
  <2>1. views' \in [Slots -> Seq(View)] /\ \A t \in Slots : Len(views'[t]) <= 1  BY <1>1
  <2>2. dying' \in Seq(Blocks)  BY <1>1, <1>3 DEF Sound
  <2> QED  BY <2>1, <2>2, <1>1 DEF ViewsInv, TypeOK
<1>5. \A t \in Slots : Held(t)' => t # s /\ Held(t) /\ views'[t] = views[t]  BY <1>2 DEF Held
<1>6. AllSound'  BY <1>1, <1>3, <1>5 DEF ViewsInv, AllSound
<1>7. ShownKept'  BY <1>1, <1>5 DEF ViewsInv, ShownKept
<1>8. Older'  BY <1>1 DEF ViewsInv, Older
<1>9. AllKept'
  <2> SUFFICES ASSUME NEW b \in alive PROVE Keeps(b)' \/ b \in ToSet(dying')  BY <1>1 DEF AllKept
  <2>1. b \notin ToSet(dying)  BY <1>1, SoundEmpty
  <2>2. Keeps(b)  BY <2>1 DEF ViewsInv, AllKept
  <2>3. ASSUME NEW t \in Slots, Held(t), b \in ToSet(views[t][1].storage)
        PROVE  Keeps(b)' \/ b \in ToSet(dying')
    <3>1. CASE t = s  BY <3>1, <2>3, <1>1
    <3>2. CASE t # s  BY <3>2, <2>3, <1>2 DEF Keeps, Held
    <3> QED  BY <3>1, <3>2
  <2>4. ASSUME NEW c \in alive, b \in ToSet(holds[c]) PROVE Keeps(b)'  BY <2>4, <1>1 DEF Keeps
  <2> QED  BY <2>2, <2>3, <2>4 DEF Keeps
<1> QED  BY <1>4, <1>6, <1>7, <1>8, <1>9 DEF ViewsInv

\* A reference goes, and with the last one the block: nothing that is held
\* leads to it any more, and what it kept is released next.
LEMMA ReleaseKeeps ==
  ASSUME ViewsAssumption, ViewsInv, Release
  PROVE  ViewsInv'
<1> DEFINE b == Head(dying)
           rest == Tail(dying)
<1>1. dying # <<>> /\ views' = views /\ used' = used  BY DEF Release
<1>2. dying \in Seq(Blocks) /\ Sound(holds, refers, alive, dying)  BY DEF ViewsInv, TypeOK, AllSound
<1>3. /\ rest \in Seq(Blocks) /\ ToSet(dying) = {b} \cup ToSet(rest) /\ b \in ToSet(dying)
      /\ Sound(holds, refers, alive, rest)
  BY <1>1, <1>2, SetOfTail, SoundTail
<1>4. b \in alive /\ alive \in SUBSET Blocks  BY <1>2, <1>3, AliveFacts DEF Sound
<1> HIDE DEF b, rest
<1>5. \A s \in Slots : Held(s)' = Held(s)  BY <1>1 DEF Held
<1>6. CASE (Keeps(b) \/ b \in ToSet(rest)) /\ dying' = rest /\ UNCHANGED <<alive, refers, holds>>
  <2>1. TypeOK'  BY <1>1, <1>3, <1>6 DEF ViewsInv, TypeOK
  <2>2. AllSound' /\ ShownKept' /\ Older'
    BY <1>1, <1>3, <1>5, <1>6 DEF ViewsInv, AllSound, ShownKept, Older
  <2>3. \A x : Keeps(x)' = Keeps(x)  BY <1>1, <1>5, <1>6 DEF Keeps
  <2>4. AllKept'  BY <1>3, <1>6, <2>3 DEF ViewsInv, AllKept
  <2> QED  BY <2>1, <2>2, <2>4 DEF ViewsInv
<1>7. CASE /\ ~(Keeps(b) \/ b \in ToSet(rest)) /\ alive' = alive \ {b} /\ dying' = holds[b] \o rest
           /\ refers' = [refers EXCEPT ![b] = {}] /\ holds' = [holds EXCEPT ![b] = <<>>]
  <2>1. refers \in [Blocks -> SUBSET Blocks] /\ holds \in [Blocks -> Seq(Blocks)]  BY DEF ViewsInv, TypeOK
  <2>2. /\ alive' \in SUBSET Blocks /\ Sound(holds, refers, alive, holds[b]) /\ b \notin ToSet(holds[b])
        /\ holds[b] \in Seq(Blocks)
    <3>1. \A x \in ToSet(holds[b]) : x < b  BY <1>4 DEF ViewsInv, Older
    <3>2. b \in Int  BY <1>4 DEF Blocks
    <3>3. ~(b < b)  BY <3>2
    <3> QED  BY <3>1, <3>3, <1>4, <1>7, <2>1 DEF ViewsInv, AllSound
  <2>3. \A c \in alive' : c # b /\ holds'[c] = holds[c] /\ refers'[c] = refers[c]  BY <1>4, <1>7, <2>1
  <2>4. Closed(holds, alive')
    <3> SUFFICES ASSUME NEW c \in alive' PROVE ToSet(holds[c]) \subseteq alive'  BY DEF Closed
    <3>1. b \notin ToSet(holds[c]) /\ ToSet(holds[c]) \subseteq alive
      BY <1>7, AliveFacts DEF Keeps, Closed
    <3> QED  BY <3>1, <1>7
  <2>5. ASSUME NEW t, Sound(holds, refers, alive, t), b \notin ToSet(t)
        PROVE  Sound(holds', refers', alive', t) /\ Closure(holds', ToSet(t)) = Closure(holds, ToSet(t))
    <3>1. Sound(holds, refers, alive', t)  BY <1>7, <2>5 DEF Sound
    <3> QED  BY <3>1, <2>2, <2>3, <2>4, SoundSame
  <2>6. TypeOK'
    <3>1. refers' \in [Blocks -> SUBSET Blocks] /\ holds' \in [Blocks -> Seq(Blocks)]
      <4>1. {} \in SUBSET Blocks /\ <<>> \in Seq(Blocks)  OBVIOUS
      <4> QED  BY <4>1, <1>7, <2>1
    <3>2. dying' \in Seq(Blocks)  BY <1>3, <1>7, <2>2, SetOfConcat
    <3> QED  BY <3>1, <3>2, <1>1, <1>7 DEF ViewsInv, TypeOK
  <2>7. ASSUME NEW s \in Slots, Held(s)
        PROVE  Sound(holds, refers, alive, views[s][1].storage) /\ b \notin ToSet(views[s][1].storage)
    BY <1>7, <2>7 DEF Keeps, ViewsInv, AllSound
  <2>8. AllSound'
    <3>1. \A s \in Slots : Held(s) => Sound(holds', refers', alive', views[s][1].storage)  BY <2>5, <2>7
    <3>2. ASSUME NEW c \in alive' PROVE Sound(holds', refers', alive', holds'[c])
      <4>1. Sound(holds, refers, alive, holds[c]) /\ b \notin ToSet(holds[c])
        BY <1>7 DEF Keeps, ViewsInv, AllSound
      <4> QED  BY <4>1, <2>3, <2>5
    <3>3. Sound(holds', refers', alive', holds[b]) /\ Sound(holds', refers', alive', rest)
      BY <1>3, <1>7, <2>2, <2>5
    <3>4. Sound(holds', refers', alive', dying')  BY <3>3, <1>7, SoundConcat
    <3> QED  BY <3>1, <3>2, <3>4, <1>1, <1>5 DEF AllSound
  <2>9. ShownKept'
    <3> SUFFICES ASSUME NEW s \in Slots, Held(s) PROVE Grounded(holds', views[s][1])
      BY <1>1, <1>5 DEF ShownKept
    <3>1. Closure(holds', ToSet(views[s][1].storage)) = Closure(holds, ToSet(views[s][1].storage))
      BY <2>5, <2>7
    <3> QED  BY <3>1 DEF ViewsInv, ShownKept, Grounded
  <2>10. Older'  BY <1>7, <2>3 DEF ViewsInv, Older
  <2>11. AllKept'
    <3> SUFFICES ASSUME NEW x \in alive' PROVE Keeps(x)' \/ x \in ToSet(dying')  BY DEF AllKept
    <3>1. ToSet(dying') = ToSet(holds[b]) \cup ToSet(rest)  BY <1>3, <1>7, <2>2, SetOfConcat
    <3>2. x # b /\ (Keeps(x) \/ x \in ToSet(dying))  BY <1>7 DEF ViewsInv, AllKept
    <3>3. ASSUME NEW s \in Slots, Held(s), x \in ToSet(views[s][1].storage) PROVE Keeps(x)'
      BY <3>3, <1>1, <1>5 DEF Keeps
    <3>4. ASSUME NEW c \in alive, x \in ToSet(holds[c]) PROVE Keeps(x)' \/ x \in ToSet(dying')
      <4>1. CASE c = b  BY <4>1, <3>1, <3>4
      <4>2. CASE c # b
        <5>1. c \in alive' /\ holds'[c] = holds[c]  BY <4>2, <1>7, <2>3
        <5> QED  BY <5>1, <3>4 DEF Keeps
      <4> QED  BY <4>1, <4>2
    <3> QED  BY <3>1, <3>2, <3>3, <3>4, <1>3 DEF Keeps
  <2> QED  BY <2>6, <2>8, <2>9, <2>10, <2>11 DEF ViewsInv
<1> QED  BY <1>6, <1>7 DEF Release, b, rest

-----------------------------------------------------------------------------
LEMMA InitViews == ViewsAssumption /\ Init => ViewsInv
<1> SUFFICES ASSUME ViewsAssumption, Init PROVE ViewsInv  OBVIOUS
<1>1. alive = {} /\ dying = <<>> /\ used = 0 /\ \A s \in Slots : ~Held(s)  BY DEF Init, Held
<1>2. TypeOK  BY DEF Init, TypeOK, ViewsAssumption
<1>3. AllSound /\ ShownKept /\ Older /\ AllKept
  BY <1>1, SoundEmpty DEF AllSound, ShownKept, Older, AllKept
<1> QED  BY <1>2, <1>3 DEF ViewsInv

\* Every call of the library on a view that the caller holds.
LEMMA CallsKeep ==
  ASSUME ViewsAssumption, ViewsInv, NEW s \in Slots, NEW d \in Slots, Held(s),
         NEW v, v = views[s][1], NEW bound \in {NoView} \cup {views[a][1] : a \in {a \in Slots : Held(a)}},
         NEW x \in BOOLEAN, NEW y \in BOOLEAN, NEW z \in BOOLEAN,
         NEW result \in {"value", "reference", "argument"}, NEW arity \in 0 .. 1,
         \/ select_member(d, v, x) \/ select_index(d, v, x) \/ select_snapshot(d, v) \/ select_key(d, v)
         \/ borrow_result(d, v, x, y, z) \/ borrow_result_with_arguments(d, v, x)
         \/ invoke_bound(d, v, bound, x, result, arity, y)
  PROVE  ViewsInv'
<1>1. Source(v)  BY HeldIsSource
<1>2. Source(bound)  BY HeldIsSource, NoViewIsSource
<1>3. v.writable \in BOOLEAN /\ v.frozen \in BOOLEAN  BY <1>1, SourceFacts
<1>4. CASE select_member(d, v, x)  BY <1>1, <1>4, MemberKeeps
<1>5. CASE select_index(d, v, x)
  <2>1. (v.writable /\ x) \in BOOLEAN  OBVIOUS
  <2> QED  BY <2>1, <1>1, <1>3, <1>5, BorrowKeeps DEF select_index
<1>6. CASE select_snapshot(d, v)
  <2>1. FALSE \in BOOLEAN  OBVIOUS
  <2> QED  BY <2>1, <1>1, <1>3, <1>6, CopyKeeps DEF select_snapshot
<1>7. CASE select_key(d, v)
  <2>1. FALSE \in BOOLEAN /\ TRUE \in BOOLEAN  OBVIOUS
  <2> QED  BY <2>1, <1>1, <1>7, BorrowKeeps DEF select_key
<1>8. CASE borrow_result(d, v, x, y, z)
  <2>1. (v.writable /\ z) \in BOOLEAN  OBVIOUS
  <2>2. CASE y  BY <2>1, <2>2, <1>1, <1>3, <1>8, CopyKeeps DEF borrow_result
  <2>3. CASE ~y  BY <2>1, <2>3, <1>1, <1>3, <1>8, BorrowKeeps DEF borrow_result
  <2> QED  BY <2>2, <2>3
<1>9. CASE borrow_result_with_arguments(d, v, x)  BY <1>1, <1>9, ArgumentsKeep
<1>10. CASE invoke_bound(d, v, bound, x, result, arity, y)  BY <1>1, <1>2, <1>10, InvokeKeeps
<1> QED  BY <1>4, <1>5, <1>6, <1>7, <1>8, <1>9, <1>10

LEMMA NextViews == ViewsAssumption /\ ViewsInv /\ [Next]_vars => ViewsInv'
<1> SUFFICES ASSUME ViewsAssumption, ViewsInv, [Next]_vars PROVE ViewsInv'  OBVIOUS
<1>1. CASE UNCHANGED vars
  <2>1. \A s \in Slots : Held(s)' = Held(s)  BY <1>1 DEF vars, Held
  <2>2. \A b : Keeps(b)' = Keeps(b)  BY <1>1, <2>1 DEF vars, Keeps
  <2> QED  BY <1>1, <2>1, <2>2 DEF vars, ViewsInv, TypeOK, AllSound, ShownKept, Older, AllKept
<1>2. CASE \E d \in Slots : \E writable \in BOOLEAN : Root(d, writable)  BY <1>2, RootKeeps
<1>3. CASE \E s \in Slots : Drop(s)  BY <1>3, DropKeeps
<1>4. CASE Release  BY <1>4, ReleaseKeeps
<1>5. ASSUME NEW s \in Slots, NEW d \in Slots, Held(s),
             \/ \E flag \in BOOLEAN : select_member(d, views[s][1], flag) \/ select_index(d, views[s][1], flag)
             \/ select_snapshot(d, views[s][1]) \/ select_key(d, views[s][1])
             \/ \E constant, byValue, consent \in BOOLEAN :
                   borrow_result(d, views[s][1], constant, byValue, consent)
             \/ \E byValue \in BOOLEAN : borrow_result_with_arguments(d, views[s][1], byValue)
             \/ \E bound \in {NoView} \cup {views[a][1] : a \in {a \in Slots : Held(a)}},
                   constant, consent \in BOOLEAN, result \in {"value", "reference", "argument"}, arity \in 0 .. 1 :
                   invoke_bound(d, views[s][1], bound, constant, result, arity, consent)
      PROVE  ViewsInv'
  <2>1. PICK v : v = views[s][1]  OBVIOUS
  <2>2. /\ NoView \in {NoView} \cup {views[a][1] : a \in {a \in Slots : Held(a)}}
        /\ "value" \in {"value", "reference", "argument"} /\ 0 \in 0 .. 1 /\ TRUE \in BOOLEAN
    OBVIOUS
  <2>3. CASE \E flag \in BOOLEAN : select_member(d, v, flag) \/ select_index(d, v, flag)
    BY <1>5, <2>1, <2>2, <2>3, CallsKeep
  <2>4. CASE select_snapshot(d, v) \/ select_key(d, v)  BY <1>5, <2>1, <2>2, <2>4, CallsKeep
  <2>5. CASE \E constant, byValue, consent \in BOOLEAN : borrow_result(d, v, constant, byValue, consent)
    BY <1>5, <2>1, <2>2, <2>5, CallsKeep
  <2>6. CASE \E byValue \in BOOLEAN : borrow_result_with_arguments(d, v, byValue)
    BY <1>5, <2>1, <2>2, <2>6, CallsKeep
  <2>7. CASE \E bound \in {NoView} \cup {views[a][1] : a \in {a \in Slots : Held(a)}},
                constant, consent \in BOOLEAN, result \in {"value", "reference", "argument"}, arity \in 0 .. 1 :
                invoke_bound(d, v, bound, constant, result, arity, consent)
    <3>1. PICK bound \in {NoView} \cup {views[a][1] : a \in {a \in Slots : Held(a)}},
               constant \in BOOLEAN, consent \in BOOLEAN,
               result \in {"value", "reference", "argument"}, arity \in 0 .. 1 :
               invoke_bound(d, v, bound, constant, result, arity, consent)
      BY <2>7
    <3>2. Source(v) /\ Source(bound)  BY <1>5, <2>1, HeldIsSource, NoViewIsSource
    <3> QED  BY <3>1, <3>2, InvokeKeeps
  <2> QED  BY <1>5, <2>1, <2>3, <2>4, <2>5, <2>6, <2>7
<1> QED  BY <1>1, <1>2, <1>3, <1>4, <1>5 DEF Next

-----------------------------------------------------------------------------
LEMMA LeastNat ==
  ASSUME NEW T, T \subseteq Nat, T # {}
  PROVE  \E x \in T : \A y \in T : x <= y
<1> DEFINE R == OpToRel(<, Nat)
<1>1. IsWellFoundedOn(R, Nat)  BY NatLessThanWellFounded
<1>2. \A x, y \in Nat : y < x => <<y, x>> \in R  BY DEF OpToRel
<1> HIDE DEF R
<1>3. \E x \in T : \A y \in T : ~(<<y, x>> \in R)  BY <1>1, WFMin
<1>4. PICK x \in T : \A y \in T : ~(<<y, x>> \in R)  BY <1>3
<1>5. \A y \in T : ~(y < x)  BY <1>2, <1>4, Zenon
<1> QED  BY <1>4, <1>5

\* A block that no view and no release leads to would be kept by a younger
\* one, and so on for ever.
LEMMA KeptLeaksNothing == ViewsAssumption /\ ViewsInv => NothingLeaks
<1> SUFFICES ASSUME ViewsAssumption, ViewsInv, \A s \in Slots : ~Held(s), dying = <<>>, alive # {}
             PROVE  FALSE
  BY DEF NothingLeaks
<1> DEFINE T == {n \in Nat : \A b \in alive : b <= n}
<1>1. used \in Nat /\ alive \subseteq Nat \ {0} /\ \A b \in alive : b <= used
  BY AliveFacts DEF ViewsInv, TypeOK
<1>2. used \in T  BY <1>1
<1>3. PICK m \in T : \A y \in T : m <= y  BY <1>2, LeastNat
<1>4. m \in alive
  <2>1. m \in Nat /\ \A b \in alive : b <= m  BY <1>3
  <2>2. m # 0
    <3>1. PICK b \in alive : TRUE  OBVIOUS
    <3>2. b \in Nat \ {0} /\ b <= m  BY <3>1, <2>1, <1>1
    <3> QED  BY <3>2, <2>1
  <2>3. m - 1 \in Nat /\ ~(m <= m - 1)  BY <2>1, <2>2
  <2>4. m - 1 \notin T  BY <2>3, <1>3
  <2>5. PICK b \in alive : ~(b <= m - 1)  BY <2>3, <2>4
  <2> QED  BY <2>1, <2>5, <1>1
<1>5. m \notin ToSet(dying)  BY SoundEmpty
<1>6. PICK c \in alive : m \in ToSet(holds[c])  BY <1>4, <1>5 DEF ViewsInv, AllKept, Keeps
<1>7. m < c  BY <1>6 DEF ViewsInv, Older
<1> QED  BY <1>1, <1>3, <1>6, <1>7

LEMMA ViewsInvImplies == ViewsAssumption /\ ViewsInv => StorageInv
<1> SUFFICES ASSUME ViewsAssumption, ViewsInv PROVE StorageInv  OBVIOUS
<1>1. ViewsValid
  <2> SUFFICES ASSUME NEW s \in Slots, Held(s) PROVE views[s][1].block \in alive \cup {Native}
    BY DEF ViewsValid
  <2>1. Source(views[s][1])  BY HeldIsSource
  <2> QED  BY <2>1, SourceReaches DEF Source, Grounded
<1>2. BackingOutlives
  <2> SUFFICES ASSUME NEW b \in alive PROVE refers[b] \subseteq alive  BY DEF BackingOutlives
  <2>1. PICK s : Sound(holds, refers, alive, s) /\ b \in ToSet(s)
    BY DEF ViewsInv, AllSound, AllKept, Keeps
  <2>2. ToSet(s) \in SUBSET Blocks /\ ToSet(s) \subseteq alive  BY <2>1, SetOfSeq DEF Sound
  <2>3. b \in Closure(holds, ToSet(s))  BY <2>1, <2>2, ClosureBase
  <2>4. refers[b] \subseteq Closure(holds, ToSet(s))
    BY <2>1, <2>3, AliveFacts, SoundReaches DEF ViewsInv, AllSound
  <2> QED  BY <2>2, <2>4, AliveFacts, ClosureLeast
<1> QED  BY <1>1, <1>2, KeptLeaksNothing DEF StorageInv, ViewsInv

\* For any number of views, of blocks and of calls: what a view shows is
\* allocated for as long as the view is kept, in whatever order the caller
\* lets go of its views; a block is destroyed before the blocks that it
\* points into; and with the last view the last block goes (retain_storage,
\* retain_parent, invoke_bound of runtime/value_descriptor.h).
THEOREM StorageIsSafe ==
  ASSUME ViewsAssumption
  PROVE  Spec => []StorageInv
<1>1. Init => ViewsInv  BY InitViews
<1>2. ViewsInv /\ [Next]_vars => ViewsInv'  BY NextViews
<1>3. ViewsInv => StorageInv  BY ViewsInvImplies
<1> QED  BY <1>1, <1>2, <1>3, PTL DEF Spec

-----------------------------------------------------------------------------
(* Readonly stays readonly.                                                 *)

LEMMA GiveReadonly ==
  ASSUME ViewsInv, ReadonlyStays, NEW d \in Slots, NEW w, Give(d, w), w.frozen => ~w.writable
  PROVE  ReadonlyStays'
<1>1. /\ views' = [views EXCEPT ![d] = <<w>>] /\ views \in [Slots -> Seq(View)]
  BY DEF Give, ViewsInv, TypeOK
<1>2. /\ views'[d][1] = w /\ \A s \in Slots : s # d => views'[s] = views[s]
  BY <1>1
<1> QED  BY <1>2 DEF ReadonlyStays, Held

LEMMA CallsReadonly ==
  ASSUME ViewsAssumption, ViewsInv, ReadonlyStays, NEW s \in Slots, NEW d \in Slots, Held(s),
         NEW v, v = views[s][1], NEW bound \in {NoView} \cup {views[a][1] : a \in {a \in Slots : Held(a)}},
         NEW x \in BOOLEAN, NEW y \in BOOLEAN, NEW z \in BOOLEAN,
         NEW result \in {"value", "reference", "argument"}, NEW arity \in 0 .. 1,
         \/ select_member(d, v, x) \/ select_index(d, v, x) \/ select_snapshot(d, v) \/ select_key(d, v)
         \/ borrow_result(d, v, x, y, z) \/ borrow_result_with_arguments(d, v, x)
         \/ invoke_bound(d, v, bound, x, result, arity, y)
  PROVE  ReadonlyStays'
<1>1. v.writable \in BOOLEAN /\ v.frozen \in BOOLEAN  BY HeldIsSource, SourceFacts
<1>2. v.frozen => ~v.writable  BY DEF ReadonlyStays
<1>4. CASE select_member(d, v, x)
  <2> DEFINE w == New(v.block, v.writable /\ ~x, v.storage, v.frozen \/ x)
  <2>1. Give(d, w)  BY <1>4 DEF select_member
  <2>2. w.writable = (v.writable /\ ~x) /\ w.frozen = (v.frozen \/ x)  BY DEF New
  <2> HIDE DEF w
  <2> QED  BY <2>1, <2>2, <1>2, GiveReadonly
<1>5. ASSUME NEW b, NEW writable \in BOOLEAN, NEW storage, NEW frozen \in BOOLEAN,
             Give(d, retain_parent(New(b, writable, storage, frozen), v)),
             frozen => ~(writable /\ v.writable)
      PROVE  ReadonlyStays'
  <2> DEFINE w == retain_parent(New(b, writable, storage, frozen), v)
  <2>1. w.writable = (writable /\ v.writable) /\ w.frozen = frozen  BY DEF retain_parent, retain_storage, New
  <2>2. Give(d, w)  BY <1>5
  <2> HIDE DEF w
  <2> QED  BY <2>1, <2>2, <1>5, GiveReadonly
<1>6. CASE select_index(d, v, x)
  <2>1. (v.writable /\ x) \in BOOLEAN  OBVIOUS
  <2> QED  BY <2>1, <1>1, <1>2, <1>5, <1>6 DEF select_index
<1>7. CASE select_snapshot(d, v)
  <2>1. FALSE \in BOOLEAN  OBVIOUS
  <2> QED  BY <2>1, <1>1, <1>2, <1>5, <1>7 DEF select_snapshot
<1>8. CASE select_key(d, v)
  <2>1. FALSE \in BOOLEAN /\ TRUE \in BOOLEAN  OBVIOUS
  <2> QED  BY <2>1, <1>5, <1>8 DEF select_key
<1>9. CASE borrow_result(d, v, x, y, z)
  <2>1. (v.writable /\ z) \in BOOLEAN  OBVIOUS
  <2>2. PICK b, storage : Give(d, retain_parent(New(b, v.writable /\ z, storage, v.frozen), v))
    BY <1>9 DEF borrow_result
  <2> QED  BY <2>1, <2>2, <1>1, <1>2, <1>5
<1>10. CASE borrow_result_with_arguments(d, v, x)
  <2>1. PICK b, storage, more :
            Give(d, retain_parent(retain_storage(New(b, FALSE, storage, v.frozen), more), v))
    BY <1>10 DEF borrow_result_with_arguments
  <2> DEFINE w == retain_parent(retain_storage(New(b, FALSE, storage, v.frozen), more), v)
  <2>2. w.writable = (FALSE /\ v.writable)  BY DEF retain_parent, retain_storage, New
  <2>3. Give(d, w)  BY <2>1
  <2> HIDE DEF w
  <2> QED  BY <2>2, <2>3, GiveReadonly
<1>11. CASE invoke_bound(d, v, bound, x, result, arity, y)
  <2> DEFINE writable == arity = 0 /\ v.writable /\ y
             frozen == v.frozen \/ bound.frozen
  <2>1. \/ \E b, storage, more : Give(d, retain_storage(New(b, writable, storage, frozen), more))
        \/ \E b, storage, more : Give(d, retain_storage(New(b, FALSE, storage, frozen), more))
    BY <1>11, Zenon DEF invoke_bound
  <2>2. arity = 0 => bound = NoView  BY <1>11 DEF invoke_bound
  <2>3. ~NoView.frozen  BY DEF NoView, New
  <2>4. frozen => ~writable  BY <2>2, <2>3, <1>2
  <2>5. ASSUME NEW b, NEW storage, NEW more, NEW access \in BOOLEAN, frozen => ~access,
               Give(d, retain_storage(New(b, access, storage, frozen), more))
        PROVE  ReadonlyStays'
    <3> HIDE DEF writable, frozen
    <3> DEFINE w == retain_storage(New(b, access, storage, frozen), more)
    <3>1. w.writable = access /\ w.frozen = frozen  BY DEF retain_storage, New
    <3>2. Give(d, w)  BY <2>5
    <3> HIDE DEF w
    <3> QED  BY <2>5, <3>1, <3>2, GiveReadonly
  <2>6. writable \in BOOLEAN /\ FALSE \in BOOLEAN  OBVIOUS
  <2> HIDE DEF writable, frozen
  <2> QED  BY <2>1, <2>4, <2>5, <2>6
<1> QED  BY <1>4, <1>6, <1>7, <1>8, <1>9, <1>10, <1>11

LEMMA NextReadonly ==
  ViewsAssumption /\ ViewsInv /\ ReadonlyStays /\ [Next]_vars => ReadonlyStays'
<1> SUFFICES ASSUME ViewsAssumption, ViewsInv, ReadonlyStays, [Next]_vars PROVE ReadonlyStays'  OBVIOUS
<1>1. CASE UNCHANGED vars \/ Release  BY <1>1 DEF vars, Release, ReadonlyStays, Held
<1>2. ASSUME NEW d \in Slots, NEW writable \in BOOLEAN, Root(d, writable) PROVE ReadonlyStays'
  <2> DEFINE w == New(Native, writable, <<>>, ~writable)
  <2>1. Give(d, w)  BY <1>2 DEF Root
  <2>2. w.writable = writable /\ w.frozen = ~writable  BY DEF New
  <2> HIDE DEF w
  <2> QED  BY <2>1, <2>2, GiveReadonly
<1>3. ASSUME NEW s \in Slots, Drop(s) PROVE ReadonlyStays'
  <2>1. views' = [views EXCEPT ![s] = <<>>] /\ views \in [Slots -> Seq(View)]  BY <1>3 DEF Drop, ViewsInv, TypeOK
  <2>2. views'[s] = <<>> /\ \A t \in Slots : t # s => views'[t] = views[t]  BY <2>1
  <2> QED  BY <2>2 DEF ReadonlyStays, Held
<1>4. ASSUME NEW s \in Slots, NEW d \in Slots, Held(s),
             \/ \E flag \in BOOLEAN : select_member(d, views[s][1], flag) \/ select_index(d, views[s][1], flag)
             \/ select_snapshot(d, views[s][1]) \/ select_key(d, views[s][1])
             \/ \E constant, byValue, consent \in BOOLEAN :
                   borrow_result(d, views[s][1], constant, byValue, consent)
             \/ \E byValue \in BOOLEAN : borrow_result_with_arguments(d, views[s][1], byValue)
             \/ \E bound \in {NoView} \cup {views[a][1] : a \in {a \in Slots : Held(a)}},
                   constant, consent \in BOOLEAN, result \in {"value", "reference", "argument"}, arity \in 0 .. 1 :
                   invoke_bound(d, views[s][1], bound, constant, result, arity, consent)
      PROVE  ReadonlyStays'
  <2>1. PICK v : v = views[s][1]  OBVIOUS
  <2>2. /\ NoView \in {NoView} \cup {views[a][1] : a \in {a \in Slots : Held(a)}}
        /\ "value" \in {"value", "reference", "argument"} /\ 0 \in 0 .. 1 /\ TRUE \in BOOLEAN
    OBVIOUS
  <2>3. CASE \E flag \in BOOLEAN : select_member(d, v, flag) \/ select_index(d, v, flag)
    BY <1>4, <2>1, <2>2, <2>3, CallsReadonly
  <2>4. CASE select_snapshot(d, v) \/ select_key(d, v)  BY <1>4, <2>1, <2>2, <2>4, CallsReadonly
  <2>5. CASE \E constant, byValue, consent \in BOOLEAN : borrow_result(d, v, constant, byValue, consent)
    BY <1>4, <2>1, <2>2, <2>5, CallsReadonly
  <2>6. CASE \E byValue \in BOOLEAN : borrow_result_with_arguments(d, v, byValue)
    BY <1>4, <2>1, <2>2, <2>6, CallsReadonly
  <2>7. CASE \E bound \in {NoView} \cup {views[a][1] : a \in {a \in Slots : Held(a)}},
                constant, consent \in BOOLEAN, result \in {"value", "reference", "argument"}, arity \in 0 .. 1 :
                invoke_bound(d, v, bound, constant, result, arity, consent)
    BY <1>4, <2>1, <2>2, <2>7, CallsReadonly
  <2> QED  BY <1>4, <2>1, <2>3, <2>4, <2>5, <2>6, <2>7
<1> QED  BY <1>1, <1>2, <1>3, <1>4 DEF Next

\* No chain of calls, however long, leads from a readonly root, a readonly
\* field or a key to a view that can be written (retain_parent, select_member,
\* borrow_result and invoke_bound of runtime/value_descriptor_impl.h).
THEOREM ReadonlyIsKept ==
  ASSUME ViewsAssumption
  PROVE  Spec => []ReadonlyStays
<1>1. Init => ViewsInv /\ ReadonlyStays
  <2>1. Init => ReadonlyStays  BY DEF Init, ReadonlyStays, Held
  <2> QED  BY <2>1, InitViews
<1>2. ViewsInv /\ ReadonlyStays /\ [Next]_vars => (ViewsInv /\ ReadonlyStays)'  BY NextViews, NextReadonly
<1> QED  BY <1>1, <1>2, PTL DEF Spec

-----------------------------------------------------------------------------
(* Calls by data. While arguments are read, each is what ReadSlot makes of  *)
(* its item and its view, and no step behind changes one; so native code is *)
(* entered with arguments of which each was read right.                     *)

SlotType == [from : {"error", "null", "own", "bound"}, writable : BOOLEAN]

\* The k-th argument was read as the code reads it, and without an error.
Taken(k) ==
    /\ k <= Len(call.items)
    /\ slots[k] = ReadSlot(call.method.params[k], call.items[k], Binding(k)) /\ slots[k] # Error

Before == {"read", "native", "respond", "done"}
Behind == {"native", "respond", "done"}

CallInv ==
    /\ call \in Calls
    /\ slots \in Seq(SlotType) /\ Len(slots) <= Arity
    /\ \A k \in 1 .. Len(slots) : Taken(k)
    /\ entered \in BOOLEAN
    /\ phase \in Before \/ entered => Admitted
    /\ phase \in Behind \/ entered => Len(slots) = Arity /\ call.array /\ call.closed /\ Len(call.items) = Arity
    /\ phase # "done" => output \in Seq({"own"})
    /\ OutputsOwned

-----------------------------------------------------------------------------
LEMMA ReadSlotFacts ==
  ASSUME NEW p \in Parameter, NEW item, NEW b, b # <<>> => b[1].writable \in BOOLEAN
  PROVE  /\ ReadSlot(p, item, b) \in SlotType
         /\ ReadSlot(p, item, b) # Error =>
                IF b = <<>> THEN item = "good" /\ materializable(p.type) /\ ReadSlot(p, item, b).from = "own"
                ELSE item = "null" /\ ReadSlot(p, item, b).from # "own"
<1>1. Error \in SlotType /\ Slot("own", TRUE) \in SlotType /\ Slot("own", TRUE).from = "own"  BY DEF Error, Slot, SlotType
<1>2. CASE b = <<>>  BY <1>1, <1>2 DEF ReadSlot
<1>3. CASE b # <<>>
  <2>1. PICK v : v = b[1]  OBVIOUS
  <2>2. bind_object(p, v) \in SlotType /\ bind_object(p, v).from # "own"
    <3>1. v.writable \in BOOLEAN  BY <1>3, <2>1
    <3> QED  BY <3>1, Zenon DEF bind_object, Error, Slot, SlotType
  <2>3. bind_pointer(p, v) \in SlotType /\ bind_pointer(p, v).from # "own"
    <3>1. PICK w \in BOOLEAN : w = (v.writable /\ (v.kind = "target" \/ v.consent))  OBVIOUS
    <3> QED  BY <3>1 DEF bind_pointer, Error, Slot, SlotType
  <2> QED  BY <1>1, <1>3, <2>1, <2>2, <2>3 DEF ReadSlot
<1> QED  BY <1>2, <1>3

\* A view that only shows its object gives native code no way to write.
LEMMA BoundKept ==
  ASSUME NEW p \in Parameter, p.type.shape = "text" \/ (p.type.shape = "value" /\ p.type.optin) => p.type.plain,
         bound_argument_allowed(p), NEW item, NEW b, b # <<>>, b[1].writable \in BOOLEAN,
         NEW s, s = ReadSlot(p, item, b), s.from = "bound", ~s.writable
  PROVE  ~WritesThrough(p)
<1>1. PICK t \in TypeFacts : t = p.type  BY DEF Parameter
<1>2. PICK v : v = b[1]  OBVIOUS
<1>3. Error.from # "bound" /\ Slot("null", FALSE).from # "bound" /\ Slot("bound", TRUE).writable
  BY DEF Error, Slot
<1>4. CASE IsPointer(t)
  <2>1. s = bind_pointer(p, v)  BY <1>1, <1>2, <1>3, <1>4 DEF ReadSlot
  <2>2. PICK w \in BOOLEAN : w = (v.writable /\ (v.kind = "target" \/ v.consent))  OBVIOUS
  <2>3. s = Slot("bound", w) /\ ~(t.fixed /\ ~w /\ ~t.plain) /\ ~(~t.fixed /\ ~w)
    BY <1>1, <1>3, <2>1, <2>2 DEF bind_pointer
  <2>4. ~w  BY <2>3 DEF Slot
  <2>5. t.fixed /\ t.plain  BY <2>3, <2>4
  <2>6. p.passing = "value"  BY <1>1, <1>4 DEF bound_argument_allowed
  <2> QED  BY <1>1, <2>5, <2>6 DEF WritesThrough
<1>5. CASE ~IsPointer(t)
  <2>1. s = bind_object(p, v)  BY <1>1, <1>2, <1>3, <1>5 DEF ReadSlot
  <2>2. s = Slot("bound", v.writable) /\ ~(~v.writable /\ ~bound_argument_readonly_safe(t))
        /\ ~(~v.writable /\ p.passing = "ref")
    BY <1>1, <1>3, <2>1 DEF bind_object
  <2>3. ~v.writable  BY <2>2 DEF Slot
  <2>4. bound_argument_readonly_safe(t) /\ p.passing # "ref"  BY <2>2, <2>3
  <2>5. t.shape \in {"value", "text", "span", "owner", "pointer"}  BY DEF TypeFacts
  <2>6. t.plain /\ (t.shape = "span" => t.fixed) /\ t.shape \notin {"owner", "pointer"}
    BY <1>1, <2>4, <2>5 DEF bound_argument_readonly_safe, serialized_argument_safe, PointerShaped
  <2> QED  BY <1>1, <2>4, <2>6 DEF WritesThrough
<1> QED  BY <1>4, <1>5

LEMMA CallFacts ==
  ASSUME CallsAssumption, call \in Calls
  PROVE  /\ Arity \in Nat /\ Len(call.items) \in Nat
         /\ \A i \in 1 .. Arity : call.method.params[i] \in Parameter /\ call.method.params[i] \in Range(call.method.params)
         /\ \A p \in Range(call.method.params) :
                p.type.shape = "text" \/ (p.type.shape = "value" /\ p.type.optin) => p.type.plain
         /\ \A i \in Nat : Admitted /\ i \in 1 .. Arity /\ Binding(i) # <<>> =>
                Binding(i)[1].writable \in BOOLEAN /\ call.way = "bound"
<1>1. PICK ps \in Seq(Parameter) : ps = call.method.params  BY DEF CallsAssumption
<1>2. Arity \in Nat /\ DOMAIN ps = 1 .. Arity  BY <1>1 DEF Arity
<1>3. PICK items \in Seq({"good", "null", "bad"}) : items = call.items  BY DEF CallsAssumption
<1>4. Len(call.items) \in Nat  BY <1>3
<1>5. \A i \in 1 .. Arity : ps[i] \in Parameter /\ ps[i] \in Range(ps)  BY <1>2 DEF Range
<1>6. \A p \in Range(ps) : p.type.shape = "text" \/ (p.type.shape = "value" /\ p.type.optin) => p.type.plain
  BY <1>1 DEF CallsAssumption
<1>7. ASSUME Admitted, NEW i \in 1 .. Arity, Binding(i) # <<>>
      PROVE  Binding(i)[1].writable \in BOOLEAN /\ call.way = "bound"
  <2>1. call.bindings # <<>> /\ Binding(i) = call.bindings[i]  BY <1>7 DEF Binding
  <2>2. i \in DOMAIN call.bindings
    <3>1. Len(call.bindings) = Arity  BY <1>7, <2>1 DEF Admitted
    <3>2. call.bindings \in Seq(Seq(BoundView))  BY DEF CallsAssumption
    <3> QED  BY <1>7, <3>1, <3>2
  <2>3. PICK b \in Seq(BoundView) : b = Binding(i)  BY <2>1, <2>2 DEF CallsAssumption
  <2>4. b[1] \in BoundView  BY <1>7, <2>3
  <2>5. b[1].writable \in BOOLEAN  BY <2>4 DEF BoundView
  <2> QED  BY <2>1, <2>3, <2>5 DEF CallsAssumption
<1> QED  BY <1>1, <1>2, <1>4, <1>5, <1>6, <1>7

-----------------------------------------------------------------------------
LEMMA InitCall == CallsAssumption /\ CallInit => CallInv
<1> SUFFICES ASSUME CallsAssumption, CallInit PROVE CallInv  OBVIOUS
<1>1. call \in Calls /\ phase = "enter" /\ slots = <<>> /\ entered = FALSE /\ output = <<>>  BY DEF CallInit
<1>2. Arity \in Nat  BY <1>1, CallFacts
<1>3. <<>> \in Seq(SlotType) /\ <<>> \in Seq({"own"}) /\ Len(<<>>) = 0  OBVIOUS
<1>4. slots \in Seq(SlotType) /\ Len(slots) = 0 /\ 1 .. Len(slots) = {} /\ output \in Seq({"own"})  BY <1>1, <1>3
<1>5. phase \notin Before /\ phase \notin Behind /\ ~entered /\ OutputsOwned  BY <1>1 DEF Before, Behind, OutputsOwned
<1>6. call \in Calls /\ entered \in BOOLEAN  BY <1>1
<1>7. Len(slots) <= Arity /\ \A k \in 1 .. Len(slots) : Taken(k)  BY <1>2, <1>4
<1> QED  BY <1>4, <1>5, <1>6, <1>7, Zenon DEF CallInv

\* Steps that leave the call and its arguments alone.
LEMMA SameArguments ==
  ASSUME CallInv, UNCHANGED <<call, slots, entered>>,
         phase' \in Before \/ entered => Admitted,
         phase' \in Behind \/ entered =>
             Len(slots) = Arity /\ call.array /\ call.closed /\ Len(call.items) = Arity,
         phase' # "done" => output' \in Seq({"own"}), OutputsOwned'
  PROVE  CallInv'
<1>1. Arity' = Arity /\ Admitted' = Admitted /\ \A k : Binding(k)' = Binding(k)  BY DEF Arity, Admitted, Binding
<1>2. ASSUME NEW k \in 1 .. Len(slots)' PROVE Taken(k)'
  <2>1. Taken(k)  BY <1>2 DEF CallInv
  <2> QED  BY <1>1, <2>1 DEF Taken
<1> QED  BY <1>1, <1>2 DEF CallInv

LEMMA FailKeeps ==
  ASSUME CallInv, Fail, phase # "done"
  PROVE  CallInv'
<1>1. phase' = "failed" /\ UNCHANGED <<call, slots, entered>> /\ output' = output  BY DEF Fail
<1>2. OutputsOwned'  BY <1>1 DEF OutputsOwned
<1> QED  BY <1>1, <1>2, SameArguments DEF CallInv, Before, Behind

LEMMA ReadKeeps ==
  ASSUME CallsAssumption, CallInv, ReadOne
  PROVE  CallInv'
<1>1. phase = "read" /\ Len(slots) < Arity /\ Admitted  BY DEF ReadOne, CallInv, Before
<1>2. PICK i \in Nat : i = Len(slots) + 1  BY DEF CallInv
<1>3. Arity \in Nat /\ call \in Calls /\ Len(call.items) \in Nat /\ i \in 1 .. Arity  BY <1>1, <1>2, CallFacts DEF CallInv
<1>4. PICK p \in Parameter : p = call.method.params[i]  BY <1>3, CallFacts
<1>5. PICK s : s = ReadSlot(p, call.items[i], Binding(i))  OBVIOUS
<1>6. s \in SlotType  BY <1>1, <1>3, <1>4, <1>5, CallFacts, ReadSlotFacts
<1>7. CASE Fail  BY <1>1, <1>7, FailKeeps
<1>8. CASE ~Fail
  <2>1. /\ slots' = Append(slots, s) /\ UNCHANGED <<call, phase, entered, output>>
        /\ ~(Len(call.items) < i) /\ s # Error
    BY <1>2, <1>4, <1>5, <1>8 DEF ReadOne
  <2>2. PICK sl \in Seq(SlotType) : sl = slots  BY DEF CallInv
  <2>3. PICK m : m = Append(sl, s)  OBVIOUS
  <2>4. slots' = m /\ m \in Seq(SlotType) /\ Len(m) = i /\ m[i] = s /\ \A k \in 1 .. i : k = i \/ (k \in 1 .. Len(sl) /\ m[k] = sl[k])
    BY <1>2, <1>6, <2>1, <2>2, <2>3
  <2>5. Arity' = Arity /\ Admitted' = Admitted /\ \A k : Binding(k)' = Binding(k)
    BY <2>1 DEF Arity, Admitted, Binding
  <2>6. Taken(i)'  BY <1>3, <1>4, <1>5, <2>1, <2>4, <2>5 DEF Taken
  <2>7. ASSUME NEW k \in 1 .. i PROVE Taken(k)'
    <3>1. CASE k = i  BY <2>6, <3>1
    <3>2. CASE k # i
      <4>1. k \in 1 .. Len(slots) /\ slots'[k] = slots[k]  BY <2>2, <2>4, <3>2
      <4>2. Taken(k)  BY <4>1 DEF CallInv
      <4> QED  BY <2>1, <2>5, <4>1, <4>2 DEF Taken
    <3> QED  BY <3>1, <3>2
  <2>8. ~entered /\ phase' = "read" /\ output' = output
    <3>1. entered => Len(slots) = Arity  BY DEF CallInv
    <3> QED  BY <1>1, <1>2, <1>3, <2>1, <3>1
  <2>9. output \in Seq({"own"})  BY <1>1 DEF CallInv
  <2>10. OutputsOwned'  BY <2>8 DEF OutputsOwned
  <2>11. call' \in Calls /\ slots' \in Seq(SlotType) /\ Len(slots') <= Arity' /\ entered' \in BOOLEAN
    BY <1>3, <2>1, <2>4, <2>5 DEF CallInv
  <2>12. \A k \in 1 .. Len(slots') : Taken(k)'  BY <2>4, <2>7
  <2>13. (phase \in Before \/ entered => Admitted)'  BY <1>1, <2>5
  <2>14. phase' \notin Behind /\ ~entered'  BY <2>1, <2>8 DEF Behind
  <2> QED  BY <2>8, <2>9, <2>10, <2>11, <2>12, <2>13, <2>14 DEF CallInv
<1> QED  BY <1>7, <1>8

LEMMA EndKeeps ==
  ASSUME CallsAssumption, CallInv, EndArguments
  PROVE  CallInv'
<1>1. phase = "read" /\ Len(slots) = Arity /\ Admitted /\ output \in Seq({"own"})  BY DEF EndArguments, CallInv, Before
<1>2. CASE Fail  BY <1>1, <1>2, FailKeeps
<1>3. CASE ~Fail
  <2>1. /\ call.array /\ ~(Len(call.items) > Arity) /\ call.closed
        /\ phase' = "native" /\ UNCHANGED <<call, slots, entered>> /\ output' = output
    BY <1>3 DEF EndArguments
  <2>2. Len(call.items) = Arity
    <3>1. Arity \in Nat /\ Len(call.items) \in Nat  BY CallFacts DEF CallInv
    <3>2. Arity # 0 => Arity <= Len(call.items)  BY <1>1, <3>1 DEF CallInv, Taken
    <3> QED  BY <2>1, <3>1, <3>2
  <2>3. OutputsOwned'  BY <2>1 DEF OutputsOwned
  <2> QED  BY <1>1, <2>1, <2>2, <2>3, SameArguments
<1> QED  BY <1>2, <1>3

LEMMA NativeKeeps ==
  ASSUME CallsAssumption, CallInv, NEW throws \in BOOLEAN, NativeMethod(throws)
  PROVE  CallInv'
<1>1. /\ phase = "native" /\ entered' = TRUE /\ phase' \in {"failed", "respond"} /\ phase' # "done"
      /\ UNCHANGED <<call, slots>> /\ output' = output
  BY DEF NativeMethod
<1>2. /\ Admitted /\ output \in Seq({"own"})
      /\ Len(slots) = Arity /\ call.array /\ call.closed /\ Len(call.items) = Arity
  BY <1>1 DEF CallInv, Before, Behind
<1>3. Arity' = Arity /\ Admitted' = Admitted /\ \A k : Binding(k)' = Binding(k)  BY <1>1 DEF Arity, Admitted, Binding
<1>4. ASSUME NEW k \in 1 .. Len(slots') PROVE Taken(k)'
  <2>1. Taken(k)  BY <1>1, <1>4 DEF CallInv
  <2> QED  BY <1>1, <1>3, <2>1 DEF Taken
<1>5. OutputsOwned'  BY <1>1 DEF OutputsOwned
<1>6. call' \in Calls /\ slots' \in Seq(SlotType) /\ Len(slots') <= Arity'  BY <1>1, <1>3 DEF CallInv
<1> QED  BY <1>1, <1>2, <1>3, <1>4, <1>5, <1>6 DEF CallInv

LEMMA RespondKeeps ==
  ASSUME CallsAssumption, CallInv, Respond
  PROVE  CallInv'
<1>1. phase = "respond" /\ output \in Seq({"own"}) /\ UNCHANGED <<call, slots, entered>>
  BY DEF Respond, Fail, CallInv
<1>2. Admitted /\ Len(slots) = Arity /\ call.array /\ call.closed /\ Len(call.items) = Arity
  BY <1>1 DEF CallInv, Before, Behind
<1>3. CASE Fail  BY <1>1, <1>3, FailKeeps
<1>4. CASE output' = Append(output, "own") /\ phase' = phase
  <2>1. output' \in Seq({"own"})  BY <1>1, <1>4
  <2>2. OutputsOwned'  BY <1>1, <1>4 DEF OutputsOwned
  <2> QED  BY <1>1, <1>2, <2>1, <2>2, SameArguments
<1>5. CASE /\ phase' = "done"
           /\ output' = CASE call.way = "serialized" -> output
                          [] call.way = "borrow" -> <<"result">>
                          [] call.way = "bound" -> <<"result">> \o [i \in 1 .. Arity |-> OutputOf(slots[i])]
  <2>1. CASE call.way = "serialized"
    <3>1. output' = output  BY <1>5, <2>1
    <3>2. \A i \in 2 .. Len(output) : output[i] = "own"  BY <1>1
    <3> QED  BY <1>1, <1>2, <1>5, <3>1, <3>2, SameArguments DEF OutputsOwned
  <2>2. CASE call.way = "borrow"
    <3>1. output' = <<"result">> /\ 2 .. Len(output') = {}  BY <1>5, <2>2
    <3> QED  BY <1>1, <1>2, <1>5, <3>1, SameArguments DEF OutputsOwned
  <2>3. CASE call.way = "bound"
    <3>1. PICK n \in Nat : n = Arity  BY CallFacts DEF CallInv
    <3>2. PICK given : given = [i \in 1 .. n |-> OutputOf(slots[i])]  OBVIOUS
    <3>3. given \in Seq({"own", "empty"}) /\ Len(given) = n
      <4>1. \A i \in 1 .. n : OutputOf(slots[i]) \in {"own", "empty"}  BY DEF OutputOf
      <4> QED  BY <3>1, <3>2, <4>1
    <3>4. output' = <<"result">> \o given  BY <1>5, <2>3, <3>1, <3>2
    <3>5. <<"result">> \in Seq({"result"}) /\ Len(<<"result">>) = 1  OBVIOUS
    <3>6. Len(output') = 1 + n /\ \A i \in 2 .. 1 + n : output'[i] = given[i - 1] /\ i - 1 \in 1 .. n
      BY <3>3, <3>4, <3>5
    <3>7. \A i \in 1 .. n : given[i] \in {"own", "empty"}  BY <3>3
    <3>8. OutputsOwned'  BY <3>6, <3>7 DEF OutputsOwned
    <3> QED  BY <1>1, <1>2, <1>5, <3>8, SameArguments
  <2>4. call.way \in {"serialized", "borrow", "bound"}  BY DEF CallInv, CallsAssumption
  <2> QED  BY <2>1, <2>2, <2>3, <2>4
<1> QED  BY <1>3, <1>4, <1>5 DEF Respond

LEMMA NextCall == CallsAssumption /\ CallInv /\ [CallNext]_callState => CallInv'
<1> SUFFICES ASSUME CallsAssumption, CallInv, [CallNext]_callState PROVE CallInv'  OBVIOUS
<1>1. CASE UNCHANGED callState
  <2>1. UNCHANGED <<call, slots, entered>> /\ phase' = phase /\ output' = output  BY <1>1 DEF callState
  <2>2. OutputsOwned'  BY <2>1 DEF CallInv, OutputsOwned
  <2> QED  BY <2>1, <2>2, SameArguments DEF CallInv
<1>2. CASE Enter
  <2>1. phase = "enter" /\ output \in Seq({"own"})  BY <1>2 DEF Enter, CallInv
  <2>2. CASE Fail  BY <2>1, <2>2, FailKeeps
  <2>3. CASE ~Fail
    <3>1. Admitted /\ phase' = "read" /\ UNCHANGED <<call, slots, entered>> /\ output' = output  BY <1>2, <2>3 DEF Enter
    <3>2. OutputsOwned'  BY <3>1 DEF OutputsOwned
    <3> QED  BY <2>1, <3>1, <3>2, SameArguments DEF CallInv, Behind
  <2> QED  BY <2>2, <2>3
<1>3. CASE ReadOne  BY <1>3, ReadKeeps
<1>4. CASE EndArguments  BY <1>4, EndKeeps
<1>5. CASE \E throws \in BOOLEAN : NativeMethod(throws)  BY <1>5, NativeKeeps
<1>6. CASE Respond  BY <1>6, RespondKeeps
<1>7. CASE Finished  BY <1>1, <1>7 DEF Finished
<1> QED  BY <1>1, <1>2, <1>3, <1>4, <1>5, <1>6, <1>7 DEF CallNext

\* Native code is entered only with the whole call: the array has begun, has
\* the arity of the method and has ended, every argument was read or was the
\* null that stands for a bound view, and the method offers this way of
\* calling it (invoke_serialized, invoke_bound of value_descriptor_impl.h).
THEOREM NativeCodeWaits ==
  ASSUME CallsAssumption
  PROVE  CallSpec => []NativeAfterWholeCall
<1>1. CallInit => CallInv  BY InitCall
<1>2. CallInv /\ [CallNext]_callState => CallInv'  BY NextCall
<1>3. CallInv => NativeAfterWholeCall
  <2> SUFFICES ASSUME CallInv, entered PROVE WholeCall /\ offered(call.method, call.way)
    BY DEF NativeAfterWholeCall
  <2>1. Admitted /\ Len(slots) = Arity /\ call.array /\ call.closed /\ Len(call.items) = Arity  BY DEF CallInv
  <2>2. ASSUME NEW i \in 1 .. Arity PROVE ItemRight(i)
    <3>1. Taken(i) /\ call \in Calls /\ i \in Nat  BY <2>1 DEF CallInv
    <3>2. PICK p \in Parameter : p = call.method.params[i]  BY <3>1, CallFacts
    <3>3. Binding(i) # <<>> => Binding(i)[1].writable \in BOOLEAN  BY <2>1, <3>1, CallFacts
    <3> QED  BY <3>1, <3>2, <3>3, ReadSlotFacts DEF Taken, ItemRight
  <2> QED  BY <2>1, <2>2 DEF WholeCall, Admitted
<1> QED  BY <1>1, <1>2, <1>3, PTL DEF CallSpec

\* What a call opens to native code and to its caller, for any signature and
\* any views: no argument lets native code write what its view shows readonly,
\* no pointer is made from a document, and no output is the address of an
\* object that was bound (bound_argument_slot of value_descriptor_impl.h).
THEOREM CallsOpenNothing ==
  ASSUME CallsAssumption
  PROVE  CallSpec => []NoForeignAccess
<1>1. CallInit => CallInv  BY InitCall
<1>2. CallInv /\ [CallNext]_callState => CallInv'  BY NextCall
<1>3. CallInv => NoForeignAccess
  <2> SUFFICES ASSUME CallInv PROVE CapabilityKept /\ PointersResolved /\ OutputsOwned  BY DEF NoForeignAccess
  <2>1. ASSUME entered, NEW i \in 1 .. Arity
        PROVE  /\ slots[i].from = "bound" /\ ~slots[i].writable => ~WritesThrough(call.method.params[i])
               /\ PointerShaped(call.method.params[i].type) /\ slots[i].from = "own" => call.method.params[i].type.optin
    <3>1. Taken(i) /\ call \in Calls /\ i \in Nat /\ Admitted  BY <2>1 DEF CallInv
    <3>2. PICK p \in Range(call.method.params) : p = call.method.params[i] /\ p \in Parameter  BY <3>1, CallFacts
    <3>3. p.type.shape = "text" \/ (p.type.shape = "value" /\ p.type.optin) => p.type.plain  BY <3>1, CallFacts
    <3>4. Binding(i) # <<>> => Binding(i)[1].writable \in BOOLEAN /\ call.way = "bound"  BY <3>1, CallFacts
    <3>5. PICK s : s = slots[i]  OBVIOUS
    <3>6. s = ReadSlot(p, call.items[i], Binding(i)) /\ s # Error  BY <3>1, <3>2, <3>5 DEF Taken
    <3>7. CASE Binding(i) = <<>>
      <4>1. s.from = "own" /\ materializable(p.type)  BY <3>2, <3>6, <3>7, ReadSlotFacts
      <4>2. PointerShaped(p.type) => p.type.optin  BY <4>1 DEF materializable, serialized_argument_safe, PointerShaped
      <4> QED  BY <3>2, <3>5, <4>1, <4>2
    <3>8. CASE Binding(i) # <<>>
      <4>1. s.from # "own"  BY <3>2, <3>4, <3>6, <3>8, ReadSlotFacts
      <4>2. bound_argument_allowed(p)  BY <3>1, <3>2, <3>4, <3>8 DEF Admitted, offered, BoundOk
      <4>3. s.from = "bound" /\ ~s.writable => ~WritesThrough(p)
        BY <3>2, <3>3, <3>4, <3>6, <3>8, <4>2, BoundKept
      <4> QED  BY <3>2, <3>5, <4>1, <4>3
    <3> QED  BY <3>7, <3>8
  <2> QED  BY <2>1 DEF CallInv, CapabilityKept, PointersResolved
<1> QED  BY <1>1, <1>2, <1>3, PTL DEF CallSpec
=============================================================================
