------------------------- MODULE CatalogStore_proofs -------------------------
(***************************************************************************)
(* Proofs about CatalogStore for every set of files and catalogs and any   *)
(* number of writes.                                                       *)
(***************************************************************************)
EXTENDS CatalogStore, FiniteSetTheorems, TLAPS

\* The files of the list a walk over it has behind it.
Done == Len(files) - Len(call.todo)
Walking == call.step \in {"check", "stamp", "read"}
Building == call.step \in {"stamp", "read"}

\* The rest of the walk is the rest of the list.
WalkInv ==
  /\ Walking => /\ Len(call.todo) <= Len(files)
                /\ \A k \in 1 .. Len(call.todo) : call.todo[k] = files[Done + k]
  /\ call.step = "read" => call.todo # <<>> /\ call.written \in 1 .. clock

\* No time is of the future, and a file that was never read has no text.
TimesInv ==
  \A f \in Files : /\ disk[f].time <= clock /\ loaded[f].written <= clock
                   /\ loaded[f].written = 0 => loaded[f].catalog = Empty

\* The entries are what _loaded holds of some of the first n files, in their
\* order; a file that was passed over is absent or was written since.
Faithful(entries, n) ==
  /\ \A i \in DOMAIN entries :
       /\ \E k \in 1 .. n : entries[i].file = files[k]
       /\ entries[i].catalog = loaded[entries[i].file].catalog
       /\ loaded[entries[i].file].written # 0
  /\ InListOrder(entries)
  /\ \A k \in 1 .. n :
       \/ files[k] \in FilesOf(entries)
       \/ disk[files[k]].time = 0
       \/ loaded[files[k]].written # disk[files[k]].time

\* The same with nothing written meanwhile.
Settled(entries, n) ==
  \A k \in 1 .. n :
    IF files[k] \in FilesOf(entries) THEN loaded[files[k]].written = disk[files[k]].time
                                     ELSE disk[files[k]].time = 0

CallInv ==
  /\ Building => Faithful(call.acc, Done) /\ (call.quiet => Settled(call.acc, Done))
  /\ ~Building => Faithful(merged, Len(files))
  /\ call.step = "returned" /\ call.quiet => Settled(merged, Len(files))
  /\ call.step = "check" /\ call.quiet =>
       \A k \in 1 .. Done : loaded[files[k]].written = disk[files[k]].time
  /\ call.step = "read" /\ call.quiet => call.written = disk[files[Done + 1]].time

CatalogInv == TypeOK /\ WalkInv /\ TimesInv /\ CacheHonest /\ CallInv

-----------------------------------------------------------------------------
(***************************************************************************)
(* Types.                                                                  *)
(***************************************************************************)

LEMMA ListLemma ==
  ASSUME NEW list \in FileLists
  PROVE  /\ list \in Seq(Files) /\ Len(list) \in Nat /\ DOMAIN list = 1 .. Len(list)
         /\ \A k, l \in 1 .. Len(list) : list[k] = list[l] => k = l
<1>1. PICK n \in 0 .. Cardinality(Files) : list \in [1 .. n -> Files]
  BY DEF FileLists, BoundedSeq, SeqOf
<1>2. n \in Nat
  OBVIOUS
<1>3. list \in Seq(Files)
  BY <1>1, <1>2
<1>4. Len(list) \in Nat /\ DOMAIN list = 1 .. Len(list)
  BY <1>3
<1> QED BY <1>3, <1>4 DEF FileLists, IsInjective

LEMMA EmptyList == <<>> \in FileLists
<1>1. 0 \in 0 .. Cardinality(Files) /\ <<>> \in [1 .. 0 -> Files]
  BY CatalogAssumption, FS_CardinalityType
<1>2. <<>> \in UNION {[1 .. n -> Files] : n \in 0 .. Cardinality(Files)}
  BY <1>1
<1> QED BY <1>2 DEF FileLists, BoundedSeq, SeqOf, IsInjective

LEMMA InitType == Init => TypeOK
<1> SUFFICES ASSUME Init PROVE TypeOK
  OBVIOUS
<1>1. files \in FileLists
  BY EmptyList DEF Init
<1>2. call \in [step : Steps, todo : Seq(Files), acc : Seq(Entries), written : Nat,
                quiet : BOOLEAN]
  BY DEF Init, NoCall, Steps
<1> QED BY <1>1, <1>2, CatalogAssumption DEF Init, TypeOK

\* The file system's steps.
FileStep ==
  \E f \in Files : \/ OpenCatalog(f) \/ CloseCatalog(f) \/ DeleteCatalog(f)
                   \/ \E c \in Catalogs : FlushCatalog(f, c)

LEMMA NextType == TypeOK /\ WalkInv /\ [Next]_vars => TypeOK'
<1> SUFFICES ASSUME TypeOK, WalkInv, [Next]_vars PROVE TypeOK'
  OBVIOUS
<1> DEFINE Calls == [step : Steps, todo : Seq(Files), acc : Seq(Entries), written : Nat,
                     quiet : BOOLEAN]
           Texts == Catalogs \cup {Empty}
<1>0. /\ call \in Calls /\ files \in FileLists /\ files \in Seq(Files)
      /\ clock \in Nat /\ MaxClock \in Nat
  BY ListLemma, CatalogAssumption DEF TypeOK
<1>a. /\ \A list \in Seq(Files), q \in BOOLEAN : RebuildFrom(list, q) \in Calls
      /\ \A q \in BOOLEAN : Returned(q) \in Calls
  <2>1. \A list \in Seq(Files), q \in BOOLEAN : RebuildFrom(list, q) \in Calls
    BY DEF RebuildFrom, Steps
  <2>2. \A q \in BOOLEAN : Returned(q) \in Calls
    BY DEF Returned, Steps
  <2> QED BY <2>1, <2>2
<1>b. /\ \A f \in Files : Stamp(f) \in Nat /\ Read(f) \in Texts /\ loaded[f].catalog \in Texts
  BY DEF TypeOK, Stamp, Read
<1>c. ASSUME call.todo # <<>>
      PROVE  /\ Head(call.todo) \in Files /\ Tail(call.todo) \in Seq(Files)
             /\ [call EXCEPT !.todo = Tail(@)] \in Calls
             /\ \A e \in Texts : Take(Head(call.todo), e) \in Calls
  <2>1. Head(call.todo) \in Files /\ Tail(call.todo) \in Seq(Files)
    BY <1>0, <1>c
  <2>2. \A e \in Texts : Append(call.acc, [file |-> Head(call.todo), catalog |-> e]) \in Seq(Entries)
    BY <1>0, <2>1 DEF Entries
  <2>3. \A e \in Texts : Take(Head(call.todo), e) \in Calls
    BY <1>0, <2>1, <2>2 DEF Take, Steps
  <2> QED BY <1>0, <2>1, <2>3
<1>1. CASE FileStep
  <2>1. call' \in Calls
    BY <1>0, <1>1 DEF FileStep, OpenCatalog, CloseCatalog, DeleteCatalog, FlushCatalog, Disturb
  <2>2. clock' \in 0 .. MaxClock
    BY <1>0, <1>1 DEF FileStep, OpenCatalog, CloseCatalog, DeleteCatalog, FlushCatalog, TypeOK
  <2>3. disk' \in [Files -> [time : Nat, catalog : Texts, open : BOOLEAN]]
    <3>1. PICK f \in Files : \/ OpenCatalog(f) \/ CloseCatalog(f) \/ DeleteCatalog(f)
                            \/ \E c \in Catalogs : FlushCatalog(f, c)
      BY <1>1 DEF FileStep
    <3>2. [disk[f] EXCEPT !.open = FALSE] \in [time : Nat, catalog : Texts, open : BOOLEAN]
      BY DEF TypeOK
    <3>3. \A e \in [time : Nat, catalog : Texts, open : BOOLEAN] :
            [disk EXCEPT ![f] = e] \in [Files -> [time : Nat, catalog : Texts, open : BOOLEAN]]
      BY DEF TypeOK
    <3>4. CASE CloseCatalog(f)
      BY <3>2, <3>3, <3>4 DEF CloseCatalog
    <3>5. CASE OpenCatalog(f)
      <4>1. [time |-> clock', catalog |-> Empty, open |-> TRUE]
              \in [time : Nat, catalog : Texts, open : BOOLEAN]
        BY <2>2
      <4> QED BY <3>3, <3>5, <4>1 DEF OpenCatalog
    <3>6. CASE DeleteCatalog(f)
      BY <3>3, <3>6 DEF DeleteCatalog
    <3>7. ASSUME NEW c \in Catalogs, FlushCatalog(f, c)
          PROVE  disk' \in [Files -> [time : Nat, catalog : Texts, open : BOOLEAN]]
      <4>1. [time |-> clock', catalog |-> c, open |-> TRUE]
              \in [time : Nat, catalog : Texts, open : BOOLEAN]
        BY <2>2
      <4> QED BY <3>3, <3>7, <4>1 DEF FlushCatalog
    <3> QED BY <3>1, <3>4, <3>5, <3>6, <3>7
  <2> QED BY <1>1, <2>1, <2>2, <2>3
          DEF FileStep, OpenCatalog, CloseCatalog, DeleteCatalog, FlushCatalog, TypeOK
<1>2. ASSUME NEW list \in FileLists, SetFiles(list) PROVE TypeOK'
  <2>1. call' \in Calls
    BY <1>2, <1>a, ListLemma DEF SetFiles
  <2> QED BY <1>2, <2>1 DEF SetFiles, TypeOK
<1>3. CASE Current
  <2>1. call' \in Calls
    BY <1>0, <1>3 DEF Current, Steps
  <2> QED BY <1>3, <2>1 DEF Current, TypeOK
<1>4. CASE CheckFile
  <2>1. call' \in Calls
    BY <1>0, <1>4, <1>a, <1>c DEF CheckFile
  <2> QED BY <1>4, <2>1 DEF CheckFile, TypeOK
<1>5. CASE StampFile
  <2>1. call.todo # <<>> /\ Head(call.todo) \in Files
    BY <1>5, <1>c DEF StampFile
  <2>2. [call EXCEPT !.step = "read", !.written = Stamp(Head(call.todo))] \in Calls
    BY <1>0, <1>b, <2>1 DEF Steps
  <2>3. call' \in Calls
    BY <1>5, <1>b, <1>c, <2>1, <2>2 DEF StampFile
  <2> QED BY <1>5, <2>3 DEF StampFile, TypeOK
<1>6. CASE ReadFile
  <2>0. call.todo # <<>>
    BY <1>6 DEF ReadFile, WalkInv
  <2>1. call' \in Calls
    BY <1>6, <1>b, <1>c, <2>0 DEF ReadFile
  <2>2. loaded' \in [Files -> [written : Nat, catalog : Texts]]
    BY <1>0, <1>6, <1>b, <1>c, <2>0 DEF ReadFile, TypeOK
  <2> QED BY <1>6, <2>1, <2>2 DEF ReadFile, TypeOK
<1>7. CASE MergeAll
  <2>1. call' \in Calls
    BY <1>0, <1>7, <1>a DEF MergeAll
  <2> QED BY <1>0, <1>7, <2>1 DEF MergeAll, TypeOK
<1>8. CASE UNCHANGED vars
  BY <1>8 DEF vars, TypeOK
<1> QED BY <1>1, <1>2, <1>3, <1>4, <1>5, <1>6, <1>7, <1>8 DEF Next, FileStep

-----------------------------------------------------------------------------
(***************************************************************************)
(* The steps of the file system.  A write gets a time no entry has, so an  *)
(* entry that no longer matches never matches again.                       *)
(***************************************************************************)

LEMMA FileStepLemma ==
  ASSUME TypeOK, FileStep
  PROVE  /\ UNCHANGED <<files, loaded, merged>> /\ clock <= clock'
         /\ call'.step = call.step /\ call'.todo = call.todo /\ call'.acc = call.acc
         /\ call'.written = call.written /\ ~call'.quiet
         /\ \A g \in Files : \/ disk'[g].time = disk[g].time /\ disk'[g].catalog = disk[g].catalog
                             \/ disk'[g].time = 0
                             \/ disk'[g].time = clock' /\ clock' > clock
<1>0. /\ clock \in Nat /\ disk \in [Files -> [time : Nat, catalog : Catalogs \cup {Empty}, open : BOOLEAN]]
      /\ call \in [step : Steps, todo : Seq(Files), acc : Seq(Entries), written : Nat, quiet : BOOLEAN]
  BY CatalogAssumption DEF TypeOK
<1>1. PICK f \in Files : \/ OpenCatalog(f) \/ CloseCatalog(f) \/ DeleteCatalog(f)
                        \/ \E c \in Catalogs : FlushCatalog(f, c)
  BY DEF FileStep
<1>2. UNCHANGED <<files, loaded, merged>> /\ clock <= clock' /\ call' = [call EXCEPT !.quiet = FALSE]
  BY <1>0, <1>1 DEF OpenCatalog, CloseCatalog, DeleteCatalog, FlushCatalog, Disturb
<1>3. \A g \in Files : g # f => disk'[g] = disk[g]
  BY <1>0, <1>1 DEF OpenCatalog, CloseCatalog, DeleteCatalog, FlushCatalog
<1>4. \/ disk'[f].time = disk[f].time /\ disk'[f].catalog = disk[f].catalog
      \/ disk'[f].time = 0
      \/ disk'[f].time = clock' /\ clock' > clock
  BY <1>0, <1>1 DEF OpenCatalog, CloseCatalog, DeleteCatalog, FlushCatalog
<1> QED BY <1>0, <1>2, <1>3, <1>4

LEMMA FileInv ==
  ASSUME CatalogInv, FileStep
  PROVE  WalkInv' /\ TimesInv' /\ CacheHonest' /\ CallInv'
<1>0. /\ TypeOK /\ WalkInv /\ TimesInv /\ CacheHonest /\ CallInv
  BY DEF CatalogInv
<1>1. /\ UNCHANGED <<files, loaded, merged>> /\ clock <= clock'
      /\ call'.step = call.step /\ call'.todo = call.todo /\ call'.acc = call.acc
      /\ call'.written = call.written /\ ~call'.quiet
      /\ \A g \in Files : \/ disk'[g].time = disk[g].time /\ disk'[g].catalog = disk[g].catalog
                          \/ disk'[g].time = 0
                          \/ disk'[g].time = clock' /\ clock' > clock
  BY <1>0, FileStepLemma
<1>2. /\ clock \in Nat /\ clock' \in Nat /\ \A g \in Files : disk[g].time \in Nat /\ loaded[g].written \in Nat
      /\ call.written \in Nat
  <2>1. TypeOK'
    <3>1. Next  BY DEF Next, FileStep
    <3> QED BY <1>0, <3>1, NextType
  <2> QED BY <1>0, <2>1 DEF TypeOK
<1>3. files \in Seq(Files) /\ \A k \in 1 .. Len(files) : files[k] \in Files
  <2>1. files \in Seq(Files)
    BY <1>0, ListLemma DEF TypeOK
  <2> QED BY <2>1
<1>4. WalkInv'
  <2>1. Done' = Done /\ Walking' = Walking
    BY <1>1 DEF Done, Walking
  <2>2. call.written \in 1 .. clock => call'.written \in 1 .. clock'
    BY <1>1, <1>2
  <2> QED BY <1>0, <1>1, <2>1, <2>2 DEF WalkInv
<1>5. TimesInv'
  BY <1>0, <1>1, <1>2 DEF TimesInv
<1>6. CacheHonest'
  BY <1>0, <1>1, <1>2 DEF CacheHonest, TimesInv
<1>7. \A g \in Files : disk[g].time = 0 \/ loaded[g].written # disk[g].time
                        => disk'[g].time = 0 \/ loaded[g].written # disk'[g].time
  BY <1>0, <1>1, <1>2 DEF TimesInv
<1>8. Faithful(merged, Len(files)) => Faithful(merged, Len(files))'
  BY <1>1, <1>3, <1>7 DEF Faithful, InListOrder, FilesOf
<1>9. WalkInv /\ Building /\ Faithful(call.acc, Done) => Faithful(call.acc, Done)'
  <2> SUFFICES ASSUME WalkInv, Building, Faithful(call.acc, Done)
               PROVE  Faithful(call.acc, Done)'
    OBVIOUS
  <2>1. Done \in 0 .. Len(files)
    BY <1>0, <1>3 DEF Done, WalkInv, Walking, Building, TypeOK
  <2>2. Done' = Done
    BY <1>1 DEF Done
  <2> QED BY <1>1, <1>3, <1>7, <2>1, <2>2 DEF Faithful, InListOrder, FilesOf
<1>10. CallInv'
  BY <1>0, <1>1, <1>8, <1>9 DEF CallInv, Building
<1> QED BY <1>4, <1>5, <1>6, <1>10

-----------------------------------------------------------------------------
(***************************************************************************)
(* The steps of the calls.                                                 *)
(***************************************************************************)

LEMMA UpTo ==
  ASSUME NEW n \in Nat
  PROVE  \A i : i \in 1 .. n + 1 <=> i \in 1 .. n \/ i = n + 1
OBVIOUS

LEMMA AppendLemma ==
  ASSUME NEW S, NEW s \in Seq(S), NEW x \in S
  PROVE  /\ Len(s) \in Nat /\ DOMAIN s = 1 .. Len(s) /\ DOMAIN Append(s, x) = 1 .. Len(s) + 1
         /\ Append(s, x)[Len(s) + 1] = x
         /\ \A i \in 1 .. Len(s) : Append(s, x)[i] = s[i]
OBVIOUS

\* The list and the place of the walk in it.
LEMMA WalkLemma ==
  ASSUME TypeOK, WalkInv, Walking, call.todo # <<>>
  PROVE  /\ Done \in Nat /\ Done + 1 \in 1 .. Len(files)
         /\ Head(call.todo) = files[Done + 1] /\ Head(call.todo) \in Files
         /\ Len(files) - Len(Tail(call.todo)) = Done + 1
         /\ Len(Tail(call.todo)) <= Len(files)
         /\ \A k \in 1 .. Len(Tail(call.todo)) : Tail(call.todo)[k] = files[Done + 1 + k]
         /\ \A k \in 1 .. Done : files[k] # files[Done + 1] /\ files[k] \in Files
<1>1. /\ files \in Seq(Files) /\ Len(files) \in Nat
      /\ \A k, l \in 1 .. Len(files) : files[k] = files[l] => k = l
      /\ \A k \in 1 .. Len(files) : files[k] \in Files
  <2>1. files \in Seq(Files) /\ \A k, l \in 1 .. Len(files) : files[k] = files[l] => k = l
    BY ListLemma DEF TypeOK
  <2> QED BY <2>1
<1>2. call.todo \in Seq(Files) /\ Len(call.todo) \in Nat /\ Len(call.todo) # 0
  BY DEF TypeOK
<1>3. /\ Len(Tail(call.todo)) = Len(call.todo) - 1 /\ Head(call.todo) = call.todo[1]
      /\ \A k \in 1 .. Len(call.todo) - 1 : Tail(call.todo)[k] = call.todo[k + 1]
  BY <1>2
<1>4. /\ Len(call.todo) <= Len(files)
      /\ \A k \in 1 .. Len(call.todo) : call.todo[k] = files[Done + k]
  BY DEF WalkInv
<1>5. Done \in Nat /\ Done + 1 \in 1 .. Len(files)
  BY <1>1, <1>2, <1>4 DEF Done
<1>6. Head(call.todo) = files[Done + 1] /\ Head(call.todo) \in Files
  <2>1. 1 \in 1 .. Len(call.todo)
    BY <1>2
  <2> QED BY <1>1, <1>3, <1>4, <1>5, <2>1
<1>7. Len(files) - Len(Tail(call.todo)) = Done + 1 /\ Len(Tail(call.todo)) <= Len(files)
  <2> DEFINE a == Len(files)
             b == Len(call.todo)
             d == Len(Tail(call.todo))
  <2>1. a \in Nat /\ b \in Nat /\ d = b - 1 /\ b <= a /\ Done = a - b
    BY <1>1, <1>2, <1>3, <1>4 DEF Done
  <2> HIDE DEF a, b, d
  <2>2. a - d = Done + 1 /\ d <= a
    BY <2>1
  <2> QED BY <2>2 DEF a, d
<1>8. ASSUME NEW k \in 1 .. Len(Tail(call.todo)) PROVE Tail(call.todo)[k] = files[Done + 1 + k]
  <2>1. k \in 1 .. Len(call.todo) - 1 /\ k + 1 \in 1 .. Len(call.todo)
    BY <1>2, <1>3
  <2>2. Tail(call.todo)[k] = files[Done + (k + 1)]
    BY <1>3, <1>4, <2>1
  <2>3. Done + (k + 1) = Done + 1 + k
    BY <1>5
  <2> QED BY <2>2, <2>3
<1>9. \A k \in 1 .. Done : files[k] # files[Done + 1] /\ files[k] \in Files
  BY <1>1, <1>5
<1> QED BY <1>5, <1>6, <1>7, <1>8, <1>9

\* A file is taken into the catalogs to merge, from _loaded or from disk.
LEMMA TakeInv ==
  ASSUME CatalogInv, Building, call.todo # <<>>, NEW c \in Catalogs \cup {Empty},
         call' = Take(Head(call.todo), c),
         UNCHANGED <<disk, clock, files, merged>>,
         \A g \in Files : g # Head(call.todo) => loaded'[g] = loaded[g],
         loaded'[Head(call.todo)].catalog = c, loaded'[Head(call.todo)].written # 0,
         call.quiet => loaded'[Head(call.todo)].written = disk[Head(call.todo)].time
  PROVE  WalkInv' /\ CallInv'
<1> DEFINE f == Head(call.todo)
           e == [file |-> f, catalog |-> c]
           n == Len(call.acc)
<1>0. TypeOK /\ WalkInv /\ CallInv /\ Walking
  BY DEF CatalogInv, Building, Walking
<1>1. /\ Done \in Nat /\ Done + 1 \in 1 .. Len(files) /\ f = files[Done + 1] /\ f \in Files
      /\ Len(files) - Len(Tail(call.todo)) = Done + 1 /\ Len(Tail(call.todo)) <= Len(files)
      /\ \A k \in 1 .. Len(Tail(call.todo)) : Tail(call.todo)[k] = files[Done + 1 + k]
      /\ \A k \in 1 .. Done : files[k] # f /\ files[k] \in Files
  BY <1>0, WalkLemma
<1>2. /\ call'.step = "stamp" /\ call'.todo = Tail(call.todo) /\ call'.acc = Append(call.acc, e)
      /\ call'.quiet = call.quiet
  BY <1>0 DEF Take, TypeOK
<1>3. Done' = Done + 1
  BY <1>1, <1>2 DEF Done
<1>4. WalkInv'
  BY <1>1, <1>2, <1>3 DEF WalkInv
<1>5. /\ n \in Nat /\ DOMAIN call.acc = 1 .. n /\ DOMAIN call'.acc = 1 .. n + 1
      /\ call'.acc[n + 1] = e /\ \A i \in 1 .. n : call'.acc[i] = call.acc[i]
      /\ e.file = f /\ e.catalog = c
  <2>1. call.acc \in Seq(Entries) /\ e \in Entries
    BY <1>0, <1>1 DEF TypeOK, Entries
  <2> QED BY <1>2, <2>1, AppendLemma
<1>a. /\ \A i : i \in 1 .. n + 1 <=> i \in 1 .. n \/ i = n + 1
      /\ \A k : k \in 1 .. Done + 1 <=> k \in 1 .. Done \/ k = Done + 1
  BY <1>1, <1>5, UpTo
<1>b. /\ \A g \in Files : g # f => loaded'[g] = loaded[g]
      /\ loaded'[f].catalog = c /\ loaded'[f].written # 0
      /\ call.quiet => loaded'[f].written = disk[f].time
  OBVIOUS
<1> HIDE DEF e, f, n
<1>6. Faithful(call.acc, Done) /\ (call.quiet => Settled(call.acc, Done))
  BY <1>0 DEF CallInv
<1>7. DOMAIN files = 1 .. Len(files) /\ Len(files) \in Nat
  BY <1>0, ListLemma DEF TypeOK
<1>8. FilesOf(call.acc)' = FilesOf(call.acc) \cup {f}
  <2>1. ASSUME NEW g \in FilesOf(call.acc)' PROVE g \in FilesOf(call.acc) \cup {f}
    <3>1. PICK i \in 1 .. n + 1 : g = call'.acc[i].file
      BY <1>5 DEF FilesOf
    <3> QED BY <1>5, <1>a, <3>1 DEF FilesOf
  <2>2. ASSUME NEW g \in FilesOf(call.acc) PROVE g \in FilesOf(call.acc)'
    <3>1. PICK i \in 1 .. n : g = call.acc[i].file
      BY <1>5 DEF FilesOf
    <3>2. i \in 1 .. n + 1 /\ call'.acc[i].file = g
      BY <1>5, <3>1
    <3> QED BY <1>5, <3>2 DEF FilesOf
  <2>3. f \in FilesOf(call.acc)'
    <3>1. n + 1 \in 1 .. n + 1 /\ call'.acc[n + 1].file = f
      BY <1>5
    <3> QED BY <1>5, <3>1 DEF FilesOf
  <2> QED BY <2>1, <2>2, <2>3
<1>9. ASSUME NEW i \in 1 .. n
      PROVE  /\ \E k \in 1 .. Done : call.acc[i].file = files[k]
             /\ call.acc[i].file \in Files /\ call.acc[i].file # f
             /\ call.acc[i].catalog = loaded'[call.acc[i].file].catalog
             /\ loaded'[call.acc[i].file].written # 0
  <2>1. PICK k \in 1 .. Done : call.acc[i].file = files[k]
    BY <1>5, <1>6 DEF Faithful
  <2>2. call.acc[i].file \in Files /\ call.acc[i].file # f
    BY <1>1, <2>1
  <2> QED BY <1>5, <1>6, <1>b, <2>1, <2>2 DEF Faithful
<1>10. InListOrder(call.acc)'
  <2> SUFFICES ASSUME NEW i \in 1 .. n + 1, NEW j \in 1 .. n + 1, i < j
               PROVE  \E k, l \in DOMAIN files : k < l /\ call'.acc[i].file = files[k]
                                                     /\ call'.acc[j].file = files[l]
    <3>1. files' = files
      OBVIOUS
    <3> QED BY <1>5, <3>1 DEF InListOrder
  <2>1. CASE j \in 1 .. n
    <3>1. i \in 1 .. n /\ InListOrder(call.acc)
      BY <1>5, <1>6, <2>1 DEF Faithful
    <3>2. \E k, l \in DOMAIN files : k < l /\ call.acc[i].file = files[k] /\ call.acc[j].file = files[l]
      <4>1. i \in DOMAIN call.acc /\ j \in DOMAIN call.acc
        BY <1>5, <2>1, <3>1
      <4> QED BY <3>1, <4>1 DEF InListOrder
    <3>3. call'.acc[i] = call.acc[i] /\ call'.acc[j] = call.acc[j]
      BY <1>5, <2>1, <3>1
    <3> QED BY <3>2, <3>3
  <2>2. CASE j = n + 1
    <3>1. i \in 1 .. n
      BY <1>5, <2>2
    <3>2. PICK k \in 1 .. Done : call.acc[i].file = files[k]
      BY <1>9, <3>1
    <3>3. k \in DOMAIN files /\ Done + 1 \in DOMAIN files /\ k < Done + 1
      BY <1>1, <1>7
    <3>4. call'.acc[i].file = files[k] /\ call'.acc[j].file = files[Done + 1]
      BY <1>1, <1>5, <2>2, <3>1, <3>2
    <3> QED BY <3>3, <3>4
  <2> QED BY <1>a, <2>1, <2>2
<1>11. Faithful(call.acc, Done)'
  <2>1. ASSUME NEW i \in 1 .. n + 1
        PROVE  /\ \E k \in 1 .. Done + 1 : call'.acc[i].file = files[k]
               /\ call'.acc[i].catalog = loaded'[call'.acc[i].file].catalog
               /\ loaded'[call'.acc[i].file].written # 0
    <3>1. CASE i \in 1 .. n
      <4>1. PICK k \in 1 .. Done : call.acc[i].file = files[k]
        BY <1>9, <3>1
      <4>2. k \in 1 .. Done + 1
        BY <1>1
      <4> QED BY <1>5, <1>9, <3>1, <4>1, <4>2
    <3>2. CASE i = n + 1
      <4>1. Done + 1 \in 1 .. Done + 1
        BY <1>1
      <4> QED BY <1>1, <1>5, <1>b, <3>2, <4>1
    <3> QED BY <1>a, <3>1, <3>2
  <2>2. ASSUME NEW k \in 1 .. Done + 1
        PROVE  \/ files[k] \in FilesOf(call.acc)'
               \/ disk[files[k]].time = 0
               \/ loaded'[files[k]].written # disk[files[k]].time
    <3>1. CASE k \in 1 .. Done
      BY <1>1, <1>6, <1>8, <1>b, <3>1 DEF Faithful
    <3>2. CASE k = Done + 1
      BY <1>1, <1>8, <3>2
    <3> QED BY <1>a, <3>1, <3>2
  <2>3. DOMAIN call'.acc = 1 .. n + 1 /\ Done' = Done + 1 /\ files' = files /\ disk' = disk
    BY <1>3, <1>5
  <2>4. ASSUME NEW i \in DOMAIN call'.acc
        PROVE  /\ \E k \in 1 .. Done' : call'.acc[i].file = files'[k]
               /\ call'.acc[i].catalog = loaded'[call'.acc[i].file].catalog
               /\ loaded'[call'.acc[i].file].written # 0
    <3>1. i \in 1 .. n + 1
      BY <2>3
    <3>2. PICK k \in 1 .. Done + 1 : call'.acc[i].file = files[k]
      BY <2>1, <3>1
    <3>3. \E l \in 1 .. Done' : call'.acc[i].file = files'[l]
      BY <2>3, <3>2
    <3> QED BY <2>1, <3>1, <3>3
  <2>5. \A k \in 1 .. Done' : \/ files'[k] \in FilesOf(call.acc)'
                               \/ disk'[files'[k]].time = 0
                               \/ loaded'[files'[k]].written # disk'[files'[k]].time
    BY <2>2, <2>3
  <2> QED BY <1>10, <2>4, <2>5 DEF Faithful
<1>12. call.quiet => Settled(call.acc, Done)'
  <2> SUFFICES ASSUME call.quiet, NEW k \in 1 .. Done + 1
               PROVE  IF files[k] \in FilesOf(call.acc)'
                        THEN loaded'[files[k]].written = disk[files[k]].time
                        ELSE disk[files[k]].time = 0
    BY <1>3 DEF Settled
  <2>1. CASE k \in 1 .. Done
    BY <1>1, <1>6, <1>8, <1>b, <2>1 DEF Settled
  <2>2. CASE k = Done + 1
    BY <1>1, <1>8, <1>b, <2>2
  <2> QED BY <1>a, <2>1, <2>2
<1> QED BY <1>2, <1>4, <1>11, <1>12 DEF CallInv, Building

\* A step of a walk that leaves the file at its head behind.
LEMMA SkipInv ==
  ASSUME CatalogInv, Walking, call.todo # <<>>,
         call' = [call EXCEPT !.todo = Tail(@)],
         UNCHANGED <<disk, clock, files, loaded, merged>>,
         \/ call.step = "check" /\ loaded[Head(call.todo)].written = disk[Head(call.todo)].time
         \/ call.step = "stamp" /\ disk[Head(call.todo)].time = 0
  PROVE  WalkInv' /\ CallInv'
<1>0. TypeOK /\ WalkInv /\ CallInv
  BY DEF CatalogInv
<1>1. /\ Done \in Nat /\ Done + 1 \in 1 .. Len(files) /\ Head(call.todo) = files[Done + 1]
      /\ Len(files) - Len(Tail(call.todo)) = Done + 1 /\ Len(Tail(call.todo)) <= Len(files)
      /\ \A k \in 1 .. Len(Tail(call.todo)) : Tail(call.todo)[k] = files[Done + 1 + k]
      /\ \A k \in 1 .. Done : files[k] # files[Done + 1]
  BY <1>0, WalkLemma
<1>2. /\ call'.step = call.step /\ call'.todo = Tail(call.todo) /\ call'.acc = call.acc
      /\ call'.quiet = call.quiet
  BY <1>0 DEF TypeOK
<1>3. Done' = Done + 1
  BY <1>1, <1>2 DEF Done
<1>4. WalkInv'
  <2>1. call'.step # "read"
    BY <1>2
  <2> QED BY <1>1, <1>2, <1>3, <2>1 DEF WalkInv
<1>5. \A k : k \in 1 .. Done + 1 <=> k \in 1 .. Done \/ k = Done + 1
  BY <1>1, UpTo
<1>6. CASE call.step = "check"
  <2>1. /\ Faithful(merged, Len(files))
        /\ call.quiet => \A k \in 1 .. Done : loaded[files[k]].written = disk[files[k]].time
    BY <1>0, <1>6 DEF CallInv, Building
  <2>2. Faithful(merged, Len(files))'
    BY <2>1 DEF Faithful, InListOrder, FilesOf
  <2>3. call.quiet => \A k \in 1 .. Done + 1 : loaded[files[k]].written = disk[files[k]].time
    BY <1>1, <1>5, <1>6, <2>1
  <2> QED BY <1>2, <1>3, <1>4, <1>6, <2>2, <2>3 DEF CallInv, Building
<1>7. CASE call.step = "stamp"
  <2>1. Faithful(call.acc, Done) /\ (call.quiet => Settled(call.acc, Done))
    BY <1>0, <1>7 DEF CallInv, Building
  <2>2. FilesOf(call.acc)' = FilesOf(call.acc) /\ InListOrder(call.acc)'
    BY <1>2, <2>1 DEF Faithful, FilesOf, InListOrder
  <2>3. disk[files[Done + 1]].time = 0
    BY <1>1, <1>7
  <2>4. \A i \in DOMAIN call.acc : \E k \in 1 .. Done : call.acc[i].file = files[k]
    BY <2>1 DEF Faithful
  <2>5. files[Done + 1] \notin FilesOf(call.acc)
    BY <1>1, <2>4 DEF FilesOf
  <2>6. Faithful(call.acc, Done)'
    <3>1. \A i \in DOMAIN call.acc : \E k \in 1 .. Done + 1 : call.acc[i].file = files[k]
      BY <1>5, <2>4
    <3>2. \A k \in 1 .. Done + 1 : \/ files[k] \in FilesOf(call.acc)
                                  \/ disk[files[k]].time = 0
                                  \/ loaded[files[k]].written # disk[files[k]].time
      BY <1>5, <2>1, <2>3 DEF Faithful
    <3> QED BY <1>2, <1>3, <2>1, <2>2, <3>1, <3>2 DEF Faithful
  <2>7. call.quiet => Settled(call.acc, Done)'
    BY <1>3, <1>5, <2>1, <2>2, <2>3, <2>5 DEF Settled
  <2> QED BY <1>2, <1>4, <1>7, <2>6, <2>7 DEF CallInv, Building
<1> QED BY <1>6, <1>7

\* Rebuild starts.
LEMMA RebuildInv ==
  ASSUME TypeOK, NEW list \in FileLists, NEW q \in BOOLEAN,
         call' = RebuildFrom(list, q), files' = list
  PROVE  WalkInv' /\ CallInv'
<1>1. /\ call'.step = "stamp" /\ call'.todo = list /\ call'.acc = <<>> /\ call'.quiet = q
  BY DEF RebuildFrom
<1>2. Len(list) \in Nat
  BY ListLemma
<1>3. Done' = 0 /\ 1 .. 0 = {} /\ DOMAIN << >> = {}
  BY <1>1, <1>2 DEF Done
<1>4. WalkInv'
  BY <1>1, <1>2, <1>3 DEF WalkInv
<1>5. Faithful(call.acc, Done)' /\ Settled(call.acc, Done)'
  BY <1>1, <1>3 DEF Faithful, Settled, InListOrder
<1> QED BY <1>1, <1>4, <1>5 DEF CallInv, Building

LEMMA NextCatalog == CatalogInv /\ [Next]_vars => CatalogInv'
<1> SUFFICES ASSUME CatalogInv, [Next]_vars PROVE CatalogInv'
  OBVIOUS
<1>0. TypeOK /\ TypeOK' /\ WalkInv /\ TimesInv /\ CacheHonest /\ CallInv
  BY NextType DEF CatalogInv
<1>a. ASSUME UNCHANGED <<disk, clock, loaded>>, WalkInv', CallInv' PROVE CatalogInv'
  BY <1>0, <1>a DEF CatalogInv, TimesInv, CacheHonest
<1>b. /\ call \in [step : Steps, todo : Seq(Files), acc : Seq(Entries), written : Nat, quiet : BOOLEAN]
      /\ files \in FileLists
  BY <1>0 DEF TypeOK
<1>c. ASSUME UNCHANGED <<disk, files, loaded, merged>>, ~Building
      PROVE  Faithful(merged, Len(files))'
  BY <1>0, <1>c DEF CallInv, Faithful, InListOrder, FilesOf
<1>1. CASE FileStep
  BY <1>0, <1>1, FileInv DEF CatalogInv
<1>2. ASSUME NEW list \in FileLists, SetFiles(list) PROVE CatalogInv'
  BY <1>0, <1>2, <1>a, RebuildInv DEF SetFiles
<1>3. CASE Current
  <2>1. call'.step = "check" /\ call'.todo = files
    BY <1>3 DEF Current
  <2>2. Len(files) \in Nat
    BY <1>b, ListLemma
  <2>3. Done' = 0 /\ 1 .. 0 = {}
    BY <1>3, <2>1, <2>2 DEF Current, Done
  <2>4. WalkInv'
    BY <1>3, <2>1, <2>2, <2>3 DEF Current, WalkInv
  <2>5. Faithful(merged, Len(files))'
    BY <1>3, <1>c DEF Current, Idle, Building
  <2>6. CallInv'
    BY <2>1, <2>3, <2>5 DEF CallInv, Building
  <2> QED BY <1>3, <1>a, <2>4, <2>6 DEF Current
<1>4. CASE CheckFile
  <2>0. call.step = "check" /\ Walking /\ ~Building /\ UNCHANGED <<disk, clock, files, loaded, merged>>
    BY <1>4 DEF CheckFile, Walking, Building
  <2>1. CASE call.todo = <<>>
    <3>1. call'.step = "returned" /\ call'.quiet = call.quiet
      BY <1>4, <2>1 DEF CheckFile, Returned
    <3>2. Done = Len(files)
      BY <2>1, <1>b, ListLemma DEF Done
    <3>3. Faithful(merged, Len(files))' /\ Faithful(merged, Len(files))
      BY <1>0, <1>c, <2>0 DEF CallInv
    <3>4. call.quiet => \A k \in 1 .. Len(files) : loaded[files[k]].written = disk[files[k]].time
      BY <1>0, <2>0, <3>2 DEF CallInv
    <3>5. \A g \in FilesOf(merged) : loaded[g].written # 0
      BY <3>3 DEF Faithful, FilesOf
    <3>6. call.quiet => Settled(merged, Len(files))'
      BY <2>0, <3>3, <3>4, <3>5 DEF Settled, Faithful, FilesOf
    <3>7. WalkInv' /\ CallInv'
      BY <3>1, <3>3, <3>6 DEF WalkInv, Walking, CallInv, Building
    <3> QED BY <1>a, <2>0, <3>7
  <2>2. CASE call.todo # <<>> /\ Stamp(Head(call.todo)) # loaded[Head(call.todo)].written
    <3>1. call' = RebuildFrom(files, call.quiet)
      BY <1>4, <2>2 DEF CheckFile
    <3> QED BY <1>0, <1>a, <1>b, <2>0, <3>1, RebuildInv
  <2>3. CASE call.todo # <<>> /\ Stamp(Head(call.todo)) = loaded[Head(call.todo)].written
    <3>1. call' = [call EXCEPT !.todo = Tail(@)]
      BY <1>4, <2>3 DEF CheckFile
    <3> QED BY <1>a, <2>0, <2>3, <3>1, SkipInv DEF Stamp
  <2> QED BY <2>1, <2>2, <2>3
<1>5. CASE StampFile
  <2> DEFINE f == Head(call.todo)
  <2>0. /\ call.step = "stamp" /\ call.todo # <<>> /\ Walking /\ Building
        /\ UNCHANGED <<disk, clock, files, loaded, merged>>
    BY <1>5 DEF StampFile, Walking, Building
  <2>a. f \in Files /\ f = files[Done + 1]
    BY <1>0, <2>0, WalkLemma
  <2>1. CASE Stamp(f) = 0
    <3>1. call' = [call EXCEPT !.todo = Tail(@)]
      BY <1>5, <2>1 DEF StampFile
    <3> QED BY <1>a, <2>0, <2>1, <3>1, SkipInv DEF Stamp
  <2>2. CASE Stamp(f) # 0 /\ loaded[f].written = Stamp(f)
    <3>1. call' = Take(f, loaded[f].catalog)
      BY <1>5, <2>2 DEF StampFile
    <3>2. loaded[f].catalog \in Catalogs \cup {Empty}
      BY <1>0, <2>a DEF TypeOK
    <3>3. loaded'[f].catalog = loaded[f].catalog /\ loaded'[f].written # 0
          /\ loaded'[f].written = disk[f].time
      BY <2>0, <2>2 DEF Stamp
    <3>4. WalkInv' /\ CallInv'
      BY <2>0, <3>1, <3>2, <3>3, TakeInv
    <3> QED BY <1>a, <2>0, <3>4
  <2>3. CASE Stamp(f) # 0 /\ loaded[f].written # Stamp(f)
    <3>1. call' = [call EXCEPT !.step = "read", !.written = Stamp(f)]
      BY <1>5, <2>3 DEF StampFile
    <3>2. /\ call'.step = "read" /\ call'.todo = call.todo /\ call'.acc = call.acc
          /\ call'.written = disk[f].time /\ call'.quiet = call.quiet
      BY <1>b, <3>1 DEF Stamp
    <3>3. Done' = Done
      BY <2>0, <3>2 DEF Done
    <3>4. call'.written \in 1 .. clock'
      BY <1>0, <2>0, <2>3, <2>a, <3>2, CatalogAssumption DEF TimesInv, Stamp, TypeOK
    <3>5. WalkInv'
      BY <1>0, <2>0, <3>2, <3>3, <3>4 DEF WalkInv, Walking
    <3>6. Faithful(call.acc, Done)' /\ (call.quiet => Settled(call.acc, Done)')
      BY <1>0, <2>0, <3>2, <3>3 DEF CallInv, Faithful, Settled, InListOrder, FilesOf
    <3>7. CallInv'
      BY <2>0, <2>a, <3>2, <3>3, <3>6 DEF CallInv, Building
    <3> QED BY <1>a, <2>0, <3>5, <3>7
  <2> QED BY <2>1, <2>2, <2>3
<1>6. CASE ReadFile
  <2> DEFINE f == Head(call.todo)
  <2>0. /\ call.step = "read" /\ call.todo # <<>> /\ Walking /\ Building
        /\ UNCHANGED <<disk, clock, files, merged>>
        /\ call.written \in 1 .. clock
    BY <1>0, <1>6 DEF ReadFile, Walking, Building, WalkInv
  <2>a. f \in Files /\ f = files[Done + 1]
    BY <1>0, <2>0, WalkLemma
  <2>1. /\ loaded' = [loaded EXCEPT ![f] = [written |-> call.written, catalog |-> Read(f)]]
        /\ call' = Take(f, Read(f))
    BY <1>6 DEF ReadFile
  <2>2. /\ \A g \in Files : g # f => loaded'[g] = loaded[g]
        /\ loaded'[f].catalog = Read(f) /\ loaded'[f].written = call.written
    BY <1>0, <2>1, <2>a DEF TypeOK
  <2>3. Read(f) \in Catalogs \cup {Empty} /\ Read(f) \in {Empty, disk[f].catalog}
    BY <1>0, <2>a DEF TypeOK, Read
  <2>4. call.quiet => call.written = disk[f].time
    BY <1>0, <2>0, <2>a DEF CallInv
  <2>5. call.written # 0 /\ call.written <= clock
    BY <1>0, <2>0, CatalogAssumption DEF TypeOK
  <2>6. WalkInv' /\ CallInv'
    BY <2>0, <2>1, <2>2, <2>3, <2>4, <2>5, TakeInv
  <2>7. TimesInv'
    BY <1>0, <2>0, <2>2, <2>5 DEF TimesInv
  <2>8. CacheHonest'
    BY <1>0, <2>0, <2>2, <2>3 DEF CacheHonest
  <2> QED BY <1>0, <2>6, <2>7, <2>8 DEF CatalogInv
<1>7. CASE MergeAll
  <2>1. /\ call'.step = "returned" /\ call'.quiet = call.quiet /\ merged' = call.acc
        /\ UNCHANGED <<disk, clock, files, loaded>> /\ Building
    BY <1>7 DEF MergeAll, Returned, Building
  <2>2. Done = Len(files)
    BY <1>7, <1>b, ListLemma DEF MergeAll, Done
  <2>3. Faithful(call.acc, Len(files)) /\ (call.quiet => Settled(call.acc, Len(files)))
    BY <1>0, <2>1, <2>2 DEF CallInv
  <2>4. Faithful(merged, Len(files))' /\ (call.quiet => Settled(merged, Len(files))')
    BY <2>1, <2>3 DEF Faithful, Settled, InListOrder, FilesOf
  <2>5. WalkInv' /\ CallInv'
    BY <2>1, <2>4 DEF WalkInv, Walking, CallInv, Building
  <2> QED BY <1>a, <2>1, <2>5
<1>8. CASE UNCHANGED vars
  BY <1>0, <1>8 DEF vars, CatalogInv, TypeOK, WalkInv, Walking, Done, TimesInv, CacheHonest,
                    CallInv, Building, Faithful, Settled, InListOrder, FilesOf
<1> QED BY <1>1, <1>2, <1>3, <1>4, <1>5, <1>6, <1>7, <1>8 DEF Next, FileStep

LEMMA InitCatalog == Init => CatalogInv
<1> SUFFICES ASSUME Init PROVE CatalogInv
  OBVIOUS
<1>1. TypeOK
  BY InitType
<1>2. call.step = "idle" /\ merged = <<>> /\ Len(files) = 0 /\ 1 .. 0 = {} /\ DOMAIN << >> = {}
  BY DEF Init, NoCall
<1>3. WalkInv /\ TimesInv /\ CacheHonest
  BY <1>2 DEF Init, WalkInv, Walking, TimesInv, CacheHonest
<1>4. Faithful(merged, Len(files))
  BY <1>2 DEF Faithful, InListOrder
<1>5. CallInv
  BY <1>2, <1>4 DEF CallInv, Building
<1> QED BY <1>1, <1>3, <1>5 DEF CatalogInv

LEMMA CatalogHolds == Spec => []CatalogInv
BY InitCatalog, NextCatalog, PTL DEF Spec

\* For any files and whatever the generator writes between two file operations
\* of a call: an entry of _loaded that has the file's time has no older text,
\* and between calls the merged catalog is of the current list alone.
THEOREM StoreIsHonest == Spec => []StoreInv
<1>1. CatalogInv => StoreInv
  <2> SUFFICES ASSUME CatalogInv PROVE OnlyListedFiles
    BY DEF CatalogInv, StoreInv
  <2>1. DOMAIN files = 1 .. Len(files)
    BY ListLemma DEF CatalogInv, TypeOK
  <2>2. Idle => Faithful(merged, Len(files))
    BY DEF CatalogInv, CallInv, Idle, Building
  <2> QED BY <2>1, <2>2 DEF OnlyListedFiles, Faithful, FilesOf, Range
<1> QED BY <1>1, CatalogHolds, PTL

\* For any files: a call during which nothing was written answers with exactly
\* the listed files that exist, in list order and with their present text,
\* whether it rebuilt the merged catalog or found it unchanged.
THEOREM CallsAnswerCurrent == Spec => []AnswersCurrent
<1>1. CatalogInv => AnswersCurrent
  <2> SUFFICES ASSUME CatalogInv, call.step = "returned", call.quiet
               PROVE  /\ FilesOf(merged) = {f \in Range(files) : disk[f].time # 0}
                      /\ InListOrder(merged)
                      /\ \A i \in DOMAIN merged :
                           merged[i].catalog \in {disk[merged[i].file].catalog, Empty}
    BY DEF AnswersCurrent
  <2>1. Faithful(merged, Len(files)) /\ Settled(merged, Len(files)) /\ CacheHonest
    BY DEF CatalogInv, CallInv, Building
  <2>2. /\ DOMAIN files = 1 .. Len(files) /\ \A k \in 1 .. Len(files) : files[k] \in Files
    <3>1. files \in Seq(Files) /\ DOMAIN files = 1 .. Len(files)
      BY ListLemma DEF CatalogInv, TypeOK
    <3> QED BY <3>1
  <2>3. ASSUME NEW i \in DOMAIN merged
        PROVE  \E k \in 1 .. Len(files) :
                 /\ merged[i].file = files[k] /\ files[k] \in FilesOf(merged)
                 /\ merged[i].catalog = loaded[files[k]].catalog
                 /\ loaded[files[k]].written # 0 /\ loaded[files[k]].written = disk[files[k]].time
    BY <2>1 DEF Faithful, Settled, FilesOf
  <2>4. FilesOf(merged) = {f \in Range(files) : disk[f].time # 0}
    <3>1. ASSUME NEW f \in FilesOf(merged) PROVE f \in Range(files) /\ disk[f].time # 0
      <4>1. PICK i \in DOMAIN merged : f = merged[i].file
        BY DEF FilesOf
      <4> QED BY <2>2, <2>3, <4>1 DEF Range
    <3>2. ASSUME NEW f \in Range(files), disk[f].time # 0 PROVE f \in FilesOf(merged)
      BY <2>1, <2>2, <3>2 DEF Settled, Range
    <3> QED BY <3>1, <3>2
  <2>5. \A i \in DOMAIN merged : merged[i].catalog \in {disk[merged[i].file].catalog, Empty}
    BY <2>1, <2>2, <2>3 DEF CacheHonest
  <2> QED BY <2>1, <2>4, <2>5 DEF Faithful
<1> QED BY <1>1, CatalogHolds, PTL
=============================================================================
