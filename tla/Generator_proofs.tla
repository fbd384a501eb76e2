--------------------------- MODULE Generator_proofs ---------------------------
(***************************************************************************)
(* Proofs about what the generator leaves behind.                          *)
(*                                                                         *)
(* GeneratorOutput, for every list of headers, every naming of their files *)
(* and any number of runs.                                                 *)
(*                                                                         *)
(* OwnedHandle, the F# side of an owned object, for any threads, owners    *)
(* and depth of nesting.  Whether an object may be destroyed is told by    *)
(* three things that different code keeps: Active and the gate by the      *)
(* helpers, references and closed by SafeHandle, the slot by the thunk.    *)
(* The argument relates each of them to the helpers that the threads are   *)
(* inside of: of the frames of an owner one at most is past Active, and    *)
(* that one accounts for every reference besides the owner's own.          *)
(***************************************************************************)
EXTENDS GeneratorOutput, OwnedHandle, FiniteSetTheorems, SequenceTheorems, TLAPS

Own == current \cup FixedFiles
Between == pc \in {"idle", "exit0", "exit1"}
Extracted == {h \in Headers : model[h] # "plain"}
Named(hs) == {FileOf[h] : h \in hs}
Current(f) == disk[f] = Written(Emit(f))

Once(s, x) == \A i, j \in DOMAIN s : s[i] = x /\ s[j] = x => i = j

\* What is still to be written is this run's, the injection header once.
TodoInv ==
  /\ current = Named(Extracted)
  /\ Range(todo) \subseteq Own
  /\ Once(todo, ModuleHeader)
  /\ pc = "flush" => todo # <<>>
  /\ pc \in {"remove", "exit0"} => todo = <<>>

\* As long as no write failed, what is not to be written any more is current.
WrittenInv ==
  /\ pc = "exit0" => ~failed
  /\ ~failed /\ pc \in {"write", "flush", "remove", "exit0"} =>
       \A f \in Own : f \in Range(todo) \/ Current(f)

\* After a successful run on unchanged headers everything is current already,
\* and the injection header includes only what is extracted again.
SettledInv ==
  settled => /\ model = source
             /\ pc # "flush"
             /\ \A f \in Own : Current(f)
             /\ pc \in {"write", "remove"} => previous \subseteq Extracted

\* The injection header is still to be written: `previous` is not known yet.
Ahead == ModuleHeader \in Range(todo) /\ ~(pc = "flush" /\ Head(todo) = ModuleHeader)
Present == {f \in Generated : disk[f].state # "absent"}

\* Without failures, what lies in the directory is what the injection header
\* includes, until it is rewritten: then `previous` remembers it.
StaleInv ==
  faults = {} =>
    /\ pc \in {"write", "flush", "remove"} => ~failed
    /\ disk[ModuleHeader].state = "torn" => pc = "flush" /\ Head(todo) = ModuleHeader
    /\ Between => Present \subseteq Named(Includes(disk[ModuleHeader]))
    /\ pc \in {"write", "flush"} /\ Ahead =>
         Present \subseteq Named(Includes(disk[ModuleHeader])) \cup current
    /\ pc \in {"write", "flush", "remove"} /\ ~Ahead =>
         Present \subseteq Named(previous) \cup current
    /\ pc = "exit0" => Present \subseteq current

OutputInv == TypeOK /\ TodoInv /\ WrittenInv /\ SettledInv /\ StaleInv /\ OthersUntouched

-----------------------------------------------------------------------------
(***************************************************************************)
(* Lists of files.                                                         *)
(***************************************************************************)

LEMMA TailLemma ==
  ASSUME NEW S, NEW s \in Seq(S), s # <<>>, NEW x
  PROVE  /\ Head(s) \in S /\ Tail(s) \in Seq(S) /\ Range(s) = {Head(s)} \cup Range(Tail(s))
         /\ Once(s, x) => /\ Once(Tail(s), x)
                          /\ Head(s) = x => x \notin Range(Tail(s))
<1> DEFINE n == Len(s)
           t == Tail(s)
<1>1. /\ n \in Nat /\ n # 0 /\ DOMAIN s = 1 .. n /\ Head(s) = s[1] /\ Head(s) \in S
      /\ t \in Seq(S) /\ DOMAIN t = 1 .. n - 1 /\ \A i \in 1 .. n - 1 : t[i] = s[i + 1]
  OBVIOUS
<1> HIDE DEF n, t
<1>2. /\ 1 \in 1 .. n /\ \A i \in 1 .. n - 1 : i + 1 \in 1 .. n /\ i + 1 # 1
      /\ \A i \in 1 .. n : i = 1 \/ (i - 1 \in 1 .. n - 1 /\ i = (i - 1) + 1)
  BY <1>1
<1>3. Range(s) = {Head(s)} \cup Range(t)
  <2>1. ASSUME NEW y \in Range(s) PROVE y = Head(s) \/ y \in Range(t)
    <3>1. PICK i \in 1 .. n : y = s[i]
      BY <1>1 DEF Range
    <3>2. CASE i = 1
      BY <1>1, <3>1, <3>2
    <3>3. CASE i # 1
      <4>1. i - 1 \in 1 .. n - 1 /\ t[i - 1] = s[i]
        BY <1>1, <1>2, <3>3
      <4> QED BY <1>1, <3>1, <4>1 DEF Range
    <3> QED BY <3>2, <3>3
  <2>2. Head(s) \in Range(s)
    BY <1>1, <1>2 DEF Range
  <2>3. ASSUME NEW y \in Range(t) PROVE y \in Range(s)
    <3>1. PICK i \in 1 .. n - 1 : y = t[i]
      BY <1>1 DEF Range
    <3> QED BY <1>1, <1>2, <3>1 DEF Range
  <2> QED BY <2>1, <2>2, <2>3
<1>4. ASSUME Once(s, x) PROVE Once(t, x)
  <2> SUFFICES ASSUME NEW i \in 1 .. n - 1, NEW j \in 1 .. n - 1, t[i] = x, t[j] = x
               PROVE  i = j
    BY <1>1 DEF Once
  <2>1. i + 1 = j + 1
    BY <1>1, <1>2, <1>4 DEF Once
  <2> QED BY <2>1
<1>5. ASSUME Once(s, x), Head(s) = x, x \in Range(t) PROVE FALSE
  <2>1. PICK i \in 1 .. n - 1 : x = t[i]
    BY <1>1, <1>5 DEF Range
  <2>2. s[i + 1] = x /\ s[1] = x /\ i + 1 \in DOMAIN s /\ 1 \in DOMAIN s /\ i + 1 # 1
    BY <1>1, <1>2, <1>5, <2>1
  <2> QED BY <1>5, <2>2 DEF Once
<1> QED BY <1>1, <1>3, <1>4, <1>5 DEF t

LEMMA ConcatLemma ==
  ASSUME NEW S, NEW s \in Seq(S), NEW t \in Seq(S)
  PROVE  /\ s \o t \in Seq(S) /\ DOMAIN (s \o t) = 1 .. Len(s) + Len(t)
         /\ \A i \in 1 .. Len(s) : (s \o t)[i] = s[i]
         /\ \A i \in 1 .. Len(t) : (s \o t)[Len(s) + i] = t[i]
OBVIOUS

\* What a run that was not rejected has to write.
LEMMA PathsLemma ==
  ASSUME NEW at \in ReflectedPlaces,
         NEW paths, paths = [k \in DOMAIN at |-> FileOf[HeaderList[at[k]]]],
         NEW list, list = paths \o <<ModuleHeader>> \o Fixed
  PROVE  /\ Range(paths) = Named(Reflected) /\ list \in Seq(Files)
         /\ Range(list) = Named(Reflected) \cup FixedFiles
         /\ Once(list, ModuleHeader)
<1>1. PICK n \in 0 .. Len(HeaderList) :
        at \in [1 .. n -> {i \in DOMAIN HeaderList : HeaderList[i] \in Reflected}]
  BY DEF ReflectedPlaces, BoundedSeq, SeqOf
<1>2. /\ n \in Nat /\ DOMAIN at = 1 .. n /\ \A k \in 1 .. n : HeaderList[at[k]] \in Reflected
      /\ \A h \in Reflected : \E k \in 1 .. n : HeaderList[at[k]] = h
  BY <1>1 DEF ReflectedPlaces
<1>3. /\ \A k \in 1 .. n : paths[k] = FileOf[HeaderList[at[k]]] /\ paths[k] \in Named(Reflected)
      /\ DOMAIN paths = 1 .. n
  BY <1>2 DEF Named
<1>4. Range(paths) = Named(Reflected)
  <2>1. ASSUME NEW f \in Named(Reflected) PROVE f \in Range(paths)
    <3>1. PICK h \in Reflected : f = FileOf[h]
      BY DEF Named
    <3>2. PICK k \in 1 .. n : HeaderList[at[k]] = h
      BY <1>2, <3>1
    <3> QED BY <1>3, <3>1, <3>2 DEF Range
  <2> QED BY <1>3, <2>1 DEF Range
<1>5. Named(Reflected) \subseteq Generated /\ Named(Reflected) \cap FixedFiles = {}
  BY OutputAssumption DEF Named, Generated, Reflected
<1>6. paths \in Seq(Named(Reflected)) /\ Len(paths) = n
  BY <1>2, <1>3
<1> DEFINE m == Len(Fixed)
<1>7. /\ m \in Nat /\ DOMAIN Fixed = 1 .. m
      /\ \A k \in 1 .. m : Fixed[k] \in FixedFiles \ {ModuleHeader}
  BY OutputAssumption
<1>8. /\ DOMAIN list = 1 .. n + 1 + m /\ list \in Seq(Named(Reflected) \cup FixedFiles)
      /\ \A i \in 1 .. n : list[i] = paths[i]
      /\ list[n + 1] = ModuleHeader
      /\ \A i \in 1 .. m : list[n + 1 + i] = Fixed[i]
  <2>1. /\ paths \in Seq(Named(Reflected) \cup FixedFiles)
        /\ <<ModuleHeader>> \in Seq(Named(Reflected) \cup FixedFiles)
        /\ Fixed \in Seq(Named(Reflected) \cup FixedFiles)
    BY <1>6, OutputAssumption DEF FixedFiles
  <2> DEFINE p == paths \o <<ModuleHeader>>
  <2>2. /\ p \in Seq(Named(Reflected) \cup FixedFiles) /\ Len(p) = n + 1
        /\ \A i \in 1 .. n : p[i] = paths[i]
        /\ p[n + 1] = ModuleHeader
    BY <1>2, <1>6, <2>1
  <2> HIDE DEF p
  <2>3. /\ p \o Fixed \in Seq(Named(Reflected) \cup FixedFiles) /\ DOMAIN (p \o Fixed) = 1 .. n + 1 + m
        /\ \A i \in 1 .. n + 1 : (p \o Fixed)[i] = p[i]
        /\ \A i \in 1 .. m : (p \o Fixed)[n + 1 + i] = Fixed[i]
    <3>1. p \in Seq(Named(Reflected) \cup FixedFiles) /\ Fixed \in Seq(Named(Reflected) \cup FixedFiles)
      BY <2>1, <2>2
    <3>2. /\ p \o Fixed \in Seq(Named(Reflected) \cup FixedFiles)
          /\ DOMAIN (p \o Fixed) = 1 .. Len(p) + m
          /\ \A i \in 1 .. Len(p) : (p \o Fixed)[i] = p[i]
          /\ \A i \in 1 .. m : (p \o Fixed)[Len(p) + i] = Fixed[i]
      BY <3>1, ConcatLemma DEF m
    <3>3. Len(p) = n + 1
      BY <2>2
    <3> QED BY <3>2, <3>3, Zenon
  <2>4. list = p \o Fixed
    BY DEF p
  <2>5. n + 1 \in 1 .. n + 1 /\ \A i \in 1 .. n : i \in 1 .. n + 1
    BY <1>2
  <2> QED BY <2>2, <2>3, <2>4, <2>5
<1> HIDE DEF m
<1>9. \A i \in 1 .. n + 1 + m : i \in 1 .. n \/ i = n + 1 \/ (i - n - 1 \in 1 .. m /\ i = n + 1 + (i - n - 1))
  BY <1>2, <1>7
<1>10. /\ \A i \in 1 .. n : i \in 1 .. n + 1 + m
       /\ n + 1 \in 1 .. n + 1 + m
       /\ \A i \in 1 .. m : n + 1 + i \in 1 .. n + 1 + m
  BY <1>2, <1>7
<1>11. Range(list) = Named(Reflected) \cup FixedFiles
  <2>1. ASSUME NEW f \in Range(list) PROVE f \in Named(Reflected) \cup FixedFiles
    <3>1. PICK k \in 1 .. n + 1 + m : f = list[k]
      BY <1>8 DEF Range
    <3>2. k \in 1 .. n \/ k = n + 1 \/ (k - n - 1 \in 1 .. m /\ k = n + 1 + (k - n - 1))
      BY <1>9, <3>1
    <3>3. CASE k \in 1 .. n
      <4>1. f = paths[k] /\ k \in DOMAIN paths  BY <1>3, <1>8, <3>1, <3>3
      <4> QED BY <1>4, <4>1 DEF Range
    <3>4. CASE k = n + 1
      BY <1>8, <3>1, <3>4 DEF FixedFiles
    <3>5. CASE k - n - 1 \in 1 .. m /\ k = n + 1 + (k - n - 1)
      <4>1. f = Fixed[k - n - 1] /\ k - n - 1 \in DOMAIN Fixed
        BY <1>7, <1>8, <3>1, <3>5
      <4> QED BY <4>1 DEF FixedFiles, Range
    <3> QED BY <3>2, <3>3, <3>4, <3>5
  <2>2. ASSUME NEW f \in Named(Reflected) PROVE f \in Range(list)
    <3>1. PICK k \in 1 .. n : f = paths[k]
      BY <1>3, <1>4 DEF Range
    <3> QED BY <1>8, <1>10, <3>1 DEF Range
  <2>3. ASSUME NEW f \in FixedFiles PROVE f \in Range(list)
    <3>1. CASE f = ModuleHeader
      BY <1>8, <1>10, <3>1 DEF Range
    <3>2. CASE f \in Range(Fixed)
      <4>1. PICK k \in 1 .. m : f = Fixed[k]
        BY <1>7, <3>2 DEF Range
      <4> QED BY <1>8, <1>10, <4>1 DEF Range
    <3> QED BY <3>1, <3>2 DEF FixedFiles
  <2> QED BY <2>1, <2>2, <2>3
<1>12. \A i \in DOMAIN list : list[i] = ModuleHeader => i = n + 1
  <2> SUFFICES ASSUME NEW i \in 1 .. n + 1 + m, list[i] = ModuleHeader PROVE i = n + 1
    BY <1>8
  <2>1. ModuleHeader \in FixedFiles
    BY DEF FixedFiles
  <2>2. CASE i \in 1 .. n
    BY <1>3, <1>5, <1>8, <2>1, <2>2
  <2>3. CASE i - n - 1 \in 1 .. m /\ i = n + 1 + (i - n - 1)
    BY <1>7, <1>8, <2>3
  <2> QED BY <1>9, <2>2, <2>3
<1>13. list \in Seq(Files)
  BY <1>5, <1>8 DEF Files
<1> QED BY <1>4, <1>11, <1>12, <1>13 DEF Once

-----------------------------------------------------------------------------
(***************************************************************************)
(* Types.                                                                  *)
(***************************************************************************)

Files3 == [state : {"absent", "torn", "ok"}, text : Texts]

LEMMA FilesLemma ==
  /\ FixedFiles \subseteq Files /\ Generated \subseteq Files /\ Others \subseteq Files
  /\ Generated \cap FixedFiles = {} /\ Others \cap (Generated \cup FixedFiles) = {}
  /\ ModuleHeader \in FixedFiles /\ ModuleHeader \in Files /\ ModuleHeader \notin Generated
BY OutputAssumption DEF Files, FixedFiles

LEMMA EmitLemma ==
  ASSUME model \in [Headers -> Versions \cup {"plain"}], NEW f
  PROVE  Emit(f) \in Texts /\ Torn(Emit(f)) \in Files3 /\ Written(Emit(f)) \in Files3
<1>1. Emit(f) \in Texts
  BY DEF Emit, Texts
<1> QED BY <1>1 DEF Torn, Written, Files3

LEMMA PlainLemma == Plain \in Texts /\ Absent \in Files3 /\ Written(Plain) \in Files3
<1>1. Plain \in Texts
  BY DEF Plain, Texts
<1> QED BY <1>1 DEF Absent, Written, Files3

LEMMA InitType == Init => TypeOK
<1> SUFFICES ASSUME Init PROVE TypeOK
  OBVIOUS
<1>1. disk \in [Files -> Files3]
  BY PlainLemma DEF Init
<1>2. model \in [Headers -> Versions \cup {"plain"}]
  BY DEF Init, Plain
<1>3. runs \in 0 .. MaxRuns
  BY OutputAssumption DEF Init
<1>4. todo \in Seq(Files) /\ {failed, missed, settled} \subseteq BOOLEAN
  <2>1. todo = <<>> /\ failed = FALSE /\ missed = FALSE /\ settled = FALSE
    BY DEF Init
  <2>2. <<>> \in Seq(Files)
    OBVIOUS
  <2>3. {failed, missed, settled} \subseteq BOOLEAN
    BY <2>1, Zenon
  <2> QED BY <2>1, <2>2, <2>3
<1>5. pc = "idle" /\ previous = {} /\ current = {}
  BY DEF Init
<1>6. source \in [Headers -> Versions \cup {"plain"}] /\ faults \in {{}, OutputFaults}
  BY DEF Init
<1> QED BY <1>1, <1>2, <1>3, <1>4, <1>5, <1>6 DEF TypeOK, Files3

LEMMA NextType == TypeOK /\ TodoInv /\ [Next]_vars => TypeOK'
<1> SUFFICES ASSUME TypeOK, TodoInv, [Next]_vars PROVE TypeOK'
  OBVIOUS
<1>0. /\ disk \in [Files -> Files3] /\ todo \in Seq(Files)
      /\ model \in [Headers -> Versions \cup {"plain"}]
      /\ failed \in BOOLEAN /\ missed \in BOOLEAN /\ settled \in BOOLEAN
  BY DEF TypeOK, Files3
<1>a. ASSUME NEW f \in Files, NEW e \in Files3 PROVE [disk EXCEPT ![f] = e] \in [Files -> Files3]
  BY <1>0
<1>b. todo # <<>> => Head(todo) \in Files /\ Tail(todo) \in Seq(Files)
  BY <1>0
<1>1. ASSUME NEW h \in Headers, NEW v \in Versions \cup {"plain"}, EditHeader(h, v) PROVE TypeOK'
  BY <1>1 DEF EditHeader, TypeOK
<1>2. CASE StartRun
  <2>1. PICK at \in ReflectedPlaces :
          LET paths == [k \in DOMAIN at |-> FileOf[HeaderList[at[k]]]] IN
          /\ current' = Range(paths)
          /\ IF Rejected THEN pc' = "exit1" /\ todo' = <<>>
                         ELSE pc' = "write" /\ todo' = paths \o <<ModuleHeader>> \o Fixed
    BY <1>2 DEF StartRun
  <2> DEFINE paths == [k \in DOMAIN at |-> FileOf[HeaderList[at[k]]]]
             list == paths \o <<ModuleHeader>> \o Fixed
  <2>2. Range(paths) = Named(Reflected) /\ list \in Seq(Files)
    BY PathsLemma
  <2>3. Named(Reflected) \subseteq Files
    BY FilesLemma DEF Named, Reflected, Generated
  <2>4. todo' \in Seq(Files) /\ current' \subseteq Files
    <3>1. current' = Range(paths) /\ (todo' = <<>> \/ todo' = list)
      BY <2>1
    <3> HIDE DEF paths, list
    <3>2. <<>> \in Seq(Files)
      OBVIOUS
    <3>3. todo' \in Seq(Files)
      BY <2>2, <3>1, <3>2
    <3>4. current' \subseteq Files
      BY <2>2, <2>3, <3>1
    <3> QED BY <3>3, <3>4
  <2>5. failed' \in BOOLEAN /\ missed' \in BOOLEAN
    BY <1>2 DEF StartRun, Rejected, Collides
  <2>6. runs' \in 0 .. MaxRuns /\ pc' \in {"write", "exit1"} /\ model' = source /\ previous' = {}
    BY <1>2, OutputAssumption DEF StartRun, TypeOK
  <2>7. UNCHANGED <<source, disk, settled, faults>>
    BY <1>2 DEF StartRun
  <2> QED BY <1>0, <2>4, <2>5, <2>6, <2>7 DEF TypeOK
<1>3. CASE WriteFile
  <2>1. todo # <<>> /\ Torn(Emit(Head(todo))) \in Files3
    BY <1>0, <1>3, EmitLemma DEF WriteFile
  <2>2. disk' \in [Files -> Files3]
    BY <1>0, <1>3, <1>a, <1>b, <2>1 DEF WriteFile
  <2>3. previous' \subseteq Headers
    BY <1>3 DEF WriteFile, TypeOK, Includes
  <2>4. /\ pc' \in {"write", "flush"} /\ todo' \in Seq(Files) /\ failed' \in BOOLEAN
        /\ UNCHANGED <<source, model, current, missed, settled, runs, faults>>
    BY <1>0, <1>3, <1>b DEF WriteFile
  <2> QED BY <1>0, <2>2, <2>3, <2>4 DEF TypeOK, Files3
<1>4. CASE FlushFile
  <2>1. todo # <<>> /\ Written(Emit(Head(todo))) \in Files3
    BY <1>0, <1>4, EmitLemma DEF FlushFile, TodoInv
  <2>2. disk' \in [Files -> Files3]
    BY <1>4, <1>a, <1>b, <2>1 DEF FlushFile
  <2> QED BY <1>4, <1>b, <2>1, <2>2 DEF FlushFile, TypeOK, Files3
<1>5. CASE WritesDone
  BY <1>5 DEF WritesDone, TypeOK
<1>6. CASE RemoveStale
  <2>1. disk' \in [Files -> Files3] /\ missed' \in BOOLEAN
    BY <1>0, <1>6, PlainLemma DEF RemoveStale
  <2>2. settled' \in BOOLEAN
    BY <1>6 DEF RemoveStale
  <2>3. /\ pc' \in {"exit0", "exit1"}
        /\ UNCHANGED <<source, todo, model, previous, current, failed, runs, faults>>
    BY <1>6 DEF RemoveStale
  <2> QED BY <1>0, <2>1, <2>2, <2>3 DEF TypeOK, Files3
<1>7. CASE Kill
  BY <1>7 DEF Kill, TypeOK
<1>8. CASE UNCHANGED vars
  BY <1>8 DEF vars, TypeOK
<1> QED BY <1>1, <1>2, <1>3, <1>4, <1>5, <1>6, <1>7, <1>8 DEF Next, RunStep

-----------------------------------------------------------------------------
(***************************************************************************)
(* The steps.                                                              *)
(***************************************************************************)

Sound == TodoInv' /\ WrittenInv' /\ SettledInv' /\ StaleInv' /\ OthersUntouched'

\* Within a run what it extracted, and so what it emits, stays.
LEMMA FrameLemma ==
  ASSUME UNCHANGED <<model, current>>
  PROVE  /\ Own' = Own /\ Extracted' = Extracted
         /\ \A f : Emit(f)' = Emit(f) /\ (Current(f)' <=> disk'[f] = Written(Emit(f)))
<1>1. \A f : Emit(f)' = Emit(f)
  BY DEF Emit
<1> QED BY <1>1 DEF Own, Extracted, Current

\* The injection header includes the files of what it was emitted from.
LEMMA IncludesLemma == Includes(Written(Emit(ModuleHeader))) = Extracted
<1>1. \A h \in Headers : Emit(ModuleHeader)[h] = IF model[h] # "plain" THEN "include" ELSE "plain"
  BY DEF Emit
<1> QED BY <1>1 DEF Includes, Written, Extracted

LEMMA OwnLemma ==
  ASSUME TypeOK, TodoInv
  PROVE  /\ Own \subseteq Files /\ Own \cap Others = {}
         /\ current \subseteq Generated /\ Own \cap Generated \subseteq current
         /\ Named(previous) \subseteq Generated
         /\ Stale \subseteq Generated /\ Stale \cap Own = {}
<1>1. current \subseteq Generated
  BY DEF TodoInv, Named, Extracted, Generated
<1>2. Named(previous) \subseteq Generated
  BY DEF TypeOK, Named, Generated
<1>3. Stale = Named(previous) \ current
  BY DEF Stale, Named
<1> QED BY <1>1, <1>2, <1>3, FilesLemma DEF Own

LEMMA StartInv ==
  ASSUME OutputInv, StartRun
  PROVE  Sound
<1>0. TypeOK /\ TodoInv /\ WrittenInv /\ SettledInv /\ StaleInv /\ OthersUntouched
  BY DEF OutputInv
<1>1. PICK at \in ReflectedPlaces :
        LET paths == [k \in DOMAIN at |-> FileOf[HeaderList[at[k]]]] IN
        /\ current' = Range(paths)
        /\ IF Rejected THEN pc' = "exit1" /\ todo' = <<>>
                       ELSE pc' = "write" /\ todo' = paths \o <<ModuleHeader>> \o Fixed
  BY DEF StartRun
<1> DEFINE paths == [k \in DOMAIN at |-> FileOf[HeaderList[at[k]]]]
           list == paths \o <<ModuleHeader>> \o Fixed
<1>2. /\ Range(paths) = Named(Reflected) /\ Range(list) = Named(Reflected) \cup FixedFiles
      /\ Once(list, ModuleHeader)
  BY PathsLemma
<1>3. /\ current' = Range(paths)
      /\ \/ Rejected /\ pc' = "exit1" /\ todo' = <<>>
         \/ ~Rejected /\ pc' = "write" /\ todo' = list
  BY <1>1
<1> HIDE DEF paths, list
<1>4. /\ Between /\ model' = source /\ previous' = {} /\ failed' = Rejected
      /\ UNCHANGED <<source, disk, settled, faults>>
  BY DEF StartRun, Between
<1>5. Range(<<>>) = {} /\ DOMAIN <<>> = {}
  BY DEF Range
<1>6. current' = Named(Reflected) /\ Extracted' = Reflected /\ Own' = Named(Reflected) \cup FixedFiles
  BY <1>2, <1>3, <1>4 DEF Extracted, Reflected, Own
<1>7. Range(todo') = {} \/ (pc' = "write" /\ Range(todo') = Own')
  BY <1>2, <1>3, <1>5, <1>6
<1>8. TodoInv'
  <2>1. Once(todo', ModuleHeader)
    BY <1>2, <1>3, <1>5 DEF Once
  <2>2. current' = Named(Extracted)'
    BY <1>6 DEF Named
  <2> QED BY <1>3, <1>7, <2>1, <2>2 DEF TodoInv
<1>9. WrittenInv'
  <2>1. pc' \in {"write", "exit1"} /\ (pc' = "exit1" \/ Range(todo') = Own')
    BY <1>2, <1>3, <1>6
  <2> QED BY <2>1 DEF WrittenInv
<1>10. SettledInv'
  <2> SUFFICES ASSUME settled PROVE SettledInv'
    BY <1>4 DEF SettledInv
  <2>1. model = source /\ \A f \in Own : Current(f)
    BY <1>0 DEF SettledInv
  <2>2. model' = model /\ current' = current
    BY <1>0, <1>4, <1>6, <2>1 DEF TodoInv, Reflected, Extracted
  <2>3. \A f \in Own' : Current(f)'
    BY <1>4, <2>1, <2>2, FrameLemma DEF Current
  <2> QED BY <1>3, <1>4, <2>1, <2>2, <2>3 DEF SettledInv
<1>11. StaleInv'
  <2> SUFFICES ASSUME faults = {} PROVE StaleInv'
    BY <1>4 DEF StaleInv
  <2>1. /\ disk[ModuleHeader].state = "torn" => pc = "flush"
        /\ Present \subseteq Named(Includes(disk[ModuleHeader]))
    BY <1>0, <1>4 DEF StaleInv
  <2>2. disk'[ModuleHeader].state # "torn"
    BY <1>4, <2>1 DEF Between
  <2>3. Present' \subseteq Named(Includes(disk[ModuleHeader]))'
    BY <1>4, <2>1 DEF Present, Named, Includes
  <2>4. CASE Rejected /\ pc' = "exit1"
    BY <2>2, <2>3, <2>4 DEF StaleInv
  <2>5. CASE ~Rejected /\ pc' = "write" /\ todo' = list
    <3>1. Ahead' /\ ~failed'
      BY <1>2, <1>4, <2>5, FilesLemma DEF Ahead
    <3> QED BY <2>2, <2>3, <2>5, <3>1 DEF StaleInv, Between
  <2> QED BY <1>3, <2>4, <2>5
<1>12. OthersUntouched'
  BY <1>0, <1>4 DEF OthersUntouched
<1> QED BY <1>8, <1>9, <1>10, <1>11, <1>12 DEF Sound

LEMMA WriteInv ==
  ASSUME OutputInv, WriteFile
  PROVE  Sound
<1> DEFINE f == Head(todo)
           rest == Tail(todo)
<1>0. TypeOK /\ TodoInv /\ WrittenInv /\ SettledInv /\ StaleInv /\ OthersUntouched
  BY DEF OutputInv
<1>1. /\ pc = "write" /\ todo # <<>>
      /\ UNCHANGED <<source, model, current, missed, settled, runs, faults>>
  BY DEF WriteFile
<1>2. /\ disk \in [Files -> Files3] /\ todo \in Seq(Files)
  BY <1>0 DEF TypeOK, Files3
<1>3. /\ f \in Files /\ Range(todo) = {f} \cup Range(rest) /\ Once(todo, ModuleHeader)
      /\ Once(rest, ModuleHeader) /\ (f = ModuleHeader => ModuleHeader \notin Range(rest))
  BY <1>0, <1>1, <1>2, TailLemma DEF TodoInv
<1>4. /\ \/ f # ModuleHeader /\ UNCHANGED previous
         \/ f = ModuleHeader /\ disk[f].state # "torn" /\ previous' = Includes(disk[f])
         \/ f = ModuleHeader /\ disk[f].state = "torn" /\ previous' \in SUBSET Includes(disk[f])
      /\ \/ Current(f) /\ todo' = rest /\ UNCHANGED <<disk, pc, failed>>
         \/ ~Current(f) /\ disk' = [disk EXCEPT ![f] = Torn(Emit(f))] /\ pc' = "flush"
            /\ UNCHANGED <<todo, failed>>
         \/ ~Current(f) /\ "write" \in faults /\ failed' = TRUE /\ todo' = rest
            /\ UNCHANGED <<disk, pc>>
  BY DEF WriteFile, Current
<1> HIDE DEF f, rest
<1>5. /\ Own' = Own /\ Extracted' = Extracted /\ current' = current /\ faults' = faults
      /\ \A g : Emit(g)' = Emit(g) /\ (Current(g)' <=> disk'[g] = Written(Emit(g)))
  BY <1>1, FrameLemma
<1>6. /\ f \in Own /\ Range(todo) \subseteq Own /\ current = Named(Extracted)
      /\ Own \subseteq Files /\ Own \cap Others = {} /\ Own \cap Generated \subseteq current
  BY <1>0, <1>3, OwnLemma DEF TodoInv
<1>7. /\ \A g \in Files : g # f => disk'[g] = disk[g]
      /\ disk' = disk \/ disk'[f] = Torn(Emit(f))
  BY <1>2, <1>3, <1>4
<1>8. TodoInv'
  <2>1. Named(Extracted)' = Named(Extracted)
    BY <1>5 DEF Named
  <2>2. Range(todo') \subseteq Own /\ Once(todo', ModuleHeader) /\ (pc' = "flush" => todo' # <<>>)
    BY <1>1, <1>3, <1>4, <1>6
  <2>3. pc' \in {"write", "flush"}
    BY <1>1, <1>4
  <2> QED BY <1>5, <1>6, <2>1, <2>2, <2>3 DEF TodoInv
<1>9. WrittenInv'
  <2> SUFFICES ASSUME ~failed' PROVE \A g \in Own : g \in Range(todo') \/ Current(g)'
    BY <1>1, <1>4, <1>5 DEF WrittenInv
  <2>1. \A g \in Own : g \in Range(todo) \/ Current(g)
    BY <1>0, <1>1, <1>4 DEF WrittenInv
  <2>2. CASE Current(f) /\ todo' = rest /\ UNCHANGED <<disk, pc, failed>>
    BY <1>3, <1>5, <2>1, <2>2 DEF Current
  <2>3. CASE disk' = [disk EXCEPT ![f] = Torn(Emit(f))] /\ UNCHANGED <<todo, failed>>
    BY <1>3, <1>5, <1>6, <1>7, <2>1, <2>3 DEF Current
  <2> QED BY <1>4, <2>2, <2>3
<1>10. SettledInv'
  <2> SUFFICES ASSUME settled PROVE SettledInv'
    BY <1>1 DEF SettledInv
  <2>1. model = source /\ (\A g \in Own : Current(g)) /\ previous \subseteq Extracted
    BY <1>0, <1>1 DEF SettledInv
  <2>2. Current(f) /\ UNCHANGED <<disk, pc, failed>>
    BY <1>4, <1>6, <2>1
  <2>3. previous' \subseteq Extracted
    BY <1>4, <2>1, <2>2, IncludesLemma DEF Current
  <2>4. \A g \in Own : Current(g)'
    BY <1>5, <2>1, <2>2 DEF Current
  <2> QED BY <1>1, <1>5, <2>1, <2>2, <2>3, <2>4 DEF SettledInv
<1>11. StaleInv'
  <2> SUFFICES ASSUME faults = {} PROVE StaleInv'
    BY <1>5 DEF StaleInv
  <2>1. /\ ~failed /\ disk[ModuleHeader].state # "torn"
        /\ Ahead => Present \subseteq Named(Includes(disk[ModuleHeader])) \cup current
        /\ ~Ahead => Present \subseteq Named(previous) \cup current
    BY <1>0, <1>1 DEF StaleInv
  <2>2. Ahead <=> ModuleHeader \in Range(todo)
    BY <1>1 DEF Ahead
  <2>3. \/ todo' = rest /\ UNCHANGED <<disk, pc, failed>>
        \/ disk' = [disk EXCEPT ![f] = Torn(Emit(f))] /\ pc' = "flush" /\ UNCHANGED <<todo, failed>>
    BY <1>4
  <2>4. Present' \subseteq Present \cup ({f} \cap Generated)
    BY <1>7, FilesLemma DEF Present
  <2>5. Present' \subseteq Present \cup current
    BY <1>6, <2>4
  <2>6. CASE f = ModuleHeader
    <3>1. previous' = Includes(disk[ModuleHeader]) /\ Ahead
      BY <1>3, <1>4, <2>1, <2>2, <2>6
    <3>2. ~Ahead'
      BY <1>1, <1>3, <2>3, <2>6 DEF Ahead, f
    <3>3. disk'[ModuleHeader].state = "torn" => pc' = "flush" /\ Head(todo') = ModuleHeader
      BY <2>1, <2>3, <2>6 DEF f
    <3>4. Present' \subseteq Named(previous)' \cup current
      BY <2>1, <2>5, <3>1 DEF Named
    <3> QED BY <1>1, <1>5, <2>1, <2>3, <3>2, <3>3, <3>4 DEF StaleInv, Between
  <2>7. CASE f # ModuleHeader
    <3>1. previous' = previous /\ disk'[ModuleHeader] = disk[ModuleHeader]
      BY <1>4, <1>7, <2>7, FilesLemma
    <3>2. Ahead' <=> Ahead
      BY <1>1, <1>3, <2>2, <2>3, <2>7 DEF Ahead, f
    <3>3. /\ Ahead' => Present' \subseteq Named(Includes(disk[ModuleHeader]))' \cup current
          /\ ~Ahead' => Present' \subseteq Named(previous)' \cup current
      BY <2>1, <2>5, <3>1, <3>2 DEF Named, Includes
    <3> QED BY <1>1, <1>5, <2>1, <2>3, <3>1, <3>3 DEF StaleInv, Between
  <2> QED BY <2>6, <2>7
<1>12. OthersUntouched'
  BY <1>0, <1>6, <1>7, FilesLemma DEF OthersUntouched
<1> QED BY <1>8, <1>9, <1>10, <1>11, <1>12 DEF Sound

LEMMA FlushInv ==
  ASSUME OutputInv, FlushFile
  PROVE  Sound
<1> DEFINE f == Head(todo)
           rest == Tail(todo)
<1>0. TypeOK /\ TodoInv /\ WrittenInv /\ SettledInv /\ StaleInv /\ OthersUntouched
  BY DEF OutputInv
<1>1. /\ pc = "flush" /\ pc' = "write" /\ todo # <<>> /\ todo' = rest
      /\ disk' = [disk EXCEPT ![f] = Written(Emit(f))]
      /\ UNCHANGED <<source, model, previous, current, failed, missed, settled, runs, faults>>
  BY <1>0 DEF FlushFile, TodoInv
<1>2. disk \in [Files -> Files3] /\ todo \in Seq(Files)
  BY <1>0 DEF TypeOK, Files3
<1>3. /\ f \in Files /\ Range(todo) = {f} \cup Range(rest)
      /\ Once(rest, ModuleHeader) /\ (f = ModuleHeader => ModuleHeader \notin Range(rest))
  BY <1>0, <1>1, <1>2, TailLemma DEF TodoInv
<1>4. Ahead <=> ModuleHeader \in Range(todo) /\ f # ModuleHeader
  BY <1>1 DEF Ahead
<1> HIDE DEF f, rest
<1>5. /\ Own' = Own /\ Extracted' = Extracted
      /\ \A g : Emit(g)' = Emit(g) /\ (Current(g)' <=> disk'[g] = Written(Emit(g)))
  BY <1>1, FrameLemma
<1>6. /\ f \in Own /\ Range(todo) \subseteq Own /\ current = Named(Extracted)
      /\ Own \subseteq Files /\ Own \cap Others = {} /\ Own \cap Generated \subseteq current
  BY <1>0, <1>3, OwnLemma DEF TodoInv
<1>7. disk'[f] = Written(Emit(f)) /\ \A g \in Files : g # f => disk'[g] = disk[g]
  BY <1>1, <1>2, <1>3
<1>8. TodoInv'
  <2>1. Named(Extracted)' = Named(Extracted)
    BY <1>5 DEF Named
  <2> QED BY <1>1, <1>3, <1>5, <1>6, <2>1 DEF TodoInv
<1>9. WrittenInv'
  <2> SUFFICES ASSUME ~failed PROVE \A g \in Own : g \in Range(rest) \/ Current(g)'
    BY <1>1, <1>5 DEF WrittenInv
  <2>1. \A g \in Own : g \in Range(todo) \/ Current(g)
    BY <1>0, <1>1 DEF WrittenInv
  <2> QED BY <1>3, <1>5, <1>6, <1>7, <2>1 DEF Current
<1>10. SettledInv'
  BY <1>0, <1>1 DEF SettledInv
<1>11. StaleInv'
  <2> SUFFICES ASSUME faults = {} PROVE StaleInv'
    BY <1>1 DEF StaleInv
  <2>1. /\ ~failed /\ (disk[ModuleHeader].state = "torn" => f = ModuleHeader)
        /\ Ahead => Present \subseteq Named(Includes(disk[ModuleHeader])) \cup current
        /\ ~Ahead => Present \subseteq Named(previous) \cup current
    BY <1>0, <1>1 DEF StaleInv, f
  <2>2. Ahead' <=> Ahead
    BY <1>1, <1>3, <1>4 DEF Ahead
  <2>3. Present' \subseteq Present \cup current
    BY <1>6, <1>7, FilesLemma DEF Present
  <2>4. disk'[ModuleHeader].state # "torn"
    BY <1>7, <2>1, FilesLemma DEF Written
  <2>5. Ahead => disk'[ModuleHeader] = disk[ModuleHeader]
    BY <1>4, <1>7, FilesLemma
  <2>6. /\ Ahead' => Present' \subseteq Named(Includes(disk[ModuleHeader]))' \cup current
        /\ ~Ahead' => Present' \subseteq Named(previous)' \cup current
    BY <1>1, <2>1, <2>2, <2>3, <2>5 DEF Named, Includes
  <2> QED BY <1>1, <2>1, <2>4, <2>6 DEF StaleInv, Between
<1>12. OthersUntouched'
  BY <1>0, <1>6, <1>7, FilesLemma DEF OthersUntouched
<1> QED BY <1>8, <1>9, <1>10, <1>11, <1>12 DEF Sound

LEMMA RemoveInv ==
  ASSUME OutputInv, RemoveStale
  PROVE  Sound
<1>0. TypeOK /\ TodoInv /\ WrittenInv /\ SettledInv /\ StaleInv /\ OthersUntouched
  BY DEF OutputInv
<1>1. /\ pc = "remove" /\ pc' = (IF failed THEN "exit1" ELSE "exit0") /\ todo = <<>>
      /\ settled' = (~failed /\ model = source)
      /\ UNCHANGED <<source, todo, model, previous, current, failed, runs, faults>>
  BY <1>0 DEF RemoveStale, TodoInv
<1>2. PICK held \in SUBSET {f \in Stale : disk[f].state # "absent"} :
        /\ held # {} => "held" \in faults
        /\ disk' = [f \in Files |-> IF f \in {g \in Stale : disk[g].state # "absent"} \ held
                                       THEN Absent ELSE disk[f]]
  BY DEF RemoveStale
<1>3. /\ Own \subseteq Files /\ Own \cap Others = {} /\ Stale \subseteq Generated /\ Stale \cap Own = {}
      /\ current = Named(Extracted)
  BY <1>0, OwnLemma DEF TodoInv
<1>4. /\ Own' = Own /\ Extracted' = Extracted
      /\ \A g : Emit(g)' = Emit(g) /\ (Current(g)' <=> disk'[g] = Written(Emit(g)))
  BY <1>1, FrameLemma
<1>5. /\ \A g \in Files : g \notin Stale => disk'[g] = disk[g]
      /\ \A g \in Own : disk'[g] = disk[g]
  BY <1>2, <1>3
<1>6. Range(todo) = {}
  BY <1>1 DEF Range
<1>7. ~failed => \A g \in Own : Current(g) /\ Current(g)'
  BY <1>0, <1>1, <1>4, <1>5, <1>6 DEF WrittenInv, Current
<1>8. TodoInv'
  <2>1. Named(Extracted)' = Named(Extracted)
    BY <1>4 DEF Named
  <2> QED BY <1>0, <1>1, <1>3, <1>4, <2>1 DEF TodoInv
<1>9. WrittenInv'
  BY <1>1, <1>4, <1>7 DEF WrittenInv
<1>10. SettledInv'
  BY <1>1, <1>4, <1>7 DEF SettledInv
<1>11. StaleInv'
  <2> SUFFICES ASSUME faults = {} PROVE StaleInv'
    BY <1>1 DEF StaleInv
  <2>1. ~Ahead
    BY <1>6 DEF Ahead
  <2>2. /\ ~failed /\ Present \subseteq Named(previous) \cup current
        /\ disk[ModuleHeader].state # "torn"
    BY <1>0, <1>1, <2>1 DEF StaleInv
  <2>3. ModuleHeader \in Own /\ disk'[ModuleHeader] = disk[ModuleHeader]
    BY <1>5, FilesLemma DEF Own
  <2>4. held = {}
    BY <1>2
  <2>5. Present' \subseteq Present \ Stale
    BY <1>2, <2>4, FilesLemma DEF Present, Absent
  <2>6. Present' \subseteq current
    BY <2>2, <2>5 DEF Stale, Named
  <2>7. Includes(disk[ModuleHeader])' = Extracted
    <3>1. disk'[ModuleHeader] = Written(Emit(ModuleHeader))
      BY <1>7, <2>2, <2>3 DEF Current
    <3>2. Includes(disk[ModuleHeader])' = Includes(Written(Emit(ModuleHeader)))
      BY <3>1 DEF Includes
    <3> QED BY <3>2, IncludesLemma
  <2>8. Named(Includes(disk[ModuleHeader]))' = current
    BY <1>3, <2>7 DEF Named
  <2> QED BY <1>1, <2>2, <2>3, <2>6, <2>8 DEF StaleInv
<1>12. OthersUntouched'
  BY <1>0, <1>3, <1>5, FilesLemma DEF OthersUntouched
<1> QED BY <1>8, <1>9, <1>10, <1>11, <1>12 DEF Sound

LEMMA OtherSteps ==
  ASSUME OutputInv,
         \/ \E h \in Headers, v \in Versions \cup {"plain"} : EditHeader(h, v)
         \/ WritesDone \/ Kill \/ UNCHANGED vars
  PROVE  Sound
<1>0. TypeOK /\ TodoInv /\ WrittenInv /\ SettledInv /\ StaleInv /\ OthersUntouched
  BY DEF OutputInv
<1>1. UNCHANGED <<disk, model, previous, current, failed, faults>>
  BY DEF EditHeader, WritesDone, Kill, vars
<1>2. /\ Own' = Own /\ Extracted' = Extracted
      /\ \A g : Emit(g)' = Emit(g) /\ (Current(g)' <=> Current(g))
  BY <1>1, FrameLemma DEF Current
<1>3. /\ Named(Extracted)' = Named(Extracted) /\ Named(previous)' = Named(previous)
      /\ Named(Includes(disk[ModuleHeader]))' = Named(Includes(disk[ModuleHeader]))
      /\ Present' = Present
  BY <1>1, <1>2 DEF Named, Includes, Present
<1>4. OthersUntouched'
  BY <1>0, <1>1 DEF OthersUntouched
<1>5. CASE UNCHANGED <<pc, todo>> /\ (settled' => settled /\ UNCHANGED source)
  <2>1. TodoInv' /\ WrittenInv'
    BY <1>0, <1>1, <1>2, <1>3, <1>5 DEF TodoInv, WrittenInv
  <2>2. SettledInv'
    BY <1>0, <1>1, <1>2, <1>5 DEF SettledInv
  <2>3. StaleInv'
    BY <1>0, <1>1, <1>3, <1>5 DEF StaleInv, Between, Ahead
  <2> QED BY <1>4, <2>1, <2>2, <2>3 DEF Sound
<1>6. CASE WritesDone
  <2>1. pc = "write" /\ todo = <<>> /\ pc' = "remove" /\ UNCHANGED <<source, todo, settled>>
    BY <1>6 DEF WritesDone
  <2>2. ~Ahead /\ ~Ahead'
    BY <2>1 DEF Ahead, Range
  <2>3. TodoInv' /\ WrittenInv'
    BY <1>0, <1>1, <1>2, <1>3, <2>1 DEF TodoInv, WrittenInv
  <2>4. SettledInv'
    BY <1>0, <1>1, <1>2, <2>1 DEF SettledInv
  <2>5. StaleInv'
    BY <1>0, <1>1, <1>3, <2>1, <2>2 DEF StaleInv, Between
  <2> QED BY <1>4, <2>3, <2>4, <2>5 DEF Sound
<1>7. CASE Kill
  <2>1. /\ faults # {} /\ pc' = "idle" /\ todo' = <<>> /\ UNCHANGED <<source, settled>>
        /\ Range(<<>>) = {} /\ DOMAIN <<>> = {}
    BY <1>7 DEF Kill, Range
  <2>2. TodoInv' /\ WrittenInv'
    BY <1>0, <1>1, <1>2, <1>3, <2>1 DEF TodoInv, WrittenInv, Once
  <2>3. SettledInv'
    BY <1>0, <1>1, <1>2, <2>1 DEF SettledInv
  <2>4. StaleInv'
    BY <1>1, <2>1 DEF StaleInv
  <2> QED BY <1>4, <2>2, <2>3, <2>4 DEF Sound
<1> QED BY <1>5, <1>6, <1>7 DEF EditHeader, vars

LEMMA NextOutput == OutputInv /\ [Next]_vars => OutputInv'
<1> SUFFICES ASSUME OutputInv, [Next]_vars PROVE OutputInv'
  OBVIOUS
<1>1. TypeOK'
  BY NextType DEF OutputInv
<1>2. Sound
  BY StartInv, WriteInv, FlushInv, RemoveInv, OtherSteps DEF Next, RunStep
<1> QED BY <1>1, <1>2 DEF Sound, OutputInv

LEMMA InitOutput == Init => OutputInv
<1> SUFFICES ASSUME Init PROVE OutputInv
  OBVIOUS
<1>1. TypeOK
  BY InitType
<1>2. /\ pc = "idle" /\ todo = <<>> /\ current = {} /\ model = Plain /\ settled = FALSE
      /\ Range(<<>>) = {} /\ DOMAIN <<>> = {}
      /\ disk = [f \in Files |-> IF f \in Others THEN Written(Plain) ELSE Absent]
  BY DEF Init, Range
<1>3. Extracted = {}
  BY <1>2 DEF Extracted, Plain
<1>4. TodoInv /\ WrittenInv /\ SettledInv
  BY <1>2, <1>3 DEF TodoInv, WrittenInv, SettledInv, Named, Once
<1>5. Present = {} /\ disk[ModuleHeader].state # "torn"
  BY <1>2, FilesLemma DEF Present, Absent
<1>6. StaleInv
  BY <1>2, <1>5 DEF StaleInv
<1>7. OthersUntouched
  BY <1>2, FilesLemma DEF OthersUntouched
<1> QED BY <1>1, <1>4, <1>6, <1>7 DEF OutputInv

LEMMA OutputHolds == Spec => []OutputInv
BY InitOutput, NextOutput, PTL DEF Spec

\* For any headers, names, kills, locks and failed writes: the files of another
\* module are never touched, and where nothing fails a successful run leaves
\* no file of a header that stopped reflecting, also when headers came and went
\* while it ran.
THEOREM DirectoryIsClean == Spec => []DirectoryInv
<1>1. OutputInv => DirectoryInv
  BY DEF OutputInv, DirectoryInv, NothingStale, StaleInv, Present
<1> QED BY <1>1, OutputHolds, PTL

\* Whatever earlier runs left behind, a run that returns 0 leaves every file it
\* is responsible for whole and current.
THEOREM OutputsAreCurrent == Spec => []OutputsCurrent
<1>1. OutputInv => OutputsCurrent
  <2> SUFFICES ASSUME OutputInv, pc = "exit0", NEW f \in current \cup FixedFiles
               PROVE  disk[f] = Written(Emit(f))
    BY DEF OutputsCurrent
  <2>1. todo = <<>> /\ ~failed /\ f \in Own
    BY DEF OutputInv, TodoInv, WrittenInv, Own
  <2>2. f \notin Range(todo)
    BY <2>1 DEF Range
  <2> QED BY <2>1, <2>2 DEF OutputInv, WrittenInv, Current
<1> QED BY <1>1, OutputHolds, PTL

\* Once a run has succeeded, no number of further runs on the same headers,
\* complete or killed, changes a file or its time.
THEOREM RunsAreIdempotent == Spec => Idempotent
<1>1. OutputInv /\ [Next]_vars => (settled => disk' = disk)
  <2> SUFFICES ASSUME OutputInv, [Next]_vars, settled PROVE disk' = disk
    OBVIOUS
  <2>0. /\ TypeOK /\ TodoInv /\ pc # "flush" /\ (\A f \in Own : Current(f))
        /\ pc \in {"write", "remove"} => previous \subseteq Extracted
    BY DEF OutputInv, SettledInv
  <2>1. CASE WriteFile
    <3>1. todo # <<>> /\ todo \in Seq(Files)
      BY <2>0, <2>1 DEF WriteFile, TypeOK
    <3>2. Head(todo) \in Own
      BY <2>0, <3>1, TailLemma DEF TodoInv
    <3> QED BY <2>0, <2>1, <3>2 DEF WriteFile, Current
  <2>2. CASE RemoveStale
    <3>1. Stale = {}
      BY <2>0, <2>2 DEF RemoveStale, Stale, TodoInv, Named
    <3>2. disk' = [f \in Files |-> disk[f]]
      BY <2>2, <3>1 DEF RemoveStale
    <3> QED BY <2>0, <3>2 DEF TypeOK
  <2>3. CASE FlushFile
    BY <2>0, <2>3 DEF FlushFile
  <2> QED BY <2>1, <2>2, <2>3 DEF Next, RunStep, EditHeader, StartRun, WritesDone, Kill, vars
<1> QED BY <1>1, OutputHolds, PTL DEF Spec, Idempotent
-----------------------------------------------------------------------------
(* Owned handles.                                                          *)

FrameType ==
    [op : {"with", "transfer"}, owner : Owners, pc : {"locked", "addref", "invoke", "release", "leave"},
     acquired : BOOLEAN, slot : BOOLEAN]

OTypeOK ==
    /\ gate \in [Owners -> [by : SUBSET Threads, depth : Nat]]
    /\ active \in [Owners -> BOOLEAN]
    /\ safe \in [Owners -> [refs : Int, closed : BOOLEAN, disposed : BOOLEAN]]
    /\ native \in [Owners -> {"live", "deleted", "consumed"}]
    /\ stack \in [Threads -> Seq(FrameType)]

\* The places of the stacks, and those of the helpers over owner o.
Places == {p \in Threads \X Nat : p[2] \in 1 .. Len(stack[p[1]])}
FrameAt(p) == stack[p[1]][p[2]]
Of(o) == {p \in Places : FrameAt(p).owner = o}
Inside(p) == FrameAt(p).pc # "locked"
Holding(p) == FrameAt(p).pc \in {"invoke", "release"}

\* Only the innermost helper of a thread is not in its callback.
Nested == \A p \in Places : p[2] < Len(stack[p[1]]) => FrameAt(p).pc = "invoke"

\* The monitor: one thread, as often as it has helpers over the owner.
GateAt(o) ==
    /\ IsFiniteSet(Of(o)) /\ gate[o].depth = Cardinality(Of(o))
    /\ gate[o].by = {p[1] : p \in Of(o)}
    /\ \A p, q \in Of(o) : p[1] = q[1]

\* Active: set by the one helper that has passed the check.
ActiveAt(o) ==
    /\ active[o] <=> \E p \in Of(o) : Inside(p)
    /\ \A p, q \in Of(o) : Inside(p) /\ Inside(q) => p = q

Referenced(o) == \E p \in Of(o) : Holding(p)
Consuming(o) == \E p \in Of(o) : FrameAt(p).pc = "invoke" /\ ~FrameAt(p).slot

\* SafeHandle: what it counts, and what closed says of the object.
SafeAt(o) ==
    /\ safe[o].refs = (IF safe[o].disposed THEN 0 ELSE 1) + (IF Referenced(o) THEN 1 ELSE 0)
    /\ safe[o].closed => native[o] # "live"
    /\ ~safe[o].closed => native[o] = "live" \/ Consuming(o)
    /\ native[o] = "live" => ~safe[o].disposed \/ Referenced(o)

\* The slot: cleared by the thunk that consumed the object, and by nothing
\* else; a helper in its callback has an open handle.
SlotOk(f) ==
    /\ f.pc \in {"locked", "addref"} => f.slot
    /\ f.pc = "invoke" => ~safe[f.owner].closed
    /\ f.pc = "release" => (safe[f.owner].closed <=> ~f.slot)
    /\ ~f.slot => f.op = "transfer" /\ native[f.owner] = "consumed"

OwnerInv(o) == ActiveAt(o) /\ SafeAt(o) /\ \A p \in Of(o) : SlotOk(FrameAt(p))

OwnedInv == OTypeOK /\ Nested /\ \A o \in Owners : GateAt(o) /\ OwnerInv(o)

-----------------------------------------------------------------------------
(* The stacks of the threads.                                               *)

Innermost(t) == <<t, Len(stack[t])>>

LEMMA FrontOf ==
  ASSUME NEW S, NEW q \in Seq(S), q # <<>>
  PROVE  LET r == SubSeq(q, 1, Len(q) - 1) IN
         r \in Seq(S) /\ Len(r) = Len(q) - 1 /\ \A k \in 1 .. Len(q) - 1 : r[k] = q[k]
<1>1. Len(q) \in Nat /\ Len(q) # 0 /\ \A i \in 1 .. Len(q) : q[i] \in S  OBVIOUS
<1>2. PICK n \in Nat : Len(q) = n + 1
  <2>1. Len(q) - 1 \in Nat /\ Len(q) = (Len(q) - 1) + 1  BY <1>1
  <2> QED  BY <2>1
<1>3. /\ 1 \in Int /\ n \in Int /\ n - 1 + 1 = n /\ (1 <= n \/ n = 0) /\ (n + 1) - 1 = n
      /\ (\A i \in 1 .. n : 1 + i - 1 = i) /\ 1 .. n \subseteq 1 .. n + 1
  BY <1>2
<1>4. \A i \in 1 .. n : q[i] \in S  BY <1>1, <1>2, <1>3
<1>5. /\ SubSeq(q, 1, n) \in Seq(S) /\ Len(SubSeq(q, 1, n)) = n
      /\ \A i \in 1 .. n : SubSeq(q, 1, n)[i] = q[i]
  BY <1>3, <1>4, SubSeqProperties
<1> QED  BY <1>2, <1>3, <1>5

LEMMA TopPlace ==
  ASSUME OTypeOK, NEW t \in Threads, ~Idle(t)
  PROVE  /\ Innermost(t) \in Places /\ FrameAt(Innermost(t)) = Top(t) /\ Top(t) \in FrameType
         /\ Len(stack[t]) \in Nat \ {0}
  BY DEF OTypeOK, Idle, Innermost, Places, FrameAt, Top

\* The innermost helper of t goes on.
LEMMA GotoPlaces ==
  ASSUME OTypeOK, NEW t \in Threads, ~Idle(t), NEW g \in FrameType, Goto(t, g), NEW top, top = Innermost(t)
  PROVE  /\ stack' \in [Threads -> Seq(FrameType)] /\ Places' = Places
         /\ FrameAt(top)' = g
         /\ \A p \in Places : p # top => FrameAt(p)' = FrameAt(p)
         /\ \A u \in Threads : Len(stack'[u]) = Len(stack[u])
<1> DEFINE n == Len(stack[t])
<1>1. stack \in [Threads -> Seq(FrameType)] /\ n \in Nat \ {0}  BY TopPlace DEF OTypeOK
<1>2. stack' = [stack EXCEPT ![t] = [stack[t] EXCEPT ![n] = g]]  BY DEF Goto
<1> DEFINE s == [stack[t] EXCEPT ![n] = g]
<1>3. s \in Seq(FrameType) /\ Len(s) = n /\ s[n] = g /\ \A k \in 1 .. n : k # n => s[k] = stack[t][k]
  BY <1>1
<1> HIDE DEF s, n
<1>4. stack' = [stack EXCEPT ![t] = s]  BY <1>2 DEF s
<1>5. stack' \in [Threads -> Seq(FrameType)] /\ stack'[t] = s /\ \A u \in Threads : u # t => stack'[u] = stack[u]
  BY <1>1, <1>3, <1>4
<1>6. \A u \in Threads : Len(stack'[u]) = Len(stack[u])  BY <1>3, <1>5 DEF n
<1>7. Places' = Places  BY <1>6 DEF Places
<1>8. ASSUME NEW p \in Places, p # top PROVE FrameAt(p)' = FrameAt(p)
  <2>1. p = <<p[1], p[2]>> /\ p[1] \in Threads /\ p[2] \in 1 .. Len(stack[p[1]])  BY DEF Places
  <2>2. CASE p[1] = t
    <3>1. p[2] # n /\ p[2] \in 1 .. n  BY <1>8, <2>1, <2>2 DEF Innermost, n
    <3> QED  BY <3>1, <2>2, <1>3, <1>5 DEF FrameAt
  <2>3. CASE p[1] # t  BY <2>1, <2>3, <1>5 DEF FrameAt
  <2> QED  BY <2>2, <2>3
<1>9. FrameAt(top)' = g  BY <1>3, <1>5 DEF FrameAt, Innermost, n
<1> QED  BY <1>5, <1>6, <1>7, <1>8, <1>9

LEMMA PushPlaces ==
  ASSUME OTypeOK, NEW t \in Threads, NEW g \in FrameType, stack' = [stack EXCEPT ![t] = Append(@, g)],
         NEW top, top = <<t, Len(stack[t]) + 1>>
  PROVE  /\ stack' \in [Threads -> Seq(FrameType)] /\ top \notin Places /\ Places' = Places \cup {top}
         /\ FrameAt(top)' = g /\ \A p \in Places : FrameAt(p)' = FrameAt(p)
         /\ Len(stack'[t]) = Len(stack[t]) + 1
         /\ \A u \in Threads : u # t => Len(stack'[u]) = Len(stack[u])
<1> DEFINE n == Len(stack[t])
           s == Append(stack[t], g)
<1>1. stack \in [Threads -> Seq(FrameType)] /\ n \in Nat  BY DEF OTypeOK
<1>2. s \in Seq(FrameType) /\ Len(s) = n + 1 /\ s[n + 1] = g /\ \A k \in 1 .. n : s[k] = stack[t][k]
  BY <1>1
<1>3. stack' \in [Threads -> Seq(FrameType)] /\ stack'[t] = s /\ \A u \in Threads : u # t => stack'[u] = stack[u]
  BY <1>1, <1>2
<1> HIDE DEF s
<1>4. ASSUME NEW p \in Places PROVE FrameAt(p)' = FrameAt(p) /\ p # top /\ p \in Places'
  <2>1. p = <<p[1], p[2]>> /\ p[1] \in Threads /\ p[2] \in Nat /\ p[2] \in 1 .. Len(stack[p[1]])  BY DEF Places
  <2>2. CASE p[1] = t
    <3>1. p[2] \in 1 .. n /\ p[2] \in 1 .. n + 1 /\ p[2] # n + 1  BY <2>1, <2>2, <1>1
    <3> QED  BY <3>1, <2>1, <2>2, <1>2, <1>3 DEF FrameAt, Places
  <2>3. CASE p[1] # t  BY <2>1, <2>3, <1>3 DEF FrameAt, Places
  <2> QED  BY <2>2, <2>3
<1>5. top \in Places' /\ FrameAt(top)' = g  BY <1>1, <1>2, <1>3 DEF Places, FrameAt
<1>6. ASSUME NEW p \in Places', p # top PROVE p \in Places
  <2>1. p = <<p[1], p[2]>> /\ p[1] \in Threads /\ p[2] \in Nat /\ p[2] \in 1 .. Len(stack'[p[1]])  BY DEF Places
  <2>2. CASE p[1] = t
    <3>1. p[2] \in 1 .. n + 1 /\ p[2] # n + 1  BY <1>6, <2>1, <2>2, <1>2, <1>3
    <3>2. p[2] \in 1 .. n  BY <3>1, <1>1
    <3> QED  BY <3>2, <2>1, <2>2 DEF Places
  <2>3. CASE p[1] # t  BY <2>1, <2>3, <1>3 DEF Places
  <2> QED  BY <2>2, <2>3
<1>7. Places' = Places \cup {top} /\ top \notin Places  BY <1>4, <1>5, <1>6
<1> QED  BY <1>2, <1>3, <1>4, <1>5, <1>7

LEMMA PopPlaces ==
  ASSUME OTypeOK, NEW t \in Threads, ~Idle(t), Pop(t), NEW top, top = Innermost(t)
  PROVE  /\ stack' \in [Threads -> Seq(FrameType)] /\ Places' = Places \ {top}
         /\ \A p \in Places' : FrameAt(p)' = FrameAt(p)
         /\ Len(stack'[t]) = Len(stack[t]) - 1
         /\ \A u \in Threads : u # t => Len(stack'[u]) = Len(stack[u])
<1> DEFINE n == Len(stack[t])
           s == SubSeq(stack[t], 1, n - 1)
<1>1. stack \in [Threads -> Seq(FrameType)] /\ n \in Nat \ {0}  BY TopPlace DEF OTypeOK
<1>2. s \in Seq(FrameType) /\ Len(s) = n - 1 /\ \A k \in 1 .. n - 1 : s[k] = stack[t][k]
  BY <1>1, FrontOf DEF Idle
<1>3. stack' = [stack EXCEPT ![t] = s]  BY DEF Pop
<1> HIDE DEF s
<1>4. stack' \in [Threads -> Seq(FrameType)] /\ stack'[t] = s /\ \A u \in Threads : u # t => stack'[u] = stack[u]
  BY <1>1, <1>2, <1>3
<1>5. ASSUME NEW p \in Places' PROVE FrameAt(p)' = FrameAt(p) /\ p \in Places /\ p # top
  <2>1. p = <<p[1], p[2]>> /\ p[1] \in Threads /\ p[2] \in Nat /\ p[2] \in 1 .. Len(stack'[p[1]])  BY DEF Places
  <2>2. CASE p[1] = t
    <3>1. p[2] \in 1 .. n - 1  BY <2>1, <2>2, <1>2, <1>4
    <3>2. p[2] \in 1 .. n /\ p[2] # n  BY <3>1, <1>1
    <3> QED  BY <3>1, <3>2, <2>1, <2>2, <1>2, <1>4 DEF FrameAt, Places, Innermost
  <2>3. CASE p[1] # t  BY <2>1, <2>3, <1>4 DEF FrameAt, Places, Innermost
  <2> QED  BY <2>2, <2>3
<1>6. ASSUME NEW p \in Places, p # top PROVE p \in Places'
  <2>1. p = <<p[1], p[2]>> /\ p[1] \in Threads /\ p[2] \in Nat /\ p[2] \in 1 .. Len(stack[p[1]])  BY DEF Places
  <2>2. CASE p[1] = t
    <3>1. p[2] \in 1 .. n /\ p[2] # n  BY <1>6, <2>1, <2>2 DEF Innermost
    <3>2. p[2] \in 1 .. n - 1  BY <3>1, <1>1
    <3> QED  BY <3>2, <2>1, <2>2, <1>2, <1>4 DEF Places
  <2>3. CASE p[1] # t  BY <2>1, <2>3, <1>4 DEF Places
  <2> QED  BY <2>2, <2>3
<1>7. Places' = Places \ {top}  BY <1>5, <1>6
<1> QED  BY <1>2, <1>4, <1>5, <1>7

-----------------------------------------------------------------------------
(* One owner at a time.                                                     *)

\* An owner that a step does not touch.
LEMMA Elsewhere ==
  ASSUME NEW x \in Owners, OwnerInv(x), Of(x)' = Of(x), \A p \in Of(x) : FrameAt(p)' = FrameAt(p),
         active'[x] = active[x], safe'[x] = safe[x], native'[x] = native[x]
  PROVE  OwnerInv(x)'
<1>1. \A p \in Of(x) : Inside(p)' = Inside(p) /\ Holding(p)' = Holding(p)  BY DEF Inside, Holding
<1>2. ActiveAt(x)'  BY <1>1 DEF OwnerInv, ActiveAt
<1>3. Referenced(x)' = Referenced(x) /\ Consuming(x)' = Consuming(x)  BY <1>1 DEF Referenced, Consuming
<1>4. SafeAt(x)'  BY <1>3 DEF OwnerInv, SafeAt
<1>5. ASSUME NEW p \in Of(x) PROVE SlotOk(FrameAt(p))'
  <2>1. FrameAt(p).owner = x  BY DEF Of
  <2> QED  BY <2>1 DEF OwnerInv, SlotOk
<1> QED  BY <1>2, <1>4, <1>5 DEF OwnerInv

\* Which frames are of which owner, when only the frame at top changes.
LEMMA OtherFrames ==
  ASSUME NEW top, NEW x \in Owners, \A p \in Places : p # top => FrameAt(p)' = FrameAt(p),
         Places' \ {top} = Places \ {top}, top \in Places => FrameAt(top).owner # x,
         top \in Places' => FrameAt(top)'.owner # x
  PROVE  Of(x)' = Of(x) /\ \A p \in Of(x) : FrameAt(p)' = FrameAt(p)
  BY DEF Of

\* The innermost helper goes on: the gate and the nesting stay.
LEMMA GotoGate ==
  ASSUME OwnedInv, NEW t \in Threads, ~Idle(t), NEW g \in FrameType, Goto(t, g), g.owner = Top(t).owner,
         gate' = gate, NEW top, top = Innermost(t)
  PROVE  /\ Nested' /\ \A x \in Owners : GateAt(x)'
         /\ \A x \in Owners : Of(x)' = Of(x)
         /\ \A x \in Owners : x # g.owner => \A p \in Of(x) : FrameAt(p)' = FrameAt(p)
         /\ top \in Of(g.owner) /\ FrameAt(top) = Top(t) /\ FrameAt(top)' = g
         /\ \A p \in Of(g.owner) : p # top => FrameAt(p)' = FrameAt(p)
         /\ stack' \in [Threads -> Seq(FrameType)]
<1>1. /\ stack' \in [Threads -> Seq(FrameType)] /\ Places' = Places /\ FrameAt(top)' = g
      /\ \A p \in Places : p # top => FrameAt(p)' = FrameAt(p)
      /\ \A u \in Threads : Len(stack'[u]) = Len(stack[u])
  BY GotoPlaces DEF OwnedInv
<1>2. top \in Places /\ FrameAt(top) = Top(t) /\ top[1] = t /\ top[2] = Len(stack[t]) /\ Len(stack[t]) \in Nat
  BY TopPlace DEF OwnedInv, Innermost
<1>3. \A x \in Owners : Of(x)' = Of(x)  BY <1>1, <1>2 DEF Of
<1>4. ASSUME NEW p \in Places' PROVE p[2] < Len(stack'[p[1]]) => FrameAt(p)'.pc = "invoke"
  <2>1. p[1] \in Threads  BY DEF Places
  <2>2. CASE p = top
    <3>1. ~(p[2] < Len(stack'[p[1]]))  BY <1>1, <1>2, <2>2
    <3> QED  BY <3>1
  <2>3. CASE p # top  BY <1>1, <2>1, <2>3 DEF OwnedInv, Nested
  <2> QED  BY <2>2, <2>3
<1>5. Nested'  BY <1>4 DEF Nested
<1>6. \A x \in Owners : GateAt(x)'  BY <1>3 DEF OwnedInv, GateAt
<1>7. \A x \in Owners : x # g.owner => \A p \in Of(x) : FrameAt(p)' = FrameAt(p)  BY <1>1, <1>2 DEF Of
<1> QED  BY <1>1, <1>2, <1>3, <1>5, <1>6, <1>7 DEF Of

\* What is known of an owner while the innermost helper of a thread is past
\* Active: the other helpers over it have only locked the gate.
LEMMA OneInside ==
  ASSUME NEW o \in Owners, OwnerInv(o), NEW top \in Of(o), Inside(top), active[o] \in BOOLEAN
  PROVE  /\ active[o] = TRUE
         /\ \A p \in Of(o) : p # top => FrameAt(p).pc = "locked" /\ SlotOk(FrameAt(p)) /\ FrameAt(p).slot
         /\ Referenced(o) <=> FrameAt(top).pc \in {"invoke", "release"}
         /\ Consuming(o) <=> FrameAt(top).pc = "invoke" /\ ~FrameAt(top).slot
<1>1. active[o] = TRUE  BY DEF OwnerInv, ActiveAt
<1>2. \A p \in Of(o) : p # top => FrameAt(p).pc = "locked"  BY DEF OwnerInv, ActiveAt, Inside
<1>3. \A p \in Of(o) : p # top => SlotOk(FrameAt(p)) /\ FrameAt(p).slot  BY <1>2 DEF OwnerInv, SlotOk
<1>4. Referenced(o) <=> FrameAt(top).pc \in {"invoke", "release"}  BY <1>2 DEF Referenced, Holding
<1>5. Consuming(o) <=> FrameAt(top).pc = "invoke" /\ ~FrameAt(top).slot  BY <1>2 DEF Consuming
<1> QED  BY <1>1, <1>2, <1>3, <1>4, <1>5

\* The helper past Active goes on to frame g: what is left to show.
LEMMA InsideGoesOn ==
  ASSUME OwnedInv, NEW t \in Threads, ~Idle(t), NEW g \in FrameType, Goto(t, g), g.owner = Top(t).owner,
         gate' = gate, active' = active, Top(t).pc # "locked", g.pc # "locked", OTypeOK',
         \A x \in Owners : x # g.owner => safe'[x] = safe[x] /\ native'[x] = native[x],
         LET o == g.owner
             held == g.pc \in {"invoke", "release"}
             consuming == g.pc = "invoke" /\ ~g.slot IN
         /\ safe'[o].refs = (IF safe'[o].disposed THEN 0 ELSE 1) + (IF held THEN 1 ELSE 0)
         /\ safe'[o].closed => native'[o] # "live"
         /\ ~safe'[o].closed => native'[o] = "live" \/ consuming
         /\ native'[o] = "live" => ~safe'[o].disposed \/ held,
         SlotOk(g)'
  PROVE  OwnedInv'
<1> DEFINE o == g.owner
<1>0. o \in Owners  BY DEF FrameType
<1>1. PICK top : top = Innermost(t)  OBVIOUS
<1>2. /\ Nested' /\ \A x \in Owners : GateAt(x)'
      /\ \A x \in Owners : Of(x)' = Of(x)
      /\ \A x \in Owners : x # o => \A p \in Of(x) : FrameAt(p)' = FrameAt(p)
      /\ top \in Of(o) /\ FrameAt(top) = Top(t) /\ FrameAt(top)' = g
      /\ \A p \in Of(o) : p # top => FrameAt(p)' = FrameAt(p)
  BY <1>1, GotoGate
<1>3. ASSUME NEW x \in Owners, x # o PROVE OwnerInv(x)'
  BY <1>2, <1>3, Elsewhere DEF OwnedInv
<1>4. /\ active[o] = TRUE
      /\ \A p \in Of(o) : p # top => FrameAt(p).pc = "locked" /\ SlotOk(FrameAt(p)) /\ FrameAt(p).slot
  <2>1. OwnerInv(o) /\ active[o] \in BOOLEAN  BY <1>0 DEF OwnedInv, OTypeOK
  <2>2. Inside(top)  BY <1>2 DEF Inside
  <2> HIDE DEF o
  <2> QED  BY <1>0, <1>2, <2>1, <2>2, OneInside
<1>5. \A p \in Of(o)' : p # top => FrameAt(p)'.pc = "locked" /\ FrameAt(p)'.slot  BY <1>0, <1>2, <1>4
<1>6. ActiveAt(o)'  BY <1>0, <1>2, <1>4, <1>5 DEF ActiveAt, Inside
<1>7. Referenced(o)' <=> g.pc \in {"invoke", "release"}  BY <1>0, <1>2, <1>5 DEF Referenced, Holding
<1>8. Consuming(o)' <=> g.pc = "invoke" /\ ~g.slot  BY <1>0, <1>2, <1>5 DEF Consuming
<1>9. SafeAt(o)'  BY <1>7, <1>8 DEF SafeAt
<1>10. ASSUME NEW p \in Of(o)' PROVE SlotOk(FrameAt(p))'  BY <1>2, <1>5 DEF SlotOk
<1>11. OwnerInv(o)'  BY <1>6, <1>9, <1>10 DEF OwnerInv
<1> QED  BY <1>2, <1>3, <1>11 DEF OwnedInv
-----------------------------------------------------------------------------
(* The helper past Active: one action after the other.                      *)

\* What the invariant says of a helper past Active, its owner and its object.
LEMMA TopFacts ==
  ASSUME OwnedInv, NEW t \in Threads, ~Idle(t), Top(t).pc # "locked", NEW o, o = Top(t).owner
  PROVE  /\ OTypeOK /\ Top(t) \in FrameType /\ o \in Owners
         /\ SlotOk(Top(t)) /\ SafeAt(o)
         /\ Referenced(o) <=> Top(t).pc \in {"invoke", "release"}
         /\ Consuming(o) <=> Top(t).pc = "invoke" /\ ~Top(t).slot
<1>1. PICK top : top = Innermost(t)  OBVIOUS
<1>2. top \in Places /\ FrameAt(top) = Top(t) /\ Top(t) \in FrameType  BY <1>1, TopPlace DEF OwnedInv
<1>3. o \in Owners /\ top \in Of(o) /\ Inside(top)  BY <1>2 DEF FrameType, Of, Inside
<1>4. OwnerInv(o) /\ active[o] \in BOOLEAN  BY <1>3 DEF OwnedInv, OTypeOK
<1>5. SlotOk(Top(t)) /\ SafeAt(o)  BY <1>2, <1>3, <1>4 DEF OwnerInv
<1>6. /\ Referenced(o) <=> FrameAt(top).pc \in {"invoke", "release"}
      /\ Consuming(o) <=> FrameAt(top).pc = "invoke" /\ ~FrameAt(top).slot
  BY <1>3, <1>4, OneInside
<1> QED  BY <1>2, <1>3, <1>5, <1>6 DEF OwnedInv

LEMMA AddRefOwned ==
  ASSUME OwnedInv, NEW t \in Threads, AddRef(t)
  PROVE  OwnedInv'
<1>1. PICK o : o = Top(t).owner  OBVIOUS
<1>2. ~Idle(t) /\ Top(t).pc = "addref"  BY DEF AddRef, At
<1>3. /\ OTypeOK /\ Top(t) \in FrameType /\ o \in Owners /\ SlotOk(Top(t)) /\ SafeAt(o)
      /\ ~Referenced(o) /\ ~Consuming(o)
  BY <1>1, <1>2, TopFacts
<1>4. gate' = gate /\ active' = active /\ native' = native  BY DEF AddRef
<1>5. CASE safe[o].closed
  <2>1. PICK g : g = [Top(t) EXCEPT !.pc = "leave"]  OBVIOUS
  <2>2. Goto(t, g) /\ safe' = safe  BY <1>1, <1>5, <2>1 DEF AddRef
  <2>3. /\ g \in FrameType /\ g.owner = o /\ g.pc = "leave" /\ g.slot = Top(t).slot /\ g.op = Top(t).op
    BY <1>1, <1>3, <2>1 DEF FrameType
  <2>4. OTypeOK'  BY <1>2, <1>3, <1>4, <2>2, <2>3, GotoPlaces DEF OTypeOK
  <2>5. SlotOk(g)'  BY <1>1, <1>3, <1>4, <2>2, <2>3 DEF SlotOk
  <2>6. /\ safe'[o].refs = (IF safe'[o].disposed THEN 0 ELSE 1) + 0
        /\ safe'[o].closed => native'[o] # "live"
        /\ ~safe'[o].closed => native'[o] = "live"
        /\ native'[o] = "live" => ~safe'[o].disposed
    BY <1>3, <1>4, <2>2 DEF SafeAt
  <2> QED  BY <1>1, <1>2, <1>4, <2>2, <2>3, <2>4, <2>5, <2>6, InsideGoesOn
<1>6. CASE ~safe[o].closed
  <2>1. PICK g : g = [Top(t) EXCEPT !.pc = "invoke", !.acquired = TRUE]  OBVIOUS
  <2>2. Goto(t, g) /\ safe' = [safe EXCEPT ![o].refs = @ + 1]  BY <1>1, <1>6, <2>1 DEF AddRef
  <2>3. /\ g \in FrameType /\ g.owner = o /\ g.pc = "invoke" /\ g.slot = Top(t).slot /\ g.op = Top(t).op
    BY <1>1, <1>3, <2>1 DEF FrameType
  <2>4. /\ safe' \in [Owners -> [refs : Int, closed : BOOLEAN, disposed : BOOLEAN]]
        /\ safe'[o].refs = safe[o].refs + 1 /\ safe'[o].closed = safe[o].closed /\ safe'[o].disposed = safe[o].disposed
        /\ \A x \in Owners : x # o => safe'[x] = safe[x]
    <3>1. safe[o] \in [refs : Int, closed : BOOLEAN, disposed : BOOLEAN]  BY <1>3 DEF OTypeOK
    <3>2. PICK s : s = [safe[o] EXCEPT !.refs = @ + 1]  OBVIOUS
    <3>3. /\ s \in [refs : Int, closed : BOOLEAN, disposed : BOOLEAN]
          /\ s.refs = safe[o].refs + 1 /\ s.closed = safe[o].closed /\ s.disposed = safe[o].disposed
      BY <3>1, <3>2
    <3>4. safe' = [safe EXCEPT ![o] = s]  BY <2>2, <3>2
    <3> QED  BY <1>3, <3>3, <3>4 DEF OTypeOK
  <2>5. OTypeOK'  BY <1>2, <1>3, <1>4, <2>2, <2>3, <2>4, GotoPlaces DEF OTypeOK
  <2>6. SlotOk(g)'  BY <1>1, <1>2, <1>3, <1>4, <1>6, <2>3, <2>4 DEF SlotOk
  <2>7. /\ safe'[o].refs = (IF safe'[o].disposed THEN 0 ELSE 1) + 1
        /\ safe'[o].closed => native'[o] # "live"
        /\ ~safe'[o].closed => native'[o] = "live"
    BY <1>3, <1>4, <2>4 DEF SafeAt, OTypeOK
  <2> QED  BY <1>1, <1>2, <1>4, <2>2, <2>3, <2>4, <2>5, <2>6, <2>7, InsideGoesOn
<1> QED  BY <1>5, <1>6

LEMMA ConsumeOwned ==
  ASSUME OwnedInv, NEW t \in Threads, NEW receiver \in Owners, Consume(t, receiver)
  PROVE  OwnedInv'
<1>1. PICK o : o = Top(t).owner  OBVIOUS
<1>2. ~Idle(t) /\ Top(t).pc = "invoke" /\ Top(t).slot /\ Top(t).op = "transfer"  BY DEF Consume, At
<1>3. /\ OTypeOK /\ Top(t) \in FrameType /\ o \in Owners /\ SlotOk(Top(t)) /\ SafeAt(o)
      /\ Referenced(o) /\ ~Consuming(o)
  BY <1>1, <1>2, TopFacts
<1>4. gate' = gate /\ active' = active /\ safe' = safe  BY DEF Consume
<1>5. PICK g : g = [Top(t) EXCEPT !.slot = FALSE]  OBVIOUS
<1>6. Goto(t, g)  BY <1>5 DEF Consume
<1>7. /\ g \in FrameType /\ g.owner = o /\ g.pc = "invoke" /\ g.slot = FALSE /\ g.op = "transfer"
  BY <1>1, <1>2, <1>3, <1>5 DEF FrameType
<1>8. ~safe[o].closed /\ native[o] = "live"  BY <1>1, <1>2, <1>3 DEF SlotOk, SafeAt
<1>9. native' = [native EXCEPT ![o] = "consumed"]  BY <1>1, <1>8 DEF Consume
<1>10. native' \in [Owners -> {"live", "deleted", "consumed"}] /\ native'[o] = "consumed" /\ \A x \in Owners : x # o => native'[x] = native[x]
  BY <1>3, <1>9 DEF OTypeOK
<1>11. OTypeOK'  BY <1>2, <1>3, <1>4, <1>6, <1>7, <1>10, GotoPlaces DEF OTypeOK
<1>12. SlotOk(g)'  BY <1>4, <1>7, <1>8, <1>10 DEF SlotOk
<1>13. safe'[o].refs = (IF safe'[o].disposed THEN 0 ELSE 1) + 1  BY <1>3, <1>4 DEF SafeAt
<1> QED  BY <1>1, <1>2, <1>4, <1>6, <1>7, <1>8, <1>10, <1>11, <1>12, <1>13, InsideGoesOn

LEMMA InvokedOwned ==
  ASSUME OwnedInv, NEW t \in Threads, Invoked(t)
  PROVE  OwnedInv'
<1>1. PICK o : o = Top(t).owner  OBVIOUS
<1>2. ~Idle(t) /\ Top(t).pc = "invoke"  BY DEF Invoked, At
<1>3. /\ OTypeOK /\ Top(t) \in FrameType /\ o \in Owners /\ SlotOk(Top(t)) /\ SafeAt(o)
      /\ Referenced(o) /\ (Consuming(o) <=> ~Top(t).slot)
  BY <1>1, <1>2, TopFacts
<1>4. gate' = gate /\ active' = active /\ native' = native  BY DEF Invoked
<1>5. PICK g : g = [Top(t) EXCEPT !.pc = "release"]  OBVIOUS
<1>6. Goto(t, g)  BY <1>5 DEF Invoked
<1>7. /\ g \in FrameType /\ g.owner = o /\ g.pc = "release" /\ g.slot = Top(t).slot /\ g.op = Top(t).op
  BY <1>1, <1>2, <1>3, <1>5 DEF FrameType
<1>8. /\ safe' \in [Owners -> [refs : Int, closed : BOOLEAN, disposed : BOOLEAN]]
      /\ safe'[o].refs = safe[o].refs /\ safe'[o].disposed = safe[o].disposed
      /\ safe'[o].closed <=> ~g.slot
      /\ \A x \in Owners : x # o => safe'[x] = safe[x]
  <2>1. safe[o] \in [refs : Int, closed : BOOLEAN, disposed : BOOLEAN] /\ ~safe[o].closed
    BY <1>1, <1>2, <1>3 DEF OTypeOK, SlotOk
  <2>2. CASE Top(t).slot
    <3>1. safe' = safe  BY <2>2 DEF Invoked
    <3> QED  BY <1>3, <1>7, <2>1, <2>2, <3>1 DEF OTypeOK
  <2>3. CASE ~Top(t).slot
    <3>1. Top(t).op = "transfer"  BY <1>3, <2>3 DEF SlotOk
    <3>2. PICK s : s = [safe[o] EXCEPT !.closed = TRUE]  OBVIOUS
    <3>3. safe' = [safe EXCEPT ![o] = s]  BY <1>1, <2>3, <3>1, <3>2 DEF Invoked
    <3>4. /\ s \in [refs : Int, closed : BOOLEAN, disposed : BOOLEAN]
          /\ s.refs = safe[o].refs /\ s.closed = TRUE /\ s.disposed = safe[o].disposed
      BY <2>1, <3>2
    <3> QED  BY <1>3, <1>7, <2>3, <3>3, <3>4 DEF OTypeOK
  <2> QED  BY <2>2, <2>3
<1>9. OTypeOK'  BY <1>2, <1>3, <1>4, <1>6, <1>7, <1>8, GotoPlaces DEF OTypeOK
<1>10. SlotOk(g)'  BY <1>1, <1>3, <1>4, <1>7, <1>8 DEF SlotOk
<1>11. /\ safe'[o].refs = (IF safe'[o].disposed THEN 0 ELSE 1) + 1
       /\ safe'[o].closed => native'[o] # "live"
       /\ ~safe'[o].closed => native'[o] = "live"
  <2>1. safe[o].refs = (IF safe[o].disposed THEN 0 ELSE 1) + 1  BY <1>3 DEF SafeAt
  <2>2. ~safe[o].closed  BY <1>1, <1>2, <1>3 DEF SlotOk
  <2>3. ~g.slot => native[o] = "consumed"  BY <1>1, <1>3, <1>7 DEF SlotOk
  <2>4. g.slot => native[o] = "live"  BY <1>3, <1>7, <2>2 DEF SafeAt
  <2> QED  BY <1>4, <1>8, <2>1, <2>3, <2>4
<1> QED  BY <1>1, <1>2, <1>4, <1>6, <1>7, <1>8, <1>9, <1>10, <1>11, InsideGoesOn

\* Giving a reference back: the last one destroys the object, once.
LEMMA ReleaseRefGives ==
  ASSUME OTypeOK, NEW o \in Owners, NEW s \in [refs : Int, closed : BOOLEAN, disposed : BOOLEAN], ReleaseRef(o, s),
         s.refs = 1 /\ ~s.closed => native[o] = "live"
  PROVE  /\ safe' \in [Owners -> [refs : Int, closed : BOOLEAN, disposed : BOOLEAN]]
         /\ native' \in [Owners -> {"live", "deleted", "consumed"}]
         /\ \A x \in Owners : x # o => safe'[x] = safe[x] /\ native'[x] = native[x]
         /\ safe'[o].refs = s.refs - 1 /\ safe'[o].disposed = s.disposed
         /\ safe'[o].closed <=> s.closed \/ s.refs = 1
         /\ native'[o] = IF s.refs = 1 /\ ~s.closed THEN "deleted" ELSE native[o]
<1>0. PICK c : c = (s.closed \/ (s.refs = 1 /\ ~s.closed))  OBVIOUS
<1>1. PICK r : r = [s EXCEPT !.refs = @ - 1, !.closed = c]  OBVIOUS
<1>2. /\ r \in [refs : Int, closed : BOOLEAN, disposed : BOOLEAN] /\ r.refs = s.refs - 1 /\ r.disposed = s.disposed
      /\ r.closed <=> s.closed \/ s.refs = 1
  <2>1. c \in BOOLEAN  BY <1>0, Zenon
  <2>2. r \in [refs : Int, closed : BOOLEAN, disposed : BOOLEAN] /\ r.refs = s.refs - 1 /\ r.disposed = s.disposed /\ r.closed = c
    <3>1. PICK k \in Int : k = s.refs - 1  OBVIOUS
    <3>2. r = [s EXCEPT !.refs = k, !.closed = c]  BY <1>1, <3>1
    <3>3. r = [refs |-> k, closed |-> c, disposed |-> s.disposed]  BY <3>2
    <3> QED  BY <2>1, <3>1, <3>3
  <2> QED  BY <1>0, <2>2
<1>3. safe' = [safe EXCEPT ![o] = r]  BY <1>0, <1>1 DEF ReleaseRef
<1>4. native' = IF s.refs = 1 /\ ~s.closed THEN [native EXCEPT ![o] = "deleted"] ELSE native  BY DEF ReleaseRef
<1>5. /\ safe' \in [Owners -> [refs : Int, closed : BOOLEAN, disposed : BOOLEAN]] /\ safe'[o] = r
      /\ \A x \in Owners : x # o => safe'[x] = safe[x]
  BY <1>2, <1>3 DEF OTypeOK
<1>6. /\ native' \in [Owners -> {"live", "deleted", "consumed"}]
      /\ \A x \in Owners : x # o => native'[x] = native[x]
      /\ native'[o] = IF s.refs = 1 /\ ~s.closed THEN "deleted" ELSE native[o]
  BY <1>4 DEF OTypeOK
<1> QED  BY <1>2, <1>5, <1>6

LEMMA ReleaseOwned ==
  ASSUME OwnedInv, NEW t \in Threads, Release(t)
  PROVE  OwnedInv'
<1>1. PICK o : o = Top(t).owner  OBVIOUS
<1>2. ~Idle(t) /\ Top(t).pc = "release"  BY DEF Release, At
<1>3. /\ OTypeOK /\ Top(t) \in FrameType /\ o \in Owners /\ SlotOk(Top(t)) /\ SafeAt(o)
      /\ Referenced(o) /\ ~Consuming(o)
  BY <1>1, <1>2, TopFacts
<1>4. gate' = gate /\ active' = active  BY DEF Release
<1>5. PICK g : g = [Top(t) EXCEPT !.pc = "leave"]  OBVIOUS
<1>6. Goto(t, g)  BY <1>5 DEF Release
<1>7. /\ g \in FrameType /\ g.owner = o /\ g.pc = "leave" /\ g.slot = Top(t).slot /\ g.op = Top(t).op
  BY <1>1, <1>2, <1>3, <1>5 DEF FrameType
<1>8. PICK s : s = safe[o]  OBVIOUS
<1>9. s \in [refs : Int, closed : BOOLEAN, disposed : BOOLEAN] /\ s.refs = (IF s.disposed THEN 0 ELSE 1) + 1
  BY <1>3, <1>8 DEF OTypeOK, SafeAt
<1>10. /\ s.closed => native[o] # "live"
       /\ ~s.closed => native[o] = "live"
       /\ s.closed <=> ~Top(t).slot
  BY <1>1, <1>2, <1>3, <1>8 DEF SafeAt, SlotOk
<1>11. /\ safe' \in [Owners -> [refs : Int, closed : BOOLEAN, disposed : BOOLEAN]]
       /\ native' \in [Owners -> {"live", "deleted", "consumed"}]
       /\ \A x \in Owners : x # o => safe'[x] = safe[x] /\ native'[x] = native[x]
       /\ safe'[o].refs = s.refs - 1 /\ safe'[o].disposed = s.disposed
       /\ safe'[o].closed <=> s.closed \/ s.refs = 1
       /\ native'[o] = IF s.refs = 1 /\ ~s.closed THEN "deleted" ELSE native[o]
  BY <1>1, <1>3, <1>8, <1>9, <1>10, ReleaseRefGives DEF Release
<1>12. OTypeOK'  BY <1>2, <1>3, <1>4, <1>6, <1>7, <1>11, GotoPlaces DEF OTypeOK
<1>13. SlotOk(g)'
  <2>1. ~g.slot => g.op = "transfer" /\ native[o] = "consumed" /\ s.closed  BY <1>1, <1>3, <1>7, <1>10 DEF SlotOk
  <2> QED  BY <1>7, <1>11, <2>1 DEF SlotOk
<1>14. /\ safe'[o].refs = (IF safe'[o].disposed THEN 0 ELSE 1) + 0
       /\ safe'[o].closed => native'[o] # "live"
       /\ ~safe'[o].closed => native'[o] = "live"
       /\ native'[o] = "live" => ~safe'[o].disposed
  BY <1>9, <1>10, <1>11
<1> QED  BY <1>1, <1>2, <1>4, <1>6, <1>7, <1>11, <1>12, <1>13, <1>14, InsideGoesOn

LEMMA DisposeOwned ==
  ASSUME OwnedInv, NEW t \in Threads, NEW o \in Owners, Dispose(t, o)
  PROVE  OwnedInv'
<1>1. OTypeOK /\ OwnerInv(o) /\ SafeAt(o)  BY DEF OwnedInv, OwnerInv
<1>2. gate' = gate /\ active' = active /\ stack' = stack  BY DEF Dispose
<1>3. PICK s : s = [safe[o] EXCEPT !.disposed = TRUE]  OBVIOUS
<1>4. /\ s \in [refs : Int, closed : BOOLEAN, disposed : BOOLEAN] /\ s.disposed /\ ~safe[o].disposed
      /\ s.refs = safe[o].refs /\ s.closed = safe[o].closed
  BY <1>1, <1>3 DEF Dispose, OTypeOK
<1>5. s.refs = 1 + (IF Referenced(o) THEN 1 ELSE 0)  BY <1>1, <1>4 DEF SafeAt
<1>6. Consuming(o) => Referenced(o)  BY DEF Consuming, Referenced, Holding
<1>7. s.refs = 1 <=> ~Referenced(o)  BY <1>5
<1>8. s.refs = 1 /\ ~s.closed => native[o] = "live"  BY <1>1, <1>4, <1>6, <1>7 DEF SafeAt
<1>9. /\ safe' \in [Owners -> [refs : Int, closed : BOOLEAN, disposed : BOOLEAN]]
      /\ native' \in [Owners -> {"live", "deleted", "consumed"}]
      /\ \A x \in Owners : x # o => safe'[x] = safe[x] /\ native'[x] = native[x]
      /\ safe'[o].refs = s.refs - 1 /\ safe'[o].disposed = s.disposed
      /\ safe'[o].closed <=> s.closed \/ s.refs = 1
      /\ native'[o] = IF s.refs = 1 /\ ~s.closed THEN "deleted" ELSE native[o]
  <2>1. ReleaseRef(o, s)  BY <1>3 DEF Dispose
  <2> QED  BY <2>1, <1>1, <1>4, <1>8, ReleaseRefGives
<1>10. OTypeOK'  BY <1>1, <1>2, <1>9 DEF OTypeOK
<1>11. /\ Places' = Places /\ \A p : FrameAt(p)' = FrameAt(p) /\ Inside(p)' = Inside(p) /\ Holding(p)' = Holding(p)
  BY <1>2 DEF Places, FrameAt, Inside, Holding
<1>12. \A x : Of(x)' = Of(x)  BY <1>11 DEF Of
<1>13. Nested' /\ \A x \in Owners : GateAt(x)'
  <2>1. Nested'  BY <1>2, <1>11 DEF OwnedInv, Nested
  <2>2. \A x \in Owners : GateAt(x)'  BY <1>2, <1>12 DEF OwnedInv, GateAt
  <2> QED  BY <2>1, <2>2
<1>14. ASSUME NEW x \in Owners, x # o PROVE OwnerInv(x)'
  BY <1>2, <1>9, <1>11, <1>12, <1>14, Elsewhere DEF OwnedInv
<1>15. ActiveAt(o)'  BY <1>1, <1>2, <1>11, <1>12 DEF OwnerInv, ActiveAt
<1>16. (Referenced(o)' <=> Referenced(o)) /\ (Consuming(o)' <=> Consuming(o))
  BY <1>11, <1>12 DEF Referenced, Consuming
<1>17. SafeAt(o)'
  <2>1. safe'[o].refs = (IF safe'[o].disposed THEN 0 ELSE 1) + (IF Referenced(o)' THEN 1 ELSE 0)
    BY <1>4, <1>5, <1>9, <1>16
  <2>2. safe'[o].closed => native'[o] # "live"  BY <1>1, <1>4, <1>9 DEF SafeAt
  <2>3. ~safe'[o].closed => native'[o] = "live" \/ Consuming(o)'  BY <1>1, <1>4, <1>9, <1>16 DEF SafeAt
  <2>4. native'[o] = "live" => ~safe'[o].disposed \/ Referenced(o)'  BY <1>1, <1>4, <1>7, <1>9, <1>16 DEF SafeAt
  <2> QED  BY <2>1, <2>2, <2>3, <2>4 DEF SafeAt
<1>18. ASSUME NEW p \in Of(o) PROVE SlotOk(FrameAt(p))'
  <2>1. SlotOk(FrameAt(p)) /\ FrameAt(p).owner = o  BY <1>1 DEF OwnerInv, Of
  <2>2. FrameAt(p).pc \in {"invoke", "release"} => Referenced(o)  BY DEF Referenced, Holding
  <2>3. FrameAt(p).pc \in {"invoke", "release"} => (safe'[o].closed <=> safe[o].closed)
    BY <1>4, <1>7, <1>9, <2>2
  <2>4. ~FrameAt(p).slot => native'[o] = native[o]  BY <1>8, <1>9, <2>1 DEF SlotOk
  <2> QED  BY <1>11, <2>1, <2>3, <2>4 DEF SlotOk
<1>19. OwnerInv(o)'  BY <1>12, <1>15, <1>17, <1>18 DEF OwnerInv
<1> QED  BY <1>10, <1>13, <1>14, <1>19 DEF OwnedInv
-----------------------------------------------------------------------------
(* Entering and leaving the gate.                                           *)

\* A helper that only holds the gate says nothing of the owner.
LEMMA LockedAside ==
  ASSUME NEW x \in Owners, OwnerInv(x), NEW top, Of(x)' \ {top} = Of(x) \ {top},
         \A p \in Of(x) : p # top => FrameAt(p)' = FrameAt(p),
         top \in Of(x) => FrameAt(top).pc = "locked",
         top \in Of(x)' => FrameAt(top)'.pc = "locked" /\ FrameAt(top)'.slot,
         active'[x] = active[x], safe'[x] = safe[x], native'[x] = native[x]
  PROVE  OwnerInv(x)'
<1>1. \A p \in Of(x) : p # top => p \in Of(x)' /\ (Inside(p)' <=> Inside(p)) /\ (Holding(p)' <=> Holding(p))
  BY DEF Inside, Holding
<1>2. \A p \in Of(x)' : p # top => p \in Of(x)  OBVIOUS
<1>3. top \in Of(x) => ~Inside(top) /\ ~Holding(top)  BY DEF Inside, Holding
<1>4. top \in Of(x)' => ~Inside(top)' /\ ~Holding(top)'  BY DEF Inside, Holding
<1>5. ActiveAt(x)'  BY <1>1, <1>2, <1>3, <1>4 DEF OwnerInv, ActiveAt
<1>6. Referenced(x)' <=> Referenced(x)  BY <1>1, <1>2, <1>3, <1>4 DEF Referenced
<1>7. Consuming(x)' <=> Consuming(x)  BY <1>1, <1>2 DEF Consuming
<1>8. SafeAt(x)'  BY <1>6, <1>7 DEF OwnerInv, SafeAt
<1>9. ASSUME NEW p \in Of(x)' PROVE SlotOk(FrameAt(p))'
  <2>1. CASE p = top  BY <2>1 DEF SlotOk
  <2>2. CASE p # top
    <3>1. p \in Of(x) /\ FrameAt(p)' = FrameAt(p) /\ FrameAt(p).owner = x  BY <1>2, <2>2 DEF Of
    <3> QED  BY <3>1 DEF OwnerInv, SlotOk
  <2> QED  BY <2>1, <2>2
<1> QED  BY <1>5, <1>8, <1>9 DEF OwnerInv

\* Leaving the innermost helper gives the gate back once.
LEMMA PopGate ==
  ASSUME OwnedInv, NEW t \in Threads, ~Idle(t), NEW o, o = Top(t).owner, Unlock(o), Pop(t), NEW top, top = Innermost(t)
  PROVE  /\ Nested' /\ \A x \in Owners : GateAt(x)'
         /\ gate' \in [Owners -> [by : SUBSET Threads, depth : Nat]]
         /\ stack' \in [Threads -> Seq(FrameType)]
         /\ o \in Owners /\ top \in Of(o) /\ FrameAt(top) = Top(t) /\ Top(t) \in FrameType
         /\ Of(o)' = Of(o) \ {top} /\ \A p \in Of(o)' : FrameAt(p)' = FrameAt(p)
         /\ \A x \in Owners : x # o => Of(x)' = Of(x) /\ \A p \in Of(x) : FrameAt(p)' = FrameAt(p)
<1>1. /\ stack' \in [Threads -> Seq(FrameType)] /\ Places' = Places \ {top}
      /\ \A p \in Places' : FrameAt(p)' = FrameAt(p)
      /\ Len(stack'[t]) = Len(stack[t]) - 1
      /\ \A u \in Threads : u # t => Len(stack'[u]) = Len(stack[u])
  BY PopPlaces DEF OwnedInv
<1>2. /\ top \in Places /\ FrameAt(top) = Top(t) /\ Top(t) \in FrameType /\ top[1] = t
      /\ Len(stack[t]) \in Nat
  BY TopPlace DEF OwnedInv, Innermost
<1>3. o \in Owners /\ top \in Of(o)  BY <1>2 DEF Of, FrameType
<1>4. Of(o)' = Of(o) \ {top} /\ \A p \in Of(o)' : FrameAt(p)' = FrameAt(p)  BY <1>1 DEF Of
<1>5. ASSUME NEW x \in Owners, x # o PROVE Of(x)' = Of(x) /\ \A p \in Of(x) : FrameAt(p)' = FrameAt(p)
  BY <1>1, <1>2, <1>5 DEF Of
<1>6. Nested'
  <2>1. ASSUME NEW p \in Places', p[2] < Len(stack'[p[1]]) PROVE FrameAt(p)'.pc = "invoke"
    <3>1. p \in Places /\ p[1] \in Threads /\ p[2] \in Nat  BY <1>1 DEF Places
    <3>2. p[2] < Len(stack[p[1]])
      <4>1. CASE p[1] = t  BY <1>1, <1>2, <2>1, <3>1, <4>1
      <4>2. CASE p[1] # t  BY <1>1, <2>1, <3>1, <4>2
      <4> QED  BY <4>1, <4>2
    <3> QED  BY <1>1, <3>1, <3>2 DEF OwnedInv, Nested
  <2> QED  BY <2>1 DEF Nested
<1>7. GateAt(o) /\ gate[o] \in [by : SUBSET Threads, depth : Nat]  BY <1>3 DEF OwnedInv, OTypeOK
<1>8. PICK n \in Nat : n = Cardinality(Of(o))  BY <1>7, FS_CardinalityType DEF GateAt
<1>9. IsFiniteSet(Of(o)') /\ Cardinality(Of(o)') = n - 1
  BY <1>3, <1>4, <1>7, <1>8, FS_RemoveElement DEF GateAt
<1>10. n - 1 \in Nat /\ (n = 1 <=> Of(o)' = {})
  <2>1. n - 1 \in Nat  BY <1>9, FS_CardinalityType
  <2>2. Cardinality(Of(o)') = 0 <=> Of(o)' = {}  BY <1>9, FS_EmptySet
  <2> QED  BY <1>9, <2>1, <2>2
<1>11. gate[o].depth = n /\ gate[o].by = {t} /\ \A p \in Of(o) : p[1] = t
  BY <1>2, <1>3, <1>7, <1>8 DEF GateAt
<1>12. PICK g : g = [by |-> IF gate[o].depth = 1 THEN {} ELSE gate[o].by, depth |-> gate[o].depth - 1]  OBVIOUS
<1>13. gate' = [gate EXCEPT ![o] = g]  BY <1>12 DEF Unlock
<1>14. g \in [by : SUBSET Threads, depth : Nat] /\ g.depth = n - 1 /\ g.by = IF n = 1 THEN {} ELSE {t}
  <2>1. CASE n = 1  BY <1>11, <1>12, <2>1
  <2>2. CASE n # 1  BY <1>7, <1>10, <1>11, <1>12, <2>2
  <2> QED  BY <2>1, <2>2
<1>15. /\ gate' \in [Owners -> [by : SUBSET Threads, depth : Nat]] /\ gate'[o] = g
       /\ \A x \in Owners : x # o => gate'[x] = gate[x]
  BY <1>3, <1>13, <1>14 DEF OwnedInv, OTypeOK
<1>16. g.by = {p[1] : p \in Of(o)'}
  <2>1. \A p \in Of(o)' : p[1] = t  BY <1>4, <1>11
  <2> QED  BY <1>10, <1>14, <2>1
<1>17. GateAt(o)'
  <2>1. \A p, q \in Of(o)' : p[1] = q[1]  BY <1>4, <1>11
  <2> QED  BY <1>9, <1>14, <1>15, <1>16, <2>1 DEF GateAt
<1>18. ASSUME NEW x \in Owners, x # o PROVE GateAt(x)'
  BY <1>5, <1>15, <1>18 DEF OwnedInv, GateAt
<1> QED  BY <1>1, <1>2, <1>3, <1>4, <1>5, <1>6, <1>15, <1>17, <1>18

LEMMA EnterOwned ==
  ASSUME OwnedInv, NEW t \in Threads, Enter(t)
  PROVE  OwnedInv'
<1>1. PICK o : o = Top(t).owner  OBVIOUS
<1>2. ~Idle(t) /\ Top(t).pc = "locked" /\ safe' = safe /\ native' = native  BY DEF Enter, At
<1>3. PICK top : top = Innermost(t)  OBVIOUS
<1>4. CASE active[o]
  <2>1. Unlock(o) /\ Pop(t) /\ active' = active  BY <1>1, <1>4 DEF Enter
  <2>2. /\ Nested' /\ \A x \in Owners : GateAt(x)'
        /\ gate' \in [Owners -> [by : SUBSET Threads, depth : Nat]]
        /\ stack' \in [Threads -> Seq(FrameType)]
        /\ o \in Owners /\ top \in Of(o) /\ FrameAt(top) = Top(t)
        /\ Of(o)' = Of(o) \ {top} /\ \A p \in Of(o)' : FrameAt(p)' = FrameAt(p)
        /\ \A x \in Owners : x # o => Of(x)' = Of(x) /\ \A p \in Of(x) : FrameAt(p)' = FrameAt(p)
    BY <1>1, <1>2, <1>3, <2>1, PopGate
  <2>3. ASSUME NEW x \in Owners, x # o PROVE OwnerInv(x)'
    BY <1>2, <2>1, <2>2, <2>3, Elsewhere DEF OwnedInv
  <2>4. OwnerInv(o)'
    <3>1. /\ OwnerInv(o) /\ Of(o)' \ {top} = Of(o) \ {top} /\ top \notin Of(o)'
          /\ \A p \in Of(o) : p # top => FrameAt(p)' = FrameAt(p)
      BY <2>2 DEF OwnedInv
    <3> QED  BY <1>2, <2>1, <2>2, <3>1, LockedAside
  <2>5. OTypeOK'  BY <1>2, <2>1, <2>2 DEF OwnedInv, OTypeOK
  <2> QED  BY <2>2, <2>3, <2>4, <2>5 DEF OwnedInv
<1>5. CASE ~active[o]
  <2>1. PICK g : g = [Top(t) EXCEPT !.pc = "addref"]  OBVIOUS
  <2>2. active' = [active EXCEPT ![o] = TRUE] /\ Goto(t, g) /\ gate' = gate  BY <1>1, <1>5, <2>1 DEF Enter
  <2>3. Top(t) \in FrameType  BY <1>2, TopPlace DEF OwnedInv
  <2>4. /\ g \in FrameType /\ g.owner = o /\ g.pc = "addref" /\ g.slot = Top(t).slot /\ o \in Owners
    BY <1>1, <2>1, <2>3 DEF FrameType
  <2>5. /\ Nested' /\ \A x \in Owners : GateAt(x)'
        /\ \A x \in Owners : Of(x)' = Of(x)
        /\ \A x \in Owners : x # o => \A p \in Of(x) : FrameAt(p)' = FrameAt(p)
        /\ top \in Of(o) /\ FrameAt(top) = Top(t) /\ FrameAt(top)' = g
        /\ \A p \in Of(o) : p # top => FrameAt(p)' = FrameAt(p)
        /\ stack' \in [Threads -> Seq(FrameType)]
    BY <1>1, <1>2, <1>3, <2>2, <2>4, GotoGate
  <2>6. /\ active' \in [Owners -> BOOLEAN] /\ active'[o] = TRUE /\ \A x \in Owners : x # o => active'[x] = active[x]
    BY <2>2, <2>4 DEF OwnedInv, OTypeOK
  <2>7. ASSUME NEW x \in Owners, x # o PROVE OwnerInv(x)'
    BY <1>2, <2>5, <2>6, <2>7, Elsewhere DEF OwnedInv
  <2>8. OwnerInv(o)  BY <2>4 DEF OwnedInv
  <2>9. \A p \in Of(o) : FrameAt(p).pc = "locked" /\ FrameAt(p).slot
    BY <1>5, <2>8 DEF OwnerInv, ActiveAt, Inside, SlotOk
  <2>10. \A p \in Of(o)' : (p # top => FrameAt(p)'.pc = "locked") /\ FrameAt(p)'.slot /\ FrameAt(p)'.pc \in {"locked", "addref"}
    BY <2>4, <2>5, <2>9
  <2>11. ActiveAt(o)'  BY <2>4, <2>5, <2>6, <2>10 DEF ActiveAt, Inside
  <2>12. ~Referenced(o) /\ ~Referenced(o)' /\ ~Consuming(o) /\ ~Consuming(o)'
    BY <2>9, <2>10 DEF Referenced, Consuming, Holding
  <2>13. SafeAt(o)'  BY <1>2, <2>8, <2>12 DEF OwnerInv, SafeAt
  <2>14. OwnerInv(o)'  BY <2>10, <2>11, <2>13 DEF OwnerInv, SlotOk
  <2>15. OTypeOK'  BY <1>2, <2>2, <2>5, <2>6 DEF OwnedInv, OTypeOK
  <2> QED  BY <2>5, <2>7, <2>14, <2>15 DEF OwnedInv
<1> QED  BY <1>4, <1>5

LEMMA LeaveOwned ==
  ASSUME OwnedInv, NEW t \in Threads, Leave(t)
  PROVE  OwnedInv'
<1>1. PICK o : o = Top(t).owner  OBVIOUS
<1>2. /\ ~Idle(t) /\ Top(t).pc = "leave" /\ safe' = safe /\ native' = native
      /\ active' = [active EXCEPT ![o] = FALSE] /\ Unlock(o) /\ Pop(t)
  BY <1>1 DEF Leave, At
<1>3. PICK top : top = Innermost(t)  OBVIOUS
<1>4. /\ Nested' /\ \A x \in Owners : GateAt(x)'
      /\ gate' \in [Owners -> [by : SUBSET Threads, depth : Nat]]
      /\ stack' \in [Threads -> Seq(FrameType)]
      /\ o \in Owners /\ top \in Of(o) /\ FrameAt(top) = Top(t)
      /\ Of(o)' = Of(o) \ {top} /\ \A p \in Of(o)' : FrameAt(p)' = FrameAt(p)
      /\ \A x \in Owners : x # o => Of(x)' = Of(x) /\ \A p \in Of(x) : FrameAt(p)' = FrameAt(p)
  BY <1>1, <1>2, <1>3, PopGate
<1>5. /\ active' \in [Owners -> BOOLEAN] /\ active'[o] = FALSE /\ \A x \in Owners : x # o => active'[x] = active[x]
  BY <1>2, <1>4 DEF OwnedInv, OTypeOK
<1>6. ASSUME NEW x \in Owners, x # o PROVE OwnerInv(x)'
  BY <1>2, <1>4, <1>5, <1>6, Elsewhere DEF OwnedInv
<1>7. OwnerInv(o) /\ active[o] \in BOOLEAN /\ Inside(top)  BY <1>2, <1>4 DEF OwnedInv, OTypeOK, Inside
<1>8. /\ \A p \in Of(o) : p # top => FrameAt(p).pc = "locked" /\ FrameAt(p).slot
      /\ ~Referenced(o) /\ ~Consuming(o)
  BY <1>2, <1>4, <1>7, OneInside
<1>9. \A p \in Of(o)' : FrameAt(p)'.pc = "locked" /\ FrameAt(p)'.slot  BY <1>4, <1>8
<1>10. ActiveAt(o)'  BY <1>5, <1>9 DEF ActiveAt, Inside
<1>11. ~Referenced(o)' /\ ~Consuming(o)'  BY <1>9 DEF Referenced, Consuming, Holding
<1>12. SafeAt(o)'  BY <1>2, <1>7, <1>8, <1>11 DEF OwnerInv, SafeAt
<1>13. OwnerInv(o)'  BY <1>9, <1>10, <1>12 DEF OwnerInv, SlotOk
<1>14. OTypeOK'  BY <1>2, <1>4, <1>5 DEF OwnedInv, OTypeOK
<1> QED  BY <1>4, <1>6, <1>13, <1>14 DEF OwnedInv
LEMMA LockOwned ==
  ASSUME OwnedInv, NEW t \in Threads, NEW o \in Owners, NEW op \in {"with", "transfer"}, Lock(t, op, o)
  PROVE  OwnedInv'
<1>1. PICK g : g = [op |-> op, owner |-> o, pc |-> "locked", acquired |-> FALSE, slot |-> TRUE]  OBVIOUS
<1>2. g \in FrameType /\ g.owner = o /\ g.pc = "locked" /\ g.slot = TRUE  BY <1>1 DEF FrameType
<1>3. /\ stack' = [stack EXCEPT ![t] = Append(@, g)] /\ gate[o].by \subseteq {t} /\ InUserCode(t)
      /\ gate' = [gate EXCEPT ![o] = [by |-> {t}, depth |-> @.depth + 1]]
      /\ active' = active /\ safe' = safe /\ native' = native
  BY <1>1 DEF Lock
<1>4. PICK top : top = <<t, Len(stack[t]) + 1>>  OBVIOUS
<1>5. /\ stack' \in [Threads -> Seq(FrameType)] /\ top \notin Places /\ Places' = Places \cup {top}
      /\ FrameAt(top)' = g /\ \A p \in Places : FrameAt(p)' = FrameAt(p)
      /\ Len(stack'[t]) = Len(stack[t]) + 1
      /\ \A u \in Threads : u # t => Len(stack'[u]) = Len(stack[u])
  BY <1>2, <1>3, <1>4, PushPlaces DEF OwnedInv
<1>6. Of(o)' = Of(o) \cup {top} /\ top \notin Of(o) /\ \A p \in Of(o) : FrameAt(p)' = FrameAt(p)
  BY <1>2, <1>5 DEF Of
<1>7. ASSUME NEW x \in Owners, x # o PROVE Of(x)' = Of(x) /\ \A p \in Of(x) : FrameAt(p)' = FrameAt(p)
  BY <1>2, <1>5, <1>7 DEF Of
<1>8. Nested'
  <2>1. ASSUME NEW p \in Places', p[2] < Len(stack'[p[1]]) PROVE FrameAt(p)'.pc = "invoke"
    <3>1. p[1] \in Threads /\ p[2] \in Nat /\ p = <<p[1], p[2]>> /\ \A u \in Threads : Len(stack[u]) \in Nat
      BY DEF Places, OwnedInv, OTypeOK
    <3>2. p # top  BY <1>4, <1>5, <2>1, <3>1
    <3>3. p \in Places  BY <1>5, <3>2
    <3>4. CASE p[1] = t /\ p[2] = Len(stack[t])
      <4>1. ~Idle(t)  BY <3>3, <3>4 DEF Idle, Places
      <4>2. FrameAt(p) = Top(t) /\ Top(t).pc = "invoke"  BY <1>3, <3>4, <4>1 DEF InUserCode, At, FrameAt, Top
      <4> QED  BY <1>5, <3>3, <4>2
    <3>5. CASE ~(p[1] = t /\ p[2] = Len(stack[t]))
      <4>1. p[2] < Len(stack[p[1]])
        <5>1. CASE p[1] = t  BY <1>5, <2>1, <3>1, <3>5, <5>1
        <5>2. CASE p[1] # t  BY <1>5, <2>1, <3>1, <5>2
        <5> QED  BY <5>1, <5>2
      <4> QED  BY <1>5, <3>3, <4>1 DEF OwnedInv, Nested
    <3> QED  BY <3>4, <3>5
  <2> QED  BY <2>1 DEF Nested
<1>9. GateAt(o) /\ gate[o].depth \in Nat  BY DEF OwnedInv, OTypeOK
<1>10. /\ gate' \in [Owners -> [by : SUBSET Threads, depth : Nat]] /\ gate'[o].by = {t} /\ gate'[o].depth = gate[o].depth + 1
       /\ \A x \in Owners : x # o => gate'[x] = gate[x]
  BY <1>3, <1>9 DEF OwnedInv, OTypeOK
<1>11. GateAt(o)'
  <2>1. IsFiniteSet(Of(o)') /\ Cardinality(Of(o)') = gate[o].depth + 1
    BY <1>6, <1>9, FS_AddElement DEF GateAt
  <2>2. \A p \in Of(o)' : p[1] = t
    <3>1. \A p \in Of(o) : p[1] = t  BY <1>3, <1>9 DEF GateAt
    <3> QED  BY <1>4, <1>6, <3>1
  <2>3. {p[1] : p \in Of(o)'} = {t}  BY <1>6, <2>2
  <2> QED  BY <1>10, <2>1, <2>2, <2>3 DEF GateAt
<1>12. ASSUME NEW x \in Owners, x # o PROVE GateAt(x)'
  BY <1>7, <1>10, <1>12 DEF OwnedInv, GateAt
<1>13. ASSUME NEW x \in Owners, x # o PROVE OwnerInv(x)'
  BY <1>3, <1>7, <1>13, Elsewhere DEF OwnedInv
<1>14. OwnerInv(o)'
  <2>1. OwnerInv(o) /\ Of(o)' \ {top} = Of(o) \ {top}  BY <1>6 DEF OwnedInv
  <2> QED  BY <1>2, <1>3, <1>5, <1>6, <2>1, LockedAside
<1>15. OTypeOK'  BY <1>3, <1>5, <1>10 DEF OwnedInv, OTypeOK
<1> QED  BY <1>8, <1>11, <1>12, <1>13, <1>14, <1>15 DEF OwnedInv

-----------------------------------------------------------------------------
LEMMA InitOwned == OInit => OwnedInv
<1> SUFFICES ASSUME OInit PROVE OwnedInv  OBVIOUS
<1>1. OTypeOK
  <2>1. \A t \in Threads : <<>> \in Seq(FrameType)  OBVIOUS
  <2> QED  BY <2>1 DEF OInit, OTypeOK
<1>2. Places = {}
  <2>1. \A t \in Threads : stack[t] = <<>> /\ Len(stack[t]) = 0  BY DEF OInit
  <2> QED  BY <2>1 DEF Places
<1>3. \A o : Of(o) = {}  BY <1>2 DEF Of
<1>4. Nested  BY <1>2 DEF Nested
<1>5. ASSUME NEW o \in Owners PROVE GateAt(o) /\ OwnerInv(o)
  <2>1. /\ gate[o] = [by |-> {}, depth |-> 0] /\ active[o] = FALSE /\ native[o] = "live"
        /\ safe[o] = [refs |-> 1, closed |-> FALSE, disposed |-> FALSE]
    BY DEF OInit
  <2>2. GateAt(o)  BY <1>3, <2>1, FS_EmptySet DEF GateAt
  <2>3. ActiveAt(o)  BY <1>3, <2>1 DEF ActiveAt
  <2>4. SafeAt(o)
    <3>1. ~Referenced(o)  BY <1>3 DEF Referenced
    <3> QED  BY <2>1, <3>1 DEF SafeAt
  <2> QED  BY <1>3, <2>2, <2>3, <2>4 DEF OwnerInv
<1> QED  BY <1>1, <1>4, <1>5 DEF OwnedInv

LEMMA StepOwned == OwnedInv /\ [ONext]_ovars => OwnedInv'
<1> SUFFICES ASSUME OwnedInv, [ONext]_ovars PROVE OwnedInv'  OBVIOUS
<1>1. CASE UNCHANGED ovars
  <2>1. gate' = gate /\ active' = active /\ safe' = safe /\ native' = native /\ stack' = stack  BY <1>1 DEF ovars
  <2>2. Places' = Places /\ \A p : FrameAt(p)' = FrameAt(p)  BY <2>1 DEF Places, FrameAt
  <2>3. \A x : Of(x)' = Of(x)  BY <2>2 DEF Of
  <2>4. \A x \in Owners : OwnerInv(x)'  BY <2>1, <2>2, <2>3, Elsewhere DEF OwnedInv
  <2>5. \A x \in Owners : GateAt(x)'  BY <2>1, <2>3 DEF OwnedInv, GateAt
  <2>6. Nested'  BY <2>1, <2>2 DEF OwnedInv, Nested
  <2>7. OTypeOK'  BY <2>1 DEF OwnedInv, OTypeOK
  <2> QED  BY <2>4, <2>5, <2>6, <2>7 DEF OwnedInv
<1>2. ASSUME NEW t \in Threads, NEW o \in Owners, Dispose(t, o) PROVE OwnedInv'  BY <1>2, DisposeOwned
<1>3. ASSUME NEW t \in Threads, NEW o \in Owners, Consume(t, o) PROVE OwnedInv'  BY <1>3, ConsumeOwned
<1>4. ASSUME NEW t \in Threads, NEW o \in Owners, NEW op \in {"with", "transfer"}, Lock(t, op, o) PROVE OwnedInv'
  BY <1>4, LockOwned
<1>5. ASSUME NEW t \in Threads, Enter(t) PROVE OwnedInv'  BY <1>5, EnterOwned
<1>6. ASSUME NEW t \in Threads, AddRef(t) PROVE OwnedInv'  BY <1>6, AddRefOwned
<1>7. ASSUME NEW t \in Threads, Invoked(t) PROVE OwnedInv'  BY <1>7, InvokedOwned
<1>8. ASSUME NEW t \in Threads, Release(t) PROVE OwnedInv'  BY <1>8, ReleaseOwned
<1>9. ASSUME NEW t \in Threads, Leave(t) PROVE OwnedInv'  BY <1>9, LeaveOwned
<1> QED  BY <1>1, <1>2, <1>3, <1>4, <1>5, <1>6, <1>7, <1>8, <1>9 DEF ONext

LEMMA OwnedImpliesOnce == OwnedInv => OwnedOnce
<1> SUFFICES ASSUME OwnedInv PROVE OwnedOnce  OBVIOUS
<1>1. \A o \in Owners : native[o] # "twice"  BY DEF OwnedInv, OTypeOK
<1>2. ASSUME NEW t \in Threads, NEW k \in DOMAIN stack[t], stack[t][k].pc = "invoke", stack[t][k].slot
      PROVE  native[stack[t][k].owner] = "live"
  <2>1. stack[t] \in Seq(FrameType)  BY DEF OwnedInv, OTypeOK
  <2>2. k \in Nat /\ k \in 1 .. Len(stack[t]) /\ stack[t][k] \in FrameType  BY <2>1
  <2>3. PICK p : p = <<t, k>>  OBVIOUS
  <2>4. PICK f : f = stack[t][k]  OBVIOUS
  <2>5. PICK o \in Owners : o = f.owner  BY <2>2, <2>4 DEF FrameType
  <2>6. p \in Of(o) /\ FrameAt(p) = f  BY <2>2, <2>3, <2>4, <2>5 DEF Places, Of, FrameAt
  <2>7. Inside(p) /\ OwnerInv(o) /\ active[o] \in BOOLEAN  BY <1>2, <2>4, <2>6 DEF Inside, OwnedInv, OTypeOK
  <2>8. ~Consuming(o)  BY <1>2, <2>4, <2>6, <2>7, OneInside
  <2>9. ~safe[o].closed  BY <1>2, <2>4, <2>5, <2>6, <2>7 DEF OwnerInv, SlotOk
  <2> QED  BY <2>4, <2>5, <2>7, <2>8, <2>9 DEF OwnerInv, SafeAt
<1>3. ASSUME \A t \in Threads : Idle(t), NEW o \in Owners
      PROVE  gate[o].depth = 0 /\ ~active[o] /\ (safe[o].disposed => native[o] # "live")
  <2>1. ASSUME NEW t \in Threads PROVE Len(stack[t]) = 0
    <3>1. stack[t] = <<>>  BY <1>3 DEF Idle
    <3> QED  BY <3>1
  <2>2. Of(o) = {}  BY <2>1 DEF Of, Places
  <2>3. GateAt(o) /\ OwnerInv(o)  BY DEF OwnedInv
  <2>4. gate[o].depth = 0  BY <2>2, <2>3, FS_EmptySet DEF GateAt
  <2>5. ~active[o]  BY <2>2, <2>3 DEF OwnerInv, ActiveAt
  <2>6. ~Referenced(o)  BY <2>2 DEF Referenced
  <2>7. safe[o].disposed => native[o] # "live"  BY <2>3, <2>6 DEF OwnerInv, SafeAt
  <2> QED  BY <2>4, <2>5, <2>7
<1> QED  BY <1>1, <1>2, <1>3 DEF OwnedOnce

\* An Owned_ object generated by interop.cpp:1195 ends once, by the last
\* release of its SafeHandle or by the native code that consumed it; it is
\* alive as long as a helper has its address out; and when no helper is open
\* the gates are free and a disposed owner has left nothing behind.  For any
\* number of threads and owners, any nesting, with Dispose at any time.
THEOREM ObjectsEndOnce == OSpec => []OwnedOnce
<1>1. OSpec => []OwnedInv  BY InitOwned, StepOwned, PTL DEF OSpec
<1> QED  BY <1>1, OwnedImpliesOnce, PTL
=============================================================================
