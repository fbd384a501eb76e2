--------------------------- MODULE GeneratorOutput ---------------------------
(***************************************************************************)
(* One module's output directory over several runs of the generator with   *)
(* --discover: run() picks the headers that declare reflection, extracts   *)
(* and validates everything, writes one file per header, the module's      *)
(* fixed files and the optional ones, and removes the files of headers     *)
(* that no longer reflect.  A run may be killed between any two file       *)
(* operations, and a file may be locked by another process.                *)
(*                                                                         *)
(* A text is what it was generated from: a function that gives for every   *)
(* header the version that went into it, or "plain".                       *)
(***************************************************************************)
EXTENDS Naturals, Sequences, FiniteSets, SequencesExt

CONSTANTS
  HeaderList,    (* the headers of the project, in order                   *)
  FileOf,        (* FileOf[h]: generated_header_name, case folded          *)
  Fixed,         (* names written after the injection header, in order     *)
  Others,        (* generated files of another module, same directory      *)
  Versions,      (* what a reflecting header can declare                   *)
  Invalid,       (* versions extraction rejects                            *)
  OutputFaults,  (* environment failures a behaviour may admit, or none    *)
  MaxRuns        (* bound: runs of the generator                           *)

Headers == Range(HeaderList)
ModuleHeader == "module.h"
Generated == {FileOf[h] : h \in Headers}
FixedFiles == {ModuleHeader} \cup Range(Fixed)
Files == Generated \cup FixedFiles \cup Others

ASSUME OutputAssumption ==
  /\ HeaderList \in Seq(Headers) /\ Fixed \in Seq(FixedFiles \ {ModuleHeader})
  /\ Generated \cap (FixedFiles \cup Others) = {} /\ FixedFiles \cap Others = {}
  /\ Invalid \subseteq Versions /\ Versions \cap {"plain", "include"} = {}
  /\ OutputFaults \subseteq {"write", "held", "kill"}
  /\ MaxRuns \in Nat

VARIABLES
  source,    (* source[h]: what header h holds                             *)
  disk,      (* disk[f]: whether f is there or truncated, of which text    *)
  pc,        (* where the run is                                           *)
  todo,      (* files still to write                                       *)
  model,     (* what was extracted: model[h]                               *)
  previous,  (* files the injection header included before this run        *)
  current,   (* generated_paths, case folded                               *)
  failed,    (* an RG0001 was reported                                     *)
  missed,    (* a stale file could not be removed in this run              *)
  settled,   (* the last run succeeded and no header changed since         *)
  runs,
  faults     (* the failures the environment is capable of, fixed          *)

vars == <<source, disk, pc, todo, model, previous, current, failed, missed, settled, runs, faults>>

Texts == [Headers -> Versions \cup {"plain", "include"}]
Plain == [h \in Headers |-> "plain"]
Absent == [state |-> "absent", text |-> Plain]
Torn(text) == [state |-> "torn", text |-> text]
Written(text) == [state |-> "ok", text |-> text]

TypeOK ==
  /\ source \in [Headers -> Versions \cup {"plain"}]
  /\ disk \in [Files -> [state : {"absent", "torn", "ok"}, text : Texts]]
  /\ pc \in {"idle", "write", "flush", "remove", "exit0", "exit1"}
  /\ todo \in Seq(Files)
  /\ model \in [Headers -> Versions \cup {"plain"}]
  /\ previous \subseteq Headers
  /\ current \subseteq Files
  /\ {failed, missed, settled} \subseteq BOOLEAN
  /\ runs \in 0..MaxRuns
  /\ faults \in {{}, OutputFaults}

Init ==
  /\ source \in [Headers -> Versions \cup {"plain"}]
  /\ disk = [f \in Files |-> IF f \in Others THEN Written(Plain) ELSE Absent]
  /\ pc = "idle"
  /\ todo = <<>>
  /\ model = Plain
  /\ previous = {}
  /\ current = {}
  /\ failed = FALSE
  /\ missed = FALSE
  /\ settled = FALSE
  /\ runs = 0
  /\ faults \in {{}, OutputFaults}

\* emit_header, emit_module_header and the emitters of the fixed files.
Emit(f) ==
  [h \in Headers |->
     IF f = ModuleHeader THEN IF model[h] # "plain" THEN "include" ELSE "plain"
     ELSE IF f \in FixedFiles \/ FileOf[h] = f THEN model[h] ELSE "plain"]

-----------------------------------------------------------------------------

EditHeader(h, v) ==
  /\ source[h] # v
  /\ source' = [source EXCEPT ![h] = v]
  /\ settled' = FALSE
  /\ UNCHANGED <<disk, pc, todo, model, previous, current, failed, missed, runs, faults>>

\* reflected_headers: the places in the list whose headers declare reflection,
\* in increasing order.
Reflected == {h \in Headers : source[h] # "plain"}
ReflectedPlaces ==
  {at \in BoundedSeq({i \in DOMAIN HeaderList : HeaderList[i] \in Reflected}, Len(HeaderList)) :
     /\ \A h \in Reflected : \E k \in DOMAIN at : HeaderList[at[k]] = h
     /\ \A i, j \in DOMAIN at : i < j => at[i] < at[j]}

Collides == \E g, h \in Reflected : g # h /\ FileOf[g] = FileOf[h]
Rejected == Collides \/ \E h \in Reflected : source[h] \in Invalid

\* Discovery, the name check (RG0007), extraction and validation.  Errors end
\* the run before anything is written.
StartRun == \E at \in ReflectedPlaces :
  LET paths == [k \in DOMAIN at |-> FileOf[HeaderList[at[k]]]] IN
  /\ pc \in {"idle", "exit0", "exit1"} /\ runs < MaxRuns
  /\ runs' = runs + 1
  /\ model' = source
  /\ current' = Range(paths)
  /\ previous' = {}
  /\ failed' = Rejected
  /\ missed' = FALSE
  /\ IF Rejected THEN pc' = "exit1" /\ todo' = <<>>
                 ELSE pc' = "write" /\ todo' = paths \o <<ModuleHeader>> \o Fixed
  /\ UNCHANGED <<source, disk, settled, faults>>

\* Mutants: a file is rewritten without comparing; an existing file is taken
\* for current without comparing.
WriteFile_Always ==
  /\ pc = "write" /\ todo # <<>>
  /\ disk' = [disk EXCEPT ![Head(todo)] = Torn(Emit(Head(todo)))]
  /\ pc' = "flush"
  /\ UNCHANGED <<source, todo, model, previous, current, failed, missed, settled, runs, faults>>
WriteFile_IfMissing ==
  /\ pc = "write" /\ todo # <<>>
  /\ IF disk[Head(todo)].state = "ok"
       THEN todo' = Tail(todo) /\ UNCHANGED <<disk, pc>>
       ELSE disk' = [disk EXCEPT ![Head(todo)] = Torn(Emit(Head(todo)))] /\ pc' = "flush" /\ UNCHANGED todo
  /\ UNCHANGED <<source, model, previous, current, failed, missed, settled, runs, faults>>

\* The headers whose generated files an injection header includes.
Includes(file) == {h \in Headers : file.text[h] = "include"}

\* write_if_changed up to opening the file; the injection header's includes
\* are read just before it is written.  A truncated one may have lost any of
\* them.
WriteFile ==
  LET f == Head(todo)
      old == disk[f] IN
  /\ pc = "write" /\ todo # <<>>
  /\ \/ f # ModuleHeader /\ UNCHANGED previous
     \/ f = ModuleHeader /\ old.state # "torn" /\ previous' = Includes(old)
     \/ f = ModuleHeader /\ old.state = "torn" /\ previous' \in SUBSET Includes(old)
  /\ \/ /\ old = Written(Emit(f))
        /\ todo' = Tail(todo)
        /\ UNCHANGED <<disk, pc, failed>>
     \/ /\ old # Written(Emit(f))
        /\ disk' = [disk EXCEPT ![f] = Torn(Emit(f))]
        /\ pc' = "flush"
        /\ UNCHANGED <<todo, failed>>
     \/ /\ old # Written(Emit(f)) /\ "write" \in faults
        /\ failed' = TRUE
        /\ todo' = Tail(todo)
        /\ UNCHANGED <<disk, pc>>
  /\ UNCHANGED <<source, model, current, missed, settled, runs, faults>>

FlushFile ==
  LET f == Head(todo) IN
  /\ pc = "flush"
  /\ disk' = [disk EXCEPT ![f] = Written(Emit(f))]
  /\ todo' = Tail(todo)
  /\ pc' = "write"
  /\ UNCHANGED <<source, model, previous, current, failed, missed, settled, runs, faults>>

WritesDone ==
  /\ pc = "write" /\ todo = <<>>
  /\ pc' = "remove"
  /\ UNCHANGED <<source, disk, todo, model, previous, current, failed, missed, settled, runs, faults>>

\* Mutants: paths compared with their case; every generated file in the
\* directory that this run did not write; the includes as just written.
Stale_CaseSensitive == {FileOf[h] : h \in {g \in previous : model[g] = "plain"}}
Stale_Directory == (Generated \cup Others) \ current
Stale_NewIncludes == {FileOf[h] : h \in Includes(disk[ModuleHeader])} \ current

\* remove_stale_outputs: what the injection header included before and this
\* run did not generate.
Stale == {FileOf[h] : h \in previous} \ current

RemoveStale ==
  LET present == {f \in Stale : disk[f].state # "absent"} IN
  /\ pc = "remove"
  /\ \E held \in SUBSET present :
       /\ held # {} => "held" \in faults
       /\ disk' = [f \in Files |-> IF f \in present \ held THEN Absent ELSE disk[f]]
       /\ missed' = (held # {})
  /\ pc' = IF failed THEN "exit1" ELSE "exit0"
  /\ settled' = (~failed /\ model = source)
  /\ UNCHANGED <<source, todo, model, previous, current, failed, runs, faults>>

\* The process is killed between two file operations.
Kill ==
  /\ "kill" \in faults
  /\ pc \in {"write", "flush", "remove"}
  /\ pc' = "idle"
  /\ todo' = <<>>
  /\ UNCHANGED <<source, disk, model, previous, current, failed, missed, settled, runs, faults>>

RunStep == WriteFile \/ FlushFile \/ WritesDone \/ RemoveStale

Next ==
  \/ \E h \in Headers, v \in Versions \cup {"plain"} : EditHeader(h, v)
  \/ StartRun \/ RunStep \/ Kill

Spec == Init /\ [][Next]_vars

-----------------------------------------------------------------------------
(***************************************************************************)
(* Properties.                                                             *)
(***************************************************************************)

\* A run that returns 0 leaves every file it is responsible for with the text
\* of what it extracted, whatever earlier runs were killed, failed to write or
\* left truncated, and also when a header was renamed in case only.
OutputsCurrent ==
  pc = "exit0" => \A f \in current \cup FixedFiles : disk[f] = Written(Emit(f))

\* "The time must not change, or everything that depends on the file is built
\* again": once a run has succeeded, running again on the same headers touches
\* no file.
Idempotent == [][settled => disk' = disk]_vars

\* "Even if the output directory is shared with another module its generated
\* files are not touched."
OthersUntouched == \A f \in Others : disk[f] = Written(Plain)

\* "So that the output directory holds only the present results": after a
\* successful run no file of a header that stopped reflecting is left, where
\* no run was killed and no file held.
NothingStale ==
  pc = "exit0" /\ faults = {} => \A f \in Generated \ current : disk[f].state = "absent"

\* The output directory holds whole or truncated files of this module and the
\* untouched files of the others at every point of a run, and nothing stale
\* behind a successful one.
DirectoryInv == TypeOK /\ OthersUntouched /\ NothingStale

\* "If another process holds it, it is removed by the next run": a successful
\* run that could remove everything it tried leaves no stale file.
HeldRemovedNextRun ==
  pc = "exit0" /\ ~missed => \A f \in Generated \ current : disk[f].state = "absent"
=============================================================================
