--------------------------- MODULE ReflgenTarget ---------------------------
(***************************************************************************)
(* The MSBuild target _ReflgenRun and the generator it starts, seen from   *)
(* the files they share with the editor.  A process evaluates the target:  *)
(* it compares the stamp with the inputs, runs the generator (read the     *)
(* header, write the injection header if its text changed) and touches the *)
(* stamp when the generator succeeded.  Several processes may run at once  *)
(* (a VS build next to the extension's own MSBuild), and each may be       *)
(* killed at any point.                                                    *)
(*                                                                         *)
(* Times are abstracted to what the code compares: stampFresh[p] says that *)
(* the stamp of p is newer than its header, injection[p].time counts the   *)
(* writes of the generated header.                                         *)
(***************************************************************************)
EXTENDS Naturals, FiniteSets

CONSTANTS
  Projects,   (* projects that import reflgen.targets                      *)
  Contents,   (* the reflection a saved header declares                    *)
  Invalid,    (* contents that extraction rejects with an RG error         *)
  Procs,      (* MSBuild processes                                         *)
  Faults      (* environment failures this instance admits                 *)

FaultKinds == {"taskkill", "write", "flush", "msbuild", "io", "rescan"}

ASSUME TargetAssumption ==
  /\ Projects # {} /\ Contents # {} /\ Procs # {}
  /\ Invalid \subseteq Contents
  /\ Faults \subseteq FaultKinds
  /\ Contents \cap {"placeholder", "torn"} = {}

VARIABLES
  header,      (* header[p]: what the header on disk declares              *)
  stampFresh,  (* stampFresh[p]: the stamp is newer than the header        *)
  injection,   (* injection[p]: generated header, its text and write time  *)
  state,       (* state[q]: where process q is in the target               *)
  project,     (* project[q]: the project q generates                      *)
  read,        (* read[q]: the header text q's generator has read          *)
  orphan,      (* orphan[q]: MSBuild was killed, its generator was not     *)
  lossy        (* the last block of a stream may be lost, fixed            *)

targetVars == <<header, stampFresh, injection, state, project, read, orphan, lossy>>

ProcStates == {"idle", "check", "read", "emit", "torn", "touch", "exit0", "exit1"}
Exited == {"exit0", "exit1"}

\* The generated text: the banner-less file a design-time build puts there, a
\* truncated file, or the reflection of some header content.
Texts == Contents \cup {"placeholder", "torn"}

TargetTypeOK ==
  /\ header \in [Projects -> Contents]
  /\ stampFresh \in [Projects -> BOOLEAN]
  /\ injection \in [Projects -> [text : Texts, time : Nat]]
  /\ state \in [Procs -> ProcStates]
  /\ project \in [Procs -> Projects]
  /\ read \in [Procs -> Contents]
  /\ orphan \in [Procs -> BOOLEAN]
  /\ lossy \in BOOLEAN

\* The files as an earlier session left them: never generated, out of date or
\* up to date.
TargetInit ==
  /\ header \in [Projects -> Contents]
  /\ stampFresh \in [Projects -> BOOLEAN]
  /\ injection \in [Projects -> [text : {"placeholder"} \cup (Contents \ Invalid),
                                 time : {0}]]
  /\ \A p \in Projects : stampFresh[p] => injection[p].text = header[p]
  /\ state = [q \in Procs |-> "idle"]
  /\ project \in [Procs -> {CHOOSE p \in Projects : TRUE}]
  /\ read \in [Procs -> {CHOOSE c \in Contents : TRUE}]
  /\ orphan = [q \in Procs |-> FALSE]
  /\ lossy \in {FALSE, "flush" \in Faults}

\* An orphaned generator has no MSBuild left to return to.
Continue(q, s) == state' = [state EXCEPT ![q] = IF orphan[q] THEN "idle" ELSE s]

WriteInjection(p, text) ==
  injection' = [injection EXCEPT ![p] = [text |-> text, time |-> @.time + 1]]

-----------------------------------------------------------------------------

StartTarget(q, p) ==
  /\ state[q] = "idle"
  /\ state' = [state EXCEPT ![q] = "check"]
  /\ project' = [project EXCEPT ![q] = p]
  /\ UNCHANGED <<header, stampFresh, injection, read, orphan, lossy>>

\* Inputs/Outputs of the target: with a stamp newer than the inputs MSBuild
\* skips the target and succeeds.
CheckStamp(q) ==
  /\ state[q] = "check"
  /\ Continue(q, IF stampFresh[project[q]] THEN "exit0" ELSE "read")
  /\ UNCHANGED <<header, stampFresh, injection, project, read, orphan, lossy>>

\* The generator parses the header.  An error is reported before anything is
\* written, so the previous output stays.
ReadHeader(q) ==
  /\ state[q] = "read"
  /\ read' = [read EXCEPT ![q] = header[project[q]]]
  /\ Continue(q, IF read'[q] \in Invalid THEN "exit1" ELSE "emit")
  /\ UNCHANGED <<header, stampFresh, injection, project, orphan, lossy>>

\* Mutant: the stamp is touched before the header is written.
OpenInjection_TouchFirst(q) ==
  LET p == project[q] IN
  /\ state[q] = "emit"
  /\ injection[p].text # read[q]
  /\ WriteInjection(p, "torn")
  /\ stampFresh' = [stampFresh EXCEPT ![p] = TRUE]
  /\ state' = [state EXCEPT ![q] = "torn"]
  /\ UNCHANGED <<header, project, read, orphan, lossy>>

\* write_if_changed, first half: equal text is left alone (and keeps its
\* time); otherwise the file is opened with truncation.
OpenInjection(q) ==
  LET p == project[q] IN
  /\ state[q] = "emit"
  /\ \/ /\ injection[p].text = read[q]
        /\ Continue(q, "touch")
        /\ UNCHANGED injection
     \/ /\ injection[p].text # read[q]
        /\ WriteInjection(p, "torn")
        /\ state' = [state EXCEPT ![q] = "torn"]
     \/ /\ "write" \in Faults
        /\ injection[p].text # read[q]
        /\ Continue(q, "exit1")
        /\ UNCHANGED injection
  /\ UNCHANGED <<header, stampFresh, project, read, orphan, lossy>>

\* write_if_changed, second half: the text reaches the file.  What the stream
\* still buffers is written by its destructor, whose failure nobody sees.
FlushInjection(q) ==
  /\ state[q] = "torn"
  /\ \/ WriteInjection(project[q], read[q])
     \/ lossy /\ UNCHANGED injection
  /\ Continue(q, "touch")
  /\ UNCHANGED <<header, stampFresh, project, read, orphan, lossy>>

\* Exec returned 0, so the target touches its stamp: it is now newer than
\* whatever the header holds, read or not.
TouchStamp(q) ==
  /\ state[q] = "touch"
  /\ stampFresh' = [stampFresh EXCEPT ![project[q]] = TRUE]
  /\ state' = [state EXCEPT ![q] = "exit0"]
  /\ UNCHANGED <<header, injection, project, read, orphan, lossy>>

TargetStep(q) ==
  CheckStamp(q) \/ ReadHeader(q) \/ OpenInjection(q) \/ FlushInjection(q) \/ TouchStamp(q)

\* What KillTree leaves of process q: nothing, or, when taskkill cannot be
\* started, the generator that MSBuild had started.
KillTree(q) ==
  \/ /\ state' = [state EXCEPT ![q] = "idle"]
     /\ UNCHANGED orphan
  \/ /\ "taskkill" \in Faults
     /\ state[q] \in {"read", "emit", "torn"}
     /\ orphan' = [orphan EXCEPT ![q] = TRUE]
     /\ UNCHANGED state

WriteHeader(p, c) ==
  /\ header' = [header EXCEPT ![p] = c]
  /\ stampFresh' = [stampFresh EXCEPT ![p] = FALSE]
=============================================================================
