----------------------- MODULE GenerationRunner_proofs -----------------------
(***************************************************************************)
(* Proofs about GenerationRunner for every number of projects, contents,   *)
(* tasks and every combination of faults.                                  *)
(***************************************************************************)
EXTENDS GenerationRunner, TLAPS

\* A file's text and time after a write.
LEMMA WriteType ==
  ASSUME NEW p \in Projects, NEW text \in Texts,
         injection \in [Projects -> [text : Texts, time : Nat]],
         WriteInjection(p, text)
  PROVE  injection' \in [Projects -> [text : Texts, time : Nat]]
<1>1. injection[p].time + 1 \in Nat
  OBVIOUS
<1>2. [text |-> text, time |-> injection[p].time + 1] \in [text : Texts, time : Nat]
  BY <1>1
<1> QED BY <1>2 DEF WriteInjection

\* The steps of the MSBuild processes keep the files and process states typed.
LEMMA TargetStepType ==
  ASSUME TargetTypeOK, NEW q \in Procs, TargetStep(q)
  PROVE  TargetTypeOK'
<1>1. \A s \in ProcStates : Continue(q, s) => state' \in [Procs -> ProcStates]
  BY DEF TargetTypeOK, Continue, ProcStates
<1>2. project[q] \in Projects /\ read[q] \in Texts
  BY DEF TargetTypeOK, Texts
<1>3. CASE CheckStamp(q)
  BY <1>1, <1>3 DEF CheckStamp, TargetTypeOK, ProcStates
<1>4. CASE ReadHeader(q)
  BY <1>1, <1>2, <1>4 DEF ReadHeader, TargetTypeOK, ProcStates
<1>5. CASE OpenInjection(q)
  <2>1. injection' \in [Projects -> [text : Texts, time : Nat]]
    BY <1>2, <1>5, WriteType DEF OpenInjection, TargetTypeOK, Texts
  <2> QED BY <1>1, <1>5, <2>1 DEF OpenInjection, TargetTypeOK, ProcStates
<1>6. CASE FlushInjection(q)
  <2>1. injection' \in [Projects -> [text : Texts, time : Nat]]
    BY <1>2, <1>6, WriteType DEF FlushInjection, TargetTypeOK
  <2> QED BY <1>1, <1>6, <2>1 DEF FlushInjection, TargetTypeOK, ProcStates
<1>7. CASE TouchStamp(q)
  BY <1>2, <1>7 DEF TouchStamp, TargetTypeOK, ProcStates
<1> QED BY <1>3, <1>4, <1>5, <1>6, <1>7 DEF TargetStep

\* Starting and collecting a process only touch its state and project.
LEMMA ProcessType ==
  ASSUME TargetTypeOK, NEW q \in Procs, NEW p \in Projects,
         \/ StartTarget(q, p)
         \/ /\ state' = [state EXCEPT ![q] = "idle"]
            /\ UNCHANGED <<header, stampFresh, injection, project, read, orphan, lossy>>
  PROVE  TargetTypeOK'
BY DEF TargetTypeOK, StartTarget, ProcStates

LEMMA InitType == Init => TypeOK
<1> SUFFICES ASSUME Init PROVE TypeOK
  OBVIOUS
<1>1. (CHOOSE p \in Projects : TRUE) \in Projects /\ (CHOOSE c \in Contents : TRUE) \in Contents
  BY TargetAssumption
<1>2. TargetTypeOK
  <2>1. ("flush" \in Faults) \in BOOLEAN
    OBVIOUS
  <2>2. lossy \in BOOLEAN
    BY <2>1 DEF Init, TargetInit
  <2> QED BY <1>1, <2>2 DEF Init, TargetInit, TargetTypeOK, Texts, ProcStates
<1>3. 0 \in 0..MaxTasks
  BY RunnerAssumption
<1>4. "unused" \in PCs /\ "none" \in Outcomes
  BY DEF PCs, Outcomes
<1> QED BY <1>2, <1>3, <1>4 DEF Init, TypeOK

LEMMA NextType == TypeOK /\ [Next]_vars => TypeOK'
<1> SUFFICES ASSUME TypeOK, [Next]_vars PROVE TypeOK'
  OBVIOUS
<1> USE RunnerAssumption DEF Tasks, Build
<1>1. ASSUME NEW p \in Projects, NEW c \in Contents, Save(p, c) PROVE TypeOK'
  <2>1. TargetTypeOK'
    BY <1>1 DEF Save, WriteHeader, TypeOK, TargetTypeOK
  <2> QED BY <1>1, <2>1 DEF Save, Report, TypeOK, taskVars, envVars
<1>2. CASE OnAfterOpenSolution
  <2>1. TargetTypeOK'
    BY <1>2 DEF OnAfterOpenSolution, TypeOK, TargetTypeOK, targetVars
  <2>2. \A p \in Projects : injection[p].time \in Nat
    BY DEF TypeOK, TargetTypeOK
  <2> QED BY <1>2, <2>1, <2>2 DEF OnAfterOpenSolution, TypeOK, taskVars
<1>3. CASE OnAfterCloseSolution
  <2>1. TargetTypeOK'
    BY <1>3 DEF OnAfterCloseSolution, TypeOK, TargetTypeOK, targetVars
  <2> QED BY <1>3, <2>1 DEF OnAfterCloseSolution, TypeOK, taskVars
<1>4. ASSUME NEW p \in Projects, Schedule(p) PROVE TypeOK'
  <2>1. TargetTypeOK'
    BY <1>4 DEF Schedule, TypeOK, TargetTypeOK
  <2> QED BY <1>4, <2>1 DEF Schedule, Goto, TypeOK, envVars, PCs
<1>5. ASSUME NEW p \in Projects, BuildProject(p) PROVE TypeOK'
  <2>1. TargetTypeOK'
    BY <1>5, ProcessType DEF BuildProject, TypeOK
  <2> QED BY <1>5, <2>1 DEF BuildProject, TypeOK, taskVars, uiVars
<1>6. CASE BuildProjectDone
  <2>1. TargetTypeOK'
    BY <1>6 DEF BuildProjectDone, TypeOK, TargetTypeOK, ProcStates
  <2> QED BY <1>6, <2>1 DEF BuildProjectDone, TypeOK, taskVars, uiVars
<1>7. ASSUME NEW t \in Tasks, TaskStep(t) PROVE TypeOK'
  <2> t \in Procs /\ project[t] \in Projects
    BY DEF TypeOK, TargetTypeOK
  <2>1. \A to \in PCs : Goto(t, to) => pc' \in [Tasks -> PCs]
    BY DEF Goto, TypeOK
  <2>2. UNCHANGED targetVars => TargetTypeOK'
    BY DEF TypeOK, TargetTypeOK, targetVars
  <2>3. injection[project[t]].time \in Nat
    BY DEF TypeOK, TargetTypeOK
  <2>4. CASE Settle(t)
    BY <2>1, <2>2, <2>4 DEF Settle, TypeOK, uiVars, envVars, PCs, Inside
  <2>5. CASE CancelWait(t)
    BY <2>1, <2>2, <2>5 DEF CancelWait, TypeOK, uiVars, envVars, PCs
  <2>6. CASE Begin(t)
    BY <2>1, <2>2, <2>6 DEF Begin, Report, TypeOK, envVars, PCs, Inside, Outcomes
  <2>7. CASE TakeBefore(t)
    BY <2>1, <2>2, <2>3, <2>7 DEF TakeBefore, TypeOK, uiVars, envVars, PCs, Inside
  <2>8. CASE StartMSBuild(t)
    <3>1. TargetTypeOK'
      BY <2>8, ProcessType DEF StartMSBuild, TypeOK
    <3> QED BY <2>1, <2>8, <3>1 DEF StartMSBuild, TypeOK, uiVars, envVars, PCs, Inside
  <2>9. CASE StartFails(t)
    BY <2>1, <2>2, <2>9 DEF StartFails, TypeOK, uiVars, envVars, PCs, Inside, Outcomes
  <2>10. CASE MSBuildExits(t)
    <3>1. TargetTypeOK'
      BY <2>10, ProcessType DEF MSBuildExits, TypeOK
    <3> QED BY <2>1, <2>10, <3>1 DEF MSBuildExits, TypeOK, uiVars, envVars, PCs, Inside, Outcomes
  <2>11. CASE Deadline(t)
    <3>1. TargetTypeOK'
      BY <2>11 DEF Deadline, KillTree, TypeOK, TargetTypeOK, ProcStates
    <3>2. pc' \in [Tasks -> PCs]
      <4>1. "leave" \in PCs /\ "after" \in PCs
        BY DEF PCs, Inside
      <4>2. (IF cancelled[t] THEN "leave" ELSE "after") \in PCs
        BY <4>1
      <4> QED BY <2>1, <2>11, <4>2 DEF Deadline
    <3>3. outcome' \in [Tasks -> Outcomes]
      BY <2>11 DEF Deadline, TypeOK, Outcomes
    <3> QED BY <2>11, <3>1, <3>2, <3>3 DEF Deadline, TypeOK, uiVars, envVars
  <2>12. CASE TakeAfter(t)
    BY <2>1, <2>2, <2>12 DEF TakeAfter, TypeOK, uiVars, envVars, PCs, Inside
  <2>13. CASE CancelReport(t)
    BY <2>1, <2>2, <2>13 DEF CancelReport, TypeOK, uiVars, envVars, PCs
  <2>14. CASE ReportResult(t)
    BY <2>1, <2>2, <2>14 DEF ReportResult, Report, TypeOK, envVars, PCs
  <2>15. CASE Throw(t)
    BY <2>1, <2>2, <2>15 DEF Throw, TypeOK, uiVars, envVars, PCs, Inside
  <2>16. CASE Catch(t)
    BY <2>1, <2>2, <2>16 DEF Catch, Report, TypeOK, envVars, PCs
  <2>17. CASE Leave(t)
    <3>1. pc' \in [Tasks -> PCs]
      BY <2>17 DEF Leave, Goto, TypeOK, PCs, Inside
    <3>2. holder' \in 0..MaxTasks
      BY <2>17 DEF Leave, TypeOK
    <3> QED BY <2>2, <2>17, <3>1, <3>2 DEF Leave, TypeOK, uiVars, envVars
  <2>18. CASE Finalize(t)
    <3>1. pending' \in [Projects -> 0..MaxTasks]
      BY <2>18 DEF Finalize, FinalizeWith, WithoutSource, TypeOK
    <3>2. seen' \in [Projects -> Nat]
      <4>1. \A p \in Projects : injection[p].time \in Nat
        BY DEF TypeOK, TargetTypeOK
      <4>2. [p \in Projects |-> injection[p].time] \in [Projects -> Nat]
        BY <4>1
      <4>3. \/ UNCHANGED seen
            \/ seen' = [p \in Projects |-> injection[p].time]
        BY <2>18 DEF Finalize, FinalizeWith, RefreshIntelliSense
      <4> QED BY <4>2, <4>3 DEF TypeOK
    <3>3. generatedCodeChanged' \in BOOLEAN
      BY <2>18 DEF Finalize, FinalizeWith, TypeOK
    <3> QED BY <2>1, <2>2, <2>18, <3>1, <3>2, <3>3
            DEF Finalize, FinalizeWith, TypeOK, envVars, PCs
  <2> QED BY <1>7, <2>4, <2>5, <2>6, <2>7, <2>8, <2>9, <2>10, <2>11, <2>12, <2>13,
             <2>14, <2>15, <2>16, <2>17, <2>18 DEF TaskStep
<1>8. ASSUME NEW q \in Procs, ProcessStep(q) PROVE TypeOK'
  <2>1. TargetTypeOK'
    BY <1>8, TargetStepType DEF ProcessStep, TypeOK
  <2> QED BY <1>8, <2>1 DEF ProcessStep, TypeOK, taskVars, uiVars, envVars
<1>9. CASE UNCHANGED vars
  BY <1>9 DEF vars, targetVars, taskVars, uiVars, envVars, TypeOK, TargetTypeOK
<1> QED BY <1>1, <1>2, <1>3, <1>4, <1>5, <1>6, <1>7, <1>8, <1>9 DEF Next

\* Type correctness of generate-on-save: whatever the saves, builds, faults and
\* interleavings, every task is at one of the awaits of RunAsync.
THEOREM TypeCorrect == Spec => []TypeOK
<1>1. Init => TypeOK
  BY InitType
<1>2. TypeOK /\ [Next]_vars => TypeOK'
  BY NextType
<1> QED BY <1>1, <1>2, PTL DEF Spec

-----------------------------------------------------------------------------
(***************************************************************************)
(* The cancellation protocol.  LiveSource, LatestOnly, OneMSBuild and      *)
(* RefreshOwed are not inductive by themselves; the invariant below adds   *)
(* which task an entry of _pending stands for, who may be inside the       *)
(* semaphore and whose process may be alive.                               *)
(***************************************************************************)

UnusedAbove == \A t \in Tasks : pc[t] = "unused" <=> t > scheduled
DisposedDone == \A t \in Tasks : disposed[t] => pc[t] = "done"
PendingTask ==
  \A p \in Projects, t \in Tasks : pending[p] = t => project[t] = p /\ Unfinished(t)
InsideHolds == \A t \in Tasks : pc[t] \in Inside => holder = t
ProcessOwned ==
  \A t \in Tasks : state[t] # "idle" /\ ~orphan[t] => pc[t] = "msbuild"

RunnerInv ==
  /\ TypeOK
  /\ UnusedAbove
  /\ DisposedDone
  /\ PendingTask
  /\ LatestOnly
  /\ InsideHolds
  /\ ProcessOwned
  /\ RefreshOwed

\* A step that starts and ends no task and registers no source.
SourcesKept ==
  /\ \A s \in Tasks : /\ pc'[s] = "unused" <=> pc[s] = "unused"
                      /\ pc'[s] = "done" <=> pc[s] = "done"
                      /\ project'[s] = project[s]
  /\ UNCHANGED <<scheduled, pending, cancelled, disposed>>

\* A step that lets no task into the semaphore's region.
NoneEnters ==
  /\ \A s \in Tasks : pc'[s] \in Inside => pc[s] \in Inside
  /\ UNCHANGED holder

\* A step that starts no process and takes no task away from its process.
ProcessesKept ==
  \A s \in Tasks : /\ state'[s] # "idle" /\ ~orphan'[s] => state[s] # "idle" /\ ~orphan[s]
                   /\ pc[s] = "msbuild" /\ state'[s] # "idle" /\ ~orphan'[s] => pc'[s] = "msbuild"

LEMMA SourcesLemma ==
  ASSUME RunnerInv, SourcesKept
  PROVE  UnusedAbove' /\ DisposedDone' /\ PendingTask' /\ LatestOnly'
BY DEF RunnerInv, SourcesKept, UnusedAbove, DisposedDone, PendingTask, LatestOnly,
       Unfinished

LEMMA EntersLemma == RunnerInv /\ NoneEnters => InsideHolds'
BY DEF RunnerInv, NoneEnters, InsideHolds

LEMMA ProcessesLemma == RunnerInv /\ ProcessesKept => ProcessOwned'
BY DEF RunnerInv, ProcessesKept, ProcessOwned

LEMMA RefreshLemma ==
  ASSUME RunnerInv, SourcesKept, UNCHANGED generatedCodeChanged
  PROVE  RefreshOwed'
BY DEF RunnerInv, SourcesKept, RefreshOwed, Unfinished

LEMMA InitInv == Init => RunnerInv
<1> SUFFICES ASSUME Init PROVE RunnerInv
  OBVIOUS
<1>1. TypeOK
  BY InitType
<1>2. UnusedAbove /\ DisposedDone /\ PendingTask
  BY <1>1, RunnerAssumption
  DEF Init, UnusedAbove, DisposedDone, PendingTask, Tasks
<1>3. LatestOnly /\ InsideHolds /\ ProcessOwned /\ RefreshOwed
  BY RunnerAssumption
  DEF Init, TargetInit, LatestOnly, InsideHolds, ProcessOwned, RefreshOwed, Unfinished,
      Inside, Tasks
<1> QED BY <1>1, <1>2, <1>3 DEF RunnerInv

\* The steps of RunAsync between its start and its finally block's last half.
LEMMA TaskInv ==
  ASSUME RunnerInv, NEW t \in Tasks, TaskStep(t), ~Finalize(t)
  PROVE  /\ SourcesKept /\ Unfinished(t)'
         /\ InsideHolds' /\ ProcessOwned'
<1> USE RunnerAssumption DEF Tasks
<1>0. /\ pc \in [Tasks -> PCs] /\ t \in Procs
      /\ project \in [Procs -> Projects]
      /\ state \in [Procs -> ProcStates] /\ orphan \in [Procs -> BOOLEAN]
      /\ \A s \in Tasks : s \in Procs /\ s # 0
  <2>1. TypeOK
    BY DEF RunnerInv
  <2>2. \A s \in Tasks : s \in Procs /\ s # 0
    OBVIOUS
  <2> QED BY <2>1, <2>2 DEF TypeOK, TargetTypeOK
<1>1. CASE Settle(t)
  <2>1. SourcesKept /\ Unfinished(t)' /\ ProcessesKept
    BY <1>0, <1>1
    DEF Settle, Goto, SourcesKept, ProcessesKept, Unfinished, targetVars, uiVars
  <2>2. InsideHolds'
    BY <1>0, <1>1 DEF Settle, Goto, RunnerInv, InsideHolds, Inside
  <2> QED BY <2>1, <2>2, ProcessesLemma
<1>2. CASE CancelWait(t) \/ Begin(t) \/ TakeBefore(t) \/ StartFails(t) \/ TakeAfter(t)
           \/ CancelReport(t) \/ ReportResult(t) \/ Throw(t) \/ Catch(t)
  <2>1. PICK to \in {"leave", "before", "start", "after", "report", "catch"} :
          /\ Goto(t, to)
          /\ to = "leave" \/ pc[t] \in Inside
          /\ pc[t] \notin {"unused", "done", "msbuild"}
          /\ UNCHANGED <<targetVars, scheduled, pending, cancelled, disposed, holder>>
    BY <1>2 DEF CancelWait, Begin, TakeBefore, StartFails, TakeAfter, CancelReport,
                ReportResult, Throw, Catch, Inside, uiVars
  <2>2. SourcesKept /\ Unfinished(t)' /\ ProcessesKept
    BY <1>0, <2>1 DEF Goto, SourcesKept, ProcessesKept, Unfinished, targetVars
  <2>3. NoneEnters
    BY <1>0, <2>1 DEF Goto, NoneEnters, Inside
  <2> QED BY <2>2, <2>3, ProcessesLemma, EntersLemma
<1>3. CASE StartMSBuild(t)
  <2>1. SourcesKept /\ Unfinished(t)' /\ NoneEnters
    BY <1>0, <1>3 DEF StartMSBuild, StartTarget, Goto, SourcesKept, NoneEnters,
                      Unfinished, Inside, uiVars
  <2>2. ProcessOwned'
    BY <1>0, <1>3 DEF StartMSBuild, StartTarget, Goto, RunnerInv, ProcessOwned
  <2> QED BY <2>1, <2>2, EntersLemma
<1>4. CASE MSBuildExits(t)
  <2>1. SourcesKept /\ Unfinished(t)' /\ NoneEnters
    BY <1>0, <1>4 DEF MSBuildExits, Goto, SourcesKept, NoneEnters, Unfinished, Inside, uiVars
  <2>2. ProcessesKept
    BY <1>0, <1>4 DEF MSBuildExits, Goto, ProcessesKept
  <2> QED BY <2>1, <2>2, EntersLemma, ProcessesLemma
<1>5. CASE Deadline(t)
  <2>1. SourcesKept /\ Unfinished(t)' /\ NoneEnters
    BY <1>0, <1>5 DEF Deadline, Goto, SourcesKept, NoneEnters, Unfinished, Inside, uiVars
  <2>2. ProcessesKept
    BY <1>0, <1>5 DEF Deadline, KillTree, Goto, ProcessesKept
  <2> QED BY <2>1, <2>2, EntersLemma, ProcessesLemma
<1>6. CASE Leave(t)
  <2>1. SourcesKept /\ Unfinished(t)' /\ ProcessesKept
    BY <1>0, <1>6 DEF Leave, Waiting, Goto, SourcesKept, ProcessesKept, Unfinished,
                      targetVars, uiVars
  <2>2. InsideHolds'
    BY <1>0, <1>6 DEF Leave, Waiting, Goto, RunnerInv, InsideHolds, Inside
  <2> QED BY <2>1, <2>2, ProcessesLemma
<1> QED BY <1>1, <1>2, <1>3, <1>4, <1>5, <1>6 DEF TaskStep

LEMMA FinalizeInv ==
  ASSUME RunnerInv, NEW t \in Tasks, Finalize(t)
  PROVE  /\ UnusedAbove' /\ DisposedDone' /\ PendingTask' /\ LatestOnly'
         /\ InsideHolds' /\ ProcessOwned' /\ RefreshOwed'
<1> USE RunnerAssumption DEF Tasks
<1>1. /\ pc \in [Tasks -> PCs] /\ disposed \in [Tasks -> BOOLEAN]
      /\ pending \in [Projects -> 0..MaxTasks] /\ project \in [Procs -> Projects]
      /\ t \in Procs /\ \A s \in Tasks : s \in Procs /\ s # 0
  <2>1. TypeOK
    BY DEF RunnerInv
  <2>2. \A s \in Tasks : s \in Procs /\ s # 0
    OBVIOUS
  <2> QED BY <2>1, <2>2 DEF TypeOK, TargetTypeOK
<1>2. /\ pc[t] = "final" /\ pc' = [pc EXCEPT ![t] = "done"]
      /\ pending' = WithoutSource(t)
      /\ UNCHANGED <<targetVars, cancelled, scheduled, holder>>
  BY DEF Finalize, FinalizeWith, Goto
<1>3. \A p \in Projects, s \in Tasks : pending'[p] = s => pending[p] = s /\ s # t
  BY <1>1, <1>2 DEF WithoutSource, RunnerInv, PendingTask
<1>4. \A p \in Projects, s \in Tasks : pending[p] = s /\ s # t => pending'[p] = s
  BY <1>1, <1>2 DEF WithoutSource
<1>5. UnusedAbove'
  BY <1>1, <1>2 DEF RunnerInv, UnusedAbove
<1>6. DisposedDone'
  BY <1>1, <1>2 DEF RunnerInv, DisposedDone, Finalize, FinalizeWith
<1>7. PendingTask'
  BY <1>1, <1>2, <1>3 DEF RunnerInv, PendingTask, Unfinished, targetVars
<1>8. LatestOnly'
  BY <1>1, <1>2, <1>4 DEF RunnerInv, LatestOnly, Unfinished, targetVars
<1>9. InsideHolds' /\ ProcessOwned'
  <2>1. NoneEnters /\ ProcessesKept
    BY <1>1, <1>2 DEF NoneEnters, ProcessesKept, Inside, targetVars
  <2> QED BY <2>1, EntersLemma, ProcessesLemma
<1>10. RefreshOwed'
  <2>1. SUFFICES ASSUME generatedCodeChanged' PROVE \E s \in Tasks : Unfinished(s)'
    BY DEF RefreshOwed
  <2>2. ~NonePending(WithoutSource(t))
    BY <2>1 DEF Finalize, FinalizeWith
  <2>3. PICK p \in Projects : pending'[p] # 0
    BY <1>2, <2>2 DEF NonePending
  <2>4. pending'[p] \in Tasks
    BY <1>1, <1>2, <2>3 DEF WithoutSource
  <2> QED BY <1>7, <2>4 DEF PendingTask
<1> QED BY <1>5, <1>6, <1>7, <1>8, <1>9, <1>10

LEMMA ScheduleInv ==
  ASSUME RunnerInv, NEW p \in Projects, Schedule(p)
  PROVE  /\ UnusedAbove' /\ DisposedDone' /\ PendingTask' /\ LatestOnly'
         /\ InsideHolds' /\ ProcessOwned' /\ RefreshOwed'
<1> DEFINE t == scheduled + 1
<1>1. /\ pc \in [Tasks -> PCs] /\ cancelled \in [Tasks -> BOOLEAN]
      /\ pending \in [Projects -> 0..MaxTasks] /\ project \in [Procs -> Projects]
      /\ scheduled \in 0..MaxTasks
      /\ \A s \in Tasks : s \in Procs /\ s # 0
  <2>1. TypeOK
    BY DEF RunnerInv
  <2>2. \A s \in Tasks : s \in Procs /\ s # 0
    BY RunnerAssumption DEF Tasks
  <2> QED BY <2>1, <2>2 DEF TypeOK, TargetTypeOK
<1>2. /\ t \in Tasks
      /\ cancelled' = [s \in Tasks |-> cancelled[s] \/ s = pending[p]]
      /\ pending' = [pending EXCEPT ![p] = t]
      /\ scheduled' = t
      /\ pc' = [pc EXCEPT ![t] = "settle"]
      /\ project' = [project EXCEPT ![t] = p]
      /\ UNCHANGED <<state, orphan, disposed, holder, generatedCodeChanged>>
  BY DEF Schedule, Goto
<1>3. pc[t] = "unused"
  BY <1>1, <1>2 DEF RunnerInv, UnusedAbove
<1> HIDE DEF t
<1>4. \A s \in Tasks : s # t => pc'[s] = pc[s] /\ project'[s] = project[s]
  BY <1>1, <1>2
<1>5. pc'[t] = "settle" /\ project'[t] = p
  BY <1>1, <1>2
<1>6. UnusedAbove'
  BY <1>1, <1>2, <1>3, <1>4, <1>5, RunnerAssumption DEF RunnerInv, UnusedAbove, Tasks, t
<1>7. DisposedDone'
  BY <1>2, <1>3, <1>4 DEF RunnerInv, DisposedDone
<1>8. PendingTask'
  <2> SUFFICES ASSUME NEW r \in Projects, NEW s \in Tasks, pending'[r] = s
               PROVE  project'[s] = r /\ Unfinished(s)'
    BY DEF PendingTask
  <2>1. CASE r = p
    BY <1>1, <1>2, <1>5, <2>1 DEF Unfinished
  <2>2. CASE r # p
    <3>1. pending[r] = s
      BY <1>1, <1>2, <2>2
    <3>2. project[s] = r /\ Unfinished(s)
      BY <3>1 DEF RunnerInv, PendingTask
    <3> QED BY <1>3, <1>4, <3>2 DEF Unfinished
  <2> QED BY <2>1, <2>2
<1>9. LatestOnly'
  <2> SUFFICES ASSUME NEW s \in Tasks, Unfinished(s)', ~cancelled'[s]
               PROVE  pending'[project'[s]] = s
    BY DEF LatestOnly
  <2>1. CASE s = t
    BY <1>1, <1>2, <1>5, <2>1
  <2>2. CASE s # t
    <3>1. Unfinished(s) /\ ~cancelled[s] /\ s # pending[p]
      BY <1>1, <1>2, <1>4, <2>2 DEF Unfinished
    <3>2. pending[project[s]] = s
      BY <3>1 DEF RunnerInv, LatestOnly
    <3>3. project[s] # p /\ project[s] \in Projects
      BY <1>1, <3>1, <3>2
    <3> QED BY <1>1, <1>2, <1>4, <2>2, <3>2, <3>3
  <2> QED BY <2>1, <2>2
<1>10. InsideHolds' /\ ProcessOwned'
  <2>1. NoneEnters /\ ProcessesKept
    BY <1>2, <1>3, <1>4, <1>5 DEF NoneEnters, ProcessesKept, Inside
  <2> QED BY <2>1, EntersLemma, ProcessesLemma
<1>11. RefreshOwed'
  BY <1>2, <1>5 DEF RefreshOwed, Unfinished
<1> QED BY <1>6, <1>7, <1>8, <1>9, <1>10, <1>11

LEMMA NextInv == RunnerInv /\ [Next]_vars => RunnerInv'
<1> SUFFICES ASSUME RunnerInv, [Next]_vars PROVE RunnerInv'
  OBVIOUS
<1>0. TypeOK /\ TypeOK'
  BY NextType DEF RunnerInv
<1>a. /\ state \in [Procs -> ProcStates] /\ project \in [Procs -> Projects]
      /\ \A s \in Tasks : s \in Procs /\ s # Build
  <2>1. \A s \in Tasks : s \in Procs /\ s # Build
    BY RunnerAssumption DEF Tasks, Build
  <2> QED BY <1>0, <2>1 DEF TypeOK, TargetTypeOK
<1>1. ASSUME SourcesKept, NoneEnters, ProcessesKept, UNCHANGED generatedCodeChanged
      PROVE  RunnerInv'
  BY <1>0, <1>1, SourcesLemma, EntersLemma, ProcessesLemma, RefreshLemma DEF RunnerInv
<1>2. ASSUME NEW p \in Projects, NEW c \in Contents, Save(p, c) PROVE RunnerInv'
  BY <1>1, <1>2 DEF Save, SourcesKept, NoneEnters, ProcessesKept, taskVars
<1>3. CASE OnAfterOpenSolution \/ OnAfterCloseSolution
  BY <1>1, <1>3 DEF OnAfterOpenSolution, OnAfterCloseSolution, SourcesKept, NoneEnters,
                    ProcessesKept, taskVars, targetVars
<1>4. ASSUME NEW p \in Projects, Schedule(p) PROVE RunnerInv'
  BY <1>0, <1>4, ScheduleInv DEF RunnerInv
<1>5. ASSUME NEW p \in Projects, BuildProject(p) PROVE RunnerInv'
  BY <1>a, <1>1, <1>5 DEF BuildProject, StartTarget, SourcesKept, NoneEnters,
                          ProcessesKept, taskVars, uiVars
<1>6. CASE BuildProjectDone
  BY <1>a, <1>1, <1>6 DEF BuildProjectDone, SourcesKept, NoneEnters, ProcessesKept,
                          taskVars, uiVars
<1>7. ASSUME NEW t \in Tasks, TaskStep(t) PROVE RunnerInv'
  <2>1. CASE Finalize(t)
    BY <1>0, <2>1, FinalizeInv DEF RunnerInv
  <2>2. CASE ~Finalize(t)
    <3>1. SourcesKept /\ Unfinished(t)' /\ InsideHolds' /\ ProcessOwned'
      BY <1>7, <2>2, TaskInv
    <3>2. RefreshOwed'
      BY <3>1 DEF RefreshOwed
    <3> QED BY <1>0, <3>1, <3>2, SourcesLemma DEF RunnerInv
  <2> QED BY <2>1, <2>2
<1>8. ASSUME NEW q \in Procs, ProcessStep(q) PROVE RunnerInv'
  <2>1. /\ state[q] # "idle" /\ \A r \in Procs : r # q => state'[r] = state[r]
        /\ UNCHANGED <<project, orphan>>
    BY <1>a, <1>8 DEF ProcessStep, TargetStep, CheckStamp, ReadHeader, OpenInjection,
                      FlushInjection, TouchStamp, Continue
  <2>2. SourcesKept /\ NoneEnters /\ ProcessesKept /\ UNCHANGED generatedCodeChanged
    BY <1>a, <1>8, <2>1 DEF ProcessStep, SourcesKept, NoneEnters, ProcessesKept,
                            taskVars, uiVars
  <2> QED BY <1>1, <2>2
<1>9. CASE UNCHANGED vars
  BY <1>1, <1>9 DEF vars, targetVars, taskVars, uiVars, SourcesKept, NoneEnters,
                    ProcessesKept
<1> QED BY <1>2, <1>3, <1>4, <1>5, <1>6, <1>7, <1>8, <1>9 DEF Next

LEMMA InvImplies == RunnerInv => LiveSource /\ LatestOnly /\ OneMSBuild /\ RefreshOwed
<1> SUFFICES ASSUME RunnerInv PROVE LiveSource /\ OneMSBuild
  BY DEF RunnerInv
<1>1. LiveSource
  BY DEF RunnerInv, LiveSource, PendingTask, DisposedDone, Unfinished
<1>2. OneMSBuild
  BY DEF RunnerInv, OneMSBuild, ProcessOwned, InsideHolds, Inside
<1> QED BY <1>1, <1>2

LEMMA InvHolds == Spec => []RunnerInv
BY InitInv, NextInv, PTL DEF Spec

\* Schedule never cancels a disposed CancellationTokenSource, for any number of
\* projects and saves and whatever fails.
THEOREM SourcesAreLive == Spec => []LiveSource
BY InvHolds, InvImplies, PTL

\* Of a project's generations under way, only the newest is not cancelled, and
\* _pending leads to it.
THEOREM OnlyLatestRuns == Spec => []LatestOnly
BY InvHolds, InvImplies, PTL

\* The extension never has two MSBuild processes at once.
THEOREM MSBuildRunsAlone == Spec => []OneMSBuild
BY InvHolds, InvImplies, PTL

\* A recorded change of the generated code always has a task left that will
\* look at it.
THEOREM RefreshIsOwed == Spec => []RefreshOwed
BY InvHolds, InvImplies, PTL

-----------------------------------------------------------------------------
(***************************************************************************)
(* The stamp.  While nobody but the runner's own MSBuild generates, at most *)
(* one process is alive (OneMSBuild); it found the stamp stale before it   *)
(* truncates the header, and has written the whole text before it touches  *)
(* the stamp.                                                              *)
(***************************************************************************)

Undisturbed == ~Builds /\ ~lossy /\ \A q \in Procs : ~orphan[q]
Whole(p) == injection[p].text \in Contents

StampInv ==
  Undisturbed =>
    /\ state[Build] = "idle"
    /\ \A q \in Procs : state[q] \in {"read", "emit", "torn"} => ~stampFresh[project[q]]
    /\ \A q \in Procs : state[q] = "touch" => Whole(project[q])
    /\ \A p \in Projects : stampFresh[p] => Whole(p)

\* A step that writes no generated header, touches no stamp and at most starts
\* or ends processes.
FilesKept ==
  /\ UNCHANGED injection
  /\ \A p \in Projects : stampFresh'[p] => stampFresh[p]
  /\ state'[Build] = state[Build]
  /\ \A q \in Procs : \/ state'[q] \in {"idle", "check"}
                      \/ state'[q] = state[q] /\ project'[q] = project[q]

LEMMA FilesLemma ==
  ASSUME TypeOK, StampInv, FilesKept, Undisturbed' => Undisturbed
  PROVE  StampInv'
<1>1. project \in [Procs -> Projects]
  BY DEF TypeOK, TargetTypeOK
<1> QED BY <1>1 DEF StampInv, FilesKept, Whole

\* With no VS build and no orphan, a task's process is the only one.
LEMMA AloneLemma ==
  ASSUME RunnerInv, StampInv, Undisturbed, NEW q \in Procs, state[q] # "idle"
  PROVE  \A r \in Procs : r # q => state[r] = "idle"
<1>1. \A r \in Procs : r = Build \/ r \in Tasks
  BY RunnerAssumption DEF Build, Tasks
<1>2. \A r \in Procs : state[r] # "idle" => r \in Tasks /\ holder = r
  BY <1>1 DEF StampInv, Undisturbed, RunnerInv, ProcessOwned, InsideHolds, Inside
<1> QED BY <1>2

LEMMA ProcessStamp ==
  ASSUME RunnerInv, StampInv, NEW q \in Procs, TargetStep(q), Undisturbed
  PROVE  StampInv'
<1>1. /\ state \in [Procs -> ProcStates] /\ project \in [Procs -> Projects]
      /\ stampFresh \in [Projects -> BOOLEAN] /\ read \in [Procs -> Contents]
      /\ injection \in [Projects -> [text : Texts, time : Nat]]
      /\ project[q] \in Projects /\ read[q] \in Contents /\ ~orphan[q] /\ ~lossy
  BY DEF RunnerInv, TypeOK, TargetTypeOK, Undisturbed
<1>2. /\ state[Build] = "idle"
      /\ state[q] \in {"read", "emit", "torn"} => ~stampFresh[project[q]]
      /\ state[q] = "touch" => Whole(project[q])
      /\ \A p \in Projects : stampFresh[p] => Whole(p)
  BY DEF StampInv
<1>3. state[q] # "idle" /\ q # Build
  BY <1>2 DEF TargetStep, CheckStamp, ReadHeader, OpenInjection, FlushInjection, TouchStamp
<1>4. \A r \in Procs : r # q => state[r] = "idle"
  BY <1>3, AloneLemma
<1>5. /\ UNCHANGED project
      /\ \A s : Continue(q, s) => state' = [state EXCEPT ![q] = s]
  BY <1>1 DEF TargetStep, CheckStamp, ReadHeader, OpenInjection, FlushInjection, TouchStamp,
              Continue
<1>6. ASSUME NEW s \in ProcStates, state' = [state EXCEPT ![q] = s],
             s \in {"read", "emit", "torn"} => ~stampFresh'[project[q]],
             s = "touch" => Whole(project[q])',
             \A p \in Projects : stampFresh'[p] => Whole(p)'
      PROVE  StampInv'
  <2>1. state'[Build] = "idle"
    BY <1>1, <1>2, <1>3, <1>6
  <2>2. \A r \in Procs : state'[r] = IF r = q THEN s ELSE "idle"
    BY <1>1, <1>4, <1>6
  <2> QED BY <1>5, <1>6, <2>1, <2>2 DEF StampInv, Whole
<1>7. CASE CheckStamp(q)
  BY <1>1, <1>2, <1>5, <1>6, <1>7 DEF CheckStamp, Whole, ProcStates
<1>8. CASE ReadHeader(q)
  BY <1>1, <1>2, <1>5, <1>6, <1>8 DEF ReadHeader, Whole, ProcStates
<1>9. CASE OpenInjection(q)
  <2>0. ~stampFresh[project[q]] /\ UNCHANGED stampFresh
    BY <1>2, <1>9 DEF OpenInjection
  <2>1. CASE injection[project[q]].text = read[q] /\ Continue(q, "touch") /\ UNCHANGED injection
    BY <1>1, <1>2, <1>5, <1>6, <2>0, <2>1 DEF Whole, ProcStates
  <2>2. CASE WriteInjection(project[q], "torn") /\ state' = [state EXCEPT ![q] = "torn"]
    <3>1. \A p \in Projects : p # project[q] => injection'[p] = injection[p]
      BY <1>1, <2>2 DEF WriteInjection
    <3> QED BY <1>1, <1>2, <1>6, <2>0, <2>2, <3>1 DEF Whole, ProcStates
  <2>3. CASE Continue(q, "exit1") /\ UNCHANGED injection
    BY <1>1, <1>2, <1>5, <1>6, <2>0, <2>3 DEF Whole, ProcStates
  <2> QED BY <1>9, <2>1, <2>2, <2>3 DEF OpenInjection
<1>10. CASE FlushInjection(q)
  <2>1. WriteInjection(project[q], read[q]) /\ UNCHANGED stampFresh
    BY <1>1, <1>10 DEF FlushInjection
  <2>2. /\ Whole(project[q])'
        /\ \A p \in Projects : p # project[q] => injection'[p] = injection[p]
    BY <1>1, <1>5, <2>1 DEF WriteInjection, Whole
  <2> QED BY <1>1, <1>2, <1>5, <1>6, <1>10, <2>1, <2>2 DEF FlushInjection, Whole, ProcStates
<1>11. CASE TouchStamp(q)
  BY <1>1, <1>2, <1>5, <1>6, <1>11 DEF TouchStamp, Whole, ProcStates
<1> QED BY <1>7, <1>8, <1>9, <1>10, <1>11 DEF TargetStep

LEMMA NextStamp == RunnerInv /\ StampInv /\ [Next]_vars => StampInv'
<1> SUFFICES ASSUME RunnerInv, StampInv, [Next]_vars, Undisturbed' PROVE StampInv'
  BY DEF StampInv
<1>0. /\ TypeOK /\ state \in [Procs -> ProcStates] /\ project \in [Procs -> Projects]
      /\ orphan \in [Procs -> BOOLEAN] /\ stampFresh \in [Projects -> BOOLEAN]
  BY DEF RunnerInv, TypeOK, TargetTypeOK
<1>a. \A s \in Tasks : s \in Procs /\ s # Build
  BY RunnerAssumption DEF Tasks, Build
<1>b. ASSUME FilesKept, UNCHANGED <<orphan, lossy>> PROVE StampInv'
  BY <1>0, <1>b, FilesLemma DEF Undisturbed
<1>c. UNCHANGED targetVars => StampInv'
  BY <1>b DEF targetVars, FilesKept
<1>1. ASSUME NEW p \in Projects, NEW c \in Contents, Save(p, c) PROVE StampInv'
  BY <1>0, <1>1, <1>b DEF Save, WriteHeader, FilesKept
<1>2. CASE OnAfterOpenSolution \/ OnAfterCloseSolution
  BY <1>2, <1>c DEF OnAfterOpenSolution, OnAfterCloseSolution
<1>3. ASSUME NEW p \in Projects, Schedule(p) PROVE StampInv'
  <2>1. scheduled + 1 \in Tasks /\ pc[scheduled + 1] # "msbuild"
    BY <1>3 DEF Schedule, RunnerInv, UnusedAbove, TypeOK, Tasks
  <2>2. orphan[scheduled + 1] = FALSE
    BY <1>0, <1>3, <1>a, <2>1 DEF Schedule, Undisturbed
  <2>3. state[scheduled + 1] = "idle"
    BY <2>1, <2>2 DEF RunnerInv, ProcessOwned
  <2>4. /\ project' = [project EXCEPT ![scheduled + 1] = p]
        /\ UNCHANGED <<stampFresh, injection, state, orphan, lossy>>
    BY <1>3 DEF Schedule
  <2>5. \A q \in Procs : state[q] = "idle" \/ project'[q] = project[q]
    BY <1>0, <2>3, <2>4
  <2>6. FilesKept
    BY <2>4, <2>5 DEF FilesKept
  <2> QED BY <1>b, <2>4, <2>6
<1>4. ASSUME NEW p \in Projects, BuildProject(p) PROVE StampInv'
  BY <1>4 DEF BuildProject, Undisturbed
<1>5. CASE BuildProjectDone
  <2>1. Undisturbed
    BY <1>5 DEF BuildProjectDone, Undisturbed
  <2> QED BY <1>5, <2>1 DEF BuildProjectDone, StampInv, Exited
<1>6. ASSUME NEW t \in Tasks, TaskStep(t) PROVE StampInv'
  <2>1. CASE StartMSBuild(t)
    BY <1>0, <1>a, <1>b, <2>1 DEF StartMSBuild, StartTarget, FilesKept
  <2>2. CASE MSBuildExits(t)
    BY <1>0, <1>a, <1>b, <2>2 DEF MSBuildExits, FilesKept
  <2>3. CASE Deadline(t)
    <3>1. state' = [state EXCEPT ![t] = "idle"] /\ UNCHANGED orphan
      BY <1>0, <1>a, <2>3 DEF Deadline, KillTree, Undisturbed
    <3> QED BY <1>0, <1>a, <1>b, <2>3, <3>1 DEF Deadline, FilesKept
  <2>4. CASE UNCHANGED targetVars
    BY <1>c, <2>4
  <2> QED BY <1>6, <2>1, <2>2, <2>3, <2>4
          DEF TaskStep, Settle, CancelWait, Begin, TakeBefore, StartFails, TakeAfter,
              CancelReport, ReportResult, Throw, Catch, Leave, Finalize, FinalizeWith
<1>7. ASSUME NEW q \in Procs, ProcessStep(q) PROVE StampInv'
  <2>1. Undisturbed
    BY <1>7 DEF ProcessStep, TargetStep, CheckStamp, ReadHeader, OpenInjection,
                FlushInjection, TouchStamp, Undisturbed
  <2> QED BY <1>7, <2>1, ProcessStamp DEF ProcessStep
<1>8. CASE UNCHANGED vars
  BY <1>8, <1>c DEF vars
<1> QED BY <1>1, <1>2, <1>3, <1>4, <1>5, <1>6, <1>7, <1>8 DEF Next

\* For any saves, cancellations, deadlines and faults: as long as a project is
\* generated by one process at a time and its streams lose nothing, a stamp is
\* never newer than a header that is truncated or was never generated.
THEOREM StampIsSound == Spec => []StampSound
<1>1. Init => StampInv
  <2> SUFFICES ASSUME Init PROVE StampInv
    OBVIOUS
  <2>1. header \in [Projects -> Contents] /\ \A p \in Projects : stampFresh[p] => Whole(p)
    BY DEF Init, TargetInit, Whole
  <2>2. \A q \in Procs : state[q] = "idle"
    BY DEF Init, TargetInit
  <2>3. Build \in Procs
    BY RunnerAssumption DEF Build
  <2> QED BY <2>1, <2>2, <2>3 DEF StampInv
<1>2. RunnerInv /\ StampInv /\ [Next]_vars => StampInv'
  BY NextStamp
<1>3. StampInv => StampSound
  BY TargetAssumption DEF StampInv, StampSound, Undisturbed, Whole
<1> QED BY <1>1, <1>2, <1>3, InvHolds, PTL DEF Spec

-----------------------------------------------------------------------------
(***************************************************************************)
(* The refinement: every step of the runner is a step of GenerateOnSave or *)
(* leaves the promised state alone.                                        *)
(***************************************************************************)

Open == {t \in Tasks : Unfinished(t)}
Running == {t \in Tasks : Live(t)}

LEMMA PromiseStarts == Init => Promised!PromiseInit
<1> SUFFICES ASSUME Init PROVE Promised!PromiseInit
  OBVIOUS
<1>1. Open = {} /\ Running = {}
  BY RunnerAssumption DEF Init, TargetInit, Open, Running, Unfinished, Live, Tasks
<1>2. seen \in [Projects -> Nat]
  BY InitType DEF TypeOK
<1> QED BY <1>1, <1>2 DEF Init, Promised!PromiseInit, Open, Running

\* Of the promised state a step changes only what its tasks and processes do.
LEMMA OpenKept == SourcesKept => Open' = Open /\ UNCHANGED <<scheduled, pending>>
BY DEF SourcesKept, Open, Unfinished

LEMMA RunningKept == UNCHANGED <<state, orphan>> => Running' = Running
BY DEF Running, Live

\* A task's steps before its cleanup: MSBuild starts where none runs, ends with
\* its task's wait, and a change is recorded while the task is still there.
LEMMA TaskPromise ==
  ASSUME RunnerInv, NEW t \in Tasks, TaskStep(t), ~Finalize(t)
  PROVE  [Promised!PromiseNext]_(Promised!promised)
<1>0. SourcesKept /\ Open' = Open /\ UNCHANGED <<scheduled, pending>>
  BY TaskInv, OpenKept
<1>a. /\ state \in [Procs -> ProcStates] /\ orphan \in [Procs -> BOOLEAN]
      /\ \A s \in Tasks : s \in Procs
  <2>1. \A s \in Tasks : s \in Procs
    BY RunnerAssumption DEF Tasks
  <2> QED BY <2>1 DEF RunnerInv, TypeOK, TargetTypeOK
<1>1. CASE StartMSBuild(t)
  <2>1. pc[t] = "start" /\ \A s \in Tasks : pc[s] \in Inside => s = t
    BY <1>1 DEF StartMSBuild, RunnerInv, InsideHolds, Inside
  <2>2. Running = {}
    BY <2>1 DEF RunnerInv, ProcessOwned, Running, Live, Inside
  <2>3. Running' = Running \/ Running' = {t}
    BY <1>a, <1>1, <2>2 DEF StartMSBuild, StartTarget, Running, Live
  <2>4. t \in Open
    BY <2>1 DEF Open, Unfinished
  <2>5. UNCHANGED <<generatedCodeChanged, seen, solutionOpen>>
    BY <1>1 DEF StartMSBuild, uiVars, envVars
  <2> QED BY <1>0, <2>2, <2>3, <2>4, <2>5
          DEF Promised!PromiseNext, Promised!Run, Promised!promised, Open, Running
<1>2. CASE MSBuildExits(t) \/ Deadline(t)
  <2>1. pc[t] = "msbuild" /\ \A s \in Tasks : pc[s] \in Inside => s = t
    BY <1>2 DEF MSBuildExits, Deadline, RunnerInv, InsideHolds, Inside
  <2>2. Running \subseteq {t}
    BY <2>1 DEF RunnerInv, ProcessOwned, Running, Live, Inside
  <2>3. Running' = {}
    BY <1>a, <1>2, <2>2 DEF MSBuildExits, Deadline, KillTree, Running, Live
  <2>4. UNCHANGED <<generatedCodeChanged, seen, solutionOpen>>
    BY <1>2 DEF MSBuildExits, Deadline, uiVars, envVars
  <2> QED BY <1>0, <2>2, <2>3, <2>4
          DEF Promised!PromiseNext, Promised!Stop, Promised!promised, Open, Running
<1>3. CASE ReportResult(t)
  <2>1. t \in Open
    BY <1>3 DEF ReportResult, Open, Unfinished
  <2>2. Running' = Running
    BY <1>3, RunningKept DEF ReportResult, targetVars
  <2>3. UNCHANGED <<seen, solutionOpen>>
    BY <1>3 DEF ReportResult, envVars
  <2>4. generatedCodeChanged' = generatedCodeChanged \/ generatedCodeChanged' = TRUE
    BY <1>3 DEF ReportResult, RunnerInv, TypeOK
  <2> QED BY <1>0, <2>1, <2>2, <2>3, <2>4
          DEF Promised!PromiseNext, Promised!Change, Promised!promised, Open, Running
<1>4. CASE Settle(t) \/ CancelWait(t) \/ Begin(t) \/ TakeBefore(t) \/ StartFails(t)
           \/ TakeAfter(t) \/ CancelReport(t) \/ Throw(t) \/ Catch(t) \/ Leave(t)
  <2>1. UNCHANGED <<targetVars, generatedCodeChanged, seen, solutionOpen>>
    BY <1>4 DEF Settle, CancelWait, Begin, TakeBefore, StartFails, TakeAfter,
                CancelReport, Throw, Catch, Leave, uiVars, envVars
  <2>2. Running' = Running
    BY <2>1, RunningKept DEF targetVars
  <2> QED BY <1>0, <2>1, <2>2 DEF Promised!promised, Open, Running
<1> QED BY <1>1, <1>2, <1>3, <1>4 DEF TaskStep

\* The cleanup of a task ends its request, takes no newer one away and shows
\* the changes when it was the last.
LEMMA FinalizePromise ==
  ASSUME RunnerInv, RunnerInv', NEW t \in Tasks, Finalize(t)
  PROVE  Promised!End(t)
<1>1. pc[t] = "final" /\ pc' = [pc EXCEPT ![t] = "done"] /\ pc \in [Tasks -> PCs]
  BY DEF Finalize, FinalizeWith, Goto, RunnerInv, TypeOK
<1>2. t \in Open \ Running
  BY <1>1 DEF Open, Running, Unfinished, Live, RunnerInv, ProcessOwned
<1>3. Open' = Open \ {t}
  BY <1>1 DEF Open, Unfinished
<1>4. Running' = Running
  BY RunningKept DEF Finalize, FinalizeWith, targetVars
<1>5. pending' = [p \in Projects |-> IF pending[p] = t THEN 0 ELSE pending[p]]
  <2>1. pending \in [Projects -> 0..MaxTasks]
    BY DEF RunnerInv, TypeOK
  <2>2. \A p \in Projects : pending[p] = t => p = project[t]
    BY DEF RunnerInv, PendingTask
  <2>3. pending' = [pending EXCEPT ![project[t]] = IF @ = t THEN 0 ELSE @]
    BY DEF Finalize, FinalizeWith, WithoutSource
  <2> QED BY <2>1, <2>2, <2>3
<1>6. seen' \in [Projects -> Nat]
  BY DEF RunnerInv, TypeOK
<1>7. IF generatedCodeChanged /\ \A p \in Projects : pending'[p] = 0
        THEN generatedCodeChanged' = FALSE /\ seen' \in [Projects -> Nat]
        ELSE UNCHANGED <<generatedCodeChanged, seen>>
  BY <1>6 DEF Finalize, FinalizeWith, NonePending
<1>8. UNCHANGED <<scheduled, solutionOpen>>
  BY DEF Finalize, FinalizeWith, envVars
<1> QED BY <1>2, <1>3, <1>4, <1>5, <1>7, <1>8 DEF Promised!End, Open, Running

\* A save's generation is a new request of its project.
LEMMA SchedulePromise ==
  ASSUME RunnerInv, NEW p \in Projects, Schedule(p)
  PROVE  Promised!Request(p)
<1>1. /\ scheduled + 1 \in Tasks /\ pc \in [Tasks -> PCs]
      /\ pc' = [pc EXCEPT ![scheduled + 1] = "settle"]
  BY DEF Schedule, Goto, RunnerInv, TypeOK
<1>2. Open' = Open \cup {scheduled + 1}
  BY <1>1 DEF Open, Unfinished
<1>3. Running' = Running
  BY RunningKept DEF Schedule
<1> QED BY <1>2, <1>3 DEF Schedule, envVars, Promised!Request, Open, Running

LEMMA PromiseStep ==
  RunnerInv /\ RunnerInv' /\ [Next]_vars => [Promised!PromiseNext]_(Promised!promised)
<1> SUFFICES ASSUME RunnerInv, RunnerInv', [Next]_vars
             PROVE  [Promised!PromiseNext]_(Promised!promised)
  OBVIOUS
<1>a. /\ state \in [Procs -> ProcStates] /\ orphan \in [Procs -> BOOLEAN]
      /\ \A s \in Tasks : s \in Procs /\ s # Build
  <2>1. \A s \in Tasks : s \in Procs /\ s # Build
    BY RunnerAssumption DEF Tasks, Build
  <2> QED BY <2>1 DEF RunnerInv, TypeOK, TargetTypeOK
<1>1. ASSUME UNCHANGED <<pc, scheduled, pending, generatedCodeChanged, seen, solutionOpen>>,
             Running' = Running
      PROVE  UNCHANGED Promised!promised
  BY <1>1 DEF Promised!promised, Open, Running, Unfinished
<1>2. ASSUME NEW p \in Projects, NEW c \in Contents, Save(p, c)
      PROVE  [Promised!PromiseNext]_(Promised!promised)
  BY <1>1, <1>2, RunningKept DEF Save, taskVars, envVars
<1>3. CASE OnAfterOpenSolution
  <2>1. seen' \in [Projects -> Nat]
    BY DEF RunnerInv, TypeOK
  <2>2. Open' = Open /\ Running' = Running
    BY <1>3, RunningKept DEF OnAfterOpenSolution, taskVars, targetVars, Open, Unfinished
  <2>3. Promised!OpenSolution
    BY <1>3, <2>1, <2>2 DEF OnAfterOpenSolution, Promised!OpenSolution, Open, Running
  <2> QED BY <2>3 DEF Promised!PromiseNext
<1>4. CASE OnAfterCloseSolution
  <2>1. Open' = Open /\ Running' = Running
    BY <1>4, RunningKept DEF OnAfterCloseSolution, taskVars, targetVars, Open, Unfinished
  <2>2. Promised!CloseSolution
    BY <1>4, <2>1 DEF OnAfterCloseSolution, Promised!CloseSolution, Open, Running
  <2> QED BY <2>2 DEF Promised!PromiseNext
<1>5. ASSUME NEW p \in Projects, Schedule(p)
      PROVE  [Promised!PromiseNext]_(Promised!promised)
  BY <1>5, SchedulePromise DEF Promised!PromiseNext
<1>6. ASSUME NEW p \in Projects, BuildProject(p)
      PROVE  [Promised!PromiseNext]_(Promised!promised)
  <2>1. Running' = Running
    BY <1>a, <1>6 DEF BuildProject, StartTarget, Running, Live
  <2> QED BY <1>1, <1>6, <2>1 DEF BuildProject, taskVars, uiVars
<1>7. CASE BuildProjectDone
  <2>1. Running' = Running
    BY <1>a, <1>7 DEF BuildProjectDone, Running, Live
  <2> QED BY <1>1, <1>7, <2>1 DEF BuildProjectDone, taskVars, uiVars
<1>8. ASSUME NEW t \in Tasks, TaskStep(t)
      PROVE  [Promised!PromiseNext]_(Promised!promised)
  <2>1. CASE Finalize(t)
    <3>1. t \in Open
      BY <2>1 DEF Finalize, FinalizeWith, Open, Unfinished
    <3> QED BY <2>1, <3>1, FinalizePromise DEF Promised!PromiseNext, Open
  <2> QED BY <1>8, <2>1, TaskPromise
<1>9. ASSUME NEW q \in Procs, ProcessStep(q)
      PROVE  [Promised!PromiseNext]_(Promised!promised)
  <2>1. /\ state[q] # "idle" /\ \A r \in Procs : r # q => state'[r] = state[r]
        /\ UNCHANGED orphan
        /\ ~orphan[q] => state'[q] # "idle"
    BY <1>a, <1>9 DEF ProcessStep, TargetStep, CheckStamp, ReadHeader, OpenInjection,
                      FlushInjection, TouchStamp, Continue
  <2>2. Running' = Running
    BY <1>a, <2>1 DEF Running, Live
  <2> QED BY <1>1, <1>9, <2>2 DEF ProcessStep, taskVars, uiVars, envVars
<1>10. CASE UNCHANGED vars
  BY <1>1, <1>10, RunningKept DEF vars, targetVars, taskVars, uiVars, envVars
<1> QED BY <1>2, <1>3, <1>4, <1>5, <1>6, <1>7, <1>8, <1>9, <1>10 DEF Next

\* For any projects, saves, builds and faults, generate-on-save is an
\* implementation of what GenerateOnSave promises.
THEOREM PromiseIsKept == Spec => KeepsPromise
<1>1. Init => Promised!PromiseInit
  BY PromiseStarts
<1>2. RunnerInv /\ RunnerInv' /\ [Next]_vars => [Promised!PromiseNext]_(Promised!promised)
  BY PromiseStep
<1> QED BY <1>1, <1>2, InvHolds, PTL DEF Spec, KeepsPromise, Promised!Promise
=============================================================================
