-------------------------- MODULE GenerationRunner --------------------------
(***************************************************************************)
(* Generate-on-save in the Visual Studio extension: SaveListener and       *)
(* SolutionListener schedule generations, GenerationRunner runs each as an *)
(* asynchronous task (settle delay, semaphore, MSBuild process, report,    *)
(* cleanup), DiagnosticsReporter keeps the Error List.  Every await of the *)
(* code is a boundary between two steps; steps that run on the UI thread   *)
(* are atomic with respect to one another, and a UI handler that loops     *)
(* over projects keeps the UI thread (uiQueue) until it is through.        *)
(*                                                                         *)
(* Task t owns MSBuild process t of ReflgenTarget; process 0 is VS's own   *)
(* build.                                                                  *)
(***************************************************************************)
EXTENDS ReflgenTarget

CONSTANTS
  MaxTasks,   (* bound: calls of Schedule                                  *)
  Importing,  (* projects whose vcxproj imports reflgen.targets            *)
  Builds      (* whether the user starts VS builds                         *)

Tasks == 1..MaxTasks
Build == 0

ASSUME RunnerAssumption ==
  /\ MaxTasks \in Nat \ {0}
  /\ Importing \subseteq Projects
  /\ Builds \in BOOLEAN
  /\ Procs = 0..MaxTasks

VARIABLES
  pc,           (* pc[t]: the await task t is suspended at                 *)
  cancelled,    (* cancelled[t]: t's CancellationTokenSource is cancelled  *)
  disposed,     (* disposed[t]: it is disposed                             *)
  before,       (* before[t]: the snapshot taken before MSBuild ran        *)
  changed,      (* changed[t]: the snapshots differ                        *)
  outcome,      (* outcome[t]: how GenerateAsync ended, as far as it got    *)
  scheduled,    (* number of tasks started so far                          *)
  pending,      (* _pending[p]: the source of p's newest task, 0 if none   *)
  holder,       (* the task that holds _oneAtATime, 0 if free              *)
  generatedCodeChanged,
  seen,         (* seen[p]: the generated header IntelliSense last read    *)
  errorList,    (* errorList[p]: reflgen's Error List items of p           *)
  uiQueue,      (* projects the running UI handler has yet to schedule     *)
  solutionOpen,
  building      (* a VS build is running                                   *)

taskVars == <<pc, cancelled, disposed, before, changed, outcome>>
uiVars == <<scheduled, pending, generatedCodeChanged, seen, errorList>>
envVars == <<solutionOpen, building>>
vars == <<targetVars, taskVars, uiVars, holder, uiQueue, envVars>>

\* Where a task can be suspended.  "settle" Task.Delay, "wait" WaitAsync,
\* "entered" the continuation with the semaphore taken, "before"/"after" the
\* two snapshots, "start" and "msbuild" the external process, "report" the
\* switch back to the UI thread, "catch" the same in the exception handler,
\* "leave" the finally block, "final" its switch to the UI thread.
Inside == {"entered", "before", "start", "msbuild", "after", "report", "catch"}
Outcomes == {"none", "skipped", "succeeded", "failed"}
PCs == {"unused", "settle", "wait", "leave", "final", "done"} \cup Inside

UIFree == uiQueue = {}
Goto(t, to) == pc' = [pc EXCEPT ![t] = to]
Report(p, items) == errorList' = [errorList EXCEPT ![p] = items]

TypeOK ==
  /\ TargetTypeOK
  /\ pc \in [Tasks -> PCs]
  /\ cancelled \in [Tasks -> BOOLEAN]
  /\ disposed \in [Tasks -> BOOLEAN]
  /\ before \in [Tasks -> Nat]
  /\ changed \in [Tasks -> BOOLEAN]
  /\ outcome \in [Tasks -> Outcomes]
  /\ scheduled \in 0..MaxTasks
  /\ pending \in [Projects -> 0..MaxTasks]
  /\ holder \in 0..MaxTasks
  /\ generatedCodeChanged \in BOOLEAN
  /\ seen \in [Projects -> Nat]
  /\ errorList \in [Projects -> {"none", "clean", "warning", "error"}]
  /\ uiQueue \subseteq Projects
  /\ solutionOpen \in BOOLEAN
  /\ building \in BOOLEAN

Init ==
  /\ TargetInit
  /\ pc = [t \in Tasks |-> "unused"]
  /\ cancelled = [t \in Tasks |-> FALSE]
  /\ disposed = [t \in Tasks |-> FALSE]
  /\ before = [t \in Tasks |-> 0]
  /\ changed = [t \in Tasks |-> FALSE]
  /\ outcome = [t \in Tasks |-> "none"]
  /\ scheduled = 0
  /\ pending = [p \in Projects |-> 0]
  /\ holder = 0
  /\ generatedCodeChanged = FALSE
  /\ seen = [p \in Projects |-> 0]
  /\ errorList = [p \in Projects |-> "none"]
  /\ uiQueue = {}
  /\ solutionOpen = FALSE
  /\ building = FALSE

-----------------------------------------------------------------------------
(***************************************************************************)
(* The UI thread: saves, solution events and Schedule.                     *)
(***************************************************************************)

\* The editor writes the header, then OnAfterSave routes it: a project that
\* does not import reflgen.targets gets a warning, any other is scheduled.
Save(p, c) ==
  /\ UIFree /\ solutionOpen
  /\ scheduled < MaxTasks
  /\ WriteHeader(p, c)
  /\ IF p \in Importing THEN uiQueue' = {p} /\ UNCHANGED errorList
                        ELSE Report(p, "warning") /\ UNCHANGED uiQueue
  /\ UNCHANGED <<injection, state, project, read, orphan, lossy, taskVars, scheduled,
                 pending, holder, generatedCodeChanged, seen, envVars>>

\* ProjectBridge.NeedsFirstGeneration: no generator banner in the file.
NeedsFirstGeneration(p) ==
  p \in Importing /\ injection[p].text = "placeholder"

\* Opening a solution makes IntelliSense read the generated headers, and
\* GenerateNeverGenerated schedules the projects that have none.  A file whose
\* writing was cut short may have its banner or not.
OnAfterOpenSolution ==
  /\ UIFree /\ ~solutionOpen
  /\ scheduled + Cardinality(Projects) <= MaxTasks
  /\ solutionOpen' = TRUE
  /\ seen' = [p \in Projects |-> injection[p].time]
  /\ \E truncated \in SUBSET {p \in Importing : injection[p].text = "torn"} :
       uiQueue' = truncated \cup {p \in Projects : NeedsFirstGeneration(p)}
  /\ UNCHANGED <<targetVars, taskVars, scheduled, pending, holder,
                 generatedCodeChanged, errorList, building>>

OnAfterCloseSolution ==
  /\ UIFree /\ solutionOpen /\ ~building
  /\ solutionOpen' = FALSE
  /\ errorList' = [p \in Projects |-> "none"]
  /\ UNCHANGED <<targetVars, taskVars, scheduled, pending, holder,
                 generatedCodeChanged, seen, uiQueue, building>>

\* Mutant: the source is registered under the next task's number.
Schedule_OffByOne(p) ==
  LET t == scheduled + 1 IN
  /\ p \in uiQueue /\ t \in Tasks
  /\ uiQueue' = uiQueue \ {p}
  /\ cancelled' = [s \in Tasks |-> cancelled[s] \/ s = pending[p]]
  /\ pending' = [pending EXCEPT ![p] = t + 1]
  /\ scheduled' = t
  /\ Goto(t, "settle")
  /\ project' = [project EXCEPT ![t] = p]
  /\ UNCHANGED <<header, stampFresh, injection, state, read, orphan, lossy, disposed,
                 before, changed, outcome, holder, generatedCodeChanged,
                 seen, errorList, envVars>>

\* Cancel the project's previous source, register a new one, start the task.
Schedule(p) ==
  LET t == scheduled + 1 IN
  /\ p \in uiQueue /\ t \in Tasks
  /\ uiQueue' = uiQueue \ {p}
  /\ cancelled' = [s \in Tasks |-> cancelled[s] \/ s = pending[p]]
  /\ pending' = [pending EXCEPT ![p] = t]
  /\ scheduled' = t
  /\ Goto(t, "settle")
  /\ project' = [project EXCEPT ![t] = p]
  /\ UNCHANGED <<header, stampFresh, injection, state, read, orphan, lossy, disposed,
                 before, changed, outcome, holder, generatedCodeChanged,
                 seen, errorList, envVars>>

-----------------------------------------------------------------------------
(***************************************************************************)
(* RunAsync.                                                               *)
(***************************************************************************)

\* The delay is over and WaitAsync is called.  Either call turns a cancelled
\* token into OperationCanceledException; a free semaphore is taken at once.
Settle(t) ==
  /\ UIFree /\ pc[t] = "settle"
  /\ \/ /\ cancelled[t]
        /\ Goto(t, "leave")
        /\ UNCHANGED holder
     \/ /\ ~cancelled[t] /\ holder = 0
        /\ Goto(t, "entered")
        /\ holder' = t
     \/ /\ ~cancelled[t] /\ holder # 0
        /\ Goto(t, "wait")
        /\ UNCHANGED holder
  /\ UNCHANGED <<targetVars, cancelled, disposed, before, changed, outcome,
                 uiVars, uiQueue, envVars>>

CancelWait(t) ==
  /\ pc[t] = "wait" /\ cancelled[t]
  /\ Goto(t, "leave")
  /\ UNCHANGED <<targetVars, cancelled, disposed, before, changed, outcome,
                 uiVars, holder, uiQueue, envVars>>

\* The start of GenerateAsync, on the UI thread: leave it to a running build,
\* report a missing MSBuild.exe, or go on.
Begin(t) ==
  /\ UIFree /\ pc[t] = "entered"
  /\ \/ /\ building
        /\ Goto(t, "leave")
        /\ outcome' = [outcome EXCEPT ![t] = "skipped"]
        /\ UNCHANGED errorList
     \/ /\ ~building /\ "msbuild" \in Faults
        /\ Goto(t, "leave")
        /\ outcome' = [outcome EXCEPT ![t] = "failed"]
        /\ Report(project[t], "error")
     \/ /\ ~building
        /\ Goto(t, "before")
        /\ UNCHANGED <<outcome, errorList>>
  /\ UNCHANGED <<targetVars, cancelled, disposed, before, changed, scheduled,
                 pending, generatedCodeChanged, seen, holder, uiQueue, envVars>>

TakeBefore(t) ==
  /\ pc[t] = "before"
  /\ before' = [before EXCEPT ![t] = injection[project[t]].time]
  /\ Goto(t, "start")
  /\ UNCHANGED <<targetVars, cancelled, disposed, changed, outcome, uiVars,
                 holder, uiQueue, envVars>>

StartMSBuild(t) ==
  /\ pc[t] = "start"
  /\ Goto(t, "msbuild")
  /\ StartTarget(t, project[t])
  /\ UNCHANGED <<cancelled, disposed, before, changed, outcome, uiVars,
                 holder, uiQueue, envVars>>

\* Win32Exception from Process.Start becomes a result with exit code -1.
StartFails(t) ==
  /\ pc[t] = "start" /\ "msbuild" \in Faults
  /\ Goto(t, "after")
  /\ outcome' = [outcome EXCEPT ![t] = "failed"]
  /\ UNCHANGED <<targetVars, cancelled, disposed, before, changed, uiVars,
                 holder, uiQueue, envVars>>

\* ProcessRunner.RunAsync: WhenAny of the exit and the deadline, which the
\* token is linked to.  The exit may win although the token is cancelled.
MSBuildExits(t) ==
  /\ pc[t] = "msbuild" /\ state[t] \in Exited
  /\ outcome' = [outcome EXCEPT ![t] =
                   IF state[t] = "exit0" THEN "succeeded" ELSE "failed"]
  /\ state' = [state EXCEPT ![t] = "idle"]
  /\ Goto(t, "after")
  /\ UNCHANGED <<header, stampFresh, injection, project, read, orphan, lossy,
                 cancelled, disposed, before, changed, uiVars, holder,
                 uiQueue, envVars>>

\* The deadline: after five minutes, or because the token is cancelled.  The
\* tree is killed; a cancelled token then throws, else TimedOut is returned.
Deadline(t) ==
  /\ pc[t] = "msbuild"
  /\ KillTree(t)
  /\ Goto(t, IF cancelled[t] THEN "leave" ELSE "after")
  /\ outcome' = [outcome EXCEPT ![t] = "failed"]
  /\ UNCHANGED <<header, stampFresh, injection, project, read, lossy, cancelled,
                 disposed, before, changed, uiVars, holder, uiQueue, envVars>>

TakeAfter(t) ==
  /\ pc[t] = "after"
  /\ changed' = [changed EXCEPT ![t] = injection[project[t]].time # before[t]]
  /\ Goto(t, "report")
  /\ UNCHANGED <<targetVars, cancelled, disposed, before, outcome, uiVars,
                 holder, uiQueue, envVars>>

\* SwitchToMainThreadAsync(token) from a pool thread throws when the token is
\* cancelled before the UI thread is reached.
CancelReport(t) ==
  /\ pc[t] = "report" /\ cancelled[t]
  /\ Goto(t, "leave")
  /\ UNCHANGED <<targetVars, cancelled, disposed, before, changed, outcome,
                 uiVars, holder, uiQueue, envVars>>

ReportResult(t) ==
  /\ UIFree /\ pc[t] = "report"
  /\ Report(project[t], IF outcome[t] = "succeeded" THEN "clean" ELSE "error")
  /\ generatedCodeChanged' = (generatedCodeChanged \/ changed[t])
  /\ Goto(t, "leave")
  /\ UNCHANGED <<targetVars, cancelled, disposed, before, changed, outcome,
                 scheduled, pending, seen, holder, uiQueue, envVars>>

\* Any other exception out of GenerateAsync (project system, file system).
Throw(t) ==
  /\ "io" \in Faults
  /\ pc[t] \in {"entered", "before", "after", "report"}
  /\ Goto(t, "catch")
  /\ UNCHANGED <<targetVars, cancelled, disposed, before, changed, outcome,
                 uiVars, holder, uiQueue, envVars>>

Catch(t) ==
  /\ UIFree /\ pc[t] = "catch"
  /\ Report(project[t], "error")
  /\ Goto(t, "leave")
  /\ UNCHANGED <<targetVars, cancelled, disposed, before, changed, outcome,
                 scheduled, pending, generatedCodeChanged, seen, holder,
                 uiQueue, envVars>>

\* finally, first half: a task that entered releases the semaphore, which
\* passes to a waiter if there is one (SemaphoreSlim promises no order).
Waiting(t) == pc[t] = "wait"

\* Mutants: Release without looking at `entered`; a task that never releases.
Leave_Unentered(t) ==
  /\ pc[t] = "leave"
  /\ holder' = 0
  /\ Goto(t, "final")
  /\ UNCHANGED <<targetVars, cancelled, disposed, before, changed, outcome,
                 uiVars, uiQueue, envVars>>
Leave_NoRelease(t) ==
  /\ pc[t] = "leave"
  /\ Goto(t, "final")
  /\ UNCHANGED <<targetVars, cancelled, disposed, before, changed, outcome,
                 uiVars, holder, uiQueue, envVars>>

Leave(t) ==
  /\ pc[t] = "leave"
  /\ \/ /\ holder # t \/ \A s \in Tasks : ~Waiting(s)
        /\ holder' = IF holder = t THEN 0 ELSE holder
        /\ Goto(t, "final")
     \/ \E s \in Tasks :
          /\ holder = t /\ Waiting(s)
          /\ holder' = s
          /\ pc' = [pc EXCEPT ![t] = "final", ![s] = "entered"]
  /\ UNCHANGED <<targetVars, cancelled, disposed, before, changed, outcome,
                 uiVars, uiQueue, envVars>>

\* RefreshIntelliSense: Project.RescanSolution reads every generated header.
RefreshIntelliSense ==
  \/ seen' = [p \in Projects |-> injection[p].time]
  \/ "rescan" \in Faults /\ UNCHANGED seen

NonePending(f) == \A p \in Projects : f[p] = 0

FinalizeWith(t, pendingAfter, refresh) ==
  /\ UIFree /\ pc[t] = "final"
  /\ pending' = pendingAfter
  /\ disposed' = [disposed EXCEPT ![t] = TRUE]
  /\ IF generatedCodeChanged /\ refresh
       THEN generatedCodeChanged' = FALSE /\ RefreshIntelliSense
       ELSE UNCHANGED <<generatedCodeChanged, seen>>
  /\ Goto(t, "done")
  /\ UNCHANGED <<targetVars, cancelled, before, changed, outcome, scheduled,
                 errorList, holder, uiQueue, envVars>>

\* The source is taken out of _pending unless a newer one replaced it.
WithoutSource(t) == [pending EXCEPT ![project[t]] = IF @ = t THEN 0 ELSE @]

\* Mutants: the entry stays; it is removed although a newer source replaced
\* it; the entries are counted before the removal; they are not counted.
Finalize_KeepEntry(t) == FinalizeWith(t, pending, NonePending(pending))
Finalize_RemoveAny(t) ==
  LET after == [pending EXCEPT ![project[t]] = 0]
  IN  FinalizeWith(t, after, NonePending(after))
Finalize_CountFirst(t) == FinalizeWith(t, WithoutSource(t), NonePending(pending))
Finalize_NoCount(t) == FinalizeWith(t, WithoutSource(t), TRUE)

\* finally, second half, on the UI thread: the last pending generation
\* refreshes IntelliSense if any of them changed the generated code.
Finalize(t) == FinalizeWith(t, WithoutSource(t), NonePending(WithoutSource(t)))

-----------------------------------------------------------------------------
(***************************************************************************)
(* VS builds and the processes.                                            *)
(***************************************************************************)

\* A build evaluates the same target, project after project.
BuildProject(p) ==
  /\ Builds /\ UIFree /\ solutionOpen /\ p \in Importing
  /\ building' = TRUE
  /\ StartTarget(Build, p)
  /\ UNCHANGED <<taskVars, uiVars, holder, uiQueue, solutionOpen>>

BuildProjectDone ==
  /\ state[Build] \in Exited
  /\ building' = FALSE
  /\ state' = [state EXCEPT ![Build] = "idle"]
  /\ UNCHANGED <<header, stampFresh, injection, project, read, orphan, lossy,
                 taskVars, uiVars, holder, uiQueue, solutionOpen>>

ProcessStep(q) ==
  /\ TargetStep(q)
  /\ UNCHANGED <<taskVars, uiVars, holder, uiQueue, envVars>>

TaskStep(t) ==
  \/ Settle(t) \/ CancelWait(t) \/ Begin(t) \/ TakeBefore(t)
  \/ StartMSBuild(t) \/ StartFails(t) \/ MSBuildExits(t) \/ Deadline(t)
  \/ TakeAfter(t) \/ CancelReport(t) \/ ReportResult(t) \/ Throw(t) \/ Catch(t)
  \/ Leave(t) \/ Finalize(t)

Next ==
  \/ \E p \in Projects, c \in Contents : Save(p, c)
  \/ OnAfterOpenSolution
  \/ OnAfterCloseSolution
  \/ \E p \in Projects : Schedule(p) \/ BuildProject(p)
  \/ BuildProjectDone
  \/ \E t \in Tasks : TaskStep(t)
  \/ \E q \in Procs : ProcessStep(q)

Spec == Init /\ [][Next]_vars

\* Timers, the thread pool and the UI message loop keep running.  The MSBuild
\* process itself is not assumed to end: the five-minute deadline is.
Fairness ==
  /\ \A p \in Projects : WF_vars(Schedule(p))
  /\ \A t \in Tasks : WF_vars(TaskStep(t))

FairSpec == Spec /\ Fairness

-----------------------------------------------------------------------------
(***************************************************************************)
(* Properties.                                                             *)
(***************************************************************************)

Unfinished(t) == pc[t] \notin {"unused", "done"}
Quiescent == UIFree /\ (\A t \in Tasks : ~Unfinished(t)) /\ \A q \in Procs : state[q] = "idle"

\* "Schedule only cancels what is in _pending, so nobody uses it any more":
\* a source that RunAsync disposed is never found in _pending, where Schedule
\* would call Cancel on it.
LiveSource == \A p \in Projects, t \in Tasks : pending[p] = t => ~disposed[t]

\* A save makes every earlier generation of its project void: whatever is
\* still under way and not cancelled is the task _pending names, so a later
\* save will find it and cancel it.
LatestOnly ==
  \A t \in Tasks : Unfinished(t) /\ ~cancelled[t] => pending[project[t]] = t

\* "MSBuild runs one at a time": two tasks never have an MSBuild process each,
\* also when one was cancelled, timed out or threw.
OneMSBuild ==
  \A s, t \in Tasks :
    state[s] # "idle" /\ ~orphan[s] /\ state[t] # "idle" /\ ~orphan[t] => s = t

\* _generatedCodeChanged is never left behind: while it is set there is a task
\* whose finally block has still to look at it.
RefreshOwed == generatedCodeChanged => \E t \in Tasks : Unfinished(t)

Live(t) == state[t] # "idle" /\ ~orphan[t]

\* What the runner promises, of the state the code keeps.
Promised == INSTANCE GenerateOnSave WITH
  issued <- scheduled,
  open <- {t \in Tasks : Unfinished(t)},
  latest <- pending,
  running <- {t \in Tasks : Live(t)},
  due <- generatedCodeChanged,
  shown <- seen,
  session <- solutionOpen

\* Generate-on-save keeps its promise through every cancellation, deadline,
\* exception and cleanup: a save supersedes the generation before it and never
\* a newer one, no MSBuild starts beside another, and "IntelliSense is
\* refreshed once, after all the waiting generations have ended" and never
\* forgotten (GenerationRunner.cs:31).
KeepsPromise == Promised!Promise

\* A generator killed half way, by a newer save or by the deadline, leaves a
\* truncated header but never a stamp that hides it from the next run, as long
\* as no other process generates the same project: a VS build, or a generator
\* that outlived its MSBuild, may truncate the header while this one touches
\* the stamp.
StampSound ==
  ~Builds /\ ~lossy /\ (\A q \in Procs : ~orphan[q]) =>
    \A p \in Projects : stampFresh[p] => injection[p].text \notin {"placeholder", "torn"}

\* Every scheduled generation ends: a hung MSBuild is stopped by the deadline
\* and the semaphore is always passed on.
TasksEnd == \A t \in Tasks : pc[t] = "settle" ~> pc[t] = "done"

\* A change of the generated code that was recorded is acted upon.
RefreshHappens == generatedCodeChanged ~> ~generatedCodeChanged

\* "Saving the same project again throws the earlier generation away and runs
\* once with the latest content": when everything has come to rest and the
\* Error List reports success, the generated code is that of the header.
LatestContentGenerated ==
  Quiescent => \A p \in Projects : errorList[p] = "clean" => injection[p].text = header[p]
=============================================================================
