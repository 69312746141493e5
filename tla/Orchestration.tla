---------------------------- MODULE Orchestration ----------------------------
(***************************************************************************)
(* What stands above single runs (crates/daemon/src/runs.rs, start_fanout, *)
(* start_pipeline, start_judge, land_selected, wait_terminal,              *)
(* cancel_unstarted, cleanup_task_workspaces; crates/orchestrator, plan;   *)
(* the handlers of crates/daemon/src/api.rs that select, land, retry and   *)
(* delete).                                                                *)
(*                                                                         *)
(* One topology is requested for task 0: a pipeline, whose steps a driver  *)
(* in the background starts one after the other and watches by polling     *)
(* rows, or a fan-out, whose members compete, are judged by a further run, *)
(* selected by the judge or a human, and landed.  A run is what            *)
(* RunLifecycle leaves of it for somebody who polls: a row that may become *)
(* terminal before the result is whole, a worktree, and an outcome.        *)
(***************************************************************************)
EXTENDS Integers, FiniteSets

CONSTANTS
  Runs,       \* run ids start_run may mint
  Steps,      \* steps of the pipeline
  Members,    \* members of the fan-out
  None

ASSUME OrchestrationAssumption ==
  /\ IsFiniteSet(Runs) /\ None \notin Runs /\ None \notin Nat
  /\ Steps \in Nat \ {0}
  /\ Members \in Nat \ {0, 1}   \* plan: FanOutTooSmall

VARIABLES
  request,    \* the topology that was asked for
  task,       \* task[t]: status column of task t, "none" if there is no row
  run,        \* run[r]: see Unborn
  trees,      \* worktrees on disk, named by the run they were made for
  driver,     \* the pipeline driver: where it is, its step, its run
  fan,        \* fan-out members still to be launched
  judge,      \* the task that waits for the judge: its run and its candidates
  selected,   \* selected_run_id and selected_by of task 0
  land,       \* land_selected in progress: where it is, the run it read
  merged,     \* runs whose branch was merged into the main checkout
  deleting,   \* delete_task has removed the workspaces, the rows are next
  crashed     \* the daemon died while it had work in hand

vars == <<request, task, run, trees, driver, fan, judge, selected, land,
          merged, deleting, crashed>>

\* plan(): a pipeline of one step reuses the task, a longer one has a
\* sub-task per step.
StepTask(i) == IF Steps = 1 THEN 0 ELSE i
StepTasks   == {StepTask(i) : i \in 1..Steps}
JudgeTask   == Steps + 1
Tasks       == 0..JudgeTask

(***************************************************************************)
(* at      unborn, queued, working (the agent runs), draining (its driver  *)
(*         ended, events are left), sealed (final row), over               *)
(* ends    what the driver returned: ok or bad                             *)
(* row     status column: active, Completed, Failed (any other terminal    *)
(*         status: all are retryable), gone (deleted)                      *)
(* answer  result column: none, partial, whole                             *)
(* saw     the task's status when start_run was called                     *)
(* dir     the run whose worktree it works in                              *)
(***************************************************************************)
Unborn == [at |-> "unborn", ends |-> "none", row |-> "none", answer |-> "none",
           saw |-> "none", dir |-> None, task |-> None]

Status == {"none", "Pending", "InProgress", "Done", "Cancelled"}

RunRecord ==
  [at : {"unborn", "queued", "working", "draining", "sealed", "over"},
   ends : {"none", "ok", "bad"},
   row : {"none", "active", "Completed", "Failed", "gone"},
   answer : {"none", "partial", "whole"},
   saw : Status, dir : Runs \cup {None}, task : Tasks \cup {None}]

Selection == [run : Runs, by : {"human", "agent"}]

TypeOK ==
  /\ request \in {"none", "pipeline", "fanout"}
  /\ task \in [Tasks -> Status]
  /\ run \in [Runs -> RunRecord]
  /\ trees \subseteq Runs /\ merged \subseteq Runs
  /\ driver \in [at : {"none", "launch", "wait", "cancel", "gone"},
                 step : 0..(Steps + 1), run : Runs \cup {None}]
  /\ fan \in 0..Members
  /\ judge \in [at : {"none", "wait", "gone"}, run : Runs \cup {None},
                candidates : SUBSET Runs]
  /\ selected \in Selection \cup {None}
  /\ land \in [at : {"none", "merge", "sweep"}, run : Runs \cup {None}]
  /\ deleting \in BOOLEAN /\ crashed \in BOOLEAN

Init ==
  /\ request = "none"
  /\ task = [t \in Tasks |-> IF t = 0 THEN "Pending" ELSE "none"]
  /\ run = [r \in Runs |-> Unborn]
  /\ trees = {} /\ merged = {}
  /\ driver = [at |-> "none", step |-> 0, run |-> None]
  /\ fan = 0
  /\ judge = [at |-> "none", run |-> None, candidates |-> {}]
  /\ selected = None
  /\ land = [at |-> "none", run |-> None]
  /\ deleting = FALSE /\ crashed = FALSE

Terminal(r) == run[r].row \in {"Completed", "Failed"}

\* UPDATE runs ... WHERE id = ?: a row that is gone stays gone.
RowOf(r, status) == IF run[r].row = "gone" THEN "gone" ELSE status

\* UPDATE tasks SET status ... WHERE id = ?
WithStatus(t, s) == IF task[t] = "none" THEN task ELSE [task EXCEPT ![t] = s]

(***************************************************************************)
(* start_run, for whoever calls it.                                        *)
(***************************************************************************)

\* What an accepted launch leaves: a row, and a supervisor at the gate.
Accepted(r, t, d) ==
  /\ run[r].at = "unborn"
  /\ run' = [run EXCEPT ![r] = [Unborn EXCEPT !.at = "queued", !.row = "active",
                                 !.task = t, !.saw = task[t], !.dir = d]]

\* A refused launch leaves a Failed row and returns an error.
RefusedRow(r, t, d) ==
  /\ run[r].at = "unborn"
  /\ run' = [run EXCEPT ![r] = [Unborn EXCEPT !.at = "over", !.row = "Failed",
                                 !.task = t, !.saw = task[t], !.dir = d]]

\* An error before insert_run leaves nothing.
Refused(t) == (\E r \in Runs : RefusedRow(r, t, None)) \/ UNCHANGED run

(***************************************************************************)
(* The life of a run, as its rows tell it.                                 *)
(***************************************************************************)

\* create_workspace, the first update_run, the task (back) to InProgress.  A
\* member of a fan-out gets a worktree of its own, a retry works on in the
\* directory it was given.
RunStarts(r) ==
  LET own == request = "fanout" /\ run[r].task = 0 /\ run[r].dir = None
  IN  /\ run[r].at = "queued"
      /\ run' = [run EXCEPT ![r].at = "working",
                            ![r].dir = IF own THEN r ELSE @]
      /\ trees' = IF own THEN trees \cup {r} ELSE trees
      /\ task' = IF run[r].saw \in {"Pending", "Done"}
                 THEN WithStatus(run[r].task, "InProgress") ELSE task
      /\ UNCHANGED <<request, driver, fan, judge, selected, land, merged,
                     deleting, crashed>>

\* Cancelled in the queue, or no workspace.
RunFailsEarly(r) ==
  /\ run[r].at = "queued"
  /\ run' = [run EXCEPT ![r].at = "over", ![r].row = RowOf(r, "Failed")]
  /\ UNCHANGED <<request, task, trees, driver, fan, judge, selected, land,
                 merged, deleting, crashed>>

\* The driver returns, or the run is cancelled: the agent is gone.
AgentEnds(r) ==
  /\ run[r].at = "working"
  /\ \E e \in {"ok", "bad"} : run' = [run EXCEPT ![r].at = "draining", ![r].ends = e]
  /\ UNCHANGED <<request, task, trees, driver, fan, judge, selected, land,
                 merged, deleting, crashed>>

Verdict(r) == IF run[r].ends = "ok" THEN "Completed" ELSE "Failed"

\* A usage update is drained: a detached task writes the row as it stands.
RunRowEarly(r) ==
  /\ run[r].at = "draining" /\ run[r].answer = "none"
  /\ run' = [run EXCEPT ![r].row = RowOf(r, Verdict(r)), ![r].answer = "partial"]
  /\ UNCHANGED <<request, task, trees, driver, fan, judge, selected, land,
                 merged, deleting, crashed>>

\* The drain is over: the final row.
RunSeals(r) ==
  /\ run[r].at = "draining"
  /\ run' = [run EXCEPT ![r].at = "sealed", ![r].row = RowOf(r, Verdict(r)),
                        ![r].answer = IF run[r].ends = "ok" THEN "whole" ELSE @]
  /\ UNCHANGED <<request, task, trees, driver, fan, judge, selected, land,
                 merged, deleting, crashed>>

\* The task of a completed run is Done.
RunLeaves(r) ==
  /\ run[r].at = "sealed"
  /\ run' = [run EXCEPT ![r].at = "over"]
  /\ task' = IF run[r].ends = "ok" THEN WithStatus(run[r].task, "Done") ELSE task
  /\ UNCHANGED <<request, trees, driver, fan, judge, selected, land, merged,
                 deleting, crashed>>

\* retry_run, by a human: the same task and the same workspace.
RetryRun(old, r) ==
  /\ run[old].row = "Failed" /\ task[run[old].task] # "none"
  /\ \/ Accepted(r, run[old].task, run[old].dir)
     \/ RefusedRow(r, run[old].task, run[old].dir)
  /\ UNCHANGED <<request, task, trees, driver, fan, judge, selected, land,
                 merged, deleting, crashed>>

(***************************************************************************)
(* The pipeline.                                                           *)
(***************************************************************************)

\* The sub-tasks and edges are inserted, the driver is spawned.
StartPipeline ==
  /\ request = "none" /\ task[0] # "none" /\ ~crashed
  /\ request' = "pipeline"
  /\ task' = [t \in Tasks |-> IF t \in StepTasks \ {0} THEN "Pending" ELSE task[t]]
  /\ driver' = [at |-> "launch", step |-> 1, run |-> None]
  /\ UNCHANGED <<run, trees, fan, judge, selected, land, merged, deleting,
                 crashed>>

\* An insert, of a sub-task or an edge, fails: the sub-tasks before it stay,
\* and nobody drives them.
PipelineNotStarted ==
  /\ request = "none" /\ task[0] # "none" /\ ~crashed
  /\ request' = "pipeline"
  /\ \E n \in 0..Steps :
       task' = [t \in Tasks |-> IF t \in {StepTask(i) : i \in 1..n} \ {0}
                               THEN "Pending" ELSE task[t]]
  /\ UNCHANGED <<run, trees, driver, fan, judge, selected, land, merged,
                 deleting, crashed>>

\* start_run accepts the step.
DriverLaunches ==
  /\ driver.at = "launch"
  /\ \E r \in Runs : /\ Accepted(r, StepTask(driver.step), None)
                     /\ driver' = [driver EXCEPT !.at = "wait", !.run = r]
  /\ UNCHANGED <<request, task, trees, fan, judge, selected, land, merged,
                 deleting, crashed>>

\* The agent of the step is not registered any more, or start_run fails.
DriverCannotLaunch ==
  /\ driver.at = "launch"
  /\ Refused(StepTask(driver.step))
  /\ driver' = [driver EXCEPT !.at = "cancel"]
  /\ UNCHANGED <<request, task, trees, fan, judge, selected, land, merged,
                 deleting, crashed>>

\* wait_terminal: the next poll finds a terminal row.
\* Mutated form: any terminal status lets the chain go on.
DriverPollsAnyEnd ==
  /\ driver.at = "wait" /\ Terminal(driver.run)
  /\ driver' = [driver EXCEPT
       !.at = IF driver.step = Steps THEN "gone" ELSE "launch", !.step = @ + 1]
  /\ UNCHANGED <<request, task, run, trees, fan, judge, selected, land, merged,
                 deleting, crashed>>

DriverPolls ==
  /\ driver.at = "wait" /\ Terminal(driver.run)
  /\ driver' = [driver EXCEPT
       !.at = CASE run[driver.run].row # "Completed" -> "cancel"
                [] driver.step = Steps -> "gone"
                [] OTHER -> "launch",
       !.step = @ + 1]
  /\ UNCHANGED <<request, task, run, trees, fan, judge, selected, land, merged,
                 deleting, crashed>>

\* wait_terminal fails: the row is gone, or 30 minutes are over.
\* Mutated form: there is no ceiling.
DriverWaitFailsIfGone ==
  /\ driver.at = "wait" /\ run[driver.run].row = "gone"
  /\ driver' = [driver EXCEPT !.at = "cancel", !.step = @ + 1]
  /\ UNCHANGED <<request, task, run, trees, fan, judge, selected, land, merged,
                 deleting, crashed>>

DriverWaitFails ==
  /\ driver.at = "wait"
  /\ driver' = [driver EXCEPT !.at = "cancel", !.step = @ + 1]
  /\ UNCHANGED <<request, task, run, trees, fan, judge, selected, land, merged,
                 deleting, crashed>>

\* cancel_unstarted: one write per task, from driver.step on.
\* Mutated form: the step that could not be started is left out.
DriverCancelsRest ==
  /\ driver.at = "cancel"
  /\ IF driver.step >= Steps
     THEN driver' = [driver EXCEPT !.at = "gone"] /\ UNCHANGED task
     ELSE /\ driver' = [driver EXCEPT !.step = @ + 1]
          /\ task' = WithStatus(StepTask(driver.step + 1), "Cancelled")
  /\ UNCHANGED <<request, run, trees, fan, judge, selected, land, merged,
                 deleting, crashed>>

DriverCancels ==
  /\ driver.at = "cancel"
  /\ IF driver.step > Steps
     THEN driver' = [driver EXCEPT !.at = "gone"] /\ UNCHANGED task
     ELSE /\ driver' = [driver EXCEPT !.step = @ + 1]
          /\ task' = WithStatus(StepTask(driver.step), "Cancelled")
  /\ UNCHANGED <<request, run, trees, fan, judge, selected, land, merged,
                 deleting, crashed>>

(***************************************************************************)
(* Fan-out, judge and selection.                                           *)
(***************************************************************************)
StartFanout ==
  /\ request = "none" /\ task[0] # "none" /\ ~crashed
  /\ request' = "fanout"
  /\ fan' = Members
  /\ UNCHANGED <<task, run, trees, driver, judge, selected, land, merged,
                 deleting, crashed>>

\* One member after the other; the first error ends the request and leaves
\* the members that were launched.
LaunchMember ==
  /\ fan > 0
  /\ \/ /\ \E r \in Runs : Accepted(r, 0, None)
        /\ fan' = fan - 1
     \/ Refused(0) /\ fan' = 0
  /\ UNCHANGED <<request, task, trees, driver, judge, selected, land, merged,
                 deleting, crashed>>

\* judge_task and start_judge: the completed runs of the task with a result
\* are the candidates; the judge is a run of a task of its own.
Candidates == {r \in Runs : /\ run[r].task = 0 /\ run[r].row = "Completed"
                            /\ run[r].answer # "none"}

StartJudge ==
  /\ judge.at = "none" /\ request = "fanout" /\ task[0] # "none"
  /\ Cardinality(Candidates) >= 2
  /\ task' = [task EXCEPT ![JudgeTask] = "Pending"]
  /\ \/ \E r \in Runs : /\ Accepted(r, JudgeTask, None)
                        /\ judge' = [at |-> "wait", run |-> r, candidates |-> Candidates]
     \/ Refused(JudgeTask) /\ judge' = [judge EXCEPT !.at = "gone"]
  /\ UNCHANGED <<request, trees, driver, fan, selected, land, merged, deleting,
                 crashed>>

\* set_selected_run
Select(r, by) ==
  selected' = IF task[0] = "none" THEN selected ELSE [run |-> r, by |-> by]

\* The verdict is taken from the result of whatever terminal row is polled
\* first: it names a candidate, or nothing usable.
JudgeDecides ==
  /\ judge.at = "wait" /\ Terminal(judge.run)
  /\ judge' = [judge EXCEPT !.at = "gone"]
  /\ \/ /\ run[judge.run].answer # "none"
        /\ \E w \in judge.candidates : Select(w, "agent")
     \/ UNCHANGED <<selected>>
  /\ UNCHANGED <<request, task, run, trees, driver, fan, land, merged,
                 deleting, crashed>>

JudgeWaitFails ==
  /\ judge.at = "wait"
  /\ judge' = [judge EXCEPT !.at = "gone"]
  /\ UNCHANGED <<request, task, run, trees, driver, fan, selected, land,
                 merged, deleting, crashed>>

\* select_run: only completed runs.  The row is read a call before the selection
\* is written, to the task alone; one step stands for both, since what the read has
\* seen of the run, that its agent delivered, stays so until the task goes, and
\* then the write finds no row.
\* Mutated form: any run of the task.
HumanSelectsAny(r) ==
  /\ run[r].task = 0 /\ run[r].row \notin {"none", "gone"} /\ request = "fanout"
  /\ Select(r, "human")
  /\ UNCHANGED <<request, task, run, trees, driver, fan, judge, land, merged,
                 deleting, crashed>>

HumanSelects(r) ==
  /\ run[r].task = 0 /\ run[r].row = "Completed" /\ request = "fanout"
  /\ Select(r, "human")
  /\ UNCHANGED <<request, task, run, trees, driver, fan, judge, land, merged,
                 deleting, crashed>>

(***************************************************************************)
(* land_selected: the selection and the row are read, the branch of the    *)
(* run is merged, the workspaces of the task are swept.                    *)
(***************************************************************************)
LandReads ==
  /\ land.at = "none" /\ task[0] # "none" /\ selected # None
  /\ run[selected.run].row # "gone"
  /\ run[selected.run].dir \in trees
  /\ land' = [at |-> "merge", run |-> selected.run]
  /\ UNCHANGED <<request, task, run, trees, driver, fan, judge, selected,
                 merged, deleting, crashed>>

\* git merge ruagent/run-<id>: the branch is named after the run the worktree
\* was made for.  A conflict, a clean branch or a missing one fails and cleans
\* nothing.
\* Mutated form: the sweep follows whatever git said.
LandSweepsAnyway ==
  /\ land.at = "merge"
  /\ merged' \in {merged, merged \cup ({land.run} \cap trees)}
  /\ land' = [land EXCEPT !.at = "sweep"]
  /\ UNCHANGED <<request, task, run, trees, driver, fan, judge, selected,
                 deleting, crashed>>

LandMerges ==
  /\ land.at = "merge"
  /\ \/ /\ land.run \in trees
        /\ merged' = merged \cup {land.run}
        /\ land' = [land EXCEPT !.at = "sweep"]
     \/ land' = [at |-> "none", run |-> None] /\ UNCHANGED merged
  /\ UNCHANGED <<request, task, run, trees, driver, fan, judge, selected,
                 deleting, crashed>>

\* cleanup_task_workspaces: every workspace a row of the task names.
Swept == {run[r].dir : r \in {q \in Runs : /\ run[q].task = 0 /\ run[q].row # "gone"
                                           /\ run[q].at # "queued"}}

LandSweeps ==
  /\ land.at = "sweep"
  /\ trees' = trees \ Swept
  /\ land' = [at |-> "none", run |-> None]
  /\ UNCHANGED <<request, task, run, driver, fan, judge, selected, merged,
                 deleting, crashed>>

\* delete_task of the api: the workspaces first, then the rows.
DeleteSweeps ==
  /\ ~deleting /\ task[0] # "none" /\ request # "none"
  /\ trees' = trees \ Swept
  /\ deleting' = TRUE
  /\ UNCHANGED <<request, task, run, driver, fan, judge, selected, land,
                 merged, crashed>>

DeleteRows ==
  /\ deleting
  /\ task' = [task EXCEPT ![0] = "none"]
  /\ run' = [r \in Runs |-> IF run[r].task = 0 THEN [run[r] EXCEPT !.row = "gone"] ELSE run[r]]
  /\ selected' = None
  /\ deleting' = FALSE
  /\ UNCHANGED <<request, trees, driver, fan, judge, land, merged, crashed>>

\* The daemon dies and boots: background tasks and agents are gone, active
\* rows become Interrupted, and no task row is looked at.
CrashAndBoot ==
  /\ request # "none" /\ ~crashed
  /\ crashed' = TRUE
  /\ run' = [r \in Runs |-> IF run[r].at = "unborn" THEN run[r]
                            ELSE [run[r] EXCEPT !.at = "over",
                                    !.row = IF @ = "active" THEN "Failed" ELSE @]]
  /\ driver' = [driver EXCEPT !.at = IF @ = "none" THEN @ ELSE "gone"]
  /\ judge' = [judge EXCEPT !.at = IF @ = "none" THEN @ ELSE "gone"]
  /\ land' = [at |-> "none", run |-> None]
  /\ fan' = 0
  /\ deleting' = FALSE
  /\ UNCHANGED <<request, task, trees, selected, merged>>

RunStep(r) ==
  \/ RunStarts(r) \/ RunFailsEarly(r) \/ AgentEnds(r) \/ RunRowEarly(r)
  \/ RunSeals(r) \/ RunLeaves(r)

DriverStep ==
  \/ DriverLaunches \/ DriverCannotLaunch \/ DriverPolls \/ DriverWaitFails
  \/ DriverCancels

Next ==
  \/ \E r \in Runs : RunStep(r) \/ HumanSelects(r) \/ \E old \in Runs : RetryRun(old, r)
  \/ StartPipeline \/ PipelineNotStarted \/ DriverStep
  \/ StartFanout \/ LaunchMember \/ StartJudge \/ JudgeDecides \/ JudgeWaitFails
  \/ LandReads \/ LandMerges \/ LandSweeps
  \/ DeleteSweeps \/ DeleteRows
  \/ CrashAndBoot

Safety == Init /\ [][Next]_vars

\* The driver is a task of its own: the runtime polls it, the store answers,
\* and the ceiling of wait_terminal comes.
Spec == Safety /\ WF_vars(DriverStep)

(***************************************************************************)
(* What orchestration promises.                                            *)
(***************************************************************************)

\* A step of a pipeline is launched only after the agent of the step before
\* it delivered, whatever is retried, polled early or cancelled meanwhile.
StepsFollowTheirUpstream ==
  request = "pipeline" =>
    \A i \in 2..Steps : \A r \in Runs :
      run[r].task = StepTask(i) =>
        \E u \in Runs : run[u].task = StepTask(i - 1) /\ run[u].ends = "ok"

\* When the driver has left, no step that was never launched is Pending (a
\* crash leaves them so: no boot looks at tasks).
BrokenChainsAreClosed ==
  request = "pipeline" /\ driver.at = "gone" /\ ~crashed =>
    \A i \in 1..Steps :
      task[StepTask(i)] = "Pending" => \E r \in Runs : run[r].task = StepTask(i)

\* A driver ends: nothing a run, a human or the gate does keeps it waiting.
PipelinesEnd == driver.at # "none" ~> driver.at = "gone"

\* Whatever was selected or merged is the work of an agent that delivered.
WinnersDelivered ==
  /\ selected # None => run[selected.run].ends = "ok"
  /\ \A r \in merged : run[r].ends = "ok" /\ run[r].task = 0

\* The worktree of a member disappears only when a winner of its task is in
\* the main checkout, or with the task: a failed landing cleans nothing.
TreesAreKept ==
  \A r \in Runs :
    run[r].dir = r /\ run[r].row # "gone" /\ ~deleting /\ ~crashed /\ merged = {} =>
      r \in trees

==============================================================================
