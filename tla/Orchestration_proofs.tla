------------------------- MODULE Orchestration_proofs -------------------------
(***************************************************************************)
(* What the pipeline driver, the judge, humans and landing keep between    *)
(* them, for every number of runs, steps and members: steps follow the     *)
(* step before, broken chains are closed, winners delivered, and no        *)
(* worktree is swept for nothing.                                          *)
(***************************************************************************)
EXTENDS Orchestration, TLAPS

\* What a record of a run tells by itself.
Good(x) ==
  /\ x.at = "unborn" => x = Unborn
  /\ x.at # "unborn" => x.task \in Tasks /\ x.row # "none"
  /\ x.at \in {"queued", "working"} => x.ends = "none"
  /\ x.row = "Completed" => x.ends = "ok"

Records == \A r \in Runs : Good(run[r])

Delivers(t) == \E u \in Runs : run[u].task = t /\ run[u].ends = "ok"

\* StepsFollowTheirUpstream, whatever was requested.
Chain ==
  \A i \in 2..Steps : \A r \in Runs :
    run[r].task = StepTask(i) => Delivers(StepTask(i - 1))

Drives ==
  /\ driver.at \in {"launch", "wait"} => driver.step \in 1..Steps
  /\ driver.at = "cancel" => driver.step \in 1..(Steps + 1)
  /\ driver.at = "wait" => /\ driver.run \in Runs
                           /\ run[driver.run].task = StepTask(driver.step)
  /\ driver.at = "launch" /\ driver.step >= 2 => Delivers(StepTask(driver.step - 1))
  /\ request = "none" => driver.at = "none"

\* The driver has dealt with the steps up to this one.
Upto == CASE driver.at = "none" -> 0
          [] driver.at = "wait" -> driver.step
          [] driver.at = "gone" -> Steps
          [] OTHER -> driver.step - 1

Launched(t) == \E r \in Runs : run[r].task = t

Settled ==
  ~crashed =>
    \A i \in 1..Steps : i <= Upto /\ task[StepTask(i)] = "Pending" => Launched(StepTask(i))

\* A worktree is made for a run of task 0, and handed on only by that run.
Dirs ==
  \A x \in Runs : run[x].dir # None =>
    run[run[x].dir].dir = run[x].dir /\ run[run[x].dir].task = 0

Delivered(r) == r \in Runs /\ run[r].ends = "ok" /\ run[r].task = 0

Winners ==
  /\ selected # None => Delivered(selected.run)
  /\ judge.at = "wait" => \A w \in judge.candidates : Delivered(w)
  /\ land.at = "merge" => Delivered(land.run)
  /\ \A r \in merged : Delivered(r)

Landing == land.at = "sweep" => merged # {}

OrchInv == /\ TypeOK /\ Records /\ Chain /\ Drives /\ Settled
           /\ Dirs /\ Winners /\ Landing /\ TreesAreKept

-----------------------------------------------------------------------------
(***************************************************************************)
(* What a step may do to the runs.                                         *)
(***************************************************************************)

\* A run that was launched stays of its task, delivers once, and gets its
\* worktree once.
Ages(q) ==
  /\ run'[q].at # "unborn" /\ run'[q].task = run[q].task
  /\ run[q].ends = "ok" => run'[q].ends = "ok"
  /\ run[q].row = "gone" => run'[q].row = "gone"
  /\ \/ run'[q].dir = run[q].dir
     \/ run[q].dir = None /\ run'[q].dir = q /\ run[q].task = 0 /\ q \in trees'

\* A run is launched for task 0 or the judge, for the driver's step, or in
\* the place of another.
IsBorn(q) ==
  \/ run'[q].task \in {0, JudgeTask} /\ run'[q].dir = None
  \/ driver.at = "launch" /\ run'[q].task = StepTask(driver.step) /\ run'[q].dir = None
  \/ \E old \in Runs : /\ run[old].at # "unborn"
                       /\ run'[q].task = run[old].task /\ run'[q].dir = run[old].dir

RunsMove ==
  /\ run' \in [Runs -> RunRecord] /\ Records'
  /\ \A q \in Runs : IF run[q].at # "unborn" THEN Ages(q)
                     ELSE run'[q] = run[q] \/ (run'[q].at # "unborn" /\ IsBorn(q))

-----------------------------------------------------------------------------
LEMMA StepTasksDiffer ==
  ASSUME NEW i \in 1..Steps
  PROVE  /\ StepTask(i) \in Tasks /\ StepTask(i) # JudgeTask
         /\ \A j \in 1..Steps : StepTask(i) = StepTask(j) => i = j
         /\ i >= 2 => StepTask(i) # 0
         /\ 0 \in Tasks /\ JudgeTask \in Tasks /\ JudgeTask # 0
         /\ StepTask(i) \in Nat
BY OrchestrationAssumption DEF OrchestrationAssumption, StepTask, JudgeTask, Tasks

LEMMA UnbornRecord ==
  /\ Unborn \in RunRecord /\ Good(Unborn)
  /\ Unborn.at = "unborn" /\ Unborn.dir = None /\ Unborn.task = None
  /\ Unborn.ends = "none" /\ Unborn.row = "none"
BY DEF Unborn, RunRecord, Good, Status

LEMMA OrchInit == Init => OrchInv
<1> SUFFICES ASSUME Init PROVE OrchInv
  OBVIOUS
<1>0. \A r \in Runs : run[r] = Unborn
  BY DEF Init
<1>a. 0 \in Tasks /\ Steps \in Nat \ {0} /\ None \notin Nat
  BY OrchestrationAssumption DEF OrchestrationAssumption, Tasks, JudgeTask
<1>1. TypeOK
  <2>1. run \in [Runs -> RunRecord]
    BY UnbornRecord DEF Init
  <2>2. task \in [Tasks -> Status]
    BY DEF Init, Status
  <2>3. /\ driver \in [at : {"none", "launch", "wait", "cancel", "gone"},
                       step : 0..(Steps + 1), run : Runs \cup {None}]
        /\ judge \in [at : {"none", "wait", "gone"}, run : Runs \cup {None},
                      candidates : SUBSET Runs]
        /\ land \in [at : {"none", "merge", "sweep"}, run : Runs \cup {None}]
    BY <1>a DEF Init
  <2>4. fan \in 0..Members
    BY OrchestrationAssumption DEF Init, OrchestrationAssumption
  <2> QED BY <2>1, <2>2, <2>3, <2>4 DEF Init, TypeOK
<1>2. Records /\ Dirs
  BY <1>0, UnbornRecord DEF Records, Dirs
<1>3. Chain
  BY <1>0, <1>a, UnbornRecord, StepTasksDiffer DEF Chain
<1>4. Drives /\ Settled
  BY <1>a DEF Init, Drives, Settled, Upto
<1>5. Winners /\ Landing
  BY DEF Init, Winners, Landing
<1>6. TreesAreKept
  BY <1>0, UnbornRecord, OrchestrationAssumption DEF TreesAreKept, OrchestrationAssumption
<1> QED BY <1>1, <1>2, <1>3, <1>4, <1>5, <1>6 DEF OrchInv

-----------------------------------------------------------------------------
\* One record is written over.
LEMMA OneRunMoves ==
  ASSUME OrchInv, NEW r \in Runs, NEW x \in RunRecord,
         run' = [run EXCEPT ![r] = x], Good(x), x.at # "unborn",
         run[r].at # "unborn" =>
           /\ x.task = run[r].task
           /\ run[r].ends = "ok" => x.ends = "ok"
           /\ run[r].row = "gone" => x.row = "gone"
           /\ \/ x.dir = run[r].dir
              \/ run[r].dir = None /\ x.dir = r /\ run[r].task = 0 /\ r \in trees',
         run[r].at = "unborn" =>
           \/ x.task \in {0, JudgeTask} /\ x.dir = None
           \/ driver.at = "launch" /\ x.task = StepTask(driver.step) /\ x.dir = None
           \/ \E old \in Runs : /\ run[old].at # "unborn"
                                /\ x.task = run[old].task /\ x.dir = run[old].dir
  PROVE  RunsMove
<1>1. run \in [Runs -> RunRecord] /\ Records
  BY DEF OrchInv, TypeOK
<1>2. run'[r] = x /\ run' \in [Runs -> RunRecord] /\ \A q \in Runs \ {r} : run'[q] = run[q]
  BY <1>1
<1>3. Records'
  BY <1>1, <1>2 DEF Records
<1>4. ASSUME NEW q \in Runs
      PROVE  IF run[q].at # "unborn" THEN Ages(q)
             ELSE run'[q] = run[q] \/ (run'[q].at # "unborn" /\ IsBorn(q))
  <2>1. CASE q # r
    BY <1>2, <2>1 DEF Ages
  <2>2. CASE q = r /\ run[q].at # "unborn"
    BY <1>2, <2>2 DEF Ages
  <2>3. CASE q = r /\ run[q].at = "unborn"
    BY <1>2, <2>3 DEF IsBorn
  <2> QED BY <2>1, <2>2, <2>3
<1> QED BY <1>2, <1>3, <1>4 DEF RunsMove

LEMMA NoRunMoves ==
  ASSUME OrchInv, UNCHANGED run
  PROVE  RunsMove
BY DEF OrchInv, TypeOK, RunsMove, Records, Ages

\* A launch, accepted or refused, for a task and a directory somebody may
\* launch for.
LEMMA LaunchMoves ==
  ASSUME OrchInv, NEW r \in Runs, NEW t \in Tasks, NEW d \in Runs \cup {None},
         Accepted(r, t, d) \/ RefusedRow(r, t, d),
         \/ t \in {0, JudgeTask} /\ d = None
         \/ driver.at = "launch" /\ t = StepTask(driver.step) /\ d = None
         \/ \E old \in Runs : run[old].at # "unborn" /\ t = run[old].task /\ d = run[old].dir
  PROVE  RunsMove /\ run[r].at = "unborn" /\ run'[r].task = t /\ run'[r].at # "unborn"
<1>1. run \in [Runs -> RunRecord] /\ task[t] \in Status /\ run[r].at = "unborn"
  BY DEF OrchInv, TypeOK, Accepted, RefusedRow
<1>2. CASE Accepted(r, t, d)
  <2> DEFINE x == [Unborn EXCEPT !.at = "queued", !.row = "active",
                                 !.task = t, !.saw = task[t], !.dir = d]
  <2>1. x \in RunRecord /\ Good(x) /\ x.at = "queued" /\ x.task = t /\ x.dir = d
    BY <1>1 DEF Unborn, RunRecord, Good
  <2>2. run' = [run EXCEPT ![r] = x]
    BY <1>2 DEF Accepted
  <2> HIDE DEF x
  <2>3. RunsMove
    BY <1>1, <2>1, <2>2, OneRunMoves
  <2> QED BY <1>1, <2>1, <2>2, <2>3
<1>3. CASE RefusedRow(r, t, d)
  <2> DEFINE x == [Unborn EXCEPT !.at = "over", !.row = "Failed",
                                 !.task = t, !.saw = task[t], !.dir = d]
  <2>1. x \in RunRecord /\ Good(x) /\ x.at = "over" /\ x.task = t /\ x.dir = d
    BY <1>1 DEF Unborn, RunRecord, Good
  <2>2. run' = [run EXCEPT ![r] = x]
    BY <1>3 DEF RefusedRow
  <2> HIDE DEF x
  <2>3. RunsMove
    BY <1>1, <2>1, <2>2, OneRunMoves
  <2> QED BY <1>1, <2>1, <2>2, <2>3
<1> QED BY <1>2, <1>3

\* A run's own life.
LEMMA LifeMoves ==
  ASSUME OrchInv, NEW r \in Runs, RunStep(r)
  PROVE  RunsMove
<1>0. /\ run \in [Runs -> RunRecord] /\ run[r] \in RunRecord /\ Good(run[r])
      /\ trees \subseteq Runs
  BY DEF OrchInv, TypeOK, Records
<1>1. CASE RunStarts(r)
  <2> DEFINE own == request = "fanout" /\ run[r].task = 0 /\ run[r].dir = None
             x == [run[r] EXCEPT !.at = "working", !.dir = IF own THEN r ELSE run[r].dir]
  <2>1. run[r].at = "queued" /\ (own => r \in trees')
    BY <1>1 DEF RunStarts
  <2>2. run' = [run EXCEPT ![r] = x]
    BY <1>0, <1>1 DEF RunStarts
  <2>3. /\ x \in RunRecord /\ Good(x) /\ x.at = "working" /\ x.task = run[r].task
        /\ x.ends = run[r].ends /\ x.row = run[r].row
        /\ x.dir = run[r].dir \/ (own /\ x.dir = r)
    BY <1>0, <2>1 DEF RunRecord, Good
  <2> HIDE DEF x
  <2> QED BY <2>1, <2>2, <2>3, OneRunMoves
<1>2. CASE RunFailsEarly(r)
  <2> DEFINE x == [run[r] EXCEPT !.at = "over", !.row = RowOf(r, "Failed")]
  <2>1. run[r].at = "queued" /\ run' = [run EXCEPT ![r] = x]
    BY <1>0, <1>2 DEF RunFailsEarly
  <2>2. /\ x \in RunRecord /\ Good(x) /\ x.at = "over" /\ x.task = run[r].task
        /\ x.ends = run[r].ends /\ x.dir = run[r].dir /\ (run[r].row = "gone" => x.row = "gone")
    BY <1>0, <2>1 DEF RunRecord, Good, RowOf
  <2> HIDE DEF x
  <2> QED BY <2>1, <2>2, OneRunMoves
<1>3. CASE AgentEnds(r)
  <2>1. run[r].at = "working"
    BY <1>3 DEF AgentEnds
  <2>2. PICK e \in {"ok", "bad"} : run' = [run EXCEPT ![r].at = "draining", ![r].ends = e]
    BY <1>3 DEF AgentEnds
  <2> DEFINE x == [run[r] EXCEPT !.at = "draining", !.ends = e]
  <2>3. run' = [run EXCEPT ![r] = x]
    BY <1>0, <2>2
  <2>4. /\ x \in RunRecord /\ Good(x) /\ x.at = "draining" /\ x.task = run[r].task
        /\ x.dir = run[r].dir /\ x.row = run[r].row /\ run[r].ends = "none"
    BY <1>0, <2>1 DEF RunRecord, Good
  <2> HIDE DEF x
  <2> QED BY <2>1, <2>3, <2>4, OneRunMoves
<1>4. CASE RunRowEarly(r)
  <2> DEFINE x == [run[r] EXCEPT !.row = RowOf(r, Verdict(r)), !.answer = "partial"]
  <2>1. run[r].at = "draining" /\ run' = [run EXCEPT ![r] = x]
    BY <1>0, <1>4 DEF RunRowEarly
  <2>2. /\ x \in RunRecord /\ Good(x) /\ x.at = "draining" /\ x.task = run[r].task
        /\ x.ends = run[r].ends /\ x.dir = run[r].dir /\ (run[r].row = "gone" => x.row = "gone")
    BY <1>0, <2>1 DEF RunRecord, Good, RowOf, Verdict
  <2> HIDE DEF x
  <2> QED BY <2>1, <2>2, OneRunMoves
<1>5. CASE RunSeals(r)
  <2> DEFINE x == [run[r] EXCEPT !.at = "sealed", !.row = RowOf(r, Verdict(r)),
                                 !.answer = IF run[r].ends = "ok" THEN "whole"
                                            ELSE run[r].answer]
  <2>1. run[r].at = "draining" /\ run' = [run EXCEPT ![r] = x]
    BY <1>0, <1>5 DEF RunSeals
  <2>2. /\ x \in RunRecord /\ Good(x) /\ x.at = "sealed" /\ x.task = run[r].task
        /\ x.ends = run[r].ends /\ x.dir = run[r].dir /\ (run[r].row = "gone" => x.row = "gone")
    BY <1>0, <2>1 DEF RunRecord, Good, RowOf, Verdict
  <2> HIDE DEF x
  <2> QED BY <2>1, <2>2, OneRunMoves
<1>6. CASE RunLeaves(r)
  <2> DEFINE x == [run[r] EXCEPT !.at = "over"]
  <2>1. run[r].at = "sealed" /\ run' = [run EXCEPT ![r] = x]
    BY <1>0, <1>6 DEF RunLeaves
  <2>2. /\ x \in RunRecord /\ Good(x) /\ x.at = "over" /\ x.task = run[r].task
        /\ x.ends = run[r].ends /\ x.dir = run[r].dir /\ x.row = run[r].row
    BY <1>0, <2>1 DEF RunRecord, Good
  <2> HIDE DEF x
  <2> QED BY <2>1, <2>2, OneRunMoves
<1> QED BY <1>1, <1>2, <1>3, <1>4, <1>5, <1>6 DEF RunStep

\* Rows are deleted, or the daemon dies: records change all at once.
LEMMA AllRunsMove ==
  ASSUME OrchInv, DeleteRows \/ CrashAndBoot
  PROVE  RunsMove
<1>0. run \in [Runs -> RunRecord] /\ Records /\ None \notin Nat
  BY OrchestrationAssumption DEF OrchInv, TypeOK, OrchestrationAssumption
<1>1. ASSUME NEW q \in Runs
      PROVE  /\ run'[q] \in RunRecord /\ Good(run'[q])
             /\ IF run[q].at # "unborn" THEN Ages(q) ELSE run'[q] = run[q]
  <2>0. run[q] \in RunRecord /\ Good(run[q])
    BY <1>0 DEF Records
  <2>1. CASE DeleteRows
    <3>1. CASE run[q].task = 0
      <4>1. run'[q] = [run[q] EXCEPT !.row = "gone"]
        BY <2>1, <3>1 DEF DeleteRows
      <4>2. run[q].at # "unborn"
        BY <1>0, <2>0, <3>1, UnbornRecord DEF Good
      <4> QED BY <2>0, <4>1, <4>2 DEF RunRecord, Good, Ages
    <3>2. CASE run[q].task # 0
      <4>1. run'[q] = run[q]
        BY <2>1, <3>2 DEF DeleteRows
      <4> QED BY <2>0, <4>1 DEF Ages
    <3> QED BY <3>1, <3>2
  <2>2. CASE CrashAndBoot
    <3>1. CASE run[q].at = "unborn"
      <4>1. run'[q] = run[q]
        BY <2>2, <3>1 DEF CrashAndBoot
      <4> QED BY <2>0, <3>1, <4>1
    <3>2. CASE run[q].at # "unborn"
      <4>1. run'[q] = [run[q] EXCEPT !.at = "over",
                         !.row = IF run[q].row = "active" THEN "Failed" ELSE run[q].row]
        BY <2>2, <3>2 DEF CrashAndBoot
      <4> QED BY <2>0, <3>2, <4>1 DEF RunRecord, Good, Ages
    <3> QED BY <3>1, <3>2
  <2> QED BY <2>1, <2>2
<1>2. run' \in [Runs -> RunRecord]
  <2>1. \E f : run' = [q \in Runs |-> f[q]]
    BY DEF DeleteRows, CrashAndBoot
  <2>2. run' = [q \in Runs |-> run'[q]]
    BY <2>1
  <2> QED BY <1>1, <2>2
<1> QED BY <1>1, <1>2 DEF RunsMove, Records

\* Whoever may launch.
LEMMA LaunchersMove ==
  ASSUME OrchInv, \/ DriverLaunches \/ DriverCannotLaunch \/ LaunchMember \/ StartJudge
                  \/ \E old, r \in Runs : RetryRun(old, r)
  PROVE  RunsMove
<1>0. /\ driver.at = "launch" => StepTask(driver.step) \in Tasks
      /\ 0 \in Tasks /\ JudgeTask \in Tasks
  BY StepTasksDiffer, OrchestrationAssumption DEF OrchInv, Drives, Tasks, JudgeTask, OrchestrationAssumption
<1>1. CASE DriverLaunches \/ DriverCannotLaunch
  <2>1. CASE UNCHANGED run
    BY <2>1, NoRunMoves
  <2>2. CASE ~ UNCHANGED run
    <3>1. driver.at = "launch"
      BY <1>1 DEF DriverLaunches, DriverCannotLaunch
    <3>2. PICK r \in Runs : \/ Accepted(r, StepTask(driver.step), None)
                            \/ RefusedRow(r, StepTask(driver.step), None)
      BY <1>1, <2>2 DEF DriverLaunches, DriverCannotLaunch, Refused
    <3> QED BY <1>0, <3>1, <3>2, LaunchMoves
  <2> QED BY <2>1, <2>2
<1>2. CASE LaunchMember
  <2>1. CASE UNCHANGED run
    BY <2>1, NoRunMoves
  <2>2. CASE ~ UNCHANGED run
    <3>1. PICK r \in Runs : Accepted(r, 0, None) \/ RefusedRow(r, 0, None)
      BY <1>2, <2>2 DEF LaunchMember, Refused
    <3> QED BY <1>0, <3>1, LaunchMoves
  <2> QED BY <2>1, <2>2
<1>3. CASE StartJudge
  <2>1. CASE UNCHANGED run
    BY <2>1, NoRunMoves
  <2>2. CASE ~ UNCHANGED run
    <3>1. PICK r \in Runs : Accepted(r, JudgeTask, None) \/ RefusedRow(r, JudgeTask, None)
      BY <1>3, <2>2 DEF StartJudge, Refused
    <3> QED BY <1>0, <3>1, LaunchMoves
  <2> QED BY <2>1, <2>2
<1>4. CASE \E old, r \in Runs : RetryRun(old, r)
  <2>1. PICK old \in Runs, r \in Runs : RetryRun(old, r)
    BY <1>4
  <2>2. run[old] \in RunRecord /\ Good(run[old]) /\ run[old].row = "Failed"
    BY <2>1 DEF OrchInv, TypeOK, Records, RetryRun
  <2>3. run[old].at # "unborn" /\ run[old].task \in Tasks /\ run[old].dir \in Runs \cup {None}
    BY <2>2, UnbornRecord DEF Good, RunRecord
  <2>4. Accepted(r, run[old].task, run[old].dir) \/ RefusedRow(r, run[old].task, run[old].dir)
    BY <2>1 DEF RetryRun
  <2> QED BY <2>3, <2>4, LaunchMoves
<1> QED BY <1>1, <1>2, <1>3, <1>4

LEMMA EveryStepMoves ==
  ASSUME OrchInv, [Next]_vars
  PROVE  RunsMove
<1>1. CASE UNCHANGED run
  BY <1>1, NoRunMoves
<1>2. CASE \E r \in Runs : RunStep(r)
  BY <1>2, LifeMoves
<1>3. CASE \/ DriverLaunches \/ DriverCannotLaunch \/ LaunchMember \/ StartJudge
           \/ \E old, r \in Runs : RetryRun(old, r)
  BY <1>3, LaunchersMove
<1>4. CASE DeleteRows \/ CrashAndBoot
  BY <1>4, AllRunsMove
<1>5. CASE UNCHANGED vars
  BY <1>1, <1>5 DEF vars
<1>6. CASE \/ \E r \in Runs : HumanSelects(r)
           \/ StartPipeline \/ PipelineNotStarted \/ DriverPolls \/ DriverWaitFails
           \/ DriverCancels \/ StartFanout \/ JudgeDecides \/ JudgeWaitFails
           \/ LandReads \/ LandMerges \/ LandSweeps \/ DeleteSweeps
  <2>1. UNCHANGED run
    BY <1>6 DEF HumanSelects, StartPipeline, PipelineNotStarted, DriverPolls, DriverWaitFails,
                DriverCancels, StartFanout, JudgeDecides, JudgeWaitFails, LandReads, LandMerges,
                LandSweeps, DeleteSweeps
  <2> QED BY <1>1, <2>1
<1> QED BY <1>2, <1>3, <1>4, <1>5, <1>6 DEF Next, DriverStep

-----------------------------------------------------------------------------
(***************************************************************************)
(* What follows from that alone.                                           *)
(***************************************************************************)

\* A task that was delivered, or launched for, stays so; a run that
\* delivered stays a winner.
LEMMA DeliveredStays ==
  ASSUME OrchInv, RunsMove
  PROVE  /\ \A t \in Nat : Delivers(t) => Delivers(t)'
         /\ \A t \in Nat : Launched(t) => Launched(t)'
         /\ \A r \in Runs : Delivered(r) => Delivered(r)'
<1>0. /\ None \notin Nat
      /\ \A q \in Runs : /\ run[q].task \in Nat => run[q].at # "unborn"
                         /\ run[q].at # "unborn" => Ages(q)
  BY OrchestrationAssumption, UnbornRecord DEF OrchInv, Records, Good, RunsMove,
     OrchestrationAssumption
<1>1. ASSUME NEW t \in Nat, Delivers(t) PROVE Delivers(t)'
  BY <1>0, <1>1 DEF Delivers, Ages
<1>2. ASSUME NEW t \in Nat, Launched(t) PROVE Launched(t)'
  BY <1>0, <1>2 DEF Launched, Ages
<1>3. ASSUME NEW r \in Runs, Delivered(r) PROVE Delivered(r)'
  BY <1>0, <1>3 DEF Delivered, Ages
<1> QED BY <1>1, <1>2, <1>3

LEMMA ChainStays ==
  ASSUME OrchInv, RunsMove
  PROVE  Chain'
<1> SUFFICES ASSUME NEW i \in 2..Steps, NEW r \in Runs, run'[r].task = StepTask(i)
             PROVE  Delivers(StepTask(i - 1))'
  BY DEF Chain
<1>0. /\ i \in 1..Steps /\ i - 1 \in 1..Steps /\ i >= 2
      /\ StepTask(i) \in Nat /\ StepTask(i - 1) \in Nat
      /\ StepTask(i) # 0 /\ StepTask(i) # JudgeTask
      /\ \A j \in 1..Steps : StepTask(i) = StepTask(j) => i = j
  <2>1. i \in 1..Steps /\ i - 1 \in 1..Steps /\ i >= 2
    BY OrchestrationAssumption DEF OrchestrationAssumption
  <2> QED BY <2>1, StepTasksDiffer
<1>1. CASE run[r].at # "unborn"
  <2>1. run[r].task = StepTask(i)
    BY <1>1 DEF RunsMove, Ages
  <2> QED BY <1>0, <2>1, DeliveredStays DEF OrchInv, Chain
<1>2. CASE run[r].at = "unborn" /\ run'[r] = run[r]
  BY <1>0, <1>2, UnbornRecord, OrchestrationAssumption
     DEF OrchInv, Records, Good, OrchestrationAssumption
<1>3. CASE IsBorn(r)
  <2>1. CASE driver.at = "launch" /\ run'[r].task = StepTask(driver.step)
    <3>1. driver.step = i
      BY <1>0, <2>1 DEF OrchInv, Drives
    <3> QED BY <1>0, <2>1, <3>1, DeliveredStays DEF OrchInv, Drives
  <2>2. CASE \E old \in Runs : run[old].at # "unborn" /\ run'[r].task = run[old].task
    BY <1>0, <2>2, DeliveredStays DEF OrchInv, Chain
  <2> QED BY <1>0, <1>3, <2>1, <2>2 DEF IsBorn
<1> QED BY <1>1, <1>2, <1>3 DEF RunsMove

LEMMA DirsStay ==
  ASSUME OrchInv, RunsMove
  PROVE  Dirs'
<1> SUFFICES ASSUME NEW x \in Runs, run'[x].dir # None
             PROVE  run'[run'[x].dir].dir = run'[x].dir /\ run'[run'[x].dir].task = 0
  BY DEF Dirs
<1>0. /\ None \notin Runs /\ run \in [Runs -> RunRecord]
      /\ \A q \in Runs : run[q].dir \in Runs \cup {None}
      /\ \A q \in Runs : run[q].dir # None => run[q].at # "unborn"
  BY OrchestrationAssumption, UnbornRecord DEF OrchInv, TypeOK, Records, Good, RunRecord,
     OrchestrationAssumption
<1>1. \A q \in Runs : run[q].dir # None =>
         /\ run[q].dir \in Runs /\ run[run[q].dir].dir = run[q].dir
         /\ run[run[q].dir].task = 0 /\ run[run[q].dir].at # "unborn"
  BY <1>0 DEF OrchInv, Dirs
<1>2. \A q \in Runs : run[q].dir = q =>
         run'[q].dir = q /\ run'[q].task = run[q].task
  BY <1>0 DEF RunsMove, Ages
<1>3. ASSUME NEW q \in Runs, run[q].dir # None, run'[x].dir = run[q].dir
      PROVE  run'[run'[x].dir].dir = run'[x].dir /\ run'[run'[x].dir].task = 0
  BY <1>1, <1>2, <1>3
<1>4. CASE run[x].at # "unborn"
  <2>1. CASE run'[x].dir = run[x].dir
    BY <1>3, <2>1
  <2>2. CASE run'[x].dir = x /\ run[x].task = 0
    BY <1>4, <2>2 DEF RunsMove, Ages
  <2> QED BY <1>4, <2>1, <2>2 DEF RunsMove, Ages
<1>5. CASE run[x].at = "unborn" /\ run'[x] = run[x]
  BY <1>0, <1>5
<1>6. CASE IsBorn(x)
  BY <1>3, <1>6 DEF IsBorn
<1> QED BY <1>4, <1>5, <1>6 DEF RunsMove

-----------------------------------------------------------------------------
LEMMA TypesStay ==
  ASSUME OrchInv, RunsMove, [Next]_vars
  PROVE  TypeOK'
<1>0. TypeOK /\ run' \in [Runs -> RunRecord] /\ 0 \in Tasks /\ JudgeTask \in Tasks
  BY OrchestrationAssumption DEF OrchInv, RunsMove, Tasks, JudgeTask, OrchestrationAssumption
<1>a. \A t \in Tasks, st \in Status : WithStatus(t, st) \in [Tasks -> Status]
  BY <1>0 DEF TypeOK, WithStatus
<1>b. {"Pending", "InProgress", "Done", "Cancelled", "none"} = Status
  BY DEF Status
<1>1. CASE UNCHANGED vars
  BY <1>0, <1>1 DEF vars, TypeOK
<1>2. ASSUME NEW r \in Runs, RunStep(r)
      PROVE  TypeOK'
  <2>1. run[r].at # "unborn" => run[r].task \in Tasks
    BY DEF OrchInv, Records, Good
  <2>2. CASE RunStarts(r)
    <3>1. task' \in [Tasks -> Status]
      BY <1>0, <1>a, <1>b, <2>1, <2>2 DEF RunStarts, TypeOK
    <3>2. trees' \subseteq Runs
      BY <1>0, <2>2 DEF RunStarts, TypeOK
    <3> QED BY <1>0, <2>2, <3>1, <3>2 DEF RunStarts, TypeOK
  <2>3. CASE RunFailsEarly(r) \/ AgentEnds(r) \/ RunRowEarly(r) \/ RunSeals(r)
    BY <1>0, <2>3 DEF RunFailsEarly, AgentEnds, RunRowEarly, RunSeals, TypeOK
  <2>4. CASE RunLeaves(r)
    <3>1. task' \in [Tasks -> Status]
      BY <1>0, <1>a, <1>b, <2>1, <2>4 DEF RunLeaves, TypeOK
    <3> QED BY <1>0, <2>4, <3>1 DEF RunLeaves, TypeOK
  <2> QED BY <1>2, <2>2, <2>3, <2>4 DEF RunStep
<1>3. CASE \E r \in Runs : HumanSelects(r) \/ \E old \in Runs : RetryRun(old, r)
  <2>1. PICK r \in Runs : HumanSelects(r) \/ \E old \in Runs : RetryRun(old, r)
    BY <1>3
  <2>2. CASE HumanSelects(r)
    BY <1>0, <2>2 DEF HumanSelects, Select, Selection, TypeOK
  <2>3. CASE \E old \in Runs : RetryRun(old, r)
    BY <1>0, <2>3 DEF RetryRun, TypeOK
  <2> QED BY <2>1, <2>2, <2>3
<1>4. CASE StartPipeline \/ PipelineNotStarted
  <2>1. task' \in [Tasks -> Status]
    BY <1>0, <1>4, <1>b DEF StartPipeline, PipelineNotStarted, TypeOK
  <2>2. driver' \in [at : {"none", "launch", "wait", "cancel", "gone"},
                    step : 0..(Steps + 1), run : Runs \cup {None}]
    BY <1>0, <1>4, OrchestrationAssumption
       DEF StartPipeline, PipelineNotStarted, TypeOK, OrchestrationAssumption
  <2> QED BY <1>0, <1>4, <2>1, <2>2 DEF StartPipeline, PipelineNotStarted, TypeOK
<1>5. CASE DriverStep
  <2>0. /\ driver.step + 1 \in 0..(Steps + 1) \/ driver.step = Steps + 1 \/ driver.at = "none"
        /\ driver.at = "launch" \/ driver.at = "wait" => driver.step \in 1..Steps
        /\ driver.at = "cancel" => driver.step \in 1..(Steps + 1)
        /\ driver \in [at : {"none", "launch", "wait", "cancel", "gone"},
                      step : 0..(Steps + 1), run : Runs \cup {None}]
    BY <1>0, OrchestrationAssumption DEF OrchInv, Drives, TypeOK, OrchestrationAssumption
  <2>1. driver' \in [at : {"none", "launch", "wait", "cancel", "gone"},
                    step : 0..(Steps + 1), run : Runs \cup {None}]
    <3>1. CASE DriverLaunches
      BY <2>0, <3>1 DEF DriverLaunches
    <3>2. CASE DriverCannotLaunch
      BY <2>0, <3>2 DEF DriverCannotLaunch
    <3>3. CASE DriverPolls
      <4>1. driver.step + 1 \in 0..(Steps + 1)
        BY <2>0, <3>3, OrchestrationAssumption DEF DriverPolls, OrchestrationAssumption
      <4> QED BY <2>0, <3>3, <4>1 DEF DriverPolls
    <3>4. CASE DriverWaitFails
      <4>1. driver.step + 1 \in 0..(Steps + 1)
        BY <2>0, <3>4, OrchestrationAssumption DEF DriverWaitFails, OrchestrationAssumption
      <4> QED BY <2>0, <3>4, <4>1 DEF DriverWaitFails
    <3>5. CASE DriverCancels
      <4>1. driver.step > Steps \/ driver.step + 1 \in 0..(Steps + 1)
        BY <2>0, <3>5, OrchestrationAssumption DEF DriverCancels, OrchestrationAssumption
      <4> QED BY <2>0, <3>5, <4>1 DEF DriverCancels
    <3> QED BY <1>5, <3>1, <3>2, <3>3, <3>4, <3>5 DEF DriverStep
  <2>2. task' \in [Tasks -> Status]
    <3>1. CASE DriverCancels
      <4>1. driver.step \in 1..Steps => StepTask(driver.step) \in Tasks
        BY StepTasksDiffer
      <4>2. driver.step \in 1..Steps \/ driver.step > Steps
        BY <2>0, <3>1, OrchestrationAssumption DEF DriverCancels, OrchestrationAssumption
      <4>3. UNCHANGED task \/ (task' = WithStatus(StepTask(driver.step), "Cancelled")
                              /\ ~ (driver.step > Steps))
        BY <3>1 DEF DriverCancels
      <4>4. "Cancelled" \in Status
        BY DEF Status
      <4>5. CASE UNCHANGED task
        BY <1>0, <4>5 DEF TypeOK
      <4>6. CASE task' = WithStatus(StepTask(driver.step), "Cancelled") /\ ~ (driver.step > Steps)
        <5>1. StepTask(driver.step) \in Tasks
          BY <4>1, <4>2, <4>6
        <5> QED BY <1>a, <4>4, <4>6, <5>1
      <4> QED BY <4>3, <4>5, <4>6
    <3>2. CASE ~ DriverCancels
      BY <1>0, <1>5, <3>2 DEF DriverStep, DriverLaunches, DriverCannotLaunch, DriverPolls,
                          DriverWaitFails, TypeOK
    <3> QED BY <3>1, <3>2
  <2>3. UNCHANGED <<request, trees, fan, judge, selected, land, merged, deleting, crashed>>
    BY <1>5 DEF DriverStep, DriverLaunches, DriverCannotLaunch, DriverPolls, DriverWaitFails,
                DriverCancels
  <2> QED BY <1>0, <2>1, <2>2, <2>3 DEF TypeOK
<1>6. CASE StartFanout \/ LaunchMember
  <2>0. fan \in 0..Members /\ Members \in Nat
    BY <1>0, OrchestrationAssumption DEF TypeOK, OrchestrationAssumption
  <2>1. fan' \in 0..Members
    <3>1. CASE StartFanout
      BY <2>0, <3>1 DEF StartFanout
    <3>2. CASE LaunchMember
      <4>1. fan > 0 /\ (fan' = fan - 1 \/ fan' = 0)
        BY <3>2 DEF LaunchMember
      <4> QED BY <2>0, <4>1
    <3> QED BY <1>6, <3>1, <3>2
  <2> QED BY <1>0, <1>6, <2>1 DEF StartFanout, LaunchMember, TypeOK
<1>7. CASE StartJudge
  <2>1. task' \in [Tasks -> Status]
    BY <1>0, <1>7, <1>b DEF StartJudge, TypeOK
  <2>2. Candidates \in SUBSET Runs
    BY DEF Candidates
  <2>3. judge' \in [at : {"none", "wait", "gone"}, run : Runs \cup {None},
                   candidates : SUBSET Runs]
    BY <1>0, <1>7, <2>2 DEF StartJudge, TypeOK
  <2> QED BY <1>0, <1>7, <2>1, <2>3 DEF StartJudge, TypeOK
<1>8. CASE JudgeDecides \/ JudgeWaitFails
  <2>1. judge' \in [at : {"none", "wait", "gone"}, run : Runs \cup {None},
                   candidates : SUBSET Runs]
    BY <1>0, <1>8 DEF JudgeDecides, JudgeWaitFails, TypeOK
  <2>2. selected' \in Selection \cup {None}
    <3>1. judge.candidates \subseteq Runs /\ selected \in Selection \cup {None}
      BY <1>0 DEF TypeOK
    <3> QED BY <1>8, <3>1 DEF JudgeDecides, JudgeWaitFails, Select, Selection
  <2> QED BY <1>0, <1>8, <2>1, <2>2 DEF JudgeDecides, JudgeWaitFails, TypeOK
<1>9. CASE LandReads \/ LandMerges \/ LandSweeps
  <2>1. land' \in [at : {"none", "merge", "sweep"}, run : Runs \cup {None}]
    BY <1>0, <1>9 DEF LandReads, LandMerges, LandSweeps, TypeOK, Selection
  <2>2. merged' \subseteq Runs
    BY <1>0, <1>9 DEF LandReads, LandMerges, LandSweeps, TypeOK
  <2>3. trees' \subseteq Runs
    BY <1>0, <1>9 DEF LandReads, LandMerges, LandSweeps, TypeOK
  <2> QED BY <1>0, <1>9, <2>1, <2>2, <2>3 DEF LandReads, LandMerges, LandSweeps, TypeOK
<1>10. CASE DeleteSweeps \/ DeleteRows
  <2>1. task' \in [Tasks -> Status]
    BY <1>0, <1>10, <1>b DEF DeleteSweeps, DeleteRows, TypeOK
  <2>2. trees' \subseteq Runs /\ selected' \in Selection \cup {None} /\ deleting' \in BOOLEAN
    BY <1>0, <1>10 DEF DeleteSweeps, DeleteRows, TypeOK
  <2> QED BY <1>0, <1>10, <2>1, <2>2 DEF DeleteSweeps, DeleteRows, TypeOK
<1>11. CASE CrashAndBoot
  <2>1. /\ driver' \in [at : {"none", "launch", "wait", "cancel", "gone"},
                        step : 0..(Steps + 1), run : Runs \cup {None}]
        /\ judge' \in [at : {"none", "wait", "gone"}, run : Runs \cup {None},
                       candidates : SUBSET Runs]
        /\ land' \in [at : {"none", "merge", "sweep"}, run : Runs \cup {None}]
    BY <1>0, <1>11 DEF CrashAndBoot, TypeOK
  <2>2. fan' \in 0..Members
    <3>1. fan' = 0 /\ Members \in Nat
      BY <1>11, OrchestrationAssumption DEF CrashAndBoot, OrchestrationAssumption
    <3> QED BY <3>1
  <2> QED BY <1>0, <1>11, <2>1, <2>2 DEF CrashAndBoot, TypeOK
<1> QED BY <1>1, <1>2, <1>3, <1>4, <1>5, <1>6, <1>7, <1>8, <1>9, <1>10, <1>11 DEF Next

-----------------------------------------------------------------------------
(***************************************************************************)
(* What the other steps leave alone.                                       *)
(***************************************************************************)

\* Only the driver's own steps, its start and a crash move the driver; no
\* other step makes a step's task Pending.
LEMMA Bystanders ==
  ASSUME OrchInv, [Next]_vars, ~ DriverStep, ~ StartPipeline, ~ PipelineNotStarted
  PROVE  /\ UNCHANGED <<driver, crashed>> \/ (crashed' /\ driver'.at \in {"none", "gone"}
                                             /\ (driver.at = "none" => driver'.at = "none"))
         /\ request = "none" \/ request' = request \/ driver' = driver
         /\ request' = "none" => request = "none"
         /\ \A i \in 1..Steps : task'[StepTask(i)] = "Pending" => task[StepTask(i)] = "Pending"
<1>0. /\ task \in [Tasks -> Status] /\ driver \in [at : {"none", "launch", "wait", "cancel", "gone"},
                                  step : 0..(Steps + 1), run : Runs \cup {None}]
      /\ \A i \in 1..Steps : StepTask(i) \in Tasks /\ StepTask(i) # JudgeTask
  BY StepTasksDiffer DEF OrchInv, TypeOK
<1>1. CASE UNCHANGED vars
  BY <1>1 DEF vars
<1>2. ASSUME NEW r \in Runs, RunStep(r)
      PROVE  /\ UNCHANGED <<driver, crashed, request>>
             /\ \A i \in 1..Steps : task'[StepTask(i)] = "Pending" => task[StepTask(i)] = "Pending"
  <2>1. UNCHANGED <<driver, crashed, request>>
    BY <1>2 DEF RunStep, RunStarts, RunFailsEarly, AgentEnds, RunRowEarly, RunSeals, RunLeaves
  <2>2. \/ UNCHANGED task
        \/ task' = WithStatus(run[r].task, "InProgress") \/ task' = WithStatus(run[r].task, "Done")
    BY <1>2 DEF RunStep, RunStarts, RunFailsEarly, AgentEnds, RunRowEarly, RunSeals, RunLeaves
  <2>3. \A i \in 1..Steps : task'[StepTask(i)] = "Pending" => task[StepTask(i)] = "Pending"
    BY <1>0, <2>2 DEF WithStatus
  <2> QED BY <2>1, <2>3
<1>3. CASE \/ \E r \in Runs : HumanSelects(r) \/ \E old \in Runs : RetryRun(old, r)
           \/ StartFanout \/ LaunchMember \/ JudgeDecides \/ JudgeWaitFails
           \/ LandReads \/ LandMerges \/ LandSweeps \/ DeleteSweeps
  <2>1. UNCHANGED <<driver, crashed, task>> /\ (request' = request \/ StartFanout)
    BY <1>3 DEF HumanSelects, RetryRun, StartFanout, LaunchMember, JudgeDecides, JudgeWaitFails,
                LandReads, LandMerges, LandSweeps, DeleteSweeps
  <2> QED BY <2>1 DEF StartFanout
<1>4. CASE StartJudge \/ DeleteRows
  <2>1. UNCHANGED <<driver, crashed, request>>
    BY <1>4 DEF StartJudge, DeleteRows
  <2>2. \A i \in 1..Steps : task'[StepTask(i)] = "Pending" => task[StepTask(i)] = "Pending"
    BY <1>0, <1>4 DEF StartJudge, DeleteRows
  <2> QED BY <2>1, <2>2
<1>5. CASE CrashAndBoot
  BY <1>0, <1>5 DEF CrashAndBoot
<1> QED BY <1>1, <1>2, <1>3, <1>4, <1>5 DEF Next

\* The driver knows the step it is at, its run, and that the step before was
\* delivered.
LEMMA DrivesStay ==
  ASSUME OrchInv, RunsMove, [Next]_vars
  PROVE  Drives'
<1>0. /\ TypeOK /\ Drives /\ Steps \in Nat \ {0}
      /\ driver \in [at : {"none", "launch", "wait", "cancel", "gone"},
                    step : 0..(Steps + 1), run : Runs \cup {None}]
      /\ \A i \in 1..Steps : StepTask(i) \in Nat
  BY StepTasksDiffer, OrchestrationAssumption DEF OrchInv, TypeOK, OrchestrationAssumption
<1>1. CASE StartPipeline \/ PipelineNotStarted
  <2>1. CASE StartPipeline
    BY <1>0, <2>1 DEF StartPipeline, Drives
  <2>2. CASE PipelineNotStarted
    BY <1>0, <2>2 DEF PipelineNotStarted, Drives
  <2> QED BY <1>1, <2>1, <2>2
<1>2. CASE DriverLaunches
  <2>1. PICK r \in Runs : /\ Accepted(r, StepTask(driver.step), None)
                          /\ driver' = [driver EXCEPT !.at = "wait", !.run = r]
    BY <1>2 DEF DriverLaunches
  <2>2. driver.at = "launch" /\ driver.step \in 1..Steps /\ request' = request
        /\ request # "none"
    BY <1>0, <1>2 DEF DriverLaunches, Drives
  <2>3. run'[r].task = StepTask(driver.step)
    BY <1>0, <2>1 DEF Accepted, Unborn, TypeOK
  <2> QED BY <1>0, <2>1, <2>2, <2>3 DEF Drives
<1>3. CASE DriverCannotLaunch
  BY <1>0, <1>3 DEF DriverCannotLaunch, Drives
<1>4. CASE DriverPolls
  <2>1. /\ driver.at = "wait" /\ driver.step \in 1..Steps /\ driver.run \in Runs
        /\ run[driver.run].task = StepTask(driver.step)
        /\ request' = request /\ request # "none"
        /\ run' = run
    BY <1>0, <1>4 DEF DriverPolls, Drives
  <2>2. driver'.step = driver.step + 1 /\ driver'.at \in {"cancel", "gone", "launch"}
    BY <1>0, <1>4 DEF DriverPolls
  <2>3. driver'.at = "launch" => driver.step # Steps /\ run[driver.run].row = "Completed"
    BY <1>0, <1>4 DEF DriverPolls
  <2>4. ASSUME driver'.at = "launch"
        PROVE  driver'.step \in 1..Steps /\ Delivers(StepTask(driver.step - 1))'
    <3>1. run[driver.run].ends = "ok"
      BY <2>1, <2>3, <2>4 DEF OrchInv, Records, Good
    <3>2. driver'.step - 1 = driver.step
      BY <2>1, <2>2
    <3>3. run'[driver.run].task = StepTask(driver'.step - 1) /\ run'[driver.run].ends = "ok"
      BY <2>1, <3>1, <3>2
    <3> QED BY <2>1, <2>2, <2>3, <2>4, <3>3, <1>0 DEF Delivers
  <2> QED BY <1>0, <2>1, <2>2, <2>4 DEF Drives
<1>5. CASE DriverWaitFails
  BY <1>0, <1>5 DEF DriverWaitFails, Drives
<1>6. CASE DriverCancels
  <2>1. /\ driver.at = "cancel" /\ driver.step \in 1..(Steps + 1) /\ request # "none"
        /\ UNCHANGED request
    BY <1>0, <1>6 DEF DriverCancels, Drives
  <2>2. \/ driver' = [driver EXCEPT !.at = "gone"]
        \/ driver' = [driver EXCEPT !.step = @ + 1] /\ ~ (driver.step > Steps)
    BY <1>6 DEF DriverCancels
  <2> QED BY <1>0, <2>1, <2>2 DEF Drives
<1>7. CASE ~ DriverStep /\ ~ StartPipeline /\ ~ PipelineNotStarted
  <2>1. CASE UNCHANGED driver
    <3>1. driver.at = "wait" => run'[driver.run].task = run[driver.run].task
      BY <1>0, OrchestrationAssumption, UnbornRecord, StepTasksDiffer
         DEF Drives, OrchInv, Records, Good, RunsMove, Ages, OrchestrationAssumption
    <3>2. driver.at = "launch" /\ driver.step >= 2 => Delivers(StepTask(driver.step - 1))'
      <4> SUFFICES ASSUME driver.at = "launch", driver.step >= 2
                   PROVE  Delivers(StepTask(driver.step - 1))'
        OBVIOUS
      <4>1. driver.step - 1 \in 1..Steps
        BY <1>0 DEF Drives
      <4>2. PICK t \in Nat : t = StepTask(driver.step - 1)
        BY <1>0, <4>1
      <4>3. Delivers(t)
        BY <1>0, <4>2 DEF Drives
      <4>4. Delivers(t)'
        BY <4>3, DeliveredStays
      <4>5. t = StepTask(driver'.step - 1)
        BY <2>1, <4>2
      <4> QED BY <4>4, <4>5 DEF Delivers
    <3>3. request' = "none" => request = "none"
      BY <1>7, Bystanders
    <3> QED BY <1>0, <2>1, <3>1, <3>2, <3>3 DEF Drives
  <2>2. CASE ~ UNCHANGED driver
    <3>1. driver'.at \in {"none", "gone"} /\ (driver.at = "none" => driver'.at = "none")
          /\ (request' = "none" => request = "none")
      BY <1>7, <2>2, Bystanders
    <3> QED BY <1>0, <3>1 DEF Drives
  <2> QED BY <2>1, <2>2
<1> QED BY <1>1, <1>2, <1>3, <1>4, <1>5, <1>6, <1>7 DEF DriverStep

-----------------------------------------------------------------------------
\* What the driver has dealt with is launched or not Pending.
LEMMA SettledStays ==
  ASSUME OrchInv, RunsMove, [Next]_vars, TypeOK'
  PROVE  Settled'
<1> SUFFICES ASSUME ~ crashed', NEW i \in 1..Steps, i <= Upto',
                    task'[StepTask(i)] = "Pending"
             PROVE  Launched(StepTask(i))'
  BY DEF Settled
<1>0. /\ TypeOK /\ Drives /\ Settled /\ Steps \in Nat \ {0} /\ i \in Nat /\ StepTask(i) \in Nat
      /\ driver \in [at : {"none", "launch", "wait", "cancel", "gone"},
                    step : 0..(Steps + 1), run : Runs \cup {None}]
      /\ StepTask(i) \in Tasks
      /\ \A j \in 1..Steps : StepTask(j) = StepTask(i) => j = i
      /\ \A j \in 1..Steps : StepTask(j) \in Tasks
  BY StepTasksDiffer, OrchestrationAssumption DEF OrchInv, TypeOK, OrchestrationAssumption
<1>a. Launched(StepTask(i)) => Launched(StepTask(i))'
  BY <1>0, DeliveredStays
<1>b. ASSUME i <= Upto, ~ crashed, task[StepTask(i)] = "Pending"
      PROVE  Launched(StepTask(i))'
  BY <1>0, <1>a, <1>b DEF Settled
<1>1. CASE StartPipeline \/ PipelineNotStarted
  <2>1. driver.at = "none" /\ (driver' = driver \/ driver' = [at |-> "launch", step |-> 1, run |-> None])
    BY <1>0, <1>1 DEF StartPipeline, PipelineNotStarted, Drives
  <2>2. Upto' = 0
    BY <2>1 DEF Upto
  <2> QED BY <1>0, <2>2
<1>2. CASE DriverLaunches
  <2>1. PICK r \in Runs : /\ Accepted(r, StepTask(driver.step), None)
                          /\ driver' = [driver EXCEPT !.at = "wait", !.run = r]
    BY <1>2 DEF DriverLaunches
  <2>2. /\ driver.at = "launch" /\ driver.step \in 1..Steps /\ UNCHANGED <<task, crashed>>
        /\ driver'.at = "wait" /\ driver'.step = driver.step
    BY <1>0, <1>2, <2>1 DEF DriverLaunches, Drives
  <2>3. Upto' = driver.step /\ Upto = driver.step - 1
    BY <2>2 DEF Upto
  <2>4. CASE i = driver.step
    <3>1. run'[r].task = StepTask(i)
      BY <1>0, <2>1, <2>4 DEF Accepted, Unborn, TypeOK
    <3> QED BY <3>1 DEF Launched
  <2>5. CASE i # driver.step
    BY <1>0, <1>b, <2>2, <2>3, <2>5
  <2> QED BY <2>4, <2>5
<1>3. CASE DriverCannotLaunch
  <2>1. /\ driver.at = "launch" /\ driver'.at = "cancel" /\ driver'.step = driver.step
        /\ UNCHANGED <<task, crashed>>
    BY <1>0, <1>3 DEF DriverCannotLaunch
  <2>2. Upto' = Upto
    BY <2>1 DEF Upto
  <2> QED BY <1>b, <2>1, <2>2
<1>4. CASE DriverPolls \/ DriverWaitFails
  <2>1. /\ driver.at = "wait" /\ driver'.at \in {"cancel", "gone", "launch"}
        /\ driver'.at = "gone" => driver.step = Steps
        /\ driver'.step = driver.step + 1 /\ UNCHANGED <<task, crashed>>
        /\ driver.step \in 1..Steps
    BY <1>0, <1>4 DEF DriverPolls, DriverWaitFails, Drives
  <2>2. Upto' = Upto
    BY <1>0, <2>1 DEF Upto
  <2> QED BY <1>b, <2>1, <2>2
<1>5. CASE DriverCancels
  <2>1. driver.at = "cancel" /\ driver.step \in 1..(Steps + 1) /\ UNCHANGED crashed
    BY <1>0, <1>5 DEF DriverCancels, Drives
  <2>2. CASE driver.step > Steps
    <3>1. driver'.at = "gone" /\ UNCHANGED task
      BY <1>0, <1>5, <2>2 DEF DriverCancels
    <3>2. Upto' = Steps /\ Upto = Steps
      BY <1>0, <2>1, <2>2, <3>1 DEF Upto
    <3> QED BY <1>b, <2>1, <3>1, <3>2
  <2>3. CASE ~ (driver.step > Steps)
    <3>1. /\ driver'.at = "cancel" /\ driver'.step = driver.step + 1 /\ driver.step \in 1..Steps
          /\ task' = WithStatus(StepTask(driver.step), "Cancelled")
      BY <1>0, <1>5, <2>1, <2>3 DEF DriverCancels
    <3>2. Upto' = driver.step /\ Upto = driver.step - 1
      BY <1>0, <2>1, <3>1 DEF Upto
    <3>3. task[StepTask(i)] = "Pending" /\ i # driver.step
      BY <1>0, <3>1 DEF WithStatus, TypeOK
    <3> QED BY <1>0, <1>b, <2>1, <3>1, <3>2, <3>3
  <2> QED BY <2>2, <2>3
<1>6. CASE ~ DriverStep /\ ~ StartPipeline /\ ~ PipelineNotStarted
  <2>1. UNCHANGED <<driver, crashed>> /\ task[StepTask(i)] = "Pending"
    BY <1>6, Bystanders
  <2>2. Upto' = Upto
    BY <2>1 DEF Upto
  <2> QED BY <1>b, <2>1, <2>2
<1> QED BY <1>1, <1>2, <1>3, <1>4, <1>5, <1>6 DEF DriverStep

-----------------------------------------------------------------------------
\* What is selected, judged, read for landing or merged is the work of a run
\* of task 0 that delivered.
LEMMA WinnersStay ==
  ASSUME OrchInv, RunsMove, [Next]_vars
  PROVE  Winners' /\ Landing'
<1>0. /\ TypeOK /\ Winners /\ Landing
      /\ \A r \in Runs : Delivered(r) => Delivered(r)'
      /\ \A r \in Runs : run[r].row = "Completed" /\ run[r].task = 0 => Delivered(r)
  BY DeliveredStays DEF OrchInv, Records, Good, Delivered
<1>a. ASSUME selected' = selected
      PROVE  selected' # None => Delivered(selected.run)'
  BY <1>0, <1>a DEF Winners, Delivered
<1>b. ASSUME judge' = judge \/ judge'.at # "wait"
      PROVE  judge'.at = "wait" => \A w \in judge'.candidates : Delivered(w)'
  BY <1>0, <1>b DEF Winners, Delivered
<1>c. ASSUME land' = land \/ land'.at # "merge"
      PROVE  land'.at = "merge" => Delivered(land.run)'
  BY <1>0, <1>c DEF Winners, Delivered
<1>d. ASSUME merged' = merged
      PROVE  \A r \in merged' : Delivered(r)'
  BY <1>0, <1>d DEF Winners, Delivered
<1>1. CASE UNCHANGED <<selected, judge, land, merged>>
  BY <1>0, <1>1, <1>a, <1>b, <1>c, <1>d DEF Winners, Landing
<1>2. CASE \E r \in Runs : HumanSelects(r)
  <2>1. PICK r \in Runs : HumanSelects(r)
    BY <1>2
  <2>2. UNCHANGED <<judge, land, merged>> /\ Delivered(r)'
    BY <1>0, <2>1 DEF HumanSelects
  <2>3. selected' = selected \/ selected' = [run |-> r, by |-> "human"]
    BY <2>1 DEF HumanSelects, Select
  <2>4. selected' # None => Delivered(selected.run)'
    BY <1>a, <2>2, <2>3 DEF Delivered
  <2> QED BY <1>0, <1>b, <1>c, <1>d, <2>2, <2>4 DEF Winners, Landing
<1>3. CASE StartJudge
  <2>1. UNCHANGED <<selected, land, merged>>
    BY <1>3 DEF StartJudge
  <2>2. judge'.at = "wait" => judge'.candidates = Candidates
    BY <1>0, <1>3 DEF StartJudge, TypeOK
  <2>3. \A w \in Candidates : Delivered(w)'
    BY <1>0 DEF Candidates
  <2>4. judge'.at = "wait" => \A w \in judge'.candidates : Delivered(w)'
    BY <2>2, <2>3
  <2> QED BY <1>0, <1>a, <1>c, <1>d, <2>1, <2>4 DEF Winners, Landing
<1>4. CASE JudgeDecides \/ JudgeWaitFails
  <2>1. UNCHANGED <<land, merged>> /\ judge'.at # "wait" /\ judge.at = "wait"
    BY <1>0, <1>4 DEF JudgeDecides, JudgeWaitFails, TypeOK
  <2>2. \/ selected' = selected
        \/ \E w \in judge.candidates : selected' = [run |-> w, by |-> "agent"]
    BY <1>4 DEF JudgeDecides, JudgeWaitFails, Select
  <2>3. \A w \in judge.candidates : w \in Runs /\ Delivered(w)'
    BY <1>0, <2>1 DEF Winners, Delivered
  <2>4. selected' # None => Delivered(selected.run)'
    BY <1>a, <2>2, <2>3 DEF Delivered
  <2> QED BY <1>0, <1>b, <1>c, <1>d, <2>1, <2>4 DEF Winners, Landing
<1>5. CASE LandReads
  <2>1. UNCHANGED <<selected, judge, merged>> /\ selected # None
        /\ land' = [at |-> "merge", run |-> selected.run]
    BY <1>5 DEF LandReads
  <2>2. land'.at = "merge" => Delivered(land.run)'
    BY <1>a, <2>1 DEF Delivered
  <2> QED BY <1>0, <1>a, <1>b, <1>d, <2>1, <2>2 DEF Winners, Landing
<1>6. CASE LandMerges
  <2>1. UNCHANGED <<selected, judge>> /\ land.at = "merge"
    BY <1>6 DEF LandMerges
  <2>2. \/ /\ merged' = merged \cup {land.run}
           /\ land' = [land EXCEPT !.at = "sweep"]
        \/ land'.at = "none" /\ merged' = merged
    BY <1>6 DEF LandMerges
  <2>3. land.run \in Runs /\ Delivered(land.run)
    BY <1>0, <2>1 DEF Winners, Delivered
  <2>4. \A r \in merged' : Delivered(r)'
    BY <1>0, <2>2, <2>3 DEF Winners, Delivered
  <2>5. land'.at # "merge" /\ (land'.at = "sweep" => merged' # {})
    BY <1>0, <2>2 DEF TypeOK
  <2> QED BY <1>0, <1>a, <1>b, <1>c, <2>1, <2>4, <2>5 DEF Winners, Landing
<1>7. CASE LandSweeps
  <2>1. UNCHANGED <<selected, judge, merged>> /\ land'.at = "none"
    BY <1>7 DEF LandSweeps
  <2> QED BY <1>a, <1>b, <1>c, <1>d, <2>1 DEF Winners, Landing
<1>8. CASE DeleteRows
  <2>1. UNCHANGED <<judge, land, merged>> /\ selected' = None
    BY <1>8 DEF DeleteRows
  <2> QED BY <1>0, <1>b, <1>c, <1>d, <2>1 DEF Winners, Landing
<1>9. CASE CrashAndBoot
  <2>1. UNCHANGED <<selected, merged>> /\ land'.at = "none" /\ judge'.at # "wait"
    BY <1>0, <1>9 DEF CrashAndBoot, TypeOK
  <2> QED BY <1>a, <1>b, <1>c, <1>d, <2>1 DEF Winners, Landing
<1> QED
  BY <1>1, <1>2, <1>3, <1>4, <1>5, <1>6, <1>7, <1>8, <1>9
     DEF Next, RunStep, RunStarts, RunFailsEarly, AgentEnds, RunRowEarly, RunSeals, RunLeaves,
         RetryRun, StartPipeline, PipelineNotStarted, DriverStep, DriverLaunches,
         DriverCannotLaunch, DriverPolls, DriverWaitFails, DriverCancels, StartFanout,
         LaunchMember, DeleteSweeps, vars

-----------------------------------------------------------------------------
\* A worktree leaves the disk only with a winner merged or with its task.
LEMMA TreesStay ==
  ASSUME OrchInv, RunsMove, [Next]_vars, Landing'
  PROVE  TreesAreKept'
<1> SUFFICES ASSUME NEW r \in Runs, run'[r].dir = r, run'[r].row # "gone", ~ deleting',
                    ~ crashed', merged' = {}
             PROVE  r \in trees'
  BY DEF TreesAreKept
<1>0. /\ TypeOK /\ Dirs /\ Landing /\ TreesAreKept /\ None \notin Runs /\ None \notin Nat
      /\ run \in [Runs -> RunRecord] /\ Good(run[r])
  BY OrchestrationAssumption DEF OrchInv, TypeOK, Records, OrchestrationAssumption
<1>1. \/ run[r].dir = r /\ run[r].at # "unborn"
      \/ r \in trees'
  <2>1. CASE run[r].at # "unborn"
    BY <2>1 DEF RunsMove, Ages
  <2>2. CASE run[r].at = "unborn" /\ run'[r] = run[r]
    BY <1>0, <2>2, UnbornRecord DEF Good
  <2>3. CASE run[r].at = "unborn" /\ IsBorn(r)
    <3>1. run[r].dir = None
      BY <1>0, <2>3, UnbornRecord DEF Good
    <3>2. ~ (run'[r].dir = None)
      BY <1>0
    <3>3. PICK old \in Runs : run'[r].dir = run[old].dir
      BY <2>3, <3>2 DEF IsBorn
    <3> QED BY <1>0, <3>1, <3>3 DEF Dirs
  <2> QED BY <2>1, <2>2, <2>3 DEF RunsMove
<1>2. CASE run[r].dir = r /\ run[r].at # "unborn"
  <2>1. run[r].row # "gone" /\ run[r].task = 0
    BY <1>0, <1>2 DEF RunsMove, Ages, Dirs
  <2>2. CASE ~ deleting /\ ~ crashed /\ merged = {}
    <3>1. r \in trees
      BY <1>0, <1>2, <2>1, <2>2 DEF TreesAreKept
    <3>2. CASE trees \subseteq trees'
      BY <3>1, <3>2
    <3>3. CASE LandSweeps \/ DeleteSweeps
      BY <1>0, <2>2, <3>3 DEF LandSweeps, DeleteSweeps, Landing
    <3> QED
      BY <3>2, <3>3
         DEF Next, RunStep, RunStarts, RunFailsEarly, AgentEnds, RunRowEarly, RunSeals, RunLeaves,
             HumanSelects, RetryRun, StartPipeline, PipelineNotStarted, DriverStep, DriverLaunches,
             DriverCannotLaunch, DriverPolls, DriverWaitFails, DriverCancels, StartFanout,
             LaunchMember, StartJudge, JudgeDecides, JudgeWaitFails, LandReads, LandMerges,
             DeleteRows, CrashAndBoot, vars
  <2>3. CASE deleting
    <3>1. DeleteRows \/ CrashAndBoot
      BY <2>3
         DEF Next, RunStep, RunStarts, RunFailsEarly, AgentEnds, RunRowEarly, RunSeals, RunLeaves,
             HumanSelects, RetryRun, StartPipeline, PipelineNotStarted, DriverStep, DriverLaunches,
             DriverCannotLaunch, DriverPolls, DriverWaitFails, DriverCancels, StartFanout,
             LaunchMember, StartJudge, JudgeDecides, JudgeWaitFails, LandReads, LandMerges,
             LandSweeps, DeleteSweeps, vars
    <3>2. CASE DeleteRows
      BY <1>0, <2>1, <3>2 DEF DeleteRows, RunRecord
    <3> QED BY <3>1, <3>2 DEF CrashAndBoot
  <2>4. CASE crashed \/ merged # {}
    <3>1. crashed => crashed'
      BY DEF Next, RunStep, RunStarts, RunFailsEarly, AgentEnds, RunRowEarly, RunSeals, RunLeaves,
             HumanSelects, RetryRun, StartPipeline, PipelineNotStarted, DriverStep, DriverLaunches,
             DriverCannotLaunch, DriverPolls, DriverWaitFails, DriverCancels, StartFanout,
             LaunchMember, StartJudge, JudgeDecides, JudgeWaitFails, LandReads, LandMerges,
             LandSweeps, DeleteSweeps, DeleteRows, CrashAndBoot, vars
    <3>2. merged \subseteq merged'
      BY DEF Next, RunStep, RunStarts, RunFailsEarly, AgentEnds, RunRowEarly, RunSeals, RunLeaves,
             HumanSelects, RetryRun, StartPipeline, PipelineNotStarted, DriverStep, DriverLaunches,
             DriverCannotLaunch, DriverPolls, DriverWaitFails, DriverCancels, StartFanout,
             LaunchMember, StartJudge, JudgeDecides, JudgeWaitFails, LandReads, LandMerges,
             LandSweeps, DeleteSweeps, DeleteRows, CrashAndBoot, vars
    <3> QED BY <2>4, <3>1, <3>2
  <2> QED BY <2>2, <2>3, <2>4
<1> QED BY <1>1, <1>2

-----------------------------------------------------------------------------
\* The strengthening is inductive: driver, runs, judge, humans, landing,
\* deletion and a crash keep it in every order.
THEOREM OrchInvHolds == Safety => []OrchInv
<1>1. Init => OrchInv
  BY OrchInit
<1>2. OrchInv /\ [Next]_vars => OrchInv'
  <2> SUFFICES ASSUME OrchInv, [Next]_vars PROVE OrchInv'
    OBVIOUS
  <2>1. RunsMove
    BY EveryStepMoves
  <2>2. TypeOK' /\ Chain' /\ Dirs' /\ Drives' /\ Records'
    BY <2>1, TypesStay, ChainStays, DirsStay, DrivesStay DEF RunsMove
  <2>3. Settled' /\ Winners' /\ Landing'
    BY <2>1, <2>2, SettledStays, WinnersStay
  <2>4. TreesAreKept'
    BY <2>1, <2>3, TreesStay
  <2> QED BY <2>2, <2>3, <2>4 DEF OrchInv
<1> QED BY <1>1, <1>2, PTL DEF Safety

\* Every variable keeps its type; in particular the driver's step never
\* leaves the plan.
THEOREM OrchestrationTypes == Safety => []TypeOK
<1>1. OrchInv => TypeOK
  BY DEF OrchInv
<1> QED BY <1>1, OrchInvHolds, PTL

\* For every number of steps and retries: a step was launched only after an
\* agent of the step before it delivered.
THEOREM StepsAreChained == Safety => []StepsFollowTheirUpstream
<1>1. OrchInv => StepsFollowTheirUpstream
  BY DEF OrchInv, Chain, Delivers, StepsFollowTheirUpstream
<1> QED BY <1>1, OrchInvHolds, PTL

\* A driver that has left without a crash left no step Pending that nobody
\* launched.
THEOREM DriversCloseTheirChain == Safety => []BrokenChainsAreClosed
<1>1. OrchInv => BrokenChainsAreClosed
  BY OrchestrationAssumption
     DEF OrchInv, Settled, Upto, Launched, BrokenChainsAreClosed, OrchestrationAssumption
<1> QED BY <1>1, OrchInvHolds, PTL

\* Whatever judge, humans and landing do in whatever order, what is selected
\* or merged was delivered.
THEOREM WinnersHaveDelivered == Safety => []WinnersDelivered
<1>1. OrchInv => WinnersDelivered
  BY DEF OrchInv, Winners, Delivered, WinnersDelivered
<1> QED BY <1>1, OrchInvHolds, PTL

\* No worktree of a live task is removed before a winner is merged, through
\* any chain of retries.
THEOREM WorktreesAreKept == Safety => []TreesAreKept
<1>1. OrchInv => TreesAreKept
  BY DEF OrchInv
<1> QED BY <1>1, OrchInvHolds, PTL

=============================================================================
