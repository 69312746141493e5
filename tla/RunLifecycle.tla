---------------------------- MODULE RunLifecycle ----------------------------
(***************************************************************************)
(* The life of a run behind the gate (crates/daemon/src/runs.rs, start_run, *)
(* supervise, retry_run; crates/acp/src/run.rs, run_once; the boot sweep of *)
(* crates/daemon/src/lib.rs).                                              *)
(*                                                                         *)
(* Four tasks touch one run: the caller of start_run, the supervisor, the  *)
(* driver the supervisor spawns (it owns the agent process) and detached   *)
(* tasks that write a snapshot of the run to the store.  The store executes *)
(* one job at a time, so every write is one step here; which of two writes *)
(* that nobody orders comes first is left open.                            *)
(*                                                                         *)
(* The module extends RunGate: each action that crosses the gate conjoins  *)
(* the gate's action, every other one leaves the gate alone.               *)
(***************************************************************************)
EXTENDS RunGate

CONSTANTS
  Tasks,       \* tasks runs are launched on
  MaxEvents,   \* bound: events one driver sends
  FailingRuns, \* runs for which a write may fail whose error the code drops
  None

ASSUME LifecycleAssumption ==
  MaxEvents \in Nat /\ FailingRuns \subseteq Runs /\ None \notin Runs \cup Tasks

VARIABLES
  row,        \* row[r]: status column of r in the runs table, "none" if no row
  rowDir,     \* runs whose row carries the workspace
  sup,        \* sup[r]: where the supervisor of a live run stands
  status,     \* status[r]: run.status in the supervisor's hands
  done,       \* runs whose supervise loop has seen the end of the driver
  driver,     \* driver[r]: the spawned run_once future
  sent,       \* sent[r]: events the driver has sent
  evq,        \* evq[r]: the event channel between driver and supervisor
  snapshots,  \* snapshots[r]: detached update_run tasks not yet executed
  said,       \* said[r]: status broadcast with StreamMsg::Finished
  task,       \* task[r]: the task r was launched on
  dir,        \* dir[r]: the run whose workspace directory r works in
  seen,       \* seen[r]: the task's status when start_run was called
  taskStatus  \* status column of the tasks table

lifeVars == <<row, rowDir, sup, status, done, driver, sent, evq, snapshots,
              said, task, dir, seen, taskStatus>>
vars == <<gateVars, lifeVars>>

Terminal  == {"Completed", "Failed", "Cancelled", "Interrupted"}
Retryable == {"Failed", "Interrupted", "Cancelled"}
Active    == {"Queued", "Spawning", "Running"}

(***************************************************************************)
(*  none     the run is not past the gate                                  *)
(*  prep     create_workspace and the injection render                     *)
(*  mark     update_run with the workspace and Spawning                    *)
(*  begin    update_task_status, if the task was Pending or Done           *)
(*  open     transcript created, driver spawned                            *)
(*  loop     the select! loop                                              *)
(*  sealRow  the loop is left: flush the transcript, final update_run      *)
(*  sealTask the task of a completed run becomes Done                      *)
(*  tell     StreamMsg::Finished is broadcast                              *)
(*  fail     preparation or supervise returned an error                    *)
(*  exit     the closure is about to return                                *)
(***************************************************************************)
SupPhase == {"none", "prep", "mark", "begin", "open", "loop", "sealRow",
             "sealTask", "tell", "fail", "exit"}

\* run_once announces the live session first, then streams; of what it streams
\* only usage updates make the supervisor write the row.
Event(k) == IF k = 1 THEN "running" ELSE "usage"

TypeOK ==
  /\ GateTypeOK
  /\ row \in [Runs -> Active \cup Terminal \cup {"none"}]
  /\ rowDir \subseteq Runs
  /\ sup \in [Runs -> SupPhase]
  /\ status \in [Runs -> Active \cup Terminal \cup {"none"}]
  /\ done \subseteq Runs
  /\ driver \in [Runs -> {"none", "working", "aborted", "gone", "ok", "err"}]
  /\ sent \in [Runs -> 0..MaxEvents]
  /\ evq \in [Runs -> Seq({"running", "usage"})]
  /\ snapshots \in [Runs -> SUBSET ((1..MaxEvents) \X (Active \cup Terminal))]
  /\ said \in [Runs -> Active \cup Terminal \cup {"none"}]
  /\ task \in [Runs -> Tasks \cup {None}]
  /\ dir \in [Runs -> Runs \cup {None}]
  /\ seen \in [Runs -> {"Pending", "InProgress", "Done"}]
  /\ taskStatus \in [Tasks -> {"Pending", "InProgress", "Done"}]

Init ==
  /\ GateInit
  /\ row = [r \in Runs |-> "none"]
  /\ rowDir = {}
  /\ sup = [r \in Runs |-> "none"]
  /\ status = [r \in Runs |-> "none"]
  /\ done = {}
  /\ driver = [r \in Runs |-> "none"]
  /\ sent = [r \in Runs |-> 0]
  /\ evq = [r \in Runs |-> <<>>]
  /\ snapshots = [r \in Runs |-> {}]
  /\ said = [r \in Runs |-> "none"]
  /\ task = [r \in Runs |-> None]
  /\ dir = [r \in Runs |-> None]
  /\ seen = [r \in Runs |-> "Pending"]
  /\ taskStatus = [t \in Tasks |-> "Pending"]

\* Every update_run writes the whole row, the workspace included once the
\* supervisor has one.
WriteRow(r, s) ==
  /\ row' = [row EXCEPT ![r] = s]
  /\ rowDir' = IF status[r] = "none" THEN rowDir ELSE rowDir \cup {r}

\* let _ = db.update_run(..): an error of the store is dropped.
TryWriteRow(r, s) ==
  \/ WriteRow(r, s)
  \/ r \in FailingRuns /\ UNCHANGED <<row, rowDir>>

SupTo(r, p) == sup' = [sup EXCEPT ![r] = p]

(***************************************************************************)
(* Launching: a fresh run on a task, or the retry of a dead one, which     *)
(* works in the workspace the dead run's row names.                        *)
(***************************************************************************)
LaunchOn(r, t, d) ==
  /\ TryAcquire(r)
  /\ task' = [task EXCEPT ![r] = t]
  /\ seen' = [seen EXCEPT ![r] = taskStatus[t]]
  /\ dir' = [dir EXCEPT ![r] = d]
  /\ UNCHANGED <<row, rowDir, sup, status, done, driver, sent, evq, snapshots,
                 said, taskStatus>>

StartRun(r) == \E t \in Tasks : LaunchOn(r, t, r)

RetryRun(r, old) ==
  /\ row[old] \in Retryable
  /\ LaunchOn(r, task[old], IF old \in rowDir THEN dir[old] ELSE r)

\* The status insert_run is called with: that of a refused launch, of one that
\* got a permit, of one that got a slot.
InsertedAs(r) ==
  IF pc[r] = "rejecting" THEN "Failed"
  ELSE IF pc[r] = "insertFree" THEN "Spawning" ELSE "Queued"

\* insert_run executes for a launch that got a permit or a slot.
InsertRow(r) ==
  /\ pc[r] \in {"insertFree", "insertQueued"}
  /\ row[r] = "none"
  /\ WriteRow(r, InsertedAs(r))
  /\ UNCHANGED <<gateVars, sup, status, done, driver, sent, evq, snapshots,
                 said, task, dir, seen, taskStatus>>

LaunchGoesOn(r) == (Reserve(r) \/ Refund(r)) /\ UNCHANGED lifeVars

LaunchRejected(r) ==
  /\ Reject(r)
  /\ WriteRow(r, InsertedAs(r))
  /\ UNCHANGED <<sup, status, done, driver, sent, evq, snapshots, said,
                 task, dir, seen, taskStatus>>

SpawnSupervisor(r) ==
  /\ row[r] # "none"
  /\ Spawn(r)
  /\ sup' = [sup EXCEPT ![r] = IF pc[r] = "insertFree" THEN "prep" ELSE "none"]
  /\ UNCHANGED <<row, rowDir, status, done, driver, sent, evq, snapshots, said,
                 task, dir, seen, taskStatus>>

\* The launch goes away at the await of insert_run: the insert failed, or it was
\* already with the store and executes all the same.
LaunchAbandoned(r) ==
  /\ Abandon(r)
  /\ \/ UNCHANGED <<row, rowDir>>
     \/ /\ row[r] = "none"
        /\ WriteRow(r, InsertedAs(r))
  /\ UNCHANGED <<sup, status, done, driver, sent, evq, snapshots, said,
                 task, dir, seen, taskStatus>>

(***************************************************************************)
(* The supervisor at the gate.                                             *)
(***************************************************************************)
WaitAtGate(r) == (Poll(r) \/ Wake(r)) /\ UNCHANGED lifeVars

LeaveGate(r) ==
  /\ Settle(r)
  /\ SupTo(r, IF pc[r] = "admitted" THEN "prep" ELSE "none")
  /\ UNCHANGED <<row, rowDir, status, done, driver, sent, evq, snapshots, said,
                 task, dir, seen, taskStatus>>

CancelledInQueue(r) ==
  /\ Unwind(r)
  /\ TryWriteRow(r, "Cancelled")
  /\ UNCHANGED <<sup, status, done, driver, sent, evq, snapshots, said,
                 task, dir, seen, taskStatus>>

(***************************************************************************)
(* The supervisor past the gate, up to the loop.                           *)
(***************************************************************************)
At(r, p) == pc[r] = "live" /\ sup[r] = p

CreateWorkspace(r) ==
  /\ At(r, "prep")
  /\ SupTo(r, "mark") \/ SupTo(r, "fail")
  /\ UNCHANGED <<gateVars, row, rowDir, status, done, driver, sent, evq,
                 snapshots, said, task, dir, seen, taskStatus>>

MarkSpawning(r) ==
  /\ At(r, "mark")
  /\ \/ row' = [row EXCEPT ![r] = "Spawning"] /\ rowDir' = rowDir \cup {r}
     \/ r \in FailingRuns /\ UNCHANGED <<row, rowDir>>
  /\ status' = [status EXCEPT ![r] = "Spawning"]
  /\ SupTo(r, "begin")
  /\ UNCHANGED <<gateVars, done, driver, sent, evq, snapshots, said, task, dir,
                 seen, taskStatus>>

\* The condition is on the task as start_run's caller read it; an error of the
\* write is dropped.
BeginTask(r) ==
  /\ At(r, "begin")
  /\ \/ /\ seen[r] \in {"Pending", "Done"}
        /\ taskStatus' = [taskStatus EXCEPT ![task[r]] = "InProgress"]
     \/ (seen[r] = "InProgress" \/ r \in FailingRuns) /\ UNCHANGED taskStatus
  /\ SupTo(r, "open")
  /\ UNCHANGED <<gateVars, row, rowDir, status, done, driver, sent, evq,
                 snapshots, said, task, dir, seen>>

\* supervise: the transcript file is created, or is not, and the driver spawned.
OpenSession(r) ==
  /\ At(r, "open")
  /\ \/ SupTo(r, "loop") /\ driver' = [driver EXCEPT ![r] = "working"]
     \/ SupTo(r, "fail") /\ UNCHANGED driver
  /\ UNCHANGED <<gateVars, row, rowDir, status, done, sent, evq, snapshots, said,
                 task, dir, seen, taskStatus>>

(***************************************************************************)
(* The driver.  abort() takes effect where the future next yields: until   *)
(* then an aborted driver may still send.                                  *)
(***************************************************************************)
DriverSends(r) ==
  /\ driver[r] \in {"working", "aborted"}
  /\ sent[r] < MaxEvents
  /\ sent' = [sent EXCEPT ![r] = @ + 1]
  /\ evq' = IF sup[r] = "loop"
            THEN [evq EXCEPT ![r] = Append(@, Event(sent[r] + 1))]
            ELSE evq
  /\ UNCHANGED <<gateVars, row, rowDir, sup, status, done, driver, snapshots,
                 said, task, dir, seen, taskStatus>>

DriverEnds(r) ==
  /\ \/ driver[r] = "working" /\ sent[r] > 0 /\ driver' = [driver EXCEPT ![r] = "ok"]
     \/ driver[r] = "working" /\ driver' = [driver EXCEPT ![r] = "err"]
     \/ driver[r] = "aborted" /\ driver' = [driver EXCEPT ![r] = "gone"]
  /\ UNCHANGED <<gateVars, row, rowDir, sup, status, done, sent, evq, snapshots,
                 said, task, dir, seen, taskStatus>>

(***************************************************************************)
(* The select! loop.                                                       *)
(***************************************************************************)
\* An event is appended to the transcript and broadcast; a session that went
\* live or a usage update also writes the run from a detached task.
LoopEvent(r) ==
  /\ At(r, "loop")
  /\ evq[r] # <<>>
  /\ evq' = [evq EXCEPT ![r] = Tail(@)]
  /\ status' = [status EXCEPT ![r] = IF Head(evq[r]) = "running" THEN "Running" ELSE @]
  /\ snapshots' = [snapshots EXCEPT ![r] = @ \cup {<<sent[r] - Len(evq[r]) + 1, status'[r]>>}]
  /\ UNCHANGED <<gateVars, row, rowDir, sup, done, driver, sent, said, task, dir,
                 seen, taskStatus>>

\* Mutated form: the driver is detached, not aborted.
LoopCancelDetaches(r) ==
  /\ At(r, "loop")
  /\ r \notin done
  /\ token[r] = "fired"
  /\ done' = done \cup {r}
  /\ status' = [status EXCEPT ![r] = "Cancelled"]
  /\ UNCHANGED <<gateVars, row, rowDir, sup, driver, sent, evq, snapshots, said,
                 task, dir, seen, taskStatus>>

LoopCancel(r) ==
  /\ At(r, "loop")
  /\ r \notin done
  /\ token[r] = "fired"
  /\ driver' = [driver EXCEPT ![r] = IF @ = "working" THEN "aborted" ELSE @]
  /\ done' = done \cup {r}
  /\ status' = [status EXCEPT ![r] = "Cancelled"]
  /\ UNCHANGED <<gateVars, row, rowDir, sup, sent, evq, snapshots, said, task, dir,
                 seen, taskStatus>>

\* Mutated form: whatever the driver returned, the run is completed.
LoopDriverAlwaysCompletes(r) ==
  /\ At(r, "loop")
  /\ r \notin done
  /\ driver[r] \in {"ok", "err"}
  /\ done' = done \cup {r}
  /\ status' = [status EXCEPT ![r] = "Completed"]
  /\ UNCHANGED <<gateVars, row, rowDir, sup, driver, sent, evq, snapshots, said,
                 task, dir, seen, taskStatus>>

\* Mutated form: the end of the driver does not end the loop.
LoopDriverNotDone(r) ==
  /\ At(r, "loop")
  /\ r \notin done
  /\ driver[r] \in {"ok", "err"}
  /\ status' = [status EXCEPT ![r] = IF driver[r] = "ok" THEN "Completed" ELSE "Failed"]
  /\ UNCHANGED <<gateVars, row, rowDir, sup, done, driver, sent, evq, snapshots,
                 said, task, dir, seen, taskStatus>>

LoopDriver(r) ==
  /\ At(r, "loop")
  /\ r \notin done
  /\ driver[r] \in {"ok", "err"}
  /\ done' = done \cup {r}
  /\ status' = [status EXCEPT ![r] = IF driver[r] = "ok" THEN "Completed" ELSE "Failed"]
  /\ UNCHANGED <<gateVars, row, rowDir, sup, driver, sent, evq, snapshots, said,
                 task, dir, seen, taskStatus>>

\* The grace period is over and the channel is empty.
\* Mutated form: the loop is left as soon as a cancellation is pending.
LoopExitOnCancel(r) ==
  /\ At(r, "loop")
  /\ r \in done \/ token[r] = "fired"
  /\ evq[r] = <<>>
  /\ SupTo(r, "sealRow")
  /\ UNCHANGED <<gateVars, row, rowDir, status, done, driver, sent, evq, snapshots,
                 said, task, dir, seen, taskStatus>>

LoopExit(r) ==
  /\ At(r, "loop")
  /\ r \in done
  /\ evq[r] = <<>>
  /\ SupTo(r, "sealRow")
  /\ UNCHANGED <<gateVars, row, rowDir, status, done, driver, sent, evq, snapshots,
                 said, task, dir, seen, taskStatus>>

(***************************************************************************)
(* Finalization.                                                           *)
(***************************************************************************)
\* Mutated form: the task is closed whatever the run's status.
SealRowAndTask(r) ==
  /\ At(r, "sealRow")
  /\ WriteRow(r, status[r])
  /\ SupTo(r, "sealTask")
  /\ UNCHANGED <<gateVars, status, done, driver, sent, evq, snapshots, said,
                 task, dir, seen, taskStatus>>

SealRow(r) ==
  /\ At(r, "sealRow")
  /\ \/ /\ WriteRow(r, status[r])
        /\ SupTo(r, IF status[r] = "Completed" THEN "sealTask" ELSE "tell")
     \/ SupTo(r, "fail") /\ UNCHANGED <<row, rowDir>>
  /\ UNCHANGED <<gateVars, status, done, driver, sent, evq, snapshots, said,
                 task, dir, seen, taskStatus>>

SealTask(r) ==
  /\ At(r, "sealTask")
  /\ \/ SupTo(r, "tell") /\ taskStatus' = [taskStatus EXCEPT ![task[r]] = "Done"]
     \/ SupTo(r, "fail") /\ UNCHANGED taskStatus
  /\ UNCHANGED <<gateVars, row, rowDir, status, done, driver, sent, evq, snapshots,
                 said, task, dir, seen>>

Tell(r) ==
  /\ At(r, "tell")
  /\ said' = [said EXCEPT ![r] = status[r]]
  /\ SupTo(r, "exit")
  /\ UNCHANGED <<gateVars, row, rowDir, status, done, driver, sent, evq, snapshots,
                 task, dir, seen, taskStatus>>

FailRow(r) ==
  /\ At(r, "fail")
  /\ TryWriteRow(r, "Failed")
  /\ SupTo(r, "exit")
  /\ UNCHANGED <<gateVars, status, done, driver, sent, evq, snapshots, said,
                 task, dir, seen, taskStatus>>

LeaveRun(r) == At(r, "exit") /\ End(r) /\ UNCHANGED lifeVars

\* A detached update_run reaches the store's queue, whenever it is polled.
WriteSnapshot(r) ==
  /\ \E s \in snapshots[r] :
       /\ snapshots' = [snapshots EXCEPT ![r] = @ \ {s}]
       /\ TryWriteRow(r, s[2])
  /\ UNCHANGED <<gateVars, sup, status, done, driver, sent, evq, said,
                 task, dir, seen, taskStatus>>

CancelRun(r) == Cancel(r) /\ UNCHANGED lifeVars

(***************************************************************************)
(* The daemon dies; the next one reaps the agents it left behind and marks *)
(* every row that was still active as Interrupted before it serves.        *)
(***************************************************************************)
CrashAndBoot ==
  /\ Restart
  /\ row' = [r \in Runs |-> IF row[r] \in Active THEN "Interrupted" ELSE row[r]]
  /\ sup' = [r \in Runs |-> "none"]
  /\ done' = {}
  /\ status' = [r \in Runs |-> "none"]
  /\ driver' = [r \in Runs |-> IF driver[r] \in {"working", "aborted"}
                               THEN "gone" ELSE driver[r]]
  /\ evq' = [r \in Runs |-> <<>>]
  /\ snapshots' = [r \in Runs |-> {}]
  /\ UNCHANGED <<rowDir, sent, said, task, dir, seen, taskStatus>>

Caller(r) ==
  \/ InsertRow(r) \/ LaunchGoesOn(r) \/ LaunchRejected(r) \/ SpawnSupervisor(r)
  \/ LaunchAbandoned(r)

Supervisor(r) ==
  \/ WaitAtGate(r) \/ LeaveGate(r) \/ CancelledInQueue(r)
  \/ CreateWorkspace(r) \/ MarkSpawning(r) \/ BeginTask(r) \/ OpenSession(r)
  \/ LoopEvent(r) \/ LoopCancel(r) \/ LoopDriver(r) \/ LoopExit(r)
  \/ SealRow(r) \/ SealTask(r) \/ Tell(r) \/ FailRow(r) \/ LeaveRun(r)

Driver(r) == DriverSends(r) \/ DriverEnds(r)

Next ==
  \/ \E r \in Runs : \/ StartRun(r)
                     \/ \E old \in Runs : RetryRun(r, old)
                     \/ Caller(r) \/ Supervisor(r) \/ Driver(r)
                     \/ WriteSnapshot(r) \/ CancelRun(r)
  \/ CrashAndBoot

Safety == Init /\ [][Next]_vars

\* The runtime polls the tasks that are ready.  Nothing makes an agent finish.
Fairness == \A r \in Runs : WF_vars(Caller(r)) /\ WF_vars(Supervisor(r))

Spec == Safety /\ Fairness

-----------------------------------------------------------------------------

\* At most per_harness agents work at once: a driver works only while its run
\* holds a permit, so a queued run has no agent process (README, Concurrency
\* gates).  An aborted driver that has not reached its next yield is not counted.
AgentsBehindTheGate == {r \in Runs : driver[r] = "working"} \subseteq InPhase({"live"})

\* No agent works under a row that says the run ended (the cancellation arm
\* aborts the driver instead of detaching it), whichever of the detached and
\* the awaited writes of the row comes last.  Between abort() and its next yield
\* an agent may still act, in the code and in the model: it is not counted.
NoAgentUnderATerminalRow ==
  \A r \in Runs : row[r] \in Terminal => driver[r] # "working"

\* A row says Completed only if the agent's driver returned success: no order of
\* cancellation, driver end, straggling events and snapshots turns a cancelled
\* or failed run into a delivered one.
CompletedWasDelivered == \A r \in Runs : row[r] = "Completed" => driver[r] = "ok"

\* A task is Done only if some run of it delivered.
DoneTaskWasDelivered ==
  \A t \in Tasks : taskStatus[t] = "Done" =>
    \E r \in Runs : task[r] = t /\ driver[r] = "ok"

\* A retry continues in the directory of the run it retries, never in that of
\* another task.
WorkspaceStaysInTask ==
  \A r \in Runs : dir[r] # None => task[dir[r]] = task[r]

\* A run that was cancelled, in the queue or live, or whose agent has ended is
\* eventually finalized, and gives its slot or its permit back.
EndedRunsAreReleased ==
  \A r \in Runs :
    token[r] = "fired" \/ (pc[r] = "live" /\ driver[r] \in {"ok", "err"})
      ~> pc[r] = "over"

=============================================================================
