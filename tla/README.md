# ruagent in TLA+

ruagent is a daemon that runs coding agents: it takes tasks, launches *runs* of
agents on them (one child process per run, spoken to over ACP), keeps their rows
in SQLite, their events in a transcript and on a broadcast channel, asks humans
or an approver agent for permissions, and carries fan-outs, judges, pipelines,
chats, a memory, a knowledge base and an entity graph around that.

The hard part of the program is not the data but the many tasks that touch one
run at once: the HTTP handler that launches it, the supervisor that waits at the
concurrency gate, the driver that owns the agent process, detached tasks that
write snapshots, whoever cancels or retries it, and the boot of the next daemon
after a crash. That is what the modules here are about, and the same question comes back in
the chats (a session, its registry entry, its process and its history row are four
things) and in the distillation (a pass writes an episode, memories and a graph, and
people edit the table meanwhile).

Paths below are relative to the repository, `runs.rs` is
`crates/daemon/src/runs.rs`.

## 1. Inventory

| Component | Code | State | Operations | What is hard | What makes it correct |
|---|---|---|---|---|---|
| Concurrency gate | `runs.rs` 161-194, 717-804 | a tokio semaphore and an atomic counter per harness kind, one cancellation token per run | take a permit, reserve a slot, refuse, park, wake, cancel, release | the counter is added to before it is compared; grants race cancellations; a caller can vanish between two steps | permits and waiting units are conserved, the queue is bounded, no wakeup is lost, a cancel always works |
| Run lifecycle | `runs.rs` 672-990, 1409-1804; `acp/src/run.rs`; `daemon/src/lib.rs` 515-534 | run row, task row, supervisor, driver, event channel, detached writes | launch, retry, cancel, supervise, finalize, boot sweep | writes that nobody orders; events drained after the end; a status read long before it is used | agents only behind the gate and under live rows; Completed and Done mean delivered; every ended run is finalized |
| Permission cascade | `runs.rs` 349-505, 622-669, 1630-1686; `policy/src/lib.rs`; `acp/src/{run,chat}.rs`; `daemon/src/chat.rs` 956-968, 1350-1368; `api.rs` 6749-6817 | map of parked asks, ask channels, oneshots, approver tasks | raise, rule, delegate, park, resolve, drop | three parties answer one ask from copies of it; the approver is a run of the same gate; runs and chats end under a decision | one holder of every open ask, one answer by a tier entitled to it, fail closed, nothing left behind by a run |
| Orchestration | `runs.rs` 996-1292; `orchestrator/src/lib.rs` | task rows and edges, selected run, background drivers | pipeline, fan-out, judge, select, land, clean up | polls of the store against a run that is still being finalized; human and judge both select | a pipeline step starts only after its upstream delivered; what is selected and landed was delivered (whose selection it is, is another matter: section 6) |
| Event stream | `daemon/src/api.rs` 3844-3896; `runs.rs` 1436-1445; `store/src/transcript.rs` | transcript file, broadcast channel, per-client cursor | append, broadcast, replay, tail, end | replay and tail overlap; lag; a run that ends between two reads | every event once and in order, then the end marker |
| Store writer | `store/src/sqlite.rs` | operation queue, writer thread, panic record | call, execute, drop | record before wake; who joins whom at shutdown | a caller that hears of a panic can read it; no deadlock at shutdown |
| Chats | `daemon/src/chat.rs`; `acp/src/chat.rs` | registry of live sessions, attributed children, command channel, generating flag, history rows | start, prompt, stop, set, close, reap, resume, switch, delete | checks before an await, used after it; two locks; a prompt that is never answered | commands act in arrival order, a closed chat's agent ends, an abandoned one ends unless its agent owes an answer, nothing is killed that was not closed |
| Orphans | `daemon/src/orphans.rs` | pid record | attribute, sweep, reclaim | a pid changes hands; several agents run one program | what is killed belongs to a chat that was closed (that attribution never guesses is not so: section 6) |
| Memory | `memory/src/{write,lifecycle,episode}.rs` | table `memories`, episodes | write, supersede, delete, restore, purge | one closure is not one transaction; ids come back after a purge; the row to replace was chosen long before | supersede links are histories, a refusal changes nothing |
| Distillation | `daemon/src/distill.rs` | episodes, memories, graph, `distill_log` | extract, record, judge, write, void, retry | three stores one after the other, retries on top of what failed | a pass logged ok dropped no fact, a failed graph stays marked |
| Knowledge | `knowledge/src/{files,store}.rs`; `daemon/src/lib.rs` 672-696 | markdown tree, rows and chunks in SQLite, vectors in LanceDB, one lock | scan, save, edit, roll back, delete, rebuild | two stores and a tree written one after the other, some of it outside the lock; ids that are used again | one row per name, rows follow files, a rebuild that nothing crosses restores what is missing |
| Documents in the graph | `daemon/src/knowledge_graph.rs` | ledger of what each document stated | sweep, request, write, prune, record | four calls with awaits; passes overlap without a lock; facts shared with sessions and other documents | a fact goes with its last claim, claims that a pass has read stay |
| Entity graph | `graph/src/lib.rs`; handlers in `daemon/src/api.rs` | entities, aliases, edges with two times, pairs to decide | extract, create, state a fact, dismiss, merge, delete | names, aliases and facts arrive in any order from several sources | names stay known, history is kept, extracting twice says nothing new |
| Sessions, wiki, capabilities | `crates/daemon/src/{sessions,wiki,capability}.rs` | index rows, job state, a table of switches | rescan, compile, gate | rescans against deletions | a deleted session stays deleted |
| The rest | HTTP interface, MCP bridge, adapters, registry, skills, migrations, CLI, panel | - | - | I/O, parsing, rendering | - |

Interactions: the HTTP handlers, the retry button, the pipeline driver, the judge
and the approver all call `start_run`; `start_run` inserts the row, registers a
token and spawns the supervisor; the supervisor spawns the driver and talks to it
over two channels (events, asks) and `abort()`; all rows go through the store's
single writer; subscribers read the broadcast channel; background drivers
(pipeline, judge, approver) poll the row until it is terminal. Chats have supervisors,
an ask forwarder and watchers of their own; closing one spawns its reclamation and may
start a distillation, which writes through the same store as everybody else.

The hazards of each part are in `PROJECT.json`, at the line where they bite.

## 2. Modules

| Module | Models | Composes |
|---|---|---|
| `Admission` | what a concurrency gate promises its callers: a bounded set of running and a bounded set of queued launches | - |
| `RunGate` | the gate of one harness kind, step by step; implements `Admission` | instance of `Admission` |
| `RunLifecycle` | the life of a run behind the gate: rows, task status, supervisor, driver, events, detached writes, retry, crash | extends `RunGate` |
| `AskContract` | what the permission cascade promises about one ask | - |
| `Permissions` | the cascade: policy, channels, inbox, approver tasks, humans; implements `AskContract` | instance of `AskContract` |
| `RunEvents` | transcript, broadcast channel and the SSE handler | - |
| `Orchestration` | pipelines, fan-outs, judge, selection, landing, deletion over the rows of runs | - |
| `StoreWriter` | the writer thread behind every `Db` handle | - |
| `ChatSession` | one chat session: commands, supervisor loop, close, reclamation | - |
| `Chats` | the registry over several sessions, and whose agent is whose | - |
| `Memory` | the table of memories and what people do to it | - |
| `Distillation` | passes that write memories beside those people | extends `Memory` |
| `EntityGraph` | names, aliases, facts and pairs of the entity graph | - |
| `GraphIngest` | documents of the knowledge base in that graph | extends `EntityGraph` |
| `KnowledgeIndex` | files, rows and vectors of the knowledge base | - |
| `MCRunLifecycle`, `MCPermissions`, `MCRunEvents`, `MCOrchestration`, `MCStoreWriter`, `MCChatSession`, `MCChats`, `MCDistillation`, `MCGraphIngest`, `MCKnowledgeIndex` | small instances: symmetry sets, titles and rules, texts and what they yield, functions a `.cfg` cannot write | each extends its module |
| `RunLifecycle_proofs` (with `RunGate`), `Permissions_proofs`, `RunEvents_proofs`, `Orchestration_proofs`, `Stores_proofs` (`StoreWriter` and `KnowledgeIndex`), `Chats_proofs` (`Chats` and `ChatSession`), `Distillation_proofs` (with `Memory`), `GraphIngest_proofs` (with `EntityGraph`) | the theorems | |

### RunGate

One step is what the code does between two points where another task can run or
observe it: an atomic operation, a lock, an await. `pc[r]` is where the launch
or the supervisor of run `r` stands; the comment on `Phase` ties each value to
the code. `permits`, `semq` and `granted` are the tokio semaphore as the code
uses it (external: free permits, the fair queue of parked `acquire_owned`
futures, and the futures that were assigned a permit and have not been polled).
`waiting` is `HarnessGate.waiting`, `token` the map `RunManager.cancellations`.

| Action | Code (`runs.rs`) |
|---|---|
| `TryAcquire` | `try_acquire_owned` 717-720 |
| `Reserve`, `Refund` | `reserve_slot` 179-194: `fetch_add` with the comparison of its own result, `fetch_sub` |
| `Reject` | the Failed row of a refused launch 727-732 |
| `Abandon` | an error, or a dropped future, at the await of `insert_run` 731, 736, 743: a permit goes back by its guard, a reserved unit has no guard |
| `Spawn` | token registered, supervisor spawned 746-776 |
| `Poll`, `Wake` | `select!{acquire_owned, cancelled}` 780-783: arms in random order, the losing acquire is dropped and hands its grant on |
| `Settle` | `waiting.fetch_sub` 784 |
| `Unwind` | Cancelled row and token removal 785-800 |
| `End` | closure returns 920-924 |
| `Cancel` | `cancel_run` 370-377 |
| `Restart` | `RunManager::new` in the next process |

### RunLifecycle

Extends `RunGate`; every action that crosses the gate conjoins the gate's action,
so `GateSafety` is a property of the module and not a hope. `row` and `rowDir` are
the status and workspace columns, `taskStatus` the task's column, `sup` the
supervisor's position (see the comment on `SupPhase`), `status` and `done` the
supervisor's local `run.status` and `done`, `driver` the spawned `run_once`,
`evq` the event channel, `snapshots` the detached `update_run` tasks,
`said` the last broadcast `Finished`. The store executes one job at a time, so a
write is one step; the order of two writes that nobody awaits is left open.
Events are reduced to the two that change the row: "running" (the session is
live, always first) and "usage". A failing step of `supervise` (transcript,
flush, final update, task update) goes to `fail`, as the `?` does.

Abstractions: the caller's read of the task is taken with the launch (a caller that reads
and then loses time is like one that waits longer at the gate); a workspace is named by the
run it was created for; the 300 ms of grace is not a clock, so the loop may be left as soon
as the channel is empty after the end of the driver; `driver[r]` is "aborted" from `abort()`
to the driver's next yield; it may still send events in between, and the properties on
working agents do not count it, as the code takes no step to wait for it before it writes
the row and drops the permit. `FailingRuns` are the runs for which a write whose error the
code drops (`let _ = db.update_run(..)`) may fail. `WaitingPermission` is never set by any
code and is not a status here. The ask arm of the loop and `pending.retain` are in
`Permissions`. Not in the module: the board's manual `PATCH /tasks/{id}` (a human can set
any status at any time, so the task properties speak of what runs do to a task), deletion of
a task with live runs, explicit working directories.

### Permissions

An ask is raised by the agent of a run or of a chat, goes through an unbounded
channel to the supervisor of the run or to the forwarder task of the chat, and
carries the sender of a oneshot on which the ACP handler waits. `state[a]` is that
oneshot (waiting, answered, or cancelled because one of its ends was dropped),
`channel` the ask channels, `pending` the map `RunManager.pending`, keyed by
context and tool call, `hand[d]` what a decider holds between two of its steps.

| Action | Code |
|---|---|
| `Raise` | the `request_permission` handler, `acp/src/run.rs` 106-173 and `acp/src/chat.rs` 325-389: an ask nobody receives is cancelled at once |
| `DriverEnds`, `DriverDrops`, `SessionEnds` | the connection goes down and the receivers with it |
| `Admit`, `CancelRun`, `LoopEnds`, `RunCloses` | the supervisor, `runs.rs` 776-804, 1690-1728, 1575-1588, 1777-1804 with `pending.retain` |
| `HandleAuto`, `HandleDelegate`, `HandleHuman` | the ask arm 1630-1686; which one is `Path` (`policy/src/lib.rs` 82-129) |
| `Forward`, `CloseChat`, `DropAsks` | `chat.rs` 963-967, 1350-1361 with `drop_pending_for` |
| `HumanDecides` | `api.rs` 6749-6813: the option is checked against a copy of the entry |
| `ApproverStarts` ... `ApproverDecides`, `ApproverGivesUp` | `run_approver` 381-442: launch, gate, verdict, choice; refusal, failure or the 30-minute ceiling of `wait_terminal` |
| `Take`, `Deliver` | `resolve_internal` 637-669: remove under the lock; then the event and the answer |

`phase` follows the supervisor as `RunLifecycle` does, with the statuses left out:
the cascade only depends on whether the loop reads, drains or has been left.
`Permits` is the gate seen from here; `RunGate` describes it in full, and
`ApproverGivesUp` covers a launch that the gate refuses. A title is a model value,
a rule the set of titles its substring matches, and the order of the rules is
kept. Of an option the model keeps its kind (once and always are decided alike),
so an option id stands for a kind. `Record` is `PermissionResolved`: the event goes
to the run's own channel, which is read until the loop is left.

Abstractions: all runs share one harness, the case in which approvers compete
with their askers; tokio's semaphore is fair, which appears as strong fairness of
`ApproverAdmitted` and not as a queue; the text of a verdict is "allow", "reject"
or "unclear" (REJECT is looked for first, so an ambiguous text is a rejection).
`UniqueToolCalls` says that an agent asks at most once per tool call. ACP gives no
such guarantee and the inbox key depends on it: with reuse, the decision on an
old ask settles the new one under its key. The contract is claimed under that
assumption only; `OneHolder` is proved without it. So one ask that replaces another under its
key is in the model, and only that theorem looks at it. A chat's
id stays closed here, while `resume_chat` gives a conversation its old id back
(`Chats` has that).

### RunEvents

The supervisor appends an event to the transcript and broadcasts it under the number
the writer gave it; the handler reads the row, subscribes, reads the file, and tails.
`written` is `TranscriptWriter.seq`, `filed` what a reader of the file finds, `ahead` the
runs between `append` and `send`, `inbox` and `lagged` the broadcast receiver (external:
a full buffer overwrites what a slow receiver has not read), `last` the handler's
`last_seq`. A line is its number.

| Action | Code |
|---|---|
| `Launch`, `OpenTranscript`, `GiveUp` | `runs.rs` 717-744, 1432-1434, 776-827 and 907-919: the ends that broadcast nothing |
| `Emit`, `Broadcast` | event arm 1590-1629 and `append_event` 1807-1820: a flush may fail and leaves the line in the `BufWriter` |
| `WriteSnapshot` | the detached `update_run` of a usage update 1614-1625 |
| `DriverEnds`, `Flush`, `Finalize`, `Announce` | 1575-1588, 1777-1803 |
| `ReadRow`, `Subscribe`, `Replay` | `run_events`, `api.rs` 3844-3876: three reads, three steps |
| `TailLine`, `TailFinished`, `TailLagged` | 3877-3894; the receiver carries the messages of every run |
| `CrashAndBoot` | receivers, handlers and unflushed lines are gone, `lib.rs` 515-534 |

What the properties excuse is named: `Excused` are the lines a failed flush kept off the
disk when the file was read, and line 0 when the file was empty, since `last_seq` starts
at 0 and the check is `<=` (`api.rs` 3880). The second is a loss in the code and is excused, not
denied (section 6). One client connects once; keep-alives and the text of an event are left
out, and so is a write error in `append` (`transcript.rs` 42-43), which returns before it
counts: the event is broadcast under a number that the next one takes again, while the model
knows a line by its number. Chats stream through another handler, which is not here.

### Orchestration

A run is what `RunLifecycle` leaves of it for somebody who polls: `run[r].row` and
`run[r].answer` may become terminal before the result is whole, `ends` is what the driver
returned, `dir` the run whose worktree it uses, `saw` the task status its launcher read.
`driver` is the background task of a pipeline, `judge` that of a judge, `land` and
`deleting` the two requests that sweep worktrees.

| Action | Code |
|---|---|
| `RunStarts` ... `RunLeaves`, `RetryRun` | the writes of `start_run`, `supervise`, `retry_run` that others read |
| `StartPipeline`, `PipelineNotStarted`, `DriverLaunches`, `DriverCannotLaunch`, `DriverPolls`, `DriverWaitFails`, `DriverCancels` | `start_pipeline` 1044-1124, `wait_terminal` 1950-1967, `cancel_unstarted` 1938-1947 |
| `StartFanout`, `LaunchMember` | `api.rs` 3581-3607, `runs.rs` 996-1040 |
| `StartJudge`, `JudgeDecides`, `JudgeWaitFails` | `judge_task`, `api.rs` 3695-3725; `start_judge`, `runs.rs` 1134-1215 |
| `HumanSelects` | `select_run`, `api.rs` 3778-3800 |
| `LandReads`, `LandMerges`, `LandSweeps` | `land_selected`, `runs.rs` 1224-1292, with `cleanup_task_workspaces` 512-573 |
| `DeleteSweeps`, `DeleteRows` | `delete_task`, `api.rs` 774-780 and `store/src/lib.rs` 122-137 |
| `CrashAndBoot` | `lib.rs` 515-534 |

`HumanSelects` is one step for the two calls of the handler, the read of the run and the
write: the write looks at the task only, and what the read has seen of the run, that its agent
delivered, stays so until the task goes, and then the write finds no row. One
topology is requested per behaviour. git is a choice: a merge succeeds or fails. The
texts of handoffs and verdicts are left out, so an early poll shows as a handoff that was
partial (`answer`), and the judge is asked about all candidates where a request may name
some. What the model shows and no property forbids: a retried member of a fan-out can
never be landed, because its branch carries the name of the run the worktree was made
for; a landing sweeps the worktrees of members that still run, or were selected
meanwhile; a crash, or an insert that fails half way, leaves Pending tasks that nobody
drives; a deletion races the runs it does not stop; a handoff may come from a row that
turned terminal before its result was final.

### StoreWriter

`queue` is the channel of operations, `writer` the thread, `caller[c]` a future of
`Db::call`, `panics` and `lastPanic` the two halves of
`WriterWatch`. An operation is its number, who
waits for it, whether it panics and whether its closure owns a clone of the `Db`.

| Action | Code (`sqlite.rs`) |
|---|---|
| `Call`, `Abandon` | `Db::call` 356-395: the send, and the future dropped at its await |
| `TakeOp`, `EndOp`, `CountPanic`, `NotePanic`, `Wake` | the loop 303-323 and `execute` 106-147: record first, wake afterwards |
| `DropHandle`, `Joined` | `DbInner::drop` 240-254, which closes the channel and then joins, unless it runs on the thread itself |
| `LoopEnds`, `Checkpoint` | 303-330 |

The file is closed when a drop returns only if the drop joined; a last handle that an
operation drops on the thread gives no such promise, and `DropLeavesItClosed` does not
claim it. The read pool and SQL are left out.

### ChatSession

One session from its start to the death of its agent. `mail` is the command channel,
`pend` what the loop set aside during a prompt, `flight` the prompt in flight, `holder`
where the registry's `Chat` is, `asking` the message handlers that hold a clone,
`generating` the flag of the history route and `over` the terminal events its watcher
has not heard. `sup` is where the supervisor stands: "starting" while the agent is greeted
(initialize, the new session, the first model), "up" in its loop, "setting" while it waits for the
answer to an option, "leaving" and "down". In the greeting and at an option the code awaits the
agent and selects nothing else, so that a Shutdown stays in the channel.

| Action | Code |
|---|---|
| `MessageArrives`, `MessageSent`, `MessageRefused`, `StopArrives`, `OptionArrives` | routes `api.rs` 6880-6919; `daemon/src/chat.rs` 249-272, 1537-1556 |
| `AgentReady`, `AgentRefuses` | the greeting, `acp/src/chat.rs` 440-508: it succeeds, or the supervisor returns the error |
| `OptionAnswered` | the answer to an option, 633-641 |
| `LoopTakes`, `LoopListens`, `AgentAnswers`, `PromptFails`, `LoopFindsNobody`, `ConnectionFails`, `SupervisorReturns` | `supervise_chat`, `acp/src/chat.rs` 515-666 |
| `WatcherHears` | the run-state watcher, `daemon/src/chat.rs` 1084-1103 |
| `Close`, `Replaced`, `Reclaims`, `DeleteStops`, `DeleteCloses`, `DeleteDropsRow` | 1147-1150, 1289-1415 |

The child guard of the ACP library may not fire (`SupervisorReturns` allows both), which is
why `reclaim_after_close` exists. `GeneratingIsEarned` is claimed for a session that still
works: the flag stays up when a prompt is accepted while the supervisor leaves, and a second
queued prompt is cleared away by the first one's end. `AbandonedSessionsEnd` says what is
true of a session that nobody holds, one that a second resume replaced included: it ends, or
its living agent owes one answer for ever (`AwaitsAgent`). Nothing in the code gives up on
such an agent except the reclamation that follows a close, which is what
`ClosedAgentsAreReclaimed` is about.

### Chats

The registry over several sessions. A conversation keeps its id through resumes, and every
start, resume and switch makes a session with an agent of its own, so `chats`, `children`,
`stage`, `attr` and `closing` record who holds what. `window[s]` is the snapshot of children
taken before the spawn, `sighted[s]` the agent the polling task picked, `ref[s]` what a
close took from the children map.

| Action | Code (`daemon/src/chat.rs`) |
|---|---|
| `Start`, `ResumeChecks`, `ResumeReadsRow`, `Switches` | 810-912; each look is a step of its own, as the awaits are |
| `Snapshots`, `Spawns`, `AgentStarts`, `WritesRow`, `Registers`, `GivesUp` | `start_inner` 919-1159; the request may be dropped at every await |
| `Close`, `CloseTakesChild`, `Reclaims` | 1350-1368, 1289-1340; two locks, two steps |
| `DeleteCloses`, `DeleteDropsRow` | 1394-1415 |
| `Sights`, `StopsLooking`, `FindsChatOpen`, `Keeps`, `FindsChatClosed` | `attribute_child` 1233-1277 with the rule of `orphans.rs` 536-572 |

All agents run the same program: a differing image only helps attribution. What the model
shows and no property forbids: two resumes run two sessions of one conversation (the
replaced one ends, `AbandonedSessionsEnd`); a delete that races a resume leaves a live
chat without a row; a request that is dropped after the spawn leaves an agent that no
registry knows; an entry of the children map can outlive its chat; a dead agent's chat stays
registered until it is closed or idle for an hour. Probes, the option cache and the chat's
event stream are left out.

### Memory and Distillation

`row[i]` is a row of table `memories`: a fact (content, store and namespace: the unique
key), the row it superseded, and the two flags `superseded` and `deleted`. A write is one
closure on the writer thread and no transaction: `WithSuperseded` is the UPDATE that has
committed when a later statement refuses. A purged last id is given out again (`IsNewId`).

| Action | Code |
|---|---|
| `SkipsDuplicate`, `RevivesTombstone`, `InsertsRow`, `RefusesTarget`, `RefusesKey` | `write_memory`, `memory/src/write.rs` 213-361 |
| `Delete`, `Restore`, `Purge` | `memory/src/lifecycle.rs` 48-244 |
| `Starts`, `Extracts`, `FindsNoContent`, `ReadFails` | `distill.rs` 729-961, 1388-1432 |
| `Records`, `Judges`, `Writes`, `WritesUnaudited`, `IsForbidden`, `WriteFails` | `write_memories` 1552-1715, `write_extraction` 1107-1127; the judge and the write are two calls |
| `WritesGraph`, `GraphFails`, `Voids` | 1004-1072, 1723-1798, `void_episode` 1204-1227 |
| `Retries`, `GivesUp` | `with_retries` 627-647, `distill_plan` 756-804 |

What the extractor finds and what the judge answers are choices. The audit is a separate
call after the write (`WritesUnaudited`). What the model shows and no property forbids: a
retry after a failed graph finds the voided episode and leaves it marked although the
pass ends ok; the rows shown to the judge include tombstones (1630-1631), so one that says
the same keeps failing every attempt; two passes may insert two phrasings of one fact; an
error of `void_episode` is dropped; a revived row keeps its old link.

### EntityGraph

`graph` holds the four tables: `entity` (id to normalized name), `alias` (name to id),
`edges`, and `pending` (unordered pair to open or dismissed). Each operation is one
transaction on the writer thread and one action. Names are numbers because
`resolve_entity_in` sorts its probes; what the judge says of two names is two relations on
names (`SameObject`, `SameFamily`), and a fact is the hash of its text. `by` on an edge is
history: who stated it.

| Action, operator | Code (`graph/src/lib.rs`) |
|---|---|
| `Extract`, `Extracted`, `AfterNames`, `AfterFacts`, `AddClaim` | `apply_extraction` 2045-2106, called by `write_graph` in `distill.rs`: a list of names, then a list of facts between them |
| `Resolve`, `SameAs`, `Created`, `NewId`, `Judged` | `resolve_entity_in` 1608-1713, `judge_against` 1436-1465 |
| `Resolved`, `WithEntity`, `WithAliases`, `WithPair` | 1587-1601, 120-144, 1502-1521, 1729-1744 |
| `Upserted`, `IsStated`, `WithFact`, `Closed` | `upsert_fact_in` 1235-1296, `insert_fact_in` 1037-1084 |
| `CreateEntity`, `AddFact`, `Dismiss`, `Merge`, `DeleteEntity` | the handlers in `api.rs`, `dismiss_pair`, `merge_entities`, `delete_entity` |

`ReExtractionSaysNothingNew` says what a repeated extraction does: what holds stays the
same, and no row of a relation that belongs to a family is ended or added. A relation
without a family is not looked for (1251-1284 is skipped), and its row is ended and written
anew under the same text, so that the stronger `ReStatementsAreSkipped` is false (section
6). An extraction that states two texts under one relation alternates between them and is
excluded (`OneTextPerRelation`).

Kinds, summaries, communities, and the provenance columns are left out, and so is the
first of two edges when the query of `upsert_fact_in` gives no order: the model takes the
order of the index it is answered from (`FirstNamed`).

### GraphIngest

Extends `EntityGraph`. `rows` is the documents table, newest first, `ledger` what
`knowledge_graph_ingest` records, `pass[p]` what a sweep or a request holds between its
awaits. A text stands for its hash; `Yield[t]` is what the rules extract from it.

| Action | Code (`daemon/src/knowledge_graph.rs`) |
|---|---|
| `SweepStarts`, `Selection`, `Taken`, `Advance`, `Skip`, `Fails` | `sweep` 366-405: the first `MaxDocs` of what is due are taken before any of them is read |
| `Request` | `api.rs` 7786-7813; without a name it is a sweep (7814), so that `SweepStarts` is open to every ingester |
| `Read`, `LoadLedger`, `Write`, `Prune`, `Record` | `ingest_document` 202-355, `prune_previous_revision` 705-794, `write_ledger_row` 646-691 |
| `Index`, `Edit` | what the scan, or a save, does to a document's row as a whole (step by step in `KnowledgeIndex`); people editing files |

A row is newest when its text changed last (`created_at` is the time of indexing).
Passes overlap as they like: the loop and the requests share no lock. `crossed` is history: the
ingesters at work on a ledger that they read before another one wrote the graph or a row. What
survives the overlap is stated as it is. `OthersClaimsSurvive`: a prune leaves what the row of
another document states, if that row is still what the pass has read. `RetractedWithItsClaim`:
a fact of a document that holds and loses its last claim is retracted in that very step, but in
two cases, a pass that has written it and stops before its row is recorded, and a row that a
crossed pass replaces. The unconditional forms are false (section 6).

### KnowledgeIndex

`rows` is the documents table, `vectors` the LanceDB table, `lock` the mutex
`index_lock`, `proc[p]` what an operation holds between its awaits. A text has one
chunk, so that a row's id stands for its chunk's too; both are given out again after a
deletion. `whole` is FALSE for a row whose chunk is missing.

| Action | Code |
|---|---|
| `ScanStarts`, `Read`, `FindGone` | `scan`, `files.rs` 269-311 |
| `SaveStarts`, `EditStarts`, `EditWrites` | `save` 222-236, `edit_chunk` 354-437, `rollback_revision` 505-592 |
| `DeleteStarts`, `Unlink` | `delete_document_with_file` 196-216 |
| `RebuildStarts`, `Force` | `rebuild` 316-348 |
| `Lock`, `LookUp`, `Dropped`, `Insert`, `Embed` | `index_doc`, `store.rs` 770-876 |
| `FindChunk`, `DropRow`, `DropVector` | `delete_document` 1613-1650: three calls, three steps |
| `Fails`, `InsertsHalf`, `DropsHalf`, `Crash` | an error of a call, which is no transaction; the end of the process |

Operations run at once, and `ByHand` lets people change files. `alone` is history: the
rebuild beside which nothing has been at work since it began. `RebuildRestores` is about
such a rebuild, whatever overlapped, failed or crashed before; beside a scan or a deletion a
rebuild may lose a row again, as deletions take no lock (section 6). Documents without a
file, the history of revisions and the switch of the embedder are left out.

## 3. Runs

| Run | Instance | Question |
|---|---|---|
| `gate` | `MCRunLifecycle` with 3 runs, 1 task, 1 permit, 1 slot, no event, symmetry | Is no wakeup lost, and does the gate keep the contract of `Admission`, under whole runs? |
| `life` | 2 runs, 1 task, 1 permit, 1 slot, 1 event, dropped store errors of one run, fairness | Agents behind the gate, no agent under a terminal row, Completed and Done mean delivered; is every cancelled or ended run finalized, and every queued one admitted? |
| `perm_safety` | 2 runs, one of them the approver agent's own, 2 asks, 1 tool call, 4 titles, 2 overlapping rules, 1 human, unreliable approver, 2 permits | Has every open ask one holder, is it settled once by a tier entitled to it, does the transcript agree? |
| `perm_liveness` | 2 runs that both may ask, 1 chat, 2 asks, 2 permits, nobody at the inbox, `FairSpec` | Is what is delegated settled unattended, unless runs hold every permit for ever, and does a run that ends take its asks with it? |
| `run_events` | a run of 3 lines and another run, 1 client, a channel of 2 | Are lines sent in order, once, without a hole; is what precedes the end marker complete; does an attached stream end? |
| `orchestration` | 3 runs, 2 steps or 2 members | Does a step start only after its upstream delivered, is a broken chain closed, did winners deliver, are worktrees kept, does a driver end? |
| `store_writer` | 2 callers, 3 operations | Is a panic on record before its caller hears of it, is every call answered, does a shutdown complete? |
| `chat_session` | 3 prompts, 1 stop route call, options, deletion | Do commands act in arrival order, is the generating flag earned, does a closed agent end, does an abandoned session, also when its agent answers neither greeting nor option? |
| `chats` | 2 conversations, 2 sessions | Does attribution kill only after a close? |
| `distillation` | 4 facts, one of them forbidden, 4 ids, 1 purge, 1 pass, 1 retry, symmetry over plain facts | Are links histories, do failed graphs stay marked, is no fact of an ok pass dropped? |
| `ingest` | 3 names, 2 entity ids, 3 edges, 1 instant; 2 documents, symmetric, 3 texts, 2 ingesters that overlap, 1 edit, 1 failure, crash or step of a session or a person | Does a fact go with its last claim, does a repeated extraction say nothing new, do claims that a pass has read survive its prune, do names stay known? |
| `index` | 2 documents, 3 texts (one torn), a scan and a request at once, 2 requests or changes by hand, 1 fault, 6 row ids | Has a document one row, do rows follow files in the end, and does a rebuild restore what is missing? |

Bounds and why they are enough. Three launches against one permit and one slot let one run
hold the permit, one wait, and a third be refused by its unit or by one that was lost, while
any of them is cancelled, abandoned or a retry of another; that a launch is refused for the
transient unit of another takes a fourth, and is left to the theorems, which cover every
number. In the lifecycle two runs contend for one permit and can retry one another; with two
tasks a retry could cross from one to the other, which is left to a theorem. One event per
driver is the session's announcement; the usage update after it, and the two snapshots that
may land in either order, are left to the theorems, which hold for every `MaxEvents` and
every `FailingRuns`. `MaxEvents` caps what one driver sends; `waiting` is bounded by the
number of runs. With one run whose writes fail and one whose writes do not, both kinds meet.

In the cascade two asks are what it takes for one to replace the other under its key, or for
a decision on one to meet the other; one human and one approver task per ask give three
deciders; the two runs of `perm_safety` contend for the gate with the approver runs; the
four titles are one that a rule rejects and a later rule would allow, one that a rule
allows, one high-risk and one plain; the two offers include an ask without an allow option.
In `perm_liveness` two permits let one approver run beside one asking run, and both runs may
ask at once, which fills the gate with runs that wait for an approver behind them: the
deadlock of `runs.rs` 407 is in the instance, and the property says that it is the only way
for an ask to be left alone (section 6). The ceiling of 30 minutes that ends it is
`ApproverGivesUp`, which `Reliable` leaves out here. Without a human at the inbox the
instance stays within TLC's reach under fairness. `Asks` bounds how many asks a behaviour
raises.

Three lines and a channel of two make the receiver lag, with a second run whose messages
take places in it; three runs are two steps and a retry, or two members and a judge. Three
operations and two callers leave one at work, one queued and one abandoned. Three prompts
and a stop (two with that of a deletion) put a prompt in flight, one set aside and one in
the channel with stops between them. Two sessions are what two resumes, or a switch, need at
once. Four ids hold a chain of three and an id that is used again after the one purge;
`MaxPurges` bounds that reuse. The instance has one pass; any number is the theorems'.

Three names are what contention for an alias takes: two entities and a name that either may
claim; three edges are the facts of a family, one of none, and what supersedes it. `MaxTime`
bounds the clock, `Ids` and `MaxEdges` the tables: with one instant the order of event times
is left to the theorems, and so is a third entity. The sessions state a fact of a family and
one of none. In `ingest` two passes overlap on one document or on both; one edit makes a
second revision of one, `MaxDocs` of one lets the newest be taken first, and `MaxUpsets`
bounds failures, crashes and what others do to the graph together, which lets each of them
meet two overlapping passes (both kinds in one behaviour, and a second edit, are left to the
theorems). The texts are one with a fact and an alias, one that names the alias without a
fact, and a blank one; documents differ by their texts only, so that they are symmetric. Two
documents let the row id of one be given to the other while its vectors are deleted; six row
ids are more than two operations and a rescan can use up. `MaxEdits`, `MaxUpsets`, `MaxOps`
and `MaxFaults` bound what people and failures do, `MaxId` the ids of rows.

`CHECK_DEADLOCK FALSE` everywhere: when every run id, operation or prompt has been used
the system has nothing left to do.

Symmetry is used in safety runs only, over run ids, asks, tool call ids, documents and facts the
vocabulary allows, which the code compares for equality and nothing else.

## 4. Fairness

Weak fairness of the launch under way and of the supervisor at the gate and past it: the
runtime polls tasks that are ready and the store's writer answers. Nothing makes a user
launch a run (`TryAcquire`, `StartRun`, `RetryRun` are not fair), nothing makes an agent
finish (`DriverEnds` is not fair), nothing makes anybody cancel, and nothing crashes by
obligation. Admission of queued runs is therefore conditional on live runs ending, which is
what the code can promise.

In `Permissions`, `FairSpec` polls the supervisors, the deciders and the tasks of the
approver. Strong fairness of `ApproverAdmitted` stands for the first-in first-out queue
of tokio's semaphore: a waiter that finds a permit free again and again gets one.
`ApproverReplies` is fair because the liveness properties are about an approver that
does its work (`Reliable`). Agents, humans, cancellations and the end of drivers
(`DriverEnds`) owe nothing; an aborted driver is dropped (`DriverDrops`).

`RunEvents` polls the handlers and the supervisors that have left their loop; agents,
clients and crashes owe nothing, so `AttachedStreamsEnd` speaks of a run that is drained.
`Orchestration` polls the driver of a pipeline only: its store reads answer and the
30-minute ceiling of `wait_terminal` comes. `StoreWriter` has a thread that runs until it
blocks, and a join that returns when the thread has ended. `ChatSession` polls message
handlers, the watcher, the supervisor's own steps and the reclamation; no client call,
answer of an agent (to the greeting, to an option, to a prompt) or firing of a child guard
is owed. That the connection of a dead agent fails (`ConnectionFails`) is owed, and so is
the kill of a reclamation. `Chats`, `Distillation`, `EntityGraph` and `GraphIngest` claim
safety only (`IngestLiveSpec` states the fairness under which `EverythingIsIngested` was
looked at: section 6).

`KnowledgeIndex` polls the scan loop and the steps of operations at work. Strong fairness of
`Lock` is the queue of tokio's mutex, which is first in first out.

## 5. Theorems

For every value of the constants that satisfies the named assumptions, checked by tlapm.
Every safety property of every run is the statement of a theorem, so that a run
shows it on an instance and the theorem for all of them. Each theorem follows the same plan: an
inductive invariant of named parts, one lemma per action or per operator, and a temporal
step at the end.

`RunLifecycle_proofs`, the gate. The invariant `GateInv` strengthens the properties with
what relates the semaphore's queue to the phases: `semq` lists, without repetition, exactly
the parked runs without a grant, granted runs are parked, and permits are free only if
nobody is parked. Without that, conservation of permits is not inductive: a release would
hand a permit to a run that already owns one. From it: `GateTypes`, `PermitsAreConserved`,
`WaitingIsAccounted`, `QueueIsBounded`, `NoLostWakeup`, `RefusalsAreCaused`. Also there,
`GateKeepsTheContract`: every behaviour of the gate, its permits mapped to `running` and its
waiting runs to `queued`, is a behaviour of `Admission`. Each gate action is shown to be an
`Admission` action or a stutter, under `GateInv`.

`RunLifecycle_proofs`, the life of a run. `LifecycleUsesTheGate` (`Safety => GateSafety`)
carries all of the above to the composed module. `LifeInv` adds, for each run, that a run
which is not past the gate has no supervisor, driver or snapshot (`Unborn`), that a working
driver implies a supervisor in its loop, uncancelled and under a non-terminal status and
with only non-terminal snapshots (`Working`), that the statuses Completed in row, supervisor
and snapshots are backed by a driver that returned success (`Delivered`), and that a Done
task has such a run. From it: `LifeTypes`, `AgentsStayBehindTheGate`,
`TerminalRowsHaveNoAgent`, `CompletedMeansDelivered`, `DoneMeansDelivered`,
`RetriesStayInTheTask`.

`Permissions_proofs`. `CascadeInv` says where an ask can be for each state of its
answer: one that waits is in the channel of its context, in the inbox under its
own key, or taken by a decider; whatever sits in a channel or under a key was raised
and belongs there; a task decides only for an ask that was delegated; a decider
takes an entry under the key of the ask it meant, and with unique tool calls that
is the ask itself. From it: `CascadeTypeCorrect`, `ClosedRunsAreForgotten`, and
`CascadeKeepsTheContract`, the refinement: answers map to `Settle` by the tier the
action belongs to, closing, hanging up and replacing map to `Drop`, everything else
stutters. The last conjunct is why the refinement needs `UniqueToolCalls`, a
hypothesis of that theorem and of `TranscriptsAgree`. A second invariant on top of it,
`OnceInv`, says that nobody else holds what one holds: channels do not repeat an ask, hands
do not share one, the three kinds of places exclude each other, and an ask that was
answered is in none. It gives `AsksHaveOneHolder`, which needs no uniqueness of tool calls,
and, with the fact that only runs past the gate have asked (`RunningInv`), the
agreement of the transcript, `TranscriptsAgree`: an event that was recorded with an
answer is never overwritten, because nobody can deliver to the ask again.

`Stores_proofs`, the writer. `WriterInv`: operations are numbered in the order of the queue
(`Numbered`), what the counter and the text say of each panic depends on where the thread
is between them (`Recorded`), and what a closed channel, a join and a checkpoint imply of
one another (`Closing`). From it: `WriterTypes`, `PanicsAreOnRecord`,
`OwnedHandlesAreServed`, `DropsLeaveItClosed`.

`Stores_proofs`, the index of documents. `IndexInv`: who holds the lock is the only one that
stands between it and its release (`Holding`), and between the drops of `index_doc` and its
insert the document has no row that was not found by its look up (`Clearing`); deletions,
which take no lock, only take rows away. From it: `IndexTypes` and `NamesHaveOneRow`, with
failures and crashes at every await.

`Stores_proofs`, rebuilds. `RebuildsRestore`: a rebuild that reports no error, and beside which
nothing was at work, leaves every file with its row, its chunk and its vector, whatever
overlapped, failed or crashed before it began. The invariant (`AloneInv`) says that while a
rebuild is alone the other operations are idle (`Quiet`), that whoever is idle holds nothing
(`Ended`), and of that rebuild (`RebuildInv`) that the files behind it are restored, that the rows
of the document at hand are gone before `index_doc` looks at them, so that it cannot take a row
without a chunk for unchanged, and that no row has the id of the vector that is about to go, so
that no file behind it loses its own.

`Distillation_proofs`. `PassInv`, for any number of passes beside people: links lead to
older superseded rows and no row is replaced twice, a fact that an attempt has passed over
is known, forbidden or was purged, and a voided episode stays so. From it:
`DistillationTypes`, `LinksStayHistories`, `FailedGraphsStayMarked`, `PassesDropNothing`.

`RunEvents_proofs`. `StreamInv` has a part for each hand a line goes through: what was
appended against what is on disk (`Appending`), what a receiver still holds, increasing
and ending with the last line broadcast unless it lagged (`Queued`, `Overrun`), where the
handler's cursor stands (`Cursor`), and what a terminal row that was read implies
(`Complete`, `Closed`). From it: `StreamTypes`, `LinesComeInOrder`, `NoLineIsSkipped`,
`EndsAreComplete`.

`Orchestration_proofs`. Every step moves each run in one of a few ways (`RunsMove`), which
is all most of the invariant needs to know. `OrchInv`: what a row says of an agent
(`Records`), that the steps of a chain are launched in order, each after the one before
completed (`Chain`), where the driver stands (`Drives`) and what it has settled
(`Settled`), whose worktree a run uses (`Dirs`), and what was selected and landed
(`Winners`, `Landing`). From it: `OrchestrationTypes`, `StepsAreChained`,
`DriversCloseTheirChain`, `WinnersHaveDelivered`, `WorktreesAreKept`.

`Chats_proofs`. `RegistryInv`: what the registry holds was opened, under its own
conversation (`Registered`), only open sessions are closed (`WasOpen`), and a session that
was opened is in the registry, or another one replaced it, or one of its conversation was
closed (`Accounted`). From it: `ChatTypes`, `ReclaimsFollowAClose`. What attribution
picks is left to section 6: it can be a stranger's agent.

`Chats_proofs`, a session. `SessionInv`: where the turn in flight, the prompts set aside and
the prompts in the channel stand relative to the last one begun (`Turns`), that both queues of
the loop together are in the order of arrival (`Queued`), and what the generating flag rests
on (`Earned`). From it: `SessionTypes`, `CommandsKeepTheirOrder`, `TheFlagIsEarned`, for any
number of prompts and stops.

`GraphIngest_proofs`, the operators. `apply_extraction` folds over a list of names and a list
of facts. The library's induction takes an operator as a parameter, which the provers
cannot instantiate, so the induction is done with sets: the set of list positions for
which the claim fails has, if it is not empty, a least member (`Smallest`, from `WFMin`), and
a set that holds 0 and the successor of each member holds all (`Steps`, `StepsTo`). What is
shown of one name (`ResolveIs`, `AddEntityIs`) and one fact (`WithFactIs`, `AddClaimIs`) is
thereby shown of lists of any length (`AfterNamesInv`, `AfterFactsInv`, `ExtractedIs`), and that a
second extraction finds everything the first one wrote (`ExtractedTwice`): an edge once
stated stays stated while more of the same list is written (`StatedStays`, `AllAreStated`).

`GraphIngest_proofs`, the graph. `GraphInv`: the tables keep their types, ids are bounded,
so that a new one exists and is new (`NewIdIs`), a name is the name or the alias of one
entity only, and whatever refers to an entity refers to one that is there. From it:
`GraphTypes`; `ReExtraction` (and `ReExtractionInTheGraph`) for extractions of any length,
one text per relation, in whatever state the others left the graph; `NamesKnown`; `History`,
what migration 0005 (4) says of edges, invalidated and never deleted, which `HistoryIsKept`
states and no run needs to check any more; `HistoryBesidePasses`, the same beside prunes.

`GraphIngest_proofs`, the documents. `IngestInv` types what is in each ingester's hand,
passes overlapping or not; from it `IngestTypes` and `ReadClaimsSurvive`: whatever
interleaves, a prune takes nothing that the ledger, *as its pass read it*, gives to another
document. `ClaimsInv`, with passes that overlap as they like, is about the passes that no
other has crossed: the ledger in the hand of one is the ledger (`SeenIsLedger`), and once it
is about to record, no current fact rests on the revision it replaces alone (`Retracted`).
From it, with failures and crashes: `ClaimsRetract` (for `RetractedWithItsClaim`: `Record`
overwrites the row that may be the last claim, and `Retracted` says that this takes no claim
from a fact that holds). `OthersClaims` follows from `ReadClaimsSurvive`.

Assumptions: only those named in the modules (`GateAssumption`, `LifecycleAssumption`,
`PermissionsAssumption`, `RunEventsAssumption` and so on): finitely many runs and asks
where they are counted, natural bounds (a `per_harness` of zero included, which the policy parser
accepts), `None` outside the sets it is added to (not a number where ids are numbers), and
extractions that are a list of names and a list of facts between names (`ExtractionType`).

The type invariants, the exactness of the gate's counters, the cause of a refusal, the
workspace of a retry, the asks of closed runs, the handles of the writer and the history of edges
(`GateTypeOK`, `PermitsConserved`, `WaitingAccounted`, `QueueBounded`, `RefusalsHaveACause`,
`TypeOK`, `WorkspaceStaysInTask`, `ClosedRunsLeaveNoAsk`, `HandlesAreServed`,
`DropLeavesItClosed`, `HistoryIsKept`) are proved and part of no run.

Model-checked only is liveness, which rests on fairness and ENABLED, out of the prover's reach
here: `EndedRunsAreReleased`, `QueuedRunsAreAdmitted`, `UnattendedAsksAreSettled`,
`AsksEndWithTheRun`, `AttachedStreamsEnd`, `PipelinesEnd`, `CallsAreAnswered`,
`ShutdownCompletes`, `ClosedAgentsAreReclaimed`, `AbandonedSessionsEnd`, `RowsFollowFiles`.

## 6. Where code and comments disagree

The disagreements that can be stated as properties are kept as definitions at the end of
their modules. TLC refutes each on a small instance of that module; they are not part of the
standing runs, which ask what holds. `RefusedWritesChangeNothing` (`Memory`): a refusal of
`write_memory` means "nothing was written, and here is why" (`memory/src/write.rs` 94-95),
and the error says "nothing was written" (422). The closure is no transaction, and the
UPDATE of the superseded row (240) has committed when the key turns out to be taken by a
tombstone that was superseded or by any other superseded row: the row that was to be
replaced is no longer current, and nothing replaces it.

The entity graph (`EntityGraph`):

* `FactsHoldWhenTheyBegan`: "what was true as of X" is always answerable (migration 0005, 4-5).
  A fact with an earlier event time closes a later one at that earlier time
  (`graph/src/lib.rs` 1060), and the later one was then in force at no instant.
* `MergedNamesFollow`: "the absorbed name must become an alias of the keeper"
  (`api.rs` 2156). If it is the alias of a third entity already it stays there
  (`graph/src/lib.rs` 1514).
* `ReStatementsAreSkipped`: "an exact re-statement is skipped as idempotent" (1189-1192). The
  look up of duplicates is for relations that belong to a family (1251-1284); a fact of any other is
  closed and inserted again when the same session is extracted twice.
* `QueuedPairsAreDecided`: a pair is "kept (not dropped)" so that the decision is recorded
  (1715, migration 0029, 19). A merge deletes every pair of both entities, also those with
  third ones (1974).

Documents in the graph (`GraphIngest`; `knowledge_graph.rs`):

* `SessionFactsSurvive`: over-claiming "only makes the prune more conservative" (276). A
  claim is also what the next revision retracts, whoever wrote the edge (719).
* `WhatOthersStateIsLeftAlone`: what another document's row states "is left alone" (48). The
  prune uses the ledger as it was before the write (233), and a row recorded since is not in it.
* `EverythingIsIngested` with one document per pass: one unreadable file must not stop the
  sweep (363). It is selected again by each sweep and uses up the budget (388).
* `EmptiedDocumentsRetract`: a document with nothing to extract "retracts everything"
  (58). A blank one loses its row and is never taken again (213).
* `FactsAreClaimed`: what the previous revision stated is retracted (43). What a pass wrote
  before it failed is in no row of the ledger (299), and of two passes over one document the
  later row replaces the earlier, whose facts stay in force without a claim.

Chats (`Chats`):

* `NeverAStrangersAgent`: a wrapped program costs "a reading and never a stranger's agent"
  (`orphans.rs` 533-534). A session whose own agent has died before it was seen is given the
  one other new process of that program, another chat's, and kills it if the chat was closed
  meanwhile (`chat.rs` 1249-1263).
* `NothingIsLeftBehind`: a close removes its entry, "so anything left here after closes is
  itself the bug" (1201-1203). The polling task looks for the chat under one lock and inserts the
  child under another (1249, 1250); a close in between finds no child to take.

The index of the knowledge base (`KnowledgeIndex`):

* `NothingStaleIsIndexed`: "a scan racing a save must not interleave" (`store.rs` 562). The
  scan reads the file before it takes the lock (`files.rs` 275).
* `LiveVectorsStay`: mutations are serialized (562). `delete_document` takes no lock (1613) and
  deletes by ids that may belong to another document by then; nothing but a rebuild restores
  that vector.
* `TornIsNeverIndexed`: the scanner "never indexes a half-written document"
  (`files.rs` 156). Edits and rollbacks write in place (436, 585).

The others were met while modelling. Each is visible in the model as behaviour, and the
properties are stated so that they hold with it:

* The session-live event, drained after a cancellation or a failure, sets the run back to
  Running (`runs.rs` 1606); the final row and `Finished` say so.
* A usage update drained after the end writes the terminal row from a detached task
  before the drain is over (1622), and pollers (`wait_terminal`) may take a partial
  result from it.
* The condition that sets a task to InProgress reads the task as the caller of
  `start_run` saw it (883).
* When every permit is held by a run that waits for an approver, the approvers wait at the gate
  behind them (407), until the ceiling of 30 minutes leaves the asks to a human; the design
  promises unattended operation. `perm_liveness` has the deadlock and exempts it by name
  (`GateIsFull`).
* An agent that does not answer the greeting, or an option, blocks its session and the Shutdown in
  its channel (`acp/src/chat.rs` 442-506, 633); a session that a second resume replaced is not
  reclaimed either, and lives on with its agent (`AwaitsAgent`).
* Between `abort()` and the next yield of the driver (`runs.rs` 1698) an agent may act under a
  terminal row and beside a permit that was given back.
* The first line of a run is dropped by a client whose replay was empty (`api.rs` 3880).
* `close` drops what is parked for the chat (`chat.rs` 1359), and the chat's forwarder
  task may park another ask afterwards, which nothing drops.
* The judge's verdict replaces a selection a human made meanwhile (`runs.rs` 1204), while
  the repository's README (198) leaves the last word to the human.
* `generating` "is cleared by the session own terminal event" (`chat.rs` 1084): with two
  prompts accepted the first one's end clears it while the second is at work.
* A stream whose handler read a terminal row sends the end marker after the lines it
  found in the file, which may lack some a failed flush kept; a stream attached to a run
  that ends without a word on the channel never ends (`api.rs` 3842-3843).
* "A failure MUST NOT create an episode" (`distill.rs` 773): a memory write that fails
  after `record_episode` leaves one.

Smaller ones, visible in the models but without a run of their own: the saturation
error says that `queue_cap` runs wait, while `reserve_slot` adds before it compares and
a unit lost in `insert_run` counts for ever (`RefusalsHaveACause` is the true
statement); a caller that goes away in `insert_run` leaves a Queued row without a
supervisor (`Abandon`); two retries of one dead run share its directory; three
comments say that rules may answer a chat's ask (`runs.rs` 466, `chat.rs` 957,
`lib.rs` 634) and no code consults the policy for one (`Forward`); the attribution
event of a chat's answer goes into a channel without a receiver (`Record`).

## 7. Plan

Done: all modules of section 2, their runs, and proofs of every safety property of the runs.

Next, in this order:

1. Refinement of the knowledge index and the ingestion: an abstract map from documents to
   their last indexed text that both implement.
2. The session index: a rescan against deletion tombstones.
3. Wiki jobs (one build at a time), the capability table, memory consolidation.

## 8. Not modelled, and why

Text (prompts, rendering, extraction, chunking), numeric ranking, SQL executed by
SQLite (migrations, full-text search), process tables and signals, HTTP parsing,
the panel and the command line: no state machine of their own, or behaviour that
belongs to another program. They are most of the lines of the repository. The session index,
the wiki and the capability plane have state of their own and are in the plan. What is left
out of a modelled part is named in its part of section 2.
