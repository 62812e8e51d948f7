# kres: TLA+ models and proofs

kres is a coding and audit agent in Rust. An operator (or a batch prompt) asks
for a review; a planner splits it into todo rows; the REPL claims rows and runs
a task for each, several in parallel; a reaper publishes what the tasks return
and asks a todo agent which rows to finish, retire or add. This directory holds
TLA+ models of that system, TLC runs that check them on small instances, and
proofs that TLAPS checks for every instance.

## 1. Inventory

| Component | State | Operations | Talks to |
|---|---|---|---|
| Task manager, `kres-core/src/task.rs` | `Inner`: tasks, todo, deferred, `completed_run_count`, `starts_since_reap`, `ranked_order`, `claims_by_group`, findings, plan; a semaphore | spawn, set_state, finish_ok/err, stop_all, reap, claim_ranked_todos, merge_inferred_state, append, remove, defer, restore, clear, reset | everything; one write lock |
| REPL session, `kres-repl/src/session.rs` | stop latch, turn-cap flag, pending goals, interrupted prompt, cached session goal | commands, dispatch_ready, submit_prompt_inner, idle poll, ctrl-c handler | task manager, agents, session file |
| Reaper (a task of the session) | the drained vector, the batch, error streak, no-findings streak | reap, publish one task at a time, todo and goal agent, refill, turn cap, idle exit | task manager, findings store, session file |
| Todo agent, `kres-agents/src/todo_agent.rs` | a snapshot of the list | reconcile, dedup, dependency normalisation | task manager (merge) |
| Ranking and goal agents, `prioritize.rs`, `goal.rs` | none | an order of the rows; goal met or not | task manager |
| Findings store, `kres-core/src/findings.rs`, `kres-agents/src/promote.rs` | findings with status, anchors and details, in memory and on disk; a mirror in the task manager | apply_delta with merge rules and semantic duplicates, promotion, save | reaper, prompts of all tasks |
| Session state, `kres-core/src/session_state.rs` | one JSON file | save (tmp, fsync, rename), load | session |
| MCP client, `kres-mcp/src/` | next id, buffered stdout of a child, the mutex tasks share it through | call with timeout, notifications, shutdown | an external server; the fetchers of all tasks |
| LLM client, `kres-llm/src/` | one dispatcher and one app-server for all codex calls; pool of idle claude processes; rate limiter | messages, streaming, retries, turns of the app-server | external services |
| Pipeline, `kres-agents/src/pipeline.rs`, `consolidate.rs` | gathered evidence, rounds left, parked lens outputs | gather, lens fan-out, repair, requeue, consolidate | LLM client, tools, MCP |
| Workflow executor, `kres-agents/src/workflow_exec.rs` | step pointer, step states, loop counters, effects | run, repeat, rerun_chain, branch_to, resume | workflow runner |
| Workflow runner, `kres-agents/src/workflow_runner.rs` | attempts, intents, staged effects, gathered evidence of each step | prompts, evals, apply_effects, commit or amend | git, tools, LLM client |
| Fix series, `kres-repl/src/workflow.rs` | `fix-series.json`: plan, revision, status and commit of each todo | plan, one workflow run per todo, revise, update, assess, publish | workflow executor, git |
| Main agent and tools, `main_agent.rs`, `tools.rs`, ... | conversation, fetched symbols | prompt assembly, tool calls | LLM client, MCP, files |
| Shutdown tree, `kres-core/src/shutdown.rs` | cancel flag, children | child, cancel | all tasks |
| Terminal UI, reports, export, settings, option parsing | presentation | | |

What is hard here:

* three actors - the REPL loop, the futures, the reaper - share the task manager,
  each critical section is short, and most operations span several of them with
  inference calls of minutes in between (claim, then submit; drain, then publish,
  then merge);
* the todo agent answers on a snapshot that is stale when its answer is merged;
* `stop_all` works in three critical sections and can give up on a future;
* several limits apply to one claim (`--max-parallel`, `--turns`, the start
  budget, the survey gate, group rotation), and any of them could stop the others
  from ever opening again;
* sessions are resumed after ctrl-c or a crash: from the session file, from a
  workflow snapshot, from `fix-series.json` and from git, none of which is saved
  together with another;
* findings of parallel tasks are merged by id or by likeness, in any order;
* all codex calls hang on one process and one dispatcher, and have no timeout of
  their own; of the dispatcher's waits only the one for the next message has a limit;
* a review that asks for more evidence runs some of its lenses again and keeps the
  answers of the others.

`PROJECT.json` lists each hazard at its line, with the properties that cover it.

## 2. Plan and modules

| Module | Models | Checked by | Proofs |
|---|---|---|---|
| TaskManager | the scheduler with its three actors | dispatch, commands, live (MCTaskManager) | TaskManager_proofs |
| Session | the session on top of it: reaper, agents, exits, persistence, resume | session (MCSession) | Session_proofs |
| Findings | the store, its mirror, the promoter | findings (MCFindings) | Findings_proofs |
| FindingsLedger | what a findings store promises; Findings implements it | findings | Findings_proofs |
| McpClient | one MCP server behind its mutex | mcp_calls | McpClient_proofs |
| CodexDispatcher | the codex back end of the LLM client | codex | CodexDispatcher_proofs |
| LensReview | a lensed review of the pipeline | lenses (MCLensReview) | LensReview_proofs |
| WorkflowExec | the step machine, its effects and snapshots | wf_effects (MCWorkflowExec) | WorkflowExec_proofs |
| StagedChanges | the driver between the executor and the files: staged changes, their commit, gathered evidence | staged (MCStagedChanges) | StagedChanges_proofs |
| FixSeries | the series driver and the commits of its runs | series, series_amend (MCFixSeries) | Session_proofs |

How they fit together. Session reduces TaskManager to what the reaper sees of a task
(running, ended, reaped), because locks, permits and the choice of a wave cannot be
told apart from there. Findings takes one step of Session's reaper (Publish) apart.
LensReview is what happens inside one task between TaskManager's Start and FinishOk.
FixSeries takes one run of WorkflowExec as a few steps (research, patch, commit,
review) and models instead what WorkflowExec leaves to the driver: git. StagedChanges
takes Start, Produce, Accept and Apply of WorkflowExec apart into what the driver does
in them, and reduces its evals and branches to what decides which attempt is next.
McpClient and
CodexDispatcher are the two resources that tasks share outside the manager.

The order was: the scheduler, since every other part runs inside it; what can hang it
(McpClient) and what must survive a crash (WorkflowExec); then the session, the store,
the series, the dispatcher, the review and the driver's files. What was planned and left out is in
section 13.

## 3. TaskManager

`TaskManager.tla` models `kres-core/src/task.rs` with the callers in
`kres-repl/src/session.rs`. Every action is one critical section of the write
lock.

| Actor | Actions | Code |
|---|---|---|
| REPL loop | Claim, Submit, SubmitFails, OperatorSubmit, SetRankedOrder | `claim_ranked_todos`, `dispatch_ready`, `submit_prompt_inner`, `spawn`, `set_ranked_order` |
| REPL loop | StopCancel, StopTake, StopJoin, StopExpire, StopReturn, StopDefer, StopClear | `stop_all`, `cmd_stop`, `cmd_clear` |
| REPL loop, ctrl-c | FreshReview, SeedTodoIfEmpty, PlanFails, RemoveTodo, ClearActiveTodos, DeferPending, RestoreDeferred, ResetInProgress | the methods of the same name |
| Future | AcquirePermit, Start, FinishOk, FinishErr, Release, Vanish | the future in `spawn` |
| Reaper | Reap, PublishTask, AppendTodo, NoteReapCompleted | the reaper loop |
| Reaper | AskTodoAgent, TodoAgentFails, MergeInferredState | the todo agent, once per group of the batch; `merge_inferred_state` |

The state of a task is `entry` (its record in the manager, with "Absent" before
the spawn and "Reaped" after the drain) and `future` (where its code is). They are
two variables on purpose: `stop_all` and the reaper see only the first, and the
semaphore only the second.

The order of a claim. The code takes the best row under (claims of its group so
far, rank, storage order), bumps the group's counter, and takes the next. The
module states this loop as the recursive function `Taken`, and states what it
returns without recursion as `IsWave`: each row is served in a round of its group,
and a wave is the first so many rows by round, then rank. That the two agree in every
state is WaveIsLoop, which the run *dispatch* checks and WavesAreTheLoop proves; Claim
and the other proofs use `IsWave`.

The todo agent works on a copy. AskTodoAgent stores the list in `seen`, the call takes
minutes, and MergeInferredState puts the answer on the list of that later moment as the
code does: a live row in progress or done keeps its status, a live Pending one takes the
status of the answer, which for a row the agent did not finish is that of the copy;
prerequisites of the copy are added to the live ones; a row of the copy that is gone
does not return; rows the answer omits are dropped if they are Pending, unchanged and
nobody's prerequisite.

Left out: the text of rows, findings and analyses; coverage notes; the plan; rows
that are Blocked or Skipped; `stop` of one task, which no command calls; the
caches. Session state above the manager (stop latch, turn cap) only removes
behaviours from this model, so invariants are not at risk; module Session has
it.

Bounds. `Task` is the set of ids that can be handed out, so it bounds the spawns of
a run. `ClaimBound` bounds the two counters no code bounds, `starts_since_reap` and
`claims_by_group`; no action but Claim looks at it. The proofs hold for every value
of both.

### Runs

| Run | Specification | Instance | Shows |
|---|---|---|---|
| dispatch | all but stops and edits | 3 tasks, 4 rows in 3 groups, max-parallel 2, turns 3 | slots, turns, spread, no deadlock of the budgets and the gate, wave = loop |
| commands | stop_all, /clear, /continue, parked submissions, all edits, all answers of the todo agent to any copy | 1 task, 3 rows, max-parallel 2 | no result is overwritten, stop_all reaches every future, prerequisites |
| live | no failure, no stop, fairness | 3 tasks, 3 rows, max-parallel 2 | results are published, rows are finished |

In *dispatch* two tasks at once make every race between a future and the reaper, a third
is needed for the bounds to be overrun by a wave (two slots taken, one row more), and
four rows in three groups for the rotation to differ from the ranking. One task is
enough for *commands*: a race with stop_all or an edit involves one entry and one other
actor, and the subject of the edits is the list.

DependencyOrder is about steps: no step lets a row run ahead of its prerequisites (be in
progress with one of them not done), but for an answer of the todo agent that either puts
back in progress a row that was so in its copy, or adds a prerequisite the copy had. The
second of these happens in *commands*; the first needs a second task and is
covered by the proof alone.

Fairness (`Fairness`, only in *live*): tokio polls every ready future and its
semaphore is fair; the work of a task ends because its calls have timeouts and
bounded retries; the grace of stop_all is a deadline; the reaper ticks every 250 ms;
the idle poll of the REPL claims what is ready. A model call returns (section 9
has those that need not). Nothing obliges the operator or the ranking, nor the todo agent to
any answer.

### Observations

The configurations `TaskManager_gate.cfg`, `TaskManager_zombie.cfg`,
`TaskManager_budget.cfg` and `TaskManager_revived.cfg` each check one reading of a
comment that the code does not meet. They are kept for whoever works on these lines.

* *gate*: the survey gate is said to shut only while a survey row can make
  progress (task.rs:1330). The row of a failed task stays InProgress with nothing
  behind it, and the gate stays shut until the operator acts.
* *zombie*: an active task is said to consume a worker slot (task.rs:771). A task
  aborted by `stop_all` (task.rs:665) stays Cancelling for ever; its permit is free,
  its slot is not.
* *budget*: at most `max_parallel` starts are said to happen without a reap
  completing (task.rs:152). The budget is lifted when no task is tracked
  (task.rs:1277), and a task being published is not tracked.
* *revived*: the merge of the todo agent's answer is said to let transitions of live rows
  "win over the stale snapshot" (task.rs:847). It does so for rows that are live in progress
  or terminal (912). A row in progress in the copy that is Pending again, after ctrl-c
  (1450) or `/stop` and `/continue`, is put back in progress with no task behind it and, if
  a prerequisite was restored with it, ahead of that. It stays there until
  the todo agent finishes it or the next ctrl-c or `/stop`, and a survey row keeps the
  gate shut (OnlyClaimsStart).

## 4. McpClient

`McpClient.tla` models one MCP server as kres uses it: `kres-mcp/src/client.rs` and
`transport.rs` behind the mutex in `kres-agents/src/mcp_fetcher.rs`, the two pipes,
and the server, which is external.

| Action | Code |
|---|---|
| Lock | `self.client.lock().await` in the fetcher; tokio's mutex is a queue |
| BeginCall | `call_with_timeout`: the id is taken, the request serialized |
| WriteBody, WriteNewline, WriteFails | the two `write_all` of `Transport::write_line` |
| ReadHead, ReadLine, ReadFragment, ReadEof | one wake-up of `Transport::read_line` inside `read_matching` |
| Timeout | `tokio::time::timeout` around `read_matching` |
| GiveUp | the caller's future is dropped by the `select!` on the shutdown token |
| TakeInput, Respond, Log, EmitRest, Die | the server |

`at` is the await the holder of the client is in, and `carry` says that the
`read_line` in progress has consumed the first piece of a line. That buffer lives
in the future of `read_line`, so End, which ends a call, clears it, and the second
piece of the line is left for whoever reads next. The bytes of a line are the
requests it is about: a reply is about one, and a complaint with a null id is about
all the bodies the server found on one line (two, if a caller was dropped between a
body and its newline). A drop in the middle of a body leaves an open line as well
and is counted with "newline".

Left out: the handshake of `spawn`, which has the client to itself and is thrown
away on any error; notifications to the server; `shutdown`; what a result holds.

The run *mcp_calls* has two callers, three requests and pipes of two pieces. Three
requests let one call be cut off, a second fail on what it left, and a third tell
whether the harm stops there; two pieces fill a pipe in both directions. It shows
that a cut-off read costs at
most one later call, that without one no call suffers from another, and that every
caller leaves the queue. For the last one `HealthySpec` assumes, beside the
executor and the timer, that a server that lives goes on reading its stdin. It need not
answer. `McpClient_wedge.cfg` shows that the assumption is needed. That no caller gets
the answer to another's request (OwnAnswer) is proved and not run.

### Observations

* `McpClient_stale.cfg`: stale answers are said to be dropped (client.rs:198). If the
  timeout (186) fires between the two pieces of one, the next call fails on its second
  piece. SpoilBound says that the harm ends there.
* `McpClient_wedge.cfg`: a wedge is said to surface as an error after 30 s
  (client.rs:28). The write (183) is not under the timeout, so a server that stops
  reading blocks the call for ever.

## 5. WorkflowExec

`WorkflowExec.tla` models `run_internal` of `kres-agents/src/workflow_exec.rs` (fresh
runs and `--resume`, with `run_with_optional_resume` of `kres-repl/src/workflow.rs`), with the parts of `LlmDriver` that produce and apply effects.
A step of the model ends where the code awaits the driver or writes the snapshot,
because there the process can be killed; `Crash` can happen at any of these places.

| Action | Code |
|---|---|
| Top, CapReached | head of the loop: `snapshot_save`, the iteration cap |
| FindFailure, FindEffects, Complete, NothingToRun | the checks before a step is picked |
| Skip, ConditionFails | `run_if` and `skip_if` |
| StartReaper, IntentFails | a reaper's intent, durable before the reaper acts |
| Start, Produce, CallFails | one call of the driver, or its own fan-out over the lenses (`consolidate`) |
| LensesFail, ConsolidateFails, Aggregate, LensConditionFails | the executor's fan-out, with the outputs it saves per lens |
| EvalFails, Accept, Repeat, RerunChain, BranchTo, Continue, ExitFailure, ExhaustedBranchTo | the eval, `on_fail` and `on_exhausted` |
| Apply, ApplyFails, Settle | `apply_effects` and the save of Done |
| Crash, Resume, StartAfresh | a killed process; `--resume` with a snapshot, and without one |

`mem` holds the step states, `disk` the snapshot file. Outputs and effects are told
apart by the *run* that made them, a number each start of a step gets. Four things are
not in the code and steer nothing: the run itself, `basis` (the outputs a run saw of
its prerequisites), `rejected` (the runs an eval turned down) and `applied` (what
reached the workspace).

The snapshot. A save writes a scratch file, syncs and renames it, so it can report an
error with the old states on disk or with the new ones. A save whose error is only
logged (`snapshot_save`), one that must succeed (`snapshot_save_required`) and
`finish_failure`, which removes a snapshot it cannot update and says so in its verdict
("unsaved" in the model), differ in what they do
then. A save that is followed at once by the one at the head of the loop is merged
with it.

The expressions of a workflow may say anything: any eval can pass or fail, any
condition hold or not, any `completion` end the run, and `branch_to_output` name any
target the step lists. That covers every workflow input and every answer of a model.
Effects are idempotent, which the code demands of a driver.

Left out: the objectives ledger, prompts, events and observers; the files behind the
effects, which section 11 has; a run started without `--resume` beside an old snapshot.
StartAfresh clears `applied`: the new run owes nothing to the effects of the old one.

The run *wf_effects* has five workflows of four steps: the shapes of the shipped
`fix.json` (patch, lensed review, orchestrator that branches both ways, reaper) and
`validate.json` (two refuters that branch to the claim, terminal reaper), one with the
actions the shipped files do not use (rerun_chain, branch_to when exhausted, continue),
a chain of three dependents with a preserved one in the middle, and a cycle. Its bounds:

* 5 runs: four for each step once, one more for a step that is entered again;
* 2 faults: ApplyFails with a failed final save, and a failure whose save and removal
  both fail, need two;
* 2 resumes: one to recover, one to recover from a recovery that was cut off.

| Property | Claim |
|---|---|
| WriteAhead | effects are in the snapshot before they are in the workspace, and stay there |
| ReplayIsLatest | an effect applied again overwrites no later one |
| DoneMeansApplied | a Done step has its effects in the workspace |
| FreshInputs | no settled step rests on replaced outputs |
| FreshLens | a lens output used again is as new as its prerequisites |
| RejectedAreKept | what an eval turned down stays among the prior attempts |
| NoSecondChance | a terminal failure gets no new attempt, with or without resume, unless the verdict says that it was not saved |

Two of them have a limit. FreshInputs excuses the steps a rerun_chain names, because
that enters them again without their dependents. NoSecondChance excuses a run whose
verdict says that "terminal state could not be persisted" (1456): its snapshot is gone
and `--resume` starts afresh, or the removal failed as well and `--resume` goes on from
the older one. FreshLens is checked
for a lensed step without condition: the code reads the condition again before a retry,
in states that give the same answer, while in the model conditions say anything, so a
skip could leave lens outputs behind.

The lensed review of `fix.json` and `review.json` declares `consolidate`, which the
driver runs itself when it has an agent runner ("shared", as in production). Without
one, and for the other aggregates, the executor runs the lenses ("lensed"). The first
workflow has the second form, which keeps more state; the third has a shared step.

### Observations

* `WorkflowExec_twice.cfg`: the comment in branch_to (lines 2513-2517) skips a
  self-branch so that no attempt is recorded twice. A branch to a later step records
  the outputs of its source and leaves them in place; a branch of that later step to
  an earlier one records them again (line 3900). In `fix.json`, `review` to
  `reconcile-review` and the orchestrator to `write-patch` do that.
* `WorkflowExec_afresh.cfg` (ResumeGrantsNone): docs/workflow-internals.md:1211-1213 says
  that exhausted steps use "the same required terminal-snapshot path, so resume cannot grant
  another attempt". When that one save fails, `finish_failure` removes the snapshot
  (1453), and `--resume` without one starts the run again from its first step
  (workflow.rs:1736-1753), the failed step included.
* Not covered: `terminal_on_success` together with a resume (1566). The files that single
  lenses stage (2007) are in StagedChanges.

## 6. Session

`Session.tla` models one session of `kres-repl/src/session.rs` from its first task to
its exit, with the part of `kres-core/src/session_state.rs` that a resume uses.

| Action | Code |
|---|---|
| Dispatch, Rearm, Submit | `dispatch_ready`: a wave is claimed, then submitted row by row; each submission clears the stop latch |
| SubmitFails | a review is parked: its prompt goes to the stash, the stop latch is set, the row stays InProgress (3392-3413) |
| AutoContinue | the idle poll takes the prompt in the stash before any row (3678-3687) |
| FinishOk, FinishErr | the end of a future, as the manager records it |
| Stop, Continue | `cmd_stop` once `stop_all` has returned; `cmd_continue`, which takes the stash or the deferred rows |
| Reap, TakeOne, Effects, MarkCoding, Report, Publish | the reaper's loop over a reaped vector: coding edits, `mark_todo_done`, report, findings, turn cap, error watchdog |
| BatchDone, TodoAgent, EnsureFollowups, GoalAgent | the agents over the batch, once for coding tasks and once for reviews |
| AtCap, BelowCap, Unlimited, NothingYet | the end of a tick: turn cap, idle exits, `--follow` |
| Crash | a kill, and a start with `--resume` |

`Persist` is `persist_session_state_to`: it skips a state whose signature it has
stored, stores the signature before the save, and only logs a save that fails. `disk`
is the file, `sig` the slot. The file itself is replaced by a rename, so a save either
happens or does not. `attempted` and `owed` are history: rows whose side effects were
attempted, and follow-ups that no agent will look at any more. A prompt taken from the
stash is submitted outside the list: it is `NoRow` in `claimed`, and as the row of its
task. Any task that ends empties the stash (1350), whichever prompt it holds.

Where the code awaits an agent or a lock between two steps of the reaper, the model has
two actions, so that the REPL loop, the futures and a kill can come between them.

The run *session* has three rows (one reviewed, one coding, one that only follow-ups
create), two tasks, four command lines (`--turns 2` under `--follow`, `--turns 1`,
`--turns 0` under `--follow` without goal agent, a session somebody watches) and one
fault, which is a `/stop`, a parked review, a failed save or a kill. Two tasks are enough for a batch
in which one member is published while the other waits or ends; the rows are one of
each kind the reaper tells apart. More than one fault was left to the proofs, which
bound neither faults nor tasks.

| Property | Claim |
|---|---|
| CapPublishesAll | leaving at the turn cap, no result is unpublished |
| CodingDoneMeansDone | the file never says Done of a coding row whose edits were not attempted |
| ExitIsResumable | a resume after an exit finds every row and every owed follow-up |
| BatchExits | a session that nobody watches ends, whatever was stopped or parked on the way, unless it stalls for good under the stop latch with rows pending |

Fairness: the reaper ticks every 250 ms and the calls of its agents have timeouts; the
idle poll takes the stash, or else dispatches; what is claimed is submitted; every future
ends. The operator is asked for nothing, so nobody has to type `/continue`.

The stall that BatchExits excepts is real. `Session_stall.cfg` checks BatchNeverStalls, the
property without the exception, on a session with `--turns 0` and `exit_on_idle`, and TLC
finds it violated. One way, which needs no `/stop`: the goal agent of a batch appends a
row, its submission is parked (3403-3413) and latches, no task is left whose end would
empty the stash or whose batch would refill, the idle poll refuses while the latch is set
(4707), and another row is Pending, so the reaper never finds the session drained. The
comment at 2527-2535 calls such a process, "alive forever with nothing to do and no exit
status", a defect, and exits for the initial prompt only. With no row pending the session
ends, parked rows in progress notwithstanding.

`Session_exit.cfg` shows a disagreement between code and comment (ExitPublishesAll is
violated). The turn cap waits for an
empty task list "so terminal results receive a subsequent reap/publication pass before
exit" (session.rs:2310). The idle exits (2370, 2427) ask for active tasks and pending
rows only, and leave a task that is Done and not reaped, or a claimed row that is being
submitted.

Other observations, from reading and modelling this code:

* a failed save is not tried again before the state changes (460);
* in a batch session the error watchdog (1992) leaves the reaped vector and exits; the
  tasks after it are not published (the exit "halt" of the model, with `left` not empty);
* the submission of the next row of a wave clears a stop latch that a parked review had
  set (2858, 3407), and the stashed prompt of a parked row is overwritten by the next or
  dropped when any task ends (1350), which leaves the row in progress with no task;
* the stash holds the prompt of an operator's task from its submission on (2839), and the
  idle poll may submit it a second time while the first still runs;
* after `/stop` and `/continue` the `mark_todo_done` of the old task finishes the row
  of its second run;
* a session resumed with `--turns 0`, `exit_on_idle` and no goal agent defers every row
  and exits at its first tick.

Left out: the goal parked after the spawn (3551), prompts that the operator types while a
batch runs, the plan, prompts and history in the file.

## 7. Findings

`Findings.tla` models `FindingsStore` (`kres-core/src/findings.rs`), the mirror of it
in the task manager, `filter_promoted_delta` (`kres-agents/src/promote.rs`) and the
reaper's publication of one task's findings.

| Action | Code |
|---|---|
| Start, Finish | a task is shown the mirror and ends with a delta |
| Publish, Promote, EndAudit | the reaper takes ids and states, calls the promoter, whose findings are renamed or appended |
| ApplyEntry | one turn of `apply_delta_to_list`: `merge_into`, `record_detail`, `is_semantic_duplicate` |
| SaveStore, ReplaceFindings | the save under the write guard, `replace_findings` |
| Clear, Crash | `cmd_clear`; a kill and the load of the file |

A record keeps what the merge rules look at: id, title, length of the summary,
severity, status, basis, anchors, open questions and whose details it has. Two records
are alike when they share an anchor and seven tenths of their identity tokens; tokens
are constants of ids and titles.

`FindingsLedger.tla` is the abstract specification: entries are filed once, amended
along permitted edges of the status, made durable as a whole, or lost back to what was
durable. *findings* checks that the store implements it, with the entries of memory and
file as the ledger and the durable ledger (`ImplementsLedger`).

Bounds: three tasks, since a record made by one task can be shown to a second while a
third is published; ids x, its renaming x2 and y, where y becomes a duplicate of x only
once a longer title is merged; eight deltas that file, extend, doubt, retire with and
without basis; one promoted finding per task, one kill, one `/clear`.

| Property | Claim |
|---|---|
| FilingsSurvive | what was filed is on record with its anchors, severity, prose and details, in memory and in the file |
| UpdatesLand | what a prompt showed is in the store when the update arrives |
| RetirementStands | Invalidated is left only by a delta that names the record and says so |
| ImplementsLedger | every step is one of the ledger |

Observations:

* `Findings_clear.cfg`: `/clear` is documented to reset the findings (docs/cli.md:79);
  `cmd_clear` (session.rs:4813) empties the mirror only, and the next
  `replace_findings` (1742) brings all of them back;
* a delta that leaves the status out arrives as Active and confirms an Unconfirmed
  record; a new record may be stored as Invalidated without a basis;
* a renamed id does not always land as a new record (promote.rs:400): the store looks
  for a duplicate after the renaming;
* the id of a finding that was merged as a duplicate is unknown to the store, and a
  later update of it is refused.

Left out: relevance filters and redaction for prompts, `task_prose`, the wording of
the invalidation sweep.

## 8. FixSeries

`FixSeries.tla` models `run_fix_series_driver` (`kres-repl/src/workflow.rs`), the steps
of `configs/workflows/fix.json` that decide about a commit, and
`run_commit_fix_recoverable` (`kres-agents/src/workflow_runner.rs`).

A commit is its history, a sequence of changes: its parent is its `Front`, a commit
appends and an amend replaces the last change. `series` is `fix-series.json`, which is
saved wherever the driver goes on; `snaps` is the snapshot of the workflow run; `made`
is the commit that git has made and no snapshot names yet.

| Action | Code |
|---|---|
| Start, SkipDone, BeginTodo, Refuse | load, `validate_completed_prefix`, `snapshot_owns_head` |
| Research, WritePatch, Intent, IntentFails, GitCommit, SaveCommit, ReviewAccepts, ReviewRejects | one workflow run |
| Succeed, Fail, Revise, Update | what the driver makes of its outcome: `revised_current_fix_todo`, `apply_fix_plan_update` |
| OpenAssessment, Assess | `validate_series_commit_chain`, the final assessment, `apply_final_fix_plan_update` |
| Kill | a kill at any point; the next Start is `--resume` |

Bounds: plans of two todos with one dependency, a third that updates or the assessment
add, each budget 1, two reviews per run, three starts. One more of a budget repeats
what a first one does from a plan that the bounds already allow; three starts let a run
be killed while it recovers.

| Property | Claim |
|---|---|
| NeverStacked | no todo has two changes in the history of HEAD |
| PublishedIsExact | what is published is one commit per todo, in order, for its last contract, on the base |
| CompletedStands | updates, revisions and restarts keep the todos that are done, with their commits |
| SeriesEnds | the budgets leave no cycle: the driver publishes, stops or refuses |

Fairness of `SeriesSpec` is weak fairness of the driver and its workflow: both are one
sequential program whose calls end.

*series_amend* is a disagreement between code and documentation. The attempt of the
commit step is counted before its intent is recorded (workflow_runner.rs:1541). If
`git rev-parse` fails there, the last snapshot keeps the count; `--resume` takes its
first commit for a retry and amends HEAD, which the run did not make.
docs/workflow-internals.md:1308 says that commit and amend state is scoped to the run
of one todo.

Observations:

* `FixSeries_resume.cfg`: after a kill between `git commit` and the snapshot that names
  the commit, the driver refuses HEAD (workflow.rs:754) at every restart, before the
  recovery of the commit step can run;
* the place of `append_after_current` is not moved when `remove_pending` shortens the
  plan, and `Vec::splice` then panics (workflow.rs:850-870); the model goes "down";
* a first attempt that is disputed and accepted records the commit before it, and the
  next todo is refused.

Left out: other workflows than fix, reports, commits by somebody else, snapshots of
earlier keys (no key comes back).

## 9. CodexDispatcher

`CodexDispatcher.tla` models the codex back end of `kres-llm/src/client.rs`.

| Action | Code |
|---|---|
| Call, Lock, StartDispatcher, Send | `submit_codex_request`, twice round its loop |
| TakeCommand, NoCommand | the head of `run_codex_dispatcher` |
| ThreadStarted, TurnStarted, StartFails | `start_codex_turn`, which awaits `thread_start` and then `turn_start` |
| NextMessage (OnDelta, OnCompleted, OnError, OnNotice) | the notifications, sorted by thread; token usage, errors the server retries and the rest only start the idle time again |
| OnRequest, Replied | a request of the server, refused by `respond_error` |
| IdleTimeout, Closed, Return | `fail_codex_turns`; the receiver is dropped with what is in it |
| ServerDelta, ServerError, ServerCompletes, ServerChatters, ServerCloses | the app-server, which is external |

The server may fail a request or a turn, stream on after the client gave a turn up, chatter
(send notices and requests) without end, die, or say nothing for ever, also when it owes
the reply to a start. There is at most one live dispatcher because a new one is
started only under the lock and where the channel of the last is closed.

Bounds: two tasks and two deltas per turn, so that deltas of two turns interleave and
one task finds the dispatcher of the other gone; chatter is sent only while fewer than
MaxUnread messages wait, which bounds the pipe and not the amount of chatter. Fairness:
tokio's mutex is a queue (strong fairness of Lock), the tasks run, and so does the
dispatcher where it need not wait for the server, the idle bound being a timer. Nothing is
asked of the server: `Dispatcher` has the steps the dispatcher takes by itself, and
`ServerAnswers` those it awaits without a limit (the handshake of StartDispatcher, which
holds the lock, is not fair either). Only the end of the server lets those waits fail.

| Property | Claim |
|---|---|
| OwnAnswer | an answer is all the server streamed for the thread of the call, and nothing else |
| EveryCallReturns | every call returns, though the server completes some turns and not others, falls silent with turns in flight, or dies; the ways out are a handshake, a start or a refusal that never ends, and chatter without end |

Observations:

* `CodexDispatcher_silent.cfg` (SilenceEnds): the comment of the idle limit (client.rs:2356-2371)
  gives as its reason that one silent subprocess "wedges every later codex turn in the
  process", but the limit covers `next_message` only. A server that is silent when it owes
  the reply to `thread_start` or `turn_start` (2491, 2525), or that does not read a refusal
  (2449), hangs that call and every later one, and so does one silent in its handshake.
* `CodexDispatcher_idle.cfg` checks that the dispatcher waits for messages
  "while turns are in flight" (client.rs:314-315); after a start that failed with nothing
  in flight it waits as well, deaf to new commands until the idle bound.
* Chatter keeps a turn that will never end in flight for ever, since the limit is on idle
  time.

## 10. LensReview

`LensReview.tla` models one lensed review of `kres-agents/src/pipeline.rs`.

| Action | Code |
|---|---|
| Prefetch, GatherEnds, GatherSkills, GatherMore, GatherFails | `gather` and its rounds |
| Launch, Answer | `run_prepared_lens_fanout`: the cache probe, seed and held calls |
| FanoutOverLimit, RepairJson, Retry, FanoutDone | `run_lenses_shared_gather_repairing` |
| Requeue, Settle | the requeue loop of `run_with_lenses` |
| AllFailed, Consolidate, ConsolidateFails | the end of the task |
| Shutdown | the token of the session, which makes calls fail |

A piece of evidence is a key; a lens asks for some. `served` and the `seen` of an answer
are history.

Bounds: two lenses, two models of which one runs the general lens only, two keys, one
round per gather, two requeues, one retry. Two keys let one lens be parked while another
waits; the second requeue is the first with parked answers to bring along.

| Property | Claim |
|---|---|
| EveryCallAccounted | each call of the slate is consolidated or named in a follow-up |
| AnsweredOnEvidence | no consolidated answer asks for evidence that came after it |
| EvidenceGrows | no round shows less than the one before |

Observations: an error of the consolidator's transport is passed on (consolidate.rs,
near 141) where its comment promises a union of the findings (55); a prompt over the
limit (pipeline.rs:2105, 2246) or a gather error of a requeue round fails the task where
the comment near 1954 says that a failed lens does not; a lens whose second run fails
loses the answer of its first.

Left out: the unlensed path, `KRES_LENS_CACHE_MODE=prime`, token budgets, the texts.

## 11. StagedChanges

`StagedChanges.tla` models what `LlmDriver` (`kres-agents/src/workflow_runner.rs`) keeps
between two calls of the executor. The executor is there as the sequence of calls it
makes.

| State | Code |
|---|---|
| `pending` | `pending_changes`, by step and attempt |
| `cache` | `gathered_cache`, by step |
| `files`, `head` | the disk, and the history of git |
| `mem`, `saved` | the step states, and the snapshot |
| `call` | the agent calls of the attempt: one, or one for each lens still to be asked |
| `orig`, `done` | locals of `commit_staged_files` |

| Action | Code |
|---|---|
| Start, StartReaper, RunEnds | the head of `run_internal` |
| Seed, Answer, CallFails | `run_llm_step`: `seed_gather_for_step`, the gather, `stage_code_changes`, `stage_attempt`, `store_gathered` |
| AttemptFails, Aggregate | the fan-in, with `discard_attempt` and the retry budget |
| Accept, Reject | `attempt_effects` and the save of the effects; `repeat`, `branch_to`, exhaustion |
| Prepare, Rename, RenameFails, Rollback, RolledBack, Applied | `apply_attempt_effects` with `commit_staged_files`, one step per rename |
| Reap | a commit of a reaper |
| Stop, Resume, UserEdits | a kill or a dropped run, `--resume` with `begin_run`, and the user between two runs |

The body of a file is the set of runs (agent calls, edits of the user) whose edits it has;
NoFile is a file that does not exist. That tells apart everything the properties ask: who
wrote what, and whether two bodies are the same. Files are numbered in the order of the
paths, which is the order of the `BTreeMap` that the renames follow. `accepted`,
`changed`, `unrestored` and `begun` are history, and so is `from` of a step.

The run *staged* has three workflows of three steps: the patch, commit and review of
`fix.json`, whose review sends the work back; the claims, rewrite and refutation of
`validate.json`, whose rewrite may repeat and writes files outside the workspace that may
or may not exist; and two lenses that change one file, before a step that builds. Bounds:
4 runs, so that every step is called and one is entered again with its own evidence; 2
faults, because a rollback that fails half way needs a failed rename and a failed
restore; 2 kills, so that a resume is killed while it replays. The lenses are symmetric. A
case with more of any of them rests on the proofs, which bound none.

| Property | Claim |
|---|---|
| TornIsPending | effects that reached some files only are in the snapshot, so that a resume completes them |
| OnlyAccepted | no file has an edit of a rejected, failed or dropped attempt |
| SourceIsCurrent | no call starts from a workspace file as it was before it changed |
| RollbackRestores (proved only) | a file that the rollback is through with is as it was, unless the error names it |
| AnswersAreStaged (proved only) | at the end of an attempt every change of its answers is staged |

### Observations

Three configurations, kept beside the runs, end in a counterexample:

* `StagedChanges_git.cfg` (GitIsCurrent): `apply_attempt_effects` returns for a reaper
  (workflow_runner.rs:1850) before it looks at the cache. After a commit, a step that is entered again gets what
  git said before it. docs/workflow-internals.md:353 says that a record goes stale when
  its bytes change and that the cache is dropped then, workflow_exec.rs:2600 that what is
  left in it is current by construction.
* `StagedChanges_versions.cfg` (OneVersion): `drop_superseded_artifact_context` keeps what
  is marked "(current)" (5294). A step of `validate.json` that is entered again has such records of
  its earlier attempt, and gets the file in two versions, which its comment (5283) and
  its test (7807) exclude.
* `StagedChanges_kept.cfg` (AnswersAreApplied): a failing lens has the staged changes of
  all lenses discarded (workflow_exec.rs:2007), the outputs of the others are kept and they are not asked
  again. The step is then accepted without their writes; docs/workflow.md:232 says that
  writes are applied once the answer passes.

Besides, the comment of `reuse_gathered_context` (workflow_exec.rs:134) says
that branches and rerun chains clear it; `reset_for_reentry` sets it.

Left out: retries inside one call, which end in an answer or a failure; sources read from
the index instead of the file; what a build does to the tree; a save that fails for the
intent of a reaper; path checks, permissions and the directories `commit_staged_files`
creates; a snapshot that `finish_failure` removes, which WorkflowExec has.

## 12. Proofs

`TaskManager_proofs.tla` proves, for `Spec` (all actions together) and every value of
the constants that satisfies ConstantsAssumption:

| Theorem | Statement |
|---|---|
| TypeCorrect | `Spec => []TypeOK` |
| SlotsAreBounded | `Spec => []SlotBound` |
| TurnsAreBounded | `Spec => []TurnBound` |
| ResultsAreFinal | `Spec => TerminalIsFinal` |
| PrerequisitesComeFirst | `Spec => DependencyOrder` |
| StopLeavesNoWorker | `Spec => []StopDrains` |
| DispatchNeverDeadlocks | `Spec => []NoDispatchDeadlock` |
| WavesSpread | `Spec => SpreadFair` |
| WavesAreTheLoop | `Spec => []WaveIsLoop` |

The argument. None of the bounds is inductive alone: Start writes Running into
whatever entry it finds, and FinishOk counts a run. What makes them inductive is
FutureEntry - a future that may still work has an active entry - which holds
because only the future itself makes an entry terminal, the reaper drains terminal
entries only, and stop_all moves active entries only. With it, each action either
keeps the counted sets (lemma NeutralSteps), or moves one element between them
(SpawnCounts, FinishCounts), or is a claim, whose size WaveFits bounds by the free
slots and the turns left. StopDrains needs one more invariant: a future that may
work has its handle in its entry, among those stop_all is joining, or was aborted
(Reachable), and stop_all holds handles only while it joins (Handover).
DependencyOrder is shown step by step from the types alone: OrderIsKept covers the steps
that keep done rows done and put nothing in progress, MergeIsInOrder the answers of the
todo agent, for any copy.

The last three are about one claim, in any state of the right type. Round, then rank,
then storage order is a strict total order of the claimable rows (PrecedesIsOrder); the
order is total because ConstantsAssumption says that two rows never have the same place
in storage, which holds of the indices of a Vec. So each claimable row has a place, the
number of rows up to it, and the rows of the first k places are k (PlacesAreTaken,
PrefixCardinality). A wave is such a prefix (WaveIsPrefix), and of one group the better
row comes first, in rounds that follow each other without a gap. SpreadFair compares the
rounds of the last row taken and the first row left. NoDispatchDeadlock shows that one
row is always below the limit of some wave. WaveIsLoop has to show first that the
recursive function Taken is what its equation says: TLA+ chooses a function that solves
it, so TakenEquation exhibits the prefixes as a solution, and TakenIsPrefix shows by a
least counterexample that every solution is the prefixes. LeastNat (a set of naturals
that is not empty has a least element) stands for the induction theorems, whose operator
parameter the provers do not take.

`McpClient_proofs.tla` proves, for any number of callers, requests and bodiless lines and
every behaviour of the server:

| Theorem | Statement |
|---|---|
| RepliesAreOwn | `Spec => []OwnAnswer` |
| CutReadsSpoilOnce | `Spec => []SpoilBound` |
| OnlyCutReadsHarm | `Spec => []HarmHasACause` |

The invariant CallInv adds to OwnAnswer that a call in progress has a request, which is
what Matches compares a reply with. SpoilInv counts: calls that ended on a line that does
not parse, plus the lines that may still come to that (Owed: a tail without its head in
the pipe, a line cut by the death of the server), are at most the reads that were cut,
plus one once the server is dead. Paired says that every head in the pipe is followed by
its tail, so that only a cut read leaves a stray one. HarmInv adds Quiet: while no read was
cut and the server lives, what the pipes hold is about the request of the caller that has
the lock, at one of five points of its way there and back (Idle, InFlight, Received,
AnswerOwed, AnswerSent), notes apart.

`WorkflowExec_proofs.tla` proves, for any workflow over any number of steps and lenses
and any number of crashes, faults and resumes:

| Theorem | Statement |
|---|---|
| TypeCorrect | `Spec => []TypeOK` |
| EffectsAreWrittenAhead | `Spec => []WriteAhead` |
| ReplaysAreLatest | `Spec => []ReplayIsLatest` |
| DoneStepsAreApplied | `Spec => []DoneMeansApplied` |
| RejectedOutputsAreKept | `Spec => []RejectedAreKept` |
| FailuresAreFinal | `Spec => NoSecondChance` |
| InputsAreFresh | `Spec => []FreshInputs` |
| LensesAreFresh | `Spec /\ [][Steady]_vars => []FreshLens` |

The key of the invariant is Durable: while the process lives, accepted effects in
memory or in the snapshot mean that both are equal. Accept and StartReaper establish it
with a save that must succeed, and nothing but the application of those effects can
follow, since FindEffects comes before any new work; any fault on the way ends the run.
Sound says of a set of step states, in memory and on disk alike, that no run is newer
than `runs` or older than what was applied, that accepted effects belong to the latest
run, and that Done means applied or turned down. A resume turns one into the other, so
it needs both. Places says what the current step is at each place of the loop.

The other four rest on that invariant, each with a strengthening of its own that TLC has
checked on the constants of *effects*. KInv: the outputs an eval judges are those of the
latest run, so that what it turns down is what a reset moves to the prior attempts. NInv:
no work is under way in failed states, and unless the run reported that it could not save
the failure, the snapshot has it too. FInv says of memory and file that what a settled step saw of its
prerequisites is what they say, which a reset of t keeps if it resets all that rests on t.
It does, except for a step that depends on itself: a reset leaves t out. Hence the second
half of FInv: only Grounded steps, those no cycle is upstream of, ever run, and among them
Dependents is free of cycles. LInv: lens outputs of a failed attempt belong to the step
that runs next, so nothing can run between the attempt and its retry. For any workflow
this needs Steady, that a step with such outputs is not skipped. In the model a condition
may say anything at any time; in the code `run_if` and `skip_if` read outputs of steps,
and between two attempts of a step nothing changes that they can read but that step's own
counters (`lookup_field`, workflow_exec.rs:181). Of the shipped workflows two steps read
their own (`lore-search` and `fixes-tag-search` of fix.json), and neither has lenses.
*effects* has no condition on its lensed step and checks FreshLens
without Steady.

`Session_proofs.tla` proves, for every set of rows and tasks, every command line and any
number of faults:

| Theorem | Statement |
|---|---|
| SessionIsSound | `Spec => []IInv` |
| CapLeavesNoResult | `Spec => []CapPublishesAll` |
| CodingIsAttemptedFirst | `Spec => []CodingDoneMeansDone` |
| ExitsAreResumable | `Spec => []ExitIsResumable` |

IInv has one part per hazard. HandsInv: a reaped task is among those the reaper has left,
has in hand or has in its batch, so that a reaper at rest and no outstanding task mean
that every entry is free. EntryInv: tasks in the reaper's hands keep their entries, and
there are free entries for all claimed rows, which Submit needs. CodingInv: Done of a
coding row, in memory or in the file, means attempted. FileInv: unless
a save failed, the signature is what the file holds, and owed follow-ups are listed or
deferred.

The same module has the proofs of FixSeries, the other state machine of kres-repl, whose
names therefore are SeriesInit, SeriesNext and SeriesSpec. For any todos, plans, updates
and budgets and any number of kills and resumes:

| Theorem | Statement |
|---|---|
| SeriesInvariant | `SeriesSpec => []SeriesInv` |
| SeriesTypes | `SeriesSpec => []SeriesTypeOK` |
| PatchesAreNeverStacked | `SeriesSpec => []NeverStacked` |
| TheSeriesIsExact | `SeriesSpec => []PublishedIsExact` |
| DoneStaysDone | `SeriesSpec => CompletedStands` |

SeriesInv says that there is a number n such that exactly the first n todos are done, and
is stated for that n. PlanInv: if the commits recorded for them stand on each other, the
last of them is the root and one change per todo. PhaseInv: a run works on todo n + 1, and
only with that chain whole. SnapInv: of the snapshots on disk only the one of todo n + 1
under the current revision can be taken up, and while its run has made no commit HEAD is
the chain; afterwards HEAD is the chain with one change for todo n + 1 on it or in the
place of its last (RunFits). NeverStacked needs all of it, because an amend by a run that
has made nothing (the finding of *series_amend*) replaces the commit of another todo; it
still adds no second change for a todo. That the recorded commits stand on each other is
not invariant, for the same reason, and is what the driver checks before each run and
before the assessment; TheSeriesIsExact rests on those checks. That a list of operations
of any length leaves the first n todos alone (AllOperationsBuild) is shown by a least
counterexample, for which StepsExist exhibits the function that AllOperations is defined by. TLC has
checked SeriesInv on the constants of *series*, with n up to 5.

`Findings_proofs.tla` proves, for any tasks, ids, deltas and promoter:

| Theorem | Statement |
|---|---|
| StoreIsSound | `Spec => []StoreInv` |
| FilingsAreKept | `Spec => []FilingsSurvive` |
| UpdatesFindTheirRecord | `Spec => []UpdatesLand` |
| RetirementsStand | `Spec => RetirementStands` |
| StoreImplementsLedger | `Spec => ImplementsLedger` |

StoreInv says that memory and file are lists of records with distinct ids, without which
`Entries` would not be a function of the list and a step on the first record of an id
would not be an Amend. ShownInv adds that the ids of the mirror are in the store, and
FiledInv that every filing is held. OneTarget says that an entry of a delta meets one
record at most, MergedFields and StatusEdges what a merge does to it; they carry both
the filings and the refinement.

`LensReview_proofs.tla` proves, for any slate, models, keys and bounds:

| Theorem | Statement |
|---|---|
| ShapeIsKept | `Spec => [](Shape /\ HeldInv)` |
| CallsAreAccounted | `Spec => []EveryCallAccounted` |
| AnswersRestOnEvidence | `Spec => []AnsweredOnEvidence` |
| EvidenceOnlyGrows | `Spec => EvidenceGrows` |

HeldInv: calls that are held wait for a seed call of their model that is in flight, so a
fan-out with nothing in flight is complete. AccountInv: while the session is not shut
down (after that nothing is consolidated), each call of the slate is under way, has a
result, or is parked because its lens runs no more. The lemma SmallerSlate says that a
call of the slate whose lens still runs is made again in the next round, also by a second
model, whose lens is chosen from the smaller slate. EvidenceInv: what a fan-out gives has seen all that was served, and a parked
answer asks for nothing that was served, or is about to be, and that it has not seen.

`CodexDispatcher_proofs.tla` proves, for any number of tasks and deltas:

| Theorem | Statement |
|---|---|
| DispatcherIsSound | `Spec => []IInv` |
| WaitersAreKnown | `Spec => []NoOrphan` |
| AnswersAreOwn | `Spec => []OwnAnswer` |

LoopInv: a dispatcher that ended has nothing left, and none is started beside it.
WaitInv: a waiting call is at exactly one place of the dispatcher, and one whose turn is
not open has nothing at the server. TextInv: of an open turn, the deltas collected and
the deltas on their way are all that was streamed, and completed is the last message of
its thread. The count of the deltas on their way is the cardinality of their positions;
DeltasAppend and DeltasTail say how a write and a read change it, the second by a
bijection that shifts the positions.

`StagedChanges_proofs.tla` proves, for any workflow over any number of steps, lenses and
files, and any number of runs, faults and kills:

| Theorem | Statement |
|---|---|
| TypeCorrect | `Spec => []TypeOK` |
| RollbackIsClean | `Spec => []RollbackRestores` |
| StagingIsSound | `Spec => []IInv` |
| TornEffectsAreKept | `Spec => []TornIsPending` |
| EvidenceIsCurrent | `Spec => []SourceIsCurrent` |
| AcceptedOnly | `Spec => []OnlyAccepted` |
| StagedInFull | `Spec => []AnswersAreStaged` |

Durable says that one step at most waits with effects, none while an attempt is made, and
that the snapshot has them too; Torn, that what was begun is what waits. StagedByNow says
that everything staged is of the attempt being made or of the step that waits, which is
why discarding or applying that one attempt leaves nothing behind. CleanBodies adds that
files and effects hold accepted runs only, and staged bodies those of the answers of the
attempt besides. Current: the whole cache is current wherever a call can be seeded, and
while files are renamed either it is or it is about to be dropped. OwnNumbers and Tracked
say that an answer is staged in full when it comes, and that nothing of it goes while the
attempt lasts.

Only model-checked:

* liveness, because TLAPS handles neither fairness nor ENABLED: EveryResultPublished,
  EveryRowFinished, CallsEnd, BatchExits, SeriesEnds, EveryCallReturns;
* the violation of *series_amend*, and those of the configurations under Observations,
  which are counterexamples.

## 13. Not modelled

* **Merging the todo agent's answer** (`todo_agent.rs`, `reconcile_update` and `dedup`).
  Rows are matched by normalised text, so a model would be about string similarity;
  TaskManager keeps the outcome: which rows an answer may finish, retire or create.
* **Path checks and prompts of the workflow runner** (`workflow_runner.rs`): string and
  file-system predicates, and text.
* **HTTP retries and the pool of claude processes** (`client.rs`): each call retries alone,
  with delays; nothing is shared but a rate limiter that does nothing.
* **Main agent, tools, prompts, parsing and repair of model output**: text. The models
  take every outcome (usable, malformed, empty, failed) instead.
* **Artifacts, consent, plan file, cost, logs, terminal UI, reports, export, settings,
  command line**: sequential I/O and presentation.
* In the modelled parts: what each section lists as left out. A hazard of
  `PROJECT.json` that its properties cover in part says so in its note.
