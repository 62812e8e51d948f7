---------------------------- MODULE TaskManager ----------------------------
(***************************************************************************)
(* The scheduler of kres-core: TaskManager (kres-core/src/task.rs) with    *)
(* the three actors that use it.                                           *)
(*                                                                         *)
(*   - the REPL loop, which runs one command at a time: it claims todo     *)
(*     rows and submits one task for each, submits operator prompts, edits *)
(*     the list, or runs stop_all;                                         *)
(*   - the future of every spawned task: it waits for a permit of the      *)
(*     semaphore, publishes Running, does its work, stores its result,     *)
(*     drops the permit;                                                   *)
(*   - the reaper, which drains terminal entries, publishes them one by    *)
(*     one, asks the todo agent about each group of them and merges its    *)
(*     answer, and re-arms the start budget.                               *)
(*                                                                         *)
(* Every action is one critical section of the manager's write lock.       *)
(* The text of rows, findings and analyses is left out; the order of rows  *)
(* in storage, which only breaks ties, is the constant Order.              *)
(***************************************************************************)
EXTENDS Integers, FiniteSets

CONSTANTS
  Task,         \* ids handed out by NEXT_TASK_ID, as many as a run may spawn
  Row,          \* todo rows, named by their id
  NoRow,        \* the todo_name of a task the operator submitted
  PlanRows,     \* rows review_todos_from_plan seeds
  Group,        \* plan steps
  GroupOf,      \* step_id of each row
  Survey,       \* the rows is_survey_group_row answers true for
  DependsOn,    \* depends_on a row is created with, by the plan or the todo agent,
                \* without cycles: normalize_todo_dependencies drops an edge closing one
  Order,        \* position of each row in storage
  Rankings,     \* orders the ranking agent may publish, as ranks of the rows
  MaxParallel,  \* --max-parallel, 0 is unbounded
  TurnsLimit,   \* --turns, 0 is unlimited
  ClaimBound    \* bound of the model: claims of one group, and since a reap

ASSUME ConstantsAssumption ==
  /\ IsFiniteSet(Task) /\ IsFiniteSet(Row)
  /\ NoRow \notin Row
  /\ PlanRows \subseteq Row /\ Survey \subseteq Row
  /\ GroupOf \in [Row -> Group]
  /\ DependsOn \in [Row -> SUBSET Row]
  /\ Order \in [Row -> Nat] /\ \A q, r \in Row : Order[q] = Order[r] => q = r
  /\ Rankings \subseteq [Row -> Nat]
  /\ MaxParallel \in Nat /\ TurnsLimit \in Nat /\ ClaimBound \in Nat

VARIABLES
  entry,      \* state of the task's entry in Inner.tasks
  future,     \* where the spawned future is
  handle,     \* the entry still owns the JoinHandle
  owner,      \* todo_name of the task
  completed,  \* completed_run_count
  row,        \* status of each row of Inner.todo
  dep,        \* depends_on of each row
  deferred,   \* rows of Inner.deferred
  kept,       \* depends_on of each deferred row
  starts,     \* starts_since_reap
  rank,       \* ranked_order, as the rank of each row
  claims,     \* claims_by_group
  main,       \* what the REPL loop is doing
  claimed,    \* rows dispatch_ready has claimed and not yet submitted
  joining,    \* tasks whose handle stop_all has taken and not yet joined
  doomed,     \* live futures aborted because the grace expired
  reaped,     \* what the reaper knows of a task it drained
  reaper,     \* what the reaper is doing
  seen        \* the list as the todo agent was asked about it

taskVars   == <<entry, future, handle, owner, completed>>
todoVars   == <<row, dep, deferred, kept>>
claimVars  == <<starts, rank, claims>>
mainVars   == <<main, claimed, joining, doomed>>
reaperVars == <<reaped, reaper, seen>>
vars == <<taskVars, todoVars, claimVars, mainVars, reaperVars>>

EntryState  == {"Absent", "Pending", "Running", "Cancelling", "Done", "Errored", "Reaped"}
FutureState == {"none", "queued", "admitted", "working", "returning", "over"}
RowStatus   == {"Absent", "Pending", "InProgress", "Done"}

Terminal == {"Done", "Errored"}
Settled  == {"InProgress", "Done"}
NothingSeen == [status |-> [r \in Row |-> "Absent"], needs |-> [r \in Row |-> {}]]
Unranked == [r \in Row |-> 0]

Active  == {t \in Task : entry[t] \in {"Pending", "Running", "Cancelling"}}
Tracked == {t \in Task : entry[t] \notin {"Absent", "Reaped"}}
Fresh   == {t \in Task : entry[t] = "Absent"}
Live    == {t \in Task : future[t] \in {"queued", "admitted", "working", "returning"}}
Holding == {t \in Task : future[t] \in {"admitted", "working", "returning"}}

TypeOK ==
  /\ entry \in [Task -> EntryState]
  /\ future \in [Task -> FutureState]
  /\ handle \in [Task -> BOOLEAN]
  /\ owner \in [Task -> Row \cup {NoRow}]
  /\ completed \in Nat
  /\ row \in [Row -> RowStatus]
  /\ dep \in [Row -> SUBSET Row]
  /\ deferred \subseteq Row
  /\ kept \in [Row -> SUBSET Row]
  /\ starts \in Nat
  /\ rank \in [Row -> Nat]
  /\ claims \in [Group -> Nat]
  /\ main \in {"idle", "dispatching", "planning", "cancelled", "joining", "stopped"}
  /\ claimed \subseteq Row
  /\ joining \subseteq Task
  /\ doomed \subseteq Task
  /\ reaped \in [Task -> {"no", "Done", "Errored", "batched", "asked", "published"}]
  /\ reaper \in {"idle", "publishing", "merging", "asking"}
  /\ seen \in [status : [Row -> RowStatus], needs : [Row -> SUBSET Row]]

Init ==
  /\ entry = [t \in Task |-> "Absent"]
  /\ future = [t \in Task |-> "none"]
  /\ handle = [t \in Task |-> FALSE]
  /\ owner = [t \in Task |-> NoRow]
  /\ completed = 0
  /\ row = [r \in Row |-> "Absent"]
  /\ dep = [r \in Row |-> {}]
  /\ deferred = {} /\ kept = [r \in Row |-> {}]
  /\ starts = 0
  /\ rank = Unranked
  /\ claims = [g \in Group |-> 0]
  /\ main = "idle" /\ claimed = {} /\ joining = {} /\ doomed = {}
  /\ reaped = [t \in Task |-> "no"] /\ reaper = "idle" /\ seen = NothingSeen

(***************************************************************************)
(* What a claim may take: turn_budget, free_slots, the start budget, the   *)
(* survey gate, and the order of the rows.                                 *)
(***************************************************************************)
Unbounded == Cardinality(Row)
Monus(a, b) == IF a > b THEN a - b ELSE 0
Least(a, b) == IF a < b THEN a ELSE b

TurnBudgetIgnoringActive == IF TurnsLimit = 0 THEN Unbounded ELSE Monus(TurnsLimit, completed)
TurnBudget ==
  IF TurnsLimit = 0 THEN Unbounded ELSE Monus(TurnsLimit, completed + Cardinality(Active))
FreeSlotsOfRunning ==
  IF MaxParallel = 0 THEN Unbounded
  ELSE Monus(MaxParallel, Cardinality({t \in Task : entry[t] = "Running"}))
FreeSlots ==
  IF MaxParallel = 0 THEN Unbounded ELSE Monus(MaxParallel, Cardinality(Active))
StartBudgetStrict == IF MaxParallel = 0 THEN Unbounded ELSE Monus(MaxParallel, starts)
\* With no task tracked no reap can come to re-arm the budget, so it is lifted.
StartBudget ==
  IF MaxParallel = 0 \/ Tracked = {} THEN Unbounded ELSE Monus(MaxParallel, starts)

DoneRows == {r \in Row : row[r] = "Done"}
Ready    == {r \in Row : row[r] = "Pending" /\ dep[r] \subseteq DoneRows}
GateShutForever == \E r \in Survey : row[r] # "Absent"
\* The gate is shut while a survey row is running or could be claimed.
GateShut  == \E r \in Survey : row[r] = "InProgress" \/ r \in Ready
Claimable == IF GateShut THEN Ready \cap Survey ELSE Ready

Better(q, r) == rank[q] < rank[r] \/ (rank[q] = rank[r] /\ Order[q] < Order[r])
ServedAtStart(r) == claims[GroupOf[r]]
\* How often its group has been served when r's turn comes within the group.
Served(r) ==
  claims[GroupOf[r]]
    + Cardinality({q \in Claimable : GroupOf[q] = GroupOf[r] /\ Better(q, r)})
\* Least-served group first, then rank, then storage order.
Precedes(q, r) == Served(q) < Served(r) \/ (Served(q) = Served(r) /\ Better(q, r))

ClaimLimit(limit) == Least(limit, Least(TurnBudget, Least(FreeSlots, StartBudget)))

\* The rows one claim takes: the first ClaimLimit(limit) of the order.
IsWave(S, limit) ==
  /\ Cardinality(S) = Least(ClaimLimit(limit), Cardinality(Claimable))
  /\ \A r \in S, q \in Claimable \ S : Precedes(r, q)

\* The loop of claim_ranked_todos: take the best row under (claims of its group
\* so far, rank, storage), again and again.
Load(r, taken) ==
  claims[GroupOf[r]] + Cardinality({q \in taken : GroupOf[q] = GroupOf[r]})
Ahead(r, q, taken) ==
  Load(r, taken) < Load(q, taken) \/ (Load(r, taken) = Load(q, taken) /\ Better(r, q))
Taken[n \in Nat] ==
  IF n = 0 THEN {}
  ELSE LET taken == Taken[n - 1]
           ready == Claimable \ taken
       IN  taken \cup {r \in ready : \A q \in ready \ {r} : Ahead(r, q, taken)}

(***************************************************************************)
(* The REPL loop.                                                          *)
(***************************************************************************)
\* claim_ranked_todos: limit is 1 for /next and usize::MAX otherwise.
Claim(limit) ==
  /\ main = "idle"
  /\ \E S \in SUBSET Claimable :
       /\ S # {}
       /\ IsWave(S, limit)
       /\ starts + Cardinality(S) <= ClaimBound
       /\ \A r \in S : claims[GroupOf[r]] + Cardinality(S) <= ClaimBound
       /\ row' = [r \in Row |-> IF r \in S THEN "InProgress" ELSE row[r]]
       /\ starts' = starts + Cardinality(S)
       /\ claims' = [g \in Group |-> claims[g] + Cardinality({r \in S : GroupOf[r] = g})]
       /\ claimed' = S
  /\ main' = "dispatching"
  /\ UNCHANGED <<taskVars, dep, deferred, kept, rank, joining, doomed, reaperVars>>

SpawnBeforeInstall(t, name) ==
  /\ t \in Fresh
  /\ entry' = [entry EXCEPT ![t] = "Pending"]
  /\ future' = [future EXCEPT ![t] = "queued"]
  /\ owner' = [owner EXCEPT ![t] = name]
  /\ UNCHANGED <<completed, handle>>

\* spawn: the future starts only once its entry holds the JoinHandle.
Spawn(t, name) ==
  /\ t \in Fresh
  /\ entry' = [entry EXCEPT ![t] = "Pending"]
  /\ future' = [future EXCEPT ![t] = "queued"]
  /\ handle' = [handle EXCEPT ![t] = TRUE]
  /\ owner' = [owner EXCEPT ![t] = name]
  /\ UNCHANGED completed

Dispatched(r) ==
  /\ claimed' = claimed \ {r}
  /\ main' = IF claimed = {r} THEN "idle" ELSE "dispatching"
  /\ UNCHANGED <<todoVars, claimVars, joining, doomed, reaperVars>>

Submit(r, t) ==
  /\ main = "dispatching" /\ r \in claimed
  /\ Spawn(t, r)
  /\ Dispatched(r)

\* submit_prompt_inner returned false: the row stays InProgress.
SubmitFails(r) ==
  /\ main = "dispatching" /\ r \in claimed
  /\ Dispatched(r)
  /\ UNCHANGED taskVars

\* An operator prompt: no claim, no budget, only the semaphore.
OperatorSubmit(t) ==
  /\ main = "idle"
  /\ Spawn(t, NoRow)
  /\ UNCHANGED <<todoVars, claimVars, mainVars, reaperVars>>

\* set_ranked_order, from the detached ranking refresh.
SetRankedOrder(order) ==
  /\ rank' = order
  /\ UNCHANGED <<taskVars, todoVars, starts, claims, mainVars, reaperVars>>

(***************************************************************************)
(* The future of a task.                                                   *)
(***************************************************************************)
\* semaphore.acquire_owned
AcquirePermit(t) ==
  /\ future[t] = "queued"
  /\ MaxParallel = 0 \/ Cardinality(Holding) < MaxParallel
  /\ future' = [future EXCEPT ![t] = "admitted"]
  /\ UNCHANGED <<entry, handle, owner, completed, todoVars, claimVars, mainVars, reaperVars>>

\* set_state(Running) looks only for the entry, so it also overwrites Cancelling.
Start(t) ==
  /\ future[t] = "admitted"
  /\ future' = [future EXCEPT ![t] = "working"]
  /\ entry' = [entry EXCEPT ![t] = IF t \in Tracked THEN "Running" ELSE @]
  /\ UNCHANGED <<handle, owner, completed, todoVars, claimVars, mainVars, reaperVars>>

\* finish_ok: only a task that produced something counts against --turns.
FinishOk(t, produced) ==
  /\ future[t] = "working"
  /\ future' = [future EXCEPT ![t] = "returning"]
  /\ entry' = [entry EXCEPT ![t] = IF t \in Tracked THEN "Done" ELSE @]
  /\ completed' = IF produced /\ t \in Tracked THEN completed + 1 ELSE completed
  /\ UNCHANGED <<handle, owner, todoVars, claimVars, mainVars, reaperVars>>

FinishErr(t) ==
  /\ future[t] = "working"
  /\ future' = [future EXCEPT ![t] = "returning"]
  /\ entry' = [entry EXCEPT ![t] = IF t \in Tracked THEN "Errored" ELSE @]
  /\ UNCHANGED <<handle, owner, completed, todoVars, claimVars, mainVars, reaperVars>>

End(t) ==
  /\ future' = [future EXCEPT ![t] = "over"]
  /\ doomed' = doomed \ {t}
  /\ UNCHANGED <<entry, handle, owner, completed, todoVars, claimVars,
                 main, claimed, joining, reaperVars>>

\* drop(_permit)
Release(t) == future[t] = "returning" /\ End(t)

\* An aborted future is dropped at its next await, its permit with it, and
\* nobody touches its entry.
Vanish(t) == t \in doomed /\ End(t)

(***************************************************************************)
(* stop_all, and the commands that call it.                                *)
(***************************************************************************)
StopCancelAll ==
  /\ main = "idle"
  /\ entry' = [t \in Task |-> IF t \in Tracked THEN "Cancelling" ELSE entry[t]]
  /\ main' = "cancelled"
  /\ UNCHANGED <<future, handle, owner, completed, todoVars, claimVars,
                 claimed, joining, doomed, reaperVars>>

StopCancel ==
  /\ main = "idle"
  /\ entry' = [t \in Task |-> IF t \in Active THEN "Cancelling" ELSE entry[t]]
  /\ main' = "cancelled"
  /\ UNCHANGED <<future, handle, owner, completed, todoVars, claimVars,
                 claimed, joining, doomed, reaperVars>>

StopTake ==
  /\ main = "cancelled"
  /\ joining' = {t \in Task : handle[t]}
  /\ handle' = [t \in Task |-> FALSE]
  /\ main' = "joining"
  /\ UNCHANGED <<entry, future, owner, completed, todoVars, claimVars,
                 claimed, doomed, reaperVars>>

StopJoin(t) ==
  /\ main = "joining" /\ t \in joining
  /\ future[t] = "over"
  /\ joining' = joining \ {t}
  /\ UNCHANGED <<taskVars, todoVars, claimVars, main, claimed, doomed, reaperVars>>

\* The grace expired: abort() and go on without waiting for the future to end.
StopExpire(t) ==
  /\ main = "joining" /\ t \in joining
  /\ joining' = joining \ {t}
  /\ doomed' = IF t \in Live THEN doomed \cup {t} ELSE doomed
  /\ UNCHANGED <<taskVars, todoVars, claimVars, main, claimed, reaperVars>>

StopReturn ==
  /\ main = "joining" /\ joining = {}
  /\ main' = "stopped"
  /\ UNCHANGED <<taskVars, todoVars, claimVars, claimed, joining, doomed, reaperVars>>

\* defer_matching: rows of these statuses move to the deferred list, unless it
\* already holds the same row.
Defer(statuses) ==
  LET moved == {r \in Row : row[r] \in statuses} IN
  /\ row' = [r \in Row |-> IF r \in moved THEN "Absent" ELSE row[r]]
  /\ dep' = [r \in Row |-> IF r \in moved THEN {} ELSE dep[r]]
  /\ deferred' = deferred \cup moved
  /\ kept' = [r \in Row |-> IF r \in moved \ deferred THEN dep[r] ELSE kept[r]]

\* cmd_stop: defer_all_after_stop.
StopDefer ==
  /\ main = "stopped"
  /\ Defer({"Pending", "InProgress"})
  /\ main' = "idle"
  /\ UNCHANGED <<taskVars, claimVars, claimed, joining, doomed, reaperVars>>

\* clear_session_work; starts_since_reap and the tasks stay.
ClearSessionWork ==
  /\ row' = [r \in Row |-> "Absent"] /\ dep' = [r \in Row |-> {}]
  /\ deferred' = {} /\ kept' = [r \in Row |-> {}]
  /\ rank' = Unranked
  /\ claims' = [g \in Group |-> 0]
  /\ UNCHANGED starts

\* cmd_clear: stop_all, then clear_session_work.
StopClear ==
  /\ main = "stopped"
  /\ ClearSessionWork
  /\ main' = "idle"
  /\ UNCHANGED <<taskVars, claimed, joining, doomed, reaperVars>>

(***************************************************************************)
(* The other edits of the todo list.                                       *)
(***************************************************************************)
Listed == {r \in Row : row[r] # "Absent"}

\* A fresh review prompt clears the session's work without stopping a task ...
FreshReview ==
  /\ main = "idle"
  /\ ClearSessionWork
  /\ main' = "planning"
  /\ UNCHANGED <<taskVars, claimed, joining, doomed, reaperVars>>

\* ... and after its planning calls runs seed_todo_if_empty, if they gave a plan.
\* Without a plan, or with rows listed meanwhile, the prompt becomes a task
\* (OperatorSubmit), or is dropped.
SeedTodoIfEmpty ==
  /\ main = "planning"
  /\ LET seeded == IF Listed = {} THEN PlanRows ELSE {} IN
       /\ row' = [r \in Row |-> IF r \in seeded THEN "Pending" ELSE row[r]]
       /\ dep' = [r \in Row |-> IF r \in seeded THEN DependsOn[r] \cap PlanRows ELSE dep[r]]
  /\ main' = "idle"
  /\ UNCHANGED <<taskVars, deferred, kept, claimVars, claimed, joining, doomed, reaperVars>>

PlanFails ==
  /\ main = "planning"
  /\ main' = "idle"
  /\ UNCHANGED <<taskVars, todoVars, claimVars, claimed, joining, doomed, reaperVars>>

\* append_todo_unique: a follow-up the reaper adds itself, with no dependency.
AppendTodo(r) ==
  /\ reaper \in {"publishing", "merging"}
  /\ row[r] = "Absent" /\ r \notin Survey
  /\ row' = [row EXCEPT ![r] = "Pending"]
  /\ UNCHANGED <<taskVars, dep, deferred, kept, claimVars, mainVars, reaperVars>>

\* remove_todo, from /done N: scrubs the edges of listed rows, not of deferred ones.
RemoveTodo(r) ==
  /\ main = "idle" /\ row[r] = "Pending"
  /\ row' = [row EXCEPT ![r] = "Absent"]
  /\ dep' = [q \in Row |-> IF q = r THEN {} ELSE dep[q] \ {r}]
  /\ UNCHANGED <<taskVars, deferred, kept, claimVars, mainVars, reaperVars>>

\* clear_active_todos, from /todo --clear: the deferred list stays.
ClearActiveTodos ==
  /\ main = "idle" /\ Listed # {}
  /\ row' = [r \in Row |-> "Absent"] /\ dep' = [r \in Row |-> {}]
  /\ rank' = Unranked
  /\ UNCHANGED <<taskVars, deferred, kept, starts, claims, mainVars, reaperVars>>

\* defer_pending: goal met, turn cap, no progress, too many failures.
DeferPending ==
  /\ \E r \in Row : row[r] = "Pending"
  /\ Defer({"Pending"})
  /\ UNCHANGED <<taskVars, claimVars, mainVars, reaperVars>>

RestoreDeferredOverListed ==
  /\ deferred # {}
  /\ row' = [r \in Row |-> IF r \in deferred THEN "Pending" ELSE row[r]]
  /\ dep' = [r \in Row |-> IF r \in deferred THEN kept[r] ELSE dep[r]]
  /\ deferred' = {} /\ kept' = [r \in Row |-> {}]
  /\ UNCHANGED <<taskVars, claimVars, mainVars, reaperVars>>

\* restore_deferred: /continue, /resume, and goal met under --follow.
RestoreDeferred ==
  LET added == deferred \ Listed IN
  /\ deferred # {}
  /\ row' = [r \in Row |-> IF r \in added THEN "Pending" ELSE row[r]]
  /\ dep' = [r \in Row |-> IF r \in added THEN kept[r] ELSE dep[r]]
  /\ deferred' = {} /\ kept' = [r \in Row |-> {}]
  /\ UNCHANGED <<taskVars, claimVars, mainVars, reaperVars>>

\* reset_in_progress_to_pending: ctrl-c, whatever runs at that moment.
ResetInProgress ==
  /\ \E r \in Row : row[r] = "InProgress"
  /\ row' = [r \in Row |-> IF row[r] = "InProgress" THEN "Pending" ELSE row[r]]
  /\ UNCHANGED <<taskVars, dep, deferred, kept, claimVars, mainVars, reaperVars>>

(***************************************************************************)
(* The reaper.                                                             *)
(***************************************************************************)
Reap ==
  LET drained == {t \in Task : entry[t] \in Terminal} IN
  /\ reaper = "idle" /\ drained # {}
  /\ entry' = [t \in Task |-> IF t \in drained THEN "Reaped" ELSE entry[t]]
  /\ handle' = [t \in Task |-> handle[t] /\ t \notin drained]
  /\ reaped' = [t \in Task |-> IF t \in drained THEN entry[t] ELSE reaped[t]]
  /\ reaper' = "publishing"
  /\ UNCHANGED <<future, owner, completed, todoVars, claimVars, mainVars, seen>>

ToPublish == {t \in Task : reaped[t] \in Terminal}

PublishFirstOnly(t, hears) ==
  /\ reaper = "publishing" /\ t \in ToPublish
  /\ row' = [r \in Row |->
               IF reaped[t] = "Done" /\ r = owner[t] /\ r \in Listed THEN "Done" ELSE row[r]]
  /\ reaped' = [reaped EXCEPT ![t] = IF hears /\ reaped[t] = "Done" THEN "batched" ELSE "published"]
  /\ reaper' = "merging"
  /\ UNCHANGED <<taskVars, dep, deferred, kept, claimVars, mainVars, seen>>

\* One task of the batch. mark_todo_done finds the row by its id, whatever its
\* status; the row of a task that failed is left alone. The todo agent hears of
\* the task (it is batched) unless /stop is latched or the turn cap is reached.
PublishTask(t, hears) ==
  /\ reaper = "publishing" /\ t \in ToPublish
  /\ row' = [r \in Row |->
               IF reaped[t] = "Done" /\ r = owner[t] /\ r \in Listed THEN "Done" ELSE row[r]]
  /\ reaped' = [reaped EXCEPT ![t] = IF hears /\ reaped[t] = "Done" THEN "batched" ELSE "published"]
  /\ reaper' = IF ToPublish = {t} THEN "merging" ELSE "publishing"
  /\ UNCHANGED <<taskVars, dep, deferred, kept, claimVars, mainVars, seen>>

\* The next group of the batch: the list is copied and the todo agent is asked.
AskTodoAgent(group) ==
  /\ reaper = "merging"
  /\ group # {} /\ \A t \in group : reaped[t] = "batched"
  /\ reaped' = [t \in Task |-> IF t \in group THEN "asked" ELSE reaped[t]]
  /\ seen' = [status |-> row, needs |-> dep]
  /\ reaper' = "asking"
  /\ UNCHANGED <<taskVars, todoVars, claimVars, mainVars>>

GroupHandled ==
  /\ reaped' = [t \in Task |-> IF reaped[t] = "asked" THEN "published" ELSE reaped[t]]
  /\ seen' = NothingSeen
  /\ reaper' = "merging"

\* The call failed, or the session has no todo agent.
TodoAgentFails ==
  /\ reaper = "asking"
  /\ GroupHandled
  /\ UNCHANGED <<taskVars, todoVars, claimVars, mainVars>>

\* Rows of the group: completed_todo_ids.
Completed == {r \in Row : \E t \in Task : reaped[t] = "asked" /\ owner[t] = r}
Needed    == UNION {dep[r] : r \in Listed}
Seen      == {r \in Row : seen.status[r] # "Absent"}
SeenOpen  == {r \in Seen : seen.status[r] # "Done"}

\* The answer: the rows it saw but for those it omits, and those it creates. One
\* that was removed meanwhile does not return, unless the group completed it.
Items(omit, create) == ((Seen \ omit) \cap (Listed \cup Completed)) \cup create
\* Omission deletes a pending row that is unchanged and that no row depends on.
Dropped(items) ==
  {r \in Row \ (items \cup Needed \cup Completed) :
     row[r] = "Pending" /\ seen.status[r] = "Pending" /\ seen.needs[r] = dep[r]}

\* merge_inferred_state, against the live list. A live row in progress or done
\* keeps its status; a pending one takes that of the answer, which for a row the
\* agent did not finish is the status of the copy. Prerequisites of the copy are
\* added to the live ones; edges to rows not listed are dropped.
MergeInferredState(finish, omit, create) ==
  LET items  == Items(omit, create)
      listed == (Listed \cup items) \ Dropped(items)
      status(r) == IF r \in finish THEN "Done"
                   ELSE IF r \in create THEN "Pending" ELSE seen.status[r]
      offered(r) == IF r \in create THEN DependsOn[r]
                    ELSE IF r \in items THEN seen.needs[r] ELSE {}
  IN
  /\ reaper = "asking"
  /\ row' = [r \in Row |->
               IF r \notin listed THEN "Absent"
               ELSE IF r \in Completed THEN "Done"
               ELSE IF r \in items /\ row[r] \notin Settled THEN status(r) ELSE row[r]]
  /\ dep' = [r \in Row |->
               IF r \in listed THEN (dep[r] \cup offered(r)) \cap (listed \ {r}) ELSE {}]
  /\ GroupHandled
  /\ UNCHANGED <<taskVars, deferred, kept, claimVars, mainVars>>

\* note_reap_completed
NoteReapCompleted ==
  /\ reaper = "merging" /\ \A t \in Task : reaped[t] # "batched"
  /\ starts' = 0
  /\ reaper' = "idle"
  /\ UNCHANGED <<taskVars, todoVars, rank, claims, mainVars, reaped, seen>>

(***************************************************************************)
(* The specification.                                                      *)
(***************************************************************************)
Dispatch ==
  \/ \E limit \in {1, Unbounded} : Claim(limit)
  \/ \E r \in Row : (\E t \in Task : Submit(r, t)) \/ SubmitFails(r)
  \/ \E t \in Task : OperatorSubmit(t)
  \/ \E order \in Rankings : SetRankedOrder(order)

RunTask(t) ==
  \/ AcquirePermit(t) \/ Start(t) \/ FinishErr(t) \/ Release(t) \/ Vanish(t)
  \/ \E produced \in BOOLEAN : FinishOk(t, produced)

Stop ==
  \/ StopCancel \/ StopTake \/ StopReturn \/ StopDefer \/ StopClear
  \/ \E t \in Task : StopJoin(t) \/ StopExpire(t)

EditTodo ==
  \/ FreshReview \/ SeedTodoIfEmpty \/ PlanFails
  \/ \E r \in Row : AppendTodo(r) \/ RemoveTodo(r)
  \/ ClearActiveTodos \/ DeferPending \/ RestoreDeferred \/ ResetInProgress

TodoAgentReturns ==
  \/ TodoAgentFails
  \/ \E omit \in SUBSET SeenOpen, create \in SUBSET (Row \ Seen) :
       \E finish \in SUBSET (SeenOpen \ omit) : MergeInferredState(finish, omit, create)

Reaper ==
  \/ Reap \/ NoteReapCompleted
  \/ \E t \in Task, hears \in BOOLEAN : PublishTask(t, hears)
  \/ \E group \in SUBSET Task : AskTodoAgent(group)
  \/ TodoAgentReturns

Next == Dispatch \/ (\E t \in Task : RunTask(t)) \/ Stop \/ EditTodo \/ Reaper

Spec == Init /\ [][Next]_vars

\* Tokio polls every ready future and the semaphore is fair, a model call returns
\* (the work of a task and the todo agent's; CodexDispatcher has the calls that
\* need not), the grace of stop_all expires, the reaper ticks every 250ms, and the
\* idle poll of the REPL loop claims whatever is ready. Nothing obliges the operator.
Fairness ==
  /\ \A t \in Task :
       /\ WF_vars(AcquirePermit(t)) /\ WF_vars(Start(t))
       /\ WF_vars(FinishOk(t, TRUE) \/ FinishOk(t, FALSE) \/ FinishErr(t))
       /\ WF_vars(Release(t)) /\ WF_vars(Vanish(t))
       /\ WF_vars(StopJoin(t) \/ StopExpire(t))
       /\ WF_vars(PublishTask(t, TRUE) \/ PublishTask(t, FALSE))
  /\ \A r \in Row : WF_vars((\E t \in Task : Submit(r, t)) \/ SubmitFails(r))
  /\ WF_vars(Claim(Unbounded)) /\ WF_vars(SeedTodoIfEmpty \/ PlanFails)
  /\ WF_vars(StopTake) /\ WF_vars(StopReturn) /\ WF_vars(StopDefer \/ StopClear)
  /\ WF_vars(Reap) /\ WF_vars(NoteReapCompleted)
  /\ WF_vars(\E group \in SUBSET Task : AskTodoAgent(group))
  /\ WF_vars(TodoAgentReturns)

(***************************************************************************)
(* What every reachable state and every step must satisfy.                 *)
(***************************************************************************)
Dispatchees == {t \in Active : owner[t] # NoRow}
Operators   == {t \in Task : entry[t] # "Absent" /\ owner[t] = NoRow}

\* Rows claimed but not yet submitted and the active tasks of claimed rows
\* together fit the slots: a dispatch never sizes its claim on a stale count,
\* although submitting the rows takes inference calls during which futures
\* start, finish and are reaped (claim_ranked_todos, dispatch_ready).
SlotBound ==
  MaxParallel > 0 => Cardinality(Dispatchees) + Cardinality(claimed) <= MaxParallel

\* --turns N: finished runs, active tasks and rows being submitted never exceed
\* N but for the prompts the operator typed, which no budget gates (turn_budget).
TurnBound ==
  TurnsLimit > 0 =>
    completed + Cardinality(Active) + Cardinality(claimed)
      <= TurnsLimit + Cardinality(Operators)

\* The result of a task, once stored, is only ever taken by the reaper: no
\* late Running or Cancelling overwrites it (set_state, stop_all).
TerminalIsFinal ==
  [][\A t \in Task :
       /\ entry[t] \in Terminal => entry'[t] \in {entry[t], "Reaped"}
       /\ entry[t] = "Reaped" => entry'[t] = "Reaped"]_vars

\* The one way a row gets ahead of a prerequisite: the todo agent's answer puts
\* back in progress a row that was so when the agent was asked, or adds to it a
\* prerequisite it had then.
AheadByCopy(r) ==
  /\ reaper = "asking" /\ reaper' = "merging"
  /\ \/ row[r] # "InProgress" /\ seen.status[r] = "InProgress"
     \/ ~ (dep'[r] \subseteq dep[r])

\* No step lets a row run ahead of its prerequisites, whatever claims, finished
\* tasks, edits, stops and restores do to the list, but for an answer of the todo
\* agent to a list that has changed since (claim_ranked_todos, remove_todo,
\* defer_matching, restore_deferred, merge_inferred_state).
RunsAhead(r) == row[r] = "InProgress" /\ ~ (dep[r] \subseteq DoneRows)
DependencyOrder ==
  [][\A r \in Row : RunsAhead(r)' => RunsAhead(r) \/ AheadByCopy(r)]_vars

\* A wave spreads over the groups: a group that received a slot is at most one
\* claim ahead of every group that still had a claimable row and got none more.
SpreadFair ==
  [][\A r, q \in Row :
       /\ r \in claimed' \ claimed
       /\ q \in Claimable \ claimed'
       => claims'[GroupOf[r]] <= claims'[GroupOf[q]] + 1]_vars

\* IsWave, which the proofs can use, is the loop: whenever the REPL may claim,
\* it picks the same rows.
WaveIsLoop ==
  main = "idle" =>
    \A limit \in {1, Unbounded} : \A S \in SUBSET Claimable :
      IsWave(S, limit) <=> S = Taken[ClaimLimit(limit)]

\* Neither the start budget nor the survey gate is a deadlock: with no task
\* tracked, turns left, a ready row and no survey row in progress, a claim succeeds.
NoDispatchDeadlock ==
  (/\ Tracked = {} /\ TurnBudget > 0 /\ Ready # {}
   /\ \A r \in Survey : row[r] # "InProgress")
  => \E S \in SUBSET Claimable : S # {} /\ IsWave(S, Unbounded)

\* When stop_all returns, no future that has not been aborted can still do work:
\* the handle is installed before the future may run (spawn, stop_all).
StopDrains ==
  main = "stopped" =>
    \A t \in Task : future[t] \in {"queued", "admitted", "working"} => t \in doomed

\* Every result a task stored is published, also one stored while the reaper is
\* busy with an earlier batch (reap, the reaper loop).
EveryResultPublished ==
  \A t \in Task : entry[t] \in Terminal ~> reaped[t] = "published"

\* Slots, start budget, survey gate and group order together starve no row: if
\* every task succeeds and the ids suffice, each pending row is finished.
EveryRowFinished == \A r \in Row : row[r] = "Pending" ~> row[r] = "Done"

(***************************************************************************)
(* What the comments of the code say, and the code does not ensure.        *)
(***************************************************************************)
\* "Merge against the live list under the write lock so those transitions win over
\* the stale snapshot": only a claim puts a row in progress (merge_inferred_state).
OnlyClaimsStart ==
  [][\A r \in Row :
       row[r] # "InProgress" /\ row'[r] = "InProgress" => r \in claimed']_vars

\* "Shut only while a group row can still make progress on its own." (the survey
\* gate of claim_ranked_todos)
Executing(r) ==
  r \in claimed \/ \E t \in Tracked : owner[t] = r
GateHeldOnlyByProgress ==
  (GateShut /\ reaper = "idle") =>
    \E r \in Survey : r \in Ready \/ (row[r] = "InProgress" /\ Executing(r))

\* "tasks that have not reached a terminal state yet (i.e. are still consuming a
\* worker slot)" (active_count, which free_slots subtracts)
ActiveHoldsSlot == \A t \in Active : t \in Live

\* "at most max_parallel tasks may start without a reap completing" (dispatch_ready)
StartsBounded == MaxParallel > 0 => starts <= MaxParallel
=============================================================================
