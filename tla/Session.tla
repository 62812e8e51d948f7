------------------------------ MODULE Session ------------------------------
(***************************************************************************)
(* A session from its first task to its exit: the reaper loop, the two     *)
(* agents it runs over a batch of reaped tasks, the stopping rules, the    *)
(* persisted session state, kills and resumes (kres-repl/src/session.rs).  *)
(*                                                                         *)
(* The REPL loop dispatches and takes commands while the reaper publishes; *)
(* the futures of the tasks end when they like. The task manager is        *)
(* reduced to what the reaper sees of it: TaskManager has its locks, its   *)
(* permits and the choice of a wave.                                       *)
(***************************************************************************)
EXTENDS Integers, FiniteSets

CONSTANTS
  Row,         \* todo rows
  First,       \* the rows the plan starts with
  Coding,      \* rows that run in coding mode
  NoRow,       \* none
  Task,        \* entries of the manager's task list, used again when free
  Leads,       \* sets of follow-ups a task may emit, as the rows they become
  Configs,     \* the command lines: see Config
  MaxErrors,   \* MAX_CONSECUTIVE_ERRORS
  MaxStreak,   \* NO_NEW_FINDINGS_STOP
  MaxFaults    \* bound of the model: /stop commands, parked prompts, failed saves and
               \* kills together

\* --turns, exit_on_idle, a goal agent, --follow, lenses: the review of a target.
Config == [turns : Nat, exitOnIdle : BOOLEAN, goals : BOOLEAN, follow : BOOLEAN,
           lenses : BOOLEAN]

ASSUME ConstantsAssumption ==
  /\ First \subseteq Row /\ Coding \subseteq Row /\ NoRow \notin Row
  /\ IsFiniteSet(Task) /\ IsFiniteSet(Row)
  /\ Leads \subseteq SUBSET Row /\ Configs \subseteq Config
  /\ MaxErrors \in Nat \ {0} /\ MaxStreak \in Nat \ {0}
  /\ MaxFaults \in Nat

VARIABLES
  config,
  todo,      \* status of each row of the todo list
  deferred,  \* the deferred list
  task,      \* the task list, and what each ended task brought
  done,      \* completed_run_count
  claimed,   \* rows dispatch_ready has claimed and not submitted yet; NoRow if it is the
             \* stashed prompt that is being submitted
  latched,   \* stop_latched
  stashed,   \* interrupted_prompt is set
  capped,    \* turns_cap_reached
  reaper,    \* where the reaper is, and its counters
  disk,      \* session.json
  sig,       \* the state whose hash is in the signature slot
  exit,      \* how the reaper ended the session
  faults,    \* commands /stop, parked prompts, failed saves and kills so far
  failed,    \* a save has failed
  attempted, \* history: rows with side effects attempted, or retired by the todo agent
  owed       \* history: follow-ups that no agent will look at

rowVars   == <<todo, deferred>>
replVars  == <<claimed, latched, stashed>>
diskVars  == <<disk, sig, faults, failed>>
histVars  == <<attempted, owed>>
vars == <<config, rowVars, task, done, replVars, capped, reaper, diskVars, exit, histVars>>

FreeTask == [row |-> NoRow, state |-> "free", ok |-> FALSE, leads |-> {}]
AtRest   == [at |-> "tick", left |-> {}, cur |-> {}, batch |-> {}, errors |-> 0,
             streak |-> 0, announced |-> FALSE]
NoDisk   == [todo |-> [r \in Row |-> "Absent"], deferred |-> {}, done |-> -1]

Running == {t \in Task : task[t].state = "running"}
Ended   == {t \in Task : task[t].state = "ended"}
Pending == {r \in Row : todo[r] = "Pending"}
Freed(ts) == [t \in Task |-> IF t \in ts THEN FreeTask ELSE task[t]]

Init ==
  /\ config \in Configs
  /\ todo = [r \in Row |-> IF r \in First THEN "Pending" ELSE "Absent"]
  /\ deferred = {}
  /\ task = [t \in Task |-> FreeTask]
  /\ done = 0 /\ claimed = {} /\ latched = FALSE /\ stashed = FALSE /\ capped = FALSE
  /\ reaper = AtRest
  /\ disk = NoDisk /\ sig = NoDisk
  /\ exit = "no" /\ faults = 0 /\ failed = FALSE
  /\ attempted = {} /\ owed = {}

(***************************************************************************)
(* The lists.                                                              *)
(***************************************************************************)
\* defer_pending on given lists: claimed rows stay with their executors.
PendingIn(list)        == {r \in Row : list[r] = "Pending"}
WithoutPending(list)   == [r \in Row |-> IF list[r] = "Pending" THEN "Absent" ELSE list[r]]
\* add_followups_as_pending: rows that are not listed, deferred or not.
Added(list, rows)      == [r \in Row |-> IF r \in rows /\ list[r] = "Absent"
                                         THEN "Pending" ELSE list[r]]
\* mark_todo_done: a row /stop has moved to the deferred list is not found.
Marked(list, r)        == IF r = NoRow \/ list[r] = "Absent" THEN list
                          ELSE [list EXCEPT ![r] = "Done"]

\* Mutant of Persist: the last save before the exit is left to the next tick.
PersistUnlessIdle(list, later) ==
  LET now == [todo |-> list, deferred |-> later, done |-> done] IN
  IF reaper.at = "tail" \/ reaper.at = "publish" THEN UNCHANGED diskVars
  ELSE \/ sig = now /\ UNCHANGED diskVars
       \/ /\ sig # now
          /\ sig' = now
          /\ \/ disk' = now /\ UNCHANGED <<faults, failed>>
             \/ /\ faults < MaxFaults /\ faults' = faults + 1 /\ failed' = TRUE
                /\ UNCHANGED disk

(***************************************************************************)
(* persist_session_state_to. The signature is stored before the save, and  *)
(* a save that fails is only logged.                                       *)
(***************************************************************************)
Persist(list, later) ==
  LET now == [todo |-> list, deferred |-> later, done |-> done] IN
  \/ sig = now /\ UNCHANGED diskVars
  \/ /\ sig # now
     /\ sig' = now
     /\ \/ disk' = now /\ UNCHANGED <<faults, failed>>
        \/ /\ faults < MaxFaults /\ faults' = faults + 1 /\ failed' = TRUE
           /\ UNCHANGED disk

\* SessionState::load, then restore_deferred.
Resumed(s) ==
  [r \in Row |-> IF s.todo[r] = "InProgress" \/ (s.todo[r] = "Absent" /\ r \in s.deferred)
                 THEN "Pending" ELSE s.todo[r]]

(***************************************************************************)
(* The REPL loop and the tasks.                                            *)
(***************************************************************************)
\* turn_budget: finished runs and the ones in flight.
TurnBudget == IF config.turns = 0 THEN Cardinality(Row)
              ELSE config.turns - done - Cardinality(Running)

\* dispatch_ready claims a wave, then submits it one row after the other.
Dispatch ==
  /\ exit = "no" /\ claimed = {} /\ ~latched /\ ~capped
  /\ \E wave \in SUBSET Pending \ {{}} :
       /\ Cardinality(wave) <= TurnBudget
       /\ Cardinality(wave) <= Cardinality({t \in Task : task[t].state = "free"})
       /\ claimed' = wave
       /\ todo' = [r \in Row |-> IF r \in wave THEN "InProgress" ELSE todo[r]]
  /\ UNCHANGED <<config, deferred, task, done, latched, stashed, capped, reaper, diskVars,
                 exit, histVars>>

\* The idle poll, with a ready row and a free slot, submits a stashed prompt instead:
\* outside the list, and like an operator's, so that it is stashed again at once.
AutoContinue ==
  /\ exit = "no" /\ claimed = {} /\ ~latched /\ ~capped /\ stashed
  /\ Pending # {} /\ \E t \in Task : task[t].state = "free"
  /\ claimed' = {NoRow}
  /\ UNCHANGED <<config, rowVars, task, done, latched, stashed, capped, reaper, diskVars,
                 exit, histVars>>

\* submit_prompt_inner clears the stop latch before its first await.
Rearm ==
  /\ exit = "no" /\ claimed # {} /\ latched
  /\ latched' = FALSE
  /\ UNCHANGED <<config, rowVars, task, done, claimed, stashed, capped, reaper, diskVars,
                 exit, histVars>>

\* The latch is cleared before the task is spawned.
Submit(r) ==
  /\ exit = "no" /\ r \in claimed
  /\ claimed' = claimed \ {r}
  /\ latched' = FALSE
  /\ LET t == CHOOSE u \in Task : task[u].state = "free" IN
       task' = [task EXCEPT ![t] = [FreeTask EXCEPT !.row = r, !.state = "running"]]
  /\ UNCHANGED <<config, rowVars, done, stashed, capped, reaper, diskVars, exit, histVars>>

\* The review target or its revision has changed since the scan of the file: the prompt
\* is parked in the stash, and the stop latch is set. The row stays InProgress, without
\* a task.
SubmitFails(r) ==
  /\ exit = "no" /\ r \in claimed /\ r \notin Coding /\ config.lenses
  /\ faults < MaxFaults /\ faults' = faults + 1
  /\ claimed' = claimed \ {r}
  /\ latched' = TRUE /\ stashed' = TRUE
  /\ UNCHANGED <<config, rowVars, task, done, capped, reaper, disk, sig, failed, exit,
                 histVars>>

\* finish_ok with something to show counts as a run. What the task found is
\* chosen where the reaper reads it (Publish).
FinishOk(t) ==
  /\ exit = "no" /\ t \in Running
  /\ done' = done + 1
  /\ task' = [task EXCEPT ![t].state = "ended", ![t].ok = TRUE]
  /\ UNCHANGED <<config, rowVars, replVars, capped, reaper, diskVars, exit, histVars>>

FinishErr(t) ==
  /\ exit = "no" /\ t \in Running
  /\ task' = [task EXCEPT ![t].state = "ended"]
  /\ UNCHANGED <<config, rowVars, done, replVars, capped, reaper, diskVars, exit,
                 histVars>>

\* cmd_stop, once stop_all has seen every future end: latch, then defer all that
\* is not done, rows of ended tasks the reaper has not published included.
Stop ==
  /\ exit = "no" /\ claimed = {} /\ Running = {} /\ faults < MaxFaults
  /\ faults' = faults + 1 /\ latched' = TRUE
  /\ LET open == {r \in Row : todo[r] \in {"Pending", "InProgress"}} IN
       /\ deferred' = deferred \cup open
       /\ todo' = [r \in Row |-> IF r \in open THEN "Absent" ELSE todo[r]]
  /\ UNCHANGED <<config, task, done, claimed, stashed, capped, reaper, disk, sig, failed,
                 exit, histVars>>

\* /continue: the latch, and the stashed prompt or the deferred rows; the dispatch is
\* Dispatch.
Continue ==
  /\ exit = "no" /\ claimed = {} /\ latched
  /\ latched' = FALSE
  /\ \/ /\ stashed /\ \E t \in Task : task[t].state = "free"
        /\ claimed' = {NoRow} /\ UNCHANGED rowVars
     \/ /\ ~stashed
        /\ todo' = Added(todo, deferred) /\ deferred' = {} /\ UNCHANGED claimed
  /\ UNCHANGED <<config, task, done, stashed, capped, reaper, diskVars, exit, histVars>>

(***************************************************************************)
(* The reaper: one reaped task after the other.                            *)
(***************************************************************************)
Go(place) == reaper' = [reaper EXCEPT !.at = place]

Reap ==
  /\ exit = "no" /\ reaper.at = "tick"
  /\ reaper' = [reaper EXCEPT !.at = IF Ended = {} THEN "tail" ELSE "next", !.left = Ended]
  /\ task' = [t \in Task |-> IF t \in Ended THEN [task[t] EXCEPT !.state = "reaped"]
                             ELSE task[t]]
  /\ UNCHANGED <<config, rowVars, done, replVars, capped, diskVars, exit, histVars>>

\* Mutant of TakeOne: coding tasks too.
TakeOneMarks(t) ==
  /\ exit = "no" /\ reaper.at = "next" /\ t \in reaper.left
  /\ LET coding == task[t].row \in Coding
         list   == IF task[t].ok THEN Marked(todo, task[t].row) ELSE todo
     IN
     /\ reaper' = [reaper EXCEPT !.left = @ \ {t}, !.cur = {t},
                                 !.at = IF coding THEN "effects" ELSE "report"]
     /\ todo' = list /\ stashed' = FALSE
     /\ Persist(list, deferred)
  /\ UNCHANGED <<config, deferred, task, done, claimed, latched, capped, exit, histVars>>

\* A task that is not coding is marked done and persisted at once. A task that has
\* ended empties the stash, whose prompt it need not be.
TakeOne(t) ==
  /\ exit = "no" /\ reaper.at = "next" /\ t \in reaper.left
  /\ LET coding == task[t].row \in Coding
         list   == IF task[t].ok /\ ~coding THEN Marked(todo, task[t].row) ELSE todo
     IN
     /\ reaper' = [reaper EXCEPT !.left = @ \ {t}, !.cur = {t},
                                 !.at = IF coding THEN "effects" ELSE "report"]
     /\ todo' = list /\ stashed' = FALSE
     /\ IF coding THEN UNCHANGED diskVars ELSE Persist(list, deferred)
  /\ UNCHANGED <<config, deferred, task, done, claimed, latched, capped, exit, histVars>>

\* Output files, edits and git commands have been attempted.
Effects(t) ==
  /\ exit = "no" /\ reaper.at = "effects" /\ t \in reaper.cur
  /\ attempted' = attempted \cup {task[t].row}
  /\ Go("mark")
  /\ UNCHANGED <<config, rowVars, task, done, replVars, capped, diskVars, exit, owed>>

MarkCoding(t) ==
  /\ exit = "no" /\ reaper.at = "mark" /\ t \in reaper.cur
  /\ todo' = IF task[t].ok THEN Marked(todo, task[t].row) ELSE todo
  /\ Persist(todo', deferred)
  /\ Go("report")
  /\ UNCHANGED <<config, deferred, task, done, replVars, capped, exit, histVars>>

\* The analysis is in report.md; with the latch set, nothing else is published.
Report(t) ==
  /\ exit = "no" /\ reaper.at = "report" /\ t \in reaper.cur
  /\ IF latched
     THEN /\ task' = Freed({t})
          /\ reaper' = [reaper EXCEPT !.at = "next", !.cur = {}]
     ELSE UNCHANGED task /\ Go("publish")
  /\ UNCHANGED <<config, rowVars, done, replVars, capped, diskVars, exit, histVars>>

\* Findings are stored and the streak is counted (here only where it is read, by
\* --follow with --turns 0); then the turn cap keeps the follow-ups as rows and the
\* agents away, or the task joins the batch. Too many failures in a row defer
\* everything, and end a session nobody watches.
Publish(t, leads, grew) ==
  LET r      == task[t]
      counts == r.ok /\ config.follow /\ config.turns = 0
      streak == IF ~counts THEN reaper.streak ELSE IF grew THEN 0
                ELSE IF reaper.streak < MaxStreak THEN reaper.streak + 1 ELSE MaxStreak
      errors == IF r.ok THEN 0 ELSE reaper.errors + 1
      batch  == reaper.batch \cup {t}
      carry  == UNION {task'[u].leads : u \in batch}
      next   == [reaper EXCEPT !.at = "next", !.cur = {}, !.streak = streak]
  IN
  /\ exit = "no" /\ reaper.at = "publish" /\ t \in reaper.cur
  /\ ~r.ok => leads = {} /\ grew
  /\ \/ /\ config.turns > 0 /\ done >= config.turns
        /\ capped' = TRUE
        /\ todo' = Added(todo, leads)
        /\ owed' = owed \cup leads
        /\ task' = Freed({t})
        /\ reaper' = next
        /\ UNCHANGED <<deferred, diskVars, exit>>
     \/ /\ config.turns = 0 \/ done < config.turns
        /\ errors < MaxErrors
        /\ reaper' = [next EXCEPT !.batch = batch, !.errors = errors]
        /\ task' = [task EXCEPT ![t].leads = leads]
        /\ UNCHANGED <<rowVars, capped, diskVars, exit, owed>>
     \/ /\ config.turns = 0 \/ done < config.turns
        /\ errors >= MaxErrors
        /\ task' = [task EXCEPT ![t].leads = leads]
        /\ deferred' = deferred \cup Pending
        /\ IF config.exitOnIdle
           THEN /\ todo' = Added(WithoutPending(todo), carry)
                /\ owed' = owed \cup carry
                /\ Persist(todo', deferred')
                /\ exit' = "halt"
           ELSE todo' = WithoutPending(todo) /\ UNCHANGED <<owed, diskVars, exit>>
        /\ reaper' = [next EXCEPT !.batch = batch, !.errors = 0]
        /\ UNCHANGED capped
  /\ UNCHANGED <<config, done, replVars, attempted>>

(***************************************************************************)
(* The reaper: the todo agent and the goal agent, once per group.          *)
(***************************************************************************)
Lensed(t) == config.lenses /\ task[t].row \notin Coding

Group == IF reaper.at \in {"review todo", "review rows", "review goal"}
         THEN {t \in reaper.batch : Lensed(t)} ELSE {t \in reaper.batch : ~Lensed(t)}

GroupLeads == UNION {task[t].leads : t \in Group}

BatchDone ==
  /\ exit = "no" /\ reaper.at = "next" /\ reaper.left = {}
  /\ Go(IF reaper.batch = {} THEN "tail" ELSE "todo")
  /\ UNCHANGED <<config, rowVars, task, done, replVars, capped, diskVars, exit, histVars>>

\* The todo agent's answer on the live list: some follow-ups become rows, some
\* pending rows are retired. Or it failed, and nothing changes.
TodoAgent ==
  LET after == IF reaper.at = "todo" THEN "goal" ELSE "review rows" IN
  /\ exit = "no" /\ reaper.at \in {"todo", "review todo"}
  /\ \/ UNCHANGED <<todo, diskVars, attempted>>
     \/ /\ Group # {}
        /\ \E kept \in SUBSET GroupLeads, dropped \in {{}} \cup {{r} : r \in Pending} :
             /\ todo' = [r \in Row |-> IF r \in dropped THEN "Done"
                                       ELSE IF r \in kept /\ todo[r] = "Absent" THEN "Pending"
                                       ELSE todo[r]]
             /\ attempted' = attempted \cup dropped
        /\ Persist(todo', deferred)
  /\ Go(after)
  /\ UNCHANGED <<config, deferred, task, done, replVars, capped, exit, owed>>

\* ensure_review_followups_remain_pending
EnsureFollowups ==
  /\ exit = "no" /\ reaper.at = "review rows"
  /\ todo' = IF Pending = {} THEN Added(todo, GroupLeads) ELSE todo
  /\ Go("review goal")
  /\ UNCHANGED <<config, deferred, task, done, replVars, capped, diskVars, exit, histVars>>

\* run_batch_goal_check. Coding tasks have no goal check, and survey rows still
\* to run skip it. A goal that is met defers what is pending, unless it is the
\* next turn of a review; one that is not met may add a row through the todo agent.
GoalAgent ==
  LET checked == config.goals /\ \E t \in Group : task[t].row \notin Coding
      keep    == reaper.at = "review goal" /\ (Pending # {} \/ GroupLeads # {})
      follow  == config.follow /\ config.turns > 0
      leaving == reaper.at = "review goal"
  IN
  /\ exit = "no" /\ reaper.at \in {"goal", "review goal"}
  /\ \/ UNCHANGED <<rowVars, diskVars>>
     \/ /\ checked /\ ~keep
        /\ todo' = IF follow THEN Added(WithoutPending(todo), deferred \cup Pending)
                   ELSE WithoutPending(todo)
        /\ deferred' = IF ~follow THEN deferred \cup Pending
                       ELSE IF Pending = {} THEN deferred ELSE {}
        /\ UNCHANGED diskVars
     \/ /\ checked
        /\ \E r \in Row : todo[r] = "Absent" /\ todo' = Added(todo, {r})
        /\ Persist(todo', deferred)
        /\ UNCHANGED deferred
  /\ reaper' = [reaper EXCEPT !.at = IF leaving THEN "tail" ELSE "review todo",
                              !.batch = IF leaving THEN {} ELSE @]
  /\ task' = IF leaving THEN Freed(reaper.batch) ELSE task
  /\ UNCHANGED <<config, done, replVars, capped, exit, histVars>>

(***************************************************************************)
(* The reaper: the end of a tick and the stopping rules.                   *)
(***************************************************************************)
\* Mutant of Outstanding: active_count, as at the other exits.
OutstandingActive == Running

\* Tasks the manager still lists: running, or ended and not reaped.
Outstanding == Running \cup Ended

\* An exit persists, then cancels the root: the REPL loop breaks.
Exit(kind, list, later) ==
  /\ todo' = list /\ deferred' = later
  /\ Persist(list, later)
  /\ exit' = kind

\* A positive cap: wait until the task list is empty, then reset what no executor
\* owns and leave.
AtCap ==
  /\ exit = "no" /\ reaper.at = "tail" /\ config.turns > 0 /\ done >= config.turns
  /\ capped' = TRUE
  /\ LET open == {r \in Row : todo[r] \in {"Pending", "InProgress"}} IN
       \/ /\ Outstanding # {}
          /\ todo' = WithoutPending(todo) /\ deferred' = deferred \cup Pending
          /\ Persist(todo', deferred')
          /\ UNCHANGED exit
       \/ /\ Outstanding = {}
          /\ Exit("cap", [r \in Row |-> IF r \in open THEN "Absent" ELSE todo[r]],
                  deferred \cup open)
  /\ Go("tick")
  /\ UNCHANGED <<config, task, done, replVars, histVars>>

\* Mutant of Drained: a row nobody works on any more counts as well.
DrainedOfAll == Running = {} /\ \A r \in Row : todo[r] \in {"Absent", "Done"}

\* Nothing is active and no row is pending; rows in progress do not count.
Drained == Running = {} /\ Pending = {}

IdleBelowCap == config.turns > 0 /\ config.exitOnIdle /\ done > 0 /\ Drained

ShouldStop ==
  IF config.follow THEN Drained \/ reaper.streak >= MaxStreak
  ELSE IF config.goals THEN Drained ELSE Running = {}

\* --turns 0: the stop is announced once, until a row is pending again.
Unlimited ==
  LET announced == reaper.announced /\ Pending = {}
      stop      == ShouldStop /\ ~announced
  IN
  /\ exit = "no" /\ reaper.at = "tail" /\ config.turns = 0 /\ done > 0
  /\ reaper' = [reaper EXCEPT !.at = "tick", !.announced = announced \/ stop]
  /\ \/ ~stop /\ Persist(todo, deferred) /\ UNCHANGED <<rowVars, exit>>
     \/ /\ stop /\ ~config.exitOnIdle
        /\ todo' = WithoutPending(todo) /\ deferred' = deferred \cup Pending
        /\ Persist(todo', deferred') /\ UNCHANGED exit
     \/ /\ stop /\ config.exitOnIdle
        /\ Exit("idle", WithoutPending(todo), deferred \cup Pending)
  /\ UNCHANGED <<config, task, done, replVars, capped, histVars>>

BelowCap ==
  /\ exit = "no" /\ reaper.at = "tail" /\ config.turns > 0 /\ done < config.turns
  /\ IF IdleBelowCap THEN Exit("idle", todo, deferred)
     ELSE Persist(todo, deferred) /\ UNCHANGED <<rowVars, exit>>
  /\ Go("tick")
  /\ UNCHANGED <<config, task, done, replVars, capped, histVars>>

\* Nothing has run yet: not even the save at the end of the tick.
NothingYet ==
  /\ exit = "no" /\ reaper.at = "tail" /\ config.turns = 0 /\ done = 0
  /\ Go("tick")
  /\ UNCHANGED <<config, rowVars, task, done, replVars, capped, diskVars, exit, histVars>>

\* Killed, and started again with --resume.
Crash ==
  /\ exit = "no" /\ faults < MaxFaults /\ disk # NoDisk
  /\ faults' = faults + 1
  /\ todo' = Resumed(disk) /\ deferred' = {} /\ done' = disk.done
  /\ task' = [t \in Task |-> FreeTask]
  /\ claimed' = {} /\ latched' = FALSE /\ stashed' = FALSE /\ capped' = FALSE
  /\ reaper' = AtRest /\ sig' = NoDisk /\ owed' = {}
  /\ UNCHANGED <<config, disk, failed, exit, attempted>>

Exited == exit # "no" /\ UNCHANGED vars

Submission == \E r \in Row \cup {NoRow} : Submit(r) \/ SubmitFails(r)

Repl == Dispatch \/ AutoContinue \/ Rearm \/ Submission \/ Stop \/ Continue

Run(t) == FinishOk(t) \/ FinishErr(t)

Reaper ==
  \/ Reap \/ BatchDone \/ TodoAgent \/ EnsureFollowups \/ GoalAgent
  \/ AtCap \/ BelowCap \/ Unlimited \/ NothingYet
  \/ \E t \in Task : TakeOne(t) \/ Effects(t) \/ MarkCoding(t) \/ Report(t)
  \/ \E t \in Task, leads \in Leads, grew \in BOOLEAN : Publish(t, leads, grew)

Next == Repl \/ (\E t \in Task : Run(t)) \/ Reaper \/ Crash \/ Exited

\* The idle poll: a stashed prompt comes before the rows. The refill after a reap
\* dispatches whether or not there is one.
IdlePoll == AutoContinue \/ (~stashed /\ Dispatch)

\* The reaper ticks, calls of agents return, tasks end, the idle poll fires, and what
\* it claimed is submitted.
Fairness ==
  /\ WF_vars(Reaper) /\ WF_vars(IdlePoll) /\ WF_vars(Submission)
  /\ \A t \in Task : WF_vars(Run(t))

Spec == Init /\ [][Next]_vars /\ Fairness

(***************************************************************************)
(* Properties.                                                             *)
(***************************************************************************)
Status == {"Absent", "Pending", "InProgress", "Done"}
Places == {"tick", "next", "effects", "mark", "report", "publish", "todo", "goal",
           "review todo", "review rows", "review goal", "tail"}
Saved  == [todo : [Row -> Status], deferred : SUBSET Row, done : Nat \cup {-1}]

\* Type invariant.
TypeOK ==
  /\ config \in Configs
  /\ todo \in [Row -> Status] /\ deferred \subseteq Row
  /\ task \in [Task -> [row : Row \cup {NoRow}, state : {"free", "running", "ended", "reaped"},
                        ok : BOOLEAN, leads : SUBSET Row]]
  /\ done \in Nat /\ claimed \subseteq Row \cup {NoRow}
  /\ latched \in BOOLEAN /\ stashed \in BOOLEAN /\ capped \in BOOLEAN
  /\ reaper \in [at : Places, left : SUBSET Task, cur : SUBSET Task, batch : SUBSET Task,
                 errors : Nat, streak : Nat, announced : BOOLEAN]
  /\ disk \in Saved /\ sig \in Saved
  /\ exit \in {"no", "cap", "idle", "halt"}
  /\ faults \in Nat /\ failed \in BOOLEAN
  /\ attempted \subseteq Row /\ owed \subseteq Row

\* A session that leaves at its turn cap has published every result: no task is
\* running, ended and unreaped, or between two steps of its publication.
CapPublishesAll == exit = "cap" => \A t \in Task : task[t].state = "free"

\* At every exit all results are published (the comment of the turn cap wants an
\* empty task list "so terminal results receive a subsequent reap/publication
\* pass before exit"; the other exits only ask for the active ones).
ExitPublishesAll == exit # "no" => \A t \in Task : task[t].state = "free"

\* Whatever is persisted, by whom and when, a resume never finds a coding row
\* done whose files, edits and commits were not attempted.
CodingDoneMeansDone == \A r \in Coding : disk.todo[r] = "Done" => r \in attempted

\* An exit leaves on disk what a resume needs: every row as it is in memory, and
\* the follow-ups that no agent has looked at among them.
ExitIsResumable ==
  exit # "no" /\ ~failed =>
    /\ Resumed(disk) = Resumed([todo |-> todo, deferred |-> deferred])
    /\ \A r \in owed : Resumed(disk)[r] # "Absent"

\* The latch stops what is left: rows are pending, nothing is being submitted, and only
\* somebody at the keyboard can go on.
Stalled == latched /\ claimed = {} /\ Pending # {}

\* A session nobody watches ends once something has run, whatever was stopped or parked
\* on the way, unless it stalls for good, with the latch of a parked review or of a
\* /stop, or a kill takes the count of runs back to nothing.
BatchExits ==
  \/ <>[]Stalled
  \/ config.exitOnIdle /\ done > 0 ~> exit # "no" \/ done = 0

\* The same without the stall (the comment on a --prompt that cannot be started calls
\* a process that idles with no work until it is killed by hand a defect).
BatchNeverStalls == config.exitOnIdle /\ done > 0 ~> exit # "no" \/ done = 0
=============================================================================
