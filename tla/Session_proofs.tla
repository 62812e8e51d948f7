--------------------------- MODULE Session_proofs ---------------------------
(***************************************************************************)
(* The two state machines of kres-repl.                                    *)
(*                                                                         *)
(* Session: what holds of a session for any rows, tasks, command lines and *)
(* limits, and any number of commands, failed saves and kills.             *)
(*                                                                         *)
(* FixSeries: what holds of a fix series for any todos, plans, updates and *)
(* budgets, and any number of kills and resumes.  The two specifications   *)
(* share no variable; each theorem is about one of them.                   *)
(***************************************************************************)
EXTENDS Session, FixSeries, FiniteSetTheorems, SequenceTheorems, WellFoundedInduction, TLAPS

TaskRecord == [row : Row \cup {NoRow}, state : {"free", "running", "ended", "reaped"},
               ok : BOOLEAN, leads : SUBSET Row]
ReaperRecord == [at : Places, left : SUBSET Task, cur : SUBSET Task, batch : SUBSET Task,
                 errors : Nat, streak : Nat, announced : BOOLEAN]

InGroups == {"todo", "goal", "review todo", "review rows", "review goal"}

\* Every task that was reaped is in the reaper's hands, and where the reaper is
\* tells whether it still holds one.
HandsInv ==
  /\ \A t \in Task : task[t].state = "reaped" =>
       t \in reaper.left \cup reaper.cur \cup reaper.batch
  /\ reaper.at \in {"tick", "tail"} => reaper.left = {} /\ reaper.batch = {}
  /\ reaper.at \in InGroups => reaper.left = {}
  /\ reaper.at \in {"tick", "tail", "next"} \cup InGroups => reaper.cur = {}

\* A task between two steps of its publication keeps its entry, and a claimed row
\* has a free one to go to.
EntryInv ==
  /\ \A t \in reaper.cur \cup reaper.left : task[t].state = "reaped"
  /\ \A t, u \in reaper.cur : t = u
  /\ reaper.cur \cap reaper.left = {}
  /\ Cardinality(claimed) <= Cardinality({t \in Task : task[t].state = "free"})

\* Coding rows that memory, the file and the reaper take for done were attempted.
CodingInv ==
  /\ \A r \in Coding : todo[r] = "Done" => r \in attempted
  /\ reaper.at = "effects" => \A t \in reaper.cur : task[t].row \in Coding
  /\ reaper.at = "mark" => \A t \in reaper.cur : task[t].row \in attempted
  /\ CodingDoneMeansDone

\* The file is the state whose signature is remembered, unless a save failed; and
\* a follow-up that nobody has looked at is listed or deferred.
FileInv ==
  /\ disk # NoDisk => disk.done \in Nat
  /\ ~failed => sig = disk \/ sig = NoDisk
  /\ \A r \in owed : todo[r] # "Absent" \/ r \in deferred
  /\ exit # "no" /\ ~failed =>
       disk.todo = todo /\ disk.deferred = deferred

IInv == TypeOK /\ HandsInv /\ EntryInv /\ CodingInv /\ FileInv /\ CapPublishesAll

-----------------------------------------------------------------------------
(* The lists and the save.                                                  *)

LEMMA ListTypes ==
  ASSUME NEW list \in [Row -> Status], NEW rows
  PROVE  /\ WithoutPending(list) \in [Row -> Status]
         /\ Added(list, rows) \in [Row -> Status]
BY DEF WithoutPending, Added, Status

LEMMA NestedTypes ==
  ASSUME TypeOK
  PROVE  /\ WithoutPending(todo) \in [Row -> Status]
         /\ \A rows : /\ Added(todo, rows) \in [Row -> Status]
                      /\ Added(WithoutPending(todo), rows) \in [Row -> Status]
         /\ Pending \subseteq Row /\ deferred \cup Pending \subseteq Row
BY ListTypes DEF TypeOK, Pending

LEMMA MarkedType ==
  ASSUME NEW list \in [Row -> Status], NEW r \in Row \cup {NoRow}
  PROVE  /\ Marked(list, r) \in [Row -> Status]
         /\ \A s \in Row : Marked(list, r)[s] = "Done" => list[s] = "Done" \/ s = r
         /\ \A s \in Row : list[s] # "Absent" => Marked(list, r)[s] # "Absent"
BY ConstantsAssumption DEF Marked, Status, ConstantsAssumption

LEMMA FreedType ==
  ASSUME NEW ts, task \in [Task -> TaskRecord]
  PROVE  Freed(ts) \in [Task -> TaskRecord]
BY DEF Freed, FreeTask, TaskRecord

\* A save leaves the file as it was or as the state it was asked to save.
LEMMA SavedIs ==
  ASSUME TypeOK, FileInv, NEW list \in [Row -> Status], NEW later \in SUBSET Row,
         Persist(list, later)
  PROVE  LET now == [todo |-> list, deferred |-> later, done |-> done] IN
         /\ disk' \in Saved /\ sig' \in Saved /\ faults' \in Nat /\ failed' \in BOOLEAN
         /\ disk' = disk \/ disk' = now
         /\ disk' # NoDisk => disk'.done \in Nat
         /\ ~failed' => ~failed /\ disk' = now /\ sig' = disk'
<1> DEFINE now == [todo |-> list, deferred |-> later, done |-> done]
<1>1. now \in Saved /\ now.done \in Nat /\ now # NoDisk
  <2>1. now.done \in Nat /\ NoDisk.done = -1
    BY DEF TypeOK, NoDisk
  <2>2. now \in Saved
    BY DEF TypeOK, Saved
  <2> QED
    BY <2>1, <2>2
<1>2. CASE sig = now /\ UNCHANGED diskVars
  BY <1>1, <1>2 DEF TypeOK, FileInv, diskVars
<1>3. CASE sig' = now /\ disk' = now /\ UNCHANGED <<faults, failed>>
  BY <1>1, <1>3 DEF TypeOK
<1>4. CASE sig' = now /\ faults' = faults + 1 /\ failed' = TRUE /\ UNCHANGED disk
  <2>1. faults' \in Nat
    BY <1>4 DEF TypeOK
  <2> QED
    BY <1>1, <1>4, <2>1 DEF TypeOK, FileInv
<1> QED
  BY <1>2, <1>3, <1>4 DEF Persist
-----------------------------------------------------------------------------
(* Types.                                                                   *)

\* What the invariants say of variables that an action leaves alone.
LEMMA ReplTypes ==
  ASSUME TypeOK, FileInv, Repl \/ Crash \/ \E t \in Task : Run(t)
  PROVE  TypeOK'
<1> USE DEF TypeOK, TaskRecord
<1>1. CASE Dispatch
  BY <1>1 DEF Dispatch, diskVars, histVars, Status, Pending
<1>2. ASSUME NEW r \in Row \cup {NoRow}, Submit(r) PROVE TypeOK'
  BY <1>2 DEF Submit, rowVars, diskVars, histVars, FreeTask
<1>3. ASSUME NEW r \in Row \cup {NoRow}, SubmitFails(r) PROVE TypeOK'
  BY <1>3 DEF SubmitFails, rowVars, histVars
<1>4. CASE Stop
  BY <1>4 DEF Stop, histVars, Status
<1>5. CASE Continue
  <2>1. todo' \in [Row -> Status] /\ deferred' \subseteq Row
    BY <1>5, NestedTypes DEF Continue, rowVars
  <2>2. claimed' \subseteq Row \cup {NoRow}
    BY <1>5 DEF Continue
  <2> QED
    BY <1>5, <2>1, <2>2 DEF Continue, diskVars, histVars
<1>6. ASSUME NEW t \in Task, FinishOk(t) PROVE TypeOK'
  <2>1. done' \in Nat
    BY <1>6 DEF FinishOk
  <2>2. task' \in [Task -> TaskRecord]
    <3>1. [task[t] EXCEPT !.state = "ended", !.ok = TRUE] \in TaskRecord
      <4>1. task[t] \in TaskRecord
        OBVIOUS
      <4> QED
        BY ONLY <4>1
    <3>2. task' = [task EXCEPT ![t] = [task[t] EXCEPT !.state = "ended", !.ok = TRUE]]
      BY <1>6 DEF FinishOk
    <3> QED
      BY <3>1, <3>2
  <2> QED
    BY <1>6, <2>1, <2>2 DEF FinishOk, rowVars, replVars, diskVars, histVars
<1>7. ASSUME NEW t \in Task, FinishErr(t) PROVE TypeOK'
  BY <1>7 DEF FinishErr, rowVars, replVars, diskVars, histVars
<1>8. CASE Crash
  <2>1. Resumed(disk) \in [Row -> Status] /\ disk.done \in Nat
    BY <1>8 DEF Crash, Resumed, Saved, Status, FileInv
  <2>2. AtRest \in ReaperRecord
    BY DEF AtRest, ReaperRecord, Places
  <2>3. NoDisk \in Saved
    BY DEF NoDisk, Saved, Status
  <2>4. FreeTask \in TaskRecord
    BY DEF FreeTask
  <2>5. faults' \in Nat
    BY <1>8 DEF Crash
  <2> QED
    BY <1>8, <2>1, <2>2, <2>3, <2>4, <2>5 DEF Crash, ReaperRecord
<1>9. CASE AutoContinue \/ Rearm
  BY <1>9 DEF AutoContinue, Rearm, rowVars, diskVars, histVars
<1> QED
  BY <1>1, <1>2, <1>3, <1>4, <1>5, <1>6, <1>7, <1>8, <1>9 DEF Repl, Submission, Run

LEMMA TaskTypes ==
  ASSUME TypeOK, FileInv, CodingInv, NEW t \in Task,
         TakeOne(t) \/ Effects(t) \/ MarkCoding(t) \/ Report(t)
  PROVE  TypeOK'
<1> USE DEF TypeOK, TaskRecord
<1>1. CASE TakeOne(t)
  <2> DEFINE coding == task[t].row \in Coding
             list == IF task[t].ok /\ ~coding THEN Marked(todo, task[t].row) ELSE todo
  <2>1. list \in [Row -> Status]
    BY MarkedType
  <2>2. /\ disk' \in Saved /\ sig' \in Saved /\ faults' \in Nat /\ failed' \in BOOLEAN
    BY <1>1, <2>1, SavedIs DEF TakeOne, diskVars
  <2>3. reaper' \in ReaperRecord
    BY <1>1 DEF TakeOne, ReaperRecord, Places
  <2> QED
    BY <1>1, <2>1, <2>2, <2>3 DEF TakeOne, replVars, histVars, ReaperRecord
<1>2. CASE Effects(t)
  <2>1. attempted' \subseteq Row
    BY <1>2, ConstantsAssumption DEF Effects, CodingInv, ConstantsAssumption
  <2>2. reaper' \in ReaperRecord
    BY <1>2 DEF Effects, Go, ReaperRecord, Places
  <2> QED
    BY <1>2, <2>1, <2>2 DEF Effects, rowVars, replVars, diskVars, ReaperRecord
<1>3. CASE MarkCoding(t)
  <2>1. todo' \in [Row -> Status]
    BY <1>3, MarkedType DEF MarkCoding
  <2>2. /\ disk' \in Saved /\ sig' \in Saved /\ faults' \in Nat /\ failed' \in BOOLEAN
    BY <1>3, <2>1, SavedIs DEF MarkCoding
  <2>3. reaper' \in ReaperRecord
    BY <1>3 DEF MarkCoding, Go, ReaperRecord, Places
  <2> QED
    BY <1>3, <2>1, <2>2, <2>3 DEF MarkCoding, replVars, histVars, ReaperRecord
<1>4. CASE Report(t)
  <2>1. reaper' \in ReaperRecord
    <3>1. CASE latched
      BY <1>4, <3>1 DEF Report, ReaperRecord, Places
    <3>2. CASE ~latched
      BY <1>4, <3>2 DEF Report, Go, ReaperRecord, Places
    <3> QED
      BY <3>1, <3>2
  <2>2. task' \in [Task -> TaskRecord]
    BY <1>4, FreedType DEF Report
  <2> QED
    BY <1>4, <2>1, <2>2 DEF Report, rowVars, replVars, diskVars, histVars, ReaperRecord
<1> QED
  BY <1>1, <1>2, <1>3, <1>4

LEMMA PublishTypes ==
  ASSUME TypeOK, FileInv, NEW t \in Task, NEW leads \in Leads, NEW grew \in BOOLEAN,
         Publish(t, leads, grew)
  PROVE  TypeOK'
<1> USE DEF TypeOK, TaskRecord
<1> DEFINE r      == task[t]
           counts == r.ok /\ config.follow /\ config.turns = 0
           streak == IF ~counts THEN reaper.streak ELSE IF grew THEN 0
                     ELSE IF reaper.streak < MaxStreak THEN reaper.streak + 1 ELSE MaxStreak
           errors == IF r.ok THEN 0 ELSE reaper.errors + 1
           batch  == reaper.batch \cup {t}
           carry  == UNION {task'[u].leads : u \in batch}
           next   == [reaper EXCEPT !.at = "next", !.cur = {}, !.streak = streak]
<1>1. leads \subseteq Row
  BY ConstantsAssumption DEF ConstantsAssumption
<1>2. streak \in Nat /\ errors \in Nat /\ batch \subseteq Task
  BY ConstantsAssumption DEF ConstantsAssumption
<1>3. next \in ReaperRecord
  BY <1>2 DEF ReaperRecord, Places
<1>4. /\ [next EXCEPT !.batch = batch, !.errors = errors] \in ReaperRecord
      /\ [next EXCEPT !.batch = batch, !.errors = 0] \in ReaperRecord
  BY <1>2, <1>3 DEF ReaperRecord
<1>5. [task EXCEPT ![t].leads = leads] \in [Task -> TaskRecord]
  <2>1. [task[t] EXCEPT !.leads = leads] \in TaskRecord
    BY <1>1
  <2> QED
    BY <2>1
<1>6. CASE /\ capped' = TRUE /\ todo' = Added(todo, leads) /\ owed' = owed \cup leads
           /\ task' = Freed({t}) /\ reaper' = next
           /\ UNCHANGED <<deferred, diskVars, exit>>
           /\ UNCHANGED <<config, done, replVars, attempted>>
  BY <1>1, <1>3, <1>6, ListTypes, FreedType DEF diskVars, replVars, ReaperRecord
<1>7. CASE /\ reaper' = [next EXCEPT !.batch = batch, !.errors = errors]
           /\ task' = [task EXCEPT ![t].leads = leads]
           /\ UNCHANGED <<rowVars, capped, diskVars, exit, owed>>
           /\ UNCHANGED <<config, done, replVars, attempted>>
  BY <1>4, <1>5, <1>7 DEF rowVars, diskVars, replVars, ReaperRecord
<1>8. ASSUME task' = [task EXCEPT ![t].leads = leads],
             deferred' = deferred \cup Pending,
             \/ /\ todo' = Added(WithoutPending(todo), carry)
                /\ owed' = owed \cup carry
                /\ Persist(todo', deferred')
                /\ exit' = "halt"
             \/ todo' = WithoutPending(todo) /\ UNCHANGED <<owed, diskVars, exit>>,
             reaper' = [next EXCEPT !.batch = batch, !.errors = 0],
             UNCHANGED capped,
             UNCHANGED <<config, done, replVars, attempted>>
      PROVE  TypeOK'
  <2>1. carry \subseteq Row
    <3>1. \A u \in batch : task'[u] \in TaskRecord
      BY <1>2, <1>5, <1>8
    <3> QED
      BY <3>1
  <2>2. todo' \in [Row -> Status] /\ deferred' \in SUBSET Row
    BY <1>8, NestedTypes
  <2>3. disk' \in Saved /\ sig' \in Saved /\ faults' \in Nat /\ failed' \in BOOLEAN
    BY <1>8, <2>2, SavedIs DEF diskVars
  <2> QED
    BY <1>4, <1>5, <1>8, <2>1, <2>2, <2>3 DEF replVars, ReaperRecord
<1> QED
  BY <1>6, <1>7, <1>8 DEF Publish

LEMMA AgentTypes ==
  ASSUME TypeOK, FileInv,
         Reap \/ BatchDone \/ TodoAgent \/ EnsureFollowups \/ GoalAgent
  PROVE  TypeOK'
<1> USE DEF TypeOK, TaskRecord
<1>1. CASE Reap
  <2>1. reaper' \in ReaperRecord
    BY <1>1 DEF Reap, ReaperRecord, Places, Ended
  <2>2. \A t \in Task : [task[t] EXCEPT !.state = "reaped"] \in TaskRecord
    OBVIOUS
  <2>3. task' \in [Task -> TaskRecord]
    BY <1>1, <2>2 DEF Reap
  <2> QED
    BY <1>1, <2>1, <2>3 DEF Reap, rowVars, replVars, diskVars, histVars, ReaperRecord
<1>2. CASE BatchDone
  <2>1. reaper' \in ReaperRecord
    BY <1>2 DEF BatchDone, Go, ReaperRecord, Places
  <2> QED
    BY <1>2, <2>1 DEF BatchDone, rowVars, replVars, diskVars, histVars, ReaperRecord
<1>3. CASE TodoAgent
  <2>1. reaper' \in ReaperRecord
    BY <1>3 DEF TodoAgent, Go, ReaperRecord, Places
  <2>2. todo' \in [Row -> Status] /\ attempted' \subseteq Row
    <3>1. CASE UNCHANGED <<todo, diskVars, attempted>>
      BY <3>1
    <3>2. ASSUME NEW kept \in SUBSET GroupLeads,
                 NEW dropped \in {{}} \cup {{r} : r \in Pending},
                 todo' = [r \in Row |-> IF r \in dropped THEN "Done"
                            ELSE IF r \in kept /\ todo[r] = "Absent" THEN "Pending"
                            ELSE todo[r]],
                 attempted' = attempted \cup dropped
          PROVE  todo' \in [Row -> Status] /\ attempted' \subseteq Row
      <4>1. dropped \subseteq Row
        BY DEF Pending
      <4>2. \A r \in Row : todo[r] \in Status /\ "Done" \in Status /\ "Pending" \in Status
        BY DEF Status
      <4>3. todo' \in [Row -> Status]
        BY <3>2, <4>2
      <4> QED
        BY <3>2, <4>1, <4>3
    <3> QED
      BY <1>3, <3>1, <3>2 DEF TodoAgent
  <2>3. disk' \in Saved /\ sig' \in Saved /\ faults' \in Nat /\ failed' \in BOOLEAN
    BY <1>3, <2>2, SavedIs DEF TodoAgent, diskVars
  <2> QED
    BY <1>3, <2>1, <2>2, <2>3 DEF TodoAgent, replVars, ReaperRecord
<1>4. CASE EnsureFollowups
  <2>1. reaper' \in ReaperRecord
    BY <1>4 DEF EnsureFollowups, Go, ReaperRecord, Places
  <2> QED
    BY <1>4, <2>1, ListTypes
    DEF EnsureFollowups, replVars, diskVars, histVars, ReaperRecord
<1>5. CASE GoalAgent
  <2>1. reaper' \in ReaperRecord
    BY <1>5 DEF GoalAgent, ReaperRecord, Places
  <2>2. todo' \in [Row -> Status] /\ deferred' \in SUBSET Row
    <3>1. \/ todo' = todo \/ todo' = WithoutPending(todo)
          \/ \E rows : todo' = Added(todo, rows) \/ todo' = Added(WithoutPending(todo), rows)
      BY <1>5 DEF GoalAgent, rowVars
    <3>2. deferred' \in {deferred, deferred \cup Pending, {}}
      BY <1>5 DEF GoalAgent, rowVars
    <3> QED
      BY <3>1, <3>2, NestedTypes
  <2>3. disk' \in Saved /\ sig' \in Saved /\ faults' \in Nat /\ failed' \in BOOLEAN
    BY <1>5, <2>2, SavedIs DEF GoalAgent, diskVars
  <2>4. task' \in [Task -> TaskRecord]
    BY <1>5, FreedType DEF GoalAgent
  <2> QED
    BY <1>5, <2>1, <2>2, <2>3, <2>4 DEF GoalAgent, replVars, histVars, ReaperRecord
<1> QED
  BY <1>1, <1>2, <1>3, <1>4, <1>5

LEMMA TailTypes ==
  ASSUME TypeOK, FileInv, AtCap \/ BelowCap \/ Unlimited \/ NothingYet
  PROVE  TypeOK'
<1> USE DEF TypeOK, TaskRecord
<1>1. CASE AtCap
  <2>1. reaper' \in ReaperRecord
    BY <1>1 DEF AtCap, Go, ReaperRecord, Places
  <2>2. todo' \in [Row -> Status] /\ deferred' \in SUBSET Row
    <3>1. ASSUME NEW open \in SUBSET Row
          PROVE  [r \in Row |-> IF r \in open THEN "Absent" ELSE todo[r]] \in [Row -> Status]
      BY DEF Status
    <3> DEFINE open == {r \in Row : todo[r] \in {"Pending", "InProgress"}}
    <3>2. open \subseteq Row /\ deferred \cup open \subseteq Row
      OBVIOUS
    <3>3. [r \in Row |-> IF r \in open THEN "Absent" ELSE todo[r]] \in [Row -> Status]
      BY <3>1, <3>2
    <3> HIDE DEF open
    <3>4. \/ todo' = WithoutPending(todo) /\ deferred' = deferred \cup Pending
          \/ /\ todo' = [r \in Row |-> IF r \in open THEN "Absent" ELSE todo[r]]
             /\ deferred' = deferred \cup open
      BY <1>1 DEF AtCap, Exit, open
    <3>5. todo' \in [Row -> Status]
      BY <3>3, <3>4, NestedTypes
    <3>6. deferred' \subseteq Row
      BY <3>2, <3>4, NestedTypes
    <3> QED
      BY <3>5, <3>6
  <2>3. disk' \in Saved /\ sig' \in Saved /\ faults' \in Nat /\ failed' \in BOOLEAN
    BY <1>1, <2>2, SavedIs DEF AtCap, Exit
  <2>4. exit' \in {"no", "cap", "idle", "halt"}
    BY <1>1 DEF AtCap, Exit
  <2> QED
    BY <1>1, <2>1, <2>2, <2>3, <2>4 DEF AtCap, replVars, histVars, ReaperRecord
<1>2. CASE BelowCap
  <2>1. reaper' \in ReaperRecord
    BY <1>2 DEF BelowCap, Go, ReaperRecord, Places
  <2>2. /\ todo' = todo /\ deferred' = deferred /\ Persist(todo, deferred)
        /\ exit' \in {exit, "idle"}
    BY <1>2 DEF BelowCap, Exit, rowVars
  <2>3. disk' \in Saved /\ sig' \in Saved /\ faults' \in Nat /\ failed' \in BOOLEAN
    BY <2>2, SavedIs
  <2> QED
    BY <1>2, <2>1, <2>2, <2>3 DEF BelowCap, replVars, histVars, ReaperRecord
<1>3. CASE Unlimited
  <2>1. reaper' \in ReaperRecord
    BY <1>3 DEF Unlimited, ReaperRecord, Places, ShouldStop, Drained
  <2>2. todo' \in [Row -> Status] /\ deferred' \in SUBSET Row
    BY <1>3, NestedTypes DEF Unlimited, Exit, rowVars
  <2>3. Persist(todo', deferred')
    BY <1>3 DEF Unlimited, Exit, rowVars
  <2>4. disk' \in Saved /\ sig' \in Saved /\ faults' \in Nat /\ failed' \in BOOLEAN
    BY <2>2, <2>3, SavedIs
  <2>5. exit' \in {exit, "idle"}
    BY <1>3 DEF Unlimited, Exit
  <2> QED
    BY <1>3, <2>1, <2>2, <2>4, <2>5 DEF Unlimited, replVars, histVars, ReaperRecord
<1>4. CASE NothingYet
  <2>1. reaper' \in ReaperRecord
    BY <1>4 DEF NothingYet, Go, ReaperRecord, Places
  <2> QED
    BY <1>4, <2>1 DEF NothingYet, rowVars, replVars, diskVars, histVars, ReaperRecord
<1> QED
  BY <1>1, <1>2, <1>3, <1>4
-----------------------------------------------------------------------------
(* Who holds the reaped tasks.                                              *)

LEMMA HandsStep ==
  ASSUME TypeOK, HandsInv, EntryInv, CapPublishesAll, Next
  PROVE  HandsInv' /\ CapPublishesAll'
<1> USE DEF HandsInv, CapPublishesAll, InGroups
<1>0. /\ task \in [Task -> TaskRecord] /\ reaper \in ReaperRecord
  BY DEF TypeOK, TaskRecord, ReaperRecord
<1>1. CASE Dispatch \/ AutoContinue \/ Rearm
  BY <1>1 DEF Dispatch, AutoContinue, Rearm
<1>2. ASSUME NEW r \in Row \cup {NoRow}, Submit(r) PROVE HandsInv' /\ CapPublishesAll'
  <2> DEFINE t == CHOOSE u \in Task : task[u].state = "free"
  <2>1. /\ task' = [task EXCEPT ![t] = [FreeTask EXCEPT !.row = r, !.state = "running"]]
        /\ exit = "no" /\ exit' = exit /\ reaper' = reaper
    BY <1>2 DEF Submit
  <2>2. [FreeTask EXCEPT !.row = r, !.state = "running"].state = "running"
    BY DEF FreeTask
  <2> HIDE DEF t
  <2>3. \A u \in Task : task'[u].state = "reaped" => task[u].state = "reaped"
    BY <1>0, <2>1, <2>2
  <2> QED
    BY <2>1, <2>3
<1>3. ASSUME NEW r \in Row \cup {NoRow}, SubmitFails(r) PROVE HandsInv' /\ CapPublishesAll'
  BY <1>3 DEF SubmitFails
<1>4. CASE Stop \/ Continue
  BY <1>4 DEF Stop, Continue
<1>5. ASSUME NEW t \in Task, Run(t) PROVE HandsInv' /\ CapPublishesAll'
  <2>1. \A u \in Task : task'[u].state = "reaped" => task[u].state = "reaped"
    <3> SUFFICES ASSUME NEW u \in Task PROVE task'[u].state = "reaped" => task[u].state = "reaped"
      OBVIOUS
    <3>1. CASE u = t
      <4>1. task'[t].state = "ended"
        <5>1. CASE FinishOk(t)
          BY <1>0, <5>1 DEF FinishOk, TaskRecord
        <5>2. CASE FinishErr(t)
          BY <1>0, <5>2 DEF FinishErr, TaskRecord
        <5> QED
          BY <1>5, <5>1, <5>2 DEF Run
      <4> QED
        BY <3>1, <4>1
    <3>2. CASE u # t
      BY <1>0, <1>5, <3>2 DEF Run, FinishOk, FinishErr
    <3> QED
      BY <3>1, <3>2
  <2>2. /\ exit = "no" /\ exit' = exit /\ reaper' = reaper
    BY <1>5 DEF Run, FinishOk, FinishErr
  <2> QED
    BY <2>1, <2>2
<1>6. CASE Crash
  BY <1>6 DEF Crash, AtRest, FreeTask
<1>7. CASE Reap
  <2>1. /\ reaper'.left = Ended /\ reaper'.cur = {} /\ reaper'.batch = {}
        /\ reaper'.at = IF Ended = {} THEN "tail" ELSE "next"
        /\ exit' = "no"
    BY <1>0, <1>7 DEF Reap, ReaperRecord
  <2>2. \A t \in Task : task'[t].state = "reaped" => t \in Ended
    BY <1>7 DEF Reap, Ended
  <2> QED
    BY <2>1, <2>2
<1>8. CASE BatchDone
  BY <1>0, <1>8 DEF BatchDone, Go, ReaperRecord
<1>9. CASE TodoAgent
  BY <1>0, <1>9 DEF TodoAgent, Go, ReaperRecord
<1>10. CASE EnsureFollowups
  BY <1>0, <1>10 DEF EnsureFollowups, Go, ReaperRecord
<1>11. CASE GoalAgent
  BY <1>0, <1>11 DEF GoalAgent, Freed, FreeTask, ReaperRecord
<1>12. CASE AtCap
  BY <1>0, <1>12 DEF AtCap, Go, Exit, Outstanding, Running, Ended, TaskRecord, ReaperRecord
<1>13. CASE BelowCap
  BY <1>0, <1>13 DEF BelowCap, Go, Exit, ReaperRecord
<1>14. CASE Unlimited
  BY <1>0, <1>14 DEF Unlimited, Exit, ReaperRecord
<1>15. CASE NothingYet
  BY <1>0, <1>15 DEF NothingYet, Go, ReaperRecord
<1>16. ASSUME NEW t \in Task, TakeOne(t) PROVE HandsInv' /\ CapPublishesAll'
  BY <1>0, <1>16 DEF TakeOne, ReaperRecord
<1>17. ASSUME NEW t \in Task, Effects(t) \/ MarkCoding(t)
       PROVE  HandsInv' /\ CapPublishesAll'
  BY <1>0, <1>17 DEF Effects, MarkCoding, Go, ReaperRecord
<1>18. ASSUME NEW t \in Task, Report(t) PROVE HandsInv' /\ CapPublishesAll'
  <2>1. reaper.cur = {t}
    BY <1>18 DEF Report, EntryInv
  <2>2. CASE latched
    <3>1. /\ reaper'.at = "next" /\ reaper'.cur = {} /\ reaper'.left = reaper.left
          /\ reaper'.batch = reaper.batch /\ exit' = "no"
      BY <1>0, <1>18, <2>2 DEF Report, ReaperRecord
    <3>2. \A u \in Task : task'[u].state = "reaped" => task[u].state = "reaped" /\ u # t
      BY <1>18, <2>2 DEF Report, Freed, FreeTask
    <3> QED
      BY <2>1, <3>1, <3>2
  <2>3. CASE ~latched
    BY <1>0, <1>18, <2>3 DEF Report, Go, ReaperRecord
  <2> QED
    BY <2>2, <2>3
<1>19. ASSUME NEW t \in Task, NEW leads \in Leads, NEW grew \in BOOLEAN,
              Publish(t, leads, grew)
       PROVE  HandsInv' /\ CapPublishesAll'
  <2>1. reaper.cur = {t}
    BY <1>19 DEF Publish, EntryInv
  <2>2. /\ reaper'.at = "next" /\ reaper'.cur = {} /\ reaper'.left = reaper.left
        /\ exit' # "cap"
    BY <1>0, <1>19 DEF Publish, ReaperRecord
  <2>3. \/ task' = Freed({t}) /\ reaper'.batch = reaper.batch
        \/ /\ task' = [task EXCEPT ![t].leads = leads]
           /\ reaper'.batch = reaper.batch \cup {t}
    BY <1>0, <1>19 DEF Publish, ReaperRecord
  <2>4. \A u \in Task : task'[u].state = "reaped" =>
          task[u].state = "reaped" /\ (u = t => t \in reaper'.batch)
    <3>1. CASE task' = Freed({t})
      BY <3>1 DEF Freed, FreeTask
    <3>2. CASE task' = [task EXCEPT ![t].leads = leads] /\ reaper'.batch = reaper.batch \cup {t}
      BY <1>0, <3>2 DEF TaskRecord
    <3> QED
      BY <2>3, <3>1, <3>2
  <2> QED
    BY <2>1, <2>2, <2>3, <2>4
<1>20. CASE Exited
  BY <1>20 DEF Exited, vars
<1> QED
  BY <1>1, <1>2, <1>3, <1>4, <1>5, <1>6, <1>7, <1>8, <1>9, <1>10, <1>11, <1>12, <1>13,
     <1>14, <1>15, <1>16, <1>17, <1>18, <1>19, <1>20
  DEF Next, Repl, Submission, Reaper

-----------------------------------------------------------------------------
(* Entries of the reaped tasks, and free ones for the claimed rows.         *)

FreeSet == {t \in Task : task[t].state = "free"}

LEMMA ClaimsFit ==
  ASSUME TypeOK, EntryInv, claimed' \subseteq claimed, FreeSet \subseteq FreeSet'
  PROVE  (Cardinality(claimed) <= Cardinality(FreeSet))'
<1>1. IsFiniteSet(claimed) /\ IsFiniteSet(FreeSet')
  <2>1. IsFiniteSet(Row \cup {NoRow})
    BY FS_AddElement, ConstantsAssumption DEF ConstantsAssumption
  <2> QED
    BY <2>1, FS_Subset, ConstantsAssumption DEF TypeOK, ConstantsAssumption, FreeSet
<1>2. /\ Cardinality(claimed') <= Cardinality(claimed)
      /\ Cardinality(FreeSet) <= Cardinality(FreeSet')
      /\ Cardinality(claimed') \in Nat /\ Cardinality(claimed) \in Nat
      /\ Cardinality(FreeSet) \in Nat /\ Cardinality(FreeSet') \in Nat
  BY <1>1, FS_Subset, FS_CardinalityType
<1>3. Cardinality(claimed) <= Cardinality(FreeSet)
  BY DEF EntryInv, FreeSet
<1> QED
  BY <1>2, <1>3

\* The entry a submission takes is a free one.
LEMMA SubmitEntry ==
  ASSUME TypeOK, EntryInv, NEW r \in Row \cup {NoRow}, Submit(r)
  PROVE  LET t == CHOOSE u \in Task : task[u].state = "free" IN
         /\ t \in Task /\ task[t].state = "free"
         /\ task' = [task EXCEPT ![t] = [FreeTask EXCEPT !.row = r, !.state = "running"]]
         /\ FreeSet' = FreeSet \ {t}
<1> DEFINE t == CHOOSE u \in Task : task[u].state = "free"
<1>1. IsFiniteSet(claimed) /\ IsFiniteSet(FreeSet)
  <2>1. IsFiniteSet(Row \cup {NoRow})
    BY FS_AddElement, ConstantsAssumption DEF ConstantsAssumption
  <2> QED
    BY <2>1, FS_Subset, ConstantsAssumption DEF TypeOK, ConstantsAssumption, FreeSet
<1>2. Cardinality(claimed) \in Nat /\ Cardinality(claimed) # 0
  BY <1>1, FS_CardinalityType, FS_EmptySet DEF Submit
<1>3. Cardinality(FreeSet) # 0
  BY <1>1, <1>2, FS_CardinalityType DEF EntryInv, FreeSet
<1>4. FreeSet # {}
  BY <1>3, FS_EmptySet
<1>5. t \in Task /\ task[t].state = "free"
  BY <1>4 DEF FreeSet
<1>6. task' = [task EXCEPT ![t] = [FreeTask EXCEPT !.row = r, !.state = "running"]]
  BY DEF Submit
<1> HIDE DEF t
<1>7. FreeSet' = FreeSet \ {t}
  <2>1. [FreeTask EXCEPT !.row = r, !.state = "running"].state = "running"
    BY DEF FreeTask
  <2> QED
    BY <1>5, <1>6, <2>1 DEF FreeSet, TypeOK
<1> QED
  BY <1>5, <1>6, <1>7 DEF t

LEMMA EntryStep ==
  ASSUME TypeOK, HandsInv, EntryInv, Next
  PROVE  EntryInv'
<1> DEFINE Held == /\ \A t \in reaper.cur \cup reaper.left : task[t].state = "reaped"
                   /\ \A t, u \in reaper.cur : t = u
                   /\ reaper.cur \cap reaper.left = {}
<1>0. /\ task \in [Task -> TaskRecord] /\ reaper \in ReaperRecord /\ Held
      /\ reaper.cur \subseteq Task /\ reaper.left \subseteq Task
  BY DEF TypeOK, TaskRecord, ReaperRecord, EntryInv
<1>1. CASE Dispatch
  BY <1>1 DEF Dispatch, EntryInv
<1>17. ASSUME UNCHANGED <<task, reaper>>, claimed' = {NoRow},
              \E t \in Task : task[t].state = "free"
       PROVE  EntryInv'
  <2>1. FreeSet # {} /\ IsFiniteSet(FreeSet)
    BY <1>17, FS_Subset, ConstantsAssumption DEF ConstantsAssumption, FreeSet
  <2>2. Cardinality(FreeSet) \in Nat /\ Cardinality(FreeSet) # 0
    BY <2>1, FS_EmptySet, FS_CardinalityType
  <2>3. Cardinality(claimed') = 1
    BY <1>17, FS_Singleton
  <2>4. FreeSet' = FreeSet
    BY <1>17 DEF FreeSet
  <2>5. Cardinality(claimed') <= Cardinality(FreeSet')
    BY <2>2, <2>3, <2>4
  <2> QED
    BY <1>0, <1>17, <2>5 DEF EntryInv, FreeSet
<1>18. CASE AutoContinue
  BY <1>17, <1>18 DEF AutoContinue
<1>2. ASSUME NEW r \in Row \cup {NoRow}, Submit(r) PROVE EntryInv'
  <2> DEFINE t == CHOOSE u \in Task : task[u].state = "free"
  <2>1. /\ t \in Task /\ task[t].state = "free"
        /\ task' = [task EXCEPT ![t] = [FreeTask EXCEPT !.row = r, !.state = "running"]]
        /\ FreeSet' = FreeSet \ {t}
    BY <1>2, SubmitEntry
  <2> HIDE DEF t
  <2>2. r \in claimed /\ claimed' = claimed \ {r} /\ reaper' = reaper
    BY <1>2 DEF Submit
  <2>3. IsFiniteSet(claimed) /\ IsFiniteSet(FreeSet)
    <3>1. IsFiniteSet(Row \cup {NoRow})
      BY FS_AddElement, ConstantsAssumption DEF ConstantsAssumption
    <3> QED
      BY <3>1, FS_Subset, ConstantsAssumption DEF TypeOK, ConstantsAssumption, FreeSet
  <2>4. /\ Cardinality(claimed') = Cardinality(claimed) - 1
        /\ Cardinality(FreeSet') = Cardinality(FreeSet) - 1
        /\ Cardinality(claimed) \in Nat /\ Cardinality(FreeSet) \in Nat
    <3>1. t \in FreeSet
      BY <2>1 DEF FreeSet
    <3>2. Cardinality(FreeSet \ {t}) = Cardinality(FreeSet) - 1
      BY <2>3, <3>1, FS_RemoveElement
    <3>3. Cardinality(claimed \ {r}) = Cardinality(claimed) - 1
      BY <2>2, <2>3, FS_RemoveElement
    <3>4. Cardinality(claimed) \in Nat /\ Cardinality(FreeSet) \in Nat
      BY <2>3, FS_CardinalityType
    <3> QED
      BY <2>1, <2>2, <3>2, <3>3, <3>4
  <2>5. Cardinality(claimed') <= Cardinality(FreeSet')
    BY <2>4 DEF EntryInv, FreeSet
  <2>6. Held'
    BY <1>0, <2>1, <2>2
  <2> QED
    BY <2>5, <2>6 DEF EntryInv, FreeSet
<1>3. ASSUME Held', claimed' \subseteq claimed, FreeSet \subseteq FreeSet' PROVE EntryInv'
  BY <1>3, ClaimsFit DEF EntryInv, FreeSet
<1> HIDE DEF Held
<1>4. ASSUME NEW r \in Row \cup {NoRow}, SubmitFails(r) PROVE EntryInv'
  BY <1>0, <1>3, <1>4 DEF SubmitFails, Held, FreeSet
<1>5. CASE Stop \/ Rearm
  BY <1>0, <1>3, <1>5 DEF Stop, Rearm, Held, FreeSet
<1>19. CASE Continue
  <2>1. UNCHANGED <<task, reaper>>
    BY <1>19 DEF Continue
  <2>2. CASE claimed' = {NoRow} /\ \E t \in Task : task[t].state = "free"
    BY <1>17, <2>1, <2>2
  <2>3. CASE UNCHANGED claimed
    BY <1>0, <1>3, <2>1, <2>3 DEF Held, FreeSet
  <2> QED
    BY <1>19, <2>2, <2>3 DEF Continue
<1>6. ASSUME NEW t \in Task, Run(t) PROVE EntryInv'
  <2>1. task[t].state = "running" /\ reaper' = reaper /\ claimed' = claimed
    BY <1>6 DEF Run, FinishOk, FinishErr, Running, replVars
  <2>2. \A u \in Task : u # t => task'[u] = task[u]
    BY <1>0, <1>6 DEF Run, FinishOk, FinishErr
  <2> QED
    BY <1>0, <1>3, <2>1, <2>2 DEF Held, FreeSet
<1>7. CASE Crash
  <2>1. /\ claimed' = {} /\ reaper'.cur = {} /\ reaper'.left = {}
        /\ \A t \in Task : task'[t].state = "free"
    BY <1>7 DEF Crash, AtRest, FreeTask
  <2> QED
    BY <1>3, <2>1 DEF Held, FreeSet
<1>8. CASE Reap
  <2>1. /\ reaper'.left = Ended /\ reaper'.cur = {} /\ claimed' = claimed
    BY <1>0, <1>8 DEF Reap, ReaperRecord, HandsInv, replVars
  <2>2. \A t \in Task : task'[t].state = IF t \in Ended THEN "reaped" ELSE task[t].state
    BY <1>0, <1>8 DEF Reap, TaskRecord
  <2>3. \A t \in Ended : t \in Task /\ task[t].state = "ended"
    BY DEF Ended
  <2> QED
    BY <1>3, <2>1, <2>2, <2>3 DEF Held, FreeSet
<1>9. CASE BatchDone \/ TodoAgent \/ EnsureFollowups
  <2>1. /\ reaper'.cur = reaper.cur /\ reaper'.left = reaper.left /\ task' = task
        /\ claimed' = claimed
    BY <1>0, <1>9 DEF BatchDone, TodoAgent, EnsureFollowups, Go, ReaperRecord, replVars
  <2> QED
    BY <1>0, <1>3, <2>1 DEF Held, FreeSet
<1>10. CASE GoalAgent
  <2>1. /\ reaper'.cur = {} /\ reaper'.left = {} /\ claimed' = claimed
        /\ \A t \in Task : task[t].state = "free" => task'[t].state = "free"
    BY <1>0, <1>10 DEF GoalAgent, ReaperRecord, HandsInv, InGroups, Freed, FreeTask, replVars
  <2> QED
    BY <1>3, <2>1 DEF Held, FreeSet
<1>11. CASE AtCap \/ BelowCap \/ Unlimited \/ NothingYet
  <2>1. /\ reaper'.cur = reaper.cur /\ reaper'.left = reaper.left /\ task' = task
        /\ claimed' = claimed
    BY <1>0, <1>11 DEF AtCap, BelowCap, Unlimited, NothingYet, Go, ReaperRecord, replVars
  <2> QED
    BY <1>0, <1>3, <2>1 DEF Held, FreeSet
<1>12. ASSUME NEW t \in Task, TakeOne(t) PROVE EntryInv'
  <2>1. /\ reaper'.cur = {t} /\ reaper'.left = reaper.left \ {t} /\ t \in reaper.left
        /\ task' = task /\ claimed' = claimed
    BY <1>0, <1>12 DEF TakeOne, ReaperRecord, replVars
  <2> QED
    BY <1>0, <1>3, <2>1 DEF Held, FreeSet
<1>13. ASSUME NEW t \in Task, Effects(t) \/ MarkCoding(t) PROVE EntryInv'
  <2>1. /\ reaper'.cur = reaper.cur /\ reaper'.left = reaper.left /\ task' = task
        /\ claimed' = claimed
    BY <1>0, <1>13 DEF Effects, MarkCoding, Go, ReaperRecord, replVars
  <2> QED
    BY <1>0, <1>3, <2>1 DEF Held, FreeSet
<1>14. ASSUME NEW t \in Task, Report(t) PROVE EntryInv'
  <2>1. claimed' = claimed /\ t \in reaper.cur /\ reaper'.left = reaper.left
    BY <1>0, <1>14 DEF Report, Go, ReaperRecord, replVars
  <2>2. CASE latched
    <3>1. task' = Freed({t}) /\ reaper'.cur = {}
      BY <1>0, <1>14, <2>2 DEF Report, ReaperRecord
    <3>2. \A u \in Task : /\ u # t => task'[u] = task[u]
                          /\ task'[t].state = "free"
      BY <3>1 DEF Freed, FreeTask
    <3>3. t \notin reaper.left
      BY <1>0, <2>1 DEF Held
    <3> QED
      BY <1>0, <1>3, <2>1, <3>1, <3>2, <3>3 DEF Held, FreeSet
  <2>3. CASE ~latched
    <3>1. task' = task /\ reaper'.cur = reaper.cur
      BY <1>0, <1>14, <2>3 DEF Report, Go, ReaperRecord
    <3> QED
      BY <1>0, <1>3, <2>1, <3>1 DEF Held, FreeSet
  <2> QED
    BY <2>2, <2>3
<1>15. ASSUME NEW t \in Task, NEW leads \in Leads, NEW grew \in BOOLEAN,
              Publish(t, leads, grew)
       PROVE  EntryInv'
  <2>1. /\ reaper'.cur = {} /\ reaper'.left = reaper.left /\ claimed' = claimed
        /\ t \in reaper.cur
    BY <1>0, <1>15 DEF Publish, ReaperRecord, replVars
  <2>2. task' = Freed({t}) \/ task' = [task EXCEPT ![t].leads = leads]
    BY <1>15 DEF Publish
  <2>3. \A u \in Task : /\ u # t => task'[u] = task[u]
                        /\ task'[t].state \in {"free", task[t].state}
    <3>1. CASE task' = Freed({t})
      BY <3>1 DEF Freed, FreeTask
    <3>2. CASE task' = [task EXCEPT ![t].leads = leads]
      BY <1>0, <3>2 DEF TaskRecord
    <3> QED
      BY <2>2, <3>1, <3>2
  <2>4. t \notin reaper.left
    BY <1>0, <2>1 DEF Held
  <2> QED
    BY <1>0, <1>3, <2>1, <2>3, <2>4 DEF Held, FreeSet
<1>16. CASE Exited
  BY <1>0, <1>3, <1>16 DEF Exited, vars, replVars, Held, FreeSet
<1> QED
  BY <1>1, <1>2, <1>4, <1>5, <1>6, <1>7, <1>8, <1>9, <1>10, <1>11, <1>12, <1>13,
     <1>14, <1>15, <1>16, <1>18, <1>19
  DEF Next, Repl, Submission, Reaper

-----------------------------------------------------------------------------
(* Coding rows.                                                             *)

LEMMA CodingStep ==
  ASSUME TypeOK, TypeOK', HandsInv, EntryInv, FileInv, CodingInv, Next
  PROVE  CodingInv'
<1> DEFINE Rows == \A r \in Coding : todo[r] = "Done" => r \in attempted
           Hands ==
             /\ reaper.at = "effects" => \A t \in reaper.cur : task[t].row \in Coding
             /\ reaper.at = "mark" => \A t \in reaper.cur : task[t].row \in attempted
<1>0. /\ task \in [Task -> TaskRecord] /\ reaper \in ReaperRecord /\ Rows /\ Hands
      /\ reaper.cur \subseteq Task /\ Coding \subseteq Row
      /\ \A t \in reaper.cur : task[t].state = "reaped"
  BY ConstantsAssumption
  DEF TypeOK, TaskRecord, ReaperRecord, CodingInv, EntryInv, ConstantsAssumption
<1>1. ASSUME Rows', Hands', attempted \subseteq attempted',
             disk' = disk \/ disk'.todo = todo'
      PROVE  CodingInv'
  BY <1>1 DEF CodingInv, CodingDoneMeansDone
<1>2. ASSUME NEW list \in [Row -> Status], NEW later \in SUBSET Row,
             Persist(list, later), todo' = list
      PROVE  disk' = disk \/ disk'.todo = todo'
  BY <1>2, SavedIs
<1>3. todo' \in [Row -> Status] /\ deferred \in SUBSET Row /\ deferred' \in SUBSET Row
  BY DEF TypeOK
<1> HIDE DEF Rows, Hands
<1>4. ASSUME attempted' = attempted, disk' = disk, reaper' = reaper, Rows',
             \A t \in reaper.cur : task'[t].row = task[t].row
      PROVE  CodingInv'
  BY <1>0, <1>1, <1>4 DEF Hands
<1>5. CASE Dispatch
  <2>1. Rows'
    BY <1>0, <1>5 DEF Dispatch, Rows, histVars
  <2> QED
    BY <1>4, <1>5, <2>1 DEF Dispatch, histVars, diskVars
<1>6. ASSUME NEW r \in Row \cup {NoRow}, Submit(r) PROVE CodingInv'
  <2> DEFINE t == CHOOSE u \in Task : task[u].state = "free"
  <2>1. /\ t \in Task /\ task[t].state = "free"
        /\ task' = [task EXCEPT ![t] = [FreeTask EXCEPT !.row = r, !.state = "running"]]
    BY <1>6, SubmitEntry
  <2> HIDE DEF t
  <2>2. \A u \in reaper.cur : task'[u].row = task[u].row
    BY <1>0, <2>1
  <2>3. Rows'
    BY <1>0, <1>6 DEF Submit, Rows, histVars, rowVars
  <2> QED
    BY <1>4, <1>6, <2>2, <2>3 DEF Submit, histVars, diskVars
<1>7. CASE AutoContinue \/ Rearm \/ \E r \in Row \cup {NoRow} : SubmitFails(r)
  BY <1>0, <1>4, <1>7
  DEF AutoContinue, Rearm, SubmitFails, Rows, histVars, rowVars, diskVars
<1>8. CASE Stop
  <2>1. Rows'
    BY <1>0, <1>8 DEF Stop, Rows, histVars
  <2> QED
    BY <1>4, <1>8, <2>1 DEF Stop, histVars
<1>9. CASE Continue
  <2>1. Rows'
    BY <1>0, <1>9 DEF Continue, Rows, Added, rowVars, histVars
  <2> QED
    BY <1>4, <1>9, <2>1 DEF Continue, histVars, diskVars
<1>10. ASSUME NEW t \in Task, Run(t) PROVE CodingInv'
  <2>1. \A u \in reaper.cur : task'[u] = task[u]
    BY <1>0, <1>10 DEF Run, FinishOk, FinishErr, Running
  <2>2. Rows'
    BY <1>0, <1>10 DEF Run, FinishOk, FinishErr, Rows, histVars, rowVars
  <2> QED
    BY <1>4, <1>10, <2>1, <2>2 DEF Run, FinishOk, FinishErr, histVars, diskVars
<1>11. CASE Crash
  <2>1. Rows'
    BY <1>0, <1>11 DEF Crash, Rows, Resumed, CodingInv, CodingDoneMeansDone
  <2>2. Hands'
    BY <1>11 DEF Crash, Hands, AtRest
  <2> QED
    BY <1>1, <1>11, <2>1, <2>2 DEF Crash
<1>12. ASSUME UNCHANGED <<rowVars, diskVars, attempted>>,
              reaper'.at \notin {"effects", "mark"}
       PROVE  CodingInv'
  BY <1>0, <1>1, <1>12 DEF Rows, Hands, rowVars, diskVars
<1>13. CASE Reap \/ BatchDone \/ NothingYet
  BY <1>0, <1>12, <1>13
  DEF Reap, BatchDone, NothingYet, Go, ReaperRecord, histVars
<1>14. CASE TodoAgent
  <2>1. Hands'
    BY <1>0, <1>14 DEF TodoAgent, Go, ReaperRecord, Hands
  <2>2. Rows' /\ attempted \subseteq attempted'
    BY <1>0, <1>14 DEF TodoAgent, Rows
  <2>3. disk' = disk \/ disk'.todo = todo'
    BY <1>2, <1>3, <1>14 DEF TodoAgent, diskVars
  <2> QED
    BY <1>1, <2>1, <2>2, <2>3
<1>15. CASE EnsureFollowups
  <2>1. Hands'
    BY <1>0, <1>15 DEF EnsureFollowups, Go, ReaperRecord, Hands
  <2>2. Rows'
    BY <1>0, <1>15 DEF EnsureFollowups, Rows, Added, histVars
  <2> QED
    BY <1>1, <1>15, <2>1, <2>2 DEF EnsureFollowups, diskVars, histVars
<1>16. CASE GoalAgent
  <2>1. Hands'
    BY <1>0, <1>16 DEF GoalAgent, ReaperRecord, Hands
  <2>2. Rows'
    BY <1>0, <1>16 DEF GoalAgent, Rows, Added, WithoutPending, histVars, rowVars
  <2>3. disk' = disk \/ disk'.todo = todo'
    BY <1>2, <1>3, <1>16 DEF GoalAgent, diskVars
  <2> QED
    BY <1>1, <1>16, <2>1, <2>2, <2>3 DEF GoalAgent, histVars
<1>17. CASE AtCap
  <2>1. Hands'
    BY <1>0, <1>17 DEF AtCap, Go, ReaperRecord, Hands
  <2>2. Rows'
    BY <1>0, <1>17 DEF AtCap, Exit, Rows, WithoutPending, histVars
  <2>3. disk' = disk \/ disk'.todo = todo'
    BY <1>2, <1>3, <1>17 DEF AtCap, Exit
  <2> QED
    BY <1>1, <1>17, <2>1, <2>2, <2>3 DEF AtCap, histVars
<1>18. CASE BelowCap \/ Unlimited
  <2>1. Hands'
    BY <1>0, <1>18 DEF BelowCap, Unlimited, Go, ReaperRecord, Hands
  <2>2. Rows'
    BY <1>0, <1>18 DEF BelowCap, Unlimited, Exit, Rows, WithoutPending, histVars, rowVars
  <2>3. Persist(todo', deferred')
    BY <1>18 DEF BelowCap, Unlimited, Exit, rowVars
  <2>4. disk' = disk \/ disk'.todo = todo'
    BY <1>2, <1>3, <2>3
  <2> QED
    BY <1>1, <1>18, <2>1, <2>2, <2>4 DEF BelowCap, Unlimited, histVars
<1>19. ASSUME NEW t \in Task, TakeOne(t) PROVE CodingInv'
  <2>1. Hands'
    BY <1>0, <1>19 DEF TakeOne, ReaperRecord, Hands
  <2>2. Rows'
    <3>1. CASE task[t].ok /\ task[t].row \notin Coding
      <4>1. todo' = Marked(todo, task[t].row)
        BY <1>19, <3>1 DEF TakeOne
      <4>2. \A s \in Row : todo'[s] = "Done" => todo[s] = "Done" \/ s = task[t].row
        BY <4>1 DEF Marked, TypeOK
      <4> QED
        BY <1>0, <1>19, <3>1, <4>2 DEF TakeOne, Rows, histVars
    <3>2. CASE ~(task[t].ok /\ task[t].row \notin Coding)
      BY <1>0, <1>19, <3>2 DEF TakeOne, Rows, histVars
    <3> QED
      BY <3>1, <3>2
  <2>3. disk' = disk \/ disk'.todo = todo'
    BY <1>2, <1>3, <1>19 DEF TakeOne, diskVars
  <2> QED
    BY <1>1, <1>19, <2>1, <2>2, <2>3 DEF TakeOne, histVars
<1>20. ASSUME NEW t \in Task, Effects(t) PROVE CodingInv'
  <2>1. Hands'
    BY <1>0, <1>20 DEF Effects, Go, ReaperRecord, Hands, EntryInv
  <2>2. Rows'
    BY <1>0, <1>20 DEF Effects, Rows, rowVars
  <2> QED
    BY <1>1, <1>20, <2>1, <2>2 DEF Effects, diskVars
<1>21. ASSUME NEW t \in Task, MarkCoding(t) PROVE CodingInv'
  <2>1. Hands'
    BY <1>0, <1>21 DEF MarkCoding, Go, ReaperRecord, Hands
  <2>2. \A s \in Row : todo'[s] = "Done" => todo[s] = "Done" \/ s = task[t].row
    BY <1>21 DEF MarkCoding, Marked, TypeOK
  <2>3. task[t].row \in attempted
    BY <1>0, <1>21 DEF MarkCoding, Hands
  <2>4. Rows'
    BY <1>0, <1>21, <2>2, <2>3 DEF MarkCoding, Rows, histVars
  <2>5. disk' = disk \/ disk'.todo = todo'
    BY <1>2, <1>3, <1>21 DEF MarkCoding
  <2> QED
    BY <1>1, <1>21, <2>1, <2>4, <2>5 DEF MarkCoding, histVars
<1>22. ASSUME NEW t \in Task, Report(t) PROVE CodingInv'
  <2>1. reaper'.at \in {"next", "publish"}
    BY <1>0, <1>22 DEF Report, Go, ReaperRecord
  <2> QED
    BY <1>12, <1>22, <2>1 DEF Report, histVars
<1>23. ASSUME NEW t \in Task, NEW leads \in Leads, NEW grew \in BOOLEAN,
              Publish(t, leads, grew)
       PROVE  CodingInv'
  <2>1. Hands'
    BY <1>0, <1>23 DEF Publish, ReaperRecord, Hands
  <2>2. \/ todo' = todo \/ todo' = WithoutPending(todo)
        \/ \E rows : todo' = Added(todo, rows) \/ todo' = Added(WithoutPending(todo), rows)
    BY <1>23 DEF Publish, rowVars
  <2>3. Rows'
    BY <1>0, <1>23, <2>2 DEF Publish, Rows, Added, WithoutPending
  <2>4. UNCHANGED diskVars \/ Persist(todo', deferred')
    BY <1>23 DEF Publish
  <2>5. disk' = disk \/ disk'.todo = todo'
    BY <1>2, <1>3, <2>4 DEF diskVars
  <2> QED
    BY <1>1, <1>23, <2>1, <2>3, <2>5 DEF Publish
<1>24. CASE Exited
  BY <1>0, <1>4, <1>24 DEF Exited, vars, rowVars, diskVars, histVars, Rows
<1> QED
  BY <1>5, <1>6, <1>7, <1>8, <1>9, <1>10, <1>11, <1>13, <1>14, <1>15, <1>16, <1>17, <1>18,
     <1>19, <1>20, <1>21, <1>22, <1>23, <1>24
  DEF Next, Repl, Submission, Reaper

-----------------------------------------------------------------------------
(* The file, and the follow-ups it must keep.                               *)

LEMMA FileStep ==
  ASSUME TypeOK, TypeOK', FileInv, Next
  PROVE  FileInv'
<1> DEFINE Kept == \A r \in owed : todo[r] # "Absent" \/ r \in deferred
<1>0. /\ Kept /\ owed \subseteq Row
      /\ todo' \in [Row -> Status] /\ deferred' \in SUBSET Row
      /\ todo \in [Row -> Status] /\ deferred \in SUBSET Row
  BY DEF FileInv, TypeOK
<1>1. ASSUME Persist(todo', deferred'), Kept' PROVE FileInv'
  BY <1>0, <1>1, SavedIs DEF FileInv
<1>2. ASSUME disk' = disk, sig' = sig, failed' = failed, exit' = "no", Kept'
      PROVE  FileInv'
  BY <1>2 DEF FileInv
\* A list that loses pending rows keeps what is owed if they are deferred.
<1>3. ASSUME NEW rows, owed' = owed,
             \/ todo' = Added(WithoutPending(todo), rows)
             \/ todo' = WithoutPending(todo),
             deferred' = deferred \cup Pending
      PROVE  Kept'
  BY <1>0, <1>3 DEF Added, WithoutPending, Pending
<1>4. ASSUME \A r \in Row : todo[r] # "Absent" => todo'[r] # "Absent",
             deferred' = deferred, owed' = owed
      PROVE  Kept'
  BY <1>0, <1>4
<1> HIDE DEF Kept
<1>5. CASE Dispatch
  <2>1. \A r \in Row : todo[r] # "Absent" => todo'[r] # "Absent"
    BY <1>5 DEF Dispatch
  <2> QED
    BY <1>2, <1>4, <1>5, <2>1 DEF Dispatch, diskVars, histVars
<1>6. ASSUME UNCHANGED <<rowVars, disk, sig, failed, owed>>, exit' = "no" PROVE FileInv'
  BY <1>2, <1>4, <1>6 DEF rowVars
<1>7. CASE \/ AutoContinue \/ Rearm
           \/ \E r \in Row \cup {NoRow} : Submit(r) \/ SubmitFails(r)
  BY <1>6, <1>7 DEF AutoContinue, Rearm, Submit, SubmitFails, rowVars, diskVars, histVars
<1>8. CASE Stop
  <2>1. Kept'
    BY <1>0, <1>8 DEF Stop, Kept, histVars
  <2> QED
    BY <1>2, <1>8, <2>1 DEF Stop
<1>9. CASE Continue
  <2>1. Kept'
    BY <1>0, <1>9 DEF Continue, Kept, Added, rowVars, histVars
  <2> QED
    BY <1>2, <1>9, <2>1 DEF Continue, diskVars
<1>10. ASSUME NEW t \in Task, Run(t) PROVE FileInv'
  BY <1>6, <1>10 DEF Run, FinishOk, FinishErr, diskVars, histVars
<1>11. CASE Crash
  BY <1>11 DEF Crash, FileInv
<1>12. CASE Reap \/ BatchDone \/ NothingYet
  BY <1>6, <1>12 DEF Reap, BatchDone, NothingYet, diskVars, histVars
<1>13. CASE TodoAgent
  <2>1. \A r \in Row : todo[r] # "Absent" => todo'[r] # "Absent"
    BY <1>13 DEF TodoAgent
  <2>2. Kept'
    BY <1>4, <1>13, <2>1 DEF TodoAgent
  <2>3. exit' = "no" /\ (UNCHANGED diskVars \/ Persist(todo', deferred'))
    BY <1>13 DEF TodoAgent
  <2> QED
    BY <1>1, <1>2, <2>2, <2>3 DEF diskVars
<1>14. CASE EnsureFollowups
  <2>1. \A r \in Row : todo[r] # "Absent" => todo'[r] # "Absent"
    BY <1>0, <1>14 DEF EnsureFollowups, Added
  <2> QED
    BY <1>2, <1>4, <1>14, <2>1 DEF EnsureFollowups, diskVars, histVars
<1>15. CASE GoalAgent
  <2>1. Kept'
    <3>1. CASE \/ UNCHANGED rowVars
               \/ \E r \in Row : todo' = Added(todo, {r}) /\ UNCHANGED deferred
      BY <1>0, <1>4, <1>15, <3>1 DEF GoalAgent, rowVars, Added, histVars
    <3>2. ASSUME NEW follow \in BOOLEAN,
                 todo' = IF follow THEN Added(WithoutPending(todo), deferred \cup Pending)
                         ELSE WithoutPending(todo),
                 deferred' = IF ~follow THEN deferred \cup Pending
                             ELSE IF Pending = {} THEN deferred ELSE {},
                 owed' = owed
          PROVE  Kept'
      <4>1. CASE ~follow
        BY <1>3, <3>2, <4>1
      <4>2. CASE follow
        BY <1>0, <3>2, <4>2 DEF Kept, Added, WithoutPending, Pending
      <4> QED
        BY <4>1, <4>2
    <3> QED
      BY <1>15, <3>1, <3>2 DEF GoalAgent, histVars
  <2>2. exit' = "no" /\ (UNCHANGED diskVars \/ Persist(todo', deferred'))
    BY <1>15 DEF GoalAgent
  <2> QED
    BY <1>1, <1>2, <2>1, <2>2 DEF diskVars
<1>16. CASE AtCap
  <2>1. Kept'
    <3>1. CASE todo' = WithoutPending(todo) /\ deferred' = deferred \cup Pending
      BY <1>3, <1>16, <3>1 DEF AtCap, histVars
    <3>2. ASSUME NEW open \in SUBSET Row,
                 todo' = [r \in Row |-> IF r \in open THEN "Absent" ELSE todo[r]],
                 deferred' = deferred \cup open
          PROVE  Kept'
      BY <1>0, <1>16, <3>2 DEF AtCap, Kept, histVars
    <3> QED
      BY <1>16, <3>1, <3>2 DEF AtCap, Exit
  <2>2. Persist(todo', deferred')
    BY <1>16 DEF AtCap, Exit
  <2> QED
    BY <1>1, <2>1, <2>2
<1>17. CASE BelowCap \/ Unlimited
  <2>1. Kept'
    <3>1. \/ todo' = todo /\ deferred' = deferred
          \/ todo' = WithoutPending(todo) /\ deferred' = deferred \cup Pending
      BY <1>17 DEF BelowCap, Unlimited, Exit, rowVars
    <3>2. owed' = owed
      BY <1>17 DEF BelowCap, Unlimited, histVars
    <3> QED
      BY <1>3, <1>4, <3>1, <3>2
  <2>2. Persist(todo', deferred')
    BY <1>17 DEF BelowCap, Unlimited, Exit, rowVars
  <2> QED
    BY <1>1, <2>1, <2>2
<1>18. ASSUME NEW t \in Task, TakeOne(t) \/ MarkCoding(t) PROVE FileInv'
  <2>1. todo' = todo \/ todo' = Marked(todo, task[t].row)
    BY <1>18 DEF TakeOne, MarkCoding
  <2>2. \A r \in Row : todo[r] # "Absent" => todo'[r] # "Absent"
    BY <1>0, <2>1 DEF Marked
  <2>3. deferred' = deferred /\ owed' = owed /\ exit' = "no"
    BY <1>18 DEF TakeOne, MarkCoding, histVars
  <2>4. UNCHANGED diskVars \/ Persist(todo', deferred')
    BY <1>18 DEF TakeOne, MarkCoding
  <2> QED
    BY <1>1, <1>2, <1>4, <2>2, <2>3, <2>4 DEF diskVars
<1>19. ASSUME NEW t \in Task, Effects(t) \/ Report(t) PROVE FileInv'
  BY <1>6, <1>19 DEF Effects, Report, diskVars, histVars
<1>20. ASSUME NEW t \in Task, NEW leads \in Leads, NEW grew \in BOOLEAN,
              Publish(t, leads, grew)
       PROVE  FileInv'
  <2>1. CASE /\ todo' = Added(todo, leads) /\ owed' = owed \cup leads
             /\ UNCHANGED <<deferred, diskVars, exit>>
    <3>1. leads \subseteq Row
      BY ConstantsAssumption DEF ConstantsAssumption
    <3>2. Kept'
      BY <1>0, <2>1, <3>1 DEF Kept, Added
    <3> QED
      BY <1>2, <1>20, <2>1, <3>2 DEF Publish, diskVars
  <2>2. CASE UNCHANGED <<rowVars, capped, diskVars, exit, owed>>
    BY <1>6, <1>20, <2>2 DEF Publish, diskVars
  <2>3. ASSUME NEW carry,
               todo' = Added(WithoutPending(todo), carry), owed' = owed \cup carry,
               deferred' = deferred \cup Pending, Persist(todo', deferred')
        PROVE  FileInv'
    <3>1. owed' \subseteq Row
      BY DEF TypeOK
    <3>2. Kept'
      BY <1>0, <2>3, <3>1 DEF Kept, Added, WithoutPending, Pending
    <3> QED
      BY <1>1, <2>3, <3>2
  <2>4. CASE /\ todo' = WithoutPending(todo) /\ UNCHANGED <<owed, diskVars, exit>>
             /\ deferred' = deferred \cup Pending
    BY <1>2, <1>3, <1>20, <2>4 DEF Publish, diskVars
  <2> QED
    BY <1>20, <2>1, <2>2, <2>3, <2>4 DEF Publish
<1>21. CASE Exited
  BY <1>21 DEF Exited, vars, rowVars, diskVars, histVars, FileInv
<1> QED
  BY <1>5, <1>7, <1>8, <1>9, <1>10, <1>11, <1>12, <1>13, <1>14, <1>15, <1>16, <1>17, <1>18,
     <1>19, <1>20, <1>21
  DEF Next, Repl, Submission, Reaper

-----------------------------------------------------------------------------
LEMMA InitIInv == ASSUME Init PROVE IInv
<1>1. TypeOK
  BY ConstantsAssumption
  DEF ConstantsAssumption, Init, TypeOK, FreeTask, AtRest, NoDisk, Saved, Status, Places
<1>2. HandsInv /\ CapPublishesAll
  BY DEF Init, HandsInv, CapPublishesAll, FreeTask, AtRest
<1>3. EntryInv
  <2>1. claimed = {} /\ IsFiniteSet(FreeSet) /\ reaper.cur = {} /\ reaper.left = {}
    BY FS_Subset, ConstantsAssumption DEF Init, AtRest, ConstantsAssumption, FreeSet
  <2>2. Cardinality(claimed) = 0 /\ Cardinality(FreeSet) \in Nat
    BY <2>1, FS_EmptySet, FS_CardinalityType
  <2> QED
    BY <2>1, <2>2 DEF EntryInv, FreeSet
<1>4. CodingInv
  BY ConstantsAssumption
  DEF ConstantsAssumption, Init, CodingInv, CodingDoneMeansDone, AtRest, NoDisk
<1>5. FileInv
  BY DEF Init, FileInv
<1> QED
  BY <1>1, <1>2, <1>3, <1>4, <1>5 DEF IInv

LEMMA NextIInv == ASSUME IInv, [Next]_vars PROVE IInv'
<1>1. CASE Next
  <2>1. TypeOK'
    <3>1. CASE Exited
      BY <3>1
      DEF IInv, Exited, vars, rowVars, replVars, diskVars, histVars, TypeOK
    <3> QED
      BY <1>1, <3>1, ReplTypes, TaskTypes, PublishTypes, AgentTypes, TailTypes
      DEF IInv, Next, Reaper
  <2> QED
    BY <1>1, <2>1, HandsStep, EntryStep, CodingStep, FileStep DEF IInv
<1>2. CASE UNCHANGED vars
  BY <1>2
  DEF IInv, vars, rowVars, replVars, diskVars, histVars, TypeOK, HandsInv, EntryInv,
      CodingInv, CodingDoneMeansDone, FileInv, CapPublishesAll
<1> QED
  BY <1>1, <1>2

\* The inductive invariant: the types, who holds a reaped task, what the claimed
\* rows can count on, and what the file holds.
THEOREM SessionIsSound == Spec => []IInv
BY InitIInv, NextIInv, PTL DEF Spec

\* A session that leaves at its turn cap has published every result, whatever the
\* reaper was doing when the last of them ended.
THEOREM CapLeavesNoResult == Spec => []CapPublishesAll
<1>1. IInv => CapPublishesAll
  BY DEF IInv
<1> QED
  BY <1>1, SessionIsSound, PTL

\* A resume never finds a coding row done whose effects were not attempted,
\* whichever of the saves of a publication was the last.
THEOREM CodingIsAttemptedFirst == Spec => []CodingDoneMeansDone
<1>1. IInv => CodingDoneMeansDone
  BY DEF IInv, CodingInv
<1> QED
  BY <1>1, SessionIsSound, PTL

\* Unless a save failed, what every exit leaves on disk is what memory held, the
\* follow-ups that no agent has looked at included.
THEOREM ExitsAreResumable == Spec => []ExitIsResumable
<1>1. ASSUME IInv PROVE ExitIsResumable
  <2> SUFFICES ASSUME exit # "no", ~failed
               PROVE  /\ Resumed(disk) = Resumed([todo |-> todo, deferred |-> deferred])
                      /\ \A r \in owed : Resumed(disk)[r] # "Absent"
    BY DEF ExitIsResumable
  <2>1. disk.todo = todo /\ disk.deferred = deferred
    BY <1>1 DEF IInv, FileInv
  <2>2. Resumed(disk) = Resumed([todo |-> todo, deferred |-> deferred])
    BY <2>1 DEF Resumed
  <2>3. \A r \in owed : r \in Row /\ (disk.todo[r] # "Absent" \/ r \in disk.deferred)
    BY <1>1, <2>1 DEF IInv, FileInv, TypeOK
  <2>4. \A r \in owed : Resumed(disk)[r] # "Absent"
    BY <2>3 DEF Resumed
  <2> QED
    BY <2>2, <2>4
<1> QED
  BY <1>1, SessionIsSound, PTL

-----------------------------------------------------------------------------
(***************************************************************************)
(* The fix series.  The argument counts the todos that are done: there is  *)
(* a number n such that exactly the first n todos of the plan are done     *)
(* (PlanInv), the driver is at todo n + 1 or before it (PhaseInv), and of  *)
(* the snapshots on disk only the one of todo n + 1 under the revision at  *)
(* hand can be taken up (SnapInv).  When the recorded commits stand on     *)
(* each other, the last is the root and one change for each of the n       *)
(* todos, and HEAD is that commit, or one more on it, or one in its place, *)
(* for todo n + 1.  Whether the recorded commits do stand on each other is *)
(* not part of it: an amend may replace the commit of a todo that is done  *)
(* (AmendIsScoped fails), and the driver then finds the chain broken.      *)
(***************************************************************************)

(* What the variables hold. *)

Changes == [todo : Id \cup {NoId}, ver : Nat, round : Nat]
Commits == Seq(Changes)
Item == [id : Id, ver : Nat, status : TodoStatus, sha : Commits, revisions : Nat]
Series == [tracked : Seq(Item), rev : Nat, updates : Nat, finals : Nat, base : Commits]
Operations == [op : {"replace_current", "split_current", "append_after_current",
                     "revise_pending", "remove_pending"}, ids : Seq(Id)]
At == {"research", "patch", "commit", "pending", "review", "ended", "failed"}
Verdict == [kind : {"none", "confirmed", "invalid", "unexecutable", "unconfirmed", "revise"}]
           \cup [kind : {"update"}, expected : Nat, ops : Updates]
RunState == [at : At, round : 1..MaxRounds, attempt : Nat, pre : Commits, sha : Commits,
             dispute : BOOLEAN, skipped : BOOLEAN, verdict : Verdict]

Types ==
  /\ head \in Commits /\ head # <<>>
  /\ series \in Series
  /\ snaps \in [DOMAIN snaps -> RunState]
  /\ DOMAIN snaps \subseteq Nat \X Id \X Nat \X Nat
  /\ phase \in Phases /\ idx \in Nat \ {0} /\ made \in Commits /\ runs \in 0..MaxRuns

-----------------------------------------------------------------------------
(* The inductive invariant *)

\* The commit the first n todos of s end at, and whether each stands on the one before.
EndOf(s, n) == IF n = 0 THEN s.base ELSE s.tracked[n].sha
StackedTo(s, n) ==
  \A i \in 1..n : s.tracked[i].sha # NoCommit /\ Parent(s.tracked[i].sha) = EndOf(s, i - 1)

\* The todos that are done are the first n.
DoneTo(s, n) ==
  /\ n <= Len(s.tracked)
  /\ \A i \in 1..Len(s.tracked) : s.tracked[i].status = "Done" <=> i <= n

Unique(s) ==
  \A i, j \in 1..Len(s.tracked) : s.tracked[i].id = s.tracked[j].id => i = j

\* commit is the root and one change for each of the first n todos, in their order.
IsChain(commit, s, n) ==
  /\ Len(commit) = n + 1 /\ commit[1] = Root[1]
  /\ \A i \in 1..n : commit[i + 1].todo = s.tracked[i].id /\ commit[i + 1].ver = s.tracked[i].ver

KeyOf(s, n) == <<n, s.tracked[n].id, s.rev, s.tracked[n].revisions>>

\* x is a commit for the todo t on below, or in the place of below.
IsFor(x, t, below) ==
  x # <<>> /\ Last(x).todo = t.id /\ Last(x).ver = t.ver /\ Parent(x) \in {below, Parent(below)}

\* The run of t, on top of below, while HEAD is h: it has made no commit, or one.
RunFits(run, t, below, h) ==
  /\ h = below \/ IsFor(h, t, below)
  /\ run.attempt = 0 => h = below
  /\ run.verdict.kind # "confirmed" => run.attempt = 0 /\ run.at \in {"research", "ended"}
  /\ run.at = "research" => run.verdict.kind # "confirmed"
  /\ run.at = "pending" =>
       /\ run.attempt # 0
       /\ run.pre = below \/ IsFor(run.pre, t, below)
       /\ run.attempt = 1 => run.pre = below

Distinct(h) == \A i, j \in 1..Len(h) : h[i].todo = h[j].todo => i = j

Underway == {"choose", "work", "assess", "published"}

PlanInv(n) ==
  /\ DoneTo(series, n) /\ Unique(series)
  /\ series.rev # 0 => series.base = Root
  /\ series.rev = 0 => series = NoSeries /\ head = Root /\ DOMAIN snaps = {}
  /\ series.rev # 0 /\ StackedTo(series, n) => IsChain(EndOf(series, n), series, n)

PhaseInv(n) ==
  /\ phase \in Underway => series.rev # 0
  /\ phase = "choose" => idx <= n + 1
  /\ phase = "work" => /\ idx = n + 1 /\ n < Len(series.tracked) /\ StackedTo(series, n)
                       /\ KeyOf(series, n + 1) \in DOMAIN snaps
  /\ phase = "assess" => idx = n + 1
  /\ phase \in {"assess", "published"} =>
       n = Len(series.tracked) /\ StackedTo(series, n) /\ head = EndOf(series, n)

\* A snapshot is of a todo that is done, of an earlier plan, or of the todo that is next.
SnapInv(n) ==
  /\ \A k \in DOMAIN snaps :
       k[1] <= n \/ k[3] < series.rev \/ (n < Len(series.tracked) /\ k = KeyOf(series, n + 1))
  /\ n < Len(series.tracked) /\ StackedTo(series, n) /\ KeyOf(series, n + 1) \in DOMAIN snaps =>
       RunFits(snaps[KeyOf(series, n + 1)], series.tracked[n + 1], EndOf(series, n), head)

InvAt(n) == PlanInv(n) /\ PhaseInv(n) /\ SnapInv(n)

SeriesInv == Types /\ Distinct(head) /\ \E n \in Nat : InvAt(n)

-----------------------------------------------------------------------------
(* Sequences *)

\* A sequence without its last element, and the last element.
LEMMA FrontFacts ==
  ASSUME NEW S, NEW s \in Seq(S), s # <<>>
  PROVE  /\ Len(s) \in Nat \ {0} /\ DOMAIN s = 1..Len(s)
         /\ Parent(s) \in Seq(S) /\ Len(Parent(s)) = Len(s) - 1
         /\ \A i \in 1..(Len(s) - 1) : Parent(s)[i] = s[i]
         /\ Last(s) = s[Len(s)] /\ Last(s) \in S
  <1>1. Len(s) \in Nat \ {0} /\ DOMAIN s = 1..Len(s) /\ \A i \in 1..Len(s) : s[i] \in S
    BY EmptySeq, LenProperties, ElementOfSeq
  <1>2. /\ SubSeq(s, 1, Len(s) - 1) \in Seq(S)
        /\ Len(SubSeq(s, 1, Len(s) - 1)) = Len(s) - 1
        /\ \A i \in 1..(Len(s) - 1) : SubSeq(s, 1, Len(s) - 1)[i] = s[i]
    <2>1. \A i \in 1..(Len(s) - 1) : s[i] \in S
      BY <1>1
    <2>. QED  BY <1>1, <2>1, SubSeqProperties
  <1>. QED  BY <1>1, <1>2 DEF Parent, Front, Last

\* A sequence with one more element.
LEMMA AppendFacts ==
  ASSUME NEW S, NEW s \in Seq(S), NEW e \in S
  PROVE  /\ Append(s, e) \in Seq(S) /\ Append(s, e) # <<>> /\ Len(Append(s, e)) = Len(s) + 1
         /\ \A i \in 1..Len(s) : Append(s, e)[i] = s[i]
         /\ Parent(Append(s, e)) = s /\ Last(Append(s, e)) = e
  <1>1. /\ Append(s, e) \in Seq(S) /\ Append(s, e) # <<>> /\ Len(Append(s, e)) = Len(s) + 1
        /\ \A i \in 1..Len(s) : Append(s, e)[i] = s[i]
        /\ Append(s, e)[Len(s) + 1] = e /\ Len(s) \in Nat
    BY AppendProperties, LenProperties
  <1>2. Last(Append(s, e)) = e
    BY <1>1 DEF Last
  <1>. DEFINE q == Append(s, e)
  <1>3. q \in Seq(S) /\ q # <<>> /\ Len(q) = Len(s) + 1 /\ \A i \in 1..Len(s) : q[i] = s[i]
    BY <1>1
  <1>. HIDE DEF q
  <1>4. Parent(q) \in Seq(S) /\ Len(Parent(q)) = Len(q) - 1 /\ \A i \in 1..(Len(q) - 1) : Parent(q)[i] = q[i]
    BY <1>3, FrontFacts
  <1>5. Parent(q) \in Seq(S) /\ Len(Parent(q)) = Len(s) /\ \A i \in 1..Len(s) : Parent(q)[i] = s[i]
    BY <1>1, <1>3, <1>4
  <1>6. Parent(q) = s
    BY <1>5, SeqEqual
  <1>. QED  BY <1>1, <1>2, <1>6 DEF q

\* The parent of no commit.
LEMMA EmptyIsParent == Parent(<<>>) = <<>>
  <1>1. Len(<<>>) = 0
    BY EmptySeq
  <1>2. SubSeq(<<>>, 1, 0 - 1) = <<>>
    BY SubSeqEmpty
  <1>. QED  BY <1>1, <1>2 DEF Parent, Front

\* Elements taken out of a sequence, and others put in their place.
IsSplice(w, s, i, n, t, S) ==
  /\ w \in Seq(S) /\ Len(w) = Len(s) - n + Len(t)
  /\ \A j \in 1..(i - 1) : w[j] = s[j]
  /\ \A j \in 1..Len(w) : j >= i =>
       \/ \E k \in 1..Len(t) : w[j] = t[k]
       \/ \E k \in 1..Len(s) : k >= i + n /\ w[j] = s[k]

LEMMA SpliceFacts ==
  ASSUME NEW S, NEW s \in Seq(S), NEW t \in Seq(S), NEW i \in Nat \ {0}, NEW n \in Nat,
         i + n <= Len(s) + 1
  PROVE  IsSplice(Splice(s, i, n, t), s, i, n, t, S)
  <1>. DEFINE a == SubSeq(s, 1, i - 1)
              b == SubSeq(s, i + n, Len(s))
  <1>1. Len(s) \in Nat /\ Len(t) \in Nat /\ \A j \in 1..Len(s) : s[j] \in S
    BY LenProperties, ElementOfSeq
  <1>2. a \in Seq(S) /\ Len(a) = i - 1 /\ \A j \in 1..(i - 1) : a[j] = s[j]
    <2>1. \A j \in 1..(i - 1) : s[j] \in S
      BY <1>1
    <2>. QED  BY <1>1, <2>1, SubSeqProperties
  <1>3. /\ b \in Seq(S) /\ Len(b) = Len(s) + 1 - (i + n)
        /\ \A j \in 1..(Len(s) + 1 - (i + n)) : b[j] = s[i + n + j - 1]
    <2>1. \A j \in (i + n)..Len(s) : s[j] \in S
      BY <1>1
    <2>. DEFINE from == i + n
    <2>2. from \in Int /\ Len(s) \in Int /\ from <= Len(s) + 1 /\ from = i + n
      BY <1>1
    <2>3. \A j \in from..Len(s) : s[j] \in S
      BY <2>1
    <2>. HIDE DEF from
    <2>4. /\ SubSeq(s, from, Len(s)) \in Seq(S)
          /\ Len(SubSeq(s, from, Len(s))) = IF from <= Len(s) THEN Len(s) - from + 1 ELSE 0
          /\ \A j \in 1..(Len(s) - from + 1) : SubSeq(s, from, Len(s))[j] = s[from + j - 1]
      BY <2>2, <2>3, SubSeqProperties
    <2>5. b = SubSeq(s, from, Len(s))
      BY DEF from
    <2>6. /\ Len(b) = Len(s) + 1 - from
          /\ \A j \in 1..(Len(s) + 1 - from) : j \in 1..(Len(s) - from + 1)
      BY <2>2, <2>4, <2>5
    <2>7. \A j \in 1..(Len(s) + 1 - from) : b[j] = s[from + j - 1]
      BY <2>4, <2>5, <2>6
    <2>. QED  BY <2>2, <2>4, <2>5, <2>6, <2>7
  <1>. HIDE DEF a, b
  <1>. DEFINE u == a \o t
  <1>4. /\ u \in Seq(S) /\ Len(u) = Len(a) + Len(t)
        /\ \A j \in 1..(Len(a) + Len(t)) : u[j] = IF j <= Len(a) THEN a[j] ELSE t[j - Len(a)]
    BY <1>2, ConcatProperties
  <1>. HIDE DEF u
  <1>. DEFINE w == u \o b
  <1>5. /\ w \in Seq(S) /\ Len(w) = Len(u) + Len(b)
        /\ \A j \in 1..(Len(u) + Len(b)) : w[j] = IF j <= Len(u) THEN u[j] ELSE b[j - Len(u)]
    BY <1>3, <1>4, ConcatProperties
  <1>. HIDE DEF w
  <1>6. Splice(s, i, n, t) = w
    BY DEF Splice, w, u, a, b
  <1>7. Len(w) = Len(s) - n + Len(t) /\ Len(u) = i - 1 + Len(t)
    BY <1>1, <1>2, <1>3, <1>4, <1>5
  <1>8. ASSUME NEW j \in 1..(i - 1)
        PROVE  w[j] = s[j]
    <2>1. j <= Len(a) /\ j <= Len(u) /\ j \in 1..(Len(u) + Len(b)) /\ j \in 1..(Len(a) + Len(t))
      BY <1>1, <1>2, <1>3, <1>4
    <2>. QED  BY <1>2, <1>4, <1>5, <2>1
  <1>9. ASSUME NEW j \in 1..Len(w), j >= i
        PROVE  \/ \E k \in 1..Len(t) : w[j] = t[k]
               \/ \E k \in 1..Len(s) : k >= i + n /\ w[j] = s[k]
    <2>1. CASE j <= Len(u)
      <3>1. ~ (j <= Len(a)) /\ j \in 1..(Len(a) + Len(t)) /\ j \in 1..(Len(u) + Len(b))
        BY <1>1, <1>2, <1>3, <1>4, <1>5, <1>9, <2>1
      <3>2. w[j] = t[j - Len(a)] /\ j - Len(a) \in 1..Len(t)
        <4>1. w[j] = u[j] /\ u[j] = t[j - Len(a)]
          BY <1>4, <1>5, <2>1, <3>1
        <4>2. j - Len(a) \in 1..Len(t)
          BY <1>1, <1>2, <3>1
        <4>. QED  BY <4>1, <4>2
      <3>. QED  BY <3>2
    <2>2. CASE ~ (j <= Len(u))
      <3>. DEFINE m == j - Len(u)
      <3>1. w[j] = b[m] /\ m \in 1..Len(b)
        <4>1. Len(u) \in Nat /\ Len(b) \in Nat
          BY <1>1, <1>3, <1>7
        <4>2. m \in 1..Len(b) /\ j \in 1..(Len(u) + Len(b))
          BY <1>5, <2>2, <4>1
        <4>. QED  BY <1>5, <2>2, <4>2
      <3>2. Len(b) = Len(s) + 1 - (i + n) /\ Len(s) \in Nat
        BY <1>1, <1>3
      <3>. HIDE DEF m
      <3>. DEFINE k == i + n + m - 1
      <3>3. m \in Nat /\ 1 <= m /\ m <= Len(s) + 1 - (i + n)
        BY <3>1, <3>2
      <3>4. k \in 1..Len(s) /\ k >= i + n
        BY <3>2, <3>3
      <3>5. w[j] = s[k]
        BY <1>3, <3>1, <3>2
      <3>. QED  BY <3>4, <3>5
    <2>. QED  BY <2>1, <2>2
  <1>. QED  BY <1>5, <1>6, <1>7, <1>8, <1>9 DEF IsSplice

\* The todos of a new plan, or of an update.
LEMMA FreshAllFacts ==
  ASSUME NEW ids \in Seq(Id), NEW ver \in Nat
  PROVE  /\ FreshAll(ids, ver) \in Seq(Item) /\ Len(FreshAll(ids, ver)) = Len(ids)
         /\ \A i \in 1..Len(ids) : FreshAll(ids, ver)[i].status = "Pending"
  <1>1. Len(ids) \in Nat /\ DOMAIN ids = 1..Len(ids) /\ \A i \in 1..Len(ids) : ids[i] \in Id
    BY LenProperties, ElementOfSeq
  <1>2. \A id \in Id : Fresh(id, ver) \in Item
    BY EmptySeq DEF Fresh, Item, TodoStatus, NoCommit, Commits
  <1>3. FreshAll(ids, ver) \in [1..Len(ids) -> Item]
    BY <1>1, <1>2 DEF FreshAll
  <1>4. FreshAll(ids, ver) \in Seq(Item)
    BY <1>1, <1>3, SeqDef
  <1>5. Len(FreshAll(ids, ver)) = Len(ids)
    BY <1>1, <1>3, <1>4, LenProperties
  <1>6. \A i \in 1..Len(ids) : FreshAll(ids, ver)[i].status = "Pending"
    BY <1>1 DEF FreshAll, Fresh
  <1>. QED  BY <1>4, <1>5, <1>6

-----------------------------------------------------------------------------
(* Plan updates *)

\* A set of natural numbers that is not empty has a least element.
LEMMA LeastNumber ==
  ASSUME NEW T \in SUBSET Nat, T # {}
  PROVE  \E x \in T : \A y \in T : x <= y
  <1>. DEFINE R == OpToRel(<, Nat)
  <1>1. IsWellFoundedOn(R, Nat)
    BY NatLessThanWellFounded
  <1>2. \A x, y \in Nat : x < y => <<x, y>> \in R
    BY DEF OpToRel
  <1>. HIDE DEF R
  <1>3. PICK x \in T : \A y \in T : ~ (<<y, x>> \in R)
    BY <1>1, WFMin
  <1>4. ASSUME NEW y \in T PROVE x <= y
    <2>1. x \in Nat /\ y \in Nat /\ ~ (<<y, x>> \in R)
      BY <1>3
    <2>2. ~ (y < x)
      BY <1>2, <2>1, Zenon
    <2>. QED  BY <2>1, <2>2
  <1>. QED  BY <1>4

\* What an update has built so far: the first n todos are as they were, and what comes
\* after them is not done.
Built(acc, n) ==
  /\ acc \in [result : {"ok", "invalid", "panic"}, revised : BOOLEAN, at : Nat, tracked : Seq(Item)]
  /\ acc.at >= n + 1
  /\ n <= Len(acc.tracked) /\ (~acc.revised => n + 1 <= Len(acc.tracked))
  /\ \A i \in 1..n : acc.tracked[i] = series.tracked[i]
  /\ \A i \in 1..Len(acc.tracked) : i > n => acc.tracked[i].status # "Done"

\* One operation leaves the todos that are done alone, whatever it names.
LEMMA OperationKeeps ==
  ASSUME NEW n \in Nat, idx = n + 1, series.rev \in Nat, NEW acc, Built(acc, n), NEW o \in Operations
  PROVE  Built(Operation(acc, o), n)
  <1>. DEFINE s == acc.tracked
              ver == series.rev + 1
              new == FreshAll(o.ids, ver)
              hits == LaterPending(acc, o.ids[1])
  <1>1. /\ acc.result \in {"ok", "invalid", "panic"} /\ acc.revised \in BOOLEAN /\ acc.at \in Nat
        /\ s \in Seq(Item) /\ Len(s) \in Nat /\ ver \in Nat
        /\ \A i \in 1..Len(s) : s[i] \in Item
        /\ DOMAIN s = 1..Len(s)
    BY LenProperties, ElementOfSeq DEF Built
  <1>2. /\ new \in Seq(Item) /\ Len(new) = Len(o.ids) /\ Len(new) \in Nat
        /\ \A i \in 1..Len(new) : new[i].status # "Done"
    <2>1. o.ids \in Seq(Id)
      BY DEF Operations
    <2>. QED  BY <1>1, <2>1, FreshAllFacts, LenProperties
  <1>. HIDE DEF new
  <1>3. \A i \in hits : i \in 1..Len(s) /\ i > n + 1 /\ s[i].status = "Pending"
    BY <1>1 DEF LaterPending
  <1>. HIDE DEF hits
  \* The same plan, with another verdict.
  <1>4. ASSUME NEW r \in {"ok", "invalid", "panic"} PROVE Built([acc EXCEPT !.result = r], n)
    BY <1>4 DEF Built
  \* A todo after the first n gets another contract.
  <1>5. ASSUME NEW i \in 1..Len(s), i > n, NEW item \in Item, item.status # "Done", NEW b \in BOOLEAN,
               b \/ ~acc.revised
        PROVE  Built([acc EXCEPT !.revised = b, !.tracked[i] = item], n)
    <2>. DEFINE t == [s EXCEPT ![i] = item]
    <2>1. t \in Seq(Item) /\ Len(t) = Len(s) /\ \A j \in 1..Len(s) : t[j] = IF j = i THEN item ELSE s[j]
      BY <1>1, <1>5, ExceptSeq
    <2>. HIDE DEF t
    <2>2. [acc EXCEPT !.revised = b, !.tracked[i] = item] = [acc EXCEPT !.revised = b, !.tracked = t]
      BY DEF t, Built
    <2>3. \A j \in 1..n : t[j] = series.tracked[j]
      BY <1>1, <1>5, <2>1 DEF Built
    <2>4. \A j \in 1..Len(t) : j > n => t[j].status # "Done"
      BY <1>1, <1>5, <2>1 DEF Built
    <2>5. Built([acc EXCEPT !.revised = b, !.tracked = t], n)
      BY <1>1, <1>5, <2>1, <2>3, <2>4 DEF Built
    <2>. QED  BY <2>2, <2>5
  \* Todos are put in, or taken out, after the first n.
  <1>6. ASSUME NEW i \in Nat, i >= n + 1, NEW k \in {0, 1}, i + k <= Len(s) + 1,
               NEW t \in Seq(Item), \A j \in 1..Len(t) : t[j].status # "Done",
               NEW at \in Nat, at >= n + 1, NEW b \in BOOLEAN,
               b \/ (~acc.revised /\ n + 1 <= Len(s) - k)
        PROVE  Built([acc EXCEPT !.revised = b, !.at = at, !.tracked = Splice(s, i, k, t)], n)
    <2>. DEFINE w == Splice(s, i, k, t)
    <2>0. IsSplice(w, s, i, k, t, Item)
      <3>1. k \in Nat /\ i \in Nat \ {0}
        BY <1>6
      <3>. HIDE DEF s
      <3>. QED  BY <1>1, <1>6, <3>1, SpliceFacts
    <2>. HIDE DEF w
    <2>1. /\ w \in Seq(Item) /\ Len(w) = Len(s) - k + Len(t)
          /\ \A j \in 1..(i - 1) : w[j] = s[j]
          /\ \A j \in 1..Len(w) : j >= i =>
               \/ \E m \in 1..Len(t) : w[j] = t[m]
               \/ \E m \in 1..Len(s) : m >= i + k /\ w[j] = s[m]
      BY <2>0 DEF IsSplice
    <2>2. Len(t) \in Nat
      BY LenProperties
    <2>3. n <= Len(w) /\ (~b => n + 1 <= Len(w))
      BY <1>1, <1>6, <2>1, <2>2
    <2>4. \A j \in 1..n : w[j] = series.tracked[j]
      BY <1>6, <2>1 DEF Built
    <2>5. ASSUME NEW j \in 1..Len(w), j > n PROVE w[j].status # "Done"
      <3>1. CASE j < i
        <4>1. w[j] = s[j] /\ j \in 1..Len(s)
          BY <1>1, <1>6, <2>1, <2>2, <2>5, <3>1
        <4>. QED  BY <2>5, <4>1 DEF Built
      <3>2. CASE ~ (j < i)
        <4>1. \/ \E m \in 1..Len(t) : w[j] = t[m]
              \/ \E m \in 1..Len(s) : m >= i + k /\ w[j] = s[m]
          <5>1. j >= i
            <6>1. Len(w) \in Nat
              BY <2>1, LenProperties
            <6>. QED  BY <1>6, <3>2, <6>1
          <5>. QED  BY <2>1, <5>1
        <4>2. \A m \in 1..Len(s) : m >= i + k => m > n
          BY <1>1, <1>6
        <4>. QED  BY <1>6, <4>1, <4>2 DEF Built
      <3>. QED  BY <3>1, <3>2
    <2>6. Built([acc EXCEPT !.revised = b, !.at = at, !.tracked = w], n)
      BY <1>1, <1>6, <2>1, <2>3, <2>4, <2>5 DEF Built
    <2>. QED  BY <2>6 DEF w
  <1>7. CASE acc.result # "ok"
    <2>1. Operation(acc, o) = acc
      BY <1>7 DEF Operation
    <2>. QED  BY <2>1
  <1>8. CASE acc.result = "ok" /\ o.op = "replace_current"
    <2>1. Operation(acc, o) =
            IF acc.revised THEN [acc EXCEPT !.result = "invalid"]
            ELSE [acc EXCEPT !.revised = TRUE,
                     !.tracked[idx] = [s[idx] EXCEPT !.ver = ver, !.status = "Pending"]]
      BY <1>8 DEF Operation
    <2>2. CASE ~acc.revised
      <3>1. idx \in 1..Len(s) /\ idx > n
        BY <1>1, <2>2 DEF Built
      <3>2. /\ [s[idx] EXCEPT !.ver = ver, !.status = "Pending"] \in Item
            /\ [s[idx] EXCEPT !.ver = ver, !.status = "Pending"].status # "Done"
        BY <1>1, <3>1 DEF Item, TodoStatus
      <3>. QED  BY <1>5, <2>1, <2>2, <3>1, <3>2
    <2>. QED  BY <1>4, <2>1, <2>2
  <1>9. CASE acc.result = "ok" /\ o.op = "split_current"
    <2>1. Operation(acc, o) =
            IF acc.revised THEN [acc EXCEPT !.result = "invalid"]
            ELSE [acc EXCEPT !.revised = TRUE, !.at = idx + Len(o.ids),
                             !.tracked = Splice(s, idx, 1, new)]
      BY <1>9 DEF Operation, new
    <2>2. CASE ~acc.revised
      <3>1. /\ idx \in Nat /\ idx >= n + 1 /\ idx + 1 <= Len(s) + 1
            /\ idx + Len(o.ids) \in Nat /\ idx + Len(o.ids) >= n + 1
        <4>1. n + 1 <= Len(s)
          BY <2>2 DEF Built
        <4>2. Len(s) \in Nat /\ Len(o.ids) \in Nat
          BY <1>1, <1>2
        <4>3. \A l, k \in Nat : n + 1 <= l =>
                /\ n + 1 \in Nat /\ n + 1 >= n + 1 /\ n + 1 + 1 <= l + 1
                /\ n + 1 + k \in Nat /\ n + 1 + k >= n + 1
          OBVIOUS
        <4>. QED  BY <4>1, <4>2, <4>3
      <3>2. Built([acc EXCEPT !.revised = TRUE, !.at = idx + Len(o.ids),
                              !.tracked = Splice(s, idx, 1, new)], n)
        BY <1>2, <1>6, <3>1
      <3>. QED  BY <2>1, <2>2, <3>2
    <2>. QED  BY <1>4, <2>1, <2>2
  <1>10. CASE acc.result = "ok" /\ o.op = "append_after_current"
    <2>1. Operation(acc, o) =
            IF ~acc.revised THEN [acc EXCEPT !.result = "invalid"]
            ELSE IF acc.at > Len(s) + 1 THEN [acc EXCEPT !.result = "panic"]
            ELSE [acc EXCEPT !.at = acc.at + Len(o.ids), !.tracked = Splice(s, acc.at, 0, new)]
      BY <1>10 DEF Operation, new
    <2>2. CASE acc.revised /\ ~ (acc.at > Len(s) + 1)
      <3>1. /\ acc.at >= n + 1 /\ acc.at + 0 <= Len(s) + 1
            /\ acc.at + Len(o.ids) \in Nat /\ acc.at + Len(o.ids) >= n + 1
        BY <1>1, <1>2, <2>2 DEF Built
      <3>2. Built([acc EXCEPT !.revised = TRUE, !.at = acc.at + Len(o.ids),
                              !.tracked = Splice(s, acc.at, 0, new)], n)
        BY <1>1, <1>2, <1>6, <3>1
      <3>3. [acc EXCEPT !.revised = TRUE, !.at = acc.at + Len(o.ids), !.tracked = Splice(s, acc.at, 0, new)]
            = [acc EXCEPT !.at = acc.at + Len(o.ids), !.tracked = Splice(s, acc.at, 0, new)]
        BY <2>2 DEF Built
      <3>. QED  BY <2>1, <2>2, <3>2, <3>3
    <2>. QED  BY <1>4, <2>1, <2>2
  <1>. DEFINE i == CHOOSE i \in hits : TRUE
  <1>11. hits # {} => i \in hits
    OBVIOUS
  <1>12. CASE acc.result = "ok" /\ o.op = "revise_pending"
    <2>1. Operation(acc, o) =
            IF hits = {} THEN [acc EXCEPT !.result = "invalid"]
            ELSE [acc EXCEPT !.tracked[i] =
                     [s[i] EXCEPT !.ver = ver, !.revisions = s[i].revisions + 1]]
      BY <1>12 DEF Operation, hits
    <2>2. CASE hits # {}
      <3>1. i \in 1..Len(s) /\ i > n /\ s[i].status = "Pending"
        BY <1>3, <1>11, <2>2
      <3>. DEFINE item == [s[i] EXCEPT !.ver = ver, !.revisions = s[i].revisions + 1]
      <3>2. item \in Item /\ item.status # "Done"
        <4>1. s[i] \in Item /\ ver \in Nat
          BY <1>1, <3>1
        <4>2. s[i].revisions + 1 \in Nat
          BY <4>1 DEF Item
        <4>. HIDE DEF i, s, ver
        <4>. QED  BY <3>1, <4>1, <4>2 DEF Item, TodoStatus
      <3>. HIDE DEF i, item
      <3>3. Built([acc EXCEPT !.revised = acc.revised, !.tracked[i] = item], n)
        BY <1>1, <1>5, <3>1, <3>2
      <3>4. [acc EXCEPT !.revised = acc.revised, !.tracked[i] = item] = [acc EXCEPT !.tracked[i] = item]
        BY DEF Built
      <3>. QED  BY <2>1, <2>2, <3>3, <3>4 DEF item
    <2>. QED  BY <1>4, <2>1, <2>2
  <1>13. CASE acc.result = "ok" /\ o.op = "remove_pending"
    <2>1. Operation(acc, o) =
            IF hits = {} THEN [acc EXCEPT !.result = "invalid"]
            ELSE [acc EXCEPT !.tracked = Splice(s, i, 1, <<>>)]
      BY <1>13 DEF Operation, hits
    <2>2. CASE hits # {}
      <3>1. /\ i \in Nat /\ i >= n + 1 /\ i + 1 <= Len(s) + 1
            /\ n + 1 <= Len(s) - 1
        BY <1>1, <1>3, <1>11, <2>2
      <3>2. <<>> \in Seq(Item) /\ Len(<<>>) = 0
        BY EmptySeq
      <3>. HIDE DEF i
      <3>3. Built([acc EXCEPT !.revised = acc.revised, !.at = acc.at, !.tracked = Splice(s, i, 1, <<>>)], n)
        <4>1. acc.at >= n + 1 /\ (acc.revised \/ (~acc.revised /\ n + 1 <= Len(s) - 1))
          BY <1>1, <3>1 DEF Built
        <4>2. \A j \in 1..Len(<<>>) : <<>>[j].status # "Done"
          BY <3>2
        <4>. QED  BY <1>1, <1>6, <3>1, <3>2, <4>1, <4>2
      <3>4. [acc EXCEPT !.revised = acc.revised, !.at = acc.at, !.tracked = Splice(s, i, 1, <<>>)]
            = [acc EXCEPT !.tracked = Splice(s, i, 1, <<>>)]
        BY DEF Built
      <3>. QED  BY <2>1, <2>2, <3>3, <3>4
    <2>. QED  BY <1>4, <2>1, <2>2
  <1>14. o.op \in {"replace_current", "split_current", "append_after_current",
                   "revise_pending", "remove_pending"}
    BY DEF Operations
  <1>. QED  BY <1>7, <1>8, <1>9, <1>10, <1>12, <1>13, <1>14

\* The recursion over the first m operations.
Steps(f, ops, m) ==
  f = [n \in 0..m |-> IF n = 0 THEN Unrevised ELSE Operation(f[n - 1], ops[n])]

LEMMA StepsExist ==
  ASSUME NEW ops, NEW m \in Nat
  PROVE  \E f : Steps(f, ops, m)
  <1>. DEFINE Wrong == {k \in Nat : ~ \E f : Steps(f, ops, k)}
  <1>. SUFFICES ASSUME Wrong # {} PROVE FALSE
    OBVIOUS
  <1>1. PICK k \in Wrong : \A j \in Wrong : k <= j
    <2>1. Wrong \in SUBSET Nat
      OBVIOUS
    <2>. HIDE DEF Wrong
    <2>. QED  BY <2>1, LeastNumber
  <1>2. k \in Nat /\ ~ \E f : Steps(f, ops, k)
    OBVIOUS
  <1>3. CASE k = 0
    <2>. DEFINE f == [n \in 0..0 |-> Unrevised]
    <2>1. Steps(f, ops, 0)
      BY DEF Steps
    <2>. QED  BY <1>2, <1>3, <2>1
  <1>4. CASE k # 0
    <2>1. k - 1 \in Nat /\ ~ (k <= k - 1)
      BY <1>2, <1>4
    <2>2. PICK g : Steps(g, ops, k - 1)
      BY <1>1, <2>1
    <2>. DEFINE f == [n \in 0..k |-> IF n = k THEN Operation(g[k - 1], ops[k]) ELSE g[n]]
    <2>3. \A n \in 0..(k - 1) : g[n] = IF n = 0 THEN Unrevised ELSE Operation(g[n - 1], ops[n])
      BY <2>2 DEF Steps
    <2>4. ASSUME NEW n \in 0..k
          PROVE  f[n] = IF n = 0 THEN Unrevised ELSE Operation(f[n - 1], ops[n])
      <3>1. CASE n = k
        <4>1. f[n] = Operation(g[k - 1], ops[k]) /\ n # 0 /\ n - 1 \in 0..k /\ n - 1 # k
          BY <1>2, <1>4, <3>1
        <4>2. f[n - 1] = g[k - 1]
          BY <3>1, <4>1
        <4>. QED  BY <3>1, <4>1, <4>2
      <3>2. CASE n # k
        <4>1. f[n] = g[n] /\ n \in 0..(k - 1)
          BY <1>2, <3>2
        <4>2. n # 0 => n - 1 \in 0..k /\ n - 1 # k
          BY <1>2, <4>1
        <4>3. n # 0 => f[n - 1] = g[n - 1]
          BY <4>2
        <4>. QED  BY <2>3, <4>1, <4>3
      <3>. QED  BY <3>1, <3>2
    <2>5. Steps(f, ops, k)
      BY <2>4 DEF Steps
    <2>. QED  BY <1>2, <2>5
  <1>. QED  BY <1>3, <1>4

\* So does the whole list.
LEMMA AllOperationsBuild ==
  ASSUME NEW n \in Nat, idx = n + 1, series.rev \in Nat, Built(Unrevised, n), NEW ops \in Seq(Operations)
  PROVE  Built(AllOperations(ops), n)
  <1>1. Len(ops) \in Nat /\ \A k \in 1..Len(ops) : ops[k] \in Operations
    BY LenProperties, ElementOfSeq
  <1>. DEFINE after == CHOOSE f : Steps(f, ops, Len(ops))
  <1>2. Steps(after, ops, Len(ops))
    BY <1>1, StepsExist
  <1>3. AllOperations(ops) = after[Len(ops)]
    BY DEF AllOperations, Steps
  <1>. HIDE DEF after
  <1>4. \A k \in 0..Len(ops) : after[k] = IF k = 0 THEN Unrevised ELSE Operation(after[k - 1], ops[k])
    BY <1>2 DEF Steps
  <1>. DEFINE Wrong == {k \in Nat : k <= Len(ops) /\ ~Built(after[k], n)}
  <1>5. Wrong = {}
    <2>. SUFFICES ASSUME Wrong # {} PROVE FALSE
      OBVIOUS
    <2>1. PICK k \in Wrong : \A j \in Wrong : k <= j
      <3>1. Wrong \in SUBSET Nat
        OBVIOUS
      <3>. HIDE DEF Wrong
      <3>. QED  BY <3>1, LeastNumber
    <2>2. k \in Nat /\ k <= Len(ops) /\ ~Built(after[k], n) /\ k \in 0..Len(ops)
      BY <1>1
    <2>3. k # 0
      BY <1>4, <2>2
    <2>4. k - 1 \in Nat /\ k - 1 <= Len(ops) /\ ~ (k <= k - 1) /\ k \in 1..Len(ops)
      BY <1>1, <2>2, <2>3
    <2>5. Built(after[k - 1], n)
      BY <2>1, <2>4
    <2>6. Built(Operation(after[k - 1], ops[k]), n)
      BY <1>1, <2>4, <2>5, OperationKeeps
    <2>. QED  BY <1>4, <2>2, <2>3, <2>6
  <1>. QED  BY <1>1, <1>3, <1>5

-----------------------------------------------------------------------------
(* The steps *)

\* What the first n todos of a series say of the commits.
Agree(s, t, n) ==
  /\ t.base = s.base
  /\ \A i \in 1..n : /\ t.tracked[i].id = s.tracked[i].id /\ t.tracked[i].ver = s.tracked[i].ver
                     /\ t.tracked[i].sha = s.tracked[i].sha

\* Series that agree on them have the same chain.
LEMMA AgreeFacts ==
  ASSUME NEW s, NEW t, NEW n \in Nat, Agree(s, t, n)
  PROVE  /\ StackedTo(t, n) <=> StackedTo(s, n)
         /\ EndOf(t, n) = EndOf(s, n)
         /\ \A commit : IsChain(commit, t, n) <=> IsChain(commit, s, n)
  <1>1. \A i \in 0..n : EndOf(t, i) = EndOf(s, i)
    BY DEF Agree, EndOf
  <1>2. StackedTo(t, n) <=> StackedTo(s, n)
    BY <1>1 DEF Agree, StackedTo
  <1>. QED  BY <1>1, <1>2 DEF Agree, IsChain

\* Only what a series says of who is at work differs.
SameShape(s, t) ==
  /\ Len(t.tracked) = Len(s.tracked) /\ t.rev = s.rev /\ Agree(s, t, Len(s.tracked))
  /\ \A i \in 1..Len(s.tracked) :
       /\ t.tracked[i].revisions = s.tracked[i].revisions
       /\ t.tracked[i].status = "Done" <=> s.tracked[i].status = "Done"

\* The parts of a series.
LEMMA SeriesFacts ==
  ASSUME NEW s \in Series
  PROVE  /\ Len(s.tracked) \in Nat /\ DOMAIN s.tracked = 1..Len(s.tracked)
         /\ \A i \in 1..Len(s.tracked) : s.tracked[i] \in Item
         /\ s.rev \in Nat /\ s.updates \in Nat /\ s.finals \in Nat /\ s.base \in Commits
         /\ s.tracked \in Seq(Item)
         /\ \A n \in 0..Len(s.tracked) : EndOf(s, n) \in Commits
  <1>1. /\ s.rev \in Nat /\ s.updates \in Nat /\ s.finals \in Nat /\ s.base \in Commits
        /\ s.tracked \in Seq(Item)
    BY DEF Series
  <1>2. /\ Len(s.tracked) \in Nat /\ DOMAIN s.tracked = 1..Len(s.tracked)
        /\ \A i \in 1..Len(s.tracked) : s.tracked[i] \in Item
    BY <1>1, LenProperties, ElementOfSeq
  <1>3. \A n \in 0..Len(s.tracked) : EndOf(s, n) \in Commits
    BY <1>1, <1>2 DEF EndOf, Item
  <1>. QED  BY <1>1, <1>2, <1>3

\* Then they are the same plan to the driver.
LEMMA ShapeFacts ==
  ASSUME NEW s \in Series, NEW t, SameShape(s, t)
  PROVE  /\ Unique(s) => Unique(t)
         /\ \A n \in 0..Len(s.tracked) :
              /\ DoneTo(s, n) => DoneTo(t, n)
              /\ StackedTo(t, n) <=> StackedTo(s, n)
              /\ EndOf(t, n) = EndOf(s, n)
              /\ \A commit : IsChain(commit, t, n) <=> IsChain(commit, s, n)
         /\ \A i \in 1..Len(s.tracked) :
              /\ KeyOf(t, i) = KeyOf(s, i)
              /\ \A run, below, h :
                   RunFits(run, t.tracked[i], below, h) <=> RunFits(run, s.tracked[i], below, h)
  <1>1. Len(s.tracked) \in Nat
    BY SeriesFacts
  <1>2. \A n \in 0..Len(s.tracked) : n \in Nat /\ Agree(s, t, n)
    BY <1>1 DEF SameShape, Agree
  <1>3. Unique(s) => Unique(t)
    BY DEF SameShape, Agree, Unique
  <1>4. \A n \in 0..Len(s.tracked) : DoneTo(s, n) => DoneTo(t, n)
    BY DEF SameShape, DoneTo
  <1>5. ASSUME NEW i \in 1..Len(s.tracked)
        PROVE  /\ KeyOf(t, i) = KeyOf(s, i)
               /\ \A run, below, h :
                    RunFits(run, t.tracked[i], below, h) <=> RunFits(run, s.tracked[i], below, h)
    <2>1. /\ t.tracked[i].id = s.tracked[i].id /\ t.tracked[i].ver = s.tracked[i].ver
          /\ t.rev = s.rev /\ t.tracked[i].revisions = s.tracked[i].revisions
      BY DEF SameShape, Agree
    <2>. QED  BY <2>1 DEF KeyOf, RunFits, IsFor
  <1>. QED  BY <1>2, <1>3, <1>4, <1>5, AgreeFacts

\* The status of the todo at work changes, but it is not done.
LEMMA StatusFacts ==
  ASSUME Types, NEW n \in Nat, DoneTo(series, n), n < Len(series.tracked),
         NEW st \in TodoStatus \ {"Done"},
         NEW t, t = SetItem(n + 1, [series.tracked[n + 1] EXCEPT !.status = st])
  PROVE  t \in Series /\ SameShape(series, t)
  <1>. DEFINE item == [series.tracked[n + 1] EXCEPT !.status = st]
              tracked == [series.tracked EXCEPT ![n + 1] = item]
  <1>1. series \in Series
    BY DEF Types
  <1>2. /\ Len(series.tracked) \in Nat /\ series.tracked \in Seq(Item)
        /\ n + 1 \in 1..Len(series.tracked) /\ series.tracked[n + 1] \in Item
    BY <1>1, SeriesFacts
  <1>3. item \in Item
    BY <1>2 DEF Item
  <1>4. /\ item.id = series.tracked[n + 1].id /\ item.ver = series.tracked[n + 1].ver
        /\ item.sha = series.tracked[n + 1].sha /\ item.revisions = series.tracked[n + 1].revisions
        /\ item.status # "Done" /\ series.tracked[n + 1].status # "Done"
    BY <1>2 DEF Item, DoneTo
  <1>. HIDE DEF item
  <1>5. /\ tracked \in Seq(Item) /\ Len(tracked) = Len(series.tracked)
        /\ \A j \in 1..Len(series.tracked) : tracked[j] = IF j = n + 1 THEN item ELSE series.tracked[j]
    BY <1>2, <1>3, ExceptSeq
  <1>6. t = [series EXCEPT !.tracked = tracked]
    BY <1>1 DEF SetItem, item, Series
  <1>. HIDE DEF tracked
  <1>7. t \in Series /\ t.tracked = tracked /\ t.rev = series.rev /\ t.base = series.base
    BY <1>1, <1>5, <1>6 DEF Series
  <1>. QED  BY <1>2, <1>4, <1>5, <1>7 DEF SameShape, Agree

\* Such a change keeps what is said of the plan.
LEMMA ShapePlan ==
  ASSUME Types, NEW n \in Nat, PlanInv(n), series.rev # 0, SameShape(series, series')
  PROVE  PlanInv(n)'
  <1>1. series \in Series /\ n \in 0..Len(series.tracked)
    BY SeriesFacts DEF Types, PlanInv, DoneTo
  <1>2. series'.rev = series.rev /\ series'.base = series.base
    BY DEF SameShape, Agree
  <1>3. /\ Unique(series')
        /\ DoneTo(series', n)
        /\ StackedTo(series', n) <=> StackedTo(series, n)
        /\ EndOf(series', n) = EndOf(series, n)
        /\ \A commit : IsChain(commit, series', n) <=> IsChain(commit, series, n)
    BY <1>1, ShapeFacts DEF PlanInv
  <1>. QED  BY <1>2, <1>3 DEF PlanInv

\* It keeps what is said of the snapshots, when the run that is next still fits.
LEMMA ShapeSnap ==
  ASSUME Types, NEW n \in Nat, DoneTo(series, n), SnapInv(n), SameShape(series, series'),
         DOMAIN snaps' = DOMAIN snaps,
         n < Len(series.tracked) /\ StackedTo(series, n) /\ KeyOf(series, n + 1) \in DOMAIN snaps =>
           RunFits(snaps'[KeyOf(series, n + 1)], series.tracked[n + 1], EndOf(series, n), head')
  PROVE  SnapInv(n)'
  <1>1. series \in Series /\ n \in 0..Len(series.tracked)
    BY SeriesFacts DEF Types, DoneTo
  <1>2. n < Len(series.tracked) => n + 1 \in 1..Len(series.tracked)
    BY <1>1, SeriesFacts
  <1>3. Len(series'.tracked) = Len(series.tracked) /\ series'.rev = series.rev
    BY DEF SameShape
  <1>4. /\ StackedTo(series', n) <=> StackedTo(series, n)
        /\ EndOf(series', n) = EndOf(series, n)
    BY <1>1, ShapeFacts
  <1>5. n < Len(series.tracked) =>
          /\ KeyOf(series', n + 1) = KeyOf(series, n + 1)
          /\ \A run, below, h : RunFits(run, series'.tracked[n + 1], below, h)
                                <=> RunFits(run, series.tracked[n + 1], below, h)
    BY <1>1, <1>2, ShapeFacts
  <1>6. \A j \in DOMAIN snaps' :
          j[1] <= n \/ j[3] < series'.rev \/ (n < Len(series'.tracked) /\ j = KeyOf(series', n + 1))
    BY <1>3, <1>5 DEF SnapInv
  <1>7. n < Len(series'.tracked) /\ StackedTo(series', n) /\ KeyOf(series', n + 1) \in DOMAIN snaps' =>
          RunFits(snaps'[KeyOf(series', n + 1)], series'.tracked[n + 1], EndOf(series', n), head')
    BY <1>3, <1>4, <1>5
  <1>. QED  BY <1>6, <1>7 DEF SnapInv

\* What the driver has in hand while a run is at work.
LEMMA WorkFacts ==
  ASSUME Types, NEW n \in Nat, InvAt(n), phase = "work"
  PROVE  /\ idx = n + 1 /\ n + 1 \in 1..Len(series.tracked) /\ Key = KeyOf(series, n + 1)
         /\ Key \in DOMAIN snaps /\ Cur \in RunState
         /\ Tracked(idx) = series.tracked[n + 1] /\ Tracked(idx) \in Item
         /\ series.rev # 0 /\ series.rev \in Nat
         /\ EndOf(series, n) \in Commits /\ EndOf(series, n) # <<>>
         /\ StackedTo(series, n) /\ IsChain(EndOf(series, n), series, n)
         /\ RunFits(Cur, Tracked(idx), EndOf(series, n), head)
  <1>1. /\ idx = n + 1 /\ n < Len(series.tracked) /\ StackedTo(series, n)
        /\ KeyOf(series, n + 1) \in DOMAIN snaps /\ series.rev # 0
    BY DEF InvAt, PhaseInv, Underway
  <1>2. /\ Len(series.tracked) \in Nat /\ n + 1 \in 1..Len(series.tracked) /\ n \in 0..Len(series.tracked)
        /\ series.rev \in Nat /\ series.tracked[n + 1] \in Item /\ EndOf(series, n) \in Commits
    BY <1>1, SeriesFacts DEF Types
  <1>3. Key = KeyOf(series, n + 1) /\ Tracked(idx) = series.tracked[n + 1]
    BY <1>1 DEF Key, KeyOf, Tracked
  <1>4. Cur \in RunState /\ Cur = snaps[KeyOf(series, n + 1)]
    BY <1>1, <1>3 DEF Cur, Types
  <1>5. IsChain(EndOf(series, n), series, n)
    BY <1>1 DEF InvAt, PlanInv
  <1>6. EndOf(series, n) # <<>>
    BY <1>2, <1>5, EmptySeq DEF IsChain
  <1>7. RunFits(Cur, Tracked(idx), EndOf(series, n), head)
    BY <1>1, <1>3, <1>4 DEF InvAt, SnapInv
  <1>. QED  BY <1>1, <1>2, <1>3, <1>4, <1>5, <1>6, <1>7

\* A step of the run.
LEMMA RunStep ==
  ASSUME Types, NEW n \in Nat, InvAt(n), phase = "work", NEW run \in RunState,
         snaps' = [snaps EXCEPT ![Key] = run], UNCHANGED <<series, phase, idx, runs>>,
         head' \in Commits, head' # <<>>, Distinct(head'), made' \in Commits,
         RunFits(run, Tracked(idx), EndOf(series, n), head')
  PROVE  SeriesInv'
  <1>1. Key = KeyOf(series, n + 1) /\ Key \in DOMAIN snaps /\ Tracked(idx) = series.tracked[n + 1]
        /\ series.rev # 0
    BY WorkFacts
  <1>2. /\ DOMAIN snaps' = DOMAIN snaps /\ snaps' \in [DOMAIN snaps -> RunState]
        /\ snaps'[Key] = run
    BY <1>1 DEF Types
  <1>3. Types'
    BY <1>2 DEF Types
  <1>4. PlanInv(n)'
    BY <1>1 DEF InvAt, PlanInv
  <1>5. PhaseInv(n)'
    BY <1>2 DEF InvAt, PhaseInv
  <1>6. SnapInv(n)'
    BY <1>1, <1>2 DEF InvAt, SnapInv
  <1>. QED  BY <1>3, <1>4, <1>5, <1>6 DEF SeriesInv, InvAt

\* HEAD, the plan and the snapshots stay.
LEMMA ControlStep ==
  ASSUME Types, NEW n \in Nat, InvAt(n), Distinct(head), UNCHANGED <<head, series, snaps>>,
         phase' \in Phases, idx' \in Nat \ {0}, made' \in Commits, runs' \in 0..MaxRuns, PhaseInv(n)'
  PROVE  SeriesInv'
  <1>1. Types'
    BY DEF Types
  <1>2. PlanInv(n)' /\ SnapInv(n)'
    BY DEF InvAt, PlanInv, SnapInv
  <1>. QED  BY <1>1, <1>2 DEF SeriesInv, InvAt

\* The plan is another from todo n + 1 on, and has a revision of its own.
LEMMA RevisionStep ==
  ASSUME Types, NEW n \in Nat, InvAt(n), Distinct(head), series.rev # 0, UNCHANGED <<head, snaps>>,
         series' \in Series, series'.rev = series.rev + 1, series'.base = series.base,
         \A i \in 1..n : series'.tracked[i] = series.tracked[i],
         DoneTo(series', n), Unique(series'),
         phase' = "choose", idx' \in Nat \ {0}, idx' <= n + 1, UNCHANGED <<made, runs>>
  PROVE  SeriesInv'
  <1>1. Agree(series, series', n)
    BY DEF Agree
  <1>2. /\ StackedTo(series', n) <=> StackedTo(series, n)
        /\ EndOf(series', n) = EndOf(series, n)
        /\ \A commit : IsChain(commit, series', n) <=> IsChain(commit, series, n)
    BY <1>1, AgreeFacts
  <1>3. series.rev \in Nat /\ series'.rev # 0
    BY SeriesFacts DEF Types
  <1>4. PlanInv(n)'
    BY <1>2, <1>3 DEF InvAt, PlanInv
  <1>5. PhaseInv(n)'
    BY <1>3 DEF PhaseInv, Underway
  <1>6. Types'
    BY DEF Types, Phases
  <1>7. ASSUME NEW k \in DOMAIN snaps
        PROVE  k[1] <= n \/ k[3] < series'.rev
    <2>1. k[1] <= n \/ k[3] < series.rev \/ k = KeyOf(series, n + 1)
      BY DEF InvAt, SnapInv
    <2>2. k = KeyOf(series, n + 1) => k[3] = series.rev
      BY DEF KeyOf
    <2>3. k[3] \in Nat
      BY DEF Types
    <2>. QED  BY <1>3, <2>1, <2>2, <2>3
  <1>8. KeyOf(series', n + 1) \notin DOMAIN snaps
    <2>1. KeyOf(series', n + 1)[1] = n + 1 /\ KeyOf(series', n + 1)[3] = series'.rev
      BY DEF KeyOf
    <2>2. ~ (n + 1 <= n) /\ ~ (series'.rev < series'.rev)
      BY <1>3
    <2>. QED  BY <1>7, <2>1, <2>2
  <1>9. SnapInv(n)'
    BY <1>7, <1>8 DEF SnapInv
  <1>. QED  BY <1>4, <1>5, <1>6, <1>9 DEF SeriesInv, InvAt

\* Over the first n todos the driver's own operators say what the invariant says.
LEMMA PrefixFacts ==
  ASSUME Types, NEW n \in Nat, DoneTo(series, n)
  PROVE  /\ DoneCount = n
         /\ Stacked(n) <=> StackedTo(series, n)
         /\ HeadAfter(n) = EndOf(series, n)
  <1>1. Len(series.tracked) \in Nat /\ n <= Len(series.tracked)
    BY SeriesFacts DEF Types, DoneTo
  <1>. DEFINE P(m) == /\ \A i \in 1..m : Tracked(i).status = "Done"
                      /\ m < Len(series.tracked) => Tracked(m + 1).status # "Done"
  <1>2. n \in 0..Len(series.tracked) /\ P(n)
    BY <1>1 DEF DoneTo, Tracked
  <1>3. ASSUME NEW m \in 0..Len(series.tracked), P(m) PROVE m = n
    <2>1. CASE m < n
      <3>1. m + 1 \in 1..Len(series.tracked) /\ m + 1 <= n /\ m < Len(series.tracked)
        BY <1>1, <2>1
      <3>. QED  BY <1>3, <3>1 DEF DoneTo, Tracked
    <2>2. CASE n < m
      <3>1. n + 1 \in 1..Len(series.tracked) /\ n + 1 \in 1..m /\ ~ (n + 1 <= n)
        BY <1>1, <2>2
      <3>. QED  BY <1>3, <3>1 DEF DoneTo, Tracked
    <2>. QED  BY <1>1, <2>1, <2>2
  <1>4. DoneCount = n
    <2>1. DoneCount = CHOOSE m \in 0..Len(series.tracked) : P(m)
      BY DEF DoneCount
    <2>. HIDE DEF P
    <2>. QED  BY <1>2, <1>3, <2>1
  <1>5. \A i \in Nat : HeadAfter(i) = EndOf(series, i)
    BY DEF HeadAfter, EndOf, Tracked
  <1>6. Stacked(n) <=> StackedTo(series, n)
    BY <1>5 DEF Stacked, StackedTo, Tracked
  <1>. QED  BY <1>4, <1>5, <1>6

\* A change for the todo that is next, on the chain of the todos that are done or in the
\* place of its last commit, is the only one of its todo.
LEMMA NextChange ==
  ASSUME Types, NEW n \in Nat, n < Len(series.tracked), Unique(series),
         NEW c \in Commits, IsChain(c, series, n),
         NEW e \in Changes, e.todo = series.tracked[n + 1].id,
         NEW p \in {c, Parent(c)}
  PROVE  Append(p, e) \in Commits /\ Append(p, e) # <<>> /\ Distinct(Append(p, e))
  <1>1. c # <<>> /\ Len(c) = n + 1
    BY EmptySeq DEF IsChain
  <1>2. /\ p \in Commits /\ Len(p) \in Nat /\ Len(p) <= n + 1
        /\ \A i \in 1..Len(p) : p[i] = c[i]
    <2>1. /\ c \in Seq(Changes) /\ Parent(c) \in Seq(Changes) /\ Len(Parent(c)) = Len(c) - 1
          /\ \A i \in 1..(Len(c) - 1) : Parent(c)[i] = c[i]
      BY <1>1, FrontFacts DEF Commits
    <2>2. CASE p = c
      BY <1>1, <2>1, <2>2 DEF Commits
    <2>3. CASE p = Parent(c)
      BY <1>1, <2>1, <2>3 DEF Commits
    <2>. QED  BY <2>2, <2>3
  <1>3. /\ Append(p, e) \in Seq(Changes) /\ Append(p, e) # <<>> /\ Len(Append(p, e)) = Len(p) + 1
        /\ \A i \in 1..Len(p) : Append(p, e)[i] = p[i]
        /\ Append(p, e)[Len(p) + 1] = e
    BY <1>2, AppendProperties DEF Commits
  <1>. DEFINE q == Append(p, e)
  <1>4. /\ Len(series.tracked) \in Nat
        /\ \A i \in 1..Len(series.tracked) : series.tracked[i].id \in Id
    BY SeriesFacts DEF Types, Item
  <1>5. \A i \in 1..Len(p) : q[i].todo = IF i = 1 THEN NoId ELSE series.tracked[i - 1].id
    <2>. TAKE i \in 1..Len(p)
    <2>1. q[i] = c[i]
      BY <1>2, <1>3
    <2>2. c[1].todo = NoId
      BY DEF IsChain, Root
    <2>3. i # 1 => i - 1 \in 1..n /\ i = (i - 1) + 1
      BY <1>2
    <2>4. i # 1 => c[i].todo = series.tracked[i - 1].id
      BY <2>3 DEF IsChain
    <2>. QED  BY <2>1, <2>2, <2>4
  <1>6. q[Len(p) + 1].todo = series.tracked[n + 1].id
    BY <1>3
  <1>. HIDE DEF q
  <1>7. ASSUME NEW i \in 1..Len(p), NEW j \in 1..Len(p), q[i].todo = q[j].todo
        PROVE  i = j
    <2>1. CASE i = 1 \/ j = 1
      <3>1. \A k \in 1..Len(p) : k # 1 => k - 1 \in 1..Len(series.tracked)
        BY <1>2, <1>4
      <3>2. \A k \in 1..Len(p) : k # 1 => q[k].todo # NoId
        BY <1>4, <1>5, <3>1, IdAssumption
      <3>3. \A k \in 1..Len(p) : k = 1 => q[k].todo = NoId
        BY <1>5
      <3>. QED  BY <1>7, <2>1, <3>2, <3>3
    <2>2. CASE i # 1 /\ j # 1
      <3>1. i - 1 \in 1..Len(series.tracked) /\ j - 1 \in 1..Len(series.tracked)
        BY <1>2, <1>4, <2>2
      <3>2. series.tracked[i - 1].id = series.tracked[j - 1].id
        BY <1>5, <1>7, <2>2
      <3>3. i - 1 = j - 1
        BY <3>1, <3>2 DEF Unique
      <3>. QED  BY <3>3
    <2>. QED  BY <2>1, <2>2
  <1>8. ASSUME NEW i \in 1..Len(p) PROVE q[i].todo # q[Len(p) + 1].todo
    <2>1. n + 1 \in 1..Len(series.tracked)
      BY <1>4
    <2>2. CASE i = 1
      BY <1>4, <1>5, <1>6, <2>1, <2>2, IdAssumption
    <2>3. CASE i # 1
      <3>1. i - 1 \in 1..Len(series.tracked) /\ i - 1 # n + 1
        BY <1>2, <1>4, <2>3
      <3>. QED  BY <1>5, <1>6, <2>1, <2>3, <3>1 DEF Unique
    <2>. QED  BY <2>2, <2>3
  <1>9. Distinct(q)
    <2>1. Len(q) = Len(p) + 1
      BY <1>3 DEF q
    <2>2. \A i \in 1..Len(q) : i \in 1..Len(p) \/ i = Len(p) + 1
      BY <1>2, <2>1
    <2>. QED  BY <1>7, <1>8, <2>2 DEF Distinct
  <1>. QED  BY <1>3, <1>9 DEF q, Commits

-----------------------------------------------------------------------------
(* The steps of a run *)

\* Each step of a run keeps the invariant.
LEMMA ResearchKeeps == SeriesInv /\ Research => SeriesInv'
  <1>. SUFFICES ASSUME SeriesInv, Research PROVE SeriesInv'
    OBVIOUS
  <1>1. PICK n \in Nat : InvAt(n)
    BY DEF SeriesInv
  <1>2. /\ Types /\ Distinct(head) /\ phase = "work" /\ Cur \in RunState /\ Cur.at = "research"
        /\ RunFits(Cur, Tracked(idx), EndOf(series, n), head) /\ series.rev \in Nat /\ series.rev # 0
    BY <1>1, WorkFacts DEF SeriesInv, Research, Working
  <1>3. PICK v \in Verdicts :
          SetCur([Cur EXCEPT !.verdict = v, !.at = IF v.kind = "confirmed" THEN "patch" ELSE "ended"])
    BY DEF Research
  <1>. DEFINE run == [Cur EXCEPT !.verdict = v, !.at = IF v.kind = "confirmed" THEN "patch" ELSE "ended"]
  <1>4. v \in Verdict
    BY <1>2 DEF Verdicts, Verdict
  <1>5. run \in RunState
    BY <1>2, <1>4 DEF RunState, At
  <1>6. /\ run.attempt = Cur.attempt /\ run.verdict = v
        /\ run.at = IF v.kind = "confirmed" THEN "patch" ELSE "ended"
    BY <1>2 DEF RunState
  <1>7. RunFits(run, Tracked(idx), EndOf(series, n), head)
    <2>. HIDE DEF run
    <2>. QED  BY <1>2, <1>6 DEF RunFits
  <1>8. snaps' = [snaps EXCEPT ![Key] = run]
    BY <1>3 DEF SetCur
  <1>9. UNCHANGED <<head, series, phase, idx, made, runs>>
    BY DEF Research, Inner
  <1>10. head \in Commits /\ head # <<>> /\ made \in Commits
    BY <1>2 DEF Types
  <1>. HIDE DEF run
  <1>. QED  BY <1>1, <1>2, <1>5, <1>7, <1>8, <1>9, <1>10, RunStep

\* A step of the run that leaves HEAD alone.
LEMMA QuietStep ==
  ASSUME SeriesInv, NEW n \in Nat, InvAt(n), phase = "work", NEW run \in RunState,
         SetCur(run), UNCHANGED <<head, series, phase, idx, runs>>, made' \in Commits,
         RunFits(run, Tracked(idx), EndOf(series, n), head)
  PROVE  SeriesInv'
  <1>1. Types /\ Distinct(head) /\ head \in Commits /\ head # <<>>
    BY DEF SeriesInv, Types
  <1>2. snaps' = [snaps EXCEPT ![Key] = run]
    BY DEF SetCur
  <1>. QED  BY <1>1, <1>2, RunStep

LEMMA WritePatchKeeps == SeriesInv /\ WritePatch => SeriesInv'
  <1>. SUFFICES ASSUME SeriesInv, WritePatch PROVE SeriesInv'
    OBVIOUS
  <1>1. PICK n \in Nat : InvAt(n)
    BY DEF SeriesInv
  <1>2. /\ Types /\ phase = "work" /\ Cur \in RunState /\ Cur.at = "patch"
        /\ RunFits(Cur, Tracked(idx), EndOf(series, n), head)
    BY <1>1, WorkFacts DEF SeriesInv, WritePatch, Working
  <1>3. UNCHANGED <<head, series, phase, idx, made, runs>> /\ made \in Commits
    BY <1>2 DEF WritePatch, Inner, Types
  <1>4. Cur.verdict.kind = "confirmed" /\ Cur.verdict \in Verdict
    BY <1>2 DEF RunFits, RunState
  <1>5. CASE SetCur([Cur EXCEPT !.at = "commit"])
    <2>. DEFINE run == [Cur EXCEPT !.at = "commit"]
    <2>1. run \in RunState /\ run.attempt = Cur.attempt /\ run.verdict = Cur.verdict /\ run.at = "commit"
      BY <1>2 DEF RunState, At
    <2>2. SetCur(run)
      BY <1>5
    <2>. HIDE DEF run
    <2>3. RunFits(run, Tracked(idx), EndOf(series, n), head)
      BY <1>2, <1>4, <2>1 DEF RunFits
    <2>. QED  BY <1>1, <1>2, <1>3, <2>1, <2>2, <2>3, QuietStep
  <1>6. CASE SetCur([Cur EXCEPT !.at = "review", !.dispute = TRUE, !.skipped = TRUE])
    <2>. DEFINE run == [Cur EXCEPT !.at = "review", !.dispute = TRUE, !.skipped = TRUE]
    <2>1. run \in RunState /\ run.attempt = Cur.attempt /\ run.verdict = Cur.verdict /\ run.at = "review"
      BY <1>2 DEF RunState, At
    <2>2. SetCur(run)
      BY <1>6
    <2>. HIDE DEF run
    <2>3. RunFits(run, Tracked(idx), EndOf(series, n), head)
      BY <1>2, <1>4, <2>1 DEF RunFits
    <2>. QED  BY <1>1, <1>2, <1>3, <2>1, <2>2, <2>3, QuietStep
  <1>. QED  BY <1>5, <1>6 DEF WritePatch

LEMMA IntentKeeps == SeriesInv /\ Intent => SeriesInv'
  <1>. SUFFICES ASSUME SeriesInv, Intent PROVE SeriesInv'
    OBVIOUS
  <1>1. PICK n \in Nat : InvAt(n)
    BY DEF SeriesInv
  <1>2. /\ Types /\ phase = "work" /\ Cur \in RunState /\ Cur.at = "commit"
        /\ RunFits(Cur, Tracked(idx), EndOf(series, n), head)
    BY <1>1, WorkFacts DEF SeriesInv, Intent, Working
  <1>3. UNCHANGED <<head, series, phase, idx, made, runs>> /\ made \in Commits /\ head \in Commits
    BY <1>2 DEF Intent, Inner, Types
  <1>. DEFINE run == [Cur EXCEPT !.at = "pending", !.attempt = @ + 1, !.pre = head, !.skipped = FALSE]
  <1>4. /\ run \in RunState /\ run.attempt = Cur.attempt + 1 /\ Cur.attempt \in Nat
        /\ run.verdict = Cur.verdict /\ run.at = "pending" /\ run.pre = head
    <2>1. Cur.attempt \in Nat /\ Cur.attempt + 1 \in Nat
      BY <1>2 DEF RunState
    <2>. QED  BY <1>2, <1>3, <2>1 DEF RunState, At
  <1>5. SetCur(run)
    BY DEF Intent
  <1>. HIDE DEF run
  <1>6. Cur.verdict.kind = "confirmed"
    BY <1>2 DEF RunFits
  <1>7. run.attempt # 0 /\ (run.attempt = 1 => Cur.attempt = 0)
    BY <1>4
  <1>8. RunFits(run, Tracked(idx), EndOf(series, n), head)
    BY <1>2, <1>4, <1>6, <1>7 DEF RunFits
  <1>. QED  BY <1>1, <1>2, <1>3, <1>4, <1>5, <1>8, QuietStep

LEMMA GitCommitKeeps == SeriesInv /\ GitCommit => SeriesInv'
  <1>. SUFFICES ASSUME SeriesInv, GitCommit PROVE SeriesInv'
    OBVIOUS
  <1>1. PICK n \in Nat : InvAt(n)
    BY DEF SeriesInv
  <1>. DEFINE below == EndOf(series, n)
  <1>2. /\ Types /\ Distinct(head) /\ phase = "work" /\ Cur \in RunState /\ Cur.at = "pending"
        /\ RunFits(Cur, Tracked(idx), below, head) /\ below \in Commits /\ IsChain(below, series, n)
        /\ n + 1 \in 1..Len(series.tracked) /\ Tracked(idx) = series.tracked[n + 1]
        /\ Tracked(idx) \in Item /\ Key \in DOMAIN snaps
    BY <1>1, WorkFacts DEF SeriesInv, GitCommit, Working
  <1>3. UNCHANGED <<series, snaps, phase, idx, runs>>
    BY DEF GitCommit
  <1>4. snaps' = [snaps EXCEPT ![Key] = Cur]
    BY <1>2, <1>3 DEF Types, Cur
  <1>5. head \in Commits /\ head # <<>>
    BY <1>2 DEF Types
  <1>6. CASE UNCHANGED head /\ made' = head
    BY <1>1, <1>2, <1>3, <1>4, <1>5, <1>6, RunStep
  <1>7. CASE head' = Append(IntendedParent, Change) /\ made' = head'
    <2>1. IntendedParent \in {below, Parent(below)}
      <3>1. /\ Cur.attempt \in Nat /\ Cur.attempt # 0
            /\ Cur.attempt = 1 => Cur.pre = below
            /\ Cur.pre = below \/ Parent(Cur.pre) \in {below, Parent(below)}
        BY <1>2 DEF RunState, RunFits, IsFor
      <3>2. Amends(Cur.attempt) \/ Cur.attempt = 1
        BY <3>1 DEF Amends
      <3>. HIDE DEF below
      <3>. QED  BY <3>1, <3>2 DEF IntendedParent
    <2>2. /\ Change \in Changes /\ Change.todo = Tracked(idx).id /\ Change.ver = Tracked(idx).ver
      BY <1>2, BudgetAssumption DEF Change, Changes, Item, RunState
    <2>. HIDE DEF below
    <2>3. n < Len(series.tracked) /\ Unique(series)
      <3>1. Len(series.tracked) \in Nat
        BY <1>2, SeriesFacts DEF Types
      <3>. QED  BY <1>1, <1>2, <3>1 DEF InvAt, PlanInv
    <2>4. head' \in Commits /\ head' # <<>> /\ Distinct(head')
      BY <1>2, <1>7, <2>1, <2>2, <2>3, NextChange
    <2>5. IntendedParent \in Commits
      <3>1. below # <<>>
        BY <1>1, <1>2, WorkFacts DEF below
      <3>. QED  BY <1>2, <2>1, <3>1, FrontFacts DEF Commits
    <2>6. Parent(head') = IntendedParent /\ Last(head') = Change
      BY <1>7, <2>2, <2>5, AppendFacts DEF Commits
    <2>7. IsFor(head', Tracked(idx), below)
      BY <2>1, <2>2, <2>4, <2>6 DEF IsFor
    <2>8. RunFits(Cur, Tracked(idx), below, head')
      BY <1>2, <2>7 DEF RunFits
    <2>. QED  BY <1>1, <1>2, <1>3, <1>4, <1>7, <2>4, <2>8, RunStep DEF below
  <1>. QED  BY <1>6, <1>7 DEF GitCommit

LEMMA SaveCommitKeeps == SeriesInv /\ SaveCommit => SeriesInv'
  <1>. SUFFICES ASSUME SeriesInv, SaveCommit PROVE SeriesInv'
    OBVIOUS
  <1>1. PICK n \in Nat : InvAt(n)
    BY DEF SeriesInv
  <1>2. /\ Types /\ phase = "work" /\ Cur \in RunState /\ Cur.at = "pending"
        /\ RunFits(Cur, Tracked(idx), EndOf(series, n), head)
    BY <1>1, WorkFacts DEF SeriesInv, SaveCommit, Working
  <1>3. UNCHANGED <<head, series, phase, idx, runs>> /\ made' \in Commits /\ made \in Commits
    BY <1>2, EmptySeq DEF SaveCommit, NoCommit, Types, Commits
  <1>. DEFINE run == [Cur EXCEPT !.at = "review", !.sha = made]
  <1>4. /\ run \in RunState /\ run.attempt = Cur.attempt /\ run.verdict = Cur.verdict /\ run.at = "review"
    BY <1>2, <1>3 DEF RunState, At
  <1>5. SetCur(run)
    BY DEF SaveCommit
  <1>. HIDE DEF run
  <1>6. RunFits(run, Tracked(idx), EndOf(series, n), head)
    BY <1>2, <1>4 DEF RunFits
  <1>. QED  BY <1>1, <1>2, <1>3, <1>4, <1>5, <1>6, QuietStep

LEMMA ReviewKeeps == SeriesInv /\ (ReviewAccepts \/ ReviewRejects) => SeriesInv'
  <1>. SUFFICES ASSUME SeriesInv, ReviewAccepts \/ ReviewRejects PROVE SeriesInv'
    OBVIOUS
  <1>1. PICK n \in Nat : InvAt(n)
    BY DEF SeriesInv
  <1>2. /\ Types /\ phase = "work" /\ Cur \in RunState /\ Cur.at = "review"
        /\ RunFits(Cur, Tracked(idx), EndOf(series, n), head)
    BY <1>1, WorkFacts DEF SeriesInv, ReviewAccepts, ReviewRejects, Working
  <1>3. UNCHANGED <<head, series, phase, idx, made, runs>> /\ made \in Commits
    BY <1>2 DEF ReviewAccepts, ReviewRejects, Inner, Types
  <1>4. Cur.verdict.kind = "confirmed"
    BY <1>2 DEF RunFits
  \* Whatever becomes of the round, a run that is past research goes on.
  <1>5. ASSUME NEW run \in RunState, SetCur(run), run.attempt = Cur.attempt,
               run.verdict = Cur.verdict, run.at \in {"patch", "commit", "review", "ended", "failed"}
        PROVE  SeriesInv'
    <2>1. RunFits(run, Tracked(idx), EndOf(series, n), head)
      BY <1>2, <1>4, <1>5 DEF RunFits
    <2>. QED  BY <1>1, <1>2, <1>3, <1>5, <2>1, QuietStep
  <1>6. ASSUME NEW at \in {"ended", "failed"}, SetCur([Cur EXCEPT !.at = at])
        PROVE  SeriesInv'
    <2>. DEFINE run == [Cur EXCEPT !.at = at]
    <2>1. run \in RunState /\ run.attempt = Cur.attempt /\ run.verdict = Cur.verdict /\ run.at = at
      BY <1>2, <1>6 DEF RunState, At
    <2>2. SetCur(run)
      BY <1>6
    <2>. HIDE DEF run
    <2>. QED  BY <1>5, <1>6, <2>1, <2>2
  <1>7. ASSUME NEW target \in {"patch", "commit", "review"}, SetCur(Rejected(Cur, target)),
               Cur.round < MaxRounds
        PROVE  SeriesInv'
    <2>. DEFINE run == Rejected(Cur, target)
    <2>1. Cur.round + 1 \in 1..MaxRounds /\ <<>> \in Commits
      BY <1>2, <1>7, BudgetAssumption, EmptySeq DEF RunState, Commits
    <2>2. run \in RunState /\ run.attempt = Cur.attempt /\ run.verdict = Cur.verdict /\ run.at = target
      BY <1>2, <1>7, <2>1 DEF Rejected, RunState, At, NoCommit
    <2>3. SetCur(run)
      BY <1>7
    <2>. HIDE DEF run
    <2>. QED  BY <1>5, <1>7, <2>2, <2>3
  <1>8. CASE ReviewAccepts
    BY <1>6, <1>8 DEF ReviewAccepts
  <1>9. CASE ReviewRejects
    BY <1>6, <1>7, <1>9 DEF ReviewRejects
  <1>. QED  BY <1>8, <1>9

-----------------------------------------------------------------------------
(* The steps of the driver *)

\* The todos that are done stay what they are.
Stands ==
  \A i \in DOMAIN series.tracked : Tracked(i).status = "Done" =>
    i \in DOMAIN series'.tracked /\ series'.tracked[i] = Tracked(i)

\* It is enough that the first n todos are the same.
LEMMA Standing ==
  ASSUME Types, NEW n \in Nat, DoneTo(series, n), series' \in Series, n <= Len(series'.tracked),
         \A i \in 1..n : series'.tracked[i] = series.tracked[i]
  PROVE  Stands
  <1>1. /\ DOMAIN series.tracked = 1..Len(series.tracked) /\ Len(series.tracked) \in Nat
        /\ DOMAIN series'.tracked = 1..Len(series'.tracked) /\ Len(series'.tracked) \in Nat
    BY SeriesFacts DEF Types
  <1>2. \A i \in 1..Len(series.tracked) : series.tracked[i].status = "Done" => i \in 1..n
    BY <1>1 DEF DoneTo
  <1>3. \A i \in 1..n : i \in 1..Len(series'.tracked)
    BY <1>1
  <1>. QED  BY <1>1, <1>2, <1>3 DEF Stands, Tracked

\* Each step of the driver keeps the invariant, and the todos that are done.
LEMMA SkipDoneKeeps == SeriesInv /\ SkipDone => SeriesInv'
  <1>. SUFFICES ASSUME SeriesInv, SkipDone PROVE SeriesInv'
    OBVIOUS
  <1>1. PICK n \in Nat : InvAt(n)
    BY DEF SeriesInv
  <1>2. /\ Types /\ Distinct(head) /\ phase = "choose" /\ idx \in Nat \ {0} /\ made \in Commits
        /\ runs \in 0..MaxRuns
    BY DEF SeriesInv, SkipDone, Types
  <1>3. UNCHANGED <<head, series, snaps, phase, made, runs>> /\ idx' = idx + 1
    BY DEF SkipDone
  <1>4. idx <= n
    <2>1. idx \in 1..Len(series.tracked) /\ series.tracked[idx].status = "Done"
      BY <1>2, SeriesFacts DEF SkipDone, Tracked, Types
    <2>. QED  BY <1>1, <2>1 DEF InvAt, PlanInv, DoneTo
  <1>5. PhaseInv(n)'
    <2>1. idx' <= n + 1 /\ series.rev # 0
      BY <1>1, <1>2, <1>3, <1>4 DEF InvAt, PhaseInv, Underway
    <2>. QED  BY <1>2, <1>3, <2>1 DEF PhaseInv
  <1>6. phase' \in Phases /\ idx' \in Nat \ {0}
    BY <1>2, <1>3 DEF Phases
  <1>. QED  BY <1>1, <1>2, <1>3, <1>5, <1>6, ControlStep

\* The driver has found the first n todos done, and goes on with the next one.
LEMMA ChooseFacts ==
  ASSUME Types, NEW n \in Nat, InvAt(n), phase = "choose", idx <= Len(series.tracked),
         Tracked(idx).status # "Done"
  PROVE  /\ idx = n + 1 /\ n < Len(series.tracked) /\ n + 1 \in 1..Len(series.tracked)
         /\ Key = KeyOf(series, n + 1) /\ series.rev # 0
         /\ PrefixHolds => StackedTo(series, n) /\ (Key \in DOMAIN snaps \/ head = EndOf(series, n))
  <1>1. /\ DoneTo(series, n) /\ idx <= n + 1 /\ series.rev # 0
        /\ idx \in Nat \ {0} /\ Len(series.tracked) \in Nat
    BY SeriesFacts DEF InvAt, PlanInv, PhaseInv, Underway, Types
  <1>2. idx \in 1..Len(series.tracked) /\ ~ (idx <= n)
    BY <1>1 DEF DoneTo, Tracked
  <1>3. idx = n + 1
    BY <1>1, <1>2
  <1>4. Key = KeyOf(series, n + 1)
    BY <1>3 DEF Key, KeyOf, Tracked
  <1>5. PrefixHolds => StackedTo(series, n) /\ (Key \in DOMAIN snaps \/ head = EndOf(series, n))
    BY <1>1, PrefixFacts DEF PrefixHolds
  <1>. QED  BY <1>1, <1>2, <1>3, <1>4, <1>5

\* The todo at work changes its status, but is not done.
LEMMA StatusStep ==
  ASSUME Types, NEW n \in Nat, InvAt(n), n < Len(series.tracked), series.rev # 0,
         NEW st \in TodoStatus \ {"Done"},
         series' = SetItem(n + 1, [series.tracked[n + 1] EXCEPT !.status = st])
  PROVE  /\ series' \in Series /\ SameShape(series, series') /\ PlanInv(n)' /\ Stands
  <1>1. DoneTo(series, n) /\ PlanInv(n) /\ SnapInv(n)
    BY DEF InvAt, PlanInv
  <1>2. series' \in Series /\ SameShape(series, series')
    BY <1>1, StatusFacts
  <1>3. PlanInv(n)'
    BY <1>1, <1>2, ShapePlan
  <1>4. /\ Len(series.tracked) \in Nat /\ series.tracked \in Seq(Item)
        /\ series.tracked[n + 1] \in Item /\ n + 1 \in DOMAIN series.tracked
    <2>1. Len(series.tracked) \in Nat
      BY SeriesFacts DEF Types
    <2>2. n + 1 \in 1..Len(series.tracked)
      BY <2>1
    <2>. QED  BY <2>1, <2>2, SeriesFacts DEF Types
  <1>5. \A i \in 1..n : series'.tracked[i] = series.tracked[i]
    <2>. DEFINE item == [series.tracked[n + 1] EXCEPT !.status = st]
    <2>1. series'.tracked = [series.tracked EXCEPT ![n + 1] = item]
      BY DEF SetItem, Types, Series
    <2>2. \A i \in 1..n : i \in DOMAIN series.tracked /\ i # n + 1
      BY <1>4, SeriesFacts DEF Types
    <2>. HIDE DEF item
    <2>. QED  BY <2>1, <2>2
  <1>6. n <= Len(series'.tracked)
    BY <1>4, <1>2 DEF SameShape
  <1>. QED  BY <1>1, <1>2, <1>3, <1>5, <1>6, Standing

LEMMA BeginTodoKeeps == SeriesInv /\ BeginTodo => SeriesInv' /\ Stands
  <1>. SUFFICES ASSUME SeriesInv, BeginTodo PROVE SeriesInv' /\ Stands
    OBVIOUS
  <1>1. PICK n \in Nat : InvAt(n)
    BY DEF SeriesInv
  <1>2. Types /\ Distinct(head)
    BY DEF SeriesInv
  <1>3. UNCHANGED <<head, idx, made, runs>> /\ phase' = "work"
    BY DEF BeginTodo
  <1>4. /\ idx = n + 1 /\ n < Len(series.tracked) /\ n + 1 \in 1..Len(series.tracked)
        /\ Key = KeyOf(series, n + 1) /\ series.rev # 0
        /\ StackedTo(series, n) /\ (Key \in DOMAIN snaps \/ head = EndOf(series, n))
    BY <1>1, <1>2, ChooseFacts DEF BeginTodo
  <1>5. series' = SetItem(n + 1, [series.tracked[n + 1] EXCEPT !.status = "InProgress"])
    BY <1>4 DEF BeginTodo, Tracked
  <1>6. series' \in Series /\ SameShape(series, series') /\ PlanInv(n)' /\ Stands
    <2>1. "InProgress" \in TodoStatus \ {"Done"}
      BY DEF TodoStatus
    <2>. QED  BY <1>1, <1>2, <1>4, <1>5, <2>1, StatusStep
  <1>7. Key \in DOMAIN snaps' /\ Key \in Nat \X Id \X Nat \X Nat
    <2>1. Key \in DOMAIN snaps'
      BY DEF BeginTodo
    <2>2. series.tracked[n + 1] \in Item /\ series.rev \in Nat
      BY <1>2, <1>4, SeriesFacts DEF Types
    <2>. QED  BY <1>4, <2>1, <2>2 DEF KeyOf, Item
  <1>8. /\ series \in Series /\ n \in 0..Len(series.tracked) /\ Len(series'.tracked) = Len(series.tracked)
        /\ KeyOf(series', n + 1) = Key /\ StackedTo(series', n) /\ EndOf(series', n) = EndOf(series, n)
        /\ \A run, below, h : RunFits(run, series'.tracked[n + 1], below, h)
                              <=> RunFits(run, series.tracked[n + 1], below, h)
    <2>1. series \in Series /\ n \in 0..Len(series.tracked)
      BY <1>2, <1>4, SeriesFacts DEF Types
    <2>. QED  BY <1>4, <1>6, <2>1, ShapeFacts DEF SameShape
  <1>9. PhaseInv(n)'
    <2>1. series'.rev # 0
      BY <1>4, <1>6 DEF SameShape
    <2>. QED  BY <1>3, <1>4, <1>7, <1>8, <2>1 DEF PhaseInv, Underway
  <1>10. snaps' \in [DOMAIN snaps' -> RunState] /\ SnapInv(n)' /\ DOMAIN snaps' \subseteq Nat \X Id \X Nat \X Nat
    <2>1. CASE Key \in DOMAIN snaps
      <3>1. snaps' = snaps
        BY <2>1 DEF BeginTodo
      <3>2. SnapInv(n)'
        BY <1>1, <1>2, <1>3, <1>6, <3>1, ShapeSnap DEF InvAt, SnapInv, PlanInv
      <3>. QED  BY <1>2, <3>1, <3>2 DEF Types
    <2>2. CASE Key \notin DOMAIN snaps
      <3>1. snaps' = [k \in {Key} |-> NewRun] /\ head = EndOf(series, n)
        BY <1>4, <2>2 DEF BeginTodo
      <3>2. NewRun \in RunState
        BY BudgetAssumption, EmptySeq DEF NewRun, RunState, At, Verdict, NoCommit, Commits
      <3>3. DOMAIN snaps' = {Key} /\ snaps'[Key] = NewRun
        BY <3>1
      <3>4. RunFits(NewRun, series'.tracked[n + 1], EndOf(series', n), head')
        <4>1. RunFits(NewRun, series.tracked[n + 1], head, head)
          BY DEF RunFits, NewRun
        <4>. QED  BY <1>3, <1>8, <3>1, <4>1
      <3>5. SnapInv(n)'
        BY <1>4, <1>8, <3>3, <3>4 DEF SnapInv
      <3>. QED  BY <1>7, <3>1, <3>2, <3>3, <3>5
    <2>. QED  BY <2>1, <2>2
  <1>11. Types'
    BY <1>2, <1>3, <1>6, <1>10 DEF Types, Phases
  <1>. QED  BY <1>2, <1>3, <1>6, <1>9, <1>10, <1>11 DEF SeriesInv, InvAt

LEMMA RefuseKeeps == SeriesInv /\ Refuse => SeriesInv'
  <1>. SUFFICES ASSUME SeriesInv, Refuse PROVE SeriesInv'
    OBVIOUS
  <1>1. PICK n \in Nat : InvAt(n)
    BY DEF SeriesInv
  <1>2. Types /\ Distinct(head) /\ idx \in Nat \ {0} /\ made \in Commits /\ runs \in 0..MaxRuns
    BY DEF SeriesInv, Types
  <1>3. UNCHANGED <<head, series, snaps, idx, made, runs>> /\ phase' = "refused"
    BY DEF Refuse
  <1>4. PhaseInv(n)' /\ phase' \in Phases
    BY <1>3 DEF PhaseInv, Phases, Underway
  <1>. QED  BY <1>1, <1>2, <1>3, <1>4, ControlStep

\* The driver stops, and the todo at work is not done.
LEMMA StopStep ==
  ASSUME SeriesInv, phase = "work", NEW st \in TodoStatus \ {"Done"}, StopWith(st)
  PROVE  SeriesInv' /\ Stands
  <1>1. PICK n \in Nat : InvAt(n)
    BY DEF SeriesInv
  <1>2. Types /\ Distinct(head)
    BY DEF SeriesInv
  <1>3. UNCHANGED <<head, snaps, idx, made, runs>> /\ phase' = "stopped"
    BY DEF StopWith
  <1>4. idx = n + 1 /\ n + 1 \in 1..Len(series.tracked) /\ Tracked(idx) = series.tracked[n + 1] /\ series.rev # 0
    BY <1>1, <1>2, WorkFacts
  <1>5. n < Len(series.tracked)
    BY <1>2, <1>4, SeriesFacts DEF Types
  <1>6. series' = SetItem(n + 1, [series.tracked[n + 1] EXCEPT !.status = st])
    BY <1>4 DEF StopWith
  <1>7. series' \in Series /\ SameShape(series, series') /\ PlanInv(n)' /\ Stands
    BY <1>1, <1>2, <1>4, <1>5, <1>6, StatusStep
  <1>8. SnapInv(n)'
    BY <1>1, <1>2, <1>3, <1>7, ShapeSnap DEF InvAt, SnapInv, PlanInv
  <1>9. PhaseInv(n)'
    BY <1>3 DEF PhaseInv, Underway
  <1>10. Types'
    BY <1>2, <1>3, <1>7 DEF Types, Phases
  <1>. QED  BY <1>2, <1>3, <1>7, <1>8, <1>9, <1>10 DEF SeriesInv, InvAt

LEMMA FailKeeps == SeriesInv /\ Fail => SeriesInv' /\ Stands
  <1>. SUFFICES ASSUME SeriesInv, Fail PROVE SeriesInv' /\ Stands
    OBVIOUS
  <1>1. phase = "work" /\ (StopWith("Failed") \/ StopWith("Unexecutable"))
    BY DEF Fail, EndedWith, Working
  <1>2. {"Failed", "Unexecutable"} \subseteq TodoStatus \ {"Done"}
    BY DEF TodoStatus
  <1>. QED  BY <1>1, <1>2, StopStep

LEMMA IntentFailsKeeps == SeriesInv /\ IntentFails => SeriesInv' /\ Stands
  <1>. SUFFICES ASSUME SeriesInv, IntentFails PROVE SeriesInv' /\ Stands
    OBVIOUS
  <1>1. PICK n \in Nat : InvAt(n)
    BY DEF SeriesInv
  <1>2. /\ Types /\ Distinct(head) /\ phase = "work" /\ Cur \in RunState /\ Cur.at = "commit"
        /\ RunFits(Cur, Tracked(idx), EndOf(series, n), head)
        /\ idx = n + 1 /\ n + 1 \in 1..Len(series.tracked) /\ Tracked(idx) = series.tracked[n + 1]
        /\ series.rev # 0 /\ Key \in DOMAIN snaps /\ Key = KeyOf(series, n + 1)
    BY <1>1, WorkFacts DEF SeriesInv, IntentFails, Working
  <1>3. UNCHANGED <<head, idx, made, runs>> /\ phase' = "stopped"
    BY DEF IntentFails
  <1>4. series' = SetItem(n + 1, [series.tracked[n + 1] EXCEPT !.status = "Failed"])
    BY <1>2 DEF IntentFails
  <1>5. series' \in Series /\ SameShape(series, series') /\ PlanInv(n)' /\ Stands
    <2>1. "Failed" \in TodoStatus \ {"Done"} /\ n < Len(series.tracked)
      BY <1>2, SeriesFacts DEF TodoStatus, Types
    <2>. QED  BY <1>1, <1>2, <1>4, <2>1, StatusStep
  <1>. DEFINE run == [Cur EXCEPT !.attempt = @ + 1]
  <1>6. run \in RunState /\ run.attempt = Cur.attempt + 1 /\ run.verdict = Cur.verdict /\ run.at = "commit"
    <2>1. Cur.attempt \in Nat /\ Cur.attempt + 1 \in Nat
      BY <1>2 DEF RunState
    <2>. QED  BY <1>2, <2>1 DEF RunState
  <1>7. snaps' = [snaps EXCEPT ![Key] = run]
    BY DEF IntentFails, SetCur
  <1>8. RunFits(run, Tracked(idx), EndOf(series, n), head)
    <2>1. run.attempt # 0
      BY <1>2, <1>6 DEF RunState
    <2>. HIDE DEF run
    <2>. QED  BY <1>2, <1>6, <2>1 DEF RunFits
  <1>. HIDE DEF run
  <1>9. /\ snaps' \in [DOMAIN snaps' -> RunState] /\ DOMAIN snaps' = DOMAIN snaps
        /\ snaps'[Key] = run
    BY <1>2, <1>6, <1>7 DEF Types
  <1>10. SnapInv(n)'
    <2>1. DoneTo(series, n) /\ SnapInv(n)
      BY <1>1 DEF InvAt, PlanInv
    <2>2. RunFits(snaps'[KeyOf(series, n + 1)], series.tracked[n + 1], EndOf(series, n), head')
      BY <1>2, <1>3, <1>8, <1>9
    <2>. QED  BY <1>2, <1>5, <1>9, <2>1, <2>2, ShapeSnap
  <1>11. PhaseInv(n)'
    BY <1>3 DEF PhaseInv, Underway
  <1>12. Types'
    BY <1>2, <1>3, <1>5, <1>9 DEF Types, Phases
  <1>. QED  BY <1>2, <1>3, <1>5, <1>10, <1>11, <1>12 DEF SeriesInv, InvAt

\* The todo is done: n grows by one, and with the chain whole HEAD is its end.
LEMMA SucceedKeeps == SeriesInv /\ Succeed => SeriesInv' /\ Stands
  <1>. SUFFICES ASSUME SeriesInv, Succeed PROVE SeriesInv' /\ Stands
    OBVIOUS
  <1>1. PICK n \in Nat : InvAt(n)
    BY DEF SeriesInv
  <1>. DEFINE below == EndOf(series, n)
              item == [series.tracked[n + 1] EXCEPT !.status = "Done", !.sha = head]
              t == [series.tracked EXCEPT ![n + 1] = item]
  <1>2. /\ Types /\ Distinct(head) /\ phase = "work" /\ series \in Series
        /\ idx = n + 1 /\ n + 1 \in 1..Len(series.tracked) /\ Tracked(idx) = series.tracked[n + 1]
        /\ series.tracked[n + 1] \in Item /\ series.rev # 0 /\ series.rev \in Nat
        /\ below \in Commits /\ IsChain(below, series, n) /\ StackedTo(series, n)
        /\ RunFits(Cur, Tracked(idx), below, head)
    BY <1>1, WorkFacts DEF SeriesInv, Succeed, EndedWith, Working, Types
  <1>3. UNCHANGED <<head, snaps, made, runs>> /\ phase' = "choose" /\ idx' = n + 2
    BY <1>2 DEF Succeed
  <1>4. head \in Commits /\ head # <<>>
    BY <1>2 DEF Types
  <1>5. Len(series.tracked) \in Nat /\ series.tracked \in Seq(Item) /\ n < Len(series.tracked)
    BY <1>2, SeriesFacts
  <1>6. /\ item \in Item /\ item.id = series.tracked[n + 1].id /\ item.ver = series.tracked[n + 1].ver
        /\ item.sha = head /\ item.status = "Done" /\ item.revisions = series.tracked[n + 1].revisions
    BY <1>2, <1>4 DEF Item, TodoStatus
  <1>7. /\ t \in Seq(Item) /\ Len(t) = Len(series.tracked)
        /\ \A j \in 1..Len(series.tracked) : t[j] = IF j = n + 1 THEN item ELSE series.tracked[j]
    <2>. HIDE DEF item
    <2>. QED  BY <1>2, <1>5, <1>6, ExceptSeq
  <1>8. series' = [series EXCEPT !.tracked = t]
    BY <1>2 DEF Succeed, SetItem, Series
  <1>. HIDE DEF item, t
  <1>9. series' \in Series /\ series'.tracked = t /\ series'.rev = series.rev /\ series'.base = series.base
    BY <1>2, <1>7, <1>8 DEF Series
  <1>10. \A i \in 1..n : i \in 1..Len(series.tracked) /\ series'.tracked[i] = series.tracked[i]
    BY <1>5, <1>7, <1>9
  <1>11. DoneTo(series, n) /\ Unique(series) /\ PlanInv(n) /\ SnapInv(n)
    BY <1>1 DEF InvAt, PlanInv
  <1>12. Agree(series, series', n)
    BY <1>9, <1>10 DEF Agree
  <1>13. EndOf(series', n) = below /\ IsChain(below, series', n)
    BY <1>2, <1>12, AgreeFacts
  <1>14. EndOf(series', n + 1) = head /\ series'.tracked[n + 1] = item
    BY <1>2, <1>6, <1>7, <1>9 DEF EndOf
  <1>15. DoneTo(series', n + 1)
    <2>1. \A i \in 1..Len(series'.tracked) : series'.tracked[i].status = "Done" <=> i <= n + 1
      <3>. TAKE i \in 1..Len(series'.tracked)
      <3>1. i \in 1..Len(series.tracked)
        BY <1>7, <1>9
      <3>2. CASE i = n + 1
        BY <1>6, <1>14, <3>2
      <3>3. CASE i # n + 1
        <4>1. series'.tracked[i] = series.tracked[i] /\ (i <= n + 1 <=> i <= n)
          BY <1>7, <1>9, <3>1, <3>3
        <4>. QED  BY <1>11, <3>1, <4>1 DEF DoneTo
      <3>. QED  BY <3>2, <3>3
    <2>. QED  BY <1>2, <1>5, <1>7, <1>9, <2>1 DEF DoneTo
  <1>16. Unique(series')
    <2>1. \A i \in 1..Len(series.tracked) : series'.tracked[i].id = series.tracked[i].id
      BY <1>6, <1>7, <1>9
    <2>. QED  BY <1>7, <1>9, <1>11, <2>1 DEF Unique
  \* The commit of the todo is on top of the ones before it, or the chain is not whole.
  <1>17. ASSUME StackedTo(series', n + 1) PROVE IsChain(head, series', n + 1)
    <2>1. Parent(head) = below
      <3>1. n + 1 \in 1..(n + 1) /\ (n + 1) - 1 = n
        OBVIOUS
      <3>2. Parent(series'.tracked[n + 1].sha) = EndOf(series', n)
        BY <1>17, <3>1 DEF StackedTo
      <3>. QED  BY <1>6, <1>13, <1>14, <3>2
    <2>2. /\ Len(head) \in Nat \ {0} /\ Len(below) = Len(head) - 1 /\ Last(head) = head[Len(head)]
          /\ \A i \in 1..(Len(head) - 1) : below[i] = head[i]
      BY <1>4, <2>1, FrontFacts DEF Commits
    <2>3. Len(below) = n + 1 /\ below[1] = Root[1]
      BY <1>2 DEF IsChain
    <2>4. head # below
      BY <2>2
    <2>5. Last(head).todo = item.id /\ Last(head).ver = item.ver
      BY <1>2, <1>6, <2>4 DEF RunFits, IsFor
    <2>6. Len(head) = n + 2 /\ head[1] = Root[1]
      BY <2>2, <2>3
    <2>7. ASSUME NEW i \in 1..(n + 1)
          PROVE  head[i + 1].todo = series'.tracked[i].id /\ head[i + 1].ver = series'.tracked[i].ver
      <3>1. CASE i = n + 1
        <4>1. head[i + 1] = Last(head)
          BY <2>2, <2>6, <3>1
        <4>. QED  BY <1>14, <2>5, <3>1, <4>1
      <3>2. CASE i # n + 1
        <4>1. i \in 1..n /\ i + 1 \in 1..(Len(head) - 1)
          BY <2>6, <2>7, <3>2
        <4>2. head[i + 1] = below[i + 1]
          BY <2>2, <4>1
        <4>. QED  BY <1>13, <4>1, <4>2 DEF IsChain
      <3>. QED  BY <3>1, <3>2
    <2>. QED  BY <2>6, <2>7 DEF IsChain
  <1>18. PlanInv(n + 1)'
    BY <1>2, <1>3, <1>9, <1>11, <1>14, <1>15, <1>16, <1>17 DEF PlanInv
  <1>19. PhaseInv(n + 1)'
    BY <1>2, <1>3, <1>9 DEF PhaseInv
  <1>20. SnapInv(n + 1)'
    <2>1. ASSUME NEW k \in DOMAIN snaps PROVE k[1] <= n + 1 \/ k[3] < series.rev
      <3>1. k[1] <= n \/ k[3] < series.rev \/ k = KeyOf(series, n + 1)
        BY <1>11 DEF SnapInv
      <3>2. k[1] \in Nat
        BY <1>2 DEF Types
      <3>3. KeyOf(series, n + 1)[1] = n + 1
        BY DEF KeyOf
      <3>. QED  BY <3>1, <3>2, <3>3
    <2>2. KeyOf(series', n + 1 + 1) \notin DOMAIN snaps
      <3>1. KeyOf(series', n + 1 + 1)[1] = n + 2 /\ KeyOf(series', n + 1 + 1)[3] = series.rev
        BY <1>9 DEF KeyOf
      <3>2. ~ (n + 2 <= n + 1) /\ ~ (series.rev < series.rev)
        BY <1>2
      <3>. QED  BY <2>1, <3>1, <3>2
    <2>. QED  BY <1>3, <1>9, <2>1, <2>2 DEF SnapInv
  <1>21. Types'
    BY <1>2, <1>3, <1>9 DEF Types, Phases
  <1>22. Stands
    BY <1>2, <1>5, <1>7, <1>9, <1>10, <1>11, Standing
  <1>. QED  BY <1>2, <1>3, <1>18, <1>19, <1>20, <1>21, <1>22 DEF SeriesInv, InvAt

LEMMA ReviseKeeps == SeriesInv /\ Revise => SeriesInv' /\ Stands
  <1>. SUFFICES ASSUME SeriesInv, Revise PROVE SeriesInv' /\ Stands
    OBVIOUS
  <1>1. PICK n \in Nat : InvAt(n)
    BY DEF SeriesInv
  <1>2. /\ Types /\ Distinct(head) /\ phase = "work" /\ series \in Series
        /\ idx = n + 1 /\ n + 1 \in 1..Len(series.tracked) /\ Tracked(idx) = series.tracked[n + 1]
        /\ series.tracked[n + 1] \in Item /\ series.rev # 0 /\ series.rev \in Nat
        /\ DoneTo(series, n) /\ Unique(series)
    BY <1>1, WorkFacts DEF SeriesInv, Revise, EndedWith, Working, Types, InvAt, PlanInv
  <1>3. CASE StopWith("Failed")
    <2>1. "Failed" \in TodoStatus \ {"Done"}
      BY DEF TodoStatus
    <2>. QED  BY <1>2, <1>3, <2>1, StopStep
  <1>4. CASE ~ StopWith("Failed")
    <2>. DEFINE item == [series.tracked[n + 1] EXCEPT !.ver = series.rev + 1, !.status = "Pending",
                                         !.revisions = series.tracked[n + 1].revisions + 1]
                t == [series.tracked EXCEPT ![n + 1] = item]
    <2>1. /\ series' = [series EXCEPT !.rev = @ + 1, !.tracked[idx] =
                    [Tracked(idx) EXCEPT !.ver = series.rev + 1, !.status = "Pending",
                                         !.revisions = Tracked(idx).revisions + 1]]
          /\ phase' = "choose" /\ UNCHANGED <<head, snaps, idx, made, runs>>
      BY <1>4 DEF Revise
    <2>2. item \in Item /\ item.id = series.tracked[n + 1].id /\ item.status # "Done"
      <3>1. series.rev + 1 \in Nat /\ series.tracked[n + 1].revisions + 1 \in Nat
        BY <1>2 DEF Item
      <3>. QED  BY <1>2, <3>1 DEF Item, TodoStatus
    <2>3. Len(series.tracked) \in Nat /\ series.tracked \in Seq(Item) /\ n < Len(series.tracked)
      BY <1>2, SeriesFacts
    <2>4. /\ t \in Seq(Item) /\ Len(t) = Len(series.tracked)
          /\ \A j \in 1..Len(series.tracked) : t[j] = IF j = n + 1 THEN item ELSE series.tracked[j]
      <3>. HIDE DEF item
      <3>. QED  BY <1>2, <2>2, <2>3, ExceptSeq
    <2>5. series' = [series EXCEPT !.rev = series.rev + 1, !.tracked = t]
      BY <1>2, <2>1 DEF Series
    <2>. HIDE DEF item, t
    <2>6. /\ series' \in Series /\ series'.tracked = t /\ series'.rev = series.rev + 1
          /\ series'.base = series.base
      <3>1. series.rev + 1 \in Nat
        BY <1>2
      <3>. QED  BY <1>2, <2>4, <2>5, <3>1 DEF Series
    <2>7. \A i \in 1..n : series'.tracked[i] = series.tracked[i]
      BY <2>3, <2>4, <2>6
    <2>8. DoneTo(series', n)
      BY <1>2, <2>2, <2>3, <2>4, <2>6 DEF DoneTo
    <2>9. Unique(series')
      <3>1. \A i \in 1..Len(series.tracked) : series'.tracked[i].id = series.tracked[i].id
        BY <2>2, <2>4, <2>6
      <3>. QED  BY <1>2, <2>4, <2>6, <3>1 DEF Unique
    <2>10. SeriesInv'
      <3>1. idx' \in Nat \ {0} /\ idx' <= n + 1
        BY <1>2, <2>1
      <3>. QED  BY <1>1, <1>2, <2>1, <2>6, <2>7, <2>8, <2>9, <3>1, RevisionStep
    <2>11. Stands
      BY <1>2, <2>3, <2>4, <2>6, <2>7, Standing
    <2>. QED  BY <2>10, <2>11
  <1>. QED  BY <1>3, <1>4

\* A valid plan does not name a todo twice.
LEMMA ValidIsUnique ==
  ASSUME NEW s, s.tracked \in Seq(Item), ValidPlan(s.tracked)
  PROVE  Unique(s)
  <1>1. DOMAIN s.tracked = 1..Len(s.tracked) /\ Len(s.tracked) \in Nat
    BY LenProperties
  <1>2. \A i \in 1..Len(s.tracked) : \A j \in 1..(i - 1) : s.tracked[j].id # s.tracked[i].id
    BY <1>1 DEF ValidPlan
  <1>3. ASSUME NEW i \in 1..Len(s.tracked), NEW j \in 1..Len(s.tracked), s.tracked[i].id = s.tracked[j].id
        PROVE  i = j
    <2>1. CASE i < j
      <3>1. i \in 1..(j - 1)
        BY <1>1, <2>1
      <3>. QED  BY <1>2, <1>3, <3>1
    <2>2. CASE j < i
      <3>1. j \in 1..(i - 1)
        BY <1>1, <2>2
      <3>. QED  BY <1>2, <1>3, <3>1
    <2>. QED  BY <1>1, <2>1, <2>2
  <1>. QED  BY <1>3 DEF Unique

LEMMA UpdateKeeps == SeriesInv /\ Update => SeriesInv' /\ Stands
  <1>. SUFFICES ASSUME SeriesInv, Update PROVE SeriesInv' /\ Stands
    OBVIOUS
  <1>1. PICK n \in Nat : InvAt(n)
    BY DEF SeriesInv
  <1>2. /\ Types /\ Distinct(head) /\ phase = "work" /\ series \in Series /\ Cur \in RunState
        /\ idx = n + 1 /\ n + 1 \in 1..Len(series.tracked)
        /\ series.rev # 0 /\ series.rev \in Nat
        /\ DoneTo(series, n) /\ Cur.verdict.kind = "update"
    BY <1>1, WorkFacts DEF SeriesInv, Update, EndedWith, Working, Types, InvAt, PlanInv
  <1>3. UNCHANGED <<head, snaps, idx, made, runs>>
    BY DEF Update
  <1>. DEFINE ops == Cur.verdict.ops
              all == AllOperations(ops)
              new == Updated(Cur.verdict)
  <1>4. ops \in Seq(Operations)
    <2>1. Cur.verdict \in Verdict
      BY <1>2 DEF RunState
    <2>2. Cur.verdict \in [kind : {"update"}, expected : Nat, ops : Updates]
      BY <1>2, <2>1 DEF Verdict
    <2>. QED  BY <2>2, PlanAssumption DEF Operations
  <1>5. Built(Unrevised, n)
    <2>1. series.tracked \in Seq(Item) /\ Len(series.tracked) \in Nat
      BY <1>2, SeriesFacts
    <2>2. \A i \in 1..Len(series.tracked) : i > n => series.tracked[i].status # "Done"
      BY <1>2, <2>1 DEF DoneTo
    <2>. QED  BY <1>2, <2>1, <2>2 DEF Built, Unrevised
  <1>6. Built(all, n)
    BY <1>2, <1>4, <1>5, AllOperationsBuild
  <1>. HIDE DEF all
  <1>7. \/ new = [result |-> "invalid", tracked |-> series.tracked]
        \/ new = all /\ (all.result = "ok" => ValidPlan(all.tracked))
    BY DEF Updated, all
  <1>8. new.result \in {"ok", "invalid", "panic"}
    BY <1>6, <1>7 DEF Built
  <1>. HIDE DEF new, ops
  <1>9. CASE new.result # "ok"
    <2>1. UNCHANGED series /\ phase' \in {"stopped", "down"}
      BY <1>8, <1>9 DEF Update, new
    <2>2. PhaseInv(n)' /\ phase' \in Phases
      BY <2>1 DEF PhaseInv, Underway, Phases
    <2>3. SeriesInv'
      <3>1. idx' \in Nat \ {0} /\ made' \in Commits /\ runs' \in 0..MaxRuns
        BY <1>2, <1>3 DEF Types
      <3>. QED  BY <1>1, <1>2, <1>3, <2>1, <2>2, <3>1, ControlStep
    <2>4. Stands
      BY <2>1 DEF Stands, Tracked
    <2>. QED  BY <2>3, <2>4
  <1>10. CASE new.result = "ok"
    <2>1. new = all /\ ValidPlan(all.tracked)
      <3>1. [result |-> "invalid", tracked |-> series.tracked].result # "ok"
        OBVIOUS
      <3>. QED  BY <1>7, <1>10, <3>1
    <2>2. /\ series' = [series EXCEPT !.tracked = all.tracked, !.rev = @ + 1, !.updates = @ + 1]
          /\ phase' = "choose"
      BY <1>10, <2>1 DEF Update, new
    <2>3. /\ all.tracked \in Seq(Item) /\ n <= Len(all.tracked) /\ Len(all.tracked) \in Nat
          /\ \A i \in 1..n : all.tracked[i] = series.tracked[i]
          /\ \A i \in 1..Len(all.tracked) : i > n => all.tracked[i].status # "Done"
      BY <1>6, LenProperties DEF Built
    <2>4. /\ series' \in Series /\ series'.tracked = all.tracked /\ series'.rev = series.rev + 1
          /\ series'.base = series.base
      <3>1. series.rev + 1 \in Nat /\ series.updates + 1 \in Nat
        BY <1>2, SeriesFacts
      <3>. QED  BY <1>2, <2>2, <2>3, <3>1 DEF Series
    <2>5. DoneTo(series', n)
      <3>1. \A i \in 1..n : series.tracked[i].status = "Done"
        BY <1>2, SeriesFacts DEF DoneTo
      <3>. QED  BY <2>3, <2>4, <3>1 DEF DoneTo
    <2>6. Unique(series')
      BY <2>1, <2>3, <2>4, ValidIsUnique
    <2>7. SeriesInv'
      <3>1. idx' \in Nat \ {0} /\ idx' <= n + 1
        BY <1>2, <1>3
      <3>. QED  BY <1>1, <1>2, <1>3, <2>2, <2>3, <2>4, <2>5, <2>6, <3>1, RevisionStep
    <2>8. Stands
      BY <1>2, <2>3, <2>4, Standing
    <2>. QED  BY <2>7, <2>8
  <1>. QED  BY <1>9, <1>10

LEMMA OpenAssessmentKeeps == SeriesInv /\ OpenAssessment => SeriesInv'
  <1>. SUFFICES ASSUME SeriesInv, OpenAssessment PROVE SeriesInv'
    OBVIOUS
  <1>1. PICK n \in Nat : InvAt(n)
    BY DEF SeriesInv
  <1>2. /\ Types /\ Distinct(head) /\ phase = "choose" /\ idx \in Nat \ {0} /\ made \in Commits
        /\ runs \in 0..MaxRuns /\ Len(series.tracked) \in Nat
        /\ DoneTo(series, n) /\ idx <= n + 1 /\ series.rev # 0 /\ idx > Len(series.tracked)
    BY <1>1, SeriesFacts DEF SeriesInv, OpenAssessment, Types, InvAt, PlanInv, PhaseInv, Underway
  <1>3. UNCHANGED <<head, series, snaps, idx, made, runs>>
    BY DEF OpenAssessment
  <1>4. n = Len(series.tracked) /\ idx = n + 1
    BY <1>2 DEF DoneTo
  <1>5. CASE AllDone /\ ChainIsExact
    <2>1. phase' = "assess"
      BY <1>5 DEF OpenAssessment
    <2>2. StackedTo(series, n) /\ head = EndOf(series, n)
      BY <1>2, <1>4, <1>5, PrefixFacts DEF ChainIsExact
    <2>3. PhaseInv(n)' /\ phase' \in Phases
      BY <1>2, <1>3, <1>4, <2>1, <2>2 DEF PhaseInv, Phases
    <2>. QED  BY <1>1, <1>2, <1>3, <2>3, ControlStep
  <1>6. CASE ~ (AllDone /\ ChainIsExact)
    <2>1. phase' = "stopped"
      BY <1>6 DEF OpenAssessment
    <2>2. PhaseInv(n)' /\ phase' \in Phases
      BY <2>1 DEF PhaseInv, Phases, Underway
    <2>. QED  BY <1>1, <1>2, <1>3, <2>2, ControlStep
  <1>. QED  BY <1>5, <1>6

LEMMA AssessKeeps == SeriesInv /\ Assess => SeriesInv' /\ Stands
  <1>. SUFFICES ASSUME SeriesInv, Assess PROVE SeriesInv' /\ Stands
    OBVIOUS
  <1>1. PICK n \in Nat : InvAt(n)
    BY DEF SeriesInv
  <1>2. /\ Types /\ Distinct(head) /\ phase = "assess" /\ series \in Series
        /\ idx \in Nat \ {0} /\ made \in Commits /\ runs \in 0..MaxRuns /\ Len(series.tracked) \in Nat
        /\ DoneTo(series, n) /\ idx = n + 1 /\ series.rev # 0 /\ series.rev \in Nat
        /\ n = Len(series.tracked) /\ StackedTo(series, n) /\ head = EndOf(series, n)
    BY <1>1, SeriesFacts DEF SeriesInv, Assess, Types, InvAt, PlanInv, PhaseInv, Underway
  <1>3. UNCHANGED <<head, snaps, idx, made, runs>>
    BY DEF Assess
  <1>4. CASE phase' \in {"published", "stopped"} /\ UNCHANGED series
    <2>1. PhaseInv(n)' /\ phase' \in Phases
      BY <1>2, <1>3, <1>4 DEF PhaseInv, Phases, Underway
    <2>2. SeriesInv'
      BY <1>1, <1>2, <1>3, <1>4, <2>1, ControlStep
    <2>3. Stands
      BY <1>4 DEF Stands, Tracked
    <2>. QED  BY <2>2, <2>3
  <1>5. ASSUME NEW ids \in Appends, AppendFinal(ids), ~ (phase' = "stopped")
        PROVE  SeriesInv' /\ Stands
    <2>. DEFINE new == FreshAll(ids, series.rev + 1)
                t == series.tracked \o new
    <2>1. /\ new \in Seq(Item) /\ Len(new) = Len(ids) /\ Len(ids) \in Nat
          /\ \A i \in 1..Len(ids) : new[i].status = "Pending"
      <3>1. ids \in Seq(Id) /\ series.rev + 1 \in Nat
        BY <1>2, PlanAssumption
      <3>2. Len(ids) \in Nat
        BY <3>1, LenProperties
      <3>. QED  BY <3>1, <3>2, FreshAllFacts
    <2>. HIDE DEF new
    <2>2. series.tracked \in Seq(Item)
      BY <1>2, SeriesFacts
    <2>3. /\ t \in Seq(Item) /\ Len(t) = n + Len(ids)
          /\ \A j \in 1..(n + Len(ids)) : t[j] = IF j <= n THEN series.tracked[j] ELSE new[j - n]
      <3>1. /\ t \in Seq(Item) /\ Len(t) = Len(series.tracked) + Len(new)
            /\ \A j \in 1..(Len(series.tracked) + Len(new)) :
                 t[j] = IF j <= Len(series.tracked) THEN series.tracked[j] ELSE new[j - Len(series.tracked)]
        <4>1. ASSUME NEW s \in Seq(Item), NEW u \in Seq(Item)
              PROVE  /\ s \o u \in Seq(Item) /\ Len(s \o u) = Len(s) + Len(u)
                     /\ \A j \in 1..(Len(s) + Len(u)) :
                          (s \o u)[j] = IF j <= Len(s) THEN s[j] ELSE u[j - Len(s)]
          BY ConcatProperties
        <4>. QED  BY <2>1, <2>2, <4>1
      <3>. HIDE DEF t
      <3>. QED  BY <1>2, <2>1, <3>1
    <2>4. /\ ValidPlan(t) /\ phase' = "choose"
          /\ series' = [series EXCEPT !.tracked = t, !.rev = @ + 1, !.finals = @ + 1]
      BY <1>5 DEF AppendFinal, new
    <2>. HIDE DEF t
    <2>5. /\ series' \in Series /\ series'.tracked = t /\ series'.rev = series.rev + 1
          /\ series'.base = series.base
      <3>1. series.rev + 1 \in Nat /\ series.finals + 1 \in Nat
        BY <1>2, SeriesFacts
      <3>. QED  BY <1>2, <2>3, <2>4, <3>1 DEF Series
    <2>6. \A i \in 1..n : series'.tracked[i] = series.tracked[i]
      BY <1>2, <2>1, <2>3, <2>5
    <2>7. DoneTo(series', n)
      <3>1. \A i \in 1..n : series'.tracked[i].status = "Done"
        BY <1>2, <2>6 DEF DoneTo
      <3>2. ASSUME NEW i \in 1..Len(t), ~ (i <= n) PROVE t[i].status # "Done"
        <4>1. i - n \in 1..Len(ids) /\ i \in 1..(n + Len(ids))
          BY <1>2, <2>1, <2>3, <3>2
        <4>. QED  BY <2>1, <2>3, <3>2, <4>1
      <3>. QED  BY <1>2, <2>1, <2>3, <2>5, <3>1, <3>2 DEF DoneTo
    <2>8. Unique(series')
      BY <2>3, <2>4, <2>5, ValidIsUnique
    <2>9. SeriesInv'
      <3>1. idx' \in Nat \ {0} /\ idx' <= n + 1
        BY <1>2, <1>3
      <3>. QED  BY <1>1, <1>2, <1>3, <2>4, <2>5, <2>6, <2>7, <2>8, <3>1, RevisionStep
    <2>10. Stands
      <3>1. n <= Len(series'.tracked)
        BY <1>2, <2>1, <2>3, <2>5
      <3>. QED  BY <1>2, <2>5, <2>6, <3>1, Standing
    <2>. QED  BY <2>9, <2>10
  <1>6. ASSUME NEW ids \in Appends, AppendFinal(ids), phase' = "stopped"
        PROVE  UNCHANGED series
    BY <1>6 DEF AppendFinal
  <1>. QED  BY <1>4, <1>5, <1>6 DEF Assess

LEMMA KillKeeps == SeriesInv /\ Kill => SeriesInv'
  <1>. SUFFICES ASSUME SeriesInv, Kill PROVE SeriesInv'
    OBVIOUS
  <1>1. PICK n \in Nat : InvAt(n)
    BY DEF SeriesInv
  <1>2. Types /\ Distinct(head) /\ idx \in Nat \ {0} /\ runs \in 0..MaxRuns
    BY DEF SeriesInv, Types
  <1>3. UNCHANGED <<head, series, snaps, idx, runs>> /\ phase' = "down" /\ made' \in Commits
    BY EmptySeq DEF Kill, NoCommit, Commits
  <1>4. PhaseInv(n)' /\ phase' \in Phases
    BY <1>3 DEF PhaseInv, Phases, Underway
  <1>. QED  BY <1>1, <1>2, <1>3, <1>4, ControlStep

\* What the resumed plan is: the todo that was at work is pending again.
LEMMA LoadedFacts ==
  ASSUME Types
  PROVE  /\ Loaded \in Series /\ SameShape(series, Loaded)
         /\ \A i \in 1..Len(series.tracked) : series.tracked[i].status = "Done" =>
              Loaded.tracked[i] = series.tracked[i]
  <1>1. series \in Series
    BY DEF Types
  <1>2. /\ Len(series.tracked) \in Nat /\ DOMAIN series.tracked = 1..Len(series.tracked)
        /\ \A i \in 1..Len(series.tracked) : series.tracked[i] \in Item
    BY <1>1, SeriesFacts
  <1>. DEFINE t == [i \in DOMAIN series.tracked |->
                      IF Tracked(i).status = "InProgress"
                      THEN [Tracked(i) EXCEPT !.status = "Pending"] ELSE Tracked(i)]
  <1>3. \A i \in 1..Len(series.tracked) :
          /\ t[i] \in Item
          /\ t[i].id = series.tracked[i].id /\ t[i].ver = series.tracked[i].ver
          /\ t[i].sha = series.tracked[i].sha /\ t[i].revisions = series.tracked[i].revisions
          /\ t[i].status = "Done" <=> series.tracked[i].status = "Done"
          /\ series.tracked[i].status = "Done" => t[i] = series.tracked[i]
    BY <1>2 DEF Tracked, Item, TodoStatus
  <1>4. t \in [1..Len(series.tracked) -> Item]
    BY <1>2, <1>3
  <1>5. Loaded = [series EXCEPT !.tracked = t]
    BY DEF Loaded
  <1>. HIDE DEF t
  <1>6. t \in Seq(Item) /\ Len(t) = Len(series.tracked)
    <2>1. t \in Seq(Item)
      BY <1>2, <1>4, SeqDef
    <2>. QED  BY <1>2, <1>4, <2>1, LenProperties
  <1>7. /\ Loaded \in Series /\ Loaded.tracked = t /\ Loaded.rev = series.rev /\ Loaded.base = series.base
    BY <1>1, <1>5, <1>6 DEF Series
  <1>. QED  BY <1>3, <1>6, <1>7 DEF SameShape, Agree

LEMMA StartKeeps == SeriesInv /\ Start => SeriesInv' /\ Stands
  <1>. SUFFICES ASSUME SeriesInv, Start PROVE SeriesInv' /\ Stands
    OBVIOUS
  <1>1. PICK n \in Nat : InvAt(n)
    BY DEF SeriesInv
  <1>2. /\ Types /\ Distinct(head) /\ series \in Series /\ made \in Commits /\ runs' \in 0..MaxRuns
        /\ idx' = 1 /\ DoneTo(series, n) /\ PlanInv(n) /\ SnapInv(n)
        /\ UNCHANGED <<head, snaps, made>>
    <2>1. Types /\ Distinct(head) /\ series \in Series /\ made \in Commits /\ runs \in 0..MaxRuns
      BY DEF SeriesInv, Types
    <2>2. runs < MaxRuns /\ runs' = runs + 1 /\ idx' = 1 /\ UNCHANGED <<head, snaps, made>>
      BY DEF Start
    <2>3. runs' \in 0..MaxRuns
      BY <2>1, <2>2, BudgetAssumption
    <2>. QED  BY <1>1, <2>1, <2>2, <2>3 DEF InvAt, PlanInv
  <1>3. CASE series # NoSeries
    <2>1. series' = Loaded /\ phase' = "choose" /\ series.rev # 0
      BY <1>2, <1>3 DEF Start, PlanInv
    <2>2. /\ series' \in Series /\ SameShape(series, series') /\ n <= Len(series'.tracked)
          /\ \A i \in 1..n : series'.tracked[i] = series.tracked[i]
      <3>1. n <= Len(series.tracked) /\ Len(series.tracked) \in Nat
        BY <1>2, SeriesFacts DEF DoneTo
      <3>2. \A i \in 1..n : i \in 1..Len(series.tracked) /\ series.tracked[i].status = "Done"
        BY <1>2, <3>1 DEF DoneTo
      <3>. QED  BY <1>2, <2>1, <3>1, <3>2, LoadedFacts DEF SameShape
    <2>3. PlanInv(n)'
      BY <1>2, <2>1, <2>2, ShapePlan
    <2>4. SnapInv(n)'
      <3>1. n < Len(series.tracked) /\ StackedTo(series, n) /\ KeyOf(series, n + 1) \in DOMAIN snaps =>
              RunFits(snaps'[KeyOf(series, n + 1)], series.tracked[n + 1], EndOf(series, n), head')
        BY <1>2 DEF SnapInv
      <3>. QED  BY <1>2, <2>2, <3>1, ShapeSnap
    <2>5. PhaseInv(n)'
      <3>1. series'.rev # 0
        BY <2>1, <2>2 DEF SameShape
      <3>. QED  BY <1>2, <2>1, <3>1 DEF PhaseInv
    <2>6. Types'
      BY <1>2, <2>1, <2>2 DEF Types, Phases
    <2>7. Stands
      BY <1>2, <2>2, Standing
    <2>. QED  BY <1>2, <2>3, <2>4, <2>5, <2>6, <2>7 DEF SeriesInv, InvAt
  <1>4. CASE series = NoSeries /\ phase' = "stopped" /\ UNCHANGED series
    <2>1. PhaseInv(n)' /\ phase' \in Phases /\ idx' \in Nat \ {0} /\ made' \in Commits
      BY <1>2, <1>4 DEF PhaseInv, Phases, Underway
    <2>2. SeriesInv'
      BY <1>1, <1>2, <1>4, <2>1, ControlStep
    <2>3. Stands
      BY <1>4 DEF Stands, Tracked
    <2>. QED  BY <2>2, <2>3
  <1>5. ASSUME NEW plan \in Plan, series = NoSeries, phase' = "choose", ValidPlan(FreshAll(plan, 1)),
               series' = [NoSeries EXCEPT !.tracked = FreshAll(plan, 1), !.rev = 1, !.base = head]
        PROVE  SeriesInv' /\ Stands
    <2>. DEFINE t == FreshAll(plan, 1)
    <2>1. /\ t \in Seq(Item) /\ Len(t) \in Nat /\ \A i \in 1..Len(t) : t[i].status = "Pending"
      <3>1. plan \in Seq(Id)
        BY PlanAssumption
      <3>2. Len(plan) \in Nat
        BY <3>1, LenProperties
      <3>. QED  BY <3>1, <3>2, FreshAllFacts
    <2>2. series' = [NoSeries EXCEPT !.tracked = t, !.rev = 1, !.base = head] /\ ValidPlan(t)
      BY <1>5
    <2>. HIDE DEF t
    <2>3. head = Root /\ DOMAIN snaps = {} /\ head \in Commits
      BY <1>2, <1>5 DEF PlanInv, NoSeries, Types
    <2>4. /\ series' \in Series /\ series'.tracked = t /\ series'.rev = 1 /\ series'.base = Root
      BY <2>1, <2>2, <2>3 DEF NoSeries, Series
    <2>5. DoneTo(series', 0)
      BY <2>1, <2>4 DEF DoneTo
    <2>6. Unique(series')
      BY <2>1, <2>2, <2>4, ValidIsUnique
    <2>7. IsChain(EndOf(series', 0), series', 0)
      BY <2>4 DEF IsChain, EndOf, Root
    <2>8. PlanInv(0)'
      BY <2>4, <2>5, <2>6, <2>7 DEF PlanInv
    <2>9. PhaseInv(0)'
      BY <1>2, <1>5, <2>4 DEF PhaseInv
    <2>10. SnapInv(0)'
      BY <1>2, <2>3 DEF SnapInv
    <2>11. Types'
      BY <1>2, <1>5, <2>4 DEF Types, Phases
    <2>12. Stands
      BY <1>5 DEF Stands, NoSeries
    <2>. QED  BY <1>2, <2>8, <2>9, <2>10, <2>11, <2>12 DEF SeriesInv, InvAt
  <1>. QED  BY <1>3, <1>4, <1>5 DEF Start

-----------------------------------------------------------------------------
(* The theorems *)

\* The invariant holds at first, and every step keeps it.
LEMMA SeriesInitInv == SeriesInit => SeriesInv
  <1>. SUFFICES ASSUME SeriesInit PROVE SeriesInv
    OBVIOUS
  <1>1. Root \in Commits /\ Root # <<>> /\ Len(Root) = 1 /\ <<>> \in Commits
    <2>1. [todo |-> NoId, ver |-> 0, round |-> 0] \in Changes
      BY DEF Changes
    <2>. QED  BY <2>1, EmptySeq DEF Root, Commits
  <1>2. NoSeries \in Series /\ NoSeries.rev = 0 /\ Len(NoSeries.tracked) = 0
    BY <1>1, EmptySeq DEF NoSeries, Series, NoCommit
  <1>3. DOMAIN <<>> = {}
    BY EmptySeq
  <1>4. Types
    BY <1>1, <1>2, <1>3, BudgetAssumption DEF SeriesInit, Types, Phases, NoCommit
  <1>5. Distinct(head)
    BY <1>1 DEF SeriesInit, Distinct
  <1>6. PlanInv(0)
    BY <1>2, <1>3 DEF SeriesInit, PlanInv, DoneTo, Unique
  <1>7. PhaseInv(0)
    BY DEF SeriesInit, PhaseInv, Underway
  <1>8. SnapInv(0)
    BY <1>3 DEF SeriesInit, SnapInv
  <1>. QED  BY <1>4, <1>5, <1>6, <1>7, <1>8 DEF SeriesInv, InvAt

LEMMA SeriesStep == SeriesInv /\ [SeriesNext]_seriesVars => SeriesInv' /\ (Stands \/ UNCHANGED series)
  <1>. SUFFICES ASSUME SeriesInv, [SeriesNext]_seriesVars PROVE SeriesInv' /\ (Stands \/ UNCHANGED series)
    OBVIOUS
  <1>1. CASE Start
    BY <1>1, StartKeeps
  <1>2. CASE SkipDone
    BY <1>2, SkipDoneKeeps DEF SkipDone
  <1>3. CASE BeginTodo
    BY <1>3, BeginTodoKeeps
  <1>4. CASE Refuse
    BY <1>4, RefuseKeeps DEF Refuse
  <1>5. CASE Succeed
    BY <1>5, SucceedKeeps
  <1>6. CASE Fail
    BY <1>6, FailKeeps
  <1>7. CASE Revise
    BY <1>7, ReviseKeeps
  <1>8. CASE Update
    BY <1>8, UpdateKeeps
  <1>9. CASE OpenAssessment
    BY <1>9, OpenAssessmentKeeps DEF OpenAssessment
  <1>10. CASE Assess
    BY <1>10, AssessKeeps
  <1>11. CASE Research
    BY <1>11, ResearchKeeps DEF Research, Inner
  <1>12. CASE WritePatch
    BY <1>12, WritePatchKeeps DEF WritePatch, Inner
  <1>13. CASE Intent
    BY <1>13, IntentKeeps DEF Intent, Inner
  <1>14. CASE IntentFails
    BY <1>14, IntentFailsKeeps
  <1>15. CASE GitCommit
    BY <1>15, GitCommitKeeps DEF GitCommit
  <1>16. CASE SaveCommit
    BY <1>16, SaveCommitKeeps DEF SaveCommit
  <1>17. CASE ReviewAccepts \/ ReviewRejects
    BY <1>17, ReviewKeeps DEF ReviewAccepts, ReviewRejects, Inner
  <1>18. CASE Kill
    BY <1>18, KillKeeps DEF Kill
  <1>19. CASE UNCHANGED seriesVars
    <2>1. PICK n \in Nat : InvAt(n)
      BY DEF SeriesInv
    <2>2. InvAt(n)'
      BY <1>19, <2>1 DEF seriesVars, InvAt, PlanInv, PhaseInv, SnapInv
    <2>. QED  BY <1>19, <2>2 DEF seriesVars, SeriesInv, Types
  <1>. QED
    BY <1>1, <1>2, <1>3, <1>4, <1>5, <1>6, <1>7, <1>8, <1>9, <1>10, <1>11, <1>12, <1>13, <1>14,
       <1>15, <1>16, <1>17, <1>18, <1>19 DEF SeriesNext, Driver, Workflow

\* The inductive invariant, through kills, resumes, revisions and updates.
THEOREM SeriesInvariant == SeriesSpec => []SeriesInv
  <1>1. SeriesInv /\ [SeriesNext]_seriesVars => SeriesInv'
    BY SeriesStep
  <1>. QED  BY SeriesInitInv, <1>1, PTL DEF SeriesSpec

\* Todos, statuses, phases and review rounds stay in their ranges.
THEOREM SeriesTypes == SeriesSpec => []SeriesTypeOK
  <1>1. SeriesInv => SeriesTypeOK
    <2>. SUFFICES ASSUME SeriesInv PROVE SeriesTypeOK
      OBVIOUS
    <2>1. Types
      BY DEF SeriesInv
    <2>2. \A i \in DOMAIN series.tracked : Tracked(i).id \in Id /\ Tracked(i).status \in TodoStatus
      BY <2>1, SeriesFacts DEF Types, Tracked, Item
    <2>3. \A k \in DOMAIN snaps : snaps[k].round \in 1..MaxRounds
      BY <2>1 DEF Types, RunState
    <2>. QED  BY <2>1, <2>2, <2>3 DEF Types, SeriesTypeOK
  <1>. QED  BY SeriesInvariant, <1>1, PTL

\* "amended in place, never stacked": rejected patches, failed runs, kills and resumes
\* never leave two changes for one todo in the history of HEAD.
THEOREM PatchesAreNeverStacked == SeriesSpec => []NeverStacked
  <1>1. SeriesInv => NeverStacked
    <2>. SUFFICES ASSUME SeriesInv PROVE NeverStacked
      OBVIOUS
    <2>1. Distinct(head) /\ DOMAIN head = 1..Len(head)
      BY LenProperties DEF SeriesInv, Types, Commits
    <2>. QED  BY <2>1 DEF NeverStacked, Distinct
  <1>. QED  BY SeriesInvariant, <1>1, PTL

\* What the assessment publishes is one commit per todo of the final plan, in its order,
\* on the HEAD the series began with, each for the contract its todo ends up with.
THEOREM TheSeriesIsExact == SeriesSpec => []PublishedIsExact
  <1>1. SeriesInv => PublishedIsExact
    <2>. SUFFICES ASSUME SeriesInv, phase = "published" PROVE PublishedIsExact
      BY DEF PublishedIsExact
    <2>1. PICK n \in Nat : InvAt(n)
      BY DEF SeriesInv
    <2>2. /\ Types /\ series.rev # 0 /\ n = Len(series.tracked) /\ series.base = Root
          /\ IsChain(head, series, n) /\ DOMAIN series.tracked = 1..n
      BY <2>1, SeriesFacts DEF SeriesInv, InvAt, PlanInv, PhaseInv, Underway, Types
    <2>3. Len(Root) = 1 /\ Root \in Commits /\ head \in Commits /\ head # <<>>
      <3>1. [todo |-> NoId, ver |-> 0, round |-> 0] \in Changes
        BY DEF Changes
      <3>. QED  BY <2>2, <3>1 DEF Root, Commits, Types
    <2>4. Len(head) = Len(series.base) + Len(series.tracked)
      BY <2>2, <2>3 DEF IsChain
    <2>5. IsPrefix(series.base, head)
      <3>1. Len(Root) <= Len(head) /\ Len(head) \in Nat
        BY <2>2, <2>3 DEF IsChain
      <3>2. ASSUME NEW s \in Commits, Len(s) >= 1
            PROVE  /\ SubSeq(s, 1, 1) \in Seq(Changes) /\ Len(SubSeq(s, 1, 1)) = 1
                   /\ SubSeq(s, 1, 1)[1] = s[1]
        <4>1. Len(s) \in Nat /\ \A i \in 1..1 : s[i] \in Changes
          BY <3>2, LenProperties, ElementOfSeq DEF Commits
        <4>. QED  BY <4>1, SubSeqProperties
      <3>3. SubSeq(Root, 1, Len(Root)) = SubSeq(head, 1, Len(Root))
        <4>. DEFINE q == SubSeq(Root, 1, 1)
                    r == SubSeq(head, 1, 1)
        <4>1. /\ q \in Seq(Changes) /\ Len(q) = 1 /\ q[1] = Root[1]
              /\ r \in Seq(Changes) /\ Len(r) = 1 /\ r[1] = head[1]
          BY <2>3, <3>1, <3>2
        <4>2. Root[1] = head[1]
          BY <2>2 DEF IsChain
        <4>. HIDE DEF q, r
        <4>3. \A i \in 1..Len(q) : q[i] = r[i]
          BY <4>1, <4>2
        <4>4. q = r
          BY <4>1, <4>3, SeqEqual
        <4>. QED  BY <2>3, <4>4 DEF q, r
      <3>. QED  BY <2>2, <3>1, <3>3 DEF IsPrefix
    <2>6. \A i \in DOMAIN series.tracked :
            LET change == head[Len(series.base) + i]
            IN  change.todo = Tracked(i).id /\ change.ver = Tracked(i).ver
      BY <2>2, <2>3 DEF IsChain, Tracked
    <2>. QED  BY <2>4, <2>5, <2>6 DEF PublishedIsExact
  <1>. QED  BY SeriesInvariant, <1>1, PTL

\* No update, revision, appended work, kill or resume takes back or moves a todo that is
\* done, or the commit it recorded.
THEOREM DoneStaysDone == SeriesSpec => CompletedStands
  <1>1. SeriesInv /\ [SeriesNext]_seriesVars =>
          [\A i \in DOMAIN series.tracked : Tracked(i).status = "Done" =>
             i \in DOMAIN series'.tracked /\ series'.tracked[i] = Tracked(i)]_series
    BY SeriesStep DEF Stands
  <1>. QED  BY SeriesInvariant, <1>1, PTL DEF SeriesSpec, CompletedStands
=============================================================================
