------------------------------ MODULE FixSeries ------------------------------
(***************************************************************************)
(* The fix-series driver (run_fix_series_driver) and the part of one fix   *)
(* workflow run that touches git.  The driver turns a plan into one commit *)
(* per todo, stacked on the HEAD it found.  Two things survive a crash     *)
(* besides git: fix-series.json, the plan with the state of each todo, and *)
(* one workflow snapshot per (todo, plan revision, todo revision).         *)
(*                                                                         *)
(* A commit is its history: the sequence of the changes from the root on,  *)
(* so that the parent of a commit is its Front, a commit adds an element   *)
(* and an amend replaces the last one.  A change is the todo it is for,    *)
(* the version of that todo's contract and the review round.               *)
(*                                                                         *)
(* fix-series.json is saved at every point where the driver goes on, so    *)
(* the driver's memory and the file are one variable, series: a crash      *)
(* before a save is a crash before the step.  The snapshot of a run is     *)
(* saved after every step; only the git commit of a run happens before the *)
(* save that records it (made).                                            *)
(*                                                                         *)
(* Session_proofs extends this module and Session: the names that both     *)
(* would have are SeriesInit, SeriesNext, SeriesSpec, ... here.            *)
(***************************************************************************)
EXTENDS Naturals, Sequences, SequencesExt, FiniteSets

CONSTANTS
    Id, NoId,           \* ids of todos; the id of the change at the root
    DependsOn,          \* DependsOn[i]: the ids that todo i depends on
    Plan,               \* the plans (sequences of ids) that planning may return
    Updates,            \* the operation lists a plan update may carry
    Appends,            \* the id sequences that the final assessment may append
    MaxRevisions,       \* MAX_FIX_TODO_REVISIONS
    MaxPlanUpdates,     \* MAX_PLAN_UPDATE_REVISIONS
    MaxFinalRevisions,  \* MAX_FINAL_PLAN_REVISIONS
    MaxRounds,          \* the reviews of one run before on_exhausted
    MaxRuns             \* bound: how often the program is started

ASSUME BudgetAssumption ==
    /\ {MaxRevisions, MaxPlanUpdates, MaxFinalRevisions} \subseteq Nat
    /\ {MaxRounds, MaxRuns} \subseteq Nat \ {0}
ASSUME IdAssumption == NoId \notin Id /\ DependsOn \in [Id -> SUBSET Id]
ASSUME PlanAssumption ==
    /\ Plan \subseteq Seq(Id) /\ Appends \subseteq Seq(Id)
    /\ Updates \subseteq Seq([op : {"replace_current", "split_current", "append_after_current",
                                     "revise_pending", "remove_pending"}, ids : Seq(Id)])

VARIABLES
    head,       \* HEAD of the workspace
    series,     \* fix-series.json (FixSeriesState); NoSeries before a plan
    snaps,      \* the workflow snapshot, by its key
    phase,      \* where the process is; "down": it is not running
    idx,        \* the driver's index into the plan
    made,       \* the commit git has made and no snapshot records yet
    runs        \* how often the program was started

seriesVars == <<head, series, snaps, phase, idx, made, runs>>

TodoStatus == {"Pending", "InProgress", "Done", "Failed", "Unexecutable"}
Phases == {"down", "choose", "work", "assess", "published", "stopped", "refused"}

Root == <<[todo |-> NoId, ver |-> 0, round |-> 0]>>
NoCommit == <<>>
Parent(commit) == Front(commit)

\* A todo as planned: ver is the plan revision that wrote its contract.
Fresh(id, ver) ==
    [id |-> id, ver |-> ver, status |-> "Pending", sha |-> NoCommit, revisions |-> 0]
FreshAll(ids, ver) == [i \in DOMAIN ids |-> Fresh(ids[i], ver)]

NoSeries == [tracked |-> <<>>, rev |-> 0, updates |-> 0, finals |-> 0, base |-> NoCommit]

\* validate_fix_plan: ids are unique and a todo depends on earlier ones only.
ValidPlan(tracked) ==
    \A i \in DOMAIN tracked :
        /\ \A j \in 1..(i - 1) : tracked[j].id # tracked[i].id
        /\ \A d \in DependsOn[tracked[i].id] : \E j \in 1..(i - 1) : tracked[j].id = d

Tracked(i) == series.tracked[i]
AllDone == \A i \in DOMAIN series.tracked : Tracked(i).status = "Done"

\* The snapshot directory of the todo the driver is at.
Key == <<idx, Tracked(idx).id, series.rev, Tracked(idx).revisions>>

\* A workflow run that has not started: the step it is at, the attempts of
\* the commit step, its durable intent and its live outputs, the dispute of
\* write-patch, and what research said.
NewRun == [at |-> "research", round |-> 1, attempt |-> 0, pre |-> NoCommit,
           sha |-> NoCommit, dispute |-> FALSE, skipped |-> FALSE,
           verdict |-> [kind |-> "none"]]

Cur == snaps[Key]
SetCur(run) == snaps' = [snaps EXCEPT ![Key] = run]
SetItem(i, item) == [series EXCEPT !.tracked[i] = item]

SeriesInit ==
    /\ head = Root
    /\ series = NoSeries
    /\ snaps = <<>>
    /\ phase = "down"
    /\ idx = 1
    /\ made = NoCommit
    /\ runs = 0

-----------------------------------------------------------------------------
(* Start, planning, and the choice of the next todo.                       *)

\* FixSeriesState::load: what was in progress is pending again.
Loaded ==
    [series EXCEPT !.tracked = [i \in DOMAIN series.tracked |->
        IF Tracked(i).status = "InProgress"
        THEN [Tracked(i) EXCEPT !.status = "Pending"] ELSE Tracked(i)]]

\* The program starts; after the first time with --resume.
Start ==
    /\ phase \in {"down", "stopped", "refused"} /\ runs < MaxRuns
    /\ runs' = runs + 1
    /\ idx' = 1
    /\ \/ /\ series # NoSeries
          /\ series' = Loaded
          /\ phase' = "choose"
       \/ /\ series = NoSeries
          /\ \E plan \in Plan :
                /\ ValidPlan(FreshAll(plan, 1))
                /\ series' = [NoSeries EXCEPT !.tracked = FreshAll(plan, 1),
                                              !.rev = 1, !.base = head]
          /\ phase' = "choose"
       \/ /\ series = NoSeries          \* research confirms nothing
          /\ phase' = "stopped"
          /\ UNCHANGED series
    /\ UNCHANGED <<head, snaps, made>>

SkipDone ==
    /\ phase = "choose" /\ idx <= Len(series.tracked)
    /\ Tracked(idx).status = "Done"
    /\ idx' = idx + 1
    /\ UNCHANGED <<head, series, snaps, phase, made, runs>>

\* The commits of the leading Done todos, each on top of the one before.
DoneCount ==
    CHOOSE n \in 0..Len(series.tracked) :
        /\ \A i \in 1..n : Tracked(i).status = "Done"
        /\ n < Len(series.tracked) => Tracked(n + 1).status # "Done"
HeadAfter(n) == IF n = 0 THEN series.base ELSE Tracked(n).sha
Stacked(n) == \A i \in 1..n : /\ Tracked(i).sha # NoCommit
                              /\ Parent(Tracked(i).sha) = HeadAfter(i - 1)

\* snapshot_owns_head: the commit step's live output, or a dispute for which
\* the commit step was skipped.
OwnsHead(run) == run.sha = head \/ (run.dispute /\ run.skipped)

\* validate_completed_prefix
PrefixHolds ==
    /\ Stacked(DoneCount)
    /\ \/ head = HeadAfter(DoneCount)
       \/ /\ Key \in DOMAIN snaps
          /\ OwnsHead(Cur)
          /\ Parent(head) = HeadAfter(DoneCount)

\* The driver marks the todo and opens its workflow run, or takes up the
\* run of the same key.  The snapshots of earlier keys stay on disk, but no
\* key comes back (a todo that is done is skipped, a revision counts up), so
\* only the last one is kept here.
BeginTodo ==
    /\ phase = "choose" /\ idx <= Len(series.tracked)
    /\ Tracked(idx).status # "Done"
    /\ PrefixHolds
    /\ series' = SetItem(idx, [Tracked(idx) EXCEPT !.status = "InProgress"])
    /\ snaps' = IF Key \in DOMAIN snaps THEN snaps
                ELSE [k \in {Key} |-> NewRun]
    /\ phase' = "work"
    /\ UNCHANGED <<head, idx, made, runs>>

\* "workspace HEAD does not match completed fix prefix"
Refuse ==
    /\ phase = "choose" /\ idx <= Len(series.tracked)
    /\ Tracked(idx).status # "Done"
    /\ ~PrefixHolds
    /\ phase' = "refused"
    /\ UNCHANGED <<head, series, snaps, idx, made, runs>>

-----------------------------------------------------------------------------
(* One fix workflow run (fix.json): research, write-patch (with the commit  *)
(* message), commit, review (with the build), orchestrator.                 *)

Working(at) == phase = "work" /\ Cur.at = at
Inner == UNCHANGED <<head, series, phase, idx, made, runs>>

\* What research may conclude; an update names the plan revision it was
\* written for, perhaps an old one.
Verdicts ==
    [kind : {"confirmed", "invalid", "unexecutable", "unconfirmed", "revise"}]
    \cup [kind : {"update"}, expected : {series.rev, series.rev - 1}, ops : Updates]

Research ==
    /\ Working("research")
    /\ \E v \in Verdicts :
          SetCur([Cur EXCEPT !.verdict = v,
                  !.at = IF v.kind = "confirmed" THEN "patch" ELSE "ended"])
    /\ Inner

\* write-patch changes the tree, or disputes the review: then the steps up
\* to the review are skipped.
WritePatch ==
    /\ Working("patch")
    /\ \/ SetCur([Cur EXCEPT !.at = "commit"])
       \/ SetCur([Cur EXCEPT !.at = "review", !.dispute = TRUE, !.skipped = TRUE])
    /\ Inner

\* Mutant: a retry commits on top of what it should replace.
AmendsNever(attempt) == FALSE

\* amend_from_attempt of the commit step is 2.
Amends(attempt) == attempt >= 2

\* attempt_effects: the attempt is counted and HEAD recorded before git runs.
Intent ==
    /\ Working("commit")
    /\ SetCur([Cur EXCEPT !.at = "pending", !.attempt = @ + 1, !.pre = head,
                          !.skipped = FALSE])
    /\ Inner

\* The same step when git rev-parse fails or times out: the run ends, and the
\* last snapshot keeps the attempt that was counted.
IntentFails ==
    /\ Working("commit")
    /\ SetCur([Cur EXCEPT !.attempt = @ + 1])
    /\ series' = SetItem(idx, [Tracked(idx) EXCEPT !.status = "Failed"])
    /\ phase' = "stopped"
    /\ UNCHANGED <<head, idx, made, runs>>

\* run_commit_fix_recoverable: if HEAD still is where the intent found it,
\* git commits or amends; if it moved, the commit was made before a crash.
\* The parent of either must be the one the intent implies.
Change == [todo |-> Tracked(idx).id, ver |-> Tracked(idx).ver, round |-> Cur.round]
IntendedParent == IF Amends(Cur.attempt) THEN Parent(Cur.pre) ELSE Cur.pre

GitCommit ==
    /\ Working("pending") /\ made = NoCommit
    /\ \/ /\ head = Cur.pre
          /\ head' = Append(IntendedParent, Change)
          /\ made' = head'
       \/ /\ head # Cur.pre
          /\ Parent(head) = IntendedParent /\ Last(head) = Change
          /\ made' = head
          /\ UNCHANGED head
       \/ /\ head = Cur.pre /\ Amends(Cur.attempt)   \* the amend would be empty
          /\ made' = head
          /\ UNCHANGED head
    /\ UNCHANGED <<series, snaps, phase, idx, runs>>

\* The outputs of the commit step reach the snapshot.
SaveCommit ==
    /\ Working("pending") /\ made # NoCommit
    /\ SetCur([Cur EXCEPT !.at = "review", !.sha = made])
    /\ made' = NoCommit
    /\ UNCHANGED <<head, series, phase, idx, runs>>

\* The review accepts, or the orchestrator sends the patch back: to
\* write-patch, to the commit message, or to the build.  What is reset moves
\* its outputs to prior_attempts.  The last round ends in terminal failure.
ReviewAccepts ==
    /\ Working("review")
    /\ SetCur([Cur EXCEPT !.at = "ended"])
    /\ Inner

\* Mutant: the round is not counted.
RejectedUncounted(run, target) ==
    [run EXCEPT !.at = target,
                !.sha = IF target = "review" THEN @ ELSE NoCommit,
                !.dispute = IF target = "patch" THEN FALSE ELSE @]
Rejected(run, target) ==
    [run EXCEPT !.round = @ + 1, !.at = target,
                !.sha = IF target = "review" THEN @ ELSE NoCommit,
                !.dispute = IF target = "patch" THEN FALSE ELSE @]

ReviewRejects ==
    /\ Working("review")
    /\ IF Cur.round < MaxRounds
       THEN \E target \in {"patch", "commit", "review"} : SetCur(Rejected(Cur, target))
       ELSE SetCur([Cur EXCEPT !.at = "failed"])
    /\ Inner

-----------------------------------------------------------------------------
(* The driver takes the outcome of the run.                                 *)

StopWith(status) ==
    /\ series' = SetItem(idx, [Tracked(idx) EXCEPT !.status = status])
    /\ phase' = "stopped"
    /\ UNCHANGED <<head, snaps, idx, made, runs>>

EndedWith(kind) == Working("ended") /\ Cur.verdict.kind = kind

Succeed ==
    /\ EndedWith("confirmed")
    /\ series' = SetItem(idx, [Tracked(idx) EXCEPT !.status = "Done", !.sha = head])
    /\ idx' = idx + 1
    /\ phase' = "choose"
    /\ UNCHANGED <<head, snaps, made, runs>>

\* The todo failed, cannot be executed, or its workflow run did: a failed
\* step that is not terminal is tried again when the run is taken up.
Fail ==
    \/ EndedWith("unexecutable") /\ StopWith("Unexecutable")
    \/ (EndedWith("invalid") \/ EndedWith("unconfirmed")) /\ StopWith("Failed")
    \/ Working("failed") /\ StopWith("Failed")
    \/ /\ phase = "work" /\ Cur.at \notin {"ended", "failed"} /\ made = NoCommit
       /\ StopWith("Failed")

\* revised_current_fix_todo: same id, new contract, within the budget.
Revise ==
    /\ EndedWith("revise")
    /\ IF Tracked(idx).revisions < MaxRevisions
       THEN /\ series' = [series EXCEPT !.rev = @ + 1, !.tracked[idx] =
                    [Tracked(idx) EXCEPT !.ver = series.rev + 1, !.status = "Pending",
                                         !.revisions = Tracked(idx).revisions + 1]]
            /\ phase' = "choose"
            /\ UNCHANGED <<head, snaps, idx, made, runs>>
       ELSE StopWith("Failed")

\* One operation of a plan update, on the plan built so far.  at is where
\* append_after_current inserts; it is not moved by a removal.
Splice(s, i, n, t) == SubSeq(s, 1, i - 1) \o t \o SubSeq(s, i + n, Len(s))
\* Mutant: the search begins at the head of the plan.
AnyOfId(acc, id) == {i \in DOMAIN acc.tracked : acc.tracked[i].id = id}
LaterPending(acc, id) ==
    {i \in (idx + 1)..Len(acc.tracked) :
        acc.tracked[i].id = id /\ acc.tracked[i].status = "Pending"}

Operation(acc, o) ==
    LET ver == series.rev + 1
        new == FreshAll(o.ids, ver)
        hits == LaterPending(acc, o.ids[1])
        i == CHOOSE i \in hits : TRUE
    IN  CASE acc.result # "ok" -> acc
          [] acc.result = "ok" /\ o.op = "replace_current" ->
               IF acc.revised THEN [acc EXCEPT !.result = "invalid"]
               ELSE [acc EXCEPT !.revised = TRUE,
                        !.tracked[idx] = [acc.tracked[idx] EXCEPT !.ver = ver,
                                                                  !.status = "Pending"]]
          [] acc.result = "ok" /\ o.op = "split_current" ->
               IF acc.revised THEN [acc EXCEPT !.result = "invalid"]
               ELSE [acc EXCEPT !.revised = TRUE, !.at = idx + Len(o.ids),
                                !.tracked = Splice(@, idx, 1, new)]
          [] acc.result = "ok" /\ o.op = "append_after_current" ->
               IF ~acc.revised THEN [acc EXCEPT !.result = "invalid"]
               ELSE IF acc.at > Len(acc.tracked) + 1 THEN [acc EXCEPT !.result = "panic"]
               ELSE [acc EXCEPT !.at = @ + Len(o.ids),
                                !.tracked = Splice(@, acc.at, 0, new)]
          [] acc.result = "ok" /\ o.op = "revise_pending" ->
               IF hits = {} THEN [acc EXCEPT !.result = "invalid"]
               ELSE [acc EXCEPT !.tracked[i] =
                        [acc.tracked[i] EXCEPT !.ver = ver,
                                               !.revisions = acc.tracked[i].revisions + 1]]
          [] acc.result = "ok" /\ o.op = "remove_pending" ->
               IF hits = {} THEN [acc EXCEPT !.result = "invalid"]
               ELSE [acc EXCEPT !.tracked = Splice(@, i, 1, <<>>)]

\* The operations of an update, one after the other.
Unrevised == [result |-> "ok", revised |-> FALSE, at |-> idx + 1, tracked |-> series.tracked]
AllOperations(ops) ==
    LET after[n \in 0..Len(ops)] ==
            IF n = 0 THEN Unrevised ELSE Operation(after[n - 1], ops[n])
    IN  after[Len(ops)]

\* apply_fix_plan_update
Updated(v) ==
    LET none == [result |-> "invalid", tracked |-> series.tracked]
        all == AllOperations(v.ops)
    IN  IF series.updates >= MaxPlanUpdates \/ v.expected # series.rev THEN none
        ELSE IF all.result = "ok" /\ ~(all.revised /\ ValidPlan(all.tracked)) THEN none
        ELSE all

Update ==
    /\ EndedWith("update")
    /\ LET new == Updated(Cur.verdict)
       IN  CASE new.result = "ok" ->
                  /\ series' = [series EXCEPT !.tracked = new.tracked, !.rev = @ + 1,
                                              !.updates = @ + 1]
                  /\ phase' = "choose"
             [] new.result = "invalid" -> phase' = "stopped" /\ UNCHANGED series
             [] new.result = "panic" -> phase' = "down" /\ UNCHANGED series
    /\ UNCHANGED <<head, snaps, idx, made, runs>>

-----------------------------------------------------------------------------
(* The final assessment.                                                    *)

\* Mutant: only HEAD is compared, not the parents of the commits.
ChainEndsAtHead == head = HeadAfter(Len(series.tracked))

\* validate_series_commit_chain
ChainIsExact == Stacked(Len(series.tracked)) /\ head = HeadAfter(Len(series.tracked))

\* All todos are done: the chain is checked, and the assessment opened.
OpenAssessment ==
    /\ phase = "choose" /\ idx > Len(series.tracked)
    /\ phase' = IF AllDone /\ ChainIsExact THEN "assess" ELSE "stopped"
    /\ UNCHANGED <<head, series, snaps, idx, made, runs>>

\* apply_final_fix_plan_update: the assessment may only append.
AppendFinal(ids) ==
    LET tracked == series.tracked \o FreshAll(ids, series.rev + 1)
    IN  IF series.finals < MaxFinalRevisions /\ ValidPlan(tracked)
        THEN /\ series' = [series EXCEPT !.tracked = tracked, !.rev = @ + 1, !.finals = @ + 1]
             /\ phase' = "choose"
        ELSE phase' = "stopped" /\ UNCHANGED series

Assess ==
    /\ phase = "assess"
    /\ \/ phase' = "published" /\ UNCHANGED series
       \/ phase' = "stopped" /\ UNCHANGED series
       \/ \E ids \in Appends : AppendFinal(ids)
    /\ UNCHANGED <<head, snaps, idx, made, runs>>

-----------------------------------------------------------------------------
\* The process is killed.
Kill ==
    /\ phase \in {"choose", "work", "assess"}
    /\ phase' = "down"
    /\ made' = NoCommit
    /\ UNCHANGED <<head, series, snaps, idx, runs>>

Driver == SkipDone \/ BeginTodo \/ Refuse \/ Succeed \/ Fail \/ Revise \/ Update
          \/ OpenAssessment \/ Assess
Workflow == Research \/ WritePatch \/ Intent \/ IntentFails \/ GitCommit \/ SaveCommit
            \/ ReviewAccepts \/ ReviewRejects

SeriesNext == Start \/ Driver \/ Workflow \/ Kill

\* A process that runs goes on; nothing makes it start, or be killed.
SeriesFairness == WF_seriesVars(Driver \/ Workflow)

SeriesSpec == SeriesInit /\ [][SeriesNext]_seriesVars /\ SeriesFairness

-----------------------------------------------------------------------------
(* Properties.                                                              *)

\* The shape of the driver's state.
SeriesTypeOK ==
    /\ phase \in Phases /\ idx \in Nat \ {0} /\ runs \in 0..MaxRuns
    /\ \A i \in DOMAIN series.tracked :
          Tracked(i).id \in Id /\ Tracked(i).status \in TodoStatus
    /\ \A k \in DOMAIN snaps : snaps[k].round \in 1..MaxRounds

\* The plan as far as it is done: updates, revisions, appended work, crashes
\* and restarts may change what is left of the plan, but the todos that are
\* done stay what they are, in their place, with the commit they recorded.
CompletedStands ==
    [][\A i \in DOMAIN series.tracked : Tracked(i).status = "Done" =>
           i \in DOMAIN series'.tracked /\ series'.tracked[i] = Tracked(i)]_series

\* "amended in place, never stacked": however often the reviews reject a
\* patch, runs fail and the program is restarted, the history of HEAD never
\* holds two changes for one todo.
NeverStacked ==
    \A i, j \in DOMAIN head : head[i].todo = head[j].todo => i = j

\* What the assessment publishes is exactly one commit per todo of the plan,
\* in the order of the plan, on top of the HEAD the series began with, each
\* made for the contract its todo ends up with, and nothing else.
PublishedIsExact ==
    phase = "published" =>
        /\ Len(head) = Len(series.base) + Len(series.tracked)
        /\ IsPrefix(series.base, head)
        /\ \A i \in DOMAIN series.tracked :
              LET change == head[Len(series.base) + i]
              IN  change.todo = Tracked(i).id /\ change.ver = Tracked(i).ver

\* A run of the program comes to an end: the budgets of reviews, revisions,
\* plan updates and final updates leave no cycle.
SeriesEnds == <>[](phase \in {"down", "published", "stopped", "refused"})

\* "commit/amend state ... scoped to that per-todo workflow run": an amend
\* replaces a commit of the todo that is being worked on, and no other.
AmendIsScoped ==
    [][ IsPrefix(head, head')
        \/ Last(head).todo = Tracked(idx).id ]_head

\* "its matching inner workflow snapshot resumes": while the commits of the
\* done todos are in order, a restart is never turned away by a HEAD that the
\* series itself has made.
ResumeContinues == phase = "refused" => ~Stacked(DoneCount)
=============================================================================
