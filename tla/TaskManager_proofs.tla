------------------------ MODULE TaskManager_proofs ------------------------
(***************************************************************************)
(* Proofs about TaskManager, for every number of tasks and rows and every  *)
(* setting of --max-parallel and --turns. Every theorem is about Spec, the *)
(* specification with all the actions.                                     *)
(***************************************************************************)
EXTENDS TaskManager, FiniteSetTheorems, WellFoundedInduction, TLAPS

(***************************************************************************)
(* Facts about finite sets, in the form the proofs use.                    *)
(***************************************************************************)
\* A part of a finite set is finite, and no larger than the whole.
LEMMA PartOfFinite ==
  ASSUME NEW S, IsFiniteSet(S), NEW T \in SUBSET S
  PROVE  /\ IsFiniteSet(T)
         /\ Cardinality(T) \in Nat
         /\ Cardinality(T) <= Cardinality(S)
BY FS_Subset, FS_CardinalityType

\* A set of rows or of tasks is finite.
LEMMA FiniteRowsAndTasks ==
  /\ \A S \in SUBSET Row : IsFiniteSet(S) /\ Cardinality(S) \in Nat
  /\ \A S \in SUBSET Task : IsFiniteSet(S) /\ Cardinality(S) \in Nat
BY PartOfFinite, ConstantsAssumption

\* A claim that takes a row has found that many free slots and turns left.
LEMMA WaveFits ==
  ASSUME TypeOK, NEW limit, limit \in {1, Unbounded},
         NEW S \in SUBSET Row, S # {}, IsWave(S, limit)
  PROVE  /\ MaxParallel > 0 => Cardinality(S) + Cardinality(Active) <= MaxParallel
         /\ TurnsLimit > 0 =>
              completed + Cardinality(Active) + Cardinality(S) <= TurnsLimit
<1>1. /\ Cardinality(S) \in Nat /\ Cardinality(Active) \in Nat
      /\ Cardinality(Claimable) \in Nat /\ Unbounded \in Nat
      /\ completed \in Nat /\ starts \in Nat /\ MaxParallel \in Nat /\ TurnsLimit \in Nat
  <2>1. Active \in SUBSET Task /\ Claimable \in SUBSET Row
    BY DEF Active, Claimable, Ready
  <2> QED
    BY <2>1, FiniteRowsAndTasks, ConstantsAssumption DEF TypeOK, Unbounded
<1>2. Cardinality(S) # 0
  BY FS_EmptySet, FiniteRowsAndTasks
<1>3. Cardinality(S) = Least(ClaimLimit(limit), Cardinality(Claimable))
  BY DEF IsWave
<1>4. TurnBudget \in Nat /\ FreeSlots \in Nat /\ StartBudget \in Nat
  BY <1>1 DEF TurnBudget, FreeSlots, StartBudget, Monus
<1>5. Cardinality(S) <= TurnBudget /\ Cardinality(S) <= FreeSlots
  BY <1>1, <1>3, <1>4 DEF ClaimLimit, Least
<1>6. ASSUME MaxParallel > 0 PROVE Cardinality(S) + Cardinality(Active) <= MaxParallel
  BY <1>1, <1>2, <1>5, <1>6 DEF FreeSlots, Monus
<1>7. ASSUME TurnsLimit > 0
      PROVE  completed + Cardinality(Active) + Cardinality(S) <= TurnsLimit
  BY <1>1, <1>2, <1>5, <1>7 DEF TurnBudget, Monus
<1> QED
  BY <1>6, <1>7

(***************************************************************************)
(* Type correctness.                                                       *)
(***************************************************************************)
LEMMA NothingSeenType ==
  NothingSeen \in [status : [Row -> RowStatus], needs : [Row -> SUBSET Row]]
BY DEF NothingSeen, RowStatus

\* Every variable keeps its type, whatever the actors do.
THEOREM TypeCorrect == Spec => []TypeOK
<1>1. Init => TypeOK
  BY ConstantsAssumption, NothingSeenType
     DEF Init, TypeOK, EntryState, FutureState, RowStatus, Unranked
<1>2. TypeOK /\ [Next]_vars => TypeOK'
  <2> SUFFICES ASSUME TypeOK, [Next]_vars PROVE TypeOK'
    OBVIOUS
  <2> USE DEF TypeOK, taskVars, todoVars, claimVars, mainVars, reaperVars
  <2>1. ASSUME NEW limit \in {1, Unbounded}, Claim(limit) PROVE TypeOK'
    <3>1. PICK S \in SUBSET Claimable :
            /\ row' = [r \in Row |-> IF r \in S THEN "InProgress" ELSE row[r]]
            /\ starts' = starts + Cardinality(S)
            /\ claims' = [g \in Group |->
                            claims[g] + Cardinality({r \in S : GroupOf[r] = g})]
            /\ claimed' = S
      BY <2>1 DEF Claim
    <3>2. S \in SUBSET Row
      BY DEF Claimable, Ready
    <3>3. Cardinality(S) \in Nat
      BY <3>2, FiniteRowsAndTasks
    <3>4. \A g \in Group : Cardinality({r \in S : GroupOf[r] = g}) \in Nat
      <4>1. \A g \in Group : {r \in S : GroupOf[r] = g} \in SUBSET Row
        BY <3>2
      <4> QED
        BY <4>1, FiniteRowsAndTasks
    <3>5. row' \in [Row -> RowStatus]
      BY <3>1 DEF RowStatus
    <3>6. starts' \in Nat /\ claims' \in [Group -> Nat] /\ claimed' \subseteq Row
      BY <3>1, <3>2, <3>3, <3>4
    <3> QED
      BY <3>5, <3>6, <2>1 DEF Claim
  <2>2. ASSUME NEW r \in Row, NEW t \in Task, Submit(r, t) PROVE TypeOK'
    BY <2>2 DEF Submit, Spawn, Dispatched, EntryState, FutureState
  <2>3. ASSUME NEW r \in Row, SubmitFails(r) PROVE TypeOK'
    BY <2>3 DEF SubmitFails, Dispatched
  <2>4. ASSUME NEW t \in Task, OperatorSubmit(t) PROVE TypeOK'
    BY <2>4 DEF OperatorSubmit, Spawn, EntryState, FutureState
  <2>5. ASSUME NEW order \in Rankings, SetRankedOrder(order) PROVE TypeOK'
    BY <2>5, ConstantsAssumption DEF SetRankedOrder
  <2>6. ASSUME NEW t \in Task, AcquirePermit(t) PROVE TypeOK'
    BY <2>6 DEF AcquirePermit, FutureState
  <2>7. ASSUME NEW t \in Task, Start(t) PROVE TypeOK'
    BY <2>7 DEF Start, EntryState, FutureState
  <2>8. ASSUME NEW t \in Task, NEW produced \in BOOLEAN, FinishOk(t, produced) PROVE TypeOK'
    BY <2>8 DEF FinishOk, EntryState, FutureState
  <2>9. ASSUME NEW t \in Task, FinishErr(t) PROVE TypeOK'
    BY <2>9 DEF FinishErr, EntryState, FutureState
  <2>10. ASSUME NEW t \in Task, Release(t) \/ Vanish(t) PROVE TypeOK'
    BY <2>10 DEF Release, Vanish, End, FutureState
  <2>11. CASE StopCancel
    BY <2>11 DEF StopCancel, EntryState
  <2>12. CASE StopTake
    BY <2>12 DEF StopTake
  <2>13. ASSUME NEW t \in Task, StopJoin(t) \/ StopExpire(t) PROVE TypeOK'
    BY <2>13 DEF StopJoin, StopExpire
  <2>14. CASE StopReturn
    BY <2>14 DEF StopReturn
  <2>15. CASE StopDefer
    BY <2>15 DEF StopDefer, Defer, RowStatus
  <2>16. CASE StopClear
    BY <2>16 DEF StopClear, ClearSessionWork, RowStatus, Unranked
  <2>17. CASE FreshReview
    BY <2>17 DEF FreshReview, ClearSessionWork, RowStatus, Unranked
  <2>18. CASE SeedTodoIfEmpty
    BY <2>18, ConstantsAssumption DEF SeedTodoIfEmpty, RowStatus
  <2>19. CASE PlanFails
    BY <2>19 DEF PlanFails
  <2>20. ASSUME NEW r \in Row, AppendTodo(r) PROVE TypeOK'
    BY <2>20 DEF AppendTodo, RowStatus
  <2>21. ASSUME NEW r \in Row, RemoveTodo(r) PROVE TypeOK'
    BY <2>21 DEF RemoveTodo, RowStatus
  <2>22. CASE ClearActiveTodos
    BY <2>22 DEF ClearActiveTodos, RowStatus, Unranked
  <2>23. CASE DeferPending
    BY <2>23 DEF DeferPending, Defer, RowStatus
  <2>24. CASE RestoreDeferred
    BY <2>24 DEF RestoreDeferred, RowStatus
  <2>25. CASE ResetInProgress
    BY <2>25 DEF ResetInProgress, RowStatus
  <2>26. CASE Reap
    BY <2>26 DEF Reap, EntryState, Terminal
  <2>27. ASSUME NEW t \in Task, NEW hears \in BOOLEAN, PublishTask(t, hears) PROVE TypeOK'
    BY <2>27 DEF PublishTask, RowStatus
  <2>28. ASSUME NEW omit \in SUBSET SeenOpen, NEW create \in SUBSET (Row \ Seen),
                NEW finish \in SUBSET (SeenOpen \ omit), MergeInferredState(finish, omit, create)
         PROVE  TypeOK'
    <3>1. row' \in [Row -> RowStatus]
      BY <2>28 DEF MergeInferredState, RowStatus, Seen, SeenOpen
    <3>2. dep' \in [Row -> SUBSET Row]
      BY <2>28, ConstantsAssumption DEF MergeInferredState
    <3>3. reaped' \in [Task -> {"no", "Done", "Errored", "batched", "asked", "published"}]
      BY <2>28 DEF MergeInferredState, GroupHandled
    <3> QED
      BY <2>28, <3>1, <3>2, <3>3, NothingSeenType DEF MergeInferredState, GroupHandled
  <2>29. CASE NoteReapCompleted
    BY <2>29 DEF NoteReapCompleted
  <2>30. CASE UNCHANGED vars
    BY <2>30 DEF vars
  <2>31. ASSUME NEW group \in SUBSET Task, AskTodoAgent(group) PROVE TypeOK'
    BY <2>31 DEF AskTodoAgent
  <2>32. CASE TodoAgentFails
    <3>1. reaped' \in [Task -> {"no", "Done", "Errored", "batched", "asked", "published"}]
      BY <2>32 DEF TodoAgentFails, GroupHandled
    <3> QED
      BY <2>32, <3>1, NothingSeenType DEF TodoAgentFails, GroupHandled
  <2>33. CASE Reaper
    <3>1. TodoAgentReturns => TypeOK'
      <4> HIDE DEF TypeOK, reaperVars
      <4> QED
        BY <2>28, <2>32 DEF TodoAgentReturns
    <3> QED
      BY <2>26, <2>27, <2>29, <2>31, <2>33, <3>1 DEF Reaper
  <2> QED
    BY <2>1, <2>2, <2>3, <2>4, <2>5, <2>6, <2>7, <2>8, <2>9, <2>10, <2>11, <2>12,
       <2>13, <2>14, <2>15, <2>16, <2>17, <2>18, <2>19, <2>20, <2>21, <2>22, <2>23,
       <2>24, <2>25, <2>30, <2>33
       DEF Next, Dispatch, RunTask, Stop, EditTodo
<1> QED
  BY <1>1, <1>2, PTL DEF Spec

(***************************************************************************)
(* A task whose future may still work is active. This is what makes every  *)
(* bound below inductive: a future only ever moves an entry that is active, *)
(* so the reaper and the future never work on the same entry.              *)
(***************************************************************************)
Unfinished == {t \in Task : future[t] \in {"queued", "admitted", "working"}}
FutureEntry == Unfinished \subseteq Active

\* Only a dispatch holds claimed rows.
ClaimedIdle == main # "dispatching" => claimed = {}

\* What an edit of the list, a publication or a merge leaves alone.
EditStep ==
  /\ UNCHANGED <<taskVars, claimed, joining, doomed>>
  /\ main' # main => main \in {"idle", "planning", "stopped"} /\ main' \in {"idle", "planning"}

\* The steps that touch neither a task nor a claimed row.
LEMMA EditsAreEditSteps ==
  ASSUME \/ EditTodo \/ StopDefer \/ StopClear \/ NoteReapCompleted
         \/ \E order \in Rankings : SetRankedOrder(order)
         \/ \E t \in Task, hears \in BOOLEAN : PublishTask(t, hears)
         \/ \E group \in SUBSET Task : AskTodoAgent(group)
         \/ TodoAgentReturns
  PROVE  EditStep
<1> USE DEF EditStep, taskVars, mainVars
<1>1. CASE EditTodo
  BY <1>1 DEF EditTodo, FreshReview, SeedTodoIfEmpty, PlanFails, AppendTodo, RemoveTodo,
              ClearActiveTodos, DeferPending, RestoreDeferred, ResetInProgress
<1>2. CASE StopDefer \/ StopClear
  BY <1>2 DEF StopDefer, StopClear
<1>3. CASE NoteReapCompleted
  BY <1>3 DEF NoteReapCompleted
<1>4. CASE \E order \in Rankings : SetRankedOrder(order)
  BY <1>4 DEF SetRankedOrder
<1>5. CASE \E t \in Task, hears \in BOOLEAN : PublishTask(t, hears)
  BY <1>5 DEF PublishTask
<1>6. CASE (\E group \in SUBSET Task : AskTodoAgent(group)) \/ TodoAgentReturns
  BY <1>6 DEF AskTodoAgent, TodoAgentReturns, TodoAgentFails, MergeInferredState
<1> QED
  BY <1>1, <1>2, <1>3, <1>4, <1>5, <1>6

\* The steps of Next, with the edits folded into EditStep.
LEMMA StepCases ==
  ASSUME [Next]_vars
  PROVE  \/ \E limit \in {1, Unbounded} : Claim(limit)
         \/ \E r \in Row, t \in Task : Submit(r, t)
         \/ \E r \in Row : SubmitFails(r)
         \/ \E t \in Task : OperatorSubmit(t)
         \/ \E t \in Task : AcquirePermit(t)
         \/ \E t \in Task : Start(t)
         \/ \E t \in Task, produced \in BOOLEAN : FinishOk(t, produced)
         \/ \E t \in Task : FinishErr(t)
         \/ \E t \in Task : End(t)
         \/ StopCancel \/ StopTake \/ StopReturn \/ Reap
         \/ \E t \in Task : StopJoin(t)
         \/ \E t \in Task : StopExpire(t)
         \/ EditStep
<1>1. CASE UNCHANGED vars
  BY <1>1 DEF vars, taskVars, mainVars, EditStep
<1>2. CASE Dispatch
  BY <1>2, EditsAreEditSteps DEF Dispatch
<1>3. CASE \E t \in Task : RunTask(t)
  BY <1>3 DEF RunTask, Release, Vanish
<1>4. CASE Stop
  BY <1>4, EditsAreEditSteps DEF Stop
<1>5. CASE EditTodo
  BY <1>5, EditsAreEditSteps
<1>6. CASE Reaper
  BY <1>6, EditsAreEditSteps DEF Reaper
<1> QED
  BY <1>1, <1>2, <1>3, <1>4, <1>5, <1>6 DEF Next

\* The entry of an unfinished future is active, and claims belong to a dispatch.
LEMMA FuturesAreActive == Spec => [](FutureEntry /\ ClaimedIdle)
<1>1. Init => FutureEntry /\ ClaimedIdle
  BY DEF Init, FutureEntry, ClaimedIdle, Unfinished
<1>2. TypeOK /\ FutureEntry /\ ClaimedIdle /\ [Next]_vars => (FutureEntry /\ ClaimedIdle)'
  <2> SUFFICES ASSUME TypeOK, FutureEntry, ClaimedIdle, [Next]_vars
               PROVE  (FutureEntry /\ ClaimedIdle)'
    OBVIOUS
  <2> USE DEF TypeOK, FutureEntry, ClaimedIdle, Unfinished, Active,
              taskVars, mainVars, reaperVars, claimVars, todoVars
  <2>1. ASSUME NEW limit, Claim(limit) PROVE (FutureEntry /\ ClaimedIdle)'
    BY <2>1 DEF Claim
  <2>2. ASSUME NEW r \in Row, NEW t \in Task, Submit(r, t)
        PROVE  (FutureEntry /\ ClaimedIdle)'
    BY <2>2 DEF Submit, Spawn, Dispatched
  <2>3. ASSUME NEW r \in Row, SubmitFails(r) PROVE (FutureEntry /\ ClaimedIdle)'
    BY <2>3 DEF SubmitFails, Dispatched
  <2>4. ASSUME NEW t \in Task, OperatorSubmit(t) PROVE (FutureEntry /\ ClaimedIdle)'
    BY <2>4 DEF OperatorSubmit, Spawn
  <2>5. ASSUME NEW t \in Task, AcquirePermit(t) PROVE (FutureEntry /\ ClaimedIdle)'
    BY <2>5 DEF AcquirePermit
  <2>6. ASSUME NEW t \in Task, Start(t) PROVE (FutureEntry /\ ClaimedIdle)'
    BY <2>6 DEF Start
  <2>7. ASSUME NEW t \in Task, NEW produced, FinishOk(t, produced)
        PROVE  (FutureEntry /\ ClaimedIdle)'
    BY <2>7 DEF FinishOk
  <2>8. ASSUME NEW t \in Task, FinishErr(t) PROVE (FutureEntry /\ ClaimedIdle)'
    BY <2>8 DEF FinishErr
  <2>9. ASSUME NEW t \in Task, End(t) PROVE (FutureEntry /\ ClaimedIdle)'
    BY <2>9 DEF End
  <2>10. CASE StopCancel
    BY <2>10 DEF StopCancel
  <2>11. CASE StopTake \/ StopReturn
    BY <2>11 DEF StopTake, StopReturn
  <2>12. CASE Reap
    BY <2>12 DEF Reap, Terminal
  <2>13. ASSUME NEW t \in Task, StopJoin(t) \/ StopExpire(t)
         PROVE  (FutureEntry /\ ClaimedIdle)'
    BY <2>13 DEF StopJoin, StopExpire
  <2>14. CASE EditStep
    BY <2>14 DEF EditStep
  <2> QED
    BY StepCases, <2>1, <2>2, <2>3, <2>4, <2>5, <2>6, <2>7, <2>8, <2>9, <2>10, <2>11,
       <2>12, <2>13, <2>14
<1> QED
  BY <1>1, <1>2, TypeCorrect, PTL DEF Spec

(***************************************************************************)
(* The result of a task is taken by the reaper alone.                      *)
(***************************************************************************)
\* No late Running, no Cancelling and no second result overwrites a terminal
\* entry, and a drained entry never returns (set_state, finish_ok, stop_all, reap).
THEOREM ResultsAreFinal == Spec => TerminalIsFinal
<1> DEFINE Kept ==
      \A t \in Task :
        /\ entry[t] \in Terminal => entry'[t] \in {entry[t], "Reaped"}
        /\ entry[t] = "Reaped" => entry'[t] = "Reaped"
<1>1. TypeOK /\ FutureEntry /\ [Next]_vars => Kept
  <2> SUFFICES ASSUME TypeOK, FutureEntry, [Next]_vars PROVE Kept
    OBVIOUS
  <2> USE DEF TypeOK, FutureEntry, Unfinished, Active, Terminal, taskVars
  <2>1. ASSUME NEW limit, Claim(limit) PROVE Kept
    BY <2>1 DEF Claim
  <2>2. ASSUME NEW r \in Row, NEW t \in Task, Submit(r, t) PROVE Kept
    BY <2>2 DEF Submit, Spawn, Fresh
  <2>3. ASSUME NEW r \in Row, SubmitFails(r) PROVE Kept
    BY <2>3 DEF SubmitFails
  <2>4. ASSUME NEW t \in Task, OperatorSubmit(t) PROVE Kept
    BY <2>4 DEF OperatorSubmit, Spawn, Fresh
  <2>5. ASSUME NEW t \in Task, AcquirePermit(t) \/ End(t) PROVE Kept
    BY <2>5 DEF AcquirePermit, End
  <2>6. ASSUME NEW t \in Task, Start(t) PROVE Kept
    BY <2>6 DEF Start, Tracked
  <2>7. ASSUME NEW t \in Task, NEW produced, FinishOk(t, produced) PROVE Kept
    BY <2>7 DEF FinishOk, Tracked
  <2>8. ASSUME NEW t \in Task, FinishErr(t) PROVE Kept
    BY <2>8 DEF FinishErr, Tracked
  <2>9. CASE StopCancel
    BY <2>9 DEF StopCancel
  <2>10. CASE StopTake \/ StopReturn
    BY <2>10 DEF StopTake, StopReturn
  <2>11. CASE Reap
    BY <2>11 DEF Reap
  <2>12. ASSUME NEW t \in Task, StopJoin(t) \/ StopExpire(t) PROVE Kept
    BY <2>12 DEF StopJoin, StopExpire
  <2>13. CASE EditStep
    BY <2>13 DEF EditStep
  <2> QED
    BY StepCases, <2>1, <2>2, <2>3, <2>4, <2>5, <2>6, <2>7, <2>8, <2>9, <2>10, <2>11,
       <2>12, <2>13
<1> QED
  BY <1>1, TypeCorrect, FuturesAreActive, PTL DEF Spec, TerminalIsFinal

(***************************************************************************)
(* How each step moves the sets the bounds count.                          *)
(***************************************************************************)
\* Putting one more element into a set of tasks counts one more.
LEMMA OneMoreTask ==
  ASSUME NEW S \in SUBSET Task, NEW t \in Task, t \notin S
  PROVE  Cardinality(S \cup {t}) = Cardinality(S) + 1
BY FiniteRowsAndTasks, FS_AddElement

\* Taking one element out of a set of tasks counts one less.
LEMMA OneLessTask ==
  ASSUME NEW S \in SUBSET Task, NEW t \in S
  PROVE  Cardinality(S \ {t}) = Cardinality(S) - 1
BY FiniteRowsAndTasks, FS_RemoveElement

\* Submitting a claimed row takes it out of the claim.
LEMMA OneLessRow ==
  ASSUME NEW S \in SUBSET Row, NEW r \in S
  PROVE  Cardinality(S \ {r}) = Cardinality(S) - 1
BY FiniteRowsAndTasks, FS_RemoveElement

\* The sets that the bounds count, and the numbers they give.
LEMMA Counts ==
  ASSUME TypeOK
  PROVE  /\ Active \in SUBSET Task /\ Dispatchees \in SUBSET Task
         /\ Operators \in SUBSET Task /\ claimed \in SUBSET Row
         /\ Dispatchees \subseteq Active
         /\ Cardinality(Active) \in Nat /\ Cardinality(Dispatchees) \in Nat
         /\ Cardinality(Operators) \in Nat /\ Cardinality(claimed) \in Nat
         /\ Cardinality(Dispatchees) <= Cardinality(Active)
<1>1. /\ Active \in SUBSET Task /\ Dispatchees \in SUBSET Task
      /\ Operators \in SUBSET Task /\ claimed \in SUBSET Row
      /\ Dispatchees \in SUBSET Active
  BY DEF Active, Dispatchees, Operators, TypeOK
<1>2. Cardinality(Dispatchees) <= Cardinality(Active)
  BY <1>1, PartOfFinite, FiniteRowsAndTasks
<1> QED
  BY <1>1, <1>2, FiniteRowsAndTasks

\* A submitted task joins the active tasks; only an operator's joins Operators.
LEMMA SpawnCounts ==
  ASSUME TypeOK, NEW t \in Task, NEW name \in Row \cup {NoRow}, Spawn(t, name)
  PROVE  /\ t \notin Active /\ t \notin Operators
         /\ Active' = Active \cup {t}
         /\ Dispatchees' = IF name = NoRow THEN Dispatchees ELSE Dispatchees \cup {t}
         /\ Operators' = IF name = NoRow THEN Operators \cup {t} ELSE Operators
         /\ completed' = completed
BY DEF TypeOK, Spawn, Fresh, Active, Dispatchees, Operators

\* A finished task leaves the active tasks.
LEMMA FinishCounts ==
  ASSUME TypeOK, FutureEntry, NEW t \in Task,
         FinishErr(t) \/ \E produced \in BOOLEAN : FinishOk(t, produced)
  PROVE  /\ t \in Active
         /\ Active' = Active \ {t} /\ Dispatchees' = Dispatchees \ {t}
         /\ Operators' = Operators
         /\ completed' \in Nat /\ completed' <= completed + 1
         /\ claimed' = claimed
<1>1. t \in Active /\ t \in Tracked
  BY DEF FutureEntry, Unfinished, FinishErr, FinishOk, Active, Tracked
<1>2. /\ entry' \in [Task -> EntryState] /\ owner' = owner
      /\ entry'[t] \in Terminal /\ \A u \in Task \ {t} : entry'[u] = entry[u]
  BY <1>1 DEF TypeOK, FinishErr, FinishOk, EntryState, Terminal
<1>3. Active' = Active \ {t} /\ Dispatchees' = Dispatchees \ {t}
  BY <1>2 DEF Active, Dispatchees, Terminal
<1>4. Operators' = Operators
  BY <1>1, <1>2 DEF Operators, Terminal, Tracked
<1>5. completed' \in Nat /\ completed' <= completed + 1
  BY DEF FinishErr, FinishOk, TypeOK
<1>6. claimed' = claimed
  BY DEF FinishErr, FinishOk, mainVars
<1> QED
  BY <1>1, <1>3, <1>4, <1>5, <1>6

\* Every step that neither claims, nor submits, nor finishes a task keeps all
\* three sets.
Neutral ==
  /\ Active' = Active /\ Dispatchees' = Dispatchees /\ Operators' = Operators
  /\ completed' = completed /\ claimed' = claimed

LEMMA NeutralSteps ==
  ASSUME TypeOK, FutureEntry,
         \/ \E t \in Task : AcquirePermit(t) \/ Start(t) \/ End(t)
         \/ StopCancel \/ StopTake \/ StopReturn \/ Reap
         \/ \E t \in Task : StopJoin(t) \/ StopExpire(t)
         \/ EditStep
  PROVE  Neutral
<1> USE DEF Neutral, Active, Dispatchees, Operators, TypeOK, taskVars, mainVars
<1>1. ASSUME NEW t \in Task, AcquirePermit(t) \/ End(t) PROVE Neutral
  BY <1>1 DEF AcquirePermit, End
<1>2. ASSUME NEW t \in Task, Start(t) PROVE Neutral
  <2>1. t \in Active /\ t \in Tracked
    BY <1>2 DEF FutureEntry, Unfinished, Start, Tracked
  <2> QED
    BY <1>2, <2>1 DEF Start
<1>3. CASE StopCancel
  BY <1>3 DEF StopCancel
<1>4. CASE StopTake \/ StopReturn
  BY <1>4 DEF StopTake, StopReturn
<1>5. CASE Reap
  BY <1>5 DEF Reap, Terminal
<1>6. ASSUME NEW t \in Task, StopJoin(t) \/ StopExpire(t) PROVE Neutral
  BY <1>6 DEF StopJoin, StopExpire
<1>7. CASE EditStep
  BY <1>7 DEF EditStep
<1> QED
  BY <1>1, <1>2, <1>3, <1>4, <1>5, <1>6, <1>7

(***************************************************************************)
(* The slots: --max-parallel.                                              *)
(***************************************************************************)
\* Claimed rows and the active tasks of claimed rows fit --max-parallel in
\* every reachable state (claim_ranked_todos, free_slots, dispatch_ready).
THEOREM SlotsAreBounded == Spec => []SlotBound
<1>1. Init => SlotBound
  <2> SUFFICES ASSUME Init PROVE SlotBound
    OBVIOUS
  <2>1. Dispatchees = {} /\ claimed = {}
    BY DEF Init, Dispatchees, Active
  <2>2. Cardinality(Dispatchees) = 0 /\ Cardinality(claimed) = 0
    BY <2>1, FS_EmptySet
  <2> QED
    BY <2>2, ConstantsAssumption DEF SlotBound
<1>2. TypeOK /\ TypeOK' /\ FutureEntry /\ ClaimedIdle /\ SlotBound /\ [Next]_vars => SlotBound'
  <2> SUFFICES ASSUME TypeOK, TypeOK', FutureEntry, ClaimedIdle, SlotBound, [Next]_vars,
                      MaxParallel > 0
               PROVE  Cardinality(Dispatchees') + Cardinality(claimed') <= MaxParallel
    BY DEF SlotBound
  <2>1. MaxParallel \in Nat /\ NoRow \notin Row
    BY ConstantsAssumption
  <2>2. Cardinality(Dispatchees) + Cardinality(claimed) <= MaxParallel
    BY DEF SlotBound
  <2>3. ASSUME NEW limit \in {1, Unbounded}, Claim(limit)
        PROVE  Cardinality(Dispatchees') + Cardinality(claimed') <= MaxParallel
    <3>1. PICK S \in SUBSET Claimable : S # {} /\ IsWave(S, limit) /\ claimed' = S
      BY <2>3 DEF Claim
    <3>2. S \in SUBSET Row
      BY DEF Claimable, Ready
    <3>3. Cardinality(S) + Cardinality(Active) <= MaxParallel
      BY <3>1, <3>2, WaveFits
    <3>4. Dispatchees' = Dispatchees
      BY <2>3 DEF Claim, taskVars, Dispatchees, Active
    <3> QED
      BY <2>1, <3>1, <3>2, <3>3, <3>4, Counts, FiniteRowsAndTasks
  <2>4. ASSUME NEW r \in Row, NEW t \in Task, Submit(r, t)
        PROVE  Cardinality(Dispatchees') + Cardinality(claimed') <= MaxParallel
    <3>1. Spawn(t, r) /\ claimed' = claimed \ {r} /\ r \in claimed
      BY <2>4 DEF Submit, Dispatched
    <3>2. t \notin Dispatchees /\ Dispatchees' = Dispatchees \cup {t}
      BY <2>1, <3>1, SpawnCounts, Counts
    <3>3. /\ Cardinality(Dispatchees') = Cardinality(Dispatchees) + 1
          /\ Cardinality(claimed') = Cardinality(claimed) - 1
      BY <3>1, <3>2, Counts, OneMoreTask, OneLessRow
    <3> QED
      BY <2>1, <2>2, <3>3, Counts
  <2>5. ASSUME NEW r \in Row, SubmitFails(r)
        PROVE  Cardinality(Dispatchees') + Cardinality(claimed') <= MaxParallel
    <3>1. claimed' = claimed \ {r} /\ r \in claimed /\ Dispatchees' = Dispatchees
      BY <2>5 DEF SubmitFails, Dispatched, taskVars, Dispatchees, Active
    <3>2. Cardinality(claimed') = Cardinality(claimed) - 1
      BY <3>1, Counts, OneLessRow
    <3> QED
      BY <2>1, <2>2, <3>1, <3>2, Counts
  <2>6. ASSUME NEW t \in Task, OperatorSubmit(t)
        PROVE  Cardinality(Dispatchees') + Cardinality(claimed') <= MaxParallel
    <3>1. claimed' = claimed /\ Dispatchees' = Dispatchees
      BY <2>6, SpawnCounts DEF OperatorSubmit, mainVars
    <3> QED
      BY <2>2, <3>1
  <2>7. ASSUME NEW t \in Task, FinishErr(t) \/ \E produced \in BOOLEAN : FinishOk(t, produced)
        PROVE  Cardinality(Dispatchees') + Cardinality(claimed') <= MaxParallel
    <3>1. claimed' = claimed /\ Dispatchees' \in SUBSET Dispatchees
      BY <2>7, FinishCounts
    <3>2. /\ Cardinality(Dispatchees') \in Nat
          /\ Cardinality(Dispatchees') <= Cardinality(Dispatchees)
      BY <3>1, Counts, PartOfFinite, FiniteRowsAndTasks
    <3> QED
      BY <2>1, <2>2, <3>1, <3>2, Counts
  <2>8. CASE Neutral
    BY <2>2, <2>8 DEF Neutral
  <2> QED
    BY StepCases, NeutralSteps, <2>3, <2>4, <2>5, <2>6, <2>7, <2>8
<1> QED
  BY <1>1, <1>2, TypeCorrect, FuturesAreActive, PTL DEF Spec

(***************************************************************************)
(* The budget of the session: --turns.                                     *)
(***************************************************************************)
\* Finished runs, active tasks and claimed rows together exceed --turns only
\* by the prompts the operator typed (turn_budget, claim_ranked_todos, finish_ok).
THEOREM TurnsAreBounded == Spec => []TurnBound
<1>1. Init => TurnBound
  <2> SUFFICES ASSUME Init PROVE TurnBound
    OBVIOUS
  <2>1. Active = {} /\ claimed = {} /\ completed = 0 /\ Operators = {}
    BY DEF Init, Active, Operators
  <2>2. Cardinality(Active) = 0 /\ Cardinality(claimed) = 0 /\ Cardinality(Operators) = 0
    BY <2>1, FS_EmptySet
  <2> QED
    BY <2>1, <2>2, ConstantsAssumption DEF TurnBound
<1>2. TypeOK /\ TypeOK' /\ FutureEntry /\ ClaimedIdle /\ TurnBound /\ [Next]_vars => TurnBound'
  <2> DEFINE Bounded == completed + Cardinality(Active) + Cardinality(claimed)
                          <= TurnsLimit + Cardinality(Operators)
  <2> SUFFICES ASSUME TypeOK, TypeOK', FutureEntry, ClaimedIdle, TurnBound, [Next]_vars,
                      TurnsLimit > 0
               PROVE  Bounded'
    BY DEF TurnBound
  <2>1. TurnsLimit \in Nat /\ completed \in Nat /\ NoRow \notin Row
    BY ConstantsAssumption DEF TypeOK
  <2>2. Bounded
    BY DEF TurnBound
  <2>3. ASSUME NEW limit \in {1, Unbounded}, Claim(limit) PROVE Bounded'
    <3>1. PICK S \in SUBSET Claimable : S # {} /\ IsWave(S, limit) /\ claimed' = S
      BY <2>3 DEF Claim
    <3>2. S \in SUBSET Row
      BY DEF Claimable, Ready
    <3>3. completed + Cardinality(Active) + Cardinality(S) <= TurnsLimit
      BY <3>1, <3>2, WaveFits
    <3>4. completed' = completed /\ Active' = Active /\ Operators' = Operators
      BY <2>3 DEF Claim, taskVars, Active, Operators
    <3> QED
      BY <2>1, <3>1, <3>2, <3>3, <3>4, Counts, FiniteRowsAndTasks
  <2>4. ASSUME NEW r \in Row, NEW t \in Task, Submit(r, t) PROVE Bounded'
    <3>1. Spawn(t, r) /\ claimed' = claimed \ {r} /\ r \in claimed
      BY <2>4 DEF Submit, Dispatched
    <3>2. /\ t \notin Active /\ Active' = Active \cup {t}
          /\ Operators' = Operators /\ completed' = completed
      BY <2>1, <3>1, SpawnCounts
    <3>3. /\ Cardinality(Active') = Cardinality(Active) + 1
          /\ Cardinality(claimed') = Cardinality(claimed) - 1
      BY <3>1, <3>2, Counts, OneMoreTask, OneLessRow
    <3> QED
      BY <2>1, <2>2, <3>2, <3>3, Counts
  <2>5. ASSUME NEW r \in Row, SubmitFails(r) PROVE Bounded'
    <3>1. /\ claimed' = claimed \ {r} /\ r \in claimed
          /\ completed' = completed /\ Active' = Active /\ Operators' = Operators
      BY <2>5 DEF SubmitFails, Dispatched, taskVars, Active, Operators
    <3>2. Cardinality(claimed') = Cardinality(claimed) - 1
      BY <3>1, Counts, OneLessRow
    <3> QED
      BY <2>1, <2>2, <3>1, <3>2, Counts
  <2>6. ASSUME NEW t \in Task, OperatorSubmit(t) PROVE Bounded'
    <3>1. Spawn(t, NoRow) /\ claimed' = claimed
      BY <2>6 DEF OperatorSubmit, mainVars
    <3>2. /\ t \notin Active /\ Active' = Active \cup {t}
          /\ t \notin Operators /\ Operators' = Operators \cup {t}
          /\ completed' = completed
      BY <3>1, SpawnCounts
    <3>3. /\ Cardinality(Active') = Cardinality(Active) + 1
          /\ Cardinality(Operators') = Cardinality(Operators) + 1
      BY <3>2, Counts, OneMoreTask
    <3> QED
      BY <2>1, <2>2, <3>1, <3>2, <3>3, Counts
  <2>7. ASSUME NEW t \in Task, FinishErr(t) \/ \E produced \in BOOLEAN : FinishOk(t, produced)
        PROVE  Bounded'
    <3>1. /\ t \in Active /\ Active' = Active \ {t} /\ Operators' = Operators
          /\ completed' \in Nat /\ completed' <= completed + 1 /\ claimed' = claimed
      BY <2>7, FinishCounts
    <3>2. Cardinality(Active') = Cardinality(Active) - 1
      BY <3>1, Counts, OneLessTask
    <3> QED
      BY <2>1, <2>2, <3>1, <3>2, Counts
  <2>8. CASE Neutral
    BY <2>2, <2>8 DEF Neutral
  <2> QED
    BY StepCases, NeutralSteps, <2>3, <2>4, <2>5, <2>6, <2>7, <2>8
<1> QED
  BY <1>1, <1>2, TypeCorrect, FuturesAreActive, PTL DEF Spec

(***************************************************************************)
(* Prerequisites.                                                          *)
(***************************************************************************)
\* What a step must not do: let a row run ahead of its prerequisites.
InOrder == \A r \in Row : RunsAhead(r)' => RunsAhead(r) \/ AheadByCopy(r)

\* A step that keeps every done row done, and gives a row that stays in
\* progress no new prerequisite, lets no row run ahead.
LEMMA OrderIsKept ==
  ASSUME \A r \in Row : row[r] = "Done" => row'[r] = "Done",
         \A r \in Row : row'[r] = "InProgress" => row[r] = "InProgress" /\ dep'[r] \subseteq dep[r]
  PROVE  InOrder
BY DEF InOrder, RunsAhead, DoneRows

\* The merge of an answer keeps every done row done; a row it leaves in progress
\* was in progress, and gets new prerequisites only from the copy.
LEMMA MergeIsInOrder ==
  ASSUME TypeOK,
         NEW omit \in SUBSET SeenOpen, NEW create \in SUBSET (Row \ Seen),
         NEW finish \in SUBSET (SeenOpen \ omit), MergeInferredState(finish, omit, create)
  PROVE  InOrder
<1>1. \A r \in Row : row[r] = "Done" => row'[r] = "Done"
  BY DEF TypeOK, MergeInferredState, Listed, Dropped, Settled
<1>2. reaper = "asking" /\ reaper' = "merging"
  BY DEF MergeInferredState, GroupHandled
<1>3. ASSUME NEW r \in Row, row'[r] = "InProgress", row[r] # "InProgress"
      PROVE  AheadByCopy(r)
  <2>1. seen.status[r] = "InProgress"
    BY <1>3 DEF TypeOK, MergeInferredState, Listed, Items, Dropped, Settled
  <2> QED
    BY <1>2, <1>3, <2>1 DEF AheadByCopy
<1>4. ASSUME NEW r \in Row, row'[r] = "InProgress", row[r] = "InProgress", RunsAhead(r)'
      PROVE  RunsAhead(r) \/ AheadByCopy(r)
  BY <1>1, <1>2, <1>4 DEF RunsAhead, AheadByCopy, DoneRows
<1> QED
  BY <1>3, <1>4 DEF InOrder, RunsAhead

\* No step lets a row run ahead of its prerequisites, but for an answer of the
\* todo agent to a list that has changed since: not a claim, whatever the wave, no
\* stop, restore, edit or publication, and no answer to a list that stands
\* (claim_ranked_todos, defer_matching, restore_deferred, remove_todo,
\* mark_todo_done, merge_inferred_state).
THEOREM PrerequisitesComeFirst == Spec => DependencyOrder
<1>1. TypeOK /\ [Next]_vars => InOrder
  <2> SUFFICES ASSUME TypeOK, [Next]_vars PROVE InOrder
    OBVIOUS
  <2> USE DEF TypeOK
  <2>1. ASSUME NEW limit \in {1, Unbounded}, Claim(limit) PROVE InOrder
    <3>1. PICK S \in SUBSET Claimable :
            row' = [r \in Row |-> IF r \in S THEN "InProgress" ELSE row[r]]
      BY <2>1 DEF Claim
    <3>2. \A r \in S : row[r] = "Pending" /\ dep[r] \subseteq DoneRows
      BY DEF Claimable, Ready
    <3>3. DoneRows \subseteq DoneRows'
      BY <3>1, <3>2 DEF DoneRows
    <3>4. dep' = dep
      BY <2>1 DEF Claim
    <3> QED
      BY <3>1, <3>2, <3>3, <3>4 DEF InOrder, RunsAhead
  <2>2. CASE UNCHANGED <<row, dep>>
    BY <2>2 DEF InOrder, RunsAhead, DoneRows
  <2>3. CASE StopDefer
    BY <2>3 DEF StopDefer, Defer, InOrder, RunsAhead
  <2>4. CASE StopClear \/ FreshReview \/ ClearActiveTodos
    BY <2>4 DEF StopClear, FreshReview, ClearActiveTodos, ClearSessionWork, InOrder, RunsAhead
  <2>5. CASE SeedTodoIfEmpty
    BY <2>5, OrderIsKept DEF SeedTodoIfEmpty, Listed
  <2>6. ASSUME NEW r \in Row, AppendTodo(r) \/ RemoveTodo(r) PROVE InOrder
    <3>1. \A q \in Row : row[q] = "Done" => row'[q] = "Done"
      BY <2>6 DEF AppendTodo, RemoveTodo
    <3>2. \A q \in Row : row'[q] = "InProgress" =>
            row[q] = "InProgress" /\ dep'[q] \subseteq dep[q]
      BY <2>6 DEF AppendTodo, RemoveTodo
    <3> QED
      BY <3>1, <3>2, OrderIsKept
  <2>7. CASE DeferPending
    BY <2>7, OrderIsKept DEF DeferPending, Defer
  <2>8. CASE RestoreDeferred
    BY <2>8, OrderIsKept DEF RestoreDeferred, Listed
  <2>9. CASE ResetInProgress
    BY <2>9 DEF ResetInProgress, InOrder, RunsAhead
  <2>10. ASSUME NEW t \in Task, NEW hears \in BOOLEAN, PublishTask(t, hears)
         PROVE  InOrder
    BY <2>10, OrderIsKept DEF PublishTask
  <2>11. CASE TodoAgentReturns
    <3>1. ASSUME TodoAgentFails PROVE UNCHANGED <<row, dep>>
      BY <3>1 DEF TodoAgentFails, todoVars
    <3> QED
      BY <2>11, <3>1, <2>2, MergeIsInOrder DEF TodoAgentReturns
  <2>12. ASSUME Dispatch PROVE InOrder
    <3>1. (\E limit \in {1, Unbounded} : Claim(limit)) \/ UNCHANGED <<row, dep>>
      BY <2>12 DEF Dispatch, Submit, SubmitFails, Dispatched, OperatorSubmit,
                   SetRankedOrder, todoVars
    <3> QED
      BY <3>1, <2>1, <2>2
  <2>13. ASSUME NEW t \in Task, RunTask(t) PROVE UNCHANGED <<row, dep>>
    BY <2>13 DEF RunTask, AcquirePermit, Start, FinishOk, FinishErr, Release, Vanish, End, todoVars
  <2>14. ASSUME Stop PROVE StopDefer \/ StopClear \/ UNCHANGED <<row, dep>>
    BY <2>14 DEF Stop, StopCancel, StopTake, StopReturn, StopJoin, StopExpire, todoVars
  <2>15. CASE Reap \/ NoteReapCompleted \/ PlanFails \/ \E group \in SUBSET Task : AskTodoAgent(group)
    <3>1. UNCHANGED <<row, dep>>
      BY <2>15 DEF Reap, NoteReapCompleted, PlanFails, AskTodoAgent, todoVars
    <3> QED
      BY <3>1, <2>2
  <2>16. CASE UNCHANGED vars
    <3>1. UNCHANGED <<row, dep>>
      BY <2>16 DEF vars, todoVars
    <3> QED
      BY <3>1, <2>2
  <2>17. CASE EditTodo
    BY <2>17, <2>4, <2>5, <2>6, <2>7, <2>8, <2>9, <2>15 DEF EditTodo
  <2>18. CASE Reaper
    BY <2>18, <2>10, <2>11, <2>15 DEF Reaper
  <2> QED
    BY <2>2, <2>3, <2>4, <2>12, <2>13, <2>14, <2>16, <2>17, <2>18 DEF Next
<1> QED
  BY <1>1, TypeCorrect, PTL DEF Spec, DependencyOrder, InOrder

(***************************************************************************)
(* What stop_all can promise.                                              *)
(***************************************************************************)
\* A future that may still work can be reached by stop_all: through the handle
\* in its entry, through the handle stop_all took, or because it was aborted.
Reachable == \A t \in Unfinished : handle[t] \/ t \in joining \/ t \in doomed

\* stop_all holds handles only while it joins, and then the entries hold none.
Handover ==
  /\ joining # {} => main = "joining"
  /\ main \in {"joining", "stopped"} => \A t \in Task : ~ handle[t]

LEMMA HandlesAreHandedOver == Spec => [](Reachable /\ Handover)
<1>1. Init => Reachable /\ Handover
  BY DEF Init, Reachable, Handover, Unfinished
<1>2. TypeOK /\ FutureEntry /\ Reachable /\ Handover /\ [Next]_vars => (Reachable /\ Handover)'
  <2> SUFFICES ASSUME TypeOK, FutureEntry, Reachable, Handover, [Next]_vars
               PROVE  (Reachable /\ Handover)'
    OBVIOUS
  <2> USE DEF TypeOK, Reachable, Handover, Unfinished,
              taskVars, mainVars, reaperVars, claimVars, todoVars
  <2>1. ASSUME NEW limit, Claim(limit) PROVE (Reachable /\ Handover)'
    BY <2>1 DEF Claim
  <2>2. ASSUME NEW r \in Row, NEW t \in Task, Submit(r, t) PROVE (Reachable /\ Handover)'
    BY <2>2 DEF Submit, Spawn, Dispatched
  <2>3. ASSUME NEW r \in Row, SubmitFails(r) PROVE (Reachable /\ Handover)'
    BY <2>3 DEF SubmitFails, Dispatched
  <2>4. ASSUME NEW t \in Task, OperatorSubmit(t) PROVE (Reachable /\ Handover)'
    BY <2>4 DEF OperatorSubmit, Spawn
  <2>5. ASSUME NEW t \in Task, AcquirePermit(t) \/ Start(t)
        PROVE  (Reachable /\ Handover)'
    BY <2>5 DEF AcquirePermit, Start
  <2>6. ASSUME NEW t \in Task, FinishErr(t) \/ \E produced \in BOOLEAN : FinishOk(t, produced)
        PROVE  (Reachable /\ Handover)'
    BY <2>6 DEF FinishErr, FinishOk
  <2>7. ASSUME NEW t \in Task, End(t) PROVE (Reachable /\ Handover)'
    BY <2>7 DEF End
  <2>8. CASE StopCancel
    BY <2>8 DEF StopCancel
  <2>9. CASE StopTake
    BY <2>9 DEF StopTake
  <2>10. CASE StopReturn
    BY <2>10 DEF StopReturn
  <2>11. ASSUME NEW t \in Task, StopJoin(t) PROVE (Reachable /\ Handover)'
    BY <2>11 DEF StopJoin
  <2>12. ASSUME NEW t \in Task, StopExpire(t) PROVE (Reachable /\ Handover)'
    BY <2>12 DEF StopExpire, Live
  <2>13. CASE Reap
    BY <2>13 DEF Reap, Terminal, FutureEntry, Active
  <2>14. CASE EditStep
    BY <2>14 DEF EditStep
  <2> QED
    BY StepCases, <2>1, <2>2, <2>3, <2>4, <2>5, <2>6, <2>7, <2>8, <2>9, <2>10, <2>11,
       <2>12, <2>13, <2>14
<1> QED
  BY <1>1, <1>2, TypeCorrect, FuturesAreActive, PTL DEF Spec

\* When stop_all returns, every future that could still work has been aborted
\* (spawn installs the handle before the future may run; stop_all joins them all).
THEOREM StopLeavesNoWorker == Spec => []StopDrains
<1>1. Reachable /\ Handover => StopDrains
  BY DEF Reachable, Handover, StopDrains, Unfinished
<1> QED
  BY <1>1, HandlesAreHandedOver, PTL

\* A set of natural numbers that is not empty has a least element.
LEMMA LeastNat ==
  ASSUME NEW T \in SUBSET Nat, T # {}
  PROVE  \E x \in T : \A y \in T : x <= y
<1> DEFINE R == OpToRel(<, Nat)
<1>0. IsWellFoundedOn(R, Nat)
  BY NatLessThanWellFounded
<1>1. \A x, y \in Nat : x < y => <<x, y>> \in R
  BY DEF OpToRel
<1> HIDE DEF R
<1>2. PICK x \in T : \A y \in T : ~ (<<y, x>> \in R)
  BY <1>0, WFMin
<1>3. ASSUME NEW y \in T
      PROVE  x <= y
  <2>1. x \in Nat /\ y \in Nat /\ ~ (<<y, x>> \in R)
    BY <1>2
  <2>2. ~ (y < x)
    BY <1>1, <2>1, Zenon
  <2> QED
    BY <2>1, <2>2
<1> QED
  BY <1>3

(***************************************************************************)
(* The order of the claimable rows.                                        *)
(***************************************************************************)
\* Rank, then storage, is a total order of the rows.
LEMMA BetterIsOrder ==
  ASSUME TypeOK
  PROVE  /\ \A q \in Row : ~ Better(q, q)
         /\ \A q, r \in Row : q # r => Better(q, r) \/ Better(r, q)
         /\ \A q, r \in Row : ~ (Better(q, r) /\ Better(r, q))
         /\ \A p, q, r \in Row : Better(p, q) /\ Better(q, r) => Better(p, r)
<1>1. /\ \A q \in Row : rank[q] \in Nat /\ Order[q] \in Nat
      /\ \A q, r \in Row : Order[q] = Order[r] => q = r
  BY ConstantsAssumption DEF TypeOK
<1> QED
  BY <1>1 DEF Better

\* The claimable rows of r's group that are better than r.
BetterOfGroup(r) == {q \in Claimable : GroupOf[q] = GroupOf[r] /\ Better(q, r)}

\* The rows of a group among taken ones.
OfGroup(g, taken) == {q \in taken : GroupOf[q] = g}

LEMMA ClaimableRows ==
  /\ Claimable \in SUBSET Row /\ IsFiniteSet(Claimable) /\ Cardinality(Claimable) \in Nat
  /\ \A r \in Claimable : row[r] = "Pending"
<1>1. Claimable \in SUBSET Row /\ \A r \in Claimable : row[r] = "Pending"
  BY DEF Claimable, Ready
<1> QED
  BY <1>1, FiniteRowsAndTasks

LEMMA ServedNat ==
  ASSUME TypeOK, NEW r \in Row
  PROVE  /\ GroupOf[r] \in Group /\ claims[GroupOf[r]] \in Nat
         /\ BetterOfGroup(r) \in SUBSET Row /\ Cardinality(BetterOfGroup(r)) \in Nat
         /\ Served(r) = claims[GroupOf[r]] + Cardinality(BetterOfGroup(r))
         /\ Served(r) \in Nat
<1>1. GroupOf[r] \in Group /\ claims[GroupOf[r]] \in Nat
  BY ConstantsAssumption DEF TypeOK
<1>2. BetterOfGroup(r) \in SUBSET Row
  BY ClaimableRows DEF BetterOfGroup
<1>3. Cardinality(BetterOfGroup(r)) \in Nat
  BY <1>2, FiniteRowsAndTasks
<1>4. Served(r) = claims[GroupOf[r]] + Cardinality(BetterOfGroup(r))
  BY DEF Served, BetterOfGroup
<1> QED
  BY <1>1, <1>2, <1>3, <1>4

\* Within a group the better row is served first.
LEMMA BetterIsServedFirst ==
  ASSUME TypeOK, NEW q \in Claimable, NEW r \in Claimable,
         GroupOf[q] = GroupOf[r], Better(q, r)
  PROVE  Served(q) < Served(r)
<1>1. q \in Row /\ r \in Row
  BY ClaimableRows
<1>2. BetterOfGroup(q) \cup {q} \subseteq BetterOfGroup(r)
  BY <1>1, BetterIsOrder, ClaimableRows DEF BetterOfGroup
<1>3. q \notin BetterOfGroup(q)
  BY <1>1, BetterIsOrder DEF BetterOfGroup
<1>4. /\ IsFiniteSet(BetterOfGroup(q)) /\ IsFiniteSet(BetterOfGroup(r))
      /\ Cardinality(BetterOfGroup(q)) \in Nat /\ Cardinality(BetterOfGroup(r)) \in Nat
  BY <1>1, ServedNat, FiniteRowsAndTasks
<1>5. Cardinality(BetterOfGroup(q) \cup {q}) = Cardinality(BetterOfGroup(q)) + 1
  BY <1>3, <1>4, FS_AddElement
<1>6. Cardinality(BetterOfGroup(q)) + 1 <= Cardinality(BetterOfGroup(r))
  BY <1>2, <1>4, <1>5, FS_Subset
<1>7. /\ Served(q) = claims[GroupOf[q]] + Cardinality(BetterOfGroup(q))
      /\ Served(r) = claims[GroupOf[r]] + Cardinality(BetterOfGroup(r))
      /\ claims[GroupOf[q]] \in Nat
  BY <1>1, ServedNat
<1> QED
  BY <1>4, <1>6, <1>7

\* The order of service is a total order.
LEMMA PrecedesIsOrder ==
  ASSUME TypeOK
  PROVE  /\ \A q \in Row : ~ Precedes(q, q)
         /\ \A q, r \in Row : q # r => Precedes(q, r) \/ Precedes(r, q)
         /\ \A q, r \in Row : ~ (Precedes(q, r) /\ Precedes(r, q))
         /\ \A p, q, r \in Row : Precedes(p, q) /\ Precedes(q, r) => Precedes(p, r)
<1>1. \A q \in Row : Served(q) \in Nat
  BY ServedNat
<1> QED
  BY <1>1, BetterIsOrder DEF Precedes

LEMMA BetterPrecedes ==
  ASSUME TypeOK, NEW q \in Claimable, NEW r \in Claimable, GroupOf[q] = GroupOf[r]
  PROVE  Precedes(q, r) <=> Better(q, r)
<1>1. q \in Row /\ r \in Row
  BY ClaimableRows
<1>2. Better(q, r) => Precedes(q, r)
  BY BetterIsServedFirst DEF Precedes
<1>3. Better(r, q) => Precedes(r, q)
  BY BetterIsServedFirst DEF Precedes
<1> QED
  BY <1>1, <1>2, <1>3, BetterIsOrder, PrecedesIsOrder

(***************************************************************************)
(* The place of a row in the order of service.                             *)
(***************************************************************************)
Before(r) == {q \in Claimable : Precedes(q, r)}
Place(r)  == Cardinality(Before(r))
Prefix(n) == {r \in Claimable : Place(r) < n}

LEMMA PlaceType ==
  ASSUME TypeOK, NEW r \in Claimable
  PROVE  /\ Before(r) \in SUBSET Claimable /\ IsFiniteSet(Before(r)) /\ r \notin Before(r)
         /\ Place(r) \in Nat /\ Place(r) < Cardinality(Claimable)
<1>1. Before(r) \in SUBSET Claimable /\ r \in Row
  BY ClaimableRows DEF Before
<1>2. IsFiniteSet(Before(r)) /\ Place(r) \in Nat
  BY <1>1, ClaimableRows, PartOfFinite DEF Place
<1>3. r \notin Before(r)
  BY <1>1, PrecedesIsOrder DEF Before
<1>4. Cardinality(Before(r) \cup {r}) = Place(r) + 1
  BY <1>2, <1>3, FS_AddElement DEF Place
<1>5. Cardinality(Before(r) \cup {r}) <= Cardinality(Claimable)
  BY <1>1, ClaimableRows, PartOfFinite
<1> QED
  BY <1>1, <1>2, <1>3, <1>4, <1>5, ClaimableRows

LEMMA PlaceOrder ==
  ASSUME TypeOK, NEW q \in Claimable, NEW r \in Claimable
  PROVE  /\ Precedes(q, r) <=> Place(q) < Place(r)
         /\ Place(q) = Place(r) => q = r
<1>1. \A x, y \in Claimable : Precedes(x, y) => Place(x) < Place(y)
  <2> SUFFICES ASSUME NEW x \in Claimable, NEW y \in Claimable, Precedes(x, y)
               PROVE  Place(x) < Place(y)
    OBVIOUS
  <2>1. Before(x) \cup {x} \in SUBSET Before(y)
    BY ClaimableRows, PrecedesIsOrder DEF Before
  <2>2. Cardinality(Before(x) \cup {x}) = Place(x) + 1
    BY PlaceType, FS_AddElement DEF Place
  <2>3. Cardinality(Before(x) \cup {x}) <= Place(y)
    BY <2>1, PlaceType, PartOfFinite DEF Place
  <2>4. Place(x) \in Nat /\ Place(y) \in Nat
    BY PlaceType
  <2> QED
    BY <2>2, <2>3, <2>4
<1>2. Place(q) \in Nat /\ Place(r) \in Nat /\ q \in Row /\ r \in Row
  BY PlaceType, ClaimableRows
<1>3. (Precedes(q, r) => Place(q) < Place(r)) /\ (Precedes(r, q) => Place(r) < Place(q))
  BY <1>1
<1>4. q # r => Precedes(q, r) \/ Precedes(r, q)
  BY <1>2, PrecedesIsOrder
<1>5. Place(q) = Place(r) => q = r
  BY <1>2, <1>3, <1>4
<1>6. Place(q) < Place(r) => Precedes(q, r)
  BY <1>2, <1>3, <1>4
<1> QED
  BY <1>3, <1>5, <1>6

\* Every place is taken: the places are the numbers below the number of rows.
LEMMA PlacesAreTaken ==
  ASSUME TypeOK, NEW n \in Nat, n < Cardinality(Claimable)
  PROVE  \E r \in Claimable : Place(r) = n
<1> DEFINE N == Cardinality(Claimable)
           P == 0 .. N - 1
           f == [r \in Claimable |-> Place(r)]
<1>1. N \in Nat /\ IsFiniteSet(Claimable)
  BY ClaimableRows
<1>2. IsFiniteSet(P) /\ Cardinality(P) = N
  <2>1. N - 1 \in Int /\ 0 \in Int
    BY <1>1
  <2>2. IsFiniteSet(P) /\ Cardinality(P) = IF 0 > N - 1 THEN 0 ELSE N - 1 - 0 + 1
    BY <2>1, FS_Interval
  <2> HIDE DEF P, N
  <2> QED
    BY <2>2, <1>1
<1>3. f \in [Claimable -> P]
  <2>1. \A r \in Claimable : Place(r) \in P
    BY PlaceType, <1>1
  <2> QED
    BY <2>1
<1>4. \A q, r \in Claimable : f[q] = f[r] => q = r
  BY PlaceOrder
<1>5. f \in Injection(Claimable, P)
  BY <1>3, <1>4 DEF Injection, IsInjective
<1>6. f \in Surjection(Claimable, P)
  <2> HIDE DEF f, P, N
  <2>1. Cardinality(Claimable) = Cardinality(P)
    BY <1>2 DEF N
  <2> QED
    BY <1>2, <1>5, <2>1, FS_Injection
<1>7. n \in P
  BY <1>1
<1>8. \E r \in Claimable : f[r] = n
  <2> HIDE DEF f, P
  <2> QED
    BY <1>6, <1>7 DEF Surjection
<1> QED
  BY <1>8

\* The first n rows are n rows, unless there are fewer.
LEMMA PrefixCardinality ==
  ASSUME TypeOK, NEW n \in Nat
  PROVE  Prefix(n) \in SUBSET Claimable /\ Cardinality(Prefix(n)) = Least(n, Cardinality(Claimable))
<1>1. /\ Prefix(n) \in SUBSET Claimable /\ Cardinality(Claimable) \in Nat
      /\ IsFiniteSet(Prefix(n))
  BY ClaimableRows, PartOfFinite DEF Prefix
<1>2. CASE n <= Cardinality(Claimable)
  <2> DEFINE P == 0 .. n - 1
             f == [r \in Prefix(n) |-> Place(r)]
  <2>1. Cardinality(P) = n
    <3>1. n - 1 \in Int /\ 0 \in Int
      OBVIOUS
    <3>2. Cardinality(P) = IF 0 > n - 1 THEN 0 ELSE n - 1 - 0 + 1
      BY <3>1, FS_Interval
    <3> HIDE DEF P
    <3> QED
      BY <3>2
  <2>2. \A r \in Prefix(n) : r \in Claimable /\ Place(r) \in P
    BY PlaceType DEF Prefix
  <2>3. f \in [Prefix(n) -> P]
    BY <2>2
  <2>4. \A q, r \in Prefix(n) : f[q] = f[r] => q = r
    BY <2>2, PlaceOrder
  <2>5. \A k \in P : \E r \in Prefix(n) : f[r] = k
    <3> SUFFICES ASSUME NEW k \in P
                 PROVE  \E r \in Prefix(n) : f[r] = k
      OBVIOUS
    <3>1. k \in Nat /\ k < n /\ k < Cardinality(Claimable)
      BY <1>1, <1>2
    <3>2. PICK r \in Claimable : Place(r) = k
      BY <3>1, PlacesAreTaken
    <3> QED
      BY <3>1, <3>2 DEF Prefix
  <2>6. f \in Injection(Prefix(n), P)
    BY <2>3, <2>4 DEF Injection, IsInjective
  <2>6a. f \in Surjection(Prefix(n), P)
    BY <2>3, <2>5 DEF Surjection
  <2>7. Cardinality(Prefix(n)) = Cardinality(P)
    <3> HIDE DEF f, P
    <3> QED
      BY <1>1, <2>6, <2>6a, FS_Surjection
  <2> QED
    BY <1>1, <1>2, <2>1, <2>7 DEF Least
<1>3. CASE ~ (n <= Cardinality(Claimable))
  <2>1. Prefix(n) = Claimable
    BY <1>1, <1>3, PlaceType DEF Prefix
  <2> QED
    BY <1>1, <1>3, <2>1 DEF Least
<1> QED
  BY <1>2, <1>3

\* A set of claimable rows that precedes the others.
Leading(S) == \A r \in S, q \in Claimable \ S : Precedes(r, q)

LEMMA PrefixLeads ==
  ASSUME TypeOK, NEW n \in Nat
  PROVE  Leading(Prefix(n))
<1> SUFFICES ASSUME NEW r \in Prefix(n), NEW q \in Claimable \ Prefix(n)
             PROVE  Precedes(r, q)
  BY DEF Leading
<1>1. Place(r) < n /\ ~ (Place(q) < n) /\ r \in Claimable /\ q \in Claimable
  BY DEF Prefix
<1>2. Place(r) \in Nat /\ Place(q) \in Nat
  BY <1>1, PlaceType
<1>3. Place(r) < Place(q)
  BY <1>1, <1>2
<1> QED
  BY <1>1, <1>3, PlaceOrder

\* Of two sets that precede the others, the larger holds the smaller.
LEMMA LeadingSetsAgree ==
  ASSUME TypeOK, NEW S \in SUBSET Claimable, NEW T \in SUBSET Claimable,
         Leading(S), Leading(T), Cardinality(S) = Cardinality(T)
  PROVE  S = T
<1>1. S \subseteq T \/ T \subseteq S
  <2> SUFFICES ASSUME NEW x \in S \ T, NEW y \in T \ S
               PROVE  FALSE
    OBVIOUS
  <2>1. Precedes(x, y) /\ Precedes(y, x)
    BY DEF Leading
  <2> QED
    BY <2>1, ClaimableRows, PrecedesIsOrder
<1>2. IsFiniteSet(S) /\ IsFiniteSet(T)
  BY ClaimableRows, PartOfFinite
<1> QED
  BY <1>1, <1>2, FS_Subset

LEMMA LimitIsNat ==
  ASSUME TypeOK, NEW limit \in {1, Unbounded}
  PROVE  ClaimLimit(limit) \in Nat /\ Unbounded \in Nat
<1>1. /\ Cardinality(Active) \in Nat /\ Unbounded \in Nat
      /\ completed \in Nat /\ starts \in Nat /\ MaxParallel \in Nat /\ TurnsLimit \in Nat
  BY FiniteRowsAndTasks, ConstantsAssumption DEF TypeOK, Unbounded, Active
<1>2. TurnBudget \in Nat /\ FreeSlots \in Nat /\ StartBudget \in Nat
  BY <1>1 DEF TurnBudget, FreeSlots, StartBudget, Monus
<1> QED
  BY <1>1, <1>2 DEF ClaimLimit, Least

\* A wave is the first rows of the order, as many as the budgets allow.
LEMMA WaveIsPrefix ==
  ASSUME TypeOK, NEW limit \in {1, Unbounded}, NEW S \in SUBSET Claimable
  PROVE  IsWave(S, limit) <=> S = Prefix(ClaimLimit(limit))
<1> DEFINE n == ClaimLimit(limit)
<1>1. n \in Nat
  BY LimitIsNat
<1>2. IsWave(S, limit) <=> Cardinality(S) = Least(n, Cardinality(Claimable)) /\ Leading(S)
  BY DEF IsWave, Leading
<1> HIDE DEF n
<1>3. /\ Prefix(n) \in SUBSET Claimable /\ Leading(Prefix(n))
      /\ Cardinality(Prefix(n)) = Least(n, Cardinality(Claimable))
  BY <1>1, PrefixCardinality, PrefixLeads
<1>4. IsWave(S, limit) => S = Prefix(n)
  BY <1>2, <1>3, LeadingSetsAgree
<1>5. S = Prefix(n) => IsWave(S, limit)
  BY <1>2, <1>3
<1> QED
  BY <1>4, <1>5 DEF n

(***************************************************************************)
(* Neither the budgets nor the survey gate hold up a claim.                *)
(***************************************************************************)
LEMMA ClaimSucceeds ==
  ASSUME TypeOK
  PROVE  NoDispatchDeadlock
<1> SUFFICES ASSUME Tracked = {}, TurnBudget > 0, Ready # {},
                    \A r \in Survey : row[r] # "InProgress"
             PROVE  \E S \in SUBSET Claimable : S # {} /\ IsWave(S, Unbounded)
  BY DEF NoDispatchDeadlock
<1> DEFINE n == ClaimLimit(Unbounded)
           S == Prefix(n)
<1>1. Claimable # {}
  BY DEF Claimable, GateShut
<1>2. Cardinality(Claimable) > 0
  <2>1. Cardinality(Claimable) \in Nat /\ Cardinality(Claimable) # 0
    BY <1>1, ClaimableRows, FS_EmptySet
  <2> QED
    BY <2>1
<1>3. Unbounded > 0 /\ Unbounded \in Nat
  <2>1. Cardinality(Claimable) <= Unbounded /\ Unbounded \in Nat
    BY ClaimableRows, PartOfFinite, FiniteRowsAndTasks, ConstantsAssumption DEF Unbounded
  <2> QED
    BY <1>2, <2>1, ClaimableRows
<1>4. Cardinality(Active) = 0
  <2>1. Active = {}
    BY DEF Active, Tracked, TypeOK, EntryState
  <2> QED
    BY <2>1, FS_EmptySet
<1>5. FreeSlots > 0 /\ FreeSlots \in Nat
  BY <1>3, <1>4, ConstantsAssumption DEF FreeSlots, Monus
<1>6. StartBudget = Unbounded
  BY DEF StartBudget
<1>7. TurnBudget \in Nat
  BY <1>3, <1>4, ConstantsAssumption DEF TurnBudget, Monus, TypeOK
<1>8. n > 0 /\ n \in Nat
  BY <1>3, <1>5, <1>6, <1>7 DEF ClaimLimit, Least
<1> HIDE DEF n
<1>9. S \in SUBSET Claimable /\ Cardinality(S) = Least(n, Cardinality(Claimable))
  BY <1>8, PrefixCardinality
<1>10. Cardinality(S) # 0
  BY <1>2, <1>8, <1>9, ClaimableRows DEF Least
<1>11. S # {}
  BY <1>10, FS_EmptySet
<1>12. IsWave(S, Unbounded)
  BY <1>9, WaveIsPrefix DEF n
<1> QED
  BY <1>9, <1>11, <1>12

\* With no task tracked, turns left, a ready row and no survey row in progress,
\* a claim succeeds: the lift of the start budget and the survey gate leave it
\* a row (claim_ranked_todos, start_budget_remaining).
THEOREM DispatchNeverDeadlocks == Spec => []NoDispatchDeadlock
<1>1. TypeOK => NoDispatchDeadlock
  BY ClaimSucceeds
<1> QED
  BY <1>1, TypeCorrect, PTL

(***************************************************************************)
(* The best and the last row of a group.                                   *)
(***************************************************************************)
\* The place of a row within its group.
InGroup(r) == Cardinality(BetterOfGroup(r))

LEMMA GroupOrder ==
  ASSUME TypeOK, NEW q \in Claimable, NEW r \in Claimable, GroupOf[q] = GroupOf[r]
  PROVE  /\ InGroup(q) \in Nat /\ InGroup(r) \in Nat
         /\ Better(q, r) <=> InGroup(q) < InGroup(r)
<1>1. q \in Row /\ r \in Row
  BY ClaimableRows
<1>2. /\ Served(q) = claims[GroupOf[q]] + InGroup(q) /\ InGroup(q) \in Nat
      /\ Served(r) = claims[GroupOf[r]] + InGroup(r) /\ InGroup(r) \in Nat
      /\ claims[GroupOf[q]] \in Nat
  BY <1>1, ServedNat DEF InGroup
<1>3. (Better(q, r) => Served(q) < Served(r)) /\ (Better(r, q) => Served(r) < Served(q))
  BY BetterIsServedFirst
<1>4. q # r => Better(q, r) \/ Better(r, q)
  BY <1>1, BetterIsOrder
<1>5. Better(q, r) => InGroup(q) < InGroup(r)
  BY <1>2, <1>3
<1>6. InGroup(q) < InGroup(r) => Better(q, r)
  BY <1>2, <1>3, <1>4
<1> QED
  BY <1>2, <1>5, <1>6

\* Some row of a set of claimable rows of one group is better than the others.
LEMMA BestOfGroup ==
  ASSUME TypeOK, NEW g, NEW S \in SUBSET {r \in Claimable : GroupOf[r] = g}, S # {}
  PROVE  \E r \in S : \A q \in S \ {r} : Better(r, q)
<1> DEFINE T == {InGroup(r) : r \in S}
<1>1. \A r \in S : r \in Claimable /\ GroupOf[r] = g /\ r \in Row
  BY ClaimableRows
<1>2. \A r \in S : InGroup(r) \in Nat
  BY <1>1, GroupOrder
<1>3. T \in SUBSET Nat /\ T # {}
  BY <1>2
<1>4. PICK k \in T : \A j \in T : k <= j
  <2> HIDE DEF T
  <2> QED
    BY <1>3, LeastNat
<1>5. PICK r \in S : InGroup(r) = k
  BY <1>4
<1>6. ASSUME NEW q \in S \ {r}
      PROVE  Better(r, q)
  <2>1. InGroup(r) <= InGroup(q)
    BY <1>4, <1>5
  <2>2. Better(r, q) \/ Better(q, r)
    BY <1>1, BetterIsOrder
  <2>3. Better(q, r) => InGroup(q) < InGroup(r)
    BY <1>1, GroupOrder
  <2> QED
    BY <2>1, <2>2, <2>3, <1>2
<1> QED
  BY <1>6

\* ... and some row comes after the others.
LEMMA LastOfGroup ==
  ASSUME TypeOK, NEW g, NEW S \in SUBSET {r \in Claimable : GroupOf[r] = g}, S # {}
  PROVE  \E r \in S : \A q \in S \ {r} : Better(q, r)
<1> DEFINE N == Cardinality(Claimable)
           T == {N - InGroup(r) : r \in S}
<1>1. \A r \in S : r \in Claimable /\ GroupOf[r] = g /\ r \in Row
  BY ClaimableRows
<1>2. N \in Nat /\ \A r \in S : InGroup(r) \in Nat /\ InGroup(r) <= N
  <2>1. ASSUME NEW r \in S
        PROVE  InGroup(r) \in Nat /\ InGroup(r) <= N
    <3>1. BetterOfGroup(r) \in SUBSET Claimable
      BY DEF BetterOfGroup
    <3> QED
      BY <3>1, ClaimableRows, PartOfFinite DEF InGroup
  <2> QED
    BY <2>1, ClaimableRows
<1> HIDE DEF N
<1>3. T \in SUBSET Nat /\ T # {}
  BY <1>2
<1>4. PICK k \in T : \A j \in T : k <= j
  <2> HIDE DEF T
  <2> QED
    BY <1>3, LeastNat
<1>5. PICK r \in S : N - InGroup(r) = k
  BY <1>4
<1>6. ASSUME NEW q \in S \ {r}
      PROVE  Better(q, r)
  <2>1. N - InGroup(r) <= N - InGroup(q)
    BY <1>4, <1>5
  <2>2. InGroup(q) <= InGroup(r)
    BY <2>1, <1>2
  <2>3. Better(r, q) \/ Better(q, r)
    BY <1>1, BetterIsOrder
  <2>4. Better(r, q) => InGroup(r) < InGroup(q)
    BY <1>1, GroupOrder
  <2> QED
    BY <2>2, <2>3, <2>4, <1>2
<1> QED
  BY <1>6

(***************************************************************************)
(* A wave spreads over the groups.                                         *)
(***************************************************************************)
\* The claims of two groups after a wave that takes r and leaves q.
LEMMA WaveSpreads ==
  ASSUME TypeOK, NEW S \in SUBSET Claimable, Leading(S),
         NEW r \in S, NEW q \in Claimable \ S
  PROVE  claims[GroupOf[r]] + Cardinality(OfGroup(GroupOf[r], S))
           <= claims[GroupOf[q]] + Cardinality(OfGroup(GroupOf[q], S)) + 1
<1> DEFINE g == GroupOf[r]
           h == GroupOf[q]
           A == OfGroup(g, S)
           B == OfGroup(h, S)
           C == OfGroup(h, Claimable \ S)
<1>1. /\ IsFiniteSet(A) /\ Cardinality(A) \in Nat /\ r \in A
      /\ A \in SUBSET {x \in Claimable : GroupOf[x] = g}
      /\ IsFiniteSet(B) /\ Cardinality(B) \in Nat
      /\ C \in SUBSET {x \in Claimable : GroupOf[x] = h} /\ q \in C
  <2>1. A \in SUBSET Claimable /\ B \in SUBSET Claimable
    BY DEF OfGroup
  <2> QED
    BY <2>1, ClaimableRows, PartOfFinite DEF OfGroup
<1>2. PICK last \in A : \A x \in A \ {last} : Better(x, last)
  BY <1>1, LastOfGroup
<1>3. PICK best \in C : \A x \in C \ {best} : Better(best, x)
  BY <1>1, BestOfGroup
<1>4. /\ last \in S /\ last \in Claimable /\ GroupOf[last] = g
      /\ best \in Claimable /\ best \notin S /\ GroupOf[best] = h
  BY DEF OfGroup
<1>5. Cardinality(A) - 1 <= InGroup(last)
  <2>1. A \ {last} \in SUBSET BetterOfGroup(last)
    BY <1>1, <1>2, <1>4 DEF BetterOfGroup
  <2>2. Cardinality(A \ {last}) = Cardinality(A) - 1
    BY <1>1, FS_RemoveElement
  <2>3. IsFiniteSet(BetterOfGroup(last))
    BY <1>4, ClaimableRows, FiniteRowsAndTasks DEF BetterOfGroup
  <2> QED
    BY <2>1, <2>2, <2>3, PartOfFinite DEF InGroup
<1>6. InGroup(best) <= Cardinality(B)
  <2>1. BetterOfGroup(best) \in SUBSET B
    <3> SUFFICES ASSUME NEW x \in BetterOfGroup(best)
                 PROVE  x \in B
      OBVIOUS
    <3>1. x \in Claimable /\ GroupOf[x] = h /\ Better(x, best) /\ x \in Row /\ best \in Row
      BY <1>4, ClaimableRows DEF BetterOfGroup
    <3>2. x \notin C
      BY <3>1, <1>3, BetterIsOrder
    <3> QED
      BY <3>1, <3>2 DEF OfGroup
  <2> QED
    BY <2>1, <1>1, PartOfFinite DEF InGroup
<1>7. Served(last) <= Served(best)
  <2>1. Precedes(last, best)
    BY <1>4 DEF Leading
  <2>2. Served(last) \in Nat /\ Served(best) \in Nat
    BY <1>4, ClaimableRows, ServedNat
  <2> QED
    BY <2>1, <2>2 DEF Precedes
<1>8. /\ Served(last) = claims[g] + InGroup(last) /\ InGroup(last) \in Nat
      /\ Served(best) = claims[h] + InGroup(best) /\ InGroup(best) \in Nat
      /\ claims[g] \in Nat /\ claims[h] \in Nat
  <2>1. last \in Row /\ best \in Row
    BY <1>4, ClaimableRows
  <2> QED
    BY <2>1, <1>4, ServedNat DEF InGroup
<1> HIDE DEF A, B, C
<1>9. claims[g] + Cardinality(A) <= claims[h] + Cardinality(B) + 1
  BY <1>1, <1>5, <1>6, <1>7, <1>8
<1> QED
  BY <1>9 DEF A, B

\* A group that a wave gives a slot is at most one claim ahead of every group
\* that had a claimable row and got none for it (claim_ranked_todos).
THEOREM WavesSpread == Spec => SpreadFair
<1> DEFINE Spread ==
      \A r, q \in Row :
        /\ r \in claimed' \ claimed
        /\ q \in Claimable \ claimed'
        => claims'[GroupOf[r]] <= claims'[GroupOf[q]] + 1
<1>1. TypeOK /\ [Next]_vars => Spread
  <2> SUFFICES ASSUME TypeOK, [Next]_vars,
                      NEW r \in Row, NEW q \in Row,
                      r \in claimed' \ claimed, q \in Claimable \ claimed'
               PROVE  claims'[GroupOf[r]] <= claims'[GroupOf[q]] + 1
    OBVIOUS
  <2>1. PICK limit \in {1, Unbounded} : Claim(limit)
    BY StepCases DEF Submit, SubmitFails, Dispatched, OperatorSubmit, AcquirePermit, Start,
      FinishOk, FinishErr, End, StopCancel, StopTake, StopReturn, Reap, StopJoin, StopExpire,
      EditStep, mainVars
  <2>2. PICK S \in SUBSET Claimable :
          /\ IsWave(S, limit) /\ claimed' = S
          /\ claims' = [g \in Group |-> claims[g] + Cardinality({x \in S : GroupOf[x] = g})]
    BY <2>1 DEF Claim
  <2>3. Leading(S)
    BY <2>2 DEF IsWave, Leading
  <2>4. GroupOf[r] \in Group /\ GroupOf[q] \in Group
    BY ServedNat
  <2>5. /\ claims'[GroupOf[r]] = claims[GroupOf[r]] + Cardinality(OfGroup(GroupOf[r], S))
        /\ claims'[GroupOf[q]] = claims[GroupOf[q]] + Cardinality(OfGroup(GroupOf[q], S))
    BY <2>2, <2>4 DEF OfGroup
  <2> QED
    BY <2>2, <2>3, <2>5, WaveSpreads
<1> QED
  BY <1>1, TypeCorrect, PTL DEF Spec, SpreadFair

(***************************************************************************)
(* The loop of claim_ranked_todos picks the first rows of the order.       *)
(***************************************************************************)
\* The rows one turn of the loop adds to those it has taken.
NextTaken(taken) ==
  {r \in Claimable \ taken : \A q \in (Claimable \ taken) \ {r} : Ahead(r, q, taken)}

LEMMA LoadType ==
  ASSUME TypeOK, NEW T \in SUBSET Claimable, NEW r \in Claimable
  PROVE  /\ Load(r, T) \in Nat
         /\ Load(r, T) = claims[GroupOf[r]] + Cardinality(OfGroup(GroupOf[r], T))
<1>1. OfGroup(GroupOf[r], T) \in SUBSET Claimable /\ r \in Row
  BY ClaimableRows DEF OfGroup
<1>2. Cardinality(OfGroup(GroupOf[r], T)) \in Nat /\ claims[GroupOf[r]] \in Nat
  BY <1>1, ClaimableRows, PartOfFinite, ServedNat
<1> QED
  BY <1>2 DEF Load, OfGroup

\* The first row of a group that is left sees its group as served so far.
LEMMA BestIsServedNext ==
  ASSUME TypeOK, NEW T \in SUBSET Claimable, Leading(T), NEW q \in Claimable \ T,
         \A x \in Claimable \ T : GroupOf[x] = GroupOf[q] /\ x # q => Better(q, x)
  PROVE  Served(q) = Load(q, T)
<1>1. BetterOfGroup(q) = OfGroup(GroupOf[q], T)
  <2>1. ASSUME NEW x \in BetterOfGroup(q)
        PROVE  x \in OfGroup(GroupOf[q], T)
    <3>1. x \in Claimable /\ GroupOf[x] = GroupOf[q] /\ Better(x, q) /\ x \in Row /\ q \in Row
      BY ClaimableRows DEF BetterOfGroup
    <3>2. x \in T
      BY <3>1, BetterIsOrder
    <3> QED
      BY <3>1, <3>2 DEF OfGroup
  <2>2. ASSUME NEW x \in OfGroup(GroupOf[q], T)
        PROVE  x \in BetterOfGroup(q)
    <3>1. x \in T /\ x \in Claimable /\ GroupOf[x] = GroupOf[q]
      BY DEF OfGroup
    <3>2. Precedes(x, q)
      BY <3>1 DEF Leading
    <3>3. Better(x, q)
      BY <3>1, <3>2, BetterPrecedes
    <3> QED
      BY <3>1, <3>3 DEF BetterOfGroup
  <2> QED
    BY <2>1, <2>2
<1>2. q \in Row
  BY ClaimableRows
<1> QED
  BY <1>1, <1>2, ServedNat, LoadType

\* A row that precedes all the others left is the one the loop takes.
LEMMA LoopTakesFirst ==
  ASSUME TypeOK, NEW T \in SUBSET Claimable, Leading(T), NEW m \in Claimable \ T,
         \A q \in (Claimable \ T) \ {m} : Precedes(m, q)
  PROVE  NextTaken(T) = {m}
<1>1. \A x \in Claimable \ T : GroupOf[x] = GroupOf[m] /\ x # m => Better(m, x)
  BY BetterPrecedes
<1>2. Served(m) = Load(m, T)
  BY <1>1, BestIsServedNext
<1>3. ASSUME NEW q \in (Claimable \ T) \ {m}
      PROVE  Ahead(m, q, T)
  <2> DEFINE C == OfGroup(GroupOf[q], Claimable \ T)
  <2>1. C \in SUBSET {x \in Claimable : GroupOf[x] = GroupOf[q]} /\ q \in C
    BY DEF OfGroup
  <2>2. PICK best \in C : \A x \in C \ {best} : Better(best, x)
    BY <2>1, BestOfGroup
  <2>3. best \in Claimable \ T /\ GroupOf[best] = GroupOf[q]
    BY DEF OfGroup
  <2>4. Served(best) = Load(best, T)
    <3>1. \A x \in Claimable \ T : GroupOf[x] = GroupOf[best] /\ x # best => Better(best, x)
      BY <2>2, <2>3 DEF OfGroup
    <3> QED
      BY <2>3, <3>1, BestIsServedNext
  <2>5. Load(best, T) = Load(q, T)
    BY <2>3, LoadType
  <2>6. best # q => Better(best, q)
    BY <2>1, <2>2
  <2>7. Load(m, T) \in Nat /\ Load(q, T) \in Nat
    BY LoadType
  <2>8. CASE best = m
    BY <2>5, <2>6, <2>8 DEF Ahead
  <2>9. CASE best # m
    <3>1. Precedes(m, best)
      BY <2>3, <2>9
    <3>2. Load(m, T) < Load(q, T) \/ (Load(m, T) = Load(q, T) /\ Better(m, best))
      BY <3>1, <1>2, <2>4, <2>5 DEF Precedes
    <3>3. Better(m, best) => Better(m, q)
      BY <2>3, <2>6, BetterIsOrder, ClaimableRows
    <3> QED
      BY <3>2, <3>3 DEF Ahead
  <2> QED
    BY <2>8, <2>9
<1>4. ASSUME NEW q \in (Claimable \ T) \ {m}
      PROVE  ~ Ahead(q, m, T)
  <2>1. Ahead(m, q, T) /\ Load(m, T) \in Nat /\ Load(q, T) \in Nat /\ m \in Row /\ q \in Row
    BY <1>3, LoadType, ClaimableRows
  <2> QED
    BY <2>1, BetterIsOrder DEF Ahead
<1> QED
  BY <1>3, <1>4 DEF NextTaken

\* One turn of the loop takes the first n rows to the first n + 1.
LEMMA LoopStep ==
  ASSUME TypeOK, NEW n \in Nat
  PROVE  Prefix(n + 1) = Prefix(n) \cup NextTaken(Prefix(n))
<1> DEFINE T == Prefix(n)
<1>1. T \in SUBSET Claimable /\ Cardinality(T) = Least(n, Cardinality(Claimable)) /\ Leading(T)
  BY PrefixCardinality, PrefixLeads
<1>2. \A r \in Claimable : Place(r) \in Nat
  BY PlaceType
<1>3. T \subseteq Prefix(n + 1)
  BY <1>2 DEF Prefix
<1>4. CASE T = Claimable
  <2>1. Prefix(n + 1) = Claimable
    BY <1>3, <1>4 DEF Prefix
  <2>2. NextTaken(T) = {}
    BY <1>4 DEF NextTaken
  <2> QED
    BY <1>4, <2>1, <2>2
<1>5. CASE T # Claimable
  <2>1. n < Cardinality(Claimable)
    <3>1. Cardinality(T) # Cardinality(Claimable)
      BY <1>1, <1>5, ClaimableRows, FS_Subset
    <3> QED
      BY <3>1, <1>1, ClaimableRows DEF Least
  <2>2. PICK m \in Claimable : Place(m) = n
    BY <2>1, PlacesAreTaken
  <2>3. m \in Claimable \ T
    BY <2>2 DEF Prefix
  <2>4. \A q \in (Claimable \ T) \ {m} : Precedes(m, q) /\ ~ (Place(q) < n + 1)
    <3> SUFFICES ASSUME NEW q \in (Claimable \ T) \ {m}
                 PROVE  Precedes(m, q) /\ ~ (Place(q) < n + 1)
      OBVIOUS
    <3>1. q \in Claimable /\ q # m /\ ~ (Place(q) < n) /\ Place(q) \in Nat
      BY <1>2 DEF Prefix
    <3>2. Place(q) # n
      BY <2>2, <3>1, PlaceOrder
    <3> QED
      BY <2>2, <3>1, <3>2, PlaceOrder
  <2>5. Prefix(n + 1) = T \cup {m}
    BY <2>2, <2>4, <1>3 DEF Prefix
  <2>6. NextTaken(T) = {m}
    BY <1>1, <2>3, <2>4, LoopTakesFirst
  <2> QED
    BY <2>5, <2>6
<1> QED
  BY <1>4, <1>5

\* The recursive function of the loop exists: the prefixes satisfy its equation.
LEMMA TakenEquation ==
  ASSUME TypeOK
  PROVE  Taken = [n \in Nat |-> IF n = 0 THEN {} ELSE Taken[n - 1] \cup NextTaken(Taken[n - 1])]
<1> DEFINE F == [n \in Nat |-> Prefix(n)]
<1>1. F = [n \in Nat |-> IF n = 0 THEN {} ELSE F[n - 1] \cup NextTaken(F[n - 1])]
  <2>1. Prefix(0) = {}
    BY PlaceType DEF Prefix
  <2>2. ASSUME NEW n \in Nat, n # 0
        PROVE  Prefix(n) = F[n - 1] \cup NextTaken(F[n - 1])
    <3>1. n - 1 \in Nat /\ (n - 1) + 1 = n
      BY <2>2
    <3>2. Prefix((n - 1) + 1) = Prefix(n - 1) \cup NextTaken(Prefix(n - 1))
      BY <3>1, LoopStep
    <3> QED
      BY <3>1, <3>2
  <2> QED
    BY <2>1, <2>2
<1> HIDE DEF F
<1> DEFINE IsLoop(f) ==
      f = [n \in Nat |->
             IF n = 0 THEN {}
             ELSE LET taken == f[n - 1]
                      ready == Claimable \ taken
                  IN  taken \cup {r \in ready : \A q \in ready \ {r} : Ahead(r, q, taken)}]
<1>2. IsLoop(F)
  BY <1>1 DEF NextTaken
<1>3. Taken = CHOOSE f : IsLoop(f)
  BY DEF Taken
<1>4. IsLoop(Taken)
  <2> HIDE DEF IsLoop
  <2>1. \E f : IsLoop(f)
    BY <1>2
  <2> QED
    BY <1>3, <2>1
<1> QED
  BY <1>4 DEF NextTaken

LEMMA TakenIsPrefix ==
  ASSUME TypeOK
  PROVE  \A n \in Nat : Taken[n] = Prefix(n)
<1> DEFINE Wrong == {n \in Nat : Taken[n] # Prefix(n)}
<1> SUFFICES ASSUME Wrong # {}
             PROVE  FALSE
  OBVIOUS
<1>1. PICK n \in Wrong : \A k \in Wrong : n <= k
  <2>1. Wrong \in SUBSET Nat
    OBVIOUS
  <2> HIDE DEF Wrong
  <2> QED
    BY <2>1, LeastNat
<1>2. n \in Nat
  OBVIOUS
<1>3. CASE n = 0
  <2>1. Taken[0] = {}
    BY TakenEquation
  <2>2. Prefix(0) = {}
    BY PlaceType DEF Prefix
  <2> QED
    BY <1>3, <2>1, <2>2
<1>4. CASE n # 0
  <2>1. n - 1 \in Nat /\ (n - 1) + 1 = n /\ ~ (n <= n - 1)
    BY <1>2, <1>4
  <2>2. Taken[n - 1] = Prefix(n - 1)
    BY <1>1, <2>1
  <2>3. Taken[n] = Taken[n - 1] \cup NextTaken(Taken[n - 1])
    BY <1>2, <1>4, TakenEquation
  <2>4. Prefix((n - 1) + 1) = Prefix(n - 1) \cup NextTaken(Prefix(n - 1))
    BY <2>1, LoopStep
  <2> QED
    BY <2>1, <2>2, <2>3, <2>4
<1> QED
  BY <1>3, <1>4

\* The closed form of a wave that the bounds are proved from is the greedy loop
\* over the groups: the same rows, for any limit (claim_ranked_todos).
THEOREM WavesAreTheLoop == Spec => []WaveIsLoop
<1>1. TypeOK => WaveIsLoop
  <2> SUFFICES ASSUME TypeOK, NEW limit \in {1, Unbounded}, NEW S \in SUBSET Claimable
               PROVE  IsWave(S, limit) <=> S = Taken[ClaimLimit(limit)]
    BY DEF WaveIsLoop
  <2>1. Taken[ClaimLimit(limit)] = Prefix(ClaimLimit(limit))
    BY LimitIsNat, TakenIsPrefix
  <2> QED
    BY <2>1, WaveIsPrefix
<1> QED
  BY <1>1, TypeCorrect, PTL
=============================================================================
