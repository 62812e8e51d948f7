--------------------------- MODULE MCTaskManager ---------------------------
(***************************************************************************)
(* Instances of TaskManager for TLC. The state space of the whole          *)
(* next-state relation is too large, so each run keeps the actions that   *)
(* its question is about.                                                  *)
(***************************************************************************)
EXTENDS TaskManager, TLC

CONSTANTS a, b, e, f, h, g1, g2, g3

\* A review of two steps, the second after the first, and a follow-up of the
\* first step, which the ranking agent puts first.
Rows     == {a, b, f}
Surveyed == {a, b}
Groups   == {g1, g2}
InGroup  == [r \in Rows |-> IF r = b THEN g2 ELSE g1]
Needs    == [r \in Rows |-> IF r = a THEN {} ELSE {a}]
Stored   == [r \in Rows |-> IF r = a THEN 1 ELSE IF r = b THEN 2 ELSE 3]
Ranks    == {[r \in Rows |-> IF r = f THEN 0 ELSE IF r = b THEN 1 ELSE 2]}

\* A review of one step, and three follow-ups of two other steps: two of one
\* step, which the ranking agent prefers, and one of the other.
WaveRows     == {a, e, f, h}
WaveSurveyed == {a}
WaveGroups   == {g1, g2, g3}
WaveInGroup  == [r \in WaveRows |-> IF r = a THEN g3 ELSE IF r = h THEN g2 ELSE g1]
WaveNeeds    == [r \in WaveRows |-> IF r = f THEN {a} ELSE {}]
WaveStored   == [r \in WaveRows |-> IF r = a THEN 1 ELSE IF r = h THEN 2 ELSE IF r = e THEN 3 ELSE 4]
WaveRanks    == {[r \in WaveRows |-> IF r = f THEN 0 ELSE IF r = e THEN 1 ELSE 2]}

TaskSymmetry == Permutations(Task)

\* One review prompt, submitted before any task runs.
OneReview == (Fresh = Task /\ Listed = {} /\ FreshReview) \/ SeedTodoIfEmpty \/ PlanFails

\* A reaper whose todo agent does nothing, or creates all follow-ups at once.
PlainReaper ==
  \/ Reap \/ NoteReapCompleted
  \/ \E t \in Task : PublishTask(t, TRUE)
  \/ \E group \in SUBSET Task : AskTodoAgent(group)
  \/ \E create \in {{}, Row \ (Seen \cup PlanRows)} : MergeInferredState({}, {}, create)

\* Claims, submissions, futures and the reaper, with no command that stops
\* tasks or edits the list.
DispatchNext == Dispatch \/ (\E t \in Task : RunTask(t)) \/ OneReview \/ PlainReaper
DispatchSpec == Init /\ [][DispatchNext]_vars

\* Every command that stops tasks or edits the list, and the whole reaper,
\* around the task of one row.
CommandNext ==
  \/ Claim(Unbounded) \/ \E r \in Row : (\E t \in Task : Submit(r, t)) \/ SubmitFails(r)
  \/ (\E t \in Task : RunTask(t)) \/ EditTodo \/ Reaper \/ Stop
CommandSpec == Init /\ [][CommandNext]_vars

\* A session in which every prompt can be submitted and every task succeeds.
SmoothNext ==
  \/ Claim(Unbounded) \/ \E r \in Row, t \in Task : Submit(r, t)
  \/ \E t \in Task : AcquirePermit(t) \/ Start(t) \/ FinishOk(t, TRUE) \/ Release(t)
  \/ OneReview \/ PlainReaper
SmoothSpec == Init /\ [][SmoothNext]_vars /\ Fairness

\* The same, but the work of a task may fail.
ErrorSpec == Init /\ [][SmoothNext \/ \E t \in Task : FinishErr(t)]_vars
=============================================================================
