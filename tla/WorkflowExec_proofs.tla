------------------------ MODULE WorkflowExec_proofs ------------------------
(***************************************************************************)
(* Invariance proofs for the workflow executor.                            *)
(***************************************************************************)
EXTENDS WorkflowExec, TLAPS

States == [Step -> StepState]

Live == pc \notin {"over", "down"}

Accepted(m) == \E s \in Step : m[s].status = "EffectsPending"

\* What is true of the states in memory and of those in the snapshot.
Sound(m) ==
  \A s \in Step :
    /\ applied[s] <= m[s].ran /\ m[s].ran <= runs
    /\ m[s].status = "EffectsPending" => m[s].ran = runs
    /\ m[s].status = "Done" => applied[s] = m[s].ran \/ m[s].ran \in m[s].rejected

\* While the process lives, accepted effects are in the snapshot as they are in memory.
Durable ==
  Live /\ (Accepted(mem) \/ (disk # NoSnapshot /\ Accepted(disk))) => disk = mem

\* What holds at each place of the loop.
Places ==
  /\ pc \in {"run", "eval"} => ~Accepted(mem) /\ mem[cur].ran = runs /\ runs # 0
  /\ pc = "eval" => mem[cur].out # 0
  /\ pc \in {"apply", "settle"} => mem[cur].status = "EffectsPending"
  /\ pc = "settle" => applied[cur] = mem[cur].ran

Core == Sound(mem) /\ (disk # NoSnapshot => Sound(disk)) /\ Durable

IInv == TypeOK /\ Core /\ Places

-----------------------------------------------------------------------------
(* The helpers of the specification *)

LEMMA Bounds ==
  /\ Steps \in Nat \ {0} /\ RunBound \in Nat /\ FaultBound \in Nat /\ ResumeBound \in Nat
  /\ 1 \in Step /\ 0 \in RunId /\ Run \subseteq RunId /\ \A r \in RunId : r # 0 => r \in Run
  BY ConstantsAssumption DEF Step, Run, RunId

\* Entering a step again changes neither its run nor its rejected runs.
LEMMA ResetFacts ==
  ASSUME NEW st \in StepState
  PROVE  /\ Reset(st) \in StepState /\ Reset(st).status = "Pending"
         /\ Reset(st).ran = st.ran /\ Reset(st).rejected = st.rejected
  <1>. DEFINE q == IF st.out = 0 THEN st.prior ELSE Append(st.prior, st.out)
  <1>1. st.prior \in Seq(Run) /\ st.out \in RunId
    BY DEF StepState
  <1>2. st.out # 0 => st.out \in Run
    BY <1>1, Bounds
  <1>3. q \in Seq(Run)
    BY <1>1, <1>2
  <1>4. Reset(st) = [st EXCEPT !.status = "Pending", !.out = 0, !.kept = 0, !.prior = q]
    BY DEF Reset
  <1>. HIDE DEF q
  <1>. QED  BY <1>3, <1>4, Bounds DEF StepState, Status

\* What m2 may be if some steps of m are entered again.
Reentry(m, m2) ==
  /\ m2 \in States
  /\ \A s \in Step : /\ m2[s].ran = m[s].ran /\ m2[s].rejected = m[s].rejected
                     /\ m2[s].status \in {m[s].status, "Pending"}

LEMMA ResetDependentsFacts ==
  ASSUME NEW m \in States, NEW t \in Step
  PROVE  Reentry(m, ResetDependents(m, t))
  <1>1. \A s \in Step : ResetDependents(m, t)[s] \in
          {m[s], Reset(m[s]), [m[s] EXCEPT !.status = "Pending", !.out = 0, !.kept = m[s].out]}
    BY DEF ResetDependents
  <1>2. \A s \in Step :
          LET st == [m[s] EXCEPT !.status = "Pending", !.out = 0, !.kept = m[s].out] IN
            /\ st \in StepState /\ st.status = "Pending"
            /\ st.ran = m[s].ran /\ st.rejected = m[s].rejected
    BY Bounds DEF States, StepState, Status
  <1>3. \A s \in Step : /\ Reset(m[s]) \in StepState /\ Reset(m[s]).status = "Pending"
                        /\ Reset(m[s]).ran = m[s].ran /\ Reset(m[s]).rejected = m[s].rejected
    BY ResetFacts DEF States
  <1>4. ResetDependents(m, t) = [s \in Step |-> ResetDependents(m, t)[s]]
    BY DEF ResetDependents
  <1>5. \A s \in Step : m[s] \in StepState
    BY DEF States
  <1>6. \A s \in Step :
          /\ ResetDependents(m, t)[s] \in StepState
          /\ ResetDependents(m, t)[s].ran = m[s].ran
          /\ ResetDependents(m, t)[s].rejected = m[s].rejected
          /\ ResetDependents(m, t)[s].status \in {m[s].status, "Pending"}
    BY <1>1, <1>2, <1>3, <1>5
  <1>7. ResetDependents(m, t) \in States
    BY <1>4, <1>6 DEF States
  <1>. QED  BY <1>6, <1>7 DEF Reentry

LEMMA ReenterFacts ==
  ASSUME NEW m \in States, NEW t \in Step
  PROVE  Reentry(m, ReenterFrom(m, t)) /\ ReenterFrom(m, t)[t].status = "Pending"
  <1>. DEFINE n == [m EXCEPT ![t] = Reset(@)]
  <1>1. Reentry(m, n) /\ n[t].status = "Pending"
    BY ResetFacts DEF Reentry, States
  <1>2. n \in States
    BY <1>1 DEF Reentry
  <1>. HIDE DEF n
  <1>3. Reentry(n, ResetDependents(n, t))
    BY <1>2, ResetDependentsFacts
  <1>. QED  BY <1>1, <1>3 DEF Reentry, ReenterFrom, n

-----------------------------------------------------------------------------
(* The ways to save *)

LEMMA TrySaveFacts ==
  ASSUME TypeOK, TrySave
  PROVE  disk' \in {disk, mem'} /\ faults' \in 0 .. FaultBound
  BY Bounds DEF TypeOK, TrySave, Saved, NotSaved

LEMMA FinishFailureFacts ==
  ASSUME TypeOK, NEW m, FinishFailure(m)
  PROVE  /\ mem' = m /\ pc' = "over" /\ verdict' \in {"failure", "unsaved"}
         /\ disk' \in {disk, m, NoSnapshot} /\ faults' \in 0 .. FaultBound
  BY Bounds DEF TypeOK, FinishFailure, Saved

LEMMA AbandonFacts ==
  ASSUME TypeOK, NEW m, NEW tried, Abandon(m, tried)
  PROVE  /\ mem' = m /\ pc' = "over" /\ verdict' = "failure"
         /\ disk' \in {disk, m, tried} /\ faults' \in 0 .. FaultBound
  BY Bounds DEF TypeOK, Abandon

LEMMA Numbers ==
  ASSUME TypeOK
  PROVE  /\ mem \in States /\ runs \in Nat /\ \A s \in Step : applied[s] \in Nat
         /\ \A m \in States, s \in Step : m[s].ran \in Nat
  <1>1. RunId \subseteq Nat
    BY Bounds DEF RunId
  <1>2. \A st \in StepState : st.ran \in RunId
    BY DEF StepState
  <1>. QED  BY <1>1, <1>2 DEF TypeOK, States

\* Steps that leave the states, the runs and the workspace as they are.
LEMMA SameStep ==
  ASSUME IInv, Live \/ pc' = "over", UNCHANGED <<mem, runs, applied>>, disk' \in {disk, mem}
  PROVE  Core'
  <1>1. Sound(mem)' /\ (disk' # NoSnapshot => Sound(disk)')
    BY DEF IInv, Core, Sound
  <1>2. Durable'
    BY DEF IInv, Core, Durable, Live, Accepted
  <1>. QED  BY <1>1, <1>2 DEF Core

\* Steps that accept nothing and run nothing, while no effects are accepted.
Quiet ==
  \A s \in Step :
    /\ mem'[s].ran = mem[s].ran /\ mem'[s].status # "EffectsPending"
    /\ mem'[s].status = "Done" =>
         \/ mem[s].status = "Done" /\ mem'[s].rejected = mem[s].rejected
         \/ mem'[s].ran \in mem'[s].rejected

LEMMA QuietStep ==
  ASSUME IInv, Live, ~Accepted(mem), Quiet, UNCHANGED <<runs, applied>>,
         disk' \in {disk, mem', NoSnapshot}
  PROVE  Core'
  <1>1. Sound(mem)'
    BY DEF IInv, Core, Sound, Quiet
  <1>2. disk' # NoSnapshot => Sound(disk)'
    BY <1>1 DEF IInv, Core, Sound
  <1>3. ~Accepted(mem')
    BY DEF Accepted, Quiet
  <1>4. disk # NoSnapshot => ~Accepted(disk)
    BY DEF IInv, Core, Durable
  <1>5. Durable'
    BY <1>3, <1>4 DEF Durable, Live, Accepted
  <1>. QED  BY <1>1, <1>2, <1>5 DEF Core

\* Steps that start a run of s, while no effects are accepted.
LEMMA BeginStep ==
  ASSUME IInv, Live, ~Accepted(mem), runs' = runs + 1, UNCHANGED applied,
         NEW s \in Step, NEW st \in StepState, mem' = [mem EXCEPT ![s] = st],
         st.ran = runs + 1, st.status # "Done",
         \/ st.status # "EffectsPending" /\ disk' \in {disk, mem'}
         \/ pc' = "over" /\ disk' \in {disk, mem'}
         \/ disk' = mem'
  PROVE  Core'
  <1>1. Sound(mem)'
    <2>. SUFFICES ASSUME NEW t \in Step
         PROVE  /\ applied[t] <= mem'[t].ran /\ mem'[t].ran <= runs + 1
                /\ mem'[t].status = "EffectsPending" => mem'[t].ran = runs + 1
                /\ mem'[t].status = "Done" => applied[t] = mem'[t].ran \/ mem'[t].ran \in mem'[t].rejected
      BY DEF Sound
    <2>1. runs \in Nat /\ applied[t] \in Nat /\ mem[t].ran \in Nat /\ mem \in [Step -> StepState]
      BY Numbers DEF IInv, States
    <2>2. applied[t] <= mem[t].ran /\ mem[t].ran <= runs
      BY DEF IInv, Core, Sound
    <2>3. CASE t = s
      BY <2>1, <2>2, <2>3
    <2>4. CASE t # s
      <3>1. mem'[t] = mem[t]
        BY <2>1, <2>4
      <3>. QED  BY <2>1, <2>2, <3>1 DEF IInv, Core, Sound, Accepted
    <2>. QED  BY <2>3, <2>4
  <1>2. disk # NoSnapshot => ~Accepted(disk)
    BY DEF IInv, Core, Durable
  <1>3. disk' # NoSnapshot => Sound(disk)'
    <2>1. CASE disk' = mem'
      BY <1>1, <2>1 DEF Sound
    <2>2. CASE disk' = disk /\ disk # NoSnapshot
      <3>1. runs \in Nat /\ \A t \in Step : disk[t].ran \in Nat
        BY <2>2, Numbers DEF IInv, TypeOK, States
      <3>2. \A t \in Step : disk[t].ran <= runs + 1
        BY <2>2, <3>1 DEF IInv, Core, Sound
      <3>. QED  BY <1>2, <2>2, <3>2 DEF IInv, Core, Sound, Accepted
    <2>. QED  BY <2>1, <2>2
  <1>4. Durable'
    <2>1. CASE st.status # "EffectsPending"
      <3>1. ~Accepted(mem')
        BY <2>1 DEF Accepted, IInv, TypeOK
      <3>. QED  BY <1>2, <3>1 DEF Durable, Live, Accepted
    <2>. QED  BY <2>1 DEF Durable, Live
  <1>. QED  BY <1>1, <1>3, <1>4 DEF Core

\* The same two kinds of steps with all of the invariant.
LEMMA SameStepInv ==
  ASSUME IInv, Live \/ pc' = "over", UNCHANGED <<flow, mem, runs, applied, resumes>>, cur' \in Step,
         disk' \in {disk, mem}, faults' \in 0 .. FaultBound, verdict' \in Verdict,
         pc' \in {"top", "choose", "over", "down"}
  PROVE  IInv'
  <1>1. Core'
    BY SameStep
  <1>2. TypeOK'
    BY DEF IInv, TypeOK, Place
  <1>3. Places'
    BY DEF Places
  <1>. QED  BY <1>1, <1>2, <1>3 DEF IInv

LEMMA QuietStepInv ==
  ASSUME IInv, Live, ~Accepted(mem), Quiet, mem' \in States, UNCHANGED <<flow, cur, runs, applied, resumes>>,
         disk' \in {disk, mem', NoSnapshot}, faults' \in 0 .. FaultBound, verdict' \in Verdict,
         pc' \in {"top", "over"}
  PROVE  IInv'
  <1>1. Core'
    BY QuietStep
  <1>2. TypeOK'
    BY DEF IInv, TypeOK, Place, States
  <1>3. Places'
    BY DEF Places
  <1>. QED  BY <1>1, <1>2, <1>3 DEF IInv

\* DriverError is a quiet step, if st differs from the state of cur in its lenses only.
LEMMA DriverErrorInv ==
  ASSUME IInv, pc = "run", UNCHANGED <<flow, cur, runs, applied, resumes>>,
         NEW st \in StepState, NEW b, DriverError(st, b),
         st.ran = mem[cur].ran, st.status = mem[cur].status, st.rejected = mem[cur].rejected
  PROVE  IInv'
  <1>. DEFINE failed == [st EXCEPT !.status = "TerminalFailure"]
  <1>1. /\ failed \in StepState /\ failed.status = "TerminalFailure" /\ failed.ran = st.ran
        /\ failed.rejected = st.rejected
    BY DEF StepState, Status
  <1>. HIDE DEF failed
  <1>2. Live /\ ~Accepted(mem)
    BY DEF IInv, Places, Live
  <1>3. mem \in States /\ cur \in Step /\ verdict \in Verdict /\ faults \in 0 .. FaultBound
    BY DEF IInv, TypeOK, States
  <1>4. mem' \in {[mem EXCEPT ![cur] = st], [mem EXCEPT ![cur] = failed]} /\ pc' \in {"top", "over"}
    BY FinishFailureFacts DEF IInv, DriverError, failed
  <1>5. disk' \in {disk, mem', NoSnapshot} /\ faults' \in 0 .. FaultBound /\ verdict' \in Verdict
    BY <1>3, FinishFailureFacts DEF IInv, DriverError, Verdict
  <1>6. mem' \in States
    BY <1>1, <1>3, <1>4 DEF States
  <1>7. Quiet
    <2>. SUFFICES ASSUME NEW s \in Step
         PROVE  /\ mem'[s].ran = mem[s].ran /\ mem'[s].status # "EffectsPending"
                /\ mem'[s].status = "Done" => mem[s].status = "Done" /\ mem'[s].rejected = mem[s].rejected
      BY DEF Quiet
    <2>1. mem'[s] = mem[s] \/ (s = cur /\ mem'[s] \in {st, failed})
      BY <1>3, <1>4 DEF States
    <2>. QED  BY <1>1, <1>2, <2>1 DEF Accepted
  <1>. QED  BY <1>2, <1>5, <1>6, <1>4, <1>7, QuietStepInv

LEMMA SkippedFacts ==
  ASSUME NEW st \in StepState, NEW b
  PROVE  /\ Skipped(st, b) \in StepState /\ Skipped(st, b).status = "Skipped"
         /\ Skipped(st, b).ran = st.ran /\ Skipped(st, b).rejected = st.rejected
  <1>. DEFINE out  == IF b /\ st.out = 0 THEN st.kept ELSE IF b THEN st.out ELSE 0
              kept == IF b /\ ~(b /\ st.out = 0) THEN st.kept ELSE 0
  <1>1. out \in RunId /\ kept \in RunId
    BY Bounds DEF StepState
  <1>2. Skipped(st, b) = [st EXCEPT !.status = "Skipped", !.out = out, !.kept = kept]
    BY DEF Skipped
  <1>. HIDE DEF out, kept
  <1>. QED  BY <1>1, <1>2 DEF StepState, Status

LEMMA AttemptedFacts ==
  ASSUME TypeOK, NEW s \in Step, runs < RunBound
  PROVE  /\ Attempted(s) \in StepState /\ Attempted(s).ran = runs + 1
         /\ Attempted(s).status = mem[s].status /\ Attempted(s).rejected = mem[s].rejected
  <1>. DEFINE b == [d \in Step |-> IF d \in flow[s].deps THEN mem[d].out ELSE 0]
              n == runs + 1
              a == mem[s].attempt + 1
  <1>1. mem[s] \in StepState /\ \A d \in Step : mem[d].out \in RunId
    BY DEF TypeOK, StepState
  <1>2. b \in [Step -> RunId]
    BY <1>1, Bounds
  <1>3. n \in RunId
    BY Bounds DEF TypeOK, RunId
  <1>4. a \in Nat
    BY <1>1 DEF StepState
  <1>5. Attempted(s) = [mem[s] EXCEPT !.attempt = a, !.ran = n, !.basis = b]
    BY DEF Attempted
  <1>. HIDE DEF b, a
  <1>6. Attempted(s).ran = n /\ Attempted(s).status = mem[s].status /\ Attempted(s).rejected = mem[s].rejected
    BY <1>1, <1>5 DEF StepState
  <1>. HIDE DEF n
  <1>7. Attempted(s) \in StepState
    BY <1>1, <1>2, <1>3, <1>4, <1>5 DEF StepState
  <1>. QED  BY <1>6, <1>7 DEF n

-----------------------------------------------------------------------------
(* The actions *)

\* A step of a fresh run.
LEMMA FreshFacts ==
  /\ FreshStep \in StepState /\ FreshStep.status = "Pending" /\ FreshStep.ran = 0
  /\ FreshStep.prior = <<>> /\ FreshStep.rejected = {} /\ FreshStep.out = 0 /\ FreshStep.kept = 0
  /\ \A l \in Lens : FreshStep.lens[l] = 0
  <1>1. [l \in Lens |-> 0] \in [Lens -> RunId] /\ [d \in Step |-> 0] \in [Step -> RunId]
    BY Bounds
  <1>2. <<>> \in Seq(Run)
    OBVIOUS
  <1>. QED  BY <1>1, <1>2, Bounds DEF FreshStep, StepState, Status

LEMMA InitIInv == ASSUME Init PROVE IInv
  <1>1. TypeOK
    BY FreshFacts, Bounds DEF Init, TypeOK, Place, Verdict, RunId
  <1>2. Core
    BY FreshFacts DEF Init, Core, Sound, Durable, Accepted
  <1>3. Places
    BY DEF Init, Places
  <1>. QED  BY <1>1, <1>2, <1>3 DEF IInv

\* The actions that leave the states as they are.
LEMMA ControlInv ==
  ASSUME IInv,
         \/ Top \/ CapReached \/ FindFailure \/ Complete \/ NothingToRun
         \/ \E s \in Step : ConditionFails(s)
         \/ LensConditionFails \/ EvalFails \/ Crash
  PROVE  IInv'
  <1>1. Live \/ pc' = "over"
    BY DEF Top, CapReached, FindFailure, Complete, NothingToRun, ConditionFails, Choosing,
           LensConditionFails, EvalFails, Crash, Live, Break
  <1>2. UNCHANGED <<flow, mem, runs, applied, resumes>> /\ cur' = cur
    BY DEF Top, CapReached, FindFailure, Complete, NothingToRun, ConditionFails,
           LensConditionFails, EvalFails, Crash, Break
  <1>3. disk' \in {disk, mem} /\ faults' \in 0 .. FaultBound
    <2>1. TrySave \/ UNCHANGED <<disk, faults>>
      BY DEF Top, CapReached, FindFailure, Complete, NothingToRun, ConditionFails,
             LensConditionFails, EvalFails, Crash, Break
    <2>. QED  BY <2>1, <1>2, TrySaveFacts DEF IInv, TypeOK
  <1>4. verdict' \in Verdict
    BY DEF IInv, TypeOK, Top, CapReached, FindFailure, Complete, NothingToRun, ConditionFails,
           LensConditionFails, EvalFails, Crash, Break, Verdict
  <1>5. pc' \in {"top", "choose", "over", "down"}
    BY DEF Top, CapReached, FindFailure, Complete, NothingToRun, ConditionFails,
           LensConditionFails, EvalFails, Crash, Break
  <1>. QED  BY <1>1, <1>2, <1>3, <1>4, <1>5, SameStepInv DEF IInv, TypeOK

LEMMA FindEffectsInv == ASSUME IInv, FindEffects PROVE IInv'
  <1>1. PICK s \in Step : First(s, HasStatus("EffectsPending")) /\ cur' = s
    BY DEF FindEffects
  <1>2. mem[s].status = "EffectsPending"
    BY <1>1 DEF First, HasStatus
  <1>3. UNCHANGED <<flow, mem, disk, runs, applied, faults, resumes, verdict>> /\ pc = "choose" /\ pc' = "apply"
    BY DEF FindEffects
  <1>4. Core'
    BY <1>3, SameStep DEF Live
  <1>5. TypeOK'
    BY <1>1, <1>3 DEF IInv, TypeOK, Place
  <1>6. Places'
    BY <1>1, <1>2, <1>3 DEF Places
  <1>. QED  BY <1>4, <1>5, <1>6 DEF IInv

\* Where new work is chosen, no effects are accepted.
LEMMA ChoosingFacts == ASSUME Choosing PROVE Live /\ ~Accepted(mem)
  BY DEF Choosing, HasStatus, Live, Accepted

LEMMA SkipInv == ASSUME IInv, NEW s \in Step, Skip(s) PROVE IInv'
  <1>. DEFINE st == Skipped(mem[s], flow[s].preserve)
  <1>1. mem \in States /\ mem[s] \in StepState
    BY DEF IInv, TypeOK, States
  <1>2. st \in StepState /\ st.status = "Skipped" /\ st.ran = mem[s].ran /\ st.rejected = mem[s].rejected
    BY <1>1, SkippedFacts
  <1>3. mem' = [mem EXCEPT ![s] = st] /\ pc' = "top" /\ Choosing
    BY DEF Skip
  <1>4. UNCHANGED <<flow, disk, cur, verdict, runs, applied, faults, resumes>>
    BY DEF Skip
  <1>. HIDE DEF st
  <1>5. mem' \in States
    BY <1>1, <1>2, <1>3 DEF States
  <1>6. Quiet
    BY <1>1, <1>2, <1>3, ChoosingFacts DEF Quiet, States, Accepted
  <1>. QED  BY <1>3, <1>4, <1>5, <1>6, ChoosingFacts, QuietStepInv DEF IInv, TypeOK

\* A reaper runs at once into its effects, or into the end.
LEMMA ReaperInv == ASSUME IInv, NEW s \in Step, StartReaper(s) \/ IntentFails(s) PROVE IInv'
  <1>. DEFINE a  == Attempted(s)
              st == [a EXCEPT !.status = "EffectsPending"]
              m  == [mem EXCEPT ![s] = st]
  <1>1. mem \in States /\ Live /\ ~Accepted(mem) /\ runs' = runs + 1 /\ runs < RunBound
    BY ChoosingFacts DEF IInv, TypeOK, States, StartReaper, IntentFails, Begin
  <1>2. a \in StepState /\ a.ran = runs + 1 /\ a.status = "Pending"
    <2>1. mem[s].status = "Pending"
      BY DEF StartReaper, IntentFails, Begin, Picked, First, Runnable
    <2>. QED  BY <1>1, <2>1, AttemptedFacts DEF IInv
  <1>3. UNCHANGED <<flow, cur, applied, resumes>>
    BY DEF StartReaper, IntentFails
  <1>. HIDE DEF a
  <1>4. st \in StepState /\ st.ran = runs + 1 /\ st.status = "EffectsPending"
    BY <1>2 DEF StepState, Status
  <1>. HIDE DEF st
  <1>5. CASE StartReaper(s)
    <2>1. Commit(m, "top", m)
      BY <1>5 DEF StartReaper, m, st, a
    <2>2. /\ mem' = m /\ disk' \in {disk, m} /\ faults' \in 0 .. FaultBound /\ verdict' \in Verdict
          /\ (pc' = "top" /\ disk' = m) \/ pc' = "over"
      <3>1. CASE Abandon(m, m)
        BY <3>1, AbandonFacts DEF IInv, Verdict
      <3>. QED  BY <2>1, <3>1 DEF Commit, Saved, IInv, TypeOK
    <2>3. Core'
      BY <1>1, <1>3, <1>4, <2>2, BeginStep
    <2>4. m \in States
      BY <1>1, <1>4 DEF States
    <2>5. runs' \in 0 .. RunBound
      BY <1>1, Bounds DEF IInv, TypeOK, RunId
    <2>6. TypeOK'
      BY <1>3, <2>2, <2>4, <2>5 DEF IInv, TypeOK, Place, States, RunId
    <2>7. Places'
      BY <2>2 DEF Places
    <2>. QED  BY <2>3, <2>6, <2>7 DEF IInv
  <1>6. CASE IntentFails(s)
    <2>1. Break([mem EXCEPT ![s] = a], "failure")
      BY <1>6 DEF IntentFails, a
    <2>2. /\ mem' = [mem EXCEPT ![s] = a] /\ disk' \in {disk, mem'} /\ faults' \in 0 .. FaultBound
          /\ verdict' \in Verdict /\ pc' = "over"
      BY <2>1, TrySaveFacts DEF Break, IInv, Verdict
    <2>3. Core'
      BY <1>1, <1>2, <1>3, <2>2, BeginStep
    <2>4. mem' \in States
      BY <1>1, <1>2, <2>2 DEF States
    <2>5. runs' \in 0 .. RunBound
      BY <1>1, Bounds DEF IInv, TypeOK, RunId
    <2>6. TypeOK'
      BY <1>3, <2>2, <2>4, <2>5 DEF IInv, TypeOK, Place, States, RunId
    <2>7. Places'
      BY <2>2 DEF Places
    <2>. QED  BY <2>3, <2>6, <2>7 DEF IInv
  <1>. QED  BY <1>5, <1>6

LEMMA StartInv == ASSUME IInv, NEW s \in Step, Start(s) PROVE IInv'
  <1>. DEFINE a == Attempted(s)
  <1>1. mem \in States /\ Live /\ ~Accepted(mem) /\ runs' = runs + 1 /\ runs < RunBound
    BY ChoosingFacts DEF IInv, TypeOK, States, Start, Begin
  <1>2. a \in StepState /\ a.ran = runs + 1 /\ a.status = "Pending"
    <2>1. mem[s].status = "Pending"
      BY DEF Start, Begin, Picked, First, Runnable
    <2>. QED  BY <1>1, <2>1, AttemptedFacts DEF IInv
  <1>3. mem' = [mem EXCEPT ![s] = a] /\ cur' = s /\ pc' = "run"
    BY DEF Start
  <1>4. UNCHANGED <<flow, disk, verdict, applied, faults, resumes>>
    BY DEF Start
  <1>. HIDE DEF a
  <1>5. Core'
    BY <1>1, <1>2, <1>3, <1>4, BeginStep
  <1>6. runs' \in 0 .. RunBound /\ runs' # 0
    BY <1>1, Bounds DEF IInv, TypeOK, RunId
  <1>7. mem' \in States
    BY <1>1, <1>2, <1>3 DEF States
  <1>8. TypeOK'
    BY <1>3, <1>4, <1>6, <1>7 DEF IInv, TypeOK, Place, States, RunId
  <1>9. ~Accepted(mem') /\ mem'[s].ran = runs'
    BY <1>1, <1>2, <1>3 DEF Accepted, States
  <1>10. Places'
    BY <1>3, <1>6, <1>9 DEF Places, Accepted
  <1>. QED  BY <1>5, <1>8, <1>10 DEF IInv

\* The state of cur changes, but neither its status nor its run: the driver answered.
LEMMA ProducedInv ==
  ASSUME IInv, pc = "run", pc' = "eval",
         NEW st \in StepState, mem' = [mem EXCEPT ![cur] = st],
         st.status = mem[cur].status, st.ran = mem[cur].ran, st.rejected = mem[cur].rejected,
         st.out = mem[cur].ran,
         UNCHANGED <<flow, disk, cur, verdict, runs, applied, faults, resumes>>
  PROVE  IInv'
  <1>1. mem \in States /\ cur \in Step /\ Live /\ ~Accepted(mem) /\ mem[cur].ran = runs /\ runs # 0
    BY DEF IInv, TypeOK, Places, Live, States
  <1>2. mem' \in States
    BY <1>1 DEF States
  <1>3. Quiet
    BY <1>1 DEF Quiet, Accepted, States
  <1>4. Core'
    BY <1>1, <1>3, QuietStep
  <1>5. TypeOK'
    BY <1>2 DEF IInv, TypeOK, Place, States
  <1>6. ~Accepted(mem')
    BY <1>3 DEF Quiet, Accepted
  <1>7. mem'[cur].ran = runs /\ mem'[cur].out # 0
    BY <1>1 DEF States
  <1>8. Places'
    BY <1>1, <1>6, <1>7 DEF Places, Accepted
  <1>. QED  BY <1>4, <1>5, <1>8 DEF IInv

LEMMA DriverInv ==
  ASSUME IInv,
         \/ Produce \/ Aggregate
         \/ \E b \in BOOLEAN :
              \/ CallFails(b) \/ ConsolidateFails(b)
              \/ \E good \in SUBSET Lens : LensesFail(good, b)
  PROVE  IInv'
  <1>. DEFINE st == mem[cur]
  <1>1. st \in StepState /\ mem \in States
    BY DEF IInv, TypeOK, States
  <1>2. NoLens \in [Lens -> RunId] /\ st.ran \in RunId
    BY <1>1, Bounds DEF NoLens, StepState
  <1>3. ASSUME Produce PROVE IInv'
    <2>1. /\ Produced(st) \in StepState /\ Produced(st).status = st.status /\ Produced(st).ran = st.ran
          /\ Produced(st).rejected = st.rejected /\ Produced(st).out = st.ran
      BY <1>1, <1>2, Bounds DEF Produced, StepState
    <2>2. mem' = [mem EXCEPT ![cur] = Produced(st)]
      BY <1>3 DEF Produce
    <2>. QED  BY <1>3, <2>1, <2>2, ProducedInv DEF Produce
  <1>4. ASSUME Aggregate PROVE IInv'
    <2>. DEFINE new == [Produced(st) EXCEPT !.lens = NoLens]
    <2>1. /\ new \in StepState /\ new.status = st.status /\ new.ran = st.ran
          /\ new.rejected = st.rejected /\ new.out = st.ran
      BY <1>1, <1>2, Bounds DEF Produced, StepState
    <2>2. mem' = [mem EXCEPT ![cur] = new]
      BY <1>4 DEF Aggregate
    <2>. QED  BY <1>4, <2>1, <2>2, ProducedInv DEF Aggregate
  <1>5. ASSUME NEW b \in BOOLEAN, CallFails(b) PROVE IInv'
    BY <1>1, <1>5, DriverErrorInv DEF CallFails
  <1>6. ASSUME NEW b \in BOOLEAN, ConsolidateFails(b) PROVE IInv'
    <2>. DEFINE new == [st EXCEPT !.lens = NoLens]
    <2>1. /\ new \in StepState /\ new.status = st.status /\ new.ran = st.ran
          /\ new.rejected = st.rejected
      BY <1>1, <1>2 DEF StepState
    <2>2. DriverError(new, b)
      BY <1>6 DEF ConsolidateFails
    <2>. HIDE DEF new
    <2>. QED  BY <1>6, <2>1, <2>2, DriverErrorInv DEF ConsolidateFails
  <1>7. ASSUME NEW b \in BOOLEAN, NEW good \in SUBSET Lens, LensesFail(good, b) PROVE IInv'
    <2>. DEFINE lens == [l \in Lens |-> IF l \in good THEN st.ran ELSE st.lens[l]]
                new  == [st EXCEPT !.lens = lens]
    <2>1. lens \in [Lens -> RunId]
      BY <1>1, <1>2 DEF StepState
    <2>2. DriverError(new, b)
      BY <1>7 DEF LensesFail
    <2>. HIDE DEF lens
    <2>3. /\ new \in StepState /\ new.status = st.status /\ new.ran = st.ran
          /\ new.rejected = st.rejected
      BY <1>1, <2>1 DEF StepState
    <2>. HIDE DEF new
    <2>. QED  BY <1>7, <2>2, <2>3, DriverErrorInv DEF LensesFail
  <1>. QED  BY <1>3, <1>4, <1>5, <1>6, <1>7

LEMMA AcceptInv == ASSUME IInv, Accept PROVE IInv'
  <1>. DEFINE st == [mem[cur] EXCEPT !.status = "EffectsPending"]
              m  == [mem EXCEPT ![cur] = st]
  <1>1. mem \in States /\ cur \in Step /\ Live /\ ~Accepted(mem) /\ mem[cur].ran = runs
    BY DEF IInv, TypeOK, Places, Live, States, Accept
  <1>2. st \in StepState /\ st.status = "EffectsPending" /\ st.ran = runs
    BY <1>1 DEF States, StepState, Status
  <1>3. Commit(m, "top", m)
    BY DEF Accept
  <1>4. UNCHANGED <<flow, cur, runs, applied, resumes>>
    BY DEF Accept
  <1>5. /\ mem' = m /\ disk' \in {disk, m} /\ faults' \in 0 .. FaultBound /\ verdict' \in Verdict
        /\ (pc' = "top" /\ disk' = m) \/ pc' = "over"
    <2>1. CASE Abandon(m, m)
      BY <2>1, AbandonFacts DEF IInv, Verdict
    <2>. QED  BY <1>3, <2>1 DEF Commit, Saved, IInv, TypeOK
  <1>. HIDE DEF st
  <1>6. Sound(m)
    BY <1>1, <1>2 DEF IInv, Core, Sound, States
  <1>7. Core'
    <2>1. Sound(mem)' /\ (disk' # NoSnapshot => Sound(disk)')
      BY <1>4, <1>5, <1>6 DEF IInv, Core, Sound
    <2>2. Durable'
      BY <1>5 DEF Durable, Live
    <2>. QED  BY <2>1, <2>2 DEF Core
  <1>8. m \in States
    BY <1>1, <1>2 DEF States
  <1>9. TypeOK'
    BY <1>4, <1>5, <1>8 DEF IInv, TypeOK, Place, States
  <1>10. Places'
    BY <1>5 DEF Places
  <1>. QED  BY <1>7, <1>9, <1>10 DEF IInv

\* What holds while an eval is judged.
LEMMA EvalFacts ==
  ASSUME IInv, pc = "eval"
  PROVE  /\ mem \in States /\ cur \in Step /\ mem[cur] \in StepState /\ Live /\ ~Accepted(mem)
         /\ mem[cur].ran \in Run /\ mem[cur].out \in Run
  <1>1. /\ mem \in States /\ cur \in Step /\ Live /\ ~Accepted(mem) /\ mem[cur].ran # 0 /\ mem[cur].out # 0
    BY DEF IInv, TypeOK, Places, Live, States
  <1>2. mem[cur] \in StepState
    BY <1>1 DEF States
  <1>3. mem[cur].ran \in RunId /\ mem[cur].out \in RunId
    BY <1>2 DEF StepState
  <1>. QED  BY <1>1, <1>2, <1>3, Bounds

\* The executor goes on with states that are like those in memory, with other rejected
\* runs, or are entered again, or have another status.
LEMMA GoOnInv ==
  ASSUME IInv, pc = "eval", NEW m \in States, GoOn(m), UNCHANGED <<runs, applied, resumes>>,
         \A s \in Step :
           /\ m[s].ran = mem[s].ran /\ m[s].status # "EffectsPending"
           /\ m[s].status = "Done" =>
                \/ mem[s].status = "Done" /\ m[s].rejected = mem[s].rejected
                \/ m[s].ran \in m[s].rejected
  PROVE  IInv'
  <1>1. mem' = m /\ Quiet
    BY DEF GoOn, Quiet
  <1>. QED  BY <1>1, EvalFacts, QuietStepInv DEF GoOn, IInv, TypeOK

LEMMA RejectedFacts ==
  ASSUME NEW st \in StepState, st.ran \in Run
  PROVE  /\ Rejected(st) \in StepState /\ Rejected(st).status = st.status /\ Rejected(st).ran = st.ran
         /\ st.ran \in Rejected(st).rejected
  <1>. DEFINE r == st.rejected \cup {st.ran}
  <1>1. r \in SUBSET Run /\ st.ran \in r
    BY DEF StepState
  <1>2. Rejected(st) = [st EXCEPT !.rejected = r]
    BY DEF Rejected
  <1>. HIDE DEF r
  <1>. QED  BY <1>1, <1>2 DEF StepState

LEMMA NotedFacts ==
  ASSUME NEW st \in StepState, st.ran \in Run, st.out \in Run
  PROVE  /\ Noted(st) \in StepState /\ Noted(st).status = st.status /\ Noted(st).ran = st.ran
         /\ Noted(st).ran \in Noted(st).rejected
  <1>. DEFINE r == Rejected(st)
              q == Append(r.prior, st.out)
  <1>1. r \in StepState /\ r.status = st.status /\ r.ran = st.ran /\ r.ran \in r.rejected
    BY RejectedFacts
  <1>2. Noted(st) = [r EXCEPT !.prior = q]
    BY DEF Noted
  <1>. HIDE DEF r
  <1>3. q \in Seq(Run)
    <2>1. r.prior \in Seq(Run)
      BY <1>1 DEF StepState
    <2>. QED  BY <2>1
  <1>. HIDE DEF q
  <1>. QED  BY <1>1, <1>2, <1>3 DEF StepState

LEMMA RepeatInv == ASSUME IInv, Repeat PROVE IInv'
  <1>. DEFINE st == Reset(Rejected(mem[cur]))
              m  == [mem EXCEPT ![cur] = st]
  <1>1. pc = "eval" /\ GoOn(m)
    BY DEF Repeat, Judged
  <1>2. st \in StepState /\ st.status = "Pending" /\ st.ran = mem[cur].ran
    BY <1>1, EvalFacts, RejectedFacts, ResetFacts
  <1>. HIDE DEF st
  <1>3. m \in States
    BY <1>1, <1>2, EvalFacts DEF States
  <1>4. \A s \in Step : m[s] = mem[s] \/ (m[s].status = "Pending" /\ m[s].ran = mem[s].ran)
    BY <1>1, <1>2, EvalFacts DEF States
  <1>. HIDE DEF m
  <1>. QED  BY <1>1, <1>3, <1>4, EvalFacts, GoOnInv DEF GoOn, Accepted

LEMMA RerunChainInv == ASSUME IInv, RerunChain PROVE IInv'
  <1>. DEFINE m == [s \in Step |-> IF s \in flow[cur].rerun THEN Reset(mem[s]) ELSE mem[s]]
  <1>1. pc = "eval" /\ GoOn(m)
    BY DEF RerunChain, Judged
  <1>2. \A s \in Step : /\ Reset(mem[s]) \in StepState /\ Reset(mem[s]).status = "Pending"
                        /\ Reset(mem[s]).ran = mem[s].ran
    BY <1>1, EvalFacts, ResetFacts DEF States
  <1>3. m \in States
    BY <1>1, <1>2, EvalFacts DEF States
  <1>4. \A s \in Step : m[s] = mem[s] \/ (m[s].status = "Pending" /\ m[s].ran = mem[s].ran)
    BY <1>2
  <1>. HIDE DEF m
  <1>. QED  BY <1>1, <1>3, <1>4, EvalFacts, GoOnInv DEF GoOn, Accepted

\* Reentry from states without accepted effects.
LEMMA ReentryQuiet ==
  ASSUME NEW m \in States, NEW m2, Reentry(m, m2), NEW s \in Step, m[s].status # "EffectsPending"
  PROVE  /\ m2[s].ran = m[s].ran /\ m2[s].status # "EffectsPending" /\ m2[s].rejected = m[s].rejected
         /\ m2[s].status = "Done" => m[s].status = "Done"
  BY DEF Reentry

LEMMA BranchToInv == ASSUME IInv, NEW t \in Step, BranchTo(t) PROVE IInv'
  <1>. DEFINE note  == IF t = cur THEN Rejected(mem[cur]) ELSE Noted(mem[cur])
              noted == [mem EXCEPT ![cur] = note]
              m     == ReenterFrom(noted, t)
              done  == [m[cur] EXCEPT !.status = "Done"]
              again == [m[cur] EXCEPT !.kept = 0]
              last  == IF t \in Dependents(cur) THEN done ELSE again
              m2    == [m EXCEPT ![cur] = last]
  <1>1. pc = "eval" /\ GoOn(m2)
    BY DEF BranchTo, Judged
  <1>2. mem[cur] \in StepState /\ mem[cur].ran \in Run /\ mem[cur].out \in Run
    BY <1>1, EvalFacts
  <1>3. \A st \in {Rejected(mem[cur]), Noted(mem[cur])} :
          st \in StepState /\ st.status = mem[cur].status /\ st.ran = mem[cur].ran /\ st.ran \in st.rejected
    BY <1>2, RejectedFacts, NotedFacts
  <1>4. /\ note \in StepState /\ note.status = mem[cur].status /\ note.ran = mem[cur].ran
        /\ note.ran \in note.rejected
    BY <1>3
  <1>. HIDE DEF note
  <1>5. noted \in States
    BY <1>1, <1>4, EvalFacts DEF States
  <1>6. \A s \in Step : noted[s] = mem[s] \/ (s = cur /\ noted[s] = note)
    BY <1>1, EvalFacts DEF States
  <1>7. \A s \in Step : noted[s].ran = mem[s].ran /\ noted[s].status = mem[s].status
    BY <1>4, <1>6
  <1>8. noted[cur] = note
    BY <1>1, EvalFacts DEF States
  <1>. HIDE DEF noted
  <1>9. Reentry(noted, m)
    BY <1>5, ReenterFacts
  <1>. HIDE DEF m
  <1>10. m \in States /\ m[cur].ran \in m[cur].rejected
    BY <1>1, <1>4, <1>8, <1>9, EvalFacts DEF Reentry
  <1>11. m[cur] \in StepState
    BY <1>1, <1>10, EvalFacts DEF States
  <1>12. /\ done \in StepState /\ done.status = "Done" /\ done.ran = m[cur].ran /\ done.rejected = m[cur].rejected
         /\ again \in StepState /\ again.status = m[cur].status /\ again.ran = m[cur].ran
         /\ again.rejected = m[cur].rejected
    BY <1>11, Bounds DEF StepState, Status
  <1>. HIDE DEF done, again
  <1>13. last \in StepState /\ last.ran = m[cur].ran /\ last.rejected = m[cur].rejected
         /\ last.status \in {"Done", m[cur].status}
    BY <1>12
  <1>. HIDE DEF last
  <1>14. m2 \in States
    BY <1>1, <1>10, <1>13, EvalFacts DEF States
  <1>15. ASSUME NEW s \in Step
         PROVE  /\ m2[s].ran = mem[s].ran /\ m2[s].status # "EffectsPending"
                /\ m2[s].status = "Done" =>
                     \/ mem[s].status = "Done" /\ m2[s].rejected = mem[s].rejected
                     \/ m2[s].ran \in m2[s].rejected
    <2>1. mem[s].status # "EffectsPending"
      BY <1>1, EvalFacts DEF Accepted
    <2>2. m[s].ran = mem[s].ran /\ m[s].status # "EffectsPending"
      BY <1>5, <1>7, <1>9, <2>1, ReentryQuiet
    <2>3. CASE s = cur
      <3>1. m2[s] = last
        BY <1>1, <1>10, <2>3, EvalFacts DEF States
      <3>. QED  BY <1>10, <1>13, <2>2, <2>3, <3>1
    <2>4. CASE s # cur
      <3>1. m2[s] = m[s] /\ noted[s] = mem[s]
        BY <1>1, <1>6, <1>10, <2>4, EvalFacts DEF States
      <3>. QED  BY <1>5, <1>9, <2>1, <2>2, <3>1, ReentryQuiet
    <2>. QED  BY <2>3, <2>4
  <1>. HIDE DEF m2
  <1>. QED  BY <1>1, <1>14, <1>15, GoOnInv DEF BranchTo, GoOn

LEMMA ExhaustedBranchToInv == ASSUME IInv, NEW t \in Step, ExhaustedBranchTo(t) PROVE IInv'
  <1>. DEFINE m    == ReenterFrom(mem, t)
              last == [m[cur] EXCEPT !.kept = 0]
              m2   == [m EXCEPT ![cur] = last]
  <1>1. pc = "eval" /\ GoOn(m2)
    BY DEF ExhaustedBranchTo, Judged
  <1>2. Reentry(mem, m)
    BY <1>1, EvalFacts, ReenterFacts
  <1>. HIDE DEF m
  <1>3. m \in States /\ m[cur] \in StepState
    BY <1>1, <1>2, EvalFacts DEF Reentry, States
  <1>4. last \in StepState /\ last.ran = m[cur].ran /\ last.rejected = m[cur].rejected
        /\ last.status = m[cur].status
    BY <1>3, Bounds DEF StepState
  <1>. HIDE DEF last
  <1>5. m2 \in States
    BY <1>1, <1>3, <1>4, EvalFacts DEF States
  <1>6. ASSUME NEW s \in Step
        PROVE  /\ m2[s].ran = mem[s].ran /\ m2[s].status # "EffectsPending"
               /\ m2[s].status = "Done" => mem[s].status = "Done" /\ m2[s].rejected = mem[s].rejected
    <2>1. m2[s].ran = m[s].ran /\ m2[s].status = m[s].status /\ m2[s].rejected = m[s].rejected
      BY <1>3, <1>4 DEF States
    <2>2. mem[s].status # "EffectsPending"
      BY <1>1, EvalFacts DEF Accepted
    <2>. QED  BY <1>1, <1>2, <2>1, <2>2, EvalFacts, ReentryQuiet
  <1>. HIDE DEF m2
  <1>. QED  BY <1>1, <1>5, <1>6, GoOnInv DEF ExhaustedBranchTo, GoOn

LEMMA ContinueInv == ASSUME IInv, Continue PROVE IInv'
  <1>. DEFINE st == [mem[cur] EXCEPT !.status = "DoneWithFailure"]
              m  == [mem EXCEPT ![cur] = st]
  <1>1. pc = "eval" /\ GoOn(m)
    BY DEF Continue, Judged
  <1>2. st \in StepState /\ st.status = "DoneWithFailure" /\ st.ran = mem[cur].ran
    BY <1>1, EvalFacts DEF StepState, Status
  <1>. HIDE DEF st
  <1>3. m \in States
    BY <1>1, <1>2, EvalFacts DEF States
  <1>4. \A s \in Step : m[s] = mem[s] \/ (m[s].status = "DoneWithFailure" /\ m[s].ran = mem[s].ran)
    BY <1>1, <1>2, EvalFacts DEF States
  <1>. HIDE DEF m
  <1>. QED  BY <1>1, <1>3, <1>4, EvalFacts, GoOnInv DEF GoOn, Accepted

LEMMA ExitFailureInv == ASSUME IInv, ExitFailure PROVE IInv'
  <1>. DEFINE st == [mem[cur] EXCEPT !.status = "TerminalFailure"]
              m  == [mem EXCEPT ![cur] = st]
  <1>1. pc = "eval" /\ FinishFailure(m)
    BY DEF ExitFailure, Judged
  <1>2. st \in StepState /\ st.status = "TerminalFailure" /\ st.ran = mem[cur].ran
    BY <1>1, EvalFacts DEF StepState, Status
  <1>. HIDE DEF st
  <1>3. m \in States
    BY <1>1, <1>2, EvalFacts DEF States
  <1>4. \A s \in Step : m[s] = mem[s] \/ (m[s].status = "TerminalFailure" /\ m[s].ran = mem[s].ran)
    BY <1>1, <1>2, EvalFacts DEF States
  <1>. HIDE DEF m
  <1>5. /\ mem' = m /\ pc' = "over" /\ verdict' \in Verdict
        /\ disk' \in {disk, m, NoSnapshot} /\ faults' \in 0 .. FaultBound
    BY <1>1, FinishFailureFacts DEF IInv, Verdict
  <1>6. Quiet
    BY <1>1, <1>4, <1>5, EvalFacts DEF Quiet, Accepted
  <1>. QED  BY <1>1, <1>3, <1>5, <1>6, EvalFacts, QuietStepInv DEF ExitFailure

\* What holds while effects are applied and settled: they are in the snapshot.
LEMMA EffectFacts ==
  ASSUME IInv, pc \in {"apply", "settle"}
  PROVE  /\ mem \in States /\ cur \in Step /\ mem[cur] \in StepState /\ Live
         /\ mem[cur].status = "EffectsPending" /\ disk = mem /\ mem[cur].ran = runs
         /\ mem[cur].ran \in RunId
  <1>1. mem \in States /\ cur \in Step /\ Live /\ mem[cur].status = "EffectsPending"
    BY DEF IInv, TypeOK, Places, Live, States
  <1>2. disk = mem
    BY <1>1 DEF IInv, Core, Durable, Accepted
  <1>3. mem[cur] \in StepState /\ mem[cur].ran = runs
    BY <1>1 DEF States, IInv, Core, Sound
  <1>4. mem[cur].ran \in RunId
    BY <1>3 DEF StepState
  <1>. QED  BY <1>1, <1>2, <1>3, <1>4

\* The effect of cur may reach the workspace.
LEMMA AppliedFacts ==
  ASSUME IInv, pc = "apply", mem' = mem, runs' = runs,
         applied' \in {applied, [applied EXCEPT ![cur] = mem[cur].ran]}
  PROVE  Sound(mem)' /\ applied' \in [Step -> RunId]
  <1>1. applied' \in [Step -> RunId]
    BY EffectFacts DEF IInv, TypeOK
  <1>2. Sound(mem)'
    <2>. SUFFICES ASSUME NEW s \in Step
         PROVE  /\ applied'[s] <= mem[s].ran /\ mem[s].ran <= runs
                /\ mem[s].status = "EffectsPending" => mem[s].ran = runs
                /\ mem[s].status = "Done" => applied'[s] = mem[s].ran \/ mem[s].ran \in mem[s].rejected
      BY DEF Sound
    <2>1. applied'[s] = applied[s] \/ (s = cur /\ applied'[s] = mem[cur].ran)
      BY DEF IInv, TypeOK
    <2>2. mem[s].ran \in Nat
      BY EffectFacts, Numbers DEF IInv
    <2>. QED  BY <2>1, <2>2, EffectFacts DEF IInv, Core, Sound
  <1>. QED  BY <1>1, <1>2

LEMMA ApplyInv == ASSUME IInv, Apply PROVE IInv'
  <1>1. pc = "apply" /\ pc' = "settle" /\ applied' = [applied EXCEPT ![cur] = mem[cur].ran]
    BY DEF Apply
  <1>2. UNCHANGED <<flow, mem, disk, cur, verdict, runs, faults, resumes>>
    BY DEF Apply
  <1>3. Sound(mem)' /\ applied' \in [Step -> RunId]
    BY <1>1, <1>2, AppliedFacts
  <1>4. disk' = mem'
    BY <1>1, <1>2, EffectFacts
  <1>5. Core'
    BY <1>3, <1>4 DEF Core, Sound, Durable
  <1>6. TypeOK'
    BY <1>1, <1>2, <1>3 DEF IInv, TypeOK, Place
  <1>7. applied'[cur] = mem[cur].ran
    BY <1>1, EffectFacts DEF IInv, TypeOK
  <1>8. Places'
    BY <1>1, <1>2, <1>7, EffectFacts DEF Places
  <1>. QED  BY <1>5, <1>6, <1>8 DEF IInv

LEMMA ApplyFailsInv == ASSUME IInv, ApplyFails PROVE IInv'
  <1>1. /\ pc = "apply" /\ applied' \in {applied, [applied EXCEPT ![cur] = mem[cur].ran]}
        /\ UNCHANGED <<flow, cur, runs, resumes>> /\ Abandon(mem, mem)
    BY DEF ApplyFails
  <1>2. mem' = mem /\ pc' = "over" /\ verdict' = "failure" /\ disk' = mem /\ faults' \in 0 .. FaultBound
    BY <1>1, AbandonFacts, EffectFacts DEF IInv
  <1>3. Sound(mem)' /\ applied' \in [Step -> RunId]
    BY <1>1, <1>2, AppliedFacts
  <1>4. Core'
    BY <1>2, <1>3 DEF Core, Sound, Durable
  <1>5. TypeOK'
    BY <1>1, <1>2, <1>3 DEF IInv, TypeOK, Place, Verdict
  <1>6. Places'
    BY <1>2 DEF Places
  <1>. QED  BY <1>4, <1>5, <1>6 DEF IInv

LEMMA SettleInv == ASSUME IInv, Settle PROVE IInv'
  <1>. DEFINE out  == IF flow[cur].kind = "reaper" THEN mem[cur].ran ELSE mem[cur].out
              st   == [mem[cur] EXCEPT !.out = out]
              done == [st EXCEPT !.status = "Done"]
              m    == [mem EXCEPT ![cur] = st]
              m2   == [mem EXCEPT ![cur] = done]
  <1>1. pc = "settle" /\ UNCHANGED <<flow, cur, runs, applied, resumes>>
    BY DEF Settle
  <1>2. out \in RunId
    BY <1>1, EffectFacts DEF StepState
  <1>3. m = [mem EXCEPT ![cur].out = out] /\ m2 = [m EXCEPT ![cur].status = "Done"]
    BY <1>1, EffectFacts DEF States
  <1>4. Commit(m2, IF flow[cur].terminal THEN "over" ELSE "top", m)
    BY <1>3 DEF Settle
  <1>. HIDE DEF out
  <1>5. /\ st \in StepState /\ st.status = "EffectsPending" /\ st.ran = mem[cur].ran
        /\ done \in StepState /\ done.status = "Done" /\ done.ran = mem[cur].ran
    BY <1>1, <1>2, EffectFacts DEF StepState, Status
  <1>. HIDE DEF st, done
  <1>6. m \in States /\ m2 \in States
    BY <1>1, <1>5, EffectFacts DEF States
  <1>7. applied[cur] = mem[cur].ran
    BY <1>1 DEF IInv, Places
  <1>8. /\ \A s \in Step : s # cur => m[s] = mem[s] /\ m2[s] = mem[s]
        /\ m[cur] = st /\ m2[cur] = done
    BY <1>1, EffectFacts DEF States
  <1>9. Sound(m) /\ Sound(m2)
    BY <1>1, <1>5, <1>7, <1>8, EffectFacts DEF IInv, Core, Sound
  <1>. HIDE DEF m, m2
  <1>10. /\ mem' \in {m, m2} /\ disk' \in {mem, m, m2} /\ verdict' \in Verdict /\ faults' \in 0 .. FaultBound
         /\ pc' = "over" \/ (pc' = "top" /\ disk' = mem')
    <2>1. CASE Abandon(m, m2)
      BY <1>1, <2>1, AbandonFacts, EffectFacts DEF IInv, Verdict
    <2>2. CASE mem' = m2 /\ Saved(m2) /\ pc' \in {"over", "top"} /\ verdict' \in {"terminal", verdict}
      BY <2>2 DEF Saved, IInv, TypeOK, Verdict
    <2>. QED  BY <1>4, <2>1, <2>2 DEF Commit
  <1>11. Core'
    <2>1. Sound(mem)' /\ (disk' # NoSnapshot => Sound(disk)')
      BY <1>1, <1>9, <1>10 DEF IInv, Core, Sound
    <2>2. Durable'
      BY <1>10 DEF Durable, Live
    <2>. QED  BY <2>1, <2>2 DEF Core
  <1>12. TypeOK'
    BY <1>1, <1>6, <1>10, EffectFacts DEF IInv, TypeOK, Place, States
  <1>13. Places'
    BY <1>10 DEF Places
  <1>. QED  BY <1>11, <1>12, <1>13 DEF IInv

LEMMA ResumeInv == ASSUME IInv, Resume PROVE IInv'
  <1>1. /\ disk # NoSnapshot /\ mem' = disk /\ disk' = disk /\ pc' = "top" /\ verdict' = "none"
        /\ resumes' = resumes + 1 /\ resumes < ResumeBound
        /\ UNCHANGED <<flow, cur, runs, applied, faults>>
    BY DEF Resume
  <1>2. resumes' \in 0 .. ResumeBound
    BY <1>1, Bounds DEF IInv, TypeOK
  <1>3. TypeOK'
    BY <1>1, <1>2 DEF IInv, TypeOK, Place, Verdict
  <1>4. Core'
    BY <1>1 DEF IInv, Core, Sound, Durable
  <1>5. Places'
    BY <1>1 DEF Places
  <1>. QED  BY <1>3, <1>4, <1>5 DEF IInv

LEMMA AfreshFacts ==
  ASSUME StartAfresh
  PROVE  /\ mem' = [s \in Step |-> FreshStep] /\ applied' = [s \in Step |-> 0]
         /\ disk = NoSnapshot /\ disk' = NoSnapshot /\ pc' = "top" /\ verdict' = "none"
         /\ resumes < ResumeBound /\ resumes' = resumes + 1 /\ UNCHANGED <<flow, cur, runs, faults>>
  BY DEF StartAfresh

LEMMA StartAfreshInv == ASSUME IInv, StartAfresh PROVE IInv'
  <1>1. resumes' \in 0 .. ResumeBound /\ runs \in Nat
    BY AfreshFacts, Bounds, Numbers DEF IInv, TypeOK
  <1>2. TypeOK'
    BY <1>1, AfreshFacts, FreshFacts, Bounds DEF IInv, TypeOK, Place, Verdict
  <1>3. Sound(mem)'
    <2>1. \A s \in Step : mem'[s] = FreshStep /\ applied'[s] = 0
      BY AfreshFacts
    <2>. QED  BY <1>1, <2>1, AfreshFacts, FreshFacts DEF Sound
  <1>4. ~Accepted(mem')
    BY AfreshFacts, FreshFacts DEF Accepted
  <1>5. Core'
    BY <1>3, <1>4, AfreshFacts DEF Core, Durable, Accepted
  <1>6. Places'
    BY AfreshFacts DEF Places
  <1>. QED  BY <1>2, <1>5, <1>6 DEF IInv

LEMMA NextIInv == ASSUME IInv, [Next]_vars PROVE IInv'
  <1>1. CASE UNCHANGED vars
    <2>1. UNCHANGED <<flow, mem, disk, pc, cur, verdict, runs, applied, faults, resumes>>
      BY <1>1 DEF vars
    <2>. QED  BY <2>1 DEF IInv, TypeOK, Core, Sound, Durable, Live, Accepted, Places
  <1>2. CASE \/ Top \/ CapReached \/ FindFailure \/ Complete \/ NothingToRun
             \/ \E s \in Step : ConditionFails(s)
             \/ LensConditionFails \/ EvalFails \/ Crash
    BY <1>2, ControlInv
  <1>3. CASE FindEffects
    BY <1>3, FindEffectsInv
  <1>4. CASE \E s \in Step : Skip(s) \/ StartReaper(s) \/ IntentFails(s) \/ Start(s)
    BY <1>4, SkipInv, ReaperInv, StartInv
  <1>5. CASE \/ Produce \/ Aggregate
             \/ \E b \in BOOLEAN :
                  \/ CallFails(b) \/ ConsolidateFails(b)
                  \/ \E good \in SUBSET Lens : LensesFail(good, b)
    BY <1>5, DriverInv
  <1>6. CASE Accept \/ Repeat \/ RerunChain \/ Continue \/ ExitFailure
    BY <1>6, AcceptInv, RepeatInv, RerunChainInv, ContinueInv, ExitFailureInv
  <1>7. CASE \E t \in Step : BranchTo(t) \/ ExhaustedBranchTo(t)
    BY <1>7, BranchToInv, ExhaustedBranchToInv
  <1>8. CASE Apply \/ ApplyFails \/ Settle \/ Resume \/ StartAfresh
    BY <1>8, ApplyInv, ApplyFailsInv, SettleInv, ResumeInv, StartAfreshInv
  <1>. QED  BY <1>1, <1>2, <1>3, <1>4, <1>5, <1>6, <1>7, <1>8 DEF Next

LEMMA Invariance == Spec => []IInv
  BY InitIInv, NextIInv, PTL DEF Spec

-----------------------------------------------------------------------------
(* The theorems *)

\* Every variable of the executor keeps its type, through crashes and resumes.
THEOREM TypeCorrect == Spec => []TypeOK
  <1>1. IInv => TypeOK
    BY DEF IInv
  <1>. QED  BY <1>1, Invariance, PTL

\* Effects are in the snapshot before they are in the workspace, for any workflow, any
\* number of failed writes, crashes and resumes.
THEOREM EffectsAreWrittenAhead == Spec => []WriteAhead
  <1>1. IInv => WriteAhead
    BY DEF IInv, Core, Sound, WriteAhead
  <1>. QED  BY <1>1, Invariance, PTL

\* An effect that is applied, for the first time or again, is the latest of all.
THEOREM ReplaysAreLatest == Spec => []ReplayIsLatest
  <1>1. ASSUME IInv PROVE ReplayIsLatest
    <2>. SUFFICES ASSUME pc = "apply", NEW s \in Step
         PROVE  applied[s] <= mem[cur].ran
      BY DEF ReplayIsLatest
    <2>1. applied[s] <= mem[s].ran /\ mem[s].ran <= runs
      BY <1>1 DEF IInv, Core, Sound
    <2>2. mem[cur].ran = runs
      BY <1>1, EffectFacts
    <2>3. applied[s] \in Nat /\ mem[s].ran \in Nat /\ runs \in Nat
      BY <1>1, Numbers DEF IInv
    <2>. QED  BY <2>1, <2>2, <2>3
  <1>. QED  BY <1>1, Invariance, PTL

\* A step that is Done, in memory or in the snapshot, has its effects in the workspace,
\* unless it is Done because its outputs moved control to a later step.
THEOREM DoneStepsAreApplied == Spec => []DoneMeansApplied
  <1>1. ASSUME IInv PROVE DoneMeansApplied
    BY <1>1 DEF IInv, Core, Sound, DoneMeansApplied
  <1>. QED  BY <1>1, Invariance, PTL

-----------------------------------------------------------------------------
(* What the actions do to the states of the steps, field by field *)

\* No state changes but that of s.
Only(s) == \A u \in Step : u # s => mem'[u] = mem[u]

\* The states of s in memory, before and after a step of the system, agree on what the
\* attempts of s left behind.
SameHistory(s) == mem'[s].prior = mem[s].prior /\ mem'[s].rejected = mem[s].rejected

LEMMA SameFacts ==
  ASSUME IInv,
         \/ Top \/ CapReached \/ FindFailure \/ FindEffects \/ Complete \/ NothingToRun
         \/ \E s \in Step : ConditionFails(s)
         \/ LensConditionFails \/ EvalFails \/ Apply \/ ApplyFails \/ Crash
  PROVE  /\ mem' = mem /\ disk' \in {disk, mem} /\ flow' = flow
         /\ pc' \in {"top", "choose", "over", "down"} \/ FindEffects \/ Apply
  <1>1. mem' = mem /\ flow' = flow
    BY AbandonFacts DEF IInv, Top, CapReached, FindFailure, FindEffects, Complete, NothingToRun,
       ConditionFails, LensConditionFails, EvalFails, Apply, ApplyFails, Crash, Break
  <1>2. TrySave \/ disk' = disk \/ ApplyFails
    BY DEF Top, CapReached, FindFailure, FindEffects, Complete, NothingToRun,
           ConditionFails, LensConditionFails, EvalFails, Apply, Crash, Break
  <1>3. disk' \in {disk, mem}
    BY <1>1, <1>2, TrySaveFacts, AbandonFacts DEF IInv, ApplyFails
  <1>4. pc' \in {"top", "choose", "over", "down"} \/ FindEffects \/ Apply
    BY AbandonFacts DEF IInv, Top, CapReached, FindFailure, Complete, NothingToRun,
       ConditionFails, LensConditionFails, EvalFails, ApplyFails, Crash, Break
  <1>. QED
    BY <1>1, <1>3, <1>4

LEMMA SkipFacts ==
  ASSUME IInv, NEW s \in Step, Skip(s)
  PROVE  /\ Only(s) /\ disk' = disk /\ flow' = flow /\ pc' = "top"
         /\ Choosing /\ Picked(s) /\ flow[s].conditional
         /\ SameHistory(s) /\ mem'[s].status = "Skipped" /\ mem'[s].ran = mem[s].ran
         /\ mem'[s].basis = mem[s].basis /\ mem'[s].lens = mem[s].lens
         /\ mem'[s].out \in {mem[s].out, mem[s].kept, 0} /\ mem'[s].kept \in {mem[s].kept, 0}
  <1>. DEFINE p    == flow[s].preserve
              back == p /\ mem[s].out = 0
              out  == IF back THEN mem[s].kept ELSE IF p THEN mem[s].out ELSE 0
              kept == IF p /\ ~back THEN mem[s].kept ELSE 0
  <1>1. mem \in States /\ mem[s] \in StepState
    BY DEF IInv, TypeOK, States
  <1>2. mem' = [mem EXCEPT ![s] = [@ EXCEPT !.status = "Skipped", !.out = out, !.kept = kept]]
    BY DEF Skip, Skipped
  <1>3. out \in {mem[s].out, mem[s].kept, 0} /\ kept \in {mem[s].kept, 0}
    OBVIOUS
  <1>. HIDE DEF out, kept
  <1>4. Only(s) /\ mem'[s] = [mem[s] EXCEPT !.status = "Skipped", !.out = out, !.kept = kept]
    BY <1>1, <1>2 DEF Only, States
  <1>5. /\ mem'[s].status = "Skipped" /\ mem'[s].out = out /\ mem'[s].kept = kept
        /\ mem'[s].ran = mem[s].ran /\ mem'[s].basis = mem[s].basis /\ mem'[s].lens = mem[s].lens
        /\ mem'[s].prior = mem[s].prior /\ mem'[s].rejected = mem[s].rejected
    BY <1>1, <1>4 DEF StepState
  <1>. QED  BY <1>3, <1>4, <1>5 DEF Skip, SameHistory

LEMMA BeginFacts ==
  ASSUME IInv, NEW s \in Step, StartReaper(s) \/ IntentFails(s) \/ Start(s)
  PROVE  /\ Only(s) /\ disk' \in {disk, mem'} /\ flow' = flow
         /\ Choosing /\ Picked(s) /\ runs' = runs + 1
         /\ SameHistory(s) /\ mem'[s].status \in {"Pending", "EffectsPending"} /\ mem'[s].ran = runs + 1
         /\ mem'[s].basis = [d \in Step |-> IF d \in flow[s].deps THEN mem[d].out ELSE 0]
         /\ mem'[s].out = mem[s].out /\ mem'[s].kept = mem[s].kept /\ mem'[s].lens = mem[s].lens
         /\ mem'[s].status = "EffectsPending" => flow[s].kind = "reaper"
         /\ \/ pc' \in {"top", "over"}
            \/ pc' = "run" /\ cur' = s /\ mem'[s].status = "Pending"
  <1>. DEFINE b == [d \in Step |-> IF d \in flow[s].deps THEN mem[d].out ELSE 0]
              a == Attempted(s)
              e == [a EXCEPT !.status = "EffectsPending"]
  <1>1. mem \in States /\ mem[s] \in StepState /\ mem[s].status = "Pending"
    BY DEF IInv, TypeOK, States, StartReaper, IntentFails, Start, Begin, Picked, First, Runnable
  <1>2. /\ a.status = "Pending" /\ a.ran = runs + 1 /\ a.basis = b /\ a.out = mem[s].out
        /\ a.kept = mem[s].kept /\ a.lens = mem[s].lens /\ a.prior = mem[s].prior
        /\ a.rejected = mem[s].rejected
    BY <1>1 DEF Attempted, StepState
  <1>3. a \in StepState
    BY AttemptedFacts DEF IInv, StartReaper, IntentFails, Start, Begin
  <1>. HIDE DEF a, b
  <1>4. /\ e.status = "EffectsPending" /\ e.ran = a.ran /\ e.basis = a.basis /\ e.out = a.out
        /\ e.kept = a.kept /\ e.lens = a.lens /\ e.prior = a.prior /\ e.rejected = a.rejected
    BY <1>3 DEF StepState
  <1>. HIDE DEF e
  <1>5. \A st : mem' = [mem EXCEPT ![s] = st] => Only(s) /\ mem'[s] = st
    BY <1>1 DEF Only, States
  <1>6. CASE StartReaper(s)
    <2>. DEFINE m == [mem EXCEPT ![s] = e]
    <2>1. Commit(m, "top", m)
      BY <1>6 DEF StartReaper, a, e
    <2>2. mem' = m /\ disk' \in {disk, m} /\ pc' \in {"top", "over"}
      BY <2>1, AbandonFacts DEF Commit, Saved, IInv
    <2>3. mem'[s] = e /\ Only(s)
      BY <1>5, <2>2
    <2>. HIDE DEF m
    <2>. QED  BY <1>2, <1>4, <1>6, <2>2, <2>3 DEF StartReaper, Begin, SameHistory, b
  <1>7. CASE IntentFails(s)
    <2>1. Break([mem EXCEPT ![s] = a], "failure")
      BY <1>7 DEF IntentFails, a
    <2>2. mem' = [mem EXCEPT ![s] = a] /\ disk' \in {disk, mem'} /\ pc' = "over"
      BY <2>1, TrySaveFacts DEF Break, IInv
    <2>3. mem'[s] = a /\ Only(s)
      BY <1>5, <2>2
    <2>. QED  BY <1>2, <1>7, <2>2, <2>3 DEF IntentFails, Begin, SameHistory, b
  <1>8. CASE Start(s)
    <2>1. mem' = [mem EXCEPT ![s] = a]
      BY <1>8 DEF Start, a
    <2>2. mem'[s] = a /\ Only(s)
      BY <1>5, <2>1
    <2>. QED  BY <1>2, <1>8, <2>2 DEF Start, Begin, SameHistory, b
  <1>. QED  BY <1>6, <1>7, <1>8

LEMMA ProduceFacts ==
  ASSUME IInv, Produce \/ Aggregate
  PROVE  /\ Only(cur) /\ disk' = disk /\ flow' = flow /\ pc = "run" /\ pc' = "eval" /\ cur' = cur
         /\ SameHistory(cur) /\ mem'[cur].status = mem[cur].status /\ mem'[cur].ran = mem[cur].ran
         /\ mem'[cur].basis = mem[cur].basis
         /\ mem'[cur].out = mem[cur].ran /\ mem'[cur].kept = 0
         /\ \/ flow[cur].kind # "lensed" /\ mem'[cur].lens = mem[cur].lens
            \/ \A l \in Lens : mem'[cur].lens[l] = 0
  <1>1. mem \in States /\ cur \in Step /\ mem[cur] \in StepState
    BY DEF IInv, TypeOK, States
  <1>. DEFINE st  == Produced(mem[cur])
              cut == [st EXCEPT !.lens = NoLens]
  <1>2. /\ st.status = mem[cur].status /\ st.ran = mem[cur].ran /\ st.basis = mem[cur].basis
        /\ st.prior = mem[cur].prior /\ st.rejected = mem[cur].rejected /\ st.lens = mem[cur].lens
        /\ st.out = mem[cur].ran /\ st.kept = 0
    BY <1>1 DEF Produced, StepState
  <1>3. /\ cut.status = mem[cur].status /\ cut.ran = mem[cur].ran /\ cut.basis = mem[cur].basis
        /\ cut.prior = mem[cur].prior /\ cut.rejected = mem[cur].rejected /\ cut.lens = NoLens
        /\ cut.out = mem[cur].ran /\ cut.kept = 0
    BY <1>1 DEF Produced, StepState
  <1>4. \A l \in Lens : NoLens[l] = 0
    BY DEF NoLens
  <1>. HIDE DEF st, cut
  <1>5. CASE Produce
    <2>1. mem'[cur] = st /\ Only(cur)
      BY <1>1, <1>5 DEF Produce, Only, States, st
    <2>. QED  BY <1>2, <1>5, <2>1 DEF Produce, SameHistory
  <1>6. CASE Aggregate
    <2>1. mem'[cur] = cut /\ Only(cur)
      BY <1>1, <1>6 DEF Aggregate, Only, States, cut, st
    <2>. QED  BY <1>3, <1>4, <1>6, <2>1 DEF Aggregate, SameHistory
  <1>. QED  BY <1>5, <1>6

\* What DriverError does, if st differs from the state of cur in its lenses only.
LEMMA DriverErrorFacts ==
  ASSUME IInv, pc = "run", NEW st \in StepState, NEW b, DriverError(st, b),
         st.status = mem[cur].status, st.ran = mem[cur].ran, st.basis = mem[cur].basis,
         st.prior = mem[cur].prior, st.rejected = mem[cur].rejected,
         st.out = mem[cur].out, st.kept = mem[cur].kept
  PROVE  /\ Only(cur) /\ disk' \in {disk, mem', NoSnapshot} /\ pc' \in {"top", "over"}
         /\ SameHistory(cur) /\ mem'[cur].status \in {mem[cur].status, "TerminalFailure"}
         /\ mem'[cur].ran = mem[cur].ran /\ mem'[cur].basis = mem[cur].basis
         /\ mem'[cur].out = mem[cur].out /\ mem'[cur].kept = mem[cur].kept
         /\ mem'[cur].lens = st.lens
  <1>. DEFINE failed == [st EXCEPT !.status = "TerminalFailure"]
  <1>1. /\ failed.status = "TerminalFailure" /\ failed.ran = st.ran /\ failed.basis = st.basis
        /\ failed.prior = st.prior /\ failed.rejected = st.rejected
        /\ failed.out = st.out /\ failed.kept = st.kept /\ failed.lens = st.lens
    BY DEF StepState
  <1>. HIDE DEF failed
  <1>2. /\ mem' \in {[mem EXCEPT ![cur] = st], [mem EXCEPT ![cur] = failed]} /\ pc' \in {"top", "over"}
        /\ disk' \in {disk, mem', NoSnapshot}
    BY FinishFailureFacts DEF IInv, DriverError, failed
  <1>3. Only(cur) /\ mem'[cur] \in {st, failed}
    BY <1>2 DEF Only, IInv, TypeOK
  <1>. QED  BY <1>1, <1>2, <1>3 DEF SameHistory

LEMMA DriverFacts ==
  ASSUME IInv, NEW b \in BOOLEAN,
         \/ CallFails(b) \/ ConsolidateFails(b)
         \/ \E good \in SUBSET Lens : LensesFail(good, b)
  PROVE  /\ Only(cur) /\ disk' \in {disk, mem', NoSnapshot} /\ pc' \in {"top", "over"}
         /\ pc = "run" /\ flow' = flow /\ cur' = cur
         /\ SameHistory(cur) /\ mem'[cur].status \in {mem[cur].status, "TerminalFailure"}
         /\ mem'[cur].ran = mem[cur].ran /\ mem'[cur].basis = mem[cur].basis
         /\ mem'[cur].out = mem[cur].out /\ mem'[cur].kept = mem[cur].kept
         /\ \/ flow[cur].kind # "lensed" /\ mem'[cur].lens = mem[cur].lens
            \/ /\ flow[cur].kind = "lensed"
               /\ \A l \in Lens : mem'[cur].lens[l] \in {mem[cur].lens[l], mem[cur].ran, 0}
  <1>. DEFINE st == mem[cur]
  <1>1. st \in StepState
    BY DEF IInv, TypeOK
  <1>2. NoLens \in [Lens -> RunId] /\ st.ran \in RunId /\ \A l \in Lens : NoLens[l] = 0
    BY <1>1, Bounds DEF NoLens, StepState
  <1>3. CASE CallFails(b)
    BY <1>1, <1>3, DriverErrorFacts DEF CallFails
  <1>4. CASE ConsolidateFails(b)
    <2>. DEFINE new == [st EXCEPT !.lens = NoLens]
    <2>1. /\ new \in StepState /\ new.status = st.status /\ new.ran = st.ran /\ new.basis = st.basis
          /\ new.prior = st.prior /\ new.rejected = st.rejected /\ new.out = st.out
          /\ new.kept = st.kept /\ new.lens = NoLens
      BY <1>1, <1>2 DEF StepState
    <2>2. DriverError(new, b)
      BY <1>4 DEF ConsolidateFails
    <2>. HIDE DEF new
    <2>. QED  BY <1>2, <1>4, <2>1, <2>2, DriverErrorFacts DEF ConsolidateFails
  <1>5. ASSUME NEW good \in SUBSET Lens, LensesFail(good, b)
        PROVE  /\ Only(cur) /\ disk' \in {disk, mem', NoSnapshot} /\ pc' \in {"top", "over"}
               /\ pc = "run" /\ flow' = flow /\ cur' = cur
               /\ SameHistory(cur) /\ mem'[cur].status \in {mem[cur].status, "TerminalFailure"}
               /\ mem'[cur].ran = mem[cur].ran /\ mem'[cur].basis = mem[cur].basis
               /\ mem'[cur].out = mem[cur].out /\ mem'[cur].kept = mem[cur].kept
               /\ flow[cur].kind = "lensed"
               /\ \A l \in Lens : mem'[cur].lens[l] \in {mem[cur].lens[l], mem[cur].ran, 0}
    <2>. DEFINE lens == [l \in Lens |-> IF l \in good THEN st.ran ELSE st.lens[l]]
                new  == [st EXCEPT !.lens = lens]
    <2>1. lens \in [Lens -> RunId] /\ \A l \in Lens : lens[l] \in {st.lens[l], st.ran}
      BY <1>1, <1>2 DEF StepState
    <2>2. DriverError(new, b)
      BY <1>5 DEF LensesFail
    <2>. HIDE DEF lens
    <2>3. /\ new \in StepState /\ new.status = st.status /\ new.ran = st.ran /\ new.basis = st.basis
          /\ new.prior = st.prior /\ new.rejected = st.rejected /\ new.out = st.out
          /\ new.kept = st.kept /\ new.lens = lens
      BY <1>1, <2>1 DEF StepState
    <2>. HIDE DEF new
    <2>. QED  BY <1>5, <2>1, <2>2, <2>3, DriverErrorFacts DEF LensesFail
  <1>. QED  BY <1>3, <1>4, <1>5

LEMMA JudgedFacts ==
  ASSUME IInv, Accept \/ Continue \/ ExitFailure
  PROVE  /\ Only(cur) /\ disk' \in {disk, mem', NoSnapshot} /\ pc' \in {"top", "over"}
         /\ pc = "eval" /\ flow' = flow /\ cur' = cur
         /\ SameHistory(cur) /\ mem'[cur].status \in {"EffectsPending", "DoneWithFailure", "TerminalFailure"}
         /\ mem'[cur].ran = mem[cur].ran /\ mem'[cur].basis = mem[cur].basis
         /\ mem'[cur].out = mem[cur].out /\ mem'[cur].kept = mem[cur].kept
         /\ mem'[cur].lens = mem[cur].lens
  <1>1. mem \in States /\ cur \in Step /\ mem[cur] \in StepState
    BY DEF IInv, TypeOK, States
  <1>2. ASSUME NEW x \in {"EffectsPending", "DoneWithFailure", "TerminalFailure"},
               mem' = [mem EXCEPT ![cur].status = x]
        PROVE  /\ Only(cur) /\ SameHistory(cur) /\ mem'[cur].status = x
               /\ mem'[cur].ran = mem[cur].ran /\ mem'[cur].basis = mem[cur].basis
               /\ mem'[cur].out = mem[cur].out /\ mem'[cur].kept = mem[cur].kept
               /\ mem'[cur].lens = mem[cur].lens
    <2>. DEFINE st == [mem[cur] EXCEPT !.status = x]
    <2>1. mem'[cur] = st /\ Only(cur)
      BY <1>1, <1>2 DEF States, Only
    <2>2. /\ st.status = x /\ st.ran = mem[cur].ran /\ st.basis = mem[cur].basis /\ st.out = mem[cur].out
          /\ st.kept = mem[cur].kept /\ st.lens = mem[cur].lens /\ st.prior = mem[cur].prior
          /\ st.rejected = mem[cur].rejected
      BY <1>1 DEF StepState
    <2>. HIDE DEF st
    <2>. QED  BY <2>1, <2>2 DEF SameHistory
  <1>3. CASE Accept
    <2>. DEFINE m == [mem EXCEPT ![cur].status = "EffectsPending"]
    <2>1. Commit(m, "top", m)
      BY <1>3 DEF Accept
    <2>2. mem' = m /\ disk' \in {disk, m} /\ pc' \in {"top", "over"}
      BY <2>1, AbandonFacts DEF Commit, Saved, IInv
    <2>. QED  BY <1>2, <1>3, <2>2 DEF Accept
  <1>4. CASE Continue
    BY <1>2, <1>4 DEF Continue, Judged, GoOn
  <1>5. CASE ExitFailure
    <2>1. FinishFailure([mem EXCEPT ![cur].status = "TerminalFailure"]) /\ pc = "eval" /\ UNCHANGED <<flow, cur>>
      BY <1>5 DEF ExitFailure, Judged
    <2>. QED  BY <1>2, <2>1, FinishFailureFacts DEF IInv
  <1>. QED  BY <1>3, <1>4, <1>5

\* Settle is the one action after which the snapshot can be ahead of the states in memory.
LEMMA SettleFacts ==
  ASSUME IInv, Settle
  PROVE  /\ flow' = flow /\ pc = "settle" /\ pc' \in {"top", "over"}
         /\ \A m \in {mem', disk'} :
              /\ m \in States /\ \A u \in Step : u # cur => m[u] = mem[u]
              /\ m[cur].status \in {"EffectsPending", "Done"} /\ m[cur].ran = mem[cur].ran
              /\ m[cur].basis = mem[cur].basis /\ m[cur].lens = mem[cur].lens
              /\ m[cur].prior = mem[cur].prior /\ m[cur].rejected = mem[cur].rejected
              /\ m[cur].out \in {mem[cur].out, mem[cur].ran} /\ m[cur].kept = mem[cur].kept
  <1>. DEFINE out  == IF flow[cur].kind = "reaper" THEN mem[cur].ran ELSE mem[cur].out
              st   == [mem[cur] EXCEPT !.out = out]
              done == [st EXCEPT !.status = "Done"]
              m1   == [mem EXCEPT ![cur] = st]
              m2   == [mem EXCEPT ![cur] = done]
  <1>1. pc = "settle" /\ flow' = flow
    BY DEF Settle
  <1>2. out \in RunId /\ out \in {mem[cur].out, mem[cur].ran}
    BY <1>1, EffectFacts DEF StepState
  <1>3. m1 = [mem EXCEPT ![cur].out = out] /\ m2 = [m1 EXCEPT ![cur].status = "Done"]
    BY <1>1, EffectFacts DEF States
  <1>4. Commit(m2, IF flow[cur].terminal THEN "over" ELSE "top", m1)
    BY <1>3 DEF Settle
  <1>. HIDE DEF out
  <1>5. ASSUME NEW x \in {mem[cur], st, done}
        PROVE  /\ x \in StepState /\ x.status \in {"EffectsPending", "Done"} /\ x.ran = mem[cur].ran
               /\ x.basis = mem[cur].basis /\ x.lens = mem[cur].lens
               /\ x.prior = mem[cur].prior /\ x.rejected = mem[cur].rejected
               /\ x.out \in {mem[cur].out, out} /\ x.kept = mem[cur].kept
    <2>1. mem[cur] \in StepState /\ mem[cur].status = "EffectsPending"
      BY <1>1, EffectFacts
    <2>2. CASE x = mem[cur]
      BY <2>1, <2>2
    <2>3. CASE x = st
      BY <1>2, <2>1, <2>3 DEF StepState
    <2>4. CASE x = done
      BY <1>2, <2>1, <2>4 DEF StepState, Status
    <2>. QED  BY <2>2, <2>3, <2>4
  <1>. HIDE DEF st, done
  <1>6. \A m \in {mem, m1, m2} :
          m \in States /\ m[cur] \in {mem[cur], st, done} /\ \A u \in Step : u # cur => m[u] = mem[u]
    BY <1>1, <1>5, EffectFacts DEF States
  <1>. HIDE DEF m1, m2
  <1>7. mem' \in {m1, m2} /\ disk' \in {mem, m1, m2} /\ pc' \in {"over", "top"}
    <2>1. CASE Abandon(m1, m2)
      BY <1>1, <2>1, AbandonFacts, EffectFacts DEF IInv
    <2>2. CASE mem' = m2 /\ Saved(m2) /\ pc' \in {"over", "top"}
      BY <2>2 DEF Saved
    <2>. QED  BY <1>4, <2>1, <2>2 DEF Commit
  <1>8. \A m \in {mem', disk'} : m \in {mem, m1, m2}
    BY <1>7
  <1>9. ASSUME NEW m \in {mem, m1, m2}
        PROVE  /\ m \in States /\ \A u \in Step : u # cur => m[u] = mem[u]
               /\ m[cur].status \in {"EffectsPending", "Done"} /\ m[cur].ran = mem[cur].ran
               /\ m[cur].basis = mem[cur].basis /\ m[cur].lens = mem[cur].lens
               /\ m[cur].prior = mem[cur].prior /\ m[cur].rejected = mem[cur].rejected
               /\ m[cur].out \in {mem[cur].out, mem[cur].ran} /\ m[cur].kept = mem[cur].kept
    BY <1>2, <1>5, <1>6
  <1>. QED  BY <1>1, <1>7, <1>8, <1>9

-----------------------------------------------------------------------------
(* Control moves back *)

LEMMA ToSetAppend ==
  ASSUME NEW T, NEW q \in Seq(T), NEW e \in T
  PROVE  ToSet(Append(q, e)) = ToSet(q) \cup {e}
  <1>. DEFINE a == Append(q, e)
  <1>1. /\ Len(q) \in Nat /\ DOMAIN q = 1 .. Len(q)
        /\ DOMAIN a = 1 .. Len(q) + 1
        /\ \A i \in 1 .. Len(q) : a[i] = q[i]
        /\ a[Len(q) + 1] = e
    OBVIOUS
  <1>2. DOMAIN a = DOMAIN q \cup {Len(q) + 1}
    BY <1>1
  <1>. HIDE DEF a
  <1>3. ToSet(a) = {a[i] : i \in DOMAIN q} \cup {a[Len(q) + 1]}
    BY <1>2 DEF ToSet
  <1>4. {a[i] : i \in DOMAIN q} = {q[i] : i \in DOMAIN q}
    BY <1>1
  <1>. QED  BY <1>1, <1>3, <1>4 DEF ToSet, a

\* What st2 may be, if control moves back past a step in the state st: outputs go, at
\* most to the prior attempts or aside, and nothing else is forgotten.
Carried(st, st2) ==
  /\ st2.ran = st.ran /\ st2.basis = st.basis /\ st2.lens = st.lens /\ st2.rejected = st.rejected
  /\ st2.out \in {st.out, 0} /\ st2.kept \in {st.kept, st.out, 0}
  /\ ToSet(st.prior) \subseteq ToSet(st2.prior)
  /\ ToSet(st2.prior) \subseteq ToSet(st.prior) \cup ({st.out} \ {0})

LEMMA CarriedTwice ==
  ASSUME NEW st, NEW st2, NEW st3, Carried(st, st2), Carried(st2, st3)
  PROVE  Carried(st, st3)
  BY DEF Carried

LEMMA ResetCarries ==
  ASSUME NEW st \in StepState
  PROVE  /\ Carried(st, Reset(st)) /\ Reset(st).status = "Pending"
         /\ st.out # 0 => st.out \in ToSet(Reset(st).prior)
  <1>. DEFINE q == IF st.out = 0 THEN st.prior ELSE Append(st.prior, st.out)
  <1>1. st.prior \in Seq(Run) /\ (st.out # 0 => st.out \in Run)
    BY Bounds DEF StepState
  <1>2. /\ ToSet(st.prior) \subseteq ToSet(q) /\ ToSet(q) \subseteq ToSet(st.prior) \cup ({st.out} \ {0})
        /\ st.out # 0 => st.out \in ToSet(q)
    BY <1>1, ToSetAppend
  <1>3. Reset(st) = [st EXCEPT !.status = "Pending", !.out = 0, !.kept = 0, !.prior = q]
    BY DEF Reset
  <1>. HIDE DEF q
  <1>4. /\ Reset(st).ran = st.ran /\ Reset(st).basis = st.basis /\ Reset(st).lens = st.lens
        /\ Reset(st).rejected = st.rejected /\ Reset(st).out = 0 /\ Reset(st).kept = 0
        /\ Reset(st).prior = q /\ Reset(st).status = "Pending"
    BY <1>3 DEF StepState
  <1>. QED  BY <1>2, <1>4 DEF Carried

\* A step that does not depend on t is left alone, and so is one that is not settled.
LEMMA ResetDependentsCarry ==
  ASSUME NEW m \in States, NEW t \in Step, NEW s \in Step
  PROVE  LET m2 == ResetDependents(m, t) IN
           /\ Carried(m[s], m2[s])
           /\ s \in Dependents(t) \ {t} /\ m[s].status \in Settled => m2[s].status = "Pending"
           /\ s \notin Dependents(t) \ {t} \/ m[s].status \notin Settled => m2[s] = m[s]
  <1>. DEFINE kept == [m[s] EXCEPT !.status = "Pending", !.out = 0, !.kept = m[s].out]
  <1>1. m[s] \in StepState
    BY DEF States
  <1>2. Carried(m[s], kept) /\ kept.status = "Pending" /\ Carried(m[s], m[s])
    BY <1>1 DEF Carried, StepState
  <1>. HIDE DEF kept
  <1>3. CASE s \notin Dependents(t) \ {t} \/ m[s].status \notin Settled
    <2>1. ResetDependents(m, t)[s] = m[s]
      BY <1>3 DEF ResetDependents
    <2>. QED  BY <1>2, <1>3, <2>1
  <1>4. CASE ~(s \notin Dependents(t) \ {t} \/ m[s].status \notin Settled)
    <2>1. ResetDependents(m, t)[s] \in {kept, Reset(m[s])}
      BY <1>4 DEF ResetDependents, kept
    <2>2. Carried(m[s], Reset(m[s])) /\ Reset(m[s]).status = "Pending"
      BY <1>1, ResetCarries
    <2>. QED  BY <1>2, <1>4, <2>1, <2>2
  <1>. QED  BY <1>3, <1>4

LEMMA ReenterCarries ==
  ASSUME NEW m \in States, NEW t \in Step, NEW s \in Step
  PROVE  LET m2 == ReenterFrom(m, t) IN
           /\ Carried(m[s], m2[s])
           /\ s = t => m2[s] = Reset(m[s])
           /\ s # t /\ s \in Dependents(t) /\ m[s].status \in Settled => m2[s].status = "Pending"
           /\ s # t /\ (s \notin Dependents(t) \/ m[s].status \notin Settled) => m2[s] = m[s]
  <1>. DEFINE n == [m EXCEPT ![t] = Reset(@)]
  <1>1. n \in States /\ n[t] = Reset(m[t]) /\ \A u \in Step : u # t => n[u] = m[u]
    BY ResetFacts DEF States
  <1>2. ReenterFrom(m, t) = ResetDependents(n, t)
    BY DEF ReenterFrom
  <1>. HIDE DEF n
  <1>3. /\ Carried(n[s], ResetDependents(n, t)[s])
        /\ s \in Dependents(t) \ {t} /\ n[s].status \in Settled => ResetDependents(n, t)[s].status = "Pending"
        /\ s \notin Dependents(t) \ {t} \/ n[s].status \notin Settled => ResetDependents(n, t)[s] = n[s]
    BY <1>1, ResetDependentsCarry
  <1>4. CASE s = t
    <2>1. m[t] \in StepState
      BY DEF States
    <2>2. Carried(m[t], n[t])
      BY <1>1, <2>1, ResetCarries
    <2>3. ResetDependents(n, t)[s] = n[s]
      BY <1>3, <1>4
    <2>. QED  BY <1>1, <1>2, <1>4, <2>2, <2>3
  <1>5. CASE s # t
    BY <1>1, <1>2, <1>3, <1>5
  <1>. QED  BY <1>4, <1>5

\* A step whose outputs are turned down.
LEMMA NotedCarries ==
  ASSUME NEW st \in StepState, st.ran \in Run, st.out \in Run
  PROVE  /\ Rejected(st).rejected = st.rejected \cup {st.ran} /\ Rejected(st).prior = st.prior
         /\ Noted(st).rejected = st.rejected \cup {st.ran}
         /\ ToSet(Noted(st).prior) = ToSet(st.prior) \cup {st.out}
         /\ \A x \in {Rejected(st), Noted(st)} :
              /\ x \in StepState /\ x.status = st.status /\ x.ran = st.ran /\ x.basis = st.basis
              /\ x.lens = st.lens /\ x.out = st.out /\ x.kept = st.kept
  <1>. DEFINE q == Append(st.prior, st.out)
              r == st.rejected \cup {st.ran}
  <1>1. Rejected(st) = [st EXCEPT !.rejected = r]
    BY DEF Rejected
  <1>2. Rejected(st).prior = st.prior
    BY <1>1 DEF StepState
  <1>3. Noted(st) = [st EXCEPT !.rejected = r, !.prior = q]
    BY <1>1, <1>2 DEF Noted, StepState
  <1>4. ToSet(q) = ToSet(st.prior) \cup {st.out}
    BY ToSetAppend DEF StepState
  <1>. HIDE DEF q, r
  <1>5. /\ Rejected(st).rejected = r /\ Noted(st).rejected = r /\ Noted(st).prior = q
        /\ \A x \in {Rejected(st), Noted(st)} :
              /\ x.status = st.status /\ x.ran = st.ran /\ x.basis = st.basis
              /\ x.lens = st.lens /\ x.out = st.out /\ x.kept = st.kept
    BY <1>1, <1>3 DEF StepState
  <1>. QED  BY <1>2, <1>4, <1>5, RejectedFacts, NotedFacts DEF r

\* The last change of a branch to the step it comes from.
LEMMA LastCarries ==
  ASSUME NEW st, NEW st2 \in StepState, Carried(st, st2)
  PROVE  /\ Carried(st, [st2 EXCEPT !.status = "Done"]) /\ Carried(st, [st2 EXCEPT !.kept = 0])
         /\ [st2 EXCEPT !.status = "Done"].status = "Done"
         /\ [st2 EXCEPT !.kept = 0].status = st2.status
  <1>. DEFINE a == [st2 EXCEPT !.status = "Done"]
              b == [st2 EXCEPT !.kept = 0]
  <1>1. \A x \in {a, b} : /\ x.ran = st2.ran /\ x.basis = st2.basis /\ x.lens = st2.lens
                          /\ x.rejected = st2.rejected /\ x.out = st2.out /\ x.kept \in {st2.kept, 0}
                          /\ x.prior = st2.prior
    BY DEF StepState
  <1>2. a.status = "Done" /\ b.status = st2.status
    BY DEF StepState
  <1>. HIDE DEF a, b
  <1>3. Carried(st, a) /\ Carried(st, b)
    BY <1>1 DEF Carried
  <1>. QED  BY <1>2, <1>3 DEF a, b

\* Control moves to t, from a step in the state x: only t and its settled dependents are
\* entered again, and x is kept.
MovesTo(t, x) ==
  /\ \A u \in Step : u # cur =>
       /\ Carried(mem[u], mem'[u])
       /\ mem'[u].status = "Pending" \/ (mem'[u] = mem[u] /\ u # t)
       /\ u \in Dependents(t) /\ mem[u].status \in Settled => mem'[u].status = "Pending"
       /\ u # t /\ u \notin Dependents(t) => mem'[u] = mem[u]
  /\ Carried(x, mem'[cur]) /\ (t = cur /\ x.out # 0 => x.out \in ToSet(mem'[cur].prior))

LEMMA BranchFacts ==
  ASSUME IInv, NEW t \in Step, BranchTo(t) \/ ExhaustedBranchTo(t)
  PROVE  /\ disk' = disk /\ flow' = flow /\ cur' = cur /\ pc = "eval" /\ pc' = "top"
         /\ MovesTo(t, IF ExhaustedBranchTo(t) THEN mem[cur]
                       ELSE IF t = cur THEN Rejected(mem[cur]) ELSE Noted(mem[cur]))
         /\ \/ mem'[cur].status \in {mem[cur].status, "Pending"}
            \/ mem'[cur].status = "Done" /\ t \in Dependents(cur)
  <1>1. pc = "eval" /\ mem \in States /\ cur \in Step /\ mem[cur] \in StepState
        /\ mem[cur].ran \in Run /\ mem[cur].out \in Run
    BY EvalFacts DEF BranchTo, ExhaustedBranchTo, Judged
  <1>2. disk' = disk /\ flow' = flow /\ cur' = cur /\ pc' = "top"
    BY DEF BranchTo, ExhaustedBranchTo, GoOn
  <1>. DEFINE xs == {mem[cur], Rejected(mem[cur]), Noted(mem[cur])}
  <1>3. ASSUME NEW x \in xs, NEW n, n = [mem EXCEPT ![cur] = x], NEW last,
               mem' = [ReenterFrom(n, t) EXCEPT ![cur] = last],
               \/ last = [ReenterFrom(n, t)[cur] EXCEPT !.kept = 0]
               \/ last = [ReenterFrom(n, t)[cur] EXCEPT !.status = "Done"] /\ t \in Dependents(cur)
        PROVE  /\ MovesTo(t, x)
               /\ \/ mem'[cur].status \in {mem[cur].status, "Pending"}
                  \/ mem'[cur].status = "Done" /\ t \in Dependents(cur)
    <2>. DEFINE m2 == ReenterFrom(n, t)
    <2>1. x \in StepState /\ x.status = mem[cur].status
      BY <1>1, NotedCarries
    <2>. HIDE DEF xs
    <2>2. n \in States /\ n[cur] = x /\ \A u \in Step : u # cur => n[u] = mem[u]
      BY <1>1, <1>3, <2>1 DEF States
    <2>3. Reentry(n, m2)
      BY <2>2, ReenterFacts
    <2>4. /\ Carried(x, m2[cur]) /\ m2[cur] \in StepState /\ m2[cur].status \in {x.status, "Pending"}
          /\ t = cur => m2[cur] = Reset(x)
      BY <1>1, <2>2, <2>3, ReenterCarries DEF Reentry, States
    <2>5. ASSUME NEW u \in Step, u # cur
          PROVE  /\ Carried(mem[u], m2[u])
                 /\ m2[u].status = "Pending" \/ (m2[u] = mem[u] /\ u # t)
                 /\ u \in Dependents(t) /\ mem[u].status \in Settled => m2[u].status = "Pending"
                 /\ u # t /\ u \notin Dependents(t) => m2[u] = mem[u]
      <3>1. n[u] = mem[u] /\ mem[u] \in StepState
        BY <1>1, <2>2, <2>5 DEF States
      <3>2. Reset(mem[u]).status = "Pending"
        BY <3>1, ResetCarries
      <3>3. /\ Carried(mem[u], m2[u])
            /\ u = t => m2[u] = Reset(mem[u])
            /\ u # t /\ u \in Dependents(t) /\ mem[u].status \in Settled => m2[u].status = "Pending"
            /\ u # t /\ (u \notin Dependents(t) \/ mem[u].status \notin Settled) => m2[u] = mem[u]
        BY <2>2, <3>1, ReenterCarries
      <3>. QED  BY <3>2, <3>3
    <2>6. m2 \in States
      BY <2>3 DEF Reentry
    <2>. HIDE DEF m2
    <2>7. mem'[cur] = last /\ \A u \in Step : u # cur => mem'[u] = m2[u]
      BY <1>1, <1>3, <2>6 DEF States, m2
    <2>8. /\ Carried(x, last)
          /\ last.status = m2[cur].status \/ (last.status = "Done" /\ t \in Dependents(cur))
          /\ last.prior = m2[cur].prior
      <3>1. \A k : [m2[cur] EXCEPT !.kept = k].prior = m2[cur].prior
                   /\ [m2[cur] EXCEPT !.status = k].prior = m2[cur].prior
        BY <2>4 DEF StepState
      <3>2. /\ Carried(x, [m2[cur] EXCEPT !.status = "Done"]) /\ Carried(x, [m2[cur] EXCEPT !.kept = 0])
            /\ [m2[cur] EXCEPT !.status = "Done"].status = "Done"
            /\ [m2[cur] EXCEPT !.kept = 0].status = m2[cur].status
        BY <2>4, LastCarries
      <3>3. \/ last = [m2[cur] EXCEPT !.kept = 0]
            \/ last = [m2[cur] EXCEPT !.status = "Done"] /\ t \in Dependents(cur)
        BY <1>3 DEF m2
      <3>. QED  BY <3>1, <3>2, <3>3
    <2>9. t = cur /\ x.out # 0 => x.out \in ToSet(mem'[cur].prior)
      BY <2>1, <2>4, <2>7, <2>8, ResetCarries
    <2>. QED  BY <2>1, <2>4, <2>5, <2>7, <2>8, <2>9 DEF MovesTo
  <1>. HIDE DEF xs
  <1>4. CASE ExhaustedBranchTo(t)
    <2>1. mem = [mem EXCEPT ![cur] = mem[cur]] /\ mem[cur] \in xs
      BY <1>1 DEF States, xs
    <2>2. mem' = [ReenterFrom(mem, t) EXCEPT ![cur] = [ReenterFrom(mem, t)[cur] EXCEPT !.kept = 0]]
      BY <1>4 DEF ExhaustedBranchTo, GoOn
    <2>. QED  BY <1>1, <1>2, <1>3, <1>4, <2>1, <2>2
  <1>5. CASE BranchTo(t) /\ ~ExhaustedBranchTo(t)
    <2>. DEFINE x == IF t = cur THEN Rejected(mem[cur]) ELSE Noted(mem[cur])
                n == [mem EXCEPT ![cur] = x]
                last == IF t \in Dependents(cur) THEN [ReenterFrom(n, t)[cur] EXCEPT !.status = "Done"]
                        ELSE [ReenterFrom(n, t)[cur] EXCEPT !.kept = 0]
    <2>1. x \in xs
      BY DEF xs
    <2>2. mem' = [ReenterFrom(n, t) EXCEPT ![cur] = last]
      BY <1>5 DEF BranchTo, GoOn
    <2>3. \/ last = [ReenterFrom(n, t)[cur] EXCEPT !.kept = 0]
          \/ last = [ReenterFrom(n, t)[cur] EXCEPT !.status = "Done"] /\ t \in Dependents(cur)
      OBVIOUS
    <2>. HIDE DEF x, n, last
    <2>4. /\ MovesTo(t, x)
          /\ \/ mem'[cur].status \in {mem[cur].status, "Pending"}
             \/ mem'[cur].status = "Done" /\ t \in Dependents(cur)
      BY <1>3, <2>1, <2>2, <2>3 DEF n
    <2>. QED  BY <1>1, <1>2, <1>5, <2>4 DEF x
  <1>. QED  BY <1>4, <1>5

\* What holds of each step when control moves back.
LEMMA BackFacts ==
  ASSUME IInv, Repeat \/ RerunChain \/ (\E t \in Step : BranchTo(t) \/ ExhaustedBranchTo(t))
  PROVE  /\ disk' = disk /\ flow' = flow /\ cur' = cur /\ pc = "eval" /\ pc' = "top"
         /\ \A u \in Step :
              \/ Carried(mem[u], mem'[u])
              \/ /\ u = cur
                 /\ \E x \in {Rejected(mem[cur]), Noted(mem[cur])} : Carried(x, mem'[cur])
                 /\ mem[cur].out \in ToSet(mem'[cur].prior)
         /\ \A u \in Step : mem'[u].status \in {mem[u].status, "Pending", "Done"}
  <1>1. pc = "eval" /\ mem \in States /\ cur \in Step /\ mem[cur] \in StepState
        /\ mem[cur].ran \in Run /\ mem[cur].out \in Run /\ mem[cur].out # 0
    <2>1. pc = "eval"
      BY DEF Repeat, RerunChain, BranchTo, ExhaustedBranchTo, Judged
    <2>2. 0 \notin Run
      BY Bounds DEF Run
    <2>. QED  BY <2>1, <2>2, EvalFacts
  <1>2. disk' = disk /\ flow' = flow /\ cur' = cur /\ pc' = "top"
    BY DEF Repeat, RerunChain, BranchTo, ExhaustedBranchTo, GoOn
  <1>3. \A u \in Step : mem[u] \in StepState /\ Carried(mem[u], mem[u])
    BY <1>1 DEF States, Carried
  <1>4. /\ Rejected(mem[cur]) \in StepState /\ Rejected(mem[cur]).out = mem[cur].out
        /\ mem[cur].out \in ToSet(Noted(mem[cur]).prior)
    BY <1>1, NotedCarries
  <1>5. CASE Repeat
    <2>1. mem' = [mem EXCEPT ![cur] = Reset(Rejected(mem[cur]))]
      BY <1>5 DEF Repeat, GoOn
    <2>2. mem'[cur] = Reset(Rejected(mem[cur])) /\ \A u \in Step : u # cur => mem'[u] = mem[u]
      BY <1>1, <2>1 DEF States
    <2>3. Carried(Rejected(mem[cur]), mem'[cur]) /\ mem[cur].out \in ToSet(mem'[cur].prior)
      BY <1>1, <1>4, <2>2, ResetCarries
    <2>4. mem'[cur].status = "Pending"
      BY <1>4, <2>2, ResetCarries
    <2>. QED  BY <1>1, <1>2, <1>3, <2>2, <2>3, <2>4
  <1>6. CASE RerunChain
    <2>1. \A u \in Step : mem'[u] \in {mem[u], Reset(mem[u])}
      BY <1>6 DEF RerunChain, GoOn
    <2>. QED  BY <1>1, <1>2, <1>3, <2>1, ResetCarries
  <1>7. ASSUME NEW t \in Step, BranchTo(t) \/ ExhaustedBranchTo(t)
        PROVE  \A u \in Step :
                 \/ Carried(mem[u], mem'[u])
                 \/ /\ u = cur
                    /\ \E x \in {Rejected(mem[cur]), Noted(mem[cur])} : Carried(x, mem'[cur])
                    /\ mem[cur].out \in ToSet(mem'[cur].prior)
    <2>. DEFINE x == IF ExhaustedBranchTo(t) THEN mem[cur]
                     ELSE IF t = cur THEN Rejected(mem[cur]) ELSE Noted(mem[cur])
    <2>1. MovesTo(t, x)
      BY <1>7, BranchFacts
    <2>2. /\ \A u \in Step : u # cur => Carried(mem[u], mem'[u])
          /\ Carried(x, mem'[cur]) /\ (t = cur /\ x.out # 0 => x.out \in ToSet(mem'[cur].prior))
      BY <2>1 DEF MovesTo
    <2>3. CASE x = mem[cur]
      BY <2>2, <2>3
    <2>4. CASE x = Rejected(mem[cur]) /\ t = cur
      BY <1>1, <1>4, <2>2, <2>4
    <2>5. CASE x = Noted(mem[cur])
      <3>1. mem[cur].out \in ToSet(mem'[cur].prior)
        BY <1>4, <2>2, <2>5 DEF Carried
      <3>. QED  BY <2>2, <2>5, <3>1
    <2>. QED  BY <2>3, <2>4, <2>5
  <1>8. ASSUME NEW t \in Step, BranchTo(t) \/ ExhaustedBranchTo(t)
        PROVE  \A u \in Step : mem'[u].status \in {mem[u].status, "Pending", "Done"}
    BY <1>8, BranchFacts DEF MovesTo
  <1>. QED  BY <1>1, <1>2, <1>5, <1>6, <1>7, <1>8

\* The actions, grouped by what the lemmas above say of them.
LEMMA ActionCases ==
  ASSUME [Next]_vars
  PROVE  \/ UNCHANGED vars
         \/ \/ Top \/ CapReached \/ FindFailure \/ FindEffects \/ Complete \/ NothingToRun
            \/ \E s \in Step : ConditionFails(s)
            \/ LensConditionFails \/ EvalFails \/ Apply \/ ApplyFails \/ Crash
         \/ \E s \in Step : Skip(s)
         \/ \E s \in Step : StartReaper(s) \/ IntentFails(s) \/ Start(s)
         \/ Produce \/ Aggregate
         \/ \E b \in BOOLEAN :
              \/ CallFails(b) \/ ConsolidateFails(b)
              \/ \E good \in SUBSET Lens : LensesFail(good, b)
         \/ Accept \/ Continue \/ ExitFailure
         \/ Repeat \/ RerunChain \/ (\E t \in Step : BranchTo(t) \/ ExhaustedBranchTo(t))
         \/ Settle
         \/ Resume
         \/ StartAfresh
  BY DEF Next

-----------------------------------------------------------------------------
(* What an eval turned down *)

Kept(m) == \A s \in Step : m[s].rejected \subseteq ToSet(m[s].prior)

\* The outputs that are judged are those of the latest run, so what is noted is what is
\* turned down.
KInv ==
  /\ Kept(mem) /\ (disk # NoSnapshot => Kept(disk))
  /\ pc = "eval" => mem[cur].out = mem[cur].ran

LEMMA InitKInv == ASSUME Init PROVE KInv
  BY DEF Init, KInv, Kept, FreshStep

LEMMA NextKInv == ASSUME IInv, KInv, [Next]_vars PROVE KInv'
  <1>. DEFINE Goal == Kept(mem') /\ (disk' # NoSnapshot => Kept(disk')) /\ pc' # "eval"
  <1>1. Goal => KInv'
    BY DEF KInv
  <1>2. ASSUME Kept(mem'), disk' \in {disk, mem, mem', NoSnapshot}
        PROVE  disk' # NoSnapshot => Kept(disk')
    BY <1>2 DEF KInv
  <1>3. ASSUME NEW s \in Step, Only(s), SameHistory(s) PROVE Kept(mem')
    BY <1>3 DEF Kept, KInv, Only, SameHistory
  <1>4. CASE UNCHANGED vars
    BY <1>4 DEF vars, KInv, Kept
  <1>5. CASE \/ Top \/ CapReached \/ FindFailure \/ FindEffects \/ Complete \/ NothingToRun
             \/ \E s \in Step : ConditionFails(s)
             \/ LensConditionFails \/ EvalFails \/ Apply \/ ApplyFails \/ Crash
    <2>1. mem' = mem /\ disk' \in {disk, mem}
      BY <1>5, SameFacts
    <2>2. pc' # "eval"
      BY <1>5, SameFacts DEF FindEffects, Apply
    <2>3. Kept(mem')
      BY <2>1 DEF KInv
    <2>. QED  BY <1>1, <1>2, <2>1, <2>2, <2>3
  <1>6. ASSUME NEW s \in Step, Skip(s) PROVE KInv'
    BY <1>1, <1>2, <1>3, <1>6, SkipFacts
  <1>7. ASSUME NEW s \in Step, StartReaper(s) \/ IntentFails(s) \/ Start(s) PROVE KInv'
    BY <1>1, <1>2, <1>3, <1>7, BeginFacts
  <1>8. CASE Produce \/ Aggregate
    <2>1. /\ Only(cur) /\ SameHistory(cur) /\ disk' = disk /\ cur' = cur
          /\ mem'[cur].out = mem[cur].ran /\ mem'[cur].ran = mem[cur].ran
      BY <1>8, ProduceFacts
    <2>. QED  BY <1>2, <1>3, <2>1 DEF KInv, IInv, TypeOK
  <1>9. CASE \E b \in BOOLEAN :
               \/ CallFails(b) \/ ConsolidateFails(b)
               \/ \E good \in SUBSET Lens : LensesFail(good, b)
    <2>1. /\ Only(cur) /\ SameHistory(cur) /\ disk' \in {disk, mem', NoSnapshot} /\ pc' # "eval"
      BY <1>9, DriverFacts
    <2>. QED  BY <1>1, <1>2, <1>3, <2>1 DEF IInv, TypeOK
  <1>10. CASE Accept \/ Continue \/ ExitFailure
    <2>1. /\ Only(cur) /\ SameHistory(cur) /\ disk' \in {disk, mem', NoSnapshot} /\ pc' # "eval"
      BY <1>10, JudgedFacts
    <2>. QED  BY <1>1, <1>2, <1>3, <2>1 DEF IInv, TypeOK
  <1>11. CASE Repeat \/ RerunChain \/ (\E t \in Step : BranchTo(t) \/ ExhaustedBranchTo(t))
    <2>1. disk' = disk /\ pc = "eval" /\ pc' = "top"
      BY <1>11, BackFacts
    <2>2. ASSUME NEW u \in Step PROVE mem'[u].rejected \subseteq ToSet(mem'[u].prior)
      <3>1. CASE Carried(mem[u], mem'[u])
        BY <3>1 DEF Carried, KInv, Kept
      <3>2. ASSUME u = cur, NEW x \in {Rejected(mem[cur]), Noted(mem[cur])}, Carried(x, mem'[cur]),
                   mem[cur].out \in ToSet(mem'[cur].prior)
            PROVE  mem'[u].rejected \subseteq ToSet(mem'[u].prior)
        <4>1. mem[cur] \in StepState /\ mem[cur].ran \in Run /\ mem[cur].out \in Run
          BY <2>1, EvalFacts
        <4>2. /\ x.rejected = mem[cur].rejected \cup {mem[cur].ran}
              /\ ToSet(mem[cur].prior) \subseteq ToSet(x.prior)
          BY <4>1, <3>2, NotedCarries
        <4>3. mem[cur].ran = mem[cur].out /\ mem[cur].rejected \subseteq ToSet(mem[cur].prior)
          BY <2>1, <3>2 DEF KInv, Kept
        <4>. QED  BY <3>2, <4>2, <4>3 DEF Carried
      <3>. QED  BY <1>11, <3>1, <3>2, BackFacts
    <2>3. Kept(mem')
      BY <2>2 DEF Kept
    <2>. QED  BY <1>1, <1>2, <2>1, <2>3
  <1>12. CASE Settle
    <2>1. pc' # "eval"
      BY <1>12, SettleFacts
    <2>2. ASSUME NEW m \in {mem', disk'} PROVE Kept(m)
      <3>1. /\ \A u \in Step : u # cur => m[u] = mem[u]
            /\ m[cur].prior = mem[cur].prior /\ m[cur].rejected = mem[cur].rejected
        BY <1>12, SettleFacts
      <3>. QED  BY <3>1 DEF Kept, KInv
    <2>. QED  BY <1>1, <2>1, <2>2
  <1>13. CASE Resume
    BY <1>1, <1>13 DEF Resume, KInv
  <1>14. CASE StartAfresh
    BY <1>1, <1>14, AfreshFacts, FreshFacts DEF Kept
  <1>. QED
    BY <1>4, <1>5, <1>6, <1>7, <1>8, <1>9, <1>10, <1>11, <1>12, <1>13, <1>14, ActionCases

\* No outputs that an eval turned down are forgotten, for any workflow, through any
\* branches, failed writes, crashes and resumes.
THEOREM RejectedOutputsAreKept == Spec => []RejectedAreKept
  <1>1. KInv => RejectedAreKept
    BY DEF KInv, Kept, RejectedAreKept
  <1>. QED  BY <1>1, InitKInv, NextKInv, Invariance, PTL DEF Spec

-----------------------------------------------------------------------------
(* Terminal failures *)

Failed(m) == \E s \in Step : m[s].status = "TerminalFailure"

\* No work starts from a failed state, and the snapshot has the failure too, unless the
\* verdict says that it could not be saved.
NInv ==
  /\ pc \in {"run", "eval", "apply", "settle"} => ~Failed(mem)
  /\ verdict = "unsaved" => pc = "over"
  /\ Failed(mem) /\ verdict # "unsaved" => disk = mem

LEMMA InitNInv == ASSUME Init PROVE NInv
  BY DEF Init, NInv, Failed, FreshStep

LEMMA FailureFacts ==
  ASSUME NEW m, FinishFailure(m)
  PROVE  mem' = m /\ pc' = "over" /\ (verdict' # "unsaved" => disk' = m)
  BY DEF FinishFailure, Saved

\* Only finish_failure gives that verdict.
LEMMA UnsavedIsOver ==
  ASSUME [Next]_vars, verdict = "unsaved" => pc = "over"
  PROVE  verdict' = "unsaved" => pc' = "over"
  <1>1. CASE UNCHANGED vars
    BY <1>1 DEF vars
  <1>2. CASE \/ Top \/ CapReached \/ FindFailure \/ FindEffects \/ Complete \/ NothingToRun
             \/ \E s \in Step : Skip(s) \/ ConditionFails(s) \/ StartReaper(s) \/ IntentFails(s) \/ Start(s)
    BY <1>2 DEF Top, CapReached, FindFailure, FindEffects, Complete, NothingToRun, Skip, ConditionFails,
       StartReaper, IntentFails, Start, Choosing, Begin, Break, Commit, Abandon
  <1>3. CASE \/ Produce \/ LensConditionFails \/ Aggregate
             \/ \E b \in BOOLEAN :
                  \/ CallFails(b) \/ ConsolidateFails(b)
                  \/ \E good \in SUBSET Lens : LensesFail(good, b)
    BY <1>3 DEF Produce, LensConditionFails, Aggregate, CallFails, ConsolidateFails, LensesFail, DriverError,
       FinishFailure
  <1>4. CASE \/ EvalFails \/ Accept \/ Repeat \/ RerunChain \/ Continue \/ ExitFailure
             \/ \E t \in Step : BranchTo(t) \/ ExhaustedBranchTo(t)
    BY <1>4 DEF EvalFails, Accept, Repeat, RerunChain, Continue, ExitFailure, BranchTo, ExhaustedBranchTo,
       Judged, GoOn, Break, Commit, Abandon, FinishFailure
  <1>5. CASE Apply \/ ApplyFails \/ Settle \/ Crash \/ Resume \/ StartAfresh
    BY <1>5 DEF Apply, ApplyFails, Settle, Crash, Resume, StartAfresh, Commit, Abandon
  <1>. QED  BY <1>1, <1>2, <1>3, <1>4, <1>5 DEF Next

LEMMA NextNInv ==
  ASSUME IInv, NInv, [Next]_vars
  PROVE  /\ NInv'
         /\ \A s \in Step : mem[s].status = "TerminalFailure" /\ verdict # "unsaved" => mem'[s].status = "TerminalFailure"
  <1>. DEFINE Stays == \A s \in Step : mem[s].status = "TerminalFailure" /\ verdict # "unsaved"
                                         => mem'[s].status = "TerminalFailure"
  <1>1. ASSUME ~Failed(mem) PROVE Stays
    BY <1>1 DEF Failed
  <1>2. verdict' = "unsaved" => pc' = "over"
    BY UnsavedIsOver DEF NInv
  <1>3. ASSUME ~Failed(mem') PROVE NInv'
    BY <1>3, <1>2 DEF NInv
  <1>4. ASSUME NEW s \in Step, Only(s), ~Failed(mem), mem'[s].status # "TerminalFailure" PROVE ~Failed(mem')
    BY <1>4 DEF Failed, Only
  <1>5. cur \in Step
    BY DEF IInv, TypeOK
  <1>6. Choosing => ~Failed(mem)
    BY DEF Choosing, HasStatus, Failed
  <1>7. CASE UNCHANGED vars
    BY <1>7 DEF vars, NInv, Failed
  <1>8. CASE \/ Top \/ CapReached \/ FindFailure \/ FindEffects \/ Complete \/ NothingToRun
             \/ \E s \in Step : ConditionFails(s)
             \/ LensConditionFails \/ EvalFails \/ Apply \/ ApplyFails \/ Crash
    <2>1. mem' = mem /\ disk' \in {disk, mem}
      BY <1>8, SameFacts
    <2>2. pc' \in {"run", "eval", "apply", "settle"} => ~Failed(mem)
      BY <1>8, SameFacts DEF FindEffects, Apply, HasStatus, Failed, NInv
    <2>3. verdict # "unsaved"
      BY <1>8 DEF NInv, Top, CapReached, FindFailure, FindEffects, Complete, NothingToRun, Choosing, ConditionFails,
         LensConditionFails, EvalFails, Apply, ApplyFails, Crash
    <2>. QED  BY <1>2, <2>1, <2>2, <2>3 DEF NInv
  <1>9. ASSUME NEW s \in Step, Skip(s) PROVE NInv' /\ Stays
    <2>1. Only(s) /\ ~Failed(mem) /\ mem'[s].status = "Skipped"
      BY <1>6, <1>9, SkipFacts
    <2>. QED  BY <1>1, <1>3, <1>4, <2>1
  <1>10. ASSUME NEW s \in Step, StartReaper(s) \/ IntentFails(s) \/ Start(s) PROVE NInv' /\ Stays
    <2>1. Only(s) /\ ~Failed(mem) /\ mem'[s].status \in {"Pending", "EffectsPending"}
      BY <1>6, <1>10, BeginFacts
    <2>. QED  BY <1>1, <1>3, <1>4, <2>1
  <1>11. CASE Produce \/ Aggregate
    <2>1. Only(cur) /\ ~Failed(mem) /\ mem'[cur].status = mem[cur].status
      BY <1>11, ProduceFacts DEF NInv
    <2>2. mem'[cur].status # "TerminalFailure"
      BY <1>5, <2>1 DEF Failed
    <2>. QED  BY <1>1, <1>3, <1>4, <1>5, <2>1, <2>2
  <1>12. ASSUME NEW b \in BOOLEAN,
                \/ CallFails(b) \/ ConsolidateFails(b)
                \/ \E good \in SUBSET Lens : LensesFail(good, b)
         PROVE  NInv' /\ Stays
    <2>1. Only(cur) /\ ~Failed(mem) /\ mem'[cur].status \in {mem[cur].status, "TerminalFailure"} /\ pc' \in {"top", "over"}
      BY <1>12, DriverFacts DEF NInv
    <2>2. CASE mem'[cur].status = mem[cur].status
      <3>1. mem'[cur].status # "TerminalFailure"
        BY <1>5, <2>1, <2>2 DEF Failed
      <3>. QED  BY <1>1, <1>3, <1>4, <1>5, <2>1, <3>1
    <2>3. CASE mem'[cur].status = "TerminalFailure" /\ mem[cur].status # "TerminalFailure"
      <3>1. PICK st : DriverError(st, b) /\ st.status = mem[cur].status
        <4>1. mem[cur] \in StepState
          BY DEF IInv, TypeOK
        <4>2. \A x : [mem[cur] EXCEPT !.lens = x].status = mem[cur].status
          BY <4>1 DEF StepState
        <4>. QED  BY <1>12, <4>2 DEF CallFails, ConsolidateFails, LensesFail
      <3>2. \E m : FinishFailure(m)
        <4>1. mem' # [mem EXCEPT ![cur] = st]
          BY <1>5, <2>3, <3>1 DEF IInv, TypeOK
        <4>. QED  BY <3>1, <4>1 DEF DriverError
      <3>3. verdict' # "unsaved" => disk' = mem'
        BY <3>2, FailureFacts
      <3>. QED  BY <1>1, <1>2, <2>1, <3>3 DEF NInv
    <2>. QED  BY <2>1, <2>2, <2>3
  <1>13. CASE Accept \/ Continue \/ ExitFailure
    <2>1. Only(cur) /\ ~Failed(mem) /\ pc' \in {"top", "over"}
      BY <1>13, JudgedFacts DEF NInv
    <2>2. CASE ExitFailure
      <3>1. verdict' # "unsaved" => disk' = mem'
        BY <2>2, FailureFacts DEF ExitFailure
      <3>. QED  BY <1>1, <1>2, <2>1, <3>1 DEF NInv
    <2>3. CASE ~ExitFailure
      <3>1. mem'[cur].status # "TerminalFailure"
        <4>1. \E x \in {"EffectsPending", "DoneWithFailure"} : mem' = [mem EXCEPT ![cur].status = x]
          BY <1>13, <2>3, AbandonFacts DEF Accept, Continue, GoOn, Commit, IInv
        <4>2. mem \in States /\ mem[cur] \in StepState
          BY <1>5 DEF IInv, TypeOK, States
        <4>. QED  BY <1>5, <4>1, <4>2 DEF States, StepState
      <3>. QED  BY <1>1, <1>3, <1>4, <1>5, <2>1, <3>1
    <2>. QED  BY <2>2, <2>3
  <1>14. CASE Repeat \/ RerunChain \/ (\E t \in Step : BranchTo(t) \/ ExhaustedBranchTo(t))
    <2>1. ~Failed(mem) /\ \A u \in Step : mem'[u].status \in {mem[u].status, "Pending", "Done"}
      BY <1>14, BackFacts DEF NInv
    <2>2. ~Failed(mem')
      BY <2>1 DEF Failed
    <2>. QED  BY <1>1, <1>3, <2>1, <2>2
  <1>15. CASE Settle
    <2>1. ~Failed(mem) /\ Only(cur) /\ mem'[cur].status \in {"EffectsPending", "Done"}
      BY <1>15, SettleFacts DEF NInv, Only
    <2>. QED  BY <1>1, <1>3, <1>4, <1>5, <2>1
  <1>16. CASE Resume
    <2>1. mem' = disk /\ disk' = disk /\ disk # NoSnapshot /\ pc' = "top" /\ verdict' = "none"
      BY <1>16 DEF Resume
    <2>2. Stays
      BY <2>1 DEF NInv, Failed
    <2>. QED  BY <2>1, <2>2 DEF NInv
  <1>17. CASE StartAfresh
    <2>1. ~Failed(mem')
      BY <1>17, AfreshFacts, FreshFacts DEF Failed
    <2>2. Stays
      <3>1. mem # NoSnapshot
        BY NoSnapshotAssumption DEF IInv, TypeOK
      <3>. QED  BY <1>17, <3>1, AfreshFacts DEF NInv, Failed
    <2>. QED  BY <1>3, <2>1, <2>2
  <1>. QED
    BY <1>7, <1>8, <1>9, <1>10, <1>11, <1>12, <1>13, <1>14, <1>15, <1>16, <1>17, ActionCases

\* A failed step gets no other attempt, in this process or in one that resumes, for any
\* number of failed writes, unless the verdict says that the failure was not saved.
THEOREM FailuresAreFinal == Spec => NoSecondChance
  <1>1. IInv /\ NInv /\ [Next]_vars =>
          [\A s \in Step : mem[s].status = "TerminalFailure" /\ verdict # "unsaved"
             => mem'[s].status = "TerminalFailure"]_vars
    BY NextNInv
  <1>3. Spec => []NInv
    BY InitNInv, NextNInv, Invariance, PTL DEF Spec
  <1>. QED  BY <1>1, <1>3, Invariance, PTL DEF Spec, NoSecondChance

-----------------------------------------------------------------------------
(* The graph of a workflow *)

LEMMA DepsAreSteps == ASSUME IInv, NEW s \in Step PROVE flow[s].deps \subseteq Step
  <1>1. flow \in [Step -> StepDef]
    BY ConstantsAssumption DEF IInv, TypeOK
  <1>2. flow[s] \in StepDef
    BY <1>1
  <1>. QED  BY <1>2 DEF StepDef

\* A step that depends on a dependent of t, or on t, is a dependent of t.
LEMMA DependentsClosed ==
  ASSUME NEW t \in Step, NEW s \in Step, NEW d \in flow[s].deps, d = t \/ d \in Dependents(t)
  PROVE  s \in Dependents(t)
  <1>. SUFFICES ASSUME NEW D \in SUBSET Step,
                       \A u \in Step : flow[u].deps \cap (D \cup {t}) # {} => u \in D
       PROVE  s \in D
    BY DEF Dependents
  <1>1. d \in D \cup {t}
    BY DEF Dependents
  <1>. QED  BY <1>1

LEMMA DependentsLeast ==
  ASSUME NEW t, NEW D \in SUBSET Step,
         \A u \in Step : flow[u].deps \cap (D \cup {t}) # {} => u \in D
  PROVE  Dependents(t) \subseteq D
  BY DEF Dependents

LEMMA DependentsTransitive ==
  ASSUME NEW t \in Step, NEW u \in Dependents(t), NEW s \in Dependents(u)
  PROVE  s \in Dependents(t)
  <1>1. Dependents(t) \in SUBSET Step
    BY DEF Dependents
  <1>2. ASSUME NEW v \in Step, flow[v].deps \cap (Dependents(t) \cup {u}) # {} PROVE v \in Dependents(t)
    BY <1>2, DependentsClosed
  <1>3. Dependents(u) \subseteq Dependents(t)
    BY <1>1, <1>2, DependentsLeast
  <1>. QED  BY <1>3

\* A dependent of t has t, or another dependent of t, among its prerequisites.
LEMMA DependentsBackwards ==
  ASSUME NEW t \in Step, NEW s \in Dependents(t)
  PROVE  \E d \in flow[s].deps : d = t \/ d \in Dependents(t)
  <1>. DEFINE D == {v \in Dependents(t) : \E d \in flow[v].deps : d = t \/ d \in Dependents(t)}
  <1>1. D \in SUBSET Step
    BY DEF Dependents
  <1>2. ASSUME NEW v \in Step, flow[v].deps \cap (D \cup {t}) # {} PROVE v \in D
    <2>1. PICK d \in flow[v].deps : d = t \/ d \in Dependents(t)
      BY <1>2
    <2>2. v \in Dependents(t)
      BY <2>1, DependentsClosed
    <2>. QED  BY <2>1, <2>2
  <1>. HIDE DEF D
  <1>3. Dependents(t) \subseteq D
    BY <1>1, <1>2, DependentsLeast
  <1>. QED  BY <1>3 DEF D

\* The steps below which there is no cycle: the others can never run.
Grounded ==
  {s \in Step :
     \A D \in SUBSET Step : (\A u \in Step : flow[u].deps \subseteq D => u \in D) => s \in D}

LEMMA GroundedClosed ==
  ASSUME NEW s \in Step, flow[s].deps \subseteq Grounded
  PROVE  s \in Grounded
  <1>. SUFFICES ASSUME NEW D \in SUBSET Step, \A u \in Step : flow[u].deps \subseteq D => u \in D
       PROVE  s \in D
    BY DEF Grounded
  <1>1. Grounded \subseteq D
    BY DEF Grounded
  <1>. QED  BY <1>1

\* Induction over the steps that are grounded.
LEMMA GroundedLeast ==
  ASSUME NEW D \in SUBSET Step, \A u \in Step : flow[u].deps \subseteq D => u \in D
  PROVE  Grounded \subseteq D
  BY DEF Grounded

LEMMA GroundedIsAcyclic ==
  ASSUME IInv, NEW s \in Grounded
  PROVE  s \notin Dependents(s)
  <1>. DEFINE D == {v \in Step : v \notin Dependents(v)}
  <1>1. ASSUME NEW v \in Step, flow[v].deps \subseteq D PROVE v \in D
    <2>. SUFFICES ASSUME v \in Dependents(v) PROVE FALSE
      OBVIOUS
    <2>1. PICK d \in flow[v].deps : d = v \/ d \in Dependents(v)
      BY DependentsBackwards
    <2>2. d \in Step /\ d \notin Dependents(d)
      BY <1>1
    <2>3. d # v
      BY <2>2
    <2>4. v \in Dependents(d)
      BY <2>2, DependentsClosed
    <2>5. d \in Dependents(d)
      BY <2>1, <2>2, <2>3, <2>4, DependentsTransitive
    <2>. QED  BY <2>2, <2>5
  <1>2. D \in SUBSET Step
    OBVIOUS
  <1>. HIDE DEF D
  <1>3. Grounded \subseteq D
    BY <1>1, <1>2, GroundedLeast
  <1>. QED  BY <1>3 DEF D

-----------------------------------------------------------------------------
(* Fresh inputs *)

\* A rerun_chain, which does not look at dependents, can reset d.
Rerun(d) == \E t \in Step : flow[t].action = "rerun_chain" /\ d \in flow[t].rerun

\* What s saw of its prerequisites is what they say.
Rests(m, s) ==
  \A d \in flow[s].deps : Rerun(d) \/ (m[d].status \in Settled /\ m[s].basis[d] = m[d].out)

FreshIn(m) ==
  \A s \in Step :
    /\ m[s].status \in {"EffectsPending", "Done", "DoneWithFailure"} => Rests(m, s)
    /\ m[s].status # "Pending" => s \in Grounded

FInv ==
  /\ FreshIn(mem) /\ (disk # NoSnapshot => FreshIn(disk))
  /\ pc \in {"run", "eval"} => mem[cur].status = "Pending" /\ Rests(mem, cur) /\ cur \in Grounded

LEMMA InitFInv == ASSUME Init PROVE FInv
  BY DEF Init, FInv, FreshIn, FreshStep

\* The state of a step changes that is not settled, so nothing rests on it.
LEMMA FreshOnly ==
  ASSUME FreshIn(mem), NEW c \in Step, mem[c].status \notin Settled,
         NEW m, \A u \in Step : u # c => m[u] = mem[u],
         m[c].status \in {"EffectsPending", "Done", "DoneWithFailure"} => Rests(m, c),
         m[c].status # "Pending" => c \in Grounded,
         \A s \in Step : flow[s].deps \subseteq Step
  PROVE  FreshIn(m)
  <1>. SUFFICES ASSUME NEW s \in Step, s # c
       PROVE  /\ m[s].status \in {"EffectsPending", "Done", "DoneWithFailure"} => Rests(m, s)
              /\ m[s].status # "Pending" => s \in Grounded
    BY DEF FreshIn
  <1>. QED  BY DEF FreshIn, Rests

LEMMA RestsOnly ==
  ASSUME NEW c \in Step, Rests(mem, c), mem[c].status \notin Settled,
         NEW m, \A u \in Step : u # c => m[u] = mem[u], m[c].basis = mem[c].basis,
         flow[c].deps \subseteq Step
  PROVE  Rests(m, c)
  BY DEF Rests

LEMMA FreshBranch ==
  ASSUME IInv, FInv, NEW t \in Step, BranchTo(t) \/ ExhaustedBranchTo(t)
  PROVE  FreshIn(mem')
  <1>1. pc = "eval" /\ cur \in Step /\ ~Accepted(mem)
    BY EvalFacts, BranchFacts
  <1>2. /\ FreshIn(mem) /\ mem[cur].status = "Pending" /\ Rests(mem, cur) /\ cur \in Grounded
    BY <1>1 DEF FInv
  <1>3. PICK x \in {mem[cur], Rejected(mem[cur]), Noted(mem[cur])} : MovesTo(t, x)
    BY BranchFacts
  <1>4. mem'[cur].basis = mem[cur].basis
    <2>1. x.basis = mem[cur].basis
      BY <1>1, EvalFacts, NotedCarries
    <2>. QED  BY <1>3, <2>1 DEF MovesTo, Carried
  <1>5. mem'[cur].status = "Pending" \/ (mem'[cur].status = "Done" /\ t \in Dependents(cur))
    BY <1>2, BranchFacts
  <1>6. ASSUME NEW u \in Step, u # cur
        PROVE  /\ mem'[u].status = "Pending" \/ (mem'[u] = mem[u] /\ u # t)
               /\ u \in Dependents(t) /\ mem[u].status \in Settled => mem'[u].status = "Pending"
               /\ u # t /\ u \notin Dependents(t) => mem'[u] = mem[u]
    BY <1>3, <1>6 DEF MovesTo
  <1>7. ASSUME NEW s \in Step, s # cur, mem'[s].status # "Pending"
        PROVE  /\ mem'[s].status \in {"EffectsPending", "Done", "DoneWithFailure"} => Rests(mem', s)
               /\ s \in Grounded
    <2>1. mem'[s] = mem[s] /\ s # t /\ mem[s].status # "EffectsPending"
      BY <1>1, <1>6, <1>7 DEF Accepted
    <2>2. s \in Grounded
      BY <1>2, <1>7, <2>1 DEF FreshIn
    <2>3. ASSUME mem[s].status \in {"Done", "DoneWithFailure"},
                 NEW d \in flow[s].deps, ~Rerun(d)
          PROVE  mem'[d].status \in Settled /\ mem'[s].basis[d] = mem'[d].out
      <3>1. mem[d].status \in Settled /\ mem[s].basis[d] = mem[d].out /\ d \in Step
        BY <1>2, <2>3, DepsAreSteps DEF FreshIn, Rests
      <3>2. d # cur
        BY <1>2, <3>1 DEF Settled
      <3>3. s \notin Dependents(t)
        BY <1>6, <1>7, <2>3 DEF Settled
      <3>4. d # t /\ d \notin Dependents(t)
        BY <3>3, DependentsClosed
      <3>5. mem'[d] = mem[d]
        BY <1>6, <3>1, <3>2, <3>4
      <3>. QED  BY <2>1, <3>1, <3>5
    <2>. QED  BY <2>1, <2>2, <2>3 DEF Rests
  <1>8. ASSUME mem'[cur].status # "Pending" PROVE Rests(mem', cur)
    <2>1. t \in Dependents(cur) /\ cur \notin Dependents(cur)
      BY <1>2, <1>5, <1>8, GroundedIsAcyclic
    <2>2. cur \notin Dependents(t)
      BY <1>1, <2>1, DependentsTransitive
    <2>3. ASSUME NEW d \in flow[cur].deps, ~Rerun(d)
          PROVE  mem'[d].status \in Settled /\ mem'[cur].basis[d] = mem'[d].out
      <3>1. mem[d].status \in Settled /\ mem[cur].basis[d] = mem[d].out /\ d \in Step
        BY <1>1, <1>2, <2>3, DepsAreSteps DEF Rests
      <3>2. d # cur
        BY <1>2, <3>1 DEF Settled
      <3>3. d # t /\ d \notin Dependents(t)
        BY <1>1, <2>2, DependentsClosed
      <3>4. mem'[d] = mem[d]
        BY <1>6, <3>1, <3>2, <3>3
      <3>. QED  BY <1>4, <3>1, <3>4
    <2>. QED  BY <2>3 DEF Rests
  <1>. QED  BY <1>2, <1>7, <1>8 DEF FreshIn

LEMMA NextFInv == ASSUME IInv, FInv, [Next]_vars PROVE FInv'
  <1>. DEFINE Fresh == FreshIn(mem') /\ (disk' # NoSnapshot => FreshIn(disk'))
  <1>1. ASSUME flow' = flow, Fresh,
               \/ pc' \notin {"run", "eval"}
               \/ cur' \in Step /\ mem'[cur'].status = "Pending" /\ Rests(mem', cur') /\ cur' \in Grounded
        PROVE  FInv'
    BY <1>1 DEF FInv, FreshIn, Rests, Rerun, Grounded
  <1>2. ASSUME FreshIn(mem'), disk' \in {disk, mem, mem', NoSnapshot} PROVE Fresh
    BY <1>2 DEF FInv
  <1>3. \A s \in Step : flow[s].deps \subseteq Step
    BY DepsAreSteps
  <1>4. cur \in Step /\ FreshIn(mem)
    BY DEF IInv, TypeOK, FInv
  <1>5. ASSUME NEW s \in Step, Choosing, Picked(s)
        PROVE  /\ mem[s].status = "Pending" /\ s \in Grounded
               /\ \A d \in flow[s].deps : d \in Step /\ d # s /\ mem[d].status \in Settled
    <2>1. mem[s].status = "Pending" /\ \A d \in flow[s].deps : mem[d].status \in Settled
      BY <1>5 DEF Picked, First, Runnable
    <2>2. \A d \in flow[s].deps : d \in Step /\ d # s /\ d \in Grounded
      BY <1>3, <1>4, <2>1 DEF FreshIn, Settled
    <2>3. s \in Grounded
      BY <2>2, GroundedClosed
    <2>. QED  BY <2>1, <2>2, <2>3
  <1>6. CASE UNCHANGED vars
    BY <1>6 DEF vars, FInv, FreshIn, Rests, Rerun, Grounded
  <1>7. CASE \/ Top \/ CapReached \/ FindFailure \/ FindEffects \/ Complete \/ NothingToRun
             \/ \E s \in Step : ConditionFails(s)
             \/ LensConditionFails \/ EvalFails \/ Apply \/ ApplyFails \/ Crash
    <2>1. mem' = mem /\ disk' \in {disk, mem} /\ flow' = flow
      BY <1>7, SameFacts
    <2>2. pc' \notin {"run", "eval"}
      BY <1>7, SameFacts DEF FindEffects, Apply
    <2>. QED  BY <1>1, <1>2, <1>4, <2>1, <2>2
  <1>8. ASSUME NEW s \in Step, Skip(s) PROVE FInv'
    <2>1. /\ Only(s) /\ disk' = disk /\ flow' = flow /\ pc' = "top" /\ Choosing /\ Picked(s)
          /\ mem'[s].status = "Skipped"
      BY <1>8, SkipFacts
    <2>2. FreshIn(mem')
      BY <1>3, <1>4, <1>5, <2>1, FreshOnly DEF Only, Settled
    <2>. QED  BY <1>1, <1>2, <2>1, <2>2
  <1>9. ASSUME NEW s \in Step, StartReaper(s) \/ IntentFails(s) \/ Start(s) PROVE FInv'
    <2>1. /\ Only(s) /\ disk' \in {disk, mem'} /\ flow' = flow /\ Choosing /\ Picked(s)
          /\ mem'[s].basis = [d \in Step |-> IF d \in flow[s].deps THEN mem[d].out ELSE 0]
          /\ pc' \in {"top", "over"} \/ (pc' = "run" /\ cur' = s /\ mem'[s].status = "Pending")
      BY <1>9, BeginFacts
    <2>2. Rests(mem', s)
      BY <1>5, <2>1 DEF Rests, Only
    <2>3. FreshIn(mem')
      BY <1>3, <1>4, <1>5, <2>1, <2>2, FreshOnly DEF Only, Settled
    <2>. QED  BY <1>1, <1>2, <1>5, <2>1, <2>2, <2>3
  <1>10. CASE Produce \/ Aggregate
    <2>1. /\ Only(cur) /\ disk' = disk /\ flow' = flow /\ pc = "run" /\ cur' = cur
          /\ mem'[cur].status = mem[cur].status /\ mem'[cur].basis = mem[cur].basis
      BY <1>10, ProduceFacts
    <2>2. mem[cur].status = "Pending" /\ Rests(mem, cur) /\ cur \in Grounded
      BY <2>1 DEF FInv
    <2>3. Rests(mem', cur)
      BY <1>3, <1>4, <2>1, <2>2, RestsOnly DEF Only, Settled
    <2>4. FreshIn(mem')
      BY <1>3, <1>4, <2>1, <2>2, FreshOnly DEF Only, Settled
    <2>. QED  BY <1>1, <1>2, <1>4, <2>1, <2>2, <2>3, <2>4
  <1>11. ASSUME NEW b \in BOOLEAN,
                \/ CallFails(b) \/ ConsolidateFails(b)
                \/ \E good \in SUBSET Lens : LensesFail(good, b)
         PROVE  FInv'
    <2>1. /\ Only(cur) /\ disk' \in {disk, mem', NoSnapshot} /\ flow' = flow /\ pc = "run"
          /\ pc' \in {"top", "over"} /\ mem'[cur].status \in {mem[cur].status, "TerminalFailure"}
      BY <1>11, DriverFacts
    <2>2. mem[cur].status = "Pending" /\ cur \in Grounded
      BY <2>1 DEF FInv
    <2>3. FreshIn(mem')
      BY <1>3, <1>4, <2>1, <2>2, FreshOnly DEF Only, Settled
    <2>. QED  BY <1>1, <1>2, <2>1, <2>3
  <1>12. CASE Accept \/ Continue \/ ExitFailure
    <2>1. /\ Only(cur) /\ disk' \in {disk, mem', NoSnapshot} /\ flow' = flow /\ pc = "eval"
          /\ pc' \in {"top", "over"} /\ mem'[cur].basis = mem[cur].basis
      BY <1>12, JudgedFacts
    <2>2. mem[cur].status = "Pending" /\ Rests(mem, cur) /\ cur \in Grounded
      BY <2>1 DEF FInv
    <2>3. Rests(mem', cur)
      BY <1>3, <1>4, <2>1, <2>2, RestsOnly DEF Only, Settled
    <2>4. FreshIn(mem')
      BY <1>3, <1>4, <2>1, <2>2, <2>3, FreshOnly DEF Only, Settled
    <2>. QED  BY <1>1, <1>2, <2>1, <2>4
  <1>13. CASE Repeat \/ RerunChain \/ (\E t \in Step : BranchTo(t) \/ ExhaustedBranchTo(t))
    <2>1. disk' = disk /\ flow' = flow /\ pc = "eval" /\ pc' = "top"
      BY <1>13, BackFacts
    <2>2. mem[cur].status = "Pending" /\ mem \in States
      BY <2>1, EvalFacts DEF FInv
    <2>3. CASE Repeat
      <3>1. mem' = [mem EXCEPT ![cur] = Reset(Rejected(mem[cur]))]
        BY <2>3 DEF Repeat, GoOn
      <3>2. Rejected(mem[cur]) \in StepState
        BY <2>1, EvalFacts, RejectedFacts
      <3>3. mem'[cur].status = "Pending" /\ Only(cur)
        BY <1>4, <2>2, <3>1, <3>2, ResetCarries DEF Only, States
      <3>4. FreshIn(mem')
        BY <1>3, <1>4, <2>2, <3>3, FreshOnly DEF Only, Settled
      <3>. QED  BY <1>1, <1>2, <2>1, <3>4
    <2>4. CASE RerunChain
      <3>1. \A u \in Step : IF u \in flow[cur].rerun THEN mem'[u] = Reset(mem[u]) ELSE mem'[u] = mem[u]
        BY <2>4 DEF RerunChain, GoOn
      <3>2. \A u \in Step : mem'[u].status = "Pending" \/ mem'[u] = mem[u]
        BY <2>2, <3>1, ResetCarries DEF States
      <3>3. \A u \in flow[cur].rerun : Rerun(u)
        BY <1>4, <2>4 DEF RerunChain, Judged, Rerun
      <3>4. ASSUME NEW s \in Step, mem'[s].status # "Pending"
            PROVE  /\ mem'[s].status \in {"EffectsPending", "Done", "DoneWithFailure"} => Rests(mem', s)
                   /\ s \in Grounded
        <4>1. mem'[s] = mem[s]
          BY <3>2, <3>4
        <4>2. \A d \in flow[s].deps : Rerun(d) \/ mem'[d] = mem[d]
          BY <1>3, <3>1, <3>3
        <4>3. Rests(mem, s) => Rests(mem', s)
          BY <4>1, <4>2 DEF Rests
        <4>. QED  BY <1>4, <3>4, <4>1, <4>3 DEF FreshIn
      <3>5. FreshIn(mem')
        BY <3>4 DEF FreshIn
      <3>. QED  BY <1>1, <1>2, <2>1, <3>5
    <2>5. CASE \E t \in Step : BranchTo(t) \/ ExhaustedBranchTo(t)
      <3>1. FreshIn(mem')
        BY <2>5, FreshBranch
      <3>. QED  BY <1>1, <1>2, <2>1, <3>1
    <2>. QED  BY <1>13, <2>3, <2>4, <2>5
  <1>14. CASE Settle
    <2>1. flow' = flow /\ pc = "settle" /\ pc' \in {"top", "over"}
      BY <1>14, SettleFacts
    <2>2. mem[cur].status = "EffectsPending"
      BY <2>1, EffectFacts
    <2>3. Rests(mem, cur) /\ cur \in Grounded
      BY <1>4, <2>2 DEF FreshIn
    <2>4. ASSUME NEW m \in {mem', disk'} PROVE FreshIn(m)
      <3>1. (\A u \in Step : u # cur => m[u] = mem[u]) /\ m[cur].basis = mem[cur].basis
        BY <1>14, SettleFacts
      <3>2. Rests(m, cur)
        BY <1>3, <1>4, <2>2, <2>3, <3>1, RestsOnly DEF Settled
      <3>. QED  BY <1>3, <1>4, <2>2, <2>3, <3>1, <3>2, FreshOnly DEF Settled
    <2>. QED  BY <1>1, <2>1, <2>4
  <1>15. CASE Resume
    <2>1. mem' = disk /\ disk' = disk /\ disk # NoSnapshot /\ pc' = "top" /\ flow' = flow
      BY <1>15 DEF Resume
    <2>. QED  BY <1>1, <2>1 DEF FInv
  <1>16. CASE StartAfresh
    <2>1. FreshIn(mem')
      BY <1>16, AfreshFacts, FreshFacts DEF FreshIn
    <2>. QED  BY <1>1, <1>16, <2>1, AfreshFacts
  <1>. QED
    BY <1>6, <1>7, <1>8, <1>9, <1>10, <1>11, <1>12, <1>13, <1>14, <1>15, <1>16, ActionCases

\* No step rests on outputs that have been replaced, for any workflow, its cycles
\* included: what depends on a step that is entered again is entered again with it.
THEOREM InputsAreFresh == Spec => []FreshInputs
  <1>1. FInv => FreshInputs
    BY DEF FInv, FreshIn, Rests, Rerun, FreshInputs
  <1>. QED  BY <1>1, InitFInv, NextFInv, Invariance, PTL DEF Spec

-----------------------------------------------------------------------------
(* Fresh lenses *)

\* All that s depends on, and has aggregated, is older than the run n.
Older(m, s, n) ==
  /\ \A d \in flow[s].deps : m[d].ran < n
  /\ \A r \in ToSet(m[s].prior) \cup {m[s].out} : r < n

Waiting(m) == {s \in Step : m[s].status = "Pending" /\ \A d \in flow[s].deps : m[d].status \in Settled}

\* The steps with lens outputs of an attempt that failed.
Hot(m) == {s \in Step : \E l \in Lens : m[s].lens[l] # 0}

\* Such a step has failed, or is the next that runs: nothing else happens before.
NextUp(m, s) ==
  /\ flow[s].kind = "lensed"
  /\ m[s].status = "TerminalFailure" \/ (First(s, Waiting(m)) /\ ~Accepted(m))

Bounded(m) == \A s \in Step : \A r \in ToSet(m[s].prior) \cup {m[s].out, m[s].kept} : r <= m[s].ran

LensFresh(m) ==
  /\ Bounded(m) /\ \A s \in Hot(m) : NextUp(m, s)
  /\ \A s \in Step, l \in Lens : m[s].lens[l] # 0 => Older(m, s, m[s].lens[l])

\* What is assumed of the conditions: an attempt that failed and left lens outputs is not
\* followed by a skip of its step. Between two attempts nothing has changed that run_if
\* and skip_if can read, except the step's own attempt counters.
Steady == \A s \in Step : Skip(s) => s \notin Hot(mem)

LInv ==
  /\ LensFresh(mem) /\ (disk # NoSnapshot => LensFresh(disk))
  /\ pc \in {"eval", "apply", "settle"} => Hot(mem) = {}
  /\ pc = "run" => First(cur, Waiting(mem)) /\ Older(mem, cur, mem[cur].ran)

LEMMA InitLInv == ASSUME Init PROVE LInv
  <1>1. \A s \in Step : /\ mem[s].prior = <<>> /\ mem[s].out = 0 /\ mem[s].kept = 0 /\ mem[s].ran = 0
                        /\ \A l \in Lens : mem[s].lens[l] = 0
    BY DEF Init, FreshStep
  <1>2. ToSet(<<>>) = {}
    BY DEF ToSet
  <1>. QED  BY <1>1, <1>2 DEF Init, LInv, LensFresh, Bounded, Hot

LEMMA NoneHot ==
  ASSUME NEW m, Hot(m) = {}, Bounded(m)
  PROVE  LensFresh(m)
  BY DEF LensFresh, Hot

\* Only the next step that runs can have lens outputs, while nothing has failed.
LEMMA HotIsNext ==
  ASSUME LensFresh(mem), ~Failed(mem), NEW s \in Hot(mem), NEW c, First(c, Waiting(mem))
  PROVE  s = c /\ flow[s].kind = "lensed"
  <1>1. NextUp(mem, s) /\ s \in Step /\ c \in Step
    BY DEF LensFresh, Hot, First, Waiting
  <1>2. First(s, Waiting(mem)) /\ flow[s].kind = "lensed"
    BY <1>1 DEF NextUp, Failed
  <1>3. s <= c /\ c <= s
    BY <1>2 DEF First
  <1>4. s \in Int /\ c \in Int
    BY <1>1, Bounds DEF Step
  <1>. QED  BY <1>2, <1>3, <1>4

LEMMA SameWaiting ==
  ASSUME NEW m, NEW m2, \A s \in Step : m2[s].status = m[s].status,
         \A s \in Step : flow[s].deps \subseteq Step
  PROVE  Waiting(m2) = Waiting(m) /\ (Accepted(m2) <=> Accepted(m))
  BY DEF Waiting, Accepted

\* What is known of the numbers.
LEMMA RunNumbers ==
  ASSUME IInv, LInv, NEW s \in Step
  PROVE  /\ mem[s].ran \in Nat /\ runs \in Nat /\ mem[s].ran <= runs
         /\ \A r \in ToSet(mem[s].prior) \cup {mem[s].out, mem[s].kept} : r \in Nat /\ r <= mem[s].ran
  <1>1. mem[s] \in StepState
    BY DEF IInv, TypeOK
  <1>2. RunId \subseteq Nat /\ Run \subseteq Nat
    BY Bounds DEF RunId, Run
  <1>3. mem[s].prior \in Seq(Run) /\ mem[s].out \in RunId /\ mem[s].kept \in RunId
    BY <1>1 DEF StepState
  <1>4. ToSet(mem[s].prior) \subseteq Run
    BY <1>3 DEF ToSet
  <1>. QED  BY <1>2, <1>3, <1>4, Numbers DEF IInv, Core, Sound, LInv, LensFresh, Bounded

\* Control moves back, and nothing is hot.
LEMMA CarriedBounded ==
  ASSUME IInv, LInv, Repeat \/ RerunChain \/ (\E t \in Step : BranchTo(t) \/ ExhaustedBranchTo(t))
  PROVE  Bounded(mem') /\ Hot(mem') = {}
  <1>1. pc = "eval" /\ Hot(mem) = {}
    BY BackFacts DEF LInv
  <1>2. mem[cur] \in StepState /\ mem[cur].ran \in Run /\ mem[cur].out \in Run /\ cur \in Step
    BY <1>1, EvalFacts
  <1>3. ASSUME NEW u \in Step, NEW x, Carried(x, mem'[u]), x.lens = mem[u].lens, x.ran = mem[u].ran,
               x.out = mem[u].out, x.kept = mem[u].kept, 
               ToSet(x.prior) \subseteq ToSet(mem[u].prior) \cup {mem[u].out}
        PROVE  /\ \A r \in ToSet(mem'[u].prior) \cup {mem'[u].out, mem'[u].kept} : r <= mem'[u].ran
               /\ mem'[u].lens = mem[u].lens
    <2>1. /\ mem'[u].ran = mem[u].ran /\ mem'[u].lens = mem[u].lens
          /\ ToSet(mem'[u].prior) \subseteq ToSet(mem[u].prior) \cup {mem[u].out}
          /\ {mem'[u].out, mem'[u].kept} \subseteq {mem[u].out, mem[u].kept, 0}
      BY <1>3 DEF Carried
    <2>2. \A r \in ToSet(mem[u].prior) \cup {mem[u].out, mem[u].kept, 0} : r <= mem[u].ran
      BY RunNumbers
    <2>. QED  BY <2>1, <2>2
  <1>4. ASSUME NEW u \in Step
        PROVE  /\ \A r \in ToSet(mem'[u].prior) \cup {mem'[u].out, mem'[u].kept} : r <= mem'[u].ran
               /\ mem'[u].lens = mem[u].lens
    <2>1. CASE Carried(mem[u], mem'[u])
      BY <1>3, <2>1
    <2>2. ASSUME u = cur, NEW x \in {Rejected(mem[cur]), Noted(mem[cur])}, Carried(x, mem'[cur])
          PROVE  /\ \A r \in ToSet(mem'[u].prior) \cup {mem'[u].out, mem'[u].kept} : r <= mem'[u].ran
                 /\ mem'[u].lens = mem[u].lens
      <3>1. /\ x.lens = mem[u].lens /\ x.ran = mem[u].ran /\ x.out = mem[u].out /\ x.kept = mem[u].kept
            /\ ToSet(x.prior) \subseteq ToSet(mem[u].prior) \cup {mem[u].out}
        BY <1>2, <2>2, NotedCarries
      <3>. QED  BY <1>3, <2>2, <3>1
    <2>. QED  BY <2>1, <2>2, BackFacts
  <1>5. Bounded(mem')
    BY <1>4 DEF Bounded
  <1>6. Hot(mem') = Hot(mem)
    BY <1>4 DEF Hot
  <1>. QED  BY <1>1, <1>5, <1>6

LEMMA BoundedOnly ==
  ASSUME Bounded(mem), NEW c \in Step, NEW m, \A u \in Step : u # c => m[u] = mem[u],
         \A r \in ToSet(m[c].prior) \cup {m[c].out, m[c].kept} : r <= m[c].ran
  PROVE  Bounded(m)
  BY DEF Bounded

\* The state of one step changes, and the lens outputs in it stay, or go.
LEMMA HotOnly ==
  ASSUME Hot(mem) = {}, NEW c \in Step, NEW m, \A u \in Step : u # c => m[u] = mem[u],
         m[c].lens = mem[c].lens
  PROVE  Hot(m) = {}
  BY DEF Hot

LEMMA NextLInv == ASSUME Steady, IInv, NInv, LInv, [Next]_vars PROVE LInv'
  <1>. DEFINE Fresh == LensFresh(mem') /\ (disk' # NoSnapshot => LensFresh(disk'))
  <1>1. ASSUME flow' = flow, Fresh,
               pc' \in {"eval", "apply", "settle"} => Hot(mem') = {},
               pc' = "run" => cur' \in Step /\ First(cur', Waiting(mem')) /\ Older(mem', cur', mem'[cur'].ran)
        PROVE  LInv'
    BY <1>1 DEF LInv, LensFresh, Bounded, Hot, NextUp, First, Waiting, Accepted, Older
  <1>2. ASSUME LensFresh(mem'), disk' \in {disk, mem, mem', NoSnapshot} PROVE Fresh
    BY <1>2 DEF LInv
  <1>3. /\ cur \in Step /\ LensFresh(mem) /\ Bounded(mem) /\ flow \in Workflows
        /\ \A s \in Step : flow[s].deps \subseteq Step
    BY DepsAreSteps DEF IInv, TypeOK, LInv, LensFresh
  <1>4. ASSUME Choosing, NEW s \in Step, Picked(s)
        PROVE  ~Failed(mem) /\ ~Accepted(mem) /\ First(s, Waiting(mem))
    BY <1>4 DEF Choosing, HasStatus, Failed, Accepted, Picked, First, Waiting, Runnable
  <1>5. CASE UNCHANGED vars
    BY <1>5 DEF vars, LInv, LensFresh, Bounded, Hot, NextUp, First, Waiting, Accepted, Older
  <1>6. CASE \/ Top \/ CapReached \/ FindFailure \/ FindEffects \/ Complete \/ NothingToRun
             \/ \E s \in Step : ConditionFails(s)
             \/ LensConditionFails \/ EvalFails \/ Apply \/ ApplyFails \/ Crash
    <2>1. mem' = mem /\ disk' \in {disk, mem} /\ flow' = flow
      BY <1>6, SameFacts
    <2>2. pc' \in {"run", "eval", "apply", "settle"} => FindEffects \/ Apply
      BY <1>6, SameFacts
    <2>3. FindEffects => pc' = "apply" /\ Hot(mem) = {}
      BY <1>3 DEF FindEffects, HasStatus, First, Accepted, LensFresh, NextUp, Hot
    <2>4. Apply => pc' = "settle" /\ Hot(mem) = {}
      BY DEF Apply, LInv
    <2>. QED  BY <1>1, <1>2, <1>3, <2>1, <2>2, <2>3, <2>4
  <1>7. ASSUME NEW s \in Step, Skip(s) PROVE LInv'
    <2>1. /\ \A u \in Step : u # s => mem'[u] = mem[u]
          /\ disk' = disk /\ flow' = flow /\ pc' = "top"
          /\ Choosing /\ Picked(s) /\ flow[s].conditional /\ mem'[s].ran = mem[s].ran
          /\ mem'[s].lens = mem[s].lens /\ mem'[s].prior = mem[s].prior
          /\ mem'[s].out \in {mem[s].out, mem[s].kept, 0} /\ mem'[s].kept \in {mem[s].kept, 0}
      BY <1>7, SkipFacts DEF Only, SameHistory
    <2>2. s \notin Hot(mem)
      BY <1>7 DEF Steady
    <2>3. Hot(mem) = {}
      BY <1>3, <1>4, <2>1, <2>2, HotIsNext
    <2>4. Hot(mem') = {}
      BY <2>1, <2>3, HotOnly
    <2>5. Bounded(mem')
      <3>1. \A r \in ToSet(mem'[s].prior) \cup {mem'[s].out, mem'[s].kept} : r <= mem'[s].ran
        BY <2>1, RunNumbers
      <3>. QED  BY <1>3, <2>1, <3>1, BoundedOnly
    <2>. QED  BY <1>1, <1>2, <2>1, <2>4, <2>5, NoneHot
  <1>8. ASSUME NEW s \in Step, StartReaper(s) \/ IntentFails(s) \/ Start(s) PROVE LInv'
    <2>1. /\ \A u \in Step : u # s => mem'[u] = mem[u]
          /\ disk' \in {disk, mem'} /\ flow' = flow /\ Choosing /\ Picked(s)
          /\ mem'[s].prior = mem[s].prior /\ mem'[s].status \in {"Pending", "EffectsPending"}
          /\ mem'[s].ran = runs + 1
          /\ mem'[s].out = mem[s].out /\ mem'[s].kept = mem[s].kept /\ mem'[s].lens = mem[s].lens
          /\ (mem'[s].status = "EffectsPending" => flow[s].kind = "reaper")
          /\ \/ pc' \in {"top", "over"}
             \/ pc' = "run" /\ cur' = s /\ mem'[s].status = "Pending"
      BY <1>8, BeginFacts DEF Only, SameHistory
    <2>2. ~Failed(mem) /\ ~Accepted(mem) /\ First(s, Waiting(mem)) /\ mem[s].status = "Pending"
      BY <1>4, <2>1 DEF First, Waiting
    <2>3. \A d \in flow[s].deps : d \in Step /\ d # s
      BY <1>3, <2>2 DEF First, Waiting, Settled
    <2>4. Bounded(mem')
      <3>1. \A r \in ToSet(mem'[s].prior) \cup {mem'[s].out, mem'[s].kept} : r <= mem'[s].ran
        BY <2>1, RunNumbers
      <3>. QED  BY <1>3, <2>1, <3>1, BoundedOnly
    <2>5. CASE mem'[s].status = "EffectsPending"
      <3>1. Hot(mem) = {}
        BY <1>3, <2>1, <2>2, <2>5, HotIsNext
      <3>2. Hot(mem') = {}
        BY <2>1, <3>1, HotOnly
      <3>. QED  BY <1>1, <1>2, <2>1, <2>4, <2>5, <3>2, NoneHot
    <2>6. CASE mem'[s].status = "Pending"
      <3>1. \A u \in Step : mem'[u].status = mem[u].status
        BY <2>1, <2>2, <2>6
      <3>2. Waiting(mem') = Waiting(mem) /\ ~Accepted(mem')
        BY <1>3, <2>2, <3>1, SameWaiting
      <3>3. Older(mem', s, mem'[s].ran)
        <4>1. \A d \in flow[s].deps : mem'[d].ran < runs + 1
          BY <2>1, <2>3, RunNumbers
        <4>2. \A r \in ToSet(mem'[s].prior) \cup {mem'[s].out} : r < runs + 1
          BY <2>1, RunNumbers
        <4>. QED  BY <2>1, <4>1, <4>2 DEF Older
      <3>4. \A u \in Hot(mem') : u \in Hot(mem) /\ u = s /\ flow[s].kind = "lensed"
        <4>1. Hot(mem') = Hot(mem)
          BY <2>1 DEF Hot
        <4>. QED  BY <1>3, <2>2, <4>1, HotIsNext
      <3>5. \A u \in Hot(mem') : NextUp(mem', u)
        BY <2>2, <3>2, <3>4 DEF NextUp
      <3>6. ASSUME NEW u \in Step, NEW l \in Lens, mem'[u].lens[l] # 0
            PROVE  Older(mem', u, mem'[u].lens[l])
        <4>1. u = s /\ mem'[s].lens = mem[s].lens
          BY <2>1, <3>4, <3>6 DEF Hot
        <4>2. Older(mem, s, mem[s].lens[l])
          BY <1>3, <3>6, <4>1 DEF LensFresh
        <4>. QED  BY <2>1, <2>3, <4>1, <4>2 DEF Older
      <3>7. LensFresh(mem')
        BY <2>4, <3>5, <3>6 DEF LensFresh
      <3>. QED  BY <1>1, <1>2, <2>1, <2>2, <3>2, <3>3, <3>7
    <2>. QED  BY <2>1, <2>5, <2>6
  <1>9. ASSUME pc = "run"
        PROVE  /\ ~Failed(mem) /\ ~Accepted(mem) /\ First(cur, Waiting(mem)) /\ Older(mem, cur, mem[cur].ran)
               /\ mem[cur].status = "Pending" /\ \A d \in flow[cur].deps : d \in Step /\ d # cur
               /\ \A u \in Hot(mem) : u = cur /\ flow[cur].kind = "lensed"
    <2>1. ~Failed(mem) /\ ~Accepted(mem) /\ First(cur, Waiting(mem)) /\ Older(mem, cur, mem[cur].ran)
      BY <1>9 DEF NInv, IInv, Places, LInv
    <2>2. mem[cur].status = "Pending" /\ \A d \in flow[cur].deps : d \in Step /\ d # cur
      BY <1>3, <2>1 DEF First, Waiting, Settled
    <2>. QED  BY <1>3, <2>1, <2>2, HotIsNext
  <1>10. CASE Produce \/ Aggregate
    <2>1. /\ \A u \in Step : u # cur => mem'[u] = mem[u]
          /\ disk' = disk /\ flow' = flow /\ pc = "run" /\ pc' = "eval" /\ cur' = cur
          /\ mem'[cur].prior = mem[cur].prior /\ mem'[cur].ran = mem[cur].ran
          /\ mem'[cur].out = mem[cur].ran /\ mem'[cur].kept = 0
          /\ \/ flow[cur].kind # "lensed" /\ mem'[cur].lens = mem[cur].lens
             \/ \A l \in Lens : mem'[cur].lens[l] = 0
      BY <1>10, ProduceFacts DEF Only, SameHistory
    <2>2. Hot(mem') = {}
      BY <1>9, <2>1 DEF Hot
    <2>3. Bounded(mem')
      <3>1. \A r \in ToSet(mem'[cur].prior) \cup {mem'[cur].out, mem'[cur].kept} : r <= mem'[cur].ran
        BY <1>3, <2>1, RunNumbers
      <3>. QED  BY <1>3, <2>1, <3>1, BoundedOnly
    <2>. QED  BY <1>1, <1>2, <2>1, <2>2, <2>3, NoneHot
  <1>11. ASSUME NEW b \in BOOLEAN,
                \/ CallFails(b) \/ ConsolidateFails(b)
                \/ \E good \in SUBSET Lens : LensesFail(good, b)
         PROVE  LInv'
    <2>1. /\ \A u \in Step : u # cur => mem'[u] = mem[u]
          /\ disk' \in {disk, mem', NoSnapshot} /\ pc' \in {"top", "over"} /\ pc = "run" /\ flow' = flow
          /\ mem'[cur].prior = mem[cur].prior /\ mem'[cur].status \in {mem[cur].status, "TerminalFailure"}
          /\ mem'[cur].ran = mem[cur].ran /\ mem'[cur].out = mem[cur].out /\ mem'[cur].kept = mem[cur].kept
          /\ \/ flow[cur].kind # "lensed" /\ mem'[cur].lens = mem[cur].lens
             \/ /\ flow[cur].kind = "lensed"
                /\ \A l \in Lens : mem'[cur].lens[l] \in {mem[cur].lens[l], mem[cur].ran, 0}
      BY <1>11, DriverFacts DEF Only, SameHistory
    <2>2. Bounded(mem')
      <3>1. \A r \in ToSet(mem'[cur].prior) \cup {mem'[cur].out, mem'[cur].kept} : r <= mem'[cur].ran
        BY <1>3, <2>1, RunNumbers
      <3>. QED  BY <1>3, <2>1, <3>1, BoundedOnly
    <2>3. \A u \in Hot(mem') : u = cur /\ flow[cur].kind = "lensed"
      BY <1>9, <2>1 DEF Hot
    <2>4. ASSUME mem'[cur].status = mem[cur].status
          PROVE  First(cur, Waiting(mem')) /\ ~Accepted(mem')
      <3>1. \A u \in Step : mem'[u].status = mem[u].status
        BY <2>1, <2>4
      <3>. QED  BY <1>3, <1>9, <2>1, <3>1, SameWaiting
    <2>5. \A u \in Hot(mem') : NextUp(mem', u)
      BY <2>1, <2>3, <2>4 DEF NextUp
    <2>6. ASSUME NEW u \in Step, NEW l \in Lens, mem'[u].lens[l] # 0
          PROVE  Older(mem', u, mem'[u].lens[l])
      <3>1. u = cur /\ flow[cur].kind = "lensed"
        BY <2>3, <2>6 DEF Hot
      <3>2. mem'[cur].lens[l] \in {mem[cur].lens[l], mem[cur].ran}
        BY <2>1, <2>6, <3>1
      <3>3. Older(mem, cur, mem'[cur].lens[l])
        BY <1>3, <1>9, <2>1, <2>6, <3>1, <3>2 DEF LensFresh
      <3>. QED  BY <1>9, <2>1, <3>1, <3>3 DEF Older
    <2>7. LensFresh(mem')
      BY <2>2, <2>5, <2>6 DEF LensFresh
    <2>. QED  BY <1>1, <1>2, <2>1, <2>7
  <1>12. CASE Accept \/ Continue \/ ExitFailure
    <2>1. /\ \A u \in Step : u # cur => mem'[u] = mem[u]
          /\ disk' \in {disk, mem', NoSnapshot} /\ flow' = flow /\ pc = "eval" /\ pc' \in {"top", "over"}
          /\ mem'[cur].prior = mem[cur].prior /\ mem'[cur].lens = mem[cur].lens
          /\ mem'[cur].ran = mem[cur].ran /\ mem'[cur].out = mem[cur].out /\ mem'[cur].kept = mem[cur].kept
      BY <1>12, JudgedFacts DEF Only, SameHistory
    <2>2. Hot(mem) = {}
      BY <2>1 DEF LInv
    <2>3. Hot(mem') = {}
      BY <1>3, <2>1, <2>2, HotOnly
    <2>4. Bounded(mem')
      <3>1. \A r \in ToSet(mem'[cur].prior) \cup {mem'[cur].out, mem'[cur].kept} : r <= mem'[cur].ran
        BY <1>3, <2>1, RunNumbers
      <3>. QED  BY <1>3, <2>1, <3>1, BoundedOnly
    <2>. QED  BY <1>1, <1>2, <2>1, <2>3, <2>4, NoneHot
  <1>13. CASE Repeat \/ RerunChain \/ (\E t \in Step : BranchTo(t) \/ ExhaustedBranchTo(t))
    <2>1. disk' = disk /\ flow' = flow /\ pc' = "top"
      BY <1>13, BackFacts
    <2>2. Bounded(mem') /\ Hot(mem') = {}
      BY <1>13, CarriedBounded
    <2>. QED  BY <1>1, <1>2, <2>1, <2>2, NoneHot
  <1>14. CASE Settle
    <2>1. flow' = flow /\ pc = "settle" /\ pc' \in {"top", "over"}
      BY <1>14, SettleFacts
    <2>2. Hot(mem) = {}
      BY <2>1 DEF LInv
    <2>3. ASSUME NEW m \in {mem', disk'} PROVE LensFresh(m)
      <3>1. /\ \A u \in Step : u # cur => m[u] = mem[u]
            /\ m[cur].ran = mem[cur].ran /\ m[cur].lens = mem[cur].lens /\ m[cur].prior = mem[cur].prior
            /\ m[cur].out \in {mem[cur].out, mem[cur].ran} /\ m[cur].kept = mem[cur].kept
        BY <1>14, SettleFacts
      <3>2. \A r \in ToSet(m[cur].prior) \cup {m[cur].out, m[cur].kept} : r <= m[cur].ran
        BY <1>3, <3>1, RunNumbers
      <3>3. Bounded(m)
        BY <1>3, <3>1, <3>2, BoundedOnly
      <3>4. Hot(m) = {}
        BY <1>3, <2>2, <3>1, HotOnly
      <3>. QED  BY <3>3, <3>4, NoneHot
    <2>. QED  BY <1>1, <2>1, <2>3
  <1>15. CASE Resume
    <2>1. mem' = disk /\ disk' = disk /\ disk # NoSnapshot /\ pc' = "top" /\ flow' = flow
      BY <1>15 DEF Resume
    <2>. QED  BY <1>1, <2>1 DEF LInv
  <1>16. CASE StartAfresh
    <2>1. LensFresh(mem') /\ Hot(mem') = {}
      <3>1. ToSet(<<>>) = {}
        BY DEF ToSet
      <3>. QED  BY <1>16, <3>1, AfreshFacts, FreshFacts DEF LensFresh, Bounded, Hot
    <2>. QED  BY <1>1, <1>16, <2>1, AfreshFacts
  <1>. QED
    BY <1>5, <1>6, <1>7, <1>8, <1>10, <1>11, <1>12, <1>13, <1>14, <1>15, <1>16, ActionCases

\* A lens output that a retry uses again is newer than all that the step depends on, for
\* any workflow, in the behaviours where no condition turns against a step between two
\* of its attempts.
THEOREM LensesAreFresh == Spec /\ [][Steady]_vars => []FreshLens
  <1>1. LInv => FreshLens
    BY DEF LInv, LensFresh, Older, FreshLens
  <1>2. IInv /\ NInv /\ LInv /\ [Next]_vars /\ [Steady]_vars => LInv'
    <2>1. LInv /\ UNCHANGED vars => LInv'
      BY DEF vars, LInv, LensFresh, Bounded, Hot, NextUp, First, Waiting, Accepted, Older
    <2>. QED  BY <2>1, NextLInv
  <1>3. Spec => []NInv
    BY InitNInv, NextNInv, Invariance, PTL DEF Spec
  <1>. QED  BY <1>1, <1>2, <1>3, InitLInv, Invariance, PTL DEF Spec

=============================================================================
