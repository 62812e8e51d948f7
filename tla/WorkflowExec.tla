---------------------------- MODULE WorkflowExec ----------------------------
(***************************************************************************)
(* The workflow executor: run_internal of kres-agents/src/workflow_exec.rs *)
(* with the effects of its driver, LlmDriver, the snapshot file, crashes   *)
(* and resumes.                                                            *)
(*                                                                         *)
(* The steps of a workflow are the numbers of their places in the file.    *)
(* Every start of a step by the driver, or of a reaper's intent, gets a    *)
(* number of its own, a run, which stands for the outputs and the effects  *)
(* it produces; 0 stands for no outputs. The expressions of a workflow     *)
(* (evals, run_if, skip_if, completion) may say anything.                  *)
(*                                                                         *)
(* A step of one loop iteration ends where the code awaits the driver or   *)
(* writes the snapshot: there the process can be killed.                   *)
(***************************************************************************)
EXTENDS Integers, FiniteSets, SequencesExt

CONSTANTS
  Steps,        \* number of steps of a workflow
  Lens,         \* lenses of a lensed step
  Workflows,    \* the workflows considered
  NoSnapshot,   \* the snapshot file does not exist
  RunBound,     \* bound of the model: runs
  FaultBound,   \* bound of the model: failed writes and failed effects
  ResumeBound   \* bound of the model: resumes

Step     == 1 .. Steps
Run      == 1 .. RunBound
RunId    == 0 .. RunBound
Action   == {"none", "repeat", "rerun_chain", "branch_to", "continue", "exit_failure"}
Exhaust  == {"exit_failure", "continue", "branch_to"}

\* What the executor reads of a step. A "shared" step has lenses that the driver runs
\* itself, a "lensed" one has lenses that the executor runs. "none" is a step without
\* eval; a reaper has none. A branch_to_output can name any of several targets.
StepDef ==
  [deps : SUBSET Step, kind : {"llm", "shared", "lensed", "reaper"}, conditional : BOOLEAN,
   preserve : BOOLEAN, terminal : BOOLEAN, action : Action, attempts : Nat \ {0},
   exhaust : Exhaust, targets : SUBSET Step, rerun : SUBSET Step]

ASSUME ConstantsAssumption ==
  /\ Steps \in Nat \ {0} /\ {RunBound, FaultBound, ResumeBound} \subseteq Nat
  /\ Workflows \subseteq [Step -> StepDef]
  /\ \A w \in Workflows, s \in Step : w[s].kind = "reaper" => w[s].action = "none"

VARIABLES
  flow,      \* the workflow
  mem,       \* the states of the steps, in memory
  disk,      \* the same in the snapshot file
  pc,        \* where the executor is
  cur,       \* the step it works on
  verdict,   \* how the run ended
  runs,      \* number of runs so far
  applied,   \* the latest run of each step whose effects reached the workspace, since
             \* the states were last fresh
  faults, resumes

vars == <<flow, mem, disk, pc, cur, verdict, runs, applied, faults, resumes>>

Status  == {"Pending", "EffectsPending", "Skipped", "Done", "DoneWithFailure", "TerminalFailure"}
Settled == {"Skipped", "Done", "DoneWithFailure"}

\* ran, basis and rejected are not in the code: the latest run, the outputs of the
\* prerequisites it saw, and the runs whose outputs an eval turned down with repeat or
\* branch_to.
StepState ==
  [status : Status, attempt : Nat, ran : RunId, out : RunId, kept : RunId,
   prior : Seq(Run), lens : [Lens -> RunId], basis : [Step -> RunId],
   rejected : SUBSET Run]

ASSUME NoSnapshotAssumption == NoSnapshot \notin [Step -> StepState]

FreshStep ==
  [status |-> "Pending", attempt |-> 0, ran |-> 0, out |-> 0, kept |-> 0, prior |-> <<>>,
   lens |-> [l \in Lens |-> 0], basis |-> [d \in Step |-> 0], rejected |-> {}]

Place == {"top", "choose", "apply", "settle", "run", "eval", "over", "down"}
\* "unsaved" is a failure whose message says that the terminal state could not be persisted.
Verdict == {"none", "success", "terminal", "failure", "unsaved", "deadlock", "cap"}

TypeOK ==
  /\ flow \in Workflows /\ mem \in [Step -> StepState]
  /\ disk \in [Step -> StepState] \cup {NoSnapshot}
  /\ pc \in Place /\ cur \in Step /\ verdict \in Verdict /\ runs \in RunId
  /\ applied \in [Step -> RunId] /\ faults \in 0 .. FaultBound
  /\ resumes \in 0 .. ResumeBound

Init ==
  /\ flow \in Workflows
  /\ mem = [s \in Step |-> FreshStep] /\ disk = NoSnapshot
  /\ pc = "top" /\ cur = 1 /\ verdict = "none" /\ runs = 0
  /\ applied = [s \in Step |-> 0] /\ faults = 0 /\ resumes = 0

-----------------------------------------------------------------------------
(* The snapshot *)

\* WorkflowSnapshot::save writes a scratch file, syncs it and renames it; it can
\* report an error before the rename and after it.
Saved(m) == disk' = m /\ UNCHANGED faults

NotSaved(m) ==
  /\ faults < FaultBound /\ faults' = faults + 1
  /\ disk' \in {disk, m}

\* snapshot_save: the error is logged.
TrySave == Saved(mem') \/ NotSaved(mem')

\* The loop is left by break: the final snapshot is tried, with the states in m.
Break(m, v) == mem' = m /\ pc' = "over" /\ verdict' = v /\ TrySave

\* Mutant: the failure is saved like any other state.
FinishFailureBestEffort(m) == Break(m, "failure")

\* finish_failure: a terminal state that cannot be saved takes the snapshot with it,
\* unless the removal fails too, and the verdict says that it was not saved.
FinishFailure(m) ==
  /\ mem' = m /\ pc' = "over"
  /\ \/ verdict' = "failure" /\ Saved(m)
     \/ /\ verdict' = "unsaved"
        /\ \/ faults < FaultBound /\ faults' = faults + 1 /\ disk' = NoSnapshot
           \/ faults + 1 < FaultBound /\ faults' = faults + 2 /\ disk' \in {disk, m}

\* A save or an effect failed: the run ends with the states in m, and the final snapshot
\* is tried. If that fails too, the snapshot is what it was, or m, or tried.
Abandon(m, tried) ==
  /\ faults < FaultBound /\ mem' = m /\ pc' = "over" /\ verdict' = "failure"
  /\ \/ faults' = faults + 1 /\ disk' = m
     \/ faults + 1 < FaultBound /\ faults' = faults + 2 /\ disk' \in {disk, m, tried}

\* A state that must be durable before the executor goes on to place p; if it cannot be
\* saved, the run ends with the states in m2.
Commit(m, p, m2) ==
  \/ mem' = m /\ pc' = p /\ Saved(m) /\ verdict' = IF p = "over" THEN "terminal" ELSE verdict
  \/ Abandon(m2, m)

-----------------------------------------------------------------------------
(* The workflow graph *)

\* The steps that depend on t, through any number of steps.
Dependents(t) ==
  {s \in Step :
     \A D \in SUBSET Step :
       (\A u \in Step : flow[u].deps \cap (D \cup {t}) # {} => u \in D) => s \in D}

HasStatus(st) == {s \in Step : mem[s].status = st}

First(s, S) == s \in S /\ \A t \in S : s <= t

Runnable(s) ==
  mem[s].status = "Pending" /\ \A d \in flow[s].deps : mem[d].status \in Settled

\* The first step in the order of the file.
Picked(s) == First(s, {t \in Step : Runnable(t)})

\* The state of a step that is entered again: its outputs join its prior attempts.
Reset(st) ==
  [st EXCEPT !.status = "Pending", !.out = 0, !.kept = 0,
             !.prior = IF st.out = 0 THEN @ ELSE Append(@, st.out)]

\* Mutant: only the direct dependents of t are entered again.
ResetDirectDependents(m, t) ==
  [s \in Step |->
     IF t \notin flow[s].deps \/ m[s].status \notin Settled THEN m[s] ELSE Reset(m[s])]

\* reset_dependents_preserving: settled dependents of t are entered again; those with
\* preserve_outputs_on_skip keep their outputs aside.
ResetDependents(m, t) ==
  [s \in Step |->
     IF s \notin Dependents(t) \ {t} \/ m[s].status \notin Settled THEN m[s]
     ELSE IF flow[s].preserve THEN [m[s] EXCEPT !.status = "Pending", !.out = 0, !.kept = m[s].out]
     ELSE Reset(m[s])]

\* branch_to: t is entered again with its dependents.
ReenterFrom(m, t) == ResetDependents([m EXCEPT ![t] = Reset(@)], t)

-----------------------------------------------------------------------------
(* The loop *)

\* The head of an iteration saves the states and looks for work.
Top ==
  /\ pc = "top" /\ pc' = "choose" /\ UNCHANGED mem /\ TrySave
  /\ UNCHANGED <<flow, cur, verdict, runs, applied, resumes>>

\* The iteration cap can be reached at any iteration.
CapReached ==
  /\ pc = "top" /\ Break(mem, "cap")
  /\ UNCHANGED <<flow, cur, runs, applied, resumes>>

FindFailure ==
  /\ pc = "choose" /\ HasStatus("TerminalFailure") # {}
  /\ Break(mem, "failure")
  /\ UNCHANGED <<flow, cur, runs, applied, resumes>>

\* Mutant: the step is Done before its effects are applied.
FindEffectsDone ==
  /\ pc = "choose" /\ HasStatus("TerminalFailure") = {} /\ pc' = "apply"
  /\ \E s \in Step : /\ First(s, HasStatus("EffectsPending")) /\ cur' = s
                    /\ mem' = [mem EXCEPT ![s].status = "Done"]
  /\ UNCHANGED <<flow, disk, verdict, runs, applied, faults, resumes>>

\* Accepted effects come before any new work.
FindEffects ==
  /\ pc = "choose" /\ HasStatus("TerminalFailure") = {} /\ pc' = "apply"
  /\ \E s \in Step : First(s, HasStatus("EffectsPending")) /\ cur' = s
  /\ UNCHANGED <<flow, mem, disk, verdict, runs, applied, faults, resumes>>

\* Mutant: new work may come before accepted effects.
ChoosingEarly == pc = "choose" /\ HasStatus("TerminalFailure") = {}

Choosing ==
  pc = "choose" /\ HasStatus("TerminalFailure") = {} /\ HasStatus("EffectsPending") = {}

\* An expression of completion holds: the trace is returned as it is.
Complete ==
  /\ Choosing /\ pc' = "over" /\ verdict' \in {"terminal", "failure"}
  /\ UNCHANGED <<flow, mem, disk, cur, runs, applied, faults, resumes>>

NothingToRun ==
  /\ Choosing /\ \A s \in Step : ~Runnable(s)
  /\ Break(mem, IF HasStatus("Pending") = {} THEN "success" ELSE "deadlock")
  /\ UNCHANGED <<flow, cur, runs, applied, resumes>>

\* run_if is false or skip_if is true: outputs are dropped, or come back.
Skipped(st, preserve) ==
  LET back == preserve /\ st.out = 0 IN
    [st EXCEPT !.status = "Skipped",
               !.out  = IF back THEN st.kept ELSE IF preserve THEN @ ELSE 0,
               !.kept = IF preserve /\ ~back THEN @ ELSE 0]

Skip(s) ==
  /\ Choosing /\ Picked(s) /\ flow[s].conditional
  /\ mem' = [mem EXCEPT ![s] = Skipped(@, flow[s].preserve)]
  /\ pc' = "top"
  /\ UNCHANGED <<flow, disk, cur, verdict, runs, applied, faults, resumes>>

ConditionFails(s) ==
  /\ Choosing /\ Picked(s) /\ flow[s].conditional /\ Break(mem, "failure")
  /\ UNCHANGED <<flow, cur, runs, applied, resumes>>

\* The next attempt of s, with the outputs its prerequisites have now.
Attempted(s) ==
  [mem[s] EXCEPT !.attempt = @ + 1, !.ran = runs + 1,
                 !.basis = [d \in Step |-> IF d \in flow[s].deps THEN mem[d].out ELSE 0]]

Begin(s) == Choosing /\ Picked(s) /\ runs < RunBound /\ runs' = runs + 1

\* A reaper commits to its intent before it acts.
StartReaper(s) ==
  /\ Begin(s) /\ flow[s].kind = "reaper"
  /\ LET m == [mem EXCEPT ![s] = [Attempted(s) EXCEPT !.status = "EffectsPending"]] IN
       Commit(m, "top", m)
  /\ UNCHANGED <<flow, cur, applied, resumes>>

IntentFails(s) ==
  /\ Begin(s) /\ flow[s].kind = "reaper"
  /\ Break([mem EXCEPT ![s] = Attempted(s)], "failure")
  /\ UNCHANGED <<flow, cur, applied, resumes>>

\* The driver starts; the new attempt is in no snapshot yet.
Start(s) ==
  /\ Begin(s) /\ flow[s].kind # "reaper"
  /\ mem' = [mem EXCEPT ![s] = Attempted(s)] /\ cur' = s /\ pc' = "run"
  /\ UNCHANGED <<flow, disk, verdict, applied, faults, resumes>>

-----------------------------------------------------------------------------
(* The driver *)

\* Attempts of a step without eval, if the error is one the agent can correct.
SelfCorrectable == 3

\* The attempt of cur ended in an error, and left it in the state st.
\* retry_driver_error_inner retries it or makes its failure terminal, except that a
\* step without eval and without a correctable error stays Pending.
DriverError(st, correctable) ==
  LET budget == IF flow[cur].action = "none" THEN SelfCorrectable ELSE flow[cur].attempts IN
    IF flow[cur].action = "none" /\ ~correctable
      THEN FinishFailure([mem EXCEPT ![cur] = st])
    ELSE IF st.attempt >= budget
      THEN FinishFailure([mem EXCEPT ![cur] = [st EXCEPT !.status = "TerminalFailure"]])
    ELSE mem' = [mem EXCEPT ![cur] = st] /\ pc' = "top" /\ UNCHANGED <<disk, verdict, faults>>

\* One call, or one shared fan-out, which reports no error as correctable.
CallFails(correctable) ==
  /\ pc = "run" /\ flow[cur].kind # "lensed" /\ (flow[cur].kind = "shared" => ~correctable)
  /\ DriverError(mem[cur], correctable)
  /\ UNCHANGED <<flow, cur, runs, applied, resumes>>

Produced(st) == [st EXCEPT !.out = st.ran, !.kept = 0]

Produce ==
  /\ pc = "run" /\ flow[cur].kind # "lensed" /\ pc' = "eval"
  /\ mem' = [mem EXCEPT ![cur] = Produced(@)]
  /\ UNCHANGED <<flow, disk, cur, verdict, runs, applied, faults, resumes>>

NoLens == [l \in Lens |-> 0]

\* The condition of a lens cannot be evaluated: the trace is returned as it is.
LensConditionFails ==
  /\ pc = "run" /\ flow[cur].kind \in {"shared", "lensed"}
  /\ pc' = "over" /\ verdict' = "failure"
  /\ UNCHANGED <<flow, mem, disk, cur, runs, applied, faults, resumes>>

\* The active lenses without a saved output run at once; those in good succeed and are saved.
LensesFail(good, correctable) ==
  /\ pc = "run" /\ flow[cur].kind = "lensed"
  /\ good \subseteq {l \in Lens : mem[cur].lens[l] = 0}
  /\ \E l \in Lens \ good : mem[cur].lens[l] = 0
  /\ DriverError([mem[cur] EXCEPT !.lens = [l \in Lens |-> IF l \in good THEN mem[cur].ran ELSE @[l]]],
                 correctable)
  /\ UNCHANGED <<flow, cur, runs, applied, resumes>>

\* All active lenses have outputs, but consolidate fails and drops them.
ConsolidateFails(correctable) ==
  /\ pc = "run" /\ flow[cur].kind = "lensed"
  /\ DriverError([mem[cur] EXCEPT !.lens = NoLens], correctable)
  /\ UNCHANGED <<flow, cur, runs, applied, resumes>>

\* Mutant: the lens outputs stay.
AggregateKeepsLens ==
  /\ pc = "run" /\ flow[cur].kind = "lensed" /\ pc' = "eval"
  /\ mem' = [mem EXCEPT ![cur] = Produced(@)]
  /\ UNCHANGED <<flow, disk, cur, verdict, runs, applied, faults, resumes>>

\* All active lenses have outputs, and those are aggregated.
Aggregate ==
  /\ pc = "run" /\ flow[cur].kind = "lensed" /\ pc' = "eval"
  /\ mem' = [mem EXCEPT ![cur] = [Produced(@) EXCEPT !.lens = NoLens]]
  /\ UNCHANGED <<flow, disk, cur, verdict, runs, applied, faults, resumes>>

-----------------------------------------------------------------------------
(* The eval, and what follows it *)

\* The eval, the resolution of its branch target or the serialization of the effects
\* fails; the outputs stay.
EvalFails ==
  /\ pc = "eval" /\ Break(mem, "failure")
  /\ UNCHANGED <<flow, cur, runs, applied, resumes>>

\* Mutant: the save at the head of the loop is left to make the effects durable.
AcceptUnsaved ==
  /\ pc = "eval" /\ pc' = "top"
  /\ mem' = [mem EXCEPT ![cur].status = "EffectsPending"]
  /\ UNCHANGED <<flow, disk, cur, verdict, runs, applied, faults, resumes>>

\* There is no eval, or it passed: the effects are made durable before they happen.
Accept ==
  /\ pc = "eval"
  /\ LET m == [mem EXCEPT ![cur].status = "EffectsPending"] IN Commit(m, "top", m)
  /\ UNCHANGED <<flow, cur, runs, applied, resumes>>

Judged(a) == pc = "eval" /\ flow[cur].action # "none" /\ a

Retriable == mem[cur].attempt < flow[cur].attempts

\* The eval failed, and the executor goes on with the states in m.
GoOn(m) ==
  /\ mem' = m /\ pc' = "top"
  /\ UNCHANGED <<flow, disk, cur, verdict, runs, applied, faults, resumes>>

Rejected(st) == [st EXCEPT !.rejected = @ \cup {st.ran}]

\* The outputs join the prior attempts, but stay.
Noted(st) == [Rejected(st) EXCEPT !.prior = Append(@, st.out)]

Repeat ==
  /\ Judged(Retriable /\ flow[cur].action = "repeat")
  /\ GoOn([mem EXCEPT ![cur] = Reset(Rejected(@))])

RerunChain ==
  /\ Judged(Retriable /\ flow[cur].action = "rerun_chain")
  /\ GoOn([s \in Step |-> IF s \in flow[cur].rerun THEN Reset(mem[s]) ELSE mem[s]])

\* Mutant: the outputs of the step are not noted.
BranchToUnnoted(t) ==
  /\ Judged(Retriable /\ flow[cur].action = "branch_to" /\ t \in flow[cur].targets)
  /\ GoOn([ReenterFrom([mem EXCEPT ![cur] = Rejected(@)], t) EXCEPT
             ![cur] = IF t \in Dependents(cur) THEN [@ EXCEPT !.status = "Done"]
                                               ELSE [@ EXCEPT !.kept = 0]])

\* Control moves to t. If t depends on the step, that stays as it is, as Done, and
\* otherwise it runs again. Its own outputs are kept in either case.
BranchTo(t) ==
  /\ Judged(Retriable /\ flow[cur].action = "branch_to" /\ t \in flow[cur].targets)
  /\ LET noted == [mem EXCEPT ![cur] = IF t = cur THEN Rejected(@) ELSE Noted(@)] IN
       GoOn([ReenterFrom(noted, t) EXCEPT
               ![cur] = IF t \in Dependents(cur) THEN [@ EXCEPT !.status = "Done"]
                                                 ELSE [@ EXCEPT !.kept = 0]])

Continue ==
  /\ Judged(\/ Retriable /\ flow[cur].action = "continue"
            \/ ~Retriable /\ flow[cur].exhaust = "continue")
  /\ GoOn([mem EXCEPT ![cur].status = "DoneWithFailure"])

ExitFailure ==
  /\ Judged(\/ Retriable /\ flow[cur].action = "exit_failure"
            \/ ~Retriable /\ flow[cur].exhaust = "exit_failure")
  /\ FinishFailure([mem EXCEPT ![cur].status = "TerminalFailure"])
  /\ UNCHANGED <<flow, cur, runs, applied, resumes>>

\* on_exhausted branch_to: the step always runs again.
ExhaustedBranchTo(t) ==
  /\ Judged(~Retriable /\ flow[cur].exhaust = "branch_to" /\ t \in flow[cur].targets)
  /\ GoOn([ReenterFrom(mem, t) EXCEPT ![cur].kept = 0])

-----------------------------------------------------------------------------
(* Effects *)

\* The driver writes the files, or does what the reaper step says. It is idempotent.
Apply ==
  /\ pc = "apply" /\ pc' = "settle"
  /\ applied' = [applied EXCEPT ![cur] = mem[cur].ran]
  /\ UNCHANGED <<flow, mem, disk, cur, verdict, runs, faults, resumes>>

\* It can fail with the effect in place, or without it.
ApplyFails ==
  /\ pc = "apply" /\ Abandon(mem, mem)
  /\ applied' \in {applied, [applied EXCEPT ![cur] = mem[cur].ran]}
  /\ UNCHANGED <<flow, cur, runs, resumes>>

\* The outputs of a reaper come from its effect. If Done cannot be saved, the step
\* is EffectsPending again, with those outputs.
Settle ==
  /\ pc = "settle"
  /\ LET m == [mem EXCEPT ![cur].out = IF flow[cur].kind = "reaper" THEN mem[cur].ran ELSE @] IN
       Commit([m EXCEPT ![cur].status = "Done"], IF flow[cur].terminal THEN "over" ELSE "top", m)
  /\ UNCHANGED <<flow, cur, runs, applied, resumes>>

-----------------------------------------------------------------------------
(* The process *)

Crash ==
  /\ pc \notin {"over", "down"} /\ pc' = "down"
  /\ UNCHANGED <<flow, mem, disk, cur, verdict, runs, applied, faults, resumes>>

\* --resume takes the states from the snapshot, whether the run crashed or ended.
Resume ==
  /\ pc \in {"over", "down"} /\ disk # NoSnapshot
  /\ resumes < ResumeBound /\ resumes' = resumes + 1
  /\ mem' = disk /\ pc' = "top" /\ verdict' = "none"
  /\ UNCHANGED <<flow, disk, cur, runs, applied, faults>>

\* --resume without a snapshot that loads starts the run from scratch.
StartAfresh ==
  /\ pc \in {"over", "down"} /\ disk = NoSnapshot
  /\ resumes < ResumeBound /\ resumes' = resumes + 1
  /\ mem' = [s \in Step |-> FreshStep] /\ applied' = [s \in Step |-> 0]
  /\ pc' = "top" /\ verdict' = "none"
  /\ UNCHANGED <<flow, disk, cur, runs, faults>>

Next ==
  \/ Top \/ CapReached \/ FindFailure \/ FindEffects \/ Complete \/ NothingToRun
  \/ \E s \in Step : Skip(s) \/ ConditionFails(s) \/ StartReaper(s) \/ IntentFails(s) \/ Start(s)
  \/ Produce \/ LensConditionFails \/ Aggregate
  \/ \E b \in BOOLEAN :
       \/ CallFails(b) \/ ConsolidateFails(b)
       \/ \E good \in SUBSET Lens : LensesFail(good, b)
  \/ EvalFails \/ Accept \/ Repeat \/ RerunChain \/ Continue \/ ExitFailure
  \/ \E t \in Step : BranchTo(t) \/ ExhaustedBranchTo(t)
  \/ Apply \/ ApplyFails \/ Settle
  \/ Crash \/ Resume \/ StartAfresh

Spec == Init /\ [][Next]_vars

-----------------------------------------------------------------------------
(* Properties *)

\* The snapshot knows every run whose effects reached the workspace, so a resume
\* does not do again what already had an effect: accepted effects are saved before
\* they are applied, and no later save loses them.
WriteAhead == disk # NoSnapshot => \A s \in Step : applied[s] <= disk[s].ran

\* Effects reach the workspace in the order of the runs; an effect that is applied
\* again after a crash is the latest one, and overwrites no later one.
ReplayIsLatest == pc = "apply" => \A s \in Step : applied[s] <= mem[cur].ran

\* A step that is Done, in memory or in the snapshot, has its effects in the
\* workspace, unless its outputs were turned down on the way to a later step.
DoneMeansApplied ==
  \A m \in {mem, disk} \ {NoSnapshot}, s \in Step :
    m[s].status = "Done" => applied[s] = m[s].ran \/ m[s].ran \in m[s].rejected

\* No step rests on outputs that have been replaced: where no rerun_chain is in the
\* way, what a settled step saw of its prerequisites is what they say now, through
\* any sequence of branches, skips, crashes and resumes.
FreshInputs ==
  \A s \in Step : mem[s].status \in {"EffectsPending", "Done", "DoneWithFailure"} =>
    \A d \in flow[s].deps :
      \/ \E t \in Step : flow[t].action = "rerun_chain" /\ d \in flow[t].rerun
      \/ mem[d].status \in Settled /\ mem[s].basis[d] = mem[d].out

\* A lens output that a retry will use again is newer than every run of the step's
\* prerequisites, and than every outputs the step has aggregated.
FreshLens ==
  \A s \in Step, l \in Lens :
    mem[s].lens[l] # 0 =>
      /\ \A d \in flow[s].deps : mem[d].ran < mem[s].lens[l]
      /\ \A r \in ToSet(mem[s].prior) \cup {mem[s].out} : r < mem[s].lens[l]

\* The outputs that an eval turned down with repeat or branch_to stay among the prior
\* attempts, which the next attempt is shown, also across crashes and resumes.
RejectedAreKept == \A s \in Step : mem[s].rejected \subseteq ToSet(mem[s].prior)

\* A step that failed terminally never gets another attempt, through any sequence of
\* failed saves, crashes and resumes, unless the run's verdict says that its failure
\* could not be persisted.
NoSecondChance ==
  [][\A s \in Step : mem[s].status = "TerminalFailure" /\ verdict # "unsaved"
       => mem'[s].status = "TerminalFailure"]_vars

\* docs/workflow-internals.md: eval and driver-error exhaustion use the required
\* terminal-snapshot path, so resume cannot grant another attempt.
ResumeGrantsNone ==
  [][\A s \in Step : mem[s].status = "TerminalFailure"
       => mem'[s].status = "TerminalFailure"]_vars

\* The comment in the branch_to action: no attempt is recorded twice.
RecordedOnce == \A s \in Step : IsInjective(mem[s].prior)
=============================================================================
