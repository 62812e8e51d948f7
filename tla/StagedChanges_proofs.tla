------------------------ MODULE StagedChanges_proofs ------------------------
(***************************************************************************)
(* Proofs about StagedChanges, for every workflow, number of files, and    *)
(* bound.                                                                  *)
(***************************************************************************)
EXTENDS StagedChanges, TLAPS

-----------------------------------------------------------------------------
(* The inductive invariants *)

\* A call that was asked has a number.
Numbered == \A c \in DOMAIN call : call[c].st # "idle" => call[c].run \in Run

Typing == TypeOK /\ Numbered

InAttempt == pc \in {"call", "eval"}
InRun     == pc \in {"top", "apply", "rollback"}

Waiting(m, s)   == m[s].status = "EffectsPending"
OneWaiting(m)   == \A s, t \in Step : Waiting(m, s) /\ Waiting(m, t) => s = t

\* At most one step has effects to apply, none while an attempt is made, and what the
\* memory has of them the snapshot has.
Durable ==
  /\ OneWaiting(mem) /\ OneWaiting(saved)
  /\ InAttempt => \A s \in Step : ~Waiting(mem, s)
  /\ pc \in {"apply", "rollback"} => Waiting(mem, cur)
  /\ InRun => \A s \in Step : Waiting(mem, s) =>
                Waiting(saved, s) /\ saved[s].effects = mem[s].effects

Torn ==
  begun.step # 0 =>
    /\ ~flow[begun.step].reaper
    /\ Waiting(saved, begun.step) /\ saved[begun.step].effects = begun.effects
    /\ ~InAttempt
    /\ InRun => Waiting(mem, begun.step) /\ mem[begun.step].effects = begun.effects

\* Calls exist while an attempt is made, and only reapers make none.
CallsInAttempt ==
  /\ pc \in {"call", "eval", "apply", "rollback"} => ~flow[cur].reaper
  /\ ~InAttempt => DOMAIN call = {}

\* What is staged is of the attempt that is made, or of the step with effects to apply.
StagedByNow ==
  \A p \in pending :
    /\ InAttempt => p.step = cur /\ p.attempt = mem[cur].attempt
    /\ InRun => /\ Waiting(mem, p.step) /\ p.attempt = mem[p.step].attempt
                /\ ~flow[p.step].reaper

Clean(body) == body # NoFile => body \subseteq accepted

\* Accepted runs are all that files, effects and what was noted of the files have, and
\* what is staged has those of the answers of this attempt besides.
FilesClean   == \A f \in File : Clean(files[f]) /\ Clean(orig[f])
EffectsClean == \A s \in Step, f \in File : Clean(mem[s].effects[f]) /\ Clean(saved[s].effects[f])
PendingClean ==
  /\ InAttempt => \A p \in pending : p.body \subseteq accepted \cup Answered
  /\ pc = "eval" => Answered \subseteq mem[cur].from

CleanBodies == FilesClean /\ EffectsClean /\ PendingClean

Now(e) == e.src \in Source => e.body = files[e.src]

CacheIsCurrent == \A s \in Step : \A e \in cache[s] : Now(e)

\* The evidence is current, but while files are written that invalidate it.
Current ==
  /\ pc \in {"top", "call", "eval"} => CacheIsCurrent
  /\ pc = "apply" => Invalidates \/ CacheIsCurrent
  /\ \A c \in DOMAIN call : \A e \in call[c].seed : Now(e)

Restored ==
  pc \in {"apply", "rollback"} =>
    \A f \in File \ done : (pc = "rollback" /\ f \in unrestored) \/ files[f] = orig[f]

\* The numbers of calls are their own, and a call changes nothing before it answers.
OwnNumbers ==
  /\ \A c \in DOMAIN call : call[c].run <= runs
  /\ \A rf \in changed : rf[1] <= runs
  /\ \A c, d \in DOMAIN call :
       call[c].st # "idle" /\ call[d].st # "idle" /\ call[c].run = call[d].run => c = d
  /\ \A c \in DOMAIN call : call[c].st = "asked" => \A rf \in changed : rf[1] # call[c].run

Tracked ==
  InAttempt =>
    \A rf \in changed : rf[1] \in Answered =>
      \E p \in Staged(cur, mem[cur].attempt) : p.file = rf[2] /\ rf[1] \in p.body

-----------------------------------------------------------------------------
(* Types *)

LEMMA InitTyping == Init => Typing
<1> SUFFICES ASSUME Init PROVE Typing
  OBVIOUS
<1>1. FreshStep \in StepState
  BY DEF FreshStep, StepState, Status, Effects, Nothing, Body
<1>2. NotBegun \in [step : 0 .. Steps, effects : Effects]
  BY ConstantsAssumption DEF NotBegun, Effects, Nothing, Body
<1>3. files \in [File -> Body] /\ orig \in [File -> Body]
  BY DEF Init, Body, Nothing
<1>4. DOMAIN call = {}
  BY DEF Init, NoCall
<1>5. cache \in [Step -> SUBSET Evidence] /\ mem \in [Step -> StepState]
  BY <1>1 DEF Init
<1>6. cur \in Step /\ 0 \in 0 .. RunBound /\ 0 \in 0 .. FaultBound /\ 0 \in 0 .. StopBound
  BY ConstantsAssumption DEF Init, Step
<1> QED
  BY <1>2, <1>3, <1>4, <1>5, <1>6 DEF Init, Typing, TypeOK, Numbered, Place

\* What an action writes of the states of the steps.
LEMMA EffectsTyped ==
  ASSUME Typing PROVE AttemptEffects \in Effects
<1> DEFINE staged == Staged(cur, mem[cur].attempt)
<1>1. \A f \in File : (\E p \in staged : p.file = f) => (CHOOSE p \in staged : p.file = f).body \in Body
  <2> SUFFICES ASSUME NEW f \in File, NEW p \in staged, p.file = f
               PROVE (CHOOSE q \in staged : q.file = f).body \in Body
    OBVIOUS
  <2>1. (CHOOSE q \in staged : q.file = f) \in staged
    OBVIOUS
  <2> QED
    BY <2>1 DEF Staged, Typing, TypeOK, Change
<1> QED
  BY <1>1 DEF AttemptEffects, Effects, Body

LEMMA SeedTyped ==
  ASSUME Typing, NEW D \in SUBSET Step
  PROVE /\ SeedFromDeps(D) \in SUBSET Evidence
        /\ DropSuperseded(SeedFromDeps(D)) \cup SuppliedArtifacts \in SUBSET Evidence
<1>1. \A f \in Artifact : f \in File \cup {Git} /\ files[f] \in Body
  BY ConstantsAssumption DEF Typing, TypeOK
<1>2. \A f \in Artifact : [src |-> f, body |-> files[f], current |-> TRUE] \in Evidence
  BY <1>1 DEF Evidence
<1>3. SuppliedArtifacts \in SUBSET Evidence
  BY <1>2 DEF SuppliedArtifacts
<1> QED
  BY <1>3 DEF SeedFromDeps, DropSuperseded, Typing, TypeOK

LEMMA FetchedTyped ==
  ASSUME Typing, NEW src \in File \cup {Git} PROVE Fetched(src) \in Evidence
<1>1. (IF src = Git THEN head ELSE files[src]) \in Body
  BY DEF Typing, TypeOK, Body
<1> QED
  BY <1>1 DEF Fetched, Evidence

LEMMA ChangesTyped ==
  ASSUME Typing, NEW s \in Step, NEW r \in Run, NEW ch \in Changes(s, r)
  PROVE /\ DOMAIN ch \subseteq File
        /\ \A f \in DOMAIN ch : ch[f] \in Stageable(f, r) /\ ch[f] \in SUBSET Run
<1>1. flow[s].writes \subseteq File
  BY ConstantsAssumption DEF Typing, TypeOK, StepDef
<1>2. DOMAIN ch \subseteq File /\ \A f \in DOMAIN ch : ch[f] \in Stageable(f, r)
  BY <1>1 DEF Changes
<1>3. \A f \in File : Stageable(f, r) \subseteq SUBSET Run
  BY DEF Stageable, Typing, TypeOK, Body
<1> QED
  BY <1>2, <1>3

\* The states of the steps that the executor leaves behind.
LEMMA ReenterTyped ==
  ASSUME NEW st \in StepState PROVE Reenter(st) \in StepState
  BY DEF Reenter, StepState, Status

LEMMA StepsTyped ==
  ASSUME Typing, NEW s \in Step, NEW st \in StepState
  PROVE [mem EXCEPT ![s] = st] \in [Step -> StepState]
  BY DEF Typing, TypeOK

LEMMA StepTyped ==
  ASSUME Typing
  PROVE  cur \in Step /\ \A s \in Step : mem[s] \in StepState /\ saved[s] \in StepState
  BY DEF Typing, TypeOK

LEMMA BranchTyped ==
  ASSUME Typing, NEW t \in Step PROVE BranchTo(t) \in [Step -> StepState]
<1>1. mem \in [Step -> StepState]
  BY DEF Typing, TypeOK
<1>2. \A s \in Step : /\ [mem[s] EXCEPT !.status = "Done", !.reuse = FALSE] \in StepState
                      /\ [mem[s] EXCEPT !.status = "Pending", !.reuse = FALSE] \in StepState
  BY <1>1 DEF StepState, Status
<1> QED
  BY <1>1, <1>2, ReenterTyped DEF BranchTo

LEMMA AnsweredTyped == ASSUME Typing PROVE Answered \subseteq Run
  BY DEF Answered, Ended, Typing, Numbered

\* The snapshot after an attempt to save.
LEMMA SaveTyped ==
  ASSUME Typing, NEW m \in [Step -> StepState], TrySave(m)
  PROVE saved' \in [Step -> StepState] /\ faults' \in 0 .. FaultBound
  BY ConstantsAssumption DEF TrySave, Typing, TypeOK

LEMMA RunsTyped ==
  ASSUME Typing, runs < RunBound, runs' = runs + 1
  PROVE runs' \in 0 .. RunBound /\ runs + 1 \in Run
  BY ConstantsAssumption DEF Typing, TypeOK, Run

\* Calls that stay, or go, keep their types.
LEMMA NoCallTyped == DOMAIN NoCall = {}
  BY DEF NoCall

LEMMA StartedTyped ==
  ASSUME NEW st \in StepState PROVE Started(st) \in StepState
<1>1. st.attempt + 1 \in Nat /\ (IF st.kept = {} THEN {} ELSE st.from) \in SUBSET Run
  BY DEF StepState
<1> QED
  BY <1>1 DEF Started, StepState

LEMMA IntendedTyped ==
  ASSUME NEW st \in StepState, runs + 1 \in Run PROVE Intended(st) \in StepState
<1>1. st.attempt + 1 \in Nat /\ {runs + 1} \in SUBSET Run
  BY DEF StepState
<1> QED
  BY <1>1 DEF Intended, StepState, Status

LEMMA TypingStep ==
  ASSUME Typing, [Next]_vars PROVE Typing'
<1>a. cur \in Step /\ \A s \in Step : mem[s] \in StepState
  BY StepTyped
<1> USE DEF Typing
<1>0. CASE UNCHANGED vars
  BY <1>0 DEF TypeOK, Numbered, vars, state, disk, driver, writing, bounds
<1>1. CASE RunEnds
  <2>1. TrySave(mem)
    BY <1>1 DEF RunEnds, Choosing, AtTop
  <2>2. saved' \in [Step -> StepState] /\ faults' \in 0 .. FaultBound
    BY <2>1, SaveTyped DEF TypeOK
  <2> QED
    BY <1>1, <2>2 DEF RunEnds, TypeOK, Numbered, Place, disk, driver, writing
<1>2. ASSUME NEW s \in Step, Start(s) PROVE Typing'
  <2>1. saved' \in [Step -> StepState] /\ faults' \in 0 .. FaultBound
    BY <1>2, SaveTyped DEF Start, Choosing, AtTop, TypeOK
  <2>2. mem' \in [Step -> StepState]
    <3> DEFINE st == Started(mem[s])
    <3>1. st \in StepState
      BY <1>a, StartedTyped
    <3>2. mem' = [mem EXCEPT ![s] = st]
      BY <1>2 DEF Start
    <3> QED
      BY <3>1, <3>2, StepsTyped, <1>a
  <2>3. CallsOf(s) \subseteq Call
    <3>1. flow[s].lenses \subseteq Lens
      BY ConstantsAssumption DEF TypeOK, StepDef
    <3> QED
      BY <3>1 DEF CallsOf, Call
  <2>4. [st |-> "idle", run |-> 0, seed |-> {}] \in CallState
    BY DEF CallState
  <2>5. DOMAIN call' \subseteq Call /\ \A c \in DOMAIN call' : call'[c] \in CallState /\ call'[c].st = "idle"
    BY <1>2, <2>3, <2>4 DEF Start
  <2> QED
    BY <1>2, <2>1, <2>2, <2>5 DEF Start, TypeOK, Numbered, Place, disk, driver, writing
<1>3. ASSUME NEW s \in Step, StartReaper(s) PROVE Typing'
  <2>1. runs' \in 0 .. RunBound /\ runs + 1 \in Run
    BY <1>3, RunsTyped DEF StartReaper
  <2>2. mem' \in [Step -> StepState]
    <3> DEFINE st == Intended(mem[s])
    <3>1. st \in StepState
      BY <2>1, <1>a, IntendedTyped
    <3>2. mem' = [mem EXCEPT ![s] = st]
      BY <1>3 DEF StartReaper
    <3> QED
      BY <3>1, <3>2, StepsTyped, <1>a
  <2> QED
    BY <1>3, <2>1, <2>2 DEF StartReaper, TypeOK, Numbered, disk, driver, writing
<1>4. ASSUME NEW c \in Call, Seed(c) PROVE Typing'
  <2>1. runs' \in 0 .. RunBound /\ runs + 1 \in Run
    BY <1>4, RunsTyped DEF Seed
  <2> DEFINE D == flow[cur].deps \cup (IF mem[cur].reuse THEN {cur} ELSE {})
             seed == SeedFromDeps(D)
             given == IF flow[cur].artifacts THEN DropSuperseded(seed) \cup SuppliedArtifacts ELSE seed
  <2>2. D \subseteq Step
    BY ConstantsAssumption DEF TypeOK, StepDef
  <2>3. given \subseteq Evidence
    BY <2>2, SeedTyped
  <2>4. call' = [call EXCEPT ![c] = [st |-> "asked", run |-> runs + 1, seed |-> given]]
    BY <1>4 DEF Seed
  <2>5. [st |-> "asked", run |-> runs + 1, seed |-> given] \in CallState
    BY <2>1, <2>3 DEF CallState
  <2> HIDE DEF given, D, seed
  <2>6. DOMAIN call' = DOMAIN call /\ \A d \in DOMAIN call : d # c => call'[d] = call[d]
    BY <2>4
  <2>7. c \in DOMAIN call => call'[c] = [st |-> "asked", run |-> runs + 1, seed |-> given]
    BY <2>4
  <2>8. \A d \in DOMAIN call' : call'[d] \in CallState /\ (call'[d].st # "idle" => call'[d].run \in Run)
    BY <2>1, <2>5, <2>6, <2>7 DEF TypeOK, Numbered
  <2>9. cache' \in [Step -> SUBSET Evidence]
    BY <1>4 DEF Seed, TypeOK
  <2> QED
    BY <1>4, <2>1, <2>6, <2>8, <2>9 DEF Seed, TypeOK, Numbered, state, disk, writing
<1>5. ASSUME NEW c \in DOMAIN call, CallFails(c) PROVE Typing'
  <2>1. DOMAIN call' = DOMAIN call /\ \A d \in DOMAIN call :
          call'[d] \in CallState /\ (call'[d].st # "idle" => call'[d].run \in Run)
    BY <1>5 DEF CallFails, TypeOK, Numbered, CallState
  <2> QED
    BY <1>5, <2>1 DEF CallFails, TypeOK, Numbered, state, disk, driver, writing, bounds
<1>6. ASSUME NEW c \in DOMAIN call, NEW fetch \in SUBSET flow[cur].reads,
             NEW ch \in Changes(cur, call[c].run), Answer(c, fetch, ch)
      PROVE Typing'
  <2>1. call[c].run \in Run /\ cur \in Step /\ call[c] \in CallState
    BY <1>6 DEF Answer, TypeOK, Numbered
  <2>2. DOMAIN ch \subseteq File /\ \A f \in DOMAIN ch : ch[f] \in SUBSET Run
    BY <2>1, ChangesTyped
  <2>3. Entries(ch) \subseteq Change
    BY <2>1, <2>2 DEF Entries, Change, TypeOK, StepState, Body
  <2>4. pending' \subseteq Change
    BY <1>6, <2>3 DEF Answer, Stage, TypeOK
  <2>5. fetch \subseteq File \cup {Git}
    BY <2>1, ConstantsAssumption DEF TypeOK, StepDef
  <2>6. {Fetched(src) : src \in fetch} \subseteq Evidence
    BY <2>5, FetchedTyped
  <2>7. call[c].seed \subseteq Evidence
    BY <2>1 DEF CallState
  <2>8. cache' \in [Step -> SUBSET Evidence]
    BY <1>6, <2>1, <2>6, <2>7 DEF Answer, TypeOK
  <2>9. DOMAIN call' = DOMAIN call /\ \A d \in DOMAIN call :
          call'[d] \in CallState /\ (call'[d].st # "idle" => call'[d].run \in Run)
    BY <1>6, <2>1 DEF Answer, TypeOK, Numbered, CallState
  <2>10. changed' \subseteq Run \X File
    BY <1>6, <2>1, <2>2 DEF Answer, TypeOK
  <2> QED
    BY <1>6, <2>4, <2>8, <2>9, <2>10 DEF Answer, TypeOK, Numbered, state, disk, writing, bounds
<1>7. ASSUME NEW correctable \in BOOLEAN, AttemptFails(correctable) PROVE Typing'
  <2>1. mem' \in [Step -> StepState]
    <3>1. \A status \in Status : Failed(mem[cur], status) \in StepState
      BY AnsweredTyped, <1>a DEF StepState, Failed
    <3>2. PICK status \in Status : mem' = [mem EXCEPT ![cur] = Failed(mem[cur], status)]
      <4>1. \E last \in BOOLEAN :
              mem' = [mem EXCEPT ![cur] = Failed(mem[cur], IF last THEN "TerminalFailure" ELSE "Pending")]
        BY <1>7 DEF AttemptFails
      <4> QED
        BY <4>1 DEF Status
    <3> QED
      BY <3>1, <3>2, StepsTyped, <1>a
  <2>2. saved' \in [Step -> StepState] /\ faults' \in 0 .. FaultBound /\ pc' \in Place
    BY <1>7, <2>1, SaveTyped DEF AttemptFails, TypeOK, Place
  <2>3. pending' \subseteq Change
    BY <1>7 DEF AttemptFails, Discard, TypeOK
  <2> QED
    BY <1>7, <2>1, <2>2, <2>3, NoCallTyped DEF AttemptFails, TypeOK, Numbered, disk, writing
<1>8. CASE Aggregate
  <2>1. mem' \in [Step -> StepState]
    <3> DEFINE st == Aggregated(mem[cur])
    <3>1. st \in StepState
      BY AnsweredTyped, <1>a DEF StepState, Status, Aggregated
    <3>2. mem' = [mem EXCEPT ![cur] = st]
      BY <1>8 DEF Aggregate
    <3> QED
      BY <3>1, <3>2, StepsTyped, <1>a
  <2> QED
    BY <1>8, <2>1 DEF Aggregate, TypeOK, Numbered, Place, disk, driver, writing, bounds
<1>9. CASE Accept
  <2>1. mem' \in [Step -> StepState]
    <3> DEFINE st == AcceptedStep(mem[cur])
    <3>1. st \in StepState
      BY EffectsTyped, <1>a DEF StepState, Status, AcceptedStep
    <3>2. mem' = [mem EXCEPT ![cur] = st]
      BY <1>9 DEF Accept
    <3> QED
      BY <3>1, <3>2, StepsTyped, <1>a
  <2>2. saved' \in [Step -> StepState] /\ faults' \in 0 .. FaultBound /\ pc' \in Place
    BY <1>9, <2>1, ConstantsAssumption DEF Accept, TypeOK, Place
  <2>3. pending' \subseteq Change
    BY <1>9 DEF Accept, Discard, TypeOK
  <2>4. accepted' \subseteq Run
    BY <1>9 DEF Accept, TypeOK, StepState
  <2> QED
    BY <1>9, <2>1, <2>2, <2>3, <2>4, NoCallTyped DEF Accept, TypeOK, Numbered, disk, writing
<1>10. CASE Reject
  <2>1. flow[cur].target \in Step /\ cur \in Step
    BY ConstantsAssumption DEF TypeOK, StepDef
  <2>2. mem' \in [Step -> StepState]
    <3>1. [mem[cur] EXCEPT !.status = "TerminalFailure", !.reuse = FALSE] \in StepState
      BY <1>a DEF StepState, Status
    <3>2. Reenter(mem[cur]) \in StepState
      BY <1>a, ReenterTyped
    <3>3. \/ mem' = [mem EXCEPT ![cur] = [mem[cur] EXCEPT !.status = "TerminalFailure", !.reuse = FALSE]]
          \/ mem' = [mem EXCEPT ![cur] = Reenter(mem[cur])]
          \/ mem' = BranchTo(flow[cur].target)
      BY <1>10 DEF Reject
    <3> QED
      BY <2>1, <3>1, <3>2, <3>3, BranchTyped, StepsTyped
  <2>3. saved' \in [Step -> StepState] /\ faults' \in 0 .. FaultBound /\ pc' \in Place
    BY <1>10, <2>2, SaveTyped DEF Reject, TypeOK, Place
  <2>4. pending' \subseteq Change
    BY <1>10 DEF Reject, Discard, TypeOK
  <2> QED
    BY <1>10, <2>2, <2>3, <2>4, NoCallTyped DEF Reject, TypeOK, Numbered, disk, writing
<1>11. ASSUME NEW s \in Step, Reap(s) PROVE Typing'
  <2>1. saved' \in [Step -> StepState] /\ faults' \in 0 .. FaultBound
    BY <1>11, SaveTyped DEF Reap, FindEffects, AtTop, TypeOK
  <2>2. mem' \in [Step -> StepState]
    <3> DEFINE st == [mem[s] EXCEPT !.status = "Done"]
    <3>1. st \in StepState
      BY <1>a DEF StepState, Status
    <3>2. mem' = [mem EXCEPT ![s] = st]
      BY <1>11 DEF Reap
    <3> QED
      BY <3>1, <3>2, StepsTyped, <1>a
  <2>3. head' \in SUBSET Run
    BY <1>11, <1>a DEF Reap, TypeOK, StepState
  <2> QED
    BY <1>11, <2>1, <2>2, <2>3 DEF Reap, TypeOK, Numbered, driver, writing
<1>12. ASSUME NEW s \in Step, Prepare(s) PROVE Typing'
  <2>1. saved' \in [Step -> StepState] /\ faults' \in 0 .. FaultBound
    BY <1>12, SaveTyped DEF Prepare, FindEffects, AtTop, TypeOK
  <2> QED
    BY <1>12, <2>1 DEF Prepare, TypeOK, Numbered, Place, disk, driver
<1>13. ASSUME NEW f \in File, Rename(f) PROVE Typing'
  <2>1. mem[cur].effects \in [File -> Body]
    BY DEF TypeOK, StepState, Effects
  <2>2. files' \in [File -> Body]
    BY <1>13, <2>1 DEF Rename, TypeOK
  <2>3. begun' \in [step : 0 .. Steps, effects : Effects]
    BY <1>13, <2>1, ConstantsAssumption DEF Rename, TypeOK, Step, Effects
  <2> QED
    BY <1>13, <2>2, <2>3 DEF Rename, TypeOK, Numbered, state, driver, bounds
<1>14. CASE RenameFails
  BY <1>14, ConstantsAssumption DEF RenameFails, TypeOK, Numbered, Place, disk, driver, writing
<1>15. ASSUME NEW f \in File, Rollback(f) PROVE Typing'
  <2>1. files' \in [File -> Body]
    BY <1>15 DEF Rollback, Restore, TypeOK
  <2> QED
    BY <1>15, <2>1, ConstantsAssumption DEF Rollback, TypeOK, Numbered, state, driver
<1>16. CASE RolledBack
  <2>1. saved' \in [Step -> StepState] /\ faults' \in 0 .. FaultBound
    BY <1>16, SaveTyped DEF RolledBack, TypeOK
  <2> QED
    BY <1>16, <2>1 DEF RolledBack, TypeOK, Numbered, Place, disk, driver, writing
<1>17. CASE Applied
  <2> DEFINE st == [mem[cur] EXCEPT !.status = "Done", !.effects = Nothing]
             m  == [mem EXCEPT ![cur] = st]
  <2>1. m \in [Step -> StepState]
    <3>1. st \in StepState
      BY <1>a DEF StepState, Status, Effects, Nothing, Body
    <3> QED
      BY <3>1, StepsTyped, <1>a
  <2>2. /\ mem' \in [Step -> StepState] /\ saved' \in [Step -> StepState]
        /\ faults' \in 0 .. FaultBound /\ pc' \in Place
    <3>1. mem' \in {mem, m} /\ saved' \in {mem, m} /\ pc' \in {"top", "over"}
      BY <1>17 DEF Applied
    <3>2. faults' = faults \/ (faults < FaultBound /\ faults' = faults + 1)
      BY <1>17 DEF Applied
    <3> QED
      <4> HIDE DEF m
      <4>1. saved' \in [Step -> StepState] /\ mem' \in [Step -> StepState]
        BY <2>1, <3>1 DEF TypeOK
      <4> QED
        BY <4>1, <3>1, <3>2, ConstantsAssumption DEF TypeOK, Place
  <2>3. cache' \in [Step -> SUBSET Evidence] /\ pending' \subseteq Change
    BY <1>17 DEF Applied, Discard, TypeOK
  <2>4. begun' \in [step : 0 .. Steps, effects : Effects]
    BY <1>17, ConstantsAssumption DEF Applied, NotBegun, Effects, Nothing, Body
  <2> QED
    BY <1>17, <2>2, <2>3, <2>4 DEF Applied, TypeOK, Numbered, writing
<1>18. CASE Stop
  BY <1>18, NoCallTyped, ConstantsAssumption DEF Stop, TypeOK, Numbered, Place, Nothing, Body, disk, driver
<1>19. ASSUME NEW f \in File, UserEdits(f) PROVE Typing'
  <2>1. runs' \in 0 .. RunBound /\ runs + 1 \in Run
    BY <1>19, RunsTyped DEF UserEdits
  <2>2. files' \in [File -> Body]
    BY <1>19, <2>1 DEF UserEdits, TypeOK, Body
  <2> QED
    BY <1>19, <2>1, <2>2 DEF UserEdits, TypeOK, Numbered, state, driver, writing
<1>20. CASE Resume
  BY <1>20 DEF Resume, BeginRun, TypeOK, Numbered, Place, disk, writing, bounds
<1> QED
  BY <1>0, <1>1, <1>2, <1>3, <1>4, <1>5, <1>6, <1>7, <1>8, <1>9, <1>10, <1>11, <1>12, <1>13,
     <1>14, <1>15, <1>16, <1>17, <1>18, <1>19, <1>20
     DEF Next, CallFails, Asking

LEMMA TypingInv == Spec => []Typing
  BY InitTyping, TypingStep, PTL DEF Spec

\* Every variable holds what it is meant to hold.
THEOREM TypeCorrect == Spec => []TypeOK
  BY TypingInv, PTL DEF Typing

-----------------------------------------------------------------------------
(* Effects and the snapshot *)

LEMMA SavedIs ==
  ASSUME NEW m, TrySave(m) PROVE saved' = saved \/ saved' = m
  BY DEF TrySave

\* Steps that wait in memory only if they waited before are as few as they were.
LEMMA FewerWait ==
  ASSUME NEW m, NEW n, OneWaiting(m), \A s \in Step : Waiting(n, s) => Waiting(m, s)
  PROVE OneWaiting(n)
  BY DEF OneWaiting

LEMMA NoneWait ==
  ASSUME NEW m, \A s \in Step : ~Waiting(m, s) PROVE OneWaiting(m)
  BY DEF OneWaiting

\* The actions that leave the executor where it is.
LEMMA DurableKept ==
  ASSUME Durable, UNCHANGED state PROVE Durable'
  BY DEF Durable, InAttempt, InRun, Waiting, OneWaiting, state

LEMMA DurableStep ==
  ASSUME Typing, Durable, [Next]_vars PROVE Durable'
<1>a. cur \in Step /\ mem \in [Step -> StepState] /\ saved \in [Step -> StepState]
  BY DEF Typing, TypeOK
<1>b. HasStatus("EffectsPending") = {} => \A s \in Step : ~Waiting(mem, s)
  BY DEF HasStatus, Waiting
<1>0. CASE UNCHANGED vars
  BY <1>0, DurableKept DEF vars
<1>1. CASE RunEnds
  <2>1. saved' = saved \/ saved' = mem
    BY <1>1, SavedIs DEF RunEnds, Choosing, AtTop
  <2>2. mem' = mem /\ pc' = "over"
    BY <1>1 DEF RunEnds
  <2> QED
    BY <2>1, <2>2 DEF Durable, InAttempt, InRun
<1>2. ASSUME NEW s \in Step, Start(s) PROVE Durable'
  <2>1. saved' = saved \/ saved' = mem
    BY <1>2, SavedIs DEF Start, Choosing, AtTop
  <2>2. \A t \in Step : ~Waiting(mem, t)
    BY <1>2, <1>b DEF Start, Choosing
  <2>3. \A t \in Step : ~Waiting(mem', t)
    BY <1>2, <1>a, <2>2 DEF Start, Started, Waiting, StepState
  <2>4. pc' = "call" /\ OneWaiting(mem') /\ OneWaiting(saved')
    BY <1>2, <2>1, <2>3, NoneWait DEF Start, Durable
  <2> QED
    BY <2>3, <2>4 DEF Durable, InAttempt, InRun
<1>3. ASSUME NEW s \in Step, StartReaper(s) PROVE Durable'
  <2>1. \A t \in Step : ~Waiting(mem, t)
    BY <1>3, <1>b DEF StartReaper
  <2>2. \A t \in Step : Waiting(mem', t) => t = s
    BY <1>3, <1>a, <2>1 DEF StartReaper, Waiting
  <2> QED
    BY <1>3, <2>2 DEF StartReaper, Durable, OneWaiting, InAttempt, InRun
<1>4. ASSUME NEW c \in Call, Seed(c) PROVE Durable'
  BY <1>4, DurableKept DEF Seed
<1>5. ASSUME NEW c \in DOMAIN call, CallFails(c) PROVE Durable'
  BY <1>5, DurableKept DEF CallFails
<1>6. ASSUME NEW c \in DOMAIN call, NEW fetch, NEW ch, Answer(c, fetch, ch) PROVE Durable'
  BY <1>6, DurableKept DEF Answer
<1>7. ASSUME NEW correctable \in BOOLEAN, AttemptFails(correctable) PROVE Durable'
  <2>1. \A t \in Step : ~Waiting(mem, t)
    BY <1>7 DEF AttemptFails, AllEnded, Durable, InAttempt
  <2>2. PICK status \in {"TerminalFailure", "Pending"} :
          mem' = [mem EXCEPT ![cur] = Failed(mem[cur], status)]
    <3>1. \E last \in BOOLEAN :
            mem' = [mem EXCEPT ![cur] = Failed(mem[cur], IF last THEN "TerminalFailure" ELSE "Pending")]
      BY <1>7 DEF AttemptFails
    <3> QED
      BY <3>1
  <2>3. Failed(mem[cur], status).status = status
    BY <1>a DEF Failed, StepState
  <2>4. \A t \in Step : ~Waiting(mem', t)
    BY <1>a, <2>1, <2>2, <2>3 DEF Waiting
  <2>5. (saved' = saved \/ saved' = mem') /\ pc' \in {"top", "over"}
    BY <1>7, SavedIs DEF AttemptFails
  <2> QED
    BY <2>4, <2>5, NoneWait DEF Durable, InAttempt, InRun
<1>8. CASE Aggregate
  <2>1. \A t \in Step : ~Waiting(mem, t)
    BY <1>8 DEF Aggregate, AllEnded, Durable, InAttempt
  <2>2. Aggregated(mem[cur]).status = mem[cur].status
    BY <1>a DEF Aggregated, StepState
  <2>3. \A t \in Step : ~Waiting(mem', t)
    BY <1>8, <1>a, <2>1, <2>2 DEF Aggregate, Waiting
  <2>4. saved' = saved /\ pc' = "eval"
    BY <1>8 DEF Aggregate
  <2> QED
    BY <2>3, <2>4, NoneWait DEF Durable, InAttempt, InRun
<1>9. CASE Accept
  <2>1. \A t \in Step : ~Waiting(mem, t)
    BY <1>9 DEF Accept, Durable, InAttempt
  <2>2. \A t \in Step : Waiting(mem', t) => t = cur
    BY <1>9, <1>a, <2>1 DEF Accept, Waiting
  <2>3. OneWaiting(mem')
    BY <2>2 DEF OneWaiting
  <2>4. (pc' = "top" /\ saved' = mem') \/ (pc' = "over" /\ saved' \in {saved, mem'})
    BY <1>9 DEF Accept
  <2> QED
    BY <2>3, <2>4 DEF Durable, InAttempt, InRun
<1>10. CASE Reject
  <2>1. \A t \in Step : ~Waiting(mem, t)
    BY <1>10 DEF Reject, Durable, InAttempt
  <2>2. \A t \in Step : ~Waiting(mem', t)
    <3>1. CASE mem' = [mem EXCEPT ![cur] = [mem[cur] EXCEPT !.status = "TerminalFailure", !.reuse = FALSE]]
      BY <1>a, <2>1, <3>1 DEF Waiting, StepState
    <3>2. CASE mem' = [mem EXCEPT ![cur] = Reenter(mem[cur])]
      BY <1>a, <2>1, <3>2 DEF Waiting, StepState, Reenter
    <3>3. CASE mem' = BranchTo(flow[cur].target)
      BY <1>a, <2>1, <3>3 DEF Waiting, StepState, Reenter, BranchTo
    <3> QED
      BY <1>10, <3>1, <3>2, <3>3 DEF Reject
  <2>3. (saved' = saved \/ saved' = mem') /\ pc' \in {"top", "over"}
    BY <1>10, SavedIs DEF Reject
  <2> QED
    BY <2>2, <2>3, NoneWait DEF Durable, InAttempt, InRun
<1>11. ASSUME NEW s \in Step, Reap(s) PROVE Durable'
  <2>1. (saved' = saved \/ saved' = mem) /\ pc' = "top" /\ Waiting(mem, s)
    BY <1>11, SavedIs DEF Reap, FindEffects, AtTop, First, HasStatus, Waiting
  <2>2. mem' = [mem EXCEPT ![s] = [mem[s] EXCEPT !.status = "Done"]]
    BY <1>11 DEF Reap
  <2>3. mem[s] \in StepState
    BY <1>a
  <2>4. \A t \in Step : ~Waiting(mem', t)
    BY <1>a, <2>1, <2>2, <2>3 DEF Durable, OneWaiting, Waiting, StepState
  <2> QED
    BY <2>1, <2>4, NoneWait DEF Durable, InAttempt, InRun
<1>12. ASSUME NEW s \in Step, Prepare(s) PROVE Durable'
  <2>1. (saved' = saved \/ saved' = mem) /\ pc = "top" /\ Waiting(mem, s)
    BY <1>12, SavedIs DEF Prepare, FindEffects, AtTop, First, HasStatus, Waiting
  <2>2. mem' = mem /\ pc' = "apply" /\ cur' = s
    BY <1>12 DEF Prepare
  <2> QED
    BY <2>1, <2>2 DEF Durable, InAttempt, InRun
<1>13. ASSUME NEW f \in File, Rename(f) PROVE Durable'
  BY <1>13, DurableKept DEF Rename
<1>14. CASE RenameFails
  BY <1>14 DEF RenameFails, Durable, InAttempt, InRun
<1>15. ASSUME NEW f \in File, Rollback(f) PROVE Durable'
  BY <1>15, DurableKept DEF Rollback
<1>16. CASE RolledBack
  <2>1. (saved' = saved \/ saved' = mem) /\ mem' = mem /\ pc' = "over"
    BY <1>16, SavedIs DEF RolledBack
  <2> QED
    BY <2>1 DEF Durable, InAttempt, InRun
<1>17. CASE Applied
  <2> DEFINE m == [mem EXCEPT ![cur] = [mem[cur] EXCEPT !.status = "Done", !.effects = Nothing]]
  <2>1. \A t \in Step : ~Waiting(m, t)
    BY <1>17, <1>a DEF Applied, Durable, OneWaiting, Waiting, StepState
  <2>2. \/ mem' = m /\ saved' = m /\ pc' = "top"
        \/ mem' = mem /\ saved' \in {mem, m} /\ pc' = "over"
    BY <1>17 DEF Applied
  <2> HIDE DEF m
  <2> QED
    BY <2>1, <2>2, NoneWait DEF Durable, InAttempt, InRun
<1>18. CASE Stop
  BY <1>18 DEF Stop, Durable, InAttempt, InRun
<1>19. ASSUME NEW f \in File, UserEdits(f) PROVE Durable'
  BY <1>19, DurableKept DEF UserEdits
<1>20. CASE Resume
  BY <1>20 DEF Resume, Durable, InAttempt, InRun
<1> QED
  BY <1>0, <1>1, <1>2, <1>3, <1>4, <1>5, <1>6, <1>7, <1>8, <1>9, <1>10, <1>11, <1>12, <1>13,
     <1>14, <1>15, <1>16, <1>17, <1>18, <1>19, <1>20
     DEF Next, CallFails, Asking

-----------------------------------------------------------------------------
(* Effects that reached some file *)

LEMMA CallsInAttemptStep ==
  ASSUME Typing, CallsInAttempt, [Next]_vars PROVE CallsInAttempt'
<1>0. CASE UNCHANGED vars
  BY <1>0 DEF vars, state, CallsInAttempt, InAttempt
<1>1. CASE RunEnds
  BY <1>1 DEF RunEnds, Choosing, AtTop, CallsInAttempt, InAttempt
<1>2. ASSUME NEW s \in Step, Start(s) PROVE CallsInAttempt'
  BY <1>2 DEF Start, CallsInAttempt, InAttempt
<1>3. ASSUME NEW s \in Step, StartReaper(s) PROVE CallsInAttempt'
  BY <1>3 DEF StartReaper, CallsInAttempt, InAttempt
<1>4. ASSUME NEW c \in Call, Seed(c) PROVE CallsInAttempt'
  BY <1>4 DEF Seed, Asking, CallsInAttempt, InAttempt, state
<1>5. ASSUME NEW c \in DOMAIN call, CallFails(c) PROVE CallsInAttempt'
  BY <1>5 DEF CallFails, Asking, CallsInAttempt, InAttempt, state
<1>6. ASSUME NEW c \in DOMAIN call, NEW fetch \in SUBSET flow[cur].reads,
             NEW ch \in Changes(cur, call[c].run), Answer(c, fetch, ch)
      PROVE CallsInAttempt'
  BY <1>6 DEF Answer, Asking, CallsInAttempt, InAttempt, state
<1>7. ASSUME NEW correctable \in BOOLEAN, AttemptFails(correctable) PROVE CallsInAttempt'
  BY <1>7, NoCallTyped DEF AttemptFails, CallsInAttempt, InAttempt
<1>8. CASE Aggregate
  BY <1>8 DEF Aggregate, AllEnded, CallsInAttempt, InAttempt
<1>9. CASE Accept
  BY <1>9, NoCallTyped DEF Accept, CallsInAttempt, InAttempt
<1>10. CASE Reject
  BY <1>10, NoCallTyped DEF Reject, CallsInAttempt, InAttempt
<1>11. ASSUME NEW s \in Step, Reap(s) PROVE CallsInAttempt'
  BY <1>11 DEF Reap, FindEffects, AtTop, CallsInAttempt, InAttempt
<1>12. ASSUME NEW s \in Step, Prepare(s) PROVE CallsInAttempt'
  BY <1>12 DEF Prepare, FindEffects, AtTop, CallsInAttempt, InAttempt
<1>13. ASSUME NEW f \in File, Rename(f) PROVE CallsInAttempt'
  BY <1>13 DEF Rename, CallsInAttempt, InAttempt, state
<1>14. CASE RenameFails
  BY <1>14 DEF RenameFails, CallsInAttempt, InAttempt
<1>15. ASSUME NEW f \in File, Rollback(f) PROVE CallsInAttempt'
  BY <1>15 DEF Rollback, CallsInAttempt, InAttempt, state
<1>16. CASE RolledBack
  BY <1>16 DEF RolledBack, CallsInAttempt, InAttempt
<1>17. CASE Applied
  BY <1>17 DEF Applied, CallsInAttempt, InAttempt
<1>18. CASE Stop
  BY <1>18, NoCallTyped DEF Stop, CallsInAttempt, InAttempt
<1>19. ASSUME NEW f \in File, UserEdits(f) PROVE CallsInAttempt'
  BY <1>19 DEF UserEdits, CallsInAttempt, InAttempt, state
<1>20. CASE Resume
  BY <1>20 DEF Resume, CallsInAttempt, InAttempt
<1> QED
  BY <1>0, <1>1, <1>2, <1>3, <1>4, <1>5, <1>6, <1>7, <1>8, <1>9, <1>10, <1>11, <1>12, <1>13,
     <1>14, <1>15, <1>16, <1>17, <1>18, <1>19, <1>20
     DEF Next, CallFails, Asking

\* Nothing was begun, or the step that was begun is waiting.
LEMMA BegunIsStep == ASSUME Typing, begun.step # 0 PROVE begun.step \in Step
<1>1. begun.step \in 0 .. Steps
  BY DEF Typing, TypeOK
<1> QED
  BY <1>1, ConstantsAssumption DEF Step

LEMMA TornStep ==
  ASSUME Typing, Durable, CallsInAttempt, Torn, [Next]_vars PROVE Torn'
<1>0. CASE UNCHANGED vars
  BY <1>0 DEF vars, state, disk, Torn, InAttempt, InRun, Waiting
<1>1. CASE RunEnds
  <2>1. (saved' = saved \/ saved' = mem) /\ pc \in {"top", "rollback"} /\ mem' = mem /\ begun' = begun
    BY <1>1, SavedIs DEF RunEnds, Choosing, AtTop, disk
  <2> QED
    BY <1>1, <2>1 DEF RunEnds, Torn, InAttempt, InRun
<1>2. ASSUME NEW s \in Step, Start(s) PROVE Torn'
  <2>1. begun.step = 0
    BY <1>2, BegunIsStep DEF Start, Choosing, AtTop, Torn, InRun, Waiting, HasStatus
  <2> QED
    BY <1>2, <2>1 DEF Start, Torn, disk
<1>3. ASSUME NEW s \in Step, StartReaper(s) PROVE Torn'
  <2>1. begun.step = 0
    BY <1>3, BegunIsStep DEF StartReaper, Torn, InRun, Waiting, HasStatus
  <2> QED
    BY <1>3, <2>1 DEF StartReaper, Torn, disk
<1>4. ASSUME NEW c \in Call, Seed(c) PROVE Torn'
  BY <1>4 DEF Seed, Torn, InAttempt, InRun, Waiting, state, disk
<1>5. ASSUME NEW c \in DOMAIN call, CallFails(c) PROVE Torn'
  BY <1>5 DEF CallFails, Torn, InAttempt, InRun, Waiting, state, disk
<1>6. ASSUME NEW c \in DOMAIN call, NEW fetch \in SUBSET flow[cur].reads,
             NEW ch \in Changes(cur, call[c].run), Answer(c, fetch, ch)
      PROVE Torn'
  BY <1>6 DEF Answer, Torn, InAttempt, InRun, Waiting, state, disk
<1>7. ASSUME NEW correctable \in BOOLEAN, AttemptFails(correctable) PROVE Torn'
  <2>1. begun.step = 0
    BY <1>7 DEF AttemptFails, AllEnded, Torn, InAttempt
  <2> QED
    BY <1>7, <2>1 DEF AttemptFails, Torn, disk
<1>8. CASE Aggregate
  <2>1. begun.step = 0
    BY <1>8 DEF Aggregate, AllEnded, Torn, InAttempt
  <2> QED
    BY <1>8, <2>1 DEF Aggregate, Torn, disk
<1>9. CASE Accept
  <2>1. begun.step = 0
    BY <1>9 DEF Accept, Torn, InAttempt
  <2> QED
    BY <1>9, <2>1 DEF Accept, Torn, disk
<1>10. CASE Reject
  <2>1. begun.step = 0
    BY <1>10 DEF Reject, Torn, InAttempt
  <2> QED
    BY <1>10, <2>1 DEF Reject, Torn, disk
<1>11. ASSUME NEW s \in Step, Reap(s) PROVE Torn'
  <2>1. pc = "top" /\ flow[s].reaper /\ Waiting(mem, s)
    BY <1>11 DEF Reap, FindEffects, AtTop, First, HasStatus, Waiting
  <2>2. begun.step = 0
    BY <2>1, BegunIsStep DEF Durable, OneWaiting, Torn, InRun
  <2> QED
    BY <1>11, <2>2 DEF Reap, Torn
<1>12. ASSUME NEW s \in Step, Prepare(s) PROVE Torn'
  <2>1. (saved' = saved \/ saved' = mem) /\ pc \in {"top", "rollback"} /\ mem' = mem /\ begun' = begun
    BY <1>12, SavedIs DEF Prepare, FindEffects, AtTop, disk
  <2> QED
    BY <1>12, <2>1 DEF Prepare, Torn, InAttempt, InRun
<1>13. ASSUME NEW f \in File, Rename(f) PROVE Torn'
  <2>1. pc = "apply" /\ pc' = pc /\ mem' = mem /\ saved' = saved /\ flow' = flow
    BY <1>13 DEF Rename, state
  <2>2. begun'.step = cur /\ begun'.effects = mem[cur].effects
    BY <1>13 DEF Rename
  <2>3. cur \in Step
    BY DEF Typing, TypeOK
  <2> QED
    BY <2>1, <2>2, <2>3 DEF Durable, CallsInAttempt, Torn, InRun, InAttempt
<1>14. CASE RenameFails
  BY <1>14 DEF RenameFails, Torn, InAttempt, InRun, Waiting, state, disk
<1>15. ASSUME NEW f \in File, Rollback(f) PROVE Torn'
  BY <1>15 DEF Rollback, Torn, InAttempt, InRun, Waiting, state, disk
<1>16. CASE RolledBack
  <2>1. (saved' = saved \/ saved' = mem) /\ pc \in {"top", "rollback"} /\ mem' = mem /\ begun' = begun
    BY <1>16, SavedIs DEF RolledBack, disk
  <2> QED
    BY <1>16, <2>1 DEF RolledBack, Torn, InAttempt, InRun
<1>17. CASE Applied
  BY <1>17 DEF Applied, NotBegun, Torn
<1>18. CASE Stop
  BY <1>18 DEF Stop, Torn, InAttempt, InRun, Waiting, state, disk
<1>19. ASSUME NEW f \in File, UserEdits(f) PROVE Torn'
  BY <1>19 DEF UserEdits, Torn, InAttempt, InRun, Waiting, state, disk
<1>20. CASE Resume
  BY <1>20 DEF Resume, Torn, InAttempt, InRun, Waiting, state, disk
<1> QED
  BY <1>0, <1>1, <1>2, <1>3, <1>4, <1>5, <1>6, <1>7, <1>8, <1>9, <1>10, <1>11, <1>12, <1>13,
     <1>14, <1>15, <1>16, <1>17, <1>18, <1>19, <1>20
     DEF Next, CallFails, Asking

-----------------------------------------------------------------------------
(* What the rollback puts back *)

LEMMA RestoredStep ==
  ASSUME Typing, Restored, [Next]_vars PROVE Restored'
<1>0. CASE UNCHANGED vars
  BY <1>0 DEF vars, state, disk, writing, Restored
<1>1. CASE RunEnds
  BY <1>1 DEF RunEnds, Restored
<1>2. ASSUME NEW s \in Step, Start(s) PROVE Restored'
  BY <1>2 DEF Start, Restored
<1>3. ASSUME NEW s \in Step, StartReaper(s) PROVE Restored'
  BY <1>3 DEF StartReaper, Restored, writing, driver, disk
<1>4. ASSUME NEW c \in Call, Seed(c) PROVE Restored'
  BY <1>4 DEF Seed, Restored, Asking, state, disk, writing
<1>5. ASSUME NEW c \in DOMAIN call, CallFails(c) PROVE Restored'
  BY <1>5 DEF CallFails, Restored, Asking, state
<1>6. ASSUME NEW c \in DOMAIN call, NEW fetch \in SUBSET flow[cur].reads,
             NEW ch \in Changes(cur, call[c].run), Answer(c, fetch, ch)
      PROVE Restored'
  BY <1>6 DEF Answer, Restored, Asking, state
<1>7. ASSUME NEW correctable \in BOOLEAN, AttemptFails(correctable) PROVE Restored'
  BY <1>7 DEF AttemptFails, Restored, AllEnded
<1>8. CASE Aggregate
  BY <1>8 DEF Aggregate, Restored
<1>9. CASE Accept
  BY <1>9 DEF Accept, Restored
<1>10. CASE Reject
  BY <1>10 DEF Reject, Restored
<1>11. ASSUME NEW s \in Step, Reap(s) PROVE Restored'
  BY <1>11 DEF Reap, Restored, FindEffects, AtTop
<1>12. ASSUME NEW s \in Step, Prepare(s) PROVE Restored'
  BY <1>12 DEF Prepare, Restored, disk
<1>13. ASSUME NEW f \in File, Rename(f) PROVE Restored'
  <2>1. pc = "apply" /\ pc' = pc /\ orig' = orig /\ done' = done \cup {f} /\ files \in [File -> Body]
    BY <1>13 DEF Rename, state, Typing, TypeOK
  <2>2. \A g \in File \ {f} : files'[g] = files[g]
    BY <1>13, <2>1 DEF Rename
  <2> QED
    BY <2>1, <2>2 DEF Restored
<1>14. CASE RenameFails
  BY <1>14 DEF RenameFails, Restored, disk, writing
<1>15. ASSUME NEW f \in File, Rollback(f) PROVE Restored'
  <2>1. /\ pc = "rollback" /\ pc' = pc /\ orig' = orig /\ done' = done \ {f}
        /\ files \in [File -> Body]
    BY <1>15 DEF Rollback, state, Typing, TypeOK
  <2>2. CASE Restore(f) /\ UNCHANGED unrestored
    BY <2>1, <2>2 DEF Restore, Restored
  <2>3. CASE unrestored' = unrestored \cup {f} /\ UNCHANGED files
    BY <2>1, <2>3 DEF Restored
  <2> QED
    BY <1>15, <2>2, <2>3 DEF Rollback
<1>16. CASE RolledBack
  BY <1>16 DEF RolledBack, Restored
<1>17. CASE Applied
  BY <1>17 DEF Applied, Restored
<1>18. CASE Stop
  BY <1>18 DEF Stop, Restored
<1>19. ASSUME NEW f \in File, UserEdits(f) PROVE Restored'
  BY <1>19 DEF UserEdits, Restored, state
<1>20. CASE Resume
  BY <1>20 DEF Resume, Restored
<1> QED
  BY <1>0, <1>1, <1>2, <1>3, <1>4, <1>5, <1>6, <1>7, <1>8, <1>9, <1>10, <1>11, <1>12, <1>13,
     <1>14, <1>15, <1>16, <1>17, <1>18, <1>19, <1>20
     DEF Next, CallFails, Asking

\* What commit_staged_files puts back is as it was, unless its error names it.
THEOREM RollbackIsClean == Spec => []RollbackRestores
<1>1. Init => Restored
  BY DEF Init, Restored
<1>2. Typing /\ Restored /\ [Next]_vars => Restored'
  BY RestoredStep
<1>3. Restored => RollbackRestores
  BY DEF Restored, RollbackRestores
<1> QED
  BY <1>1, <1>2, <1>3, TypingInv, PTL DEF Spec

-----------------------------------------------------------------------------
(* What is staged *)

LEMMA PendingIsOfStep ==
  ASSUME Typing, NEW p \in pending
  PROVE p.step \in Step /\ p.attempt \in Nat /\ p.file \in File
  BY DEF Typing, TypeOK, Change

\* Discarding the attempt leaves nothing, as nothing else is staged.
LEMMA DiscardAll ==
  ASSUME Discard,
         \A p \in pending : p.step = cur /\ p.attempt = mem[cur].attempt
  PROVE  pending' = {}
  BY DEF Discard, Staged

LEMMA NothingStaged ==
  ASSUME Typing, StagedByNow, pc = "top", HasStatus("EffectsPending") = {}
  PROVE  pending = {}
  BY PendingIsOfStep DEF StagedByNow, InRun, HasStatus, Waiting

LEMMA StagedByNowStep ==
  ASSUME Typing, Durable, CallsInAttempt, StagedByNow, [Next]_vars PROVE StagedByNow'
<1>0. CASE UNCHANGED vars
  BY <1>0 DEF vars, state, driver, StagedByNow, InAttempt, InRun, Waiting
<1>1. CASE RunEnds
  BY <1>1 DEF RunEnds, StagedByNow, InAttempt, InRun
<1>2. ASSUME NEW s \in Step, Start(s) PROVE StagedByNow'
  <2>1. pending' = {}
    BY <1>2, NothingStaged DEF Start, Choosing, AtTop, driver
  <2> QED
    BY <2>1 DEF StagedByNow
<1>3. ASSUME NEW s \in Step, StartReaper(s) PROVE StagedByNow'
  <2>1. pending' = {}
    BY <1>3, NothingStaged DEF StartReaper, driver
  <2> QED
    BY <2>1 DEF StagedByNow
<1>4. ASSUME NEW c \in Call, Seed(c) PROVE StagedByNow'
  BY <1>4 DEF Seed, StagedByNow, InAttempt, InRun, Waiting, state, driver
<1>5. ASSUME NEW c \in DOMAIN call, CallFails(c) PROVE StagedByNow'
  BY <1>5 DEF CallFails, StagedByNow, InAttempt, InRun, Waiting, state, driver
<1>6. ASSUME NEW c \in DOMAIN call, NEW fetch \in SUBSET flow[cur].reads,
             NEW ch \in Changes(cur, call[c].run), Answer(c, fetch, ch)
      PROVE StagedByNow'
  <2>1. pc = "call" /\ UNCHANGED <<state, flow>> /\ pending' = pending \cup Entries(ch)
    BY <1>6 DEF Answer, Asking, Stage
  <2>2. \A p \in Entries(ch) : p.step = cur /\ p.attempt = mem[cur].attempt
    BY DEF Entries
  <2> QED
    BY <2>1, <2>2 DEF StagedByNow, InAttempt, InRun, state
<1>7. ASSUME NEW correctable \in BOOLEAN, AttemptFails(correctable) PROVE StagedByNow'
  <2>1. pending' = {}
    BY <1>7, DiscardAll DEF AttemptFails, AllEnded, StagedByNow, InAttempt
  <2> QED
    BY <2>1 DEF StagedByNow
<1>8. CASE Aggregate
  <2>1. pc = "call" /\ pc' = "eval" /\ cur' = cur /\ pending' = pending
    BY <1>8 DEF Aggregate, AllEnded, driver
  <2>2. mem'[cur].attempt = mem[cur].attempt
    BY <1>8, StepTyped DEF Aggregate, Aggregated, StepState, Typing, TypeOK
  <2> QED
    BY <2>1, <2>2 DEF StagedByNow, InAttempt, InRun
<1>9. CASE Accept
  <2>1. CASE pc' = "over"
    BY <2>1 DEF StagedByNow, InAttempt, InRun
  <2>2. CASE pc' = "top" /\ pending' = pending
    <3>1. \A p \in pending : p.step = cur /\ p.attempt = mem[cur].attempt
      BY <1>9 DEF Accept, StagedByNow, InAttempt
    <3>2. mem'[cur].attempt = mem[cur].attempt /\ mem'[cur].status = "EffectsPending"
      BY <1>9, StepTyped DEF Accept, AcceptedStep, StepState, Typing, TypeOK
    <3>3. ~flow'[cur].reaper
      BY <1>9 DEF Accept, CallsInAttempt
    <3> QED
      BY <2>2, <3>1, <3>2, <3>3 DEF StagedByNow, InAttempt, InRun, Waiting
  <2> QED
    BY <1>9, <2>1, <2>2 DEF Accept
<1>10. CASE Reject
  <2>1. pending' = {}
    BY <1>10, DiscardAll DEF Reject, StagedByNow, InAttempt
  <2> QED
    BY <2>1 DEF StagedByNow
<1>11. ASSUME NEW s \in Step, Reap(s) PROVE StagedByNow'
  <2>1. pc = "top" /\ flow[s].reaper /\ Waiting(mem, s) /\ pending' = pending
    BY <1>11 DEF Reap, FindEffects, AtTop, First, HasStatus, Waiting, driver
  <2>2. \A p \in pending : p.step \in Step /\ Waiting(mem, p.step) /\ ~flow[p.step].reaper
    BY <2>1, PendingIsOfStep DEF StagedByNow, InRun
  <2>3. pending = {}
    BY <2>1, <2>2 DEF Durable, OneWaiting
  <2> QED
    BY <2>1, <2>3 DEF StagedByNow
<1>12. ASSUME NEW s \in Step, Prepare(s) PROVE StagedByNow'
  <2>1. pc = "top" /\ pc' = "apply" /\ UNCHANGED <<mem, flow, pending>>
    BY <1>12 DEF Prepare, FindEffects, AtTop, driver
  <2> QED
    BY <2>1 DEF StagedByNow, InAttempt, InRun, Waiting
<1>13. ASSUME NEW f \in File, Rename(f) PROVE StagedByNow'
  BY <1>13 DEF Rename, StagedByNow, InAttempt, InRun, Waiting, state, driver
<1>14. CASE RenameFails
  BY <1>14 DEF RenameFails, StagedByNow, InAttempt, InRun, Waiting, state, driver
<1>15. ASSUME NEW f \in File, Rollback(f) PROVE StagedByNow'
  BY <1>15 DEF Rollback, StagedByNow, InAttempt, InRun, Waiting, state, driver
<1>16. CASE RolledBack
  BY <1>16 DEF RolledBack, StagedByNow, InAttempt, InRun
<1>17. CASE Applied
  <2>1. \A p \in pending : p.step \in Step /\ Waiting(mem, p.step) /\ p.attempt = mem[p.step].attempt
    BY <1>17, PendingIsOfStep DEF Applied, StagedByNow, InRun
  <2>2. \A p \in pending : p.step = cur /\ p.attempt = mem[cur].attempt
    BY <1>17, <2>1, StepTyped DEF Applied, Durable, OneWaiting
  <2>3. pending' = {}
    BY <1>17, <2>2, DiscardAll DEF Applied
  <2> QED
    BY <2>3 DEF StagedByNow
<1>18. CASE Stop
  BY <1>18 DEF Stop, StagedByNow, InAttempt, InRun
<1>19. ASSUME NEW f \in File, UserEdits(f) PROVE StagedByNow'
  BY <1>19 DEF UserEdits, StagedByNow, InAttempt, InRun, Waiting, state, driver
<1>20. CASE Resume
  BY <1>20 DEF Resume, BeginRun, StagedByNow
<1> QED
  BY <1>0, <1>1, <1>2, <1>3, <1>4, <1>5, <1>6, <1>7, <1>8, <1>9, <1>10, <1>11, <1>12, <1>13,
     <1>14, <1>15, <1>16, <1>17, <1>18, <1>19, <1>20
     DEF Next, CallFails, Asking

-----------------------------------------------------------------------------
(* The runs that files have *)

\* Which calls have answered, as they go on.
LEMMA AnsweredAfterSeed ==
  ASSUME NEW c \in Call, Seed(c) PROVE Answered' = Answered
<1>1. DOMAIN call' = DOMAIN call /\ c \in DOMAIN call
  BY DEF Seed, Asking
<1>2. call[c].st = "idle" /\ call'[c].st = "asked"
  BY <1>1 DEF Seed
<1>3. \A d \in DOMAIN call : d # c => call'[d] = call[d]
  BY DEF Seed
<1> QED
  BY <1>1, <1>2, <1>3 DEF Answered, Ended

LEMMA AnsweredAfterFailure ==
  ASSUME Typing, NEW c \in DOMAIN call, CallFails(c) PROVE Answered' = Answered
<1>1. DOMAIN call' = DOMAIN call /\ call[c] \in CallState
  BY DEF CallFails, Typing, TypeOK
<1>2. call[c].st = "asked" /\ call'[c].st = "failed"
  BY <1>1 DEF CallFails, CallState
<1>3. \A d \in DOMAIN call : d # c => call'[d] = call[d]
  BY DEF CallFails
<1> QED
  BY <1>1, <1>2, <1>3 DEF Answered, Ended

LEMMA AnsweredAfterAnswer ==
  ASSUME Typing, NEW c \in DOMAIN call, NEW fetch, NEW ch, Answer(c, fetch, ch)
  PROVE  Answered' = Answered \cup {call[c].run}
<1>1. DOMAIN call' = DOMAIN call /\ call[c] \in CallState
  BY DEF Answer, Typing, TypeOK
<1>2. call[c].st = "asked" /\ call'[c].st = "done" /\ call'[c].run = call[c].run
  BY <1>1 DEF Answer, CallState
<1>3. \A d \in DOMAIN call : d # c => call'[d] = call[d]
  BY DEF Answer
<1> QED
  BY <1>1, <1>2, <1>3 DEF Answered, Ended

LEMMA AcceptedGrows == ASSUME [Next]_vars PROVE accepted \subseteq accepted'
<1>0. CASE UNCHANGED vars
  BY <1>0 DEF vars
<1>1. CASE RunEnds
  BY <1>1 DEF RunEnds
<1>2. ASSUME NEW s \in Step, Start(s) PROVE accepted \subseteq accepted'
  BY <1>2 DEF Start
<1>3. ASSUME NEW s \in Step, StartReaper(s) PROVE accepted \subseteq accepted'
  BY <1>3 DEF StartReaper
<1>4. ASSUME NEW c \in Call, Seed(c) PROVE accepted \subseteq accepted'
  BY <1>4 DEF Seed
<1>5. ASSUME NEW c \in DOMAIN call, CallFails(c) PROVE accepted \subseteq accepted'
  BY <1>5 DEF CallFails
<1>6. ASSUME NEW c \in DOMAIN call, NEW fetch \in SUBSET flow[cur].reads,
             NEW ch \in Changes(cur, call[c].run), Answer(c, fetch, ch)
      PROVE accepted \subseteq accepted'
  BY <1>6 DEF Answer
<1>7. ASSUME NEW correctable \in BOOLEAN, AttemptFails(correctable) PROVE accepted \subseteq accepted'
  BY <1>7 DEF AttemptFails
<1>8. CASE Aggregate
  BY <1>8 DEF Aggregate
<1>9. CASE Accept
  BY <1>9 DEF Accept
<1>10. CASE Reject
  BY <1>10 DEF Reject
<1>11. ASSUME NEW s \in Step, Reap(s) PROVE accepted \subseteq accepted'
  BY <1>11 DEF Reap
<1>12. ASSUME NEW s \in Step, Prepare(s) PROVE accepted \subseteq accepted'
  BY <1>12 DEF Prepare
<1>13. ASSUME NEW f \in File, Rename(f) PROVE accepted \subseteq accepted'
  BY <1>13 DEF Rename
<1>14. CASE RenameFails
  BY <1>14 DEF RenameFails
<1>15. ASSUME NEW f \in File, Rollback(f) PROVE accepted \subseteq accepted'
  BY <1>15 DEF Rollback
<1>16. CASE RolledBack
  BY <1>16 DEF RolledBack
<1>17. CASE Applied
  BY <1>17 DEF Applied
<1>18. CASE Stop
  BY <1>18 DEF Stop
<1>19. ASSUME NEW f \in File, UserEdits(f) PROVE accepted \subseteq accepted'
  BY <1>19 DEF UserEdits
<1>20. CASE Resume
  BY <1>20 DEF Resume
<1> QED
  BY <1>0, <1>1, <1>2, <1>3, <1>4, <1>5, <1>6, <1>7, <1>8, <1>9, <1>10, <1>11, <1>12, <1>13,
     <1>14, <1>15, <1>16, <1>17, <1>18, <1>19, <1>20
     DEF Next, CallFails, Asking

\* What the step with the attempt's effects would write is clean once it is accepted.
LEMMA EffectsAreClean ==
  ASSUME Typing, CleanBodies, pc = "eval",
         \A p \in pending : p.step = cur /\ p.attempt = mem[cur].attempt
  PROVE  \A f \in File : AttemptEffects[f] # NoFile =>
           AttemptEffects[f] \subseteq accepted \cup mem[cur].from
<1> SUFFICES ASSUME NEW f \in File, AttemptEffects[f] # NoFile
             PROVE  AttemptEffects[f] \subseteq accepted \cup mem[cur].from
  OBVIOUS
<1> DEFINE staged == Staged(cur, mem[cur].attempt)
           p == CHOOSE q \in staged : q.file = f
<1>1. AttemptEffects[f] = IF \E q \in staged : q.file = f THEN p.body ELSE NoFile
  BY DEF AttemptEffects
<1>2. p \in staged /\ AttemptEffects[f] = p.body
  BY <1>1
<1>3. p \in pending
  BY <1>2 DEF Staged
<1> HIDE DEF p
<1>4. p.body \subseteq accepted \cup Answered /\ Answered \subseteq mem[cur].from
  BY <1>3 DEF CleanBodies, PendingClean, InAttempt
<1> QED
  BY <1>2, <1>4

LEMMA FilesCleanStep ==
  ASSUME Typing, CleanBodies, [Next]_vars PROVE FilesClean'
<1>0. CASE UNCHANGED vars
  BY <1>0 DEF vars, disk, writing, CleanBodies, FilesClean, Clean
<1>1. CASE RunEnds
  BY <1>1, AcceptedGrows DEF RunEnds, CleanBodies, FilesClean, Clean, disk, writing, state
<1>2. ASSUME NEW s \in Step, Start(s) PROVE FilesClean'
  BY <1>2, AcceptedGrows DEF Start, CleanBodies, FilesClean, Clean, disk, writing, state
<1>3. ASSUME NEW s \in Step, StartReaper(s) PROVE FilesClean'
  BY <1>3, AcceptedGrows DEF StartReaper, CleanBodies, FilesClean, Clean, disk, writing, state
<1>4. ASSUME NEW c \in Call, Seed(c) PROVE FilesClean'
  BY <1>4, AcceptedGrows DEF Seed, CleanBodies, FilesClean, Clean, disk, writing, state
<1>5. ASSUME NEW c \in DOMAIN call, CallFails(c) PROVE FilesClean'
  BY <1>5, AcceptedGrows DEF CallFails, CleanBodies, FilesClean, Clean, disk, writing, state
<1>6. ASSUME NEW c \in DOMAIN call, NEW fetch \in SUBSET flow[cur].reads,
             NEW ch \in Changes(cur, call[c].run), Answer(c, fetch, ch)
      PROVE FilesClean'
  BY <1>6, AcceptedGrows DEF Answer, CleanBodies, FilesClean, Clean, disk, writing, state
<1>7. ASSUME NEW correctable \in BOOLEAN, AttemptFails(correctable) PROVE FilesClean'
  BY <1>7, AcceptedGrows DEF AttemptFails, CleanBodies, FilesClean, Clean, disk, writing, state
<1>8. CASE Aggregate
  BY <1>8, AcceptedGrows DEF Aggregate, CleanBodies, FilesClean, Clean, disk, writing, state
<1>9. CASE Accept
  BY <1>9, AcceptedGrows DEF Accept, CleanBodies, FilesClean, Clean, disk, writing, state
<1>10. CASE Reject
  BY <1>10, AcceptedGrows DEF Reject, CleanBodies, FilesClean, Clean, disk, writing, state
<1>11. ASSUME NEW s \in Step, Reap(s) PROVE FilesClean'
  BY <1>11, AcceptedGrows DEF Reap, CleanBodies, FilesClean, Clean, disk, writing, state
<1>12. ASSUME NEW s \in Step, Prepare(s) PROVE FilesClean'
  BY <1>12, AcceptedGrows DEF Prepare, CleanBodies, FilesClean, Clean, disk
<1>13. ASSUME NEW f \in File, Rename(f) PROVE FilesClean'
  <2>1. \A g \in File : files'[g] = IF g = f THEN mem[cur].effects[f] ELSE files[g]
    BY <1>13 DEF Rename, Typing, TypeOK
  <2>2. Clean(mem[cur].effects[f])
    BY StepTyped DEF EffectsClean, CleanBodies
  <2> QED
    BY <1>13, <2>1, <2>2 DEF Rename, CleanBodies, FilesClean, Clean
<1>14. CASE RenameFails
  BY <1>14, AcceptedGrows DEF RenameFails, CleanBodies, FilesClean, Clean, disk, writing, state
<1>15. ASSUME NEW f \in File, Rollback(f) PROVE FilesClean'
  <2>1. \A g \in File : files'[g] \in {files[g], orig[g]}
    BY <1>15 DEF Rollback, Restore, Typing, TypeOK
  <2> QED
    BY <1>15, <2>1 DEF Rollback, CleanBodies, FilesClean, Clean
<1>16. CASE RolledBack
  BY <1>16, AcceptedGrows DEF RolledBack, CleanBodies, FilesClean, Clean, disk, writing, state
<1>17. CASE Applied
  BY <1>17, AcceptedGrows DEF Applied, CleanBodies, FilesClean, Clean, disk, writing, state
<1>18. CASE Stop
  BY <1>18, AcceptedGrows DEF Stop, CleanBodies, FilesClean, Clean, disk, Nothing
<1>19. ASSUME NEW f \in File, UserEdits(f) PROVE FilesClean'
  <2>1. \A g \in File : \/ files'[g] = files[g]
                        \/ files'[g] = (IF files[g] = NoFile THEN {} ELSE files[g]) \cup {runs + 1}
    BY <1>19 DEF UserEdits, Typing, TypeOK
  <2>2. accepted' = accepted \cup {runs + 1} /\ orig' = orig
    BY <1>19 DEF UserEdits, writing
  <2> QED
    BY <2>1, <2>2 DEF CleanBodies, FilesClean, Clean
<1>20. CASE Resume
  BY <1>20, AcceptedGrows DEF Resume, CleanBodies, FilesClean, Clean, disk, writing, state
<1> QED
  BY <1>0, <1>1, <1>2, <1>3, <1>4, <1>5, <1>6, <1>7, <1>8, <1>9, <1>10, <1>11, <1>12, <1>13,
     <1>14, <1>15, <1>16, <1>17, <1>18, <1>19, <1>20
     DEF Next, CallFails, Asking

LEMMA EffectsCleanStep ==
  ASSUME Typing, StagedByNow, CleanBodies, [Next]_vars PROVE EffectsClean'
<1>0. CASE UNCHANGED vars
  BY <1>0 DEF vars, state, CleanBodies, EffectsClean, Clean
<1>1. CASE RunEnds
  <2>1. (saved' = saved \/ saved' = mem) /\ mem' = mem
    BY <1>1, SavedIs DEF RunEnds, Choosing, AtTop
  <2> QED
    BY <2>1, AcceptedGrows DEF CleanBodies, EffectsClean, Clean
<1>2. ASSUME NEW s \in Step, Start(s) PROVE EffectsClean'
  <2>1. saved' \in {saved, mem, mem'} /\ \A t \in Step : mem'[t].effects = mem[t].effects
    BY <1>2, StepTyped, SavedIs DEF Start, Choosing, AtTop, Started, StepState, Typing, TypeOK
  <2> QED
    BY <2>1, AcceptedGrows DEF CleanBodies, EffectsClean, Clean
<1>3. ASSUME NEW s \in Step, StartReaper(s) PROVE EffectsClean'
  <2>1. saved' \in {saved, mem, mem'} /\ \A t \in Step : mem'[t].effects = mem[t].effects
    BY <1>3, StepTyped, SavedIs DEF StartReaper, Intended, StepState, Typing, TypeOK
  <2> QED
    BY <2>1, AcceptedGrows DEF CleanBodies, EffectsClean, Clean
<1>4. ASSUME NEW c \in Call, Seed(c) PROVE EffectsClean'
  BY <1>4, AcceptedGrows DEF Seed, CleanBodies, EffectsClean, Clean, state
<1>5. ASSUME NEW c \in DOMAIN call, CallFails(c) PROVE EffectsClean'
  BY <1>5, AcceptedGrows DEF CallFails, CleanBodies, EffectsClean, Clean, state
<1>6. ASSUME NEW c \in DOMAIN call, NEW fetch \in SUBSET flow[cur].reads,
             NEW ch \in Changes(cur, call[c].run), Answer(c, fetch, ch)
      PROVE EffectsClean'
  BY <1>6, AcceptedGrows DEF Answer, CleanBodies, EffectsClean, Clean, state
<1>7. ASSUME NEW correctable \in BOOLEAN, AttemptFails(correctable) PROVE EffectsClean'
  <2>1. saved' \in {saved, mem'}
    BY <1>7, SavedIs DEF AttemptFails
  <2>2. PICK status : mem' = [mem EXCEPT ![cur] = Failed(mem[cur], status)]
    BY <1>7 DEF AttemptFails
  <2>3. Failed(mem[cur], status).effects = mem[cur].effects
    BY StepTyped DEF Failed, StepState
  <2>4. \A t \in Step : mem'[t].effects = mem[t].effects
    BY <2>2, <2>3 DEF Typing, TypeOK
  <2> QED
    BY <2>1, <2>4, AcceptedGrows DEF CleanBodies, EffectsClean, Clean
<1>8. CASE Aggregate
  <2>1. saved' \in {saved, mem, mem'} /\ \A t \in Step : mem'[t].effects = mem[t].effects
    BY <1>8, StepTyped, SavedIs DEF Aggregate, Aggregated, StepState, Typing, TypeOK
  <2> QED
    BY <2>1, AcceptedGrows DEF CleanBodies, EffectsClean, Clean
<1>9. CASE Accept
  <2>1. \A p \in pending : p.step = cur /\ p.attempt = mem[cur].attempt
    BY <1>9 DEF Accept, StagedByNow, InAttempt
  <2>2. AcceptedStep(mem[cur]).effects = AttemptEffects
    BY StepTyped DEF AcceptedStep, StepState
  <2>3. \A t \in Step : mem'[t].effects = IF t = cur THEN AttemptEffects ELSE mem[t].effects
    BY <1>9, <2>2 DEF Accept, Typing, TypeOK
  <2>4. accepted' = accepted \cup mem[cur].from /\ saved' \in {saved, mem'} /\ pc = "eval"
    BY <1>9 DEF Accept
  <2>5. \A t \in Step, f \in File : mem'[t].effects[f] # NoFile => mem'[t].effects[f] \subseteq accepted'
    BY <2>1, <2>3, <2>4, EffectsAreClean DEF CleanBodies, EffectsClean, Clean
  <2> QED
    BY <2>4, <2>5 DEF CleanBodies, EffectsClean, Clean
<1>10. CASE Reject
  <2>1. saved' \in {saved, mem'}
    BY <1>10, SavedIs DEF Reject
  <2>2. \A t \in Step : mem'[t].effects = mem[t].effects
    <3>1. CASE mem' = [mem EXCEPT ![cur] = [mem[cur] EXCEPT !.status = "TerminalFailure", !.reuse = FALSE]]
      BY <3>1, StepTyped DEF StepState, Typing, TypeOK
    <3>2. CASE mem' = [mem EXCEPT ![cur] = Reenter(mem[cur])]
      BY <3>2, StepTyped DEF StepState, Reenter, Typing, TypeOK
    <3>3. CASE mem' = BranchTo(flow[cur].target)
      BY <3>3, StepTyped DEF StepState, Reenter, BranchTo, Typing, TypeOK
    <3> QED
      BY <1>10, <3>1, <3>2, <3>3 DEF Reject
  <2> QED
    BY <2>1, <2>2, AcceptedGrows DEF CleanBodies, EffectsClean, Clean
<1>11. ASSUME NEW s \in Step, Reap(s) PROVE EffectsClean'
  <2>1. saved' \in {saved, mem, mem'} /\ \A t \in Step : mem'[t].effects = mem[t].effects
    BY <1>11, StepTyped, SavedIs DEF Reap, FindEffects, AtTop, StepState, Typing, TypeOK
  <2> QED
    BY <2>1, AcceptedGrows DEF CleanBodies, EffectsClean, Clean
<1>12. ASSUME NEW s \in Step, Prepare(s) PROVE EffectsClean'
  <2>1. (saved' = saved \/ saved' = mem) /\ mem' = mem
    BY <1>12, SavedIs DEF Prepare, FindEffects, AtTop
  <2> QED
    BY <2>1, AcceptedGrows DEF CleanBodies, EffectsClean, Clean
<1>13. ASSUME NEW f \in File, Rename(f) PROVE EffectsClean'
  BY <1>13, AcceptedGrows DEF Rename, CleanBodies, EffectsClean, Clean, state
<1>14. CASE RenameFails
  BY <1>14, AcceptedGrows DEF RenameFails, CleanBodies, EffectsClean, Clean, state
<1>15. ASSUME NEW f \in File, Rollback(f) PROVE EffectsClean'
  BY <1>15, AcceptedGrows DEF Rollback, CleanBodies, EffectsClean, Clean, state
<1>16. CASE RolledBack
  <2>1. (saved' = saved \/ saved' = mem) /\ mem' = mem
    BY <1>16, SavedIs DEF RolledBack
  <2> QED
    BY <2>1, AcceptedGrows DEF CleanBodies, EffectsClean, Clean
<1>17. CASE Applied
  <2> DEFINE m == [mem EXCEPT ![cur] = [mem[cur] EXCEPT !.status = "Done", !.effects = Nothing]]
  <2>1. \A t \in Step : m[t].effects \in {mem[t].effects, Nothing}
    BY StepTyped DEF StepState, Typing, TypeOK
  <2>2. mem' \in {mem, m} /\ saved' \in {mem, m}
    BY <1>17 DEF Applied
  <2> HIDE DEF m
  <2> QED
    BY <2>1, <2>2, AcceptedGrows DEF CleanBodies, EffectsClean, Clean, Nothing
<1>18. CASE Stop
  BY <1>18, AcceptedGrows DEF Stop, CleanBodies, EffectsClean, Clean, state
<1>19. ASSUME NEW f \in File, UserEdits(f) PROVE EffectsClean'
  BY <1>19, AcceptedGrows DEF UserEdits, CleanBodies, EffectsClean, Clean, state
<1>20. CASE Resume
  BY <1>20, AcceptedGrows DEF Resume, CleanBodies, EffectsClean, Clean, state
<1> QED
  BY <1>0, <1>1, <1>2, <1>3, <1>4, <1>5, <1>6, <1>7, <1>8, <1>9, <1>10, <1>11, <1>12, <1>13,
     <1>14, <1>15, <1>16, <1>17, <1>18, <1>19, <1>20
     DEF Next, CallFails, Asking

LEMMA PendingCleanStep ==
  ASSUME Typing, StagedByNow, CleanBodies, [Next]_vars PROVE PendingClean'
<1>0. CASE UNCHANGED vars
  BY <1>0 DEF vars, state, driver, CleanBodies, PendingClean, InAttempt, Answered, Ended
<1>1. CASE RunEnds
  BY <1>1 DEF RunEnds, PendingClean, InAttempt
<1>2. ASSUME NEW s \in Step, Start(s) PROVE PendingClean'
  <2>1. pending' = {} /\ pc' = "call"
    BY <1>2, NothingStaged DEF Start, Choosing, AtTop, driver
  <2> QED
    BY <2>1 DEF PendingClean
<1>3. ASSUME NEW s \in Step, StartReaper(s) PROVE PendingClean'
  BY <1>3 DEF StartReaper, PendingClean, InAttempt
<1>4. ASSUME NEW c \in Call, Seed(c) PROVE PendingClean'
  <2>1. Answered' = Answered
    BY <1>4, AnsweredAfterSeed
  <2> QED
    BY <1>4, <2>1 DEF Seed, CleanBodies, PendingClean, InAttempt, state, driver
<1>5. ASSUME NEW c \in DOMAIN call, CallFails(c) PROVE PendingClean'
  <2>1. Answered' = Answered
    BY <1>5, AnsweredAfterFailure
  <2> QED
    BY <1>5, <2>1 DEF CallFails, CleanBodies, PendingClean, InAttempt, state, driver
<1>6. ASSUME NEW c \in DOMAIN call, NEW fetch \in SUBSET flow[cur].reads,
             NEW ch \in Changes(cur, call[c].run), Answer(c, fetch, ch)
      PROVE PendingClean'
  <2>1. pc = "call" /\ UNCHANGED <<state, accepted>> /\ pending' = pending \cup Entries(ch)
    BY <1>6 DEF Answer, Asking, Stage
  <2>2. Answered' = Answered \cup {call[c].run}
    BY <1>6, AnsweredAfterAnswer
  <2>3. call[c].run \in Run /\ cur \in Step
    BY <1>6 DEF Answer, Typing, TypeOK, Numbered
  <2>4. \A f \in DOMAIN ch : f \in File /\ ch[f] \in Stageable(f, call[c].run)
    BY <2>3, ChangesTyped
  <2>5. \A f \in DOMAIN ch : ch[f] \subseteq accepted \cup {call[c].run}
    BY <2>4 DEF Stageable, CleanBodies, FilesClean, Clean
  <2>6. \A p \in Entries(ch) : p.body \subseteq accepted \cup {call[c].run}
    BY <2>5 DEF Entries
  <2> QED
    BY <2>1, <2>2, <2>6 DEF CleanBodies, PendingClean, InAttempt, state
<1>7. ASSUME NEW correctable \in BOOLEAN, AttemptFails(correctable) PROVE PendingClean'
  BY <1>7 DEF AttemptFails, PendingClean, InAttempt
<1>8. CASE Aggregate
  <2>1. Answered' = Answered /\ pending' = pending /\ pc = "call" /\ accepted' = accepted
    BY <1>8 DEF Aggregate, AllEnded, Answered, Ended, driver
  <2>2. mem'[cur].from = mem[cur].from \cup Answered /\ cur' = cur
    BY <1>8, StepTyped DEF Aggregate, Aggregated, StepState, Typing, TypeOK
  <2> QED
    BY <2>1, <2>2 DEF CleanBodies, PendingClean, InAttempt
<1>9. CASE Accept
  BY <1>9 DEF Accept, PendingClean, InAttempt
<1>10. CASE Reject
  BY <1>10 DEF Reject, PendingClean, InAttempt
<1>11. ASSUME NEW s \in Step, Reap(s) PROVE PendingClean'
  BY <1>11 DEF Reap, FindEffects, AtTop, PendingClean, InAttempt
<1>12. ASSUME NEW s \in Step, Prepare(s) PROVE PendingClean'
  BY <1>12 DEF Prepare, PendingClean, InAttempt
<1>13. ASSUME NEW f \in File, Rename(f) PROVE PendingClean'
  BY <1>13 DEF Rename, state, PendingClean, InAttempt
<1>14. CASE RenameFails
  BY <1>14 DEF RenameFails, PendingClean, InAttempt
<1>15. ASSUME NEW f \in File, Rollback(f) PROVE PendingClean'
  BY <1>15 DEF Rollback, state, PendingClean, InAttempt
<1>16. CASE RolledBack
  BY <1>16 DEF RolledBack, PendingClean, InAttempt
<1>17. CASE Applied
  BY <1>17 DEF Applied, PendingClean, InAttempt
<1>18. CASE Stop
  BY <1>18 DEF Stop, PendingClean, InAttempt
<1>19. ASSUME NEW f \in File, UserEdits(f) PROVE PendingClean'
  BY <1>19 DEF UserEdits, state, PendingClean, InAttempt
<1>20. CASE Resume
  BY <1>20 DEF Resume, PendingClean, InAttempt
<1> QED
  BY <1>0, <1>1, <1>2, <1>3, <1>4, <1>5, <1>6, <1>7, <1>8, <1>9, <1>10, <1>11, <1>12, <1>13,
     <1>14, <1>15, <1>16, <1>17, <1>18, <1>19, <1>20
     DEF Next, CallFails, Asking

-----------------------------------------------------------------------------
(* The evidence *)

\* What is current stays so while the files of the workspace and the cache do.
LEMMA CacheStaysCurrent ==
  ASSUME CacheIsCurrent, UNCHANGED <<files, cache>> PROVE CacheIsCurrent'
  BY DEF CacheIsCurrent, Now

LEMMA EmptyIsCurrent ==
  ASSUME cache' = [s \in Step |-> {}] PROVE CacheIsCurrent'
  BY DEF CacheIsCurrent

\* The calls of an attempt start without evidence, and there are none outside of it.
LEMMA NoEvidence ==
  ASSUME call' = NoCall PROVE \A c \in DOMAIN call' : \A e \in call'[c].seed : Now(e)'
  BY NoCallTyped

LEMMA CurrentStep ==
  ASSUME Typing, CallsInAttempt, Current, [Next]_vars PROVE Current'
<1>0. CASE UNCHANGED vars
  <2>1. UNCHANGED <<flow, files, cache, call, pc, cur, mem>>
    BY <1>0 DEF vars, state, disk, driver
  <2> QED
    BY <2>1 DEF Current, CacheIsCurrent, Now, Invalidates, Targets
<1>1. CASE RunEnds
  <2>1. pc = "top" /\ UNCHANGED <<files, cache, call>>
    BY <1>1 DEF RunEnds, Choosing, AtTop, disk, driver
  <2>2. CacheIsCurrent'
    BY <2>1, CacheStaysCurrent DEF Current
  <2> QED
    BY <1>1, <2>1, <2>2 DEF RunEnds, Current, Now
<1>2. ASSUME NEW s \in Step, Start(s) PROVE Current'
  <2>1. pc = "top" /\ UNCHANGED <<files, cache>>
    BY <1>2 DEF Start, Choosing, AtTop, disk, driver
  <2>2. CacheIsCurrent' /\ pc' = "call"
    BY <1>2, <2>1, CacheStaysCurrent DEF Current, Start
  <2>3. \A c \in DOMAIN call' : call'[c].seed = {}
    BY <1>2 DEF Start
  <2> QED
    BY <2>2, <2>3 DEF Current
<1>3. ASSUME NEW s \in Step, StartReaper(s) PROVE Current'
  <2>1. pc = "top" /\ UNCHANGED <<files, cache, call>>
    BY <1>3 DEF StartReaper, disk, driver
  <2>2. CacheIsCurrent'
    BY <2>1, CacheStaysCurrent DEF Current
  <2> QED
    BY <1>3, <2>1, <2>2 DEF StartReaper, Current, Now
<1>4. ASSUME NEW c \in Call, Seed(c) PROVE Current'
  <2> DEFINE D == flow[cur].deps \cup (IF mem[cur].reuse THEN {cur} ELSE {})
             seed == SeedFromDeps(D)
             given == IF flow[cur].artifacts THEN DropSuperseded(seed) \cup SuppliedArtifacts ELSE seed
  <2>1. pc = "call" /\ UNCHANGED <<state, disk>>
    BY <1>4 DEF Seed, Asking
  <2>2. D \subseteq Step
    BY ConstantsAssumption DEF Typing, TypeOK, StepDef
  <2>3. CacheIsCurrent /\ \A d \in DOMAIN call : \A e \in call[d].seed : Now(e)
    BY <2>1 DEF Current
  <2>4. \A e \in seed : Now(e)
    BY <2>2, <2>3 DEF SeedFromDeps, CacheIsCurrent
  <2>5. \A e \in SuppliedArtifacts : Now(e)
    BY DEF SuppliedArtifacts, Now
  <2>6. \A e \in given : Now(e)
    BY <2>4, <2>5 DEF DropSuperseded
  <2>7. call' = [call EXCEPT ![c] = [st |-> "asked", run |-> runs + 1, seed |-> given]]
    BY <1>4 DEF Seed
  <2> HIDE DEF given, seed, D
  <2>8. \A d \in DOMAIN call' : \A e \in call'[d].seed : Now(e)
    BY <2>3, <2>6, <2>7
  <2>9. \A s \in Step : cache'[s] \subseteq cache[s]
    BY <1>4 DEF Seed, Typing, TypeOK
  <2>10. files' = files
    BY <2>1 DEF disk
  <2> QED
    BY <2>1, <2>3, <2>8, <2>9, <2>10 DEF Current, CacheIsCurrent, Now, state
<1>5. ASSUME NEW c \in DOMAIN call, CallFails(c) PROVE Current'
  <2>1. pc = "call" /\ UNCHANGED <<pc, files, cache>>
    BY <1>5 DEF CallFails, Asking, state, disk, driver
  <2>2. DOMAIN call' = DOMAIN call /\ \A d \in DOMAIN call : call'[d].seed = call[d].seed
    BY <1>5 DEF CallFails, Typing, TypeOK, CallState
  <2> QED
    BY <2>1, <2>2 DEF Current, CacheIsCurrent, Now
<1>6. ASSUME NEW c \in DOMAIN call, NEW fetch \in SUBSET flow[cur].reads,
             NEW ch \in Changes(cur, call[c].run), Answer(c, fetch, ch)
      PROVE Current'
  <2>1. pc = "call" /\ UNCHANGED <<pc, files>> /\ cur \in Step
    BY <1>6 DEF Answer, Asking, state, disk, Typing, TypeOK
  <2>2. DOMAIN call' = DOMAIN call /\ \A d \in DOMAIN call : call'[d].seed = call[d].seed
    BY <1>6 DEF Answer, Typing, TypeOK, CallState
  <2>3. \A src : Now(Fetched(src))
    BY ConstantsAssumption DEF Now, Fetched
  <2>4. \A e \in call[c].seed \cup {Fetched(src) : src \in fetch} : Now(e)
    BY <2>1, <2>3 DEF Current
  <2>5. \A s \in Step : \A e \in cache'[s] : Now(e)
    BY <1>6, <2>1, <2>4 DEF Answer, Current, CacheIsCurrent, Typing, TypeOK
  <2> QED
    BY <2>1, <2>2, <2>5 DEF Current, CacheIsCurrent, Now
<1>7. ASSUME NEW correctable \in BOOLEAN, AttemptFails(correctable) PROVE Current'
  <2>1. pc \in {"call", "eval"} /\ UNCHANGED <<files, cache>>
    BY <1>7 DEF AttemptFails, AllEnded, disk
  <2>2. CacheIsCurrent'
    BY <2>1, CacheStaysCurrent DEF Current
  <2> QED
    BY <1>7, <2>2, NoEvidence DEF AttemptFails, Current
<1>8. CASE Aggregate
  <2>1. pc = "call" /\ pc' = "eval" /\ UNCHANGED <<files, cache, call>>
    BY <1>8 DEF Aggregate, AllEnded, disk, driver
  <2> QED
    BY <2>1 DEF Current, CacheIsCurrent, Now
<1>9. CASE Accept
  <2>1. pc \in {"call", "eval"} /\ UNCHANGED <<files, cache>>
    BY <1>9 DEF Accept, disk
  <2>2. CacheIsCurrent'
    BY <2>1, CacheStaysCurrent DEF Current
  <2> QED
    BY <1>9, <2>2, NoEvidence DEF Accept, Current
<1>10. CASE Reject
  <2>1. pc \in {"call", "eval"} /\ UNCHANGED <<files, cache>>
    BY <1>10 DEF Reject, disk
  <2>2. CacheIsCurrent'
    BY <2>1, CacheStaysCurrent DEF Current
  <2> QED
    BY <1>10, <2>2, NoEvidence DEF Reject, Current
<1>11. ASSUME NEW s \in Step, Reap(s) PROVE Current'
  <2>1. pc = "top" /\ UNCHANGED <<files, cache, call>>
    BY <1>11 DEF Reap, FindEffects, AtTop, disk, driver
  <2>2. CacheIsCurrent'
    BY <2>1, CacheStaysCurrent DEF Current
  <2> QED
    BY <1>11, <2>1, <2>2 DEF Reap, Current, Now
<1>12. ASSUME NEW s \in Step, Prepare(s) PROVE Current'
  <2>1. pc = "top" /\ UNCHANGED <<files, cache, call>>
    BY <1>12 DEF Prepare, FindEffects, AtTop, disk, driver
  <2>2. CacheIsCurrent'
    BY <2>1, CacheStaysCurrent DEF Current
  <2> QED
    BY <1>12, <2>1, <2>2 DEF Prepare, Current, Now
<1>13. ASSUME NEW f \in File, Rename(f) PROVE Current'
  <2>1. pc = "apply" /\ pc' = pc /\ UNCHANGED <<flow, mem, cur, cache, call>> /\ f \in Targets
    BY <1>13 DEF Rename, First, state, driver
  <2>2. Invalidates' <=> Invalidates
    BY <2>1 DEF Invalidates, Targets
  <2>3. CASE f \in Source
    BY <2>1, <2>2, <2>3 DEF Current, Invalidates, CallsInAttempt, InAttempt
  <2>4. CASE f \notin Source
    <3>1. \A g \in Source : files'[g] = files[g]
      BY <1>13, <2>4 DEF Rename
    <3>2. CacheIsCurrent => CacheIsCurrent'
      BY <2>1, <3>1 DEF CacheIsCurrent, Now
    <3> QED
      BY <2>1, <2>2, <3>2 DEF Current, CallsInAttempt, InAttempt
  <2> QED
    BY <2>3, <2>4
<1>14. CASE RenameFails
  <2>1. DOMAIN call' = {}
    BY <1>14 DEF RenameFails, CallsInAttempt, InAttempt
  <2>2. pc' \notin {"top", "call", "eval", "apply"}
    BY <1>14 DEF RenameFails, state
  <2> QED
    BY <2>1, <2>2 DEF Current
<1>15. ASSUME NEW f \in File, Rollback(f) PROVE Current'
  <2>1. DOMAIN call' = {}
    BY <1>15 DEF Rollback, CallsInAttempt, InAttempt
  <2>2. pc' \notin {"top", "call", "eval", "apply"}
    BY <1>15 DEF Rollback, state
  <2> QED
    BY <2>1, <2>2 DEF Current
<1>16. CASE RolledBack
  <2>1. DOMAIN call' = {}
    BY <1>16 DEF RolledBack, CallsInAttempt, InAttempt
  <2>2. pc' \notin {"top", "call", "eval", "apply"}
    BY <1>16 DEF RolledBack, state
  <2> QED
    BY <2>1, <2>2 DEF Current
<1>17. CASE Applied
  <2>1. pc = "apply" /\ UNCHANGED <<files, call>> /\ DOMAIN call = {} /\ pc' \in {"top", "over"}
    BY <1>17 DEF Applied, CallsInAttempt, InAttempt
  <2>2. CASE Invalidates
    BY <1>17, <2>1, <2>2, EmptyIsCurrent DEF Applied, Current
  <2>3. CASE ~Invalidates
    BY <1>17, <2>1, <2>3, CacheStaysCurrent DEF Applied, Current
  <2> QED
    BY <2>2, <2>3
<1>18. CASE Stop
  BY <1>18, NoEvidence DEF Stop, Current
<1>19. ASSUME NEW f \in File, UserEdits(f) PROVE Current'
  <2>1. DOMAIN call' = {}
    BY <1>19 DEF UserEdits, CallsInAttempt, InAttempt
  <2>2. pc' \notin {"top", "call", "eval", "apply"}
    BY <1>19 DEF UserEdits, state
  <2> QED
    BY <2>1, <2>2 DEF Current
<1>20. CASE Resume
  <2>1. DOMAIN call' = {} /\ pc' = "top"
    BY <1>20 DEF Resume, CallsInAttempt, InAttempt
  <2> QED
    BY <1>20, <2>1, EmptyIsCurrent DEF Resume, BeginRun, Current
<1> QED
  BY <1>0, <1>1, <1>2, <1>3, <1>4, <1>5, <1>6, <1>7, <1>8, <1>9, <1>10, <1>11, <1>12, <1>13,
     <1>14, <1>15, <1>16, <1>17, <1>18, <1>19, <1>20
     DEF Next, CallFails, Asking

-----------------------------------------------------------------------------
(* The numbers of the calls, and what they staged *)

LEMMA OwnNumbersStep ==
  ASSUME Typing, OwnNumbers, [Next]_vars PROVE OwnNumbers'
<1>0. CASE UNCHANGED vars
  BY <1>0 DEF vars, bounds, OwnNumbers
<1>1. CASE RunEnds
  BY <1>1 DEF RunEnds, OwnNumbers, bounds
<1>2. ASSUME NEW s \in Step, Start(s) PROVE OwnNumbers'
  <2>1. UNCHANGED <<changed, runs>> /\ 0 <= runs
    BY <1>2 DEF Start, Typing, TypeOK
  <2>2. \A c \in DOMAIN call' : call'[c].st = "idle" /\ call'[c].run = 0
    BY <1>2 DEF Start
  <2> QED
    BY <2>1, <2>2 DEF OwnNumbers
<1>3. ASSUME NEW s \in Step, StartReaper(s) PROVE OwnNumbers'
  <2>1. UNCHANGED <<call, changed>> /\ runs' = runs + 1 /\ runs \in Nat
    BY <1>3 DEF StartReaper, Typing, TypeOK
  <2>2. DOMAIN call \subseteq Call /\ \A c \in DOMAIN call : call[c].run \in Nat
    BY ConstantsAssumption DEF Typing, TypeOK, CallState, Run
  <2>3. \A rf \in changed : rf[1] \in Nat
    BY ConstantsAssumption DEF Typing, TypeOK, Run
  <2>4. (\A c \in DOMAIN call : call[c].run <= runs') /\ \A rf \in changed : rf[1] <= runs'
    BY <2>1, <2>2, <2>3 DEF OwnNumbers
  <2> QED
    BY <2>1, <2>4 DEF OwnNumbers
<1>4. ASSUME NEW c \in Call, Seed(c) PROVE OwnNumbers'
  <2>1. runs' = runs + 1 /\ changed' = changed /\ runs \in Nat
    BY <1>4 DEF Seed, Typing, TypeOK
  <2>2. \A d \in DOMAIN call : call[d].run \in Nat
    BY ConstantsAssumption DEF Typing, TypeOK, CallState, Run
  <2>3. \A rf \in changed : rf[1] \in Nat
    BY ConstantsAssumption DEF Typing, TypeOK, Run
  <2>4. DOMAIN call' = DOMAIN call /\ \A d \in DOMAIN call : d # c => call'[d] = call[d]
    BY <1>4 DEF Seed
  <2>5. c \in DOMAIN call /\ call'[c].run = runs + 1
    BY <1>4 DEF Seed, Asking
  <2>6. \A d \in DOMAIN call : d # c => call'[d].run # runs + 1
    BY <2>1, <2>2, <2>4 DEF OwnNumbers
  <2>7. \A rf \in changed : rf[1] # runs + 1 /\ rf[1] <= runs'
    BY <2>1, <2>3 DEF OwnNumbers
  <2>8. \A d \in DOMAIN call : call'[d].run <= runs'
    BY <2>1, <2>2, <2>4, <2>5 DEF OwnNumbers
  <2>9. \A d, e \in DOMAIN call' :
          call'[d].st # "idle" /\ call'[e].st # "idle" /\ call'[d].run = call'[e].run => d = e
    BY <2>4, <2>5, <2>6 DEF OwnNumbers
  <2>10. \A d \in DOMAIN call' : call'[d].st = "asked" => \A rf \in changed' : rf[1] # call'[d].run
    BY <2>1, <2>4, <2>5, <2>7 DEF OwnNumbers
  <2> QED
    BY <2>1, <2>4, <2>7, <2>8, <2>9, <2>10 DEF OwnNumbers
<1>5. ASSUME NEW c \in DOMAIN call, CallFails(c) PROVE OwnNumbers'
  <2>1. UNCHANGED <<changed, runs>> /\ DOMAIN call' = DOMAIN call
    BY <1>5 DEF CallFails, bounds
  <2>2. \A d \in DOMAIN call : /\ call'[d].run = call[d].run
                               /\ call'[d].st \in {call[d].st, "failed"}
                               /\ call'[d].st # "idle" => call[d].st # "idle"
    BY <1>5 DEF CallFails, Typing, TypeOK, CallState
  <2> QED
    BY <2>1, <2>2 DEF OwnNumbers
<1>6. ASSUME NEW c \in DOMAIN call, NEW fetch \in SUBSET flow[cur].reads,
             NEW ch \in Changes(cur, call[c].run), Answer(c, fetch, ch)
      PROVE OwnNumbers'
  <2>1. runs' = runs /\ DOMAIN call' = DOMAIN call /\ call[c].st = "asked"
    BY <1>6 DEF Answer, bounds
  <2>2. \A d \in DOMAIN call : /\ call'[d].run = call[d].run
                               /\ call'[d].st # "idle" => call[d].st # "idle"
                               /\ call'[d].st = "asked" => call[d].st = "asked" /\ d # c
    BY <1>6 DEF Answer, Typing, TypeOK, CallState
  <2>3. \A rf \in changed' : rf \in changed \/ rf[1] = call[c].run
    BY <1>6 DEF Answer
  <2>4. \A d \in DOMAIN call : call'[d].st = "asked" => \A rf \in changed' : rf[1] # call'[d].run
    BY <2>1, <2>2, <2>3 DEF OwnNumbers
  <2> QED
    BY <2>1, <2>2, <2>3, <2>4 DEF OwnNumbers
<1>7. ASSUME NEW correctable \in BOOLEAN, AttemptFails(correctable) PROVE OwnNumbers'
  <2>1. DOMAIN call' = {} /\ UNCHANGED <<changed, runs>>
    BY <1>7, NoCallTyped DEF AttemptFails
  <2> QED
    BY <2>1 DEF OwnNumbers
<1>8. CASE Aggregate
  BY <1>8 DEF Aggregate, OwnNumbers, bounds
<1>9. CASE Accept
  <2>1. DOMAIN call' = {} /\ UNCHANGED <<changed, runs>>
    BY <1>9, NoCallTyped DEF Accept
  <2> QED
    BY <2>1 DEF OwnNumbers
<1>10. CASE Reject
  <2>1. DOMAIN call' = {} /\ UNCHANGED <<changed, runs>>
    BY <1>10, NoCallTyped DEF Reject
  <2> QED
    BY <2>1 DEF OwnNumbers
<1>11. ASSUME NEW s \in Step, Reap(s) PROVE OwnNumbers'
  BY <1>11 DEF Reap, OwnNumbers, bounds
<1>12. ASSUME NEW s \in Step, Prepare(s) PROVE OwnNumbers'
  BY <1>12 DEF Prepare, OwnNumbers, bounds
<1>13. ASSUME NEW f \in File, Rename(f) PROVE OwnNumbers'
  BY <1>13 DEF Rename, OwnNumbers, bounds
<1>14. CASE RenameFails
  BY <1>14 DEF RenameFails, OwnNumbers, bounds
<1>15. ASSUME NEW f \in File, Rollback(f) PROVE OwnNumbers'
  BY <1>15 DEF Rollback, OwnNumbers, bounds
<1>16. CASE RolledBack
  BY <1>16 DEF RolledBack, OwnNumbers, bounds
<1>17. CASE Applied
  BY <1>17 DEF Applied, OwnNumbers, bounds
<1>18. CASE Stop
  <2>1. DOMAIN call' = {} /\ UNCHANGED <<changed, runs>>
    BY <1>18, NoCallTyped DEF Stop
  <2> QED
    BY <2>1 DEF OwnNumbers
<1>19. ASSUME NEW f \in File, UserEdits(f) PROVE OwnNumbers'
  <2>1. UNCHANGED <<call, changed>> /\ runs' = runs + 1 /\ runs \in Nat
    BY <1>19 DEF UserEdits, Typing, TypeOK
  <2>2. DOMAIN call \subseteq Call /\ \A c \in DOMAIN call : call[c].run \in Nat
    BY ConstantsAssumption DEF Typing, TypeOK, CallState, Run
  <2>3. \A rf \in changed : rf[1] \in Nat
    BY ConstantsAssumption DEF Typing, TypeOK, Run
  <2>4. (\A c \in DOMAIN call : call[c].run <= runs') /\ \A rf \in changed : rf[1] <= runs'
    BY <2>1, <2>2, <2>3 DEF OwnNumbers
  <2> QED
    BY <2>1, <2>4 DEF OwnNumbers
<1>20. CASE Resume
  BY <1>20 DEF Resume, OwnNumbers, bounds
<1> QED
  BY <1>0, <1>1, <1>2, <1>3, <1>4, <1>5, <1>6, <1>7, <1>8, <1>9, <1>10, <1>11, <1>12, <1>13,
     <1>14, <1>15, <1>16, <1>17, <1>18, <1>19, <1>20
     DEF Next, CallFails, Asking

LEMMA TrackedStep ==
  ASSUME Typing, OwnNumbers, Tracked, [Next]_vars PROVE Tracked'
<1>0. CASE UNCHANGED vars
  BY <1>0 DEF vars, state, driver, Tracked, InAttempt, Answered, Ended, Staged
<1>1. CASE RunEnds
  BY <1>1 DEF RunEnds, Tracked, InAttempt
<1>2. ASSUME NEW s \in Step, Start(s) PROVE Tracked'
  <2>1. \A c \in DOMAIN call' : call'[c].st = "idle"
    BY <1>2 DEF Start
  <2> QED
    BY <2>1 DEF Tracked, Answered, Ended
<1>3. ASSUME NEW s \in Step, StartReaper(s) PROVE Tracked'
  BY <1>3 DEF StartReaper, Tracked, InAttempt
<1>4. ASSUME NEW c \in Call, Seed(c) PROVE Tracked'
  <2>1. Answered' = Answered /\ InAttempt /\ UNCHANGED <<state, pending, changed>>
    BY <1>4, AnsweredAfterSeed DEF Seed, Asking, InAttempt, driver
  <2> QED
    BY <2>1 DEF Tracked, Staged, state
<1>5. ASSUME NEW c \in DOMAIN call, CallFails(c) PROVE Tracked'
  <2>1. Answered' = Answered /\ InAttempt /\ UNCHANGED <<state, pending, changed>>
    BY <1>5, AnsweredAfterFailure DEF CallFails, Asking, InAttempt, driver
  <2> QED
    BY <2>1 DEF Tracked, Staged, state
<1>6. ASSUME NEW c \in DOMAIN call, NEW fetch \in SUBSET flow[cur].reads,
             NEW ch \in Changes(cur, call[c].run), Answer(c, fetch, ch)
      PROVE Tracked'
  <2>1. InAttempt /\ UNCHANGED state /\ pending' = pending \cup Entries(ch) /\ call[c].st = "asked"
    BY <1>6 DEF Answer, Asking, InAttempt, Stage
  <2>2. Answered' = Answered \cup {call[c].run}
    BY <1>6, AnsweredAfterAnswer
  <2>3. SUFFICES ASSUME NEW rf \in changed', rf[1] \in Answered'
                 PROVE  \E p \in pending' : /\ p.step = cur /\ p.attempt = mem[cur].attempt
                                            /\ p.file = rf[2] /\ rf[1] \in p.body
    BY <2>1 DEF Tracked, Staged, state
  <2>4. CASE rf \in changed
    <3>1. rf[1] \in Answered
      BY <2>1, <2>2, <2>3, <2>4 DEF OwnNumbers
    <3> QED
      BY <2>1, <2>4, <3>1 DEF Tracked, Staged
  <2>5. CASE rf \in {<<call[c].run, f>> : f \in {g \in DOMAIN ch : call[c].run \in ch[g]}}
    <3>1. PICK f \in DOMAIN ch : rf = <<call[c].run, f>> /\ call[c].run \in ch[f]
      BY <2>5
    <3>2. [step |-> cur, attempt |-> mem[cur].attempt, file |-> f, body |-> ch[f]] \in Entries(ch)
      BY DEF Entries
    <3> QED
      BY <2>1, <3>1, <3>2
  <2> QED
    BY <1>6, <2>4, <2>5 DEF Answer
<1>7. ASSUME NEW correctable \in BOOLEAN, AttemptFails(correctable) PROVE Tracked'
  BY <1>7 DEF AttemptFails, Tracked, InAttempt
<1>8. CASE Aggregate
  <2>1. Answered' = Answered /\ UNCHANGED <<pending, changed, cur>> /\ InAttempt
    BY <1>8 DEF Aggregate, AllEnded, InAttempt, Answered, Ended, driver
  <2>2. mem'[cur].attempt = mem[cur].attempt
    BY <1>8, StepTyped DEF Aggregate, Aggregated, StepState, Typing, TypeOK
  <2> QED
    BY <2>1, <2>2 DEF Tracked, Staged
<1>9. CASE Accept
  BY <1>9 DEF Accept, Tracked, InAttempt
<1>10. CASE Reject
  BY <1>10 DEF Reject, Tracked, InAttempt
<1>11. ASSUME NEW s \in Step, Reap(s) PROVE Tracked'
  BY <1>11 DEF Reap, FindEffects, AtTop, Tracked, InAttempt
<1>12. ASSUME NEW s \in Step, Prepare(s) PROVE Tracked'
  BY <1>12 DEF Prepare, Tracked, InAttempt
<1>13. ASSUME NEW f \in File, Rename(f) PROVE Tracked'
  BY <1>13 DEF Rename, Tracked, InAttempt, state
<1>14. CASE RenameFails
  BY <1>14 DEF RenameFails, Tracked, InAttempt
<1>15. ASSUME NEW f \in File, Rollback(f) PROVE Tracked'
  BY <1>15 DEF Rollback, Tracked, InAttempt, state
<1>16. CASE RolledBack
  BY <1>16 DEF RolledBack, Tracked, InAttempt
<1>17. CASE Applied
  BY <1>17 DEF Applied, Tracked, InAttempt
<1>18. CASE Stop
  BY <1>18 DEF Stop, Tracked, InAttempt
<1>19. ASSUME NEW f \in File, UserEdits(f) PROVE Tracked'
  BY <1>19 DEF UserEdits, Tracked, InAttempt, state
<1>20. CASE Resume
  BY <1>20 DEF Resume, Tracked, InAttempt
<1> QED
  BY <1>0, <1>1, <1>2, <1>3, <1>4, <1>5, <1>6, <1>7, <1>8, <1>9, <1>10, <1>11, <1>12, <1>13,
     <1>14, <1>15, <1>16, <1>17, <1>18, <1>19, <1>20
     DEF Next, CallFails, Asking

-----------------------------------------------------------------------------
(* The inductive invariant *)

IInv ==
  /\ Typing /\ Durable /\ CallsInAttempt /\ Torn /\ StagedByNow /\ CleanBodies
  /\ Current /\ OwnNumbers /\ Tracked

LEMMA InitIInv == Init => IInv
<1> SUFFICES ASSUME Init PROVE IInv
  OBVIOUS
<1>1. DOMAIN call = {} /\ pc = "top" /\ pending = {} /\ changed = {} /\ begun.step = 0
  BY NoCallTyped DEF Init, NotBegun
<1>2. \A s \in Step : /\ mem[s].status = "Pending" /\ saved[s].status = "Pending"
                      /\ mem[s].effects = Nothing /\ saved[s].effects = Nothing
  BY DEF Init, FreshStep
<1>3. \A f \in File : files[f] \in {{}, NoFile} /\ orig[f] = NoFile
  BY DEF Init, Nothing
<1>4. CleanBodies
  BY <1>1, <1>2, <1>3 DEF CleanBodies, FilesClean, EffectsClean, PendingClean, Clean, Nothing, InAttempt
<1>5. Current
  BY <1>1 DEF Init, Current, CacheIsCurrent
<1>6. Durable /\ CallsInAttempt /\ Torn /\ StagedByNow /\ OwnNumbers /\ Tracked
  BY <1>1, <1>2 DEF Durable, CallsInAttempt, Torn, StagedByNow, OwnNumbers, Tracked, OneWaiting,
       Waiting, InAttempt, InRun
<1> QED
  BY <1>4, <1>5, <1>6, InitTyping DEF IInv

LEMMA NextIInv == ASSUME IInv, [Next]_vars PROVE IInv'
  BY TypingStep, DurableStep, CallsInAttemptStep, TornStep, StagedByNowStep, FilesCleanStep,
     EffectsCleanStep, PendingCleanStep, CurrentStep, OwnNumbersStep, TrackedStep
     DEF IInv, CleanBodies

\* The inductive invariant.
THEOREM StagingIsSound == Spec => []IInv
  BY InitIInv, NextIInv, PTL DEF Spec

\* Effects that reached some file but were not applied in full are in the snapshot, where
\* a resume finds them, whatever crashed or failed since.
THEOREM TornEffectsAreKept == Spec => []TornIsPending
<1>1. IInv => TornIsPending
  BY DEF IInv, Torn, Waiting, TornIsPending
<1> QED
  BY <1>1, StagingIsSound, PTL

\* A call is never given a file of the workspace as it was before a step changed it.
THEOREM EvidenceIsCurrent == Spec => []SourceIsCurrent
<1>1. IInv => SourceIsCurrent
  BY DEF IInv, Current, Now, SourceIsCurrent
<1> QED
  BY <1>1, StagingIsSound, PTL

\* No file gets an edit of an attempt that was not accepted.
THEOREM AcceptedOnly == Spec => []OnlyAccepted
<1>1. IInv => OnlyAccepted
  BY DEF IInv, CleanBodies, FilesClean, Clean, OnlyAccepted
<1> QED
  BY <1>1, StagingIsSound, PTL

\* No change of an answer is lost while the attempt is made, whichever lenses write the
\* same file at once.
THEOREM StagedInFull == Spec => []AnswersAreStaged
<1>1. IInv => AnswersAreStaged
  BY DEF IInv, Tracked, InAttempt, AnswersAreStaged
<1> QED
  BY <1>1, StagingIsSound, PTL
=============================================================================
