--------------------------- MODULE StagedChanges ---------------------------
(***************************************************************************)
(* What the driver of a workflow, LlmDriver of                             *)
(* kres-agents/src/workflow_runner.rs, keeps between its calls: the file   *)
(* changes that an attempt stages, their way to the files once the attempt *)
(* is accepted, and the evidence that one step gathers and others start    *)
(* from. The executor, which WorkflowExec models, is here what it asks of  *)
(* the driver.                                                             *)
(*                                                                         *)
(* The steps of a workflow and the files are numbers, in the order of the  *)
(* workflow and of the paths. Every call of an agent, every reaper action  *)
(* and every edit by the user between two runs has a number of its own, a  *)
(* run, and the body of a file is the set of the runs whose edits it has.  *)
(***************************************************************************)
EXTENDS Integers, FiniteSets

CONSTANTS
  Steps,        \* number of steps of a workflow
  Lens,         \* lenses of a lensed step
  Solo,         \* the one call of a step without lenses
  Files,        \* number of files
  Source,       \* the files of the workspace, but for the next
  Scratch,      \* the scratch file of the commit message
  Artifact,     \* the files of the finding; those not in Source are outside the workspace
  Git,          \* the repository, where evidence of git comes from
  NoFile,       \* the body of a file that does not exist
  Workflows,    \* the workflows considered
  RunBound,     \* bound of the model: runs
  FaultBound,   \* bound of the model: failed writes
  StopBound     \* bound of the model: times a run is stopped

Step == 1 .. Steps
File == 1 .. Files
Run  == 1 .. RunBound
Call == Lens \cup {Solo}
Body == {NoFile} \cup SUBSET Run

\* What the driver reads of a step. It gathers evidence from what is in reads and changes
\* files in writes; artifacts is set for a step that declares summary_written, and builds
\* for one that declares make, meson or bash.
StepDef ==
  [deps : SUBSET Step, reaper : BOOLEAN, lenses : SUBSET Lens, reads : SUBSET (File \cup {Git}),
   writes : SUBSET File, artifacts : BOOLEAN, builds : BOOLEAN,
   eval : {"none", "repeat", "branch_to"}, target : Step, attempts : Nat \ {0}]

ASSUME ConstantsAssumption ==
  /\ Steps \in Nat \ {0} /\ {Files, RunBound, FaultBound, StopBound} \subseteq Nat
  /\ Source \subseteq File /\ Scratch \subseteq File \ Source /\ Artifact \subseteq File
  /\ Git \notin File /\ Solo \notin Lens
  /\ Workflows \subseteq [Step -> StepDef]

VARIABLES
  flow,      \* the workflow
  files,     \* the bodies of the files
  head,      \* the commits of the repository
  mem,       \* the states of the steps, in memory
  saved,     \* the same in the snapshot file
  pending,   \* pending_changes: what attempts have staged
  cache,     \* gathered_cache: the evidence of each step
  pc,        \* where the executor is
  cur,       \* the step it works on
  call,      \* the calls of the agent for the attempt of cur
  orig,      \* what the files held before effects were written
  done,      \* the files already renamed into place
  runs, faults, stops,
  \* Not in the code: the runs that are accepted, the changes each run made, the files
  \* that an error of the rollback named, and the effects begun and not applied in full.
  accepted, changed, unrestored, begun

state   == <<mem, saved, pc, cur>>
disk    == <<files, head, begun>>
driver  == <<pending, cache>>
writing == <<orig, done, unrestored>>
bounds  == <<runs, faults, stops>>
vars    == <<flow, state, disk, driver, call, writing, bounds, accepted, changed>>

Evidence == [src : File \cup {Git}, body : Body, current : BOOLEAN]
Change   == [step : Step, attempt : Nat, file : File, body : Body]
Effects  == [File -> Body]
Place    == {"top", "call", "eval", "apply", "rollback", "over", "down"}

\* The effects that leave every file alone.
Nothing == [f \in File |-> NoFile]

Status == {"Pending", "EffectsPending", "Done", "TerminalFailure"}

\* kept are the lenses with a saved output, and from, not in the code, the runs that the
\* outputs of the step come from.
StepState ==
  [status : Status, attempt : Nat, reuse : BOOLEAN, kept : SUBSET Lens, from : SUBSET Run,
   effects : Effects]

CallState == [st : {"idle", "asked", "done", "failed"}, run : Run \cup {0}, seed : SUBSET Evidence]

FreshStep ==
  [status |-> "Pending", attempt |-> 0, reuse |-> FALSE, kept |-> {}, from |-> {},
   effects |-> Nothing]

NotBegun == [step |-> 0, effects |-> Nothing]
NoCall   == [c \in {} |-> 0]

TypeOK ==
  /\ flow \in Workflows /\ files \in [File -> Body] /\ head \in SUBSET Run
  /\ mem \in [Step -> StepState] /\ saved \in [Step -> StepState]
  /\ pending \subseteq Change /\ cache \in [Step -> SUBSET Evidence]
  /\ pc \in Place /\ cur \in Step
  /\ DOMAIN call \subseteq Call /\ \A c \in DOMAIN call : call[c] \in CallState
  /\ orig \in [File -> Body] /\ done \subseteq File /\ unrestored \subseteq File
  /\ runs \in 0 .. RunBound /\ faults \in 0 .. FaultBound /\ stops \in 0 .. StopBound
  /\ accepted \subseteq Run /\ changed \subseteq Run \X File
  /\ begun \in [step : 0 .. Steps, effects : Effects]

Init ==
  /\ flow \in Workflows
  /\ files \in [File -> {{}, NoFile}] /\ \A f \in Source : files[f] = {}
  /\ \A f \in Scratch : files[f] = NoFile
  /\ head = {} /\ mem = [s \in Step |-> FreshStep] /\ saved = mem
  /\ pending = {} /\ cache = [s \in Step |-> {}]
  /\ pc = "top" /\ cur = 1 /\ call = NoCall
  /\ orig = Nothing /\ done = {} /\ unrestored = {}
  /\ runs = 0 /\ faults = 0 /\ stops = 0
  /\ accepted = {} /\ changed = {} /\ begun = NotBegun

-----------------------------------------------------------------------------
(* The executor saves the snapshot and looks for work *)

HasStatus(st) == {s \in Step : mem[s].status = st}

First(s, S) == s \in S /\ \A t \in S : s <= t

Runnable == {s \in HasStatus("Pending") : \A d \in flow[s].deps : mem[d].status = "Done"}

\* snapshot_save: an error, before the rename of the file or after it, is logged.
TrySave(m) ==
  \/ saved' = m /\ UNCHANGED faults
  \/ faults < FaultBound /\ faults' = faults + 1 /\ saved' \in {saved, m}

AtTop == pc = "top" /\ TrySave(mem)

Choosing ==
  AtTop /\ HasStatus("TerminalFailure") = {} /\ HasStatus("EffectsPending") = {}

RunEnds ==
  /\ \/ AtTop /\ HasStatus("TerminalFailure") # {}
     \/ Choosing /\ Runnable = {}
  /\ pc' = "over"
  /\ UNCHANGED <<flow, mem, cur, disk, driver, call, writing, runs, stops, accepted, changed>>

\* The calls of an attempt: one, or one for each lens without a saved output.
CallsOf(s) == IF flow[s].lenses = {} THEN {Solo} ELSE flow[s].lenses \ mem[s].kept

Started(st) == [st EXCEPT !.attempt = @ + 1, !.from = IF st.kept = {} THEN {} ELSE @]

Start(s) ==
  /\ Choosing /\ First(s, Runnable) /\ ~flow[s].reaper
  /\ mem' = [mem EXCEPT ![s] = Started(@)]
  /\ pc' = "call" /\ cur' = s
  /\ call' = [c \in CallsOf(s) |-> [st |-> "idle", run |-> 0, seed |-> {}]]
  /\ UNCHANGED <<flow, disk, driver, writing, runs, stops, accepted, changed>>

Intended(st) == [st EXCEPT !.attempt = @ + 1, !.status = "EffectsPending", !.from = {runs + 1}]

\* A reaper step commits to its intent before it acts.
StartReaper(s) ==
  /\ pc = "top" /\ HasStatus("TerminalFailure") = {} /\ HasStatus("EffectsPending") = {}
  /\ First(s, Runnable) /\ flow[s].reaper
  /\ runs < RunBound /\ runs' = runs + 1
  /\ mem' = [mem EXCEPT ![s] = Intended(@)]
  /\ saved' = mem' /\ accepted' = accepted \cup {runs + 1}
  /\ UNCHANGED <<flow, pc, cur, disk, driver, call, writing, faults, stops, changed>>

-----------------------------------------------------------------------------
(* A call of the agent *)

Asking(c) == pc = "call" /\ c \in DOMAIN call

\* seed_gather_from_deps
SeedFromDeps(deps) == UNION {cache[d] : d \in deps}

\* drop_superseded_artifact_context
DropSuperseded(records) == {e \in records : e.current \/ e.src \notin Artifact}

\* supplied_finding_artifacts: the files of the finding as they are, or that they are not.
SuppliedArtifacts == {[src |-> f, body |-> files[f], current |-> TRUE] : f \in Artifact}

\* seed_gather_for_step, and the files of the finding for a step that rewrites them.
Seed(c) ==
  /\ Asking(c) /\ call[c].st = "idle"
  /\ runs < RunBound /\ runs' = runs + 1
  /\ LET own  == IF mem[cur].reuse THEN {cur} ELSE {}
         seed == SeedFromDeps(flow[cur].deps \cup own) IN
       call' = [call EXCEPT ![c] =
         [st |-> "asked", run |-> runs + 1,
          seed |-> IF flow[cur].artifacts THEN DropSuperseded(seed) \cup SuppliedArtifacts ELSE seed]]
  /\ cache' = IF mem[cur].reuse THEN cache ELSE [cache EXCEPT ![cur] = {}]
  /\ UNCHANGED <<flow, state, disk, pending, writing, faults, stops, accepted, changed>>

\* What the agent can fetch now.
Fetched(src) == [src |-> src, body |-> IF src = Git THEN head ELSE files[src], current |-> FALSE]

\* What a file can be staged as by run r: a whole output or a new file, the file with an
\* edit, or the file as it is, if the edit is there already.
Stageable(f, r) == IF files[f] = NoFile THEN {{r}} ELSE {{r}, files[f] \cup {r}, files[f]}

\* stage_code_changes: the change may be of any files that the step writes.
Changes(s, r) ==
  {ch \in UNION {[W -> UNION {Stageable(f, r) : f \in W}] : W \in SUBSET flow[s].writes} :
     \A f \in DOMAIN ch : ch[f] \in Stageable(f, r)}

\* What the attempt a of step s has staged.
Staged(s, a) == {p \in pending : p.step = s /\ p.attempt = a}

Entries(ch) ==
  {[step |-> cur, attempt |-> mem[cur].attempt, file |-> f, body |-> ch[f]] : f \in DOMAIN ch}

\* stage_attempt refuses contents that differ from what a call of the same attempt staged.
Stage(ch) ==
  /\ \A p \in Staged(cur, mem[cur].attempt) : p.file \in DOMAIN ch => p.body = ch[p.file]
  /\ pending' = pending \cup Entries(ch)

\* The answer is valid: its changes are staged, and the evidence it was given and what it
\* fetched is kept for others, if there is any.
Answer(c, fetch, ch) ==
  /\ Asking(c) /\ call[c].st = "asked"
  /\ fetch \subseteq flow[cur].reads /\ ch \in Changes(cur, call[c].run)
  /\ Stage(ch)
  /\ LET gathered == call[c].seed \cup {Fetched(src) : src \in fetch} IN
       cache' = IF gathered = {} THEN cache ELSE [cache EXCEPT ![cur] = gathered]
  /\ call' = [call EXCEPT ![c].st = "done"]
  /\ changed' = changed \cup {<<call[c].run, f>> : f \in {g \in DOMAIN ch : call[c].run \in ch[g]}}
  /\ UNCHANGED <<flow, state, disk, writing, bounds, accepted>>

\* The tries are used up, the agent failed, or the contents conflict.
CallFails(c) ==
  /\ Asking(c) /\ call[c].st = "asked"
  /\ call' = [call EXCEPT ![c].st = "failed"]
  /\ UNCHANGED <<flow, state, disk, driver, writing, bounds, accepted, changed>>

-----------------------------------------------------------------------------
(* The attempt ends *)

Ended(st) == {c \in DOMAIN call : call[c].st = st}

AllEnded == pc = "call" /\ DOMAIN call = Ended("done") \cup Ended("failed")

Answered == {call[c].run : c \in Ended("done")}

\* discard_attempt
Discard == pending' = pending \ Staged(cur, mem[cur].attempt)

\* Attempts of a step without eval, if the error is one the agent can correct.
SelfCorrectable == 3

\* The step after an attempt with answers that stay, in the status that follows.
Failed(st, status) ==
  [st EXCEPT !.status = status, !.reuse = FALSE, !.kept = @ \cup (Ended("done") \cap Lens),
             !.from = @ \cup Answered]

\* A call failed: nothing of the attempt stays staged, but the outputs of lenses stay.
\* The step is tried again, or the run ends.
AttemptFails(correctable) ==
  /\ AllEnded /\ Ended("failed") # {}
  /\ Discard
  /\ LET budget == IF flow[cur].eval = "none" THEN SelfCorrectable ELSE flow[cur].attempts
         again  == flow[cur].eval # "none" \/ correctable
         last   == again /\ mem[cur].attempt >= budget IN
       /\ mem' = [mem EXCEPT ![cur] = Failed(@, IF last THEN "TerminalFailure" ELSE "Pending")]
       /\ IF again /\ ~last THEN pc' = "top" /\ UNCHANGED <<saved, faults>>
                            ELSE pc' = "over" /\ TrySave(mem')
  /\ call' = NoCall
  /\ UNCHANGED <<flow, cur, disk, cache, writing, runs, stops, accepted, changed>>

Aggregated(st) == [st EXCEPT !.kept = {}, !.from = @ \cup Answered]

Aggregate ==
  /\ AllEnded /\ Ended("failed") = {}
  /\ mem' = [mem EXCEPT ![cur] = Aggregated(@)]
  /\ pc' = "eval"
  /\ UNCHANGED <<flow, saved, cur, disk, driver, call, writing, bounds, accepted, changed>>

\* attempt_effects: what the attempt staged, by file.
AttemptEffects ==
  LET staged == Staged(cur, mem[cur].attempt) IN
    [f \in File |-> IF \E p \in staged : p.file = f
                    THEN (CHOOSE p \in staged : p.file = f).body ELSE NoFile]

\* The step with its effects to apply; an eval that passed ends the reuse of evidence.
AcceptedStep(st) ==
  [st EXCEPT !.status = "EffectsPending", !.effects = AttemptEffects,
             !.reuse = @ /\ flow[cur].eval = "none"]

\* Mutant: the save at the head of the loop is left to make the effects durable.
AcceptUnsaved ==
  /\ pc = "eval" /\ call' = NoCall
  /\ mem' = [mem EXCEPT ![cur] = AcceptedStep(@)]
  /\ accepted' = accepted \cup mem[cur].from /\ pc' = "top"
  /\ UNCHANGED <<flow, saved, cur, disk, driver, writing, bounds, changed>>

\* The effects of an accepted attempt are in the snapshot before they reach a file.
Accept ==
  /\ pc = "eval" /\ call' = NoCall
  /\ mem' = [mem EXCEPT ![cur] = AcceptedStep(@)]
  /\ accepted' = accepted \cup mem[cur].from
  /\ \/ pc' = "top" /\ saved' = mem' /\ UNCHANGED <<pending, faults>>
     \/ /\ faults < FaultBound /\ faults' = faults + 1
        /\ pc' = "over" /\ saved' \in {saved, mem'} /\ Discard
  /\ UNCHANGED <<flow, cur, disk, cache, writing, runs, stops, changed>>

\* The steps that depend on t, through any number of steps.
Dependents(t) ==
  {s \in Step :
     \A D \in SUBSET Step :
       (\A u \in Step : flow[u].deps \cap (D \cup {t}) # {} => u \in D) => s \in D}

Reenter(st) == [st EXCEPT !.status = "Pending", !.reuse = TRUE]

\* branch_to: the target and the step itself may use their own evidence again, the
\* dependents that come after the target may not.
BranchTo(t) ==
  [s \in Step |->
     IF s = cur THEN IF t \in Dependents(cur) THEN [mem[s] EXCEPT !.status = "Done", !.reuse = FALSE]
                                              ELSE Reenter(mem[s])
     ELSE IF s = t THEN Reenter(mem[s])
     ELSE IF s \in Dependents(t) /\ mem[s].status = "Done"
       THEN [mem[s] EXCEPT !.status = "Pending", !.reuse = FALSE]
     ELSE mem[s]]

\* The eval turns the attempt down.
Reject ==
  /\ pc = "eval" /\ flow[cur].eval # "none" /\ call' = NoCall /\ Discard
  /\ IF mem[cur].attempt >= flow[cur].attempts
       THEN /\ mem' = [mem EXCEPT ![cur] = [@ EXCEPT !.status = "TerminalFailure", !.reuse = FALSE]]
            /\ pc' = "over" /\ TrySave(mem')
       ELSE /\ mem' = IF flow[cur].eval = "repeat" THEN [mem EXCEPT ![cur] = Reenter(@)]
                                                   ELSE BranchTo(flow[cur].target)
            /\ pc' = "top" /\ UNCHANGED <<saved, faults>>
  /\ UNCHANGED <<flow, cur, disk, cache, writing, runs, stops, accepted, changed>>

-----------------------------------------------------------------------------
(* Accepted effects *)

FindEffects(s) ==
  AtTop /\ HasStatus("TerminalFailure") = {} /\ First(s, HasStatus("EffectsPending"))

\* The commit-fix of a reaper: done once, it is found done the next time.
Reap(s) ==
  /\ FindEffects(s) /\ flow[s].reaper
  /\ head' = head \cup mem[s].from
  /\ mem' = [mem EXCEPT ![s] = [@ EXCEPT !.status = "Done"]]
  /\ UNCHANGED <<flow, pc, cur, files, begun, driver, call, writing, runs, stops, accepted, changed>>

\* The files that the effects of the step change.
Targets == {f \in File : mem[cur].effects[f] # NoFile}

\* commit_staged_files: what every file holds is noted and its new body is written beside
\* it, before any file changes.
Prepare(s) ==
  /\ FindEffects(s) /\ ~flow[s].reaper
  /\ pc' = "apply" /\ cur' = s
  /\ orig' = files /\ done' = {} /\ unrestored' = {}
  /\ UNCHANGED <<flow, mem, disk, driver, call, runs, stops, accepted, changed>>

\* The files are renamed into place one by one.
Rename(f) ==
  /\ pc = "apply" /\ First(f, Targets \ done)
  /\ files' = [files EXCEPT ![f] = mem[cur].effects[f]]
  /\ done' = done \cup {f}
  /\ begun' = [step |-> cur, effects |-> mem[cur].effects]
  /\ UNCHANGED <<flow, state, head, driver, call, orig, unrestored, bounds, accepted, changed>>

\* A failure to prepare the files is that of the first rename.
RenameFails ==
  /\ pc = "apply" /\ done # Targets
  /\ faults < FaultBound /\ faults' = faults + 1
  /\ pc' = "rollback"
  /\ UNCHANGED <<flow, mem, saved, cur, disk, driver, call, writing, runs, stops, accepted, changed>>

Last(f, S) == f \in S /\ \A g \in S : g <= f

Restore(f) == files' = [files EXCEPT ![f] = orig[f]]

\* They are put back in the opposite order; an error is reported and the rest goes on.
Rollback(f) ==
  /\ pc = "rollback" /\ Last(f, done) /\ done' = done \ {f}
  /\ \/ Restore(f) /\ UNCHANGED <<unrestored, faults>>
     \/ /\ faults < FaultBound /\ faults' = faults + 1
        /\ unrestored' = unrestored \cup {f} /\ UNCHANGED files
  /\ UNCHANGED <<flow, state, head, begun, driver, call, orig, runs, stops, accepted, changed>>

RolledBack ==
  /\ pc = "rollback" /\ done = {} /\ pc' = "over" /\ TrySave(mem)
  /\ UNCHANGED <<flow, mem, cur, disk, driver, call, writing, runs, stops, accepted, changed>>

\* Mutant: one file outside the workspace is enough to keep the evidence.
InvalidatesIfAll == flow[cur].builds \/ (Targets # {} /\ Targets \subseteq Source)

\* staged_write_can_stale_gathered_source, for any of the files, or a step that builds.
Invalidates == flow[cur].builds \/ Targets \cap Source # {}

\* All files are in place. If that cannot be saved, the effects are still pending.
Applied ==
  /\ pc = "apply" /\ done = Targets
  /\ cache' = IF Invalidates THEN [s \in Step |-> {}] ELSE cache
  /\ Discard
  /\ begun' = NotBegun
  /\ LET m == [mem EXCEPT ![cur] = [@ EXCEPT !.status = "Done", !.effects = Nothing]] IN
       \/ mem' = m /\ pc' = "top" /\ saved' = m /\ UNCHANGED faults
       \/ /\ faults < FaultBound /\ faults' = faults + 1
          /\ UNCHANGED mem /\ pc' = "over" /\ saved' \in {mem, m}
  /\ UNCHANGED <<flow, cur, files, head, call, writing, runs, stops, accepted, changed>>

-----------------------------------------------------------------------------
(* Runs end and start *)

\* The run is dropped or its process killed, or it is over.
Stop ==
  /\ pc # "down" /\ stops < StopBound /\ stops' = stops + 1
  /\ pc' = "down" /\ call' = NoCall
  /\ orig' = Nothing /\ done' = {} /\ unrestored' = {}
  /\ UNCHANGED <<flow, mem, saved, cur, disk, driver, runs, faults, accepted, changed>>

\* Between two runs the user may change the workspace.
UserEdits(f) ==
  /\ pc = "down" /\ f \in Source
  /\ runs < RunBound /\ runs' = runs + 1
  /\ files' = [files EXCEPT ![f] = (IF @ = NoFile THEN {} ELSE @) \cup {runs + 1}]
  /\ accepted' = accepted \cup {runs + 1}
  /\ UNCHANGED <<flow, state, head, begun, driver, call, writing, faults, stops, changed>>

\* Mutant: what was staged stays.
BeginRunKeepsPending == cache' = [s \in Step |-> {}] /\ UNCHANGED pending

\* begin_run: a driver that served another run starts from nothing, as a new one does.
BeginRun == pending' = {} /\ cache' = [s \in Step |-> {}]

Resume ==
  /\ pc = "down" /\ pc' = "top" /\ mem' = saved /\ BeginRun
  /\ UNCHANGED <<flow, saved, cur, disk, call, writing, bounds, accepted, changed>>

Next ==
  \/ RunEnds \/ Aggregate \/ Accept \/ Reject \/ RenameFails \/ RolledBack \/ Applied
  \/ Stop \/ Resume
  \/ \E s \in Step : Start(s) \/ StartReaper(s) \/ Reap(s) \/ Prepare(s)
  \/ \E c \in Call : Seed(c) \/ CallFails(c)
  \/ \E c \in DOMAIN call, fetch \in SUBSET flow[cur].reads :
       \E ch \in Changes(cur, call[c].run) : Answer(c, fetch, ch)
  \/ \E correctable \in BOOLEAN : AttemptFails(correctable)
  \/ \E f \in File : Rename(f) \/ Rollback(f) \/ UserEdits(f)

Spec == Init /\ [][Next]_vars

-----------------------------------------------------------------------------
(* Properties *)

\* The evidence that a call starts from says of every file of the workspace what it holds
\* now, although steps in between, rejected attempts, failed writes and earlier runs
\* changed or may have changed it (the invalidation in apply_attempt_effects, begin_run).
SourceIsCurrent ==
  \A c \in DOMAIN call : \A e \in call[c].seed : e.src \in Source => e.body = files[e.src]

\* Effects that reached some file and were not applied in full, because of a crash, a
\* failed write or a rollback that failed, are in the snapshot as effects to apply, so
\* that a resume completes them (run_internal, commit_staged_files).
TornIsPending ==
  begun.step # 0 =>
    /\ saved[begun.step].status = "EffectsPending"
    /\ saved[begun.step].effects = begun.effects

\* When commit_staged_files puts files back, those it is through with hold what they held
\* before, or do not exist again, unless its error names them.
RollbackRestores ==
  pc = "rollback" =>
    \A f \in File \ done : f \in unrestored \/ files[f] = orig[f]

\* A file has no edit of a rejected, failed or dropped attempt, whatever such an attempt
\* left in pending_changes and however often its number is used again after a resume.
OnlyAccepted == \A f \in File : files[f] # NoFile => files[f] \subseteq accepted

\* When all calls of an attempt have answered, what each of them changed is staged, even
\* if two lenses changed the same file at once (stage_attempt).
AnswersAreStaged ==
  pc = "eval" =>
    \A rf \in changed : rf[1] \in Answered =>
      \E p \in Staged(cur, mem[cur].attempt) : p.file = rf[2] /\ rf[1] \in p.body

\* The file writes of every answer that an accepted output was made from are among the
\* effects of the step: docs/workflow.md says that they are only applied once the answer
\* passes its check. A lens whose output was kept, when another lens failed, lost them.
AnswersAreApplied ==
  \A s \in Step : mem[s].status = "EffectsPending" /\ ~flow[s].reaper =>
    \A rf \in changed : rf[1] \in mem[s].from =>
      mem[s].effects[rf[2]] # NoFile /\ rf[1] \in mem[s].effects[rf[2]]

\* The model never sees two versions of a file of the finding, as the comments on
\* drop_superseded_artifact_context and on its test say.
OneVersion ==
  \A c \in DOMAIN call : \A d, e \in call[c].seed :
    d.src = e.src /\ d.src \in Artifact => d.body = e.body

\* What a step is given of its own earlier gather is current by construction, as
\* reset_for_reentry says, for the records that git gave as well.
GitIsCurrent ==
  \A c \in DOMAIN call : \A e \in call[c].seed : e.src = Git => e.body = head
=============================================================================
