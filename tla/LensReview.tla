----------------------------- MODULE LensReview -----------------------------
(***************************************************************************)
(* One review task: gather evidence with the fast agent, fan out one slow  *)
(* call per lens and model over that evidence, repair the calls that gave  *)
(* nothing usable, and requeue.  A lens that names evidence it did not     *)
(* have is run again, in the same task, once the evidence is fetched; the  *)
(* others are parked with the answer they gave.  When nothing more is      *)
(* asked, or the budget of requeues is spent, what the lenses said is      *)
(* consolidated, and every call without an answer becomes a followup.      *)
(*                                                                         *)
(* A piece of evidence is a key.  Of a lens's followups only the blocking, *)
(* fetchable ones are kept (asks): the others never drive a round.         *)
(***************************************************************************)
EXTENDS Naturals, FiniteSets

CONSTANTS
    Lens,          \* the slate of the workflow
    Maintainer, General, NoLens, \* the lenses a second model may be routed to
    Variant,       \* the slow models
    Secondary,     \* those that run the supplemental lens only
    Key,           \* the evidence there is to ask for
    MaxFastRounds, \* rounds of one gather
    MaxRequeues,   \* MAX_TASK_REQUEUES
    MaxRetries     \* GENERIC_LENS_REPAIR_RETRIES

ASSUME SlateAssumption == NoLens \notin Lens /\ Secondary \subseteq Variant
ASSUME FiniteAssumption == IsFiniteSet(Lens) /\ IsFiniteSet(Variant)
ASSUME BoundAssumption == {MaxFastRounds, MaxRequeues, MaxRetries} \subseteq Nat

VARIABLES
    phase,      \* where the task is
    opening,    \* is it the opening step of the plan?
    shutdown,   \* has the session been cancelled?
    rounds,     \* fast_rounds of this gather
    fetched,    \* fetched_keys of this gather
    evidence,   \* what the lenses are shown
    pending,    \* pending_followups: what this gather fetches before its rounds
    inflight,   \* the lens calls under way
    held,       \* the calls that wait for the seed call of their model
    results,    \* results[c]: what call c of this fan-out gave
    repaired,   \* the malformed responses a repair was tried on
    retries,    \* repairs made of this fan-out
    active,     \* the lenses that still run
    parked,     \* parked[c]: what a call gave whose lens runs no more
    requested,  \* the keys the task has asked for
    requeued,   \* requeues made
    served,     \* history: the keys fetched for a lens that asked for them
    merged,     \* the calls whose answers were consolidated
    missing     \* the calls that became followups

gather == <<rounds, fetched, evidence, pending, served>>
fanout == <<inflight, held, results, repaired, retries>>
lenses == <<active, parked, requested, requeued>>
report == <<merged, missing>>
vars == <<phase, opening, shutdown, gather, fanout, lenses, report>>

Call == Lens \X Variant

SupplementalLens(slate) ==
    IF Maintainer \in slate THEN Maintainer
    ELSE IF General \in slate THEN General ELSE NoLens

\* The calls of a fan-out over a slate, less what a second model leaves out.
Calls(slate) ==
    {c \in slate \X Variant : c[2] \in Secondary => c[1] = SupplementalLens(slate)}

\* A call gives an answer, a response that breaks the schema (whose followups
\* are read all the same), a valid one with nothing in it, an error, or the
\* typed error of a prompt that is too long.  seen is history: served, then.
Nothing == [kind |-> "none", asks |-> {}, seen |-> {}]
Given(kind, asks) == [kind |-> kind, asks |-> asks, seen |-> served]
Responses == {Given(kind, asks) : kind \in {"answer", "malformed"}, asks \in SUBSET Key}
Outcomes == Responses \cup {Given(kind, {}) : kind \in {"empty", "failed", "over"}}
Cancelled == Given("failed", {})

Output(r) == r.kind \in {"answer", "malformed", "empty"}
Failure(r) == r.kind \in {"failed", "over"}
Usable(r) == r.kind = "answer"
NoResult == [c \in Call |-> Nothing]

Init ==
    /\ phase = "prefetch" /\ opening \in BOOLEAN /\ shutdown = FALSE
    /\ rounds = 0 /\ fetched = {} /\ evidence = {} /\ pending = {} /\ served = {}
    /\ inflight = {} /\ held = {} /\ results = NoResult
    /\ repaired = {} /\ retries = 0
    /\ active = Lens /\ parked = NoResult /\ requested = {} /\ requeued = 0
    /\ merged = {} /\ missing = {}

Running == phase \notin {"done", "error"}

\* The call returns an error: whatever the lenses have said is gone.
Error ==
    /\ phase' = "error"
    /\ UNCHANGED <<opening, shutdown, gather, fanout, lenses, report>>

Shutdown ==
    /\ Running /\ ~shutdown
    /\ shutdown' = TRUE
    /\ UNCHANGED <<phase, opening, gather, fanout, lenses, report>>

-----------------------------------------------------------------------------
(* gather                                                                   *)

\* The fetcher finds some of what it was asked for.
Fetched(keys) ==
    /\ keys = {} \/ ~shutdown
    /\ \E found \in SUBSET keys : evidence' = evidence \cup found
    /\ fetched' = fetched \cup keys

\* The requests a lens was left waiting for come before any round.
Prefetch ==
    /\ phase = "prefetch" /\ Fetched(pending)
    /\ phase' = "gather" /\ rounds' = 0
    /\ served' = served \cup pending
    /\ UNCHANGED <<opening, shutdown, pending, fanout, lenses, report>>

\* The fast agent is ready, asks for nothing, only puts questions, or only
\* asks again; or the rounds are used up.
GatherEnds ==
    /\ phase = "gather"
    /\ ~shutdown \/ rounds = MaxFastRounds
    /\ phase' = "fanout"
    /\ UNCHANGED <<opening, shutdown, gather, fanout, lenses, report>>

\* It asks for the skills to read, which another round will show it.
GatherSkills ==
    /\ phase = "gather" /\ ~shutdown /\ rounds < MaxFastRounds
    /\ rounds' = rounds + 1
    /\ UNCHANGED <<phase, opening, shutdown, fetched, evidence, pending, served,
                   fanout, lenses, report>>

\* It asks for evidence, and what this gather has not fetched yet is fetched.
GatherMore ==
    /\ phase = "gather" /\ rounds < MaxFastRounds
    /\ \E novel \in SUBSET (Key \ fetched) : novel # {} /\ Fetched(novel)
    /\ rounds' = rounds + 1
    /\ UNCHANGED <<phase, opening, shutdown, pending, served, fanout, lenses, report>>

\* A call or a fetch fails or is cancelled, or a reply stays invalid after its
\* one repair.
GatherFails ==
    /\ \/ phase = "prefetch" /\ pending # {}
       \/ phase = "gather" /\ rounds < MaxFastRounds
    /\ Error

-----------------------------------------------------------------------------
(* run_prepared_lens_fanout                                                 *)

CallsOf(v, calls) == {c \in calls : c[2] = v}

\* A model with one call just makes it.  With more it probes the cache first;
\* if that fails, one call goes ahead and the others are held.  (This is the
\* default of KRES_LENS_CACHE_MODE.)
Launch ==
    /\ phase = "fanout"
    /\ \E wait \in SUBSET Calls(active) :
        /\ \A v \in Variant :
            LET mine == CallsOf(v, Calls(active)) IN
            \/ CallsOf(v, wait) = {}
            \/ Cardinality(mine) > 1 /\ Cardinality(CallsOf(v, wait)) = Cardinality(mine) - 1
        /\ held' = wait
        /\ inflight' = Calls(active) \ wait
    /\ results' = NoResult /\ repaired' = {} /\ retries' = 0
    /\ phase' = "lenses"
    /\ UNCHANGED <<opening, shutdown, gather, lenses, report>>

\* The held calls start when the seed is back, well or not, unless it failed
\* in a shutdown: then they are not made at all.
Answer(c) ==
    /\ phase = "lenses" /\ c \in inflight
    /\ \E r \in IF shutdown THEN {Cancelled} ELSE Outcomes :
        /\ results' = [results EXCEPT ![c] = r]
        /\ LET mine == CallsOf(c[2], held) IN
           /\ held' = held \ mine
           /\ inflight' = (inflight \ {c})
                          \cup IF Failure(r) /\ shutdown THEN {} ELSE mine
    /\ UNCHANGED <<phase, opening, shutdown, repaired, retries, gather, lenses, report>>

-----------------------------------------------------------------------------
(* run_lenses_shared_gather_repairing                                       *)

Joined == phase = "lenses" /\ inflight = {}
OverLimit == \E c \in Call : results[c].kind = "over"
Invalid(rs) == {c \in Call : rs[c].kind \notin {"none", "answer"}}

\* A prompt over the input limit fails the task, before a repair and after it.
FanoutOverLimit == Joined /\ OverLimit /\ Error

\* repair_lens_json: the model is shown its own response.  That can fail, and
\* what comes back can be empty.
RepairJson(c) ==
    /\ Joined /\ ~OverLimit /\ retries < MaxRetries
    /\ results[c].kind = "malformed" /\ c \notin repaired
    /\ repaired' = repaired \cup {c}
    /\ \/ UNCHANGED results
       \/ /\ ~shutdown
          /\ \E r \in Outcomes : /\ r.kind \in {"answer", "empty"}
                                 /\ results' = [results EXCEPT ![c] = r]
    /\ UNCHANGED <<phase, opening, shutdown, inflight, held, retries, gather, lenses, report>>

\* The calls that are still invalid are made once more, all at a time.
Retry ==
    /\ Joined /\ ~OverLimit /\ retries < MaxRetries
    /\ Invalid(results) # {}
    /\ \A c \in Call : results[c].kind = "malformed" => c \in repaired
    /\ retries' = retries + 1
    /\ results' = [c \in Call |-> IF c \in Invalid(results) THEN Nothing ELSE results[c]]
    /\ inflight' = Invalid(results)
    /\ UNCHANGED <<phase, opening, shutdown, held, repaired, gather, lenses, report>>

FanoutDone ==
    /\ Joined /\ ~OverLimit
    /\ retries = MaxRetries \/ Invalid(results) = {}
    /\ phase' = "decide"
    /\ UNCHANGED <<opening, shutdown, gather, fanout, lenses, report>>

-----------------------------------------------------------------------------
(* run_with_lenses                                                          *)

Asked == UNION {results[c].asks : c \in Call}

\* requeue_evidence_requests: what was asked before drives no other round.
Wanted == Asked \ requested

\* Mutant: of the lenses that want the same evidence one is run again.
RerunOne ==
    LET askers == {c[1] : c \in {d \in Call : results[d].asks \cap Wanted # {}}}
        silent == {c[1] : c \in Invalid(results)}
    IN  silent \cup IF askers = {} THEN {} ELSE {CHOOSE l \in askers : TRUE}

\* The lenses the fetch is for, and those that gave nothing usable.
Rerun ==
    {c[1] : c \in {d \in Call : results[d].asks \cap Wanted # {}}} \cup {c[1] : c \in Invalid(results)}

Parking(slate) == [c \in Call |-> IF c[1] \notin slate /\ results[c] # Nothing
                                  THEN results[c] ELSE parked[c]]

GoesOn == ~opening /\ Wanted # {} /\ requeued < MaxRequeues

\* Mutant: the evidence of the task is gathered again from the start.
RequeueAfresh ==
    /\ phase = "decide" /\ GoesOn
    /\ requested' = requested \cup Wanted /\ pending' = Wanted
    /\ parked' = Parking(Rerun) /\ active' = active \cap Rerun
    /\ requeued' = requeued + 1
    /\ phase' = "prefetch" /\ fetched' = {} /\ evidence' = {} /\ results' = NoResult
    /\ UNCHANGED <<opening, shutdown, rounds, served, inflight, held, repaired, retries, report>>

Requeue ==
    /\ phase = "decide" /\ GoesOn
    /\ requested' = requested \cup Wanted /\ pending' = Wanted
    /\ parked' = Parking(Rerun) /\ active' = active \cap Rerun
    /\ requeued' = requeued + 1
    /\ phase' = "prefetch" /\ fetched' = {} /\ results' = NoResult
    /\ UNCHANGED <<opening, shutdown, rounds, evidence, served, inflight, held, repaired,
                   retries, report>>

\* Mutant: only the last round is handed back.
SettledRound == results

\* Every lens's latest output, or failure.
Settled == [c \in Call |-> IF results[c] # Nothing THEN results[c] ELSE parked[c]]

Settle ==
    /\ phase = "decide" /\ ~GoesOn
    /\ requested' = IF opening THEN requested ELSE requested \cup Wanted
    /\ results' = Settled /\ parked' = NoResult
    /\ phase' = "settled"
    /\ UNCHANGED <<opening, shutdown, gather, inflight, held, repaired, retries, active,
                   requeued, report>>

AllFailed ==
    /\ phase = "settled" /\ \A c \in Call : ~Usable(results[c])
    /\ Error

\* The consolidator merges the answers; of a reply that stays invalid the
\* deterministic union of the lenses takes the place.
Consolidate ==
    /\ phase = "settled" /\ ~shutdown
    /\ \E c \in Call : Usable(results[c])
    /\ merged' = {c \in Call : Usable(results[c])}
    /\ missing' = Invalid(results)
    /\ phase' = "done"
    /\ UNCHANGED <<opening, shutdown, gather, fanout, lenses>>

\* Its call fails, or is cancelled.
ConsolidateFails == phase = "settled" /\ (\E c \in Call : Usable(results[c])) /\ Error

-----------------------------------------------------------------------------
Next ==
    \/ Shutdown
    \/ Prefetch \/ GatherEnds \/ GatherSkills \/ GatherMore \/ GatherFails
    \/ Launch \/ \E c \in Call : Answer(c) \/ RepairJson(c)
    \/ FanoutOverLimit \/ Retry \/ FanoutDone
    \/ Requeue \/ Settle \/ AllFailed \/ Consolidate \/ ConsolidateFails

Spec == Init /\ [][Next]_vars

-----------------------------------------------------------------------------
(* Properties.                                                              *)

Phases == {"prefetch", "gather", "fanout", "lenses", "decide", "settled", "done", "error"}
Recorded == [kind : {"none", "answer", "malformed", "empty", "failed", "over"},
             asks : SUBSET Key, seen : SUBSET Key]

\* The shape of the state.
TypeOK ==
    /\ phase \in Phases /\ opening \in BOOLEAN /\ shutdown \in BOOLEAN
    /\ rounds \in 0..MaxFastRounds /\ fetched \subseteq Key /\ evidence \subseteq Key
    /\ pending \subseteq Key /\ served \subseteq Key
    /\ inflight \subseteq Call /\ held \subseteq Call /\ results \in [Call -> Recorded]
    /\ repaired \subseteq Call /\ retries \in 0..MaxRetries
    /\ active \subseteq Lens /\ parked \in [Call -> Recorded]
    /\ requested \subseteq Key /\ requeued \in 0..MaxRequeues
    /\ merged \subseteq Call /\ missing \subseteq Call

\* A task that returns accounts for every call of the slate: it was
\* consolidated or has a followup that says its bug class is unexamined
\* (pipeline.rs:1964-1968), through repairs, requeues and parked lenses.
EveryCallAccounted == phase = "done" => Calls(Lens) \subseteq merged \cup missing

\* No answer that is consolidated asks for evidence that was fetched after it
\* was given: a lens that waits for a fetch is run again on what it brought.
AnsweredOnEvidence ==
    phase = "settled" => \A c \in Call : Usable(results[c]) =>
        results[c].asks \cap served \subseteq results[c].seen

\* No round, and no requeue, shows the lenses less than the one before
\* (pipeline.rs:1924-1926).
EvidenceGrows == [][evidence \subseteq evidence']_vars
=============================================================================
