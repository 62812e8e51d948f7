-------------------------- MODULE LensReview_proofs --------------------------
(***************************************************************************)
(* What holds of a lensed review for any slate, any models and evidence,   *)
(* and any number of rounds, repairs and requeues.                         *)
(***************************************************************************)
EXTENDS LensReview, FiniteSetTheorems, TLAPS

\* A call that gave nothing yet is told apart by its kind alone.
Result == {Nothing} \cup {r \in Recorded : r.kind # "none"}

Collecting == phase \in {"lenses", "decide"}
Gathering  == phase \in {"prefetch", "gather", "fanout"}

Shape ==
    /\ results \in [Call -> Result] /\ parked \in [Call -> Result]
    /\ active \subseteq Lens /\ inflight \subseteq Call /\ held \subseteq Call
    /\ pending \subseteq Key /\ served \subseteq Key /\ requested \subseteq Key
    /\ phase \in Phases
    /\ Gathering => results = NoResult

\* A held call has the call of the same model that it waits for.
HeldInv == \A h \in held : \E c \in inflight : c[2] = h[2]

\* Whoever runs no more is parked, and whoever runs is under way or back.
AccountInv ==
    /\ ~shutdown =>
        /\ phase \notin {"settled", "done", "error"} =>
             \A c \in Calls(Lens) : c[1] \notin active => parked[c] # Nothing
        /\ phase = "lenses" =>
             \A c \in Calls(Lens) : c[1] \in active =>
                c \in inflight \cup held \/ results[c] # Nothing
        /\ phase = "decide" =>
             \A c \in Calls(Lens) : c[1] \in active => results[c] # Nothing
        /\ phase = "settled" => \A c \in Calls(Lens) : results[c] # Nothing
    /\ EveryCallAccounted

\* What is fetched, and what is about to be fetched first.
Due == IF phase = "prefetch" THEN served \cup pending ELSE served

\* Whatever answered in this round has seen all that was fetched for a lens,
\* and a parked answer all of it that it asks for.
EvidenceInv ==
    /\ Collecting => \A c \in Call : results[c] # Nothing => results[c].seen = served
    /\ \A c \in Call : /\ parked[c].asks \subseteq requested
                       /\ parked[c].asks \cap Due \subseteq parked[c].seen
    /\ AnsweredOnEvidence

-----------------------------------------------------------------------------
LEMMA GivenResult ==
    ASSUME NEW kind \in {"answer", "malformed", "empty", "failed", "over"},
           NEW asks \in SUBSET Key, served \subseteq Key
    PROVE  /\ Given(kind, asks) \in Result /\ Given(kind, asks) # Nothing
           /\ Given(kind, asks).seen = served
<1>1. /\ Given(kind, asks) \in Recorded /\ Given(kind, asks).kind = kind
      /\ Given(kind, asks).seen = served
    BY DEF Given, Recorded
<1>2. Nothing.kind = "none"
    BY DEF Nothing
<1> QED
    BY <1>1, <1>2 DEF Result

LEMMA OutcomeResult ==
    ASSUME NEW r \in Outcomes \cup {Cancelled}, served \subseteq Key
    PROVE  r \in Result /\ r # Nothing /\ r.seen = served
BY GivenResult DEF Outcomes, Responses, Cancelled

\* The lens that a second model is routed to stays the same while it runs:
\* the calls of a slate that shrinks are those of the first slate.
LEMMA SmallerSlate ==
    ASSUME NEW slate \in SUBSET Lens, NEW c \in Calls(Lens), c[1] \in slate
    PROVE  c \in Calls(slate) /\ c \in Call
<1>1. c \in Lens \X Variant /\ (c[2] \in Secondary => c[1] = SupplementalLens(Lens))
    BY DEF Calls
<1>2. c \in slate \X Variant
    BY <1>1
<1>3. ASSUME c[2] \in Secondary PROVE c[1] = SupplementalLens(slate)
    BY <1>1, <1>3, SlateAssumption DEF SupplementalLens, SlateAssumption
<1> QED
    BY <1>1, <1>2, <1>3 DEF Calls, Call

\* Of the calls of a model one is not held.
LEMMA LaunchLeavesOne ==
    ASSUME active \subseteq Lens, NEW wait \in SUBSET Calls(active),
           NEW h \in wait,
           \A v \in Variant :
              \/ CallsOf(v, wait) = {}
              \/ /\ Cardinality(CallsOf(v, Calls(active))) > 1
                 /\ Cardinality(CallsOf(v, wait)) = Cardinality(CallsOf(v, Calls(active))) - 1
    PROVE  \E c \in Calls(active) \ wait : c[2] = h[2]
<1> DEFINE v == h[2]
           mine == CallsOf(v, Calls(active))
<1>1. h \in active \X Variant /\ v \in Variant
    BY DEF Calls
<1>2. CallsOf(v, wait) # {}
    BY DEF CallsOf
<1>3. IsFiniteSet(mine)
  <2>1. IsFiniteSet(Lens \X Variant)
    BY FS_Product, FiniteAssumption DEF FiniteAssumption
  <2>2. mine \subseteq Lens \X Variant
    BY DEF CallsOf, Calls
  <2> QED
    BY <2>1, <2>2, FS_Subset
<1>4. Cardinality(mine) \in Nat
    BY <1>3, FS_CardinalityType
<1>5. CallsOf(v, wait) # mine
    BY <1>1, <1>2, <1>4
<1>6. CallsOf(v, wait) \subseteq mine
    BY DEF CallsOf
<1>7. PICK c \in mine : c \notin CallsOf(v, wait)
    BY <1>5, <1>6
<1> QED
    BY <1>7 DEF CallsOf

-----------------------------------------------------------------------------
(* The shape of the state.                                                  *)

GatherStep == Prefetch \/ GatherEnds \/ GatherSkills \/ GatherMore

\* A step of the gather leaves the fan-out alone.
LEMMA GatherFrame ==
    ASSUME GatherStep
    PROVE  /\ Gathering /\ Gathering' /\ phase' # "prefetch"
           /\ UNCHANGED <<shutdown, pending, fanout, lenses, report>>
           /\ phase' \in Phases
           /\ served' = IF phase = "prefetch" THEN served \cup pending ELSE served
BY DEF GatherStep, Prefetch, GatherEnds, GatherSkills, GatherMore, Gathering, gather, Phases, Fetched

LEMMA CallsAreCalls ==
    ASSUME NEW slate \in SUBSET Lens
    PROVE  Calls(slate) \subseteq Call
BY DEF Calls, Call

LEMMA AskedKeys ==
    ASSUME Shape
    PROVE  Asked \subseteq Key /\ Wanted \subseteq Key
BY DEF Shape, Asked, Wanted, Result, Recorded, Nothing

LEMMA ShapeInit ==
    ASSUME Init
    PROVE  Shape
BY DEF Init, Shape, NoResult, Result, Phases, Gathering

LEMMA ShapeStep ==
    ASSUME Shape, [Next]_vars
    PROVE  Shape'
<1>1. CASE Shutdown
    BY <1>1 DEF Shutdown, Shape, gather, fanout, lenses, Gathering
<1>2. CASE GatherStep
    BY <1>2, GatherFrame DEF Shape, fanout, lenses
<1>3. CASE Error
    BY <1>3 DEF Error, Shape, gather, fanout, lenses, Gathering, Phases
<1>4. CASE Launch
  <2>1. /\ held' \subseteq Call /\ inflight' \subseteq Call
        /\ results' = NoResult /\ phase' = "lenses"
        /\ UNCHANGED <<gather, lenses>>
      BY <1>4, CallsAreCalls DEF Launch, Shape
  <2> QED
      BY <2>1 DEF Shape, gather, lenses, NoResult, Result, Phases, Gathering
<1>5. ASSUME NEW c \in Call, Answer(c)
      PROVE  Shape'
  <2>1. PICK r \in IF shutdown THEN {Cancelled} ELSE Outcomes :
           /\ results' = [results EXCEPT ![c] = r]
           /\ LET mine == CallsOf(c[2], held) IN
              /\ held' = held \ mine
              /\ inflight' = (inflight \ {c}) \cup IF Failure(r) /\ shutdown THEN {} ELSE mine
      BY <1>5 DEF Answer
  <2>2. r \in Result
      BY OutcomeResult DEF Shape
  <2>3. held' \subseteq Call /\ inflight' \subseteq Call
      BY <2>1 DEF Shape, CallsOf
  <2>4. phase' = "lenses" /\ UNCHANGED <<gather, lenses>>
      BY <1>5 DEF Answer
  <2> QED
      BY <2>1, <2>2, <2>3, <2>4 DEF Shape, gather, lenses, Phases, Gathering
<1>6. ASSUME NEW c \in Call, RepairJson(c)
      PROVE  Shape'
  <2>1. /\ results' = results \/ \E r \in Outcomes : results' = [results EXCEPT ![c] = r]
        /\ phase = "lenses" /\ UNCHANGED <<phase, inflight, held, gather, lenses>>
      BY <1>6 DEF RepairJson, Joined
  <2>2. results' \in [Call -> Result]
      BY <2>1, OutcomeResult DEF Shape
  <2> QED
      BY <2>1, <2>2 DEF Shape, gather, lenses, Gathering
<1>7. CASE Retry
  <2>1. results' \in [Call -> Result]
      BY <1>7 DEF Retry, Shape, Result
  <2>2. inflight' \subseteq Call /\ phase = "lenses"
        /\ UNCHANGED <<phase, held, gather, lenses>>
      BY <1>7 DEF Retry, Invalid, Joined
  <2> QED
      BY <2>1, <2>2 DEF Shape, gather, lenses, Gathering
<1>8. CASE FanoutDone
    BY <1>8 DEF FanoutDone, Shape, gather, fanout, lenses, Phases, Gathering
<1>9. CASE Requeue
  <2>1. parked' \in [Call -> Result]
      BY <1>9 DEF Requeue, Shape, Parking
  <2>2. /\ requested' \subseteq Key /\ pending' \subseteq Key /\ active' \subseteq Lens
        /\ results' = NoResult /\ phase' = "prefetch" /\ UNCHANGED <<served, inflight, held>>
      BY <1>9, AskedKeys DEF Requeue, Shape
  <2> QED
      BY <2>1, <2>2 DEF Shape, NoResult, Result, Phases
<1>10. CASE Settle
  <2>1. results' \in [Call -> Result] /\ parked' \in [Call -> Result]
      BY <1>10 DEF Settle, Shape, Settled, NoResult, Result
  <2>2. /\ requested' \subseteq Key /\ phase' = "settled"
        /\ UNCHANGED <<gather, inflight, held, active>>
      BY <1>10, AskedKeys DEF Settle, Shape
  <2> QED
      BY <2>1, <2>2 DEF Shape, gather, Phases, Gathering
<1>11. CASE Consolidate
    BY <1>11 DEF Consolidate, Shape, gather, fanout, lenses, Phases, Gathering
<1>12. CASE UNCHANGED vars
    BY <1>12 DEF vars, Shape, gather, fanout, lenses, Gathering
<1> QED
    BY <1>1, <1>2, <1>3, <1>4, <1>5, <1>6, <1>7, <1>8, <1>9, <1>10, <1>11, <1>12
    DEF Next, GatherStep, GatherFails, FanoutOverLimit, AllFailed, ConsolidateFails

-----------------------------------------------------------------------------
(* Held calls.                                                              *)

LEMMA HeldStep ==
    ASSUME Shape, HeldInv, [Next]_vars
    PROVE  HeldInv'
<1>1. CASE Launch
  <2>1. PICK wait \in SUBSET Calls(active) :
          /\ \A v \in Variant :
               LET mine == CallsOf(v, Calls(active)) IN
               \/ CallsOf(v, wait) = {}
               \/ Cardinality(mine) > 1 /\ Cardinality(CallsOf(v, wait)) = Cardinality(mine) - 1
          /\ held' = wait /\ inflight' = Calls(active) \ wait
      BY <1>1 DEF Launch
  <2>2. \A h \in wait : \E c \in Calls(active) \ wait : c[2] = h[2]
      BY <2>1, LaunchLeavesOne DEF Shape
  <2> QED
      BY <2>1, <2>2 DEF HeldInv
<1>2. ASSUME NEW c \in Call, Answer(c)
      PROVE  HeldInv'
  <2>1. PICK r \in IF shutdown THEN {Cancelled} ELSE Outcomes :
           /\ held' = held \ CallsOf(c[2], held)
           /\ inflight' = (inflight \ {c})
                 \cup IF Failure(r) /\ shutdown THEN {} ELSE CallsOf(c[2], held)
      BY <1>2 DEF Answer
  <2>2. ASSUME NEW h \in held'
        PROVE  \E d \in inflight' : d[2] = h[2]
    <3>1. h \in held /\ h[2] # c[2]
        BY <2>1 DEF CallsOf
    <3>2. PICK d \in inflight : d[2] = h[2]
        BY <3>1 DEF HeldInv
    <3>3. d # c
        BY <3>1, <3>2
    <3> QED
        BY <2>1, <3>2, <3>3
  <2> QED
      BY <2>2 DEF HeldInv
<1>3. CASE Retry
  <2>1. inflight = {} /\ held' = held
      BY <1>3 DEF Retry, Joined
  <2> QED
      BY <2>1 DEF HeldInv
<1>4. CASE UNCHANGED <<held, inflight>>
    BY <1>4 DEF HeldInv
<1>5. ASSUME ~Launch, ~Retry, \A c \in Call : ~Answer(c)
      PROVE  UNCHANGED <<held, inflight>>
  <2>1. CASE GatherStep
      BY <2>1, GatherFrame DEF fanout
  <2>2. CASE Error \/ Shutdown \/ FanoutDone \/ Consolidate \/ UNCHANGED vars
      BY <2>2 DEF Error, Shutdown, FanoutDone, Consolidate, fanout, vars
  <2>3. CASE Requeue \/ Settle
      BY <2>3 DEF Requeue, Settle
  <2>4. ASSUME NEW c \in Call, RepairJson(c) PROVE UNCHANGED <<held, inflight>>
      BY <2>4 DEF RepairJson
  <2> QED
      BY <1>5, <2>1, <2>2, <2>3, <2>4
      DEF Next, GatherStep, GatherFails, FanoutOverLimit, AllFailed, ConsolidateFails
<1> QED
    BY <1>1, <1>2, <1>3, <1>4, <1>5

-----------------------------------------------------------------------------
(* Every call is accounted for.                                             *)

LEMMA AccountStep ==
    ASSUME Shape, HeldInv, AccountInv, [Next]_vars, Shape'
    PROVE  AccountInv'
<1> USE DEF AccountInv, EveryCallAccounted
<1>1. CASE Shutdown
    BY <1>1 DEF Shutdown, Running, report
<1>2. CASE GatherStep
    BY <1>2, GatherFrame DEF Gathering, fanout, lenses, report
<1>3. CASE Error
    BY <1>3 DEF Error
<1>4. CASE Launch
  <2>1. /\ inflight' \cup held' = Calls(active)
        /\ phase = "fanout" /\ phase' = "lenses"
        /\ UNCHANGED <<shutdown, lenses>>
      BY <1>4 DEF Launch
  <2>2. \A c \in Calls(Lens) : c[1] \in active => c \in Calls(active)
      BY SmallerSlate DEF Shape
  <2> QED
      BY <2>1, <2>2 DEF lenses
<1>5. ASSUME NEW c \in Call, Answer(c)
      PROVE  AccountInv'
  <2>1. PICK r \in IF shutdown THEN {Cancelled} ELSE Outcomes :
           /\ results' = [results EXCEPT ![c] = r]
           /\ held' = held \ CallsOf(c[2], held)
           /\ inflight' = (inflight \ {c})
                 \cup IF Failure(r) /\ shutdown THEN {} ELSE CallsOf(c[2], held)
      BY <1>5 DEF Answer
  <2>2. phase = "lenses" /\ phase' = "lenses" /\ UNCHANGED <<shutdown, active, parked>>
      BY <1>5 DEF Answer, lenses
  <2>3. r # Nothing
      BY OutcomeResult DEF Shape
  <2>4. ~shutdown => inflight' \cup held' = (inflight \cup held) \ {c} \/
                     inflight' \cup held' = inflight \cup held
      BY <2>1 DEF CallsOf
  <2>5. \A d \in Call : results'[d] = IF d = c THEN r ELSE results[d]
      BY <2>1 DEF Shape
  <2>6. Calls(Lens) \subseteq Call
      BY CallsAreCalls
  <2> QED
      BY <2>2, <2>3, <2>4, <2>5, <2>6
<1>6. ASSUME NEW c \in Call, RepairJson(c)
      PROVE  AccountInv'
  <2>1. /\ phase = "lenses" /\ UNCHANGED <<phase, shutdown, inflight, held, active, parked>>
      BY <1>6 DEF RepairJson, Joined, lenses
  <2>2. \A d \in Call : results[d] # Nothing => results'[d] # Nothing
    <3>1. CASE results' = results
        BY <3>1
    <3>2. ASSUME NEW r \in Outcomes, results' = [results EXCEPT ![c] = r]
          PROVE  \A d \in Call : results[d] # Nothing => results'[d] # Nothing
      <4>1. r # Nothing
          BY OutcomeResult DEF Shape
      <4> QED
          BY <3>2, <4>1 DEF Shape
    <3> QED
        BY <1>6, <3>1, <3>2 DEF RepairJson
  <2>3. Calls(Lens) \subseteq Call
      BY CallsAreCalls
  <2> QED
      BY <2>1, <2>2, <2>3
<1>7. CASE Retry
  <2>1. /\ inflight = {} /\ held = {} /\ phase = "lenses"
        /\ UNCHANGED <<phase, shutdown, held, active, parked>>
      BY <1>7 DEF Retry, Joined, HeldInv, lenses
  <2>2. \A d \in Call : results[d] # Nothing => d \in inflight' \/ results'[d] # Nothing
    <3>1. \A d \in Call : results'[d] = IF d \in Invalid(results) THEN Nothing ELSE results[d]
        BY <1>7 DEF Retry
    <3>2. inflight' = Invalid(results)
        BY <1>7 DEF Retry
    <3> QED
        BY <3>1, <3>2
  <2>3. Calls(Lens) \subseteq Call
      BY CallsAreCalls
  <2> QED
      BY <2>1, <2>2, <2>3
<1>8. CASE FanoutDone
  <2>1. /\ inflight = {} /\ held = {} /\ phase = "lenses" /\ phase' = "decide"
        /\ UNCHANGED <<shutdown, results, active, parked>>
      BY <1>8 DEF FanoutDone, Joined, HeldInv, lenses, fanout
  <2> QED
      BY <2>1
<1>9. CASE Requeue
  <2>1. /\ parked' = Parking(Rerun) /\ active' = active \cap Rerun
        /\ phase = "decide" /\ phase' = "prefetch" /\ UNCHANGED shutdown
      BY <1>9 DEF Requeue
  <2>2. Calls(Lens) \subseteq Call
      BY CallsAreCalls
  <2>3. \A c \in Call : parked'[c] = IF c[1] \notin Rerun /\ results[c] # Nothing
                                     THEN results[c] ELSE parked[c]
      BY <2>1 DEF Parking
  <2> QED
      BY <2>1, <2>2, <2>3
<1>10. CASE Settle
  <2>1. /\ phase = "decide" /\ phase' = "settled" /\ UNCHANGED shutdown
        /\ \A c \in Call : results'[c] = IF results[c] # Nothing THEN results[c] ELSE parked[c]
      BY <1>10 DEF Settle, Settled
  <2>2. Calls(Lens) \subseteq Call
      BY CallsAreCalls
  <2> QED
      BY <2>1, <2>2
<1>11. CASE Consolidate
  <2>1. /\ ~shutdown /\ phase = "settled" /\ phase' = "done"
        /\ merged' = {c \in Call : Usable(results[c])} /\ missing' = Invalid(results)
      BY <1>11 DEF Consolidate
  <2>2. \A c \in Call : results[c] # Nothing => results[c].kind # "none"
      BY DEF Shape, Result
  <2>3. \A c \in Call : results[c] # Nothing => c \in merged' \cup missing'
      BY <2>1, <2>2 DEF Usable, Invalid
  <2>4. Calls(Lens) \subseteq Call
      BY CallsAreCalls
  <2> QED
      BY <2>1, <2>3, <2>4
<1>12. CASE UNCHANGED vars
    BY <1>12 DEF vars, fanout, lenses, report
<1> QED
    BY <1>1, <1>2, <1>3, <1>4, <1>5, <1>6, <1>7, <1>8, <1>9, <1>10, <1>11, <1>12
    DEF Next, GatherStep, GatherFails, FanoutOverLimit, AllFailed, ConsolidateFails

-----------------------------------------------------------------------------
(* Answers rest on evidence.                                                *)

LEMMA EvidenceStep ==
    ASSUME Shape, EvidenceInv, [Next]_vars, Shape'
    PROVE  EvidenceInv'
<1> USE DEF EvidenceInv, AnsweredOnEvidence
<1>1. CASE Shutdown
    BY <1>1 DEF Shutdown, gather, fanout, lenses, Collecting, Due
<1>2. CASE GatherStep
  <2>1. ~Collecting' /\ phase' # "settled" /\ UNCHANGED <<parked, requested, results>>
      BY <1>2, GatherFrame DEF Gathering, Collecting, lenses, fanout
  <2>2. Due' = Due
      BY <1>2, GatherFrame DEF Due
  <2> QED
      BY <2>1, <2>2
<1>3. CASE Error
  <2>1. Due' \subseteq Due /\ UNCHANGED <<parked, requested, results>>
        /\ phase' = "error"
      BY <1>3 DEF Error, Due, gather, lenses, fanout
  <2> QED
      BY <2>1 DEF Collecting
<1>4. CASE Launch
  <2>1. /\ results' = NoResult /\ phase = "fanout" /\ phase' = "lenses"
        /\ UNCHANGED <<served, pending, parked, requested>>
      BY <1>4 DEF Launch, gather, lenses
  <2>2. Due' = Due
      BY <2>1 DEF Due
  <2> QED
      BY <2>1, <2>2 DEF NoResult
<1>5. ASSUME NEW c \in Call, Answer(c)
      PROVE  EvidenceInv'
  <2>1. PICK r \in IF shutdown THEN {Cancelled} ELSE Outcomes : results' = [results EXCEPT ![c] = r]
      BY <1>5 DEF Answer
  <2>2. /\ phase = "lenses" /\ phase' = "lenses"
        /\ UNCHANGED <<served, pending, parked, requested>>
      BY <1>5 DEF Answer, gather, lenses
  <2>3. r.seen = served
      BY OutcomeResult DEF Shape
  <2>4. \A d \in Call : results'[d] = IF d = c THEN r ELSE results[d]
      BY <2>1 DEF Shape
  <2> QED
      BY <2>2, <2>3, <2>4 DEF Due, Collecting
<1>6. ASSUME NEW c \in Call, RepairJson(c)
      PROVE  EvidenceInv'
  <2>1. /\ phase = "lenses" /\ phase' = "lenses"
        /\ UNCHANGED <<served, pending, parked, requested>>
      BY <1>6 DEF RepairJson, Joined, gather, lenses
  <2>2. ASSUME NEW r \in Outcomes, results' = [results EXCEPT ![c] = r]
        PROVE  \A d \in Call : results'[d] # Nothing => results'[d].seen = served
    <3>1. r.seen = served
        BY OutcomeResult DEF Shape
    <3>2. \A d \in Call : results'[d] = IF d = c THEN r ELSE results[d]
        BY <2>2 DEF Shape
    <3> QED
        BY <2>1, <3>1, <3>2 DEF Collecting
  <2>3. results' = results \/ \E r \in Outcomes : results' = [results EXCEPT ![c] = r]
      BY <1>6 DEF RepairJson
  <2> QED
      BY <2>1, <2>2, <2>3 DEF Due, Collecting
<1>7. CASE Retry
  <2>1. /\ phase = "lenses" /\ phase' = "lenses"
        /\ UNCHANGED <<served, pending, parked, requested>>
        /\ \A d \in Call : results'[d] = IF d \in Invalid(results) THEN Nothing ELSE results[d]
      BY <1>7 DEF Retry, Joined, gather, lenses
  <2> QED
      BY <2>1 DEF Due, Collecting
<1>8. CASE FanoutDone
    BY <1>8 DEF FanoutDone, Joined, gather, fanout, lenses, Due, Collecting
<1>9. CASE Requeue
  <2>1. /\ phase = "decide" /\ phase' = "prefetch" /\ served' = served
        /\ requested' = requested \cup Wanted /\ pending' = Wanted
        /\ \A c \in Call : parked'[c] = IF c[1] \notin Rerun /\ results[c] # Nothing
                                        THEN results[c] ELSE parked[c]
      BY <1>9 DEF Requeue, Parking
  <2>2. Due = served /\ Due' = served \cup Wanted
      BY <2>1 DEF Due
  <2>3. ASSUME NEW c \in Call
        PROVE  /\ parked'[c].asks \subseteq requested'
               /\ parked'[c].asks \cap Due' \subseteq parked'[c].seen
    <3>1. CASE c[1] \notin Rerun /\ results[c] # Nothing
      <4>1. parked'[c] = results[c] /\ results[c].seen = served
          BY <2>1, <3>1 DEF Collecting
      <4>2. results[c].asks \subseteq Asked
          BY DEF Asked
      <4>3. results[c].asks \cap Wanted = {}
          BY <3>1 DEF Rerun
      <4> QED
          BY <2>1, <2>2, <4>1, <4>2, <4>3 DEF Wanted
    <3>2. CASE ~(c[1] \notin Rerun /\ results[c] # Nothing)
      <4>1. parked'[c] = parked[c] /\ parked[c].asks \subseteq requested
            /\ parked[c].asks \cap served \subseteq parked[c].seen
          BY <2>1, <2>2, <3>2
      <4> QED
          BY <2>1, <2>2, <4>1 DEF Wanted
    <3> QED
        BY <3>1, <3>2
  <2> QED
      BY <2>1, <2>3 DEF Collecting
<1>10. CASE Settle
  <2>1. /\ phase = "decide" /\ phase' = "settled" /\ served' = served /\ parked' = NoResult
        /\ \A c \in Call : results'[c] = IF results[c] # Nothing THEN results[c] ELSE parked[c]
      BY <1>10 DEF Settle, Settled, gather
  <2>2. \A c \in Call : parked[c].asks \cap served \subseteq parked[c].seen
      BY <2>1 DEF Due
  <2>3. \A c \in Call : results'[c].asks \cap served' \subseteq results'[c].seen
      BY <2>1, <2>2 DEF Collecting
  <2>4. \A c \in Call : parked'[c].asks = {}
      BY <2>1 DEF NoResult, Nothing
  <2> QED
      BY <2>1, <2>3, <2>4 DEF Collecting
<1>11. CASE Consolidate
    BY <1>11 DEF Consolidate, gather, fanout, lenses, Due, Collecting
<1>12. CASE UNCHANGED vars
    BY <1>12 DEF vars, gather, fanout, lenses, Due, Collecting
<1> QED
    BY <1>1, <1>2, <1>3, <1>4, <1>5, <1>6, <1>7, <1>8, <1>9, <1>10, <1>11, <1>12
    DEF Next, GatherStep, GatherFails, FanoutOverLimit, AllFailed, ConsolidateFails

-----------------------------------------------------------------------------
(* Theorems.                                                                *)

\* The state keeps its shape, and a call that waits for the seed call of its
\* model has one to wait for (run_prepared_lens_fanout, pipeline.rs).
THEOREM ShapeIsKept == Spec => [](Shape /\ HeldInv)
<1>1. Init => Shape /\ HeldInv
    BY ShapeInit DEF Init, HeldInv
<1>2. Shape /\ HeldInv /\ [Next]_vars => (Shape /\ HeldInv)'
    BY ShapeStep, HeldStep
<1> QED
    BY <1>1, <1>2, PTL DEF Spec

\* A task that returns has consolidated every call of the slate or says in a
\* followup that it is missing (run_with_lenses, pipeline.rs).
THEOREM CallsAreAccounted == Spec => []EveryCallAccounted
<1>1. Init => AccountInv
  <2>1. \A c \in Calls(Lens) : c[1] \in Lens
      BY DEF Calls
  <2> QED
      BY <2>1 DEF Init, AccountInv, EveryCallAccounted
<1>2. Shape /\ HeldInv /\ AccountInv /\ Shape' /\ [Next]_vars => AccountInv'
    BY AccountStep
<1>3. AccountInv => EveryCallAccounted
    BY DEF AccountInv
<1> QED
    BY <1>1, <1>2, <1>3, ShapeIsKept, PTL DEF Spec

\* What is consolidated was said on all the fetched evidence it asks for
\* (the requeue of run_with_lenses, pipeline.rs).
THEOREM AnswersRestOnEvidence == Spec => []AnsweredOnEvidence
<1>1. Init => EvidenceInv
    BY DEF Init, EvidenceInv, AnsweredOnEvidence, Collecting, NoResult, Nothing
<1>2. Shape /\ EvidenceInv /\ Shape' /\ [Next]_vars => EvidenceInv'
    BY EvidenceStep
<1>3. EvidenceInv => AnsweredOnEvidence
    BY DEF EvidenceInv
<1> QED
    BY <1>1, <1>2, <1>3, ShapeIsKept, PTL DEF Spec

\* No round shows the lenses less than the one before (the context carried
\* over by a requeue, pipeline.rs).
THEOREM EvidenceOnlyGrows == Spec => EvidenceGrows
<1>1. [Next]_vars => [evidence \subseteq evidence']_vars
    BY DEF Next, Shutdown, Prefetch, GatherEnds, GatherSkills, GatherMore, GatherFails, Launch, Answer,
       RepairJson, FanoutOverLimit, Retry, FanoutDone, Requeue, Settle, AllFailed, Consolidate,
       ConsolidateFails, Error, Fetched, gather, vars
<1> QED
    BY <1>1, PTL DEF Spec, EvidenceGrows
=============================================================================
