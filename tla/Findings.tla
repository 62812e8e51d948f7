------------------------------ MODULE Findings ------------------------------
(***************************************************************************)
(* The findings of a session: FindingsStore and its merge rules            *)
(* (kres-core/src/findings.rs), the mirror of the store that prompts are   *)
(* built from (Inner.findings), the promoter (kres-agents/src/promote.rs)  *)
(* and the part of the reaper that publishes what a task found.            *)
(*                                                                         *)
(* Tasks run in parallel, each on the mirror it saw when it started; the   *)
(* reaper applies their deltas one task at a time, in any order. The store *)
(* is a file behind a write guard, the loop over a delta is one action per *)
(* entry, and the process may be killed between any two actions.           *)
(*                                                                         *)
(* Prose is its length, a citation is an anchor, a claim is a basis.       *)
(***************************************************************************)
EXTENDS Integers, Sequences, FiniteSets

CONSTANTS
  Task,        \* the tasks a session runs
  NoTask,      \* none of them
  Id,          \* ids of findings
  Copies,      \* for each id, its renamings <id>__promoted_2, _3, ...
  Title,       \* titles, one of them empty
  Length,      \* length of each title, 0 for the empty one
  IdTokens,    \* identity tokens of each id
  TitleTokens, \* identity tokens of each title
  Anchor,      \* named symbols and resolved lines
  Basis,       \* well-formed invalidation bases
  NoBasis,     \* none, or one that is not well formed
  Question,    \* open questions
  Severities,  \* severities, ordered as numbers
  Emissions,   \* deltas a task may end with: sequences of Incoming
  Audits,      \* single findings the promoter may read in a task's prose
  MaxAudits,   \* bound of the model: findings promoted from one task
  MaxCrashes,  \* bound of the model: kills
  MaxClears    \* bound of the model: /clear commands

Status == {"active", "unconfirmed", "fixed", "invalidated"}

\* A stored record. details holds the tasks whose analysis is attached to it.
Record ==
  [id : Id, title : Title, summary : Nat, severity : Severities, status : Status,
   basis : Basis \cup {NoBasis}, anchors : SUBSET Anchor, open : SUBSET Question,
   details : SUBSET Task]

\* A record on the wire. A status or severity that is left out arrives as the
\* default, Active and Low.
Incoming ==
  [id : Id, title : Title, summary : Nat, severity : Severities, status : Status,
   basis : Basis \cup {NoBasis}, anchors : SUBSET Anchor, open : SUBSET Question,
   resolved : SUBSET Question, reactivate : BOOLEAN]

ASSUME ConstantsAssumption ==
  /\ IsFiniteSet(Anchor) /\ NoBasis \notin Basis /\ NoTask \notin Task
  /\ Copies \in [Id -> Seq(Id)]
  /\ Length \in [Title -> Nat]
  /\ Severities \subseteq Nat
  /\ Emissions \subseteq Seq(Incoming) /\ Audits \subseteq Incoming
  /\ MaxAudits \in Nat /\ MaxCrashes \in Nat /\ MaxClears \in Nat

VARIABLES
  store,    \* FindingsFile.findings, in memory
  disk,     \* findings.json
  mirror,   \* Inner.findings of the task manager
  phase,    \* what each task is doing
  seen,     \* ids of the previous_findings each task was given
  delta,    \* findings_delta of each task that ended
  reaper,   \* the publication in progress
  crashes, clears,
  filed,    \* history: complete findings applied to the store, with their task
  saved     \* history: filed, as of the last save that succeeded

storeVars == <<store, disk>>
taskVars  == <<phase, seen, delta>>
vars == <<store, disk, mirror, phase, seen, delta, reaper, crashes, clears, filed, saved>>

Idle == [task |-> NoTask, stage |-> "idle", queue |-> <<>>, known |-> <<>>,
         taken |-> {}, audits |-> 0]

IdsOf(list) == {list[i].id : i \in DOMAIN list}

Init ==
  /\ store = <<>> /\ disk = <<>> /\ mirror = <<>>
  /\ phase = [t \in Task |-> "new"]
  /\ seen = [t \in Task |-> {}]
  /\ delta = [t \in Task |-> <<>>]
  /\ reaper = Idle
  /\ crashes = 0 /\ clears = 0
  /\ filed = {} /\ saved = {}

(***************************************************************************)
(* The merge rules.                                                        *)
(***************************************************************************)
\* Mutant of Higher: the last one wins.
Latest(m, n) == n

Higher(m, n) == IF m > n THEN m ELSE n

\* The longer text wins, ties keep the one on file.
PreferLonger(old, new) == IF Length[new] > Length[old] THEN new ELSE old

\* What an incoming record makes of the status on file. reactivate decides
\* alone; an invalidation needs a basis; Fixed is never taken from a delta.
StatusAfter(e, i) ==
  IF i.reactivate
  THEN IF e.status = "invalidated" THEN "active" ELSE e.status
  ELSE IF i.status = "invalidated" /\ i.basis # NoBasis THEN "invalidated"
  ELSE IF i.status = "unconfirmed" /\ e.status \in {"active", "invalidated"} THEN "unconfirmed"
  ELSE IF i.status = "active" /\ e.status = "unconfirmed" THEN "active"
  ELSE e.status

\* The basis goes when the record leaves Invalidated, and is replaced by a
\* well-formed one.
BasisAfter(e, i) ==
  IF i.reactivate
  THEN IF e.status = "invalidated" THEN NoBasis ELSE e.basis
  ELSE IF i.status = "invalidated" /\ i.basis # NoBasis THEN i.basis
  ELSE IF i.status = "unconfirmed" /\ e.status \in {"active", "invalidated"} THEN NoBasis
  ELSE e.basis

\* merge_into and record_detail: questions are united before they are closed.
Merged(e, i, t) ==
  [e EXCEPT !.status   = StatusAfter(e, i),
            !.basis    = BasisAfter(e, i),
            !.severity = Higher(e.severity, i.severity),
            !.title    = PreferLonger(e.title, i.title),
            !.summary  = Higher(e.summary, i.summary),
            !.anchors  = e.anchors \cup i.anchors,
            !.open     = (e.open \cup i.open) \ i.resolved,
            !.details  = e.details \cup {t}]

\* A new record: the signals of the wire are not stored, whatever its status is.
Inserted(i, t) ==
  [id |-> i.id, title |-> i.title, summary |-> i.summary, severity |-> i.severity,
   status |-> i.status, basis |-> i.basis, anchors |-> i.anchors, open |-> i.open,
   details |-> {t}]

Tokens(f) == IdTokens[f.id] \cup TitleTokens[f.title]

\* Seven tenths of the smaller token set are shared.
TokensOverlap(f, g) ==
  LET a == Cardinality(Tokens(f))
      b == Cardinality(Tokens(g))
      least == IF a < b THEN a ELSE b
  IN least > 0 /\ 10 * Cardinality(Tokens(f) \cap Tokens(g)) >= 7 * least

ShareAnchor(f, g) == f.anchors \cap g.anchors # {}

\* Mutant of SemanticDuplicate: retired records take duplicates too.
DuplicateOfAny(e, i) == ShareAnchor(e, i) /\ TokensOverlap(e, i)

SemanticDuplicate(e, i) ==
  /\ e.status # "invalidated" /\ i.status # "invalidated"
  /\ ShareAnchor(e, i) /\ TokensOverlap(e, i)

Complete(i) == Length[i.title] > 0 /\ i.summary > 0

\* The first record of a list that satisfies what Matches says, position by position.
FirstOf(positions) == {p \in positions : \A q \in positions : p <= q}

SameId(i) == FirstOf({p \in DOMAIN store : store[p].id = i.id})
Duplicate(i) == FirstOf({p \in DOMAIN store : SemanticDuplicate(store[p], i)})

\* The record an incoming one is merged into: by id, else, when it could stand
\* alone, by what it is about.
Target(i) ==
  IF SameId(i) # {} THEN SameId(i) ELSE IF Complete(i) THEN Duplicate(i) ELSE {}

(***************************************************************************)
(* Tasks. Their prompts carry the mirror; what they answer is up to them.  *)
(***************************************************************************)
Start(t) ==
  /\ phase[t] = "new"
  /\ phase' = [phase EXCEPT ![t] = "working"]
  /\ seen' = [seen EXCEPT ![t] = IdsOf(mirror)]
  /\ UNCHANGED <<storeVars, mirror, delta, reaper, crashes, clears, filed, saved>>

\* A task updates what it was shown and files what it finds.
Answerable(t, d) ==
  \A k \in DOMAIN d : Complete(d[k]) \/ d[k].id \in seen[t] \cup IdsOf(SubSeq(d, 1, k - 1))

Finish(t, d) ==
  /\ phase[t] = "working" /\ Answerable(t, d)
  /\ phase' = [phase EXCEPT ![t] = "done"]
  /\ delta' = [delta EXCEPT ![t] = d]
  /\ UNCHANGED <<storeVars, mirror, seen, reaper, crashes, clears, filed, saved>>

(***************************************************************************)
(* The reaper. It takes the ids and states the mirror and the delta hold   *)
(* at this moment; the promoter is an inference call, and answers later.   *)
(***************************************************************************)
Publish(t) ==
  /\ reaper.stage = "idle" /\ phase[t] = "done"
  /\ phase' = [phase EXCEPT ![t] = "published"]
  /\ reaper' = [task |-> t, stage |-> "audit", queue |-> delta[t],
                known |-> mirror \o SelectSeq(delta[t], LAMBDA d : d.id \notin IdsOf(mirror)),
                taken |-> IdsOf(mirror) \cup IdsOf(delta[t]), audits |-> 0]
  /\ delta' = [delta EXCEPT ![t] = <<>>]
  /\ seen' = [seen EXCEPT ![t] = {}]
  /\ UNCHANGED <<storeVars, mirror, crashes, clears, filed, saved>>

Prior(p) == FirstOf({k \in DOMAIN reaper.known : reaper.known[k].id = p.id})

\* Deltas that are about the record of the same id keep it.
AboutPrior(p) ==
  \E k \in Prior(p) :
    \/ p.status \in {"invalidated", "unconfirmed"}
    \/ p.reactivate /\ reaper.known[k].status = "invalidated"

Free(id) == {n \in DOMAIN Copies[id] : Copies[id][n] \notin reaper.taken}

\* The first suffix that is free; the model has as many as its bound allows.
Renamed(p) ==
  IF AboutPrior(p) \/ p.id \notin reaper.taken THEN {p}
  ELSE {[p EXCEPT !.id = Copies[p.id][n]] : n \in FirstOf(Free(p.id))}

\* filter_promoted_delta, one promoted finding at a time.
Promote(p) ==
  /\ reaper.stage = "audit" /\ reaper.audits < MaxAudits
  /\ \E q \in Renamed(p) :
       reaper' = [reaper EXCEPT !.queue = Append(@, q),
                                !.taken = IF AboutPrior(p) THEN @ ELSE @ \cup {q.id},
                                !.audits = @ + 1]
  /\ UNCHANGED <<storeVars, mirror, taskVars, crashes, clears, filed, saved>>

\* The answer is complete, or there is none. With nothing to apply, the store is not touched.
EndAudit ==
  /\ reaper.stage = "audit"
  /\ reaper' = IF reaper.queue = <<>> THEN Idle
               ELSE [reaper EXCEPT !.stage = "apply", !.known = <<>>, !.taken = {}, !.audits = 0]
  /\ UNCHANGED <<storeVars, mirror, taskVars, crashes, clears, filed, saved>>

\* Mutant of Applied: a semantic duplicate is dropped, not merged.
AppliedDroppingDuplicates(i, t) ==
  IF SameId(i) # {}
  THEN [p \in DOMAIN store |-> IF p \in SameId(i) THEN Merged(store[p], i, t) ELSE store[p]]
  ELSE IF Complete(i) /\ Duplicate(i) = {} THEN Append(store, Inserted(i, t)) ELSE store

\* What the store is after one more entry of the delta.
Applied(i, t) ==
  IF Target(i) # {}
  THEN [p \in DOMAIN store |-> IF p \in Target(i) THEN Merged(store[p], i, t) ELSE store[p]]
  ELSE IF Complete(i) THEN Append(store, Inserted(i, t)) ELSE store

\* One turn of the loop of apply_delta_to_list, under the write guard.
ApplyEntry ==
  /\ reaper.stage = "apply" /\ reaper.queue # <<>>
  /\ LET i == Head(reaper.queue) IN
       /\ store' = Applied(i, reaper.task)
       /\ filed' = IF Complete(i) THEN filed \cup {<<i, reaper.task>>} ELSE filed
  /\ reaper' = [reaper EXCEPT !.queue = Tail(@)]
  /\ UNCHANGED <<disk, mirror, taskVars, crashes, clears, saved>>

\* The guard is dropped: the file is replaced, or the save fails and nobody is told.
SaveStore(ok) ==
  /\ reaper.stage = "apply" /\ reaper.queue = <<>>
  /\ disk' = IF ok THEN store ELSE disk
  /\ saved' = IF ok THEN filed ELSE saved
  /\ reaper' = [reaper EXCEPT !.stage = "replace"]
  /\ UNCHANGED <<store, mirror, taskVars, crashes, clears, filed>>

ReplaceFindings ==
  /\ reaper.stage = "replace"
  /\ mirror' = store
  /\ reaper' = Idle
  /\ UNCHANGED <<storeVars, taskVars, crashes, clears, filed, saved>>

\* Mutant of Clear: the store is emptied with the mirror.
ClearAlsoStore ==
  /\ clears < MaxClears /\ clears' = clears + 1
  /\ mirror' = <<>> /\ store' = <<>> /\ disk' = <<>> /\ filed' = {} /\ saved' = {}
  /\ phase' = [t \in Task |-> IF phase[t] = "working" THEN "stopped" ELSE phase[t]]
  /\ seen' = [t \in Task |-> IF phase[t] = "working" THEN {} ELSE seen[t]]
  /\ UNCHANGED <<delta, reaper, crashes>>

(***************************************************************************)
(* /clear stops the tasks and empties the mirror. A task that has ended is *)
(* still published. A kill takes everything but the file.                  *)
(***************************************************************************)
Clear ==
  /\ clears < MaxClears /\ clears' = clears + 1
  /\ mirror' = <<>>
  /\ phase' = [t \in Task |-> IF phase[t] = "working" THEN "stopped" ELSE phase[t]]
  /\ seen' = [t \in Task |-> IF phase[t] = "working" THEN {} ELSE seen[t]]
  /\ UNCHANGED <<storeVars, delta, reaper, crashes, filed, saved>>

Crash ==
  /\ crashes < MaxCrashes /\ crashes' = crashes + 1
  /\ store' = disk /\ mirror' = disk
  /\ phase' = [t \in Task |-> IF phase[t] \in {"working", "done"} THEN "stopped" ELSE phase[t]]
  /\ reaper' = Idle
  /\ delta' = [t \in Task |-> <<>>] /\ seen' = [t \in Task |-> {}]
  /\ filed' = saved
  /\ UNCHANGED <<disk, clears, saved>>

Next ==
  \/ \E t \in Task : Start(t) \/ Publish(t) \/ \E d \in Emissions : Finish(t, d)
  \/ \E p \in Audits : Promote(p)
  \/ EndAudit \/ ApplyEntry \/ ReplaceFindings
  \/ SaveStore(TRUE) \/ SaveStore(FALSE)
  \/ Clear \/ Crash

Spec == Init /\ [][Next]_vars

(***************************************************************************)
(* Properties.                                                             *)
(***************************************************************************)
TypeOK ==
  /\ store \in Seq(Record) /\ disk \in Seq(Record) /\ mirror \in Seq(Record)
  /\ phase \in [Task -> {"new", "working", "done", "published", "stopped"}]
  /\ seen \in [Task -> SUBSET Id]
  /\ delta \in [Task -> Seq(Incoming)]
  /\ reaper.task \in Task \cup {NoTask}
  /\ reaper.stage \in {"idle", "audit", "apply", "replace"}
  /\ reaper.queue \in Seq(Incoming)
  /\ reaper.taken \subseteq Id
  /\ reaper.audits \in Nat /\ crashes \in Nat /\ clears \in Nat
  /\ filed \subseteq Incoming \X Task /\ saved \subseteq filed

Holds(list, i, t) ==
  \E p \in DOMAIN list :
    /\ i.anchors \subseteq list[p].anchors
    /\ i.severity <= list[p].severity
    /\ Length[i.title] <= Length[list[p].title] /\ i.summary <= list[p].summary
    /\ t \in list[p].details

\* A finding a task filed, whether or not it was folded into another record, is
\* represented by one that has its anchors, at least its severity and prose, and
\* the task's analysis; also in the file, for every save that succeeded.
FilingsSurvive ==
  /\ \A f \in filed : Holds(store, f[1], f[2])
  /\ \A f \in saved : Holds(disk, f[1], f[2])

\* A task can update what its prompt showed it: whatever was published, saved,
\* lost, cleared or promoted meanwhile, the record is in the store when its
\* delta arrives, so that an update is never refused as an incomplete finding.
UpdatesLand ==
  \A t \in Task : phase[t] \in {"working", "done"} => seen[t] \subseteq IdsOf(store)

\* No record loses its Invalidated status to a late active delta, a semantic
\* duplicate or a promoted finding: only to one that names it and says so.
RetirementStands ==
  [][crashes' = crashes =>
       \A p \in DOMAIN store :
         (store[p].status = "invalidated" /\ store'[p].status # "invalidated") =>
            LET i == Head(reaper.queue) IN
              i.id = store[p].id /\ (i.reactivate \/ i.status = "unconfirmed")]_vars

Entries(list) ==
  [id \in IdsOf(list) |->
     LET p == CHOOSE p \in DOMAIN list : list[p].id = id IN
       [status |-> list[p].status, severity |-> list[p].severity, anchors |-> list[p].anchors]]

\* The store implements the ledger of FindingsLedger.
Ledger == INSTANCE FindingsLedger WITH ledger <- Entries(store), durable <- Entries(disk)
ImplementsLedger == Ledger!Spec

\* "/clear: Cancel tasks, reset findings" (docs/cli.md): what the prompts of later
\* tasks carry are findings made since, or by the task that is being published.
ClearForgets ==
  [][reaper.stage = "replace" /\ crashes' = crashes =>
       \A p \in DOMAIN mirror' : \/ mirror'[p].id \in IdsOf(mirror)
                                 \/ reaper.task \in mirror'[p].details]_vars
=============================================================================
