--------------------------- MODULE Findings_proofs ---------------------------
(***************************************************************************)
(* What holds of the findings store for any tasks, findings, emissions,    *)
(* promotions and any number of failed saves, kills and /clear commands.   *)
(***************************************************************************)
EXTENDS Findings, TLAPS

\* An id is on file once.
Distinct(list) ==
  \A p, q \in DOMAIN list : list[p].id = list[q].id => p = q

\* The shape of the publication in progress, but for what it knows.
ReaperType ==
  /\ reaper = [task |-> reaper.task, stage |-> reaper.stage, queue |-> reaper.queue,
               known |-> reaper.known, taken |-> reaper.taken, audits |-> reaper.audits]
  /\ reaper.stage \in {"idle", "audit", "apply", "replace"}
  /\ reaper.stage # "idle" => reaper.task \in Task
  /\ reaper.queue \in Seq(Incoming)

\* The inductive invariant of the store: records are records, ids are unique in
\* memory and in the file, prompts never show an id that is not on file, and
\* what was filed is held.
StoreInv ==
  /\ store \in Seq(Record) /\ disk \in Seq(Record)
  /\ Distinct(store) /\ Distinct(disk)
  /\ ReaperType
  /\ delta \in [Task -> Seq(Incoming)] /\ crashes \in Nat

ShownInv ==
  /\ IdsOf(mirror) \subseteq IdsOf(store)
  /\ phase = [t \in Task |-> phase[t]] /\ seen = [t \in Task |-> seen[t]]
  /\ UpdatesLand

FiledInv ==
  /\ filed \subseteq Incoming \X Task /\ saved \subseteq Incoming \X Task
  /\ FilingsSurvive

-----------------------------------------------------------------------------
(* The merge rules.                                                         *)

\* What merge_into does to each field (findings.rs:1082-1138): nothing gets
\* less, the id stays, and the status moves as apply_status_transition allows.
LEMMA MergedFields ==
  ASSUME NEW e \in Record, NEW i \in Incoming, NEW t \in Task
  PROVE  /\ Merged(e, i, t) \in Record
         /\ Merged(e, i, t).id = e.id
         /\ Merged(e, i, t).status = StatusAfter(e, i)
         /\ Merged(e, i, t).severity = Higher(e.severity, i.severity)
         /\ Merged(e, i, t).title = PreferLonger(e.title, i.title)
         /\ Merged(e, i, t).summary = Higher(e.summary, i.summary)
         /\ Merged(e, i, t).anchors = e.anchors \cup i.anchors
         /\ Merged(e, i, t).details = e.details \cup {t}
<1>1. StatusAfter(e, i) \in Status
  BY DEF StatusAfter, Status, Record, Incoming
<1>2. BasisAfter(e, i) \in Basis \cup {NoBasis}
  BY DEF BasisAfter, Record, Incoming
<1>3. Higher(e.severity, i.severity) \in Severities /\ Higher(e.summary, i.summary) \in Nat
  BY DEF Higher, Record, Incoming
<1>4. PreferLonger(e.title, i.title) \in Title
  BY DEF PreferLonger, Record, Incoming
<1>5. /\ e.anchors \cup i.anchors \in SUBSET Anchor
      /\ (e.open \cup i.open) \ i.resolved \in SUBSET Question
      /\ e.details \cup {t} \in SUBSET Task
  BY DEF Record, Incoming
<1> QED
  BY <1>1, <1>2, <1>3, <1>4, <1>5 DEF Merged, Record

\* A status takes a permitted edge only, and leaves Invalidated only for a
\* delta that reactivates or doubts.
LEMMA StatusEdges ==
  ASSUME NEW e \in Record, NEW i \in Incoming
  PROVE  /\ <<e.status, StatusAfter(e, i)>> \in Ledger!Permitted
         /\ (e.status = "invalidated" /\ StatusAfter(e, i) # "invalidated")
               => (i.reactivate \/ i.status = "unconfirmed")
BY DEF StatusAfter, Ledger!Permitted, Ledger!Status, Record, Incoming, Status

LEMMA InsertedFields ==
  ASSUME NEW i \in Incoming, NEW t \in Task
  PROVE  /\ Inserted(i, t) \in Record
         /\ Inserted(i, t).id = i.id /\ Inserted(i, t).status = i.status
         /\ Inserted(i, t).severity = i.severity /\ Inserted(i, t).title = i.title
         /\ Inserted(i, t).summary = i.summary /\ Inserted(i, t).anchors = i.anchors
         /\ Inserted(i, t).details = {t}
BY DEF Inserted, Record, Incoming

\* An entry of a delta is merged into the record of its id, else into one it
\* duplicates, else appended, else refused (findings.rs:752-833).
LEMMA OneTarget ==
  ASSUME store \in Seq(Record), Distinct(store), NEW i \in Incoming
  PROVE  \/ Target(i) = {} /\ \A p \in DOMAIN store : store[p].id # i.id
         \/ \E k \in DOMAIN store :
              /\ Target(i) = {k}
              /\ \/ store[k].id = i.id
                 \/ Complete(i) /\ SemanticDuplicate(store[k], i)
<1> DEFINE same == {p \in DOMAIN store : store[p].id = i.id}
           dups == {p \in DOMAIN store : SemanticDuplicate(store[p], i)}
<1>0. DOMAIN store \subseteq Nat
  OBVIOUS
<1>1. CASE same # {}
  <2>1. PICK k \in DOMAIN store : store[k].id = i.id
    BY <1>1
  <2>2. same = {k}
    BY <2>1 DEF Distinct
  <2>3. SameId(i) = {k}
    BY <2>1, <2>2, <1>0 DEF SameId, FirstOf
  <2> QED
    BY <2>1, <2>3 DEF Target
<1>2. CASE same = {}
  <2>1. SameId(i) = {} /\ \A p \in DOMAIN store : store[p].id # i.id
    BY <1>2 DEF SameId, FirstOf
  <2>2. CASE Complete(i) /\ Duplicate(i) # {}
    <3>1. PICK k \in Duplicate(i) : TRUE
      BY <2>2
    <3>2. k \in DOMAIN store /\ SemanticDuplicate(store[k], i) /\ \A q \in dups : k <= q
      BY <3>1 DEF Duplicate, FirstOf
    <3>3. \A m \in Duplicate(i) : m = k
      <4> TAKE m \in Duplicate(i)
      <4>1. m \in dups /\ k \in dups /\ (\A q \in dups : m <= q)
        BY <3>2 DEF Duplicate, FirstOf
      <4> QED
        BY <4>1, <3>2, <1>0
    <3>4. Target(i) = {k}
      BY <2>1, <2>2, <3>1, <3>3 DEF Target
    <3> QED
      BY <3>2, <3>4, <2>2
  <2>3. CASE ~(Complete(i) /\ Duplicate(i) # {})
    BY <2>1, <2>3 DEF Target
  <2> QED
    BY <2>2, <2>3
<1> QED
  BY <1>1, <1>2

\* What one more entry makes of the store.
LEMMA AppliedCases ==
  ASSUME store \in Seq(Record), Distinct(store), NEW i \in Incoming, NEW t \in Task
  PROVE  \/ \E k \in DOMAIN store :
              /\ Applied(i, t) = [store EXCEPT ![k] = Merged(store[k], i, t)]
              /\ \/ store[k].id = i.id
                 \/ Complete(i) /\ SemanticDuplicate(store[k], i)
         \/ /\ Complete(i) /\ \A p \in DOMAIN store : store[p].id # i.id
            /\ Applied(i, t) = Append(store, Inserted(i, t))
         \/ ~Complete(i) /\ Applied(i, t) = store
<1>1. CASE Target(i) = {} /\ \A p \in DOMAIN store : store[p].id # i.id
  BY <1>1 DEF Applied
<1>2. ASSUME NEW k \in DOMAIN store, Target(i) = {k},
             store[k].id = i.id \/ (Complete(i) /\ SemanticDuplicate(store[k], i))
      PROVE  Applied(i, t) = [store EXCEPT ![k] = Merged(store[k], i, t)]
  BY <1>2 DEF Applied
<1> QED
  BY <1>1, <1>2, OneTarget

\* Its entries stay typed and unique, and keep their ids and what they hold.
LEMMA AppliedKeeps ==
  ASSUME store \in Seq(Record), Distinct(store), NEW i \in Incoming, NEW t \in Task
  PROVE  /\ Applied(i, t) \in Seq(Record)
         /\ Distinct(Applied(i, t))
         /\ DOMAIN store \subseteq DOMAIN Applied(i, t)
         /\ \A p \in DOMAIN store :
              \/ Applied(i, t)[p] = store[p]
              \/ /\ Applied(i, t)[p] = Merged(store[p], i, t)
                 /\ \/ store[p].id = i.id
                    \/ Complete(i) /\ SemanticDuplicate(store[p], i)
         /\ IdsOf(store) \subseteq IdsOf(Applied(i, t))
<1> DEFINE new == Applied(i, t)
<1>1. ASSUME NEW k \in DOMAIN store,
             new = [store EXCEPT ![k] = Merged(store[k], i, t)],
             store[k].id = i.id \/ (Complete(i) /\ SemanticDuplicate(store[k], i))
      PROVE  /\ new \in Seq(Record) /\ Distinct(new) /\ DOMAIN new = DOMAIN store
             /\ \A p \in DOMAIN store :
                  \/ new[p] = store[p]
                  \/ /\ new[p] = Merged(store[p], i, t)
                     /\ \/ store[p].id = i.id
                        \/ Complete(i) /\ SemanticDuplicate(store[p], i)
             /\ \A p \in DOMAIN store : new[p].id = store[p].id
  <2>1. store[k] \in Record
    OBVIOUS
  <2>2. Merged(store[k], i, t) \in Record /\ Merged(store[k], i, t).id = store[k].id
    BY <2>1, MergedFields
  <2>3. new \in Seq(Record) /\ DOMAIN new = DOMAIN store
    BY <1>1, <2>2
  <2>4. \A p \in DOMAIN store : new[p] = IF p = k THEN Merged(store[k], i, t) ELSE store[p]
    BY <1>1
  <2>5. \A p \in DOMAIN store : new[p].id = store[p].id
    BY <2>2, <2>4
  <2>6. Distinct(new)
    BY <2>3, <2>5 DEF Distinct
  <2> HIDE DEF new
  <2> QED
    BY <1>1, <2>3, <2>4, <2>5, <2>6
<1>2. ASSUME Complete(i), \A p \in DOMAIN store : store[p].id # i.id,
             new = Append(store, Inserted(i, t))
      PROVE  /\ new \in Seq(Record) /\ Distinct(new) /\ DOMAIN store \subseteq DOMAIN new
             /\ \A p \in DOMAIN store : new[p] = store[p]
  <2>1. Inserted(i, t) \in Record /\ Inserted(i, t).id = i.id
    BY InsertedFields
  <2>2. /\ new \in Seq(Record) /\ DOMAIN new = DOMAIN store \cup {Len(store) + 1}
        /\ new[Len(store) + 1] = Inserted(i, t)
        /\ \A p \in DOMAIN store : new[p] = store[p]
    BY <1>2, <2>1
  <2> HIDE DEF new
  <2>3. Distinct(new)
    BY <1>2, <2>1, <2>2 DEF Distinct
  <2> QED
    BY <2>2, <2>3
<1> HIDE DEF new
<1>3. IdsOf(store) \subseteq IdsOf(new)
  <2>1. DOMAIN store \subseteq DOMAIN new /\ \A p \in DOMAIN store : new[p].id = store[p].id
    BY <1>1, <1>2, AppliedCases DEF new
  <2> QED
    BY <2>1 DEF IdsOf
<1>4. /\ new \in Seq(Record) /\ Distinct(new) /\ DOMAIN store \subseteq DOMAIN new
      /\ \A p \in DOMAIN store :
           \/ new[p] = store[p]
           \/ /\ new[p] = Merged(store[p], i, t)
              /\ \/ store[p].id = i.id
                 \/ Complete(i) /\ SemanticDuplicate(store[p], i)
  <2>1. CASE new = store
    BY <2>1
  <2> QED
    BY <1>1, <1>2, <2>1, AppliedCases DEF new
<1> QED
  BY <1>3, <1>4 DEF new

-----------------------------------------------------------------------------
(* The shape of the state.                                                  *)

\* A promoted finding is a finding, under its own id or a free one.
LEMMA RenamedType ==
  ASSUME NEW p \in Audits
  PROVE  Renamed(p) \subseteq Incoming
<1>1. p \in Incoming
  BY ConstantsAssumption DEF ConstantsAssumption
<1>2. p.id \in Id
  BY <1>1 DEF Incoming
<1>3. Copies[p.id] \in Seq(Id)
  BY <1>2, ConstantsAssumption DEF ConstantsAssumption
<1>4. \A n \in DOMAIN Copies[p.id] : Copies[p.id][n] \in Id
  BY <1>3
<1>5. \A n \in FirstOf(Free(p.id)) : n \in DOMAIN Copies[p.id]
  BY DEF FirstOf, Free
<1>6. \A n \in FirstOf(Free(p.id)) : [p EXCEPT !.id = Copies[p.id][n]] \in Incoming
  BY <1>1, <1>4, <1>5 DEF Incoming
<1> QED
  BY <1>1, <1>6 DEF Renamed

LEMMA StoreInvInit ==
  ASSUME Init
  PROVE  StoreInv
BY DEF Init, StoreInv, Distinct, ReaperType, Idle

LEMMA StoreInvStep ==
  ASSUME StoreInv, [Next]_vars
  PROVE  StoreInv'
<1> USE DEF StoreInv
<1>1. ASSUME NEW t \in Task, Start(t) PROVE StoreInv'
  BY <1>1 DEF Start, storeVars, ReaperType, Distinct
<1>2. ASSUME NEW t \in Task, Publish(t) PROVE StoreInv'
  <2>1. delta[t] \in Seq(Incoming)
    OBVIOUS
  <2>2. ReaperType'
    BY <1>2, <2>1 DEF Publish, ReaperType
  <2> QED
    BY <1>2, <2>2 DEF Publish, storeVars, Distinct
<1>3. ASSUME NEW t \in Task, NEW d \in Emissions, Finish(t, d) PROVE StoreInv'
  <2>1. d \in Seq(Incoming)
    BY ConstantsAssumption DEF ConstantsAssumption
  <2> QED
    BY <1>3, <2>1 DEF Finish, storeVars, ReaperType, Distinct
<1>4. ASSUME NEW p \in Audits, Promote(p) PROVE StoreInv'
  <2>1. PICK q \in Renamed(p) :
          reaper' = [reaper EXCEPT !.queue = Append(@, q),
                                   !.taken = IF AboutPrior(p) THEN @ ELSE @ \cup {q.id},
                                   !.audits = @ + 1]
    BY <1>4 DEF Promote
  <2>2. q \in Incoming
    BY RenamedType
  <2>3. Append(reaper.queue, q) \in Seq(Incoming) /\ reaper.stage = "audit" /\ reaper.task \in Task
    BY <1>4, <2>2 DEF ReaperType, Promote
  <2>4. ReaperType'
    <3> DEFINE T == IF AboutPrior(p) THEN reaper.taken ELSE reaper.taken \cup {q.id}
    <3>1. reaper' = [reaper EXCEPT !.queue = Append(@, q), !.taken = T, !.audits = @ + 1]
      BY <2>1
    <3> HIDE DEF T
    <3>2. reaper' = [task |-> reaper.task, stage |-> reaper.stage,
                     queue |-> Append(reaper.queue, q), known |-> reaper.known,
                     taken |-> T, audits |-> reaper.audits + 1]
      BY <3>1 DEF ReaperType
    <3> QED
      BY <2>3, <3>2 DEF ReaperType
  <2> QED
    BY <1>4, <2>4 DEF Promote, storeVars, taskVars, Distinct
<1>5. ASSUME EndAudit PROVE StoreInv'
  <2>1. ReaperType'
    BY <1>5 DEF EndAudit, ReaperType, Idle
  <2> QED
    BY <1>5, <2>1 DEF EndAudit, storeVars, taskVars, Distinct
<1>6. ASSUME ApplyEntry PROVE StoreInv'
  <2>1. Head(reaper.queue) \in Incoming /\ Tail(reaper.queue) \in Seq(Incoming)
        /\ reaper.task \in Task
    BY <1>6 DEF ApplyEntry, ReaperType
  <2>2. store' \in Seq(Record) /\ Distinct(store')
    BY <1>6, <2>1, AppliedKeeps DEF ApplyEntry
  <2>3. ReaperType'
    BY <1>6, <2>1 DEF ApplyEntry, ReaperType
  <2> QED
    BY <1>6, <2>2, <2>3 DEF ApplyEntry, taskVars, Distinct
<1>7. ASSUME NEW ok \in BOOLEAN, SaveStore(ok) PROVE StoreInv'
  <2>1. ReaperType'
    BY <1>7 DEF SaveStore, ReaperType
  <2> QED
    BY <1>7, <2>1 DEF SaveStore, taskVars, Distinct
<1>8. ASSUME ReplaceFindings PROVE StoreInv'
  BY <1>8 DEF ReplaceFindings, ReaperType, Idle, storeVars, taskVars, Distinct
<1>9. ASSUME Clear PROVE StoreInv'
  BY <1>9 DEF Clear, ReaperType, storeVars, Distinct
<1>10. ASSUME Crash PROVE StoreInv'
  BY <1>10 DEF Crash, ReaperType, Idle, Distinct
<1>11. CASE UNCHANGED vars
  BY <1>11 DEF vars, storeVars, taskVars, ReaperType, Distinct
<1> QED
  BY <1>1, <1>2, <1>3, <1>4, <1>5, <1>6, <1>7, <1>8, <1>9, <1>10, <1>11 DEF Next

-----------------------------------------------------------------------------
(* What was filed is held.                                                  *)

\* A record that holds a finding still does after a merge, and a record a
\* finding was merged into holds it.
LEMMA MergedHolds ==
  ASSUME NEW e \in Record, NEW i \in Incoming, NEW t \in Task
  PROVE  LET m == Merged(e, i, t) IN
         /\ i.anchors \subseteq m.anchors /\ i.severity <= m.severity
         /\ Length[i.title] <= Length[m.title] /\ i.summary <= m.summary /\ t \in m.details
         /\ e.anchors \subseteq m.anchors /\ e.severity <= m.severity
         /\ Length[e.title] <= Length[m.title] /\ e.summary <= m.summary
         /\ e.details \subseteq m.details
<1>1. /\ e.severity \in Nat /\ i.severity \in Nat /\ e.summary \in Nat /\ i.summary \in Nat
      /\ Length[e.title] \in Nat /\ Length[i.title] \in Nat
  BY ConstantsAssumption DEF ConstantsAssumption, Record, Incoming
<1> QED
  BY <1>1, MergedFields DEF Higher, PreferLonger

LEMMA AppliedHolds ==
  ASSUME StoreInv, NEW i \in Incoming, NEW t \in Task
  PROVE  /\ \A g \in Incoming, u \in Task : Holds(store, g, u) => Holds(Applied(i, t), g, u)
         /\ Complete(i) => Holds(Applied(i, t), i, t)
<1> DEFINE new == Applied(i, t)
<1>1. store \in Seq(Record) /\ Distinct(store)
  BY DEF StoreInv
<1>2. ASSUME NEW g \in Incoming, NEW u \in Task, Holds(store, g, u)
      PROVE  Holds(new, g, u)
  <2>1. PICK p \in DOMAIN store :
          /\ g.anchors \subseteq store[p].anchors /\ g.severity <= store[p].severity
          /\ Length[g.title] <= Length[store[p].title] /\ g.summary <= store[p].summary
          /\ u \in store[p].details
    BY <1>2 DEF Holds
  <2>2. p \in DOMAIN new /\ (new[p] = store[p] \/ new[p] = Merged(store[p], i, t))
    BY <1>1, AppliedKeeps
  <2>3. CASE new[p] = store[p]
    BY <2>1, <2>2, <2>3 DEF Holds
  <2>4. CASE new[p] = Merged(store[p], i, t)
    <3>1. store[p] \in Record /\ new[p] \in Record
      BY <1>1, <2>4, MergedFields
    <3>2. /\ g.severity \in Nat /\ g.summary \in Nat /\ Length[g.title] \in Nat
          /\ store[p].severity \in Nat /\ store[p].summary \in Nat
          /\ Length[store[p].title] \in Nat /\ Length[new[p].title] \in Nat
          /\ new[p].severity \in Nat /\ new[p].summary \in Nat
      BY <3>1, ConstantsAssumption DEF ConstantsAssumption, Record, Incoming
    <3>3. /\ store[p].anchors \subseteq new[p].anchors /\ store[p].severity <= new[p].severity
          /\ Length[store[p].title] <= Length[new[p].title]
          /\ store[p].summary <= new[p].summary /\ store[p].details \subseteq new[p].details
      BY <2>4, <3>1, MergedHolds
    <3>4. /\ g.anchors \subseteq new[p].anchors /\ g.severity <= new[p].severity
          /\ Length[g.title] <= Length[new[p].title] /\ g.summary <= new[p].summary
          /\ u \in new[p].details
      BY <2>1, <3>2, <3>3
    <3> QED
      BY <2>2, <3>4 DEF Holds
  <2> QED
    BY <2>2, <2>3, <2>4
<1>3. ASSUME Complete(i)
      PROVE  Holds(new, i, t)
  <2>1. ASSUME NEW k \in DOMAIN store, new = [store EXCEPT ![k] = Merged(store[k], i, t)]
        PROVE  Holds(new, i, t)
    <3>1. store[k] \in Record /\ k \in DOMAIN new /\ new[k] = Merged(store[k], i, t)
      BY <1>1, <2>1
    <3> QED
      BY <3>1, MergedHolds DEF Holds
  <2>2. ASSUME new = Append(store, Inserted(i, t))
        PROVE  Holds(new, i, t)
    <3>1. LET k == Len(store) + 1 IN k \in DOMAIN new /\ new[k] = Inserted(i, t)
      BY <1>1, <2>2
    <3>2. i.severity \in Nat /\ i.summary \in Nat /\ Length[i.title] \in Nat
      BY ConstantsAssumption DEF ConstantsAssumption, Incoming
    <3> QED
      BY <3>1, <3>2, InsertedFields DEF Holds
  <2> QED
    BY <1>1, <1>3, <2>1, <2>2, AppliedCases
<1> QED
  BY <1>2, <1>3

LEMMA FiledInvStep ==
  ASSUME StoreInv, FiledInv, [Next]_vars
  PROVE  FiledInv'
<1> USE DEF FiledInv, FilingsSurvive
<1>1. ASSUME ApplyEntry PROVE FiledInv'
  <2> DEFINE i == Head(reaper.queue)
             t == reaper.task
  <2>1. i \in Incoming /\ t \in Task
    BY <1>1 DEF ApplyEntry, ReaperType, StoreInv
  <2>2. store' = Applied(i, t) /\ saved' = saved /\ disk' = disk
        /\ filed' = IF Complete(i) THEN filed \cup {<<i, t>>} ELSE filed
    BY <1>1 DEF ApplyEntry
  <2> HIDE DEF i, t
  <2>3. \A f \in filed' : Holds(store', f[1], f[2])
    BY <2>1, <2>2, AppliedHolds
  <2> QED
    BY <2>1, <2>2, <2>3
<1>2. ASSUME NEW ok \in BOOLEAN, SaveStore(ok) PROVE FiledInv'
  BY <1>2 DEF SaveStore
<1>3. ASSUME Crash PROVE FiledInv'
  BY <1>3 DEF Crash
<1>4. CASE UNCHANGED <<storeVars, filed, saved>>
  BY <1>4 DEF storeVars
<1>5. ASSUME ~ApplyEntry, ~SaveStore(TRUE), ~SaveStore(FALSE), ~Crash
      PROVE  UNCHANGED <<storeVars, filed, saved>>
  BY <1>5 DEF Next, Start, Publish, Finish, Promote, EndAudit, ReplaceFindings, Clear, vars, storeVars
<1> QED
  BY <1>1, <1>2, <1>3, <1>4, <1>5

-----------------------------------------------------------------------------
(* What prompts show is on file.                                            *)

LEMMA ShownInvStep ==
  ASSUME StoreInv, ShownInv, [Next]_vars
  PROVE  ShownInv'
<1> USE DEF ShownInv, UpdatesLand
<1>1. ASSUME NEW t \in Task, Start(t) PROVE ShownInv'
  BY <1>1 DEF Start, storeVars
<1>2. ASSUME NEW t \in Task, Publish(t) PROVE ShownInv'
  BY <1>2 DEF Publish, storeVars
<1>3. ASSUME NEW t \in Task, NEW d \in Emissions, Finish(t, d) PROVE ShownInv'
  BY <1>3 DEF Finish, storeVars
<1>4. ASSUME NEW p \in Audits, Promote(p) PROVE ShownInv'
  BY <1>4 DEF Promote, storeVars, taskVars
<1>5. ASSUME EndAudit PROVE ShownInv'
  BY <1>5 DEF EndAudit, storeVars, taskVars
<1>6. ASSUME ApplyEntry PROVE ShownInv'
  <2>1. Head(reaper.queue) \in Incoming /\ reaper.task \in Task
    BY <1>6 DEF ApplyEntry, ReaperType, StoreInv
  <2>2. IdsOf(store) \subseteq IdsOf(store')
    BY <1>6, <2>1, AppliedKeeps DEF ApplyEntry, StoreInv
  <2>3. IdsOf(mirror') = IdsOf(mirror) /\ UNCHANGED <<phase, seen>>
    BY <1>6 DEF ApplyEntry, taskVars
  <2> QED
    BY <2>2, <2>3
<1>7. ASSUME NEW ok \in BOOLEAN, SaveStore(ok) PROVE ShownInv'
  BY <1>7 DEF SaveStore, taskVars
<1>8. ASSUME ReplaceFindings PROVE ShownInv'
  BY <1>8 DEF ReplaceFindings, storeVars, taskVars
<1>9. ASSUME Clear PROVE ShownInv'
  BY <1>9 DEF Clear, storeVars, IdsOf
<1>10. ASSUME Crash PROVE ShownInv'
  BY <1>10 DEF Crash
<1>11. CASE UNCHANGED vars
  BY <1>11 DEF vars, storeVars, taskVars
<1> QED
  BY <1>1, <1>2, <1>3, <1>4, <1>5, <1>6, <1>7, <1>8, <1>9, <1>10, <1>11 DEF Next

-----------------------------------------------------------------------------
(* The store as a ledger.                                                   *)

\* The ledger's entry for an id is the only record that has it.
LEMMA EntryOfRecord ==
  ASSUME NEW list \in Seq(Record), Distinct(list), NEW p \in DOMAIN list
  PROVE  /\ list[p].id \in DOMAIN Entries(list)
         /\ Entries(list)[list[p].id] =
              [status |-> list[p].status, severity |-> list[p].severity, anchors |-> list[p].anchors]
<1> DEFINE id == list[p].id
<1>1. id \in IdsOf(list)
  BY DEF IdsOf
<1>2. (CHOOSE q \in DOMAIN list : list[q].id = id) = p
  BY DEF Distinct
<1> QED
  BY <1>1, <1>2 DEF Entries

\* A step of the reaper on the store files or amends one entry, or none.
LEMMA ApplyRefines ==
  ASSUME StoreInv, ApplyEntry, StoreInv'
  PROVE  Ledger!Next \/ UNCHANGED Ledger!vars
<1> DEFINE i == Head(reaper.queue)
           t == reaper.task
<1>1. i \in Incoming /\ t \in Task
  BY DEF ApplyEntry, ReaperType, StoreInv
<1>2. store \in Seq(Record) /\ Distinct(store) /\ store' \in Seq(Record) /\ Distinct(store')
  BY DEF StoreInv
<1>3. store' = Applied(i, t) /\ Entries(disk)' = Entries(disk)
  BY DEF ApplyEntry
<1>4. DOMAIN Entries(store) = IdsOf(store) /\ DOMAIN Entries(store)' = IdsOf(store')
  BY DEF Entries
<1> HIDE DEF i, t
<1>5. ASSUME NEW k \in DOMAIN store, store' = [store EXCEPT ![k] = Merged(store[k], i, t)]
      PROVE  Ledger!Amend(store[k].id)
  <2> DEFINE id == store[k].id
             e == store[k]
             m == Merged(store[k], i, t)
  <2>1. e \in Record /\ m \in Record /\ m.id = id /\ id \in Id
    <3>1. e \in Record
      BY <1>2
    <3>2. id \in Id
      BY <3>1 DEF Record
    <3> QED
      BY <1>1, <3>1, <3>2, MergedFields
  <2>2. DOMAIN store' = DOMAIN store /\ store'[k] = m
        /\ \A p \in DOMAIN store : p # k => store'[p] = store[p]
    BY <1>5, <1>2
  <2>3. IdsOf(store') = IdsOf(store)
    BY <2>1, <2>2 DEF IdsOf
  <2>4. /\ Entries(store)[id] = [status |-> e.status, severity |-> e.severity, anchors |-> e.anchors]
        /\ id \in DOMAIN Entries(store)
    BY <1>2, EntryOfRecord
  <2>5. Entries(store)'[id] = [status |-> m.status, severity |-> m.severity, anchors |-> m.anchors]
    BY <1>2, <2>1, <2>2, EntryOfRecord
  <2>6. ASSUME NEW j \in IdsOf(store) \ {id}
        PROVE  Entries(store)'[j] = Entries(store)[j]
    <3>1. PICK p \in DOMAIN store : store[p].id = j
      BY DEF IdsOf
    <3>2. store'[p] = store[p] /\ p \in DOMAIN store'
      BY <2>2, <2>6, <3>1
    <3>3. Entries(store)[j] = [status |-> store[p].status, severity |-> store[p].severity,
                               anchors |-> store[p].anchors]
      BY <1>2, <3>1, EntryOfRecord
    <3>4. store'[p].id = j
      BY <3>1, <3>2
    <3>5. Entries(store)'[j] = [status |-> store'[p].status, severity |-> store'[p].severity,
                                anchors |-> store'[p].anchors]
      BY <1>2, <3>2, <3>4, EntryOfRecord
    <3> QED
      BY <3>2, <3>3, <3>5
  <2>7. /\ m.status = StatusAfter(e, i) /\ m.severity = Higher(e.severity, i.severity)
        /\ m.anchors = e.anchors \cup i.anchors
    BY <1>1, <2>1, MergedFields
  <2>8. <<e.status, m.status>> \in Ledger!Permitted
    BY <1>1, <2>1, <2>7, StatusEdges
  <2>9. m.severity >= e.severity
    <3>1. e.severity \in Nat /\ i.severity \in Nat
      BY <1>1, <2>1, ConstantsAssumption DEF ConstantsAssumption, Record, Incoming
    <3> QED
      BY <2>7, <3>1 DEF Higher
  <2>10. Entries(store)'[id] \in Ledger!Entry
    BY <2>1, <2>5 DEF Ledger!Entry, Ledger!Status, Record, Status
  <2> HIDE DEF m, e
  <2> QED
    BY <1>3, <1>4, <2>3, <2>4, <2>5, <2>6, <2>7, <2>8, <2>9, <2>10 DEF Ledger!Amend, Ledger!Filed
<1>6. ASSUME \A p \in DOMAIN store : store[p].id # i.id, store' = Append(store, Inserted(i, t))
      PROVE  Ledger!File(i.id)
  <2>1. Inserted(i, t) \in Record /\ Inserted(i, t).id = i.id /\ i.id \in Id
    BY <1>1, InsertedFields DEF Incoming
  <2>2. /\ DOMAIN store' = DOMAIN store \cup {Len(store) + 1}
        /\ store'[Len(store) + 1] = Inserted(i, t)
        /\ \A p \in DOMAIN store : store'[p] = store[p]
    BY <1>2, <1>6
  <2>3. IdsOf(store') = IdsOf(store) \cup {i.id} /\ i.id \notin IdsOf(store)
    BY <1>6, <2>1, <2>2 DEF IdsOf
  <2>4. Entries(store)'[i.id] \in Ledger!Entry
    <3> DEFINE m == Inserted(i, t)
    <3>1. Entries(store)'[i.id] = [status |-> m.status, severity |-> m.severity, anchors |-> m.anchors]
      BY <1>2, <2>1, <2>2, EntryOfRecord
    <3> HIDE DEF m
    <3> QED
      BY <2>1, <3>1 DEF Ledger!Entry, Ledger!Status, Record, Status, m
  <2>5. ASSUME NEW j \in IdsOf(store)
        PROVE  Entries(store)'[j] = Entries(store)[j]
    <3>1. PICK p \in DOMAIN store : store[p].id = j
      BY DEF IdsOf
    <3>2. store'[p] = store[p] /\ p \in DOMAIN store'
      BY <2>2, <3>1
    <3>3. Entries(store)[j] = [status |-> store[p].status, severity |-> store[p].severity,
                               anchors |-> store[p].anchors]
      BY <1>2, <3>1, EntryOfRecord
    <3>4. store'[p].id = j
      BY <3>1, <3>2
    <3>5. Entries(store)'[j] = [status |-> store'[p].status, severity |-> store'[p].severity,
                                anchors |-> store'[p].anchors]
      BY <1>2, <3>2, <3>4, EntryOfRecord
    <3> QED
      BY <3>2, <3>3, <3>5
  <2> QED
    BY <1>3, <1>4, <2>3, <2>4, <2>5 DEF Ledger!File, Ledger!Filed
<1>7. \A k \in DOMAIN store : store[k].id \in Id
  <2>1. \A k \in DOMAIN store : store[k] \in Record
    BY <1>2
  <2>2. \A e \in Record : e.id \in Id
    BY DEF Record
  <2> QED
    BY <2>1, <2>2
<1>8. i.id \in Id
  BY <1>1 DEF Incoming
<1>9. CASE store' = store
  BY <1>3, <1>9 DEF Ledger!vars
<1> QED
  BY <1>1, <1>2, <1>3, <1>5, <1>6, <1>7, <1>8, <1>9, AppliedCases DEF Ledger!Next

LEMMA StepRefines ==
  ASSUME StoreInv, [Next]_vars, StoreInv'
  PROVE  [Ledger!Next]_(Ledger!vars)
<1>1. CASE ApplyEntry
  BY <1>1, ApplyRefines
<1>2. ASSUME NEW ok \in BOOLEAN, SaveStore(ok) PROVE Ledger!MakeDurable \/ UNCHANGED Ledger!vars
  BY <1>2 DEF SaveStore, Ledger!MakeDurable, Ledger!vars
<1>3. CASE Crash
  BY <1>3 DEF Crash, Ledger!Lose, Ledger!Next
<1>4. CASE UNCHANGED storeVars
  BY <1>4 DEF storeVars, Ledger!vars
<1>5. ASSUME ~ApplyEntry, ~SaveStore(TRUE), ~SaveStore(FALSE), ~Crash
      PROVE  UNCHANGED storeVars
  BY <1>5 DEF Next, Start, Publish, Finish, Promote, EndAudit, ReplaceFindings, Clear, vars, storeVars
<1> QED
  BY <1>1, <1>2, <1>3, <1>4, <1>5 DEF Ledger!Next

LEMMA InitRefines ==
  ASSUME Init
  PROVE  Ledger!Init
<1>1. IdsOf(store) = {} /\ IdsOf(disk) = {}
  BY DEF Init, IdsOf
<1>2. Entries(store) = <<>> /\ Entries(disk) = <<>>
  BY <1>1 DEF Entries
<1> QED
  BY <1>2 DEF Ledger!Init

LEMMA StepRetires ==
  ASSUME StoreInv, [Next]_vars, crashes' = crashes, NEW p \in DOMAIN store,
         store[p].status = "invalidated", store'[p].status # "invalidated"
  PROVE  LET i == Head(reaper.queue) IN
           i.id = store[p].id /\ (i.reactivate \/ i.status = "unconfirmed")
<1> DEFINE i == Head(reaper.queue)
           t == reaper.task
<1>1. ~Crash
  BY DEF Crash, StoreInv
<1>2. ApplyEntry
  <2>1. store' # store
    OBVIOUS
  <2> QED
    BY <1>1, <2>1 DEF Next, Start, Publish, Finish, Promote, EndAudit, ReplaceFindings, Clear, SaveStore,
       vars, storeVars
<1>3. i \in Incoming /\ t \in Task /\ store' = Applied(i, t)
  BY <1>2 DEF ApplyEntry, ReaperType, StoreInv
<1> HIDE DEF i, t
<1>4. store[p] \in Record
  BY DEF StoreInv
<1>5. /\ store'[p] = Merged(store[p], i, t)
      /\ store[p].id = i.id \/ SemanticDuplicate(store[p], i)
  BY <1>3, AppliedKeeps DEF StoreInv
<1>6. store[p].id = i.id
  BY <1>5 DEF SemanticDuplicate
<1>7. store'[p].status = StatusAfter(store[p], i)
  BY <1>3, <1>4, <1>5, MergedFields
<1> QED
  BY <1>3, <1>4, <1>6, <1>7, StatusEdges DEF i

-----------------------------------------------------------------------------
(* Theorems.                                                                *)

\* Records stay records, and an id is on file once, in memory and in the file
\* (apply_delta_to_list, findings.rs).
THEOREM StoreIsSound == Spec => []StoreInv
BY StoreInvInit, StoreInvStep, PTL DEF Spec

\* No finding that was applied is lost to a merge, a duplicate, a failed save
\* or a kill after a save (merge_into and FindingsStore::apply_delta).
THEOREM FilingsAreKept == Spec => []FilingsSurvive
<1>1. Init => FiledInv
  BY DEF Init, FiledInv, FilingsSurvive
<1>2. StoreInv /\ FiledInv /\ [Next]_vars => FiledInv'
  BY FiledInvStep
<1>3. FiledInv => FilingsSurvive
  BY DEF FiledInv
<1> QED
  BY <1>1, <1>2, <1>3, StoreIsSound, PTL DEF Spec

\* What a prompt showed a task is on file when the task's delta arrives
\* (replace_findings and cmd_clear, session.rs).
THEOREM UpdatesFindTheirRecord == Spec => []UpdatesLand
<1>1. Init => ShownInv
  BY DEF Init, ShownInv, UpdatesLand, IdsOf
<1>2. StoreInv /\ ShownInv /\ [Next]_vars => ShownInv'
  BY ShownInvStep
<1>3. ShownInv => UpdatesLand
  BY DEF ShownInv
<1> QED
  BY <1>1, <1>2, <1>3, StoreIsSound, PTL DEF Spec

\* A record leaves Invalidated only for a delta that names it and says so
\* (apply_status_transition and is_semantic_duplicate, findings.rs).
THEOREM RetirementsStand == Spec => RetirementStands
<1>1. StoreInv /\ [Next]_vars =>
        [crashes' = crashes =>
           \A p \in DOMAIN store :
             (store[p].status = "invalidated" /\ store'[p].status # "invalidated") =>
                LET i == Head(reaper.queue) IN
                  i.id = store[p].id /\ (i.reactivate \/ i.status = "unconfirmed")]_vars
  BY StepRetires
<1> QED
  BY <1>1, StoreIsSound, PTL DEF Spec, RetirementStands

\* The store, with its merge rules, failed saves and kills, implements the
\* ledger: entries are filed once, amended along permitted edges, made durable
\* as a whole or lost back to what was durable.
THEOREM StoreImplementsLedger == Spec => ImplementsLedger
<1>1. Init => Ledger!Init
  BY InitRefines
<1>2. StoreInv /\ StoreInv' /\ [Next]_vars => [Ledger!Next]_(Ledger!vars)
  BY StepRefines
<1> QED
  BY <1>1, <1>2, StoreIsSound, PTL DEF Spec, ImplementsLedger, Ledger!Spec
=============================================================================
