--------------------------- MODULE FindingsLedger ---------------------------
(***************************************************************************)
(* What the findings store promises, without saying how: a ledger of       *)
(* findings in which entries are filed once and never removed, their       *)
(* evidence only grows, their status moves along a few permitted edges,    *)
(* and a crash takes the ledger back to what was last made durable.        *)
(***************************************************************************)
EXTENDS Integers

CONSTANTS Id, Anchor, Severities

Status == {"active", "unconfirmed", "fixed", "invalidated"}

VARIABLES
  ledger,   \* the entries, a function from the ids filed so far
  durable   \* the ledger a restart would begin with

vars == <<ledger, durable>>

Entry == [status : Status, severity : Severities, anchors : SUBSET Anchor]

Init == ledger = <<>> /\ durable = <<>>

Filed == DOMAIN ledger

\* A finding nobody has filed yet enters the ledger, in any status.
File(id) ==
  /\ id \notin Filed
  /\ DOMAIN ledger' = Filed \cup {id}
  /\ ledger'[id] \in Entry
  /\ \A i \in Filed : ledger'[i] = ledger[i]
  /\ UNCHANGED durable

\* The edges a delta may take a status along. Nothing returns to "fixed", and
\* only the two ways out of "invalidated" are distinguished from a refusal.
Permitted ==
  {<<s, s>> : s \in Status} \cup
  {<<s, "invalidated">> : s \in Status} \cup
  {<<"active", "unconfirmed">>, <<"invalidated", "unconfirmed">>,
   <<"unconfirmed", "active">>, <<"invalidated", "active">>}

\* More is learned about an entry; what was known of it is kept.
Amend(id) ==
  /\ id \in Filed
  /\ DOMAIN ledger' = Filed
  /\ ledger'[id] \in Entry
  /\ <<ledger[id].status, ledger'[id].status>> \in Permitted
  /\ ledger'[id].severity >= ledger[id].severity
  /\ ledger[id].anchors \subseteq ledger'[id].anchors
  /\ \A i \in Filed \ {id} : ledger'[i] = ledger[i]
  /\ UNCHANGED durable

MakeDurable == durable' = ledger /\ UNCHANGED ledger

Lose == ledger' = durable /\ UNCHANGED durable

Next ==
  \/ \E id \in Id : File(id) \/ Amend(id)
  \/ MakeDurable \/ Lose

Spec == Init /\ [][Next]_vars
=============================================================================
