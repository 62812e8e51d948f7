----------------------------- MODULE MCFindings -----------------------------
(***************************************************************************)
(* An instance of Findings for TLC. x and y are two defects in one place   *)
(* whose ids share half of their tokens: they are told apart while their   *)
(* titles are short, and no more once one of them has the long title. x2   *)
(* is what the promoter renames x to.                                      *)
(***************************************************************************)
EXTENDS Findings, TLC

CONSTANTS x, y, x2, here, there, why, q

Ids      == {x, y, x2}
Renaming == [i \in Ids |-> IF i = x THEN <<x2>> ELSE <<>>]
Titles   == {"", "short", "long"}
Lengths  == [s \in Titles |-> IF s = "" THEN 0 ELSE IF s = "short" THEN 1 ELSE 2]
Words    == [i \in Ids |-> IF i = x THEN {1, 2} ELSE IF i = y THEN {1, 3} ELSE {1, 2, 4}]
TitleWords == [s \in Titles |-> IF s = "long" THEN {1, 2, 3} ELSE {}]

Wire(id, title, severity, status, anchors) ==
  [id |-> id, title |-> title, summary |-> Lengths[title], severity |-> severity,
   status |-> status, basis |-> NoBasis, anchors |-> anchors, open |-> {}, resolved |-> {},
   reactivate |-> FALSE]

FileX    == [Wire(x, "short", 1, "active", {here}) EXCEPT !.open = {q}]
FileXMore == Wire(x, "long", 0, "active", {here, there})
FileY    == Wire(y, "short", 2, "unconfirmed", {here})
RetiredY == Wire(y, "short", 0, "invalidated", {there})
Retire   == [Wire(x, "", 0, "invalidated", {}) EXCEPT !.basis = why]
Baseless == Wire(x, "", 0, "invalidated", {there})
Doubt    == Wire(x, "", 0, "unconfirmed", {})
Reopen   == [Wire(x, "", 0, "active", {}) EXCEPT !.reactivate = TRUE]
More     == [Wire(x, "", 2, "active", {there}) EXCEPT !.resolved = {q}]

Deltas == {<<FileX>>, <<FileXMore, FileY>>, <<FileY>>, <<RetiredY, FileX>>, <<Retire>>,
           <<Baseless, FileY>>, <<Doubt>>, <<More>>}
Promoted == {FileX, Reopen}

TaskSymmetry == Permutations(Task)
=============================================================================
