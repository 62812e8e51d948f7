-------------------------- MODULE MCStagedChanges --------------------------
(***************************************************************************)
(* Small workflows for TLC, with the shapes of the shipped ones. File 1 is *)
(* a source file, 2 the scratch file, 3 and 4 are files of a finding that  *)
(* is outside the workspace.                                               *)
(***************************************************************************)
EXTENDS StagedChanges, TLC

CONSTANTS l1, l2

\* A step after those in deps.
Plain(deps) ==
  [deps |-> deps, reaper |-> FALSE, lenses |-> {}, reads |-> {}, writes |-> {},
   artifacts |-> FALSE, builds |-> FALSE, eval |-> "none", target |-> 1, attempts |-> 1]

\* write-patch of fix.json, the commit, and the review that sends the work back.
Fix == <<
  [Plain({}) EXCEPT !.reads = {1}, !.writes = {1, 2}],
  [Plain({1}) EXCEPT !.reaper = TRUE],
  [Plain({2}) EXCEPT !.eval = "branch_to", !.target = 1, !.attempts = 2]>>

\* validate-claims, validate-reachability and a refuter of validate.json.
Validate == <<
  [Plain({}) EXCEPT !.reads = {1, 3}],
  [Plain({1}) EXCEPT !.writes = {3, 4}, !.artifacts = TRUE, !.eval = "repeat", !.attempts = 2],
  [Plain({2}) EXCEPT !.eval = "branch_to", !.target = 2, !.attempts = 2]>>

\* Two lenses that write, a step that builds, and one more.
Lenses == <<
  [Plain({}) EXCEPT !.lenses = {l1, l2}, !.reads = {1}, !.writes = {1}, !.eval = "repeat",
                    !.attempts = 2],
  [Plain({1}) EXCEPT !.builds = TRUE, !.reads = {1}],
  Plain({2})>>

\* Fix with write-commit-message, to which the review sends the work back.
Message == <<
  [Plain({}) EXCEPT !.writes = {1}],
  [Plain({1}) EXCEPT !.reads = {Git}, !.writes = {2}],
  [Plain({2}) EXCEPT !.reaper = TRUE],
  [Plain({3}) EXCEPT !.eval = "branch_to", !.target = 2, !.attempts = 2]>>

Shapes         == {Fix, Validate, Lenses}
LensShapes     == {Lenses}
ValidateShapes == {Validate}
MessageShapes  == {Message}

LensSymmetry == Permutations(Lens)
=============================================================================
