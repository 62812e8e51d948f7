--------------------------- MODULE MCWorkflowExec ---------------------------
(***************************************************************************)
(* Small workflows for TLC, with the shapes of the shipped ones.           *)
(***************************************************************************)
EXTENDS WorkflowExec, TLC

\* A step without eval after those in deps.
Plain(deps) ==
  [deps |-> deps, kind |-> "llm", conditional |-> FALSE, preserve |-> FALSE, terminal |-> FALSE,
   action |-> "none", attempts |-> 1, exhaust |-> "exit_failure", targets |-> {}, rerun |-> {}]

\* fix.json: the patch and its review can fail, which calls the orchestrator; that
\* sends the work back, or on to the last step. The executor runs the lenses.
Fix == <<
  [Plain({}) EXCEPT !.action = "branch_to", !.attempts = 2, !.targets = {3}],
  [Plain({1}) EXCEPT !.kind = "lensed", !.action = "branch_to", !.attempts = 2, !.targets = {3}],
  [Plain({2}) EXCEPT !.conditional = TRUE, !.action = "branch_to", !.attempts = 2, !.targets = {1, 4}],
  [Plain({2}) EXCEPT !.conditional = TRUE, !.kind = "reaper"]>>

\* validate.json: two refuters of one claim, which send it back.
Validate == <<
  [Plain({}) EXCEPT !.action = "repeat", !.attempts = 2],
  [Plain({1}) EXCEPT !.conditional = TRUE, !.action = "branch_to", !.attempts = 2, !.exhaust = "continue", !.targets = {1}],
  [Plain({1}) EXCEPT !.conditional = TRUE, !.action = "branch_to", !.attempts = 2, !.exhaust = "continue", !.targets = {1}],
  [Plain({2, 3}) EXCEPT !.kind = "reaper", !.terminal = TRUE]>>

\* The rest of what a workflow may say.
Other == <<
  [Plain({}) EXCEPT !.conditional = TRUE, !.preserve = TRUE],
  [Plain({1}) EXCEPT !.action = "rerun_chain", !.attempts = 2, !.exhaust = "branch_to", !.targets = {1}, !.rerun = {1}],
  [Plain({}) EXCEPT !.action = "continue"],
  [Plain({3}) EXCEPT !.kind = "shared", !.action = "exit_failure", !.attempts = 2]>>

\* A chain, whose last step sends control back to the first.
Chain == <<
  Plain({}), Plain({1}), [Plain({2}) EXCEPT !.conditional = TRUE, !.preserve = TRUE],
  [Plain({3}) EXCEPT !.action = "branch_to", !.attempts = 2, !.targets = {1}]>>

\* Two steps that wait for each other, and lenses without eval.
Cycle == <<Plain({}), Plain({3}), Plain({2}), [Plain({}) EXCEPT !.kind = "lensed"]>>

Shapes == {Fix, Validate, Other, Chain, Cycle}
=============================================================================
