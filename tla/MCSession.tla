----------------------------- MODULE MCSession -----------------------------
(***************************************************************************)
(* An instance of Session for TLC: one row to review, one row to code, and *)
(* a row that only follow-ups create; two tasks at a time.                 *)
(***************************************************************************)
EXTENDS Session

CONSTANTS r1, r2, r3

LeadSets == {{}, {r3}}

Line(turns, exitOnIdle, goals, follow, lenses) ==
  [turns |-> turns, exitOnIdle |-> exitOnIdle, goals |-> goals, follow |-> follow,
   lenses |-> lenses]

\* A review under --follow with a cap, one with a cap of one run, one under --follow
\* without cap or goal agent, and a session somebody watches, with a cap.
Lines == {Line(2, TRUE, TRUE, TRUE, TRUE), Line(1, TRUE, TRUE, FALSE, TRUE),
          Line(0, TRUE, FALSE, TRUE, TRUE), Line(1, FALSE, FALSE, FALSE, FALSE)}

\* A piped review.
Piped == {Line(0, TRUE, TRUE, FALSE, TRUE)}
=============================================================================
