---------------------------- MODULE MCLensReview ----------------------------
(***************************************************************************)
(* An instance of LensReview for TLC: a review of two lenses by two        *)
(* models, of which the second runs the general lens only.                 *)
(***************************************************************************)
EXTENDS LensReview, TLC

CONSTANTS l1, general, a, b, k1, k2

Slate == {l1, general}
Models == {a, b}
Second == {b}
Keys == {k1, k2}

\* Evidence is only compared: no action tells one key from another.
KeySymmetry == Permutations(Keys)
=============================================================================
