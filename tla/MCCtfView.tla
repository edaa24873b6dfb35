----------------------------- MODULE MCCtfView -----------------------------
(***************************************************************************)
(* TLC instances of CtfView.                                               *)
(***************************************************************************)
EXTENDS CtfView

\* The second key is the easier challenge.
MCDifficulty == <<2, 1>>
====
