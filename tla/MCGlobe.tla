------------------------------ MODULE MCGlobe ------------------------------
(***************************************************************************)
(* TLC instances of Globe.                                                 *)
(***************************************************************************)
EXTENDS Globe

\* Two countries were solved first by teams with the same pattern.
MCPattern == [c \in Countries |-> IF c = 3 THEN "b" ELSE "a"]
====
