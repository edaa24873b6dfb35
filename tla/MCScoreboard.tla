----------------------------- MODULE MCScoreboard -----------------------------
(* Instances of Scoreboard for TLC. *)
EXTENDS Scoreboard

\* A hard challenge is worth twice an easy one.
MCDifficulty == [c \in Challenges |-> IF c = "hard" THEN 2 ELSE 1]

New == [progress |-> {}, ready |-> TRUE]
Solver == [New EXCEPT !.progress = {[key |-> "easy", solvedAt |-> 1]}]

\* Nobody is there yet; or one team has solved the easy challenge, and another has
\* too or is about to, so that ties come about and are broken by a third.
MCInitial == {<<Absent, Absent, Absent>>, <<Solver, Solver, Absent>>, <<Solver, New, Absent>>}

===============================================================================
