--------------------------- MODULE MCProgressSync ---------------------------
(* Small instances of ProgressSync for TLC. *)
EXTENDS ProgressSync, TLC

CONSTANTS t1, t2, c1, c2, r1, r2, h1, h2, w1, w2

\* Names that the specification treats alike may be swapped in a safety run.
Symmetry == Permutations(Challenges) \cup Permutations(Handlers) \cup Permutations(Workers)
              \cup Permutations(Teams)

=============================================================================
