------------------------------ MODULE TokenLedger ------------------------------
(***************************************************************************)
(* What the accounting of LLM tokens promises: a token a replica has       *)
(* counted stays in its memory until it is booked on the team's            *)
(* deployment, once; it is lost only with the replica.  A booking whose    *)
(* answer got lost may be repeated: each such doubt is counted.            *)
(***************************************************************************)
EXTENDS Integers

CONSTANTS Teams, Replicas, Absent

VARIABLES
    memory,     \* memory[r][t]: tokens r has counted for t and still holds
    recorded,   \* recorded[t]: tokens booked on the deployment of t, or Absent
    doubts      \* how many bookings may be repeated

vars == <<memory, recorded, doubts>>

Init ==
    /\ memory = [r \in Replicas |-> [t \in Teams |-> 0]]
    /\ recorded = [t \in Teams |-> Absent]
    /\ doubts = 0

Count(r, t) ==
    /\ memory' = [memory EXCEPT ![r][t] = @ + 1]
    /\ UNCHANGED <<recorded, doubts>>

Book(r, t) ==
    /\ recorded[t] # Absent
    /\ \E n \in 1 .. memory[r][t] :
          /\ recorded' = [recorded EXCEPT ![t] = @ + n]
          /\ \/ memory' = [memory EXCEPT ![r][t] = @ - n] /\ doubts' = doubts
             \/ memory' = memory /\ doubts' = doubts + 1

Forget(r) ==
    /\ memory' = [memory EXCEPT ![r] = [t \in Teams |-> 0]]
    /\ UNCHANGED <<recorded, doubts>>

\* The deployment of a team goes, with all it recorded, or a new one comes.
Open(t) == recorded[t] = Absent /\ recorded' = [recorded EXCEPT ![t] = 0]
Close(t) == recorded' = [recorded EXCEPT ![t] = Absent]

Next ==
    \/ \E r \in Replicas, t \in Teams : Count(r, t) \/ Book(r, t)
    \/ \E r \in Replicas : Forget(r)
    \/ \E t \in Teams : (Open(t) \/ Close(t)) /\ UNCHANGED <<memory, doubts>>

Spec == Init /\ [][Next]_vars

=============================================================================
