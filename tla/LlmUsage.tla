------------------------------- MODULE LlmUsage -------------------------------
(***************************************************************************)
(* How the tokens that teams use at the LLM gateway reach the annotations  *)
(* of their deployments.                                                   *)
(*                                                                         *)
(* Each replica adds up what passes through it in a map.  Every ten        *)
(* seconds its flusher takes the map, leaving an empty one, and goes       *)
(* through the teams: read the deployment, add, write the whole object     *)
(* back.  The API server refuses a write from an outdated copy, which is   *)
(* tried again a few times; whatever else fails puts the tokens back into  *)
(* the map.  The other parts of MultiJuicer patch other annotations of the *)
(* same object meanwhile.                                                  *)
(***************************************************************************)
EXTENDS Integers

CONSTANTS
    Teams,          \* names of teams
    Replicas,       \* the MultiJuicer replicas
    Absent,         \* no deployment
    Nobody,         \* no team
    MaxRetries,     \* how often a write is tried
    MaxTokens,      \* bound: tokens counted
    MaxEdits,       \* bound: patches of other annotations
    MaxCreations,   \* bound: deployments created
    MaxFailures,    \* bound: failed calls
    MaxLostAnswers  \* bound: writes whose answer is lost

ASSUME NamesAssumption ==
    /\ Nobody \notin Teams
    /\ Absent \notin Nat /\ Absent \notin [tokens : Nat, others : Nat]
ASSUME RetriesAssumption == MaxRetries \in Nat \ {0}
ASSUME BoundsAssumption ==
    /\ MaxTokens \in Nat /\ MaxEdits \in Nat /\ MaxCreations \in Nat
    /\ MaxFailures \in Nat /\ MaxLostAnswers \in Nat

VARIABLES
    deployment, \* deployment[t]: tokens and other annotations, or Absent
    usage,      \* usage[r][t]: tokens r has added up since its last flush
    work,       \* work[r]: the flush of replica r
    stale,      \* the replicas whose copy of a deployment is outdated
    budget      \* how much of each bound is used up

vars == <<deployment, usage, work, stale, budget>>

-----------------------------------------------------------------------------
\* The other annotations are told apart by how often they were patched.
Deployment == [tokens : Nat, others : Nat]

Nothing == [t \in Teams |-> 0]

\* The tokens taken from the map, the team being written (Nobody: between two
\* teams), how often that was tried and the copy read (Absent: none yet).
Flush == [pending : [Teams -> Nat], team : Teams \cup {Nobody},
          attempt : 0 .. MaxRetries - 1, seen : Deployment \cup {Absent}]

IdleFlush == [pending |-> Nothing, team |-> Nobody, attempt |-> 0, seen |-> Absent]

Bounds == {"tokens", "edits", "creations", "failures", "lostAnswers"}

Spend(what, limit) == budget[what] < limit /\ budget' = [budget EXCEPT ![what] = @ + 1]

\* The replicas that are about to write a copy of t.
Holding(t) == {r \in Replicas : work[r].team = t /\ work[r].seen # Absent}

Init ==
    /\ deployment = [t \in Teams |-> Absent]
    /\ usage = [r \in Replicas |-> Nothing]
    /\ work = [r \in Replicas |-> IdleFlush]
    /\ stale = {}
    /\ budget = [b \in Bounds |-> 0]

-----------------------------------------------------------------------------
\* A completed chat is counted, also for a team that has gone meanwhile.
Add(r, t) ==
    /\ Spend("tokens", MaxTokens)
    /\ usage' = [usage EXCEPT ![r][t] = @ + 1]
    /\ UNCHANGED <<deployment, work, stale>>

\* Mutant: the map is read but not replaced.
StartFlushCopy(r) ==
    /\ work[r] = IdleFlush /\ usage[r] # Nothing
    /\ work' = [work EXCEPT ![r] = [IdleFlush EXCEPT !.pending = usage[r]]]
    /\ UNCHANGED <<deployment, usage, stale, budget>>

StartFlush(r) ==
    /\ work[r] = IdleFlush /\ usage[r] # Nothing
    /\ work' = [work EXCEPT ![r] = [IdleFlush EXCEPT !.pending = usage[r]]]
    /\ usage' = [usage EXCEPT ![r] = Nothing]
    /\ UNCHANGED <<deployment, stale, budget>>

\* The flush of r is at team t, for this attempt with this copy.
Try(r, t, attempt, seen) ==
    work' = [work EXCEPT ![r] = [pending |-> @.pending, team |-> t,
                                 attempt |-> attempt, seen |-> seen]]

\* The flush of r goes on to the next team.
Finish(r, t) ==
    work' = [work EXCEPT ![r] = [IdleFlush EXCEPT
                !.pending = [work[r].pending EXCEPT ![t] = 0]]]

\* Mutant: the first failure ends the flush.
PutBackAll(r, t) ==
    /\ usage' = [usage EXCEPT ![r] = [u \in Teams |-> @[u] + work[r].pending[u]]]
    /\ work' = [work EXCEPT ![r] = IdleFlush]

\* The flush gives t up for this time.
PutBack(r, t) ==
    /\ usage' = [usage EXCEPT ![r][t] = @ + work[r].pending[t]]
    /\ Finish(r, t)

\* The map is gone through in no particular order.
GetDeployment(r, t) ==
    /\ work[r].team \in {Nobody, t} /\ work[r].seen = Absent /\ work[r].pending[t] > 0
    /\ \/ /\ deployment[t] # Absent
          /\ Try(r, t, work[r].attempt, deployment[t])
          /\ UNCHANGED <<usage, budget>>
       \/ PutBack(r, t) /\ \/ deployment[t] = Absent /\ UNCHANGED budget
                           \/ Spend("failures", MaxFailures)
    /\ UNCHANGED <<deployment, stale>>

\* Mutant: the copy is not compared with the object.
WriteAnyway(r, t) ==
    /\ deployment[t] # Absent
    /\ deployment' = [deployment EXCEPT ![t] =
           [work[r].seen EXCEPT !.tokens = @ + work[r].pending[t]]]
    /\ stale' = (stale \cup Holding(t)) \ {r}

\* The server takes a whole object that was read from its latest version.
Write(r, t) ==
    /\ r \notin stale
    /\ deployment' = [deployment EXCEPT ![t] =
           [work[r].seen EXCEPT !.tokens = @ + work[r].pending[t]]]
    /\ stale' = (stale \cup Holding(t)) \ {r}

\* The tokens are booked, but when the answer is lost they are put back too.
UpdateDeployment(r, t) ==
    /\ work[r].team = t /\ work[r].seen # Absent
    /\ Write(r, t)
    /\ \/ Finish(r, t) /\ UNCHANGED <<usage, budget>>
       \/ PutBack(r, t) /\ Spend("lostAnswers", MaxLostAnswers)

\* Mutant: one try too many.
RetryOnceMore(r, t) ==
    /\ work[r].attempt < MaxRetries
    /\ Try(r, t, work[r].attempt + 1, Absent)
    /\ UNCHANGED usage

Retry(r, t) ==
    \/ /\ work[r].attempt + 1 < MaxRetries
       /\ Try(r, t, work[r].attempt + 1, Absent)
       /\ UNCHANGED usage
    \/ work[r].attempt + 1 = MaxRetries /\ PutBack(r, t)

\* A conflict is tried again; a deployment that has gone, or a call that
\* fails otherwise, is not.
UpdateFails(r, t) ==
    /\ work[r].team = t /\ work[r].seen # Absent
    /\ \/ r \in stale /\ deployment[t] # Absent /\ Retry(r, t) /\ UNCHANGED budget
       \/ deployment[t] = Absent /\ PutBack(r, t) /\ UNCHANGED budget
       \/ PutBack(r, t) /\ Spend("failures", MaxFailures)
    /\ stale' = stale \ {r}
    /\ UNCHANGED deployment

\* A replica dies, or is shut down: the context its flusher waits for is never
\* cancelled.
Crash(r) ==
    /\ usage' = [usage EXCEPT ![r] = Nothing]
    /\ work' = [work EXCEPT ![r] = IdleFlush]
    /\ stale' = stale \ {r}
    /\ UNCHANGED <<deployment, budget>>

-----------------------------------------------------------------------------
(* The deployments change under the flusher.                               *)

PatchOthers(t) ==
    /\ deployment[t] # Absent
    /\ Spend("edits", MaxEdits)
    /\ deployment' = [deployment EXCEPT ![t].others = @ + 1]
    /\ stale' = stale \cup Holding(t)
    /\ UNCHANGED <<usage, work>>

CreateDeployment(t) ==
    /\ deployment[t] = Absent
    /\ Spend("creations", MaxCreations)
    /\ deployment' = [deployment EXCEPT ![t] = [tokens |-> 0, others |-> 0]]
    /\ UNCHANGED <<usage, work, stale>>

DeleteDeployment(t) ==
    /\ deployment[t] # Absent
    /\ deployment' = [deployment EXCEPT ![t] = Absent]
    /\ stale' = stale \cup Holding(t)
    /\ UNCHANGED <<usage, work, budget>>

-----------------------------------------------------------------------------
FlushStep(r) ==
    \/ StartFlush(r)
    \/ \E t \in Teams : GetDeployment(r, t) \/ UpdateDeployment(r, t) \/ UpdateFails(r, t)

Next ==
    \/ \E r \in Replicas : FlushStep(r) \/ Crash(r) \/ \E t \in Teams : Add(r, t)
    \/ \E t \in Teams : PatchOthers(t) \/ CreateDeployment(t) \/ DeleteDeployment(t)

Spec == Init /\ [][Next]_vars

\* The flusher's ticker never stops.
FairSpec == Spec /\ \A r \in Replicas : WF_vars(FlushStep(r))

-----------------------------------------------------------------------------
(* What must be true.                                                      *)

FlushOK ==
    /\ usage \in [Replicas -> [Teams -> Nat]]
    /\ work \in [Replicas -> Flush]

\* Every variable holds a value of the kind the code keeps in it.
TypeOK ==
    /\ deployment \in [Teams -> Deployment \cup {Absent}]
    /\ FlushOK
    /\ stale \subseteq Replicas
    /\ budget \in [Bounds -> Nat]

Memory == [r \in Replicas |-> [t \in Teams |-> usage[r][t] + work[r].pending[t]]]
Recorded == [t \in Teams |-> IF deployment[t] = Absent THEN Absent ELSE deployment[t].tokens]

Ledger == INSTANCE TokenLedger WITH
    memory <- Memory, recorded <- Recorded, doubts <- budget["lostAnswers"]

\* No token is lost or booked twice, whatever overlaps, conflicts and fails,
\* except by the death of the replica that holds it and by a lost answer.
KeepsTheLedger == Ledger!Spec

\* Writing the whole object back never undoes what others wrote into it since
\* it was read.
OtherAnnotationsSurvive ==
    [][\A t \in Teams : deployment[t] # Absent /\ deployment'[t] # Absent =>
          deployment'[t].others >= deployment[t].others]_deployment

\* Once nothing else happens any more every token of a team that is there gets
\* booked, also when others are not.
FlushedInTheEnd ==
    <>[](\A r \in Replicas, t \in Teams : deployment[t] # Absent => Memory[r][t] = 0)

=============================================================================
