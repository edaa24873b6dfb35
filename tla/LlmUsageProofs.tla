---------------------------- MODULE LlmUsageProofs ----------------------------
(* Proofs about LlmUsage, for all values of its constants. *)
EXTENDS LlmUsage, TLAPS

\* A record of flush work is well-typed when its fields are.
LEMMA FlushFields ==
    ASSUME NEW p \in [Teams -> Nat], NEW t \in Teams \cup {Nobody},
           NEW a \in 0 .. MaxRetries - 1, NEW s \in Deployment \cup {Absent}
    PROVE  [pending |-> p, team |-> t, attempt |-> a, seen |-> s] \in Flush
BY DEF Flush

\* An idle flush is well-typed.
LEMMA IdleIsFlush == IdleFlush \in Flush /\ Nothing \in [Teams -> Nat]
<1>1. Nothing \in [Teams -> Nat]
  BY DEF Nothing
<1>2. 0 \in 0 .. MaxRetries - 1
  BY RetriesAssumption
<1>. QED
  BY <1>1, <1>2, FlushFields DEF IdleFlush

\* Spending one of a budget keeps it a budget.
LEMMA SpendOK ==
    ASSUME budget \in [Bounds -> Nat], NEW b \in Bounds, NEW n, Spend(b, n)
    PROVE  budget' \in [Bounds -> Nat]
BY DEF Spend

\* Finishing a team keeps the flush work well-typed.
LEMMA FinishOK ==
    ASSUME FlushOK, NEW r \in Replicas, NEW t \in Teams, Finish(r, t)
    PROVE  work' \in [Replicas -> Flush]
<1>. DEFINE p == [work[r].pending EXCEPT ![t] = 0]
<1>1. p \in [Teams -> Nat]
  BY DEF FlushOK, Flush
<1>2. [IdleFlush EXCEPT !.pending = p] = [pending |-> p, team |-> Nobody, attempt |-> 0, seen |-> Absent]
  BY DEF IdleFlush
<1>3. 0 \in 0 .. MaxRetries - 1
  BY RetriesAssumption
<1>4. [IdleFlush EXCEPT !.pending = p] \in Flush
  BY <1>1, <1>2, <1>3, FlushFields
<1>. HIDE DEF p
<1>5. work' = [work EXCEPT ![r] = [IdleFlush EXCEPT !.pending = p]]
  BY DEF Finish, p
<1>. QED
  BY <1>4, <1>5 DEF FlushOK

\* So does giving it up.
LEMMA PutBackOK ==
    ASSUME FlushOK, NEW r \in Replicas, NEW t \in Teams, PutBack(r, t)
    PROVE  FlushOK'
<1>1. work' \in [Replicas -> Flush]
  BY FinishOK DEF PutBack
<1>2. usage' \in [Replicas -> [Teams -> Nat]]
  BY DEF PutBack, FlushOK, Flush
<1>. QED
  BY <1>1, <1>2 DEF FlushOK

\* And so does going on with a copy and an attempt that are.
LEMMA TryOK ==
    ASSUME FlushOK, NEW r \in Replicas, NEW t \in Teams, NEW a \in 0 .. MaxRetries - 1,
           NEW s \in Deployment \cup {Absent}, Try(r, t, a, s)
    PROVE  work' \in [Replicas -> Flush]
<1>. DEFINE w == [pending |-> work[r].pending, team |-> t, attempt |-> a, seen |-> s]
<1>1. w \in Flush
  BY DEF FlushOK, Flush
<1>2. work' = [work EXCEPT ![r] = w]
  BY DEF Try
<1>. HIDE DEF w
<1>. QED
  BY <1>1, <1>2 DEF FlushOK

\* And so does trying again.
LEMMA RetryOK ==
    ASSUME FlushOK, NEW r \in Replicas, NEW t \in Teams, Retry(r, t)
    PROVE  FlushOK'
<1>1. CASE PutBack(r, t)
  BY <1>1, PutBackOK
<1>2. CASE /\ work[r].attempt + 1 < MaxRetries
           /\ Try(r, t, work[r].attempt + 1, Absent)
           /\ UNCHANGED usage
  <2>1. work[r].attempt + 1 \in 0 .. MaxRetries - 1
    BY <1>2, RetriesAssumption DEF FlushOK, Flush
  <2>2. work' \in [Replicas -> Flush]
    BY <1>2, <2>1, TryOK
  <2>. QED
    BY <1>2, <2>2 DEF FlushOK
<1>. QED
  BY <1>1, <1>2 DEF Retry

\* The initial state and every step keep the variables well-typed.
LEMMA TypeInit == Init => TypeOK
<1>. SUFFICES ASSUME Init
              PROVE  TypeOK
  OBVIOUS
<1>1. FlushOK
  BY IdleIsFlush DEF Init, FlushOK
<1>2. budget \in [Bounds -> Nat]
  BY DEF Init
<1>. QED
  BY <1>1, <1>2 DEF Init, TypeOK

LEMMA TypeStep == TypeOK /\ [Next]_vars => TypeOK'
<1>. SUFFICES ASSUME TypeOK, [Next]_vars
              PROVE  TypeOK'
  OBVIOUS
<1>. USE DEF TypeOK
<1>1. ASSUME NEW r \in Replicas, StartFlush(r)
      PROVE  TypeOK'
  <2>. DEFINE w == [IdleFlush EXCEPT !.pending = usage[r]]
  <2>1. w = [pending |-> usage[r], team |-> Nobody, attempt |-> 0, seen |-> Absent]
    BY DEF IdleFlush
  <2>2. usage[r] \in [Teams -> Nat] /\ 0 \in 0 .. MaxRetries - 1
    BY RetriesAssumption DEF FlushOK
  <2>3. w \in Flush
    BY <2>1, <2>2, FlushFields
  <2>. HIDE DEF w
  <2>4. work' = [work EXCEPT ![r] = w]
    BY <1>1 DEF StartFlush, w
  <2>. QED
    BY <1>1, <2>3, <2>4, IdleIsFlush DEF StartFlush, FlushOK
<1>2. ASSUME NEW r \in Replicas, NEW t \in Teams, GetDeployment(r, t)
      PROVE  TypeOK'
  <2>1. CASE /\ deployment[t] # Absent
             /\ Try(r, t, work[r].attempt, deployment[t])
             /\ UNCHANGED <<usage, budget>>
    <3>1. work[r].attempt \in 0 .. MaxRetries - 1
      BY DEF FlushOK, Flush
    <3>2. work' \in [Replicas -> Flush]
      BY <2>1, <3>1, TryOK
    <3>. QED
      BY <1>2, <2>1, <3>2 DEF GetDeployment, FlushOK
  <2>2. CASE PutBack(r, t) /\ (UNCHANGED budget \/ Spend("failures", MaxFailures))
    <3>1. budget' \in [Bounds -> Nat]
      BY <2>2, SpendOK DEF Bounds
    <3>. QED
      BY <1>2, <2>2, <3>1, PutBackOK DEF GetDeployment
  <2>. QED
    BY <1>2, <2>1, <2>2 DEF GetDeployment
<1>3. ASSUME NEW r \in Replicas, NEW t \in Teams, UpdateDeployment(r, t)
      PROVE  TypeOK'
  <2>1. FlushOK'
    BY <1>3, FinishOK, PutBackOK DEF UpdateDeployment, FlushOK
  <2>2. budget' \in [Bounds -> Nat]
    BY <1>3, SpendOK DEF UpdateDeployment, Bounds
  <2>. DEFINE d == [tokens |-> work[r].seen.tokens + work[r].pending[t], others |-> work[r].seen.others]
  <2>3. work[r].seen \in Deployment /\ work[r].pending[t] \in Nat
    BY <1>3 DEF UpdateDeployment, FlushOK, Flush
  <2>4. d \in Deployment /\ [work[r].seen EXCEPT !.tokens = @ + work[r].pending[t]] = d
    BY <2>3 DEF Deployment
  <2>5. deployment' = [deployment EXCEPT ![t] = d]
    BY <1>3, <2>4 DEF UpdateDeployment, Write
  <2>. HIDE DEF d
  <2>6. deployment' \in [Teams -> Deployment \cup {Absent}]
    BY <2>4, <2>5
  <2>7. stale' \subseteq Replicas
    BY <1>3 DEF UpdateDeployment, Write, Holding
  <2>. QED
    BY <2>1, <2>2, <2>6, <2>7
<1>4. ASSUME NEW r \in Replicas, NEW t \in Teams, UpdateFails(r, t)
      PROVE  TypeOK'
  <2>1. FlushOK'
    BY <1>4, PutBackOK, RetryOK DEF UpdateFails
  <2>2. budget' \in [Bounds -> Nat]
    BY <1>4, SpendOK DEF UpdateFails, Bounds
  <2>. QED
    BY <1>4, <2>1, <2>2 DEF UpdateFails
<1>5. ASSUME NEW r \in Replicas, Crash(r)
      PROVE  TypeOK'
  BY <1>5, IdleIsFlush DEF Crash, FlushOK
<1>6. ASSUME NEW r \in Replicas, NEW t \in Teams, Add(r, t)
      PROVE  TypeOK'
  <2>1. budget' \in [Bounds -> Nat]
    BY <1>6, SpendOK DEF Add, Bounds
  <2>. QED
    BY <1>6, <2>1 DEF Add, FlushOK
<1>7. ASSUME NEW t \in Teams, PatchOthers(t)
      PROVE  TypeOK'
  <2>1. budget' \in [Bounds -> Nat]
    BY <1>7, SpendOK DEF PatchOthers, Bounds
  <2>2. deployment' \in [Teams -> Deployment \cup {Absent}]
    BY <1>7 DEF PatchOthers, Deployment
  <2>. QED
    BY <1>7, <2>1, <2>2 DEF PatchOthers, FlushOK, Holding
<1>8. ASSUME NEW t \in Teams, CreateDeployment(t)
      PROVE  TypeOK'
  <2>1. budget' \in [Bounds -> Nat]
    BY <1>8, SpendOK DEF CreateDeployment, Bounds
  <2>2. deployment' \in [Teams -> Deployment \cup {Absent}]
    BY <1>8 DEF CreateDeployment, Deployment
  <2>. QED
    BY <1>8, <2>1, <2>2 DEF CreateDeployment, FlushOK
<1>9. ASSUME NEW t \in Teams, DeleteDeployment(t)
      PROVE  TypeOK'
  BY <1>9 DEF DeleteDeployment, FlushOK, Holding
<1>10. CASE UNCHANGED vars
  BY <1>10 DEF vars, FlushOK
<1>. QED
  BY <1>1, <1>2, <1>3, <1>4, <1>5, <1>6, <1>7, <1>8, <1>9, <1>10 DEF Next, FlushStep

\* Type correctness of LlmUsage (usage.go): among others, a write is tried no
\* more often than maxRetries.
THEOREM TypeCorrect == Spec => []TypeOK
BY TypeInit, TypeStep, PTL DEF Spec

(***************************************************************************)
(* The copy a replica is about to write is of a team with tokens to book,  *)
(* and unless it is known to be outdated it is what the server has.        *)
(***************************************************************************)
CopyOf(r) ==
    /\ work[r].team \in Teams
    /\ work[r].pending[work[r].team] > 0
    /\ r \notin stale => deployment[work[r].team] = work[r].seen

CopyInv == \A r \in Replicas : work[r].seen # Absent => CopyOf(r)

\* A step that leaves a replica's flush alone and makes its copy outdated when
\* it touches the deployment keeps what is known of that copy.
LEMMA OthersCopy ==
    ASSUME CopyInv, NEW q \in Replicas, NEW t \in Teams,
           work'[q] = work[q],
           \A u \in Teams \ {t} : deployment'[u] = deployment[u],
           q \in stale => q \in stale',
           q \in Holding(t) => q \in stale' \/ deployment'[t] = deployment[t]
    PROVE  (work[q].seen # Absent => CopyOf(q))'
BY DEF CopyInv, CopyOf, Holding

\* A flush with no copy has nothing to be current.
LEMMA NoCopy ==
    ASSUME NEW q \in Replicas, work'[q].seen = Absent
    PROVE  (work[q].seen # Absent => CopyOf(q))'
OBVIOUS

\* After Finish, and so after PutBack, there is no copy, and the other
\* replicas' flushes are as they were.
LEMMA FinishDrops ==
    ASSUME FlushOK, NEW r \in Replicas, NEW t, Finish(r, t)
    PROVE  work'[r].seen = Absent /\ \A q \in Replicas \ {r} : work'[q] = work[q]
BY DEF Finish, IdleFlush, FlushOK

\* The invariant holds at the start and is kept.
LEMMA CopyInit == Init => CopyInv
BY DEF Init, CopyInv, IdleFlush

LEMMA CopyStep == TypeOK /\ CopyInv /\ [Next]_vars => CopyInv'
<1>. SUFFICES ASSUME TypeOK, CopyInv, [Next]_vars,
                     NEW q \in Replicas
              PROVE  (work[q].seen # Absent => CopyOf(q))'
  BY DEF CopyInv
<1>0. FlushOK
  BY DEF TypeOK
<1>1. ASSUME NEW r \in Replicas, StartFlush(r)
      PROVE  (work[q].seen # Absent => CopyOf(q))'
  <2>1. CASE q = r
    <3>1. work'[q].seen = Absent
      BY <1>0, <1>1, <2>1 DEF StartFlush, IdleFlush, FlushOK
    <3>. QED
      BY <3>1, NoCopy
  <2>2. CASE q # r
    <3>1. work'[q] = work[q] /\ UNCHANGED <<deployment, stale>>
      BY <1>0, <1>1, <2>2 DEF StartFlush, FlushOK
    <3>. QED
      BY <3>1 DEF CopyInv, CopyOf
  <2>. QED
    BY <2>1, <2>2
<1>2. ASSUME NEW r \in Replicas, NEW t \in Teams, GetDeployment(r, t)
      PROVE  (work[q].seen # Absent => CopyOf(q))'
  <2>1. CASE q # r
    <3>1. work'[q] = work[q]
      BY <1>0, <1>2, <2>1, FinishDrops DEF GetDeployment, Try, PutBack, FlushOK
    <3>. QED
      BY <1>2, <3>1 DEF GetDeployment, CopyInv, CopyOf
  <2>2. CASE q = r /\ Try(r, t, work[r].attempt, deployment[t])
    <3>1. work'[q] = [pending |-> work[r].pending, team |-> t,
                      attempt |-> work[r].attempt, seen |-> deployment[t]]
      BY <1>0, <2>2 DEF Try, FlushOK
    <3>. QED
      BY <1>2, <2>2, <3>1 DEF GetDeployment, CopyOf
  <2>3. CASE q = r /\ PutBack(r, t)
    <3>1. work'[q].seen = Absent
      BY <1>0, <2>3, FinishDrops DEF PutBack
    <3>. QED
      BY <3>1, NoCopy
  <2>. QED
    BY <1>2, <2>1, <2>2, <2>3 DEF GetDeployment
<1>3. ASSUME NEW r \in Replicas, NEW t \in Teams, UpdateDeployment(r, t)
      PROVE  (work[q].seen # Absent => CopyOf(q))'
  <2>1. Finish(r, t)
    BY <1>3 DEF UpdateDeployment, PutBack
  <2>2. CASE q = r
    <3>1. work'[q].seen = Absent
      BY <1>0, <2>1, <2>2, FinishDrops
    <3>. QED
      BY <3>1, NoCopy
  <2>3. CASE q # r
    <3>1. work'[q] = work[q]
      BY <1>0, <2>1, <2>3, FinishDrops
    <3>2. \A u \in Teams \ {t} : deployment'[u] = deployment[u]
      BY <1>3 DEF UpdateDeployment, Write, TypeOK
    <3>3. /\ q \in stale => q \in stale'
          /\ q \in Holding(t) => q \in stale'
      BY <1>3, <2>3 DEF UpdateDeployment, Write
    <3>. QED
      BY <3>1, <3>2, <3>3, OthersCopy
  <2>. QED
    BY <2>2, <2>3
<1>4. ASSUME NEW r \in Replicas, NEW t \in Teams, UpdateFails(r, t)
      PROVE  (work[q].seen # Absent => CopyOf(q))'
  <2>1. /\ work'[r].seen = Absent
        /\ \A p \in Replicas \ {r} : work'[p] = work[p]
    <3>1. CASE PutBack(r, t)
      BY <1>0, <3>1, FinishDrops DEF PutBack
    <3>2. CASE Try(r, t, work[r].attempt + 1, Absent)
      BY <1>0, <3>2 DEF Try, FlushOK
    <3>. QED
      BY <1>4, <3>1, <3>2 DEF UpdateFails, Retry
  <2>2. CASE q = r
    BY <2>1, <2>2, NoCopy
  <2>3. CASE q # r
    BY <1>4, <2>1, <2>3 DEF UpdateFails, CopyInv, CopyOf
  <2>. QED
    BY <2>2, <2>3
<1>5. ASSUME NEW r \in Replicas, Crash(r)
      PROVE  (work[q].seen # Absent => CopyOf(q))'
  <2>1. CASE q = r
    <3>1. work'[q].seen = Absent
      BY <1>0, <1>5, <2>1 DEF Crash, IdleFlush, FlushOK
    <3>. QED
      BY <3>1, NoCopy
  <2>2. CASE q # r
    <3>1. work'[q] = work[q]
      BY <1>0, <1>5, <2>2 DEF Crash, FlushOK
    <3>. QED
      BY <1>5, <2>2, <3>1 DEF Crash, CopyInv, CopyOf
  <2>. QED
    BY <2>1, <2>2
<1>6. ASSUME NEW r \in Replicas, NEW t \in Teams, Add(r, t)
      PROVE  (work[q].seen # Absent => CopyOf(q))'
  BY <1>6 DEF Add, CopyInv, CopyOf
<1>7. ASSUME NEW t \in Teams,
             PatchOthers(t) \/ CreateDeployment(t) \/ DeleteDeployment(t)
      PROVE  (work[q].seen # Absent => CopyOf(q))'
  <2>1. /\ work'[q] = work[q]
        /\ q \in stale => q \in stale'
    BY <1>7 DEF PatchOthers, CreateDeployment, DeleteDeployment
  <2>2. \A u \in Teams \ {t} : deployment'[u] = deployment[u]
    BY <1>7 DEF PatchOthers, CreateDeployment, DeleteDeployment, TypeOK
  <2>3. q \in Holding(t) => q \in stale'
    BY <1>7 DEF PatchOthers, CreateDeployment, DeleteDeployment, Holding, CopyInv, CopyOf
  <2>. QED
    BY <2>1, <2>2, <2>3, OthersCopy
<1>8. CASE UNCHANGED vars
  BY <1>8 DEF vars, CopyInv, CopyOf
<1>. QED
  BY <1>1, <1>2, <1>3, <1>4, <1>5, <1>6, <1>7, <1>8 DEF Next, FlushStep

\* For any number of replicas, teams and conflicts the whole-object update of
\* usage.go loses no annotation that another part of MultiJuicer patched in.
THEOREM AnnotationsSurvive == Spec => OtherAnnotationsSurvive
<1>1. TypeOK /\ CopyInv /\ [Next]_vars =>
        [\A t \in Teams : deployment[t] # Absent /\ deployment'[t] # Absent =>
            deployment'[t].others >= deployment[t].others]_deployment
  <2>. SUFFICES ASSUME TypeOK, CopyInv, [Next]_vars, deployment' # deployment,
                       NEW u \in Teams, deployment[u] # Absent, deployment'[u] # Absent
                PROVE  deployment'[u].others >= deployment[u].others
    OBVIOUS
  <2>. DEFINE Keeps == deployment'[u].others >= deployment[u].others
  <2>0. deployment[u] \in Deployment
    BY DEF TypeOK
  <2>1. deployment'[u] = deployment[u] => Keeps
    BY <2>0 DEF Deployment
  <2>2. ASSUME NEW r \in Replicas, NEW t \in Teams, UpdateDeployment(r, t)
        PROVE  Keeps
    <3>1. CASE u # t
      BY <2>1, <2>2, <3>1 DEF UpdateDeployment, Write, TypeOK
    <3>2. CASE u = t
      <4>1. work[r].seen = deployment[u]
        BY <2>2, <3>2 DEF UpdateDeployment, Write, CopyInv, CopyOf
      <4>2. deployment'[u].others = deployment[u].others
        BY <2>0, <2>2, <3>2, <4>1 DEF UpdateDeployment, Write, TypeOK, Deployment
      <4>. QED
        BY <2>0, <4>2 DEF Deployment
    <3>. QED
      BY <3>1, <3>2
  <2>3. ASSUME NEW t \in Teams, PatchOthers(t)
        PROVE  Keeps
    BY <2>0, <2>1, <2>3 DEF PatchOthers, TypeOK, Deployment
  <2>4. ASSUME NEW t \in Teams, CreateDeployment(t) \/ DeleteDeployment(t)
        PROVE  Keeps
    BY <2>1, <2>4 DEF CreateDeployment, DeleteDeployment, TypeOK
  <2>5. ASSUME NEW r \in Replicas, NEW t \in Teams,
               GetDeployment(r, t) \/ UpdateFails(r, t) \/ StartFlush(r) \/ Crash(r) \/ Add(r, t)
        PROVE  FALSE
    BY <2>5 DEF GetDeployment, UpdateFails, StartFlush, Crash, Add
  <2>. QED
    BY <2>2, <2>3, <2>4, <2>5 DEF Next, FlushStep, vars
<1>. QED
  BY <1>1, TypeInit, TypeStep, CopyInit, CopyStep, PTL DEF Spec, OtherAnnotationsSurvive

(***************************************************************************)
(* Refinement of TokenLedger: taking the map and putting tokens back only  *)
(* moves them within the memory of a replica.                              *)
(***************************************************************************)

\* Two states with the same tokens in each memory have the same Memory.
LEMMA MemoryKept ==
    ASSUME \A r \in Replicas, t \in Teams :
               usage'[r][t] + work'[r].pending[t] = usage[r][t] + work[r].pending[t]
    PROVE  Memory' = Memory
BY DEF Memory

\* And with the same tokens on each deployment the same Recorded.
LEMMA RecordedKept ==
    ASSUME UNCHANGED deployment
    PROVE  Recorded' = Recorded
BY DEF Recorded

\* What finishing and putting back do to the tokens held.
LEMMA FinishTakes ==
    ASSUME FlushOK, NEW r \in Replicas, NEW t \in Teams, Finish(r, t),
           NEW q \in Replicas, NEW u \in Teams
    PROVE  work'[q].pending[u] = IF q = r /\ u = t THEN 0 ELSE work[q].pending[u]
<1>. DEFINE p == [work[r].pending EXCEPT ![t] = 0]
<1>1. p[u] = IF u = t THEN 0 ELSE work[r].pending[u]
  BY DEF FlushOK, Flush
<1>2. [IdleFlush EXCEPT !.pending = p] = [pending |-> p, team |-> Nobody, attempt |-> 0, seen |-> Absent]
  BY DEF IdleFlush
<1>3. [IdleFlush EXCEPT !.pending = p].pending = p
  BY <1>2
<1>4. work' = [work EXCEPT ![r] = [IdleFlush EXCEPT !.pending = p]]
  BY DEF Finish
<1>. HIDE DEF p
<1>5. work'[q] = IF q = r THEN [IdleFlush EXCEPT !.pending = p] ELSE work[q]
  BY <1>4 DEF FlushOK
<1>. QED
  BY <1>1, <1>3, <1>5

LEMMA PutBackKeepsMemory ==
    ASSUME FlushOK, NEW r \in Replicas, NEW t \in Teams, PutBack(r, t)
    PROVE  Memory' = Memory
<1>1. ASSUME NEW q \in Replicas, NEW u \in Teams
      PROVE  usage'[q][u] + work'[q].pending[u] = usage[q][u] + work[q].pending[u]
  <2>1. work'[q].pending[u] = IF q = r /\ u = t THEN 0 ELSE work[q].pending[u]
    BY FinishTakes DEF PutBack
  <2>2. usage'[q][u] = IF q = r /\ u = t THEN usage[q][u] + work[q].pending[u] ELSE usage[q][u]
    BY DEF PutBack, FlushOK
  <2>3. usage[q][u] \in Nat /\ work[q].pending[u] \in Nat
    BY DEF FlushOK, Flush
  <2>. QED
    BY <2>1, <2>2, <2>3
<1>. QED
  BY <1>1, MemoryKept

LEMMA TryKeepsMemory ==
    ASSUME FlushOK, UNCHANGED usage, NEW r \in Replicas, NEW t, NEW a, NEW s, Try(r, t, a, s)
    PROVE  Memory' = Memory
<1>1. ASSUME NEW q \in Replicas
      PROVE  work'[q].pending = work[q].pending
  BY DEF Try, FlushOK
<1>. QED
  BY <1>1, MemoryKept

\* The other bounds are not the ledger's business.
LEMMA SpendOther ==
    ASSUME budget \in [Bounds -> Nat], NEW b \in Bounds \ {"lostAnswers"}, NEW n, Spend(b, n)
    PROVE  budget'["lostAnswers"] = budget["lostAnswers"]
BY DEF Spend, Bounds

LEMMA LedgerInit == Init => Ledger!Init
<1>. SUFFICES ASSUME Init
              PROVE  Ledger!Init
  OBVIOUS
<1>1. budget["lostAnswers"] = 0
  BY DEF Init, Bounds
<1>2. Recorded = [t \in Teams |-> Absent]
  BY DEF Init, Recorded
<1>3. Memory = [r \in Replicas |-> [t \in Teams |-> 0]]
  BY DEF Init, Memory, Nothing, IdleFlush
<1>. QED
  BY <1>1, <1>2, <1>3 DEF Ledger!Init

\* Every step is a step of the ledger or none.
LEMMA LedgerStep == TypeOK /\ CopyInv /\ [Next]_vars => [Ledger!Next]_(Ledger!vars)
<1>. SUFFICES ASSUME TypeOK, CopyInv, [Next]_vars
              PROVE  [Ledger!Next]_(Ledger!vars)
  OBVIOUS
<1>. DEFINE Quiet == /\ Memory' = Memory
                     /\ Recorded' = Recorded
                     /\ budget'["lostAnswers"] = budget["lostAnswers"]
<1>0. FlushOK /\ budget \in [Bounds -> Nat]
  BY DEF TypeOK
<1>q. Quiet => [Ledger!Next]_(Ledger!vars)
  BY DEF Ledger!vars
<1>1. ASSUME NEW r \in Replicas, StartFlush(r)
      PROVE  Quiet
  <2>1. ASSUME NEW q \in Replicas, NEW u \in Teams
        PROVE  usage'[q][u] + work'[q].pending[u] = usage[q][u] + work[q].pending[u]
    <3>1. usage[q][u] \in Nat
      BY <1>0 DEF FlushOK
    <3>2. CASE q = r
      <4>1. work[q].pending[u] = 0
        BY <1>1, <3>2 DEF StartFlush, IdleFlush, Nothing
      <4>2. usage'[q][u] = 0
        BY <1>0, <1>1, <3>2 DEF StartFlush, Nothing, FlushOK
      <4>3. work'[q].pending = usage[q]
        BY <1>0, <1>1, <3>2 DEF StartFlush, IdleFlush, FlushOK
      <4>. QED
        BY <3>1, <4>1, <4>2, <4>3
    <3>3. CASE q # r
      BY <1>0, <1>1, <3>3 DEF StartFlush, FlushOK
    <3>. QED
      BY <3>2, <3>3
  <2>2. UNCHANGED <<deployment, budget>>
    BY <1>1 DEF StartFlush
  <2>. QED
    BY <2>1, <2>2, MemoryKept, RecordedKept
<1>2. ASSUME NEW r \in Replicas, NEW t \in Teams, GetDeployment(r, t)
      PROVE  Quiet
  <2>1. Memory' = Memory
    BY <1>0, <1>2, PutBackKeepsMemory, TryKeepsMemory DEF GetDeployment
  <2>2. budget'["lostAnswers"] = budget["lostAnswers"]
    BY <1>0, <1>2, SpendOther DEF GetDeployment, Bounds
  <2>. QED
    BY <1>2, <2>1, <2>2, RecordedKept DEF GetDeployment
<1>3. ASSUME NEW r \in Replicas, NEW t \in Teams, UpdateDeployment(r, t)
      PROVE  Ledger!Book(r, t)
  <2>. DEFINE n == work[r].pending[t]
  <2>1. n \in Nat \ {0} /\ usage[r][t] \in Nat /\ deployment[t] = work[r].seen /\ deployment[t] # Absent
    BY <1>0, <1>3 DEF UpdateDeployment, Write, CopyInv, CopyOf, FlushOK, Flush
  <2>2. n \in 1 .. Memory[r][t]
    BY <2>1 DEF Memory
  <2>3. Recorded' = [Recorded EXCEPT ![t] = @ + n]
    <3>1. deployment[t] \in Deployment
      BY <2>1 DEF TypeOK
    <3>. DEFINE d == [tokens |-> deployment[t].tokens + n, others |-> deployment[t].others]
    <3>2. d \in Deployment
      BY <2>1, <3>1 DEF Deployment
    <3>3. [work[r].seen EXCEPT !.tokens = @ + n] = d
      BY <2>1, <3>1 DEF Deployment
    <3>4. deployment' = [deployment EXCEPT ![t] = d]
      BY <1>3, <3>3 DEF UpdateDeployment, Write
    <3>5. d # Absent /\ d.tokens = deployment[t].tokens + n
      BY <3>2, NamesAssumption DEF Deployment
    <3>. HIDE DEF d
    <3>6. \A u \in Teams : deployment'[u] = IF u = t THEN d ELSE deployment[u]
      BY <3>4 DEF TypeOK
    <3>. HIDE DEF n
    <3>. QED
      BY <2>1, <3>5, <3>6 DEF Recorded
  <2>r. Recorded[t] # Absent
    BY <2>1, NamesAssumption DEF Recorded, TypeOK, Deployment
  <2>4. CASE Finish(r, t) /\ UNCHANGED <<usage, budget>>
    <3>1. ASSUME NEW q \in Replicas, NEW u \in Teams
          PROVE  usage'[q][u] + work'[q].pending[u] =
                     IF q = r /\ u = t THEN Memory[r][t] - n ELSE Memory[q][u]
      <4>1. work'[q].pending[u] = IF q = r /\ u = t THEN 0 ELSE work[q].pending[u]
        BY <1>0, <2>4, FinishTakes
      <4>. QED
        BY <2>1, <2>4, <4>1 DEF Memory
    <3>. DEFINE M == [Memory EXCEPT ![r][t] = @ - n]
    <3>2. \A q \in Replicas, u \in Teams : M[q][u] = IF q = r /\ u = t THEN Memory[r][t] - n ELSE Memory[q][u]
      BY DEF Memory
    <3>3. M = [q \in Replicas |-> [u \in Teams |-> M[q][u]]]
      BY DEF Memory
    <3>. HIDE DEF M, n
    <3>4. Memory' = M
      BY <3>1, <3>2, <3>3 DEF Memory
    <3>5. Memory' = [Memory EXCEPT ![r][t] = @ - n]
      BY <3>4 DEF M
    <3>. QED
      BY <2>2, <2>3, <2>4, <2>r, <3>5 DEF Ledger!Book
  <2>5. CASE PutBack(r, t) /\ Spend("lostAnswers", MaxLostAnswers)
    <3>1. Memory' = Memory
      BY <1>0, <2>5, PutBackKeepsMemory
    <3>2. budget'["lostAnswers"] = budget["lostAnswers"] + 1
      BY <1>0, <2>5 DEF Spend, Bounds
    <3>. HIDE DEF n
    <3>. QED
      BY <2>2, <2>3, <2>r, <3>1, <3>2 DEF Ledger!Book
  <2>. QED
    BY <1>3, <2>4, <2>5 DEF UpdateDeployment
<1>4. ASSUME NEW r \in Replicas, NEW t \in Teams, UpdateFails(r, t)
      PROVE  Quiet
  <2>1. Memory' = Memory
    BY <1>0, <1>4, PutBackKeepsMemory, TryKeepsMemory DEF UpdateFails, Retry
  <2>2. budget'["lostAnswers"] = budget["lostAnswers"]
    BY <1>0, <1>4, SpendOther DEF UpdateFails, Bounds
  <2>. QED
    BY <1>4, <2>1, <2>2, RecordedKept DEF UpdateFails
<1>5. ASSUME NEW r \in Replicas, Crash(r)
      PROVE  Ledger!Forget(r)
  <2>1. ASSUME NEW q \in Replicas, NEW u \in Teams
        PROVE  usage'[q][u] + work'[q].pending[u] = IF q = r THEN 0 ELSE Memory[q][u]
    BY <1>0, <1>5 DEF Crash, FlushOK, Memory, IdleFlush, Nothing
  <2>2. Memory' = [Memory EXCEPT ![r] = [u \in Teams |-> 0]]
    BY <2>1 DEF Memory
  <2>. QED
    BY <1>5, <2>2, RecordedKept DEF Ledger!Forget, Crash
<1>6. ASSUME NEW r \in Replicas, NEW t \in Teams, Add(r, t)
      PROVE  Ledger!Count(r, t)
  <2>1. ASSUME NEW q \in Replicas, NEW u \in Teams
        PROVE  usage'[q][u] + work'[q].pending[u] =
                   IF q = r /\ u = t THEN Memory[r][t] + 1 ELSE Memory[q][u]
    <3>1. usage[q][u] \in Nat /\ work[q].pending[u] \in Nat
      BY <1>0 DEF FlushOK, Flush
    <3>2. usage'[q][u] = IF q = r /\ u = t THEN usage[q][u] + 1 ELSE usage[q][u]
      BY <1>0, <1>6 DEF Add, FlushOK
    <3>3. work'[q] = work[q]
      BY <1>6 DEF Add
    <3>. QED
      BY <3>1, <3>2, <3>3 DEF Memory
  <2>2. Memory' = [Memory EXCEPT ![r][t] = @ + 1]
    <3>. DEFINE M == [Memory EXCEPT ![r][t] = @ + 1]
    <3>1. \A q \in Replicas, u \in Teams : M[q][u] = IF q = r /\ u = t THEN Memory[r][t] + 1 ELSE Memory[q][u]
      BY DEF Memory
    <3>2. M = [q \in Replicas |-> [u \in Teams |-> M[q][u]]]
      BY DEF Memory
    <3>. HIDE DEF M
    <3>3. Memory' = M
      BY <2>1, <3>1, <3>2 DEF Memory
    <3>. QED
      BY <3>3 DEF M
  <2>3. budget'["lostAnswers"] = budget["lostAnswers"]
    BY <1>0, <1>6, SpendOther DEF Add, Bounds
  <2>. QED
    BY <1>6, <2>2, <2>3, RecordedKept DEF Ledger!Count, Add
<1>7. ASSUME NEW t \in Teams, PatchOthers(t)
      PROVE  Quiet
  <2>1. Memory' = Memory
    BY <1>7 DEF PatchOthers, Memory
  <2>2. budget'["lostAnswers"] = budget["lostAnswers"]
    BY <1>0, <1>7, SpendOther DEF PatchOthers, Bounds
  <2>3. Recorded' = Recorded
    <3>1. deployment[t] \in Deployment
      BY <1>7 DEF PatchOthers, TypeOK
    <3>. DEFINE d == [tokens |-> deployment[t].tokens, others |-> deployment[t].others + 1]
    <3>2. d \in Deployment
      BY <3>1 DEF Deployment
    <3>3. [deployment[t] EXCEPT !.others = @ + 1] = d
      BY <3>1 DEF Deployment
    <3>4. deployment' = [deployment EXCEPT ![t] = d]
      BY <1>7, <3>3 DEF PatchOthers
    <3>5. d # Absent /\ d.tokens = deployment[t].tokens
      BY <3>2, NamesAssumption DEF Deployment
    <3>. HIDE DEF d
    <3>6. \A u \in Teams : deployment'[u] = IF u = t THEN d ELSE deployment[u]
      BY <3>4 DEF TypeOK
    <3>. QED
      BY <1>7, <3>5, <3>6 DEF Recorded, PatchOthers
  <2>. QED
    BY <2>1, <2>2, <2>3
<1>8. ASSUME NEW t \in Teams, CreateDeployment(t) \/ DeleteDeployment(t)
      PROVE  (Ledger!Open(t) \/ Ledger!Close(t)) /\ Memory' = Memory
                 /\ budget'["lostAnswers"] = budget["lostAnswers"]
  <2>1. Memory' = Memory
    BY <1>8 DEF CreateDeployment, DeleteDeployment, Memory
  <2>2. budget'["lostAnswers"] = budget["lostAnswers"]
    BY <1>0, <1>8, SpendOther DEF CreateDeployment, DeleteDeployment, Bounds
  <2>3. CASE CreateDeployment(t)
    <3>. DEFINE d == [tokens |-> 0, others |-> 0]
    <3>1. d # Absent /\ d.tokens = 0
      BY NamesAssumption
    <3>2. \A u \in Teams : deployment'[u] = IF u = t THEN d ELSE deployment[u]
      BY <2>3 DEF CreateDeployment, TypeOK
    <3>. HIDE DEF d
    <3>3. Recorded' = [Recorded EXCEPT ![t] = 0]
      BY <3>1, <3>2 DEF Recorded
    <3>4. Recorded[t] = Absent
      BY <2>3 DEF CreateDeployment, Recorded
    <3>. QED
      BY <2>1, <2>2, <3>3, <3>4 DEF Ledger!Open
  <2>4. CASE DeleteDeployment(t)
    <3>1. Recorded' = [Recorded EXCEPT ![t] = Absent]
      BY <2>4 DEF DeleteDeployment, Recorded, TypeOK
    <3>. QED
      BY <2>1, <2>2, <3>1 DEF Ledger!Close
  <2>. QED
    BY <1>8, <2>3, <2>4
<1>9. CASE UNCHANGED vars
  <2>1. Memory' = Memory
    BY <1>9 DEF vars, Memory
  <2>2. Quiet
    BY <1>9, <2>1, RecordedKept DEF vars
  <2>. QED
    BY <2>2, <1>q
<1>10. ASSUME NEW r \in Replicas, FlushStep(r)
       PROVE  [Ledger!Next]_(Ledger!vars)
  BY <1>1, <1>2, <1>3, <1>4, <1>q, <1>10 DEF FlushStep, Ledger!Next
<1>. QED
  BY <1>5, <1>6, <1>7, <1>8, <1>9, <1>10, <1>q DEF Next, Ledger!Next

\* The flusher of usage.go keeps the token ledger: what a replica has counted
\* is booked exactly once unless the replica dies or an answer is lost.
THEOREM LedgerKept == Spec => KeepsTheLedger
BY TypeInit, TypeStep, CopyInit, CopyStep, LedgerInit, LedgerStep, PTL
   DEF Spec, KeepsTheLedger, Ledger!Spec

=============================================================================
