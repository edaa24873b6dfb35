------------------------- MODULE ProgressSyncProofs -------------------------
(***************************************************************************)
(* What ProgressSync guarantees for any number of teams, challenges,       *)
(* replicas, requests, workers, restarts and failures.                     *)
(***************************************************************************)
EXTENDS ProgressSync, TLAPS

USE DEF pods, shared, history

\* An idle request and an idle worker are well formed.
LEMMA IdleTypes == IdleHandler \in HandlerState /\ IdleWorker \in WorkerState
  BY DEF IdleHandler, IdleWorker, HandlerState, WorkerState, Progress

\* What the pod of a team notes is a well-formed entry.
LEMMA PodEntryType ==
  ASSUME PodsOK, NEW t \in Teams, NEW c \in Challenges
  PROVE  PodEntry(t, c) \in Entry
  BY BoundsAssumption DEF PodsOK, PodEntry, Entry, Stamps

\* The keys of well-formed progress are challenges.
LEMMA KeysType ==
  ASSUME NEW progress \in Progress
  PROVE  Keys(progress) \subseteq Challenges
  BY DEF Keys, Progress, Entry

LEMMA FailType ==
  ASSUME failures \in 0 .. MaxFailures, Fail
  PROVE  failures' \in 0 .. MaxFailures
  BY BoundsAssumption DEF Fail

-----------------------------------------------------------------------------
(* Types *)

TypeInv == TypeOK /\ Assigned

LEMMA TypeInit == Init => TypeInv
<1> SUFFICES ASSUME Init PROVE TypeInv
  OBVIOUS
<1>1. PodsOK
  BY BoundsAssumption DEF Init, PodsOK, Progress
<1>2. RecordsOK /\ WebhooksOK
  BY IdleTypes DEF Init, RecordsOK, WebhooksOK, Progress
<1>3. SyncOK
  BY IdleTypes DEF Init, SyncOK
<1>4. ControlOK
  <2>1. loaded \in [Replicas -> BOOLEAN]
    BY SMT DEF Init
  <2>2. ended \in BOOLEAN
    BY Zenon DEF Init
  <2>3. failures \in 0 .. MaxFailures
    BY BoundsAssumption DEF Init
  <2> QED
    BY <2>1, <2>2, <2>3 DEF ControlOK
<1>5. Assigned
  BY DEF Init, Assigned, IdleHandler, IdleWorker
<1> QED
  BY <1>1, <1>2, <1>3, <1>4, <1>5 DEF TypeInv, TypeOK

LEMMA TypeEnvironment == TypeInv /\ Environment => TypeInv'
<1> SUFFICES ASSUME TypeInv, Environment PROVE TypeInv'
  OBVIOUS
<1> USE DEF TypeInv, TypeOK
<1>1. ASSUME NEW t \in Teams, NEW c \in Challenges, SolveChallenge(t, c)
      PROVE  TypeInv'
  <2>1. live' \in [Teams -> Progress]
    BY <1>1, PodEntryType DEF PodsOK, SolveChallenge, Progress
  <2>2. PodsOK'
    BY <1>1, <2>1 DEF PodsOK, SolveChallenge
  <2>3. WebhooksOK'
    BY <1>1 DEF WebhooksOK, SolveChallenge, Hook
  <2> QED
    BY <1>1, <2>2, <2>3 DEF RecordsOK, SyncOK, ControlOK, Assigned, SolveChallenge
<1>2. ASSUME NEW t \in Teams, RestartPod(t) PROVE TypeInv'
  <2>1. PodsOK'
    BY <1>2, BoundsAssumption DEF PodsOK, RestartPod, Progress
  <2> QED
    BY <1>2, <2>1 DEF RecordsOK, WebhooksOK, SyncOK, ControlOK, Assigned, RestartPod
<1>3. ASSUME NEW t \in Teams, PodReady(t) PROVE TypeInv'
  BY <1>3 DEF PodsOK, RecordsOK, WebhooksOK, SyncOK, ControlOK, Assigned, PodReady
<1>4. CASE EventEnds
  BY <1>4 DEF PodsOK, RecordsOK, WebhooksOK, SyncOK, ControlOK, Assigned, EventEnds
<1> QED
  BY <1>1, <1>2, <1>3, <1>4 DEF Environment

LEMMA TypeReplica == TypeInv /\ ReplicaStep => TypeInv'
<1> SUFFICES ASSUME TypeInv, ReplicaStep PROVE TypeInv'
  OBVIOUS
<1> USE DEF TypeInv, TypeOK
<1>1. ASSUME NEW r \in Replicas, LoadNotification(r) PROVE TypeInv'
  BY <1>1 DEF PodsOK, RecordsOK, WebhooksOK, SyncOK, ControlOK, Assigned, LoadNotification
<1>2. ASSUME NEW r \in Replicas, CrashReplica(r) PROVE TypeInv'
  <2>1. ControlOK'
    BY <1>2, FailType DEF CrashReplica, ControlOK
  <2>2. WebhooksOK' /\ SyncOK'
    BY <1>2, IdleTypes DEF CrashReplica, WebhooksOK, SyncOK
  <2>3. Assigned'
    BY <1>2 DEF CrashReplica, Assigned, IdleHandler, IdleWorker
  <2> QED
    BY <1>2, <2>1, <2>2, <2>3 DEF CrashReplica, PodsOK, RecordsOK
<1>3. ASSUME NEW r \in Replicas, AcquireLease(r) PROVE TypeInv'
  BY <1>3 DEF PodsOK, RecordsOK, WebhooksOK, SyncOK, ControlOK, Assigned, AcquireLease
<1>4. CASE LoseLease
  <2>1. ControlOK'
    BY <1>4, FailType DEF LoseLease, ControlOK
  <2>2. SyncOK'
    <3>1. PICK sent \in SUBSET Workers :
             worker' = [w \in Workers |-> IF worker[w].pc # "idle" /\ w \notin sent
                                          THEN [worker[w] EXCEPT !.cancelled = TRUE] ELSE worker[w]]
      BY <1>4 DEF LoseLease
    <3>2. \A w \in Workers : worker[w] \in WorkerState
                             /\ [worker[w] EXCEPT !.cancelled = TRUE] \in WorkerState
      BY DEF SyncOK, WorkerState
    <3>3. worker' \in [Workers -> WorkerState]
      BY <3>1, <3>2
    <3> QED
      BY <1>4, <3>3 DEF LoseLease, SyncOK
  <2>3. \A w \in Workers : worker'[w].pc = worker[w].pc /\ worker'[w].team = worker[w].team
    BY <1>4 DEF LoseLease, SyncOK, WorkerState
  <2>4. Assigned'
    BY <1>4, <2>3 DEF LoseLease, Assigned
  <2> QED
    BY <1>4, <2>1, <2>2, <2>4 DEF LoseLease, PodsOK, RecordsOK, WebhooksOK
<1> QED
  BY <1>1, <1>2, <1>3, <1>4 DEF ReplicaStep

LEMMA TypeWebhook == TypeInv /\ WebhookStep => TypeInv'
<1> SUFFICES ASSUME TypeInv, WebhookStep PROVE TypeInv'
  OBVIOUS
<1> USE DEF TypeInv, TypeOK
<1>1. ASSUME NEW h \in Handlers, NEW r \in Replicas, NEW hook \in webhooks,
             ReceiveWebhook(h, r, hook)
      PROVE  TypeInv'
  <2>1. ControlOK'
    BY <1>1, FailType DEF ReceiveWebhook, ControlOK
  <2> DEFINE received == [IdleHandler EXCEPT !.pc = "lookup", !.replica = r, !.hook = hook]
  <2>2. received \in HandlerState /\ received.hook \in Hook
    BY DEF WebhooksOK, HandlerState, IdleHandler, Progress
  <2>3. handler' = handler \/ handler' = [handler EXCEPT ![h] = received]
    BY <1>1 DEF ReceiveWebhook
  <2>4. WebhooksOK' /\ Assigned'
    BY <1>1, <2>2, <2>3 DEF ReceiveWebhook, WebhooksOK, Assigned
  <2> QED
    BY <1>1, <2>1, <2>4 DEF ReceiveWebhook, PodsOK, RecordsOK, SyncOK
<1>2. ASSUME NEW h \in Handlers, ReadDeployment(h) PROVE TypeInv'
  <2>1. handler[h].hook.team \in Teams
    BY <1>2 DEF ReadDeployment, Assigned, Hook
  <2>2. WebhooksOK'
    BY <1>2, <2>1, IdleTypes DEF ReadDeployment, WebhooksOK, RecordsOK, HandlerState
  <2>3. Assigned'
    BY <1>2 DEF ReadDeployment, WebhooksOK, HandlerState, Assigned, IdleHandler
  <2> QED
    BY <1>2, <2>2, <2>3 DEF ReadDeployment, PodsOK, RecordsOK, SyncOK, ControlOK
<1>3. ASSUME NEW h \in Handlers, PersistSolution(h) PROVE TypeInv'
  <2>1. handler[h].hook \in Hook /\ handler[h] \in HandlerState
    BY <1>3 DEF PersistSolution, Assigned, WebhooksOK
  <2>2. RecordsOK'
    BY <1>3, <2>1, BoundsAssumption
       DEF PersistSolution, PersistProgress, RecordsOK, HandlerState, Hook, Progress, Entry,
           Stamps, Reported
  <2>3. WebhooksOK' /\ Assigned'
    BY <1>3, IdleTypes DEF PersistSolution, WebhooksOK, Assigned, IdleHandler
  <2> QED
    BY <1>3, <2>2, <2>3 DEF PersistSolution, PodsOK, SyncOK, ControlOK
<1>4. ASSUME NEW h \in Handlers, HandlerFails(h) PROVE TypeInv'
  <2>1. ControlOK'
    BY <1>4, FailType DEF HandlerFails, ControlOK
  <2>2. WebhooksOK' /\ Assigned'
    BY <1>4, IdleTypes DEF HandlerFails, WebhooksOK, Assigned, IdleHandler
  <2> QED
    BY <1>4, <2>1, <2>2 DEF HandlerFails, PodsOK, RecordsOK, SyncOK
<1> QED
  BY <1>1, <1>2, <1>3, <1>4 DEF WebhookStep, HandlerStep

\* A worker that has restored a pod goes on with the same job or is idle.
LEMMA AfterApplyTypes ==
  ASSUME SyncOK, Assigned, NEW w \in Workers, worker[w].pc = "apply", AfterApply(w),
         UNCHANGED <<leader, jobs, handler>>
  PROVE  SyncOK' /\ Assigned'
<1>1. worker' = [worker EXCEPT ![w] = IdleWorker]
      \/ worker' = [worker EXCEPT ![w] = [worker[w] EXCEPT !.pc = "refetch"]]
  BY DEF AfterApply, SyncOK
<1>2. /\ [worker[w] EXCEPT !.pc = "refetch"] \in WorkerState
      /\ [worker[w] EXCEPT !.pc = "refetch"].team = worker[w].team
  BY DEF SyncOK, WorkerState
<1>3. SyncOK'
  BY <1>1, <1>2, IdleTypes DEF SyncOK
<1>4. \A v \in Workers : worker'[v].pc # "idle" => worker'[v].team = worker[v].team
                                                  /\ worker[v].pc # "idle"
  <2>1. CASE worker' = [worker EXCEPT ![w] = IdleWorker]
    BY <2>1 DEF SyncOK, IdleWorker
  <2>2. CASE worker' = [worker EXCEPT ![w] = [worker[w] EXCEPT !.pc = "refetch"]]
    <3>1. worker'[w].team = worker[w].team
      BY <1>2, <2>2 DEF SyncOK
    <3>2. \A v \in Workers \ {w} : worker'[v] = worker[v]
      BY <2>2 DEF SyncOK
    <3> QED
      BY <3>1, <3>2
  <2> QED
    BY <1>1, <2>1, <2>2
<1>5. Assigned'
  BY <1>4 DEF Assigned
<1> QED
  BY <1>3, <1>5

LEMMA AfterApplyKeeps ==
  ASSUME SyncOK, NEW w \in Workers, worker[w].pc = "apply", AfterApply(w)
  PROVE  \A v \in Workers : worker'[v].pc # "idle" =>
            /\ worker[v].pc # "idle"
            /\ worker'[v].team = worker[v].team
            /\ worker'[v].last = worker[v].last
            /\ worker'[v].current = worker[v].current
<1>1. /\ [worker[w] EXCEPT !.pc = "refetch"].team = worker[w].team
      /\ [worker[w] EXCEPT !.pc = "refetch"].last = worker[w].last
      /\ [worker[w] EXCEPT !.pc = "refetch"].current = worker[w].current
  BY DEF SyncOK, WorkerState
<1>2. worker'[w] = IdleWorker \/ worker'[w] = [worker[w] EXCEPT !.pc = "refetch"]
  BY DEF AfterApply, SyncOK
<1>3. \A v \in Workers \ {w} : worker'[v] = worker[v]
  BY DEF AfterApply, SyncOK
<1>4. IdleWorker.pc = "idle"
  BY DEF IdleWorker
<1> QED
  BY <1>1, <1>2, <1>3, <1>4

LEMMA TypeSync == TypeInv /\ SyncStep => TypeInv'
<1> SUFFICES ASSUME TypeInv, SyncStep PROVE TypeInv'
  OBVIOUS
<1> USE DEF TypeInv, TypeOK
<1>1. CASE ListInstances
  <2>1. jobs' \subseteq Job
    BY <1>1 DEF ListInstances, RecordsOK, Job
  <2> QED
    BY <1>1, <2>1 DEF ListInstances, PodsOK, RecordsOK, WebhooksOK, SyncOK, ControlOK, Assigned
<1>2. ASSUME NEW w \in Workers, TakeJob(w) PROVE TypeInv'
  <2>1. PICK job \in jobs :
              /\ jobs' = jobs \ {job}
              /\ worker' = [worker EXCEPT ![w] = [IdleWorker EXCEPT !.pc = "fetch",
                                !.replica = leader, !.team = job.team, !.last = job.last]]
    BY <1>2 DEF TakeJob
  <2> DEFINE started == [IdleWorker EXCEPT !.pc = "fetch", !.replica = leader,
                                           !.team = job.team, !.last = job.last]
  <2>2. started \in WorkerState /\ started.team \in Teams
    BY DEF SyncOK, Job, IdleWorker, WorkerState, Progress
  <2>3. SyncOK' /\ Assigned'
    BY <1>2, <2>1, <2>2 DEF TakeJob, SyncOK, Assigned
  <2> QED
    BY <1>2, <2>3 DEF TakeJob, PodsOK, RecordsOK, WebhooksOK, ControlOK
<1>3. ASSUME NEW w \in Workers, FetchProgress(w) \/ RefetchProgress(w) PROVE TypeInv'
  <2>1. worker[w].team \in Teams
    BY <1>3 DEF FetchProgress, RefetchProgress, Assigned
  <2>2. SyncOK' /\ Assigned'
    BY <1>3, <2>1 DEF FetchProgress, RefetchProgress, SyncOK, PodsOK, Assigned, WorkerState
  <2> QED
    BY <1>3, <2>2 DEF FetchProgress, RefetchProgress, PodsOK, RecordsOK, WebhooksOK, ControlOK
<1>4. ASSUME NEW w \in Workers, Decide(w) PROVE TypeInv'
  <2>1. IsScoreboardFrozen(worker[w].replica) \in BOOLEAN
    BY FlagsAssumption DEF IsScoreboardFrozen
  <2>2. SyncOK'
    BY <1>4, <2>1, IdleTypes DEF Decide, SyncOK, WorkerState
  <2>3. Assigned'
    BY <1>4 DEF Decide, SyncOK, Assigned, WorkerState, IdleWorker
  <2> QED
    BY <1>4, <2>2, <2>3 DEF Decide, PodsOK, RecordsOK, WebhooksOK, ControlOK
<1>5. ASSUME NEW w \in Workers, ApplyChallengeProgress(w) PROVE TypeInv'
  <2>1. worker[w].team \in Teams
    BY <1>5 DEF ApplyChallengeProgress, Assigned
  <2>2. Keys(worker[w].last) \subseteq Challenges
    BY KeysType DEF SyncOK, WorkerState
  <2>3. live' \in [Teams -> Progress]
    BY <1>5, <2>1, <2>2, PodEntryType DEF ApplyChallengeProgress, PodsOK, Progress
  <2>4. SyncOK' /\ Assigned'
    BY <1>5, AfterApplyTypes DEF ApplyChallengeProgress, SyncOK, WebhooksOK
  <2> QED
    BY <1>5, <2>3, <2>4 DEF ApplyChallengeProgress, PodsOK, RecordsOK, WebhooksOK, ControlOK
<1>6. ASSUME NEW w \in Workers, ApplyFails(w) PROVE TypeInv'
  <2>1. ControlOK'
    BY <1>6, FailType DEF ApplyFails, ControlOK
  <2>2. SyncOK' /\ Assigned'
    BY <1>6, AfterApplyTypes DEF ApplyFails, SyncOK
  <2> QED
    BY <1>6, <2>1, <2>2 DEF ApplyFails, PodsOK, RecordsOK, WebhooksOK
<1>7. ASSUME NEW w \in Workers, PersistCurrent(w) PROVE TypeInv'
  <2>1. RecordsOK'
    BY <1>7 DEF PersistCurrent, PersistProgress, RecordsOK, SyncOK, WorkerState
  <2>2. SyncOK' /\ Assigned'
    BY <1>7, IdleTypes DEF PersistCurrent, SyncOK, Assigned, IdleWorker
  <2> QED
    BY <1>7, <2>1, <2>2 DEF PersistCurrent, PodsOK, WebhooksOK, ControlOK
<1>8. ASSUME NEW w \in Workers, FetchFails(w) \/ PersistCurrentFails(w) PROVE TypeInv'
  <2>1. ControlOK'
    BY <1>8, FailType DEF FetchFails, PersistCurrentFails, ControlOK
  <2>2. worker' = [worker EXCEPT ![w] = IdleWorker] /\ UNCHANGED <<leader, jobs, handler>>
    BY <1>8 DEF FetchFails, PersistCurrentFails
  <2>3. SyncOK' /\ Assigned'
    BY <2>2, IdleTypes DEF SyncOK, Assigned, IdleWorker
  <2> QED
    BY <1>8, <2>1, <2>3 DEF FetchFails, PersistCurrentFails, PodsOK, RecordsOK, WebhooksOK
<1> QED
  BY <1>1, <1>2, <1>3, <1>4, <1>5, <1>6, <1>7, <1>8 DEF SyncStep, WorkerStep

LEMMA TypeInductive == TypeInv /\ [Next]_vars => TypeInv'
<1>1. TypeInv /\ UNCHANGED vars => TypeInv'
  BY DEF TypeInv, TypeOK, PodsOK, RecordsOK, WebhooksOK, SyncOK, ControlOK, Assigned, vars
<1> QED
  BY <1>1, TypeEnvironment, TypeReplica, TypeWebhook, TypeSync DEF Next

\* Whatever the order of requests, jobs, restarts, crashes and failures, every
\* variable holds a value of its kind: type correctness of the specification.
THEOREM TypeCorrect == Spec => []TypeOK
<1>1. TypeInv => TypeOK
  BY DEF TypeInv
<1> QED
  BY <1>1, TypeInit, TypeInductive, PTL DEF Spec

-----------------------------------------------------------------------------
(* Provenance: nothing is credited that was not solved. *)

EarnedInv == TypeInv /\ Provenance

LEMMA KeysEmpty == Keys({}) = {}
  BY DEF Keys

LEMMA EarnedInit == Init => EarnedInv
<1> SUFFICES ASSUME Init PROVE Provenance
  BY TypeInit DEF EarnedInv
<1>1. \A t \in Teams : Keys(saved[t]) = {} /\ Keys(live[t]) = {}
  BY KeysEmpty DEF Init
<1>2. \A h \in Handlers : handler[h].pc = "idle"
  BY DEF Init, IdleHandler
<1>3. \A w \in Workers : worker[w].pc = "idle"
  BY DEF Init, IdleWorker
<1>4. webhooks = {} /\ jobs = {}
  BY DEF Init
<1> QED
  BY <1>1, <1>2, <1>3, <1>4 DEF Provenance

LEMMA EarnedEnvironment == EarnedInv /\ Environment => Provenance'
<1> SUFFICES ASSUME EarnedInv, Environment PROVE Provenance'
  OBVIOUS
<1> USE DEF EarnedInv, TypeInv, TypeOK
<1>1. ASSUME NEW t \in Teams, NEW c \in Challenges, SolveChallenge(t, c)
      PROVE  Provenance'
  <2>1. \A u \in Teams : solved[u] \subseteq solved'[u]
    BY <1>1 DEF SolveChallenge, PodsOK
  <2>2. c \in solved'[t]
    BY <1>1 DEF SolveChallenge, PodsOK
  <2>3. \A u \in Teams : Keys(live'[u]) \subseteq solved'[u]
    <3>1. Keys(live[t] \cup {PodEntry(t, c)}) \subseteq Keys(live[t]) \cup {c}
      BY DEF Keys, PodEntry
    <3> QED
      BY <1>1, <2>1, <2>2, <3>1 DEF SolveChallenge, PodsOK, Provenance
  <2>4. \A u \in Teams : Keys(saved'[u]) \subseteq solved'[u]
    BY <1>1, <2>1 DEF SolveChallenge, Provenance
  <2>5. \A hook \in webhooks' : hook.challenge \in solved'[hook.team]
    <3>1. \A hook \in webhooks : hook.team \in Teams
      BY DEF WebhooksOK, Hook
    <3>2. PICK cheat \in CheatReports :
             webhooks' = webhooks \cup {[team |-> t, challenge |-> c, cheat |-> cheat]}
      BY <1>1 DEF SolveChallenge
    <3> QED
      BY <2>1, <2>2, <3>1, <3>2 DEF Provenance
  <2>6. \A h \in Handlers : handler[h].pc # "idle" => handler[h].hook.team \in Teams
    BY DEF Assigned, Hook
  <2>7. \A job \in jobs : job.team \in Teams
    BY DEF SyncOK, Job
  <2>8. \A w \in Workers : worker[w].pc # "idle" => worker[w].team \in Teams
    BY DEF Assigned
  <2>9. UNCHANGED <<handler, jobs, worker>>
    BY <1>1 DEF SolveChallenge
  <2> QED
    BY <2>1, <2>3, <2>4, <2>5, <2>6, <2>7, <2>8, <2>9 DEF Provenance
<1>2. ASSUME NEW t \in Teams, RestartPod(t) PROVE Provenance'
  <2>1. \A u \in Teams : Keys(live'[u]) \subseteq solved'[u]
    BY <1>2, KeysEmpty DEF RestartPod, PodsOK, Provenance
  <2> QED
    BY <1>2, <2>1 DEF RestartPod, Provenance
<1>3. ASSUME NEW t \in Teams, PodReady(t) PROVE Provenance'
  BY <1>3 DEF PodReady, Provenance
<1>4. CASE EventEnds
  BY <1>4 DEF EventEnds, Provenance
<1> QED
  BY <1>1, <1>2, <1>3, <1>4 DEF Environment

LEMMA EarnedReplica == EarnedInv /\ ReplicaStep => Provenance'
<1> SUFFICES ASSUME EarnedInv, ReplicaStep PROVE Provenance'
  OBVIOUS
<1> USE DEF EarnedInv, TypeInv, TypeOK
<1>1. ASSUME NEW r \in Replicas, LoadNotification(r) \/ AcquireLease(r) PROVE Provenance'
  BY <1>1 DEF LoadNotification, AcquireLease, Provenance
<1>2. ASSUME NEW r \in Replicas, CrashReplica(r) PROVE Provenance'
  <2>1. \A h \in Handlers : handler'[h].pc # "idle" => handler'[h] = handler[h]
    BY <1>2 DEF CrashReplica, IdleHandler
  <2>2. \A w \in Workers : worker'[w].pc # "idle" => worker'[w] = worker[w]
    BY <1>2 DEF CrashReplica, IdleWorker
  <2>3. \A job \in jobs' : job \in jobs
    BY <1>2 DEF CrashReplica
  <2> QED
    BY <1>2, <2>1, <2>2, <2>3 DEF CrashReplica, Provenance
<1>3. CASE LoseLease
  <2>1. \A w \in Workers : /\ worker'[w].pc = worker[w].pc
                           /\ worker'[w].team = worker[w].team
                           /\ worker'[w].last = worker[w].last
                           /\ worker'[w].current = worker[w].current
    BY <1>3 DEF LoseLease, SyncOK, WorkerState
  <2>2. jobs' = {} /\ UNCHANGED <<saved, live, solved, webhooks, handler>>
    BY <1>3 DEF LoseLease
  <2> QED
    BY <2>1, <2>2 DEF Provenance
<1> QED
  BY <1>1, <1>2, <1>3 DEF ReplicaStep

LEMMA EarnedWebhook == EarnedInv /\ WebhookStep => Provenance'
<1> SUFFICES ASSUME EarnedInv, WebhookStep PROVE Provenance'
  OBVIOUS
<1> USE DEF EarnedInv, TypeInv, TypeOK
<1>1. ASSUME NEW h \in Handlers, NEW r \in Replicas, NEW hook \in webhooks,
             ReceiveWebhook(h, r, hook)
      PROVE  Provenance'
  <2> DEFINE received == [IdleHandler EXCEPT !.pc = "lookup", !.replica = r, !.hook = hook]
  <2>1. received.hook = hook /\ Keys(received.seen) = {}
    BY KeysEmpty DEF IdleHandler
  <2>2. handler' = handler \/ handler' = [handler EXCEPT ![h] = received]
    BY <1>1 DEF ReceiveWebhook
  <2>3. \A g \in Handlers : handler'[g] = handler[g] \/ handler'[g] = received
    BY <2>2 DEF WebhooksOK
  <2>4. webhooks' \subseteq webhooks /\ UNCHANGED <<saved, live, solved, jobs, worker>>
    BY <1>1 DEF ReceiveWebhook
  <2> QED
    BY <2>1, <2>3, <2>4 DEF Provenance
<1>2. ASSUME NEW h \in Handlers, ReadDeployment(h) PROVE Provenance'
  <2>1. handler[h].pc # "idle" /\ handler[h].hook.team \in Teams
    BY <1>2 DEF ReadDeployment, Assigned, Hook
  <2>2. \A g \in Handlers : handler'[g].pc # "idle" =>
           \/ handler'[g] = handler[g]
           \/ g = h /\ handler'[h].hook = handler[h].hook
                    /\ handler'[h].seen = saved[handler[h].hook.team]
    BY <1>2 DEF ReadDeployment, WebhooksOK, HandlerState, IdleHandler
  <2>3. UNCHANGED <<saved, live, solved, webhooks, jobs, worker>>
    BY <1>2 DEF ReadDeployment
  <2> QED
    BY <2>1, <2>2, <2>3 DEF Provenance
<1>3. ASSUME NEW h \in Handlers, PersistSolution(h) PROVE Provenance'
  <2> DEFINE t == handler[h].hook.team
             c == handler[h].hook.challenge
             progress == handler[h].seen \cup {[key |-> c, solvedAt |-> Reported]}
  <2>1. handler[h].pc # "idle" /\ t \in Teams
    BY <1>3 DEF PersistSolution, Assigned, Hook
  <2>2. Keys(progress) \subseteq solved[t]
    <3>1. Keys(progress) \subseteq Keys(handler[h].seen) \cup {c}
      BY DEF Keys
    <3> QED
      BY <2>1, <3>1 DEF Provenance
  <2>3. saved' = [saved EXCEPT ![t] = progress]
    BY <1>3 DEF PersistSolution, PersistProgress
  <2>4. \A u \in Teams : Keys(saved'[u]) \subseteq solved[u]
    BY <2>1, <2>2, <2>3 DEF RecordsOK, Provenance
  <2>5. \A g \in Handlers : handler'[g].pc # "idle" => handler'[g] = handler[g]
    BY <1>3 DEF PersistSolution, WebhooksOK, IdleHandler
  <2>6. UNCHANGED <<live, solved, webhooks, jobs, worker>>
    BY <1>3 DEF PersistSolution
  <2> QED
    BY <2>4, <2>5, <2>6 DEF Provenance
<1>4. ASSUME NEW h \in Handlers, HandlerFails(h) PROVE Provenance'
  <2>1. \A g \in Handlers : handler'[g].pc # "idle" => handler'[g] = handler[g]
    BY <1>4 DEF HandlerFails, WebhooksOK, IdleHandler
  <2> QED
    BY <1>4, <2>1 DEF HandlerFails, Provenance
<1> QED
  BY <1>1, <1>2, <1>3, <1>4 DEF WebhookStep, HandlerStep

LEMMA EarnedSync == EarnedInv /\ SyncStep => Provenance'
<1> SUFFICES ASSUME EarnedInv, SyncStep PROVE Provenance'
  OBVIOUS
<1> USE DEF EarnedInv, TypeInv, TypeOK
<1>1. CASE ListInstances
  <2>1. \A job \in jobs' : job.team \in Teams /\ job.last = saved[job.team]
    BY <1>1 DEF ListInstances
  <2>2. UNCHANGED <<saved, live, solved, webhooks, handler, worker>>
    BY <1>1 DEF ListInstances
  <2> QED
    BY <2>1, <2>2 DEF Provenance
<1>2. ASSUME NEW w \in Workers, TakeJob(w) PROVE Provenance'
  <2>1. PICK job \in jobs :
              /\ jobs' = jobs \ {job}
              /\ worker' = [worker EXCEPT ![w] = [IdleWorker EXCEPT !.pc = "fetch",
                                !.replica = leader, !.team = job.team, !.last = job.last]]
    BY <1>2 DEF TakeJob
  <2>2. worker'[w].team = job.team /\ worker'[w].last = job.last /\ worker'[w].current = {}
    BY <2>1 DEF SyncOK, IdleWorker
  <2>3. \A v \in Workers \ {w} : worker'[v] = worker[v]
    BY <2>1 DEF SyncOK
  <2>4. UNCHANGED <<saved, live, solved, webhooks, handler>>
    BY <1>2 DEF TakeJob
  <2> QED
    BY <2>1, <2>2, <2>3, <2>4, KeysEmpty, ZenonT(30) DEF Provenance
<1>3. ASSUME NEW w \in Workers, FetchProgress(w) \/ RefetchProgress(w) PROVE Provenance'
  <2>1. worker[w].pc # "idle" /\ worker[w].team \in Teams
    BY <1>3 DEF FetchProgress, RefetchProgress, Assigned
  <2>2. /\ worker'[w].team = worker[w].team
        /\ worker'[w].last = worker[w].last
        /\ worker'[w].current = live[worker[w].team]
    BY <1>3 DEF FetchProgress, RefetchProgress, SyncOK, WorkerState
  <2>3. \A v \in Workers \ {w} : worker'[v] = worker[v]
    BY <1>3 DEF FetchProgress, RefetchProgress, SyncOK
  <2>4. UNCHANGED <<saved, live, solved, webhooks, handler, jobs>>
    BY <1>3 DEF FetchProgress, RefetchProgress
  <2> QED
    BY <2>1, <2>2, <2>3, <2>4 DEF Provenance
<1>4. ASSUME NEW w \in Workers, Decide(w) PROVE Provenance'
  <2>1. /\ worker[w].pc # "idle"
        /\ worker'[w].pc # "idle" => /\ worker'[w].team = worker[w].team
                                     /\ worker'[w].last = worker[w].last
                                     /\ worker'[w].current = worker[w].current
    BY <1>4 DEF Decide, SyncOK, WorkerState, IdleWorker
  <2>2. \A v \in Workers \ {w} : worker'[v] = worker[v]
    BY <1>4 DEF Decide, SyncOK
  <2>3. UNCHANGED <<saved, live, solved, webhooks, handler, jobs>>
    BY <1>4 DEF Decide
  <2> QED
    BY <2>1, <2>2, <2>3 DEF Provenance
<1>5. ASSUME NEW w \in Workers, ApplyChallengeProgress(w) PROVE Provenance'
  <2> DEFINE t == worker[w].team
             restored == {PodEntry(t, c) : c \in Keys(worker[w].last) \ Keys(live[t])}
  <2>1. worker[w].pc # "idle" /\ t \in Teams
    BY <1>5 DEF ApplyChallengeProgress, Assigned
  <2>2. Keys(live[t] \cup restored) \subseteq solved[t]
    <3>1. Keys(live[t] \cup restored) \subseteq Keys(live[t]) \cup Keys(worker[w].last)
      BY DEF Keys, PodEntry
    <3> QED
      BY <2>1, <3>1 DEF Provenance
  <2>3. live' = [live EXCEPT ![t] = live[t] \cup restored]
    BY <1>5 DEF ApplyChallengeProgress
  <2>4. \A u \in Teams : Keys(live'[u]) \subseteq solved[u]
    BY <2>1, <2>2, <2>3 DEF PodsOK, Provenance
  <2>5. \A v \in Workers : worker'[v].pc # "idle" =>
           /\ worker[v].pc # "idle"
           /\ worker'[v].team = worker[v].team
           /\ worker'[v].last = worker[v].last
           /\ worker'[v].current = worker[v].current
    BY <1>5, AfterApplyKeeps DEF ApplyChallengeProgress
  <2>6. UNCHANGED <<saved, solved, webhooks, handler, jobs>>
    BY <1>5 DEF ApplyChallengeProgress
  <2> QED
    BY <2>4, <2>5, <2>6 DEF Provenance
<1>6. ASSUME NEW w \in Workers, ApplyFails(w) PROVE Provenance'
  <2>1. \A v \in Workers : worker'[v].pc # "idle" =>
           /\ worker[v].pc # "idle"
           /\ worker'[v].team = worker[v].team
           /\ worker'[v].last = worker[v].last
           /\ worker'[v].current = worker[v].current
    BY <1>6, AfterApplyKeeps DEF ApplyFails
  <2>2. UNCHANGED <<saved, live, solved, webhooks, handler, jobs>>
    BY <1>6 DEF ApplyFails
  <2> QED
    BY <2>1, <2>2 DEF Provenance
<1>7. ASSUME NEW w \in Workers, PersistCurrent(w) PROVE Provenance'
  <2>1. worker[w].pc # "idle" /\ worker[w].team \in Teams
    BY <1>7 DEF PersistCurrent, Assigned
  <2>2. saved' = saved \/ saved' = [saved EXCEPT ![worker[w].team] = worker[w].current]
    BY <1>7 DEF PersistCurrent, PersistProgress
  <2>3. \A u \in Teams : Keys(saved'[u]) \subseteq solved[u]
    BY <2>1, <2>2 DEF RecordsOK, Provenance
  <2>4. \A v \in Workers : worker'[v].pc # "idle" => worker'[v] = worker[v]
    BY <1>7 DEF PersistCurrent, SyncOK, IdleWorker
  <2>5. UNCHANGED <<live, solved, webhooks, handler, jobs>>
    BY <1>7 DEF PersistCurrent
  <2> QED
    BY <2>3, <2>4, <2>5 DEF Provenance
<1>8. ASSUME NEW w \in Workers, FetchFails(w) \/ PersistCurrentFails(w) PROVE Provenance'
  <2>1. worker' = [worker EXCEPT ![w] = IdleWorker]
        /\ UNCHANGED <<saved, live, solved, webhooks, handler, jobs>>
    BY <1>8 DEF FetchFails, PersistCurrentFails
  <2>2. \A v \in Workers : worker'[v].pc # "idle" => worker'[v] = worker[v]
    BY <2>1 DEF SyncOK, IdleWorker
  <2> QED
    BY <2>1, <2>2 DEF Provenance
<1> QED
  BY <1>1, <1>2, <1>3, <1>4, <1>5, <1>6, <1>7, <1>8 DEF SyncStep, WorkerStep

LEMMA EarnedInductive == EarnedInv /\ [Next]_vars => EarnedInv'
<1>1. EarnedInv /\ UNCHANGED vars => Provenance'
  BY DEF EarnedInv, Provenance, vars
<1>2. EarnedInv /\ [Next]_vars => Provenance'
  BY <1>1, EarnedEnvironment, EarnedReplica, EarnedWebhook, EarnedSync DEF Next
<1> QED
  BY <1>2, TypeInductive DEF EarnedInv

\* No race of webhooks, sync jobs, restores and restarts credits a team with a
\* solve it did not make: what CompareChallengeStates and the unconditional
\* patches of PersistProgress may lose, they never invent.
THEOREM SolvesAreEarned == Spec => []OnlyEarnedSolves
<1>1. EarnedInv => OnlyEarnedSolves
  BY DEF EarnedInv, Provenance, OnlyEarnedSolves
<1> QED
  BY <1>1, EarnedInit, TypeInit, EarnedInductive, PTL DEF Spec

-----------------------------------------------------------------------------
(* Uniqueness: no challenge is credited twice. *)

UniqueInv == TypeInv /\ NoDuplicates

LEMMA UniqueInit == Init => UniqueInv
<1> SUFFICES ASSUME Init PROVE NoDuplicates
  BY TypeInit DEF UniqueInv
<1>1. \A t \in Teams : Unique(saved[t]) /\ Unique(live[t])
  BY DEF Init, Unique
<1>2. \A h \in Handlers : handler[h].pc = "idle"
  BY DEF Init, IdleHandler
<1>3. \A w \in Workers : Unique(worker[w].current)
  BY DEF Init, IdleWorker, Unique
<1> QED
  BY <1>1, <1>2, <1>3 DEF NoDuplicates

\* A list stays free of duplicates when what is added has a new key.
LEMMA UniqueAdd ==
  ASSUME NEW p, NEW e, Unique(p), e.key \notin Keys(p)
  PROVE  Unique(p \cup {e})
  BY DEF Unique, Keys

LEMMA UniqueEnvironment == UniqueInv /\ Environment => NoDuplicates'
<1> SUFFICES ASSUME UniqueInv, Environment PROVE NoDuplicates'
  OBVIOUS
<1> USE DEF UniqueInv, TypeInv, TypeOK
<1>1. ASSUME NEW t \in Teams, NEW c \in Challenges, SolveChallenge(t, c)
      PROVE  NoDuplicates'
  <2>1. Unique(live[t] \cup {PodEntry(t, c)})
    <3>1. Unique(live[t]) /\ PodEntry(t, c).key \notin Keys(live[t])
      BY <1>1 DEF SolveChallenge, PodEntry, NoDuplicates
    <3> QED
      BY <3>1, UniqueAdd
  <2>2. \A u \in Teams : Unique(live'[u])
    BY <1>1, <2>1 DEF SolveChallenge, PodsOK, NoDuplicates
  <2> QED
    BY <1>1, <2>2 DEF SolveChallenge, NoDuplicates
<1>2. ASSUME NEW t \in Teams, RestartPod(t) PROVE NoDuplicates'
  <2>1. \A u \in Teams : Unique(live'[u])
    BY <1>2 DEF RestartPod, PodsOK, NoDuplicates, Unique
  <2> QED
    BY <1>2, <2>1 DEF RestartPod, NoDuplicates
<1>3. ASSUME NEW t \in Teams, PodReady(t) PROVE NoDuplicates'
  BY <1>3 DEF PodReady, NoDuplicates
<1>4. CASE EventEnds
  BY <1>4 DEF EventEnds, NoDuplicates
<1> QED
  BY <1>1, <1>2, <1>3, <1>4 DEF Environment

LEMMA UniqueReplica == UniqueInv /\ ReplicaStep => NoDuplicates'
<1> SUFFICES ASSUME UniqueInv, ReplicaStep PROVE NoDuplicates'
  OBVIOUS
<1> USE DEF UniqueInv, TypeInv, TypeOK
<1>1. ASSUME NEW r \in Replicas, LoadNotification(r) \/ AcquireLease(r) PROVE NoDuplicates'
  BY <1>1 DEF LoadNotification, AcquireLease, NoDuplicates
<1>2. ASSUME NEW r \in Replicas, CrashReplica(r) PROVE NoDuplicates'
  <2>1. \A h \in Handlers : handler'[h].pc = "persist" => handler'[h] = handler[h]
    BY <1>2 DEF CrashReplica, IdleHandler
  <2>2. \A w \in Workers : worker'[w].current = {} \/ worker'[w] = worker[w]
    BY <1>2 DEF CrashReplica, IdleWorker
  <2> QED
    BY <1>2, <2>1, <2>2 DEF CrashReplica, NoDuplicates, Unique
<1>3. CASE LoseLease
  <2>1. \A w \in Workers : worker'[w].current = worker[w].current
    BY <1>3 DEF LoseLease, SyncOK, WorkerState
  <2> QED
    BY <1>3, <2>1 DEF LoseLease, NoDuplicates
<1> QED
  BY <1>1, <1>2, <1>3 DEF ReplicaStep

LEMMA UniqueWebhook == UniqueInv /\ WebhookStep => NoDuplicates'
<1> SUFFICES ASSUME UniqueInv, WebhookStep PROVE NoDuplicates'
  OBVIOUS
<1> USE DEF UniqueInv, TypeInv, TypeOK
<1>1. ASSUME NEW h \in Handlers, NEW r \in Replicas, NEW hook \in webhooks,
             ReceiveWebhook(h, r, hook)
      PROVE  NoDuplicates'
  <2>1. \A g \in Handlers : handler'[g].pc = "persist" => handler'[g] = handler[g]
    BY <1>1 DEF ReceiveWebhook, WebhooksOK, IdleHandler
  <2> QED
    BY <1>1, <2>1 DEF ReceiveWebhook, NoDuplicates
<1>2. ASSUME NEW h \in Handlers, ReadDeployment(h) PROVE NoDuplicates'
  <2>1. handler[h].hook.team \in Teams
    BY <1>2 DEF ReadDeployment, Assigned, Hook
  <2>2. \A g \in Handlers : handler'[g].pc = "persist" =>
           \/ handler'[g] = handler[g]
           \/ /\ handler'[g].seen = saved[handler[h].hook.team]
              /\ handler'[g].hook.challenge \notin Keys(handler'[g].seen)
    BY <1>2 DEF ReadDeployment, WebhooksOK, HandlerState, IdleHandler
  <2> QED
    BY <1>2, <2>1, <2>2 DEF ReadDeployment, NoDuplicates
<1>3. ASSUME NEW h \in Handlers, PersistSolution(h) PROVE NoDuplicates'
  <2> DEFINE t == handler[h].hook.team
             solution == [key |-> handler[h].hook.challenge, solvedAt |-> Reported]
             progress == handler[h].seen \cup {solution}
  <2>1. t \in Teams
    BY <1>3 DEF PersistSolution, Assigned, Hook
  <2>2. Unique(progress)
    <3>1. Unique(handler[h].seen) /\ solution.key \notin Keys(handler[h].seen)
      BY <1>3 DEF PersistSolution, NoDuplicates
    <3> HIDE DEF solution
    <3> QED
      BY <3>1, UniqueAdd
  <2>3. saved' = [saved EXCEPT ![t] = progress]
    BY <1>3 DEF PersistSolution, PersistProgress
  <2>4. \A u \in Teams : Unique(saved'[u])
    BY <2>1, <2>2, <2>3 DEF RecordsOK, NoDuplicates
  <2>5. \A g \in Handlers : handler'[g].pc = "persist" => handler'[g] = handler[g]
    BY <1>3 DEF PersistSolution, WebhooksOK, IdleHandler
  <2>6. UNCHANGED <<live, worker>>
    BY <1>3 DEF PersistSolution
  <2> QED
    BY <2>4, <2>5, <2>6 DEF NoDuplicates
<1>4. ASSUME NEW h \in Handlers, HandlerFails(h) PROVE NoDuplicates'
  <2>1. \A g \in Handlers : handler'[g].pc = "persist" => handler'[g] = handler[g]
    BY <1>4 DEF HandlerFails, WebhooksOK, IdleHandler
  <2> QED
    BY <1>4, <2>1 DEF HandlerFails, NoDuplicates
<1> QED
  BY <1>1, <1>2, <1>3, <1>4 DEF WebhookStep, HandlerStep

LEMMA UniqueSync == UniqueInv /\ SyncStep => NoDuplicates'
<1> SUFFICES ASSUME UniqueInv, SyncStep PROVE NoDuplicates'
  OBVIOUS
<1> USE DEF UniqueInv, TypeInv, TypeOK
<1>1. CASE ListInstances
  BY <1>1 DEF ListInstances, NoDuplicates
<1>2. ASSUME NEW w \in Workers, TakeJob(w) PROVE NoDuplicates'
  <2>1. \A v \in Workers : worker'[v].current = {} \/ worker'[v].current = worker[v].current
    BY <1>2 DEF TakeJob, SyncOK, IdleWorker
  <2> QED
    BY <1>2, <2>1 DEF TakeJob, NoDuplicates, Unique
<1>3. ASSUME NEW w \in Workers, FetchProgress(w) \/ RefetchProgress(w) PROVE NoDuplicates'
  <2>1. worker[w].team \in Teams
    BY <1>3 DEF FetchProgress, RefetchProgress, Assigned
  <2>2. worker'[w].current = live[worker[w].team]
    BY <1>3 DEF FetchProgress, RefetchProgress, SyncOK, WorkerState
  <2>3. \A v \in Workers \ {w} : worker'[v] = worker[v]
    BY <1>3 DEF FetchProgress, RefetchProgress, SyncOK
  <2>4. UNCHANGED <<saved, live, handler>>
    BY <1>3 DEF FetchProgress, RefetchProgress
  <2> QED
    BY <2>1, <2>2, <2>3, <2>4 DEF NoDuplicates
<1>4. ASSUME NEW w \in Workers, Decide(w) PROVE NoDuplicates'
  <2>1. \A v \in Workers : worker'[v].current = {} \/ worker'[v].current = worker[v].current
    BY <1>4 DEF Decide, SyncOK, WorkerState, IdleWorker
  <2> QED
    BY <1>4, <2>1 DEF Decide, NoDuplicates, Unique
<1>5. ASSUME NEW w \in Workers, AfterApply(w)
      PROVE  \A v \in Workers : worker'[v].current = {} \/ worker'[v].current = worker[v].current
  BY <1>5 DEF AfterApply, SyncOK, WorkerState, IdleWorker
<1>6. ASSUME NEW w \in Workers, ApplyChallengeProgress(w) PROVE NoDuplicates'
  <2> DEFINE t == worker[w].team
             restored == {PodEntry(t, c) : c \in Keys(worker[w].last) \ Keys(live[t])}
  <2>1. t \in Teams
    BY <1>6 DEF ApplyChallengeProgress, Assigned
  <2>2. Unique(live[t] \cup restored)
    BY <2>1 DEF NoDuplicates, Unique, PodEntry, Keys
  <2>3. live' = [live EXCEPT ![t] = live[t] \cup restored]
    BY <1>6 DEF ApplyChallengeProgress
  <2>4. \A u \in Teams : Unique(live'[u])
    BY <2>1, <2>2, <2>3 DEF PodsOK, NoDuplicates
  <2>5. \A v \in Workers : worker'[v].current = {} \/ worker'[v].current = worker[v].current
    BY <1>5, <1>6 DEF ApplyChallengeProgress
  <2> QED
    BY <1>6, <2>4, <2>5 DEF ApplyChallengeProgress, NoDuplicates, Unique
<1>7. ASSUME NEW w \in Workers, ApplyFails(w) PROVE NoDuplicates'
  <2>1. \A v \in Workers : worker'[v].current = {} \/ worker'[v].current = worker[v].current
    BY <1>5, <1>7 DEF ApplyFails
  <2> QED
    BY <1>7, <2>1 DEF ApplyFails, NoDuplicates, Unique
<1>8. ASSUME NEW w \in Workers, PersistCurrent(w) PROVE NoDuplicates'
  <2>1. worker[w].team \in Teams
    BY <1>8 DEF PersistCurrent, Assigned
  <2>2. saved' = saved \/ saved' = [saved EXCEPT ![worker[w].team] = worker[w].current]
    BY <1>8 DEF PersistCurrent, PersistProgress
  <2>3. \A u \in Teams : Unique(saved'[u])
    BY <2>1, <2>2 DEF RecordsOK, NoDuplicates
  <2>4. \A v \in Workers : worker'[v].current = {} \/ worker'[v] = worker[v]
    BY <1>8 DEF PersistCurrent, SyncOK, IdleWorker
  <2> QED
    BY <1>8, <2>3, <2>4 DEF PersistCurrent, NoDuplicates, Unique
<1>9. ASSUME NEW w \in Workers, FetchFails(w) \/ PersistCurrentFails(w) PROVE NoDuplicates'
  <2>1. worker' = [worker EXCEPT ![w] = IdleWorker] /\ UNCHANGED <<saved, live, handler>>
    BY <1>9 DEF FetchFails, PersistCurrentFails
  <2>2. \A v \in Workers : worker'[v].current = {} \/ worker'[v] = worker[v]
    BY <2>1 DEF SyncOK, IdleWorker
  <2> QED
    BY <2>1, <2>2 DEF NoDuplicates, Unique
<1> QED
  BY <1>1, <1>2, <1>3, <1>4, <1>6, <1>7, <1>8, <1>9 DEF SyncStep, WorkerStep

LEMMA UniqueInductive == UniqueInv /\ [Next]_vars => UniqueInv'
<1>1. UniqueInv /\ UNCHANGED vars => NoDuplicates'
  BY DEF UniqueInv, NoDuplicates, vars
<1>2. UniqueInv /\ [Next]_vars => NoDuplicates'
  BY <1>1, UniqueEnvironment, UniqueReplica, UniqueWebhook, UniqueSync DEF Next
<1> QED
  BY <1>2, TypeInductive DEF UniqueInv

\* However often a webhook is repeated, on whatever replicas, and however the
\* sync rewrites the list, the annotation never lists a challenge twice.
THEOREM CreditedOnce == Spec => []OneEntryPerChallenge
<1>1. UniqueInv => OneEntryPerChallenge
  BY DEF UniqueInv, NoDuplicates, OneEntryPerChallenge
<1> QED
  BY <1>1, UniqueInit, UniqueInductive, PTL DEF Spec

-----------------------------------------------------------------------------
(* How a recorded solve can be lost. *)

StoreInv == TypeInv /\ StoreKeepsLast

LEMMA StoreInit == Init => StoreInv
  BY TypeInit DEF StoreInv, StoreKeepsLast, Init, IdleWorker

\* Only a decision makes a worker store what it fetched.
LEMMA StoreInductive == StoreInv /\ [Next]_vars => StoreInv'
<1> SUFFICES ASSUME StoreInv, [Next]_vars PROVE StoreKeepsLast'
  BY TypeInductive DEF StoreInv
<1> USE DEF StoreInv, TypeInv, TypeOK
<1>1. ASSUME NEW w \in Workers, Decide(w) PROVE StoreKeepsLast'
  <2>1. worker'[w].pc = "store" =>
           /\ Keys(worker[w].last) \subseteq Keys(worker[w].current)
           /\ worker'[w].last = worker[w].last
           /\ worker'[w].current = worker[w].current
    BY <1>1 DEF Decide, CompareChallengeStates, SyncOK, WorkerState, IdleWorker
  <2>2. \A v \in Workers \ {w} : worker'[v] = worker[v]
    BY <1>1 DEF Decide, SyncOK
  <2> QED
    BY <2>1, <2>2 DEF StoreKeepsLast
<1>2. ASSUME NEW w \in Workers,
             \A v \in Workers \ {w} : worker'[v] = worker[v],
             worker'[w].pc # "store"
      PROVE  StoreKeepsLast'
  BY <1>2 DEF StoreKeepsLast
<1>3. ASSUME NEW w \in Workers, TakeJob(w) \/ FetchProgress(w) \/ RefetchProgress(w)
      PROVE  StoreKeepsLast'
  <2>1. \A v \in Workers \ {w} : worker'[v] = worker[v]
    BY <1>3 DEF TakeJob, FetchProgress, RefetchProgress, SyncOK
  <2>2. TakeJob(w) => worker'[w].pc # "store"
    BY DEF TakeJob, SyncOK, IdleWorker
  <2>3. FetchProgress(w) \/ RefetchProgress(w) => worker'[w].pc # "store"
    BY DEF FetchProgress, RefetchProgress, SyncOK, WorkerState
  <2> QED
    BY <1>2, <1>3, <2>1, <2>2, <2>3
<1>4. ASSUME NEW w \in Workers, AfterApply(w) PROVE StoreKeepsLast'
  <2>1. \A v \in Workers \ {w} : worker'[v] = worker[v]
    BY <1>4 DEF AfterApply, SyncOK
  <2>2. worker'[w].pc # "store"
    BY <1>4 DEF AfterApply, SyncOK, WorkerState, IdleWorker
  <2> QED
    BY <1>2, <2>1, <2>2
<1>5. ASSUME NEW w \in Workers, worker' = [worker EXCEPT ![w] = IdleWorker]
      PROVE  StoreKeepsLast'
  BY <1>2, <1>5 DEF SyncOK, IdleWorker
<1>6. ASSUME NEW r \in Replicas, CrashReplica(r) PROVE StoreKeepsLast'
  BY <1>6 DEF CrashReplica, StoreKeepsLast, IdleWorker
<1>7. CASE LoseLease
  <2>1. \A w \in Workers : /\ worker'[w].pc = worker[w].pc
                           /\ worker'[w].last = worker[w].last
                           /\ worker'[w].current = worker[w].current
    BY <1>7 DEF LoseLease, SyncOK, WorkerState
  <2> QED
    BY <2>1 DEF StoreKeepsLast
<1>8. CASE UNCHANGED worker
  BY <1>8 DEF StoreKeepsLast
<1>9. CASE Environment
  BY <1>8, <1>9 DEF Environment, SolveChallenge, RestartPod, PodReady, EventEnds
<1>10. CASE ReplicaStep
  BY <1>6, <1>7, <1>8, <1>10 DEF ReplicaStep, LoadNotification, AcquireLease
<1>11. CASE WebhookStep
  BY <1>8, <1>11
     DEF WebhookStep, HandlerStep, ReceiveWebhook, ReadDeployment, PersistSolution, HandlerFails
<1>12. CASE ListInstances
  BY <1>8, <1>12 DEF ListInstances
<1>13. ASSUME NEW w \in Workers,
              WorkerStep(w) \/ FetchFails(w) \/ ApplyFails(w) \/ PersistCurrentFails(w)
       PROVE  StoreKeepsLast'
  BY <1>1, <1>3, <1>4, <1>5, <1>13
     DEF WorkerStep, ApplyChallengeProgress, ApplyFails, PersistCurrent, FetchFails,
         PersistCurrentFails
<1> QED
  BY <1>8, <1>9, <1>10, <1>11, <1>12, <1>13 DEF Next, SyncStep, vars

\* Only the patches of the webhook and of the sync write the annotations.
LEMMA WhoWritesSaved ==
  ASSUME [Next]_vars
  PROVE  \/ UNCHANGED saved
         \/ \E h \in Handlers : PersistSolution(h)
         \/ \E w \in Workers : PersistCurrent(w)
<1>1. CASE Environment
  BY <1>1 DEF Environment, SolveChallenge, RestartPod, PodReady, EventEnds
<1>2. CASE ReplicaStep
  BY <1>2 DEF ReplicaStep, LoadNotification, CrashReplica, AcquireLease, LoseLease
<1>3. CASE WebhookStep
  BY <1>3 DEF WebhookStep, HandlerStep, ReceiveWebhook, ReadDeployment, HandlerFails
<1>4. CASE SyncStep
  BY <1>4 DEF SyncStep, ListInstances, WorkerStep, TakeJob, FetchProgress, Decide,
              ApplyChallengeProgress, RefetchProgress, FetchFails, ApplyFails, PersistCurrentFails
<1>5. CASE UNCHANGED vars
  BY <1>5 DEF vars
<1> QED
  BY <1>1, <1>2, <1>3, <1>4, <1>5 DEF Next

LEMMA DropStep ==
  ASSUME StoreInv, [Next]_vars, NEW t \in Teams
  PROVE  Keys(saved[t]) \subseteq Keys(saved'[t]) \/ Superseded(t) \/ Rewritten(t)
<1> USE DEF StoreInv, TypeInv, TypeOK
<1>1. CASE UNCHANGED saved
  BY <1>1
<1>2. ASSUME NEW h \in Handlers, PersistSolution(h)
      PROVE  Keys(saved[t]) \subseteq Keys(saved'[t]) \/ Superseded(t)
  <2> DEFINE hook == handler[h].hook
             progress == handler[h].seen \cup {[key |-> hook.challenge, solvedAt |-> Reported]}
  <2>1. saved' = [saved EXCEPT ![hook.team] = progress] /\ handler[h].pc = "persist"
    BY <1>2 DEF PersistSolution, PersistProgress
  <2>2. handler'[h].pc = "idle"
    BY <1>2 DEF PersistSolution, WebhooksOK, IdleHandler
  <2>3. CASE hook.team # t
    BY <2>1, <2>3 DEF RecordsOK
  <2>4. CASE hook.team = t /\ handler[h].seen # saved[t]
    BY <2>1, <2>2, <2>4 DEF Superseded
  <2>5. CASE hook.team = t /\ handler[h].seen = saved[t]
    <3>1. saved'[t] = progress
      BY <2>1, <2>5 DEF RecordsOK
    <3>2. saved[t] \subseteq saved'[t]
      BY <2>5, <3>1
    <3> QED
      BY <3>2 DEF Keys
  <2> QED
    BY <2>3, <2>4, <2>5
<1>3. ASSUME NEW w \in Workers, PersistCurrent(w)
      PROVE  Keys(saved[t]) \subseteq Keys(saved'[t]) \/ Superseded(t) \/ Rewritten(t)
  <2>1. \/ saved' = saved
        \/ saved' = [saved EXCEPT ![worker[w].team] = worker[w].current]
    BY <1>3 DEF PersistCurrent, PersistProgress
  <2>2. worker[w].pc \in {"store", "rewrite"} /\ worker'[w].pc = "idle"
    BY <1>3 DEF PersistCurrent, SyncOK, IdleWorker
  <2>3. CASE saved' = saved \/ worker[w].team # t
    BY <2>1, <2>3 DEF RecordsOK
  <2>4. CASE worker[w].team = t /\ worker[w].pc = "rewrite"
    BY <2>2, <2>4 DEF Rewritten
  <2>5. CASE worker[w].team = t /\ worker[w].pc = "store" /\ worker[w].last # saved[t]
    BY <2>2, <2>5 DEF Superseded
  <2>6. CASE /\ saved' = [saved EXCEPT ![worker[w].team] = worker[w].current]
             /\ worker[w].team = t /\ worker[w].pc = "store" /\ worker[w].last = saved[t]
    <3>1. saved'[t] = worker[w].current
      BY <2>6 DEF RecordsOK
    <3>2. Keys(worker[w].last) \subseteq Keys(worker[w].current)
      BY <2>6 DEF StoreKeepsLast
    <3> QED
      BY <2>6, <3>1, <3>2
  <2> QED
    BY <2>1, <2>2, <2>3, <2>4, <2>5, <2>6
<1> QED
  BY <1>1, <1>2, <1>3, WhoWritesSaved

\* The webhook and the sync drop a recorded solve only when the annotation has
\* changed since they read it, or after a restore: in a run without overlaps
\* and without restarts PersistProgress loses nothing.
THEOREM DropsOnlyByOverlap == Spec => SolvesDropOnlyByOverlap
<1>1. StoreInv /\ [Next]_vars =>
         [\A t \in Teams :
             Keys(saved[t]) \subseteq Keys(saved'[t]) \/ Superseded(t) \/ Rewritten(t)]_vars
  BY DropStep
<1> QED
  BY <1>1, StoreInit, StoreInductive, PTL DEF Spec, SolvesDropOnlyByOverlap

\* The same for the cheat log, which the sync's patches leave out.
LEMMA WhoWritesCheats ==
  ASSUME [Next]_vars
  PROVE  UNCHANGED cheats \/ \E h \in Handlers : PersistSolution(h)
<1>1. CASE Environment
  BY <1>1 DEF Environment, SolveChallenge, RestartPod, PodReady, EventEnds
<1>2. CASE ReplicaStep
  BY <1>2 DEF ReplicaStep, LoadNotification, CrashReplica, AcquireLease, LoseLease
<1>3. CASE WebhookStep
  BY <1>3 DEF WebhookStep, HandlerStep, ReceiveWebhook, ReadDeployment, HandlerFails
<1>4. CASE SyncStep
  BY <1>4 DEF SyncStep, ListInstances, WorkerStep, TakeJob, FetchProgress, Decide,
              ApplyChallengeProgress, RefetchProgress, PersistCurrent, PersistProgress,
              FetchFails, ApplyFails, PersistCurrentFails
<1>5. CASE UNCHANGED vars
  BY <1>5 DEF vars
<1> QED
  BY <1>1, <1>2, <1>3, <1>4, <1>5 DEF Next

LEMMA CheatsStep ==
  ASSUME TypeInv, [Next]_vars, NEW t \in Teams
  PROVE  \/ cheats[t] \subseteq cheats'[t]
         \/ \E h \in Handlers : /\ handler[h].pc = "persist" /\ handler'[h].pc = "idle"
                                /\ handler[h].hook.team = t /\ handler[h].seenCheats # cheats[t]
<1> USE DEF TypeInv, TypeOK
<1>1. CASE UNCHANGED cheats
  BY <1>1
<1>2. ASSUME NEW h \in Handlers, PersistSolution(h)
      PROVE  \/ cheats[t] \subseteq cheats'[t]
             \/ /\ handler[h].pc = "persist" /\ handler'[h].pc = "idle"
                /\ handler[h].hook.team = t /\ handler[h].seenCheats # cheats[t]
  <2> DEFINE hook == handler[h].hook
             log == handler[h].seenCheats \cup (IF hook.cheat THEN {hook.challenge} ELSE {})
  <2>1. /\ cheats' = IF log = {} THEN cheats ELSE [cheats EXCEPT ![hook.team] = log]
        /\ handler[h].pc = "persist"
    BY <1>2 DEF PersistSolution, PersistProgress
  <2>2. handler'[h].pc = "idle"
    BY <1>2 DEF PersistSolution, WebhooksOK, IdleHandler
  <2>3. CASE hook.team # t \/ log = {}
    BY <2>1, <2>3 DEF RecordsOK
  <2>4. CASE hook.team = t /\ log # {} /\ handler[h].seenCheats = cheats[t]
    BY <2>1, <2>4 DEF RecordsOK
  <2> QED
    BY <2>1, <2>2, <2>3, <2>4
<1> QED
  BY <1>1, <1>2, WhoWritesCheats

\* A cheat score once logged is lost only to a webhook that had read the log
\* before another one wrote it, never to the sync.
THEOREM CheatsKept == Spec => CheatsDropOnlyByOverlap
<1>1. TypeInv /\ [Next]_vars =>
         [\A t \in Teams :
          \/ cheats[t] \subseteq cheats'[t]
          \/ \E h \in Handlers : /\ handler[h].pc = "persist" /\ handler'[h].pc = "idle"
                                 /\ handler[h].hook.team = t /\ handler[h].seenCheats # cheats[t]]_vars
  BY CheatsStep
<1> QED
  BY <1>1, TypeInit, TypeInductive, PTL DEF Spec, CheatsDropOnlyByOverlap

-----------------------------------------------------------------------------
(* The freeze: nothing solved after the end is credited, while the replicas *)
(* know the end date, nothing fails and the pod does not restart.           *)

\* What was in time stays so while the pod only gains solves.
LEMMA TimelyStays ==
  ASSUME NEW t \in Teams, Keys(live[t]) \subseteq Keys(live'[t]), inTime[t] \subseteq inTime'[t],
         ended => ended'
  PROVE  /\ \A challenges : Timely(t, challenges) => Timely(t, challenges)'
         /\ \A request : RequestKept(t, request) => RequestKept(t, request)'
         /\ \A x : WorkerKept(t, x) => WorkerKept(t, x)'
<1>1. \A challenges : Timely(t, challenges) => Timely(t, challenges)'
  BY DEF Timely
<1>2. \A request : RequestKept(t, request) => RequestKept(t, request)'
  BY <1>1 DEF RequestKept
<1>3. \A x : WorkerKept(t, x) => WorkerKept(t, x)'
  BY <1>1 DEF WorkerKept
<1> QED
  BY <1>1, <1>2, <1>3

\* A step keeps the late solves out when what it adds is in time.
LEMMA KeptStep ==
  ASSUME NEW t \in Teams, KeptOut(t),
         Keys(live[t]) \subseteq Keys(live'[t]), inTime[t] \subseteq inTime'[t], ended => ended',
         saved'[t] = saved[t] \/ Timely(t, Keys(saved[t]))',
         ended' \/ Keys(live'[t]) \subseteq inTime'[t],
         \A hook \in webhooks' :
            hook \in webhooks \/ (hook.team = t => hook.challenge \in Keys(live'[t])),
         \A h \in Handlers : handler'[h] = handler[h] \/ RequestKept(t, handler[h])',
         \A job \in jobs' : job \in jobs \/ (job.team = t => Timely(t, Keys(job.last))'),
         \A w \in Workers : worker'[w] = worker[w] \/ WorkerKept(t, worker[w])'
  PROVE  KeptOut(t)'
<1>1. Timely(t, Keys(saved[t]))'
  BY TimelyStays DEF KeptOut
<1>2. \A hook \in webhooks' : hook.team = t => hook.challenge \in Keys(live'[t])
  BY DEF KeptOut
<1>3. \A h \in Handlers : RequestKept(t, handler[h])'
  BY TimelyStays DEF KeptOut
<1>4. \A job \in jobs' : job.team = t => Timely(t, Keys(job.last))'
  BY TimelyStays DEF KeptOut
<1>5. \A w \in Workers : WorkerKept(t, worker[w])'
  BY TimelyStays DEF KeptOut
<1> QED
  BY <1>1, <1>2, <1>3, <1>4, <1>5 DEF KeptOut

\* An idle request and an idle worker are about no team.
LEMMA IdleKept ==
  ASSUME NEW t
  PROVE  RequestKept(t, IdleHandler)' /\ WorkerKept(t, IdleWorker)'
  BY DEF RequestKept, WorkerKept, IdleHandler, IdleWorker

LEMMA FreezeInit == Init => FreezeHolds
<1> SUFFICES ASSUME Init, FreezeOnEnd, Prepared = Replicas
             PROVE  EndKnown /\ \A t \in Teams : KeptOut(t)
  BY DEF FreezeHolds
<1>1. EndKnown
  BY DEF Init, EndKnown, IdleWorker
<1>2. ASSUME NEW t \in Teams PROVE KeptOut(t)
  <2>1. Keys(saved[t]) = {} /\ Keys(live[t]) = {}
    BY KeysEmpty DEF Init
  <2>2. webhooks = {} /\ jobs = {}
    BY DEF Init
  <2>3. (\A h \in Handlers : handler[h].pc = "idle") /\ \A w \in Workers : worker[w].pc = "idle"
    BY DEF Init, IdleHandler, IdleWorker
  <2> QED
    BY <2>1, <2>2, <2>3 DEF KeptOut, Timely, RequestKept, WorkerKept
<1> QED
  BY <1>1, <1>2

FreezeNow ==
    /\ FreezeOnEnd /\ Prepared = Replicas
    /\ EndKnown
    /\ \A t \in Teams : pod[t] = 0 => KeptOut(t)

LEMMA KeysOfOneMore ==
  ASSUME NEW progress, NEW e
  PROVE  Keys(progress \cup {e}) = Keys(progress) \cup {e.key}
  BY DEF Keys

LEMMA NothingFailed ==
  ASSUME TypeInv, failures' = 0
  PROVE  ~Fail
  BY DEF TypeInv, TypeOK, ControlOK, Fail

LEMMA FreezeEnvironment ==
  ASSUME TypeInv, FreezeNow, Environment
  PROVE  FreezeNow'
<1> USE DEF TypeInv, TypeOK
<1>1. ASSUME NEW u \in Teams, NEW c \in Challenges, SolveChallenge(u, c)
      PROVE  FreezeNow'
  <2>1. EndKnown' /\ UNCHANGED <<pod, ended, saved, handler, jobs, worker>>
    BY <1>1 DEF SolveChallenge, EndKnown, FreezeNow
  <2>2. PICK cheat \in CheatReports :
           webhooks' = webhooks \cup {[team |-> u, challenge |-> c, cheat |-> cheat]}
    BY <1>1 DEF SolveChallenge
  <2>3. ASSUME NEW t \in Teams, KeptOut(t) PROVE KeptOut(t)'
    <3>1. CASE t # u
      <4>1. live'[t] = live[t] /\ inTime'[t] = inTime[t]
        BY <1>1, <3>1 DEF SolveChallenge, PodsOK
      <4>2. ended \/ Keys(live[t]) \subseteq inTime[t]
        BY <2>3 DEF KeptOut
      <4> QED
        BY <2>1, <2>2, <2>3, <3>1, <4>1, <4>2, KeptStep
    <3>2. CASE t = u
      <4>1. live'[t] = live[t] \cup {PodEntry(t, c)}
        BY <1>1, <3>2 DEF SolveChallenge, PodsOK
      <4>2. Keys(live'[t]) = Keys(live[t]) \cup {c}
        <5>1. PodEntry(t, c).key = c
          BY DEF PodEntry
        <5> QED
          BY <4>1, <5>1, KeysOfOneMore
      <4>3. inTime[t] \subseteq inTime'[t] /\ (ended \/ c \in inTime'[t])
        BY <1>1, <3>2 DEF SolveChallenge, PodsOK
      <4>4. ended \/ Keys(live[t]) \subseteq inTime[t]
        BY <2>3 DEF KeptOut
      <4>5. \A hook \in webhooks' :
               hook \in webhooks \/ (hook.team = t => hook.challenge \in Keys(live'[t]))
        BY <2>2, <4>2
      <4>6. ended' \/ Keys(live'[t]) \subseteq inTime'[t]
        BY <2>1, <4>2, <4>3, <4>4
      <4> QED
        BY <2>1, <2>3, <4>2, <4>3, <4>5, <4>6, KeptStep
    <3> QED
      BY <3>1, <3>2
  <2> QED
    BY <2>1, <2>3 DEF FreezeNow
<1>2. ASSUME NEW u \in Teams, RestartPod(u) PROVE FreezeNow'
  <2>1. EndKnown' /\ UNCHANGED <<ended, inTime, saved, webhooks, handler, jobs, worker>>
    BY <1>2 DEF RestartPod, EndKnown, FreezeNow
  <2>2. ASSUME NEW t \in Teams, pod'[t] = 0 PROVE KeptOut(t)'
    <3>1. t # u
      BY <1>2, <2>2, BoundsAssumption DEF RestartPod, PodsOK
    <3>2. live'[t] = live[t] /\ pod'[t] = pod[t]
      BY <1>2, <3>1 DEF RestartPod, PodsOK
    <3>3. KeptOut(t)
      BY <2>2, <3>2 DEF FreezeNow
    <3>4. ended \/ Keys(live[t]) \subseteq inTime[t]
      BY <3>3 DEF KeptOut
    <3> QED
      BY <2>1, <3>2, <3>3, <3>4, KeptStep
  <2> QED
    BY <2>1, <2>2 DEF FreezeNow
<1>3. ASSUME NEW u \in Teams, PodReady(u) PROVE FreezeNow'
  BY <1>3 DEF PodReady, FreezeNow, EndKnown, KeptOut, Timely, RequestKept, WorkerKept
<1>4. CASE EventEnds
  <2>1. /\ EndKnown' /\ UNCHANGED <<pod, live, inTime, saved, webhooks, handler, jobs, worker>>
        /\ ended' = TRUE
    BY <1>4 DEF EventEnds, EndKnown, FreezeNow
  <2>2. \A t \in Teams : KeptOut(t) => KeptOut(t)'
    BY <2>1, KeptStep
  <2> QED
    BY <2>1, <2>2 DEF FreezeNow
<1> QED
  BY <1>1, <1>2, <1>3, <1>4 DEF Environment

\* The same annotations, pods, webhooks and event.
LEMMA SameOutside ==
  ASSUME FreezeNow, EndKnown', UNCHANGED <<pods, saved, webhooks, ended, inTime>>,
         \A t \in Teams : KeptOut(t) =>
            /\ \A h \in Handlers : handler'[h] = handler[h] \/ RequestKept(t, handler[h])'
            /\ \A job \in jobs' : job \in jobs \/ (job.team = t => Timely(t, Keys(job.last))')
            /\ \A w \in Workers : worker'[w] = worker[w] \/ WorkerKept(t, worker[w])'
  PROVE  FreezeNow'
<1>1. ASSUME NEW t \in Teams, KeptOut(t) PROVE KeptOut(t)'
  <2>1. ended \/ Keys(live[t]) \subseteq inTime[t]
    BY <1>1 DEF KeptOut
  <2> QED
    BY <1>1, <2>1, KeptStep
<1> QED
  BY <1>1 DEF FreezeNow

LEMMA FreezeReplica ==
  ASSUME TypeInv, FreezeNow, ReplicaStep, failures' = 0
  PROVE  FreezeNow'
<1>1. ~Fail
  BY NothingFailed
<1>2. PICK r \in Replicas : LoadNotification(r) \/ AcquireLease(r)
  BY <1>1 DEF ReplicaStep, CrashReplica, LoseLease
<1>3. EndKnown' /\ UNCHANGED <<pods, saved, webhooks, ended, inTime, handler, jobs, worker>>
  BY <1>2 DEF LoadNotification, AcquireLease, FreezeNow, EndKnown, TypeInv, TypeOK, ControlOK
<1> QED
  BY <1>3, SameOutside

LEMMA FreezeWebhook ==
  ASSUME TypeInv, FreezeNow, WebhookStep, failures' = 0
  PROVE  FreezeNow'
<1> USE DEF TypeInv, TypeOK
<1>1. ~Fail
  BY NothingFailed
<1>2. ASSUME NEW h \in Handlers, NEW r \in Replicas, NEW hook \in webhooks, ReceiveWebhook(h, r, hook)
      PROVE  FreezeNow'
  <2>1. EndKnown' /\ UNCHANGED <<pods, saved, ended, inTime, jobs, worker>> /\ webhooks' \subseteq webhooks
    BY <1>1, <1>2 DEF ReceiveWebhook, FreezeNow, EndKnown
  <2> DEFINE received == [IdleHandler EXCEPT !.pc = "lookup", !.replica = r, !.hook = hook]
  <2>2. received.hook = hook /\ Keys(received.seen) = {}
    BY KeysEmpty DEF IdleHandler
  <2> HIDE DEF received
  <2>3. ended => handler' = handler
    BY <1>2 DEF ReceiveWebhook, IsScoreboardFrozen, FreezeNow, EndKnown
  <2>4. handler' = handler \/ handler' = [handler EXCEPT ![h] = received]
    BY <1>2 DEF ReceiveWebhook, received
  <2>5. ASSUME NEW t \in Teams, KeptOut(t) PROVE KeptOut(t)'
    <3>1. ~ended => RequestKept(t, received)'
      BY <2>1, <2>2, <2>5 DEF KeptOut, RequestKept, Timely
    <3>2. \A g \in Handlers : handler'[g] = handler[g] \/ RequestKept(t, handler[g])'
      BY <2>3, <2>4, <3>1 DEF WebhooksOK
    <3>3. ended \/ Keys(live[t]) \subseteq inTime[t]
      BY <2>5 DEF KeptOut
    <3> QED
      BY <2>1, <2>5, <3>2, <3>3, KeptStep
  <2> QED
    BY <2>1, <2>5 DEF FreezeNow
<1>3. ASSUME NEW h \in Handlers, ReadDeployment(h) PROVE FreezeNow'
  <2>1. EndKnown' /\ UNCHANGED <<pods, saved, webhooks, ended, inTime, jobs, worker>>
    BY <1>3 DEF ReadDeployment, FreezeNow, EndKnown
  <2>2. \A g \in Handlers : \/ handler'[g] = handler[g]
                            \/ handler'[g] = IdleHandler
                            \/ /\ g = h /\ handler[h].pc # "idle"
                               /\ handler'[h].hook = handler[h].hook
                               /\ handler'[h].seen = saved[handler[h].hook.team]
    BY <1>3 DEF ReadDeployment, WebhooksOK, HandlerState
  <2>3. ASSUME NEW t \in Teams, KeptOut(t), NEW g \in Handlers
        PROVE  handler'[g] = handler[g] \/ RequestKept(t, handler[g])'
    <3>1. CASE handler'[g] = IdleHandler
      BY <3>1, IdleKept DEF RequestKept, IdleHandler
    <3>2. CASE /\ g = h /\ handler[h].pc # "idle" /\ handler'[h].hook = handler[h].hook
               /\ handler'[h].seen = saved[handler[h].hook.team]
      <4>1. RequestKept(t, handler[h]) /\ Timely(t, Keys(saved[t]))
        BY <2>3 DEF KeptOut
      <4> QED
        BY <2>1, <3>2, <4>1 DEF RequestKept, Timely
    <3> QED
      BY <2>2, <3>1, <3>2
  <2> QED
    BY <2>1, <2>3, SameOutside
<1>4. ASSUME NEW h \in Handlers, PersistSolution(h) PROVE FreezeNow'
  <2> DEFINE u == handler[h].hook.team
             c == handler[h].hook.challenge
             progress == handler[h].seen \cup {[key |-> c, solvedAt |-> Reported]}
  <2>1. handler[h].pc # "idle" /\ u \in Teams
    BY <1>4 DEF PersistSolution, Assigned, Hook
  <2>2. saved' = [saved EXCEPT ![u] = progress]
    BY <1>4 DEF PersistSolution, PersistProgress
  <2>3. Keys(progress) \subseteq Keys(handler[h].seen) \cup {c}
    BY DEF Keys
  <2>4. EndKnown' /\ UNCHANGED <<pods, webhooks, ended, inTime, jobs, worker>>
    BY <1>4 DEF PersistSolution, FreezeNow, EndKnown
  <2>5. \A g \in Handlers : handler'[g] = handler[g] \/ handler'[g] = IdleHandler
    BY <1>4 DEF PersistSolution, WebhooksOK
  <2> HIDE DEF progress
  <2>6. ASSUME NEW t \in Teams, KeptOut(t) PROVE KeptOut(t)'
    <3>1. saved'[t] = saved[t] \/ Timely(t, Keys(saved[t]))'
      <4>1. CASE t = u
        <5>1. RequestKept(t, handler[h])
          BY <2>6 DEF KeptOut
        <5>2. saved'[t] = progress
          BY <2>1, <2>2, <4>1 DEF RecordsOK
        <5> QED
          BY <2>1, <2>3, <2>4, <4>1, <5>1, <5>2 DEF RequestKept, Timely
      <4>2. CASE t # u
        BY <2>2, <4>2 DEF RecordsOK
      <4> QED
        BY <4>1, <4>2
    <3>2. \A g \in Handlers : handler'[g] = handler[g] \/ RequestKept(t, handler[g])'
      BY <2>5, IdleKept DEF RequestKept, IdleHandler
    <3>3. ended \/ Keys(live[t]) \subseteq inTime[t]
      BY <2>6 DEF KeptOut
    <3> QED
      BY <2>4, <2>6, <3>1, <3>2, <3>3, KeptStep
  <2> QED
    BY <2>4, <2>6 DEF FreezeNow
<1> QED
  BY <1>1, <1>2, <1>3, <1>4 DEF WebhookStep, HandlerStep, HandlerFails

\* What is left of a job about a team that is kept out of is none: its worker
\* is idle, or was on another team's.
LEMMA NotThere ==
  ASSUME NEW t \in Teams, KeptOut(t), NEW w \in Workers,
         worker[w].pc \in {"apply", "refetch", "rewrite"}
  PROVE  worker[w].team # t
<1>1. WorkerKept(t, worker[w])
  BY DEF KeptOut
<1> QED
  BY <1>1 DEF WorkerKept

LEMMA FreezeSync ==
  ASSUME TypeInv, FreezeNow, SyncStep, failures' = 0
  PROVE  FreezeNow'
<1> USE DEF TypeInv, TypeOK
<1>1. ~Fail
  BY NothingFailed
<1>2. CASE ListInstances
  <2>1. EndKnown' /\ UNCHANGED <<pods, saved, webhooks, ended, inTime, handler, worker>>
    BY <1>2 DEF ListInstances, FreezeNow, EndKnown, SyncOK
  <2>2. \A job \in jobs' : job.last = saved[job.team]
    BY <1>2 DEF ListInstances
  <2>3. \A t \in Teams : KeptOut(t) =>
           \A job \in jobs' : job.team = t => Timely(t, Keys(job.last))'
    BY <2>1, <2>2 DEF KeptOut, Timely
  <2> QED
    BY <2>1, <2>3, SameOutside
<1>3. ASSUME NEW w \in Workers, TakeJob(w) PROVE FreezeNow'
  <2>1. PICK job \in jobs :
              /\ jobs' = jobs \ {job}
              /\ worker' = [worker EXCEPT ![w] = [IdleWorker EXCEPT !.pc = "fetch",
                                !.replica = leader, !.team = job.team, !.last = job.last]]
    BY <1>3 DEF TakeJob
  <2>2. /\ worker'[w].pc = "fetch" /\ worker'[w].replica = leader
        /\ worker'[w].team = job.team /\ worker'[w].last = job.last
    BY <2>1 DEF SyncOK, IdleWorker
  <2>3. \A v \in Workers \ {w} : worker'[v] = worker[v]
    BY <2>1 DEF SyncOK
  <2>4. EndKnown' /\ UNCHANGED <<pods, saved, webhooks, ended, inTime, handler>>
    BY <1>3, <2>1, <2>2, <2>3 DEF TakeJob, FreezeNow, EndKnown
  <2>5. \A t \in Teams : KeptOut(t) => WorkerKept(t, worker[w])'
    BY <2>2, <2>4 DEF KeptOut, WorkerKept, Timely
  <2> QED
    BY <2>1, <2>3, <2>4, <2>5, SameOutside
<1>4. ASSUME NEW w \in Workers, FetchProgress(w) PROVE FreezeNow'
  <2>1. /\ worker[w].pc = "fetch" /\ worker'[w].pc = "decide"
        /\ worker'[w].replica = worker[w].replica
        /\ worker'[w].team = worker[w].team
        /\ worker'[w].last = worker[w].last
        /\ worker'[w].current = live[worker[w].team]
    BY <1>4 DEF FetchProgress, SyncOK, WorkerState
  <2>2. \A v \in Workers \ {w} : worker'[v] = worker[v]
    BY <1>4 DEF FetchProgress, SyncOK
  <2>3. EndKnown' /\ UNCHANGED <<pods, saved, webhooks, ended, inTime, handler, jobs>>
    BY <1>4, <2>1, <2>2 DEF FetchProgress, FreezeNow, EndKnown
  <2>4. ASSUME NEW t \in Teams, KeptOut(t) PROVE WorkerKept(t, worker[w])'
    <3>1. WorkerKept(t, worker[w]) /\ (ended \/ Keys(live[t]) \subseteq inTime[t])
      BY <2>4 DEF KeptOut
    <3> QED
      BY <2>1, <2>3, <3>1 DEF WorkerKept, Timely
  <2> QED
    BY <2>2, <2>3, <2>4, SameOutside
<1>5. ASSUME NEW w \in Workers, RefetchProgress(w) PROVE FreezeNow'
  <2>1. /\ worker[w].pc = "refetch"
        /\ worker'[w].replica = worker[w].replica
        /\ worker'[w].team = worker[w].team
    BY <1>5 DEF RefetchProgress, SyncOK, WorkerState
  <2>2. \A v \in Workers \ {w} : worker'[v] = worker[v]
    BY <1>5 DEF RefetchProgress, SyncOK
  <2>3. EndKnown' /\ UNCHANGED <<pods, saved, webhooks, ended, inTime, handler, jobs>>
    BY <1>5, <2>1, <2>2 DEF RefetchProgress, FreezeNow, EndKnown
  <2>4. \A t \in Teams : KeptOut(t) => WorkerKept(t, worker[w])'
    BY <2>1, NotThere DEF WorkerKept
  <2> QED
    BY <2>2, <2>3, <2>4, SameOutside
<1>6. ASSUME NEW w \in Workers, Decide(w) PROVE FreezeNow'
  <2>1. /\ worker[w].pc = "decide"
        /\ worker'[w].pc # "idle" => /\ worker'[w].replica = worker[w].replica
                                     /\ worker'[w].team = worker[w].team
                                     /\ worker'[w].last = worker[w].last
                                     /\ worker'[w].current = worker[w].current
    BY <1>6 DEF Decide, SyncOK, WorkerState, IdleWorker
  <2>2. worker[w].replica \in Replicas
    BY <2>1 DEF FreezeNow, EndKnown
  <2>3. IsScoreboardFrozen(worker[w].replica) <=> ended
    BY <2>2 DEF IsScoreboardFrozen, FreezeNow, EndKnown
  <2>4. \/ worker'[w].pc = "idle"
        \/ worker'[w].pc = "store" /\ ~ended
        \/ ~(Keys(worker[w].last) \subseteq Keys(worker[w].current))
    <3> DEFINE decision == CompareChallengeStates(worker[w].current, worker[w].last)
    <3>1. decision = "ApplyCode" => ~(Keys(worker[w].last) \subseteq Keys(worker[w].current))
      BY DEF CompareChallengeStates
    <3>2. decision \in {"NoOp", "UpdateCache", "ApplyCode"}
      BY DEF CompareChallengeStates
    <3> HIDE DEF decision
    <3> DEFINE frozen == IsScoreboardFrozen(worker[w].replica)
    <3>3. worker' = [worker EXCEPT ![w] =
               CASE decision = "ApplyCode" -> [@ EXCEPT !.pc = "apply", !.frozen = frozen]
                 [] decision = "UpdateCache" /\ ~frozen -> [@ EXCEPT !.pc = "store"]
                 [] OTHER -> IdleWorker]
      BY <1>6 DEF Decide, decision
    <3> HIDE DEF frozen
    <3>4. CASE decision = "UpdateCache" /\ ~frozen
      BY <2>3, <3>3, <3>4 DEF SyncOK, WorkerState, frozen
    <3>5. CASE decision # "ApplyCode" /\ ~(decision = "UpdateCache" /\ ~frozen)
      <4>1. worker'[w] = IdleWorker
        BY <3>3, <3>5 DEF SyncOK
      <4> QED
        BY <4>1 DEF IdleWorker
    <3> QED
      BY <3>1, <3>4, <3>5
  <2>5. \A v \in Workers \ {w} : worker'[v] = worker[v]
    BY <1>6 DEF Decide, SyncOK
  <2>6. EndKnown' /\ UNCHANGED <<pods, saved, webhooks, ended, inTime, handler, jobs>>
    BY <1>6, <2>1, <2>5 DEF Decide, FreezeNow, EndKnown
  <2>7. ASSUME NEW t \in Teams, KeptOut(t) PROVE WorkerKept(t, worker[w])'
    <3>1. WorkerKept(t, worker[w])
      BY <2>7 DEF KeptOut
    <3> QED
      BY <2>1, <2>4, <2>6, <3>1 DEF WorkerKept, Timely
  <2> QED
    BY <2>5, <2>6, <2>7, SameOutside
<1>7. ASSUME NEW w \in Workers, ApplyChallengeProgress(w) \/ ApplyFails(w) PROVE FreezeNow'
  <2>1. worker[w].pc = "apply" /\ AfterApply(w) /\ worker[w].team \in Teams
    BY <1>7 DEF ApplyChallengeProgress, ApplyFails, Assigned
  <2>2. UNCHANGED <<pod, saved, webhooks, ended, inTime, handler, jobs, loaded, leader>>
    BY <1>7 DEF ApplyChallengeProgress, ApplyFails
  <2>3. \A t \in Teams : t # worker[w].team => live'[t] = live[t]
    BY <1>7 DEF ApplyChallengeProgress, ApplyFails, PodsOK
  <2>4. \A v \in Workers \ {w} : worker'[v] = worker[v]
    BY <2>1 DEF AfterApply, SyncOK
  <2>5. worker'[w].pc # "idle" => /\ worker'[w].team = worker[w].team
                                  /\ worker'[w].replica = worker[w].replica
    BY <2>1 DEF AfterApply, SyncOK, WorkerState, IdleWorker
  <2>6. EndKnown'
    BY <2>1, <2>2, <2>4, <2>5 DEF FreezeNow, EndKnown
  <2>7. ASSUME NEW t \in Teams, KeptOut(t) PROVE KeptOut(t)'
    <3>1. t # worker[w].team
      BY <2>1, <2>7, NotThere
    <3>2. WorkerKept(t, worker[w])'
      BY <2>5, <3>1 DEF WorkerKept
    <3>3. ended \/ Keys(live[t]) \subseteq inTime[t]
      BY <2>7 DEF KeptOut
    <3> QED
      BY <2>2, <2>3, <2>4, <2>7, <3>1, <3>2, <3>3, KeptStep
  <2> QED
    BY <2>2, <2>6, <2>7 DEF FreezeNow
<1>8. ASSUME NEW w \in Workers, PersistCurrent(w) PROVE FreezeNow'
  <2>1. worker[w].pc \in {"store", "rewrite"} /\ worker[w].team \in Teams
    BY <1>8 DEF PersistCurrent, Assigned
  <2>2. saved' = saved \/ saved' = [saved EXCEPT ![worker[w].team] = worker[w].current]
    BY <1>8 DEF PersistCurrent, PersistProgress
  <2>3. \A v \in Workers : worker'[v] = worker[v] \/ worker'[v] = IdleWorker
    BY <1>8 DEF PersistCurrent, SyncOK
  <2>4. EndKnown' /\ UNCHANGED <<pods, webhooks, ended, inTime, handler, jobs>>
    BY <1>8, <2>3 DEF PersistCurrent, FreezeNow, EndKnown, IdleWorker
  <2>5. ASSUME NEW t \in Teams, KeptOut(t) PROVE KeptOut(t)'
    <3>1. WorkerKept(t, worker[w])
      BY <2>5 DEF KeptOut
    <3>2. worker[w].team = t => Timely(t, Keys(worker[w].current))
      BY <2>1, <3>1 DEF WorkerKept
    <3>3. saved'[t] = saved[t] \/ (worker[w].team = t /\ saved'[t] = worker[w].current)
      BY <2>1, <2>2 DEF RecordsOK
    <3>4. saved'[t] = saved[t] \/ Timely(t, Keys(saved[t]))'
      BY <2>4, <3>2, <3>3 DEF Timely
    <3>5. ended \/ Keys(live[t]) \subseteq inTime[t]
      BY <2>5 DEF KeptOut
    <3>6. \A v \in Workers : worker'[v] = worker[v] \/ WorkerKept(t, worker[v])'
      BY <2>3 DEF WorkerKept, IdleWorker
    <3> QED
      BY <2>4, <2>5, <3>4, <3>5, <3>6, KeptStep
  <2> QED
    BY <2>4, <2>5 DEF FreezeNow
<1>9. ASSUME NEW w \in Workers, FetchFails(w) PROVE FreezeNow'
  <2>1. \A v \in Workers : worker'[v] = worker[v] \/ worker'[v] = IdleWorker
    BY <1>9 DEF FetchFails, SyncOK
  <2>2. EndKnown' /\ UNCHANGED <<pods, saved, webhooks, ended, inTime, handler, jobs>>
    BY <1>9, <2>1 DEF FetchFails, FreezeNow, EndKnown, IdleWorker
  <2>3. \A t \in Teams, v \in Workers : worker'[v] = worker[v] \/ WorkerKept(t, worker[v])'
    BY <2>1 DEF WorkerKept, IdleWorker
  <2> QED
    BY <2>2, <2>3, SameOutside
<1> QED
  BY <1>1, <1>2, <1>3, <1>4, <1>5, <1>6, <1>7, <1>8, <1>9 DEF SyncStep, WorkerStep, PersistCurrentFails

LEMMA FreezeInductive == TypeInv /\ FreezeHolds /\ [Next]_vars => FreezeHolds'
<1> SUFFICES ASSUME TypeInv, FreezeHolds, [Next]_vars,
                    FreezeOnEnd, Prepared = Replicas, failures' = 0
             PROVE  FreezeNow'
  BY DEF FreezeHolds, FreezeNow
<1>1. ~Fail
  BY NothingFailed
<1>2. failures = 0
  BY <1>1 DEF Next, Environment, SolveChallenge, RestartPod, PodReady, EventEnds,
       ReplicaStep, LoadNotification, CrashReplica, AcquireLease, LoseLease,
       WebhookStep, HandlerStep, ReceiveWebhook, ReadDeployment, PersistSolution, HandlerFails,
       SyncStep, WorkerStep, ListInstances, TakeJob, FetchProgress, Decide,
       ApplyChallengeProgress, RefetchProgress, PersistCurrent, FetchFails, ApplyFails,
       PersistCurrentFails, vars
<1>3. FreezeNow
  BY <1>2 DEF FreezeHolds, FreezeNow
<1>4. CASE UNCHANGED vars
  <2>1. /\ EndKnown'
        /\ UNCHANGED <<pods, saved, webhooks, ended, inTime, handler, jobs, worker>>
    BY <1>3, <1>4 DEF vars, FreezeNow, EndKnown
  <2> QED
    BY <1>3, <2>1, SameOutside
<1> QED
  BY <1>3, <1>4, FreezeEnvironment, FreezeReplica, FreezeWebhook, FreezeSync DEF Next

\* While every replica knows the end date, nothing fails and a team's pod does not
\* restart, no order of webhooks and sync jobs credits it with a solve made after
\* the event's end: the check on receipt and the flag read by the sync keep it out.
THEOREM LateSolvesStayOut == Spec => []FrozenScoresStay
<1>1. FreezeHolds => FrozenScoresStay
  BY DEF FreezeHolds, FrozenScoresStay, KeptOut, Timely
<1>2. Spec => []TypeInv
  BY TypeInit, TypeInductive, PTL DEF Spec
<1>3. Spec => []FreezeHolds
  BY <1>2, FreezeInit, FreezeInductive, PTL DEF Spec
<1> QED
  BY <1>1, <1>3, PTL

=============================================================================
