---------------------------- MODULE ProgressSync ----------------------------
(***************************************************************************)
(* How MultiJuicer keeps the challenges a team has solved.                 *)
(*                                                                         *)
(* A Juice Shop pod holds its solves in memory (live) and loses them when  *)
(* it restarts.  MultiJuicer keeps a copy in an annotation of the team's   *)
(* deployment (saved), written without any version check by two kinds of   *)
(* writer:                                                                 *)
(*   - the solutions webhook, on every replica: read the annotation, add   *)
(*     the reported solve, patch the annotation;                           *)
(*   - the background sync, on the leader: list the annotations, fetch     *)
(*     what each pod holds, and either patch the annotation with it or     *)
(*     restore the saved solves to a pod that lost them.                   *)
(* Every read, fetch, restore and patch is one step here, so that the      *)
(* writers interleave as they do in the running system.                    *)
(***************************************************************************)
EXTENDS Naturals, FiniteSets

CONSTANTS
    Teams,          \* the teams, each with one Juice Shop deployment
    Challenges,     \* the challenge keys of the Juice Shop
    Replicas,       \* the MultiJuicer replicas
    Handlers,       \* webhook requests that can be in flight at a time
    Workers,        \* sync goroutines that can be at work at a time
    NoOne,          \* stands for "no replica", "no team", "no webhook"
    Prepared,       \* replicas that know the notification from the start
    FreezeOnEnd,    \* whether the event freezes the scoreboard at its end
    CheatReports,   \* whether a webhook may carry a cheat score
    MaxRestarts,    \* bound: restarts of one Juice Shop pod
    MaxFailures     \* bound: failed calls, duplicates, crashes, lost leases

ASSUME ReplicasAssumption == NoOne \notin Replicas /\ Prepared \subseteq Replicas
ASSUME TeamsAssumption == NoOne \notin Teams
ASSUME FlagsAssumption == FreezeOnEnd \in BOOLEAN /\ CheatReports \subseteq BOOLEAN
ASSUME BoundsAssumption == MaxRestarts \in Nat /\ MaxFailures \in Nat

VARIABLES
    live,       \* live[t]: the solves the pod of team t holds
    up,         \* up[t]: the pod of team t is ready and answers
    pod,        \* pod[t]: how often that pod has restarted
    saved,      \* saved[t]: the annotation "challenges" of the deployment
    cheats,     \* cheats[t]: the solves the annotation "cheatScores" tells of
    webhooks,   \* the webhooks on their way from a Juice Shop
    handler,    \* handler[h]: a webhook request being handled
    leader,     \* the replica that holds the lease
    jobs,       \* the jobs the leader's producer has still to hand out
    worker,     \* worker[w]: a sync worker and the job it is on
    loaded,     \* loaded[r]: replica r has read the notification ConfigMap
    ended,      \* the event's end date has passed
    failures,   \* how much of MaxFailures is used up
    solved,     \* history: every solve the players of a team have made
    inTime      \* history: those of them made before the event's end

pods    == <<live, up, pod>>
shared  == <<saved, cheats>>
history == <<solved, inTime>>
vars == <<pods, shared, webhooks, handler, leader, jobs, worker, loaded, ended,
          failures, history>>

-----------------------------------------------------------------------------
(* Progress: a list of solves sorted by key, as the set of its entries.    *)

\* The webhook writes the time of its report (stamp 0), in another format
\* than the pod's own "updatedAt", which starts afresh in each incarnation
\* of the pod (stamps 1, 2, ...).
Stamps == 0 .. MaxRestarts + 1
Reported == 0

Entry == [key : Challenges, solvedAt : Stamps]
Progress == SUBSET Entry
Keys(progress) == {e.key : e \in progress}
PodEntry(t, c) == [key |-> c, solvedAt |-> pod[t] + 1]

\* Mutant: the two lists are mixed up.
CompareReversed(current, last) ==
    IF current = last THEN "NoOp"
    ELSE IF Keys(current) \subseteq Keys(last) THEN "UpdateCache"
    ELSE "ApplyCode"

\* Mutant: sees nothing to do when the pod has nothing new.
CompareNewOnly(current, last) ==
    IF Keys(current) \subseteq Keys(last) THEN "NoOp"
    ELSE IF Keys(last) \subseteq Keys(current) THEN "UpdateCache"
    ELSE "ApplyCode"

\* What the sync decides for a pod that holds current while last is saved.
\* NoOp takes equal time stamps, not only equal keys.
CompareChallengeStates(current, last) ==
    IF current = last THEN "NoOp"
    ELSE IF Keys(last) \subseteq Keys(current) THEN "UpdateCache"
    ELSE "ApplyCode"

Hook == [team : Teams, challenge : Challenges, cheat : CheatReports]

HandlerState == [pc : {"idle", "lookup", "persist"},
                 replica : Replicas \cup {NoOne},
                 hook : Hook \cup {NoOne},
                 seen : Progress,
                 seenCheats : SUBSET Challenges]

IdleHandler == [pc |-> "idle", replica |-> NoOne, hook |-> NoOne,
                seen |-> {}, seenCheats |-> {}]

Job == [team : Teams, last : Progress]

\* "store" persists what was fetched, "rewrite" what was fetched again after
\* a restore: both are PersistProgress.
WorkerState == [pc : {"idle", "fetch", "decide", "store", "apply", "refetch", "rewrite"},
                replica : Replicas \cup {NoOne},
                team : Teams \cup {NoOne},
                last : Progress,
                current : Progress,
                frozen : BOOLEAN,
                cancelled : BOOLEAN]

IdleWorker == [pc |-> "idle", replica |-> NoOne, team |-> NoOne, last |-> {},
               current |-> {}, frozen |-> FALSE, cancelled |-> FALSE]

\* Before its first read of the ConfigMap a replica takes the scoreboard to
\* be open.
IsScoreboardFrozen(r) == loaded[r] /\ FreezeOnEnd /\ ended

Fail == failures < MaxFailures /\ failures' = failures + 1

-----------------------------------------------------------------------------
Init ==
    /\ live = [t \in Teams |-> {}]
    /\ up = [t \in Teams |-> TRUE]
    /\ pod = [t \in Teams |-> 0]
    /\ saved = [t \in Teams |-> {}]
    /\ cheats = [t \in Teams |-> {}]
    /\ webhooks = {}
    /\ handler = [h \in Handlers |-> IdleHandler]
    /\ leader = NoOne
    /\ jobs = {}
    /\ worker = [w \in Workers |-> IdleWorker]
    /\ loaded = [r \in Replicas |-> r \in Prepared]
    /\ ended = FALSE
    /\ failures = 0
    /\ solved = [t \in Teams |-> {}]
    /\ inTime = [t \in Teams |-> {}]

-----------------------------------------------------------------------------
(* The Juice Shops, their players and the event (outside MultiJuicer).     *)

\* A player solves a challenge: the pod notes it and sends one webhook, which
\* is lost when it is never received.
SolveChallenge(t, c) ==
    /\ up[t]
    /\ c \notin Keys(live[t])
    /\ live' = [live EXCEPT ![t] = @ \cup {PodEntry(t, c)}]
    /\ solved' = [solved EXCEPT ![t] = @ \cup {c}]
    /\ inTime' = IF ended THEN inTime ELSE [inTime EXCEPT ![t] = @ \cup {c}]
    /\ \E cheat \in CheatReports :
          webhooks' = webhooks \cup {[team |-> t, challenge |-> c, cheat |-> cheat]}
    /\ UNCHANGED <<up, pod, shared, handler, leader, jobs, worker, loaded, ended, failures>>

\* The pod is deleted by an admin's restart, evicted or crashes.
RestartPod(t) ==
    /\ pod[t] < MaxRestarts
    /\ pod' = [pod EXCEPT ![t] = @ + 1]
    /\ live' = [live EXCEPT ![t] = {}]
    /\ up' = [up EXCEPT ![t] = FALSE]
    /\ UNCHANGED <<shared, webhooks, handler, leader, jobs, worker, loaded, ended,
                   failures, history>>

PodReady(t) ==
    /\ ~up[t]
    /\ up' = [up EXCEPT ![t] = TRUE]
    /\ UNCHANGED <<live, pod, shared, webhooks, handler, leader, jobs, worker, loaded,
                   ended, failures, history>>

\* Of interest only to an event that freezes the scoreboard.
EventEnds ==
    /\ FreezeOnEnd
    /\ ~ended
    /\ ended' = TRUE
    /\ UNCHANGED <<pods, shared, webhooks, handler, leader, jobs, worker, loaded, failures, history>>

-----------------------------------------------------------------------------
(* The replicas: start, crash, notification, lease.                        *)

\* The notification watcher's first read of the ConfigMap succeeds.
LoadNotification(r) ==
    /\ ~loaded[r]
    /\ loaded' = [loaded EXCEPT ![r] = TRUE]
    /\ UNCHANGED <<pods, shared, webhooks, handler, leader, jobs, worker, ended, failures, history>>

\* The replica dies with every request and sync job it had, and starts anew.
CrashReplica(r) ==
    /\ Fail
    /\ handler' = [h \in Handlers |-> IF handler[h].replica = r THEN IdleHandler ELSE handler[h]]
    /\ worker' = [w \in Workers |-> IF worker[w].replica = r THEN IdleWorker ELSE worker[w]]
    /\ loaded' = [loaded EXCEPT ![r] = FALSE]
    /\ leader' = IF leader = r THEN NoOne ELSE leader
    /\ jobs' = IF leader = r THEN {} ELSE jobs
    /\ UNCHANGED <<pods, shared, webhooks, ended, history>>

AcquireLease(r) ==
    /\ leader = NoOne
    /\ leader' = r
    /\ UNCHANGED <<pods, shared, webhooks, handler, jobs, worker, loaded, ended, failures, history>>

\* The context of the sync is cancelled: the producer stops, while a worker
\* finishes the job it is on.  Its fetches and restores do not take that
\* context; its patch does, and only goes through when it is already sent.
LoseLease ==
    /\ leader # NoOne
    /\ Fail
    /\ leader' = NoOne
    /\ jobs' = {}
    /\ \E sent \in SUBSET {w \in Workers : worker[w].pc \in {"store", "rewrite"}} :
          worker' = [w \in Workers |->
                        IF worker[w].pc # "idle" /\ w \notin sent
                        THEN [worker[w] EXCEPT !.cancelled = TRUE]
                        ELSE worker[w]]
    /\ UNCHANGED <<pods, shared, webhooks, handler, loaded, ended, history>>

-----------------------------------------------------------------------------
(* PersistProgress: one merge patch of both annotations.  Whatever is      *)
(* there is replaced; an empty cheat log is left out of the patch.         *)

\* Mutant: the two annotations are swapped.
PersistSwapped(t, progress, newCheats) ==
    /\ saved' = [saved EXCEPT ![t] = newCheats]
    /\ cheats' = IF progress = {} THEN cheats ELSE [cheats EXCEPT ![t] = progress]

\* Mutant: an empty cheat log is not left out of the patch.
PersistAllAnnotations(t, progress, newCheats) ==
    /\ saved' = [saved EXCEPT ![t] = progress]
    /\ cheats' = [cheats EXCEPT ![t] = newCheats]

PersistProgress(t, progress, newCheats) ==
    /\ saved' = [saved EXCEPT ![t] = progress]
    /\ cheats' = IF newCheats = {} THEN cheats ELSE [cheats EXCEPT ![t] = newCheats]

-----------------------------------------------------------------------------
(* The solutions webhook, on any replica.                                  *)

\* Mutant: the freeze check is missing.
ReceiveAnyWebhook(h, r, hook) ==
    /\ handler[h].pc = "idle"
    /\ hook \in webhooks
    /\ webhooks' = webhooks \ {hook}
    /\ handler' = [handler EXCEPT ![h] =
                      [IdleHandler EXCEPT !.pc = "lookup", !.replica = r, !.hook = hook]]
    /\ UNCHANGED <<pods, shared, leader, jobs, worker, loaded, ended, failures, history>>

\* A webhook that stays on its way after it is received will be received
\* again: a retry by the sender or by the network.
ReceiveWebhook(h, r, hook) ==
    /\ handler[h].pc = "idle"
    /\ hook \in webhooks
    /\ \/ webhooks' = webhooks \ {hook} /\ UNCHANGED failures
       \/ Fail /\ UNCHANGED webhooks
    /\ handler' = IF IsScoreboardFrozen(r) THEN handler
                  ELSE [handler EXCEPT ![h] =
                           [IdleHandler EXCEPT !.pc = "lookup", !.replica = r, !.hook = hook]]
    /\ UNCHANGED <<pods, shared, leader, jobs, worker, loaded, ended, history>>

\* Mutant: the "already solved" check is missing.
ReadWithoutCheck(h) ==
    /\ handler[h].pc = "lookup"
    /\ handler' = [handler EXCEPT ![h].pc = "persist",
                      ![h].seen = saved[handler[h].hook.team],
                      ![h].seenCheats = cheats[handler[h].hook.team]]
    /\ UNCHANGED <<pods, shared, webhooks, leader, jobs, worker, loaded, ended, failures, history>>

\* The handler gets the deployment; a challenge that is there already is
\* acknowledged and ignored.
ReadDeployment(h) ==
    /\ handler[h].pc = "lookup"
    /\ LET t == handler[h].hook.team
       IN  handler' = [handler EXCEPT ![h] =
               IF handler[h].hook.challenge \in Keys(saved[t]) THEN IdleHandler
               ELSE [@ EXCEPT !.pc = "persist", !.seen = saved[t], !.seenCheats = cheats[t]]]
    /\ UNCHANGED <<pods, shared, webhooks, leader, jobs, worker, loaded, ended, failures, history>>

\* It patches the annotations with what it has seen plus the reported solve.
PersistSolution(h) ==
    /\ handler[h].pc = "persist"
    /\ LET hook == handler[h].hook
           solution == [key |-> hook.challenge, solvedAt |-> Reported]
       IN  PersistProgress(hook.team, handler[h].seen \cup {solution},
               handler[h].seenCheats \cup (IF hook.cheat THEN {hook.challenge} ELSE {}))
    /\ handler' = [handler EXCEPT ![h] = IdleHandler]
    /\ UNCHANGED <<pods, webhooks, leader, jobs, worker, loaded, ended, failures, history>>

\* A failed lookup is answered with 500, a failed patch is only logged.
HandlerFails(h) ==
    /\ handler[h].pc # "idle"
    /\ Fail
    /\ handler' = [handler EXCEPT ![h] = IdleHandler]
    /\ UNCHANGED <<pods, shared, webhooks, leader, jobs, worker, loaded, ended, history>>

-----------------------------------------------------------------------------
(* The background sync, on the leader.                                     *)

\* Mutant: one list is decoded into for all instances, so that a job may hold
\* what another team's annotation held.
ListIntoOneSlice ==
    /\ leader # NoOne
    /\ jobs = {}
    /\ \E t \in Teams : jobs' = {[team |-> u, last |-> saved[t]] : u \in {v \in Teams : up[v]}}
    /\ UNCHANGED <<pods, shared, webhooks, handler, leader, worker, loaded, ended, failures, history>>

\* One round of the producer: a job for every deployment that is ready, with
\* the progress its annotation holds at this moment.
ListInstances ==
    /\ leader # NoOne
    /\ jobs = {}
    /\ jobs' = {[team |-> t, last |-> saved[t]] : t \in {u \in Teams : up[u]}}
    /\ UNCHANGED <<pods, shared, webhooks, handler, leader, worker, loaded, ended, failures, history>>

TakeJob(w) ==
    /\ worker[w].pc = "idle"
    /\ \E job \in jobs :
          /\ jobs' = jobs \ {job}
          /\ worker' = [worker EXCEPT ![w] = [IdleWorker EXCEPT !.pc = "fetch",
                            !.replica = leader, !.team = job.team, !.last = job.last]]
    /\ UNCHANGED <<pods, shared, webhooks, handler, leader, loaded, ended, failures, history>>

FetchProgress(w) ==
    /\ worker[w].pc = "fetch"
    /\ up[worker[w].team]
    /\ worker' = [worker EXCEPT ![w].pc = "decide", ![w].current = live[worker[w].team]]
    /\ UNCHANGED <<pods, shared, webhooks, handler, leader, jobs, loaded, ended, failures, history>>

\* A worker whose fetch fails is done with its job.
FetchFails(w) ==
    /\ worker[w].pc \in {"fetch", "refetch"}
    /\ IF up[worker[w].team] THEN Fail ELSE UNCHANGED failures
    /\ worker' = [worker EXCEPT ![w] = IdleWorker]
    /\ UNCHANGED <<pods, shared, webhooks, handler, leader, jobs, loaded, ended, history>>

\* Mutant: the frozen flag is only looked at on the restoring branch.
DecideUnfrozen(w) ==
    /\ worker[w].pc = "decide"
    /\ LET frozen == IsScoreboardFrozen(worker[w].replica)
           decision == CompareChallengeStates(worker[w].current, worker[w].last)
       IN  worker' = [worker EXCEPT ![w] =
               CASE decision = "ApplyCode" -> [@ EXCEPT !.pc = "apply", !.frozen = frozen]
                 [] decision = "UpdateCache" -> [@ EXCEPT !.pc = "store"]
                 [] OTHER -> IdleWorker]
    /\ UNCHANGED <<pods, shared, webhooks, handler, leader, jobs, loaded, ended, failures, history>>

\* Mutant: a frozen scoreboard ends the job before the restore.
DecideFrozenFirst(w) ==
    /\ worker[w].pc = "decide"
    /\ LET frozen == IsScoreboardFrozen(worker[w].replica)
           decision == CompareChallengeStates(worker[w].current, worker[w].last)
       IN  worker' = [worker EXCEPT ![w] =
               CASE ~frozen /\ decision = "ApplyCode" -> [@ EXCEPT !.pc = "apply"]
                 [] ~frozen /\ decision = "UpdateCache" -> [@ EXCEPT !.pc = "store"]
                 [] OTHER -> IdleWorker]
    /\ UNCHANGED <<pods, shared, webhooks, handler, leader, jobs, loaded, ended, failures, history>>

\* The frozen flag is read here, once, after the fetch.
Decide(w) ==
    /\ worker[w].pc = "decide"
    /\ LET frozen == IsScoreboardFrozen(worker[w].replica)
           decision == CompareChallengeStates(worker[w].current, worker[w].last)
       IN  worker' = [worker EXCEPT ![w] =
               CASE decision = "ApplyCode" -> [@ EXCEPT !.pc = "apply", !.frozen = frozen]
                 [] decision = "UpdateCache" /\ ~frozen -> [@ EXCEPT !.pc = "store"]
                 [] OTHER -> IdleWorker]
    /\ UNCHANGED <<pods, shared, webhooks, handler, leader, jobs, loaded, ended, failures, history>>

AfterApply(w) ==
    worker' = [worker EXCEPT ![w] = IF @.frozen THEN IdleWorker ELSE [@ EXCEPT !.pc = "refetch"]]

\* The pod marks what it is missing of the last progress as solved, now.
ApplyChallengeProgress(w) ==
    /\ worker[w].pc = "apply"
    /\ LET t == worker[w].team
           missing == Keys(worker[w].last) \ Keys(live[t])
       IN  /\ up[t]
           /\ live' = [live EXCEPT ![t] = @ \cup {PodEntry(t, c) : c \in missing}]
    /\ AfterApply(w)
    /\ UNCHANGED <<up, pod, shared, webhooks, handler, leader, jobs, loaded, ended, failures, history>>

\* A failed restore is only logged, and the status of the answer not read.
ApplyFails(w) ==
    /\ worker[w].pc = "apply"
    /\ IF up[worker[w].team] THEN Fail ELSE UNCHANGED failures
    /\ AfterApply(w)
    /\ UNCHANGED <<pods, shared, webhooks, handler, leader, jobs, loaded, ended, history>>

RefetchProgress(w) ==
    /\ worker[w].pc = "refetch"
    /\ up[worker[w].team]
    /\ worker' = [worker EXCEPT ![w].pc = "rewrite", ![w].current = live[worker[w].team]]
    /\ UNCHANGED <<pods, shared, webhooks, handler, leader, jobs, loaded, ended, failures, history>>

\* The sync patches the annotation with what the pod held when fetched; with
\* a cancelled context the patch is not sent.
PersistCurrent(w) ==
    /\ worker[w].pc \in {"store", "rewrite"}
    /\ IF worker[w].cancelled THEN UNCHANGED shared
       ELSE PersistProgress(worker[w].team, worker[w].current, {})
    /\ worker' = [worker EXCEPT ![w] = IdleWorker]
    /\ UNCHANGED <<pods, webhooks, handler, leader, jobs, loaded, ended, failures, history>>

PersistCurrentFails(w) ==
    /\ worker[w].pc \in {"store", "rewrite"}
    /\ Fail
    /\ worker' = [worker EXCEPT ![w] = IdleWorker]
    /\ UNCHANGED <<pods, shared, webhooks, handler, leader, jobs, loaded, ended, history>>

-----------------------------------------------------------------------------
Environment ==
    \/ \E t \in Teams, c \in Challenges : SolveChallenge(t, c)
    \/ \E t \in Teams : RestartPod(t) \/ PodReady(t)
    \/ EventEnds

ReplicaStep ==
    \/ \E r \in Replicas : LoadNotification(r) \/ CrashReplica(r) \/ AcquireLease(r)
    \/ LoseLease

HandlerStep(h) == ReadDeployment(h) \/ PersistSolution(h)

WebhookStep ==
    \/ \E h \in Handlers, r \in Replicas, hook \in webhooks : ReceiveWebhook(h, r, hook)
    \/ \E h \in Handlers : HandlerStep(h) \/ HandlerFails(h)

\* The steps of a worker in which nothing fails that could succeed.
WorkerStep(w) ==
    \/ TakeJob(w) \/ FetchProgress(w) \/ Decide(w) \/ ApplyChallengeProgress(w)
    \/ RefetchProgress(w) \/ PersistCurrent(w)

SyncStep ==
    \/ ListInstances
    \/ \E w \in Workers : WorkerStep(w) \/ FetchFails(w) \/ ApplyFails(w) \/ PersistCurrentFails(w)

Next == Environment \/ ReplicaStep \/ WebhookStep \/ SyncStep

Spec == Init /\ [][Next]_vars

\* What MultiJuicer and Kubernetes schedule keeps going: a started request
\* or job takes its next step, a free lease is acquired, a pod becomes ready,
\* a watcher reads the ConfigMap.  Players, failures and webhooks owe nothing.
Fairness ==
    /\ \A h \in Handlers : WF_vars(HandlerStep(h))
    /\ \A w \in Workers : WF_vars(WorkerStep(w) \/ FetchFails(w) \/ ApplyFails(w))
    /\ WF_vars(ListInstances)
    /\ WF_vars(\E r \in Replicas : AcquireLease(r))
    /\ \A t \in Teams : WF_vars(PodReady(t))
    /\ \A r \in Replicas : WF_vars(LoadNotification(r))

FairSpec == Spec /\ Fairness

-----------------------------------------------------------------------------
(* What must be true.                                                      *)

PodsOK ==
    /\ live \in [Teams -> Progress]
    /\ up \in [Teams -> BOOLEAN]
    /\ pod \in [Teams -> 0 .. MaxRestarts]
    /\ solved \in [Teams -> SUBSET Challenges]
    /\ inTime \in [Teams -> SUBSET Challenges]

RecordsOK ==
    /\ saved \in [Teams -> Progress]
    /\ cheats \in [Teams -> SUBSET Challenges]

WebhooksOK ==
    /\ webhooks \subseteq Hook
    /\ handler \in [Handlers -> HandlerState]

SyncOK ==
    /\ leader \in Replicas \cup {NoOne}
    /\ jobs \subseteq Job
    /\ worker \in [Workers -> WorkerState]

ControlOK ==
    /\ loaded \in [Replicas -> BOOLEAN]
    /\ ended \in BOOLEAN
    /\ failures \in 0 .. MaxFailures

\* Every variable holds a value of the kind the code keeps in it, whatever
\* order the requests, jobs, crashes and restarts come in.
TypeOK == PodsOK /\ RecordsOK /\ WebhooksOK /\ SyncOK /\ ControlOK

\* No race between webhooks, sync jobs, restores and restarts ever credits a
\* team, in its annotation or its pod, with a solve its players did not make.
OnlyEarnedSolves ==
    \A t \in Teams : Keys(saved[t]) \cup Keys(live[t]) \subseteq solved[t]

\* A challenge is credited once: the annotation never lists a key twice,
\* though several replicas append to it and retries repeat a webhook.
Unique(progress) == \A e, f \in progress : e.key = f.key => e = f

OneEntryPerChallenge == \A t \in Teams : Unique(saved[t])

\* Where every replica knows the end date since before it passed, a solve made
\* after the event's end stays out of the annotation of a team whose pod has
\* never restarted.  Otherwise a replica that has just started, or the second
\* fetch after a restore, can let it in.
FrozenScoresStay ==
    FreezeOnEnd /\ Prepared = Replicas /\ failures = 0 =>
        \A t \in Teams : pod[t] = 0 => Keys(saved[t]) \subseteq inTime[t]

\* A patch takes a recorded solve out only when the annotation is no longer
\* what its writer had read, or when the patch follows a restore.
Superseded(t) ==
    \/ \E h \in Handlers : /\ handler[h].pc = "persist" /\ handler'[h].pc = "idle"
                           /\ handler[h].hook.team = t /\ handler[h].seen # saved[t]
    \/ \E w \in Workers : /\ worker[w].pc = "store" /\ worker'[w].pc = "idle"
                          /\ worker[w].team = t /\ worker[w].last # saved[t]

Rewritten(t) ==
    \E w \in Workers : /\ worker[w].pc = "rewrite" /\ worker'[w].pc = "idle"
                       /\ worker[w].team = t

SolvesDropOnlyByOverlap ==
    [][\A t \in Teams : Keys(saved[t]) \subseteq Keys(saved'[t]) \/ Superseded(t) \/ Rewritten(t)]_vars

\* The cheat log loses an entry only to a webhook that had read it before
\* another one wrote: the sync, which patches the same deployment, never
\* clears it.
CheatsDropOnlyByOverlap ==
    [][\A t \in Teams :
          \/ cheats[t] \subseteq cheats'[t]
          \/ \E h \in Handlers : /\ handler[h].pc = "persist" /\ handler'[h].pc = "idle"
                                 /\ handler[h].hook.team = t /\ handler[h].seenCheats # cheats[t]]_vars

\* When players, failures and restarts stop, and unless the scores get frozen,
\* the annotation and the pod come to agree for good on what is solved.
Converges ==
    \A t \in Teams : <>[](Keys(saved[t]) = Keys(live[t]) \/ (FreezeOnEnd /\ ended))

\* Freezing does not stop the restoring: in the end a pod holds at least what
\* the annotation holds.
PodsAreRestored ==
    \A t \in Teams : <>[](Keys(saved[t]) \subseteq Keys(live[t]))

-----------------------------------------------------------------------------
(* Why it is true: the invariants that every step preserves.               *)

\* A request or job at work belongs to somebody.
Assigned ==
    /\ \A h \in Handlers : handler[h].pc # "idle" => handler[h].hook \in Hook
    /\ \A w \in Workers : worker[w].pc # "idle" => worker[w].team \in Teams

\* Whatever may reach an annotation or a pod was solved by that team.
Provenance ==
    /\ \A t \in Teams : Keys(saved[t]) \subseteq solved[t] /\ Keys(live[t]) \subseteq solved[t]
    /\ \A hook \in webhooks : hook.challenge \in solved[hook.team]
    /\ \A h \in Handlers : handler[h].pc # "idle" =>
          /\ handler[h].hook.challenge \in solved[handler[h].hook.team]
          /\ Keys(handler[h].seen) \subseteq solved[handler[h].hook.team]
    /\ \A job \in jobs : Keys(job.last) \subseteq solved[job.team]
    /\ \A w \in Workers : worker[w].pc # "idle" =>
          /\ Keys(worker[w].last) \subseteq solved[worker[w].team]
          /\ Keys(worker[w].current) \subseteq solved[worker[w].team]

\* No list a patch may be made of holds a key twice.
NoDuplicates ==
    /\ \A t \in Teams : Unique(saved[t]) /\ Unique(live[t])
    /\ \A h \in Handlers : handler[h].pc = "persist" =>
          Unique(handler[h].seen) /\ handler[h].hook.challenge \notin Keys(handler[h].seen)
    /\ \A w \in Workers : Unique(worker[w].current)

\* A worker stores a fetch only when it lacks nothing of the last progress.
StoreKeepsLast ==
    \A w \in Workers : worker[w].pc = "store" => Keys(worker[w].last) \subseteq Keys(worker[w].current)

\* What a pod that never restarted has held since before the event's end.
Timely(t, challenges) == challenges \subseteq Keys(live[t]) \cap inTime[t]

\* What may still reach the annotation of such a pod's team is of that kind, and
\* no worker ever finds anything to restore to it.
RequestKept(t, request) ==
    request.pc # "idle" /\ request.hook.team = t =>
        Timely(t, {request.hook.challenge} \cup Keys(request.seen))

WorkerKept(t, x) ==
    x.pc # "idle" /\ x.team = t =>
        /\ Timely(t, Keys(x.last))
        /\ \/ x.pc = "fetch"
           \/ /\ x.pc \in {"decide", "store"}
              /\ Keys(x.last) \subseteq Keys(x.current)
              /\ Keys(x.current) \subseteq Keys(live[t])
              /\ \/ x.pc = "decide" /\ ended
                 \/ Timely(t, Keys(x.current))

KeptOut(t) ==
    /\ Timely(t, Keys(saved[t]))
    /\ ended \/ Keys(live[t]) \subseteq inTime[t]
    /\ \A hook \in webhooks : hook.team = t => hook.challenge \in Keys(live[t])
    /\ \A h \in Handlers : RequestKept(t, handler[h])
    /\ \A job \in jobs : job.team = t => Timely(t, Keys(job.last))
    /\ \A w \in Workers : WorkerKept(t, worker[w])

\* Every replica that decides about a solve knows the end date.
EndKnown ==
    /\ \A r \in Replicas : loaded[r]
    /\ jobs # {} => leader \in Replicas
    /\ \A w \in Workers : worker[w].pc # "idle" => worker[w].replica \in Replicas

FreezeHolds ==
    FreezeOnEnd /\ Prepared = Replicas /\ failures = 0 =>
        /\ EndKnown
        /\ \A t \in Teams : pod[t] = 0 => KeptOut(t)

=============================================================================
