----------------------------- MODULE TeamLifecycle -----------------------------
(***************************************************************************)
(* How the instance of a team comes, stays and goes.                       *)
(*                                                                         *)
(* A join that finds no deployment of the team's name counts the           *)
(* deployments, creates one, then a secret (for the LLM gateway) and a     *)
(* service owned by it, and only then tells the passcode: separate calls   *)
(* to the Kubernetes API, with no rollback.  An admin deletes a            *)
(* deployment; so does the leader's cleaner when the annotation            *)
(* lastRequest is too old.  What the deployment owned is garbage collected *)
(* later.  Each replica's proxy writes lastRequest, but not for a team     *)
(* whose instance it has found up in the last ten seconds.  The time it    *)
(* writes is taken before the patch is sent, and the time its cache keeps  *)
(* after the patch has been answered.                                      *)
(***************************************************************************)
EXTENDS Integers, FiniteSets

CONSTANTS
    Teams,          \* names of teams
    Replicas,       \* the MultiJuicer replicas
    Requests,       \* join requests that can be in flight at a time
    Lookups,        \* requests whose instance the proxies can be looking up at a time
    Absent,         \* no deployment
    Nobody,         \* no team
    MaxInstances,   \* the configured cap
    LLMEnabled,     \* whether a team needs a secret for the LLM gateway
    CacheTime,      \* how long a proxy trusts that an instance is up
    MaxInactive,    \* the configured time of inactivity
    MaxTime,        \* bound: the end of time
    MaxCreations,   \* bound: deployments created
    MaxFailures     \* bound: failed calls

ASSUME TeamsAssumption == Nobody \notin Teams /\ IsFiniteSet(Teams) /\ IsFiniteSet(Requests)
ASSUME ConfigAssumption ==
    /\ MaxInstances \in Int /\ LLMEnabled \in BOOLEAN
    /\ CacheTime \in Nat \ {0} /\ MaxInactive \in Nat \ {0}
ASSUME BoundsAssumption == MaxTime \in Nat \ {0} /\ MaxCreations \in Nat /\ MaxFailures \in Nat

VARIABLES
    deployment, \* deployment[t]: the deployment of team t, or Absent
    service,    \* service[t]: the uid of the owner of the service, 0: none
    secret,     \* secret[t]: the uid of the owner of the secret, 0: none
    created,    \* how many deployments have been created: the last uid
    request,    \* request[q]: a join being handled
    told,       \* history: told[t]: the uid of the instance t was welcomed to
    upCache,    \* upCache[r][t]: when r found the instance of t up, 0: never
    lookup,     \* lookup[p]: a proxied request whose instance is being looked up
    used,       \* history: used[t]: the last request of t that went through
    slowest,    \* history: the longest that a time was on its way to where it is kept
    sweep,      \* the teams the cleaner has still to delete
    now,        \* the clock
    failures    \* how much of MaxFailures is used up

parts == <<deployment, service, secret, created>>
proxy == <<upCache, lookup, used>>
vars == <<parts, request, told, proxy, sweep, now, slowest, failures>>

-----------------------------------------------------------------------------
Uid == 1 .. MaxCreations
Time == 1 .. MaxTime

Deployment == [uid : Uid, ready : BOOLEAN, lastRequest : Time]

RequestState == [pc : {"idle", "count", "build", "deployment", "secret", "service", "answer"},
                 team : Teams \cup {Nobody}, uid : 0 .. MaxCreations, time : 0 .. MaxTime]
IdleRequest == [pc |-> "idle", team |-> Nobody, uid |-> 0, time |-> 0]

LookupState == [pc : {"idle", "up", "patch", "patched"}, replica : Replicas \cup {Nobody},
                team : Teams \cup {Nobody}, time : 0 .. MaxTime]
IdleLookup == [pc |-> "idle", replica |-> Nobody, team |-> Nobody, time |-> 0]

Instances == {t \in Teams : deployment[t] # Absent}
Exists(t, uid) == deployment[t] # Absent /\ deployment[t].uid = uid

Fail == failures < MaxFailures /\ failures' = failures + 1

Init ==
    /\ deployment = [t \in Teams |-> Absent]
    /\ service = [t \in Teams |-> 0]
    /\ secret = [t \in Teams |-> 0]
    /\ created = 0
    /\ request = [q \in Requests |-> IdleRequest]
    /\ told = [t \in Teams |-> 0]
    /\ upCache = [r \in Replicas |-> [t \in Teams |-> 0]]
    /\ lookup = [p \in Lookups |-> IdleLookup]
    /\ used = [t \in Teams |-> 0]
    /\ sweep = {}
    /\ now = 1
    /\ slowest = 0
    /\ failures = 0

-----------------------------------------------------------------------------
(* Joining.                                                                *)

\* The handler looks the deployment up; when there is one, the passcode is
\* compared and a cookie set, which changes nothing here.
Join(q, t) ==
    /\ request[q].pc = "idle"
    /\ deployment[t] = Absent /\ created < MaxCreations
    /\ request' = [request EXCEPT ![q] = [pc |-> "count", team |-> t, uid |-> 0, time |-> 0]]
    /\ UNCHANGED <<parts, told, proxy, sweep, now, slowest, failures>>

\* Mutant: the instances there are do not count.
NoLimit == 1 >= MaxInstances

IsMaxInstanceLimitReached == Cardinality(Instances) + 1 >= MaxInstances

CheckLimit(q) ==
    /\ request[q].pc = "count"
    /\ request' = [request EXCEPT ![q] =
                      IF IsMaxInstanceLimitReached THEN IdleRequest
                      ELSE [@ EXCEPT !.pc = "build"]]
    /\ UNCHANGED <<parts, told, proxy, sweep, now, slowest, failures>>

\* lastRequest of the deployment is the time at which the object is built.
BuildDeployment(q) ==
    /\ request[q].pc = "build"
    /\ request' = [request EXCEPT ![q].pc = "deployment", ![q].time = now]
    /\ UNCHANGED <<parts, told, proxy, sweep, now, slowest, failures>>

\* Mutant: the owner is taken from the object sent, which has no uid yet.
CreateWithoutUid(q) ==
    /\ request[q].pc = "deployment" /\ deployment[request[q].team] = Absent
    /\ created < MaxCreations /\ created' = created + 1
    /\ deployment' = [deployment EXCEPT ![request[q].team] =
           [uid |-> created + 1, ready |-> FALSE, lastRequest |-> request[q].time]]
    /\ request' = [request EXCEPT ![q].time = 0, ![q].pc = IF LLMEnabled THEN "secret" ELSE "service"]
    /\ UNCHANGED <<service, secret, told, proxy, sweep, now, slowest, failures>>

\* The creation fails when somebody else has taken the name by now.
CreateDeployment(q) ==
    /\ request[q].pc = "deployment"
    /\ LET t == request[q].team
       IN  IF deployment[t] = Absent
           THEN /\ created < MaxCreations
                /\ created' = created + 1
                /\ deployment' = [deployment EXCEPT ![t] =
                       [uid |-> created + 1, ready |-> FALSE, lastRequest |-> request[q].time]]
                /\ request' = [request EXCEPT ![q].uid = created + 1, ![q].time = 0,
                       ![q].pc = IF LLMEnabled THEN "secret" ELSE "service"]
           ELSE request' = [request EXCEPT ![q] = IdleRequest] /\ UNCHANGED <<created, deployment>>
    /\ UNCHANGED <<service, secret, told, proxy, sweep, now, slowest, failures>>

\* A secret that a deleted instance left behind fails the join.
CreateSecret(q) ==
    /\ request[q].pc = "secret"
    /\ IF secret[request[q].team] = 0
       THEN /\ secret' = [secret EXCEPT ![request[q].team] = request[q].uid]
            /\ request' = [request EXCEPT ![q].pc = "service"]
       ELSE request' = [request EXCEPT ![q] = IdleRequest] /\ UNCHANGED secret
    /\ UNCHANGED <<deployment, service, created, told, proxy, sweep, now, slowest, failures>>

\* Mutant: a service that exists already will do.
CreateServiceUnlessThere(q) ==
    /\ request[q].pc = "service"
    /\ service' = [service EXCEPT ![request[q].team] = IF @ = 0 THEN request[q].uid ELSE @]
    /\ request' = [request EXCEPT ![q].pc = "answer"]
    /\ UNCHANGED <<deployment, secret, created, told, proxy, sweep, now, slowest, failures>>

\* And so does a service.
CreateService(q) ==
    /\ request[q].pc = "service"
    /\ IF service[request[q].team] = 0
       THEN /\ service' = [service EXCEPT ![request[q].team] = request[q].uid]
            /\ request' = [request EXCEPT ![q].pc = "answer"]
       ELSE request' = [request EXCEPT ![q] = IdleRequest] /\ UNCHANGED service
    /\ UNCHANGED <<deployment, secret, created, told, proxy, sweep, now, slowest, failures>>

\* Cookie and passcode: the only time the passcode is told.
AnswerJoin(q) ==
    /\ request[q].pc = "answer"
    /\ told' = [told EXCEPT ![request[q].team] = request[q].uid]
    /\ request' = [request EXCEPT ![q] = IdleRequest]
    /\ UNCHANGED <<parts, proxy, sweep, now, slowest, failures>>

\* A call fails, the replica dies or the answer is lost; what was created
\* stays.
JoinFails(q) ==
    /\ request[q].pc # "idle"
    /\ Fail
    /\ request' = [request EXCEPT ![q] = IdleRequest]
    /\ UNCHANGED <<parts, told, proxy, sweep, now, slowest>>

-----------------------------------------------------------------------------
(* Kubernetes.                                                             *)

PodReadiness(t) ==
    /\ deployment[t] # Absent
    /\ deployment' = [deployment EXCEPT ![t].ready = ~@]
    /\ UNCHANGED <<service, secret, created, request, told, proxy, sweep, now, slowest, failures>>

CollectService(t) ==
    /\ service[t] # 0 /\ ~Exists(t, service[t])
    /\ service' = [service EXCEPT ![t] = 0]
    /\ UNCHANGED <<deployment, secret, created, request, told, proxy, sweep, now, slowest, failures>>

CollectSecret(t) ==
    /\ secret[t] # 0 /\ ~Exists(t, secret[t])
    /\ secret' = [secret EXCEPT ![t] = 0]
    /\ UNCHANGED <<deployment, service, created, request, told, proxy, sweep, now, slowest, failures>>

\* The times that have been taken and not yet written, or, for a lookup, not yet
\* answered for.
Underway ==
    {request[q].time : q \in {q \in Requests : request[q].pc = "deployment"}}
        \cup {lookup[p].time : p \in {p \in Lookups : lookup[p].pc \in {"patch", "patched"}}}

Tick ==
    /\ now < MaxTime
    /\ now' = now + 1
    /\ slowest' = IF \E time \in Underway : now' - time > slowest THEN slowest + 1 ELSE slowest
    /\ UNCHANGED <<parts, request, told, proxy, sweep, failures>>

-----------------------------------------------------------------------------
(* Admin, cleaner and proxy.                                               *)

AdminDeleteInstance(t) ==
    /\ deployment[t] # Absent
    /\ deployment' = [deployment EXCEPT ![t] = Absent]
    /\ UNCHANGED <<service, secret, created, request, told, proxy, sweep, now, slowest, failures>>

\* The pod of the team is deleted; its deployment starts another.
AdminRestartInstance(t) ==
    /\ deployment[t] # Absent
    /\ deployment' = [deployment EXCEPT ![t].ready = FALSE]
    /\ UNCHANGED <<service, secret, created, request, told, proxy, sweep, now, slowest, failures>>

\* Mutant: whoever is on the limit is taken for inactive.
ListRecentToo ==
    /\ sweep = {}
    /\ sweep' = {t \in Instances : now - deployment[t].lastRequest >= MaxInactive}
    /\ UNCHANGED <<parts, request, told, proxy, now, slowest, failures>>

\* The cleaner lists the deployments once per round, against the time the
\* round began.
ListInactive ==
    /\ sweep = {}
    /\ sweep' = {t \in Instances : now - deployment[t].lastRequest > MaxInactive}
    /\ UNCHANGED <<parts, request, told, proxy, now, slowest, failures>>

\* It deletes by name, whatever has the name by now; a deployment that is not
\* found was deleted too.
DeleteInactive(t) ==
    /\ t \in sweep
    /\ sweep' = sweep \ {t}
    /\ \/ deployment' = [deployment EXCEPT ![t] = Absent] /\ UNCHANGED failures
       \/ Fail /\ UNCHANGED deployment
    /\ UNCHANGED <<service, secret, created, request, told, proxy, now, slowest>>

CheckedRecently(r, t) == upCache[r][t] > now - CacheTime

\* Within CacheTime of a lookup requests go straight through.
PassThrough(r, t) ==
    /\ CheckedRecently(r, t)
    /\ used' = [used EXCEPT ![t] = now]
    /\ UNCHANGED <<parts, request, told, upCache, lookup, sweep, now, slowest, failures>>

\* Otherwise the deployment is looked up, by every request that comes before the
\* cache is written.  One that is missing, not ready or not to be read sends the
\* browser back to the landing page.
IsInstanceUp(p, r, t) ==
    /\ lookup[p].pc = "idle" /\ ~CheckedRecently(r, t)
    /\ deployment[t] # Absent /\ deployment[t].ready
    /\ lookup' = [lookup EXCEPT ![p] = [pc |-> "up", replica |-> r, team |-> t, time |-> 0]]
    /\ UNCHANGED <<parts, request, told, upCache, used, sweep, now, slowest, failures>>

\* The time of the request is taken when the patch is built.
UpdateLastRequestTimestamp(p) ==
    /\ lookup[p].pc = "up"
    /\ lookup' = [lookup EXCEPT ![p].pc = "patch", ![p].time = now]
    /\ UNCHANGED <<parts, request, told, upCache, used, sweep, now, slowest, failures>>

\* The patch goes to whatever has the name by now, and replaces a time that is later
\* than its own.  That it failed, or found nothing, is only logged.
PatchLastRequest(p) ==
    /\ lookup[p].pc = "patch"
    /\ LET t == lookup[p].team
       IN  \/ /\ deployment[t] # Absent
              /\ deployment' = [deployment EXCEPT ![t].lastRequest = lookup[p].time]
              /\ UNCHANGED failures
           \/ deployment[t] = Absent /\ UNCHANGED <<deployment, failures>>
           \/ Fail /\ UNCHANGED deployment
    /\ lookup' = [lookup EXCEPT ![p].pc = "patched"]
    /\ UNCHANGED <<service, secret, created, request, told, upCache, used, sweep, now, slowest>>

\* Once that is over the cache gets a time of its own and the request goes through.
ProxyRequest(p) ==
    /\ lookup[p].pc = "patched"
    /\ upCache' = [upCache EXCEPT ![lookup[p].replica][lookup[p].team] = now]
    /\ used' = [used EXCEPT ![lookup[p].team] = now]
    /\ lookup' = [lookup EXCEPT ![p] = IdleLookup]
    /\ UNCHANGED <<parts, request, told, sweep, now, slowest, failures>>

-----------------------------------------------------------------------------
JoinStep(q) ==
    \/ CheckLimit(q) \/ BuildDeployment(q) \/ CreateDeployment(q) \/ CreateSecret(q)
    \/ CreateService(q) \/ AnswerJoin(q) \/ JoinFails(q)

Next ==
    \/ \E q \in Requests : JoinStep(q) \/ \E t \in Teams : Join(q, t)
    \/ \E t \in Teams :
          \/ PodReadiness(t) \/ CollectService(t) \/ CollectSecret(t)
          \/ AdminDeleteInstance(t) \/ AdminRestartInstance(t) \/ DeleteInactive(t)
          \/ \E r \in Replicas : PassThrough(r, t) \/ \E p \in Lookups : IsInstanceUp(p, r, t)
    \/ \E p \in Lookups :
          UpdateLastRequestTimestamp(p) \/ PatchLastRequest(p) \/ ProxyRequest(p)
    \/ Tick
    \/ ListInactive

Spec == Init /\ [][Next]_vars

-----------------------------------------------------------------------------
(* What must be true.                                                      *)

PartsOK ==
    /\ deployment \in [Teams -> Deployment \cup {Absent}]
    /\ service \in [Teams -> 0 .. MaxCreations]
    /\ secret \in [Teams -> 0 .. MaxCreations]
    /\ created \in 0 .. MaxCreations

RequestsOK ==
    /\ request \in [Requests -> RequestState]
    /\ \A q \in Requests :
          /\ request[q].pc = "idle" <=> request[q].team = Nobody
          /\ request[q].pc \in {"secret", "service", "answer"} <=> request[q].uid # 0
          /\ request[q].pc = "deployment" <=> request[q].time # 0
    /\ told \in [Teams -> 0 .. MaxCreations]

ProxyOK ==
    /\ upCache \in [Replicas -> [Teams -> 0 .. MaxTime]]
    /\ lookup \in [Lookups -> LookupState]
    /\ \A p \in Lookups :
          /\ lookup[p].pc # "idle" => lookup[p].team \in Teams /\ lookup[p].replica \in Replicas
          /\ lookup[p].pc \in {"patch", "patched"} <=> lookup[p].time # 0
    /\ used \in [Teams -> 0 .. MaxTime]
    /\ sweep \subseteq Teams
    /\ now \in Time
    /\ slowest \in 0 .. MaxTime
    /\ failures \in 0 .. MaxFailures

\* Every variable holds a value of the kind the code keeps in it.
TypeOK == PartsOK /\ RequestsOK /\ ProxyOK

\* Joins that overlap can exceed the cap, but only by their number: the check
\* of one admits at most MaxInstances - 1 instances, and each of the others
\* may have passed its check before.
InstancesBounded ==
    \/ Instances = {}
    \/ Cardinality(Instances) <= MaxInstances - 2 + Cardinality(Requests)

\* A team that was welcomed to its instance has the service and the secret
\* that go with it, for as long as the instance exists: what an earlier
\* instance of the name left to the garbage collector never stands in.
ToldTeamsAreServed ==
    \A t \in Teams : deployment[t] # Absent /\ told[t] = deployment[t].uid =>
        /\ service[t] = deployment[t].uid
        /\ LLMEnabled => secret[t] = deployment[t].uid

\* As long as no call fails the cleaner picks only teams whose last request,
\* through whatever replica, is older than the time of inactivity less what a
\* proxy's cache can hide, which is less than CacheTime, and less twice the
\* slowest call: the cache is written that much later than the annotation, and
\* another patch may then put an older time into the annotation.
SweptTeamsWereIdle ==
    [][failures = 0 =>
          \A t \in sweep' \ sweep :
              now - used[t] > MaxInactive - (CacheTime - 1) - 2 * slowest]_vars

=============================================================================
