-------------------------- MODULE TeamLifecycleProofs --------------------------
(***************************************************************************)
(* What TeamLifecycle guarantees for any number of teams, replicas and     *)
(* overlapping joins, whatever the cap.                                    *)
(***************************************************************************)
EXTENDS TeamLifecycle, FiniteSetTheorems, TLAPS

USE DEF parts, proxy

LEMMA IdleType == IdleRequest \in RequestState
  BY BoundsAssumption DEF IdleRequest, RequestState

LEMMA IdleLookupType ==
  IdleLookup \in LookupState /\ IdleLookup.pc = "idle" /\ IdleLookup.time = 0
  BY BoundsAssumption DEF IdleLookup, LookupState

LEMMA FailType ==
  ASSUME failures \in 0 .. MaxFailures, Fail
  PROVE  failures' \in 0 .. MaxFailures
  BY BoundsAssumption DEF Fail

-----------------------------------------------------------------------------
(* Types *)

LEMMA TypeInit == Init => TypeOK
<1> SUFFICES ASSUME Init PROVE TypeOK
  OBVIOUS
<1>1. PartsOK
  BY BoundsAssumption DEF Init, PartsOK
<1>2. RequestsOK
  BY BoundsAssumption, IdleType DEF Init, RequestsOK, IdleRequest
<1>3. ProxyOK
  BY BoundsAssumption, IdleLookupType DEF Init, ProxyOK, Time
<1> QED
  BY <1>1, <1>2, <1>3 DEF TypeOK

\* A step of a join keeps the requests well formed when it leaves q idle, or
\* with a team, with a time until the deployment is created and with a uid then.
LEMMA RequestsKept ==
  ASSUME RequestsOK, NEW q \in Requests, NEW r \in RequestState,
         request' = [request EXCEPT ![q] = r],
         r.pc = "idle" <=> r.team = Nobody,
         r.pc \in {"secret", "service", "answer"} <=> r.uid # 0,
         r.pc = "deployment" <=> r.time # 0,
         told' \in [Teams -> 0 .. MaxCreations]
  PROVE  RequestsOK'
  BY DEF RequestsOK

LEMMA TypeJoin ==
  ASSUME TypeOK, NEW q \in Requests, NEW t \in Teams, Join(q, t)
  PROVE  TypeOK'
<1> DEFINE r == [pc |-> "count", team |-> t, uid |-> 0, time |-> 0]
<1> USE DEF TypeOK
<1>1. r \in RequestState /\ r.pc = "count" /\ r.team = t /\ r.uid = 0 /\ r.time = 0
  BY BoundsAssumption DEF RequestState
<1>2. t # Nobody
  BY TeamsAssumption
<1>3. request' = [request EXCEPT ![q] = r]
  BY DEF Join
<1>4. told' \in [Teams -> 0 .. MaxCreations]
  BY DEF Join, RequestsOK
<1> HIDE DEF r
<1>5. RequestsOK'
  BY <1>1, <1>2, <1>3, <1>4, RequestsKept
<1> QED
  BY <1>5 DEF Join, PartsOK, ProxyOK

\* A request that is given up is idle again.
LEMMA GivenUp ==
  ASSUME TypeOK, NEW q \in Requests, request' = [request EXCEPT ![q] = IdleRequest],
         told' \in [Teams -> 0 .. MaxCreations]
  PROVE  RequestsOK'
<1> DEFINE r == IdleRequest
<1>1. r \in RequestState /\ r.pc = "idle" /\ r.team = Nobody /\ r.uid = 0 /\ r.time = 0
  BY IdleType DEF IdleRequest
<1>2. request' = [request EXCEPT ![q] = r]
  OBVIOUS
<1> HIDE DEF r
<1> QED
  BY <1>1, <1>2, RequestsKept DEF TypeOK

\* A request that goes on has a team.
LEMMA GoesOn ==
  ASSUME TypeOK, NEW q \in Requests, request[q].pc # "idle",
         NEW pc \in {"build", "deployment", "secret", "service", "answer"},
         NEW uid \in 0 .. MaxCreations, pc \in {"build", "deployment"} <=> uid = 0,
         NEW time \in 0 .. MaxTime, pc = "deployment" <=> time # 0,
         request' = [request EXCEPT ![q].pc = pc, ![q].uid = uid, ![q].time = time], told' = told
  PROVE  RequestsOK'
<1> DEFINE r == [request[q] EXCEPT !.pc = pc, !.uid = uid, !.time = time]
<1>1. request[q] \in RequestState /\ request[q].team # Nobody
  BY DEF TypeOK, RequestsOK
<1>2. /\ r \in RequestState /\ r.pc = pc /\ r.team = request[q].team
      /\ r.uid = uid /\ r.time = time
  BY <1>1 DEF RequestState
<1>3. request' = [request EXCEPT ![q] = r]
  BY DEF TypeOK, RequestsOK
<1>4. told' \in [Teams -> 0 .. MaxCreations]
  BY DEF TypeOK, RequestsOK
<1> HIDE DEF r
<1> QED
  BY <1>1, <1>2, <1>3, <1>4, RequestsKept DEF TypeOK

LEMMA TypeJoinStep ==
  ASSUME TypeOK, NEW q \in Requests, JoinStep(q)
  PROVE  TypeOK'
<1> USE DEF TypeOK
<1>t. told \in [Teams -> 0 .. MaxCreations] /\ request \in [Requests -> RequestState]
  BY DEF RequestsOK
<1>r. request[q].uid \in 0 .. MaxCreations
  BY <1>t DEF RequestState
<1>n. now \in 0 .. MaxTime /\ now # 0 /\ 0 \in 0 .. MaxTime
  BY BoundsAssumption DEF ProxyOK, Time
<1>v. request[q].time \in 0 .. MaxTime /\ (request[q].pc = "deployment" <=> request[q].time # 0)
  BY <1>t DEF RequestsOK, RequestState
<1>u. request[q].pc \in {"secret", "service", "answer"} <=> request[q].uid # 0
  BY DEF RequestsOK
<1>m. request[q].pc # "idle" => request[q].team \in Teams
  BY <1>t DEF RequestsOK, RequestState
<1>1. CASE CheckLimit(q)
  <2>1. CASE IsMaxInstanceLimitReached
    BY <1>1, <2>1, <1>t, GivenUp DEF CheckLimit, PartsOK, ProxyOK
  <2>2. CASE ~IsMaxInstanceLimitReached
    <3>1. request[q].uid = 0
      BY <1>1, <1>u DEF CheckLimit
    <3>2. request' = [request EXCEPT ![q].pc = "build", ![q].uid = 0, ![q].time = 0]
      BY <1>1, <2>2, <3>1, <1>t, <1>v DEF CheckLimit, RequestState
    <3>3. RequestsOK'
      <4> DEFINE pc == "build"
      <4>1. pc \in {"build", "deployment", "secret", "service", "answer"} /\ pc = "build"
        OBVIOUS
      <4>2. request[q].pc # "idle" /\ told' = told /\ 0 \in 0 .. MaxCreations
        BY <1>1, BoundsAssumption DEF CheckLimit
      <4>3. request' = [request EXCEPT ![q].pc = pc, ![q].uid = 0, ![q].time = 0]
        BY <3>2
      <4> HIDE DEF pc
      <4> QED
        BY <4>1, <4>2, <4>3, <1>n, GoesOn
    <3> QED
      BY <1>1, <3>3 DEF CheckLimit, PartsOK, ProxyOK
  <2> QED
    BY <2>1, <2>2
<1>b. CASE BuildDeployment(q)
  <2>1. request[q].uid = 0
    BY <1>b, <1>u DEF BuildDeployment
  <2>2. request' = [request EXCEPT ![q].pc = "deployment", ![q].uid = 0, ![q].time = now]
    BY <1>b, <2>1, <1>t DEF BuildDeployment, RequestState
  <2>3. RequestsOK'
    <3> DEFINE pc == "deployment"
    <3>1. pc \in {"build", "deployment", "secret", "service", "answer"} /\ pc = "deployment"
      OBVIOUS
    <3>2. request[q].pc # "idle" /\ told' = told /\ 0 \in 0 .. MaxCreations
      BY <1>b, BoundsAssumption DEF BuildDeployment
    <3>3. request' = [request EXCEPT ![q].pc = pc, ![q].uid = 0, ![q].time = now]
      BY <2>2
    <3> HIDE DEF pc
    <3> QED
      BY <3>1, <3>2, <3>3, <1>n, GoesOn
  <2> QED
    BY <1>b, <2>3 DEF BuildDeployment, PartsOK, ProxyOK
<1>2. CASE CreateDeployment(q)
  <2> DEFINE t == request[q].team
  <2>1. CASE deployment[t] = Absent
    <3> DEFINE d == [uid |-> created + 1, ready |-> FALSE, lastRequest |-> request[q].time]
               pc == IF LLMEnabled THEN "secret" ELSE "service"
    <3>1. created' = created + 1 /\ created' \in 1 .. MaxCreations
      BY <1>2, <2>1, BoundsAssumption DEF CreateDeployment, PartsOK
    <3>2. d \in Deployment
      <4>1. request[q].time \in Time
        BY <1>2, <1>v, BoundsAssumption DEF CreateDeployment, Time
      <4> QED
        BY <3>1, <4>1 DEF Deployment, Uid
    <3>3. deployment' = [deployment EXCEPT ![t] = d]
      BY <1>2, <2>1 DEF CreateDeployment
    <3>4. deployment' \in [Teams -> Deployment \cup {Absent}]
      BY <3>2, <3>3 DEF PartsOK
    <3>5. request' = [request EXCEPT ![q].pc = pc, ![q].uid = created', ![q].time = 0]
      BY <1>2, <2>1, <3>1, <1>t DEF CreateDeployment, RequestState
    <3>6. pc \in {"build", "deployment", "secret", "service", "answer"} \ {"build", "deployment"}
      OBVIOUS
    <3> HIDE DEF d, pc
    <3>7. RequestsOK'
      <4>1. request[q].pc # "idle" /\ told' = told
        BY <1>2 DEF CreateDeployment
      <4>2. created' \in 0 .. MaxCreations /\ created' # 0
        BY <3>1, BoundsAssumption
      <4> QED
        BY <3>5, <3>6, <4>1, <4>2, <1>n, GoesOn
    <3> QED
      BY <1>2, <3>1, <3>4, <3>7 DEF CreateDeployment, PartsOK, ProxyOK
  <2>2. CASE deployment[t] # Absent
    BY <1>2, <2>2, <1>t, GivenUp DEF CreateDeployment, PartsOK, ProxyOK
  <2> QED
    BY <2>1, <2>2
<1>3. CASE CreateSecret(q)
  <2>1. CASE secret[request[q].team] = 0
    <3>0. request[q].time = 0
      BY <1>3, <1>v DEF CreateSecret
    <3>1. request' = [request EXCEPT ![q].pc = "service", ![q].uid = request[q].uid, ![q].time = 0]
      <4>1. request' = [request EXCEPT ![q].pc = "service"]
        BY <1>3, <2>1 DEF CreateSecret
      <4>2. request[q] \in RequestState
        BY <1>t
      <4>3. [request[q] EXCEPT !.pc = "service"]
              = [request[q] EXCEPT !.pc = "service", !.uid = request[q].uid, !.time = 0]
        BY <3>0, <4>2 DEF RequestState
      <4> QED
        BY <4>1, <4>3, <1>t
    <3>2. RequestsOK'
      BY <1>3, <3>1, <1>r, <1>u, <1>n, GoesOn DEF CreateSecret
    <3> QED
      BY <1>3, <2>1, <3>2, <1>r DEF CreateSecret, PartsOK, ProxyOK
  <2>2. CASE secret[request[q].team] # 0
    BY <1>3, <2>2, <1>t, GivenUp DEF CreateSecret, PartsOK, ProxyOK
  <2> QED
    BY <2>1, <2>2
<1>4. CASE CreateService(q)
  <2>1. CASE service[request[q].team] = 0
    <3>0. request[q].time = 0
      BY <1>4, <1>v DEF CreateService
    <3>1. request' = [request EXCEPT ![q].pc = "answer", ![q].uid = request[q].uid, ![q].time = 0]
      <4>1. request' = [request EXCEPT ![q].pc = "answer"]
        BY <1>4, <2>1 DEF CreateService
      <4>2. request[q] \in RequestState
        BY <1>t
      <4>3. [request[q] EXCEPT !.pc = "answer"]
              = [request[q] EXCEPT !.pc = "answer", !.uid = request[q].uid, !.time = 0]
        BY <3>0, <4>2 DEF RequestState
      <4> QED
        BY <4>1, <4>3, <1>t
    <3>2. RequestsOK'
      BY <1>4, <3>1, <1>r, <1>u, <1>n, GoesOn DEF CreateService
    <3> QED
      BY <1>4, <2>1, <3>2, <1>r DEF CreateService, PartsOK, ProxyOK
  <2>2. CASE service[request[q].team] # 0
    BY <1>4, <2>2, <1>t, GivenUp DEF CreateService, PartsOK, ProxyOK
  <2> QED
    BY <2>1, <2>2
<1>5. CASE AnswerJoin(q)
  <2>1. told' \in [Teams -> 0 .. MaxCreations]
    BY <1>5, <1>t, <1>r DEF AnswerJoin
  <2> QED
    BY <1>5, <2>1, GivenUp DEF AnswerJoin, PartsOK, ProxyOK
<1>6. CASE JoinFails(q)
  <2>1. RequestsOK'
    BY <1>6, <1>t, GivenUp DEF JoinFails
  <2>2. failures' \in 0 .. MaxFailures
    BY <1>6, FailType DEF JoinFails, ProxyOK
  <2> QED
    BY <1>6, <2>1, <2>2 DEF JoinFails, PartsOK, ProxyOK
<1> QED
  BY <1>1, <1>b, <1>2, <1>3, <1>4, <1>5, <1>6 DEF JoinStep

LEMMA TypeTeamStep ==
  ASSUME TypeOK, NEW t \in Teams,
         \/ PodReadiness(t) \/ CollectService(t) \/ CollectSecret(t)
         \/ AdminDeleteInstance(t) \/ AdminRestartInstance(t) \/ DeleteInactive(t)
  PROVE  TypeOK'
<1> USE DEF TypeOK
<1>1. CASE PodReadiness(t) \/ AdminRestartInstance(t)
  <2> DEFINE d == [deployment[t] EXCEPT !.ready = deployment'[t].ready]
  <2>1. deployment[t] \in Deployment /\ deployment \in [Teams -> Deployment \cup {Absent}]
    BY <1>1 DEF PodReadiness, AdminRestartInstance, PartsOK
  <2>2. deployment'[t] \in Deployment
    <3>1. CASE PodReadiness(t)
      BY <2>1, <3>1 DEF PodReadiness, Deployment
    <3>2. CASE AdminRestartInstance(t)
      BY <2>1, <3>2 DEF AdminRestartInstance, Deployment
    <3> QED
      BY <1>1, <3>1, <3>2
  <2>3. deployment' \in [Teams -> Deployment \cup {Absent}]
    BY <1>1, <2>1, <2>2 DEF PodReadiness, AdminRestartInstance
  <2> QED
    BY <1>1, <2>3 DEF PodReadiness, AdminRestartInstance, PartsOK, RequestsOK, ProxyOK
<1>2. CASE CollectService(t) \/ CollectSecret(t)
  BY <1>2, BoundsAssumption DEF CollectService, CollectSecret, PartsOK, RequestsOK, ProxyOK
<1>3. CASE AdminDeleteInstance(t)
  BY <1>3 DEF AdminDeleteInstance, PartsOK, RequestsOK, ProxyOK
<1>4. CASE DeleteInactive(t)
  <2>1. failures' \in 0 .. MaxFailures
    BY <1>4, FailType DEF DeleteInactive, ProxyOK
  <2> QED
    BY <1>4, <2>1 DEF DeleteInactive, PartsOK, RequestsOK, ProxyOK
<1> QED
  BY <1>1, <1>2, <1>3, <1>4

\* The steps of the proxies.
ProxyStep ==
    \/ \E r \in Replicas, t \in Teams : PassThrough(r, t) \/ \E p \in Lookups : IsInstanceUp(p, r, t)
    \/ \E p \in Lookups :
          UpdateLastRequestTimestamp(p) \/ PatchLastRequest(p) \/ ProxyRequest(p)

LEMMA NextIs ==
  Next <=> \/ \E q \in Requests : JoinStep(q) \/ \E t \in Teams : Join(q, t)
           \/ \E t \in Teams :
                 \/ PodReadiness(t) \/ CollectService(t) \/ CollectSecret(t)
                 \/ AdminDeleteInstance(t) \/ AdminRestartInstance(t) \/ DeleteInactive(t)
           \/ ProxyStep \/ Tick \/ ListInactive
  BY DEF Next, ProxyStep

\* What a lookup knows.
LEMMA LookupIs ==
  ASSUME TypeOK, NEW p \in Lookups
  PROVE  /\ lookup[p].pc # "idle" => lookup[p].team \in Teams /\ lookup[p].replica \in Replicas
         /\ lookup[p].pc \in {"patch", "patched"} <=> lookup[p].time # 0
         /\ lookup[p].time \in 0 .. MaxTime /\ lookup \in [Lookups -> LookupState]
  BY DEF TypeOK, ProxyOK, LookupState

\* One lookup's state changes.
LEMMA LookupsKept ==
  ASSUME TypeOK, NEW p \in Lookups, NEW l \in LookupState,
         l.pc # "idle" => l.team \in Teams /\ l.replica \in Replicas,
         l.pc \in {"patch", "patched"} <=> l.time # 0,
         lookup' = [lookup EXCEPT ![p] = l],
         upCache' \in [Replicas -> [Teams -> 0 .. MaxTime]],
         used' \in [Teams -> 0 .. MaxTime], failures' \in 0 .. MaxFailures,
         UNCHANGED <<sweep, now, slowest>>
  PROVE  ProxyOK'
<1>1. lookup' \in [Lookups -> LookupState]
  BY DEF TypeOK, ProxyOK
<1>2. lookup'[p] = l /\ \A o \in Lookups : o # p => lookup'[o] = lookup[o]
  BY DEF TypeOK, ProxyOK
<1> QED
  BY <1>1, <1>2 DEF TypeOK, ProxyOK

LEMMA TypeProxyStep == TypeOK /\ ProxyStep => TypeOK'
<1> SUFFICES ASSUME TypeOK, ProxyStep PROVE TypeOK'
  OBVIOUS
<1> USE DEF TypeOK
<1>1. now \in 0 .. MaxTime /\ now # 0 /\ now \in Time
  BY BoundsAssumption DEF ProxyOK, Time
<1>2. ASSUME NEW r \in Replicas, NEW t \in Teams, PassThrough(r, t) PROVE TypeOK'
  BY <1>1, <1>2 DEF PassThrough, PartsOK, RequestsOK, ProxyOK
<1>3. ASSUME NEW p \in Lookups, NEW r \in Replicas, NEW t \in Teams, IsInstanceUp(p, r, t)
      PROVE  TypeOK'
  <2> DEFINE l == [pc |-> "up", replica |-> r, team |-> t, time |-> 0]
  <2>1. l \in LookupState /\ l.pc = "up" /\ l.team = t /\ l.replica = r /\ l.time = 0
    BY BoundsAssumption DEF LookupState
  <2>2. lookup' = [lookup EXCEPT ![p] = l]
    BY <1>3 DEF IsInstanceUp
  <2> HIDE DEF l
  <2>3. ProxyOK'
    BY <1>3, <2>1, <2>2, LookupsKept DEF IsInstanceUp, ProxyOK
  <2> QED
    BY <1>3, <2>3 DEF IsInstanceUp, PartsOK, RequestsOK
<1>4. ASSUME NEW p \in Lookups, UpdateLastRequestTimestamp(p) PROVE TypeOK'
  <2> DEFINE l == [lookup[p] EXCEPT !.pc = "patch", !.time = now]
  <2>1. lookup[p] \in LookupState /\ lookup[p].team \in Teams /\ lookup[p].replica \in Replicas
    BY <1>4, LookupIs DEF UpdateLastRequestTimestamp
  <2>2. /\ l \in LookupState /\ l.pc = "patch" /\ l.time = now
        /\ l.team = lookup[p].team /\ l.replica = lookup[p].replica
    BY <1>1, <2>1 DEF LookupState
  <2>3. lookup' = [lookup EXCEPT ![p] = l]
    BY <1>4 DEF UpdateLastRequestTimestamp, ProxyOK
  <2> HIDE DEF l
  <2>4. ProxyOK'
    BY <1>1, <1>4, <2>1, <2>2, <2>3, LookupsKept DEF UpdateLastRequestTimestamp, ProxyOK
  <2> QED
    BY <1>4, <2>4 DEF UpdateLastRequestTimestamp, PartsOK, RequestsOK
<1>5. ASSUME NEW p \in Lookups, PatchLastRequest(p) PROVE TypeOK'
  <2> DEFINE t == lookup[p].team
             l == [lookup[p] EXCEPT !.pc = "patched"]
             d == [deployment[t] EXCEPT !.lastRequest = lookup[p].time]
  <2>1. /\ lookup[p] \in LookupState /\ t \in Teams /\ lookup[p].replica \in Replicas
        /\ lookup[p].time # 0 /\ lookup[p].time \in 0 .. MaxTime
    BY <1>5, LookupIs DEF PatchLastRequest
  <2>2. /\ l \in LookupState /\ l.pc = "patched" /\ l.time = lookup[p].time
        /\ l.team = t /\ l.replica = lookup[p].replica
    BY <2>1 DEF LookupState
  <2>3. lookup' = [lookup EXCEPT ![p] = l]
    BY <1>5 DEF PatchLastRequest, ProxyOK
  <2>4. failures' \in 0 .. MaxFailures
    BY <1>5, FailType DEF PatchLastRequest, ProxyOK
  <2>5. deployment' \in [Teams -> Deployment \cup {Absent}]
    <3>1. deployment \in [Teams -> Deployment \cup {Absent}] /\ lookup[p].time \in Time
      BY <2>1, BoundsAssumption DEF PartsOK, Time
    <3>2. CASE deployment[t] # Absent
               /\ deployment' = [deployment EXCEPT ![t].lastRequest = lookup[p].time]
      <4>1. d \in Deployment
        BY <2>1, <3>1, <3>2 DEF Deployment
      <4>2. deployment' = [deployment EXCEPT ![t] = d]
        BY <3>2
      <4> QED
        BY <3>1, <4>1, <4>2
    <3>3. CASE UNCHANGED deployment
      BY <3>1, <3>3
    <3> QED
      BY <1>5, <3>2, <3>3 DEF PatchLastRequest
  <2> HIDE DEF l
  <2>6. ProxyOK'
    BY <1>5, <2>1, <2>2, <2>3, <2>4, LookupsKept DEF PatchLastRequest, ProxyOK
  <2> QED
    BY <1>5, <2>5, <2>6 DEF PatchLastRequest, PartsOK, RequestsOK
<1>6. ASSUME NEW p \in Lookups, ProxyRequest(p) PROVE TypeOK'
  <2>1. lookup[p].team \in Teams /\ lookup[p].replica \in Replicas
    BY <1>6, LookupIs DEF ProxyRequest
  <2>2. upCache' \in [Replicas -> [Teams -> 0 .. MaxTime]] /\ used' \in [Teams -> 0 .. MaxTime]
    BY <1>1, <1>6, <2>1 DEF ProxyRequest, ProxyOK
  <2>3. ProxyOK'
    BY <1>6, <2>2, IdleLookupType, LookupsKept DEF ProxyRequest, ProxyOK
  <2> QED
    BY <1>6, <2>3 DEF ProxyRequest, PartsOK, RequestsOK
<1> QED
  BY <1>2, <1>3, <1>4, <1>5, <1>6 DEF ProxyStep

LEMMA TypeInductive == TypeOK /\ [Next]_vars => TypeOK'
<1> SUFFICES ASSUME TypeOK, [Next]_vars PROVE TypeOK'
  OBVIOUS
<1>1. ASSUME NEW q \in Requests, JoinStep(q) PROVE TypeOK'
  BY <1>1, TypeJoinStep
<1>2. ASSUME NEW q \in Requests, NEW t \in Teams, Join(q, t) PROVE TypeOK'
  BY <1>2, TypeJoin
<1>3. ASSUME NEW t \in Teams,
             \/ PodReadiness(t) \/ CollectService(t) \/ CollectSecret(t)
             \/ AdminDeleteInstance(t) \/ AdminRestartInstance(t) \/ DeleteInactive(t)
      PROVE  TypeOK'
  BY <1>3, TypeTeamStep
<1>4. CASE ProxyStep
  BY <1>4, TypeProxyStep
<1>5. CASE Tick
  <2>1. /\ now' = now + 1 /\ now < MaxTime /\ now \in Time /\ slowest \in 0 .. MaxTime
        /\ slowest' = slowest + 1 \/ slowest' = slowest
    BY <1>5 DEF Tick, TypeOK, ProxyOK
  <2>2. slowest' \in 0 .. MaxTime
    <3>1. CASE slowest' = slowest
      BY <2>1, <3>1
    <3>2. CASE \E time \in Underway : now' - time > slowest
      <4>1. PICK time \in Underway : now' - time > slowest
        BY <3>2
      <4>2. time \in 0 .. MaxTime
        BY LookupIs DEF Underway, TypeOK, RequestsOK, RequestState
      <4> QED
        BY <2>1, <4>1, <4>2, BoundsAssumption DEF Time
    <3> QED
      BY <1>5, <3>1, <3>2 DEF Tick
  <2>3. now' \in Time
    BY <2>1, BoundsAssumption DEF Time
  <2> QED
    BY <1>5, <2>2, <2>3 DEF TypeOK, Tick, PartsOK, RequestsOK, ProxyOK
<1>6. CASE ListInactive
  BY <1>6 DEF TypeOK, ListInactive, Instances, PartsOK, RequestsOK, ProxyOK
<1>7. CASE UNCHANGED vars
  BY <1>7 DEF TypeOK, vars, PartsOK, RequestsOK, ProxyOK
<1> QED
  BY <1>1, <1>2, <1>3, <1>4, <1>5, <1>6, <1>7, NextIs

\* Every variable keeps its type, and a join past the creation of the
\* deployment knows its uid, whatever overlaps.
THEOREM TypeCorrect == Spec => []TypeOK
<1>1. Init => TypeOK
  BY TypeInit
<1>2. TypeOK /\ [Next]_vars => TypeOK'
  BY TypeInductive
<1> QED
  BY <1>1, <1>2, PTL DEF Spec

-----------------------------------------------------------------------------
(* The cap *)

\* The joins that have passed the check and not yet created.
Admitted == {q \in Requests : request[q].pc \in {"build", "deployment"}}

\* Each admitted join is an instance to come.
CapInv ==
    \/ Instances = {} /\ Admitted = {}
    \/ Cardinality(Instances) + Cardinality(Admitted) <= MaxInstances - 2 + Cardinality(Requests)

LEMMA Sizes ==
  /\ IsFiniteSet(Instances) /\ Cardinality(Instances) \in Nat
  /\ IsFiniteSet(Admitted) /\ Cardinality(Admitted) \in Nat
  /\ Cardinality(Requests) \in Nat
  /\ Cardinality(Admitted) <= Cardinality(Requests)
<1>1. Instances \in SUBSET Teams /\ Admitted \in SUBSET Requests
  BY DEF Instances, Admitted
<1>2. IsFiniteSet(Instances) /\ IsFiniteSet(Admitted) /\ Cardinality(Admitted) <= Cardinality(Requests)
  BY <1>1, TeamsAssumption, FS_Subset
<1> QED
  BY <1>2, TeamsAssumption, FS_CardinalityType

\* A step that neither creates nor admits.
LEMMA CapKept ==
  ASSUME CapInv, Instances' \subseteq Instances, Admitted' \subseteq Admitted
  PROVE  CapInv'
<1>1. Instances' \in SUBSET Instances /\ Admitted' \in SUBSET Admitted
  OBVIOUS
<1>2. Cardinality(Instances') <= Cardinality(Instances) /\ Cardinality(Instances') \in Nat
  BY <1>1, Sizes, FS_Subset, FS_CardinalityType
<1>3. Cardinality(Admitted') <= Cardinality(Admitted) /\ Cardinality(Admitted') \in Nat
  BY <1>1, Sizes, FS_Subset, FS_CardinalityType
<1> QED
  BY <1>1, <1>2, <1>3, Sizes, ConfigAssumption DEF CapInv

LEMMA CapCheck ==
  ASSUME TypeOK, CapInv, NEW q \in Requests, CheckLimit(q)
  PROVE  CapInv'
<1>1. Instances' = Instances
  BY DEF CheckLimit, Instances
<1>2. request \in [Requests -> RequestState]
  BY DEF TypeOK, RequestsOK
<1>3. CASE IsMaxInstanceLimitReached
  <2>1. Admitted' \subseteq Admitted
    BY <1>2, <1>3 DEF CheckLimit, Admitted, IdleRequest
  <2> QED
    BY <1>1, <2>1, CapKept
<1>4. CASE ~IsMaxInstanceLimitReached
  <2>1. Cardinality(Instances) + 1 < MaxInstances
    BY <1>4, Sizes, ConfigAssumption DEF IsMaxInstanceLimitReached
  <2>2. Admitted' \in SUBSET Requests
    BY DEF Admitted
  <2>3. Cardinality(Admitted') <= Cardinality(Requests) /\ Cardinality(Admitted') \in Nat
    BY <2>2, TeamsAssumption, FS_Subset, FS_CardinalityType
  <2> QED
    BY <1>1, <2>1, <2>3, Sizes, ConfigAssumption DEF CapInv
<1> QED
  BY <1>3, <1>4

LEMMA CapCreate ==
  ASSUME TypeOK, CapInv, NEW q \in Requests, CreateDeployment(q)
  PROVE  CapInv'
<1> DEFINE t == request[q].team
<1>1. request \in [Requests -> RequestState]
  BY DEF TypeOK, RequestsOK
<1>2. /\ request'[q].pc \notin {"build", "deployment"}
      /\ \A p \in Requests : p # q => request'[p] = request[p]
  BY <1>1 DEF CreateDeployment, IdleRequest, RequestState
<1>3. Admitted' \in SUBSET (Admitted \ {q}) /\ q \in Admitted
  BY <1>2 DEF Admitted, CreateDeployment
<1>4. Cardinality(Admitted \ {q}) = Cardinality(Admitted) - 1 /\ IsFiniteSet(Admitted \ {q})
  BY <1>3, Sizes, FS_RemoveElement
<1>5. Cardinality(Admitted') <= Cardinality(Admitted) - 1 /\ Cardinality(Admitted') \in Nat
  BY <1>3, <1>4, FS_Subset, FS_CardinalityType
<1>6. Instances' \in SUBSET (Instances \cup {t})
  BY DEF CreateDeployment, Instances, TypeOK, PartsOK
<1>7. /\ IsFiniteSet(Instances \cup {t})
      /\ Cardinality(Instances \cup {t}) = IF t \in Instances THEN Cardinality(Instances)
                                           ELSE Cardinality(Instances) + 1
  BY Sizes, FS_AddElement
<1>8. Cardinality(Instances') <= Cardinality(Instances) + 1 /\ Cardinality(Instances') \in Nat
  <2>1. /\ IsFiniteSet(Instances')
        /\ Cardinality(Instances') <= Cardinality(Instances \cup {t})
    BY <1>6, <1>7, FS_Subset
  <2>2. Cardinality(Instances') \in Nat
    BY <2>1, FS_CardinalityType
  <2> QED
    BY <1>7, <2>1, <2>2, Sizes
<1> QED
  BY <1>3, <1>5, <1>8, Sizes, ConfigAssumption DEF CapInv

LEMMA CapInductive == TypeOK /\ CapInv /\ [Next]_vars => CapInv'
<1> SUFFICES ASSUME TypeOK, CapInv, [Next]_vars PROVE CapInv'
  OBVIOUS
<1>t. request \in [Requests -> RequestState]
  BY DEF TypeOK, RequestsOK
<1>1. ASSUME NEW q \in Requests, JoinStep(q) PROVE CapInv'
  <2>1. ASSUME CreateSecret(q) \/ CreateService(q) \/ AnswerJoin(q) \/ JoinFails(q)
        PROVE  CapInv'
    <3>1. Instances' = Instances
      BY <2>1 DEF CreateSecret, CreateService, AnswerJoin, JoinFails, Instances
    <3>2. Admitted' \subseteq Admitted
      BY <1>t, <2>1 DEF CreateSecret, CreateService, AnswerJoin, JoinFails, Admitted, IdleRequest,
                        RequestState
    <3> QED
      BY <3>1, <3>2, CapKept
  <2>2. ASSUME BuildDeployment(q) PROVE CapInv'
    <3>1. Instances' = Instances /\ Admitted' \subseteq Admitted
      BY <1>t, <2>2 DEF BuildDeployment, Instances, Admitted
    <3> QED
      BY <3>1, CapKept
  <2> QED
    BY <1>1, <2>1, <2>2, CapCheck, CapCreate DEF JoinStep
<1>2. ASSUME NEW q \in Requests, NEW t \in Teams, Join(q, t) PROVE CapInv'
  <2>1. Instances' = Instances /\ Admitted' \subseteq Admitted
    BY <1>t, <1>2 DEF Join, Instances, Admitted, IdleRequest
  <2> QED
    BY <2>1, CapKept
<1>3. ASSUME NEW t \in Teams,
             \/ PodReadiness(t) \/ CollectService(t) \/ CollectSecret(t)
             \/ AdminDeleteInstance(t) \/ AdminRestartInstance(t) \/ DeleteInactive(t)
      PROVE  CapInv'
  <2>1. Instances' \subseteq Instances
    BY <1>3 DEF PodReadiness, CollectService, CollectSecret, AdminDeleteInstance,
                AdminRestartInstance, DeleteInactive, Instances, TypeOK, PartsOK
  <2>2. Admitted' = Admitted
    BY <1>3 DEF PodReadiness, CollectService, CollectSecret, AdminDeleteInstance,
                AdminRestartInstance, DeleteInactive, Admitted
  <2> QED
    BY <2>1, <2>2, CapKept
<1>4. CASE ProxyStep
  <2>1. Instances' \subseteq Instances
    BY <1>4 DEF ProxyStep, PassThrough, IsInstanceUp, UpdateLastRequestTimestamp, PatchLastRequest,
                ProxyRequest, Instances, TypeOK, PartsOK
  <2>2. Admitted' = Admitted
    BY <1>4 DEF ProxyStep, PassThrough, IsInstanceUp, UpdateLastRequestTimestamp, PatchLastRequest,
                ProxyRequest, Admitted
  <2> QED
    BY <2>1, <2>2, CapKept
<1>5. CASE Tick \/ ListInactive \/ UNCHANGED vars
  <2>1. Instances' = Instances /\ Admitted' = Admitted
    BY <1>5 DEF Tick, ListInactive, vars, Instances, Admitted
  <2> QED
    BY <2>1, CapKept
<1> QED
  BY <1>1, <1>2, <1>3, <1>4, <1>5, NextIs

\* However many joins overlap, they exceed what the check allows by no more
\* than their number.
THEOREM CapHolds == Spec => []InstancesBounded
<1>1. Init => TypeOK /\ CapInv
  <2>1. Init => Instances = {} /\ Admitted = {}
    BY DEF Init, Instances, Admitted, IdleRequest
  <2> QED
    BY <2>1, TypeInit DEF CapInv
<1>2. (TypeOK /\ CapInv) /\ [Next]_vars => (TypeOK /\ CapInv)'
  BY TypeInductive, CapInductive
<1>3. CapInv => InstancesBounded
  BY Sizes, ConfigAssumption DEF CapInv, InstancesBounded
<1> QED
  BY <1>1, <1>2, <1>3, PTL DEF Spec

-----------------------------------------------------------------------------
(* A welcomed team is served *)

Served(t, uid) == service[t] = uid /\ (LLMEnabled => secret[t] = uid)

\* No uid is known that has not been given out.
UidsGivenOut ==
    /\ \A t \in Teams : told[t] <= created /\ (deployment[t] # Absent => deployment[t].uid <= created)
    /\ \A q \in Requests : request[q].uid <= created

\* What a join has done so far holds for as long as its instance exists.
JoinsInOrder ==
    \A q \in Requests :
        request[q].pc # "idle" /\ Exists(request[q].team, request[q].uid) =>
            /\ request[q].pc = "service" /\ LLMEnabled => secret[request[q].team] = request[q].uid
            /\ request[q].pc = "answer" => Served(request[q].team, request[q].uid)

ServedInv ==
    /\ UidsGivenOut
    /\ JoinsInOrder
    /\ \A t \in Teams : Exists(t, told[t]) => Served(t, told[t])

\* A step after which no join, no welcome, no service and no secret is
\* different and no more instances exist.
LEMMA ServedKept ==
  ASSUME TypeOK, ServedInv, UNCHANGED <<created, told, request, service, secret>>,
         \A t \in Teams, uid \in 0 .. MaxCreations : Exists(t, uid)' => Exists(t, uid),
         \A t \in Teams : deployment'[t] # Absent => deployment'[t].uid <= created
  PROVE  ServedInv'
<1>1. UidsGivenOut'
  BY DEF ServedInv, UidsGivenOut
<1>2. JoinsInOrder'
  BY DEF TypeOK, RequestsOK, RequestState, ServedInv, JoinsInOrder, Served
<1>3. \A t \in Teams : Exists(t, told[t])' => Served(t, told[t])'
  BY DEF TypeOK, RequestsOK, ServedInv, Served
<1> QED
  BY <1>1, <1>2, <1>3 DEF ServedInv

LEMMA ServedJoinStep ==
  ASSUME TypeOK, ServedInv, NEW q \in Requests, JoinStep(q)
  PROVE  ServedInv'
<1>t. /\ request \in [Requests -> RequestState] /\ told \in [Teams -> 0 .. MaxCreations]
      /\ \A p \in Requests :
            /\ request[p].pc = "idle" <=> request[p].team = Nobody
            /\ request[p].pc \in {"secret", "service", "answer"} <=> request[p].uid # 0
  BY DEF TypeOK, RequestsOK
<1>m. \A p \in Requests : request[p].uid \in 0 .. MaxCreations
                          /\ (request[p].pc # "idle" => request[p].team \in Teams)
  BY <1>t DEF RequestState
<1>p. /\ deployment \in [Teams -> Deployment \cup {Absent}] /\ created \in 0 .. MaxCreations
      /\ service \in [Teams -> 0 .. MaxCreations] /\ secret \in [Teams -> 0 .. MaxCreations]
  BY DEF TypeOK, PartsOK
<1> DEFINE t == request[q].team
<1>1. ASSUME request' = [request EXCEPT ![q] = IdleRequest],
             UNCHANGED <<parts, told>>
      PROVE  ServedInv'
  <2>1. UidsGivenOut'
    BY <1>1, <1>t, <1>p DEF ServedInv, UidsGivenOut, IdleRequest
  <2>2. JoinsInOrder'
    BY <1>1, <1>t DEF ServedInv, JoinsInOrder, IdleRequest, Exists, Served
  <2> QED
    BY <1>1, <2>1, <2>2 DEF ServedInv, Exists, Served
<1>2. CASE CheckLimit(q)
  <2>1. CASE IsMaxInstanceLimitReached
    BY <1>1, <1>2, <2>1 DEF CheckLimit
  <2>2. CASE ~IsMaxInstanceLimitReached
    <3>1. request'[q].pc = "build" /\ request'[q].uid = request[q].uid
          /\ \A p \in Requests : p # q => request'[p] = request[p]
      BY <1>2, <2>2, <1>t DEF CheckLimit, RequestState
    <3>2. UidsGivenOut'
      BY <1>2, <3>1 DEF CheckLimit, ServedInv, UidsGivenOut
    <3>3. JoinsInOrder'
      BY <1>2, <3>1 DEF CheckLimit, ServedInv, JoinsInOrder, Exists, Served
    <3> QED
      BY <1>2, <3>2, <3>3 DEF CheckLimit, ServedInv, Exists, Served
  <2> QED
    BY <2>1, <2>2
<1>b. CASE BuildDeployment(q)
  <2>1. /\ request'[q].pc = "deployment" /\ request'[q].uid = request[q].uid
        /\ \A p \in Requests : p # q => request'[p] = request[p]
    BY <1>b, <1>t DEF BuildDeployment, RequestState
  <2>2. UidsGivenOut'
    BY <1>b, <2>1 DEF BuildDeployment, ServedInv, UidsGivenOut
  <2>3. JoinsInOrder'
    BY <1>b, <2>1 DEF BuildDeployment, ServedInv, JoinsInOrder, Exists, Served
  <2> QED
    BY <1>b, <2>2, <2>3 DEF BuildDeployment, ServedInv, Exists, Served
<1>3. CASE CreateDeployment(q)
  <2>1. CASE deployment[t] = Absent
    <3>1. t \in Teams
      BY <1>3, <1>m DEF CreateDeployment
    <3>2. /\ created' = created + 1 /\ UNCHANGED <<service, secret, told>>
          /\ deployment'[t].uid = created + 1
          /\ \A u \in Teams : u # t => deployment'[u] = deployment[u]
      BY <1>3, <2>1, <3>1, <1>p DEF CreateDeployment
    <3>3. /\ request'[q].pc = IF LLMEnabled THEN "secret" ELSE "service"
          /\ request'[q].uid = created + 1
          /\ \A p \in Requests : p # q => request'[p] = request[p]
      BY <1>3, <2>1, <1>t DEF CreateDeployment, RequestState
    <3>4. UidsGivenOut'
      BY <3>1, <3>2, <3>3, <1>m, <1>t, <1>p DEF ServedInv, UidsGivenOut, Deployment, Uid
    <3>5. ASSUME NEW p \in Requests, p # q, request[p].pc # "idle",
                 Exists(request[p].team, request[p].uid)'
          PROVE  Exists(request[p].team, request[p].uid)
      <4>1. request[p].team # t
        BY <3>2, <3>3, <3>5, <1>m, <1>p DEF ServedInv, UidsGivenOut, Exists
      <4> QED
        BY <3>2, <3>3, <3>5, <4>1, <1>m DEF Exists
    <3>6. JoinsInOrder'
      <4>1. ASSUME NEW p \in Requests, p # q, (request[p].pc # "idle")',
                   Exists(request[p].team, request[p].uid)'
            PROVE  /\ request'[p].pc = "service" /\ LLMEnabled => secret'[request'[p].team] = request'[p].uid
                   /\ request'[p].pc = "answer" => Served(request[p].team, request[p].uid)'
        <5>1. request[p].pc # "idle" /\ Exists(request[p].team, request[p].uid)
          BY <3>3, <3>5, <4>1
        <5>2. /\ request[p].pc = "service" /\ LLMEnabled => secret[request[p].team] = request[p].uid
              /\ request[p].pc = "answer" => Served(request[p].team, request[p].uid)
          BY <4>1, <5>1 DEF ServedInv, JoinsInOrder
        <5> QED
          BY <3>2, <3>3, <4>1, <5>2 DEF Served
      <4>2. request'[q].pc # "answer" /\ (request'[q].pc = "service" => ~LLMEnabled)
        BY <3>3
      <4> QED
        BY <4>1, <4>2 DEF JoinsInOrder
    <3>7. ASSUME NEW u \in Teams, Exists(u, told[u])' PROVE Served(u, told[u])'
      <4>1. u # t
        BY <3>2, <3>7, <1>t, <1>p DEF ServedInv, UidsGivenOut, Exists
      <4> QED
        BY <3>2, <3>7, <4>1 DEF ServedInv, Exists, Served
    <3> QED
      BY <3>4, <3>6, <3>7 DEF ServedInv
  <2>2. CASE deployment[t] # Absent
    BY <1>1, <1>3, <2>2 DEF CreateDeployment
  <2> QED
    BY <2>1, <2>2
<1>4. CASE CreateSecret(q)
  <2>1. CASE secret[t] = 0
    <3>1. t \in Teams /\ request[q].uid # 0
      BY <1>4, <1>m, <1>t DEF CreateSecret
    <3>2. /\ UNCHANGED <<deployment, service, created, told>>
          /\ secret'[t] = request[q].uid
          /\ \A u \in Teams : u # t => secret'[u] = secret[u]
      BY <1>4, <2>1, <3>1, <1>p DEF CreateSecret
    <3>3. /\ request'[q].pc = "service" /\ request'[q].uid = request[q].uid /\ request'[q].team = t
          /\ \A p \in Requests : p # q => request'[p] = request[p]
      BY <1>4, <2>1, <1>t DEF CreateSecret, RequestState
    <3>4. UidsGivenOut'
      BY <3>2, <3>3 DEF ServedInv, UidsGivenOut
    <3>5. JoinsInOrder'
      BY <3>2, <3>3, <2>1, <1>t, <1>m DEF ServedInv, JoinsInOrder, Exists, Served
    <3>6. \A u \in Teams : Exists(u, told[u])' => Served(u, told[u])'
      <4>1. ASSUME NEW u \in Teams, Exists(u, told[u])' PROVE Served(u, told[u])'
        <5>1. Exists(u, told[u]) /\ Served(u, told[u])
          BY <3>2, <4>1 DEF ServedInv, Exists
        <5>2. told[u] # 0
          BY <5>1, <1>p DEF Exists, Deployment, Uid
        <5> QED
          BY <5>1, <5>2, <3>2, <2>1 DEF Served
      <4> QED
        BY <4>1
    <3> QED
      BY <3>4, <3>5, <3>6 DEF ServedInv
  <2>2. CASE secret[t] # 0
    BY <1>1, <1>4, <2>2 DEF CreateSecret
  <2> QED
    BY <2>1, <2>2
<1>5. CASE CreateService(q)
  <2>1. CASE service[t] = 0
    <3>1. t \in Teams /\ request[q].uid # 0
      BY <1>5, <1>m, <1>t DEF CreateService
    <3>2. /\ UNCHANGED <<deployment, secret, created, told>>
          /\ service'[t] = request[q].uid
          /\ \A u \in Teams : u # t => service'[u] = service[u]
      BY <1>5, <2>1, <3>1, <1>p DEF CreateService
    <3>3. /\ request'[q].pc = "answer" /\ request'[q].uid = request[q].uid /\ request'[q].team = t
          /\ \A p \in Requests : p # q => request'[p] = request[p]
      BY <1>5, <2>1, <1>t DEF CreateService, RequestState
    <3>4. UidsGivenOut'
      BY <3>2, <3>3 DEF ServedInv, UidsGivenOut
    <3>5. Exists(t, request[q].uid) /\ LLMEnabled => secret[t] = request[q].uid
      BY <1>5 DEF CreateService, ServedInv, JoinsInOrder
    <3>6. JoinsInOrder'
      BY <3>2, <3>3, <3>5, <2>1, <1>t, <1>m DEF ServedInv, JoinsInOrder, Exists, Served
    <3>7. \A u \in Teams : Exists(u, told[u])' => Served(u, told[u])'
      <4>1. ASSUME NEW u \in Teams, Exists(u, told[u])' PROVE Served(u, told[u])'
        <5>1. Exists(u, told[u]) /\ Served(u, told[u])
          BY <3>2, <4>1 DEF ServedInv, Exists
        <5>2. told[u] # 0
          BY <5>1, <1>p DEF Exists, Deployment, Uid
        <5> QED
          BY <5>1, <5>2, <3>2, <2>1 DEF Served
      <4> QED
        BY <4>1
    <3> QED
      BY <3>4, <3>6, <3>7 DEF ServedInv
  <2>2. CASE service[t] # 0
    BY <1>1, <1>5, <2>2 DEF CreateService
  <2> QED
    BY <2>1, <2>2
<1>6. CASE AnswerJoin(q)
  <2>1. /\ t \in Teams
        /\ Exists(t, request[q].uid) => Served(t, request[q].uid)
        /\ request[q].uid <= created
    BY <1>6, <1>m DEF AnswerJoin, ServedInv, JoinsInOrder, UidsGivenOut
  <2>2. /\ told'[t] = request[q].uid
        /\ \A u \in Teams : u # t => told'[u] = told[u]
        /\ request' = [request EXCEPT ![q] = IdleRequest] /\ UNCHANGED parts
    BY <1>6, <2>1, <1>t DEF AnswerJoin
  <2>3. UidsGivenOut'
    BY <2>1, <2>2, <1>t, <1>p DEF ServedInv, UidsGivenOut, IdleRequest
  <2>4. JoinsInOrder'
    BY <2>2, <1>t DEF ServedInv, JoinsInOrder, IdleRequest, Exists, Served
  <2>5. \A u \in Teams : Exists(u, told[u])' => Served(u, told[u])'
    BY <2>1, <2>2 DEF ServedInv, Exists, Served
  <2> QED
    BY <2>3, <2>4, <2>5 DEF ServedInv
<1>7. CASE JoinFails(q)
  BY <1>1, <1>7 DEF JoinFails
<1> QED
  BY <1>2, <1>b, <1>3, <1>4, <1>5, <1>6, <1>7 DEF JoinStep

LEMMA ServedJoin ==
  ASSUME TypeOK, ServedInv, NEW q \in Requests, NEW t \in Teams, Join(q, t)
  PROVE  ServedInv'
<1>1. /\ request'[q].pc = "count" /\ request'[q].uid = 0
      /\ \A p \in Requests : p # q => request'[p] = request[p]
  BY DEF Join, TypeOK, RequestsOK, IdleRequest
<1>2. UidsGivenOut'
  BY <1>1 DEF Join, ServedInv, UidsGivenOut, TypeOK, PartsOK
<1>3. JoinsInOrder'
  BY <1>1 DEF Join, ServedInv, JoinsInOrder, Exists, Served
<1> QED
  BY <1>2, <1>3 DEF Join, ServedInv, Exists, Served

\* What the garbage collector takes belongs to no instance.
LEMMA ServedCollect ==
  ASSUME TypeOK, ServedInv, NEW t \in Teams, CollectService(t) \/ CollectSecret(t)
  PROVE  ServedInv'
<1>1. UidsGivenOut'
  BY DEF CollectService, CollectSecret, ServedInv, UidsGivenOut
<1>2. ASSUME NEW u \in Teams, NEW uid, Exists(u, uid)
      PROVE  /\ service[u] = uid => service'[u] = uid
             /\ secret[u] = uid => secret'[u] = uid
  BY <1>2 DEF CollectService, CollectSecret, TypeOK, PartsOK, Exists
<1>3. ASSUME NEW u, NEW uid PROVE Exists(u, uid)' <=> Exists(u, uid)
  BY DEF CollectService, CollectSecret, Exists
<1>4. JoinsInOrder'
  <2>1. ASSUME NEW q \in Requests, request[q].pc # "idle",
               Exists(request[q].team, request[q].uid)
        PROVE  /\ request[q].pc = "service" /\ LLMEnabled =>
                     secret'[request[q].team] = request[q].uid
               /\ request[q].pc = "answer" => Served(request[q].team, request[q].uid)'
    <3>1. request[q].team \in Teams /\ request' = request
      BY <2>1 DEF TypeOK, RequestsOK, RequestState, CollectService, CollectSecret
    <3>2. /\ request[q].pc = "service" /\ LLMEnabled => secret[request[q].team] = request[q].uid
          /\ request[q].pc = "answer" => Served(request[q].team, request[q].uid)
      BY <2>1 DEF ServedInv, JoinsInOrder
    <3> QED
      BY <1>2, <2>1, <3>1, <3>2 DEF Served
  <2>2. request' = request
    BY DEF CollectService, CollectSecret
  <2> QED
    BY <1>3, <2>1, <2>2 DEF JoinsInOrder
<1>5. \A u \in Teams : Exists(u, told[u])' => Served(u, told[u])'
  <2>1. told' = told
    BY DEF CollectService, CollectSecret
  <2> QED
    BY <1>2, <1>3, <2>1 DEF ServedInv, Served
<1> QED
  BY <1>1, <1>4, <1>5 DEF ServedInv

LEMMA ServedInductive == TypeOK /\ ServedInv /\ [Next]_vars => ServedInv'
<1> SUFFICES ASSUME TypeOK, ServedInv, [Next]_vars PROVE ServedInv'
  OBVIOUS
<1>1. ASSUME NEW q \in Requests, JoinStep(q) PROVE ServedInv'
  BY <1>1, ServedJoinStep
<1>2. ASSUME NEW q \in Requests, NEW t \in Teams, Join(q, t) PROVE ServedInv'
  BY <1>2, ServedJoin
<1>3. ASSUME NEW t \in Teams, CollectService(t) \/ CollectSecret(t) PROVE ServedInv'
  BY <1>3, ServedCollect
<1>4. ASSUME NEW t \in Teams,
             \/ PodReadiness(t) \/ AdminDeleteInstance(t)
             \/ AdminRestartInstance(t) \/ DeleteInactive(t)
      PROVE  ServedInv'
  <2>1. UNCHANGED <<created, told, request, service, secret>>
    BY <1>4 DEF PodReadiness, AdminDeleteInstance, AdminRestartInstance, DeleteInactive
  <2>2. \A u \in Teams : deployment'[u] # Absent =>
            deployment[u] # Absent /\ deployment'[u].uid = deployment[u].uid
    BY <1>4 DEF PodReadiness, AdminDeleteInstance, AdminRestartInstance, DeleteInactive,
                TypeOK, PartsOK, Deployment
  <2> QED
    BY <2>1, <2>2, ServedKept DEF Exists, ServedInv, UidsGivenOut
<1>5. CASE ProxyStep
  <2>1. UNCHANGED <<created, told, request, service, secret>>
    BY <1>5 DEF ProxyStep, PassThrough, IsInstanceUp, UpdateLastRequestTimestamp,
                PatchLastRequest, ProxyRequest
  <2>2. \A u \in Teams : deployment'[u] # Absent =>
            deployment[u] # Absent /\ deployment'[u].uid = deployment[u].uid
    <3>1. ASSUME NEW p \in Lookups, PatchLastRequest(p), NEW u \in Teams, deployment'[u] # Absent
          PROVE  deployment[u] # Absent /\ deployment'[u].uid = deployment[u].uid
      BY <3>1 DEF PatchLastRequest, TypeOK, PartsOK, Deployment
    <3>2. (\E p \in Lookups : PatchLastRequest(p)) \/ UNCHANGED deployment
      BY <1>5 DEF ProxyStep, PassThrough, IsInstanceUp, UpdateLastRequestTimestamp, ProxyRequest
    <3> QED
      BY <3>1, <3>2
  <2> QED
    BY <2>1, <2>2, ServedKept DEF Exists, ServedInv, UidsGivenOut
<1>6. CASE Tick \/ ListInactive \/ UNCHANGED vars
  <2>1. UNCHANGED <<deployment, created, told, request, service, secret>>
    BY <1>6 DEF Tick, ListInactive, vars
  <2> QED
    BY <2>1, ServedKept DEF Exists, ServedInv, UidsGivenOut
<1> QED
  BY <1>1, <1>2, <1>3, <1>4, <1>5, <1>6, NextIs

\* A welcomed team has the service and the secret of its own instance for as
\* long as that exists, whatever earlier instances of the name left behind.
THEOREM WelcomedTeamsAreServed == Spec => []ToldTeamsAreServed
<1>1. Init => TypeOK /\ ServedInv
  <2>1. Init => ServedInv
    BY DEF Init, ServedInv, UidsGivenOut, JoinsInOrder, Exists, IdleRequest
  <2> QED
    BY <2>1, TypeInit
<1>2. (TypeOK /\ ServedInv) /\ [Next]_vars => (TypeOK /\ ServedInv)'
  BY TypeInductive, ServedInductive
<1>3. ServedInv => ToldTeamsAreServed
  BY DEF ServedInv, ToldTeamsAreServed, Exists, Served
<1> QED
  BY <1>1, <1>2, <1>3, PTL DEF Spec

-----------------------------------------------------------------------------
(* Whoever is swept was idle *)

\* An annotation of t with the time l is not much older than what the proxies
\* remember of t: what their lookups have written, what their caches hold and
\* what these have let through.
Remembered(t, l) ==
    /\ \A p \in Lookups : lookup[p].pc = "patched" /\ lookup[p].team = t =>
          lookup[p].time <= l + slowest
    /\ \A r \in Replicas : upCache[r][t] <= l + 2 * slowest
    /\ used[t] <= l + (CacheTime - 1) + 2 * slowest

\* No time is underway for longer than slowest, and unless a patch failed no
\* annotation is much older than what the proxies remember.
IdleInv ==
    /\ \A t \in Teams : used[t] <= now /\ \A r \in Replicas : upCache[r][t] <= now
    /\ \A p \in Lookups : lookup[p].time <= now
    /\ \A time \in Underway : now <= time + slowest
    /\ failures = 0 => \A t \in Teams : deployment[t] # Absent =>
          Remembered(t, deployment[t].lastRequest)

LEMMA Times ==
  ASSUME TypeOK
  PROVE  /\ now \in Nat /\ failures \in Nat /\ slowest \in Nat
         /\ \A t \in Teams : used[t] \in Nat /\ \A r \in Replicas : upCache[r][t] \in Nat
         /\ \A p \in Lookups : lookup[p].time \in Nat
         /\ \A q \in Requests : request[q].time \in Nat
         /\ \A t \in Teams : deployment[t] # Absent => deployment[t].lastRequest \in Nat
         /\ \A time \in Underway : time \in Nat
<1>1. /\ \A p \in Lookups : lookup[p].time \in Nat
      /\ \A q \in Requests : request[q].time \in Nat
  BY BoundsAssumption DEF TypeOK, ProxyOK, RequestsOK, RequestState, LookupState
<1>2. \A time \in Underway : time \in Nat
  BY <1>1 DEF Underway
<1> QED
  BY <1>1, <1>2, BoundsAssumption DEF TypeOK, ProxyOK, PartsOK, Deployment, Time

\* A time that has not been underway for longer than slowest is recent enough.
LEMMA RecentEnough ==
  ASSUME TypeOK, IdleInv, NEW t \in Teams, NEW l \in Nat, now <= l + slowest
  PROVE  Remembered(t, l)
<1>1. /\ now \in Nat /\ slowest \in Nat /\ CacheTime \in Nat \ {0}
      /\ used[t] \in Nat /\ used[t] <= now
  BY Times, ConfigAssumption DEF IdleInv
<1>2. ASSUME NEW n \in Nat, n <= now PROVE n <= l + slowest /\ n <= l + 2 * slowest
  BY <1>1, <1>2
<1>3. used[t] <= l + (CacheTime - 1) + 2 * slowest
  BY <1>1
<1> QED
  BY <1>2, <1>3, Times DEF IdleInv, Remembered

\* Steps that leave the proxies alone, the annotations of all deployments but of
\* those that get a recent one, and the times that are underway.
LEMMA IdleKept ==
  ASSUME TypeOK, IdleInv, UNCHANGED <<proxy, now, slowest>>,
         failures' = 0 => failures = 0,
         \A t \in Teams : deployment'[t] # Absent =>
            \/ deployment[t] # Absent /\ deployment'[t].lastRequest = deployment[t].lastRequest
            \/ deployment'[t].lastRequest \in Underway,
         \A time \in Underway' : time \in Underway \cup {now}
  PROVE  IdleInv'
<1>1. ASSUME NEW t \in Teams, failures' = 0, deployment'[t] # Absent
      PROVE  Remembered(t, deployment'[t].lastRequest)
  <2>1. CASE deployment[t] # Absent /\ deployment'[t].lastRequest = deployment[t].lastRequest
    BY <1>1, <2>1 DEF IdleInv
  <2>2. CASE deployment'[t].lastRequest \in Underway
    <3>1. PICK l \in Underway : l = deployment'[t].lastRequest
      BY <2>2
    <3>2. l \in Nat /\ now <= l + slowest
      BY <3>1, Times DEF IdleInv
    <3> QED
      BY <3>1, <3>2, RecentEnough
  <2> QED
    BY <1>1, <2>1, <2>2
<1>2. \A time \in Underway' : now <= time + slowest
  <2>1. now <= now + slowest
    BY Times
  <2> QED
    BY <2>1 DEF IdleInv
<1>4. \A t \in Teams : failures' = 0 /\ deployment'[t] # Absent =>
         Remembered(t, deployment[t].lastRequest)'
  <2>1. ASSUME NEW t \in Teams, failures' = 0, deployment'[t] # Absent
        PROVE  Remembered(t, deployment[t].lastRequest)'
    <3>1. PICK l : l = deployment'[t].lastRequest
      OBVIOUS
    <3>2. Remembered(t, l)
      BY <1>1, <2>1, <3>1
    <3> QED
      BY <3>1, <3>2 DEF Remembered
  <2> QED
    BY <2>1
<1> QED
  BY <1>2, <1>4 DEF IdleInv

LEMMA IdleJoin ==
  ASSUME TypeOK, IdleInv, NEW q \in Requests, JoinStep(q) \/ \E t \in Teams : Join(q, t)
  PROVE  IdleInv'
<1>1. UNCHANGED <<proxy, now, slowest>> /\ (failures' = 0 => failures = 0)
  BY Times DEF JoinStep, CheckLimit, BuildDeployment, CreateDeployment, CreateSecret,
     CreateService, AnswerJoin, JoinFails, Fail, Join
<1>2. request \in [Requests -> RequestState]
  BY DEF TypeOK, RequestsOK
<1>3. \A t \in Teams : deployment'[t] = deployment[t] \/ deployment'[t].lastRequest \in Underway
  <2>1. CASE CreateDeployment(q)
    <3>1. request[q].time \in Underway
      BY <2>1 DEF CreateDeployment, Underway
    <3> QED
      BY <2>1, <3>1 DEF CreateDeployment, TypeOK, PartsOK
  <2>2. CASE ~CreateDeployment(q)
    BY <2>2 DEF JoinStep, CheckLimit, BuildDeployment, CreateSecret, CreateService, AnswerJoin,
       JoinFails, Join
  <2> QED
    BY <2>1, <2>2
<1>4. \A o \in Requests : request'[o].pc = "deployment" =>
         request'[o] = request[o] \/ request'[o].time = now
  <2>1. ASSUME NEW o \in Requests, o # q PROVE request'[o] = request[o]
    BY <1>2, <2>1 DEF JoinStep, CheckLimit, BuildDeployment, CreateDeployment, CreateSecret,
       CreateService, AnswerJoin, JoinFails, Join
  <2>2. CASE BuildDeployment(q)
    BY <1>2, <2>1, <2>2 DEF BuildDeployment, RequestState
  <2>3. CASE CreateDeployment(q)
    BY <1>2, <2>1, <2>3 DEF CreateDeployment, RequestState, IdleRequest
  <2>4. CASE ~BuildDeployment(q) /\ ~CreateDeployment(q)
    <3>1. request'[q].pc # "deployment"
      BY <1>2, <2>4 DEF JoinStep, CheckLimit, CreateSecret, CreateService, AnswerJoin, JoinFails,
         Join, RequestState, IdleRequest
    <3> QED
      BY <2>1, <3>1
  <2> QED
    BY <2>2, <2>3, <2>4
<1>5. \A time \in Underway' : time \in Underway \cup {now}
  BY <1>1, <1>4 DEF Underway
<1>6. \A t \in Teams : deployment'[t] # Absent =>
         \/ deployment[t] # Absent /\ deployment'[t].lastRequest = deployment[t].lastRequest
         \/ deployment'[t].lastRequest \in Underway
  BY <1>3
<1> QED
  BY <1>1, <1>5, <1>6, IdleKept

\* A request that goes straight through is not much later than its cache entry.
LEMMA IdlePassThrough ==
  ASSUME TypeOK, IdleInv, NEW r \in Replicas, NEW t \in Teams, PassThrough(r, t)
  PROVE  IdleInv'
<1>1. /\ upCache[r][t] > now - CacheTime
      /\ used' = [used EXCEPT ![t] = now]
      /\ UNCHANGED <<deployment, request, upCache, lookup, now, slowest, failures>>
  BY DEF PassThrough, CheckedRecently
<1>2. \A u \in Teams : used'[u] = IF u = t THEN now ELSE used[u]
  BY <1>1 DEF TypeOK, ProxyOK
<1>3. ASSUME NEW u \in Teams, failures = 0, deployment[u] # Absent
      PROVE  Remembered(u, deployment[u].lastRequest)'
  <2>1. PICK l \in Nat : l = deployment[u].lastRequest
    BY <1>3, Times
  <2>2. Remembered(u, l)
    BY <1>3, <2>1 DEF IdleInv
  <2>3. used'[u] <= l + (CacheTime - 1) + 2 * slowest
    <3>1. CASE u = t
      <4>1. upCache[r][t] <= l + 2 * slowest /\ upCache[r][t] \in Nat
        BY <2>2, <3>1, Times DEF Remembered
      <4> QED
        BY <1>1, <1>2, <3>1, <4>1, Times, ConfigAssumption
    <3>2. CASE u # t
      BY <1>2, <2>2, <3>2 DEF Remembered
    <3> QED
      BY <3>1, <3>2
  <2>4. deployment'[u].lastRequest = l
    BY <1>1, <2>1
  <2> QED
    BY <1>1, <2>2, <2>3, <2>4 DEF Remembered
<1>4. now <= now
  BY Times
<1> QED
  BY <1>1, <1>2, <1>3, <1>4 DEF IdleInv, Underway

\* A lookup begins, or takes its time.
LEMMA IdleLookUp ==
  ASSUME TypeOK, IdleInv, NEW p \in Lookups,
         \/ \E r \in Replicas, t \in Teams : IsInstanceUp(p, r, t)
         \/ UpdateLastRequestTimestamp(p)
  PROVE  IdleInv'
<1>1. UNCHANGED <<deployment, request, upCache, used, now, slowest, failures>>
  BY DEF IsInstanceUp, UpdateLastRequestTimestamp
<1>2. /\ lookup'[p].pc # "patched"
      /\ lookup'[p].time <= now /\ (lookup'[p].pc = "patch" => lookup'[p].time = now)
      /\ \A o \in Lookups : o # p => lookup'[o] = lookup[o]
  <2>1. lookup \in [Lookups -> LookupState] /\ now \in Nat
    BY Times DEF TypeOK, ProxyOK
  <2>2. CASE UpdateLastRequestTimestamp(p)
    BY <2>1, <2>2 DEF UpdateLastRequestTimestamp, LookupState
  <2>3. CASE \E r \in Replicas, t \in Teams : IsInstanceUp(p, r, t)
    <3>1. PICK r \in Replicas, t \in Teams : IsInstanceUp(p, r, t)
      BY <2>3
    <3> QED
      BY <2>1, <3>1 DEF IsInstanceUp
  <2> QED
    BY <2>2, <2>3
<1>3. \A time \in Underway' : time \in Underway \cup {now}
  BY <1>1, <1>2 DEF Underway
<1>4. \A time \in Underway' : now <= time + slowest
  <2>1. now <= now + slowest
    BY Times
  <2> QED
    BY <1>3, <2>1 DEF IdleInv
<1>5. ASSUME NEW t \in Teams, failures = 0, deployment[t] # Absent
      PROVE  Remembered(t, deployment[t].lastRequest)'
  <2>1. Remembered(t, deployment[t].lastRequest)
    BY <1>5 DEF IdleInv
  <2> QED
    BY <1>1, <1>2, <2>1 DEF Remembered
<1>6. \A o \in Lookups : lookup'[o].time <= now
  BY <1>2 DEF IdleInv
<1> QED
  BY <1>1, <1>4, <1>5, <1>6 DEF IdleInv

\* A patch lands, perhaps with a time older than the annotation's.
LEMMA IdlePatch ==
  ASSUME TypeOK, IdleInv, NEW p \in Lookups, PatchLastRequest(p)
  PROVE  IdleInv'
<1>1. PICK t \in Teams : t = lookup[p].team
  BY LookupIs DEF PatchLastRequest
<1>2. PICK l \in Nat : l = lookup[p].time
  BY Times
<1>3. UNCHANGED <<request, upCache, used, now, slowest>>
  BY DEF PatchLastRequest
<1>4. /\ lookup'[p].pc = "patched" /\ lookup'[p].time = l /\ lookup'[p].team = t
      /\ \A o \in Lookups : o # p => lookup'[o] = lookup[o]
  <2>1. lookup \in [Lookups -> LookupState]
    BY LookupIs
  <2> QED
    BY <1>1, <1>2, <2>1 DEF PatchLastRequest, LookupState
<1>5. l \in Underway /\ now <= l + slowest /\ l <= now
  <2>1. l \in Underway
    BY <1>2 DEF PatchLastRequest, Underway
  <2> QED
    BY <1>2, <2>1 DEF IdleInv
<1>6. \A time \in Underway' : time \in Underway
  BY <1>3, <1>4, <1>5 DEF Underway
<1>7. ASSUME failures' = 0
      PROVE  /\ failures = 0
             /\ \/ /\ deployment[t] # Absent
                   /\ deployment' = [deployment EXCEPT ![t].lastRequest = l]
                \/ deployment[t] = Absent /\ UNCHANGED deployment
  BY <1>1, <1>2, <1>7, Times DEF PatchLastRequest, Fail
<1>8. ASSUME NEW u \in Teams, failures' = 0, deployment'[u] # Absent
      PROVE  Remembered(u, deployment[u].lastRequest)'
  <2>1. CASE u = t
    <3>1. deployment'[u].lastRequest = l
      BY <1>7, <1>8, <2>1 DEF TypeOK, PartsOK, Deployment
    <3>2. Remembered(u, l)
      BY <1>2, <1>5, RecentEnough
    <3>3. l <= l + slowest
      BY <1>2, Times
    <3> QED
      BY <1>3, <1>4, <3>1, <3>2, <3>3 DEF Remembered
  <2>2. CASE u # t
    <3>1. deployment'[u] = deployment[u] /\ failures = 0
      BY <1>7, <1>8, <2>2 DEF TypeOK, PartsOK
    <3>2. Remembered(u, deployment[u].lastRequest)
      BY <1>8, <3>1 DEF IdleInv
    <3> QED
      BY <1>3, <1>4, <2>2, <3>1, <3>2 DEF Remembered
  <2> QED
    BY <2>1, <2>2
<1>9. \A o \in Lookups : lookup'[o].time <= now
  BY <1>4, <1>5 DEF IdleInv
<1> QED
  BY <1>3, <1>6, <1>8, <1>9 DEF IdleInv

\* The cache is written no later than slowest after the time of the patch.
LEMMA IdleProxy ==
  ASSUME TypeOK, IdleInv, NEW p \in Lookups, ProxyRequest(p)
  PROVE  IdleInv'
<1>1. PICK t \in Teams, r \in Replicas : t = lookup[p].team /\ r = lookup[p].replica
  BY LookupIs DEF ProxyRequest
<1>2. PICK time \in Nat : time = lookup[p].time
  BY Times
<1>3. /\ UNCHANGED <<deployment, request, now, slowest, failures>>
      /\ \A u \in Teams : used'[u] = IF u = t THEN now ELSE used[u]
      /\ \A s \in Replicas, u \in Teams :
            upCache'[s][u] = IF s = r /\ u = t THEN now ELSE upCache[s][u]
  BY <1>1 DEF ProxyRequest, TypeOK, ProxyOK
<1>4. lookup'[p] = IdleLookup /\ \A o \in Lookups : o # p => lookup'[o] = lookup[o]
  BY LookupIs DEF ProxyRequest
<1>5. time \in Underway /\ now <= time + slowest
  <2>1. time \in Underway
    BY <1>2 DEF ProxyRequest, Underway
  <2> QED
    BY <2>1 DEF IdleInv
<1>6. \A o \in Underway' : o \in Underway
  BY <1>3, <1>4, IdleLookupType DEF Underway
<1>7. ASSUME NEW u \in Teams, failures = 0, deployment[u] # Absent
      PROVE  Remembered(u, deployment[u].lastRequest)'
  <2>1. PICK l \in Nat : l = deployment[u].lastRequest
    BY <1>7, Times
  <2>2. Remembered(u, l)
    BY <1>7, <2>1 DEF IdleInv
  <2>3. u = t => now <= l + 2 * slowest
    <3>1. ASSUME u = t PROVE time <= l + slowest
      BY <1>1, <1>2, <2>2, <3>1 DEF Remembered, ProxyRequest
    <3> QED
      BY <1>2, <1>5, <2>1, <3>1, Times
  <2>4. \A s \in Replicas : upCache'[s][u] <= l + 2 * slowest
    BY <1>3, <2>2, <2>3 DEF Remembered
  <2>5. u = t => now <= l + (CacheTime - 1) + 2 * slowest
    BY <2>1, <2>3, Times, ConfigAssumption
  <2>6. used'[u] <= l + (CacheTime - 1) + 2 * slowest
    BY <1>3, <2>2, <2>5 DEF Remembered
  <2>7. \A o \in Lookups : lookup'[o].pc = "patched" /\ lookup'[o].team = u =>
           lookup'[o].time <= l + slowest
    BY <1>4, <2>2, IdleLookupType DEF Remembered
  <2>8. deployment'[u].lastRequest = l /\ slowest' = slowest
    BY <1>3, <2>1
  <2> QED
    BY <1>3, <2>1, <2>4, <2>6, <2>7, <2>8 DEF Remembered
<1>8. \A u \in Teams : used'[u] <= now /\ \A s \in Replicas : upCache'[s][u] <= now
  <2>1. now <= now
    BY Times
  <2> QED
    BY <1>3, <2>1 DEF IdleInv
<1>9. \A o \in Lookups : lookup'[o].time <= now
  <2>1. 0 <= now
    BY Times
  <2> QED
    BY <1>4, <2>1, IdleLookupType DEF IdleInv
<1> QED
  BY <1>3, <1>6, <1>7, <1>8, <1>9 DEF IdleInv

\* Time passes, and what is underway gets older.
LEMMA IdleTick ==
  ASSUME TypeOK, IdleInv, Tick
  PROVE  IdleInv'
<1>1. /\ now' = now + 1 /\ UNCHANGED <<deployment, request, proxy, failures>>
      /\ now \in Nat /\ slowest \in Nat
      /\ slowest' = slowest + 1 \/ slowest' = slowest
  BY Times DEF Tick
<1>2. Underway' = Underway
  BY <1>1 DEF Underway
<1>3. \A time \in Underway : now' <= time + slowest'
  <2>1. ASSUME NEW time \in Underway PROVE now' <= time + slowest'
    <3>1. time \in Nat /\ now <= time + slowest
      BY Times DEF IdleInv
    <3>2. CASE now' - time > slowest
      <4>1. slowest' = slowest + 1
        BY <3>2 DEF Tick
      <4> QED
        BY <1>1, <3>1, <4>1
    <3>3. CASE ~(now' - time > slowest)
      BY <1>1, <3>1, <3>3
    <3> QED
      BY <3>2, <3>3
  <2> QED
    BY <2>1
<1>4. \A n \in Nat : n <= now => n <= now'
  BY <1>1
<1>5. ASSUME NEW t \in Teams, failures = 0, deployment[t] # Absent
      PROVE  Remembered(t, deployment[t].lastRequest)'
  <2>1. PICK l \in Nat : l = deployment[t].lastRequest
    BY <1>5, Times
  <2>2. Remembered(t, l)
    BY <1>5, <2>1 DEF IdleInv
  <2>3. \A n \in Nat : /\ n <= l + slowest => n <= l + slowest'
                       /\ n <= l + 2 * slowest => n <= l + 2 * slowest'
                       /\ n <= l + (CacheTime - 1) + 2 * slowest =>
                             n <= l + (CacheTime - 1) + 2 * slowest'
    BY <1>1, ConfigAssumption
  <2>4. /\ \A p \in Lookups : lookup[p].pc = "patched" /\ lookup[p].team = t =>
              lookup[p].time <= l + slowest'
        /\ \A r \in Replicas : upCache[r][t] <= l + 2 * slowest'
        /\ used[t] <= l + (CacheTime - 1) + 2 * slowest'
    BY <2>2, <2>3, Times DEF Remembered
  <2>5. deployment'[t].lastRequest = l
    BY <1>1, <2>1
  <2> QED
    BY <1>1, <2>4, <2>5 DEF Remembered
<1> QED
  BY <1>1, <1>2, <1>3, <1>4, <1>5, Times DEF IdleInv

LEMMA IdleInductive == TypeOK /\ IdleInv /\ [Next]_vars => IdleInv'
<1> SUFFICES ASSUME TypeOK, IdleInv, [Next]_vars PROVE IdleInv'
  OBVIOUS
<1>1. ASSUME NEW q \in Requests, JoinStep(q) \/ \E t \in Teams : Join(q, t) PROVE IdleInv'
  BY <1>1, IdleJoin
<1>2. ASSUME NEW t \in Teams,
             \/ PodReadiness(t) \/ AdminDeleteInstance(t) \/ AdminRestartInstance(t)
             \/ DeleteInactive(t) \/ CollectService(t) \/ CollectSecret(t)
      PROVE  IdleInv'
  <2>1. UNCHANGED <<request, proxy, now, slowest>> /\ (failures' = 0 => failures = 0)
    BY <1>2, Times DEF PodReadiness, AdminDeleteInstance, AdminRestartInstance, DeleteInactive,
         CollectService, CollectSecret, Fail
  <2>2. \A u \in Teams : deployment'[u] # Absent =>
            deployment[u] # Absent /\ deployment'[u].lastRequest = deployment[u].lastRequest
    BY <1>2 DEF PodReadiness, AdminDeleteInstance, AdminRestartInstance, DeleteInactive,
         CollectService, CollectSecret, TypeOK, PartsOK, Deployment
  <2>3. Underway' = Underway
    BY <2>1 DEF Underway
  <2> QED
    BY <2>1, <2>2, <2>3, IdleKept
<1>3. CASE ProxyStep
  BY <1>3, IdlePassThrough, IdleLookUp, IdlePatch, IdleProxy DEF ProxyStep
<1>4. CASE ListInactive \/ UNCHANGED vars
  <2>1. UNCHANGED <<deployment, request, proxy, now, slowest, failures>>
    BY <1>4 DEF ListInactive, vars
  <2>2. Underway' = Underway
    BY <2>1 DEF Underway
  <2> QED
    BY <2>1, <2>2, IdleKept
<1>5. CASE Tick
  BY <1>5, IdleTick
<1> QED
  BY <1>1, <1>2, <1>3, <1>4, <1>5, NextIs

\* The cleaner picks only teams whose last request, through whatever replica, is
\* older than the time of inactivity less what the proxies' caches hide and less
\* twice the time their slowest call takes (RunCleanup against isInstanceUp,
\* whose patch is built before and whose cache is written after the call), as
\* long as no patch fails.
THEOREM OnlyIdleTeamsAreSwept == Spec => SweptTeamsWereIdle
<1> DEFINE Act == failures = 0 =>
             \A t \in sweep' \ sweep :
                now - used[t] > MaxInactive - (CacheTime - 1) - 2 * slowest
<1>1. Init => TypeOK /\ IdleInv
  <2>1. Init => IdleInv
    <3> SUFFICES ASSUME Init PROVE IdleInv
      OBVIOUS
    <3>1. Underway = {}
      BY IdleLookupType DEF Init, Underway, IdleRequest
    <3> QED
      BY <3>1, IdleLookupType DEF Init, IdleInv
  <2> QED
    BY <2>1, TypeInit
<1>2. (TypeOK /\ IdleInv) /\ [Next]_vars => (TypeOK /\ IdleInv)'
  BY TypeInductive, IdleInductive
<1>3. (TypeOK /\ IdleInv) /\ [Next]_vars => [Act]_vars
  <2> SUFFICES ASSUME TypeOK, IdleInv, [Next]_vars, failures = 0, NEW t \in sweep' \ sweep
               PROVE  now - used[t] > MaxInactive - (CacheTime - 1) - 2 * slowest
    OBVIOUS
  <2>1. ListInactive
    BY DEF Next, JoinStep, CheckLimit, BuildDeployment, CreateDeployment, CreateSecret,
         CreateService, AnswerJoin, JoinFails, Join, PodReadiness, CollectService, CollectSecret,
         AdminDeleteInstance, AdminRestartInstance, DeleteInactive, PassThrough, IsInstanceUp,
         UpdateLastRequestTimestamp, PatchLastRequest, ProxyRequest, Tick, vars
  <2>2. /\ t \in Teams /\ deployment[t] # Absent
        /\ now - deployment[t].lastRequest > MaxInactive
    BY <2>1 DEF ListInactive, Instances
  <2>3. used[t] <= deployment[t].lastRequest + (CacheTime - 1) + 2 * slowest
    BY <2>2 DEF IdleInv, Remembered
  <2> QED
    BY <2>2, <2>3, Times, ConfigAssumption
<1> QED
  BY <1>1, <1>2, <1>3, PTL DEF Spec, SweptTeamsWereIdle

=============================================================================
