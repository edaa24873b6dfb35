-------------------------- MODULE NotificationProofs --------------------------
(***************************************************************************)
(* Theorems about Notification: type correctness, that admins at work at   *)
(* once never undo each other, and that a replica which has read all its   *)
(* events has the ConfigMap as it is.                                      *)
(***************************************************************************)
EXTENDS Notification, SequenceTheorems, TLAPS

USE DEF NoEnd

\* An empty note is a note, and so is what a copy tells and what a request
\* makes of it.
LEMMA NotesAreTyped ==
    ASSUME BoundsAssumption, NEW copy \in ConfigMap \cup {Absent}, NEW change \in Change
    PROVE  /\ Empty \in Note
           /\ NoteOf(copy) \in Note
           /\ Applied(change, NoteOf(copy)) \in Note
<1>1. Empty \in Note
  BY DEF BoundsAssumption, Empty, Note
<1>2. NoteOf(copy) \in Note
  BY <1>1 DEF NoteOf, ConfigMap
<1>3. Applied(change, NoteOf(copy)) \in Note
  BY <1>2 DEF Applied, Change, Note
<1> QED
  BY <1>1, <1>2, <1>3

LEMMA IdleIsTyped == IdleRequest \in RequestState
BY DEF IdleRequest, RequestState, Change

\* The initial state is typed.
LEMMA InitTyped == Init => TypeOK
<1> SUFFICES ASSUME Init PROVE TypeOK
  OBVIOUS
<1>1. BoundsAssumption
  BY BoundsAssumption
<1>2. Empty \in Note
  BY <1>1 DEF BoundsAssumption, Empty, Note
<1>3. StoredOK
  BY <1>2, IdleIsTyped DEF Init, StoredOK
<1>4. ReplicasOK
  BY DEF Init, ReplicasOK
<1>5. BrowsersOK
  <2>1. [poll |-> Absent, seen |-> 0, note |-> Empty] \in BrowserState
    BY <1>2 DEF BrowserState
  <2>2. [end |-> NoEnd, running |-> FALSE, expired |-> FALSE] \in Countdown
    BY <1>1 DEF BoundsAssumption, Countdown
  <2> QED
    BY <1>1, <2>1, <2>2 DEF BoundsAssumption, Init, BrowsersOK
<1> QED
  BY <1>3, <1>4, <1>5 DEF TypeOK

\* What all admins' steps keep.
LEMMA AdminsTyped ==
    ASSUME TypeOK, NEW a \in Admins,
           PostNotification(a) \/ SetClock(a) \/ GetOrCreateConfigMap(a) \/ SaveConfigMap(a)
    PROVE  TypeOK'
<1> USE DEF TypeOK
<1>1. ASSUME NEW change \in Change, Post(a, change) PROVE TypeOK'
  <2>1. request' \in [Admins -> RequestState]
    BY <1>1, IdleIsTyped DEF Post, StoredOK, RequestState, IdleRequest
  <2> QED
    BY <1>1, <2>1, BoundsAssumption DEF Post, Edit, StoredOK, ReplicasOK, BrowsersOK, stored, replica, shown, BoundsAssumption
<1>2. CASE PostNotification(a)
  BY <1>1, <1>2 DEF PostNotification, MessageChanges, Change
<1>3. CASE SetClock(a)
  BY <1>1, <1>3 DEF SetClock, ClockChanges, Change
<1>4. CASE GetOrCreateConfigMap(a)
  <2>1. request' \in [Admins -> RequestState]
    BY <1>4, IdleIsTyped DEF GetOrCreateConfigMap, StoredOK, RequestState
  <2>2. failures' \in 0 .. MaxFailures
    BY <1>4, BoundsAssumption DEF GetOrCreateConfigMap, Fail, BrowsersOK, BoundsAssumption
  <2> QED
    BY <1>4, <2>1, <2>2 DEF GetOrCreateConfigMap, StoredOK, ReplicasOK, BrowsersOK, stored, replica, shown
<1>5. CASE SaveConfigMap(a)
  <2>1. request' \in [Admins -> RequestState]
    BY <1>5, IdleIsTyped DEF SaveConfigMap, StoredOK
  <2>2. failures' \in 0 .. MaxFailures
    BY <1>5, BoundsAssumption DEF SaveConfigMap, Fail, BrowsersOK, BoundsAssumption
  <2>3. request[a].change \in Change /\ request[a].copy \in ConfigMap \cup {Absent}
    BY DEF StoredOK, RequestState
  <2> DEFINE written == [note |-> Applied(request[a].change, NoteOf(request[a].copy)), version |-> version + 1]
  <2>4. written \in ConfigMap
    BY <2>3, NotesAreTyped, BoundsAssumption DEF ConfigMap, StoredOK
  <2>5. CASE /\ configMap' = written /\ version' = version + 1 /\ Publish(written)
             /\ agreed' = [agreed EXCEPT ![request[a].change.field] = request[a].change.value]
    <3>1. agreed' \in Note
      BY <2>3, <2>5 DEF Change, Note, StoredOK
    <3>2. StoredOK'
      BY <2>1, <2>4, <2>5, <3>1 DEF StoredOK
    <3>3. queue' \in [Replicas -> Seq(ConfigMap \cup {Absent})]
      BY <2>4, <2>5 DEF Publish, ReplicasOK
    <3>4. ASSUME NEW r \in Replicas, phase[r] # "watching" PROVE queue'[r] = <<>>
      BY <2>5, <3>4 DEF Publish, ReplicasOK
    <3> QED
      BY <1>5, <2>2, <3>2, <3>3, <3>4 DEF SaveConfigMap, ReplicasOK, BrowsersOK, shown
  <2>6. CASE UNCHANGED <<stored, queue>>
    BY <1>5, <2>1, <2>2, <2>6 DEF SaveConfigMap, StoredOK, ReplicasOK, BrowsersOK, stored, shown
  <2> QED
    BY <1>5, <2>5, <2>6 DEF SaveConfigMap
<1> QED
  BY <1>2, <1>3, <1>4, <1>5

LEMMA DeletionTyped == ASSUME TypeOK, DeleteConfigMap PROVE TypeOK'
<1> USE DEF TypeOK
<1>1. StoredOK'
  <2>1. Empty \in Note
    BY BoundsAssumption DEF BoundsAssumption, Empty, Note
  <2> QED
    BY <2>1 DEF DeleteConfigMap, StoredOK
<1>2. queue' \in [Replicas -> Seq(ConfigMap \cup {Absent})]
  BY DEF DeleteConfigMap, Publish, ReplicasOK
<1>3. ASSUME NEW r \in Replicas, phase[r] # "watching" PROVE queue'[r] = <<>>
  BY <1>3 DEF DeleteConfigMap, Publish, ReplicasOK
<1>4. ReplicasOK'
  BY <1>2, <1>3 DEF DeleteConfigMap, ReplicasOK
<1> QED
  BY <1>1, <1>4, BoundsAssumption DEF DeleteConfigMap, Edit, BrowsersOK, shown, BoundsAssumption

\* A replica's update of its copy.
LEMMA UpdateTyped ==
    ASSUME TypeOK, NEW r \in Replicas, NEW copy \in ConfigMap \cup {Absent}, ParseAndUpdate(r, copy)
    PROVE  /\ cache' \in [Replicas -> ConfigMap \cup {Absent}]
           /\ lastUpdate' \in [Replicas -> Nat]
           /\ clock' \in Nat
BY DEF TypeOK, ReplicasOK, ParseAndUpdate

\* What all replicas' steps keep.
LEMMA ReplicasTyped ==
    ASSUME TypeOK, NEW r \in Replicas, ReplicaStep(r) \/ CloseWatch(r) \/ CrashReplica(r)
    PROVE  TypeOK'
<1>1. Fail => failures' \in 0 .. MaxFailures
  BY BoundsAssumption DEF Fail, TypeOK, BrowsersOK, BoundsAssumption
<1>2. CASE FetchConfigMap(r)
  <2>1. configMap \in ConfigMap \cup {Absent}
    BY DEF TypeOK, StoredOK
  <2>2. ParseAndUpdate(r, configMap)
    BY <1>2 DEF FetchConfigMap
  <2>3. cache' \in [Replicas -> ConfigMap \cup {Absent}] /\ lastUpdate' \in [Replicas -> Nat] /\ clock' \in Nat
    BY <2>1, <2>2, UpdateTyped
  <2>4. ReplicasOK'
    BY <1>2, <2>3 DEF FetchConfigMap, TypeOK, ReplicasOK
  <2> QED
    BY <1>2, <2>4 DEF FetchConfigMap, TypeOK, StoredOK, BrowsersOK, stored, shown
<1>3. CASE StartWatch(r)
  <2> DEFINE first == IF configMap = Absent THEN <<>> ELSE <<configMap>>
  <2>1. first \in Seq(ConfigMap \cup {Absent})
    <3>1. CASE configMap = Absent
      BY <3>1
    <3>2. CASE configMap # Absent
      <4>1. configMap \in ConfigMap \cup {Absent}
        BY DEF TypeOK, StoredOK
      <4> QED
        BY <3>2, <4>1
    <3> QED
      BY <3>1, <3>2
  <2>2. queue' = [queue EXCEPT ![r] = first] \/ UNCHANGED queue
    BY <1>3 DEF StartWatch
  <2> HIDE DEF first
  <2>3. queue' \in [Replicas -> Seq(ConfigMap \cup {Absent})]
    BY <2>1, <2>2 DEF TypeOK, ReplicasOK
  <2>4. phase' \in [Replicas -> {"fetch", "fetched", "watching"}]
    BY <1>3 DEF StartWatch, TypeOK, ReplicasOK
  <2>5. ASSUME NEW q \in Replicas, phase'[q] # "watching" PROVE queue'[q] = <<>>
    BY <1>3, <2>5 DEF StartWatch, TypeOK, ReplicasOK
  <2>6. ReplicasOK'
    BY <1>3, <2>3, <2>4, <2>5 DEF StartWatch, TypeOK, ReplicasOK
  <2> QED
    BY <1>1, <1>3, <2>6 DEF StartWatch, TypeOK, StoredOK, BrowsersOK, stored, shown
<1>4. CASE ReadEvent(r)
  <2>1. queue[r] \in Seq(ConfigMap \cup {Absent}) /\ queue[r] # <<>>
    BY <1>4 DEF ReadEvent, TypeOK, ReplicasOK
  <2>2. Head(queue[r]) \in ConfigMap \cup {Absent} /\ Tail(queue[r]) \in Seq(ConfigMap \cup {Absent})
    BY <2>1
  <2>3. ParseAndUpdate(r, Head(queue[r]))
    BY <1>4 DEF ReadEvent
  <2>4. cache' \in [Replicas -> ConfigMap \cup {Absent}] /\ lastUpdate' \in [Replicas -> Nat] /\ clock' \in Nat
    BY <2>2, <2>3, UpdateTyped
  <2>5. ReplicasOK'
    BY <1>4, <2>2, <2>4 DEF ReadEvent, TypeOK, ReplicasOK
  <2> QED
    BY <1>4, <2>5 DEF ReadEvent, TypeOK, StoredOK, BrowsersOK, stored, shown
<1>5. CASE CloseWatch(r)
  <2>1. ReplicasOK'
    BY <1>5 DEF CloseWatch, TypeOK, ReplicasOK
  <2> QED
    BY <1>1, <1>5, <2>1 DEF CloseWatch, TypeOK, StoredOK, BrowsersOK, stored, shown
<1>6. CASE CrashReplica(r)
  <2>1. ParseAndUpdate(r, Absent)
    BY <1>6 DEF CrashReplica
  <2>2. cache' \in [Replicas -> ConfigMap \cup {Absent}] /\ lastUpdate' \in [Replicas -> Nat] /\ clock' \in Nat
    BY <2>1, UpdateTyped
  <2>3. queue' = [queue EXCEPT ![r] = <<>>] /\ phase' = [phase EXCEPT ![r] = "fetch"]
    BY <1>6 DEF CrashReplica
  <2>4. queue' \in [Replicas -> Seq(ConfigMap \cup {Absent})]
        /\ phase' \in [Replicas -> {"fetch", "fetched", "watching"}]
    BY <2>3 DEF TypeOK, ReplicasOK
  <2>5. \A q \in Replicas : phase'[q] # "watching" => queue'[q] = <<>>
    BY <2>3 DEF TypeOK, ReplicasOK
  <2>6. ReplicasOK'
    BY <2>2, <2>4, <2>5 DEF ReplicasOK
  <2>7. browser' \in [Browsers -> BrowserState]
    BY <1>6 DEF CrashReplica, TypeOK, BrowsersOK, BrowserState
  <2> QED
    BY <1>1, <1>6, <2>6, <2>7 DEF CrashReplica, TypeOK, StoredOK, BrowsersOK, stored
<1> QED
  BY <1>2, <1>3, <1>4, <1>5, <1>6 DEF ReplicaStep

\* What all browsers' steps keep.
LEMMA BrowsersTyped ==
    ASSUME TypeOK, NEW b \in Browsers,
           WaitEnds(b) \/ TimeOut(b) \/ CountDown(b) \/ \E r \in Replicas : Poll(b, r)
    PROVE  TypeOK'
<1>1. ASSUME NEW r \in Replicas, Answer(b, r)
      PROVE  browser' \in [Browsers -> BrowserState] /\ countdown' \in [Browsers -> Countdown]
  <2>1. Empty \in Note
    BY BoundsAssumption DEF BoundsAssumption, Empty, Note
  <2>2. NoteOf(cache[r]) \in Note
    BY <2>1 DEF NoteOf, ConfigMap, TypeOK, ReplicasOK
  <2>3. CountingTo(NoteOf(cache[r]).end) \in Countdown
    BY <2>2 DEF Note, CountingTo, Countdown
  <2>4. [poll |-> Absent, seen |-> lastUpdate[r], note |-> NoteOf(cache[r])] \in BrowserState
    BY <2>2 DEF BrowserState, TypeOK, ReplicasOK
  <2> QED
    BY <1>1, <2>3, <2>4 DEF Answer, Retarget, TypeOK, BrowsersOK
<1>2. CASE WaitEnds(b)
  <2>1. browser[b].poll \in Replicas
    BY <1>2 DEF WaitEnds, TypeOK, BrowsersOK, BrowserState
  <2> QED
    BY <1>1, <1>2, <2>1 DEF WaitEnds, TypeOK, StoredOK, ReplicasOK, BrowsersOK, stored, replica
<1>3. CASE TimeOut(b)
  <2>1. browser' \in [Browsers -> BrowserState]
    BY <1>3 DEF TimeOut, TypeOK, BrowsersOK, BrowserState
  <2> QED
    BY <1>3, <2>1 DEF TimeOut, TypeOK, StoredOK, ReplicasOK, BrowsersOK, stored, replica
<1>4. CASE CountDown(b)
  <2>1. countdown' \in [Browsers -> Countdown]
    BY <1>4 DEF CountDown, TypeOK, BrowsersOK, Countdown
  <2> QED
    BY <1>4, <2>1 DEF CountDown, TypeOK, StoredOK, ReplicasOK, BrowsersOK, stored, replica
<1>5. ASSUME NEW r \in Replicas, Poll(b, r) PROVE TypeOK'
  <2>1. browser' \in [Browsers -> BrowserState] /\ countdown' \in [Browsers -> Countdown]
    <3>1. CASE HasNews(b, r)
      BY <1>1, <1>5, <3>1 DEF Poll
    <3>2. CASE ~HasNews(b, r)
      BY <1>5, <3>2 DEF Poll, TypeOK, BrowsersOK, BrowserState
    <3> QED
      BY <3>1, <3>2
  <2> QED
    BY <1>5, <2>1 DEF Poll, TypeOK, StoredOK, ReplicasOK, BrowsersOK, stored, replica
<1> QED
  BY <1>2, <1>3, <1>4, <1>5

LEMMA TickTyped == ASSUME TypeOK, Tick PROVE TypeOK'
BY BoundsAssumption DEF Tick, TypeOK, StoredOK, ReplicasOK, BrowsersOK, stored, replica, shown, BoundsAssumption

LEMMA StutterTyped == ASSUME TypeOK, UNCHANGED vars PROVE TypeOK'
BY DEF TypeOK, StoredOK, ReplicasOK, BrowsersOK, vars, stored, replica, shown

LEMMA NextTyped == ASSUME TypeOK, [Next]_vars PROVE TypeOK'
BY AdminsTyped, DeletionTyped, ReplicasTyped, BrowsersTyped, TickTyped, StutterTyped DEF Next

\* Every variable holds a value of its kind, for any replicas, browsers and
\* admins.
THEOREM TypeCorrect == Spec => []TypeOK
<1>1. Init => TypeOK
  BY InitTyped
<1>2. TypeOK /\ [Next]_vars => TypeOK'
  BY NextTyped
<1> QED
  BY <1>1, <1>2, PTL DEF Spec

-----------------------------------------------------------------------------
(* Admins at work at once.                                                 *)

\* What was read under a resourceVersion is what that version is: versions are
\* given out once.
CopiesAreTrue ==
    \A a \in Admins :
        LET copy == request[a].copy
        IN  copy # Absent =>
                /\ copy.version <= version
                /\ configMap # Absent /\ configMap.version = copy.version => configMap = copy

VersionsAreOld == configMap # Absent => configMap.version <= version

EditsInv == VersionsAreOld /\ CopiesAreTrue /\ NoteOf(configMap) = agreed

\* The ConfigMap is written by nobody but admins and their cleaning up.
LEMMA OthersWriteNothing ==
    ASSUME EditsInv, UNCHANGED <<stored, request>>
    PROVE  EditsInv'
BY DEF EditsInv, VersionsAreOld, CopiesAreTrue, NoteOf, stored

LEMMA SaveKeepsEdits ==
    ASSUME TypeOK, EditsInv, NEW a \in Admins, SaveConfigMap(a)
    PROVE  EditsInv'
<1> DEFINE copy == request[a].copy
           change == request[a].change
           written == [note |-> Applied(change, NoteOf(copy)), version |-> version + 1]
<1>1. change \in Change /\ copy \in ConfigMap \cup {Absent} /\ version \in Nat
  BY DEF TypeOK, StoredOK, RequestState
<1>2. \A x \in Admins : request'[x].copy = Absent \/ request'[x].copy = request[x].copy
  BY DEF SaveConfigMap, TypeOK, StoredOK, IdleRequest
<1>3. CASE UNCHANGED stored
  BY <1>2, <1>3 DEF EditsInv, VersionsAreOld, CopiesAreTrue, NoteOf, stored
<1>4. CASE /\ Accepted(copy) /\ configMap' = written /\ version' = version + 1
           /\ agreed' = [agreed EXCEPT ![change.field] = change.value]
  <2>1. written \in ConfigMap /\ written # Absent
    BY <1>1, NotesAreTyped, BoundsAssumption, AbsentAssumption DEF ConfigMap
  <2>2. NoteOf(configMap) = NoteOf(copy)
    BY <1>4 DEF Accepted, EditsInv, CopiesAreTrue
  <2>3. Applied(change, NoteOf(copy)) = agreed'
    BY <1>4, <2>2 DEF Applied, EditsInv
  <2>4. NoteOf(configMap)' = agreed'
    BY <1>4, <2>1, <2>3 DEF NoteOf
  <2>5. VersionsAreOld'
    BY <1>1, <1>4 DEF VersionsAreOld
  <2>6. ASSUME NEW x \in Admins, request'[x].copy # Absent
        PROVE  request'[x].copy.version <= version' /\ configMap'.version # request'[x].copy.version
    <3>1. request'[x].copy = request[x].copy /\ request[x].copy.version <= version
      BY <1>2, <2>6 DEF EditsInv, CopiesAreTrue
    <3>2. request[x].copy.version \in Nat
      BY <2>6, <3>1 DEF TypeOK, StoredOK, RequestState, ConfigMap
    <3> QED
      BY <1>1, <1>4, <3>1, <3>2
  <2>7. CopiesAreTrue'
    BY <2>6 DEF CopiesAreTrue
  <2> QED
    BY <2>4, <2>5, <2>7 DEF EditsInv
<1> QED
  BY <1>3, <1>4 DEF SaveConfigMap, stored

LEMMA NextKeepsEdits == ASSUME TypeOK, EditsInv, [Next]_vars PROVE EditsInv'
<1>1. ASSUME NEW a \in Admins, NEW change \in Change, Post(a, change) PROVE EditsInv'
  <2>1. \A x \in Admins : request'[x].copy = Absent \/ request'[x].copy = request[x].copy
    BY <1>1 DEF Post, TypeOK, StoredOK, IdleRequest
  <2> QED
    BY <1>1, <2>1 DEF Post, EditsInv, VersionsAreOld, CopiesAreTrue, NoteOf, stored
<1>2. ASSUME NEW a \in Admins, PostNotification(a) \/ SetClock(a) PROVE EditsInv'
  BY <1>1, <1>2 DEF PostNotification, SetClock, MessageChanges, ClockChanges, Change
<1>3. ASSUME NEW a \in Admins, GetOrCreateConfigMap(a) PROVE EditsInv'
  <2>1. \A x \in Admins :
            \/ request'[x].copy = Absent
            \/ request'[x].copy = request[x].copy
            \/ request'[x].copy = configMap
    BY <1>3 DEF GetOrCreateConfigMap, TypeOK, StoredOK, IdleRequest, RequestState
  <2> QED
    BY <1>3, <2>1 DEF GetOrCreateConfigMap, EditsInv, VersionsAreOld, CopiesAreTrue, NoteOf, stored
<1>4. ASSUME NEW a \in Admins, SaveConfigMap(a) PROVE EditsInv'
  BY <1>4, SaveKeepsEdits
<1>5. CASE DeleteConfigMap
  BY <1>5 DEF DeleteConfigMap, EditsInv, VersionsAreOld, CopiesAreTrue, NoteOf
<1>6. ASSUME NEW r \in Replicas, ReplicaStep(r) \/ CloseWatch(r) \/ CrashReplica(r) PROVE EditsInv'
  BY <1>6, OthersWriteNothing
     DEF ReplicaStep, FetchConfigMap, StartWatch, ReadEvent, CloseWatch, CrashReplica
<1>7. ASSUME NEW b \in Browsers, WaitEnds(b) \/ TimeOut(b) \/ CountDown(b) \/ \E r \in Replicas : Poll(b, r)
      PROVE  EditsInv'
  BY <1>7, OthersWriteNothing DEF WaitEnds, TimeOut, CountDown, Poll
<1>8. CASE Tick
  BY <1>8, OthersWriteNothing DEF Tick
<1>9. CASE UNCHANGED vars
  BY <1>9, OthersWriteNothing DEF vars
<1> QED
  BY <1>2, <1>3, <1>4, <1>5, <1>6, <1>7, <1>8, <1>9 DEF Next

\* Two admins at work at once never undo each other: a message stands until
\* another is set, whoever sets the end date meanwhile, and the other way
\* round.  It rests on versions being given out once and on nothing else.
THEOREM EditsStand == Spec => []AcceptedEditsStand
<1>1. Init => EditsInv
  BY DEF Init, EditsInv, VersionsAreOld, CopiesAreTrue, NoteOf, IdleRequest
<1>2. TypeOK /\ EditsInv /\ [Next]_vars => EditsInv'
  BY NextKeepsEdits
<1>3. EditsInv => AcceptedEditsStand
  BY DEF EditsInv, AcceptedEditsStand, NoteOf
<1> QED
  BY <1>1, <1>2, <1>3, TypeCorrect, PTL DEF Spec

-----------------------------------------------------------------------------
(* The replicas' copies.                                                   *)

\* What a replica will have when it has read all its events.
Latest(r) == IF queue[r] = <<>> THEN cache[r] ELSE queue[r][Len(queue[r])]

\* Reading the first event does not change which is last.
LEMMA LastOfTail ==
    ASSUME NEW S, NEW q \in Seq(S), q # <<>>
    PROVE  IF Tail(q) = <<>> THEN Head(q) = q[Len(q)] ELSE Tail(q)[Len(Tail(q))] = q[Len(q)]
<1>1. /\ Tail(q) \in Seq(S)
      /\ Len(Tail(q)) = Len(q) - 1
      /\ \A i \in 1 .. Len(Tail(q)) : Tail(q)[i] = q[i + 1]
  BY HeadTailProperties
<1>2. Len(q) \in Nat /\ Len(q) # 0 /\ (Tail(q) = <<>> <=> Len(Tail(q)) = 0)
  BY <1>1, EmptySeq, LenProperties
<1>3. CASE Tail(q) = <<>>
  <2>1. Len(q) = 1
    BY <1>1, <1>2, <1>3
  <2> QED
    BY <1>3, <2>1
<1>4. CASE Tail(q) # <<>>
  <2>1. Len(Tail(q)) \in 1 .. Len(Tail(q)) /\ Len(Tail(q)) + 1 = Len(q)
    BY <1>1, <1>2, <1>4
  <2> QED
    BY <1>1, <1>4, <2>1
<1> QED
  BY <1>3, <1>4

\* An open watch tells the ConfigMap as it is, sooner or later.  Nothing is
\* said when it was deleted: a watch that begins after that has no event of it.
WatchInv == \A r \in Replicas : phase[r] = "watching" /\ configMap # Absent => Latest(r) = configMap

LEMMA PublishKeepsWatch ==
    ASSUME TypeOK, NEW copy \in ConfigMap \cup {Absent}, configMap' = copy, Publish(copy),
           UNCHANGED <<phase, cache>>
    PROVE  WatchInv'
<1> SUFFICES ASSUME NEW r \in Replicas, phase[r] = "watching" PROVE Latest(r)' = copy
  BY DEF WatchInv
<1>1. queue[r] \in Seq(ConfigMap \cup {Absent})
  BY DEF TypeOK, ReplicasOK
<1>2. queue'[r] = Append(queue[r], copy)
  BY DEF Publish
<1>3. queue'[r] # <<>> /\ queue'[r][Len(queue'[r])] = copy
  BY <1>1, <1>2
<1> QED
  BY <1>3 DEF Latest

LEMMA NextKeepsWatch == ASSUME TypeOK, EditsInv, WatchInv, [Next]_vars PROVE WatchInv'
<1>1. ASSUME UNCHANGED <<configMap, phase, queue, cache>> PROVE WatchInv'
  BY <1>1 DEF WatchInv, Latest
<1>2. ASSUME NEW a \in Admins,
             PostNotification(a) \/ SetClock(a) \/ GetOrCreateConfigMap(a)
      PROVE  WatchInv'
  BY <1>1, <1>2 DEF PostNotification, SetClock, Post, GetOrCreateConfigMap, stored, replica
<1>3. ASSUME NEW a \in Admins, SaveConfigMap(a) PROVE WatchInv'
  <2> DEFINE written == [note |-> Applied(request[a].change, NoteOf(request[a].copy)), version |-> version + 1]
  <2>1. CASE UNCHANGED <<stored, queue>>
    BY <1>1, <1>3, <2>1 DEF SaveConfigMap, stored
  <2>2. CASE configMap' = written /\ Publish(written)
    <3>1. request[a].change \in Change /\ request[a].copy \in ConfigMap \cup {Absent} /\ version \in Nat
      BY DEF TypeOK, StoredOK, RequestState
    <3>2. written \in ConfigMap
      BY <3>1, NotesAreTyped, BoundsAssumption DEF ConfigMap
    <3> QED
      BY <1>3, <2>2, <3>2, PublishKeepsWatch DEF SaveConfigMap
  <2> QED
    BY <1>3, <2>1, <2>2 DEF SaveConfigMap
<1>4. CASE DeleteConfigMap
  BY <1>4, PublishKeepsWatch DEF DeleteConfigMap
<1>5. ASSUME NEW r \in Replicas, FetchConfigMap(r) \/ CloseWatch(r) \/ CrashReplica(r) PROVE WatchInv'
  <2>1. phase'[r] # "watching" /\ configMap' = configMap
    BY <1>5 DEF FetchConfigMap, CloseWatch, CrashReplica, TypeOK, ReplicasOK, stored
  <2>2. ASSUME NEW q \in Replicas, q # r
        PROVE  phase'[q] = phase[q] /\ queue'[q] = queue[q] /\ cache'[q] = cache[q]
    BY <1>5, <2>2 DEF FetchConfigMap, CloseWatch, CrashReplica, ParseAndUpdate, TypeOK, ReplicasOK
  <2> QED
    BY <2>1, <2>2 DEF WatchInv, Latest
<1>6. ASSUME NEW r \in Replicas, StartWatch(r) PROVE WatchInv'
  <2>1. configMap' = configMap /\ cache' = cache
    BY <1>6 DEF StartWatch, stored
  <2>2. ASSUME NEW q \in Replicas, q # r PROVE phase'[q] = phase[q] /\ queue'[q] = queue[q]
    BY <1>6, <2>2 DEF StartWatch, TypeOK, ReplicasOK
  <2>3. phase'[r] = "watching" /\ configMap # Absent => queue'[r] = <<configMap>>
    BY <1>6 DEF StartWatch, TypeOK, ReplicasOK
  <2>4. phase'[r] = "watching" /\ configMap # Absent => Latest(r)' = configMap
    BY <2>3 DEF Latest
  <2> QED
    BY <2>1, <2>2, <2>4 DEF WatchInv, Latest
<1>7. ASSUME NEW r \in Replicas, ReadEvent(r) PROVE WatchInv'
  <2>1. UNCHANGED <<configMap, phase>>
    BY <1>7 DEF ReadEvent, stored
  <2>2. ASSUME NEW q \in Replicas, q # r PROVE queue'[q] = queue[q] /\ cache'[q] = cache[q]
    BY <1>7, <2>2 DEF ReadEvent, ParseAndUpdate, TypeOK, ReplicasOK
  <2>3. /\ queue[r] \in Seq(ConfigMap \cup {Absent}) /\ queue[r] # <<>>
        /\ queue'[r] = Tail(queue[r]) /\ cache'[r] = Head(queue[r])
    BY <1>7 DEF ReadEvent, ParseAndUpdate, TypeOK, ReplicasOK
  <2>4. Latest(r)' = Latest(r)
    BY <2>3, LastOfTail DEF Latest
  <2> QED
    BY <2>1, <2>2, <2>4 DEF WatchInv, Latest
<1>8. ASSUME NEW b \in Browsers, WaitEnds(b) \/ TimeOut(b) \/ CountDown(b) \/ \E r \in Replicas : Poll(b, r)
      PROVE  WatchInv'
  BY <1>1, <1>8 DEF WaitEnds, TimeOut, CountDown, Poll, stored, replica
<1>9. CASE Tick \/ UNCHANGED vars
  BY <1>1, <1>9 DEF Tick, vars, stored, replica
<1> QED
  BY <1>2, <1>3, <1>4, <1>5, <1>6, <1>7, <1>8, <1>9 DEF Next, ReplicaStep

\* A replica that has read every event of its watch has the ConfigMap as it
\* is, though it fetched it before the watch began.
THEOREM WatchersCurrent == Spec => []WatchersAreCurrent
<1>1. Init => EditsInv /\ WatchInv
  BY DEF Init, EditsInv, VersionsAreOld, CopiesAreTrue, NoteOf, IdleRequest, WatchInv
<1>2. TypeOK /\ EditsInv /\ WatchInv /\ [Next]_vars => EditsInv' /\ WatchInv'
  BY NextKeepsEdits, NextKeepsWatch
<1>3. WatchInv => WatchersAreCurrent
  BY DEF WatchInv, WatchersAreCurrent, Latest
<1> QED
  BY <1>1, <1>2, <1>3, TypeCorrect, PTL DEF Spec

-----------------------------------------------------------------------------
(* Never back to an older ConfigMap.                                       *)

Before(copy, later) == copy # Absent /\ later # Absent => copy.version <= later.version

\* A copy is of a version that was given out, and not newer than the ConfigMap.
Past(copy) == (copy # Absent => copy.version <= version) /\ Before(copy, configMap)

\* What a replica has and what it is still to read come in the order of their
\* versions.
OrderInv ==
    \A r \in Replicas :
        /\ Past(cache[r])
        /\ \A i \in 1 .. Len(queue[r]) : Past(queue[r][i]) /\ Before(cache[r], queue[r][i])
        /\ \A i \in 1 .. Len(queue[r]) : \A j \in 1 .. i : Before(queue[r][j], queue[r][i])

LEMMA VersionsAreNumbers ==
    ASSUME TypeOK
    PROVE  /\ version \in Nat
           /\ configMap # Absent => configMap.version \in Nat
           /\ \A r \in Replicas : cache[r] # Absent => cache[r].version \in Nat
           /\ \A r \in Replicas : \A i \in 1 .. Len(queue[r]) :
                 queue[r][i] \in ConfigMap \cup {Absent} /\ (queue[r][i] # Absent => queue[r][i].version \in Nat)
<1>1. ASSUME NEW r \in Replicas, NEW i \in 1 .. Len(queue[r])
      PROVE  queue[r][i] \in ConfigMap \cup {Absent}
  <2>1. queue[r] \in Seq(ConfigMap \cup {Absent})
    BY DEF TypeOK, ReplicasOK
  <2> QED
    BY <2>1, ElementOfSeq
<1> QED
  BY <1>1 DEF TypeOK, StoredOK, ReplicasOK, ConfigMap

\* An event that is newer than all there was keeps the order.
LEMMA PublishKeepsOrder ==
    ASSUME TypeOK, OrderInv, NEW copy, configMap' = copy, Publish(copy), UNCHANGED cache,
           version' \in Nat, version' >= version,
           copy # Absent => copy.version \in Nat /\ copy.version <= version' /\ copy.version > version
    PROVE  OrderInv'
<1> SUFFICES ASSUME NEW r \in Replicas
             PROVE  /\ Past(cache[r])'
                    /\ \A i \in 1 .. Len(queue'[r]) : Past(queue[r][i])' /\ Before(cache[r], queue[r][i])'
                    /\ \A i \in 1 .. Len(queue'[r]) : \A j \in 1 .. i : Before(queue[r][j], queue[r][i])'
  BY DEF OrderInv
<1> DEFINE q == queue[r]
<1>1. ASSUME NEW c, c # Absent => c.version \in Nat, Past(c)
      PROVE  Before(c, copy) /\ (c # Absent => c.version <= version')
  BY <1>1, VersionsAreNumbers DEF Past, Before
<1>2. \A i \in 1 .. Len(q) : Past(q[i]) /\ (q[i] # Absent => q[i].version \in Nat)
  BY VersionsAreNumbers DEF OrderInv
<1>3. Past(cache[r]) /\ (cache[r] # Absent => cache[r].version \in Nat)
  BY VersionsAreNumbers DEF OrderInv
<1>4. Past(cache[r])'
  BY <1>1, <1>3 DEF Past, Before
<1>5. \A i \in 1 .. Len(q) : Before(q[i], copy) /\ (q[i] # Absent => q[i].version <= version')
  BY <1>1, <1>2
<1>6. Before(cache[r], copy)
  BY <1>1, <1>3
<1>7. Before(copy, copy) /\ (copy # Absent => copy.version <= version')
  BY DEF Before
<1>8. CASE queue'[r] = q
  BY <1>4, <1>5, <1>8 DEF OrderInv, Past, Before
<1>9. CASE queue'[r] = Append(q, copy)
  <2>1. q \in Seq(ConfigMap \cup {Absent})
    BY DEF TypeOK, ReplicasOK
  <2> DEFINE n == Len(q) + 1
  <2>2. Len(q) \in Nat /\ Len(queue'[r]) = n
    BY <1>9, <2>1
  <2>3. queue'[r][n] = copy /\ \A i \in 1 .. Len(q) : queue'[r][i] = q[i]
    BY <1>9, <2>1
  <2>4. \A i \in 1 .. n : i = n \/ i \in 1 .. Len(q)
    BY <2>2
  <2>5. \A i \in 1 .. n : Past(queue[r][i])' /\ Before(cache[r], queue[r][i])'
    BY <1>5, <1>6, <1>7, <2>3, <2>4 DEF OrderInv, Past, Before
  <2>6. ASSUME NEW i \in 1 .. n, NEW j \in 1 .. i PROVE Before(queue[r][j], queue[r][i])'
    <3>1. j = n \/ j \in 1 .. Len(q)
      BY <2>2
    <3>2. CASE i = n
      BY <1>5, <1>7, <2>3, <3>1, <3>2 DEF Before
    <3>3. CASE i \in 1 .. Len(q)
      <4>1. j \in 1 .. Len(q)
        BY <2>2, <3>3
      <4>2. Before(q[j], q[i])
        BY <3>3 DEF OrderInv
      <4> QED
        BY <2>3, <3>3, <4>1, <4>2 DEF Before
    <3> QED
      BY <2>4, <3>2, <3>3
  <2> QED
    BY <1>4, <2>2, <2>5, <2>6
<1> QED
  BY <1>8, <1>9 DEF Publish

\* A copy that is replaced by a later one keeps the order, if what is still to
\* read is later as well.
LEMMA NewCopyKeepsOrder ==
    ASSUME TypeOK, OrderInv, NEW r \in Replicas, UNCHANGED <<configMap, version>>,
           \A q \in Replicas \ {r} : queue'[q] = queue[q] /\ cache'[q] = cache[q],
           Past(cache'[r]),
           \A i \in 1 .. Len(queue'[r]) : Past(queue'[r][i]) /\ Before(cache'[r], queue'[r][i]),
           \A i \in 1 .. Len(queue'[r]) : \A j \in 1 .. i : Before(queue'[r][j], queue'[r][i])
    PROVE  OrderInv'
BY DEF OrderInv, Past, Before

LEMMA NextKeepsOrder == ASSUME TypeOK, EditsInv, OrderInv, [Next]_vars PROVE OrderInv'
<1>1. ASSUME UNCHANGED <<configMap, version, queue, cache>> PROVE OrderInv'
  BY <1>1 DEF OrderInv, Past, Before
<1>2. ASSUME NEW a \in Admins,
             PostNotification(a) \/ SetClock(a) \/ GetOrCreateConfigMap(a)
      PROVE  OrderInv'
  BY <1>1, <1>2 DEF PostNotification, SetClock, Post, GetOrCreateConfigMap, stored, replica
<1>3. ASSUME NEW a \in Admins, SaveConfigMap(a) PROVE OrderInv'
  <2> DEFINE written == [note |-> Applied(request[a].change, NoteOf(request[a].copy)), version |-> version + 1]
  <2>1. CASE UNCHANGED <<stored, queue>>
    BY <1>1, <1>3, <2>1 DEF SaveConfigMap, stored
  <2>2. CASE configMap' = written /\ version' = version + 1 /\ Publish(written)
    <3>1. version \in Nat /\ written.version = version + 1 /\ UNCHANGED cache
      BY <1>3 DEF TypeOK, StoredOK, SaveConfigMap
    <3> HIDE DEF written
    <3> QED
      BY <2>2, <3>1, PublishKeepsOrder
  <2> QED
    BY <1>3, <2>1, <2>2 DEF SaveConfigMap
<1>4. CASE DeleteConfigMap
  <2>1. version \in Nat
    BY DEF TypeOK, StoredOK
  <2> QED
    BY <1>4, <2>1, PublishKeepsOrder DEF DeleteConfigMap
<1>5. ASSUME NEW r \in Replicas, FetchConfigMap(r) PROVE OrderInv'
  <2>1. UNCHANGED <<configMap, version, queue>> /\ cache' = [cache EXCEPT ![r] = configMap]
    BY <1>5 DEF FetchConfigMap, ParseAndUpdate, stored
  <2>2. queue[r] = <<>>
    BY <1>5 DEF FetchConfigMap, TypeOK, ReplicasOK
  <2>3. Past(configMap) /\ cache'[r] = configMap
    BY <2>1, VersionsAreNumbers DEF Past, Before, EditsInv, VersionsAreOld, TypeOK, ReplicasOK
  <2>4. \A q \in Replicas \ {r} : queue'[q] = queue[q] /\ cache'[q] = cache[q]
    BY <2>1 DEF TypeOK, ReplicasOK
  <2>5. Len(queue'[r]) = 0
    BY <2>1, <2>2
  <2> QED
    BY <2>1, <2>3, <2>4, <2>5, NewCopyKeepsOrder
<1>6. ASSUME NEW r \in Replicas, StartWatch(r) PROVE OrderInv'
  <2>1. UNCHANGED <<configMap, version, cache>>
    BY <1>6 DEF StartWatch, stored
  <2>2. \A q \in Replicas \ {r} : queue'[q] = queue[q] /\ cache'[q] = cache[q]
    BY <1>6 DEF StartWatch, TypeOK, ReplicasOK
  <2>3. Past(cache'[r])
    BY <2>1 DEF OrderInv
  <2>4. queue[r] = <<>>
    BY <1>6 DEF StartWatch, TypeOK, ReplicasOK
  <2>5. queue'[r] = <<>> \/ queue'[r] = <<configMap>>
    BY <1>6, <2>4 DEF StartWatch, TypeOK, ReplicasOK
  <2>6. Past(configMap) /\ Before(cache'[r], configMap) /\ Before(configMap, configMap)
    BY <2>1, VersionsAreNumbers DEF OrderInv, Past, Before, EditsInv, VersionsAreOld
  <2>7. \A i \in 1 .. Len(queue'[r]) : i = 1 /\ queue'[r][i] = configMap
    <3>1. CASE queue'[r] = <<>>
      BY <3>1
    <3>2. CASE queue'[r] = <<configMap>>
      <4>1. Len(<<configMap>>) = 1 /\ <<configMap>>[1] = configMap
        OBVIOUS
      <4> QED
        BY <3>2, <4>1
    <3> QED
      BY <2>5, <3>1, <3>2
  <2>8. /\ \A i \in 1 .. Len(queue'[r]) : Past(queue'[r][i]) /\ Before(cache'[r], queue'[r][i])
        /\ \A i \in 1 .. Len(queue'[r]) : \A j \in 1 .. i : Before(queue'[r][j], queue'[r][i])
    BY <2>6, <2>7
  <2> QED
    BY <2>1, <2>2, <2>3, <2>8, NewCopyKeepsOrder
<1>7. ASSUME NEW r \in Replicas, ReadEvent(r) PROVE OrderInv'
  <2>1. /\ UNCHANGED <<configMap, version>>
        /\ \A q \in Replicas \ {r} : queue'[q] = queue[q] /\ cache'[q] = cache[q]
        /\ queue[r] \in Seq(ConfigMap \cup {Absent}) /\ queue[r] # <<>>
        /\ queue'[r] = Tail(queue[r]) /\ cache'[r] = Head(queue[r])
    BY <1>7 DEF ReadEvent, ParseAndUpdate, TypeOK, ReplicasOK, stored
  <2>2. /\ Len(queue[r]) \in Nat \ {0}
        /\ Len(queue'[r]) = Len(queue[r]) - 1
        /\ \A i \in 1 .. Len(queue'[r]) : queue'[r][i] = queue[r][i + 1]
        /\ cache'[r] = queue[r][1]
    BY <2>1, HeadTailProperties, EmptySeq
  <2>3. Past(cache'[r])
    BY <2>2 DEF OrderInv
  <2>4. ASSUME NEW i \in 1 .. Len(queue'[r])
        PROVE  Past(queue'[r][i]) /\ Before(cache'[r], queue'[r][i])
    <3>1. i + 1 \in 1 .. Len(queue[r]) /\ 1 \in 1 .. (i + 1)
      BY <2>2
    <3> QED
      BY <2>2, <3>1 DEF OrderInv
  <2>5. ASSUME NEW i \in 1 .. Len(queue'[r]), NEW j \in 1 .. i
        PROVE  Before(queue'[r][j], queue'[r][i])
    <3>1. i + 1 \in 1 .. Len(queue[r]) /\ j + 1 \in 1 .. (i + 1) /\ j \in 1 .. Len(queue'[r])
      BY <2>2
    <3> QED
      BY <2>2, <3>1 DEF OrderInv
  <2> QED
    BY <2>1, <2>3, <2>4, <2>5, NewCopyKeepsOrder
<1>8. ASSUME NEW r \in Replicas, CloseWatch(r) \/ CrashReplica(r) PROVE OrderInv'
  <2>1. /\ UNCHANGED <<configMap, version>>
        /\ queue'[r] = <<>>
        /\ cache'[r] = cache[r] \/ cache'[r] = Absent
    BY <1>8 DEF CloseWatch, CrashReplica, ParseAndUpdate, TypeOK, ReplicasOK, stored
  <2>2. \A q \in Replicas \ {r} : queue'[q] = queue[q] /\ cache'[q] = cache[q]
    BY <1>8 DEF CloseWatch, CrashReplica, ParseAndUpdate, TypeOK, ReplicasOK
  <2>3. Past(cache'[r])
    BY <2>1 DEF OrderInv, Past, Before
  <2>4. Len(queue'[r]) = 0
    BY <2>1
  <2> QED
    BY <2>1, <2>2, <2>3, <2>4, NewCopyKeepsOrder
<1>9. ASSUME NEW b \in Browsers, WaitEnds(b) \/ TimeOut(b) \/ CountDown(b) \/ \E r \in Replicas : Poll(b, r)
      PROVE  OrderInv'
  BY <1>1, <1>9 DEF WaitEnds, TimeOut, CountDown, Poll, stored, replica
<1>10. CASE Tick \/ UNCHANGED vars
  BY <1>1, <1>10 DEF Tick, vars, stored, replica
<1> QED
  BY <1>2, <1>3, <1>4, <1>5, <1>6, <1>7, <1>8, <1>9, <1>10 DEF Next, ReplicaStep

\* A step never gives a replica an older ConfigMap than it had.
LEMMA StepGoesForward ==
    ASSUME TypeOK, OrderInv, [Next]_vars
    PROVE  \A r \in Replicas : Before(cache[r], cache'[r])
<1> SUFFICES ASSUME NEW r \in Replicas PROVE Before(cache[r], cache'[r])
  OBVIOUS
<1>1. Before(cache[r], cache[r])
  BY VersionsAreNumbers DEF Before
<1>2. Before(cache[r], configMap) /\ Before(cache[r], Absent)
  BY DEF OrderInv, Past, Before
<1>3. ASSUME NEW q \in Replicas, NEW copy, ParseAndUpdate(q, copy), Before(cache[q], copy)
      PROVE  Before(cache[r], cache'[r])
  BY <1>1, <1>3 DEF ParseAndUpdate, TypeOK, ReplicasOK
<1>4. ASSUME NEW q \in Replicas, FetchConfigMap(q) PROVE Before(cache[r], cache'[r])
  BY <1>3, <1>4 DEF FetchConfigMap, OrderInv, Past
<1>5. ASSUME NEW q \in Replicas, ReadEvent(q) PROVE Before(cache[r], cache'[r])
  <2>1. queue[q] \in Seq(ConfigMap \cup {Absent}) /\ queue[q] # <<>>
    BY <1>5 DEF ReadEvent, TypeOK, ReplicasOK
  <2>2. Len(queue[q]) \in Nat \ {0} /\ Head(queue[q]) = queue[q][1]
    BY <2>1, EmptySeq
  <2>3. Before(cache[q], Head(queue[q]))
    BY <2>2 DEF OrderInv
  <2> QED
    BY <1>3, <1>5, <2>3 DEF ReadEvent
<1>6. ASSUME NEW q \in Replicas, CrashReplica(q) PROVE Before(cache[r], cache'[r])
  BY <1>3, <1>6 DEF CrashReplica, Before
<1>7. CASE UNCHANGED cache
  BY <1>1, <1>7
<1> QED
  BY <1>4, <1>5, <1>6, <1>7
     DEF Next, ReplicaStep, PostNotification, SetClock, Post, GetOrCreateConfigMap, SaveConfigMap,
         DeleteConfigMap, StartWatch, CloseWatch, WaitEnds, TimeOut, CountDown, Poll, Tick, vars, replica

\* No replica goes back to an older ConfigMap, over watches that are closed
\* and started again: what was still to be read goes with the watch.
THEOREM NeverBack == Spec => NoReplicaGoesBack
<1>1. Init => EditsInv /\ OrderInv
  BY DEF Init, EditsInv, VersionsAreOld, CopiesAreTrue, NoteOf, IdleRequest, OrderInv, Past, Before
<1>2. TypeOK /\ EditsInv /\ OrderInv /\ [Next]_vars => EditsInv' /\ OrderInv'
  BY NextKeepsEdits, NextKeepsOrder
<1>3. TypeOK /\ OrderInv /\ [Next]_vars =>
         [\A r \in Replicas : cache[r] # Absent /\ cache'[r] # Absent =>
             cache'[r].version >= cache[r].version]_cache
  <2> SUFFICES ASSUME TypeOK, OrderInv, [Next]_vars, NEW r \in Replicas,
                      cache[r] # Absent, cache'[r] # Absent
               PROVE  cache'[r].version >= cache[r].version
    OBVIOUS
  <2>1. cache[r].version <= cache'[r].version
    BY StepGoesForward DEF Before
  <2>2. cache[r].version \in Nat /\ cache'[r].version \in Nat
    BY NextTyped DEF TypeOK, ReplicasOK, ConfigMap
  <2> QED
    BY <2>1, <2>2
<1> QED
  BY <1>1, <1>2, <1>3, TypeCorrect, PTL DEF Spec, NoReplicaGoesBack

=============================================================================
