----------------------------- MODULE Notification -----------------------------
(***************************************************************************)
(* How a notification, and the end date of the event, get from an admin to *)
(* the browsers.                                                           *)
(*                                                                         *)
(* Both live in one ConfigMap.  An admin's request reads it, replaces its  *)
(* own half and writes the whole back; the API server refuses the write    *)
(* when somebody else has written since.  Every replica fetches the        *)
(* ConfigMap and then watches it, and answers the browsers' long polls     *)
(* from the copy it keeps.  A browser shows what it got last and counts    *)
(* down to the end date by its own clock.                                  *)
(***************************************************************************)
EXTENDS Naturals, Sequences

CONSTANTS
    Replicas,       \* the MultiJuicer replicas
    Browsers,       \* the browsers
    Admins,         \* admin requests that can be in flight at a time
    Messages,       \* the messages admins post
    NoMessage,      \* the cleared message
    Absent,         \* no ConfigMap
    MaxTime,        \* bound: the end of time
    MaxEdits,       \* bound: admin requests and deletions
    MaxFailures     \* bound: failed calls, closed watches, crashes

ASSUME NamesAssumption == NoMessage \notin Messages /\ Absent \notin Replicas
ASSUME BoundsAssumption == MaxTime \in Nat \ {0} /\ MaxEdits \in Nat /\ MaxFailures \in Nat

VARIABLES
    configMap,  \* the ConfigMap, or Absent
    version,    \* the resourceVersion given out last
    request,    \* request[a]: an admin's request being handled
    agreed,     \* history: what the accepted requests amount to
    phase,      \* phase[r]: where replica r is between fetch and watch
    queue,      \* queue[r]: the watch events r has still to read
    cache,      \* cache[r]: the copy of the ConfigMap that r answers from
    lastUpdate, \* lastUpdate[r]: when r last replaced it
    clock,      \* the latest of these times
    browser,    \* browser[b]: the long poll of b and what it shows
    countdown,  \* countdown[b]: the countdown b shows
    now,        \* the time that end dates are compared with
    edits,      \* how much of MaxEdits is used up
    failures    \* how much of MaxFailures is used up

stored  == <<configMap, version, agreed>>
replica == <<phase, queue, cache, lastUpdate, clock>>
shown   == <<browser, countdown>>
vars == <<stored, request, replica, shown, now, edits, failures>>

-----------------------------------------------------------------------------
NoEnd == 0

\* The freezing of the board is set along with the end date, and left out.
Note == [message : Messages \cup {NoMessage}, end : 0 .. MaxTime]
Empty == [message |-> NoMessage, end |-> NoEnd]

ConfigMap == [note : Note, version : Nat]
ASSUME AbsentAssumption == Absent \notin ConfigMap

\* A request changes the message or the end date.
Change == [field : {"message"}, value : Messages \cup {NoMessage}]
          \cup [field : {"end"}, value : 0 .. MaxTime]

\* The other half is taken over from what was read.
Applied(change, note) == [note EXCEPT ![change.field] = change.value]

\* What a copy of the ConfigMap tells.
NoteOf(copy) == IF copy = Absent THEN Empty ELSE copy.note

RequestState == [pc : {"idle", "read", "save"}, change : Change, copy : ConfigMap \cup {Absent}]
IdleRequest == [pc |-> "idle", change |-> [field |-> "message", value |-> NoMessage], copy |-> Absent]

\* The replica that is holding its poll, the time of the last answer, which the
\* next poll names, and what it said.
BrowserState == [poll : Replicas \cup {Absent}, seen : Nat, note : Note]

\* The end date counted down to, and whether the animation goes on.
Countdown == [end : 0 .. MaxTime, running : BOOLEAN, expired : BOOLEAN]

Edit == edits < MaxEdits /\ edits' = edits + 1
Fail == failures < MaxFailures /\ failures' = failures + 1

Init ==
    /\ configMap = Absent
    /\ version = 0
    /\ request = [a \in Admins |-> IdleRequest]
    /\ agreed = Empty
    /\ phase = [r \in Replicas |-> "fetch"]
    /\ queue = [r \in Replicas |-> <<>>]
    /\ cache = [r \in Replicas |-> Absent]
    /\ lastUpdate = [r \in Replicas |-> 1]
    /\ clock = 1
    /\ browser = [b \in Browsers |-> [poll |-> Absent, seen |-> 0, note |-> Empty]]
    /\ countdown = [b \in Browsers |-> [end |-> NoEnd, running |-> FALSE, expired |-> FALSE]]
    /\ now = 1
    /\ edits = 0
    /\ failures = 0

-----------------------------------------------------------------------------
(* The admins.                                                             *)

\* What the form sends: a message that is shown, or an empty one that is not.
MessageChanges == [field : {"message"}, value : Messages \cup {NoMessage}]

\* And: an end date, or none.
ClockChanges == [field : {"end"}, value : 0 .. MaxTime]

Post(a, change) ==
    /\ request[a].pc = "idle"
    /\ Edit
    /\ request' = [request EXCEPT ![a] = [IdleRequest EXCEPT !.pc = "read", !.change = change]]
    /\ UNCHANGED <<stored, replica, shown, now, failures>>

PostNotification(a) == \E change \in MessageChanges : Post(a, change)

\* An end date in the past is turned away.
SetClock(a) ==
    \E change \in ClockChanges :
        (change.value = NoEnd \/ change.value >= now) /\ Post(a, change)

GetOrCreateConfigMap(a) ==
    /\ request[a].pc = "read"
    /\ \/ /\ request' = [request EXCEPT ![a].pc = "save", ![a].copy = configMap]
          /\ UNCHANGED failures
       \/ Fail /\ request' = [request EXCEPT ![a] = IdleRequest]
    /\ UNCHANGED <<stored, replica, shown, now, edits>>

\* Mutant: a watch that is closed gathers events too.
PublishToAll(copy) == queue' = [r \in Replicas |-> Append(queue[r], copy)]

\* Each change is an event of every open watch.
Publish(copy) ==
    queue' = [r \in Replicas |-> IF phase[r] = "watching" THEN Append(queue[r], copy) ELSE queue[r]]

\* Mutant: the write takes the place of whatever is there.
AcceptedAlways(copy) == TRUE

\* A create is accepted when there is nothing, an update when the ConfigMap
\* still has the resourceVersion that was read.
Accepted(copy) ==
    \/ copy = Absent /\ configMap = Absent
    \/ copy # Absent /\ configMap # Absent /\ configMap.version = copy.version

\* A write that is refused, or whose answer is lost, is an error to the admin.
SaveConfigMap(a) ==
    /\ request[a].pc = "save"
    /\ request' = [request EXCEPT ![a] = IdleRequest]
    /\ LET note == Applied(request[a].change, NoteOf(request[a].copy))
           written == [note |-> note, version |-> version + 1]
       IN  \/ /\ Accepted(request[a].copy)
              /\ configMap' = written
              /\ version' = version + 1
              /\ agreed' = [agreed EXCEPT ![request[a].change.field] = request[a].change.value]
              /\ Publish(written)
              /\ UNCHANGED failures
           \/ ~Accepted(request[a].copy) /\ UNCHANGED <<stored, queue, failures>>
           \/ Fail /\ UNCHANGED <<stored, queue>>
    /\ UNCHANGED <<phase, cache, lastUpdate, clock, shown, now, edits>>

\* Nothing in MultiJuicer deletes it, but the watch is ready for that.
DeleteConfigMap ==
    /\ configMap # Absent
    /\ Edit
    /\ configMap' = Absent
    /\ agreed' = Empty
    /\ Publish(Absent)
    /\ UNCHANGED <<version, request, phase, cache, lastUpdate, clock, shown, now, failures>>

-----------------------------------------------------------------------------
(* The replicas.                                                           *)

\* Two updates of one replica are a millisecond apart.
ParseAndUpdate(r, copy) ==
    /\ cache' = [cache EXCEPT ![r] = copy]
    /\ \E time \in {clock, clock + 1} :
          /\ time > lastUpdate[r]
          /\ clock' = time /\ lastUpdate' = [lastUpdate EXCEPT ![r] = time]

\* A ConfigMap that is not there is no notification; when the fetch fails, it
\* is tried again.
FetchConfigMap(r) ==
    /\ phase[r] = "fetch"
    /\ phase' = [phase EXCEPT ![r] = "fetched"]
    /\ ParseAndUpdate(r, configMap)
    /\ UNCHANGED <<stored, request, queue, shown, now, edits, failures>>

\* Mutant: the watch tells only what comes.
WatchFromNow(r) ==
    /\ phase[r] = "fetched"
    /\ phase' = [phase EXCEPT ![r] = "watching"]
    /\ UNCHANGED <<stored, request, queue, cache, lastUpdate, clock, shown, now, edits, failures>>

\* The watch begins with what is there, if anything.
StartWatch(r) ==
    /\ phase[r] = "fetched"
    /\ \/ /\ phase' = [phase EXCEPT ![r] = "watching"]
          /\ queue' = [queue EXCEPT ![r] = IF configMap = Absent THEN <<>> ELSE <<configMap>>]
          /\ UNCHANGED failures
       \/ Fail /\ phase' = [phase EXCEPT ![r] = "fetch"] /\ UNCHANGED queue
    /\ UNCHANGED <<stored, request, cache, lastUpdate, clock, shown, now, edits>>

ReadEvent(r) ==
    /\ phase[r] = "watching" /\ queue[r] # <<>>
    /\ queue' = [queue EXCEPT ![r] = Tail(@)]
    /\ ParseAndUpdate(r, Head(queue[r]))
    /\ UNCHANGED <<stored, request, phase, shown, now, edits, failures>>

\* Mutant: what the closed watch had still to tell is told after the fetch.
CloseWatchLate(r) ==
    /\ phase[r] = "watching"
    /\ Fail
    /\ phase' = [phase EXCEPT ![r] = "watching"]
    /\ ParseAndUpdate(r, configMap)
    /\ UNCHANGED <<stored, request, queue, shown, now, edits>>

CloseWatch(r) ==
    /\ phase[r] = "watching"
    /\ Fail
    /\ phase' = [phase EXCEPT ![r] = "fetch"]
    /\ queue' = [queue EXCEPT ![r] = <<>>]
    /\ UNCHANGED <<stored, request, cache, lastUpdate, clock, shown, now, edits>>

\* The replica starts anew, and the polls it was holding are retried.
CrashReplica(r) ==
    /\ Fail
    /\ phase' = [phase EXCEPT ![r] = "fetch"]
    /\ queue' = [queue EXCEPT ![r] = <<>>]
    /\ ParseAndUpdate(r, Absent)
    /\ browser' = [b \in Browsers |->
           IF browser[b].poll = r THEN [browser[b] EXCEPT !.poll = Absent] ELSE browser[b]]
    /\ UNCHANGED <<stored, request, countdown, now, edits>>

-----------------------------------------------------------------------------
(* The browsers.                                                           *)

\* A poll without a time is answered at once.
HasNews(b, r) == browser[b].seen = 0 \/ lastUpdate[r] > browser[b].seen

CountingTo(end) == [end |-> end, running |-> end # NoEnd, expired |-> end # NoEnd /\ now >= end]

\* Mutant: the countdown of the old end date goes on, if it still does.
RetargetLazily(b, end) == countdown' = [countdown EXCEPT ![b].end = end]

\* A new end date starts a new countdown.
Retarget(b, end) ==
    countdown' = IF countdown[b].end = end THEN countdown
                 ELSE [countdown EXCEPT ![b] = CountingTo(end)]

Answer(b, r) ==
    /\ browser' = [browser EXCEPT ![b] =
           [poll |-> Absent, seen |-> lastUpdate[r], note |-> NoteOf(cache[r])]]
    /\ Retarget(b, NoteOf(cache[r]).end)

Poll(b, r) ==
    /\ browser[b].poll = Absent
    /\ IF HasNews(b, r) THEN Answer(b, r)
       ELSE /\ browser' = [browser EXCEPT ![b].poll = r]
            /\ UNCHANGED countdown
    /\ UNCHANGED <<stored, request, replica, now, edits, failures>>

\* The replica looks for news every 50 ms and gives up after a while.
WaitEnds(b) ==
    /\ browser[b].poll # Absent
    /\ HasNews(b, browser[b].poll)
    /\ Answer(b, browser[b].poll)
    /\ UNCHANGED <<stored, request, replica, now, edits, failures>>

TimeOut(b) ==
    /\ browser[b].poll # Absent
    /\ browser' = [browser EXCEPT ![b].poll = Absent]
    /\ UNCHANGED <<stored, request, replica, countdown, now, edits, failures>>

\* The animation stops when it has shown the end.
CountDown(b) ==
    /\ countdown[b].running /\ now >= countdown[b].end
    /\ countdown' = [countdown EXCEPT ![b].running = FALSE, ![b].expired = TRUE]
    /\ UNCHANGED <<stored, request, replica, browser, now, edits, failures>>

Tick ==
    /\ now < MaxTime
    /\ now' = now + 1
    /\ UNCHANGED <<stored, request, replica, shown, edits, failures>>

-----------------------------------------------------------------------------
ReplicaStep(r) == FetchConfigMap(r) \/ StartWatch(r) \/ ReadEvent(r)

Next ==
    \/ \E a \in Admins :
          PostNotification(a) \/ SetClock(a) \/ GetOrCreateConfigMap(a) \/ SaveConfigMap(a)
    \/ DeleteConfigMap
    \/ \E r \in Replicas : ReplicaStep(r) \/ CloseWatch(r) \/ CrashReplica(r)
    \/ \E b \in Browsers : WaitEnds(b) \/ TimeOut(b) \/ CountDown(b) \/ \E r \in Replicas : Poll(b, r)
    \/ Tick

Spec == Init /\ [][Next]_vars

\* A replica's watch loop and a browser's poll loop and animation go on, and a
\* browser comes to ask every replica again and again.
Fairness ==
    /\ \A r \in Replicas : WF_vars(ReplicaStep(r))
    /\ \A b \in Browsers :
          /\ WF_vars(WaitEnds(b) \/ TimeOut(b)) /\ WF_vars(CountDown(b))
          /\ \A r \in Replicas : SF_vars(Poll(b, r))

FairSpec == Spec /\ Fairness

-----------------------------------------------------------------------------
(* What must be true.                                                      *)

StoredOK ==
    /\ configMap \in ConfigMap \cup {Absent}
    /\ version \in Nat
    /\ agreed \in Note
    /\ request \in [Admins -> RequestState]

ReplicasOK ==
    /\ phase \in [Replicas -> {"fetch", "fetched", "watching"}]
    /\ queue \in [Replicas -> Seq(ConfigMap \cup {Absent})]
    /\ cache \in [Replicas -> ConfigMap \cup {Absent}]
    /\ lastUpdate \in [Replicas -> Nat]
    /\ clock \in Nat
    /\ \A r \in Replicas : phase[r] # "watching" => queue[r] = <<>>

BrowsersOK ==
    /\ browser \in [Browsers -> BrowserState]
    /\ countdown \in [Browsers -> Countdown]
    /\ now \in 1 .. MaxTime
    /\ edits \in 0 .. MaxEdits
    /\ failures \in 0 .. MaxFailures

\* Every variable holds a value of the kind the code keeps in it, and only an
\* open watch has events to read.
TypeOK == StoredOK /\ ReplicasOK /\ BrowsersOK

\* What an accepted request set stays until another sets the same half: two
\* admins at work at once never undo each other.
AcceptedEditsStand == configMap # Absent => configMap.note = agreed

\* A replica that has read every event of its watch has the ConfigMap as it
\* is, unless it was deleted.
WatchersAreCurrent ==
    \A r \in Replicas : phase[r] = "watching" /\ queue[r] = <<>> /\ configMap # Absent =>
        cache[r] = configMap

\* No replica goes back to an older ConfigMap, over watches that are closed
\* and started again.
NoReplicaGoesBack ==
    [][\A r \in Replicas : cache[r] # Absent /\ cache'[r] # Absent =>
          cache'[r].version >= cache[r].version]_cache

\* When all has settled every browser, whichever replicas it asks, shows the
\* message and the end date there are, and the end of the event once it is over.
BrowsersCatchUp ==
    \A b \in Browsers : <>[](configMap # Absent =>
        /\ browser[b].note = configMap.note
        /\ countdown[b].end = configMap.note.end
        /\ countdown[b].expired <=> configMap.note.end # NoEnd /\ now >= configMap.note.end)

=============================================================================
