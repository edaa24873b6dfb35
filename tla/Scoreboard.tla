------------------------------ MODULE Scoreboard ------------------------------
(***************************************************************************)
(* How MultiJuicer ranks the teams and keeps the browsers up to date.      *)
(*                                                                         *)
(* Every replica watches the deployments of the teams, keeps a row of      *)
(* scores for each in memory, and sorts the rows after every event.  A     *)
(* browser polls a replica for the score board or for the status of one    *)
(* team, naming the time of the last update it has seen, and is answered   *)
(* when the replica has something newer or when the wait is over.          *)
(*                                                                         *)
(* An answer is built in two steps, as in the code: the rows are taken     *)
(* under the mutex, and are written out after it is released.  They are    *)
(* the cache's own rows, so a re-sort in between changes their positions.  *)
(***************************************************************************)
EXTENDS Naturals, Sequences, FiniteSets, SequencesExt

CONSTANTS
    Teams,          \* the teams; their names are numbers, to be sorted by
    Challenges,     \* the challenge keys the replicas know
    Difficulty,     \* the difficulty of each challenge
    SolveTimes,     \* times a solve may carry, by the clock of a Juice Shop
    Initial,        \* the deployments there may be from the start
    Replicas,       \* the MultiJuicer replicas
    Clients,        \* the browsers
    Wanted,         \* what they may poll
    Board,          \* the score board: all that is polled besides it is a team
    Absent,         \* no deployment, no row
    TopTeams,       \* how many teams the score board shows
    MaxEdits,       \* bound: changes of the deployments
    MaxFailures     \* bound: closed watches, crashes, failed lists

ASSUME TeamsAssumption == Teams \subseteq Nat /\ IsFiniteSet(Teams) /\ Board \notin Teams
ASSUME ChallengesAssumption == Difficulty \in [Challenges -> Nat] /\ SolveTimes \subseteq Nat \ {0}
ASSUME InitialAssumption ==
    /\ Wanted \subseteq Teams \cup {Board}
    /\ Initial \subseteq [Teams -> {Absent} \cup
            [progress : SUBSET [key : Challenges, solvedAt : SolveTimes], ready : BOOLEAN]]
    /\ \A deployed \in Initial, t \in Teams :
            deployed[t] # Absent => IsFiniteSet(deployed[t].progress)
ASSUME BoundsAssumption == TopTeams \in Nat \ {0} /\ MaxEdits \in Nat /\ MaxFailures \in Nat

VARIABLES
    deployment, \* deployment[t]: the deployment of team t, or Absent
    phase,      \* phase[r]: where replica r is between start and watch
    queue,      \* queue[r]: the watch events replica r has still to read
    scores,     \* scores[r][t]: the row of team t in the cache of r
    lastUpdate, \* lastUpdate[r]: when r last changed its rows
    coincided,  \* coincided[r]: what r last updated in the millisecond of an earlier
                \* update of it: history, for the properties
    now,        \* the clock, in milliseconds
    want,       \* want[c]: what client c polls
    client,     \* client[c]: the long poll of client c
    edits,      \* how much of MaxEdits is used up, by the first deployments too
    failures    \* how much of MaxFailures is used up

vars == <<deployment, phase, queue, scores, lastUpdate, coincided, now, want, client, edits, failures>>

-----------------------------------------------------------------------------
(* Data.                                                                   *)

Solve == [key : Challenges, solvedAt : SolveTimes]
Deployment == [progress : SUBSET Solve, ready : BOOLEAN]

Event == [type : {"added", "modified", "deleted"}, team : Teams, object : Deployment]

Row == [progress : SUBSET Solve, ready : BOOLEAN, stamp : Nat, position : Nat]

ASSUME AbsentAssumption == Absent \notin Deployment /\ Absent \notin Row

Keys(progress) == {s.key : s \in progress}
Score(row) == MapThenSumSet(LAMBDA s : Difficulty[s.key] * 10, row.progress)
LatestSolve(row) == Max({s.solvedAt : s \in row.progress} \cup {0})

\* A long poll: the replica asked, the rows taken for the answer (mine: still
\* rows of the cache) and their time; what the client has seen, with which time
\* and from which replica (source, for the properties).
Taken == [team : Teams, row : Row, mine : BOOLEAN]
Shown == [team : Teams, row : Row]
ClientState == [pc : {"idle", "waiting", "reply"}, replica : Replicas, taken : Seq(Taken),
                stamp : Nat, view : Seq(Shown), seen : Nat, source : Replicas]

\* The row of a deployment, without a position yet.
CalculateScore(object, time) ==
    [progress |-> object.progress, ready |-> object.ready, stamp |-> time, position |-> 0]

\* Mutant: only the points are compared.
EqualScores(row, other) == Score(row) = Score(other)

\* Whether a row tells the same as another, whenever it was calculated: solves
\* are compared by key and in the order of the list, which is sorted by key.
EqualsIgnoringLastUpdate(row, other) ==
    /\ Score(row) = Score(other)
    /\ row.position = other.position
    /\ Keys(row.progress) = Keys(other.progress)
    /\ row.ready = other.ready

Listed(rows) == {t \in Teams : rows[t] # Absent}

\* More points first, then who had them earlier, then by name.
RanksBefore(rows, t, u) ==
    \/ Score(rows[t]) > Score(rows[u])
    \/ /\ Score(rows[t]) = Score(rows[u])
       /\ \/ LatestSolve(rows[t]) < LatestSolve(rows[u])
          \/ LatestSolve(rows[t]) = LatestSolve(rows[u]) /\ t < u

Sorted(rows) ==
    CHOOSE order \in [1 .. Cardinality(Listed(rows)) -> Listed(rows)] :
        \A i, j \in DOMAIN order : i < j => RanksBefore(rows, order[i], order[j])

\* Mutant: the next position is one more than the last.
DensePositions(rows, order) ==
    LET position[i \in 1 .. Len(order)] ==
            IF i = 1 THEN 1
            ELSE position[i - 1] + IF Score(rows[order[i]]) < Score(rows[order[i - 1]]) THEN 1 ELSE 0
    IN  position

\* The position at each place of the order, the sorted one: the place itself, or
\* for a score that is no lower than the one before, the position of that.
Positions(rows, order) ==
    LET position[i \in 1 .. Len(order)] ==
            IF i > 1 /\ Score(rows[order[i]]) >= Score(rows[order[i - 1]])
            THEN position[i - 1] ELSE i
    IN  position

WithPositions(rows, order) ==
    LET position == Positions(rows, order)
    IN  [t \in Teams |-> IF rows[t] = Absent THEN Absent
                         ELSE [rows[t] EXCEPT !.position = position[CHOOSE i \in DOMAIN order : order[i] = t]]]

\* The one outcome of sorting rows and positioning them; a set, for TLC to
\* sort but once.
Resorted(rows) == {WithPositions(rows, order) : order \in {Sorted(rows)}}

\* Between two polls: the next follows after a while, also after an error.
Idle(c) == [client[c] EXCEPT !.pc = "idle", !.taken = <<>>, !.stamp = 0]

\* The time of an update, truncated to the millisecond: updates may share one.
NextTimes == {now, now + 1}

Edit == edits < MaxEdits /\ edits' = edits + 1
Fail == failures < MaxFailures /\ failures' = failures + 1

-----------------------------------------------------------------------------
Init ==
    /\ deployment \in Initial
    /\ phase = [r \in Replicas |-> "booting"]
    /\ queue = [r \in Replicas |-> <<>>]
    /\ scores = [r \in Replicas |-> [t \in Teams |-> Absent]]
    /\ lastUpdate = [r \in Replicas |-> 1]
    /\ coincided = [r \in Replicas |-> {}]
    /\ now = 1
    /\ want \in [Clients -> Wanted]
    /\ client \in {[c \in Clients |-> [pc |-> "idle", replica |-> home[c], taken |-> <<>>, stamp |-> 0,
                                       view |-> <<>>, seen |-> 0, source |-> home[c]]] :
                   home \in [Clients -> Replicas]}
    /\ edits = Cardinality({t \in Teams : deployment[t] # Absent})
    /\ failures = 0

-----------------------------------------------------------------------------
(* The deployments, as joins, webhooks, the sync, the proxy, Kubernetes    *)
(* and the cleaner change them; each change is an event of every watch.    *)

Publish(type, t, object) ==
    queue' = [r \in Replicas |->
                 IF phase[r] = "watching"
                 THEN Append(queue[r], [type |-> type, team |-> t, object |-> object])
                 ELSE queue[r]]

CreateDeployment(t) ==
    /\ Edit
    /\ deployment[t] = Absent
    /\ LET object == [progress |-> {}, ready |-> FALSE]
       IN  deployment' = [deployment EXCEPT ![t] = object] /\ Publish("added", t, object)
    /\ UNCHANGED <<phase, scores, lastUpdate, coincided, now, want, client, failures>>

\* A solve is recorded; an annotation of no concern to the scores is touched,
\* such as the time of the last request (the same object); or the pod becomes
\* ready or stops being so.
ModifyDeployment(t) ==
    /\ Edit
    /\ deployment[t] # Absent
    /\ \E object \in
          {[deployment[t] EXCEPT !.progress = @ \cup {s}] :
               s \in {u \in Solve : u.key \notin Keys(deployment[t].progress)}}
          \cup {deployment[t], [deployment[t] EXCEPT !.ready = ~@]} :
          deployment' = [deployment EXCEPT ![t] = object] /\ Publish("modified", t, object)
    /\ UNCHANGED <<phase, scores, lastUpdate, coincided, now, want, client, failures>>

DeleteDeployment(t) ==
    /\ Edit
    /\ deployment[t] # Absent
    /\ deployment' = [deployment EXCEPT ![t] = Absent]
    /\ Publish("deleted", t, deployment[t])
    /\ UNCHANGED <<phase, scores, lastUpdate, coincided, now, want, client, failures>>

-----------------------------------------------------------------------------
(* A replica's cache.                                                      *)

\* The scores are calculated once before the server starts; a failure of the
\* list is ignored.  The time of the last update stays that of the start.
CalculateAndCacheScoreBoard(r) ==
    /\ phase[r] = "booting"
    /\ \/ /\ \E rows \in Resorted([t \in Teams |->
                   IF deployment[t] = Absent THEN Absent ELSE CalculateScore(deployment[t], now)]) :
                scores' = [scores EXCEPT ![r] = rows]
          /\ UNCHANGED failures
       \/ Fail /\ UNCHANGED scores
    /\ phase' = [phase EXCEPT ![r] = "serving"]
    /\ UNCHANGED <<deployment, queue, lastUpdate, coincided, now, want, client, edits>>

\* Mutant: a watch that was closed is not started again.
StartUnlessFailed(r) ==
    /\ phase[r] = "serving" /\ failures = 0
    /\ phase' = [phase EXCEPT ![r] = "watching"]
    /\ LET existing == SetToSeq({t \in Teams : deployment[t] # Absent})
       IN  queue' = [queue EXCEPT ![r] = [i \in DOMAIN existing |->
               [type |-> "added", team |-> existing[i], object |-> deployment[existing[i]]]]]
    /\ UNCHANGED <<deployment, scores, lastUpdate, coincided, now, want, client, edits, failures>>

\* A watch begins with an event for each deployment there is, and tells
\* nothing of those that are gone.
StartWatcher(r) ==
    /\ phase[r] = "serving"
    /\ phase' = [phase EXCEPT ![r] = "watching"]
    /\ LET existing == SetToSeq({t \in Teams : deployment[t] # Absent})
       IN  queue' = [queue EXCEPT ![r] = [i \in DOMAIN existing |->
               [type |-> "added", team |-> existing[i], object |-> deployment[existing[i]]]]]
    /\ UNCHANGED <<deployment, scores, lastUpdate, coincided, now, want, client, edits, failures>>

\* The watch is closed, with what it had still to deliver.
CloseWatcher(r) ==
    /\ phase[r] = "watching"
    /\ Fail
    /\ phase' = [phase EXCEPT ![r] = "serving"]
    /\ queue' = [queue EXCEPT ![r] = <<>>]
    /\ UNCHANGED <<deployment, scores, lastUpdate, coincided, now, want, client, edits>>

\* Rows taken for an answer and not replaced get their new positions.
Repositioned(taken, t, rows) ==
    [i \in DOMAIN taken |->
        IF taken[i].team = t \/ ~taken[i].mine THEN [taken[i] EXCEPT !.mine = FALSE]
        ELSE [taken[i] EXCEPT !.row = rows[taken[i].team]]]

\* Mutant: the time of the update is not noted.
UpdateWithoutTime(r, t, row, time) ==
    \E rows \in Resorted([scores[r] EXCEPT ![t] = row]) :
        /\ scores' = [scores EXCEPT ![r] = rows]
        /\ now' = time
        /\ client' = [c \in Clients |->
               IF client[c].replica = r
               THEN [client[c] EXCEPT !.taken = Repositioned(@, t, rows)] ELSE client[c]]
        /\ UNCHANGED <<lastUpdate, coincided>>

\* When what a client may want was last updated on a replica.
StampOf(r, w) ==
    IF w = Board \/ scores[r][w] = Absent THEN lastUpdate[r] ELSE scores[r][w].stamp

\* The critical section: one row is replaced or removed, the rows are sorted
\* and the time of the update is taken.
UpdateRow(r, t, row, time) ==
    \E rows \in Resorted([scores[r] EXCEPT ![t] = row]) :
        /\ scores' = [scores EXCEPT ![r] = rows]
        /\ lastUpdate' = [lastUpdate EXCEPT ![r] = time]
        /\ coincided' = [coincided EXCEPT ![r] =
               (@ \ {Board, t}) \cup {w \in {Board, t} : StampOf(r, w) = time}]
        /\ now' = time
        /\ client' = [c \in Clients |->
               IF client[c].replica = r
               THEN [client[c] EXCEPT !.taken = Repositioned(@, t, rows)] ELSE client[c]]

ReadEvent(r) ==
    /\ phase[r] = "watching"
    /\ queue[r] # <<>>
    /\ queue' = [queue EXCEPT ![r] = Tail(@)]
    /\ LET event == Head(queue[r])
       IN  \E time \in NextTimes :
              LET fresh == CalculateScore(event.object, time)
              IN  CASE event.type = "deleted" -> UpdateRow(r, event.team, Absent, time)
                    [] /\ event.type # "deleted"
                       /\ scores[r][event.team] # Absent
                       /\ EqualsIgnoringLastUpdate(scores[r][event.team], fresh) ->
                          UNCHANGED <<scores, lastUpdate, coincided, now, client>>
                    [] OTHER -> UpdateRow(r, event.team, fresh, time)
    /\ UNCHANGED <<deployment, phase, want, edits, failures>>

\* The replica dies with its cache and the polls it was serving; the clients
\* will ask again for what they have not seen.  Its successor takes more than
\* a millisecond to start.
CrashReplica(r) ==
    /\ Fail
    /\ phase' = [phase EXCEPT ![r] = "booting"]
    /\ queue' = [queue EXCEPT ![r] = <<>>]
    /\ scores' = [scores EXCEPT ![r] = [t \in Teams |-> Absent]]
    /\ now' = now + 1
    /\ lastUpdate' = [lastUpdate EXCEPT ![r] = now + 1]
    /\ coincided' = [coincided EXCEPT ![r] = {}]
    /\ client' = [c \in Clients |-> IF client[c].replica = r THEN Idle(c) ELSE client[c]]
    /\ UNCHANGED <<deployment, want, edits>>

-----------------------------------------------------------------------------
(* Long polls.  A client that has seen nothing (0) asks without waiting.   *)

HasNews(c, r) ==
    IF want[c] = Board THEN lastUpdate[r] > client[c].seen
    ELSE scores[r][want[c]] # Absent /\ scores[r][want[c]].stamp > client[c].seen

Take(t, row) == [team |-> t, row |-> row, mine |-> TRUE]

Answer(c, r) ==
    LET order == Sorted(scores[r])
    IN  IF want[c] = Board
        THEN [client[c] EXCEPT !.pc = "reply", !.replica = r, !.stamp = lastUpdate[r],
                 !.taken = [i \in 1 .. Len(order) |-> Take(order[i], scores[r][order[i]])]]
        ELSE [client[c] EXCEPT !.pc = "reply", !.replica = r, !.stamp = scores[r][want[c]].stamp,
                 !.taken = <<Take(want[c], scores[r][want[c]])>>]

\* A poll names the time of the last update its client has seen; the first one
\* names none, and is not held.
Waits(c) == client[c].seen # 0

\* A first request for a team the cache does not have is refused, and will
\* be sent again.
Poll(c, r) ==
    /\ client[c].pc = "idle"
    /\ phase[r] # "booting"
    /\ \/ HasNews(c, r) /\ client' = [client EXCEPT ![c] = Answer(c, r)]
       \/ /\ ~HasNews(c, r) /\ Waits(c)
          /\ client' = [client EXCEPT ![c].pc = "waiting", ![c].replica = r]
       \/ ~HasNews(c, r) /\ ~Waits(c) /\ UNCHANGED client
    /\ UNCHANGED <<deployment, phase, queue, scores, lastUpdate, coincided, now, want, edits, failures>>

\* A tick finds news.
WaitEnds(c) ==
    /\ client[c].pc = "waiting"
    /\ HasNews(c, client[c].replica)
    /\ client' = [client EXCEPT ![c] = Answer(c, client[c].replica)]
    /\ UNCHANGED <<deployment, phase, queue, scores, lastUpdate, coincided, now, want, edits, failures>>

\* Nothing new in time: 204, and the client asks again.
TimeOut(c) ==
    /\ client[c].pc = "waiting"
    /\ client' = [client EXCEPT ![c] = Idle(c)]
    /\ UNCHANGED <<deployment, phase, queue, scores, lastUpdate, coincided, now, want, edits, failures>>

\* The client shows the rows, and notes the time they came with.
TakeAnswer(c, rows) ==
    [Idle(c) EXCEPT !.seen = client[c].stamp, !.view = rows, !.source = client[c].replica]

\* The rows are written out, for the board the first of them.
Respond(c) ==
    /\ client[c].pc = "reply"
    /\ LET taken == client[c].taken
           shown == 1 .. IF Len(taken) > TopTeams THEN TopTeams ELSE Len(taken)
       IN  client' = [client EXCEPT ![c] =
               TakeAnswer(c, [i \in shown |-> [team |-> taken[i].team, row |-> taken[i].row]])]
    /\ UNCHANGED <<deployment, phase, queue, scores, lastUpdate, coincided, now, want, edits, failures>>

-----------------------------------------------------------------------------
EditStep == \E t \in Teams : CreateDeployment(t) \/ ModifyDeployment(t) \/ DeleteDeployment(t)

CacheStep(r) == CalculateAndCacheScoreBoard(r) \/ StartWatcher(r) \/ ReadEvent(r)

PollStep(c) == WaitEnds(c) \/ TimeOut(c) \/ Respond(c)

Next ==
    \/ EditStep
    \/ \E r \in Replicas : CacheStep(r) \/ CloseWatcher(r) \/ CrashReplica(r)
    \/ \E c \in Clients : PollStep(c) \/ \E r \in Replicas : Poll(c, r)

Spec == Init /\ [][Next]_vars

\* A replica gets on with its start, its watch and its polls, and a client
\* polls again; nobody has to edit a deployment or to fail.
Fairness ==
    /\ \A r \in Replicas : WF_vars(CacheStep(r))
    /\ \A c \in Clients : WF_vars(PollStep(c)) /\ WF_vars(\E r \in Replicas : Poll(c, r))

FairSpec == Spec /\ Fairness

-----------------------------------------------------------------------------
(* What must be true.                                                      *)

\* A team's place is one more than the number of teams with more points, so
\* that equal scores share a place and the next score skips those shared,
\* whatever the sequence of events that built the cache.
PositionsAreRanks ==
    \A r \in Replicas : \A t \in Listed(scores[r]) :
        scores[r][t].position =
            1 + Cardinality({u \in Listed(scores[r]) : Score(scores[r][u]) > Score(scores[r][t])})

\* A row tells what its deployment tells.
Tells(row, object) == row.progress = object.progress /\ row.ready = object.ready

\* A replica that has read every event of its watch shows every deployment as
\* it is, though watches are closed with undelivered events and start over.
DeployedTeamsAreCurrent ==
    \A r \in Replicas : phase[r] = "watching" /\ queue[r] = <<>> =>
        \A t \in Teams : deployment[t] # Absent =>
            scores[r][t] # Absent /\ Tells(scores[r][t], deployment[t])

\* What the client would be shown, had it asked just now.
First(seq, n) == SubSeq(seq, 1, IF Len(seq) < n THEN Len(seq) ELSE n)

BoardOf(r) ==
    [i \in 1 .. Len(First(Sorted(scores[r]), TopTeams)) |->
        [team |-> Sorted(scores[r])[i], row |-> scores[r][Sorted(scores[r])[i]]]]

UpToDate(c, r) ==
    IF want[c] = Board THEN client[c].view = BoardOf(r)
    ELSE scores[r][want[c]] # Absent =>
            /\ Len(client[c].view) = 1
            /\ client[c].view[1].row.stamp = scores[r][want[c]].stamp
            /\ Tells(client[c].view[1].row, scores[r][want[c]])

\* A client that has been answered by a replica and that this replica has no news
\* for sees what the replica has: no update falls between an answer and the next
\* poll.  Unless the last update shares its millisecond with an earlier one: what
\* the earlier one was answered with then counts as seen.
NoMissedUpdate ==
    \A c \in Clients : LET r == client[c].source IN
        client[c].seen # 0 /\ ~HasNews(c, r) /\ want[c] \notin coincided[r] => UpToDate(c, r)

\* The team is below those the board shows.
Outranked(t) ==
    \E r \in Replicas : 
        scores[r][t] # Absent /\ t \notin ToSet(First(Sorted(scores[r]), TopTeams))

\* A team is shown at the place it has on the replica.
Placed(shown, r) ==
    scores[r][shown.team] # Absent /\ shown.row.position = scores[r][shown.team].position

\* When edits and failures have stopped, the client of a single replica comes to
\* see, for good, each deployment it polls as it is, on the score board those that
\* rank high enough, and these at their places.  Unless the last update coincided
\* with an earlier one, which only the next change makes up for.
ClientsCatchUp ==
    \A c \in Clients, t \in Teams :
        <>[](/\ deployment[t] # Absent /\ (want[c] = t \/ (want[c] = Board /\ ~Outranked(t)))
             /\ want[c] \notin coincided[client[c].source]
             => \E i \in DOMAIN client[c].view :
                    /\ client[c].view[i].team = t /\ Tells(client[c].view[i].row, deployment[t])
                    /\ want[c] = Board => Placed(client[c].view[i], client[c].source))

=============================================================================
