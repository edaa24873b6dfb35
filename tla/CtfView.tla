------------------------------ MODULE CtfView ------------------------------
(***************************************************************************)
(* The CTF page: the number of solves and the first solver of every        *)
(* challenge, fetched once and from then on kept up to date with the       *)
(* events of the activity feed, and the globe, on which the country of a   *)
(* solved challenge is filled with its first solver's pattern.  The globe  *)
(* takes some time to load and to build, with the solves known when it     *)
(* began; it is told of later ones through its handle.                     *)
(***************************************************************************)
EXTENDS Naturals, FiniteSets, FiniteSetsExt, Sequences

CONSTANTS
    Challenges,  \* challenges, by the order of their keys
    Difficulty,  \* Difficulty[c]: 1 to 6
    Available,   \* how many countries there are on the globe
    Teams,
    Nobody,
    None, Ended,  \* no answer yet, and none any more
    Limit,       \* events the feed is cut to: 30
    Units,       \* what the digits of a time stand for, up to a second: {1, 10, 100, 1000} ms
    MaxTime,     \* bound: times at which challenges are solved and teams created
    MaxSolves,   \* bound: solves there are at first
    MaxUpdates,  \* bound: changes of teams and of their rows
    MaxAtOnce    \* bound: challenges in which a row changes at once

ASSUME CtfAssumption ==
    /\ Challenges \subseteq Nat \ {0} /\ IsFiniteSet(Challenges) /\ IsFiniteSet(Teams)
    /\ Difficulty \in [Challenges -> 1 .. 6]
    /\ {Available, MaxTime, MaxSolves, MaxUpdates, MaxAtOnce} \subseteq Nat
    /\ Limit \in Nat \ {0}
    /\ Units \subseteq Nat \ {0} /\ IsFiniteSet(Units) /\ 1 \in Units
    /\ Nobody \notin Teams

VARIABLES
    solvedAt,    \* solvedAt[s]: when s was solved, 0 if the replica knows of no such solve
    createdAt,   \* createdAt[t]: when t's deployment was created, 0 if there is none
    updates,     \* counts the changes, for the bound
    update,      \* of the rows since the last answer: "told", no change; "news"; or "missed"
    fetch,       \* the request for the counts: None yet, its answer, then Ended
    listed,      \* the creation times the poll has read, None before
    feed,        \* the feed's answer on its way to the page
    challenges,  \* the counts and first solvers of the page
    challengesRef,  \* those the effects have run with
    previous,    \* those of the last comparison
    last,        \* the time of the newest event processed
    applied,     \* the solves applied so far
    globes,      \* the globes, from the start of their load on
    handle,      \* the one that was ready last, 0 for none
    told         \* history: the solves behind what the page was told

server == <<solvedAt, createdAt, updates>>
poll == <<update, listed, feed>>
page == <<challenges, last, applied, told>>
view == <<challengesRef, previous, globes, handle>>
ctfVars == <<server, poll, fetch, page, view>>

\* The solves of all teams and their times, at one moment.
Solves == Challenges \X Teams
Times == [Solves -> 0 .. MaxTime]
NoSolves == [s \in Solves |-> 0]

Solvers(c, known) == {t \in Teams : known[<<c, t>>] # 0}
Earliest(c, known) ==
    {t \in Solvers(c, known) : \A u \in Solvers(c, known) : known[<<c, t>>] <= known[<<c, u>>]}

Counts == [count : [Challenges -> Nat], first : [Challenges -> Teams \cup {Nobody}]]

ASSUME NoneAssumption ==
    /\ None # Ended /\ None \notin Counts /\ None \notin Times
    /\ \A times \in SUBSET (1 .. MaxTime) : times # None

\* The page compares times as texts, which end in a Z behind the last digit that is
\* not 0.  As Z sorts behind dots and digits, a time sorts behind all that begin with
\* its digits: 48Z behind 48.2Z, and that behind 48.21Z.
LastWithDigits(t) == t + Max({u \in Units : t % u = 0}) - 1
SortsAfter(a, b) ==
    IF LastWithDigits(a) = LastWithDigits(b) THEN a < b ELSE LastWithDigits(a) > LastWithDigits(b)

\* The challenges, by difficulty and key, are given the countries by population,
\* so that the hardest may be left without; 0 is no country.
mapChallengesToCountries ==
    [c \in Challenges |->
        LET place == 1 + Cardinality({d \in Challenges :
                         \/ Difficulty[d] < Difficulty[c]
                         \/ Difficulty[d] = Difficulty[c] /\ d < c})
        IN  IF place <= Available THEN place ELSE 0]

\* Solved challenges whose country is to have the pattern of a first solver.
SolvedWithPatterns(known) ==
    {c \in Challenges : /\ mapChallengesToCountries[c] # 0
                        /\ known.count[c] > 0 /\ known.first[c] # Nobody}

\* Mutant: a challenge counts as new whatever was known of it.
FindSolvedChallenges(old, new) == SolvedWithPatterns(new)

findNewlySolvedChallenges(old, new) == {c \in SolvedWithPatterns(new) : old.count[c] = 0}

CtfInit ==
    /\ solvedAt \in {known \in Times : Cardinality({s \in Solves : known[s] # 0}) <= MaxSolves}
    /\ createdAt = [t \in Teams |-> 0]
    /\ updates = 0
    /\ update = "news"
    /\ fetch = None
    /\ listed = None
    /\ feed = None
    /\ challenges = None
    /\ challengesRef = None
    /\ previous = None
    /\ last = 0
    /\ applied = {}
    /\ globes = <<>>
    /\ handle = 0
    /\ told = [counts |-> None, start |-> NoSolves, feed |-> NoSolves, skipped |-> {}, gone |-> {}]

(***************************************************************************)
(* The server.                                                             *)
(***************************************************************************)

\* A poll that waits does not see an update in the millisecond of the last one told,
\* before there is another.
SeenUpdate == IF update = "news" THEN {"news"} ELSE {"news", "missed"}

\* The replica takes in a team's deployment: its solves are replaced by those of the
\* annotation, some of which may be gone or have other times.  Where the deployment is
\* gone, all are.  The replica learns of that after it is, so that there may be solves
\* without a creation.
TeamUpdated(t, row) ==
    /\ updates < MaxUpdates
    /\ Cardinality({c \in Challenges : row[c] # solvedAt[<<c, t>>]}) <= MaxAtOnce
    /\ updates' = updates + 1
    /\ solvedAt' = [s \in Solves |-> IF s[2] = t THEN row[s[1]] ELSE solvedAt[s]]
    /\ update' \in SeenUpdate
    /\ UNCHANGED <<createdAt, fetch, listed, feed, page, view>>

TeamIsCreated(t, at) ==
    /\ createdAt[t] = 0 /\ updates < MaxUpdates
    /\ updates' = updates + 1
    /\ createdAt' = [createdAt EXCEPT ![t] = at]
    /\ UNCHANGED <<solvedAt, poll, fetch, page, view>>

TeamIsDeleted(t) ==
    /\ createdAt[t] # 0 /\ updates < MaxUpdates
    /\ updates' = updates + 1
    /\ createdAt' = [createdAt EXCEPT ![t] = 0]
    /\ UNCHANGED <<solvedAt, poll, fetch, page, view>>

\* The number of solves and one of the earliest solvers of every challenge.
handleChallenges ==
    /\ fetch = None
    /\ \E first \in [Challenges -> Teams \cup {Nobody}] :
        /\ \A c \in Challenges :
            first[c] \in IF Solvers(c, solvedAt) = {} THEN {Nobody} ELSE Earliest(c, solvedAt)
        /\ fetch' = [count |-> [c \in Challenges |-> Cardinality(Solvers(c, solvedAt))],
                     first |-> first, known |-> solvedAt]
    /\ UNCHANGED <<server, poll, page, view>>

\* The deployments are listed when a poll arrives, before it waits; one that waits in
\* vain is followed by another.
ListDeployments ==
    /\ feed = None
    /\ listed' = {createdAt[t] : t \in Teams} \ {0}
    /\ UNCHANGED <<server, update, fetch, feed, page, view>>

\* A solve, as a feed that knows of these tells it; the earliest are flagged.
SolveEvent(s, known) ==
    [challenge |-> s[1], team |-> s[2], at |-> known[s], first |-> s[2] \in Earliest(s[1], known)]

\* All there is to tell: the solves and the creations of teams.
Events(known) ==
    {SolveEvent(s, known) : s \in {s \in Solves : known[s] # 0}}
    \cup {[challenge |-> 0, team |-> Nobody, at |-> at, first |-> FALSE] : at \in listed}

\* The newest of them.
buildActivityFeed ==
    {newest \in SUBSET Events(solvedAt) :
        /\ Cardinality(newest) <= Limit
        /\ newest = Events(solvedAt) \/ Cardinality(newest) = Limit
        /\ \A e \in newest : \A f \in Events(solvedAt) \ newest : e.at >= f.at}

\* The answer to a poll of the feed: the first is answered at once, another when
\* there is news.
handleActivityFeed ==
    /\ feed = None /\ listed # None /\ update = "news"
    /\ update' = "told"
    /\ listed' = None
    /\ \E events \in buildActivityFeed : feed' = [events |-> events, known |-> solvedAt]
    /\ UNCHANGED <<server, fetch, page, view>>

(***************************************************************************)
(* The counts.                                                             *)
(***************************************************************************)
TakeChallenges ==
    /\ fetch \notin {None, Ended}
    /\ challenges' = [count |-> fetch.count, first |-> fetch.first]
    /\ told' = [told EXCEPT !.counts = fetch.known]
    /\ fetch' = Ended
    /\ UNCHANGED <<server, poll, last, applied, view>>

\* The request is not sent again: the page goes on showing the error.
FetchFails ==
    /\ fetch = None
    /\ fetch' = Ended
    /\ UNCHANGED <<server, poll, page, view>>

\* Mutant: the loop goes on to events of the time it has processed.
NotOlder(batch) ==
    {e \in batch.events :
        e.challenge # 0 /\ \A f \in batch.events : f.at >= e.at => ~SortsAfter(last, f.at)}

\* The solves of a batch the loop comes to: it goes from the newest event to the first,
\* a team's creation or a solve, that does not sort after the last processed.
Newer(batch) ==
    {e \in batch.events :
        e.challenge # 0 /\ \A f \in batch.events : f.at >= e.at => SortsAfter(f.at, last)}

\* Solves are applied once, also when there are no counts yet to apply them to.
ToApply(events) == {e \in events : <<e.challenge, e.team>> \notin applied}

\* Where a challenge's first solve is told of twice, with one time, any is kept.
applySolveEvent(events) ==
    /\ applied' = applied \cup {<<e.challenge, e.team>> : e \in events}
    /\ IF challenges = None
       THEN UNCHANGED challenges
       ELSE \E first \in [Challenges -> Teams \cup {Nobody}] :
             /\ \A c \in Challenges :
                 LET firsts == {e.team : e \in {f \in events : f.challenge = c /\ f.first}}
                 IN  first[c] \in IF firsts = {} THEN {challenges.first[c]} ELSE firsts
             /\ challenges' =
                 [count |-> [c \in Challenges |-> challenges.count[c]
                                + Cardinality({e \in events : e.challenge = c})],
                  first |-> first]

\* Challenges with a solve the page had not been told of, and that is not applied to
\* the counts: it comes late, or with more than the feed tells, or before the counts.
SkippedBy(batch) ==
    {c \in Challenges : \E t \in Solvers(c, batch.known) :
        /\ told.feed[<<c, t>>] = 0
        /\ challenges # None => \A e \in Newer(batch) : <<e.challenge, e.team>> # <<c, t>>}

\* Challenges of which a solve is gone or has another time now.
GoneIn(batch) ==
    {c \in Challenges : \E t \in Solvers(c, told.feed) :
        batch.known[<<c, t>>] # told.feed[<<c, t>>]}

\* When the last event processed is gone, the loop does not stop at it: challenges with
\* a solve before it, but sorting after it.
Uncovered(batch) ==
    IF last \in {e.at : e \in batch.events} \/ \A e \in batch.events : e.at > last
    THEN {}
    ELSE {c \in Challenges : \E t \in Solvers(c, told.feed) : SortsAfter(told.feed[<<c, t>>], last)}

\* Mutant: an empty feed is not asked for again.
PollUnlessEmpty == IF feed.events = {} THEN feed ELSE None

\* Polls go on.
NextPoll == None

\* The first batch that is not empty is skipped, its solves being taken to be in
\* the counts.
TakeFeed ==
    /\ feed # None
    /\ feed' = NextPoll
    /\ IF feed.events = {}
       THEN UNCHANGED <<challenges, last, applied>>
       ELSE /\ last' = Max({e.at : e \in feed.events})
            /\ IF last = 0
               THEN UNCHANGED <<challenges, applied>>
               ELSE applySolveEvent(ToApply(Newer(feed)))
    /\ told' = IF last = 0
               THEN [told EXCEPT !.start = feed.known, !.feed = feed.known]
               ELSE [told EXCEPT !.feed = feed.known, !.skipped = @ \cup SkippedBy(feed),
                                 !.gone = @ \cup GoneIn(feed) \cup Uncovered(feed)]
    /\ UNCHANGED <<server, update, fetch, listed, view>>

(***************************************************************************)
(* The globe.                                                              *)
(***************************************************************************)

\* A globe, from the start of its load: the countries its geometry has a pattern
\* for, how often it was told of each later, and, as history, the ones it was not.
NewGlobe(known) ==
    [stage |-> "loading", patterns |-> SolvedWithPatterns(known),
     given |-> [c \in Challenges |-> 0], missed |-> {}]

Loaded == \E i \in DOMAIN globes : globes[i].stage \in {"building", "ready"}

\* Until a load has ended, every change of the counts starts another.
loadAllData == IF Loaded THEN globes ELSE Append(globes, NewGlobe(challenges))

\* The globe is given the challenges that are solved now and were not before; one that
\* was, but had no first solver, it misses.
focusAndHighlight ==
    LET newly == findNewlySolvedChallenges(previous, challenges)
        late == {c \in SolvedWithPatterns(challenges) :
                    previous.count[c] > 0 /\ previous.first[c] = Nobody}
    IN  [globes EXCEPT ![handle].given = [c \in Challenges |-> @[c] + IF c \in newly THEN 1 ELSE 0],
                       ![handle].missed = @ \cup late]

\* The effects of a change of the counts, after it was rendered.
RunEffects ==
    /\ challenges # challengesRef
    /\ challengesRef' = challenges
    /\ IF handle = 0
       THEN globes' = loadAllData /\ UNCHANGED previous
       ELSE globes' = focusAndHighlight /\ previous' = challenges
    /\ UNCHANGED <<server, poll, fetch, page, handle>>

\* The world is loaded, and the globe of that load is built, also when there is one
\* already.
LoadEnds(i) ==
    /\ globes[i].stage = "loading"
    /\ globes' = [globes EXCEPT ![i].stage = "building"]
    /\ UNCHANGED <<server, poll, fetch, page, challengesRef, previous, handle>>

LoadFails(i) ==
    /\ globes[i].stage = "loading"
    /\ globes' = [globes EXCEPT ![i].stage = "failed"]
    /\ UNCHANGED <<server, poll, fetch, page, challengesRef, previous, handle>>

\* What the next counts are compared with.
Baseline == IF previous = None THEN challengesRef ELSE previous

handleGlobeReady(i) ==
    /\ globes[i].stage = "building"
    /\ handle' = i
    /\ previous' = Baseline
    /\ globes' = [globes EXCEPT ![i].stage = "ready",
                                ![i].missed = SolvedWithPatterns(Baseline) \ globes[i].patterns]
    /\ UNCHANGED <<server, poll, fetch, page, challengesRef>>

CtfNext ==
    \/ \E t \in Teams : \/ \E row \in [Challenges -> 0 .. MaxTime] : TeamUpdated(t, row)
                        \/ \E at \in 1 .. MaxTime : TeamIsCreated(t, at)
                        \/ TeamIsDeleted(t)
    \/ handleChallenges \/ ListDeployments \/ handleActivityFeed
    \/ TakeChallenges \/ FetchFails \/ TakeFeed \/ RunEffects
    \/ \E i \in DOMAIN globes : LoadEnds(i) \/ LoadFails(i) \/ handleGlobeReady(i)

CtfSpec == CtfInit /\ [][CtfNext]_ctfVars

\* The feed is polled, polls are answered when there is news, answers are taken, and
\* effects run.
CtfFairSpec ==
    /\ CtfSpec
    /\ WF_ctfVars(ListDeployments) /\ WF_ctfVars(handleActivityFeed)
    /\ WF_ctfVars(TakeFeed) /\ WF_ctfVars(RunEffects)

(***************************************************************************)
(* Properties.                                                             *)
(***************************************************************************)

\* The counts and the batch the feed is followed from know the same solves of the
\* challenge.
SameStart(c) == \A t \in Teams : told.start[<<c, t>>] = told.counts[<<c, t>>]

\* When the counts and the batch the feed is followed from were answered from the same
\* solves of a challenge, and no later one was skipped, the page shows no fewer teams
\* than had solved it when the feed was answered.  It shows just as many, and one of the
\* earliest, if besides none of the solves it was told of went or came with another time,
\* nor the last event processed went while one sorted behind it
\* (useActivitySolveProcessor, applySolveEvent).
ShownSolvesAreRight ==
    challenges # None =>
        \A c \in Challenges \ told.skipped :
            LET solvers == Cardinality(Solvers(c, told.feed)) IN
            SameStart(c) =>
                /\ challenges.count[c] >= solvers
                /\ c \notin told.gone =>
                    /\ challenges.count[c] = solvers
                    /\ challenges.first[c] \in IF solvers = 0 THEN {Nobody}
                                               ELSE Earliest(c, told.feed)

\* A globe has every challenge's pattern from its load, or is told of it, and never
\* twice (a second transition would put a second mesh on the country).  The one
\* with the handle lacks none that the page shows, but those solved between the
\* start of its load and its being ready, and those counted without a first solver
\* before (findNewlySolvedChallenges, handleGlobeReady).
GlobeGetsEachSolveOnce ==
    \A i \in DOMAIN globes :
        LET g == globes[i] IN
        /\ \A c \in Challenges : g.given[c] + (IF c \in g.patterns THEN 1 ELSE 0) <= 1
        /\ handle = i /\ challenges = challengesRef =>
            \A c \in SolvedWithPatterns(challenges) :
                c \in g.patterns \cup g.missed \/ g.given[c] > 0

\* The counts come to be those of the server, without a reload, for challenges as
\* above, unless the last update was in the millisecond of one told
\* (handleActivityFeed, useActivityFeed).
CountsCatchUp ==
    <>[](challenges # None /\ update # "missed" =>
            \A c \in Challenges \ (told.skipped \cup told.gone) :
                SameStart(c) => challenges.count[c] = Cardinality(Solvers(c, solvedAt)))
====
