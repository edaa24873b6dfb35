# MultiJuicer in TLA+

MultiJuicer runs one OWASP Juice Shop per team for capture-the-flag events. A Go
service (`src/cmd`, `src/internal`), with any number of replicas and no database of
its own, creates a Kubernetes Deployment per team, proxies players to it, collects
the challenges they solve, and serves a scoreboard to a React client (`src/ui`).
All its durable state is annotations on those Deployments, two ConfigMaps, some
Secrets and one Lease. This directory models the parts of it in which concurrency,
failure or ordering matters, checks them with TLC and proves theorems about them with
the TLA+ proof system.

## 1. Inventory

| Component | State | Operations | Hard behaviour |
|---|---|---|---|
| Solutions webhook, every replica (`routes/private/webhook.go`) | none of its own; annotations `challenges`, `challengesSolved`, `cheatScores` of a team's Deployment | one POST per solve: frozen? already there? append, merge-patch | read-modify-write without a version, on all replicas at once; retries; a patch failure is only logged |
| Background sync, leader (`progresswatchdog`) | job channel, 10 workers with a listed and a fetched progress each | list, fetch, compare, restore (continue code), fetch again, patch | snapshots minutes old; restarts between two steps; ignored restore failures; cancelled contexts |
| Leader election (`leader`, `main.go`) | the Lease | acquire, renew, lose, re-enter after 5 s | old workers unwind while a new leader works |
| Notification and end date (`notification`) | ConfigMap; per-replica cache; waiters | get-or-create and update with resourceVersion, watch, long poll, `IsScoreboardFrozen` | cache is empty until the first read; get-then-watch gap |
| Scoring (`scoring`) | per-replica map of team scores, sorted list, last update | initial list, watch events, long polls for the list and for a team | watch restarts, millisecond time stamps, waiters |
| Team life cycle (`join.go`, `admin*.go`, `cleaner`, `proxy.go`) | Deployment, Service, Secret of a team; last-request annotations; uptime caches | join, delete, restart, periodic cleanup, reset passcode | check-then-create, three creates without rollback, list-then-delete, caches |
| LLM gateway (`llmgateway`) | per-replica counters of tokens not yet written | count a response, flush every interval | flush failures put counts back; conflict retries; two replicas add to the same annotation |
| Reads for the client (`score-board.go`, `teamStatus.go`, `activityFeed.go`, `challenges.go`, `challengeDetail.go`, `notifications.go`) | none | projections, long polls | first-solve and ordering rules |
| Sessions and passcodes (`signutil`, `teamcookie`, `passcode`, `resetPasscode.go`) | signed cookie, bcrypt hash | login, logout, admin, reset | the cookie cannot be read by the page; a reset whose patch fails |
| Client: long polls (`useHttpLongPoll.ts` and the hooks on it) | what was shown, the time it was seen | poll, 200, 204, 404, retry | a stale poll after a team change; waits that time out |
| Client: sessions and pages (`App.tsx`, `Layout.tsx`, `JoinPage`, `JoiningPage`, `TeamStatusPage`) | the name shown; the page; a join link's timer; flags of forms and buttons | join, follow a link, reset, log out, poll | answers that overtake each other; pages left while their call is away |
| Client: admin's page (`AdminPage.tsx`) | the list; a row's flags and dialog | poll every 5 s, delete, restart, reset | polls not waiting for each other; rows that go and come back under a call |
| Client: CTF page (`CtfPage.tsx`, `useChallenges.ts`, `useActivitySolveProcessor.ts`, `useGlobeDataLoader.ts`) | counts and first solvers; time of the last event; globes | fetch counts, apply events, load a globe, tell it of solves | two sources of one count; a load that starts before what it is to show |
| Client: challenge details (`useChallengeDetail.ts`, `ChallengeDetailPage.tsx`, `mouse-interaction.ts`) | open challenge, details, requests away, hovered country | select, fetch, abort, point | a later request overtaken by an earlier one |
| Client: globe (`Globe.tsx`, `lib/globe`) | frame loop, texture cache, queue and running sequence, meshes | render, pause, resume, load textures, animate | two pauses of one loop; textures late or failed; time jumps of a hidden tab |

How they interact: a Juice Shop calls the webhook of any replica; the webhook and the
leader's sync write the same annotations; the scoring of every replica watches those
annotations and wakes long polls of the client; the notification's end date decides in
webhook and sync what may still be recorded; the cleaner and the admin delete the
Deployments under all of them. On the client, one layout holds the name of the team,
its pages hold calls that outlive them, and the CTF page holds counts fed by two
requests and a globe fed by the counts.

What makes each correct, in a line: *webhook and sync*: nothing is credited that was
not solved, nothing twice, nothing after a freeze, nothing is lost for good, and pod
and annotation converge; *scoring*: every replica converges to the annotations, ranks
by score with ties shared, and no long poll misses a change; *life cycle*: a team has
one instance that only its passcode opens, the limit holds, an active team is not
cleaned up; *LLM gateway*: tokens are counted once; *notification*: a change is not lost
to a concurrent one and reaches every poll; *sessions*: the name shown is the cookie's,
and a passcode shown opens the team; *admin's page*: the list catches up and buttons
wait for their calls; *CTF page*: counts equal what was solved, and each globe gets each
solve once; *details*: what is shown is the open challenge's; *globe*: what can be seen
is drawn, every solved country has its turn and the user gets the controls back.

## 2. The modules

| Module | Models | Extends / instantiates |
|---|---|---|
| `ProgressSync` | webhook, background sync, lease, freeze | |
| `Scoreboard` | scoring cache, its watch, long polls and the browser's loop | |
| `TeamLifecycle` | join, admin actions, cleaner, proxy, garbage collection | |
| `TokenLedger` | abstract: what the accounting of LLM tokens promises | |
| `Notification` | the notification's ConfigMap, the replicas' copies, the browser's countdown | |
| `LlmUsage` | counting, flushing, conflicts | `TokenLedger` under a refinement mapping |
| `TeamSession` | a member's browser: join form, links, team page, reset, logout, and the endpoints they call | |
| `AdminConsole` | the admin's list, its rows and buttons, and the endpoints they call | |
| `CtfView` | counts, activity feed, load of the globes | |
| `ChallengeDetails` | panel and page of a challenge's details, selection, pointing | |
| `Globe` | frame loop, textures, animations and meshes | |
| `MC...` | model values, symmetry sets, definitions for the .cfg files | the module of that name |
| `...Proofs` | theorems and their proofs | the module of that name and `TLAPS`; `CtfPageProofs` is for `CtfView` and `Globe`, `PagesProofs` for `AdminConsole` and `ChallengeDetails` |

One step of a model is what the code does between two points at which somebody else
can act: one call to the Kubernetes API, one request to a Juice Shop, one critical
section; on the client, one request sent, served, or taken in, one frame, one run of
effects. Where a handler makes several calls, the handler has a program counter (`pc`)
and what it read stays in its record, so that a stale read stays stale.

### ProgressSync

State: `saved` and `cheats` are the annotations `challenges` and `cheatScores`; `live`,
`up` and `pod` are the Juice Shop's memory, readiness and incarnation. `handler[h]` is a
webhook request between `NewSolutionsWebhookHandler`'s calls, `worker[w]` one of the ten
goroutines of `workOnProgressUpdates`, `jobs` the channel between producer and workers,
`leader` the Lease, `loaded[r]` whether replica *r* has read the notification ConfigMap.
`solved` and `inTime` are history variables.

A progress list is the set of its entries. An entry keeps a stamp beside its key,
because `CompareChallengeStates` compares whole lists before it compares keys: the
webhook writes one time format, each incarnation of a pod another.

| Code | Action |
|---|---|
| `webhook.go` 41-59, 61-96, 98-124 | `ReceiveWebhook`, `ReadDeployment`, `PersistSolution`; any failure: `HandlerFails` |
| `kubernetes.go` `PersistProgress` | operator of the same name, used by webhook and sync |
| `background-sync.go` `createProgressUpdateJobs` | `ListInstances` |
| `workOnProgressUpdates` | `TakeJob`, `FetchProgress`, `Decide`, `ApplyChallengeProgress`, `RefetchProgress`, `PersistCurrent` and their failures |
| `leader.go`, `main.go` | `AcquireLease`, `LoseLease`, `CrashReplica` |
| `notification.go` 282-293 | `IsScoreboardFrozen`, `LoadNotification`, `EventEnds` |

### Scoreboard

State: `deployment` is what the API server has, `queue[r]` the undelivered events of the
watch of replica *r*, `scores[r]` its rows with their positions, `lastUpdate[r]` and each
row's `stamp` the times long polls compare with. `client[c]` is a browser's poll: which
replica it asked, what rows the answer holds, what it has shown and the time it has seen.

An answer is built from the cache's own rows after the mutex is released
(`scoring.go` 330-336), so it is two steps, `Poll` or `WaitEnds` and then `Respond`; a
re-sort in between changes the positions in it (`Repositioned`). `CrashReplica` and
`CloseWatcher` restart the watch with whatever was undelivered lost. Time is in
milliseconds, and any number of updates may carry the same one; `coincided[r]` is history:
what `r` (the board, a team's row) has last updated in the millisecond of an earlier
update of it.

### TeamLifecycle

State: `deployment`, `service` and `secret` of each team, the latter two by the uid of
their owner; `request[q]` is a join between its calls; `sweep` is what the cleaner's
round has still to delete; `upCache` is the proxies' cache and `lookup[p]` a proxied
request whose instance is being looked up, any number of them at a time and for the same
team. A time is taken before the call that carries it, so both keep the time they took:
a deployment's first `lastRequest` that of `BuildDeployment`, a patched one that of
`UpdateLastRequestTimestamp`, and the cache the time at which the patch has come back.
`told[t]`, `used[t]` and `slowest` are history: the instance whose passcode was told, the
last request that went through, and the longest that such a time was on its way.

| Code | Action |
|---|---|
| `join.go` `handleTeamJoin` | `Join`, `CheckLimit`, `BuildDeployment`, `CreateDeployment`, `CreateSecret`, `CreateService`, `AnswerJoin`; `JoinFails` at any of them |
| `cleanup.go` `RunCleanup` | `ListInactive`, `DeleteInactive` |
| `proxy.go` 43-64, 70-98, 130-150 | `PassThrough`, or `IsInstanceUp`, `UpdateLastRequestTimestamp`, `PatchLastRequest`, `ProxyRequest` |
| `adminDeleteInstance.go`, `adminRestartInstance.go` | `AdminDeleteInstance`, `AdminRestartInstance` |
| pods, garbage collection, the clock | `PodReadiness`, `CollectService`, `CollectSecret`, `Tick` |

### LlmUsage and TokenLedger

State: `usage[r]` is the map of `UsageTracker` in replica *r*; `work[r]` is the flush in
progress: the map it took, the team it is at, the attempt and the copy of the deployment
it read. `stale` is the set of replicas whose copy is out of date: what the API server
finds out by comparing resourceVersions. Input and output tokens are treated alike
and are one number here; a deployment's other annotations are told apart by how often
they were patched. `FlushToAnnotations` is `StartFlush` and, for each team in any order,
`updateTeamAnnotations`: `GetDeployment`, then `UpdateDeployment` or `UpdateFails`, with
`Retry` after a conflict and `PutBack` when it gives up.

`TokenLedger` promises that a token, once counted, is in a replica's memory or booked,
never both and never neither. The two exceptions the code makes are actions of the
ledger and so visible: a replica dies (`Forget`), and a booking whose answer is lost is
repeated (`doubts`). The mapping takes the memory to be the map plus what the flush
took from it.

### Notification

State: `configMap` with its resourceVersion; `request[a]` is an admin's request between
`getOrCreateConfigMap` and `saveConfigMap` and what it read; `phase`, `queue`, `cache`
and `lastUpdate` of a replica are its watcher, the events it has still to read, its copy
and the time of it; `browser[b]` is the long poll of a browser and what it was told,
`countdown[b]` what `useCountdown` shows and whether its animation goes on. `agreed` is
history: what the accepted requests amount to. A note is a message (`enabled` is whether
there is one) and an end date; the freeze that goes with the end date is in
`ProgressSync`. `ParseAndUpdate` takes two updates of a replica to be a millisecond
apart: each is an admin's edit. Section 5 says what happens otherwise.

| Code | Action |
|---|---|
| `adminSetNotification.go`, `adminSetClock.go` | `PostNotification`, `SetClock` |
| `notification.go` `getOrCreateConfigMap`, `saveConfigMap` | operators' names in capitals; `Accepted` is the API server's comparison of resourceVersions |
| `watchConfigMap` | `FetchConfigMap`, `StartWatch`, `ReadEvent`, `CloseWatch`; `parseAndUpdateNotification` in each |
| `notifications.go`, `useNotifications.ts`, `useHttpLongPoll.ts` | `Poll`, `WaitEnds`, `TimeOut`, with `Answer` |
| `useCountdown.ts` | `Retarget` when the end date changes, `CountDown` when the animation sees it pass |

### TeamSession

State: `held[t]` is the passcode the deployment of team `t` opens with, of those `issued`
so far; `cookie[m]` and `activeTeam[m]` are the cookie a member's browser holds and the
name its layout shows; `page[m]` is what the router has mounted, with its flags and the
passcode handed over in the location's state; `timer[m]` is a join link's, with the team
and the passcode of that link; `calls` are requests under way with the cookie they were
sent with, the answer once there is one, and whether what waits for it is still mounted.
A browser may begin at any address, another team's page or join link too, whatever its
cookie: only the bare address redirects (`LandsOn`). `clicks` and `mishaps` count what the
bounds limit: what a member asks for, and calls and patches that fail and teams that are
deleted. `written[t]`, `unpatched`, `troubled` and `overtaken` are history: the passcodes
that have opened `t`, and the cases in which the code promises less.

| Code | Action |
|---|---|
| `JoinPage.tsx`, `JoiningPage.tsx` | `SubmitName`, `SubmitPasscode`, `AutoJoin`; `TakeJoin`, `TakePasscode` |
| `useTeamStatus.ts`, `App.tsx` | `Poll`, `TakePoll`; `WhoAmI` in `Init`, `TakeName` |
| `Layout.tsx` | `ResetPasscode`, `TakeReset`, `CloseMenu`, `Logout`, `TakeLogout`, `Visit` |
| `join.go`, `resetPasscode.go`, `teamStatus.go`, `logout.go` | `Serve`: `CreateTeam`, `JoinExistingTeam`, `AdminLogin`, `HandleResetPasscode`, `TeamStatusMe` |
| `adminDeleteInstance.go`; an error, a network's or a replica's | `DeleteTeam`; `Fail` |

### AdminConsole

State: `deployed`, `ready`, `passcode` of the teams; `shown` is the list on the page,
`row[t]` the busy flags of the buttons of a row and the passcode in its dialog, fresh
whenever the team comes onto the list; `polls` are the list's requests, several at a time
(`SendPoll`, `ListInstances`, `TakeList`, `PollFails`), `calls` the buttons' (`Delete`,
`Restart`, `Reset`, `HandleDelete`, `HandleRestart`, `HandleReset`, `CallEnds`,
`CallFails`). `UnmountRows` is part of every action that takes a row off the page.

### CtfView

State: `solvedAt` and `createdAt` are the server's, the rows of a replica and the creation
times of the deployments. `TeamUpdated` replaces a team's row by any other: solves come,
get other times when they are restored, and go, all of them when the team is deleted;
`TeamIsCreated` and `TeamIsDeleted` are the deployments themselves, of which the replica
hears later. `update` says whether a poll of the feed that waits has been given the last
change, is about to, or will miss it until the next. `listed` is what
`handleActivityFeed` reads before it waits, `fetch` and `feed` the two answers on their
way; `challenges`, `last` and `applied` are the page's counts, the time of the newest
event and the solves applied; `challengesRef` and `previous` what its effects compare
with; `globes` the loads of a globe, with the patterns they began with and how often each
country was handed over. `TakeFeed` is `useActivitySolveProcessor` with `applySolveEvent`
for each event of the batch it comes to (`Newer`): the loop stops at the first event that
is not later than `last`, *as texts*, and a text without trailing zeros sorts behind those
that go on (`SortsAfter`, with `Units` what the last digits stand for). `RunEffects` is
everything a render sets off: another load and the comparison that tells the globe.

`told` is history: the solves behind the counts (`counts`), behind the batch the feed is
followed from (`start`) and behind the newest answer (`feed`); `skipped` the challenges of
which a solve was told and not applied, `gone` those of which a solve went or got another
time, or which a batch may have told again because the newest event before it was gone.

### ChallengeDetails

State: `solvedAt` is the replica's, changed by `TeamUpdated` as in `CtfView`; `key` is
the open challenge, `place` whether it is open in the panel of the CTF page or on a page
of its own; `since` is history: the solves that were there all the time since it was
asked for; `view` is the hook's or page's data, loading and error; `away` its requests in
the order they were sent. `Mount` and `Change` are what a new key does to a view that was
not there, or was; `Superseded` is the effect's cleanup, which aborts on the page and not
in the panel; `AbortedCallEnds` is the `finally` of a request that was aborted.
`onPointerMove`, `setHover` and `clearHover` follow `mouse-interaction.ts`: the meshes
lit are remembered when the pointer comes, and `transitionCountryToSolved` may add one
meanwhile.

### Globe

State: `texture` is the cache of files, `mesh[c]` what a country's fill looks like,
`waiting` the transitions that await a texture; `queue` and `sequence` are the
`GlobeAnimator`'s, a sequence being its elapsed time and when its phases began (`Animate`
is one `update`); `running`, `latest` and `others` are the loop: its flag, whether the
frame whose id is kept is still to come, and how many others are. `seen` and `context`
are what the browser may take away. Times are in half seconds; a frame comes `MaxStep` or
less after the one before, as `requestAnimationFrame` owes nobody a rate.

| Code | Action |
|---|---|
| `Globe.tsx` 99-176, 349-369 | `Init`, `AskForTexture`, `createRenderObjects`, `GlobeIsReady` |
| `Globe.tsx` 147-164, 457-470 | `handleContextLost`, `handleContextRestored`, `handleVisibilityChange` |
| `Globe.tsx` 379-450 | `render`, with `Rest` or `Animate`; `SkipFrame` |
| `solve-sequence.ts` and its parts | `Phases`, `Over`, `CameraFocus`, `PatternReveal`, `CountryHighlight` |
| `globe-renderer.ts` 161-219, `texture-cache.ts` | `transitionCountryToSolved`, `loadTexture`, `TextureLoads` |
| `Globe.tsx` 260-347 | `focusAndHighlightCountries` |

## 3. The runs

| Run | Instance | Shows |
|---|---|---|
| `sync_races` | 2 teams, 1 challenge, 1 replica, 1 request, 2 workers, freeze, cheats, 1 restart | nothing unearned, frozen scores stay, the cheat log survives the sync |
| `sync_converges` | 1 team, 2 challenges, 1 request, 1 worker, 1 restart, 1 failure or crash | no challenge is recorded twice; annotation and pod agree in the end; pods are restored also when frozen; a solve is dropped only by an overlap or a restore |
| `scores` | 3 teams, 1 challenge, 1 replica, 1 client, top 2, 3 edits or first deployments, 1 failure, updates of the same millisecond | shared positions, current rows after any watch restart, no update between two polls, a browser comes to see what is deployed, at its place |
| `lifecycle_joins` | 3 teams, 2 joins, cap 2, 4 creations, 1 failure | the cap is exceeded by no more than the overlap; a welcomed team is served |
| `lifecycle_sweeps` | 1 team, 2 replicas, 2 lookups and 1 join at a time, 2 creations, time 1..7, cache 2, inactivity 4 | the cleaner picks only teams idle for long enough, up to the cache's time and twice the slowest call |
| `llm_flush` | 2 teams, 2 replicas, 3 tokens, 3 tries, 2 patches, 2 creations, 1 failure, 1 lost answer | the ledger is kept, annotations survive, tokens get booked |
| `notification_reaches` | 1 replica, 1 browser, 2 admins, 1 message, time 1..2, 2 edits, 2 failures | nobody's edit is undone, replicas never go back, message, end date and the end of the event reach the browser |
| `session_names` | 1 member, 2 teams, 3 passcodes, 2 calls at a time, 2 clicks, 1 failure or deletion | a shown passcode has opened the team of the page, the name is the cookie's, a join link leads somewhere |
| `admin_list` | 1 team, 2 polls and 2 calls at a time, 2 passcodes | the list catches up, buttons wait for their own call, a dialog's passcode opens the team |
| `ctf_counts` | 2 challenges with a country each, 2 teams, feed of 2, time 1..3 with texts of 2 units, 1 solve at first, 2 changes of rows or teams, of one challenge at a time | counts are never below the feed's unless a solve was skipped, and equal them if none went or was restored either, each globe gets each solve once, counts catch up |
| `globe_animates` | 3 countries (1 without a centre), 2 textures, frames up to 2 s apart, 2 lost contexts | a visible globe is drawn, every pattern has its turn, the globe comes to rest |
| `details` | 2 challenges, 1 key of none, 2 teams, time 1..2, 1 solve at first, 1 change of a team's row, 2 requests at a time | details settle on the open challenge, arrive, and one country is lit |

*Why the bounds are enough.* Each run has the actors its hazards need and one more step
than the shortest way to them: two sync jobs for different teams (lists mixed up), a
webhook beside a job beside a restart, a third team so that a shared position is followed
by a skipped one, one creation more than names (leftovers of a deleted instance), three
conflicts in a row (two patches and the other replica's write, so that the flush gives
up), a feed of fewer events than there can be, so that one pushes the oldest out, two
changes of rows, so that a solve comes and goes again, three times of which one has a
shorter text, two lookups of one team on any replica, so that the one whose time is older
patches last, a second team for the link, the page or the cookie that is not the first's,
frames far enough apart that several phases of a sequence fall into one, two losses of
the context so that its restoration comes before and after that of the tab. One team is
enough for the cleaner, as teams do not meet in it. One member's two calls can overtake
each other and reset the passcode the other relies on, so a second member adds nothing
but interleavings to the session's run; its theorems are for any number. Every bound is a
CONSTANT guarding the action that uses it up; it stops the environment (players, edits,
failures), never the code. Symmetry is used in the runs without liveness only. For the
theorems of section 4 the bounds do not matter.

*Fairness.* `ProgressSync`: a goroutine or request that has a next step takes it, the
producer's loop lists again, a free lease is acquired, a pod becomes ready, a
notification watcher reads; nothing is assumed of players, failures, restarts, or the
delivery of webhooks. `Scoreboard`: the watch loop and the browser's poll loop go on;
edits and failures owe nothing. `LlmUsage`: the flusher's ticker goes on. In all three,
weak fairness is enough. `Notification`: the watch loop, the browser's poll loop and its
animation go on; polling needs strong fairness for each replica, because which replica a
poll reaches is the Service's choice and every one is reached again and again (with the
chart's default of one replica this is no more than the poll loop's going on). Weak
fairness is enough elsewhere, as the code only ever waits for a timer or an answer; calls
that never answer are not modelled (the code sets no time limit, section 6). Failures
being bounded means that they stop: that is the premise "in the end" rests on.
`TeamLifecycle` has no liveness property. `TeamSession`: a request with a passcode is
served and its answer taken in, and a link's timer fires. `AdminConsole`: the interval
fires, each poll's slot is used again and again; that the list is read needs strong
fairness, as a poll that fails instead disables the reading: it says that not every poll
fails for ever. `CtfView`: the feed's poll is answered and its answer taken, and effects
run (deployments are listed by each poll, and one that waits in vain is followed by
another; an answer is owed only when there is news); the counts' one request may fail.
`Globe`: frames come, with the clock going on between them, while the tab is visible, and
a transition whose texture is there ends; textures need never come. `ChallengeDetails`:
requests end and their answers are taken in.

Every property was tried against a changed model (PROJECT.json `mutants`): the mutants
stand beside the definition they would replace, marked as such, and are not used by
`Next`.

## 4. The theorems

All are for every value of the constants that satisfies the named ASSUMEs (finite or
infinite sets of teams, challenges, replicas and workers, any bounds; `TeamLifecycle` and
`CtfView` need finite sets to count, `Scoreboard` finite sets to sort and to sum up).
`Init`, `Next` and the invariants of a theorem's proof are those of its module; where one
module proves about two, one of the two names them after itself (`ConsoleSpec`, `CtfSpec`).

* `ProgressSyncProofs`
  * `TypeCorrect`, from `TypeInv`: `TypeOK` and that a busy request or worker has a team.
  * `SolvesAreEarned`. Inductive invariant `EarnedInv`: `Provenance` says the same of
    everything that may still reach an annotation or pod: webhooks under way, what
    requests and workers have read, queued jobs. `OnlyEarnedSolves` alone is not inductive.
  * `CreditedOnce`. `NoDuplicates`: pods' lists and workers' fetches hold no key twice,
    and a request past its check does not have the key in what it read.
  * `DropsOnlyByOverlap`, an action property. `StoreKeepsLast`: a worker about to
    store has fetched at least what was listed.
  * `CheatsKept`, an action property: only requests write the cheat log.
  * `LateSolvesStayOut`. `FreezeHolds`, of teams whose pod has not restarted (`KeptOut`):
    annotation, requests and jobs are of what the pod held before the end; hence a worker
    finds nothing to restore to such a pod, and what it stores it fetched before the end,
    or it sees the freeze when it decides.
* `ScoreboardProofs`
  * `TypeCorrect`. `TypeInv` contains that every cache is ranked (`Ranked`); the proofs
    below need it to know that an order and positions are there at all.
  * `PositionsHold`. Scores are sums over sets and positions are counted along the sorted
    list, both recursive functions. That they have values is shown by a least
    counterexample (`LeastExists`, from the well-foundedness of finite sets): `SumExists`
    for any finite set of solves, `PositionsExist` for the places of an order. An order
    exists because `RanksBefore` is total (`RanksAreTotal`, `OrderExists`), and a place's
    position is one more than the number of teams with more points (`PositionIsRank`).
  * `EventsAreUpdates`: the check for unchanged scores compares a row whose position is
    never 0 with one whose position is 0, so it never holds, and no event is skipped.
  * `RowsAreCurrent`. `CurrentInv`: the last event about a team that a watch has still to
    tell, or its row when there is none, is its deployment.
  * `PollsMissNothing`, for any number of replicas and any times of their updates; only
    what has last changed in the millisecond of an earlier change of it (`coincided`) may
    be missed, and that is so in the code (section 5). `ClientInv`: the rows an answer has
    taken from the cache are as in the cache, also after a re-sort has written to them.
    `PollInv`: an answer, and then a view, of a replica whose time is no older than that
    replica's last update shows the board or the team's row as it is, unless it coincided.
* `TeamLifecycleProofs`
  * `TypeCorrect`.
  * `CapHolds`. `CapInv` counts the joins past the check together with the instances.
  * `WelcomedTeamsAreServed`. `ServedInv`: uids are given out in order and only once,
    and a join past a step owns what that step made, as long as its instance exists.
  * `OnlyIdleTeamsAreSwept`, whatever the calls take. `IdleInv`: no time has been on its way
    for longer than `slowest`; so an annotation is at most `slowest` older than a lookup
    that has been answered, a cache entry at most twice `slowest` newer than the annotation,
    and the last request less than `CacheTime` newer than that (`Remembered`). Twice,
    because the cache is written after the patch has returned and another patch, that took
    its time earlier, may still replace the annotation.
* `LlmUsageProofs`
  * `TypeCorrect`.
  * `AnnotationsSurvive`. `CopyInv`: a copy not known to be stale equals the object.
  * `LedgerKept`: `LlmUsage` implements `TokenLedger`. Each flush step moves tokens
    within a replica's memory, or books them; `CopyInv` makes the booking add to what
    is there and shows that something is booked.

* `NotificationProofs`
  * `TypeCorrect`.
  * `EditsStand`. `EditsInv`: a copy read under a resourceVersion is what that version
    is, as versions are given out once; only then does comparing versions protect the
    other half of the note.
  * `WatchersCurrent`. `WatchInv`: the last thing an open watch has still to tell, or
    the copy when there is nothing, is the ConfigMap.
  * `NeverBack`, an action property. `OrderInv`: a replica's copy and its events come in
    the order of their versions, none newer than the ConfigMap.
* `TeamSessionProofs`
  * `TypeCorrect`: also that a member has one poll away at most, and only from the
    team's page.
  * `ShownPasscodesOpen`, for any number of teams, pages and links that are not the
    cookie's included. `ShownInv`: a passcode in an answer or in the location's state has
    opened the team on whose page it is or will be shown (`CodesOK`, `ToldOK`), because a
    reset is sent for the name the layout shows and done for the cookie, and these are the
    same or there is no name (`FollowsOK`) but for members whose answers overtook a login.
  * `NamesAreTheCookies`. `NameInv`: between the name and the cookie stand only answers that
    will set them right: App's first question, asked with the cookie still held, and a
    logout, which takes the name at once and the cookie with its answer.
* `PagesProofs`, of `AdminConsole`:
  * `TypeCorrect`.
  * `ButtonsWait`. `ButtonsOK` adds that two calls a button could mistake for each other
    are not both mounted: `UnmountRows` disowns the first before the row is there again.
  * `DialogsTellTheTruth`. `CallOK`: an answer that carries a passcode carries one that
    was written before; passcodes count upwards.
* `PagesProofs`, of `ChallengeDetails`:
  * `OneIsLit`. `HoverInv`: the meshes remembered are among those lit, and those lit
    belong to the country under the pointer; hence clearing what was remembered is enough
    although a pattern may be put on meanwhile.
  * `DetailsMatch`. `AwayOK`: at most one request is the latest, and on the page all
    others are aborted; `DataOK`: once the latest has been taken in without
    an error, the data is its answer, or an older request came after it. `AnswersAreTrue`:
    an order of the solves by time begins with an earliest, and names every solve there
    was all the time since the question, whatever else came, went or was restored.
* `CtfPageProofs`, of `CtfView`:
  * `ShownAreRight` and, an action property, `CountsNeverFall`, for any changes of any
    rows. `CountsInv` says of each set of counts which solves it is made of: the answer's
    of those the server knew (`FetchOK`), the page's of those it was fetched with and those
    applied since (`Counted`, `ShownOK`). Nothing the feed has told of is newer than `last`
    (`ToldOK`), and the first event of a batch is the newest there is (`FeedOK`), so that a
    solve is left out only if it is `skipped`, and counted twice only if one is `gone`.
  * `SolvesReachGlobes`. `ViewInv`: the effects' copies lag behind counts that only grow
    (`RefsOK`, from `CountsNeverFall`), and a globe has for each challenge its pattern from
    the load, or the word that it was solved, once (`GlobeOK`).
* `CtfPageProofs`, of `Globe`:
  * `VisibleGlobeIsDrawn`, from the flags of the loop alone (`LoopInv`).
  * `NoCountryForgotten`. `ShowsInv` follows each country: fresh until its one turn
    (`OneTurn`), as it was while its texture is awaited (`WaitingOK`), and in the phase its
    sequence knows of while it runs (`StoryOK`). A sequence that glows has had its pattern
    spread, because spreading began no later and takes no longer (`RevealTime <=
    HighlightTime`); one that gives up has no pattern at all, because with one it would glow
    (`HighlightStart <= GiveUpAfter`). These relations of the constants are the ASSUMEs the
    theorem stands on; the code has them as numbers.

*Only model-checked:* the liveness properties (`Converges`, `PodsAreRestored`,
`ClientsCatchUp`, `FlushedInTheEnd`, `BrowsersCatchUp`, `LinksLeadSomewhere`,
`ListCatchesUp`, `CountsCatchUp`, `ComesToRest`, `DetailsArrive`), which need fairness and
ENABLED. Every invariant and action property of the runs is a theorem, and so is the
refinement of `TokenLedger`. `TypeOK` of `TeamSession` and of `AdminConsole`
is proved and in no run.

## 5. Where the code and its words differ

The models do what the code does, and the properties say what of the words remains
true. What does not:

* A restore that failed is taken for done; the empty pod's progress then replaces the
  saved one (`background-sync.go` 168), where `src/README.md` 14 promises "backup and
  auto apply challenge progress in case of Juice Shop container restarts" and
  `compare-progress.go` 11 "The last continue code should be applied to recover lost
  challenges". Hence `Rewritten` in `SolvesDropOnlyByOverlap`.
* The freeze is looked up once, before the restore; a fetch after the end of the event is
  still recorded (`background-sync.go` 162, against 147: "we never record any newly
  discovered solves into the persisted progress, keeping the final scores locked in").
  Hence `FrozenScoresStay` speaks of teams whose pod has never restarted.
* A team deleted while no watch was open stays on the board (`scoring.go` 171, against
  `src/ARCHITECTURE.md` 156: "The scoring service calculates scores by querying all team
  deployments"). Hence `DeployedTeamsAreCurrent` is about teams that are deployed.
* `maxInstances: -1` turns every new team away, and with N the last allowed instance is
  refused (`join.go` 134, against `values.yaml` 94: "Set to -1 to remove the max Juice Shop
  instance cap").
* `Globe.tsx` 97, "runs ONCE", and `useGlobeDataLoader.ts` 59, "Runs only once": counts that
  change while the geometry loads start a second load, and a second globe.
* `solve-sequence.ts` 55, "Start camera animation on first frame": from a second and a half
  on it is started again with every frame, and puts the camera back.

Seen while modelling, and the reason why some properties are stated as weakly as they
are:

* The check for unchanged scores compares a position not computed yet, so each event of a
  deployment counts as an update and wakes all polls (`scoring.go` 194; theorem
  `EventsAreUpdates`).
* Two webhooks of a team that overlap lose one solve until the next sync
  (`webhook.go` 118); hence `SolvesDropOnlyByOverlap` and `Converges` and not more.
* A replica that has just started takes the scoreboard to be open until it has read the
  ConfigMap (`notification.go` 289); hence `Prepared` in `FrozenScoresStay`.
* A poll answered between two updates of the same millisecond misses the second
  until the next one (`scoring.go` 103, 203; the same goes for two edits of the
  notification, which its model takes to be further apart); hence `coincided` in `NoMissedUpdate` and
  `ClientsCatchUp`. Times of different replicas are compared with each other when a
  browser's polls are balanced over them, so that the news of one may be older than what
  another has told of; hence `ClientsCatchUp` is about the client of a single replica.
  `Scoreboard` takes the replicas to share a clock that is not set back, a replica to take
  more than a millisecond to be replaced, and the two readings of the clock for one update
  (that of the row and that of the cache) to be one.
* A notification ConfigMap that is deleted between the fetch and the watch stays in the
  replica's copy until the next watch (`notification.go` 113); nothing in MultiJuicer
  deletes it, and `WatchersAreCurrent` and `BrowsersCatchUp` speak of one that is there.
* Re-sorting gives the other teams new positions without a new time, so the status
  page of a team keeps its old position until something of its own changes; hence
  `ClientsCatchUp` asks for the right place on the board only.
* The context of `main.go` 39 is never cancelled, so the "final flush on shutdown" of
  `usage.go` 124 does not happen: what was counted since the last flush goes down with the
  replica, which is why `Crash` stands for the shutdown as well.
* Tokens put back for a deleted team are booked on the next team of that name.
* A join that fails after it created the deployment leaves a name whose passcode nobody
  was told (`join.go` 171).
* The cleaner deletes by name what its list found; a team that came back in between
  goes too (`cleanup.go` 85). `ListInactive` takes the list and the time it is compared
  with in one step; in the code the time comes a little before the list (`cleanup.go` 37),
  which can only make it pick less.
* The time of a request is taken before it is patched in, and the cache's after
  (`proxy.go` 133, 144, 56): a patch that is late puts an older time back over a newer one,
  and the cache hides requests until ten seconds after the patch has come back. Hence
  twice the slowest call in `SweptTeamsWereIdle`; and failed patches, which are only
  logged and still fill the cache, are its premise.

On the client:

* The join form stays disabled after an answer that cannot be read and after a network
  error (`JoinPage.tsx` 86).
* Logging out clears the name before the call is made, and keeps it cleared when the call
  fails (`Layout.tsx` 167); hence `troubled` and `overtaken` in `NameIsTheCookies`.
* A join link to a team that was deleted creates it anew, and the passcode of the new
  instance is shown to nobody (`JoiningPage.tsx` 36-44).
* A reset is told although its patch failed (`resetPasscode.go` 60); hence `unpatched`.
* A reset is done for the team of the cookie (`resetPasscode.go` 24), and its passcode
  shown on the page of the name the layout had when the button was pressed (`Layout.tsx`
  106). After an answer that a later login overtook the two differ, and a passcode is
  shown on the page of a team it does not open; hence `overtaken` in
  `ShownPasscodeTookEffect`. The passcode on a page may also have been replaced since, by
  another member's reset. The models have one tab to a browser, and do not keep the
  location's state over a reload.
* The counts and the feed's first batch are two requests: a solve between them is counted
  twice or never (`useActivitySolveProcessor.ts` 12, 30); hence `SameStart` in
  `ShownSolvesAreRight`. Events that come before the counts are lost (`useChallenges.ts`
  70), and so is a first solve that follows a feed without events, which is not taken for
  the first batch.
* Times are compared as JSON texts, with trailing zeros dropped
  (`useActivitySolveProcessor.ts` 43): `48.211Z` is not after `48Z`, so that solves with the
  time of the last one, an earlier one, or a text that sorts before its, are skipped; hence
  `skipped`. Creation times have whole seconds and are taken to be in UTC, as the API
  server writes them.
* Counts are only ever added to (`useChallenges.ts` 63-82): when a team is deleted, or a
  solve is dropped by an overlap, the page's count stays too high until it is reloaded; a
  solve restored with a later time is told again, and counted again unless it was the feed
  it had been counted from; and when the newest event processed is gone, the loop may go
  on to events it has seen. Hence `gone`, and only "no fewer" for the challenges in it.
* The feed lists the deployments before it waits and reads the scores after
  (`activityFeed.go`), so a creation may come with a later batch than a solve that is
  newer; and a change in the millisecond of the last one told waits for the next; hence
  `update # "missed"` in `CountsCatchUp`.
* A challenge that was counted without a first solver is not new when it gets one, and the
  globe is not told of it (`useGlobeDataLoader.ts`, `CtfPage.tsx` 80); hence the second
  kind of `missed`.
* Solves between the start of a globe's load and its being ready never get their pattern
  (`CtfPage.tsx` 80); hence `missed` in `GlobeGetsEachSolveOnce`.
* A texture that comes after its sequence gave up, or a tab hidden in the first moments of
  one, leaves the country's fill hidden under a pattern that never spreads
  (`solve-sequence.ts` 143, `globe-renderer.ts` 194); hence `late` in `EveryPatternShows`.
  A texture that failed is never asked for again (`texture-cache.ts` 29).
* A tab that was hidden while its context was lost, or a page opened in the background,
  may end with two loops of frames (`others`), each drawing.
* In the panel of details an older answer may come last and stay, and after an error the
  data of the challenge before are shown under the new one (`useChallengeDetail.ts` 79-83);
  hence `overtaken` and `view.error` in `DetailsAreTheOpenOnes`.
  On the page an aborted request clears the loading flag of the next, so for a moment the
  old challenge is shown (`ChallengeDetailPage.tsx` 85). Later solves do not refresh
  details that are open, nor are solves that went taken out of them.
* While no country is pointed at, the challenges without a country are highlighted, as
  nothing equals nothing (`ChallengesList.tsx` 45).

## 6. What is not modelled

Listed with reasons in PROJECT.json `components`. In short: signatures and bcrypt are
sequential and their libraries' business; of the client, what is only drawn (geometry,
shaders and materials of the globe, the chart of cheat scores, the panel of live
activity, guides, translations) and the admins' forms for message and end date, which are
the requests of `Notification`; what is left to be released when a globe is left behind
by a second one (the cleanup returned by the asynchronous `init` is not used, `Globe.tsx`
473); metrics, static files, health checks and the Helm chart are configuration or pure
output. The lease appears in `ProgressSync` as who may run the sync; what an old leader
still does after losing it is modelled, the timing of the election is not. Two replicas
are proved about but not model-checked in `Notification`. Kubernetes (API server, garbage
collector, pod readiness) and the Juice Shops are modelled from how the code uses them.
Calls that neither answer nor fail are left out: the fetch of progress has no time limit,
and ten of them stop the sync. Data races of the Go runtime (the shared map of scores,
the proxy's cache read without its mutex at `proxy.go` 72, the shared label map of
`join.go` 331) are not states of these models.

## 7. What is left

1. `ProgressSync` with deletion and re-creation of teams, as in `TeamLifecycle`: a job
   listed for a deleted team; the freeze taken from `Notification`'s copies.
2. Clocks of two replicas that differ in `Scoreboard`, and two replicas in
   `Notification`'s liveness run; two webhooks at a time in `ProgressSync`'s runs (its
   theorems are for any number); ranking checked against the reference definition
   over all small boards.
3. `CtfView` and `Globe` composed, the globe's handle being `focusAndHighlightCountries`;
   in `CtfView`'s run rows that change in several challenges at once, which only the
   theorems cover, and batches that React applies together.
