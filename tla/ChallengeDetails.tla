-------------------------- MODULE ChallengeDetails --------------------------
(***************************************************************************)
(* Choosing a challenge and reading who has solved it: on the CTF page, by *)
(* pointing at a country of the globe or at an item of the list, in a      *)
(* panel that goes from one challenge to the next without being unmounted; *)
(* and on a page of its own, whose challenge is named by the location.     *)
(* Both ask for the challenge's solves when it changes.  The page aborts   *)
(* what it asked before, the panel does not.                               *)
(***************************************************************************)
EXTENDS Naturals, Sequences, SequencesExt, FiniteSets

CONSTANTS
    Challenges,
    Keys,        \* what a location may name: the challenges, and others
    Country,     \* Country[c]: the country of a challenge, or Nothing
    Teams,
    Nothing,     \* no challenge, country, data or answer
    Refused,     \* an answer that is none, and no answer for good
    MaxTime,     \* bound: times at which challenges are solved
    MaxUpdates,  \* bound: updates of the teams' deployments
    MaxAway      \* bound: requests of a view that are away at a time

ASSUME DetailsAssumption ==
    /\ Challenges \subseteq Keys
    /\ Nothing \notin Keys
    /\ {MaxTime, MaxUpdates, MaxAway} \subseteq Nat
    /\ IsFiniteSet(Teams)

\* An answer: the challenge's solves, in an order.
Detail == [key : Challenges, solves : Seq([team : Teams, solvedAt : Nat \ {0}])]

ASSUME AnswerAssumption == {Nothing, Refused} \cap Detail = {} /\ Nothing # Refused

VARIABLES
    solvedAt,     \* solvedAt[s]: when s was solved, 0 if the replica knows of no such solve
    updates,      \* how many of the teams' deployments it has heard of
    place,        \* where the browser is: "ctf", "page" or "elsewhere"
    key,          \* the challenge whose details are open
    view,         \* what the details' view shows
    away,         \* its requests, in the order they were sent
    since,        \* history: the solves of key that were known all the time since it was asked for
    overtaken,    \* history: an older answer was taken in after the one for key
    currentHoveredCountry,  \* the country under the pointer, to the globe
    hoveredMeshes,  \* the meshes that were lit for it
    hoveredCountry, \* the country the list's highlight follows
    meshes,       \* meshes of the globe: each country's fill, and the patterns put over it
    lit           \* those that are drawn as hovered

replica == <<solvedAt, updates>>
details == <<key, view, away, since, overtaken>>
hover == <<currentHoveredCountry, hoveredMeshes, hoveredCountry, lit>>
vars == <<replica, place, details, hover, meshes>>

Solves == Challenges \X Teams
Solvers(c) == {t \in Teams : <<c, t>> \in Solves /\ solvedAt[<<c, t>>] # 0}
SolvesOf(c) == {[team |-> t, solvedAt |-> solvedAt[<<c, t>>]] : t \in Solvers(c)}
Known == {s \in Solves : solvedAt[s] # 0}
Countries == {Country[c] : c \in Challenges} \ {Nothing}
Fills == {<<c, "solid">> : c \in Countries}

NoView == [data |-> Nothing, loading |-> FALSE, error |-> FALSE]
Asking == [data |-> Nothing, loading |-> TRUE, error |-> FALSE]

\* latest: no other challenge was asked for since.
Request(k) == [key |-> k, answer |-> Nothing, latest |-> TRUE, aborted |-> FALSE]

Init ==
    /\ solvedAt \in [Solves -> 0 .. MaxTime]
    /\ Cardinality(Known) <= 1
    /\ updates = 0
    /\ place = "elsewhere"
    /\ key = Nothing /\ view = NoView /\ away = <<>>
    /\ since = {} /\ overtaken = FALSE
    /\ currentHoveredCountry = Nothing /\ hoveredMeshes = {} /\ hoveredCountry = Nothing
    /\ meshes = Fills
    /\ lit = {}

(***************************************************************************)
(* The server.                                                             *)
(***************************************************************************)

\* The replica hears of a team's deployment: row[c] is when the team solved c, or 0.
\* Solves come in any order of their times, get other times when they are restored,
\* and go with their team.
TeamUpdated(t, row) ==
    /\ updates < MaxUpdates /\ updates' = updates + 1
    /\ solvedAt' = [s \in Solves |-> IF s[2] = t THEN row[s[1]] ELSE solvedAt[s]]
    /\ UNCHANGED <<place, key, view, away, overtaken, hover, meshes>>
    /\ since' = since \cap SolvesOf(key)'

\* The challenge's solves, the first first; those of one time in any order.
SortedSolves(c) ==
    {solves \in SetToSeqs(SolvesOf(c)) :
        \A i, j \in DOMAIN solves : i < j => solves[i].solvedAt <= solves[j].solvedAt}

handleChallengeDetail(k) ==
    IF k \in Challenges THEN {[key |-> k, solves |-> solves] : solves \in SortedSolves(k)}
    ELSE {Refused}

(***************************************************************************)
(* The view of a challenge's details, in the panel or on its page.         *)
(***************************************************************************)

\* A view that was not there before, and its first request.
Mount(k) ==
    /\ key' = k
    /\ view' = Asking
    /\ away' = <<Request(k)>>
    /\ since' = SolvesOf(k)
    /\ overtaken' = FALSE

\* Requests of a view that is gone go on, and find nothing to set.
Unmount ==
    /\ key' = Nothing
    /\ view' = NoView
    /\ away' = <<>>
    /\ since' = {}
    /\ overtaken' = FALSE

\* Mutant: the page's earlier request goes on.
NotAborted(requests) == [i \in DOMAIN requests |-> [requests[i] EXCEPT !.latest = FALSE]]

\* The cleanup of the page's effect; the panel's has none.
Superseded(requests) ==
    [i \in DOMAIN requests |->
        [requests[i] EXCEPT !.latest = FALSE, !.aborted = (place = "page")]]

\* The view stays, and shows what it has until the answer is there.
Change(k) ==
    /\ Len(away) < MaxAway
    /\ key' = k
    /\ view' = [view EXCEPT !.loading = TRUE, !.error = FALSE]
    /\ away' = Append(Superseded(away), Request(k))
    /\ since' = SolvesOf(k)
    /\ overtaken' = FALSE

Serve(i) ==
    /\ away[i].answer = Nothing /\ ~away[i].aborted
    /\ \E answer \in handleChallengeDetail(away[i].key) :
        away' = [away EXCEPT ![i].answer = answer]
    /\ UNCHANGED <<replica, place, key, view, since, overtaken, hover, meshes>>

FetchFails(i) ==
    /\ away[i].answer = Nothing /\ ~away[i].aborted
    /\ away' = [away EXCEPT ![i].answer = Refused]
    /\ UNCHANGED <<replica, place, key, view, since, overtaken, hover, meshes>>

\* Mutant: the flag is cleared with the data only.
LoadingUntilData(answer) == answer = Refused

\* The finally, after an answer as after an error.
StillLoading(answer) == FALSE

\* An error leaves the data of the challenge before where they are.
TakeAnswer(i) ==
    LET r == away[i] IN
    /\ r.answer # Nothing /\ ~r.aborted
    /\ view' = [data |-> IF r.answer = Refused THEN view.data ELSE r.answer,
                loading |-> StillLoading(r.answer),
                error |-> view.error \/ r.answer = Refused]
    /\ overtaken' = (overtaken \/ (~r.latest /\ \A j \in DOMAIN away : ~away[j].latest))
    /\ away' = RemoveAt(away, i)
    /\ UNCHANGED <<replica, place, key, since, hover, meshes>>

\* Also an aborted request ends in the finally, and clears the flag the next one
\* has set.
AbortedCallEnds(i) ==
    /\ away[i].aborted
    /\ view' = [view EXCEPT !.loading = FALSE]
    /\ away' = RemoveAt(away, i)
    /\ UNCHANGED <<replica, place, key, since, overtaken, hover, meshes>>

\* The page shows that it is loading, or that it failed, or the data; the panel
\* shows the data whatever else it says.
PageShows == IF view.loading THEN Nothing ELSE IF view.error THEN Refused ELSE view.data
PanelShows == view.data
Shown == IF place = "page" THEN PageShows ELSE PanelShows

\* Who is given the "First Solve".
FirstSolve(detail) == detail.solves[1]

(***************************************************************************)
(* Ways from one challenge to the next.                                    *)
(***************************************************************************)

\* The list is there while no challenge is selected.
ListIsThere == place = "ctf" /\ key = Nothing

handleChallengeClick(c) ==
    /\ ListIsThere
    /\ Mount(c)
    /\ UNCHANGED <<replica, place, hover, meshes>>

\* The challenge selected already stays as it is.
handleCountryClick(country) ==
    \E c \in Challenges :
        /\ Country[c] = country /\ c # key
        /\ IF key = Nothing THEN Mount(c) ELSE Change(c)

\* A click on the globe, with the panel open or not; one that ends farther than
\* five pixels from where the pointer went down has turned the globe, and selects
\* nothing.
onClick(country) ==
    /\ place = "ctf"
    /\ handleCountryClick(country)
    /\ UNCHANGED <<replica, place, hover, meshes>>

handleBackFromDetail ==
    /\ place = "ctf" /\ key # Nothing
    /\ Unmount
    /\ UNCHANGED <<replica, place, hover, meshes>>

\* By a link of the activities, of a team's solves, or by its address; within the
\* page by a jump in the browser's history.
OpenChallengePage(k) ==
    /\ place # "ctf" /\ k # key
    /\ place' = "page"
    /\ IF place = "page" THEN Change(k) ELSE Mount(k)
    /\ UNCHANGED <<replica, hover, meshes>>

OpenCtfPage ==
    /\ place # "ctf"
    /\ place' = "ctf"
    /\ Unmount
    /\ UNCHANGED <<replica, hover, meshes>>

\* The globe goes with its page.
Leave ==
    /\ place # "elsewhere"
    /\ place' = "elsewhere"
    /\ Unmount
    /\ currentHoveredCountry' = Nothing /\ hoveredMeshes' = {} /\ hoveredCountry' = Nothing
    /\ lit' = {}
    /\ meshes' = Fills
    /\ UNCHANGED replica

(***************************************************************************)
(* Pointing.                                                               *)
(***************************************************************************)
setHover(country, dark) ==
    /\ currentHoveredCountry' = country
    /\ hoveredMeshes' = {m \in meshes : m[1] = country}
    /\ lit' = dark \cup hoveredMeshes'
    /\ hoveredCountry' = country

clearHover ==
    /\ currentHoveredCountry' = Nothing
    /\ hoveredMeshes' = {}
    /\ lit' = lit \ hoveredMeshes
    /\ hoveredCountry' = Nothing

\* Mutant: from one country to its neighbour, nothing is cleared.
MoveOn(country) == setHover(country, lit)

\* The country before is cleared, then the new one lit.
MoveTo(country) == setHover(country, lit \ hoveredMeshes)

onPointerMove(country) ==
    /\ place = "ctf" /\ country # currentHoveredCountry
    /\ MoveTo(country)
    /\ UNCHANGED <<replica, place, details, meshes>>

\* Items of the list, where those without a country have that of no country.
Highlighted == {c \in Challenges : Country[c] = hoveredCountry}

\* Off the globe, or to where it is turned away.
onPointerLeave ==
    /\ place = "ctf" /\ currentHoveredCountry # Nothing
    /\ clearHover
    /\ UNCHANGED <<replica, place, details, meshes>>

\* A country's pattern is put over its fill, under the pointer or not.
transitionCountryToSolved(country) ==
    /\ place = "ctf" /\ <<country, "pattern">> \notin meshes
    /\ meshes' = meshes \cup {<<country, "pattern">>}
    /\ UNCHANGED <<replica, place, details, hover>>

Next ==
    \/ \E t \in Teams : \E row \in [Challenges -> 0 .. MaxTime] : TeamUpdated(t, row)
    \/ \E i \in DOMAIN away : Serve(i) \/ FetchFails(i) \/ TakeAnswer(i) \/ AbortedCallEnds(i)
    \/ \E c \in Challenges : handleChallengeClick(c)
    \/ \E k \in Keys : OpenChallengePage(k)
    \/ \E country \in Countries : \/ onClick(country) \/ onPointerMove(country)
                                  \/ transitionCountryToSolved(country)
    \/ handleBackFromDetail \/ OpenCtfPage \/ Leave \/ onPointerLeave

Spec == Init /\ [][Next]_vars

\* Requests end, one way or another, and the code after the await runs.
FairSpec ==
    /\ Spec
    /\ WF_vars(\E i \in DOMAIN away : Serve(i))
    /\ WF_vars(\E i \in DOMAIN away : TakeAnswer(i) \/ AbortedCallEnds(i))

(***************************************************************************)
(* Properties.                                                             *)
(***************************************************************************)

\* Once all is answered without an error, the details shown are those of the
\* challenge that is open, with every solve that was there all the time since it was
\* asked for, and the "First Solve" is an earliest of them.  The page owes it to its abort
\* (ChallengeDetailPage.tsx:93); in the panel an older answer may come last and
\* stay (useChallengeDetail.ts:79).
DetailsAreTheOpenOnes ==
    key # Nothing /\ away = <<>> /\ ~view.error /\ (place = "ctf" => ~overtaken) =>
        /\ Shown # Nothing
        /\ Shown.key = key
        /\ since \subseteq ToSet(Shown.solves)
        /\ \A s \in ToSet(Shown.solves) : FirstSolve(Shown).solvedAt <= s.solvedAt

\* A challenge that stays open is not loading for ever (the finally of both
\* requests), whatever was open before.
DetailsArrive ==
    \A k \in Keys : <>[](key = k) => <>[](away = <<>> /\ ~view.loading)

\* The globe lights the country under the pointer and no other, also when a pattern
\* is put on it meanwhile, and of the challenges with a country the list highlights
\* the one of the country that is lit (hoveredMeshes, onCountryHover).
OneCountryIsLit ==
    LET countries == {m[1] : m \in lit} IN
    /\ countries = {currentHoveredCountry} \ {Nothing}
    /\ {c \in Highlighted : Country[c] # Nothing} = {c \in Challenges : Country[c] \in countries}
====
