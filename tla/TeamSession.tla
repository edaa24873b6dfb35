---------------------------- MODULE TeamSession ----------------------------
(***************************************************************************)
(* A team's members at their browsers: the join form, the passcode page    *)
(* and its links, the team's own page, and the menu with its passcode      *)
(* reset and its logout, against the endpoints they call.                  *)
(*                                                                         *)
(* Every call is three steps: the browser sends it with the cookie it      *)
(* holds, a replica serves it, the browser takes the answer in (Set-Cookie *)
(* first, then the code after the await).  Calls overtake each other, and  *)
(* a page may be left while its call is away: the code after the await     *)
(* runs all the same, only its setState calls do nothing any more.         *)
(*                                                                         *)
(* The name a browser shows (activeTeam) and the team its requests count   *)
(* for (the cookie, which scripts cannot read) are two pieces of state     *)
(* that only these calls keep together.                                    *)
(***************************************************************************)
EXTENDS Naturals, FiniteSets, FiniteSetsExt

CONSTANTS
    Members,       \* browsers, one tab each, loaded once
    Teams,         \* names of teams
    Admin,         \* the name "admin"
    NoTeam,        \* null, and the absence of a cookie
    MaxPasscodes,  \* bound: passcodes handed out
    MaxCalls,      \* bound: calls a member has under way, besides that of a join link
    MaxClicks,     \* bound: joins, resets and logouts a member asks for, besides the links' joins
    MaxMishaps     \* bound: calls and patches that fail, teams that are deleted

ASSUME SessionAssumption ==
    /\ NoTeam \notin Teams \cup {Admin}
    /\ Admin \notin Teams
    /\ MaxPasscodes \in Nat \ {0}
    /\ MaxCalls \in Nat
    /\ MaxClicks \in Nat
    /\ MaxMishaps \in Nat

VARIABLES
    held,        \* held[t]: the passcode the deployment of t opens with, 0: no deployment
    issued,      \* passcodes are numbered as they are handed out, whatever team they open
    cookie,      \* cookie[m]: the team m's requests count for
    activeTeam,  \* activeTeam[m]: the name the layout shows
    page,        \* page[m]: what is mounted under the layout
    timer,       \* timer[m]: the passcode of a join link, about to be sent, and its team
    resetting,   \* resetting[m]: the flag of the reset button in the layout's menu
    calls,       \* calls under way
    clicks,      \* clicks[m]: joins, resets and logouts m has asked for
    mishaps,     \* calls and patches that failed, and teams that were deleted
    written,     \* history: written[t]: the passcodes that have opened t
    unpatched,   \* history: passcodes whose patch failed
    troubled,    \* history: members with a call that failed or named no team
    overtaken    \* history: members one of whose answers came after a later login or logout

vars == <<held, issued, cookie, activeTeam, page, timer, resetting, calls, clicks, mishaps,
          written, unpatched, troubled, overtaken>>
server == <<held, issued, written, unpatched>>
history == <<troubled, overtaken>>

Names == Teams \cup {Admin}
Passcodes == 0 .. MaxPasscodes

\* The routes a member moves between.  told is the passcode in the location's
\* state, busy and failed are the flags of the two forms, seen the team that the
\* poll of the status page has named.
Page(at, team, told) ==
    [at |-> at, team |-> team, told |-> told, busy |-> FALSE, failed |-> FALSE, seen |-> NoTeam]

JoinForm == Page("join", NoTeam, 0)
JoiningAt(team) == Page("joining", team, 0)
StatusOf(team, told) == Page("status", team, told)
AdminPage == Page("admin", NoTeam, 0)
Scores == Page("scores", NoTeam, 0)

\* A request as the browser sends it, with its cookie (kept where the server looks
\* at it); mounted: the component that waits for the answer is still there.
Request(m, id, kind, team, code, mounted) ==
    [id |-> id, from |-> m, kind |-> kind, team |-> team, code |-> code,
     cookie |-> IF kind \in {"whoami", "poll", "reset"} THEN cookie[m] ELSE NoTeam,
     mounted |-> mounted, reply |-> "none"]

Of(m) == {c \in calls : c.from = m}

FreeIds(m, kind) ==
    IF Cardinality(Of(m)) < MaxCalls
    THEN (1 .. MaxCalls) \ {c.id : c \in {d \in Of(m) : d.kind = kind}}
    ELSE {}

Plus(m, kind, team, code) ==
    calls \cup {Request(m, Min(FreeIds(m, kind)), kind, team, code, TRUE)}

\* A click that makes a call.
Click(m) == clicks[m] < MaxClicks /\ clicks' = [clicks EXCEPT ![m] = @ + 1]

\* Leaving a page, or closing the menu, unmounts what waits there.
Unmounted(cs, m, kinds) ==
    {IF c.from = m /\ c.kind \in kinds THEN [c EXCEPT !.mounted = FALSE] ELSE c : c \in cs}

\* Navigation.  A route that is mounted already stays, and only its parameters
\* change; otherwise the page is a fresh one, and the poll of the old one, if it
\* was the team's page, is aborted.
GoTo(m, p, cs) ==
    IF p.at = page[m].at
    THEN /\ page' = [page EXCEPT ![m] = [@ EXCEPT !.team = p.team, !.told = p.told]]
         /\ calls' = cs
    ELSE /\ page' = [page EXCEPT ![m] = p]
         /\ calls' = {c \in Unmounted(cs, m, {"join", "passcode"}) :
                        ~(c.from = m /\ c.kind = "poll")}

(***************************************************************************)
(* Loading the app.  Only the bare address sends a browser with a cookie   *)
(* on to its team's page; every other one is served as it is, the page or  *)
(* the join link of another team too, whatever the cookie.                 *)
(***************************************************************************)
LandsOn ==
    {JoinForm, AdminPage, Scores}
        \cup {JoiningAt(team) : team \in Names} \cup {StatusOf(team, 0) : team \in Teams}

\* App asks once, when it is mounted, whose cookie it holds.
WhoAmI(m) == Request(m, 1, "whoami", NoTeam, 0, TRUE)

\* The page of a join link starts with the passcode from the URL's fragment: the
\* one the team has, or any other.
Link(team, code) == [team |-> team, code |-> code]
NoLink == Link(NoTeam, 0)
Fragment(p) ==
    IF p.at = "joining" /\ p.team \in Teams
    THEN {NoLink} \cup {Link(p.team, code) : code \in 1 .. issued}
    ELSE {NoLink}

Init ==
    /\ issued \in 0 .. MaxPasscodes
    /\ held \in [Teams -> 0 .. issued]
    /\ \A code \in 1 .. issued : Cardinality({t \in Teams : held[t] = code}) = 1
    /\ cookie \in [Members -> {t \in Teams : held[t] # 0} \cup {NoTeam}]
    /\ page \in [Members -> LandsOn]
    /\ timer \in {links \in [Members -> UNION {Fragment(p) : p \in LandsOn}] :
                    \A m \in Members : links[m] \in Fragment(page[m])}
    /\ activeTeam = [m \in Members |-> NoTeam]
    /\ resetting = [m \in Members |-> FALSE]
    /\ calls = {WhoAmI(m) : m \in Members}
    /\ clicks = [m \in Members |-> 0]
    /\ mishaps = 0
    /\ written = [t \in Teams |-> {held[t]} \ {0}]
    /\ unpatched = {} /\ troubled = {} /\ overtaken = {}

(***************************************************************************)
(* What a member does.                                                     *)
(***************************************************************************)

\* The join form sends the name alone, and disables its button.
SubmitName(m) ==
    /\ page[m].at = "join" /\ ~page[m].busy /\ FreeIds(m, "join") # {} /\ Click(m)
    /\ page' = [page EXCEPT ![m].busy = TRUE]
    /\ \E team \in Names : calls' = Plus(m, "join", team, 0)
    /\ UNCHANGED <<server, cookie, activeTeam, timer, resetting, mishaps, history>>

\* The passcode page sends the name with a passcode, the right one or 0 for one
\* that opens nothing.
SubmitPasscode(m) ==
    /\ page[m].at = "joining" /\ ~page[m].busy /\ FreeIds(m, "passcode") # {} /\ Click(m)
    /\ page' = [page EXCEPT ![m].busy = TRUE, ![m].failed = FALSE]
    /\ \E code \in {0} \cup {held[t] : t \in Teams \cap {page[m].team}} :
          calls' = Plus(m, "passcode", page[m].team, code)
    /\ UNCHANGED <<server, cookie, activeTeam, timer, resetting, mishaps, history>>

\* A tenth of a second after the page of a join link was opened, wherever the
\* member is by then and whatever was typed: nothing clears the timer, and the
\* link's team is the one joined.
AutoJoin(m) ==
    /\ timer[m] # NoLink
    /\ timer' = [timer EXCEPT ![m] = NoLink]
    /\ LET mounted == page[m].at = "joining" IN
        /\ page' = IF mounted THEN [page EXCEPT ![m].busy = TRUE, ![m].failed = FALSE] ELSE page
        /\ calls' = calls \cup {Request(m, 0, "passcode", timer[m].team, timer[m].code, mounted)}
    /\ UNCHANGED <<server, cookie, activeTeam, resetting, clicks, mishaps, history>>

\* The status page polls for the team of the cookie.  Polls that would name the
\* team its last answer named change nothing, and are left out.
Poll(m) ==
    /\ page[m].at = "status" /\ page[m].seen # cookie[m] /\ FreeIds(m, "poll") # {}
    /\ \A c \in Of(m) : c.kind # "poll"
    /\ calls' = Plus(m, "poll", NoTeam, 0)
    /\ UNCHANGED <<server, cookie, activeTeam, page, timer, resetting, clicks, mishaps, history>>

\* The links of the layout: the logo and the pill lead home, to the form, to the
\* team's page or to the admin's, and another one to the score board.
Home(m) ==
    CASE activeTeam[m] = NoTeam -> JoinForm
      [] activeTeam[m] = Admin  -> AdminPage
      [] OTHER                  -> StatusOf(activeTeam[m], 0)

Visit(m) ==
    /\ \E p \in {Home(m), Scores} : GoTo(m, p, calls)
    /\ UNCHANGED <<server, cookie, activeTeam, timer, resetting, clicks, mishaps, history>>

\* The menu opens and closes at any time; closed, it forgets the flag of its
\* reset button.
CloseMenu(m) ==
    /\ resetting[m]
    /\ resetting' = [resetting EXCEPT ![m] = FALSE]
    /\ calls' = Unmounted(calls, m, {"reset"})
    /\ UNCHANGED <<server, cookie, activeTeam, page, timer, clicks, mishaps, history>>

\* Reset Passcode, confirmed: the answer will be shown on the page of the team
\* whose name was active now.
ResetPasscode(m) ==
    /\ ~resetting[m] /\ activeTeam[m] \in Teams /\ FreeIds(m, "reset") # {} /\ Click(m)
    /\ resetting' = [resetting EXCEPT ![m] = TRUE]
    /\ calls' = Plus(m, "reset", activeTeam[m], 0)
    /\ UNCHANGED <<server, cookie, activeTeam, page, timer, mishaps, history>>

\* Log Out, confirmed: the name goes before the call is made, and with it the
\* two items of the menu.
Logout(m) ==
    /\ activeTeam[m] # NoTeam /\ FreeIds(m, "logout") # {} /\ Click(m)
    /\ activeTeam' = [activeTeam EXCEPT ![m] = NoTeam]
    /\ resetting' = [resetting EXCEPT ![m] = FALSE]
    /\ calls' = Unmounted(Plus(m, "logout", NoTeam, 0), m, {"reset"})
    /\ UNCHANGED <<server, cookie, page, timer, mishaps, history>>

(***************************************************************************)
(* What the server does with a request.                                    *)
(***************************************************************************)
Asked(c, kind) == c \in calls /\ c.kind = kind /\ c.reply = "none"

Reply(c, reply, code) ==
    calls' = (calls \ {c}) \cup {[c EXCEPT !.reply = reply, !.code = code]}

browser == <<cookie, activeTeam, page, timer, resetting, clicks, mishaps, history>>

\* Whose cookie is it: the team's name, if the score board has the team.
TeamStatusMe(c) ==
    /\ Asked(c, "whoami") \/ Asked(c, "poll")
    /\ Reply(c, IF c.cookie = Admin \/ \E t \in Teams : c.cookie = t /\ held[t] # 0
                THEN "name" ELSE "none known", 0)
    /\ UNCHANGED <<server, browser>>

\* The admin signs in with the configured password, which is no member's passcode:
\* the form's empty body is refused, a typed password is right or wrong.
AdminLogin(c) ==
    /\ Asked(c, "join") \/ Asked(c, "passcode")
    /\ c.team = Admin
    /\ \/ Reply(c, "unauthorized", 0)
       \/ c.kind = "passcode" /\ Reply(c, "joined", 0)
    /\ UNCHANGED <<server, browser>>

Write(team, code) ==
    /\ held' = [held EXCEPT ![team] = code]
    /\ written' = [written EXCEPT ![team] = @ \cup {code}]

\* A name without a deployment becomes a team, whatever passcode came along,
\* unless the instances are all taken.
CreateTeam(c) ==
    /\ Asked(c, "join") \/ Asked(c, "passcode")
    /\ c.team \in Teams /\ held[c.team] = 0
    /\ \/ /\ Reply(c, "full", 0)
          /\ UNCHANGED <<held, issued, written>>
       \/ /\ issued < MaxPasscodes
          /\ issued' = issued + 1
          /\ Write(c.team, issued')
          /\ Reply(c, "created", issued')
    /\ UNCHANGED <<unpatched, browser>>

JoinExistingTeam(c) ==
    /\ Asked(c, "join") \/ Asked(c, "passcode")
    /\ c.team \in Teams /\ held[c.team] # 0
    /\ Reply(c, IF c.kind = "passcode" /\ c.code = held[c.team] THEN "joined" ELSE "unauthorized", 0)
    /\ UNCHANGED <<server, browser>>

\* Mutant: the passcode is told and never written.
PatchForgotten(team, code) == UNCHANGED <<held, written, unpatched, mishaps>>

\* The patch of the deployment, whose error is not looked at.
Patch(team, code) ==
    \/ Write(team, code) /\ UNCHANGED <<unpatched, mishaps>>
    \/ /\ mishaps < MaxMishaps
       /\ mishaps' = mishaps + 1
       /\ unpatched' = unpatched \cup {code}
       /\ UNCHANGED <<held, written>>

\* A new passcode is written to the cookie's team and told, whether or not the
\* patch succeeded; without a team, or when hashing fails, there is an error.
HandleResetPasscode(c) ==
    /\ Asked(c, "reset")
    /\ \/ /\ Reply(c, "error", 0)
          /\ UNCHANGED <<server, mishaps>>
       \/ /\ c.cookie \in Teams /\ held[c.cookie] # 0 /\ issued < MaxPasscodes
          /\ issued' = issued + 1
          /\ Reply(c, "reset", issued')
          /\ Patch(c.cookie, issued')
    /\ UNCHANGED <<cookie, activeTeam, page, timer, resetting, clicks, history>>

\* An admin deletes the team, or the cleaner does.
DeleteTeam(team) ==
    /\ held[team] # 0 /\ mishaps < MaxMishaps
    /\ mishaps' = mishaps + 1
    /\ held' = [held EXCEPT ![team] = 0]
    /\ UNCHANGED <<issued, written, unpatched, cookie, activeTeam, page, timer, resetting, calls,
                   clicks, history>>

(***************************************************************************)
(* What a browser does with an answer.                                     *)
(***************************************************************************)
Answered(c, kinds) == c \in calls /\ c.kind \in kinds /\ c.reply # "none"

SetCookie(m, team) == cookie' = [cookie EXCEPT ![m] = team]

\* Mutant: the name waits for the next poll.
SetNoActiveTeam(m, team) == UNCHANGED activeTeam

SetActiveTeam(m, team) == activeTeam' = [activeTeam EXCEPT ![m] = team]

\* The answer to App's own question, however late.
TakeName(c) ==
    /\ Answered(c, {"whoami"})
    /\ calls' = calls \ {c}
    /\ IF c.reply = "name"
       THEN /\ SetActiveTeam(c.from, c.cookie)
            /\ overtaken' = IF c.cookie = cookie[c.from] THEN overtaken ELSE overtaken \cup {c.from}
            /\ UNCHANGED troubled
       ELSE /\ troubled' = IF c.cookie = NoTeam THEN troubled ELSE troubled \cup {c.from}
            /\ UNCHANGED <<activeTeam, overtaken>>
    /\ UNCHANGED <<server, cookie, page, timer, resetting, clicks, mishaps>>

\* The status page reports the name of an answer only when it is another one
\* than the answer before had.
TakePoll(c) ==
    /\ Answered(c, {"poll"})
    /\ calls' = calls \ {c}
    /\ IF c.reply = "name" /\ page[c.from].seen # c.cookie
       THEN /\ page' = [page EXCEPT ![c.from].seen = c.cookie]
            /\ SetActiveTeam(c.from, c.cookie)
            /\ overtaken' = IF c.cookie = cookie[c.from] THEN overtaken ELSE overtaken \cup {c.from}
       ELSE UNCHANGED <<page, activeTeam, overtaken>>
    /\ UNCHANGED <<server, cookie, timer, resetting, clicks, mishaps, troubled>>

\* The join form: to the new team's page with its passcode, to the passcode page,
\* or an error.
TakeJoin(c) ==
    LET m == c.from IN
    /\ Answered(c, {"join"})
    /\ CASE c.reply = "created" ->
              /\ SetCookie(m, c.team)
              /\ SetActiveTeam(m, c.team)
              /\ GoTo(m, StatusOf(c.team, c.code), calls \ {c})
         [] c.reply = "unauthorized" ->
              /\ GoTo(m, JoiningAt(c.team), calls \ {c})
              /\ UNCHANGED <<cookie, activeTeam>>
         [] c.reply = "full" ->
              /\ page' = IF c.mounted THEN [page EXCEPT ![m].busy = FALSE, ![m].failed = TRUE]
                         ELSE page
              /\ calls' = calls \ {c}
              /\ UNCHANGED <<cookie, activeTeam>>
    /\ UNCHANGED <<server, timer, resetting, clicks, mishaps, history>>

\* Mutant: nothing says that joining failed.
PasscodeRefusedSilently(c) ==
    page' = IF c.mounted THEN [page EXCEPT ![c.from].busy = FALSE] ELSE page

PasscodeRefused(c) ==
    page' = IF c.mounted THEN [page EXCEPT ![c.from].busy = FALSE, ![c.from].failed = TRUE] ELSE page

\* The passcode page: to the team's page, without the passcode if the team is a
\* new one, or to the admin's; or it says that it failed.
TakePasscode(c) ==
    LET m == c.from IN
    /\ Answered(c, {"passcode"})
    /\ IF c.reply \in {"created", "joined"}
       THEN /\ SetCookie(m, c.team)
            /\ SetActiveTeam(m, c.team)
            /\ GoTo(m, IF c.team = Admin THEN AdminPage ELSE StatusOf(c.team, 0), calls \ {c})
       ELSE /\ PasscodeRefused(c)
            /\ calls' = calls \ {c}
            /\ UNCHANGED <<cookie, activeTeam>>
    /\ UNCHANGED <<server, timer, resetting, clicks, mishaps, history>>

\* The finally of the reset: its button is enabled, if it is still there.
ResetEnds(c) == resetting' = [resetting EXCEPT ![c.from] = @ /\ ~c.mounted]

\* The new passcode is shown on the page of the team that was active when the
\* button was pressed; any other answer is reported as a failure.
TakeReset(c) ==
    LET m == c.from IN
    /\ Answered(c, {"reset"})
    /\ IF c.reply = "reset"
       THEN /\ resetting' = [resetting EXCEPT ![m] = FALSE]
            /\ GoTo(m, StatusOf(c.team, c.code), Unmounted(calls \ {c}, m, {"reset"}))
       ELSE /\ ResetEnds(c)
            /\ calls' = calls \ {c}
            /\ UNCHANGED page
    /\ UNCHANGED <<server, cookie, activeTeam, timer, clicks, mishaps, history>>

\* The server answers a logout without looking at anything.  The cookie goes,
\* whoever holds it by now, and the way leads to the form.
TakeLogout(c) ==
    LET m == c.from IN
    /\ c.kind = "logout"
    /\ SetCookie(m, NoTeam)
    /\ resetting' = [resetting EXCEPT ![m] = FALSE]
    /\ GoTo(m, JoinForm, Unmounted(calls \ {c}, m, {"reset"}))
    /\ overtaken' = IF activeTeam[m] = NoTeam THEN overtaken ELSE overtaken \cup {m}
    /\ UNCHANGED <<server, activeTeam, timer, clicks, mishaps, troubled>>

\* No answer comes, whether or not the request was served: the join form keeps
\* its button disabled and says that something went wrong, the others offer
\* theirs again.  (A poll that fails is sent again, and changes nothing.)
Fail(c) ==
    LET m == c.from IN
    /\ c \in calls /\ c.kind # "poll" /\ mishaps < MaxMishaps
    /\ mishaps' = mishaps + 1
    /\ calls' = calls \ {c}
    /\ troubled' = troubled \cup {m}
    /\ page' = IF ~c.mounted \/ c.kind \notin {"join", "passcode"} THEN page
               ELSE [page EXCEPT ![m].failed = TRUE, ![m].busy = (c.kind = "join")]
    /\ IF c.kind = "reset" THEN ResetEnds(c) ELSE UNCHANGED resetting
    /\ UNCHANGED <<server, cookie, activeTeam, timer, clicks, overtaken>>

Serve(c) ==
    \/ TeamStatusMe(c) \/ AdminLogin(c) \/ CreateTeam(c) \/ JoinExistingTeam(c)
    \/ HandleResetPasscode(c)

Take(c) ==
    \/ TakeName(c) \/ TakePoll(c) \/ TakeJoin(c) \/ TakePasscode(c) \/ TakeReset(c) \/ TakeLogout(c)

Next ==
    \/ \E m \in Members :
        \/ SubmitName(m) \/ SubmitPasscode(m) \/ AutoJoin(m) \/ Poll(m)
        \/ Visit(m) \/ CloseMenu(m) \/ ResetPasscode(m) \/ Logout(m)
    \/ \E c \in calls : Serve(c) \/ Take(c) \/ Fail(c)
    \/ \E team \in Teams : DeleteTeam(team)

Spec == Init /\ [][Next]_vars

\* The requests with a passcode are served and their answers taken in, and the
\* timer of a link runs.
FairSpec ==
    /\ Spec
    /\ \A m \in Members :
        /\ \A id \in 0 .. MaxCalls :
            WF_vars(\E c \in Of(m) : c.id = id /\ c.kind = "passcode" /\ (Serve(c) \/ Take(c)))
        /\ WF_vars(AutoJoin(m))

(***************************************************************************)
(* Properties.                                                             *)
(***************************************************************************)

\* Type correctness.  At most one poll of a member is away, and only from the
\* team's page: leaving it aborts the poll (the abort in useHttpLongPoll).
TypeOK ==
    /\ issued \in Passcodes /\ held \in [Teams -> 0 .. issued]
    /\ written \in [Teams -> SUBSET (1 .. issued)] /\ unpatched \subseteq 1 .. issued
    /\ mishaps \in 0 .. MaxMishaps
    /\ cookie \in [Members -> Names \cup {NoTeam}]
    /\ activeTeam \in [Members -> Names \cup {NoTeam}]
    /\ timer \in [Members -> {Link(team, code) : team \in Teams \cup {NoTeam}, code \in Passcodes}]
    /\ \A m \in Members :
        /\ page[m].at \in {"join", "joining", "status", "admin", "scores"}
        /\ page[m].team \in Names \cup {NoTeam}
        /\ page[m].told \in 0 .. issued
    /\ \A c \in calls : c.from \in Members
    /\ \A c, d \in calls :
        c.from = d.from /\ c.kind = "poll" /\ d.kind = "poll" => c = d /\ page[c.from].at = "status"

\* A passcode on a team's page (PasscodeDisplayCard: "Share the join link or
\* passcode with your teammates to join this team") has opened the team the page
\* names, and does until another is written: it is never another team's, though a
\* reset is done for the team of the cookie (resetPasscode.go:24) and shown on the
\* page of the team whose name the layout had (Layout.tsx:106).  The exceptions
\* are a passcode whose patch failed, which is told as if it had succeeded
\* (resetPasscode.go:60), and a member one of whose answers came after a later
\* login: a layout that shows another name than the cookie's has no other cause.
ShownPasscodeTookEffect ==
    \A m \in Members :
        LET p == page[m] IN
        p.told # 0 =>
            \/ \E team \in Teams : p.team = team /\ p.told \in written[team]
            \/ p.told \in unpatched
            \/ m \in overtaken

\* While none of a member's calls is away, the name shown is the team of the
\* cookie: who looks logged out is, and nobody acts for another team than the
\* page says.  The exceptions are a call that failed or named no team, and an
\* answer from before the latest login or logout that was taken in after it.
NameIsTheCookies ==
    \A m \in Members :
        Of(m) = {} /\ m \notin troubled \cup overtaken => activeTeam[m] = cookie[m]

\* A join link leads somewhere: its page is left, or says that joining failed.
LinksLeadSomewhere ==
    \A m \in Members :
        timer[m] # NoLink /\ page[m].at = "joining" ~> page[m].at # "joining" \/ page[m].failed

====
