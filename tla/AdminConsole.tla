---------------------------- MODULE AdminConsole ----------------------------
(***************************************************************************)
(* The admin's page: a list of the teams that is polled every five seconds *)
(* whether or not the poll before has been answered, and for every team on *)
(* it a row with buttons to delete it, to restart it and to reset its      *)
(* passcode.  A row's flags live as long as the team stays on the list.    *)
(***************************************************************************)
EXTENDS Naturals, FiniteSets

CONSTANTS
    Instances,    \* the teams that may have one
    Polls,        \* bound: the polls that may be away at a time
    Idle, Asked,  \* a poll that is not away, and one without its answer
    MaxCalls,     \* bound: the buttons' calls that may be away at a time
    MaxPasscodes  \* bound: passcodes a team is given

ASSUME ConsoleAssumption ==
    /\ MaxPasscodes \in Nat \ {0}
    /\ MaxCalls \in Nat
    /\ Idle # Asked

VARIABLES
    deployed,   \* teams that have a deployment
    ready,      \* those of them whose pod is ready
    passcode,   \* passcode[t]: the latest passcode written for t, they count upwards
    mounted,    \* the page is open
    shown,      \* the list on the page
    row,        \* row[t]: the flags of t's row, and the passcode in its dialog
    polls,      \* polls[p]: a poll that is away, and the list that answers it
    calls       \* calls of the buttons that are away

cluster == <<deployed, ready, passcode>>
consoleVars == <<deployed, ready, passcode, mounted, shown, row, polls, calls>>

Lists == {l \in [deployed : SUBSET Instances, ready : SUBSET Instances] : l.ready \subseteq l.deployed}
NoTeams == [deployed |-> {}, ready |-> {}]

\* What the endpoint would answer now.
Current == [deployed |-> deployed, ready |-> ready]

\* The flags of a team's buttons and the passcode its dialog shows, 0 for none.
Row == [busy : SUBSET {"delete", "restart", "reset"}, dialog : 0 .. MaxPasscodes]
FreshRow == [busy |-> {}, dialog |-> 0]

ConsoleInit ==
    /\ deployed \in SUBSET Instances
    /\ ready = deployed
    /\ passcode = [t \in Instances |-> IF t \in deployed THEN 1 ELSE 0]
    /\ mounted = FALSE
    /\ shown = NoTeams
    /\ row = [t \in Instances |-> FreshRow]
    /\ polls = [p \in Polls |-> Idle]
    /\ calls = {}

(***************************************************************************)
(* The list.                                                               *)
(***************************************************************************)

\* A row is unmounted with its team, or with the page: the calls of its buttons
\* go on, and find nothing to set when they end.  Two that ask the same for
\* nobody count as one.
UnmountRows(teams) ==
    /\ row' = [t \in Instances |-> IF t \in teams THEN FreshRow ELSE row[t]]
    /\ calls' = {IF c.team \in teams THEN [c EXCEPT !.mounted = FALSE] ELSE c : c \in calls}

\* The page polls at once, and every five seconds from then on.
OpenPage ==
    /\ ~mounted
    /\ mounted' = TRUE
    /\ shown' = NoTeams
    /\ \E p \in Polls : polls' = [polls EXCEPT ![p] = Asked]
    /\ UNCHANGED <<cluster, row, calls>>

LeavePage ==
    /\ mounted
    /\ mounted' = FALSE
    /\ shown' = NoTeams
    /\ polls' = [p \in Polls |-> Idle]
    /\ UnmountRows(Instances)
    /\ UNCHANGED cluster

SendPoll ==
    /\ mounted
    /\ \E p \in Polls : polls[p] = Idle /\ polls' = [polls EXCEPT ![p] = Asked]
    /\ UNCHANGED <<cluster, mounted, shown, row, calls>>

ListInstances(p) ==
    /\ polls[p] = Asked
    /\ polls' = [polls EXCEPT ![p] = Current]
    /\ UNCHANGED <<cluster, mounted, shown, row, calls>>

\* Mutant: the list is only read once.
TakeFirstList(p) ==
    /\ polls[p] \notin {Idle, Asked}
    /\ shown' = IF shown = NoTeams THEN polls[p] ELSE shown
    /\ polls' = [polls EXCEPT ![p] = Idle]
    /\ UnmountRows(Instances \ shown'.deployed)
    /\ UNCHANGED <<cluster, mounted>>

\* The answer is shown whichever poll it belongs to.
TakeList(p) ==
    /\ polls[p] \notin {Idle, Asked}
    /\ shown' = polls[p]
    /\ polls' = [polls EXCEPT ![p] = Idle]
    /\ UnmountRows(Instances \ polls[p].deployed)
    /\ UNCHANGED <<cluster, mounted>>

\* A poll that fails is only logged.
PollFails(p) ==
    /\ polls[p] = Asked
    /\ polls' = [polls EXCEPT ![p] = Idle]
    /\ UNCHANGED <<cluster, mounted, shown, row, calls>>

(***************************************************************************)
(* The buttons of a row.                                                   *)
(***************************************************************************)
Call(t, kind) == [team |-> t, kind |-> kind, mounted |-> TRUE, reply |-> "none", code |-> 0]

\* Mutant: a button that takes a second click.
PressAgain(t, kind) ==
    /\ t \in shown.deployed /\ Cardinality(calls) < MaxCalls
    /\ row' = [row EXCEPT ![t].busy = @ \cup {kind}]
    /\ calls' = calls \cup {Call(t, kind)}

\* A confirmed press disables the button.
Press(t, kind) ==
    /\ t \in shown.deployed /\ kind \notin row[t].busy
    /\ Cardinality(calls) < MaxCalls
    /\ row' = [row EXCEPT ![t].busy = @ \cup {kind}]
    /\ calls' = calls \cup {Call(t, kind)}

Delete(t)  == Press(t, "delete")  /\ UNCHANGED <<cluster, mounted, shown, polls>>
Restart(t) == Press(t, "restart") /\ UNCHANGED <<cluster, mounted, shown, polls>>
Reset(t)   == Press(t, "reset")   /\ UNCHANGED <<cluster, mounted, shown, polls>>

Reply(c, reply, code) == calls' = (calls \ {c}) \cup {[c EXCEPT !.reply = reply, !.code = code]}
Pending(c, kind) == c \in calls /\ c.kind = kind /\ c.reply = "none"

HandleDelete(c) ==
    /\ Pending(c, "delete")
    /\ deployed' = deployed \ {c.team}
    /\ ready' = ready \ {c.team}
    /\ Reply(c, "ok", 0)
    /\ UNCHANGED <<passcode, mounted, shown, row, polls>>

\* Deletes the pod, whose deployment makes another.
HandleRestart(c) ==
    /\ Pending(c, "restart")
    /\ ready' = ready \ {c.team}
    /\ Reply(c, "ok", 0)
    /\ UNCHANGED <<deployed, passcode, mounted, shown, row, polls>>

\* Mutant: the patch's error is ignored.
HandleResetUnchecked(c) ==
    /\ Pending(c, "reset") /\ c.team \in deployed
    /\ passcode[c.team] < MaxPasscodes
    /\ Reply(c, "ok", passcode[c.team] + 1)
    /\ UNCHANGED <<deployed, ready, passcode, mounted, shown, row, polls>>

\* The passcode is told once the patch has succeeded.
HandleReset(c) ==
    LET t == c.team IN
    /\ Pending(c, "reset")
    /\ \/ /\ t \in deployed /\ passcode[t] < MaxPasscodes
          /\ passcode' = [passcode EXCEPT ![t] = @ + 1]
          /\ Reply(c, "ok", passcode'[t])
       \/ /\ Reply(c, "error", 0)
          /\ UNCHANGED passcode
    /\ UNCHANGED <<deployed, ready, mounted, shown, row, polls>>

\* After the await, whatever came of it: the button is enabled again, and a new
\* passcode shown in a dialog.
Finish(c) ==
    row' = IF c.mounted
           THEN [row EXCEPT ![c.team].busy = @ \ {c.kind},
                            ![c.team].dialog = IF c.code # 0 THEN c.code ELSE @]
           ELSE row

\* Three seconds or more after the press for the first two: delays are arbitrary.
CallEnds(c) ==
    /\ c \in calls
    /\ c.reply # "none"
    /\ Finish(c)
    /\ calls' = calls \ {c}
    /\ UNCHANGED <<cluster, mounted, shown, polls>>

\* The call fails on the way, or the server refuses it.
CallFails(c) ==
    /\ c \in calls
    /\ c.reply = "none"
    /\ Reply(c, "error", 0)
    /\ UNCHANGED <<cluster, mounted, shown, row, polls>>

CloseDialog(t) ==
    /\ row[t].dialog # 0
    /\ row' = [row EXCEPT ![t].dialog = 0]
    /\ UNCHANGED <<cluster, mounted, shown, polls, calls>>

(***************************************************************************)
(* Meanwhile in the cluster.                                               *)
(***************************************************************************)
TeamJoins(t) ==
    /\ t \notin deployed /\ passcode[t] < MaxPasscodes
    /\ deployed' = deployed \cup {t}
    /\ passcode' = [passcode EXCEPT ![t] = @ + 1]
    /\ UNCHANGED <<ready, mounted, shown, row, polls, calls>>

PodBecomesReady(t) ==
    /\ t \in deployed \ ready
    /\ ready' = ready \cup {t}
    /\ UNCHANGED <<deployed, passcode, mounted, shown, row, polls, calls>>

ConsoleNext ==
    \/ OpenPage \/ LeavePage \/ SendPoll
    \/ \E p \in Polls : ListInstances(p) \/ TakeList(p) \/ PollFails(p)
    \/ \E t \in Instances : \/ Delete(t) \/ Restart(t) \/ Reset(t) \/ CloseDialog(t)
                        \/ TeamJoins(t) \/ PodBecomesReady(t)
    \/ \E c \in calls : \/ HandleDelete(c) \/ HandleRestart(c) \/ HandleReset(c)
                        \/ CallEnds(c) \/ CallFails(c)

ConsoleSpec == ConsoleInit /\ [][ConsoleNext]_consoleVars

\* The interval runs, and polls are answered, some of the time without an error.
ConsoleFairSpec ==
    /\ ConsoleSpec
    /\ WF_consoleVars(SendPoll)
    /\ \A p \in Polls : SF_consoleVars(ListInstances(p)) /\ WF_consoleVars(TakeList(p))

(***************************************************************************)
(* Properties.                                                             *)
(***************************************************************************)

\* Type correctness.  Rows have state only while their team is on the list.
TypeOK ==
    /\ Current \in Lists
    /\ passcode \in [Instances -> 0 .. MaxPasscodes]
    /\ shown \in Lists
    /\ row \in [Instances -> Row]
    /\ \A t \in Instances \ shown.deployed : row[t] = FreshRow
    /\ polls \in [Polls -> Lists \cup {Idle, Asked}]
    /\ ~mounted => shown = NoTeams /\ polls = [p \in Polls |-> Idle]
    /\ \A c \in calls : c.team \in Instances /\ c.code \in 0 .. MaxPasscodes

\* A button is disabled as long as its call is away (the flags of
\* RestartInstanceButton, DeleteInstanceButton and TeamActionMenu), and a press
\* is never doubled: only the call of a row that has been off the list since may
\* be away a second time.
ButtonsAwaitTheirCall ==
    \A t \in Instances : \A kind \in {"delete", "restart", "reset"} :
        LET waiting == {c \in calls : c.team = t /\ c.kind = kind /\ c.mounted} IN
        Cardinality(waiting) = (IF kind \in row[t].busy THEN 1 ELSE 0)

\* The passcode in a dialog has been written to the team's deployment: it opens
\* the team, or a later one does.
DialogPasscodeOpens ==
    \A t \in Instances : t \in deployed => row[t].dialog <= passcode[t]

\* Once the teams stop changing, an open page comes to show them, whatever answers
\* of earlier polls are still on their way and in whatever order they come.
ListCatchesUp ==
    \A l \in Lists : <>[](Current = l /\ mounted) => <>[](shown = l)

====
