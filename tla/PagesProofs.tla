---------------------------- MODULE PagesProofs ----------------------------
(***************************************************************************)
(* Theorems about two pages of the React client that poll and ask on their *)
(* own: the admin's list (AdminConsole), and the details of a challenge    *)
(* with the globe and the list one points at (ChallengeDetails).           *)
(***************************************************************************)
EXTENDS AdminConsole, ChallengeDetails, FiniteSetTheorems, SequenceTheorems, TLAPS

(***************************************************************************)
(* AdminConsole: type correctness, a dialog's passcode opens the team, and *)
(* a button waits for its call.                                            *)
(*                                                                         *)
(* The invariant says of every call that is away which passcode it may     *)
(* bring, and ties the flags of the rows to the calls: a flag is set if    *)
(* and only if one call of a row that is still there is away, and then it  *)
(* is the only one.                                                        *)
(***************************************************************************)
Kinds == {"delete", "restart", "reset"}
Codes == 0 .. MaxPasscodes

ClusterOK ==
    /\ deployed \in SUBSET Instances /\ ready \in SUBSET deployed
    /\ passcode \in [Instances -> Codes]

ListOK ==
    /\ shown \in Lists
    /\ polls \in [Polls -> Lists \cup {Idle, Asked}]
    /\ ~mounted => shown = NoTeams /\ polls = [p \in Polls |-> Idle]

RowsOK ==
    /\ row \in [Instances -> Row]
    /\ \A t \in Instances \ shown.deployed : row[t] = FreshRow

\* A call brings no passcode that has not been written.
CallOK(c) ==
    /\ c = [team |-> c.team, kind |-> c.kind, mounted |-> c.mounted, reply |-> c.reply,
            code |-> c.code]
    /\ c.team \in Instances /\ c.kind \in Kinds /\ c.code \in Codes
    /\ c.code <= passcode[c.team]

CallsOK == \A c \in calls : CallOK(c)

DialogsOK == \A t \in Instances : row[t].dialog <= passcode[t]

\* The call a button of a row waits for.
IsCallOf(c, t, kind) == c.team = t /\ c.kind = kind /\ c.mounted

ButtonsOK ==
    \A t \in Instances : \A kind \in Kinds :
        /\ kind \in row[t].busy <=> \E c \in calls : IsCallOf(c, t, kind)
        /\ \A c, d \in calls : IsCallOf(c, t, kind) /\ IsCallOf(d, t, kind) => c = d

ConsoleInv == ClusterOK /\ ListOK /\ RowsOK /\ CallsOK /\ DialogsOK /\ ButtonsOK

(***************************************************************************)
(* What the steps are made of.                                             *)
(***************************************************************************)
LEMMA Fresh == FreshRow \in Row /\ FreshRow.busy = {} /\ FreshRow.dialog = 0
<1>1. 0 \in 0 .. MaxPasscodes
  BY ConsoleAssumption
<1> QED
  BY <1>1 DEF FreshRow, Row

\* Rows that are unmounted and the calls of their buttons.
LEMMA UnmountRowsOK ==
  ASSUME RowsOK, CallsOK, DialogsOK, ButtonsOK, ClusterOK, UNCHANGED passcode,
         NEW teams, UnmountRows(teams),
         \A t \in Instances \ shown'.deployed : t \in teams \/ t \notin shown.deployed
  PROVE  RowsOK' /\ CallsOK' /\ DialogsOK' /\ ButtonsOK'
<1> DEFINE Un(c) == IF c.team \in teams THEN [c EXCEPT !.mounted = FALSE] ELSE c
<1>1. /\ row' = [t \in Instances |-> IF t \in teams THEN FreshRow ELSE row[t]]
      /\ calls' = {Un(c) : c \in calls}
  BY DEF UnmountRows
<1>2. ASSUME NEW c, CallOK(c)
      PROVE  /\ CallOK(Un(c)) /\ Un(c).team = c.team /\ Un(c).kind = c.kind
             /\ Un(c).mounted <=> c.mounted /\ c.team \notin teams
             /\ c.team \notin teams => Un(c) = c
  <2>1. CASE c.team \in teams
    <3> DEFINE d == Un(c)
    <3>1. d = [c EXCEPT !.mounted = FALSE]
      BY <2>1
    <3>2. d = [team |-> c.team, kind |-> c.kind, mounted |-> FALSE, reply |-> c.reply,
               code |-> c.code]
      BY <1>2, <3>1 DEF CallOK
    <3> HIDE DEF d
    <3>3. CallOK(d) /\ d.team = c.team /\ d.kind = c.kind /\ d.mounted = FALSE
      BY <1>2, <3>2 DEF CallOK
    <3> QED
      BY <2>1, <3>3 DEF d
  <2>2. CASE c.team \notin teams
    BY <1>2, <2>2
  <2> QED
    BY <2>1, <2>2
<1> HIDE DEF Un
<1>3. RowsOK'
  BY <1>1, Fresh DEF RowsOK
<1>4. CallsOK'
  BY <1>1, <1>2 DEF CallsOK, CallOK
<1>5. DialogsOK'
  BY <1>1, Fresh DEF DialogsOK, ClusterOK, Codes
<1>6. ASSUME NEW t \in Instances, NEW kind \in Kinds, NEW c \in calls
      PROVE  IsCallOf(Un(c), t, kind) <=> IsCallOf(c, t, kind) /\ t \notin teams
  BY <1>2 DEF IsCallOf, CallsOK
<1>7. ASSUME NEW c \in calls, c.team \notin teams PROVE Un(c) = c
  BY <1>2, <1>7 DEF CallsOK
<1>8. ASSUME NEW t \in Instances, NEW kind \in Kinds
      PROVE  /\ kind \in row'[t].busy <=> \E c \in calls' : IsCallOf(c, t, kind)
             /\ \A c, d \in calls' : IsCallOf(c, t, kind) /\ IsCallOf(d, t, kind) => c = d
  <2>1. CASE t \in teams
    BY <1>1, <1>6, <2>1, Fresh
  <2>2. CASE t \notin teams
    <3>1. row'[t] = row[t]
      BY <1>1, <2>2
    <3>2. \A c \in calls' : IsCallOf(c, t, kind) => c \in calls
      BY <1>1, <1>6, <1>7, <2>2 DEF IsCallOf
    <3>3. \A c \in calls : IsCallOf(c, t, kind) => c \in calls'
      BY <1>1, <1>7, <2>2 DEF IsCallOf
    <3> QED
      BY <3>1, <3>2, <3>3 DEF ButtonsOK
  <2> QED
    BY <2>1, <2>2
<1>9. ButtonsOK'
  BY <1>8 DEF ButtonsOK
<1> QED
  BY <1>3, <1>4, <1>5, <1>9

\* A call is answered, with a passcode that has been written.
LEMMA ReplyOK ==
  ASSUME CallsOK, ButtonsOK, UNCHANGED row,
         passcode \in [Instances -> Codes], passcode' \in [Instances -> Codes],
         \A t \in Instances : passcode[t] <= passcode'[t],
         NEW c \in calls, NEW reply, NEW code \in Codes, Reply(c, reply, code),
         code <= passcode'[c.team]
  PROVE  CallsOK' /\ ButtonsOK'
<1> DEFINE e == [c EXCEPT !.reply = reply]
           d == [c EXCEPT !.reply = reply, !.code = code]
<1>1. CallOK(c)
  BY DEF CallsOK
<1>2. calls' = (calls \ {c}) \cup {d}
  BY DEF Reply
<1>3. e = [team |-> c.team, kind |-> c.kind, mounted |-> c.mounted, reply |-> reply,
           code |-> c.code]
  BY <1>1 DEF CallOK
<1>4. d = [e EXCEPT !.code = code]
  OBVIOUS
<1> HIDE DEF d, e
<1>5. d = [team |-> c.team, kind |-> c.kind, mounted |-> c.mounted, reply |-> reply,
           code |-> code]
  BY <1>3, <1>4
<1>6. d.team = c.team /\ d.kind = c.kind /\ d.mounted = c.mounted /\ CallOK(d)'
  BY <1>1, <1>5 DEF CallOK
<1>7. \A b \in calls : CallOK(b)'
  BY DEF CallsOK, CallOK, Codes
<1>8. CallsOK'
  BY <1>2, <1>6, <1>7 DEF CallsOK
<1>9. \A t \in Instances : \A kind \in Kinds : IsCallOf(d, t, kind) <=> IsCallOf(c, t, kind)
  BY <1>6 DEF IsCallOf
<1>10. ButtonsOK'
  BY <1>2, <1>9 DEF ButtonsOK
<1> QED
  BY <1>8, <1>10

(***************************************************************************)
(* The list.                                                               *)
(***************************************************************************)
LEMMA ListActs ==
  ASSUME ConsoleInv,
         \/ OpenPage \/ LeavePage \/ SendPoll
         \/ \E p \in Polls : ListInstances(p) \/ TakeList(p) \/ PollFails(p)
  PROVE  ConsoleInv'
<1> USE DEF ConsoleInv
<1>1. UNCHANGED cluster
  BY DEF OpenPage, LeavePage, SendPoll, ListInstances, TakeList, PollFails
<1>2. ClusterOK' /\ UNCHANGED passcode
  BY <1>1 DEF cluster, ClusterOK
<1>3. Current \in Lists /\ NoTeams \in Lists
  BY DEF Current, NoTeams, Lists, ClusterOK
<1>4. CASE OpenPage
  <2>1. UNCHANGED <<row, calls>> /\ mounted' = TRUE /\ shown' = NoTeams /\ UNCHANGED shown
    BY <1>4 DEF OpenPage, ListOK
  <2>2. ListOK'
    BY <1>3, <1>4, <2>1 DEF OpenPage, ListOK
  <2> QED
    BY <1>2, <2>1, <2>2 DEF RowsOK, CallsOK, CallOK, DialogsOK, ButtonsOK
<1>5. CASE LeavePage
  <2>1. ListOK'
    BY <1>3, <1>5 DEF LeavePage, ListOK
  <2>2. UnmountRows(Instances)
    BY <1>5 DEF LeavePage
  <2> QED
    BY <1>2, <2>1, <2>2, UnmountRowsOK
<1>6. CASE SendPoll
  <2>1. UNCHANGED <<row, calls, mounted, shown>> /\ mounted
    BY <1>6 DEF SendPoll
  <2>2. ListOK'
    BY <1>6, <2>1 DEF SendPoll, ListOK
  <2> QED
    BY <1>2, <2>1, <2>2 DEF RowsOK, CallsOK, CallOK, DialogsOK, ButtonsOK
<1>7. ASSUME NEW p \in Polls, ListInstances(p) \/ PollFails(p) PROVE ConsoleInv'
  <2>1. UNCHANGED <<row, calls, mounted, shown>> /\ polls[p] = Asked
    BY <1>7 DEF ListInstances, PollFails
  <2>2. polls' = [polls EXCEPT ![p] = Current] \/ polls' = [polls EXCEPT ![p] = Idle]
    BY <1>7 DEF ListInstances, PollFails
  <2>3. mounted
    BY <2>1, ConsoleAssumption DEF ListOK
  <2>4. ListOK'
    BY <1>3, <2>1, <2>2, <2>3 DEF ListOK
  <2> QED
    BY <1>2, <2>1, <2>4 DEF RowsOK, CallsOK, CallOK, DialogsOK, ButtonsOK
<1>8. ASSUME NEW p \in Polls, TakeList(p) PROVE ConsoleInv'
  <2>1. /\ UNCHANGED mounted /\ shown' = polls[p] /\ polls' = [polls EXCEPT ![p] = Idle]
        /\ UnmountRows(Instances \ polls[p].deployed) /\ polls[p] \notin {Idle, Asked}
    BY <1>8 DEF TakeList
  <2>2. polls[p] \in Lists /\ mounted
    BY <2>1 DEF ListOK
  <2>3. ListOK'
    BY <2>1, <2>2 DEF ListOK
  <2> QED
    BY <1>2, <2>1, <2>3, UnmountRowsOK
<1> QED
  BY <1>4, <1>5, <1>6, <1>7, <1>8

(***************************************************************************)
(* The buttons, and what the server does for them.                         *)
(***************************************************************************)
LEMMA PressOK ==
  ASSUME ConsoleInv, NEW t \in Instances, NEW kind \in Kinds, Press(t, kind),
         UNCHANGED <<cluster, mounted, shown, polls>>
  PROVE  ConsoleInv'
<1> USE DEF ConsoleInv
<1> DEFINE c == Call(t, kind)
           r == [row[t] EXCEPT !.busy = @ \cup {kind}]
<1>1. ClusterOK' /\ UNCHANGED <<passcode, shown>>
  BY DEF cluster, ClusterOK
<1>2. ListOK'
  BY DEF ListOK
<1>3. /\ t \in shown.deployed /\ kind \notin row[t].busy
      /\ row' = [row EXCEPT ![t] = r]
      /\ calls' = calls \cup {c}
  BY DEF Press
<1>4. row[t] \in Row
  BY DEF RowsOK
<1>5. r \in Row /\ r.busy = row[t].busy \cup {kind} /\ r.dialog = row[t].dialog
  BY <1>4 DEF Row, Kinds
<1>6. CallOK(c) /\ IsCallOf(c, t, kind)
      /\ \A u \in Instances : \A k \in Kinds : IsCallOf(c, u, k) => u = t /\ k = kind
  BY ConsoleAssumption DEF Call, CallOK, IsCallOf, Codes, ClusterOK
<1> HIDE DEF c, r
<1>7. RowsOK'
  BY <1>1, <1>3, <1>5 DEF RowsOK
<1>8. CallsOK'
  BY <1>1, <1>3, <1>6 DEF CallsOK, CallOK
<1>9. DialogsOK'
  BY <1>1, <1>3, <1>5 DEF DialogsOK, RowsOK
<1>10. ASSUME NEW u \in Instances, NEW k \in Kinds
       PROVE  /\ k \in row'[u].busy <=> \E d \in calls' : IsCallOf(d, u, k)
              /\ \A d, e \in calls' : IsCallOf(d, u, k) /\ IsCallOf(e, u, k) => d = e
  <2>1. CASE u = t /\ k = kind
    <3>1. \A d \in calls : ~IsCallOf(d, u, k)
      BY <1>3, <2>1 DEF ButtonsOK
    <3> QED
      BY <1>3, <1>5, <1>6, <2>1, <3>1 DEF RowsOK
  <2>2. CASE ~(u = t /\ k = kind)
    <3>1. k \in row'[u].busy <=> k \in row[u].busy
      BY <1>3, <1>5, <2>2 DEF RowsOK
    <3>2. \A d \in calls' : IsCallOf(d, u, k) => d \in calls
      BY <1>3, <1>6, <2>2
    <3> QED
      BY <1>3, <3>1, <3>2 DEF ButtonsOK
  <2> QED
    BY <2>1, <2>2
<1>11. ButtonsOK'
  BY <1>10 DEF ButtonsOK
<1> QED
  BY <1>1, <1>2, <1>7, <1>8, <1>9, <1>11

LEMMA HandlersOK ==
  ASSUME ConsoleInv, NEW c \in calls,
         HandleDelete(c) \/ HandleRestart(c) \/ HandleReset(c) \/ CallFails(c)
  PROVE  ConsoleInv'
<1> USE DEF ConsoleInv
<1>1. UNCHANGED <<mounted, shown, row, polls>>
  BY DEF HandleDelete, HandleRestart, HandleReset, CallFails
<1>2. ListOK' /\ RowsOK'
  BY <1>1 DEF ListOK, RowsOK
<1>3. CallOK(c) /\ c.team \in Instances /\ passcode[c.team] \in Codes /\ 0 \in Codes
      /\ \A t \in Instances : 0 <= passcode[t] /\ passcode[t] <= passcode[t]
  BY ConsoleAssumption DEF CallsOK, CallOK, ClusterOK, Codes
<1>4. CASE HandleDelete(c) \/ HandleRestart(c) \/ CallFails(c)
  <2>1. /\ UNCHANGED passcode
        /\ Reply(c, "ok", 0) \/ Reply(c, "error", 0)
    BY <1>4 DEF HandleDelete, HandleRestart, CallFails, cluster
  <2>2. ClusterOK'
    BY <1>3, <1>4 DEF HandleDelete, HandleRestart, CallFails, cluster, ClusterOK
  <2>3. CallsOK' /\ ButtonsOK'
    BY <1>1, <1>3, <2>1, <2>2, ReplyOK DEF ClusterOK
  <2>4. DialogsOK'
    BY <1>1, <2>1 DEF DialogsOK
  <2> QED
    BY <1>2, <2>2, <2>3, <2>4
<1>5. CASE HandleReset(c)
  <2>1. CASE Reply(c, "error", 0) /\ UNCHANGED passcode
    <3>1. ClusterOK'
      BY <1>5, <2>1 DEF HandleReset, ClusterOK
    <3>2. CallsOK' /\ ButtonsOK'
      BY <1>1, <1>3, <2>1, <3>1, ReplyOK DEF ClusterOK
    <3>3. DialogsOK'
      BY <1>1, <2>1 DEF DialogsOK
    <3> QED
      BY <1>2, <3>1, <3>2, <3>3
  <2>2. CASE /\ passcode[c.team] < MaxPasscodes
             /\ passcode' = [passcode EXCEPT ![c.team] = @ + 1]
             /\ Reply(c, "ok", passcode'[c.team])
    <3>1. passcode[c.team] + 1 \in Codes
      BY <1>3, <2>2, ConsoleAssumption DEF Codes
    <3>2. passcode' \in [Instances -> Codes]
      BY <1>3, <2>2, <3>1 DEF ClusterOK
    <3>3. \A t \in Instances : passcode[t] \in Nat /\ passcode'[t] \in Nat /\ passcode[t] <= passcode'[t]
      BY <1>3, <2>2 DEF ClusterOK, Codes
    <3>4. ClusterOK'
      BY <1>5, <3>2 DEF HandleReset, ClusterOK
    <3> DEFINE code == passcode'[c.team]
    <3>5. code \in Codes /\ Reply(c, "ok", code) /\ code <= passcode'[c.team]
      BY <1>3, <2>2, <3>2, <3>3
    <3> HIDE DEF code
    <3>6. CallsOK' /\ ButtonsOK'
      BY <1>1, <3>2, <3>3, <3>5, ReplyOK DEF ClusterOK
    <3>7. DialogsOK'
      <4>1. \A t \in Instances : row[t].dialog \in Nat
        BY DEF RowsOK, Row
      <4> QED
        BY <1>1, <3>3, <4>1 DEF DialogsOK
    <3> QED
      BY <1>2, <3>4, <3>6, <3>7
  <2> QED
    BY <1>5, <2>1, <2>2 DEF HandleReset
<1> QED
  BY <1>4, <1>5

(***************************************************************************)
(* Calls that end, and what happens meanwhile.                             *)
(***************************************************************************)
LEMMA CallEndsOK ==
  ASSUME ConsoleInv, NEW c \in calls, CallEnds(c)
  PROVE  ConsoleInv'
<1> USE DEF ConsoleInv
<1>1. UNCHANGED <<deployed, ready, passcode, mounted, shown, polls>> /\ calls' = calls \ {c}
  BY DEF CallEnds, cluster
<1>2. ClusterOK' /\ ListOK'
  BY <1>1 DEF ClusterOK, ListOK
<1>3. CallsOK'
  BY <1>1 DEF CallsOK, CallOK
<1>4. CallOK(c) /\ c.team \in Instances /\ c.kind \in Kinds
  BY DEF CallsOK, CallOK
<1>5. CASE ~c.mounted
  <2>1. UNCHANGED row
    BY <1>5 DEF CallEnds, Finish
  <2>2. \A t \in Instances : \A kind \in Kinds : ~IsCallOf(c, t, kind)
    BY <1>5 DEF IsCallOf
  <2> QED
    BY <1>1, <1>2, <1>3, <2>1, <2>2 DEF RowsOK, DialogsOK, ButtonsOK
<1>6. CASE c.mounted
  <2> DEFINE t == c.team
             dialog == IF c.code # 0 THEN c.code ELSE row[t].dialog
             r == [row[t] EXCEPT !.busy = @ \ {c.kind}, !.dialog = dialog]
  <2>1. row' = [row EXCEPT ![t] = r]
    BY <1>4, <1>6 DEF CallEnds, Finish, RowsOK
  <2>2. row[t] \in Row
    BY <1>4 DEF RowsOK
  <2>3. dialog \in 0 .. MaxPasscodes /\ dialog <= passcode[t]
    BY <1>4, <2>2 DEF CallOK, Codes, Row, DialogsOK
  <2>4. r \in Row /\ r.busy = row[t].busy \ {c.kind} /\ r.dialog = dialog
    <3> HIDE DEF dialog
    <3> QED
      BY <2>2, <2>3 DEF Row
  <2>5. IsCallOf(c, t, c.kind)
    BY <1>6 DEF IsCallOf
  <2>6. c.kind \in row[t].busy
    BY <1>4, <2>5 DEF ButtonsOK
  <2>7. t \in shown.deployed
    BY <1>4, <2>6, Fresh DEF RowsOK
  <2> HIDE DEF r, dialog
  <2>8. RowsOK'
    BY <1>1, <1>4, <2>1, <2>4, <2>7 DEF RowsOK
  <2>9. DialogsOK'
    BY <1>1, <1>4, <2>1, <2>3, <2>4 DEF DialogsOK, RowsOK
  <2>10. ASSUME NEW u \in Instances, NEW k \in Kinds
         PROVE  /\ k \in row'[u].busy <=> \E d \in calls' : IsCallOf(d, u, k)
                /\ \A d, e \in calls' : IsCallOf(d, u, k) /\ IsCallOf(e, u, k) => d = e
    <3>1. CASE u = t /\ k = c.kind
      <4>1. \A d \in calls' : ~IsCallOf(d, u, k)
        BY <1>1, <1>4, <2>5, <3>1 DEF ButtonsOK
      <4>2. k \notin row'[u].busy
        BY <1>4, <2>1, <2>4, <3>1 DEF RowsOK
      <4> QED
        BY <4>1, <4>2
    <3>2. CASE ~(u = t /\ k = c.kind)
      <4>1. k \in row'[u].busy <=> k \in row[u].busy
        BY <1>4, <2>1, <2>4, <3>2 DEF RowsOK
      <4>2. ~IsCallOf(c, u, k)
        BY <3>2 DEF IsCallOf
      <4> QED
        BY <1>1, <4>1, <4>2 DEF ButtonsOK
    <3> QED
      BY <3>1, <3>2
  <2>11. ButtonsOK'
    BY <2>10 DEF ButtonsOK
  <2> QED
    BY <1>2, <1>3, <2>8, <2>9, <2>11
<1> QED
  BY <1>5, <1>6

LEMMA MeanwhileOK ==
  ASSUME ConsoleInv, NEW t \in Instances, TeamJoins(t) \/ PodBecomesReady(t) \/ CloseDialog(t)
  PROVE  ConsoleInv'
<1> USE DEF ConsoleInv
<1>1. UNCHANGED <<mounted, shown, polls, calls>>
  BY DEF TeamJoins, PodBecomesReady, CloseDialog
<1>2. ListOK'
  BY <1>1 DEF ListOK
<1>3. CASE TeamJoins(t)
  <2>1. /\ passcode[t] < MaxPasscodes /\ passcode' = [passcode EXCEPT ![t] = @ + 1]
        /\ UNCHANGED <<ready, row>> /\ deployed' = deployed \cup {t}
    BY <1>3 DEF TeamJoins
  <2>2. passcode[t] + 1 \in Codes
    BY <2>1, ConsoleAssumption DEF ClusterOK, Codes
  <2>3. ClusterOK'
    BY <2>1, <2>2 DEF ClusterOK
  <2>4. \A u \in Instances : passcode[u] \in Nat /\ passcode'[u] \in Nat /\ passcode[u] <= passcode'[u]
    BY <2>1 DEF ClusterOK, Codes
  <2>5. \A u \in Instances : row[u].dialog \in Nat
    BY DEF RowsOK, Row
  <2>6. DialogsOK'
    BY <2>1, <2>4, <2>5 DEF DialogsOK
  <2>7. CallsOK'
    BY <1>1, <2>4 DEF CallsOK, CallOK, Codes
  <2>8. RowsOK' /\ ButtonsOK'
    BY <1>1, <2>1 DEF RowsOK, ButtonsOK
  <2> QED
    BY <1>2, <2>3, <2>6, <2>7, <2>8
<1>4. CASE PodBecomesReady(t)
  <2>1. UNCHANGED <<passcode, deployed, row>> /\ t \in deployed /\ ready' = ready \cup {t}
    BY <1>4 DEF PodBecomesReady
  <2>2. ClusterOK'
    BY <2>1 DEF ClusterOK
  <2> QED
    BY <1>1, <1>2, <2>1, <2>2 DEF RowsOK, CallsOK, CallOK, DialogsOK, ButtonsOK
<1>5. CASE CloseDialog(t)
  <2> DEFINE r == [row[t] EXCEPT !.dialog = 0]
  <2>1. UNCHANGED <<passcode, deployed, ready>> /\ row' = [row EXCEPT ![t] = r] /\ row[t].dialog # 0
    BY <1>5 DEF CloseDialog, cluster
  <2>2. row[t] \in Row
    BY DEF RowsOK
  <2>3. r \in Row /\ r.busy = row[t].busy /\ r.dialog = 0
    BY <2>2, ConsoleAssumption DEF Row
  <2>4. t \in shown.deployed
    BY <2>1, Fresh DEF RowsOK
  <2> HIDE DEF r
  <2>5. RowsOK'
    BY <1>1, <2>1, <2>3, <2>4 DEF RowsOK
  <2>6. DialogsOK'
    BY <2>1, <2>3 DEF DialogsOK, RowsOK, ClusterOK, Codes
  <2>7. \A u \in Instances : row'[u].busy = row[u].busy
    BY <2>1, <2>3 DEF RowsOK
  <2>8. ButtonsOK'
    BY <1>1, <2>7 DEF ButtonsOK
  <2> QED
    BY <1>1, <1>2, <2>1, <2>5, <2>6, <2>8 DEF ClusterOK, CallsOK, CallOK
<1> QED
  BY <1>3, <1>4, <1>5

(***************************************************************************)
(* The theorems.                                                           *)
(***************************************************************************)
LEMMA ConsoleStarts == ConsoleInit => ConsoleInv
<1> SUFFICES ASSUME ConsoleInit PROVE ConsoleInv
  OBVIOUS
<1> USE DEF ConsoleInit
<1>1. ClusterOK
  BY ConsoleAssumption DEF ClusterOK, Codes
<1>2. ListOK
  BY DEF ListOK, Lists, NoTeams
<1>3. RowsOK
  BY Fresh DEF RowsOK
<1>4. CallsOK
  BY DEF CallsOK
<1>5. DialogsOK
  BY <1>1, Fresh DEF DialogsOK, ClusterOK, Codes
<1>6. ButtonsOK
  BY Fresh DEF ButtonsOK
<1> QED
  BY <1>1, <1>2, <1>3, <1>4, <1>5, <1>6 DEF ConsoleInv

LEMMA ConsoleSteps == ConsoleInv /\ [ConsoleNext]_consoleVars => ConsoleInv'
<1> SUFFICES ASSUME ConsoleInv, [ConsoleNext]_consoleVars PROVE ConsoleInv'
  OBVIOUS
<1>1. ASSUME NEW t \in Instances, Delete(t) \/ Restart(t) \/ Reset(t) PROVE ConsoleInv'
  BY <1>1, PressOK DEF Delete, Restart, Reset, Kinds
<1>2. CASE UNCHANGED consoleVars
  BY <1>2 DEF consoleVars, ConsoleInv, ClusterOK, ListOK, RowsOK, CallsOK, CallOK, DialogsOK, ButtonsOK
<1> QED
  BY <1>1, <1>2, ListActs, HandlersOK, CallEndsOK, MeanwhileOK DEF ConsoleNext

LEMMA ConsoleAlways == ConsoleSpec => []ConsoleInv
  BY ConsoleStarts, ConsoleSteps, PTL DEF ConsoleSpec

\* Type correctness; a row's flags and its dialog are gone with the row.
THEOREM TypeCorrect == ConsoleSpec => []TypeOK
<1>1. ConsoleInv => TypeOK
  <2> SUFFICES ASSUME ConsoleInv PROVE TypeOK
    OBVIOUS
  <2>1. Current \in Lists /\ passcode \in [Instances -> 0 .. MaxPasscodes]
    BY DEF ConsoleInv, ClusterOK, Codes, Current, Lists
  <2>2. \A c \in calls : c.team \in Instances /\ c.code \in 0 .. MaxPasscodes
    BY DEF ConsoleInv, CallsOK, CallOK, Codes
  <2> QED
    BY <2>1, <2>2 DEF ConsoleInv, ListOK, RowsOK, TypeOK
<1> QED
  BY <1>1, ConsoleAlways, PTL

\* A button stays disabled while its call is away, and comes back with it; a press
\* is not doubled (setIsRestarting, setIsDeleting, setIsResetting in AdminPage).
THEOREM ButtonsWait == ConsoleSpec => []ButtonsAwaitTheirCall
<1>1. ConsoleInv => ButtonsAwaitTheirCall
  <2> SUFFICES ASSUME ConsoleInv, NEW t \in Instances, NEW kind \in Kinds
               PROVE  Cardinality({c \in calls : c.team = t /\ c.kind = kind /\ c.mounted})
                        = IF kind \in row[t].busy THEN 1 ELSE 0
    BY DEF ButtonsAwaitTheirCall, Kinds
  <2> DEFINE waiting == {c \in calls : c.team = t /\ c.kind = kind /\ c.mounted}
  <2>1. \A c : c \in waiting <=> c \in calls /\ IsCallOf(c, t, kind)
    BY DEF IsCallOf
  <2> HIDE DEF waiting
  <2>2. CASE kind \in row[t].busy
    <3>1. PICK c \in waiting : waiting = {c}
      BY <2>1, <2>2 DEF ConsoleInv, ButtonsOK
    <3>2. Cardinality(waiting) = 1
      BY <3>1, FS_Singleton
    <3> QED
      BY <2>2, <3>2 DEF waiting
  <2>3. CASE kind \notin row[t].busy
    <3>1. waiting = {}
      BY <2>1, <2>3 DEF ConsoleInv, ButtonsOK
    <3>2. Cardinality(waiting) = 0
      BY <3>1, FS_EmptySet
    <3> QED
      BY <2>3, <3>2 DEF waiting
  <2> QED
    BY <2>2, <2>3
<1> QED
  BY <1>1, ConsoleAlways, PTL

\* The passcode a dialog shows has been written to the deployment (HandleReset
\* answers after its patch): it opens the team, or a later one does.
THEOREM DialogsTellTheTruth == ConsoleSpec => []DialogPasscodeOpens
<1>1. ConsoleInv => DialogPasscodeOpens
  BY DEF ConsoleInv, DialogsOK, DialogPasscodeOpens
<1> QED
  BY <1>1, ConsoleAlways, PTL

(***************************************************************************)
(* ChallengeDetails: one country is lit, and the details shown are those   *)
(* of the challenge that is open.                                          *)
(***************************************************************************)

(***************************************************************************)
(* Pointing.  The three views of the hovered country agree.                *)
(***************************************************************************)
HoverInv ==
    /\ meshes \subseteq Countries \X {"solid", "pattern"} /\ Fills \subseteq meshes
    /\ lit = hoveredMeshes
    /\ hoveredCountry = currentHoveredCountry
    /\ currentHoveredCountry \in Countries \cup {Nothing}
    /\ \A m \in hoveredMeshes : m[1] = currentHoveredCountry
    /\ currentHoveredCountry = Nothing => hoveredMeshes = {}
    /\ currentHoveredCountry # Nothing => <<currentHoveredCountry, "solid">> \in hoveredMeshes

LEMMA HoverKept == HoverInv /\ [Next]_vars => HoverInv'
<1> SUFFICES ASSUME HoverInv, [Next]_vars PROVE HoverInv'
  OBVIOUS
<1>1. ASSUME UNCHANGED hover, UNCHANGED meshes PROVE HoverInv'
  BY <1>1 DEF hover, HoverInv
<1>2. ASSUME NEW t \in Teams, NEW times \in [Challenges -> 0 .. MaxTime], TeamUpdated(t, times)
      PROVE  HoverInv'
  BY <1>1, <1>2 DEF TeamUpdated
<1>3. ASSUME NEW i \in DOMAIN away,
             Serve(i) \/ FetchFails(i) \/ TakeAnswer(i) \/ AbortedCallEnds(i)
      PROVE  HoverInv'
  BY <1>1, <1>3 DEF Serve, FetchFails, TakeAnswer, AbortedCallEnds
<1>4. ASSUME NEW c \in Challenges, handleChallengeClick(c) PROVE HoverInv'
  BY <1>1, <1>4 DEF handleChallengeClick
<1>5. ASSUME NEW k \in Keys, OpenChallengePage(k) PROVE HoverInv'
  BY <1>1, <1>5 DEF OpenChallengePage
<1>6. ASSUME NEW country \in Countries, onClick(country) PROVE HoverInv'
  BY <1>1, <1>6 DEF onClick
<1>7. CASE handleBackFromDetail \/ OpenCtfPage
  BY <1>1, <1>7 DEF handleBackFromDetail, OpenCtfPage
<1>8. ASSUME NEW country \in Countries, onPointerMove(country) PROVE HoverInv'
  <2>1. UNCHANGED meshes /\ setHover(country, lit \ hoveredMeshes)
    BY <1>8 DEF onPointerMove, MoveTo
  <2>2. <<country, "solid">> \in meshes
    BY DEF HoverInv, Fills
  <2>3. country # Nothing
    BY DEF Countries
  <2> QED
    BY <2>1, <2>2, <2>3 DEF setHover, HoverInv
<1>9. CASE onPointerLeave
  BY <1>9 DEF onPointerLeave, clearHover, HoverInv
<1>10. ASSUME NEW country \in Countries, transitionCountryToSolved(country) PROVE HoverInv'
  BY <1>10 DEF transitionCountryToSolved, hover, HoverInv
<1>11. CASE Leave
  <2>1. Fills \subseteq Countries \X {"solid", "pattern"}
    BY DEF Fills
  <2> QED
    BY <1>11, <2>1 DEF Leave, HoverInv
<1>12. CASE UNCHANGED vars
  BY <1>1, <1>12 DEF vars, hover
<1> QED
  BY <1>2, <1>3, <1>4, <1>5, <1>6, <1>7, <1>8, <1>9, <1>10, <1>11, <1>12 DEF Next

\* The globe lights the country under the pointer and nothing else, and the list
\* highlights the challenges of that country (onPointerMove, onCountryHover).
THEOREM OneIsLit == Spec => []OneCountryIsLit
<1>1. Init => HoverInv
  BY DEF Init, HoverInv, Fills
<1>2. HoverInv => OneCountryIsLit
  <2> SUFFICES ASSUME HoverInv PROVE OneCountryIsLit
    OBVIOUS
  <2> DEFINE countries == {m[1] : m \in lit}
  <2>1. countries = {currentHoveredCountry} \ {Nothing}
    <3>1. CASE currentHoveredCountry = Nothing
      BY <3>1 DEF HoverInv
    <3>2. CASE currentHoveredCountry # Nothing
      BY <3>2 DEF HoverInv
    <3> QED
      BY <3>1, <3>2
  <2> HIDE DEF countries
  <2>2. {c \in Highlighted : Country[c] # Nothing} = {c \in Challenges : Country[c] \in countries}
    BY <2>1 DEF Highlighted, HoverInv
  <2> QED
    BY <2>1, <2>2 DEF OneCountryIsLit, countries
<1> QED
  BY <1>1, <1>2, HoverKept, PTL DEF Spec

(***************************************************************************)
(* Sequences.                                                              *)
(***************************************************************************)

\* An order of a finite set holds each of its elements.
LEMMA OrdersAreWhole ==
  ASSUME NEW S, IsFiniteSet(S), NEW f \in SetToSeqs(S)
  PROVE  f \in Seq(S) /\ ToSet(f) = S /\ Len(f) = Cardinality(S)
<1> DEFINE n == Cardinality(S)
<1>1. n \in Nat
  BY FS_CardinalityType
<1>2. f \in [1 .. n -> S] /\ \A i, j \in 1 .. n : i # j => f[i] # f[j]
  BY DEF SetToSeqs
<1>3. IsFiniteSet(1 .. n) /\ Cardinality(1 .. n) = n
  BY <1>1, FS_Interval
<1> HIDE DEF n
<1>4. f \in Seq(S) /\ Len(f) = n
  BY <1>1, <1>2
<1>5. f \in Injection(1 .. n, S)
  BY <1>2 DEF Injection, IsInjective
<1>6. f \in Surjection(1 .. n, S)
  BY <1>3, <1>5, FS_Injection DEF n
<1>7. ToSet(f) = S
  BY <1>2, <1>6 DEF Surjection, ToSet
<1> QED
  BY <1>4, <1>7 DEF n

\* What is left when one of a sequence is removed.
LEMMA Removed ==
  ASSUME NEW S, NEW s \in Seq(S), NEW i \in DOMAIN s, NEW r, r = RemoveAt(s, i)
  PROVE  /\ r \in Seq(S)
         /\ \A j \in DOMAIN r : \E k \in DOMAIN s \ {i} : r[j] = s[k]
         /\ \A k \in DOMAIN s \ {i} : \E j \in DOMAIN r : r[j] = s[k]
         /\ \A j, l \in DOMAIN r :
              j # l => \E k, m \in DOMAIN s \ {i} : k # m /\ r[j] = s[k] /\ r[l] = s[m]
<1> DEFINE a == SubSeq(s, 1, i - 1)
           b == SubSeq(s, i + 1, Len(s))
<1>1. i \in 1 .. Len(s) /\ Len(s) \in Nat /\ DOMAIN s = 1 .. Len(s)
  BY LenProperties
<1>2. \A j \in 1 .. Len(s) : s[j] \in S
  BY <1>1
<1>3. a \in Seq(S) /\ Len(a) = i - 1 /\ \A j \in 1 .. i - 1 : a[j] = s[j]
  BY <1>1, <1>2, SubSeqProperties
<1>4. b \in Seq(S) /\ Len(b) = Len(s) - i /\ \A j \in 1 .. Len(s) - i : b[j] = s[j + i]
  <2> DEFINE m == i + 1
             n == Len(s)
  <2>1. m \in Int /\ n \in Int /\ \A j \in m .. n : s[j] \in S
    BY <1>1, <1>2
  <2> HIDE DEF m, n
  <2>2. /\ SubSeq(s, m, n) \in Seq(S)
        /\ Len(SubSeq(s, m, n)) = IF m <= n THEN n - m + 1 ELSE 0
        /\ \A j \in 1 .. n - m + 1 : SubSeq(s, m, n)[j] = s[m + j - 1]
    BY <2>1, SubSeqProperties
  <2>3. n - m + 1 = Len(s) - i /\ (m <= n <=> i < Len(s)) /\ i <= Len(s)
    BY <1>1 DEF m, n
  <2>4. Len(b) = Len(s) - i
    BY <1>1, <2>2, <2>3 DEF m, n
  <2>5. \A j \in 1 .. Len(s) - i : b[j] = s[m + j - 1]
    BY <2>2, <2>3 DEF m, n
  <2>6. \A j \in 1 .. Len(s) - i : m + j - 1 = j + i
    BY <1>1 DEF m
  <2>7. b \in Seq(S)
    BY <2>2 DEF m, n
  <2> QED
    BY <2>4, <2>5, <2>6, <2>7
<1>5. r = a \o b
  BY DEF RemoveAt
<1> HIDE DEF a, b
<1>6. /\ r \in Seq(S) /\ Len(r) = Len(s) - 1
      /\ \A j \in 1 .. Len(s) - 1 : r[j] = IF j < i THEN s[j] ELSE s[j + 1]
  <2>1. /\ a \o b \in Seq(S) /\ Len(a \o b) = Len(a) + Len(b)
        /\ \A j \in 1 .. Len(a) + Len(b) :
             (a \o b)[j] = IF j <= Len(a) THEN a[j] ELSE b[j - Len(a)]
    BY <1>3, <1>4, ConcatProperties
  <2>2. Len(a) + Len(b) = Len(s) - 1
    BY <1>1, <1>3, <1>4
  <2>3. ASSUME NEW j \in 1 .. Len(s) - 1, j < i PROVE r[j] = s[j]
    BY <1>1, <1>3, <1>5, <2>1, <2>2, <2>3
  <2>4. ASSUME NEW j \in 1 .. Len(s) - 1, ~(j < i) PROVE r[j] = s[j + 1]
    <3>1. j - Len(a) \in 1 .. Len(s) - i /\ (j - Len(a)) + i = j + 1
      BY <1>1, <1>3, <2>4
    <3>2. r[j] = b[j - Len(a)]
      BY <1>1, <1>3, <1>5, <2>1, <2>2, <2>4
    <3> QED
      BY <1>4, <3>1, <3>2
  <2> QED
    BY <1>5, <2>1, <2>2, <2>3, <2>4
<1>7. DOMAIN r = 1 .. Len(s) - 1
  BY <1>6, LenProperties
<1> DEFINE At(j) == IF j < i THEN j ELSE j + 1
<1>8. \A j \in DOMAIN r : At(j) \in DOMAIN s \ {i} /\ r[j] = s[At(j)]
  BY <1>1, <1>6, <1>7
<1>9. \A j, l \in DOMAIN r : j # l => At(j) # At(l)
  BY <1>1, <1>7
<1>10. ASSUME NEW k \in DOMAIN s \ {i} PROVE \E j \in DOMAIN r : r[j] = s[k]
  <2> DEFINE j == IF k < i THEN k ELSE k - 1
  <2>1. j \in DOMAIN r /\ At(j) = k
    BY <1>1, <1>7
  <2> QED
    BY <1>8, <2>1
<1> HIDE DEF At
<1> QED
  BY <1>6, <1>8, <1>9, <1>10

(***************************************************************************)
(* Details.  Every answer names what was known when it was given, which is *)
(* all that was known the whole time since its question.  One request at   *)
(* most is the latest; only its answer can stay unless the view is told    *)
(* that an older one came after it.                                        *)
(***************************************************************************)
Requests ==
    [key : Keys, answer : {Nothing, Refused} \cup Detail, latest : BOOLEAN, aborted : BOOLEAN]

\* None of its solves is before the first.
Truthful(d) == \A s \in ToSet(d.solves) : d.solves[1].solvedAt <= s.solvedAt

RequestOK(r) ==
    /\ r.answer \in Detail => r.answer.key = r.key /\ Truthful(r.answer)
    /\ r.latest => ~r.aborted /\ r.key = key
    /\ r.latest /\ r.answer \in Detail => since \subseteq ToSet(r.answer.solves)
    /\ ~r.latest /\ place = "page" => r.aborted

AwayOK ==
    /\ away \in Seq(Requests)
    /\ \A i \in DOMAIN away : RequestOK(away[i])
    /\ \A i, j \in DOMAIN away : away[i].latest /\ away[j].latest => i = j

ViewOK ==
    /\ view = [data |-> view.data, loading |-> view.loading, error |-> view.error]
    /\ view.data \in {Nothing} \cup Detail
    /\ view.data \in Detail => Truthful(view.data)
    /\ away = <<>> => ~view.loading

KeyOK ==
    /\ solvedAt \in [Solves -> Nat]
    /\ place \in {"ctf", "page", "elsewhere"}
    /\ key \in Keys \cup {Nothing}
    /\ place = "elsewhere" => key = Nothing
    /\ key = Nothing => away = <<>>
    /\ since \subseteq SolvesOf(key)

\* Once the latest is answered its data stay.
DataOK ==
    key # Nothing /\ (\A i \in DOMAIN away : ~away[i].latest) /\ ~view.error
      /\ (place = "ctf" => ~overtaken)
    => view.data # Nothing /\ view.data.key = key /\ since \subseteq ToSet(view.data.solves)

DetailsInv == AwayOK /\ ViewOK /\ KeyOK /\ DataOK

LEMMA Unchanged ==
  ASSUME DetailsInv, UNCHANGED <<replica, place, details>>
  PROVE  DetailsInv'
BY DEF replica, details, DetailsInv, AwayOK, RequestOK, Truthful, ViewOK, KeyOK, SolvesOf, Solvers, DataOK

\* An update, which leaves in since what is still known.
LEMMA TeamUpdatedOK ==
  ASSUME DetailsInv, NEW t \in Teams, NEW times \in [Challenges -> 0 .. MaxTime],
         TeamUpdated(t, times)
  PROVE  DetailsInv'
<1> USE DEF DetailsInv
<1>1. /\ solvedAt' = [s \in Solves |-> IF s[2] = t THEN times[s[1]] ELSE solvedAt[s]]
      /\ since' = since \cap SolvesOf(key)'
      /\ UNCHANGED <<place, key, view, away, overtaken>>
  BY DEF TeamUpdated
<1>2. \A s \in Solves : s[1] \in Challenges /\ times[s[1]] \in Nat
  BY DetailsAssumption DEF Solves
<1>3. solvedAt' \in [Solves -> Nat]
  BY <1>1, <1>2 DEF KeyOK
<1>4. since' \subseteq since /\ since' \subseteq SolvesOf(key)'
  BY <1>1
<1>5. AwayOK'
  BY <1>1, <1>4 DEF AwayOK, RequestOK, Truthful
<1>6. ViewOK'
  BY <1>1 DEF ViewOK, Truthful
<1>7. KeyOK'
  BY <1>1, <1>3, <1>4 DEF KeyOK
<1>8. DataOK'
  BY <1>1, <1>4 DEF DataOK
<1> QED
  BY <1>5, <1>6, <1>7, <1>8

(***************************************************************************)
(* Views that come and go.                                                 *)
(***************************************************************************)
LEMMA MountOK ==
  ASSUME KeyOK, UNCHANGED replica, NEW k \in Keys, Mount(k), place' \in {"ctf", "page"}
  PROVE  DetailsInv'
<1> DEFINE r == Request(k)
<1>1. r \in Requests /\ r.latest /\ ~r.aborted /\ r.key = k /\ r.answer = Nothing
  BY DEF Request, Requests
<1>2. /\ key' = k /\ away' = <<r>> /\ since' = SolvesOf(k) /\ UNCHANGED solvedAt
      /\ view' = [data |-> Nothing, loading |-> TRUE, error |-> FALSE]
  BY DEF Mount, Asking, replica
<1> HIDE DEF r
<1>3. Nothing \notin Detail /\ k # Nothing
  BY AnswerAssumption, DetailsAssumption
<1>4. DOMAIN away' = {1} /\ away'[1] = r /\ away' # <<>> /\ away' \in Seq(Requests)
  BY <1>1, <1>2
<1>5. AwayOK'
  BY <1>1, <1>2, <1>3, <1>4 DEF AwayOK, RequestOK
<1>6. ViewOK'
  BY <1>2, <1>3, <1>4 DEF ViewOK
<1>7. KeyOK'
  BY <1>2, <1>3 DEF KeyOK, SolvesOf, Solvers
<1>8. DataOK'
  BY <1>1, <1>4 DEF DataOK
<1> QED
  BY <1>5, <1>6, <1>7, <1>8 DEF DetailsInv

LEMMA UnmountOK ==
  ASSUME KeyOK, UNCHANGED replica, Unmount, place' \in {"ctf", "page", "elsewhere"}
  PROVE  DetailsInv'
<1>1. /\ key' = Nothing /\ away' = <<>> /\ since' = {} /\ UNCHANGED solvedAt
      /\ view' = [data |-> Nothing, loading |-> FALSE, error |-> FALSE]
  BY DEF Unmount, NoView, replica
<1>2. Nothing \notin Detail
  BY AnswerAssumption
<1>3. AwayOK'
  BY <1>1 DEF AwayOK
<1>4. ViewOK'
  BY <1>1, <1>2 DEF ViewOK
<1>5. KeyOK'
  BY <1>1 DEF KeyOK
<1>6. DataOK'
  BY <1>1 DEF DataOK
<1> QED
  BY <1>3, <1>4, <1>5, <1>6 DEF DetailsInv

LEMMA LoadingSet ==
  ASSUME NEW v, v = [data |-> v.data, loading |-> v.loading, error |-> v.error],
         NEW loading, NEW w, w = [v EXCEPT !.loading = loading]
  PROVE  w = [data |-> v.data, loading |-> loading, error |-> v.error]
OBVIOUS

LEMMA ViewSet ==
  ASSUME NEW v, v = [data |-> v.data, loading |-> v.loading, error |-> v.error],
         NEW loading, NEW error, NEW u, u = [v EXCEPT !.loading = loading, !.error = error]
  PROVE  u = [data |-> v.data, loading |-> loading, error |-> error]
<1>1. PICK w : w = [v EXCEPT !.loading = loading]
  OBVIOUS
<1>2. w = [data |-> v.data, loading |-> loading, error |-> v.error]
  BY <1>1, LoadingSet
<1>3. u = [w EXCEPT !.error = error]
  BY <1>1
<1> QED
  BY <1>2, <1>3

LEMMA ChangeOK ==
  ASSUME DetailsInv, UNCHANGED <<replica, place>>, place # "elsewhere", NEW k \in Keys, Change(k)
  PROVE  DetailsInv'
<1> USE DEF DetailsInv
<1> DEFINE old == Superseded(away)
           b == place = "page"
<1>1. PICK r \in Requests :
        r = Request(k) /\ r.latest /\ ~r.aborted /\ r.key = k /\ r.answer = Nothing
  <2>1. /\ Request(k) \in Requests /\ Request(k).latest /\ ~Request(k).aborted
        /\ Request(k).key = k /\ Request(k).answer = Nothing
    BY DEF Request, Requests
  <2> QED
    BY <2>1
<1>2. /\ key' = k /\ away' = Append(old, r) /\ since' = SolvesOf(k)
      /\ UNCHANGED <<solvedAt, place>>
      /\ view' = [view EXCEPT !.loading = TRUE, !.error = FALSE]
  BY <1>1 DEF Change, replica
<1>3. Nothing \notin Detail /\ k # Nothing
  BY AnswerAssumption, DetailsAssumption
<1>4. /\ old \in Seq(Requests) /\ DOMAIN old = DOMAIN away
      /\ \A i \in DOMAIN away : /\ ~old[i].latest /\ (place = "page" => old[i].aborted)
                                /\ old[i].key = away[i].key /\ old[i].answer = away[i].answer
  <2>1. old = [i \in DOMAIN away |-> [away[i] EXCEPT !.latest = FALSE, !.aborted = b]]
    BY DEF Superseded
  <2>2. b \in BOOLEAN /\ (place = "page" => b = TRUE)
    OBVIOUS
  <2> HIDE DEF b, old
  <2>3. ASSUME NEW q \in Requests, NEW p, p = [q EXCEPT !.latest = FALSE, !.aborted = b]
        PROVE  p \in Requests /\ ~p.latest /\ p.aborted = b /\ p.key = q.key /\ p.answer = q.answer
    BY <2>2, <2>3 DEF Requests
  <2>4. \A i \in DOMAIN away : away[i] \in Requests
    BY DEF AwayOK
  <2>5. \A i \in DOMAIN away : /\ old[i] \in Requests /\ ~old[i].latest /\ old[i].aborted = b
                               /\ old[i].key = away[i].key /\ old[i].answer = away[i].answer
    BY <2>1, <2>3, <2>4
  <2>6. DOMAIN away = 1 .. Len(away) /\ Len(away) \in Nat
    BY DEF AwayOK
  <2>7. old \in Seq(Requests) /\ DOMAIN old = DOMAIN away
    <3> DEFINE n == Len(away)
    <3>1. n \in Nat /\ old \in [1 .. n -> Requests]
      BY <2>1, <2>5, <2>6
    <3> HIDE DEF n
    <3>2. old \in Seq(Requests)
      BY <3>1, SeqDef
    <3> QED
      BY <2>1, <3>2
  <2> QED
    BY <2>2, <2>5, <2>7
<1> HIDE DEF old, b
<1>5. PICK n \in Nat : n = Len(old) /\ DOMAIN away = 1 .. n
  BY <1>4, LenProperties
<1>6. /\ away' \in Seq(Requests) /\ away' # <<>> /\ DOMAIN away' = 1 .. n + 1
      /\ \A i \in 1 .. n : away'[i] = old[i]
      /\ away'[n + 1] = r
  <2>1. /\ away' \in Seq(Requests) /\ away' # <<>> /\ Len(away') = n + 1
        /\ \A i \in 1 .. n : away'[i] = old[i]
        /\ away'[n + 1] = r
    BY <1>1, <1>2, <1>4, <1>5, AppendProperties
  <2> QED
    BY <2>1, LenProperties
<1>7. \A i \in 1 .. n + 1 : i \in 1 .. n \/ i = n + 1
  OBVIOUS
<1>8. ASSUME NEW p, NEW q, RequestOK(q), ~p.latest, place = "page" => p.aborted,
             p.key = q.key, p.answer = q.answer
      PROVE  RequestOK(p)'
  <2>1. UNCHANGED place /\ \A d : Truthful(d) => Truthful(d)'
    BY <1>2 DEF Truthful
  <2> QED
    BY <1>8, <2>1 DEF RequestOK
<1>9. RequestOK(r)'
  BY <1>1, <1>2, <1>3 DEF RequestOK
<1>10. AwayOK'
  <2>1. \A i \in DOMAIN away : RequestOK(away[i])
    BY DEF AwayOK
  <2>2. \A i \in DOMAIN away' : RequestOK(away[i])'
    <3> SUFFICES ASSUME NEW i \in DOMAIN away' PROVE RequestOK(away[i])'
      OBVIOUS
    <3>1. CASE i \in 1 .. n
      <4>1. PICK p, q : p = old[i] /\ q = away[i] /\ away'[i] = p
        BY <1>6, <3>1
      <4>2. /\ ~p.latest /\ (place = "page" => p.aborted)
            /\ p.key = q.key /\ p.answer = q.answer /\ RequestOK(q)
        BY <1>4, <1>5, <2>1, <3>1, <4>1
      <4>3. RequestOK(p)'
        BY <1>8, <4>2
      <4> QED
        BY <4>1, <4>3 DEF RequestOK
    <3>2. CASE i = n + 1
      BY <1>9, <1>6, <3>2 DEF RequestOK
    <3> QED
      BY <1>6, <1>7, <3>1, <3>2
  <2>3. \A i \in DOMAIN away' : away'[i].latest => i = n + 1
    BY <1>4, <1>5, <1>6, <1>7
  <2> QED
    BY <1>6, <2>2, <2>3 DEF AwayOK
<1>11. view' = [data |-> view.data, loading |-> TRUE, error |-> FALSE]
  BY <1>2, ViewSet DEF ViewOK
<1>12. ViewOK'
  BY <1>2, <1>6, <1>11 DEF ViewOK, Truthful
<1>13. KeyOK'
  BY <1>2, <1>3, <1>6 DEF KeyOK, SolvesOf, Solvers
<1>14. DataOK'
  BY <1>1, <1>6 DEF DataOK
<1> QED
  BY <1>10, <1>12, <1>13, <1>14

(***************************************************************************)
(* Requests that are answered, and answers that are taken in.              *)
(***************************************************************************)

LEMMA SolvesAreFinite ==
  ASSUME NEW k \in Keys
  PROVE  IsFiniteSet(SolvesOf(k))
<1> DEFINE Solve(t) == [team |-> t, solvedAt |-> solvedAt[<<k, t>>]]
<1>1. IsFiniteSet(Solvers(k))
  BY DetailsAssumption, FS_Subset DEF Solvers
<1>2. PICK S : S = Solvers(k)
  OBVIOUS
<1>3. SolvesOf(k) = {Solve(t) : t \in S}
  BY <1>2 DEF SolvesOf
<1>4. PICK f : f = [t \in S |-> Solve(t)]
  OBVIOUS
<1>5. f \in Surjection(S, SolvesOf(k))
  BY <1>3, <1>4 DEF Surjection
<1> QED
  BY <1>1, <1>2, <1>5, FS_Surjection

\* What a replica answers is in order, and names every solve it knows.
LEMMA AnswersAreTrue ==
  ASSUME KeyOK, NEW k \in Keys, NEW answer \in handleChallengeDetail(k)
  PROVE  \/ answer = Refused
         \/ /\ answer \in Detail /\ answer.key = k /\ Truthful(answer)
            /\ SolvesOf(k) \subseteq ToSet(answer.solves)
<1>1. CASE k \in Challenges
  <2>1. PICK solves \in SortedSolves(k) : answer = [key |-> k, solves |-> solves]
    BY <1>1 DEF handleChallengeDetail
  <2>2. SolvesOf(k) \subseteq [team : Teams, solvedAt : Nat \ {0}]
    <3>1. ASSUME NEW t \in Solvers(k)
          PROVE  [team |-> t, solvedAt |-> solvedAt[<<k, t>>]] \in [team : Teams, solvedAt : Nat \ {0}]
      <4>1. t \in Teams /\ solvedAt[<<k, t>>] \in Nat \ {0}
        BY DEF Solvers, KeyOK
      <4> QED
        BY <4>1
    <3> QED
      BY <3>1 DEF SolvesOf
  <2>3. solves \in SetToSeqs(SolvesOf(k))
    BY <2>1 DEF SortedSolves
  <2>4. solves \in Seq(SolvesOf(k)) /\ ToSet(solves) = SolvesOf(k)
    BY <2>3, SolvesAreFinite, OrdersAreWhole
  <2>5. solves \in Seq([team : Teams, solvedAt : Nat \ {0}])
    <3>1. PICK S, T : S = SolvesOf(k) /\ T = [team : Teams, solvedAt : Nat \ {0}]
      OBVIOUS
    <3>2. S \subseteq T /\ solves \in Seq(S)
      BY <2>2, <2>4, <3>1
    <3>3. solves \in Seq(T)
      BY <3>2
    <3> QED
      BY <3>1, <3>3
  <2>6. answer \in Detail /\ answer.key = k /\ answer.solves = solves
    BY <1>1, <2>1, <2>5 DEF Detail
  <2>7. ASSUME NEW s \in ToSet(solves) PROVE solves[1].solvedAt <= s.solvedAt
    <3>1. PICK j \in DOMAIN solves : s = solves[j]
      BY DEF ToSet
    <3>2. DOMAIN solves = 1 .. Len(solves) /\ Len(solves) \in Nat /\ s.solvedAt \in Nat
      BY <2>2, <2>4, LenProperties
    <3>3. CASE j = 1
      BY <3>1, <3>2, <3>3
    <3>4. CASE j # 1
      <4>1. 1 \in DOMAIN solves /\ 1 < j
        BY <3>1, <3>2, <3>4
      <4> QED
        BY <2>1, <3>1, <4>1 DEF SortedSolves
    <3> QED
      BY <3>3, <3>4
  <2>8. Truthful(answer)
    BY <2>6, <2>7 DEF Truthful
  <2> QED
    BY <2>4, <2>6, <2>8
<1>2. CASE k \notin Challenges
  BY <1>2 DEF handleChallengeDetail
<1> QED
  BY <1>1, <1>2

LEMMA AnsweredOK ==
  ASSUME DetailsInv, NEW i \in DOMAIN away, Serve(i) \/ FetchFails(i)
  PROVE  DetailsInv'
<1> USE DEF DetailsInv
<1>1. /\ away[i].answer = Nothing
      /\ UNCHANGED <<solvedAt, place, key, view, since, overtaken>>
  BY DEF Serve, FetchFails, replica
<1>2. away[i] \in Requests /\ away[i].key \in Keys /\ i \in 1 .. Len(away)
  <2>1. away \in Seq(Requests)
    BY DEF AwayOK
  <2>2. away[i] \in Requests /\ i \in 1 .. Len(away)
    BY <2>1
  <2> QED
    BY <2>2 DEF Requests
<1>3. key # Nothing
  BY <1>2 DEF KeyOK
<1>4. PICK answer : /\ away' = [away EXCEPT ![i].answer = answer]
                    /\ answer = Refused \/ answer \in handleChallengeDetail(away[i].key)
  BY DEF Serve, FetchFails
<1>5. \/ answer = Refused
      \/ /\ answer \in Detail /\ answer.key = away[i].key /\ Truthful(answer)
         /\ SolvesOf(away[i].key) \subseteq ToSet(answer.solves)
  BY <1>2, <1>4, AnswersAreTrue
<1>6. Refused \notin Detail
  BY AnswerAssumption
<1>7. PICK r : r = [away[i] EXCEPT !.answer = answer]
  OBVIOUS
<1>8. /\ r \in Requests /\ r.answer = answer /\ r.key = away[i].key
      /\ r.latest = away[i].latest /\ r.aborted = away[i].aborted
  BY <1>2, <1>5, <1>7 DEF Requests
<1>9. away' = [away EXCEPT ![i] = r]
  BY <1>4, <1>7
<1>10. /\ away' \in Seq(Requests) /\ DOMAIN away' = DOMAIN away
       /\ away'[i] = r /\ \A j \in DOMAIN away : j # i => away'[j] = away[j]
  <2>1. away \in Seq(Requests)
    BY DEF AwayOK
  <2> QED
    BY <1>2, <1>8, <1>9, <2>1, ExceptSeq
<1>11. RequestOK(away[i]) /\ \A j \in DOMAIN away : RequestOK(away[j])
  BY DEF AwayOK
<1>12. RequestOK(r)'
  <2>1. r.latest => since \subseteq SolvesOf(r.key)
    BY <1>8, <1>11 DEF RequestOK, KeyOK
  <2> QED
    BY <1>1, <1>5, <1>6, <1>8, <1>11, <2>1 DEF RequestOK, Truthful
<1>13. \A q : RequestOK(q) => RequestOK(q)'
  BY <1>1 DEF RequestOK, Truthful
<1>14. \A j \in DOMAIN away' : RequestOK(away[j])'
  <2> SUFFICES ASSUME NEW j \in DOMAIN away' PROVE RequestOK(away[j])'
    OBVIOUS
  <2>1. CASE j = i
    BY <1>10, <1>12, <2>1 DEF RequestOK
  <2>2. CASE j # i
    <3>1. PICK q : q = away[j] /\ away'[j] = q /\ RequestOK(q)
      BY <1>10, <1>11, <2>2
    <3>2. RequestOK(q)'
      BY <1>13, <3>1
    <3> QED
      BY <3>1, <3>2 DEF RequestOK
  <2> QED
    BY <2>1, <2>2
<1>15. \A j \in DOMAIN away : away'[j].latest = away[j].latest
  BY <1>8, <1>10
<1>16. AwayOK'
  BY <1>10, <1>14, <1>15 DEF AwayOK
<1>17. away' # <<>> /\ away # <<>>
  BY <1>2, <1>10
<1>18. ViewOK'
  BY <1>1, <1>17 DEF ViewOK, Truthful
<1>19. KeyOK'
  BY <1>1, <1>3 DEF KeyOK, SolvesOf, Solvers
<1>20. DataOK'
  BY <1>1, <1>10, <1>15 DEF DataOK
<1> QED
  BY <1>16, <1>18, <1>19, <1>20

\* A request less.
LEMMA FewerOK ==
  ASSUME DetailsInv, UNCHANGED <<solvedAt, place, key, since>>,
         NEW i \in DOMAIN away, away' = RemoveAt(away, i)
  PROVE  /\ AwayOK' /\ KeyOK'
         /\ \A k \in DOMAIN away \ {i} : \E j \in DOMAIN away' : away'[j] = away[k]
         /\ \A j \in DOMAIN away' : \E k \in DOMAIN away \ {i} : away'[j] = away[k]
<1> USE DEF DetailsInv
<1>1. /\ away' \in Seq(Requests)
      /\ \A j \in DOMAIN away' : \E k \in DOMAIN away \ {i} : away'[j] = away[k]
      /\ \A k \in DOMAIN away \ {i} : \E j \in DOMAIN away' : away'[j] = away[k]
      /\ \A j, l \in DOMAIN away' :
            j # l => \E k, m \in DOMAIN away \ {i} : k # m /\ away'[j] = away[k] /\ away'[l] = away[m]
  <2>1. away \in Seq(Requests)
    BY DEF AwayOK
  <2> QED
    BY <2>1, Removed
<1>2. \A q : RequestOK(q) => RequestOK(q)'
  BY DEF RequestOK, Truthful
<1>3. ASSUME NEW j \in DOMAIN away' PROVE RequestOK(away[j])'
  <2>1. PICK q : away'[j] = q /\ RequestOK(q)
    BY <1>1 DEF AwayOK
  <2>2. RequestOK(q)'
    BY <1>2, <2>1
  <2> QED
    BY <2>1, <2>2 DEF RequestOK
<1>4. \A j, l \in DOMAIN away' : away'[j].latest /\ away'[l].latest => j = l
  <2> SUFFICES ASSUME NEW j \in DOMAIN away', NEW l \in DOMAIN away', j # l,
                      away'[j].latest, away'[l].latest
               PROVE  FALSE
    OBVIOUS
  <2>1. PICK k, m \in DOMAIN away \ {i} : k # m /\ away'[j] = away[k] /\ away'[l] = away[m]
    BY <1>1
  <2>2. away[k].latest /\ away[m].latest
    BY <2>1
  <2> QED
    BY <2>1, <2>2 DEF AwayOK
<1>5. AwayOK'
  BY <1>1, <1>3, <1>4 DEF AwayOK
<1>6. key # Nothing
  BY DEF KeyOK, AwayOK
<1>7. KeyOK'
  BY <1>6 DEF KeyOK, SolvesOf, Solvers
<1> QED
  BY <1>1, <1>5, <1>7

LEMMA TakeAnswerOK ==
  ASSUME DetailsInv, NEW i \in DOMAIN away, TakeAnswer(i)
  PROVE  DetailsInv'
<1> USE DEF DetailsInv
<1> DEFINE r == away[i]
<1>1. /\ r.answer # Nothing /\ ~r.aborted
      /\ view' = [data |-> IF r.answer = Refused THEN view.data ELSE r.answer,
                  loading |-> StillLoading(r.answer),
                  error |-> view.error \/ r.answer = Refused]
      /\ overtaken' = (overtaken \/ (~r.latest /\ \A j \in DOMAIN away : ~away[j].latest))
      /\ away' = RemoveAt(away, i)
      /\ UNCHANGED <<solvedAt, place, key, since>>
  BY DEF TakeAnswer, replica
<1>2. r \in Requests /\ RequestOK(r)
  BY DEF AwayOK
<1>3. /\ AwayOK' /\ KeyOK'
      /\ \A k \in DOMAIN away \ {i} : \E j \in DOMAIN away' : away'[j] = away[k]
      /\ \A j \in DOMAIN away' : \E k \in DOMAIN away \ {i} : away'[j] = away[k]
  BY <1>1, FewerOK
<1>4. r.answer = Refused \/ r.answer \in Detail
  BY <1>1, <1>2 DEF Requests
<1>5. Refused \notin Detail /\ Nothing \notin Detail
  BY AnswerAssumption
<1>6. /\ view'.data = IF r.answer = Refused THEN view.data ELSE r.answer
      /\ view'.error = (view.error \/ r.answer = Refused)
      /\ ~view'.loading
      /\ view' = [data |-> view'.data, loading |-> view'.loading, error |-> view'.error]
  BY <1>1 DEF StillLoading
<1>7. ViewOK'
  <2>1. view'.data \in {Nothing} \cup Detail
    BY <1>4, <1>6 DEF ViewOK
  <2>2. view'.data \in Detail => Truthful(view.data)'
    <3>1. \A d : Truthful(d) => Truthful(d)'
      BY <1>1 DEF Truthful
    <3>2. PICK d : d = view'.data
      OBVIOUS
    <3>3. d \in Detail => Truthful(d)
      BY <1>2, <1>4, <1>6, <3>2 DEF RequestOK, ViewOK
    <3>4. d \in Detail => Truthful(d)'
      BY <3>1, <3>3
    <3> QED
      BY <3>2, <3>4 DEF Truthful
  <2> QED
    BY <1>6, <2>1, <2>2 DEF ViewOK
<1>8. DataOK'
  <2> SUFFICES ASSUME (key # Nothing)', \A j \in DOMAIN away' : ~away'[j].latest, ~view'.error,
                      place' = "ctf" => ~overtaken'
               PROVE  /\ view'.data # Nothing /\ view'.data.key = key
                      /\ since \subseteq ToSet(view'.data.solves)
    BY <1>1 DEF DataOK
  <2>1. r.answer \in Detail /\ view'.data = r.answer
    BY <1>4, <1>6
  <2>2. CASE r.latest
    BY <1>2, <1>5, <2>1, <2>2 DEF RequestOK
  <2>3. CASE ~r.latest
    <3>1. \A j \in DOMAIN away : ~away[j].latest
      BY <1>3, <2>3
    <3>2. overtaken'
      BY <1>1, <2>3, <3>1
    <3>3. place = "page"
      BY <1>1, <3>2 DEF KeyOK
    <3> QED
      BY <1>1, <1>2, <2>3, <3>3 DEF RequestOK
  <2> QED
    BY <2>2, <2>3
<1> QED
  BY <1>3, <1>7, <1>8

LEMMA AbortedCallEndsOK ==
  ASSUME DetailsInv, NEW i \in DOMAIN away, AbortedCallEnds(i)
  PROVE  DetailsInv'
<1> USE DEF DetailsInv
<1>1. /\ away[i].aborted /\ view' = [view EXCEPT !.loading = FALSE]
      /\ away' = RemoveAt(away, i)
      /\ UNCHANGED <<solvedAt, place, key, since, overtaken>>
  BY DEF AbortedCallEnds, replica
<1>2. ~away[i].latest
  BY <1>1 DEF AwayOK, RequestOK
<1>3. /\ AwayOK' /\ KeyOK'
      /\ \A k \in DOMAIN away \ {i} : \E j \in DOMAIN away' : away'[j] = away[k]
  BY <1>1, FewerOK
<1>4. view' = [data |-> view.data, loading |-> FALSE, error |-> view.error]
  BY <1>1, LoadingSet DEF ViewOK
<1>5. ViewOK'
  BY <1>1, <1>4 DEF ViewOK, Truthful
<1>6. (\A j \in DOMAIN away' : ~away'[j].latest) => \A j \in DOMAIN away : ~away[j].latest
  BY <1>2, <1>3
<1>7. DataOK'
  BY <1>1, <1>4, <1>6 DEF DataOK
<1> QED
  BY <1>3, <1>5, <1>7

(***************************************************************************)
(* The theorem.                                                            *)
(***************************************************************************)
LEMMA DetailsKept == DetailsInv /\ [Next]_vars => DetailsInv'
<1> SUFFICES ASSUME DetailsInv, [Next]_vars PROVE DetailsInv'
  OBVIOUS
<1>1. KeyOK /\ Challenges \subseteq Keys
  BY DetailsAssumption DEF DetailsInv
<1>2. ASSUME NEW c \in Challenges, handleChallengeClick(c) PROVE DetailsInv'
  <2>1. Mount(c) /\ UNCHANGED replica /\ place' = "ctf"
    BY <1>2 DEF handleChallengeClick, ListIsThere
  <2> QED
    BY <1>1, <2>1, MountOK
<1>3. ASSUME NEW country \in Countries, onClick(country) PROVE DetailsInv'
  <2>1. PICK c \in Challenges : IF key = Nothing THEN Mount(c) ELSE Change(c)
    BY <1>3 DEF onClick, handleCountryClick
  <2>2. UNCHANGED <<replica, place>> /\ place = "ctf"
    BY <1>3 DEF onClick
  <2>3. UNCHANGED replica /\ place' \in {"ctf", "page"} /\ place # "elsewhere"
    BY <2>2
  <2>4. CASE Mount(c)
    BY <1>1, <2>3, <2>4, MountOK
  <2>5. CASE Change(c)
    BY <1>1, <2>2, <2>3, <2>5, ChangeOK
  <2> QED
    BY <2>1, <2>4, <2>5
<1>4. ASSUME NEW k \in Keys, OpenChallengePage(k) PROVE DetailsInv'
  <2>1. UNCHANGED replica /\ place' = "page"
    BY <1>4 DEF OpenChallengePage
  <2>2. CASE place = "page" /\ Change(k)
    BY <2>1, <2>2, ChangeOK
  <2>3. CASE place # "page" /\ Mount(k)
    BY <1>1, <2>1, <2>3, MountOK
  <2> QED
    BY <1>4, <2>2, <2>3 DEF OpenChallengePage
<1>5. CASE handleBackFromDetail \/ OpenCtfPage \/ Leave
  <2>1. Unmount /\ UNCHANGED replica /\ place' \in {"ctf", "page", "elsewhere"}
    BY <1>1, <1>5 DEF handleBackFromDetail, OpenCtfPage, Leave, KeyOK
  <2> QED
    BY <1>1, <2>1, UnmountOK
<1>6. ASSUME NEW country \in Countries,
             onPointerMove(country) \/ transitionCountryToSolved(country)
      PROVE  DetailsInv'
  BY <1>6, Unchanged DEF onPointerMove, transitionCountryToSolved
<1>7. CASE onPointerLeave
  BY <1>7, Unchanged DEF onPointerLeave
<1>8. CASE UNCHANGED vars
  BY <1>8, Unchanged DEF vars
<1> QED
  BY <1>2, <1>3, <1>4, <1>5, <1>6, <1>7, <1>8,
     TeamUpdatedOK, AnsweredOK, TakeAnswerOK, AbortedCallEndsOK DEF Next

\* Once all is answered without an error, the details shown are those of the
\* challenge that is open, none of its solves that were there all the time since it was
\* asked for is missing, and the "First Solve" is an earliest of them; in the panel unless an older answer
\* came last (fetchChallengeDetail, useChallengeDetail).
THEOREM DetailsMatch == Spec => []DetailsAreTheOpenOnes
<1>1. Init => DetailsInv
  <2> SUFFICES ASSUME Init PROVE DetailsInv
    OBVIOUS
  <2>1. Nothing \notin Detail
    BY AnswerAssumption
  <2>2. AwayOK
    BY DEF Init, AwayOK
  <2>3. ViewOK
    BY <2>1 DEF Init, ViewOK, NoView
  <2>4. KeyOK
    BY DEF Init, KeyOK
  <2>5. DataOK
    BY DEF Init, DataOK
  <2> QED
    BY <2>2, <2>3, <2>4, <2>5 DEF DetailsInv
<1>2. DetailsInv => DetailsAreTheOpenOnes
  <2> SUFFICES ASSUME DetailsInv, key # Nothing, away = <<>>, ~view.error,
                      place = "ctf" => ~overtaken
               PROVE  /\ Shown # Nothing /\ Shown.key = key
                      /\ since \subseteq ToSet(Shown.solves)
                      /\ \A s \in ToSet(Shown.solves) :
                          FirstSolve(Shown).solvedAt <= s.solvedAt
    BY DEF DetailsAreTheOpenOnes
  <2>1. Shown = view.data
    BY DEF Shown, PageShows, PanelShows, DetailsInv, ViewOK
  <2>2. /\ view.data # Nothing /\ view.data.key = key
        /\ since \subseteq ToSet(view.data.solves)
    BY DEF DetailsInv, DataOK
  <2>3. Truthful(view.data)
    BY <2>2 DEF DetailsInv, ViewOK
  <2> QED
    BY <2>1, <2>2, <2>3 DEF Truthful, FirstSolve
<1> QED
  BY <1>1, <1>2, DetailsKept, PTL DEF Spec
====
