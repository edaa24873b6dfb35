------------------------- MODULE TeamSessionProofs -------------------------
(***************************************************************************)
(* Theorems about TeamSession: type correctness, that a passcode shown on  *)
(* a team's page is that team's, and that the name shown is the cookie's.  *)
(*                                                                         *)
(* The passcode on a page came with an answer, and the answer from the     *)
(* server, so the invariant follows it on its way.  The server writes it   *)
(* to the cookie's team and the browser shows it on the page of the team   *)
(* whose name it had: that these are one, unless an answer came after a    *)
(* later login, is the other half of the invariant.                        *)
(***************************************************************************)
EXTENDS TeamSession, TLAPS

Places == {"join", "joining", "status", "admin", "scores"}
Kinds == {"whoami", "poll", "join", "passcode", "reset", "logout"}
JoinReplies == {"none", "created", "unauthorized", "full"}
Known == Names \cup {NoTeam}
Links == {Link(team, code) : team \in Teams \cup {NoTeam}, code \in Passcodes}

\* What the server has written and handed out.
ServerOK ==
    /\ issued \in Passcodes /\ mishaps \in 0 .. MaxMishaps
    /\ held \in [Teams -> 0 .. issued] /\ written \in [Teams -> SUBSET (1 .. issued)]
    /\ unpatched \subseteq 1 .. issued

BrowserOK ==
    /\ cookie \in [Members -> Known]
    /\ activeTeam \in [Members -> Known]
    /\ timer \in [Members -> Links]

PageOK(p) ==
    /\ p = [at |-> p.at, team |-> p.team, told |-> p.told, busy |-> p.busy,
            failed |-> p.failed, seen |-> p.seen]
    /\ p.at \in Places /\ p.team \in Known /\ p.told \in 0 .. issued

SameRoute(p, q) == p.at = q.at /\ p.team = q.team /\ p.told = q.told

PagesOK ==
    /\ page = [m \in Members |-> page[m]]
    /\ \A m \in Members : PageOK(page[m])

CallOK(c) ==
    /\ c = [id |-> c.id, from |-> c.from, kind |-> c.kind, team |-> c.team, code |-> c.code,
            cookie |-> c.cookie, mounted |-> c.mounted, reply |-> c.reply]
    /\ c.from \in Members /\ c.kind \in Kinds /\ c.team \in Known /\ c.cookie \in Known
    /\ c.kind \in {"join", "reset"} => c.code \in 0 .. issued
    /\ c.kind = "reset" => c.team \in Teams
    /\ c.kind = "join" => c.reply \in JoinReplies

AllOK(cs) == \A c \in cs : CallOK(c)

OnePoll(cs) ==
    \A c, d \in cs :
        c.from = d.from /\ c.kind = "poll" /\ d.kind = "poll" => c = d /\ page[c.from].at = "status"

CallsOK == AllOK(calls) /\ OnePoll(calls)

Inv == ServerOK /\ BrowserOK /\ PagesOK /\ CallsOK

(***************************************************************************)
(* What the steps are made of.                                             *)
(***************************************************************************)

\* More passcodes handed out change nothing for the pages and calls there are.
LEMMA LaterIssued ==
  ASSUME issued \in Nat, issued' \in Nat, issued <= issued'
  PROVE  /\ \A p : PageOK(p) => PageOK(p)'
         /\ \A c : CallOK(c) => CallOK(c)'
<1>1. 0 .. issued \subseteq 0 .. issued'
  OBVIOUS
<1> QED
  BY <1>1 DEF PageOK, CallOK

\* A call whose component has gone is the same call.
LEMMA UnmountedOK ==
  ASSUME NEW cs, NEW m, NEW kinds, "poll" \notin kinds, AllOK(cs), OnePoll(cs)
  PROVE  AllOK(Unmounted(cs, m, kinds)) /\ OnePoll(Unmounted(cs, m, kinds))
<1> DEFINE Un(c) == IF c.from = m /\ c.kind \in kinds THEN [c EXCEPT !.mounted = FALSE] ELSE c
<1>1. ASSUME NEW c, CallOK(c)
      PROVE  /\ CallOK(Un(c)) /\ Un(c).from = c.from /\ Un(c).kind = c.kind
             /\ c.kind = "poll" => Un(c) = c
  <2>1. CASE c.from = m /\ c.kind \in kinds
    <3>1. Un(c) = [c EXCEPT !.mounted = FALSE] /\ c.kind # "poll"
      BY <2>1
    <3>2. Un(c) = [id |-> c.id, from |-> c.from, kind |-> c.kind, team |-> c.team, code |-> c.code,
                   cookie |-> c.cookie, mounted |-> FALSE, reply |-> c.reply]
      BY <3>1, <1>1 DEF CallOK
    <3> HIDE DEF Un
    <3> QED
      BY <3>1, <3>2, <1>1 DEF CallOK
  <2>2. CASE ~(c.from = m /\ c.kind \in kinds)
    BY <2>2, <1>1
  <2> QED
    BY <2>1, <2>2
<1>2. Unmounted(cs, m, kinds) = {Un(c) : c \in cs}
  BY DEF Unmounted
<1> HIDE DEF Un
<1>3. AllOK({Un(c) : c \in cs})
  BY <1>1 DEF AllOK
<1>4. OnePoll({Un(c) : c \in cs})
  BY <1>1 DEF AllOK, OnePoll
<1> QED
  BY <1>2, <1>3, <1>4

\* A navigation to a page that may be there.
LEMMA GoToKeeps ==
  ASSUME PagesOK, UNCHANGED issued,
         NEW m \in Members, NEW p, PageOK(p), NEW cs, AllOK(cs), OnePoll(cs),
         GoTo(m, p, cs)
  PROVE  PagesOK' /\ CallsOK'
<1>1. CASE p.at = page[m].at
  <2>1. /\ page' = [page EXCEPT ![m] = [@ EXCEPT !.team = p.team, !.told = p.told]]
        /\ calls' = cs
    BY <1>1 DEF GoTo
  <2> DEFINE q == [page[m] EXCEPT !.team = p.team, !.told = p.told]
  <2>2. q = [at |-> page[m].at, team |-> p.team, told |-> p.told, busy |-> page[m].busy,
             failed |-> page[m].failed, seen |-> page[m].seen]
    <3>1. PageOK(page[m])
      BY DEF PagesOK
    <3> DEFINE g == page[m]
    <3>2. g = [at |-> g.at, team |-> g.team, told |-> g.told, busy |-> g.busy,
               failed |-> g.failed, seen |-> g.seen]
      BY <3>1 DEF PageOK
    <3> HIDE DEF g
    <3> DEFINE h == [g EXCEPT !.team = p.team]
    <3>3. h = [at |-> g.at, team |-> p.team, told |-> g.told, busy |-> g.busy,
               failed |-> g.failed, seen |-> g.seen]
      BY <3>2
    <3>4. q = [h EXCEPT !.told = p.told]
      BY DEF g
    <3> HIDE DEF h, q
    <3>5. q = [at |-> g.at, team |-> p.team, told |-> p.told, busy |-> g.busy,
               failed |-> g.failed, seen |-> g.seen]
      BY <3>3, <3>4
    <3> QED
      BY <3>5 DEF g
  <2>3. page' = [n \in Members |-> IF n = m THEN q ELSE page[n]]
    BY <2>1 DEF PagesOK
  <2>4. q.at = page[m].at
    BY <2>2
  <2> HIDE DEF q
  <2>5. PageOK(q)
    <3>1. PageOK(page[m])
      BY DEF PagesOK
    <3>2. /\ q.at = page[m].at /\ q.team = p.team /\ q.told = p.told
          /\ q.busy = page[m].busy /\ q.failed = page[m].failed /\ q.seen = page[m].seen
      BY <2>2
    <3>3. q = [at |-> q.at, team |-> q.team, told |-> q.told, busy |-> q.busy,
               failed |-> q.failed, seen |-> q.seen]
      BY <2>2, <3>2
    <3> QED
      BY <3>1, <3>2, <3>3 DEF PageOK
  <2>6. PagesOK'
    BY <2>3, <2>5 DEF PagesOK, PageOK
  <2>7. \A n \in Members : page'[n].at = page[n].at
    BY <2>3, <2>4
  <2>8. AllOK(calls)'
    BY <2>1 DEF AllOK, CallOK
  <2>9. \A c \in cs : c.from \in Members
    BY DEF AllOK, CallOK
  <2>10. OnePoll(calls)'
    BY <2>1, <2>7, <2>9 DEF OnePoll
  <2> QED
    BY <2>6, <2>8, <2>10 DEF CallsOK
<1>2. CASE p.at # page[m].at
  <2> DEFINE un == Unmounted(cs, m, {"join", "passcode"})
  <2>1. /\ page' = [page EXCEPT ![m] = p]
        /\ calls' = {c \in un : ~(c.from = m /\ c.kind = "poll")}
    BY <1>2 DEF GoTo
  <2>2. AllOK(un) /\ OnePoll(un)
    BY UnmountedOK
  <2> HIDE DEF un
  <2>3. page' = [n \in Members |-> IF n = m THEN p ELSE page[n]]
    BY <2>1 DEF PagesOK
  <2>4. PagesOK'
    BY <2>3 DEF PagesOK, PageOK
  <2>5. AllOK(calls)'
    BY <2>1, <2>2 DEF AllOK, CallOK
  <2>6. OnePoll(calls)'
    BY <2>1, <2>2, <2>3 DEF OnePoll, AllOK, CallOK
  <2> QED
    BY <2>4, <2>5, <2>6 DEF CallsOK
<1> QED
  BY <1>1, <1>2

\* Another page in the same place.
LEMMA PageKeeps ==
  ASSUME PagesOK, UNCHANGED issued, NEW cs, AllOK(cs), OnePoll(cs), calls' \subseteq cs,
         NEW m \in Members, NEW p, PageOK(p), p.at = page[m].at,
         page' = [page EXCEPT ![m] = p]
  PROVE  PagesOK' /\ CallsOK'
<1>1. page' = [n \in Members |-> IF n = m THEN p ELSE page[n]]
  BY DEF PagesOK
<1>2. PagesOK'
  BY <1>1 DEF PagesOK, PageOK
<1>3. \A c \in cs : c.from \in Members
  BY DEF AllOK, CallOK
<1>4. OnePoll(calls)'
  BY <1>1, <1>3 DEF OnePoll
<1>5. AllOK(calls)'
  BY DEF AllOK, CallOK
<1> QED
  BY <1>2, <1>4, <1>5 DEF CallsOK

\* The same pages.
LEMMA SamePages ==
  ASSUME PagesOK, UNCHANGED <<issued, page>>, NEW cs, AllOK(cs), OnePoll(cs), calls' \subseteq cs
  PROVE  PagesOK' /\ CallsOK'
<1>1. PagesOK'
  BY DEF PagesOK, PageOK
<1>2. AllOK(calls)'
  BY DEF AllOK, CallOK
<1>3. OnePoll(calls)'
  BY DEF OnePoll
<1> QED
  BY <1>1, <1>2, <1>3 DEF CallsOK

\* A request as the browser sends it.
LEMMA RequestOK ==
  ASSUME BrowserOK, NEW m \in Members, NEW id, NEW kind \in Kinds, NEW team \in Known,
         NEW code, NEW mounted,
         kind \in {"join", "reset"} => code = 0 /\ issued \in Nat,
         kind = "reset" => team \in Teams,
         NEW r, r = Request(m, id, kind, team, code, mounted)
  PROVE  CallOK(r) /\ r.from = m /\ r.kind = kind
<1> DEFINE k == IF kind \in {"whoami", "poll", "reset"} THEN cookie[m] ELSE NoTeam
<1>1. k \in Known
  BY DEF BrowserOK, Known
<1>2. r = [id |-> id, from |-> m, kind |-> kind, team |-> team, code |-> code,
           cookie |-> k, mounted |-> mounted, reply |-> "none"]
  BY DEF Request
<1> HIDE DEF k
<1> QED
  BY <1>1, <1>2 DEF CallOK, JoinReplies

\* It joins those there are; a poll must be the member's only one.
LEMMA AddOK ==
  ASSUME NEW cs, AllOK(cs), OnePoll(cs), NEW r, CallOK(r),
         r.kind = "poll" =>
            page[r.from].at = "status" /\ \A c \in cs : c.from = r.from => c.kind # "poll"
  PROVE  AllOK(cs \cup {r}) /\ OnePoll(cs \cup {r})
BY DEF AllOK, OnePoll

\* The answer to a call.
LEMMA Replied ==
  ASSUME NEW c, CallOK(c), NEW reply, NEW code, Reply(c, reply, code)
  PROVE  \E d :
            /\ calls' = (calls \ {c}) \cup {d}
            /\ d = [id |-> c.id, from |-> c.from, kind |-> c.kind, team |-> c.team, code |-> code,
                    cookie |-> c.cookie, mounted |-> c.mounted, reply |-> reply]
<1> DEFINE d == [c EXCEPT !.reply = reply, !.code = code]
           e == [c EXCEPT !.reply = reply]
<1>1. e = [id |-> c.id, from |-> c.from, kind |-> c.kind, team |-> c.team, code |-> c.code,
           cookie |-> c.cookie, mounted |-> c.mounted, reply |-> reply]
  BY DEF CallOK
<1>2. d = [e EXCEPT !.code = code]
  OBVIOUS
<1>3. calls' = (calls \ {c}) \cup {d}
  BY DEF Reply
<1> HIDE DEF d, e
<1>4. d = [id |-> c.id, from |-> c.from, kind |-> c.kind, team |-> c.team, code |-> code,
           cookie |-> c.cookie, mounted |-> c.mounted, reply |-> reply]
  BY <1>1, <1>2
<1> QED
  BY <1>3, <1>4

LEMMA ReplyOK ==
  ASSUME CallsOK, issued \in Nat, issued' \in Nat, issued <= issued', UNCHANGED page,
         NEW c \in calls, NEW reply, NEW code, Reply(c, reply, code),
         c.kind \in {"join", "reset"} => code \in 0 .. issued',
         c.kind = "join" => reply \in JoinReplies
  PROVE  CallsOK'
<1>1. CallOK(c)
  BY DEF CallsOK, AllOK
<1>2. PICK d : /\ calls' = (calls \ {c}) \cup {d}
               /\ d = [id |-> c.id, from |-> c.from, kind |-> c.kind, team |-> c.team, code |-> code,
                       cookie |-> c.cookie, mounted |-> c.mounted, reply |-> reply]
  BY <1>1, Replied
<1>3. CallOK(d)' /\ d.kind = c.kind /\ d.from = c.from
  BY <1>1, <1>2 DEF CallOK
<1>4. \A b \in calls : CallOK(b)'
  BY LaterIssued DEF CallsOK, AllOK
<1>5. AllOK(calls)'
  BY <1>2, <1>3, <1>4 DEF AllOK
<1>6. OnePoll(calls)'
  BY <1>2, <1>3 DEF CallsOK, OnePoll
<1> QED
  BY <1>5, <1>6 DEF CallsOK

(***************************************************************************)
(* What a member does.                                                     *)
(***************************************************************************)

\* The forms' flags.
LEMMA Flagged ==
  ASSUME NEW p, PageOK(p), NEW flag, NEW q,
         \/ q = [p EXCEPT !.busy = flag] \/ q = [p EXCEPT !.failed = flag]
         \/ q = [p EXCEPT !.seen = flag]
  PROVE  PageOK(q) /\ SameRoute(q, p)
<1>1. CASE q = [p EXCEPT !.busy = flag]
  <2>1. q = [at |-> p.at, team |-> p.team, told |-> p.told, busy |-> flag,
             failed |-> p.failed, seen |-> p.seen]
    BY <1>1 DEF PageOK
  <2> QED
    BY <2>1 DEF PageOK, SameRoute
<1>2. CASE q = [p EXCEPT !.failed = flag]
  <2>1. q = [at |-> p.at, team |-> p.team, told |-> p.told, busy |-> p.busy,
             failed |-> flag, seen |-> p.seen]
    BY <1>2 DEF PageOK
  <2> QED
    BY <2>1 DEF PageOK, SameRoute
<1>3. CASE q = [p EXCEPT !.seen = flag]
  <2>1. q = [at |-> p.at, team |-> p.team, told |-> p.told, busy |-> p.busy,
             failed |-> p.failed, seen |-> flag]
    BY <1>3 DEF PageOK
  <2> QED
    BY <2>1 DEF PageOK, SameRoute
<1> QED
  BY <1>1, <1>2, <1>3

\* A page whose flags change stays where it is.
LEMMA FormPage ==
  ASSUME PagesOK, NEW m \in Members, NEW busy, NEW failed, NEW seen,
         \/ page' = [page EXCEPT ![m].busy = busy]
         \/ page' = [page EXCEPT ![m].busy = busy, ![m].failed = failed]
         \/ page' = [page EXCEPT ![m].failed = failed, ![m].busy = busy]
         \/ page' = [page EXCEPT ![m].seen = seen]
  PROVE  \E p : PageOK(p) /\ SameRoute(p, page[m]) /\ page' = [page EXCEPT ![m] = p]
<1> DEFINE a == [page[m] EXCEPT !.busy = busy]
           b == [a EXCEPT !.failed = failed]
           c == [page[m] EXCEPT !.failed = failed]
           d == [c EXCEPT !.busy = busy]
           e == [page[m] EXCEPT !.seen = seen]
<1>1. page' = [page EXCEPT ![m] = a] \/ page' = [page EXCEPT ![m] = b]
      \/ page' = [page EXCEPT ![m] = d] \/ page' = [page EXCEPT ![m] = e]
  BY DEF PagesOK
<1>2. PageOK(page[m])
  BY DEF PagesOK
<1>3. PageOK(a) /\ SameRoute(a, page[m]) /\ PageOK(c) /\ SameRoute(c, page[m])
      /\ PageOK(e) /\ SameRoute(e, page[m])
  BY <1>2, Flagged
<1> HIDE DEF a, c, e
<1>4. PageOK(b) /\ SameRoute(b, a) /\ PageOK(d) /\ SameRoute(d, c)
  BY <1>3, Flagged
<1> HIDE DEF b, d
<1> QED
  BY <1>1, <1>3, <1>4 DEF SameRoute

\* The forms disable their button, and the calls are those of cs.
LEMMA FormKeeps ==
  ASSUME PagesOK, UNCHANGED issued, NEW cs, AllOK(cs), OnePoll(cs), calls' \subseteq cs,
         NEW m \in Members, NEW busy, NEW failed, NEW seen,
         \/ page' = [page EXCEPT ![m].busy = busy]
         \/ page' = [page EXCEPT ![m].busy = busy, ![m].failed = failed]
         \/ page' = [page EXCEPT ![m].failed = failed, ![m].busy = busy]
         \/ page' = [page EXCEPT ![m].seen = seen]
  PROVE  PagesOK' /\ CallsOK'
<1>1. PICK p : PageOK(p) /\ SameRoute(p, page[m]) /\ page' = [page EXCEPT ![m] = p]
  BY FormPage
<1> QED
  BY <1>1, PageKeeps DEF SameRoute

\* A call is sent.
LEMMA SendOK ==
  ASSUME BrowserOK, CallsOK, issued \in Nat,
         NEW m \in Members, NEW kind \in Kinds, NEW team \in Known, NEW code,
         kind \in {"join", "reset"} => code = 0,
         kind = "reset" => team \in Teams,
         kind = "poll" => page[m].at = "status" /\ \A c \in calls : c.from = m => c.kind # "poll",
         NEW cs, cs = Plus(m, kind, team, code)
  PROVE  AllOK(cs) /\ OnePoll(cs)
<1> DEFINE id == Min(FreeIds(m, kind))
           mounted == TRUE
           r == Request(m, id, kind, team, code, mounted)
<1>1. cs = calls \cup {r}
  BY DEF Plus
<1> HIDE DEF id, mounted
<1>2. CallOK(r) /\ r.from = m /\ r.kind = kind
  BY RequestOK
<1> HIDE DEF r
<1> QED
  BY <1>1, <1>2, AddOK DEF CallsOK

LEMMA MemberActs ==
  ASSUME Inv, NEW m \in Members,
         \/ SubmitName(m) \/ SubmitPasscode(m) \/ AutoJoin(m) \/ Poll(m)
         \/ Visit(m) \/ CloseMenu(m) \/ ResetPasscode(m) \/ Logout(m)
  PROVE  Inv'
<1> USE DEF Inv
<1>1. UNCHANGED server /\ ServerOK' /\ UNCHANGED issued
  BY DEF SubmitName, SubmitPasscode, AutoJoin, Poll, Visit, CloseMenu, ResetPasscode, Logout,
         server, ServerOK
<1>2. AllOK(calls) /\ OnePoll(calls) /\ issued \in Nat
  BY DEF CallsOK, ServerOK, Passcodes
<1>3. BrowserOK'
  <2>1. CASE AutoJoin(m)
    <3>1. NoLink \in Links
      BY SessionAssumption DEF NoLink, Links, Passcodes
    <3> QED
      BY <2>1, <3>1 DEF AutoJoin, BrowserOK
  <2>2. CASE Logout(m)
    BY <2>2 DEF Logout, BrowserOK, Known
  <2>3. CASE \/ SubmitName(m) \/ SubmitPasscode(m) \/ Poll(m) \/ Visit(m) \/ CloseMenu(m)
             \/ ResetPasscode(m)
    BY <2>3 DEF SubmitName, SubmitPasscode, Poll, Visit, CloseMenu, ResetPasscode, BrowserOK
  <2> QED
    BY <2>1, <2>2, <2>3
<1>4. CASE SubmitName(m)
  <2>1. PICK team \in Names : calls' = Plus(m, "join", team, 0)
    BY <1>4 DEF SubmitName
  <2>2. AllOK(calls') /\ OnePoll(calls')
    BY <1>2, <2>1, SendOK DEF Known, Kinds
  <2> QED
    BY <1>1, <1>3, <1>4, <2>2, FormKeeps DEF SubmitName
<1>5. CASE SubmitPasscode(m)
  <2>1. PICK code : calls' = Plus(m, "passcode", page[m].team, code)
    BY <1>5 DEF SubmitPasscode
  <2>2. page[m].team \in Known
    BY DEF PagesOK, PageOK
  <2>3. AllOK(calls') /\ OnePoll(calls')
    BY <1>2, <2>1, <2>2, SendOK DEF Kinds
  <2> QED
    BY <1>1, <1>3, <1>5, <2>3, FormKeeps DEF SubmitPasscode
<1>6. CASE AutoJoin(m)
  <2> DEFINE mounted == page[m].at = "joining"
             team == timer[m].team
             code == timer[m].code
             r == Request(m, 0, "passcode", team, code, mounted)
  <2>1. CallOK(r) /\ r.kind = "passcode"
    <3>1. timer[m] \in Links
      BY DEF BrowserOK
    <3>2. team \in Known
      BY <3>1 DEF Links, Link, Known, Names
    <3> HIDE DEF team, code, mounted
    <3> QED
      BY <3>2, RequestOK DEF Kinds
  <2>2. calls' = calls \cup {r}
    BY <1>6 DEF AutoJoin
  <2>3. \/ page' = page
        \/ page' = [page EXCEPT ![m].busy = TRUE, ![m].failed = FALSE]
    BY <1>6 DEF AutoJoin
  <2> HIDE DEF mounted, team, code, r
  <2>4. AllOK(calls \cup {r}) /\ OnePoll(calls \cup {r})
    BY <1>2, <2>1, AddOK
  <2> QED
    BY <1>1, <1>3, <2>2, <2>3, <2>4, FormKeeps, SamePages
<1>7. CASE Poll(m)
  <2>1. calls' = Plus(m, "poll", NoTeam, 0) /\ UNCHANGED page
    BY <1>7 DEF Poll
  <2>2. page[m].at = "status" /\ \A c \in calls : c.from = m => c.kind # "poll"
    BY <1>7 DEF Poll, Of
  <2>3. AllOK(calls') /\ OnePoll(calls')
    BY <1>2, <2>1, <2>2, SendOK DEF Kinds, Known
  <2> QED
    BY <1>1, <1>3, <2>1, <2>3, SamePages
<1>8. CASE Visit(m)
  <2>1. PICK p \in {Home(m), Scores} : GoTo(m, p, calls)
    BY <1>8 DEF Visit
  <2>2. activeTeam[m] \in Known
    BY DEF BrowserOK
  <2>3. PageOK(p)
    BY <1>2, <2>1, <2>2 DEF Home, Scores, JoinForm, AdminPage, StatusOf, Page, PageOK, Places, Known
  <2> QED
    BY <1>1, <1>2, <1>3, <2>1, <2>3, GoToKeeps
<1>9. CASE CloseMenu(m)
  <2>1. calls' = Unmounted(calls, m, {"reset"}) /\ UNCHANGED page
    BY <1>9 DEF CloseMenu
  <2>2. AllOK(calls') /\ OnePoll(calls')
    BY <1>2, <2>1, UnmountedOK
  <2> QED
    BY <1>1, <1>3, <2>1, <2>2, SamePages
<1>10. CASE ResetPasscode(m)
  <2> DEFINE team == activeTeam[m]
  <2>1. calls' = Plus(m, "reset", team, 0) /\ team \in Teams /\ UNCHANGED page
    BY <1>10 DEF ResetPasscode
  <2> HIDE DEF team
  <2>2. AllOK(calls') /\ OnePoll(calls')
    BY <1>2, <2>1, SendOK DEF Kinds, Known, Names
  <2> QED
    BY <1>1, <1>3, <2>1, <2>2, SamePages
<1>11. CASE Logout(m)
  <2> DEFINE cs == Plus(m, "logout", NoTeam, 0)
  <2>1. calls' = Unmounted(cs, m, {"reset"}) /\ UNCHANGED page
    BY <1>11 DEF Logout
  <2>2. AllOK(cs) /\ OnePoll(cs)
    BY <1>2, SendOK DEF Kinds, Known
  <2> HIDE DEF cs
  <2>3. AllOK(calls') /\ OnePoll(calls')
    BY <2>1, <2>2, UnmountedOK
  <2> QED
    BY <1>1, <1>3, <2>1, <2>3, SamePages
<1> QED
  BY <1>4, <1>5, <1>6, <1>7, <1>8, <1>9, <1>10, <1>11

(***************************************************************************)
(* What the server does with a request.                                    *)
(***************************************************************************)
LEMMA LaterPages ==
  ASSUME PagesOK, UNCHANGED page, issued \in Nat, issued' \in Nat, issued <= issued'
  PROVE  PagesOK'
<1>1. \A p : PageOK(p) => PageOK(p)'
  BY LaterIssued
<1> QED
  BY <1>1 DEF PagesOK

LEMMA WriteKeeps ==
  ASSUME ServerOK, NEW team \in Teams, issued' \in Passcodes, issued <= issued',
         NEW code \in 1 .. issued', Write(team, code)
  PROVE  held' \in [Teams -> 0 .. issued'] /\ written' \in [Teams -> SUBSET (1 .. issued')]
<1>1. issued \in Nat /\ issued' \in Nat
  BY SessionAssumption DEF ServerOK, Passcodes
<1>2. 0 .. issued \subseteq 0 .. issued' /\ 1 .. issued \subseteq 1 .. issued'
      /\ code \in 0 .. issued'
  BY <1>1
<1>3. held \in [Teams -> 0 .. issued'] /\ written \in [Teams -> SUBSET (1 .. issued')]
  BY <1>2 DEF ServerOK
<1> QED
  BY <1>2, <1>3 DEF Write

LEMMA ServerActs ==
  ASSUME Inv, NEW c \in calls, Serve(c)
  PROVE  Inv'
<1> USE DEF Inv
<1>1. issued \in Nat /\ MaxPasscodes \in Nat /\ mishaps \in Nat
  BY SessionAssumption DEF ServerOK, Passcodes
<1>2. BrowserOK' /\ UNCHANGED page
  <2>1. UNCHANGED <<cookie, activeTeam, page, timer>>
    BY DEF Serve, TeamStatusMe, AdminLogin, CreateTeam, JoinExistingTeam, HandleResetPasscode, browser
  <2> QED
    BY <2>1 DEF BrowserOK
<1>3. CallOK(c)
  BY DEF CallsOK, AllOK
<1>4. CASE TeamStatusMe(c) \/ AdminLogin(c) \/ JoinExistingTeam(c)
  <2>1. UNCHANGED <<server, mishaps>>
    BY <1>4 DEF TeamStatusMe, AdminLogin, JoinExistingTeam, browser
  <2>2. ServerOK' /\ UNCHANGED issued
    BY <2>1 DEF ServerOK, server
  <2>3. PICK reply : Reply(c, reply, 0) /\ (c.kind = "join" => reply \in JoinReplies)
    <3>1. CASE TeamStatusMe(c)
      BY <3>1 DEF TeamStatusMe, Asked
    <3>2. CASE AdminLogin(c)
      BY <3>2 DEF AdminLogin, Asked, JoinReplies
    <3>3. CASE JoinExistingTeam(c)
      BY <3>3 DEF JoinExistingTeam, Asked, JoinReplies
    <3> QED
      BY <1>4, <3>1, <3>2, <3>3
  <2>4. CallsOK'
    BY <1>1, <1>2, <2>2, <2>3, ReplyOK
  <2> QED
    BY <1>1, <1>2, <2>2, <2>4, LaterPages
<1>5. CASE CreateTeam(c)
  <2>1. UNCHANGED <<unpatched, mishaps>> /\ c.team \in Teams
    BY <1>5 DEF CreateTeam, browser
  <2>2. CASE Reply(c, "full", 0) /\ UNCHANGED <<held, issued, written>>
    <3>1. ServerOK'
      BY <2>1, <2>2 DEF ServerOK
    <3>2. CallsOK'
      BY <1>1, <1>2, <2>2, ReplyOK DEF JoinReplies
    <3> QED
      BY <1>1, <1>2, <2>2, <3>1, <3>2, LaterPages
  <2>3. CASE /\ issued < MaxPasscodes /\ issued' = issued + 1 /\ Write(c.team, issued')
             /\ Reply(c, "created", issued')
    <3> DEFINE code == issued'
    <3>1. /\ issued' \in Nat /\ issued <= issued' /\ issued' \in Passcodes
          /\ code \in 1 .. issued' /\ code \in 0 .. issued'
          /\ 1 .. issued \subseteq 1 .. issued'
      BY <1>1, <2>3 DEF Passcodes
    <3>2. Write(c.team, code) /\ Reply(c, "created", code)
      BY <2>3
    <3> HIDE DEF code
    <3>3. ServerOK'
      BY <2>1, <3>1, <3>2, WriteKeeps DEF ServerOK
    <3>4. CallsOK'
      BY <1>1, <1>2, <3>1, <3>2, ReplyOK DEF JoinReplies
    <3> QED
      BY <1>1, <1>2, <3>1, <3>3, <3>4, LaterPages
  <2> QED
    BY <1>5, <2>2, <2>3 DEF CreateTeam
<1>6. CASE HandleResetPasscode(c)
  <2>1. c.kind = "reset"
    BY <1>6 DEF HandleResetPasscode, Asked
  <2>2. CASE Reply(c, "error", 0) /\ UNCHANGED <<server, mishaps>>
    <3>1. ServerOK' /\ UNCHANGED issued
      BY <2>2 DEF ServerOK, server
    <3>2. CallsOK'
      BY <1>1, <1>2, <2>1, <2>2, <3>1, ReplyOK
    <3> QED
      BY <1>1, <1>2, <3>1, <3>2, LaterPages
  <2>3. CASE /\ c.cookie \in Teams /\ issued < MaxPasscodes /\ issued' = issued + 1
             /\ Reply(c, "reset", issued') /\ Patch(c.cookie, issued')
    <3> DEFINE code == issued'
    <3>1. /\ issued' \in Nat /\ issued <= issued' /\ issued' \in Passcodes
          /\ code \in 1 .. issued' /\ code \in 0 .. issued'
          /\ 1 .. issued \subseteq 1 .. issued' /\ 0 .. issued \subseteq 0 .. issued'
      BY <1>1, <2>3 DEF Passcodes
    <3>2. Patch(c.cookie, code) /\ Reply(c, "reset", code)
      BY <2>3
    <3> HIDE DEF code
    <3>3. ServerOK'
      <4>1. CASE Write(c.cookie, code) /\ UNCHANGED <<unpatched, mishaps>>
        BY <2>3, <3>1, <4>1, WriteKeeps DEF ServerOK
      <4>2. CASE /\ mishaps < MaxMishaps /\ mishaps' = mishaps + 1
                 /\ unpatched' = unpatched \cup {code} /\ UNCHANGED <<held, written>>
        <5>1. mishaps' \in 0 .. MaxMishaps
          BY <1>1, <4>2, SessionAssumption
        <5>2. held' \in [Teams -> 0 .. issued'] /\ written' \in [Teams -> SUBSET (1 .. issued')]
          BY <3>1, <4>2 DEF ServerOK
        <5> QED
          BY <3>1, <4>2, <5>1, <5>2 DEF ServerOK
      <4> QED
        BY <3>2, <4>1, <4>2 DEF Patch
    <3>4. CallsOK'
      BY <1>1, <1>2, <2>1, <3>1, <3>2, ReplyOK
    <3> QED
      BY <1>1, <1>2, <3>1, <3>3, <3>4, LaterPages
  <2> QED
    BY <1>6, <2>2, <2>3 DEF HandleResetPasscode
<1> QED
  BY <1>4, <1>5, <1>6 DEF Serve

(***************************************************************************)
(* What a browser does with an answer.                                     *)
(***************************************************************************)

\* A call that is over, whose place may have been unmounted.
LEMMA OverOK ==
  ASSUME CallsOK, NEW c
  PROVE  AllOK(calls \ {c}) /\ OnePoll(calls \ {c})
BY DEF CallsOK, AllOK, OnePoll

LEMMA BrowserTakes ==
  ASSUME Inv, NEW c \in calls, Take(c) \/ Fail(c)
  PROVE  Inv'
<1> USE DEF Inv
<1> DEFINE rest == calls \ {c}
<1>1. issued \in Nat /\ MaxMishaps \in Nat
  BY SessionAssumption DEF ServerOK, Passcodes
<1>2. CallOK(c) /\ c.from \in Members /\ c.team \in Known /\ c.cookie \in Known
  BY DEF CallsOK, AllOK, CallOK
<1>3. AllOK(rest) /\ OnePoll(rest)
  BY OverOK
<1>4. rest = calls \ {c}
  OBVIOUS
<1> HIDE DEF rest
<1>5. ServerOK' /\ UNCHANGED issued
  <2>1. CASE Take(c)
    BY <2>1 DEF Take, TakeName, TakePoll, TakeJoin, TakePasscode, TakeReset, TakeLogout,
                server, ServerOK
  <2>2. CASE Fail(c)
    <3>1. UNCHANGED server /\ mishaps < MaxMishaps /\ mishaps' = mishaps + 1
      BY <2>2 DEF Fail
    <3> QED
      BY <1>1, <3>1 DEF server, ServerOK
  <2> QED
    BY <2>1, <2>2
<1>6. CASE TakeName(c)
  <2>1. UNCHANGED <<page, cookie, timer>> /\ calls' = rest
    BY <1>4, <1>6 DEF TakeName
  <2>2. activeTeam' = activeTeam \/ activeTeam' = [activeTeam EXCEPT ![c.from] = c.cookie]
    BY <1>6 DEF TakeName, SetActiveTeam
  <2>3. BrowserOK'
    BY <1>2, <2>1, <2>2 DEF BrowserOK
  <2> QED
    BY <1>3, <1>5, <2>1, <2>3, SamePages
<1>7. CASE TakePoll(c)
  <2>1. UNCHANGED <<cookie, timer>> /\ calls' = rest
    BY <1>4, <1>7 DEF TakePoll
  <2>2. activeTeam' = activeTeam \/ activeTeam' = [activeTeam EXCEPT ![c.from] = c.cookie]
    BY <1>7 DEF TakePoll, SetActiveTeam
  <2>3. BrowserOK'
    BY <1>2, <2>1, <2>2 DEF BrowserOK
  <2>4. CASE UNCHANGED page
    BY <1>3, <1>5, <2>1, <2>3, <2>4, SamePages
  <2>5. CASE page' = [page EXCEPT ![c.from].seen = c.cookie]
    BY <1>2, <1>3, <1>5, <2>1, <2>3, <2>5, FormKeeps
  <2> QED
    BY <1>7, <2>4, <2>5 DEF TakePoll
<1>8. CASE TakeJoin(c)
  <2>1. c.kind = "join" /\ c.reply \in {"created", "unauthorized", "full"}
    BY <1>2, <1>8 DEF TakeJoin, Answered, CallOK, JoinReplies
  <2>2. UNCHANGED timer
    BY <1>8 DEF TakeJoin
  <2>3. CASE c.reply = "created"
    <3> DEFINE p == StatusOf(c.team, c.code)
    <3>1. /\ SetCookie(c.from, c.team) /\ SetActiveTeam(c.from, c.team)
          /\ GoTo(c.from, p, rest)
      BY <1>4, <1>8, <2>3 DEF TakeJoin
    <3>2. c.code \in 0 .. issued
      BY <1>2, <2>1 DEF CallOK
    <3>3. PageOK(p)
      BY <1>2, <3>2 DEF StatusOf, Page, PageOK, Places
    <3> HIDE DEF p
    <3>4. BrowserOK'
      BY <1>2, <2>2, <3>1 DEF BrowserOK, SetCookie, SetActiveTeam
    <3> QED
      BY <1>2, <1>3, <1>5, <3>1, <3>3, <3>4, GoToKeeps
  <2>4. CASE c.reply = "unauthorized"
    <3> DEFINE p == JoiningAt(c.team)
    <3>1. GoTo(c.from, p, rest) /\ UNCHANGED <<cookie, activeTeam>>
      BY <1>4, <1>8, <2>4 DEF TakeJoin
    <3>2. PageOK(p)
      BY <1>1, <1>2 DEF JoiningAt, Page, PageOK, Places
    <3> HIDE DEF p
    <3>3. BrowserOK'
      BY <2>2, <3>1 DEF BrowserOK
    <3> QED
      BY <1>2, <1>3, <1>5, <3>1, <3>2, <3>3, GoToKeeps
  <2>5. CASE c.reply = "full"
    <3>1. /\ page' = IF c.mounted THEN [page EXCEPT ![c.from].busy = FALSE, ![c.from].failed = TRUE]
                     ELSE page
          /\ calls' = rest /\ UNCHANGED <<cookie, activeTeam>>
      BY <1>4, <1>8, <2>5 DEF TakeJoin
    <3>2. BrowserOK'
      BY <2>2, <3>1 DEF BrowserOK
    <3> QED
      BY <1>2, <1>3, <1>5, <3>1, <3>2, FormKeeps, SamePages
  <2> QED
    BY <2>1, <2>3, <2>4, <2>5
<1>9. CASE TakePasscode(c)
  <2>1. UNCHANGED timer
    BY <1>9 DEF TakePasscode
  <2>2. CASE c.reply \in {"created", "joined"}
    <3> DEFINE p == IF c.team = Admin THEN AdminPage ELSE StatusOf(c.team, 0)
    <3>1. /\ SetCookie(c.from, c.team) /\ SetActiveTeam(c.from, c.team)
          /\ GoTo(c.from, p, rest)
      BY <1>4, <1>9, <2>2 DEF TakePasscode
    <3>2. PageOK(p)
      <4>1. PageOK(AdminPage)
        BY <1>1 DEF AdminPage, Page, PageOK, Places, Known
      <4>2. PageOK(StatusOf(c.team, 0))
        BY <1>1, <1>2 DEF StatusOf, Page, PageOK, Places
      <4> QED
        BY <4>1, <4>2
    <3> HIDE DEF p
    <3>3. BrowserOK'
      BY <1>2, <2>1, <3>1 DEF BrowserOK, SetCookie, SetActiveTeam
    <3> QED
      BY <1>2, <1>3, <1>5, <3>1, <3>2, <3>3, GoToKeeps
  <2>3. CASE c.reply \notin {"created", "joined"}
    <3>1. /\ page' = IF c.mounted THEN [page EXCEPT ![c.from].busy = FALSE, ![c.from].failed = TRUE]
                     ELSE page
          /\ calls' = rest /\ UNCHANGED <<cookie, activeTeam>>
      BY <1>4, <1>9, <2>3 DEF TakePasscode, PasscodeRefused
    <3>2. BrowserOK'
      BY <2>1, <3>1 DEF BrowserOK
    <3> QED
      BY <1>2, <1>3, <1>5, <3>1, <3>2, FormKeeps, SamePages
  <2> QED
    BY <2>2, <2>3
<1>10. CASE TakeReset(c)
  <2>1. UNCHANGED <<cookie, activeTeam, timer>> /\ c.kind = "reset"
    BY <1>10 DEF TakeReset, Answered
  <2>2. BrowserOK'
    BY <2>1 DEF BrowserOK
  <2>3. CASE c.reply = "reset"
    <3> DEFINE p == StatusOf(c.team, c.code)
               cs == Unmounted(rest, c.from, {"reset"})
    <3>1. GoTo(c.from, p, cs)
      BY <1>4, <1>10, <2>3 DEF TakeReset
    <3>2. c.code \in 0 .. issued
      BY <1>2, <2>1 DEF CallOK
    <3>3. PageOK(p)
      BY <1>2, <3>2 DEF StatusOf, Page, PageOK, Places
    <3>4. AllOK(cs) /\ OnePoll(cs)
      BY <1>3, UnmountedOK
    <3> HIDE DEF p, cs
    <3> QED
      BY <1>2, <1>5, <2>2, <3>1, <3>3, <3>4, GoToKeeps
  <2>4. CASE c.reply # "reset"
    <3>1. UNCHANGED page /\ calls' = rest
      BY <1>4, <1>10, <2>4 DEF TakeReset
    <3> QED
      BY <1>3, <1>5, <2>2, <3>1, SamePages
  <2> QED
    BY <2>3, <2>4
<1>11. CASE TakeLogout(c)
  <2> DEFINE cs == Unmounted(rest, c.from, {"reset"})
             p == JoinForm
  <2>1. SetCookie(c.from, NoTeam) /\ UNCHANGED <<activeTeam, timer>> /\ GoTo(c.from, p, cs)
    BY <1>4, <1>11 DEF TakeLogout
  <2>2. AllOK(cs) /\ OnePoll(cs)
    BY <1>3, UnmountedOK
  <2>3. PageOK(p)
    BY <1>1 DEF JoinForm, Page, PageOK, Places, Known
  <2> HIDE DEF cs, p
  <2>4. BrowserOK'
    BY <1>2, <2>1 DEF BrowserOK, SetCookie, Known
  <2> QED
    BY <1>2, <1>5, <2>1, <2>2, <2>3, <2>4, GoToKeeps
<1>12. CASE Fail(c)
  <2> DEFINE busy == c.kind = "join"
             failed == TRUE
  <2>1. /\ calls' = rest /\ UNCHANGED <<cookie, activeTeam, timer>>
        /\ page' = page \/ page' = [page EXCEPT ![c.from].failed = failed, ![c.from].busy = busy]
    BY <1>4, <1>12 DEF Fail
  <2>2. BrowserOK'
    BY <2>1 DEF BrowserOK
  <2> HIDE DEF busy, failed
  <2> QED
    BY <1>2, <1>3, <1>5, <2>1, <2>2, FormKeeps, SamePages
<1> QED
  BY <1>6, <1>7, <1>8, <1>9, <1>10, <1>11, <1>12 DEF Take

(***************************************************************************)
(* The theorems.                                                           *)
(***************************************************************************)
LEMMA InitInv == Init => Inv
<1> SUFFICES ASSUME Init PROVE Inv
  OBVIOUS
<1> USE SessionAssumption
<1>1. issued \in Passcodes /\ issued \in Nat /\ held \in [Teams -> 0 .. issued]
  BY DEF Init, Passcodes
<1>2. ServerOK
  <2>1. \A t \in Teams : {held[t]} \ {0} \subseteq 1 .. issued
    BY <1>1
  <2> QED
    BY <1>1, <2>1 DEF Init, ServerOK
<1>3. BrowserOK
  <2>1. \A p : Fragment(p) \subseteq Links
    BY <1>1 DEF Fragment, Links, NoLink, Passcodes
  <2>2. timer \in [Members -> Links]
    BY <2>1 DEF Init
  <2> QED
    BY <2>2 DEF Init, BrowserOK, Known, Names
<1>4. \A p \in LandsOn : PageOK(p)
  BY <1>1 DEF LandsOn, JoinForm, AdminPage, Scores, JoiningAt, StatusOf, Page, PageOK, Places,
              Known, Names
<1>5. PagesOK
  BY <1>4 DEF Init, PagesOK
<1>6. \A m \in Members : CallOK(WhoAmI(m)) /\ WhoAmI(m).kind = "whoami" /\ WhoAmI(m).from = m
  BY <1>3 DEF WhoAmI, Request, CallOK, Kinds, Known, BrowserOK
<1>7. CallsOK
  BY <1>6 DEF Init, CallsOK, AllOK, OnePoll
<1> QED
  BY <1>2, <1>3, <1>5, <1>7 DEF Inv

LEMMA NextInv == Inv /\ [Next]_vars => Inv'
<1> SUFFICES ASSUME Inv, [Next]_vars PROVE Inv'
  OBVIOUS
<1>1. CASE \E team \in Teams : DeleteTeam(team)
  <2>1. ServerOK'
    BY <1>1, SessionAssumption DEF DeleteTeam, Inv, ServerOK, Passcodes
  <2>2. BrowserOK'
    BY <1>1 DEF DeleteTeam, Inv, BrowserOK
  <2>3. CallsOK' /\ PagesOK'
    BY <1>1, SamePages DEF DeleteTeam, Inv, CallsOK
  <2> QED
    BY <2>1, <2>2, <2>3 DEF Inv
<1>2. CASE UNCHANGED vars
  <2>1. ServerOK' /\ BrowserOK'
    BY <1>2 DEF vars, Inv, ServerOK, BrowserOK
  <2>2. CallsOK' /\ PagesOK'
    BY <1>2, SamePages DEF vars, Inv, CallsOK
  <2> QED
    BY <2>1, <2>2 DEF Inv
<1> QED
  BY <1>1, <1>2, MemberActs, ServerActs, BrowserTakes DEF Next

LEMMA Always == Spec => []Inv
  BY InitInv, NextInv, PTL DEF Spec

\* Type correctness; and a member has one poll away at most, and only from the
\* team's page, which aborts it when it is left (useHttpLongPoll).
THEOREM TypeCorrect == Spec => []TypeOK
<1>1. Inv => TypeOK
  BY DEF Inv, ServerOK, BrowserOK, PagesOK, PageOK, CallsOK, AllOK, CallOK, OnePoll, TypeOK,
         Places, Known, Links
<1> QED
  BY <1>1, Always, PTL

(***************************************************************************)
(* The name shown is the cookie's.                                         *)
(*                                                                         *)
(* Between the two stand only answers that will set them right: App's own  *)
(* question, asked with the cookie that is still held, and a logout, which *)
(* takes the name at once and the cookie when it is answered.              *)
(***************************************************************************)
SetsRight(m, c) ==
    \/ c.kind = "whoami" /\ c.cookie = cookie[m] /\ cookie[m] # NoTeam
    \/ c.kind = "logout" /\ activeTeam[m] = NoTeam

NameOK(m) ==
    \/ m \in troubled \cup overtaken
    \/ activeTeam[m] = cookie[m]
    \/ \E c \in calls : c.from = m /\ SetsRight(m, c)

NameInv == \A m \in Members : NameOK(m)

Lasting == {"whoami", "logout"}

\* Neither unmounting nor a navigation ends a question or a logout.
LEMMA LastingStay ==
  ASSUME NEW cs, NEW m, NEW kinds, kinds \cap Lasting = {}, NEW d \in cs, d.kind \in Lasting
  PROVE  d \in Unmounted(cs, m, kinds)
BY DEF Unmounted

LEMMA LastingTravel ==
  ASSUME NEW cs, NEW m, NEW p, GoTo(m, p, cs), NEW d \in cs, d.kind \in Lasting
  PROVE  d \in calls'
<1>1. d \in Unmounted(cs, m, {"join", "passcode"})
  BY LastingStay DEF Lasting
<1> QED
  BY <1>1 DEF GoTo, Lasting

\* With the name, the cookie and those calls, a member keeps the invariant.
LEMMA NameStays ==
  ASSUME NEW m \in Members, NameOK(m), troubled \subseteq troubled', overtaken \subseteq overtaken',
         cookie'[m] = cookie[m], activeTeam'[m] = activeTeam[m],
         \A d \in calls : d.from = m /\ d.kind \in Lasting =>
            \E e \in calls' : e.from = m /\ e.kind = d.kind /\ e.cookie = d.cookie
  PROVE  NameOK(m)'
BY DEF NameOK, SetsRight, Lasting

\* A step of one member that keeps everybody's calls of that kind.
LEMMA OneMoves ==
  ASSUME NameInv, NEW m \in Members, NameOK(m)',
         troubled \subseteq troubled', overtaken \subseteq overtaken',
         \A n \in Members : n # m => cookie'[n] = cookie[n] /\ activeTeam'[n] = activeTeam[n],
         \A d \in calls : d.from # m /\ d.kind \in Lasting => d \in calls'
  PROVE  NameInv'
<1>1. ASSUME NEW n \in Members, n # m
      PROVE  NameOK(n)'
  BY <1>1, NameStays DEF NameInv
<1> QED
  BY <1>1 DEF NameInv

LEMMA NameMember ==
  ASSUME Inv, NameInv, NEW m \in Members,
         \/ SubmitName(m) \/ SubmitPasscode(m) \/ AutoJoin(m) \/ Poll(m)
         \/ Visit(m) \/ CloseMenu(m) \/ ResetPasscode(m) \/ Logout(m)
  PROVE  NameInv'
<1>1. UNCHANGED <<cookie, history>>
  BY DEF SubmitName, SubmitPasscode, AutoJoin, Poll, Visit, CloseMenu, ResetPasscode, Logout, history
<1>2. \A d \in calls : d.kind \in Lasting => d \in calls'
  <2>1. CASE SubmitName(m) \/ SubmitPasscode(m) \/ Poll(m) \/ ResetPasscode(m)
    BY <2>1 DEF SubmitName, SubmitPasscode, Poll, ResetPasscode, Plus
  <2>2. CASE AutoJoin(m)
    BY <2>2 DEF AutoJoin
  <2>3. CASE Visit(m)
    BY <2>3, LastingTravel DEF Visit
  <2>4. CASE CloseMenu(m)
    BY <2>4, LastingStay DEF CloseMenu, Lasting
  <2>5. CASE Logout(m)
    <3> DEFINE cs == Plus(m, "logout", NoTeam, 0)
    <3>1. calls \subseteq cs
      BY DEF Plus
    <3>2. calls' = Unmounted(cs, m, {"reset"})
      BY <2>5 DEF Logout
    <3> HIDE DEF cs
    <3> QED
      BY <3>1, <3>2, LastingStay DEF Lasting
  <2> QED
    BY <2>1, <2>2, <2>3, <2>4, <2>5
<1>3. CASE Logout(m)
  <2> DEFINE id == Min(FreeIds(m, "logout"))
             r == Request(m, id, "logout", NoTeam, 0, TRUE)
             cs == calls \cup {r}
  <2>1. r.from = m /\ r.kind = "logout"
    BY DEF Request
  <2>2. calls' = Unmounted(cs, m, {"reset"})
    BY <1>3 DEF Logout, Plus
  <2>3. /\ activeTeam'[m] = NoTeam
        /\ \A n \in Members : n # m => activeTeam'[n] = activeTeam[n]
    BY <1>3 DEF Logout, Inv, BrowserOK
  <2> HIDE DEF r
  <2>4. r \in calls'
    BY <2>1, <2>2, LastingStay DEF Lasting
  <2>5. NameOK(m)'
    BY <2>1, <2>3, <2>4 DEF NameOK, SetsRight
  <2> QED
    BY <1>1, <1>2, <2>3, <2>5, OneMoves DEF history
<1>4. CASE UNCHANGED activeTeam
  BY <1>1, <1>2, <1>4, NameStays DEF NameInv, history
<1> QED
  BY <1>3, <1>4 DEF SubmitName, SubmitPasscode, AutoJoin, Poll, Visit, CloseMenu, ResetPasscode

LEMMA NameServer ==
  ASSUME Inv, NameInv, NEW c \in calls, Serve(c)
  PROVE  NameInv'
<1>1. UNCHANGED <<cookie, activeTeam, history>>
  BY DEF Serve, TeamStatusMe, AdminLogin, CreateTeam, JoinExistingTeam, HandleResetPasscode,
         browser, history
<1>2. \E reply, code : Reply(c, reply, code)
  BY DEF Serve, TeamStatusMe, AdminLogin, CreateTeam, JoinExistingTeam, HandleResetPasscode
<1>3. PICK reply, code : Reply(c, reply, code)
  BY <1>2
<1>4. CallOK(c)
  BY DEF Inv, CallsOK, AllOK
<1>5. PICK d : /\ calls' = (calls \ {c}) \cup {d}
               /\ d = [id |-> c.id, from |-> c.from, kind |-> c.kind, team |-> c.team, code |-> code,
                       cookie |-> c.cookie, mounted |-> c.mounted, reply |-> reply]
  BY <1>3, <1>4, Replied
<1>6. d.from = c.from /\ d.kind = c.kind /\ d.cookie = c.cookie
  BY <1>5
<1>7. \A b \in calls : \E x \in calls' : x.from = b.from /\ x.kind = b.kind /\ x.cookie = b.cookie
  BY <1>5, <1>6
<1> QED
  BY <1>1, <1>7, NameStays DEF NameInv, history

LEMMA NameTakes ==
  ASSUME Inv, NameInv, NEW c \in calls, Take(c) \/ Fail(c)
  PROVE  NameInv'
<1> DEFINE m == c.from
           rest == calls \ {c}
<1>1. m \in Members /\ CallOK(c) /\ cookie \in [Members -> Known] /\ activeTeam \in [Members -> Known]
  BY DEF Inv, CallsOK, AllOK, CallOK, BrowserOK
<1>2. troubled \subseteq troubled' /\ overtaken \subseteq overtaken'
  BY DEF Take, TakeName, TakePoll, TakeJoin, TakePasscode, TakeReset, TakeLogout, Fail, history
<1>3. \A n \in Members : n # m => cookie'[n] = cookie[n] /\ activeTeam'[n] = activeTeam[n]
  <2>1. \A team : /\ SetCookie(m, team) => \A n \in Members : n # m => cookie'[n] = cookie[n]
                  /\ SetActiveTeam(m, team) =>
                        \A n \in Members : n # m => activeTeam'[n] = activeTeam[n]
    BY <1>1 DEF SetCookie, SetActiveTeam
  <2>2. UNCHANGED cookie \/ \E team : SetCookie(m, team)
    <3>1. CASE TakeJoin(c)
      <4>1. c.reply \in {"created", "unauthorized", "full"}
        BY <1>1, <3>1 DEF TakeJoin, Answered, CallOK, JoinReplies
      <4> QED
        BY <3>1, <4>1 DEF TakeJoin
    <3> QED
      BY <3>1 DEF Take, TakeName, TakePoll, TakePasscode, TakeReset, TakeLogout, Fail
  <2>3. UNCHANGED activeTeam \/ \E team : SetActiveTeam(m, team)
    <3>1. CASE TakeJoin(c)
      <4>1. c.reply \in {"created", "unauthorized", "full"}
        BY <1>1, <3>1 DEF TakeJoin, Answered, CallOK, JoinReplies
      <4> QED
        BY <3>1, <4>1 DEF TakeJoin
    <3> QED
      BY <3>1 DEF Take, TakeName, TakePoll, TakePasscode, TakeReset, TakeLogout, Fail
  <2> QED
    BY <2>1, <2>2, <2>3
<1>4. \A d \in rest : d.kind \in Lasting => d \in calls'
  <2> DEFINE cs == Unmounted(rest, m, {"reset"})
  <2>1. CASE calls' = rest
    BY <2>1
  <2>2. CASE \E p : GoTo(m, p, rest)
    BY <2>2, LastingTravel
  <2>3. CASE \E p : GoTo(m, p, cs)
    <3>1. \A d \in rest : d.kind \in Lasting => d \in cs
      BY LastingStay DEF Lasting
    <3> HIDE DEF cs, rest
    <3> QED
      BY <2>3, <3>1, LastingTravel
  <2>4. CASE TakeName(c) \/ TakePoll(c) \/ Fail(c)
    BY <2>1, <2>4 DEF TakeName, TakePoll, Fail
  <2>5. CASE TakeJoin(c)
    <3>1. c.reply \in {"created", "unauthorized", "full"}
      BY <1>1, <2>5 DEF TakeJoin, Answered, CallOK, JoinReplies
    <3> QED
      BY <2>1, <2>2, <2>5, <3>1 DEF TakeJoin
  <2>6. CASE TakePasscode(c)
    BY <2>1, <2>2, <2>6 DEF TakePasscode
  <2>7. CASE TakeReset(c) \/ TakeLogout(c)
    BY <2>1, <2>3, <2>7 DEF TakeReset, TakeLogout
  <2> QED
    BY <2>4, <2>5, <2>6, <2>7 DEF Take
<1>5. \A d \in calls : d.from # m /\ d.kind \in Lasting => d \in calls'
  BY <1>4
<1> HIDE DEF rest
<1>6. SUFFICES ASSUME m \notin troubled' \cup overtaken'
               PROVE  NameOK(m)'
  BY <1>1, <1>2, <1>3, <1>5, OneMoves DEF NameOK
<1>7. NameOK(m) /\ m \notin troubled \cup overtaken
  BY <1>1, <1>2, <1>6 DEF NameInv
<1>8. CASE activeTeam'[m] = cookie'[m]
  BY <1>8 DEF NameOK
\* The calls a member still waits for, when this answer changes neither.
<1>9. CASE /\ cookie'[m] = cookie[m] /\ activeTeam'[m] = activeTeam[m]
           /\ c.kind \notin Lasting
  <2>1. \A d \in calls : d.from = m /\ d.kind \in Lasting => d \in calls'
    BY <1>4, <1>9 DEF rest
  <2> QED
    BY <1>1, <1>2, <1>7, <1>9, <2>1, NameStays
<1>10. CASE TakeName(c)
  <2>1. UNCHANGED cookie
    BY <1>10 DEF TakeName
  <2>2. CASE c.reply = "name"
    <3>1. activeTeam'[m] = c.cookie /\ c.cookie = cookie[m]
      BY <1>1, <1>6, <1>10, <2>2 DEF TakeName, SetActiveTeam
    <3> QED
      BY <1>8, <2>1, <3>1
  <2>3. CASE c.reply # "name"
    <3>1. c.cookie = NoTeam /\ UNCHANGED activeTeam /\ c.kind = "whoami"
      BY <1>6, <1>10, <2>3 DEF TakeName, Answered
    <3>2. CASE activeTeam[m] = cookie[m]
      BY <1>8, <2>1, <3>1, <3>2
    <3>3. CASE activeTeam[m] # cookie[m]
      <4>1. PICK d \in calls : d.from = m /\ SetsRight(m, d)
        BY <1>7, <3>3 DEF NameOK
      <4>2. CASE d # c
        <5>1. d \in calls'
          BY <1>4, <4>1, <4>2 DEF rest, SetsRight, Lasting
        <5> QED
          BY <2>1, <3>1, <4>1, <5>1 DEF NameOK, SetsRight
      <4>3. d # c
        BY <3>1, <4>1 DEF SetsRight
      <4> QED
        BY <4>2, <4>3
    <3> QED
      BY <3>2, <3>3
  <2> QED
    BY <2>2, <2>3
<1>11. CASE TakePoll(c)
  <2>1. UNCHANGED cookie /\ c.kind = "poll"
    BY <1>11 DEF TakePoll, Answered
  <2>2. CASE UNCHANGED activeTeam
    BY <1>9, <2>1, <2>2 DEF Lasting
  <2>3. CASE SetActiveTeam(m, c.cookie) /\ c.cookie = cookie[m]
    BY <1>1, <1>8, <2>1, <2>3 DEF SetActiveTeam
  <2> QED
    BY <1>6, <1>11, <2>2, <2>3 DEF TakePoll
<1>12. CASE TakeJoin(c)
  <2>1. c.kind = "join" /\ c.reply \in {"created", "unauthorized", "full"}
    BY <1>1, <1>12 DEF TakeJoin, Answered, CallOK, JoinReplies
  <2>2. CASE SetCookie(m, c.team) /\ SetActiveTeam(m, c.team)
    BY <1>1, <1>8, <2>2 DEF SetCookie, SetActiveTeam
  <2>3. CASE UNCHANGED <<cookie, activeTeam>>
    BY <1>9, <2>1, <2>3 DEF Lasting
  <2> QED
    BY <1>12, <2>1, <2>2, <2>3 DEF TakeJoin
<1>13. CASE TakePasscode(c)
  <2>1. c.kind = "passcode"
    BY <1>13 DEF TakePasscode, Answered
  <2>2. CASE SetCookie(m, c.team) /\ SetActiveTeam(m, c.team)
    BY <1>1, <1>8, <2>2 DEF SetCookie, SetActiveTeam
  <2>3. CASE UNCHANGED <<cookie, activeTeam>>
    BY <1>9, <2>1, <2>3 DEF Lasting
  <2> QED
    BY <1>13, <2>2, <2>3 DEF TakePasscode
<1>14. CASE TakeReset(c)
  <2>1. UNCHANGED <<cookie, activeTeam>> /\ c.kind = "reset"
    BY <1>14 DEF TakeReset, Answered
  <2> QED
    BY <1>9, <2>1 DEF Lasting
<1>15. CASE TakeLogout(c)
  <2>1. SetCookie(m, NoTeam) /\ UNCHANGED activeTeam /\ activeTeam[m] = NoTeam
    BY <1>1, <1>6, <1>15 DEF TakeLogout
  <2> QED
    BY <1>1, <1>8, <2>1 DEF SetCookie
<1>16. CASE Fail(c)
  BY <1>6, <1>16 DEF Fail
<1> QED
  BY <1>10, <1>11, <1>12, <1>13, <1>14, <1>15, <1>16 DEF Take

LEMMA NameInitially == Init => NameInv
<1> SUFFICES ASSUME Init, NEW m \in Members PROVE NameOK(m)
  BY DEF NameInv
<1>1. /\ WhoAmI(m) \in calls /\ WhoAmI(m).from = m /\ WhoAmI(m).kind = "whoami"
      /\ WhoAmI(m).cookie = cookie[m]
  BY DEF Init, WhoAmI, Request
<1>2. activeTeam[m] = NoTeam
  BY DEF Init
<1> QED
  BY <1>1, <1>2 DEF NameOK, SetsRight

LEMMA NameInductive == Inv /\ NameInv /\ [Next]_vars => NameInv'
<1> SUFFICES ASSUME Inv, NameInv, [Next]_vars PROVE NameInv'
  OBVIOUS
<1>1. CASE (\E team \in Teams : DeleteTeam(team)) \/ UNCHANGED vars
  <2>1. UNCHANGED <<cookie, activeTeam, calls, troubled, overtaken>>
    BY <1>1 DEF DeleteTeam, vars, history
  <2> QED
    BY <2>1, NameStays DEF NameInv
<1> QED
  BY <1>1, NameMember, NameServer, NameTakes DEF Next

\* The name a browser shows is the team its requests count for, as soon as none of
\* its calls is away: TakeName, the logins and Logout keep activeTeam and the cookie
\* together, but for calls that failed and answers overtaken by a later login.
THEOREM NamesAreTheCookies == Spec => []NameIsTheCookies
<1>1. NameInv => NameIsTheCookies
  BY DEF NameInv, NameOK, NameIsTheCookies, Of
<1>2. Spec => []NameInv
  BY Always, NameInitially, NameInductive, PTL DEF Spec
<1> QED
  BY <1>1, <1>2, PTL

(***************************************************************************)
(* The passcode on a page is that page's team's.                           *)
(***************************************************************************)
Opens(m, team, code) ==
    m \in overtaken \/ code \in unpatched \/ (team \in Teams /\ code \in written[team])

\* An answer's passcode will be shown for c.team; a reset will be done for c.cookie.
CodeOK(c) ==
    /\ c.kind \in {"join", "reset"} /\ c.code # 0 => Opens(c.from, c.team, c.code)
    /\ c.kind = "reset" => c.team = c.cookie \/ c.from \in overtaken

CodesOK == \A c \in calls : CodeOK(c)

ToldOK(m) == page[m].told # 0 => Opens(m, page[m].team, page[m].told)

FollowsOK(m) == m \in overtaken \/ activeTeam[m] \in {cookie[m], NoTeam}

ShownInv == CodesOK /\ \A m \in Members : ToldOK(m) /\ FollowsOK(m)

\* What has opened a team has opened it for good.
Later ==
    /\ overtaken \subseteq overtaken' /\ unpatched \subseteq unpatched'
    /\ \A t \in Teams : written[t] \subseteq written'[t]

SameCall(c, d) ==
    /\ c.from = d.from /\ c.kind = d.kind /\ c.team = d.team /\ c.code = d.code
    /\ c.cookie = d.cookie

LEMMA CodeLater ==
  ASSUME Later, NEW c, CodeOK(c), NEW d, SameCall(c, d)
  PROVE  CodeOK(d)'
<1>1. Opens(c.from, c.team, c.code) => Opens(d.from, d.team, d.code)'
  BY DEF Later, Opens, SameCall
<1> QED
  BY <1>1 DEF CodeOK, SameCall, Later

LEMMA UnmountedSame ==
  ASSUME NEW cs, AllOK(cs), NEW m, NEW kinds, NEW d \in Unmounted(cs, m, kinds)
  PROVE  \E c \in cs : SameCall(c, d)
<1>1. PICK c \in cs : d = IF c.from = m /\ c.kind \in kinds THEN [c EXCEPT !.mounted = FALSE] ELSE c
  BY DEF Unmounted
<1>2. CallOK(c)
  BY DEF AllOK
<1>3. CASE d = c
  BY <1>3 DEF SameCall
<1>4. CASE d = [c EXCEPT !.mounted = FALSE]
  <2>1. d = [id |-> c.id, from |-> c.from, kind |-> c.kind, team |-> c.team, code |-> c.code,
             cookie |-> c.cookie, mounted |-> FALSE, reply |-> c.reply]
    BY <1>2, <1>4 DEF CallOK
  <2> QED
    BY <2>1 DEF SameCall
<1> QED
  BY <1>1, <1>3, <1>4

\* Everybody else's page, name and cookie stay.
OthersStay(m) ==
    \A n \in Members : n # m =>
        page'[n] = page[n] /\ activeTeam'[n] = activeTeam[n] /\ cookie'[n] = cookie[n]

LEMMA ShownStep ==
  ASSUME ShownInv, Later, NEW m \in Members, OthersStay(m),
         \A d \in calls' : (\E c \in calls : SameCall(c, d)) \/ CodeOK(d)',
         ToldOK(m)', FollowsOK(m)'
  PROVE  ShownInv'
<1>1. CodesOK'
  BY CodeLater DEF ShownInv, CodesOK
<1>2. ASSUME NEW n \in Members, n # m
      PROVE  ToldOK(n)' /\ FollowsOK(n)'
  <2>1. page'[n] = page[n] /\ activeTeam'[n] = activeTeam[n] /\ cookie'[n] = cookie[n]
    BY <1>2 DEF OthersStay
  <2>2. ToldOK(n)'
    BY <2>1 DEF Later, Opens, ShownInv, ToldOK
  <2>3. FollowsOK(n)'
    BY <2>1 DEF Later, ShownInv, FollowsOK
  <2> QED
    BY <2>2, <2>3
<1> QED
  BY <1>1, <1>2 DEF ShownInv

\* A page that keeps its team and passcode.
LEMMA ToldStays ==
  ASSUME ShownInv, Later, NEW m \in Members,
         page'[m].team = page[m].team /\ page'[m].told = page[m].told
  PROVE  ToldOK(m)'
BY DEF Later, Opens, ShownInv, ToldOK

LEMMA FollowsStays ==
  ASSUME ShownInv, Later, NEW m \in Members, activeTeam'[m] = activeTeam[m], cookie'[m] = cookie[m]
  PROVE  FollowsOK(m)'
BY DEF Later, ShownInv, FollowsOK

LEMMA FormShows ==
  ASSUME PagesOK, NEW m \in Members, NEW busy, NEW failed, NEW seen,
         \/ page' = [page EXCEPT ![m].busy = busy]
         \/ page' = [page EXCEPT ![m].busy = busy, ![m].failed = failed]
         \/ page' = [page EXCEPT ![m].failed = failed, ![m].busy = busy]
         \/ page' = [page EXCEPT ![m].seen = seen]
  PROVE  /\ page'[m].team = page[m].team /\ page'[m].told = page[m].told
         /\ \A n \in Members : n # m => page'[n] = page[n]
<1>1. PICK p : PageOK(p) /\ SameRoute(p, page[m]) /\ page' = [page EXCEPT ![m] = p]
  BY FormPage
<1> QED
  BY <1>1 DEF SameRoute, PagesOK

LEMMA GoToShows ==
  ASSUME PagesOK, NEW m \in Members, NEW p, NEW cs, AllOK(cs), GoTo(m, p, cs)
  PROVE  /\ page'[m].team = p.team /\ page'[m].told = p.told
         /\ \A n \in Members : n # m => page'[n] = page[n]
         /\ \A d \in calls' : \E c \in cs : SameCall(c, d)
<1>1. page = [n \in Members |-> page[n]] /\ PageOK(page[m])
  BY DEF PagesOK
<1>2. \A c \in cs : SameCall(c, c)
  BY DEF SameCall
<1>3. CASE p.at = page[m].at
  <2> DEFINE g == page[m]
             h == [g EXCEPT !.team = p.team]
             q == [h EXCEPT !.told = p.told]
  <2>1. page' = [page EXCEPT ![m] = q] /\ calls' = cs
    BY <1>3 DEF GoTo
  <2>2. h = [at |-> g.at, team |-> p.team, told |-> g.told, busy |-> g.busy,
             failed |-> g.failed, seen |-> g.seen]
    BY <1>1 DEF PageOK
  <2> HIDE DEF g, h
  <2>3. q.team = p.team /\ q.told = p.told
    BY <2>2
  <2> HIDE DEF q
  <2> QED
    BY <1>1, <1>2, <2>1, <2>3
<1>4. CASE p.at # page[m].at
  <2>1. page' = [page EXCEPT ![m] = p] /\ calls' \subseteq Unmounted(cs, m, {"join", "passcode"})
    BY <1>4 DEF GoTo
  <2>2. \A d \in calls' : \E c \in cs : SameCall(c, d)
    BY <2>1, UnmountedSame
  <2> QED
    BY <1>1, <2>1, <2>2
<1> QED
  BY <1>3, <1>4

LEMMA SameTwice ==
  ASSUME NEW c, NEW d, NEW e, SameCall(c, d), SameCall(d, e)
  PROVE  SameCall(c, e)
BY DEF SameCall

\* A form's, a poll's or a question's request shows no passcode.
LEMMA PlainCode ==
  ASSUME NEW m, NEW id, NEW kind, kind # "reset", NEW team, NEW code, kind = "join" => code = 0,
         NEW mounted, NEW r, r = Request(m, id, kind, team, code, mounted)
  PROVE  CodeOK(r)'
<1>1. r.kind = kind /\ r.code = code
  BY DEF Request
<1> QED
  BY <1>1 DEF CodeOK

LEMMA ShownMember ==
  ASSUME Inv, ShownInv, NEW m \in Members,
         \/ SubmitName(m) \/ SubmitPasscode(m) \/ AutoJoin(m) \/ Poll(m)
         \/ Visit(m) \/ CloseMenu(m) \/ ResetPasscode(m) \/ Logout(m)
  PROVE  ShownInv'
<1>1. UNCHANGED <<cookie, written, unpatched, overtaken>>
  BY DEF SubmitName, SubmitPasscode, AutoJoin, Poll, Visit, CloseMenu, ResetPasscode, Logout,
         history, server
<1>2. Later
  BY <1>1 DEF Later
<1>3. PagesOK /\ AllOK(calls) /\ activeTeam \in [Members -> Known]
  BY DEF Inv, CallsOK, BrowserOK
<1>4. \A c \in calls : SameCall(c, c)
  BY DEF SameCall
<1>5. FollowsOK(m)' /\ \A n \in Members : n # m => activeTeam'[n] = activeTeam[n]
  <2>1. CASE UNCHANGED activeTeam
    BY <1>1, <1>2, <2>1, FollowsStays
  <2>2. CASE Logout(m)
    <3>1. activeTeam' = [activeTeam EXCEPT ![m] = NoTeam]
      BY <2>2 DEF Logout
    <3> QED
      BY <1>3, <3>1 DEF FollowsOK
  <2> QED
    BY <2>1, <2>2 DEF SubmitName, SubmitPasscode, AutoJoin, Poll, Visit, CloseMenu, ResetPasscode
<1>6. /\ ToldOK(m)' /\ \A n \in Members : n # m => page'[n] = page[n]
  <2>1. CASE UNCHANGED page
    BY <1>2, <2>1, ToldStays
  <2>2. CASE SubmitName(m) \/ SubmitPasscode(m) \/ AutoJoin(m)
    <3>1. \/ page' = page \/ page' = [page EXCEPT ![m].busy = TRUE]
          \/ page' = [page EXCEPT ![m].busy = TRUE, ![m].failed = FALSE]
      BY <2>2 DEF SubmitName, SubmitPasscode, AutoJoin
    <3> DEFINE busy == TRUE
               failed == FALSE
    <3>2. \/ page' = page \/ page' = [page EXCEPT ![m].busy = busy]
          \/ page' = [page EXCEPT ![m].busy = busy, ![m].failed = failed]
      BY <3>1
    <3> HIDE DEF busy, failed
    <3>3. CASE page' = [page EXCEPT ![m].busy = busy]
      BY <1>2, <1>3, <3>3, FormShows, ToldStays
    <3>4. CASE page' = [page EXCEPT ![m].busy = busy, ![m].failed = failed]
      BY <1>2, <1>3, <3>4, FormShows, ToldStays
    <3> QED
      BY <2>1, <3>2, <3>3, <3>4
  <2>3. CASE Visit(m)
    <3>1. PICK p \in {Home(m), Scores} : GoTo(m, p, calls)
      BY <2>3 DEF Visit
    <3>2. p.told = 0
      BY <3>1 DEF Home, Scores, JoinForm, AdminPage, StatusOf, Page
    <3>3. page'[m].told = 0 /\ \A n \in Members : n # m => page'[n] = page[n]
      BY <1>3, <3>1, <3>2, GoToShows
    <3> QED
      BY <3>3 DEF ToldOK
  <2> QED
    BY <2>1, <2>2, <2>3 DEF Poll, CloseMenu, ResetPasscode, Logout
<1>7. \A d \in calls' : (\E c \in calls : SameCall(c, d)) \/ CodeOK(d)'
  <2>1. CASE SubmitName(m)
    <3> DEFINE id == Min(FreeIds(m, "join"))
    <3>1. PICK team : calls' = calls \cup {Request(m, id, "join", team, 0, TRUE)}
      BY <2>1 DEF SubmitName, Plus
    <3> HIDE DEF id
    <3> QED
      BY <1>4, <3>1, PlainCode
  <2>2. CASE SubmitPasscode(m)
    <3> DEFINE id == Min(FreeIds(m, "passcode"))
    <3>1. PICK team, code : calls' = calls \cup {Request(m, id, "passcode", team, code, TRUE)}
      BY <2>2 DEF SubmitPasscode, Plus
    <3> HIDE DEF id
    <3> QED
      BY <1>4, <3>1, PlainCode
  <2>3. CASE AutoJoin(m)
    <3>1. PICK team, code, mounted :
             calls' = calls \cup {Request(m, 0, "passcode", team, code, mounted)}
      BY <2>3 DEF AutoJoin
    <3> QED
      BY <1>4, <3>1, PlainCode
  <2>4. CASE Poll(m)
    <3> DEFINE id == Min(FreeIds(m, "poll"))
    <3>1. calls' = calls \cup {Request(m, id, "poll", NoTeam, 0, TRUE)}
      BY <2>4 DEF Poll, Plus
    <3> HIDE DEF id
    <3> QED
      BY <1>4, <3>1, PlainCode
  <2>5. CASE Visit(m)
    BY <1>3, <2>5, GoToShows DEF Visit
  <2>6. CASE CloseMenu(m)
    BY <1>3, <2>6, UnmountedSame DEF CloseMenu
  \* The name a reset is asked under is the cookie's.
  <2>7. CASE ResetPasscode(m)
    <3> DEFINE id == Min(FreeIds(m, "reset"))
    <3>1. PICK r : /\ r = Request(m, id, "reset", activeTeam[m], 0, TRUE)
                   /\ calls' = calls \cup {r}
      BY <2>7 DEF ResetPasscode, Plus
    <3>2. r.from = m /\ r.kind = "reset" /\ r.code = 0 /\ r.team = activeTeam[m] /\ r.cookie = cookie[m]
      BY <3>1 DEF Request
    <3>3. activeTeam[m] \in Teams /\ FollowsOK(m)
      BY <2>7 DEF ResetPasscode, ShownInv
    <3>4. m \in overtaken \/ activeTeam[m] = cookie[m]
      BY <3>3, SessionAssumption DEF FollowsOK
    <3>5. CodeOK(r)'
      BY <1>1, <3>2, <3>4 DEF CodeOK
    <3> QED
      BY <1>4, <3>1, <3>5
  <2>8. CASE Logout(m)
    <3> DEFINE id == Min(FreeIds(m, "logout"))
               mounted == TRUE
    <3>1. PICK r : /\ r = Request(m, id, "logout", NoTeam, 0, mounted)
                   /\ calls' = Unmounted(calls \cup {r}, m, {"reset"})
      BY <2>8 DEF Logout, Plus
    <3> HIDE DEF id, mounted
    <3>2. CallOK(r) /\ r.kind = "logout"
      BY <3>1, RequestOK DEF Inv, Kinds, Known
    <3> DEFINE cs == calls \cup {r}
    <3>3. AllOK(cs)
      BY <1>3, <3>2 DEF AllOK
    <3>4. \A d \in calls' : \E c \in cs : SameCall(c, d)
      BY <3>1, <3>3, UnmountedSame
    <3>5. \A d : SameCall(r, d) => CodeOK(d)'
      BY <3>2 DEF SameCall, CodeOK
    <3> QED
      BY <3>4, <3>5
  <2> QED
    BY <2>1, <2>2, <2>3, <2>4, <2>5, <2>6, <2>7, <2>8
<1>8. OthersStay(m)
  BY <1>1, <1>5, <1>6 DEF OthersStay
<1> QED
  BY <1>2, <1>5, <1>6, <1>7, <1>8, ShownStep

\* The passcode of an answer was written to the team it names, or, by a reset, to
\* the team of the cookie.
LEMMA ShownServer ==
  ASSUME Inv, ShownInv, NEW c \in calls, Serve(c)
  PROVE  ShownInv'
<1>1. UNCHANGED <<cookie, activeTeam, page, overtaken>>
  BY DEF Serve, TeamStatusMe, AdminLogin, CreateTeam, JoinExistingTeam, HandleResetPasscode,
         browser, history
<1>2. ServerOK /\ CallOK(c) /\ CodeOK(c)
  BY DEF Inv, CallsOK, AllOK, ShownInv, CodesOK
<1>3. Later
  <2>1. \A team, code : Write(team, code) => \A t \in Teams : written[t] \subseteq written'[t]
    BY <1>2 DEF Write, ServerOK
  <2>2. unpatched \subseteq unpatched' /\ (written' = written \/ \E team, code : Write(team, code))
    BY DEF Serve, TeamStatusMe, AdminLogin, CreateTeam, JoinExistingTeam, HandleResetPasscode,
           Patch, server
  <2> QED
    BY <1>1, <2>1, <2>2 DEF Later
<1>4. PICK reply, code :
         /\ Reply(c, reply, code)
         /\ c.kind \in {"join", "reset"} /\ code # 0 => Opens(c.from, c.team, code)'
  <2>1. CASE TeamStatusMe(c) \/ AdminLogin(c) \/ JoinExistingTeam(c)
    BY <2>1 DEF TeamStatusMe, AdminLogin, JoinExistingTeam
  <2>2. CASE CreateTeam(c)
    <3> DEFINE code == issued'
    <3>1. CASE Reply(c, "full", 0)
      BY <3>1
    <3>2. CASE c.team \in Teams /\ Write(c.team, code) /\ Reply(c, "created", code)
      <4> HIDE DEF code
      <4>1. code \in written'[c.team]
        BY <1>2, <3>2 DEF Write, ServerOK
      <4> QED
        BY <3>2, <4>1 DEF Opens
    <3> QED
      BY <2>2, <3>1, <3>2 DEF CreateTeam
  <2>3. CASE HandleResetPasscode(c)
    <3> DEFINE code == issued'
    <3>1. CASE Reply(c, "error", 0)
      BY <3>1
    <3>2. CASE c.cookie \in Teams /\ Patch(c.cookie, code) /\ Reply(c, "reset", code)
      <4>1. c.team = c.cookie \/ c.from \in overtaken
        BY <1>2, <2>3 DEF HandleResetPasscode, Asked, CodeOK
      <4> HIDE DEF code
      <4>2. code \in written'[c.cookie] \/ code \in unpatched'
        BY <1>2, <3>2 DEF Patch, Write, ServerOK
      <4> QED
        BY <1>1, <3>2, <4>1, <4>2 DEF Opens
    <3> QED
      BY <2>3, <3>1, <3>2 DEF HandleResetPasscode
  <2> QED
    BY <2>1, <2>2, <2>3 DEF Serve
<1>5. PICK d : /\ calls' = (calls \ {c}) \cup {d}
               /\ d = [id |-> c.id, from |-> c.from, kind |-> c.kind, team |-> c.team, code |-> code,
                       cookie |-> c.cookie, mounted |-> c.mounted, reply |-> reply]
  BY <1>2, <1>4, Replied
<1>6. d.from = c.from /\ d.kind = c.kind /\ d.team = c.team /\ d.code = code /\ d.cookie = c.cookie
  BY <1>5
<1>7. CodeOK(d)'
  BY <1>1, <1>2, <1>4, <1>6 DEF CodeOK
<1>8. \A b \in calls : SameCall(b, b)
  BY DEF SameCall
<1>9. \A b \in calls' : (\E e \in calls : SameCall(e, b)) \/ CodeOK(b)'
  BY <1>5, <1>7, <1>8
<1>10. c.from \in Members
  BY <1>2 DEF CallOK
<1>11. ToldOK(c.from)' /\ FollowsOK(c.from)' /\ OthersStay(c.from)
  BY <1>1, <1>3, <1>10, ToldStays, FollowsStays DEF OthersStay
<1> QED
  BY <1>3, <1>9, <1>10, <1>11, ShownStep

LEMMA ShownTakes ==
  ASSUME Inv, ShownInv, NEW c \in calls, Take(c) \/ Fail(c)
  PROVE  ShownInv'
<1> DEFINE m == c.from
           rest == calls \ {c}
<1>1. m \in Members /\ CallOK(c) /\ CodeOK(c) /\ PagesOK /\ AllOK(rest)
  BY DEF Inv, CallsOK, AllOK, CallOK, ShownInv, CodesOK
<1>2. cookie \in [Members -> Known] /\ activeTeam \in [Members -> Known]
  BY DEF Inv, BrowserOK
<1>3. Later
  BY DEF Later, Take, TakeName, TakePoll, TakeJoin, TakePasscode, TakeReset, TakeLogout, Fail,
         history, server
<1>4. \A d \in rest : SameCall(d, d)
  BY DEF SameCall
<1>5. rest \subseteq calls
  OBVIOUS
<1>6. ASSUME NEW cs \in {rest, Unmounted(rest, m, {"reset"})}
      PROVE  AllOK(cs) /\ \A d \in cs : \E b \in calls : SameCall(b, d)
  <2>1. CASE cs = rest
    BY <1>1, <1>4, <1>5, <2>1
  <2>2. CASE cs = Unmounted(rest, m, {"reset"})
    <3>1. OnePoll(rest)
      BY OverOK DEF Inv
    <3> HIDE DEF rest
    <3>2. AllOK(cs)
      BY <1>1, <2>2, <3>1, UnmountedOK
    <3> QED
      BY <1>1, <1>5, <2>2, <3>2, UnmountedSame
  <2> QED
    BY <1>6, <2>1, <2>2
\* The passcode, the name and the cookie after a navigation.
<1>7. ASSUME NEW p, NEW cs \in {rest, Unmounted(rest, m, {"reset"})}, GoTo(m, p, cs),
             p.told # 0 => Opens(m, p.team, p.told)
      PROVE  /\ \A d \in calls' : \E b \in calls : SameCall(b, d)
             /\ ToldOK(m)' /\ \A n \in Members : n # m => page'[n] = page[n]
  <2>1. /\ page'[m].team = p.team /\ page'[m].told = p.told
        /\ \A n \in Members : n # m => page'[n] = page[n]
        /\ \A d \in calls' : \E b \in cs : SameCall(b, d)
    <3>1. AllOK(cs)
      BY <1>6
    <3>2. PagesOK /\ m \in Members /\ GoTo(m, p, cs)
      BY <1>1, <1>7
    <3> HIDE DEF m, rest
    <3> QED
      BY ONLY <3>1, <3>2, GoToShows
  <2>2. ASSUME NEW d \in calls' PROVE \E b \in calls : SameCall(b, d)
    <3>1. PICK e \in cs : SameCall(e, d)
      BY <2>1
    <3>2. PICK b \in calls : SameCall(b, e)
      BY <1>6
    <3> QED
      BY <3>1, <3>2, SameTwice
  <2>3. ToldOK(m)'
    BY <1>3, <1>7, <2>1 DEF Later, Opens, ToldOK
  <2> QED
    BY <2>1, <2>2, <2>3
<1>8. ASSUME calls' = rest,
             \/ UNCHANGED page
             \/ /\ page'[m].team = page[m].team /\ page'[m].told = page[m].told
                /\ \A n \in Members : n # m => page'[n] = page[n]
      PROVE  /\ \A d \in calls' : \E b \in calls : SameCall(b, d)
             /\ ToldOK(m)' /\ \A n \in Members : n # m => page'[n] = page[n]
  BY <1>1, <1>3, <1>4, <1>5, <1>8, ToldStays
\* The members' names and cookies after an answer.
<1>9. ASSUME NEW team, SetCookie(m, team), SetActiveTeam(m, team)
      PROVE  FollowsOK(m)' /\ \A n \in Members : n # m =>
                cookie'[n] = cookie[n] /\ activeTeam'[n] = activeTeam[n]
  BY <1>1, <1>2, <1>9 DEF SetCookie, SetActiveTeam, FollowsOK
<1>10. ASSUME UNCHANGED <<cookie, activeTeam>>
       PROVE  FollowsOK(m)' /\ \A n \in Members : n # m =>
                 cookie'[n] = cookie[n] /\ activeTeam'[n] = activeTeam[n]
  BY <1>1, <1>3, <1>10, FollowsStays
<1> DEFINE NamesAre == FollowsOK(m)' /\ \A n \in Members : n # m =>
                          cookie'[n] = cookie[n] /\ activeTeam'[n] = activeTeam[n]
           PagesAre == /\ \A d \in calls' : \E b \in calls : SameCall(b, d)
                       /\ ToldOK(m)' /\ \A n \in Members : n # m => page'[n] = page[n]
<1>11. SUFFICES NamesAre /\ PagesAre
  BY <1>1, <1>3, ShownStep DEF OthersStay
<1>12. CASE TakeName(c) \/ TakePoll(c)
  <2>1. calls' = rest /\ UNCHANGED cookie
    BY <1>12 DEF TakeName, TakePoll
  <2>2. \/ UNCHANGED activeTeam
        \/ SetActiveTeam(m, c.cookie) /\ (c.cookie = cookie[m] \/ m \in overtaken')
    BY <1>12 DEF TakeName, TakePoll
  <2>3. NamesAre
    <3>1. CASE UNCHANGED activeTeam
      BY <1>10, <2>1, <3>1
    <3>2. CASE SetActiveTeam(m, c.cookie) /\ (c.cookie = cookie[m] \/ m \in overtaken')
      BY <1>1, <1>2, <2>1, <3>2 DEF SetActiveTeam, FollowsOK
    <3> QED
      BY <2>2, <3>1, <3>2
  <2>4. UNCHANGED page \/ page' = [page EXCEPT ![m].seen = c.cookie]
    BY <1>12 DEF TakeName, TakePoll
  <2>5. PagesAre
    BY <1>1, <1>8, <2>1, <2>4, FormShows
  <2> QED
    BY <2>3, <2>5
<1>13. CASE TakeJoin(c)
  <2>1. c.kind = "join" /\ c.reply \in {"created", "unauthorized", "full"}
    BY <1>1, <1>13 DEF TakeJoin, Answered, CallOK, JoinReplies
  <2>2. CASE c.reply = "created"
    <3> DEFINE p == StatusOf(c.team, c.code)
    <3>1. /\ SetCookie(m, c.team) /\ SetActiveTeam(m, c.team)
          /\ GoTo(m, p, rest)
      BY <1>13, <2>2 DEF TakeJoin
    <3>2. p.team = c.team /\ p.told = c.code
      BY DEF StatusOf, Page
    <3>3. p.told # 0 => Opens(m, p.team, p.told)
      BY <1>1, <2>1, <3>2 DEF CodeOK
    <3> HIDE DEF p, rest, m
    <3> QED
      BY <1>7, <1>9, <3>1, <3>3
  <2>3. CASE c.reply = "unauthorized"
    <3> DEFINE p == JoiningAt(c.team)
    <3>1. GoTo(m, p, rest) /\ UNCHANGED <<cookie, activeTeam>>
      BY <1>13, <2>3 DEF TakeJoin
    <3>2. p.told = 0
      BY DEF JoiningAt, Page
    <3> HIDE DEF p, rest, m
    <3> QED
      BY <1>7, <1>10, <3>1, <3>2
  <2>4. CASE c.reply = "full"
    <3> DEFINE busy == FALSE
               failed == TRUE
    <3>1. /\ page' = IF c.mounted THEN [page EXCEPT ![m].busy = busy, ![m].failed = failed] ELSE page
          /\ calls' = rest /\ UNCHANGED <<cookie, activeTeam>>
      BY <1>13, <2>4 DEF TakeJoin
    <3> HIDE DEF busy, failed
    <3> QED
      BY <1>1, <1>8, <1>10, <3>1, FormShows
  <2> QED
    BY <2>1, <2>2, <2>3, <2>4
<1>14. CASE TakePasscode(c)
  <2>1. CASE c.reply \in {"created", "joined"}
    <3> DEFINE p == IF c.team = Admin THEN AdminPage ELSE StatusOf(c.team, 0)
    <3>1. /\ SetCookie(m, c.team) /\ SetActiveTeam(m, c.team)
          /\ GoTo(m, p, rest)
      BY <1>14, <2>1 DEF TakePasscode
    <3>2. p.told = 0
      BY DEF AdminPage, StatusOf, Page
    <3> HIDE DEF p, rest, m
    <3> QED
      BY <1>7, <1>9, <3>1, <3>2
  <2>2. CASE c.reply \notin {"created", "joined"}
    <3> DEFINE busy == FALSE
               failed == TRUE
    <3>1. /\ page' = IF c.mounted THEN [page EXCEPT ![m].busy = busy, ![m].failed = failed] ELSE page
          /\ calls' = rest /\ UNCHANGED <<cookie, activeTeam>>
      BY <1>14, <2>2 DEF TakePasscode, PasscodeRefused
    <3> HIDE DEF busy, failed
    <3> QED
      BY <1>1, <1>8, <1>10, <3>1, FormShows
  <2> QED
    BY <2>1, <2>2
<1>15. CASE TakeReset(c)
  <2>1. c.kind = "reset" /\ UNCHANGED <<cookie, activeTeam>>
    BY <1>15 DEF TakeReset, Answered
  <2>2. CASE c.reply = "reset"
    <3> DEFINE p == StatusOf(c.team, c.code)
               cs == Unmounted(rest, m, {"reset"})
    <3>1. GoTo(m, p, cs)
      BY <1>15, <2>2 DEF TakeReset
    <3>2. p.team = c.team /\ p.told = c.code
      BY DEF StatusOf, Page
    <3>3. p.told # 0 => Opens(m, p.team, p.told)
      BY <1>1, <2>1, <3>2 DEF CodeOK
    <3>4. cs \in {rest, Unmounted(rest, m, {"reset"})}
      OBVIOUS
    <3> HIDE DEF p, rest, m, cs
    <3> QED
      BY <1>7, <1>10, <2>1, <3>1, <3>3, <3>4
  <2>3. CASE c.reply # "reset"
    <3>1. UNCHANGED page /\ calls' = rest
      BY <1>15, <2>3 DEF TakeReset
    <3> QED
      BY <1>8, <1>10, <2>1, <3>1
  <2> QED
    BY <2>2, <2>3
<1>16. CASE TakeLogout(c)
  <2> DEFINE p == JoinForm
             cs == Unmounted(rest, m, {"reset"})
  <2>1. /\ SetCookie(m, NoTeam) /\ UNCHANGED activeTeam /\ GoTo(m, p, cs)
        /\ activeTeam[m] = NoTeam \/ m \in overtaken'
    BY <1>16 DEF TakeLogout
  <2>2. p.told = 0 /\ cs \in {rest, Unmounted(rest, m, {"reset"})}
    BY DEF JoinForm, Page
  <2>3. NamesAre
    BY <1>1, <1>2, <2>1 DEF SetCookie, FollowsOK
  <2> HIDE DEF p, rest, m, cs
  <2> QED
    BY <1>7, <2>1, <2>2, <2>3
<1>17. CASE Fail(c)
  <2> DEFINE busy == c.kind = "join"
             failed == TRUE
  <2>1. /\ calls' = rest /\ UNCHANGED <<cookie, activeTeam>>
        /\ page' = page \/ page' = [page EXCEPT ![m].failed = failed, ![m].busy = busy]
    BY <1>17 DEF Fail
  <2> HIDE DEF busy, failed, m, rest
  <2>2. CASE page' = [page EXCEPT ![m].failed = failed, ![m].busy = busy]
    <3>1. /\ page'[m].team = page[m].team /\ page'[m].told = page[m].told
          /\ \A n \in Members : n # m => page'[n] = page[n]
      BY <1>1, <2>2, FormShows
    <3> QED
      BY <1>8, <1>10, <2>1, <3>1
  <2>3. CASE page' = page
    BY <1>8, <1>10, <2>1, <2>3
  <2> QED
    BY <2>1, <2>2, <2>3
<1> QED
  BY <1>12, <1>13, <1>14, <1>15, <1>16, <1>17 DEF Take

LEMMA ShownInitially == Init => ShownInv
<1> SUFFICES ASSUME Init PROVE ShownInv
  OBVIOUS
<1>1. \A p \in LandsOn : p.told = 0
  BY DEF LandsOn, JoinForm, AdminPage, Scores, JoiningAt, StatusOf, Page
<1>2. \A m \in Members : page[m].told = 0 /\ activeTeam[m] = NoTeam
  BY <1>1 DEF Init
<1>3. \A m \in Members : CodeOK(WhoAmI(m))
  BY DEF WhoAmI, Request, CodeOK
<1> QED
  BY <1>2, <1>3 DEF Init, ShownInv, CodesOK, ToldOK, FollowsOK

LEMMA ShownInductive == Inv /\ ShownInv /\ [Next]_vars => ShownInv'
<1> SUFFICES ASSUME Inv, ShownInv, [Next]_vars PROVE ShownInv'
  OBVIOUS
<1>1. CASE (\E team \in Teams : DeleteTeam(team)) \/ UNCHANGED vars
  <2>1. UNCHANGED <<cookie, activeTeam, page, calls, written, unpatched, overtaken>>
    BY <1>1 DEF DeleteTeam, vars, history
  <2>2. CodesOK'
    BY <2>1 DEF ShownInv, CodesOK, CodeOK, Opens
  <2>3. \A m \in Members : ToldOK(m)' /\ FollowsOK(m)'
    BY <2>1 DEF ShownInv, ToldOK, FollowsOK, Opens
  <2> QED
    BY <2>2, <2>3 DEF ShownInv
<1> QED
  BY <1>1, ShownMember, ShownServer, ShownTakes DEF Next

\* A passcode shown on a team's page is one that has opened that team: the team a
\* reset was done for (handleResetPasscode, the cookie's) is the one on whose page
\* it is shown (Layout, the active one's), unless the patch failed or one of the
\* member's answers came after a later login.
THEOREM ShownPasscodesOpen == Spec => []ShownPasscodeTookEffect
<1>1. ShownInv => ShownPasscodeTookEffect
  BY DEF ShownInv, ToldOK, Opens, ShownPasscodeTookEffect
<1>2. Spec => []ShownInv
  BY Always, ShownInitially, ShownInductive, PTL DEF Spec
<1> QED
  BY <1>1, <1>2, PTL
====
