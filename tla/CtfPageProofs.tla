----------------------------- MODULE CtfPageProofs -----------------------------
(***************************************************************************)
(* Theorems about the two models of the CTF page.  Of Globe: a globe that  *)
(* can be seen is drawn, and no solved country is forgotten.  Of CtfView:  *)
(* the counts shown are those of the solves the page was told of, they     *)
(* never fall, and each globe gets each solve once.                        *)
(***************************************************************************)
EXTENDS Globe, CtfView, FiniteSetTheorems, SequenceTheorems, TLAPS

-----------------------------------------------------------------------------
(***************************************************************************)
(* GLOBE                                                                   *)
(***************************************************************************)


(***************************************************************************)
(* The loop.                                                               *)
(***************************************************************************)

\* Nothing but the flags of the loop decides whether it goes on.
LoopOK ==
    /\ ready \in BOOLEAN /\ seen \in BOOLEAN /\ context \in BOOLEAN
    /\ running \in BOOLEAN /\ latest \in BOOLEAN
    /\ others \in Nat

LoopInv == LoopOK /\ AliveWhenSeen

LEMMA LoopKept == LoopInv /\ [Next]_vars => LoopInv'
<1> SUFFICES ASSUME LoopInv, [Next]_vars PROVE LoopInv'
  OBVIOUS
<1> USE DEF LoopInv, LoopOK, AliveWhenSeen
<1>1. ASSUME NEW p \in Patterns, TextureLoads(p) PROVE LoopInv'
  BY <1>1 DEF TextureLoads, loop, tab
<1>2. ASSUME NEW c \in Countries,
             AskForTexture(c) \/ createRenderObjects(c) \/ transitionCountryToSolved(c)
      PROVE  LoopInv'
  BY <1>2 DEF AskForTexture, createRenderObjects, transitionCountryToSolved, loop, tab
<1>3. CASE GlobeIsReady
  BY <1>3 DEF GlobeIsReady, RequestFrame, tab
<1>4. CASE handleContextLost
  BY <1>4 DEF handleContextLost, Pause, CancelFrame
<1>5. CASE handleContextRestored
  BY <1>5 DEF handleContextRestored, Resume, RequestFrame
<1>6. CASE handleVisibilityChange
  <2> USE <1>6 DEF handleVisibilityChange, Pause, CancelFrame, Resume, RequestFrame, loop
  <2>1. seen' \in BOOLEAN /\ UNCHANGED <<ready, context>>
    OBVIOUS
  <2>2. others' \in Nat
    BY SMT
  <2>3. running' \in BOOLEAN /\ latest' \in BOOLEAN
    BY ZenonT(30)
  <2>4. AliveWhenSeen'
    BY ZenonT(30)
  <2> QED
    BY <2>1, <2>2, <2>3, <2>4
<1>7. CASE SkipFrame
  <2> USE <1>7 DEF SkipFrame, TakeFrame, tab
  <2>1. UNCHANGED <<ready, seen, context, running>>
    OBVIOUS
  <2>2. others' \in Nat
    <3>1. CASE UNCHANGED others
      BY <3>1
    <3>2. CASE others > 0 /\ others' = others - 1
      BY <3>2
    <3> QED
      BY <3>1, <3>2
  <2>4. latest' \in BOOLEAN
    BY Zenon
  <2>3. ~(running /\ ready) /\ (ready /\ seen /\ context => running)
    OBVIOUS
  <2> QED
    BY <2>1, <2>2, <2>3, <2>4
<1>8. ASSUME NEW d \in 0 .. MaxStep, render(d) PROVE LoopInv'
  BY <1>8 DEF render, tab
<1>9. CASE ControlsStart
  BY <1>9 DEF ControlsStart, loop, tab
<1>10. ASSUME NEW newly \in SUBSET Countries, focusAndHighlightCountries(newly) PROVE LoopInv'
  BY <1>10 DEF focusAndHighlightCountries, loop, tab
<1>11. CASE UNCHANGED vars
  BY <1>11 DEF vars, loop, tab
<1> QED
  BY <1>1, <1>2, <1>3, <1>4, <1>5, <1>6, <1>7, <1>8, <1>9, <1>10, <1>11 DEF Next

\* A globe whose tab is visible and which has its context has a frame to come,
\* whichever of the two pauses (handleVisibilityChange, handleContextLost) ended
\* last.
THEOREM VisibleGlobeIsDrawn == Spec => []AliveWhenSeen
<1>1. Init => LoopInv
  <2> SUFFICES ASSUME Init PROVE LoopOK /\ AliveWhenSeen
    BY DEF LoopInv
  <2>1. LoopOK
    BY DEF Init, LoopOK
  <2>2. ~ready
    BY DEF Init
  <2> QED
    BY <2>1, <2>2 DEF AliveWhenSeen
<1>2. LoopInv => AliveWhenSeen
  BY DEF LoopInv
<1> QED
  BY <1>1, <1>2, LoopKept, PTL DEF Spec

(***************************************************************************)
(* The countries.                                                          *)
(***************************************************************************)
MeshesOK ==
    /\ solved \in SUBSET Countries
    /\ todo \in SUBSET solved
    /\ waiting \in SUBSET Countries
    /\ mesh \in [Countries -> {"solid", "hidden", "pattern"}]
    /\ texture \in [Patterns -> {"none", "loading", "loaded", "failed"}]
    /\ ready \in BOOLEAN

QueueOK ==
    /\ queue \in Seq(Countries)
    /\ sequence \in SequenceState \cup {Nothing}

\* Before the globe is ready only those of the start are worked on, and then
\* none of them.
StartOK ==
    /\ ~ready => queue = <<>> /\ sequence = Nothing /\ waiting = {}
    /\ ready => todo = {}
    /\ \A c \in todo : mesh[c] = "solid"

Current(c) == sequence # Nothing /\ sequence.country = c
Queued(c) == c \in ToSet(queue)

\* Nothing has been done to the country yet.
Fresh(c) == mesh[c] = "solid" /\ c \notin waiting /\ c \notin late

\* A country has one turn: until then it is fresh.
OneTurn ==
    /\ \A i, j \in DOMAIN queue : queue[i] = queue[j] => i = j
    /\ \A c \in Countries : Queued(c) => Fresh(c) /\ c \in solved /\ ~Current(c)
    /\ \A c \in Countries \ solved : Fresh(c) /\ ~Queued(c) /\ ~Current(c)

\* A country that waits for its texture is as it was.
WaitingOK == \A c \in waiting : c \in solved /\ mesh[c] = "solid"

\* What its sequence knows of the country it runs for.
Unmoved(s) ==
    /\ Fresh(s.country)
    /\ s.revealStart = 0 /\ s.highlightStart = 0
    /\ s.elapsed < TransitionStart

Moved(s) ==
    /\ s.elapsed >= TransitionStart
    /\ \/ s.country \in waiting /\ s.revealStart = 0
       \/ /\ s.country \notin waiting /\ mesh[s.country] = "solid" /\ s.revealStart = 0
          /\ texture[Pattern[s.country]] = "failed"
       \/ /\ s.country \notin waiting /\ mesh[s.country] = "hidden"
          /\ s.revealStart # 0 /\ s.revealStart <= s.elapsed
          /\ s.highlightStart # 0 => s.revealStart <= s.highlightStart
       \/ s.country \notin waiting /\ mesh[s.country] = "pattern"
    /\ s.highlightStart # 0 => mesh[s.country] # "solid" /\ s.highlightStart <= s.elapsed

Story(s) ==
    /\ s.country \in solved
    /\ IF s.transitioned THEN Moved(s) ELSE Unmoved(s)

StoryOK == sequence # Nothing => Story(sequence)

\* The same as EveryPatternShows, country by country.
Shows(c) ==
    \/ c \in todo \cup waiting \/ Queued(c) \/ Current(c)
    \/ mesh[c] = "pattern"
    \/ mesh[c] = "solid" /\ texture[Pattern[c]] = "failed"
    \/ mesh[c] = "hidden" /\ c \in late

ShowsInv ==
    /\ MeshesOK /\ QueueOK /\ StartOK
    /\ OneTurn
    /\ WaitingOK
    /\ StoryOK
    /\ \A c \in solved : Shows(c)

\* An order of a finite set holds each of its elements once.
LEMMA OrdersAreWhole ==
  ASSUME NEW S, IsFiniteSet(S), NEW f \in SetToSeqs(S)
  PROVE  f \in Seq(S) /\ ToSet(f) = S /\ \A i, j \in DOMAIN f : f[i] = f[j] => i = j
<1> DEFINE n == Cardinality(S)
<1>1. n \in Nat
  BY FS_CardinalityType
<1>2. f \in [1 .. n -> S] /\ \A i, j \in 1 .. n : i # j => f[i] # f[j]
  BY DEF SetToSeqs
<1>3. IsFiniteSet(1 .. n) /\ Cardinality(1 .. n) = n
  BY <1>1, FS_Interval
<1> HIDE DEF n
<1>4. f \in Seq(S)
  BY <1>1, <1>2
<1>5. f \in Injection(1 .. n, S)
  BY <1>2 DEF Injection, IsInjective
<1>6. f \in Surjection(1 .. n, S)
  BY <1>3, <1>5, FS_Injection DEF n
<1>7. ToSet(f) = S
  BY <1>2, <1>6 DEF Surjection, ToSet
<1> QED
  BY <1>2, <1>4, <1>7

\* The rest of a queue holds all but its head.
LEMMA Popped ==
  ASSUME NEW q \in Seq(Countries), q # <<>>, \A i, j \in DOMAIN q : q[i] = q[j] => i = j
  PROVE  /\ Head(q) \in Countries /\ Head(q) \in ToSet(q)
         /\ Tail(q) \in Seq(Countries)
         /\ ToSet(Tail(q)) = ToSet(q) \ {Head(q)}
         /\ \A i, j \in DOMAIN Tail(q) : Tail(q)[i] = Tail(q)[j] => i = j
<1> DEFINE r == Tail(q)
<1>1. /\ Head(q) \in Countries /\ r \in Seq(Countries)
      /\ Len(r) = Len(q) - 1
      /\ \A i \in 1 .. Len(r) : r[i] = q[i + 1]
  BY HeadTailProperties
<1>2. /\ Len(q) \in Nat \ {0} /\ DOMAIN q = 1 .. Len(q) /\ Head(q) = q[1]
      /\ DOMAIN r = 1 .. Len(r)
  BY <1>1, LenProperties, EmptySeq
<1> HIDE DEF r
<1>3. \A i, j \in DOMAIN r : r[i] = r[j] => i = j
  BY <1>1, <1>2, SMTT(20)
<1>4. ASSUME NEW i \in DOMAIN r PROVE r[i] \in ToSet(q) \ {Head(q)}
  <2>1. i + 1 \in DOMAIN q /\ i + 1 # 1 /\ 1 \in DOMAIN q /\ r[i] = q[i + 1]
    BY <1>1, <1>2
  <2> QED
    BY <2>1, <1>2 DEF ToSet
<1>5. ASSUME NEW i \in DOMAIN q, q[i] # Head(q) PROVE q[i] \in ToSet(r)
  <2>1. i - 1 \in DOMAIN r /\ r[i - 1] = q[i]
    BY <1>1, <1>2, <1>5
  <2> QED
    BY <2>1 DEF ToSet
<1>6. ToSet(r) = ToSet(q) \ {Head(q)}
  BY <1>4, <1>5 DEF ToSet
<1>7. Head(q) \in ToSet(q)
  BY <1>2 DEF ToSet
<1> QED
  BY <1>1, <1>3, <1>6, <1>7 DEF r

\* Two queues with nothing in common, one behind the other.
LEMMA Appended ==
  ASSUME NEW q \in Seq(Countries), \A i, j \in DOMAIN q : q[i] = q[j] => i = j,
         NEW o \in Seq(Countries), \A i, j \in DOMAIN o : o[i] = o[j] => i = j,
         ToSet(q) \cap ToSet(o) = {}
  PROVE  /\ q \o o \in Seq(Countries)
         /\ ToSet(q \o o) = ToSet(q) \cup ToSet(o)
         /\ \A i, j \in DOMAIN (q \o o) : (q \o o)[i] = (q \o o)[j] => i = j
<1> DEFINE r == q \o o
<1>1. /\ r \in Seq(Countries)
      /\ Len(r) = Len(q) + Len(o)
      /\ \A i \in 1 .. Len(q) + Len(o) : r[i] = IF i <= Len(q) THEN q[i] ELSE o[i - Len(q)]
  BY ConcatProperties
<1>2. /\ Len(q) \in Nat /\ DOMAIN q = 1 .. Len(q)
      /\ Len(o) \in Nat /\ DOMAIN o = 1 .. Len(o)
      /\ DOMAIN r = 1 .. Len(r)
  BY <1>1, LenProperties
<1> HIDE DEF r
<1>3. \A i \in DOMAIN q : i \in DOMAIN r /\ r[i] = q[i]
  BY <1>1, <1>2
<1>4. \A i \in DOMAIN o : i + Len(q) \in DOMAIN r /\ r[i + Len(q)] = o[i]
  BY <1>1, <1>2
<1>5. ASSUME NEW i \in DOMAIN r
      PROVE  \/ i \in DOMAIN q /\ r[i] = q[i]
             \/ i - Len(q) \in DOMAIN o /\ r[i] = o[i - Len(q)]
  BY <1>1, <1>2
<1>6. ToSet(r) = ToSet(q) \cup ToSet(o)
  BY <1>3, <1>4, <1>5 DEF ToSet
<1>7. ASSUME NEW i \in DOMAIN r, NEW j \in DOMAIN r, r[i] = r[j] PROVE i = j
  <2>1. i \in Int /\ j \in Int
    BY <1>1, <1>2
  <2>2. CASE i \in DOMAIN q /\ j \in DOMAIN q
    BY <1>3, <1>7, <2>2
  <2>3. CASE i - Len(q) \in DOMAIN o /\ j - Len(q) \in DOMAIN o
                /\ r[i] = o[i - Len(q)] /\ r[j] = o[j - Len(q)]
    <3>1. i - Len(q) = j - Len(q)
      BY <1>7, <2>3
    <3> QED
      BY <1>2, <2>1, <3>1
  <2>4. \A k \in DOMAIN q, l \in DOMAIN o : q[k] # o[l]
    BY DEF ToSet
  <2> QED
    BY <1>5, <1>7, <2>2, <2>3, <2>4
<1> QED
  BY <1>1, <1>6, <1>7 DEF r

\* The files that failed stay failed.
TexturesKept ==
    /\ texture' \in [Patterns -> {"none", "loading", "loaded", "failed"}]
    /\ \A p \in Patterns : texture[p] = "failed" => texture'[p] = "failed"

LEMMA Asked ==
  ASSUME MeshesOK, NEW p \in Patterns, texture' = loadTexture(p)
  PROVE  TexturesKept
BY DEF MeshesOK, TexturesKept, loadTexture

\* Steps that change no country, but for the textures.
LEMMA TextureOnly ==
  ASSUME ShowsInv, TexturesKept,
         UNCHANGED <<todo, ready, solved, mesh, waiting, late, queue, sequence>>
  PROVE  ShowsInv'
<1> USE DEF ShowsInv, TexturesKept
<1>1. MeshesOK' /\ QueueOK' /\ StartOK'
  BY DEF MeshesOK, QueueOK, StartOK
<1>2. OneTurn' /\ WaitingOK'
  BY DEF OneTurn, WaitingOK, Queued, Fresh, Current
<1>3. \A c \in Countries : Pattern[c] \in Patterns
  BY GlobeAssumption
<1>4. solved \subseteq Countries
  BY DEF MeshesOK
<1>5. StoryOK'
  BY <1>3, <1>4 DEF StoryOK, Story, Moved, Unmoved, Fresh
<1>6. \A c \in solved' : Shows(c)'
  BY <1>3, <1>4 DEF Shows, Queued, Current
<1> QED
  BY <1>1, <1>2, <1>5, <1>6

LEMMA CreatedKept ==
  ASSUME ShowsInv, NEW k \in Countries, createRenderObjects(k)
  PROVE  ShowsInv'
<1> USE DEF ShowsInv
<1>1. /\ k \in todo /\ k \in solved /\ mesh[k] = "solid"
      /\ todo' = todo \ {k}
      /\ UNCHANGED <<ready, solved, texture, waiting, late, queue, sequence>>
      /\ mesh' \in [Countries -> {"solid", "hidden", "pattern"}]
      /\ \A c \in Countries \ {k} : mesh'[c] = mesh[c]
      /\ mesh'[k] = "pattern" \/ (mesh'[k] = "solid" /\ texture[Pattern[k]] = "failed")
  <2>1. /\ k \in todo /\ k \in solved /\ mesh[k] = "solid"
        /\ todo' = todo \ {k}
        /\ UNCHANGED <<ready, solved, texture, waiting, late, queue, sequence>>
    BY DEF createRenderObjects, animator, StartOK, MeshesOK
  <2>2. CASE texture[Pattern[k]] = "loaded"
    <3>1. mesh' = [mesh EXCEPT ![k] = "pattern"]
      BY <2>2 DEF createRenderObjects
    <3>2. /\ mesh' \in [Countries -> {"solid", "hidden", "pattern"}]
          /\ mesh'[k] = "pattern"
          /\ \A c \in Countries \ {k} : mesh'[c] = mesh[c]
      BY <2>1, <3>1 DEF MeshesOK
    <3> QED
      BY <2>1, <3>2
  <2>3. CASE texture[Pattern[k]] # "loaded"
    <3>1. texture[Pattern[k]] = "failed"
      BY <2>3 DEF createRenderObjects, There
    <3>2. mesh' = [mesh EXCEPT ![k] = mesh[k]]
      BY <2>3 DEF createRenderObjects
    <3> QED
      BY <2>1, <3>1, <3>2 DEF MeshesOK
  <2> QED
    BY <2>2, <2>3
<1>2. queue = <<>> /\ sequence = Nothing /\ waiting = {}
  BY <1>1 DEF StartOK
<1>3. \A c : ~Queued(c) /\ ~Current(c) /\ ~Queued(c)' /\ ~Current(c)'
  <2>1. ToSet(<<>>) = {}
    <3>1. DOMAIN <<>> = {}
      BY EmptySeq, LenProperties
    <3> QED
      BY <3>1 DEF ToSet
  <2>2. ToSet(queue) = {} /\ ToSet(queue') = {} /\ sequence' = Nothing
    BY <1>1, <1>2, <2>1
  <2> QED
    BY <1>2, <2>2 DEF Queued, Current
<1>4. MeshesOK' /\ QueueOK' /\ StartOK'
  BY <1>1 DEF MeshesOK, QueueOK, StartOK
<1>5. OneTurn'
  BY <1>1, <1>3 DEF OneTurn, Fresh, MeshesOK
<1>6. WaitingOK' /\ StoryOK'
  BY <1>1, <1>2 DEF WaitingOK, StoryOK
<1>7. ASSUME NEW c \in solved PROVE Shows(c)'
  <2>1. CASE c = k
    BY <1>1, <2>1 DEF Shows
  <2>2. CASE c # k
    <3>1. mesh'[c] = mesh[c]
      BY <1>1, <2>2 DEF MeshesOK
    <3> QED
      BY <1>1, <1>2, <1>3, <2>2, <3>1 DEF Shows
  <2> QED
    BY <2>1, <2>2
<1> QED
  BY <1>1, <1>4, <1>5, <1>6, <1>7

LEMMA ReadyKept ==
  ASSUME ShowsInv, GlobeIsReady
  PROVE  ShowsInv'
<1> USE DEF ShowsInv
<1>1. ready' = TRUE /\ todo = {}
      /\ UNCHANGED <<todo, solved, mesh, texture, waiting, late, queue, sequence>>
  BY DEF GlobeIsReady, countries, animator
<1>2. MeshesOK' /\ QueueOK' /\ StartOK'
  BY <1>1 DEF MeshesOK, QueueOK, StartOK
<1>3. OneTurn' /\ WaitingOK'
  BY <1>1 DEF OneTurn, WaitingOK, Queued, Fresh, Current
<1>4. StoryOK'
  BY <1>1 DEF StoryOK, Story, Moved, Unmoved, Fresh
<1>5. \A c \in solved' : Shows(c)'
  BY <1>1 DEF Shows, Queued, Current
<1> QED
  BY <1>2, <1>3, <1>4, <1>5

\* What a transition finds: its country waited, as it was, and if its sequence still
\* runs the pattern has not begun to spread.
LEMMA TransitionKept ==
  ASSUME ShowsInv, NEW k \in Countries, transitionCountryToSolved(k)
  PROVE  ShowsInv'
<1> USE DEF ShowsInv
<1>1. /\ k \in waiting /\ k \in solved /\ mesh[k] = "solid"
      /\ waiting' = waiting \ {k}
      /\ UNCHANGED <<todo, ready, solved, texture, queue>>
  BY DEF transitionCountryToSolved, WaitingOK
<1>2. ready
  BY <1>1 DEF StartOK, MeshesOK
<1>3. ~Queued(k)
  BY <1>1 DEF OneTurn, Fresh
<1>4. /\ mesh' \in [Countries -> {"solid", "hidden", "pattern"}]
      /\ \A c \in Countries \ {k} : mesh'[c] = mesh[c]
      /\ \/ texture[Pattern[k]] = "failed" /\ mesh'[k] = "solid"
         \/ texture[Pattern[k]] = "loaded" /\ mesh'[k] \in {"pattern", "hidden"}
  BY <1>1 DEF transitionCountryToSolved, There, MeshesOK
<1>5. MeshesOK' /\ StartOK'
  <2>1. k \notin todo
    BY <1>2 DEF StartOK
  <2>2. todo' = {}
    BY <1>1, <1>2 DEF StartOK
  <2> QED
    BY <1>1, <1>2, <1>4, <2>2 DEF MeshesOK, StartOK
<1>6. CASE Current(k)
  <2>1. /\ sequence # Nothing /\ sequence.country = k
        /\ late' = late
        /\ sequence' = IF texture[Pattern[k]] = "loaded"
                       THEN [sequence EXCEPT !.revealStart = sequence.elapsed] ELSE sequence
    BY <1>6 DEF Current, transitionCountryToSolved
  <2>2. PICK s \in SequenceState : s = sequence
    BY <2>1 DEF QueueOK
  <2>3. /\ s.country = k /\ s.elapsed \in Nat /\ s.transitioned \in BOOLEAN
        /\ s.revealStart \in Nat /\ s.highlightStart \in Nat
    BY <2>1, <2>2 DEF SequenceState
  <2>4. s.transitioned /\ Moved(s)
    BY <1>1, <2>1, <2>2, <2>3 DEF StoryOK, Story, Unmoved, Fresh
  <2>5. s.elapsed >= TransitionStart /\ s.revealStart = 0 /\ s.highlightStart = 0
    BY <1>1, <2>3, <2>4 DEF Moved
  <2>6. s.elapsed > 0
    BY <2>3, <2>5, GlobeAssumption
  <2>7. PICK n \in SequenceState :
          /\ sequence' = n /\ n.country = k /\ n.elapsed = s.elapsed /\ n.transitioned = TRUE
          /\ n.highlightStart = 0
          /\ n.revealStart = IF texture[Pattern[k]] = "loaded" THEN s.elapsed ELSE 0
    <3> DEFINE m == [s EXCEPT !.revealStart = s.elapsed]
    <3>1. m \in SequenceState /\ m.country = k /\ m.elapsed = s.elapsed
          /\ m.revealStart = s.elapsed /\ m.highlightStart = 0
      BY <2>3, <2>5 DEF SequenceState
    <3>2. m.transitioned = s.transitioned
      BY <2>3 DEF SequenceState
    <3> QED
      BY <2>1, <2>2, <2>3, <2>4, <2>5, <3>1, <3>2
  <2>8. n # Nothing
    BY NothingAssumption
  <2>9. QueueOK'
    BY <1>1, <2>7 DEF QueueOK
  <2>10. \A c \in Countries : /\ Queued(c)' <=> Queued(c)
                              /\ Current(c)' <=> Current(c)
                              /\ c # k => (Fresh(c)' <=> Fresh(c))
    BY <1>1, <1>4, <2>1, <2>7, <2>8 DEF Queued, Current, Fresh
  <2>11. OneTurn'
    <3>1. \A c \in Countries : c # k \/ (~Queued(c) /\ c \in solved)
      BY <1>1, <1>3
    <3> QED
      BY <1>1, <2>10, <3>1 DEF OneTurn
  <2>12. WaitingOK'
    BY <1>1, <1>4 DEF WaitingOK, MeshesOK
  <2>13. Moved(n)'
    <3>1. k \notin waiting'
      BY <1>1
    <3>2. CASE texture[Pattern[k]] = "failed"
      BY <1>1, <1>4, <2>5, <2>7, <3>1, <3>2 DEF Moved
    <3>3. CASE texture[Pattern[k]] = "loaded"
      BY <1>1, <1>4, <2>3, <2>5, <2>6, <2>7, <3>1, <3>3 DEF Moved
    <3> QED
      BY <1>4, <3>2, <3>3
  <2>14. StoryOK'
    BY <1>1, <2>7, <2>13 DEF StoryOK, Story
  <2>15. \A c \in solved' : Shows(c)'
    <3>1. Current(k)'
      BY <1>6, <2>10
    <3>2. ASSUME NEW c \in solved, c # k PROVE Shows(c)'
      BY <1>1, <1>4, <2>1, <2>10, <3>2 DEF Shows, MeshesOK
    <3> QED
      BY <1>1, <3>1, <3>2 DEF Shows
  <2> QED
    BY <1>5, <2>9, <2>11, <2>12, <2>14, <2>15
<1>7. CASE ~Current(k)
  <2>1. UNCHANGED sequence /\ late' = late \cup {k}
    BY <1>7 DEF Current, transitionCountryToSolved
  <2>2. QueueOK'
    BY <1>1, <2>1 DEF QueueOK
  <2>3. \A c \in Countries : /\ Queued(c)' <=> Queued(c)
                             /\ Current(c)' <=> Current(c)
                             /\ c # k => (Fresh(c)' <=> Fresh(c))
    BY <1>1, <1>4, <2>1 DEF Queued, Current, Fresh
  <2>4. OneTurn'
    <3>1. \A c \in Countries : c # k \/ (~Queued(c) /\ c \in solved)
      BY <1>1, <1>3
    <3> QED
      BY <1>1, <2>3, <3>1 DEF OneTurn
  <2>5. WaitingOK'
    BY <1>1, <1>4 DEF WaitingOK, MeshesOK
  <2>6. StoryOK'
    <3>1. CASE sequence = Nothing
      BY <2>1, <3>1 DEF StoryOK
    <3>2. CASE sequence # Nothing
      <4>1. PICK s \in SequenceState : s = sequence
        BY <3>2 DEF QueueOK
      <4>2. s.country \in Countries /\ s.country # k
        BY <1>7, <3>2, <4>1 DEF Current, SequenceState
      <4>3. Story(s)
        BY <3>2, <4>1 DEF StoryOK
      <4>4. mesh'[s.country] = mesh[s.country] /\ (s.country \in waiting' <=> s.country \in waiting)
            /\ (Fresh(s.country)' <=> Fresh(s.country))
        BY <1>1, <1>4, <2>3, <4>2
      <4>5. Story(s)'
        BY <1>1, <2>1, <4>1, <4>3, <4>4 DEF Story, Moved, Unmoved, Fresh
      <4> QED
        BY <2>1, <4>1, <4>5 DEF StoryOK
    <3> QED
      BY <3>1, <3>2
  <2>7. \A c \in solved' : Shows(c)'
    <3>1. Shows(k)'
      BY <1>1, <1>4, <2>1 DEF Shows
    <3>2. ASSUME NEW c \in solved, c # k PROVE Shows(c)'
      BY <1>1, <1>4, <2>1, <2>3, <3>2 DEF Shows, MeshesOK
    <3> QED
      BY <1>1, <3>1, <3>2
  <2> QED
    BY <1>5, <2>2, <2>4, <2>5, <2>6, <2>7
<1> QED
  BY <1>6, <1>7

\* The countries handed over are fresh, and each comes to be queued or to wait.
LEMMA FocusedKept ==
  ASSUME ShowsInv, NEW newly \in SUBSET Countries, focusAndHighlightCountries(newly)
  PROVE  ShowsInv'
<1> USE DEF ShowsInv
<1>1. /\ ready /\ newly \cap solved = {}
      /\ solved' = solved \cup newly
      /\ waiting' = waiting \cup (newly \cap Centreless)
      /\ UNCHANGED <<todo, ready, mesh, late, sequence>>
  BY DEF focusAndHighlightCountries
<1>2. PICK order \in SetToSeqs(newly \ Centreless) : queue' = queue \o order
  BY DEF focusAndHighlightCountries
<1>3. IsFiniteSet(newly \ Centreless)
  BY GlobeAssumption, FS_Subset
<1>4. /\ order \in Seq(newly \ Centreless) /\ ToSet(order) = newly \ Centreless
      /\ \A i, j \in DOMAIN order : order[i] = order[j] => i = j
  BY <1>2, <1>3, OrdersAreWhole
<1>5. order \in Seq(Countries)
  BY <1>4
<1>6. \A c \in newly : Fresh(c) /\ ~Queued(c) /\ ~Current(c)
  BY <1>1 DEF OneTurn
<1>7. ToSet(queue) \cap ToSet(order) = {}
  BY <1>4, <1>6 DEF Queued
<1>8. queue \in Seq(Countries) /\ \A i, j \in DOMAIN queue : queue[i] = queue[j] => i = j
  BY DEF QueueOK, OneTurn
<1>9. /\ queue' \in Seq(Countries)
      /\ ToSet(queue') = ToSet(queue) \cup (newly \ Centreless)
      /\ \A i, j \in DOMAIN queue' : queue'[i] = queue'[j] => i = j
  <2>1. /\ queue \o order \in Seq(Countries)
        /\ ToSet(queue \o order) = ToSet(queue) \cup ToSet(order)
        /\ \A i, j \in DOMAIN (queue \o order) :
             (queue \o order)[i] = (queue \o order)[j] => i = j
    BY <1>4, <1>5, <1>7, <1>8, Appended
  <2> QED
    BY <1>2, <1>4, <2>1
<1>10. TexturesKept
  BY DEF focusAndHighlightCountries, TexturesKept, loadTexture, MeshesOK
<1>11. \A c \in Countries : /\ Queued(c)' <=> Queued(c) \/ c \in newly \ Centreless
                            /\ Current(c)' <=> Current(c)
                            /\ c \notin newly \cap Centreless => (Fresh(c)' <=> Fresh(c))
  BY <1>1, <1>9 DEF Queued, Current, Fresh
<1>12. MeshesOK' /\ QueueOK' /\ StartOK'
  BY <1>1, <1>9, <1>10 DEF MeshesOK, QueueOK, StartOK, TexturesKept
<1>13. OneTurn'
  <2>1. ASSUME NEW c \in Countries, Queued(c)'
        PROVE  Fresh(c)' /\ c \in solved' /\ ~Current(c)'
    <3>1. c \notin newly \cap Centreless
      BY <1>6, <1>11, <2>1
    <3> QED
      BY <1>1, <1>6, <1>11, <2>1, <3>1 DEF OneTurn
  <2>2. ASSUME NEW c \in Countries \ solved'
        PROVE  Fresh(c)' /\ ~Queued(c)' /\ ~Current(c)'
    BY <1>1, <1>11 DEF OneTurn
  <2> QED
    BY <1>9, <2>1, <2>2 DEF OneTurn
<1>14. WaitingOK'
  BY <1>1, <1>6 DEF WaitingOK, Fresh
<1>15. StoryOK'
  <2>1. CASE sequence = Nothing
    BY <1>1, <2>1 DEF StoryOK
  <2>2. CASE sequence # Nothing
    <3>1. PICK s \in SequenceState : s = sequence
      BY <2>2 DEF QueueOK
    <3>2. Story(s)
      BY <2>2, <3>1 DEF StoryOK
    <3>3. s.country \in Countries /\ s.country \in solved /\ s.country \notin newly
      BY <1>1, <3>1, <3>2 DEF Story, SequenceState
    <3>4. /\ mesh'[s.country] = mesh[s.country]
          /\ s.country \in waiting' <=> s.country \in waiting
          /\ Fresh(s.country)' <=> Fresh(s.country)
          /\ texture[Pattern[s.country]] = "failed" => texture'[Pattern[s.country]] = "failed"
      BY <1>1, <1>10, <1>11, <3>3, GlobeAssumption DEF TexturesKept
    <3>5. Story(s)'
      BY <1>1, <3>1, <3>2, <3>3, <3>4 DEF Story, Moved, Unmoved, Fresh
    <3> QED
      BY <1>1, <3>1, <3>5 DEF StoryOK
  <2> QED
    BY <2>1, <2>2
<1>16. \A c \in solved' : Shows(c)'
  <2>1. ASSUME NEW c \in newly PROVE Shows(c)'
    BY <1>1, <1>11 DEF Shows
  <2>2. ASSUME NEW c \in solved PROVE Shows(c)'
    <3>1. c \in Countries /\ Pattern[c] \in Patterns
      BY GlobeAssumption DEF MeshesOK
    <3> QED
      BY <1>1, <1>10, <1>11, <3>1 DEF Shows, TexturesKept
  <2> QED
    BY <1>1, <2>1, <2>2
<1> QED
  BY <1>12, <1>13, <1>14, <1>15, <1>16

(***************************************************************************)
(* A frame of a sequence.                                                  *)
(***************************************************************************)

\* The sequence a frame goes on with: the one that runs, later, or the next.
LEMMA StepGoesOn ==
  ASSUME ShowsInv, ~Idle, NEW d \in Nat, NEW s, s = Step(d),
         queue' = IF sequence = Nothing THEN Tail(queue) ELSE queue
  PROVE  /\ s \in SequenceState /\ s.country \in solved
         /\ IF s.transitioned THEN Moved(s)
            ELSE Fresh(s.country) /\ s.revealStart = 0 /\ s.highlightStart = 0
         /\ queue' \in Seq(Countries)
         /\ \A i, j \in DOMAIN queue' : queue'[i] = queue'[j] => i = j
         /\ \A c \in Countries : (Queued(c) \/ Current(c)) <=> (Queued(c)' \/ c = s.country)
         /\ ~Queued(s.country)'
<1> USE DEF ShowsInv
<1>1. CASE sequence = Nothing
  <2>1. /\ queue \in Seq(Countries) /\ queue # <<>>
        /\ \A i, j \in DOMAIN queue : queue[i] = queue[j] => i = j
        /\ queue' = Tail(queue)
    BY <1>1 DEF Idle, QueueOK, OneTurn
  <2>2. /\ Head(queue) \in Countries /\ Head(queue) \in ToSet(queue)
        /\ queue' \in Seq(Countries)
        /\ ToSet(queue') = ToSet(queue) \ {Head(queue)}
        /\ \A i, j \in DOMAIN queue' : queue'[i] = queue'[j] => i = j
    BY <2>1, Popped
  <2>3. s = [country |-> Head(queue), elapsed |-> 0, transitioned |-> FALSE,
             revealStart |-> 0, highlightStart |-> 0]
    BY <1>1 DEF Step, SolveSequence
  <2>4. /\ s \in SequenceState /\ s.country = Head(queue) /\ s.transitioned = FALSE
        /\ s.revealStart = 0 /\ s.highlightStart = 0
    BY <2>2, <2>3 DEF SequenceState
  <2>5. Fresh(s.country) /\ s.country \in solved
    BY <2>2, <2>4 DEF OneTurn, Queued
  <2>6. \A c \in Countries : (Queued(c) \/ Current(c)) <=> (Queued(c)' \/ c = s.country)
    BY <1>1, <2>2, <2>4 DEF Queued, Current
  <2>7. ~Queued(s.country)'
    BY <2>2, <2>4 DEF Queued
  <2> QED
    BY <2>2, <2>4, <2>5, <2>6, <2>7
<1>2. CASE sequence # Nothing
  <2>1. PICK q \in SequenceState : q = sequence
    BY <1>2 DEF QueueOK
  <2>2. Story(q)
    BY <1>2, <2>1 DEF StoryOK
  <2>3. s = [q EXCEPT !.elapsed = q.elapsed + d]
    BY <1>2, <2>1 DEF Step
  <2>4. /\ q.country \in Countries /\ q.elapsed \in Nat /\ q.transitioned \in BOOLEAN
        /\ q.revealStart \in Nat /\ q.highlightStart \in Nat
    BY DEF SequenceState
  <2>5. /\ s \in SequenceState /\ s.country = q.country /\ s.elapsed = q.elapsed + d
        /\ s.revealStart = q.revealStart /\ s.highlightStart = q.highlightStart
    BY <2>3, <2>4 DEF SequenceState
  <2>6. s.transitioned = q.transitioned
    BY <2>3 DEF SequenceState
  <2>7. s.country \in solved
    BY <2>2, <2>5 DEF Story
  <2>8. ASSUME q.transitioned PROVE Moved(s)
    <3>1. Moved(q)
      BY <2>2, <2>8 DEF Story
    <3>2. s.elapsed >= TransitionStart
      BY <2>4, <2>5, <3>1, GlobeAssumption DEF Moved
    <3>3. s.elapsed >= q.elapsed /\ q.elapsed \in Nat /\ s.elapsed \in Nat
      BY <2>4, <2>5
    <3>4. \A n \in Nat : n <= q.elapsed => n <= s.elapsed
      BY <3>3
    <3> QED
      BY <2>4, <2>5, <3>1, <3>2, <3>4 DEF Moved
  <2>9. ASSUME ~q.transitioned
        PROVE  Fresh(s.country) /\ s.revealStart = 0 /\ s.highlightStart = 0
    BY <2>2, <2>5, <2>6, <2>9 DEF Story, Unmoved
  <2>10. IF s.transitioned THEN Moved(s)
         ELSE Fresh(s.country) /\ s.revealStart = 0 /\ s.highlightStart = 0
    BY <2>6, <2>8, <2>9
  <2>11. queue' = queue
    BY <1>2
  <2>12. \A c \in Countries : (Queued(c) \/ Current(c)) <=> (Queued(c)' \/ c = s.country)
    BY <1>2, <2>1, <2>5, <2>11 DEF Queued, Current
  <2>13. ~Queued(s.country)
    BY <1>2, <2>1, <2>4, <2>5 DEF OneTurn, Current
  <2> QED
    BY <2>5, <2>7, <2>10, <2>11, <2>12, <2>13 DEF QueueOK, OneTurn, Queued
<1> QED
  BY <1>1, <1>2

\* What a frame makes of the phases.
LEMMA PhasesMove ==
  ASSUME NEW s \in SequenceState, NEW p, p = Phases(s)
  PROVE  /\ p \in SequenceState
         /\ p.country = s.country /\ p.elapsed = s.elapsed /\ p.revealStart = s.revealStart
         /\ p.transitioned <=> s.transitioned \/ s.elapsed >= TransitionStart
         /\ p.highlightStart = IF s.highlightStart = 0 /\ s.elapsed >= HighlightStart
                                  /\ HasPattern(s.country)
                               THEN s.elapsed ELSE s.highlightStart
<1> DEFINE tr == s.transitioned \/ s.elapsed >= TransitionStart
           hs == IF s.highlightStart = 0 /\ s.elapsed >= HighlightStart /\ HasPattern(s.country)
                 THEN s.elapsed ELSE s.highlightStart
<1>1. /\ s.country \in Countries /\ s.elapsed \in Nat /\ s.transitioned \in BOOLEAN
      /\ s.revealStart \in Nat /\ s.highlightStart \in Nat
  BY DEF SequenceState
<1>2. hs \in Nat
  BY <1>1
<1>3. tr \in BOOLEAN
  OBVIOUS
<1>4. p = [s EXCEPT !.transitioned = tr, !.highlightStart = hs]
  BY DEF Phases, SequenceState
<1> HIDE DEF tr, hs
<1>5. /\ p \in SequenceState
      /\ p.country = s.country /\ p.elapsed = s.elapsed /\ p.revealStart = s.revealStart
      /\ p.highlightStart = hs
  BY <1>1, <1>2, <1>3, <1>4 DEF SequenceState
<1>6. p.transitioned = tr
  BY <1>4 DEF SequenceState
<1> QED
  BY <1>5, <1>6 DEF tr, hs

\* What a frame does to the country of its sequence, and to no other.
LEMMA AnimateKept ==
  ASSUME ShowsInv, ~Idle, NEW d \in Nat, Animate(d), UNCHANGED <<todo, ready>>
  PROVE  ShowsInv'
<1> USE DEF ShowsInv
<1> DEFINE step == Step(d)
           phases == Phases(step)
<1>1. /\ queue' = IF sequence = Nothing THEN Tail(queue) ELSE queue
      /\ sequence' = IF Over(phases) THEN Nothing ELSE phases
      /\ mesh' = IF PatternReveal(step) THEN [mesh EXCEPT ![step.country] = "pattern"] ELSE mesh
      /\ IF ~step.transitioned /\ step.elapsed >= TransitionStart
         THEN waiting' = waiting \cup {step.country}
              /\ texture' = loadTexture(Pattern[step.country])
         ELSE UNCHANGED <<waiting, texture>>
      /\ UNCHANGED <<solved, late>>
  BY DEF Animate
<1>2. PICK s : s = step
  OBVIOUS
<1>3. PICK p : p = phases
  OBVIOUS
<1>4. s = Step(d) /\ p = Phases(s)
  BY <1>2, <1>3
<1>5. /\ sequence' = IF Over(p) THEN Nothing ELSE p
      /\ mesh' = IF PatternReveal(s) THEN [mesh EXCEPT ![s.country] = "pattern"] ELSE mesh
      /\ IF ~s.transitioned /\ s.elapsed >= TransitionStart
         THEN waiting' = waiting \cup {s.country} /\ texture' = loadTexture(Pattern[s.country])
         ELSE UNCHANGED <<waiting, texture>>
  BY <1>1, <1>2, <1>3
<1> HIDE DEF step, phases
<1>6. /\ s \in SequenceState /\ s.country \in solved
      /\ IF s.transitioned THEN Moved(s)
         ELSE Fresh(s.country) /\ s.revealStart = 0 /\ s.highlightStart = 0
      /\ queue' \in Seq(Countries)
      /\ \A i, j \in DOMAIN queue' : queue'[i] = queue'[j] => i = j
      /\ \A c \in Countries : (Queued(c) \/ Current(c)) <=> (Queued(c)' \/ c = s.country)
      /\ ~Queued(s.country)'
  BY <1>1, <1>4, StepGoesOn
<1>7. /\ p \in SequenceState
      /\ p.country = s.country /\ p.elapsed = s.elapsed /\ p.revealStart = s.revealStart
      /\ p.transitioned <=> s.transitioned \/ s.elapsed >= TransitionStart
      /\ p.highlightStart = IF s.highlightStart = 0 /\ s.elapsed >= HighlightStart
                               /\ HasPattern(s.country)
                            THEN s.elapsed ELSE s.highlightStart
  BY <1>4, <1>6, PhasesMove
<1>8. /\ s.country \in Countries /\ s.elapsed \in Nat /\ s.transitioned \in BOOLEAN
      /\ s.revealStart \in Nat /\ s.highlightStart \in Nat
  BY <1>6 DEF SequenceState
<1>9. p # Nothing
  BY <1>7, NothingAssumption
<1>10. PICK k \in Countries : k = s.country
  BY <1>8
<1>11. k \in solved /\ Pattern[k] \in Patterns
  BY <1>6, <1>10, GlobeAssumption
<1>12. TexturesKept
  <2>1. CASE UNCHANGED texture
    BY <2>1 DEF TexturesKept, MeshesOK
  <2>2. CASE texture' = loadTexture(Pattern[k])
    BY <1>11, <2>2, Asked
  <2> QED
    BY <1>5, <1>10, <2>1, <2>2
<1>13. /\ mesh' \in [Countries -> {"solid", "hidden", "pattern"}]
       /\ \A c \in Countries \ {k} : mesh'[c] = mesh[c]
       /\ mesh'[k] = IF PatternReveal(s) THEN "pattern" ELSE mesh[k]
  BY <1>5, <1>8, <1>10 DEF MeshesOK
<1>14. \A c \in Countries \ {k} : c \in waiting' <=> c \in waiting
  BY <1>5, <1>10
<1>15. waiting' \in SUBSET Countries
  BY <1>5, <1>8 DEF MeshesOK
<1>16. \A c \in Countries : Current(c)' => c = k
  BY <1>5, <1>7, <1>10 DEF Current
<1>17. MeshesOK' /\ QueueOK' /\ StartOK'
  <2>1. ready
    <3>1. sequence # Nothing \/ queue # <<>>
      BY DEF Idle
    <3> QED
      BY <3>1 DEF StartOK, MeshesOK
  <2>2. todo' = {} /\ ready'
    BY <2>1 DEF StartOK
  <2>3. MeshesOK'
    BY <1>1, <1>12, <1>13, <1>15 DEF MeshesOK, TexturesKept
  <2>4. QueueOK'
    BY <1>5, <1>6, <1>7 DEF QueueOK
  <2> QED
    BY <2>2, <2>3, <2>4 DEF StartOK
<1>18. OneTurn'
  <2>1. ASSUME NEW c \in Countries, Queued(c)'
        PROVE  Fresh(c)' /\ c \in solved' /\ ~Current(c)'
    <3>1. c # k /\ c # s.country
      BY <1>6, <1>10, <2>1
    <3>2. Queued(c) \/ Current(c)
      BY <1>6, <2>1
    <3>3. Queued(c)
      <4>1. ASSUME Current(c) PROVE FALSE
        <5>1. sequence # Nothing /\ sequence.country = c
          BY <4>1 DEF Current
        <5>2. s.country = sequence.country
          <6>1. sequence \in SequenceState
            BY <5>1 DEF QueueOK
          <6>2. s = [sequence EXCEPT !.elapsed = sequence.elapsed + d]
            BY <1>4, <5>1 DEF Step
          <6> QED
            BY <6>1, <6>2 DEF SequenceState
        <5> QED
          BY <3>1, <5>1, <5>2
      <4> QED
        BY <3>2, <4>1
    <3>4. Fresh(c) /\ c \in solved
      BY <3>3 DEF OneTurn
    <3>5. Fresh(c)' /\ c \in solved'
      BY <1>1, <1>13, <1>14, <3>1, <3>4 DEF Fresh
    <3> QED
      BY <1>16, <3>1, <3>5
  <2>2. ASSUME NEW c \in Countries \ solved'
        PROVE  Fresh(c)' /\ ~Queued(c)' /\ ~Current(c)'
    <3>1. c \notin solved /\ c # k
      BY <1>1, <1>11
    <3>2. Fresh(c) /\ ~Queued(c) /\ ~Current(c)
      BY <3>1 DEF OneTurn
    <3>3. Fresh(c)'
      BY <1>1, <1>13, <1>14, <3>1, <3>2 DEF Fresh
    <3> QED
      BY <1>6, <1>16, <3>1, <3>2, <3>3
  <2> QED
    BY <1>6, <2>1, <2>2 DEF OneTurn
<1>19. ASSUME ~s.transitioned
       PROVE  /\ ~PatternReveal(s) /\ mesh'[k] = "solid" /\ k \notin late /\ k \notin waiting
              /\ p.highlightStart = 0 /\ p.revealStart = 0
  <2>1. Fresh(k) /\ s.revealStart = 0 /\ s.highlightStart = 0
    BY <1>6, <1>10, <1>19
  <2>2. ~PatternReveal(s)
    BY <2>1 DEF PatternReveal
  <2>3. ~HasPattern(s.country)
    BY <1>10, <2>1 DEF HasPattern, Fresh
  <2> QED
    BY <1>7, <1>13, <2>1, <2>2, <2>3 DEF Fresh
<1>20. ASSUME s.transitioned
       PROVE  Moved(s) /\ UNCHANGED <<waiting, texture>>
  BY <1>5, <1>6, <1>20
<1>21. WaitingOK'
  <2>1. ASSUME NEW c \in waiting', c # k PROVE c \in solved' /\ mesh'[c] = "solid"
    BY <1>1, <1>13, <1>14, <1>15, <2>1 DEF WaitingOK
  <2>2. ASSUME k \in waiting' PROVE mesh'[k] = "solid"
    <3>1. CASE ~s.transitioned
      BY <1>19, <3>1
    <3>2. CASE s.transitioned
      <4>1. k \in waiting /\ Moved(s)
        BY <1>20, <2>2, <3>2
      <4>2. mesh[k] = "solid" /\ s.revealStart = 0
        BY <1>10, <4>1 DEF WaitingOK, Moved
      <4>3. ~PatternReveal(s)
        BY <4>2 DEF PatternReveal
      <4> QED
        BY <1>13, <4>2, <4>3
    <3> QED
      BY <3>1, <3>2
  <2> QED
    BY <1>1, <1>11, <2>1, <2>2 DEF WaitingOK
<1>22. StoryOK'
  <2>1. CASE Over(p)
    BY <1>5, <2>1 DEF StoryOK
  <2>2. ASSUME ~Over(p) PROVE sequence' = p
    BY <1>5, <2>2
  <2>3. CASE ~s.transitioned /\ ~(s.elapsed >= TransitionStart)
    <3>1. UNCHANGED waiting
      BY <1>5, <2>3
    <3>2. Fresh(k)'
      BY <1>1, <1>19, <2>3, <3>1 DEF Fresh
    <3>3. s.elapsed < TransitionStart
      BY <1>8, <2>3, GlobeAssumption
    <3>4. Unmoved(p)'
      BY <1>7, <1>10, <1>19, <2>3, <3>2, <3>3 DEF Unmoved
    <3>5. ~p.transitioned
      BY <1>7, <2>3
    <3>6. Story(p)'
      BY <1>1, <1>7, <1>10, <1>11, <3>4, <3>5 DEF Story
    <3> QED
      BY <2>1, <2>2, <3>6 DEF StoryOK
  <2>4. CASE ~s.transitioned /\ s.elapsed >= TransitionStart
    <3>1. k \in waiting'
      BY <1>5, <1>10, <2>4
    <3>2. Moved(p)'
      BY <1>7, <1>10, <1>19, <2>4, <3>1 DEF Moved
    <3>3. p.transitioned
      BY <1>7, <2>4
    <3>4. Story(p)'
      BY <1>1, <1>7, <1>10, <1>11, <3>2, <3>3 DEF Story
    <3> QED
      BY <2>1, <2>2, <3>4 DEF StoryOK
  <2>5. CASE s.transitioned
    <3>1. Moved(s) /\ UNCHANGED <<waiting, texture>>
      BY <1>20, <2>5
    <3>2. p.elapsed >= TransitionStart
      BY <1>7, <3>1 DEF Moved
    <3>3. \/ mesh'[k] = mesh[k]
          \/ mesh'[k] = "pattern" /\ k \notin waiting
      <4>1. CASE PatternReveal(s)
        <5>1. s.revealStart # 0
          BY <4>1 DEF PatternReveal
        <5> QED
          BY <1>10, <1>13, <3>1, <4>1, <5>1 DEF Moved
      <4>2. CASE ~PatternReveal(s)
        BY <1>13, <4>2
      <4> QED
        BY <4>1, <4>2
    <3>4. /\ p.highlightStart # 0 => mesh[k] # "solid" /\ p.highlightStart <= p.elapsed
          /\ p.highlightStart # 0 /\ s.revealStart <= s.elapsed /\ mesh[k] = "hidden"
               /\ (s.highlightStart # 0 => s.revealStart <= s.highlightStart)
             => p.revealStart <= p.highlightStart
      <4>1. CASE p.highlightStart = s.highlightStart
        BY <1>7, <1>8, <1>10, <3>1, <4>1 DEF Moved
      <4>2. CASE p.highlightStart = s.elapsed /\ HasPattern(s.country)
        BY <1>7, <1>8, <1>10, <4>2 DEF HasPattern
      <4> QED
        BY <1>7, <4>1, <4>2
    <3>5. Moved(p)'
      <4>1. CASE mesh'[k] = "pattern" /\ k \notin waiting
        BY <1>7, <1>10, <3>1, <3>2, <3>4, <4>1 DEF Moved
      <4>2. CASE mesh'[k] = mesh[k]
        <5>1. CASE k \in waiting
          <6>1. s.revealStart = 0
            BY <1>10, <3>1, <5>1 DEF Moved
          <6> QED
            BY <1>7, <1>10, <3>1, <3>2, <3>4, <4>2, <5>1, <6>1 DEF Moved
        <5>2. CASE k \notin waiting
          BY <1>7, <1>10, <3>1, <3>2, <3>4, <4>2, <5>2 DEF Moved
        <5> QED
          BY <5>1, <5>2
      <4> QED
        BY <3>3, <4>1, <4>2
    <3>6. Story(p)'
      BY <1>1, <1>7, <1>10, <1>11, <2>5, <3>5 DEF Story
    <3> QED
      BY <2>1, <2>2, <3>6 DEF StoryOK
  <2> QED
    BY <2>3, <2>4, <2>5
<1>23. \A c \in solved' : Shows(c)'
  <2>1. ASSUME NEW c \in solved, c # k PROVE Shows(c)'
    <3>1. c \in Countries /\ Pattern[c] \in Patterns
      BY <2>1, GlobeAssumption DEF MeshesOK
    <3>2. Queued(c) \/ Current(c) => Queued(c)'
      BY <1>6, <1>10, <2>1, <3>1
    <3>3. mesh'[c] = mesh[c] /\ (c \in waiting' <=> c \in waiting)
      BY <1>13, <1>14, <2>1, <3>1
    <3> QED
      BY <1>1, <1>12, <3>1, <3>2, <3>3 DEF Shows, TexturesKept
  <2>2. Shows(k)'
    <3>1. CASE ~Over(p)
      <4>1. sequence' = p
        BY <1>5, <3>1
      <4> QED
        BY <1>7, <1>9, <1>10, <4>1 DEF Shows, Current
    <3>2. CASE Over(p) /\ ~s.transitioned
      <4>1. s.elapsed > GiveUpAfter
        BY <1>7, <1>19, <3>2 DEF Over
      <4>2. s.elapsed >= TransitionStart
        BY <1>8, <4>1, GlobeAssumption
      <4>3. k \in waiting'
        BY <1>5, <1>10, <3>2, <4>2
      <4> QED
        BY <4>3 DEF Shows
    <3>3. CASE Over(p) /\ s.transitioned
      <4>1. Moved(s) /\ UNCHANGED <<waiting, texture>>
        BY <1>20, <3>3
      <4>2. CASE k \in waiting
        BY <4>1, <4>2 DEF Shows
      <4>3. CASE mesh[k] = "solid" /\ s.revealStart = 0 /\ texture[Pattern[k]] = "failed"
        <5>1. ~PatternReveal(s)
          BY <4>3 DEF PatternReveal
        <5> QED
          BY <1>13, <4>1, <4>3, <5>1 DEF Shows
      <4>4. CASE mesh[k] = "pattern"
        BY <1>13, <4>4 DEF Shows
      <4>5. CASE /\ mesh[k] = "hidden"
                 /\ s.revealStart # 0 /\ s.revealStart <= s.elapsed
                 /\ s.highlightStart # 0 => s.revealStart <= s.highlightStart
        <5>1. HasPattern(s.country)
          BY <1>10, <4>5 DEF HasPattern
        <5>2. p.highlightStart # 0
          <6>1. ASSUME p.highlightStart = 0 PROVE FALSE
            <7>1. s.elapsed > GiveUpAfter
              BY <1>7, <3>3, <6>1 DEF Over
            <7>2. s.elapsed >= HighlightStart /\ s.elapsed # 0
              BY <1>8, <7>1, GlobeAssumption
            <7> QED
              BY <1>7, <5>1, <6>1, <7>2
          <6> QED
            BY <6>1
        <5>3. s.revealStart <= p.highlightStart
          BY <1>7, <4>5, <5>2
        <5>4. s.elapsed - p.highlightStart >= HighlightTime
          BY <1>7, <3>3, <5>2 DEF Over, CountryHighlight
        <5>5. p.highlightStart \in Nat
          BY <1>7 DEF SequenceState
        <5>6. s.elapsed - s.revealStart >= RevealTime
          BY <1>8, <5>3, <5>4, <5>5, GlobeAssumption
        <5>7. PatternReveal(s)
          BY <4>5, <5>6 DEF PatternReveal
        <5> QED
          BY <1>13, <5>7 DEF Shows
      <4> QED
        BY <1>10, <4>1, <4>2, <4>3, <4>4, <4>5 DEF Moved
    <3> QED
      BY <3>1, <3>2, <3>3
  <2> QED
    BY <1>1, <2>1, <2>2
<1> QED
  BY <1>17, <1>18, <1>21, <1>22, <1>23

LEMMA ShowsKept == ShowsInv /\ [Next]_vars => ShowsInv'
<1> SUFFICES ASSUME ShowsInv, [Next]_vars PROVE ShowsInv'
  OBVIOUS
<1> DEFINE Still == UNCHANGED <<todo, ready, solved, mesh, waiting, late, queue, sequence>>
<1>1. ASSUME Still, TexturesKept PROVE ShowsInv'
  BY <1>1, TextureOnly
<1>2. ASSUME UNCHANGED texture PROVE TexturesKept
  BY <1>2 DEF ShowsInv, MeshesOK, TexturesKept
<1>3. MeshesOK
  BY DEF ShowsInv
<1>4. ASSUME NEW p \in Patterns, TextureLoads(p) PROVE ShowsInv'
  <2>1. TexturesKept
    BY <1>3, <1>4 DEF TextureLoads, TexturesKept, MeshesOK
  <2> QED
    BY <1>1, <1>4, <2>1 DEF TextureLoads, animator
<1>5. ASSUME NEW c \in Countries, AskForTexture(c) PROVE ShowsInv'
  <2>1. Pattern[c] \in Patterns
    BY GlobeAssumption
  <2>2. TexturesKept
    BY <1>3, <1>5, <2>1, Asked DEF AskForTexture
  <2> QED
    BY <1>1, <1>5, <2>2 DEF AskForTexture, animator
<1>6. ASSUME NEW c \in Countries, createRenderObjects(c) PROVE ShowsInv'
  BY <1>6, CreatedKept
<1>7. ASSUME NEW c \in Countries, transitionCountryToSolved(c) PROVE ShowsInv'
  BY <1>7, TransitionKept
<1>8. CASE GlobeIsReady
  BY <1>8, ReadyKept
<1>9. CASE handleContextLost \/ handleContextRestored \/ handleVisibilityChange \/ SkipFrame
  BY <1>1, <1>2, <1>9 DEF handleContextLost, handleContextRestored, handleVisibilityChange,
       SkipFrame, countries, animator
<1>10. ASSUME NEW d \in 0 .. MaxStep, render(d) PROVE ShowsInv'
  <2>1. CASE Idle
    BY <1>1, <1>2, <1>10, <2>1 DEF render, Rest, countries
  <2>2. CASE ~Idle
    <3>1. d \in Nat
      BY GlobeAssumption
    <3> QED
      BY <1>10, <2>2, <3>1, AnimateKept DEF render
  <2> QED
    BY <2>1, <2>2
<1>11. CASE ControlsStart
  BY <1>1, <1>2, <1>11 DEF ControlsStart, countries
<1>12. ASSUME NEW newly \in SUBSET Countries, focusAndHighlightCountries(newly) PROVE ShowsInv'
  BY <1>12, FocusedKept
<1>13. CASE UNCHANGED vars
  BY <1>1, <1>2, <1>13 DEF vars, countries, animator
<1> QED
  BY <1>4, <1>5, <1>6, <1>7, <1>8, <1>9, <1>10, <1>11, <1>12, <1>13 DEF Next

\* No country is forgotten, whenever its texture comes and however the frames fall
\* between: before a sequence ends, SolveSequenceAnimation has had the pattern spread
\* or has left the country to the transition that still waits.
THEOREM NoCountryForgotten == Spec => []EveryPatternShows
<1>1. Init => ShowsInv
  <2> SUFFICES ASSUME Init PROVE ShowsInv
    OBVIOUS
  <2>1. queue = <<>> /\ DOMAIN queue = {} /\ ToSet(queue) = {}
    <3>1. DOMAIN <<>> = {}
      BY EmptySeq, LenProperties
    <3> QED
      BY <3>1 DEF Init, ToSet
  <2>2. MeshesOK /\ StartOK
    BY DEF Init, MeshesOK, StartOK
  <2>3. QueueOK
    BY EmptySeq DEF Init, QueueOK
  <2>4. OneTurn
    BY <2>1 DEF Init, OneTurn, Queued, Current, Fresh
  <2>5. WaitingOK /\ StoryOK /\ \A c \in solved : Shows(c)
    BY DEF Init, WaitingOK, StoryOK, Shows
  <2> QED
    BY <2>2, <2>3, <2>4, <2>5 DEF ShowsInv
<1>2. ShowsInv => EveryPatternShows
  BY DEF ShowsInv, EveryPatternShows, Shows, Queued, Current
<1> QED
  BY <1>1, <1>2, ShowsKept, PTL DEF Spec

-----------------------------------------------------------------------------
(***************************************************************************)
(* CTF VIEW                                                                *)
(***************************************************************************)


(***************************************************************************)
(* Times.                                                                  *)
(***************************************************************************)
LEMMA LeastExists ==
  ASSUME NEW S \in SUBSET Nat, S # {}
  PROVE  \E m \in S : \A n \in S : m <= n
<1> DEFINE Below == {0 .. n : n \in S}
<1>1. IsWellFoundedOn(StrictSubsetOrdering(Nat), FiniteSubsetsOf(Nat))
  BY FS_StrictSubsetOrderingWellFounded
<1>2. Below \subseteq FiniteSubsetsOf(Nat) /\ Below # {}
  <2>1. \A n \in S : IsFiniteSet(0 .. n) /\ 0 .. n \in SUBSET Nat
    BY FS_Interval
  <2> QED
    BY <2>1 DEF FiniteSubsetsOf
<1>3. \E x \in Below : \A y \in Below : ~ (<<y, x>> \in StrictSubsetOrdering(Nat))
  <2> HIDE DEF Below
  <2> QED
    BY <1>1, <1>2, WFMin
<1>4. PICK m \in S : \A y \in Below : ~ (<<y, 0 .. m>> \in StrictSubsetOrdering(Nat))
  BY <1>3
<1>5. ASSUME NEW n \in S PROVE m <= n
  <2> SUFFICES ASSUME n < m PROVE FALSE
    BY SMT
  <2>1. n \in Nat /\ m \in Nat
    OBVIOUS
  <2>2. 0 .. n \subseteq 0 .. m /\ m \in 0 .. m /\ m \notin 0 .. n
    BY <2>1
  <2>3. 0 .. n \in SUBSET Nat /\ 0 .. m \in SUBSET Nat /\ 0 .. n # 0 .. m
    BY <2>1, <2>2
  <2>4. <<0 .. n, 0 .. m>> \in StrictSubsetOrdering(Nat)
    BY <2>2, <2>3 DEF StrictSubsetOrdering
  <2> QED
    BY <1>4, <2>4
<1> QED
  BY <1>5

LEMMA GreatestExists ==
  ASSUME NEW S \in SUBSET Nat, S # {}, NEW b \in Nat, \A n \in S : n <= b
  PROVE  \E m \in S : \A n \in S : n <= m
<1> DEFINE T == {k \in Nat : \A n \in S : n <= k}
<1>1. T \in SUBSET Nat /\ T # {}
  OBVIOUS
<1>2. PICK m \in T : \A k \in T : m <= k
  BY <1>1, LeastExists
<1>3. m \in S
  <2> SUFFICES ASSUME m \notin S PROVE FALSE
    OBVIOUS
  <2>1. PICK n \in S : TRUE
    OBVIOUS
  <2>2. m \in Nat /\ n \in Nat /\ n < m
    BY <2>1
  <2>3. m - 1 \in T
    BY <2>2
  <2> QED
    BY <1>2, <2>2, <2>3
<1> QED
  BY <1>2, <1>3

LEMMA MaxIs ==
  ASSUME NEW S \in SUBSET Nat, NEW m \in S, \A n \in S : n <= m
  PROVE  Max(S) = m
<1>1. \E x \in S : \A y \in S : x >= y
  OBVIOUS
<1>2. Max(S) \in S /\ \A y \in S : Max(S) >= y
  BY <1>1 DEF Max
<1>3. Max(S) >= m /\ Max(S) <= m /\ Max(S) \in Nat /\ m \in Nat
  BY <1>2
<1> QED
  BY <1>3

(***************************************************************************)
(* What the page has been told.                                            *)
(***************************************************************************)
PollOK ==
    /\ solvedAt \in Times
    /\ createdAt \in [Teams -> 0 .. MaxTime]
    /\ listed # None => listed \in SUBSET (1 .. MaxTime)

Fetched == [count : [Challenges -> Nat], first : [Challenges -> Teams \cup {Nobody}], known : Times]

Told == [counts : {None} \cup Times, start : Times, feed : Times,
         skipped : SUBSET Challenges, gone : SUBSET Challenges]

PageOK ==
    /\ fetch \in {None, Ended} \cup Fetched
    /\ challenges \in {None} \cup Counts
    /\ last \in Nat
    /\ applied \in SUBSET Solves
    /\ told \in Told

EventOK(e, known) ==
    \/ e.challenge = 0 /\ e.at \in 1 .. MaxTime
    \/ \E s \in Solves : known[s] # 0 /\ e = SolveEvent(s, known)

\* The feed's answer tells of the newest there was to tell, if of any.
FeedOK ==
    feed # None =>
        /\ feed.known \in Times
        /\ \A e \in feed.events : EventOK(e, feed.known)
        /\ feed.events = {} => feed.known = NoSolves
        /\ feed.events # {} =>
              \E newest \in feed.events :
                  /\ \A e \in feed.events : e.at <= newest.at
                  /\ \A s \in Solves : feed.known[s] <= newest.at

\* Counts and first solver of a challenge, as these solves make them.
RightFor(counts, c, known) ==
    /\ counts.count[c] = Cardinality(Solvers(c, known))
    /\ counts.first[c] \in IF counts.count[c] = 0 THEN {Nobody} ELSE Earliest(c, known)

FetchOK == fetch \notin {None, Ended} => \A c \in Challenges : RightFor(fetch, c, fetch.known)

\* The counts are taken in once.
OnceOK ==
    /\ fetch # Ended => challenges = None
    /\ challenges # None => told.counts \in Times

\* No solve the feed has told of is newer than what was processed.
ToldOK ==
    /\ \A s \in Solves : told.feed[s] <= last
    /\ last = 0 => told.start = told.feed /\ applied = {}

AppliedFor(c) == {t \in Teams : <<c, t>> \in applied}

\* Before there are counts, a challenge with a new solve is skipped.
WaitOK ==
    challenges = None =>
        \A c \in Challenges \ told.skipped :
            /\ Solvers(c, told.feed) \cup AppliedFor(c) \subseteq Solvers(c, told.start)
            /\ c \notin told.gone => \A t \in Teams : told.feed[<<c, t>>] = told.start[<<c, t>>]

\* The teams a challenge was counted for, once or more often.
Counted(c) == Solvers(c, told.counts) \cup AppliedFor(c)

ShownFor(c) ==
    /\ last = 0 => RightFor(challenges, c, told.counts)
    /\ c \notin told.skipped /\ SameStart(c) =>
        /\ Solvers(c, told.feed) \subseteq Counted(c)
        /\ Cardinality(Counted(c)) <= challenges.count[c]
        /\ c \notin told.gone => /\ RightFor(challenges, c, told.feed)
                                /\ AppliedFor(c) \subseteq Solvers(c, told.feed)

ShownOK == challenges # None => \A c \in Challenges : ShownFor(c)

CountsInv ==
    PollOK /\ PageOK /\ FeedOK /\ FetchOK /\ OnceOK /\ ToldOK /\ WaitOK /\ ShownOK

LEMMA TimesAre ==
  ASSUME NEW k \in Times, NEW s \in Solves
  PROVE  k[s] \in Nat /\ k[s] <= MaxTime /\ MaxTime \in Nat
BY CtfAssumption DEF Times

LEMMA SameSolvers ==
  ASSUME NEW c, NEW k, NEW m, \A t \in Teams : k[<<c, t>>] = m[<<c, t>>]
  PROVE  Solvers(c, k) = Solvers(c, m) /\ Earliest(c, k) = Earliest(c, m)
BY DEF Solvers, Earliest

LEMMA TeamsFinite ==
  ASSUME NEW T \in SUBSET Teams
  PROVE  IsFiniteSet(T) /\ Cardinality(T) \in Nat /\ (Cardinality(T) = 0 <=> T = {})
<1>1. IsFiniteSet(T)
  BY CtfAssumption, FS_Subset
<1> QED
  BY <1>1, FS_CardinalityType, FS_EmptySet

LEMMA SolversFinite ==
  ASSUME NEW k, NEW c
  PROVE  /\ IsFiniteSet(Solvers(c, k)) /\ Cardinality(Solvers(c, k)) \in Nat
         /\ Cardinality(Solvers(c, k)) = 0 <=> Solvers(c, k) = {}
<1>1. Solvers(c, k) \in SUBSET Teams
  BY DEF Solvers
<1> QED
  BY <1>1, TeamsFinite

\* Of solvers there is an earliest.
LEMMA EarliestExists ==
  ASSUME NEW k \in Times, NEW c \in Challenges, Solvers(c, k) # {}
  PROVE  Earliest(c, k) # {}
<1> DEFINE S == {k[<<c, t>>] : t \in Solvers(c, k)}
<1>1. \A t \in Solvers(c, k) : <<c, t>> \in Solves
  BY DEF Solvers, Solves
<1>2. S \in SUBSET Nat /\ S # {}
  BY <1>1, TimesAre
<1>3. PICK m \in S : \A n \in S : m <= n
  <2> HIDE DEF S
  <2> QED
    BY <1>2, LeastExists
<1>4. PICK t \in Solvers(c, k) : m = k[<<c, t>>]
  BY <1>3
<1>5. t \in Earliest(c, k)
  BY <1>3, <1>4 DEF Earliest
<1> QED
  BY <1>5

LEMMA NoSolvesKnown == NoSolves \in Times /\ \A c \in Challenges : Solvers(c, NoSolves) = {}
<1>1. \A c \in Challenges, t \in Teams : <<c, t>> \in Solves
  BY DEF Solves
<1>2. NoSolves \in Times
  BY CtfAssumption DEF NoSolves, Times
<1>3. \A s \in Solves : NoSolves[s] = 0
  BY DEF NoSolves
<1> QED
  BY <1>1, <1>2, <1>3 DEF Solvers

LEMMA CountsInit == CtfInit => CountsInv
<1> SUFFICES ASSUME CtfInit PROVE CountsInv
  OBVIOUS
<1> USE DEF CtfInit
<1>1. PollOK
  BY CtfAssumption DEF PollOK
<1>2. PageOK
  BY NoSolvesKnown DEF PageOK, Told
<1>3. FeedOK /\ FetchOK /\ OnceOK /\ ShownOK
  BY DEF FeedOK, FetchOK, OnceOK, ShownOK
<1>4. ToldOK
  BY DEF ToldOK, NoSolves
<1>5. WaitOK
  BY NoSolvesKnown DEF WaitOK, AppliedFor
<1> QED
  BY <1>1, <1>2, <1>3, <1>4, <1>5 DEF CountsInv

\* What the page was told does not change with the server.
LEMMA PageKept ==
  ASSUME CountsInv, UNCHANGED <<fetch, page>>
  PROVE  PageOK' /\ FetchOK' /\ OnceOK' /\ ToldOK' /\ WaitOK' /\ ShownOK'
<1> USE DEF page
<1>1. PageOK' /\ FetchOK' /\ OnceOK' /\ ToldOK'
  BY DEF CountsInv, PageOK, FetchOK, OnceOK, ToldOK
<1>2. WaitOK'
  BY DEF CountsInv, WaitOK, AppliedFor
<1>3. ShownOK'
  BY DEF CountsInv, ShownOK, ShownFor, SameStart, Counted, AppliedFor
<1> QED
  BY <1>1, <1>2, <1>3

LEMMA CountsServer ==
  ASSUME CountsInv, NEW t \in Teams,
         \/ \E row \in [Challenges -> 0 .. MaxTime] : TeamUpdated(t, row)
         \/ \E at \in 1 .. MaxTime : TeamIsCreated(t, at)
         \/ TeamIsDeleted(t)
  PROVE  CountsInv' /\ UNCHANGED <<page, view>>
<1> USE DEF CountsInv
<1>1. CASE \E row \in [Challenges -> 0 .. MaxTime] : TeamUpdated(t, row)
  <2>1. PICK row \in [Challenges -> 0 .. MaxTime] : TeamUpdated(t, row)
    BY <1>1
  <2>2. UNCHANGED <<createdAt, fetch, listed, feed, page, view>>
    BY <2>1 DEF TeamUpdated
  <2>3. solvedAt' \in Times
    <3>1. solvedAt' = [s \in Solves |-> IF s[2] = t THEN row[s[1]] ELSE solvedAt[s]]
      BY <2>1 DEF TeamUpdated
    <3>2. \A s \in Solves : row[s[1]] \in 0 .. MaxTime /\ solvedAt[s] \in 0 .. MaxTime
      BY DEF Solves, PollOK, Times
    <3> QED
      BY <3>1, <3>2 DEF Times
  <2>4. PollOK' /\ FeedOK'
    BY <2>2, <2>3 DEF PollOK, FeedOK
  <2> QED
    BY <2>2, <2>4, PageKept
<1>2. CASE (\E at \in 1 .. MaxTime : TeamIsCreated(t, at)) \/ TeamIsDeleted(t)
  <2>1. UNCHANGED <<solvedAt, poll, fetch, page, view>>
    BY <1>2 DEF TeamIsCreated, TeamIsDeleted
  <2>2. createdAt' \in [Teams -> 0 .. MaxTime]
    BY <1>2, CtfAssumption DEF TeamIsCreated, TeamIsDeleted, PollOK
  <2>3. PollOK' /\ FeedOK'
    BY <2>1, <2>2 DEF PollOK, FeedOK, poll
  <2> QED
    BY <2>1, <2>3, PageKept
<1> QED
  BY <1>1, <1>2

LEMMA CountsUnchanged ==
  ASSUME CountsInv, UNCHANGED <<server, poll, fetch, page>>
  PROVE  CountsInv'
<1>1. PollOK' /\ FeedOK'
  BY DEF CountsInv, PollOK, FeedOK, server, poll
<1> QED
  BY <1>1, PageKept DEF CountsInv

LEMMA CountsFetch ==
  ASSUME CountsInv, handleChallenges
  PROVE  CountsInv' /\ UNCHANGED <<page, view>>
<1> USE DEF CountsInv
<1>1. UNCHANGED <<server, poll, page, view>> /\ fetch = None
  BY DEF handleChallenges
<1>2. PICK first \in [Challenges -> Teams \cup {Nobody}] :
         /\ \A c \in Challenges :
                first[c] \in IF Solvers(c, solvedAt) = {} THEN {Nobody} ELSE Earliest(c, solvedAt)
         /\ fetch' = [count |-> [c \in Challenges |-> Cardinality(Solvers(c, solvedAt))],
                      first |-> first, known |-> solvedAt]
  BY DEF handleChallenges
<1>3. [c \in Challenges |-> Cardinality(Solvers(c, solvedAt))] \in [Challenges -> Nat]
  BY SolversFinite
<1>4. fetch' \in Fetched
  BY <1>2, <1>3 DEF Fetched, PollOK
<1>5. FetchOK'
  BY <1>2, SolversFinite DEF FetchOK, RightFor
<1>6. challenges = None
  BY <1>1, NoneAssumption DEF OnceOK
<1>7. PageOK' /\ OnceOK' /\ ToldOK' /\ WaitOK' /\ ShownOK'
  BY <1>1, <1>4, <1>6 DEF page, PageOK, OnceOK, ToldOK, WaitOK, AppliedFor, ShownOK
<1>8. PollOK' /\ FeedOK'
  BY <1>1 DEF PollOK, FeedOK, server, poll
<1> QED
  BY <1>1, <1>5, <1>7, <1>8

LEMMA CountsFetchEnds ==
  ASSUME CountsInv, TakeChallenges \/ FetchFails
  PROVE  /\ CountsInv' /\ UNCHANGED view
         /\ challenges # None => UNCHANGED challenges
<1> USE DEF CountsInv
<1>1. CASE FetchFails
  <2>1. UNCHANGED <<server, poll, page, view>> /\ fetch' = Ended
    BY <1>1 DEF FetchFails
  <2>2. PollOK' /\ FeedOK'
    BY <2>1 DEF PollOK, FeedOK, server, poll
  <2>3. PageOK' /\ FetchOK' /\ OnceOK' /\ ToldOK' /\ WaitOK'
    BY <2>1 DEF page, PageOK, FetchOK, OnceOK, ToldOK, WaitOK, AppliedFor
  <2>4. ShownOK'
    BY <2>1 DEF page, ShownOK, ShownFor, SameStart, Counted, AppliedFor
  <2> QED
    BY <2>1, <2>2, <2>3, <2>4 DEF page
<1>2. CASE TakeChallenges
  <2>1. /\ fetch \notin {None, Ended} /\ fetch' = Ended
        /\ challenges' = [count |-> fetch.count, first |-> fetch.first]
        /\ told' = [told EXCEPT !.counts = fetch.known]
        /\ UNCHANGED <<server, poll, last, applied, view>>
    BY <1>2 DEF TakeChallenges
  <2>2. fetch \in Fetched /\ fetch.known \in Times /\ challenges = None
    BY <2>1 DEF PageOK, OnceOK, Fetched
  <2>3. challenges' \in Counts /\ challenges' # None
    BY <2>1, <2>2, NoneAssumption DEF Counts, Fetched
  <2>4. /\ told' \in Told /\ told'.counts = fetch.known
        /\ told'.start = told.start /\ told'.feed = told.feed
        /\ told'.skipped = told.skipped /\ told'.gone = told.gone
    BY <2>1, <2>2 DEF PageOK, Told
  <2>5. PollOK' /\ FeedOK'
    BY <2>1 DEF PollOK, FeedOK, server, poll
  <2>6. PageOK' /\ FetchOK' /\ OnceOK' /\ ToldOK' /\ WaitOK'
    BY <2>1, <2>2, <2>3, <2>4 DEF PageOK, FetchOK, OnceOK, ToldOK, WaitOK
  <2>7. ASSUME NEW c \in Challenges PROVE ShownFor(c)'
    <3> DEFINE k == fetch.known
    <3>1. RightFor(challenges', c, k)
      BY <2>1 DEF FetchOK, RightFor
    <3>2. AppliedFor(c)' = AppliedFor(c)
      BY <2>1 DEF AppliedFor
    <3>3. Counted(c)' = Solvers(c, k) \cup AppliedFor(c)
      BY <2>4, <3>2 DEF Counted
    <3>4. ASSUME c \notin told.skipped, \A t \in Teams : told.start[<<c, t>>] = k[<<c, t>>]
          PROVE  /\ Solvers(c, told.feed) \subseteq Counted(c)'
                 /\ Cardinality(Counted(c)') <= challenges'.count[c]
                 /\ c \notin told.gone => /\ RightFor(challenges', c, told.feed)
                                         /\ AppliedFor(c) \subseteq Solvers(c, told.feed)
      <4>1. Solvers(c, told.start) = Solvers(c, k)
        BY <3>4, SameSolvers
      <4>2. /\ Solvers(c, told.feed) \cup AppliedFor(c) \subseteq Solvers(c, told.start)
            /\ c \notin told.gone => \A t \in Teams : told.feed[<<c, t>>] = told.start[<<c, t>>]
        BY <2>2, <3>4 DEF WaitOK
      <4>3. Counted(c)' = Solvers(c, k)
        BY <3>3, <4>1, <4>2
      <4>4. Cardinality(Counted(c)') <= challenges'.count[c]
        BY <3>1, <4>3, SolversFinite DEF RightFor
      <4>5. ASSUME c \notin told.gone
            PROVE  RightFor(challenges', c, told.feed) /\ AppliedFor(c) \subseteq Solvers(c, told.feed)
        <5>1. \A t \in Teams : told.feed[<<c, t>>] = k[<<c, t>>]
          BY <3>4, <4>2, <4>5
        <5>2. Solvers(c, told.feed) = Solvers(c, k) /\ Earliest(c, told.feed) = Earliest(c, k)
          BY <5>1, SameSolvers
        <5> QED
          BY <3>1, <4>1, <4>2, <5>2 DEF RightFor
      <4> QED
        BY <4>1, <4>2, <4>3, <4>4, <4>5
    <3> QED
      BY <2>4, <3>1, <3>2, <3>4 DEF ShownFor, SameStart, RightFor
  <2> QED
    BY <2>1, <2>2, <2>5, <2>6, <2>7 DEF ShownOK
<1> QED
  BY <1>1, <1>2

\* What there is to tell, and its times.
LEMMA EventTimes ==
  ASSUME PollOK, listed # None
  PROVE  /\ \A e \in Events(solvedAt) : EventOK(e, solvedAt) /\ e.at \in Nat /\ e.at <= MaxTime
         /\ \A s \in Solves : solvedAt[s] # 0 => \E e \in Events(solvedAt) : e.at = solvedAt[s]
<1>1. MaxTime \in Nat /\ solvedAt \in Times /\ listed \in SUBSET (1 .. MaxTime)
  BY CtfAssumption DEF PollOK
<1>2. ASSUME NEW e \in Events(solvedAt)
      PROVE  EventOK(e, solvedAt) /\ e.at \in Nat /\ e.at <= MaxTime
  <2>1. CASE \E s \in Solves : solvedAt[s] # 0 /\ e = SolveEvent(s, solvedAt)
    BY <1>1, <2>1, TimesAre DEF EventOK, SolveEvent
  <2>2. CASE \E at \in listed :
                e = [challenge |-> 0, team |-> Nobody, at |-> at, first |-> FALSE]
    BY <1>1, <2>2 DEF EventOK
  <2> QED
    BY <2>1, <2>2 DEF Events
<1>3. ASSUME NEW s \in Solves, solvedAt[s] # 0
      PROVE  \E e \in Events(solvedAt) : e.at = solvedAt[s]
  <2>1. SolveEvent(s, solvedAt) \in Events(solvedAt)
    BY <1>3 DEF Events
  <2>2. SolveEvent(s, solvedAt).at = solvedAt[s]
    BY DEF SolveEvent
  <2> QED
    BY <2>1, <2>2
<1> QED
  BY <1>2, <1>3

LEMMA CountsFeed ==
  ASSUME CountsInv, handleActivityFeed
  PROVE  CountsInv' /\ UNCHANGED <<page, view>>
<1> USE DEF CountsInv
<1>1. UNCHANGED <<server, fetch, page, view>> /\ listed # None /\ listed' = None
  BY DEF handleActivityFeed
<1>2. PollOK'
  BY <1>1 DEF PollOK, server
<1>3. PICK events \in buildActivityFeed : feed' = [events |-> events, known |-> solvedAt]
  BY DEF handleActivityFeed
<1>4. /\ events \in SUBSET Events(solvedAt)
      /\ events = Events(solvedAt) \/ Cardinality(events) = Limit
      /\ \A e \in events : \A f \in Events(solvedAt) \ events : e.at >= f.at
  BY DEF buildActivityFeed
<1>5. solvedAt \in Times /\ MaxTime \in Nat
  BY CtfAssumption DEF PollOK
<1>6. \A e \in Events(solvedAt) : EventOK(e, solvedAt) /\ e.at \in Nat /\ e.at <= MaxTime
  BY <1>1, EventTimes
<1>7. ASSUME events = {} PROVE solvedAt = NoSolves
  <2>1. Cardinality(events) # Limit
    BY <1>7, FS_EmptySet, CtfAssumption
  <2>2. \A s \in Solves : solvedAt[s] = 0
    BY <1>1, <1>4, <1>7, <2>1, EventTimes
  <2> QED
    BY <1>5, <2>2 DEF Times, NoSolves
<1>8. ASSUME events # {}
      PROVE  \E newest \in events : /\ \A e \in events : e.at <= newest.at
                                    /\ \A s \in Solves : solvedAt[s] <= newest.at
  <2> DEFINE T == {e.at : e \in events}
  <2>1. T \in SUBSET Nat /\ T # {} /\ \A n \in T : n <= MaxTime
    BY <1>4, <1>6, <1>8
  <2>2. PICK m \in T : \A n \in T : n <= m
    <3> HIDE DEF T
    <3> QED
      BY <1>5, <2>1, GreatestExists
  <2>3. PICK newest \in events : newest.at = m
    BY <2>2
  <2>4. \A e \in events : e.at <= newest.at
    BY <2>2, <2>3
  <2>5. \A f \in Events(solvedAt) : f.at <= newest.at
    BY <1>4, <1>6, <2>4
  <2>6. ASSUME NEW s \in Solves PROVE solvedAt[s] <= newest.at
    <3>1. newest.at \in Nat /\ solvedAt[s] \in Nat
      BY <1>4, <1>5, <1>6, TimesAre
    <3>2. solvedAt[s] # 0 => \E e \in Events(solvedAt) : e.at = solvedAt[s]
      BY <1>1, EventTimes
    <3> QED
      BY <2>5, <3>1, <3>2
  <2> QED
    BY <2>4, <2>6
<1>9. FeedOK'
  <2>1. feed'.events = events /\ feed'.known = solvedAt
    BY <1>3
  <2>2. \A e \in events : EventOK(e, solvedAt)
    BY <1>4, <1>6
  <2>3. \A e : EventOK(e, solvedAt)' <=> EventOK(e, solvedAt')
    BY DEF EventOK, SolveEvent
  <2> QED
    BY <1>5, <1>7, <1>8, <2>1, <2>2 DEF FeedOK, EventOK
<1> QED
  BY <1>1, <1>2, <1>9, PageKept

LEMMA CountsListed ==
  ASSUME CountsInv, ListDeployments
  PROVE  CountsInv' /\ UNCHANGED <<page, view>>
<1>1. /\ UNCHANGED <<server, fetch, feed, page, view>>
      /\ listed' = {createdAt[t] : t \in Teams} \ {0}
  BY DEF ListDeployments
<1>2. listed' \in SUBSET (1 .. MaxTime)
  BY <1>1, CtfAssumption DEF CountsInv, PollOK
<1>3. PollOK' /\ FeedOK'
  BY <1>1, <1>2 DEF CountsInv, PollOK, FeedOK, server
<1> QED
  BY <1>1, <1>3, PageKept DEF CountsInv

\* The events of a batch, and the time of the newest.
LEMMA BatchEvents ==
  ASSUME CountsInv, feed # None, NEW e \in feed.events
  PROVE  /\ e.at \in Nat /\ e.at # 0
         /\ e.challenge # 0 =>
               /\ e.challenge \in Challenges /\ e.team \in Solvers(e.challenge, feed.known)
               /\ <<e.challenge, e.team>> \in Solves
               /\ e = SolveEvent(<<e.challenge, e.team>>, feed.known)
               /\ e.at = feed.known[<<e.challenge, e.team>>]
               /\ e.first <=> e.team \in Earliest(e.challenge, feed.known)
<1>1. feed.known \in Times /\ EventOK(e, feed.known)
  BY DEF CountsInv, FeedOK
<1>2. CASE e.challenge = 0 /\ e.at \in 1 .. MaxTime
  BY <1>2, CtfAssumption
<1>3. CASE \E s \in Solves : feed.known[s] # 0 /\ e = SolveEvent(s, feed.known)
  <2>1. PICK s \in Solves : feed.known[s] # 0 /\ e = SolveEvent(s, feed.known)
    BY <1>3
  <2>2. /\ e.challenge = s[1] /\ e.team = s[2] /\ e.at = feed.known[s]
        /\ e.first = (s[2] \in Earliest(s[1], feed.known))
    BY <2>1 DEF SolveEvent
  <2>3. s = <<e.challenge, e.team>> /\ s[1] \in Challenges /\ s[2] \in Teams
    BY <2>2 DEF Solves
  <2>4. feed.known[s] \in Nat
    BY <1>1, TimesAre
  <2> QED
    BY <2>1, <2>2, <2>3, <2>4 DEF Solvers
<1> QED
  BY <1>1, <1>2, <1>3 DEF EventOK

LEMMA LatestTaken ==
  ASSUME CountsInv, feed # None, feed.events # {}, NEW m, m = Max({e.at : e \in feed.events})
  PROVE  m \in Nat /\ m # 0 /\ \A s \in Solves : feed.known[s] <= m
<1> DEFINE T == {e.at : e \in feed.events}
<1>1. PICK newest \in feed.events : /\ \A e \in feed.events : e.at <= newest.at
                                    /\ \A s \in Solves : feed.known[s] <= newest.at
  BY DEF CountsInv, FeedOK
<1>2. \A e \in feed.events : e.at \in Nat /\ e.at # 0
  BY BatchEvents
<1>3. T \in SUBSET Nat /\ newest.at \in T /\ \A n \in T : n <= newest.at
  BY <1>1, <1>2
<1>4. m = newest.at
  <2> HIDE DEF T
  <2>1. Max(T) = newest.at
    BY <1>3, MaxIs
  <2> QED
    BY <2>1 DEF T
<1> QED
  BY <1>1, <1>2, <1>4

\* The loop does not come to a solve told of before, unless the last event is gone.
LEMMA OldIsNotNewer ==
  ASSUME CountsInv, feed # None,
         NEW c \in Challenges, c \notin Uncovered(feed), NEW t \in Solvers(c, told.feed),
         NEW e \in Newer(feed), e.at = told.feed[<<c, t>>]
  PROVE  FALSE
<1>1. e \in feed.events /\ \A f \in feed.events : f.at >= e.at => SortsAfter(f.at, last)
  BY DEF Newer
<1>2. e.at \in Nat /\ last \in Nat
  BY <1>1, BatchEvents DEF CountsInv, PageOK
<1>3. <<c, t>> \in Solves /\ e.at <= last
  BY DEF Solvers, Solves, CountsInv, ToldOK
<1>4. ~SortsAfter(last, last)
  BY <1>2 DEF SortsAfter
<1>5. SortsAfter(e.at, last)
  BY <1>1, <1>2
<1>6. CASE last \in {f.at : f \in feed.events}
  BY <1>1, <1>3, <1>4, <1>6, <1>2
<1>7. CASE \A f \in feed.events : f.at > last
  BY <1>1, <1>2, <1>3, <1>7
<1>8. CASE ~(last \in {f.at : f \in feed.events} \/ \A f \in feed.events : f.at > last)
  BY <1>5, <1>8 DEF Uncovered
<1> QED
  BY <1>6, <1>7, <1>8

\* What is applied of a batch, and the teams it counts a challenge for.
New == ToApply(Newer(feed))
EventsOf(c) == {e \in New : e.challenge = c}
TeamsOf(c) == {t \in Teams : SolveEvent(<<c, t>>, feed.known) \in New}
FirstsOf(c) == {e.team : e \in {f \in New : f.challenge = c /\ f.first}}

LEMMA NewTells ==
  ASSUME CountsInv, feed # None, NEW e \in New
  PROVE  /\ e.challenge \in Challenges /\ e.team \in Solvers(e.challenge, feed.known)
         /\ <<e.challenge, e.team>> \in Solves /\ <<e.challenge, e.team>> \notin applied
         /\ e = SolveEvent(<<e.challenge, e.team>>, feed.known)
         /\ e.at = feed.known[<<e.challenge, e.team>>]
         /\ e.first <=> e.team \in Earliest(e.challenge, feed.known)
         /\ e.team \in TeamsOf(e.challenge)
<1>1. e \in feed.events /\ e.challenge # 0 /\ <<e.challenge, e.team>> \notin applied
  BY DEF New, ToApply, Newer
<1> QED
  BY <1>1, BatchEvents DEF TeamsOf, Solvers

LEMMA TeamsTold ==
  ASSUME CountsInv, feed # None, NEW c, NEW t \in TeamsOf(c)
  PROVE  \E e \in New : e.challenge = c /\ e.team = t /\ e = SolveEvent(<<c, t>>, feed.known)
<1>1. SolveEvent(<<c, t>>, feed.known) \in New
  BY DEF TeamsOf
<1>2. SolveEvent(<<c, t>>, feed.known).challenge = c /\ SolveEvent(<<c, t>>, feed.known).team = t
  BY DEF SolveEvent
<1> QED
  BY <1>1, <1>2

\* Of a solve there is one event, so that events count teams.
LEMMA EventsCount ==
  ASSUME CountsInv, feed # None, NEW c
  PROVE  Cardinality(EventsOf(c)) = Cardinality(TeamsOf(c)) /\ Cardinality(EventsOf(c)) \in Nat
<1> DEFINE F == EventsOf(c)
           T == TeamsOf(c)
<1>1. IsFiniteSet(T) /\ Cardinality(T) \in Nat
  BY TeamsFinite DEF TeamsOf
<1> DEFINE f == [t \in T |-> SolveEvent(<<c, t>>, feed.known)]
<1>2. f \in [T -> F]
  BY DEF SolveEvent, EventsOf, TeamsOf
<1>3. \A t, u \in T : f[t] = f[u] => t = u
  <2>1. \A t \in T : f[t].team = t
    BY DEF SolveEvent
  <2> HIDE DEF f
  <2> QED
    BY <2>1
<1>4. ASSUME NEW e \in F PROVE \E t \in T : f[t] = e
  <2>1. e \in New /\ e.challenge = c
    BY DEF EventsOf
  <2>2. e.team \in TeamsOf(e.challenge) /\ e = SolveEvent(<<e.challenge, e.team>>, feed.known)
    BY <2>1, NewTells
  <2>3. e.team \in TeamsOf(c) /\ e = SolveEvent(<<c, e.team>>, feed.known)
    BY <2>1, <2>2
  <2> QED
    BY <2>3
<1>5. f \in Bijection(T, F)
  <2> HIDE DEF f, F, T
  <2>1. IsInjective(f)
    BY <1>2, <1>3 DEF IsInjective
  <2> QED
    BY <1>2, <1>4, <2>1 DEF Bijection, Injection, Surjection
<1>6. ExistsBijection(T, F)
  BY <1>5 DEF ExistsBijection
<1>7. Cardinality(F) = Cardinality(T)
  BY <1>1, <1>6, FS_Bijection
<1> QED
  BY <1>1, <1>7

\* The new counts tell no less: no count falls, and no first solver is forgotten.
Grown(old, new) ==
    \A c \in Challenges :
        /\ old.count[c] <= new.count[c]
        /\ old.first[c] # Nobody => new.first[c] # Nobody

\* A batch applied to the counts: what the new ones are, challenge by challenge.
LEMMA Applied ==
  ASSUME CountsInv, feed # None, challenges # None, applySolveEvent(New)
  PROVE  /\ challenges' \in Counts /\ challenges' # None
         /\ \A c \in Challenges :
              /\ challenges.count[c] \in Nat
              /\ challenges'.count[c] = challenges.count[c] + Cardinality(EventsOf(c))
              /\ challenges'.first[c] \in IF FirstsOf(c) = {} THEN {challenges.first[c]} ELSE FirstsOf(c)
              /\ FirstsOf(c) \in SUBSET Teams
<1>1. PICK first \in [Challenges -> Teams \cup {Nobody}] :
         /\ \A c \in Challenges :
                first[c] \in IF FirstsOf(c) = {} THEN {challenges.first[c]} ELSE FirstsOf(c)
         /\ challenges' = [count |-> [c \in Challenges |-> challenges.count[c] + Cardinality(EventsOf(c))],
                           first |-> first]
  BY DEF applySolveEvent, FirstsOf, EventsOf
<1>2. challenges \in Counts
  BY DEF CountsInv, PageOK
<1>3. [c \in Challenges |-> challenges.count[c] + Cardinality(EventsOf(c))] \in [Challenges -> Nat]
  BY <1>2, EventsCount DEF Counts
<1>4. challenges' \in Counts /\ challenges' # None
  BY <1>1, <1>3, NoneAssumption DEF Counts
<1>5. \A c \in Challenges : FirstsOf(c) \in SUBSET Teams
  BY NewTells DEF FirstsOf, Solvers
<1> QED
  BY <1>1, <1>2, <1>4, <1>5 DEF Counts

LEMMA AppliedGrown ==
  ASSUME CountsInv, feed # None, challenges # None, applySolveEvent(New)
  PROVE  challenges' # None /\ Grown(challenges, challenges')
<1>1. ASSUME NEW c \in Challenges
      PROVE  /\ challenges.count[c] <= challenges'.count[c]
             /\ challenges.first[c] # Nobody => challenges'.first[c] # Nobody
  <2>1. Cardinality(EventsOf(c)) \in Nat
    BY EventsCount
  <2>2. /\ challenges.count[c] \in Nat
        /\ challenges'.count[c] = challenges.count[c] + Cardinality(EventsOf(c))
        /\ challenges'.first[c] \in IF FirstsOf(c) = {} THEN {challenges.first[c]} ELSE FirstsOf(c)
        /\ FirstsOf(c) \in SUBSET Teams
    BY Applied
  <2>3. challenges.count[c] <= challenges'.count[c]
    BY <2>1, <2>2
  <2> QED
    BY <2>2, <2>3, CtfAssumption
<1> QED
  BY <1>1, Applied DEF Grown

\* No challenge is counted for a team it has not: the counts tell no less than what
\* the batch knows of, if it skips none.
LEMMA AppliedAtLeast ==
  ASSUME CountsInv, feed # None, challenges # None, applySolveEvent(New),
         NEW c \in Challenges, c \notin SkippedBy(feed),
         Solvers(c, told.feed) \subseteq Counted(c), Cardinality(Counted(c)) <= challenges.count[c]
  PROVE  /\ Solvers(c, feed.known) \subseteq Counted(c) \cup TeamsOf(c)
         /\ Cardinality(Counted(c) \cup TeamsOf(c)) <= challenges'.count[c]
<1>1. ASSUME NEW t \in Solvers(c, feed.known), t \notin Counted(c) PROVE t \in TeamsOf(c)
  <2>1. t \in Teams /\ told.feed[<<c, t>>] = 0 /\ <<c, t>> \notin applied
    BY <1>1 DEF Solvers, Counted, AppliedFor
  <2>2. PICK e \in Newer(feed) : <<e.challenge, e.team>> = <<c, t>>
    BY <2>1 DEF SkippedBy
  <2>3. e \in New
    BY <2>1, <2>2 DEF New, ToApply
  <2> QED
    BY <2>2, <2>3, NewTells
<1>2. Counted(c) \in SUBSET Teams /\ TeamsOf(c) \in SUBSET Teams
  BY DEF Counted, Solvers, AppliedFor, TeamsOf
<1>3. /\ IsFiniteSet(Counted(c)) /\ Cardinality(Counted(c)) \in Nat
      /\ IsFiniteSet(TeamsOf(c)) /\ Cardinality(TeamsOf(c)) \in Nat
      /\ Cardinality(Counted(c) \cap TeamsOf(c)) \in Nat
  <2>1. Counted(c) \cap TeamsOf(c) \in SUBSET Teams
    BY <1>2
  <2> QED
    BY <1>2, <2>1, TeamsFinite
<1>4. Cardinality(Counted(c) \cup TeamsOf(c)) =
         Cardinality(Counted(c)) + Cardinality(TeamsOf(c)) - Cardinality(Counted(c) \cap TeamsOf(c))
  BY <1>3, FS_Union
<1>5. challenges'.count[c] = challenges.count[c] + Cardinality(TeamsOf(c)) /\ challenges.count[c] \in Nat
  BY Applied, EventsCount
<1> QED
  BY <1>1, <1>3, <1>4, <1>5

\* Where nothing the page was told of is gone, what is right for the last batch is made
\* right for the next.
LEMMA AppliedRight ==
  ASSUME CountsInv, feed # None, challenges # None, applySolveEvent(New),
         NEW c \in Challenges,
         c \notin SkippedBy(feed), c \notin GoneIn(feed), c \notin Uncovered(feed),
         RightFor(challenges, c, told.feed), AppliedFor(c) \subseteq Solvers(c, told.feed)
  PROVE  /\ RightFor(challenges', c, feed.known)
         /\ AppliedFor(c) \cup TeamsOf(c) \subseteq Solvers(c, feed.known)
<1> DEFINE old == Solvers(c, told.feed)
           new == Solvers(c, feed.known)
<1>1. old \subseteq new /\ \A t \in old : feed.known[<<c, t>>] = told.feed[<<c, t>>]
  BY DEF GoneIn, Solvers
<1>2. ASSUME NEW t \in TeamsOf(c) PROVE t \in new /\ t \notin old
  <2>1. PICK e \in New : e.challenge = c /\ e.team = t /\ e = SolveEvent(<<c, t>>, feed.known)
    BY TeamsTold
  <2>2. t \in new /\ e.at = feed.known[<<c, t>>] /\ e \in Newer(feed)
    BY <2>1, NewTells DEF New, ToApply
  <2> QED
    BY <1>1, <2>2, OldIsNotNewer
<1>3. ASSUME NEW t \in new, t \notin old PROVE t \in TeamsOf(c)
  <2>1. t \in Teams /\ told.feed[<<c, t>>] = 0 /\ <<c, t>> \notin applied
    BY <1>3 DEF Solvers, AppliedFor
  <2>2. PICK e \in Newer(feed) : <<e.challenge, e.team>> = <<c, t>>
    BY <2>1 DEF SkippedBy
  <2>3. e \in New
    BY <2>1, <2>2 DEF New, ToApply
  <2> QED
    BY <2>2, <2>3, NewTells
<1>4. new = old \cup TeamsOf(c) /\ old \cap TeamsOf(c) = {}
  BY <1>1, <1>2, <1>3
<1>5. Cardinality(new) = Cardinality(old) + Cardinality(TeamsOf(c)) /\ Cardinality(old) \in Nat
  <2>1. /\ IsFiniteSet(old) /\ Cardinality(old) \in Nat
        /\ IsFiniteSet(TeamsOf(c)) /\ Cardinality(TeamsOf(c)) \in Nat
    BY SolversFinite, TeamsFinite DEF TeamsOf
  <2>2. Cardinality(old \cup TeamsOf(c)) =
           Cardinality(old) + Cardinality(TeamsOf(c)) - Cardinality(old \cap TeamsOf(c))
    BY <2>1, FS_Union
  <2>3. Cardinality(old \cap TeamsOf(c)) = 0
    BY <1>4, FS_EmptySet
  <2> HIDE DEF old, new
  <2> QED
    BY <1>4, <2>1, <2>2, <2>3
<1>6. /\ challenges'.count[c] = Cardinality(new)
      /\ challenges'.first[c] \in IF FirstsOf(c) = {} THEN {challenges.first[c]} ELSE FirstsOf(c)
  BY <1>5, Applied, EventsCount DEF RightFor
<1>7. FirstsOf(c) = TeamsOf(c) \cap Earliest(c, feed.known)
  <2>1. ASSUME NEW t \in FirstsOf(c) PROVE t \in TeamsOf(c) /\ t \in Earliest(c, feed.known)
    BY NewTells DEF FirstsOf
  <2>2. ASSUME NEW t \in TeamsOf(c), t \in Earliest(c, feed.known) PROVE t \in FirstsOf(c)
    <3>1. PICK e \in New : e.challenge = c /\ e.team = t
      BY TeamsTold
    <3>2. e.first
      BY <2>2, <3>1, NewTells
    <3> QED
      BY <3>1, <3>2 DEF FirstsOf
  <2> QED
    BY <2>1, <2>2
<1>8. ASSUME FirstsOf(c) # {} PROVE challenges'.count[c] # 0 /\ challenges'.first[c] \in Earliest(c, feed.known)
  <2>1. challenges'.first[c] \in Earliest(c, feed.known)
    BY <1>6, <1>7, <1>8
  <2>2. new # {}
    BY <2>1 DEF Earliest
  <2> QED
    BY <1>6, <2>1, <2>2, SolversFinite
<1>9. ASSUME FirstsOf(c) = {}, challenges'.count[c] # 0
      PROVE  challenges'.first[c] \in Earliest(c, feed.known)
  <2>1. new # {}
    BY <1>6, <1>9, SolversFinite
  <2>2. PICK w \in Earliest(c, feed.known) : TRUE
    BY <2>1, EarliestExists DEF CountsInv, FeedOK
  <2>3. w \in old
    BY <1>4, <1>7, <1>9, <2>2 DEF Earliest
  <2>4. challenges.first[c] \in Earliest(c, told.feed)
    BY <2>3, SolversFinite DEF RightFor
  <2> DEFINE first == challenges.first[c]
  <2>5. challenges'.first[c] = first
    BY <1>6, <1>9
  <2>6. first \in old /\ told.feed[<<c, first>>] <= told.feed[<<c, w>>]
    BY <2>3, <2>4 DEF Earliest
  <2>7. first \in new /\ feed.known[<<c, first>>] <= feed.known[<<c, w>>]
    BY <1>1, <2>3, <2>6
  <2>8. ASSUME NEW u \in new PROVE feed.known[<<c, first>>] <= feed.known[<<c, u>>]
    <3>1. feed.known[<<c, w>>] <= feed.known[<<c, u>>]
      BY <2>2 DEF Earliest
    <3>2. <<c, first>> \in Solves /\ <<c, w>> \in Solves /\ <<c, u>> \in Solves
      BY <2>3, <2>6 DEF Solves, Solvers
    <3>3. feed.known[<<c, first>>] \in Nat /\ feed.known[<<c, w>>] \in Nat /\ feed.known[<<c, u>>] \in Nat
      BY <3>2, TimesAre DEF CountsInv, FeedOK
    <3> HIDE DEF first
    <3> QED
      BY <2>7, <3>1, <3>3
  <2> QED
    BY <2>5, <2>7, <2>8 DEF Earliest
<1>10. ASSUME challenges'.count[c] = 0 PROVE challenges'.first[c] = Nobody
  <2>1. new = {} /\ old = {}
    BY <1>4, <1>6, <1>10, SolversFinite
  <2>2. FirstsOf(c) = {} /\ Cardinality(old) = 0
    BY <1>4, <1>7, <2>1, SolversFinite
  <2> QED
    BY <1>6, <2>2 DEF RightFor
<1> QED
  BY <1>1, <1>2, <1>6, <1>8, <1>9, <1>10 DEF RightFor

LEMMA AppliedThen ==
  ASSUME CountsInv, feed # None, applySolveEvent(New), NEW c
  PROVE  AppliedFor(c)' = AppliedFor(c) \cup TeamsOf(c) /\ applied' \in SUBSET Solves
<1>1. applied' = applied \cup {<<e.challenge, e.team>> : e \in New}
  BY DEF applySolveEvent
<1>2. ASSUME NEW t \in Teams
      PROVE  <<c, t>> \in {<<e.challenge, e.team>> : e \in New} <=> t \in TeamsOf(c)
  <2>1. ASSUME <<c, t>> \in {<<e.challenge, e.team>> : e \in New} PROVE t \in TeamsOf(c)
    <3>1. PICK e \in New : <<c, t>> = <<e.challenge, e.team>>
      BY <2>1
    <3>2. e.team \in TeamsOf(e.challenge) /\ e.challenge = c /\ e.team = t
      BY <3>1, NewTells
    <3> QED
      BY <3>2
  <2>2. ASSUME t \in TeamsOf(c) PROVE <<c, t>> \in {<<e.challenge, e.team>> : e \in New}
    <3>1. PICK e \in New : e.challenge = c /\ e.team = t
      BY <2>2, TeamsTold
    <3>2. <<e.challenge, e.team>> = <<c, t>>
      BY <3>1
    <3> QED
      BY <3>2
  <2> QED
    BY <2>1, <2>2
<1>3. AppliedFor(c)' = AppliedFor(c) \cup TeamsOf(c)
  <2>1. TeamsOf(c) \in SUBSET Teams
    BY DEF TeamsOf
  <2> QED
    BY <1>1, <1>2, <2>1 DEF AppliedFor
<1>4. applied' \in SUBSET Solves
  BY <1>1, NewTells DEF CountsInv, PageOK
<1> QED
  BY <1>3, <1>4

LEMMA ToldThen ==
  ASSUME CountsInv, TakeFeed
  PROVE  /\ feed # None /\ feed' = None /\ feed.known \in Times
         /\ UNCHANGED <<server, update, fetch, listed, view>>
         /\ told' \in Told /\ told'.counts = told.counts /\ told'.feed = feed.known
         /\ told'.start = IF last = 0 THEN feed.known ELSE told.start
         /\ last = 0 => told'.skipped = told.skipped /\ told'.gone = told.gone
         /\ last # 0 => /\ told'.skipped = told.skipped \cup SkippedBy(feed)
                        /\ told'.gone = told.gone \cup GoneIn(feed) \cup Uncovered(feed)
<1>1. /\ feed # None /\ feed' = None
      /\ UNCHANGED <<server, update, fetch, listed, view>>
  BY DEF TakeFeed, NextPoll
<1>2. feed.known \in Times /\ told \in Told
  BY <1>1 DEF CountsInv, FeedOK, PageOK
<1>3. CASE last = 0
  <2>1. told' = [told EXCEPT !.start = feed.known, !.feed = feed.known]
    BY <1>3 DEF TakeFeed
  <2> QED
    BY <1>1, <1>2, <1>3, <2>1 DEF Told
<1>4. CASE last # 0
  <2>1. told' = [told EXCEPT !.feed = feed.known, !.skipped = @ \cup SkippedBy(feed),
                             !.gone = @ \cup GoneIn(feed) \cup Uncovered(feed)]
    BY <1>4 DEF TakeFeed
  <2>2. /\ SkippedBy(feed) \in SUBSET Challenges /\ GoneIn(feed) \in SUBSET Challenges
        /\ Uncovered(feed) \in SUBSET Challenges
    BY DEF SkippedBy, GoneIn, Uncovered
  <2> QED
    BY <1>1, <1>2, <1>4, <2>1, <2>2 DEF Told
<1> QED
  BY <1>3, <1>4

\* What is processed of a batch, if anything.
LEMMA LastThen ==
  ASSUME CountsInv, TakeFeed
  PROVE  /\ last' \in Nat /\ (last # 0 => last' # 0)
         /\ \A s \in Solves : feed.known[s] <= last'
         /\ last' = 0 => feed.known = NoSolves
<1>1. feed # None /\ last \in Nat
  BY DEF TakeFeed, CountsInv, PageOK
<1>2. CASE feed.events = {}
  <2>1. last' = last /\ feed.known = NoSolves
    BY <1>1, <1>2 DEF TakeFeed, CountsInv, FeedOK
  <2> QED
    BY <1>1, <2>1 DEF NoSolves
<1>3. CASE feed.events # {}
  <2>1. last' = Max({e.at : e \in feed.events})
    BY <1>3 DEF TakeFeed
  <2> QED
    BY <1>1, <1>3, <2>1, LatestTaken
<1> QED
  BY <1>2, <1>3

\* An empty batch has nothing to apply.
LEMMA AppliesNew ==
  ASSUME CountsInv, TakeFeed
  PROVE  /\ last = 0 => UNCHANGED <<challenges, applied>>
         /\ last # 0 => applySolveEvent(New) \/ (New = {} /\ UNCHANGED <<challenges, applied>>)
<1>1. CASE feed.events = {}
  BY <1>1 DEF TakeFeed, New, ToApply, Newer
<1>2. CASE feed.events # {}
  BY <1>2 DEF TakeFeed, New
<1> QED
  BY <1>1, <1>2

\* What a batch makes of the counts.
LEMMA CountsThen ==
  ASSUME CountsInv, TakeFeed, last # 0
  PROVE  /\ applied' \in SUBSET Solves
         /\ \A c : AppliedFor(c)' = AppliedFor(c) \cup TeamsOf(c)
         /\ challenges = None => challenges' = None
         /\ challenges # None =>
               /\ challenges' \in Counts /\ challenges' # None /\ Grown(challenges, challenges')
               /\ \A c \in Challenges \ SkippedBy(feed) :
                    /\ Solvers(c, told.feed) \subseteq Counted(c)
                    /\ Cardinality(Counted(c)) <= challenges.count[c]
                    => /\ Solvers(c, feed.known) \subseteq Counted(c) \cup TeamsOf(c)
                       /\ Cardinality(Counted(c) \cup TeamsOf(c)) <= challenges'.count[c]
               /\ \A c \in Challenges \ (SkippedBy(feed) \cup GoneIn(feed) \cup Uncovered(feed)) :
                    RightFor(challenges, c, told.feed) /\ AppliedFor(c) \subseteq Solvers(c, told.feed)
                    => /\ RightFor(challenges', c, feed.known)
                       /\ AppliedFor(c) \cup TeamsOf(c) \subseteq Solvers(c, feed.known)
<1>1. feed # None /\ applied \in SUBSET Solves
  BY DEF TakeFeed, CountsInv, PageOK
<1>2. applySolveEvent(New)
  <2> SUFFICES ASSUME New = {}, UNCHANGED <<challenges, applied>> PROVE applySolveEvent(New)
    BY AppliesNew
  <2>1. applied' = applied \cup {<<e.challenge, e.team>> : e \in New}
    OBVIOUS
  <2>2. ASSUME challenges # None
        PROVE  \E first \in [Challenges -> Teams \cup {Nobody}] :
                 /\ \A c \in Challenges :
                     LET firsts == {e.team : e \in {f \in New : f.challenge = c /\ f.first}}
                     IN  first[c] \in IF firsts = {} THEN {challenges.first[c]} ELSE firsts
                 /\ challenges' =
                     [count |-> [c \in Challenges |-> challenges.count[c]
                                    + Cardinality({e \in New : e.challenge = c})],
                      first |-> first]
    <3>1. challenges \in Counts
      BY <2>2 DEF CountsInv, PageOK
    <3>2. \A c \in Challenges : challenges.count[c] + Cardinality({e \in New : e.challenge = c})
                                   = challenges.count[c]
      BY <3>1, FS_EmptySet DEF Counts
    <3>3. [c \in Challenges |-> challenges.count[c] + Cardinality({e \in New : e.challenge = c})]
             = challenges.count
      <4>1. challenges.count = [c \in Challenges |-> challenges.count[c]]
        BY <3>1 DEF Counts
      <4> QED
        BY <3>2, <4>1
    <3>4. challenges.first \in [Challenges -> Teams \cup {Nobody}]
      BY <3>1 DEF Counts
    <3>5. challenges = [count |-> challenges.count, first |-> challenges.first]
      BY <3>1 DEF Counts
    <3>6. \A c \in Challenges : {e.team : e \in {f \in New : f.challenge = c /\ f.first}} = {}
      OBVIOUS
    <3> QED
      BY <3>3, <3>4, <3>5, <3>6
  <2> QED
    BY <2>1, <2>2 DEF applySolveEvent
<1>3. applied' \in SUBSET Solves /\ \A c : AppliedFor(c)' = AppliedFor(c) \cup TeamsOf(c)
  BY <1>1, <1>2, AppliedThen
<1>4. challenges = None => challenges' = None
  BY <1>2 DEF applySolveEvent
<1>5. ASSUME challenges # None
      PROVE  challenges' \in Counts /\ challenges' # None /\ Grown(challenges, challenges')
  BY <1>1, <1>2, <1>5, Applied, AppliedGrown
<1>6. ASSUME challenges # None, NEW c \in Challenges \ SkippedBy(feed),
             Solvers(c, told.feed) \subseteq Counted(c), Cardinality(Counted(c)) <= challenges.count[c]
      PROVE  /\ Solvers(c, feed.known) \subseteq Counted(c) \cup TeamsOf(c)
             /\ Cardinality(Counted(c) \cup TeamsOf(c)) <= challenges'.count[c]
  BY <1>1, <1>2, <1>6, AppliedAtLeast
<1>7. ASSUME challenges # None, NEW c \in Challenges \ (SkippedBy(feed) \cup GoneIn(feed) \cup Uncovered(feed)),
             RightFor(challenges, c, told.feed), AppliedFor(c) \subseteq Solvers(c, told.feed)
      PROVE  /\ RightFor(challenges', c, feed.known)
             /\ AppliedFor(c) \cup TeamsOf(c) \subseteq Solvers(c, feed.known)
  BY <1>1, <1>2, <1>7, AppliedRight
<1> QED
  BY <1>3, <1>4, <1>5, <1>6, <1>7

LEMMA CountsTakeFeed ==
  ASSUME CountsInv, TakeFeed
  PROVE  /\ CountsInv' /\ UNCHANGED view
         /\ challenges # None => challenges' # None /\ Grown(challenges, challenges')
<1>1. /\ feed # None /\ feed' = None /\ feed.known \in Times
      /\ UNCHANGED <<solvedAt, createdAt, listed, fetch, view>>
      /\ told' \in Told /\ told'.counts = told.counts /\ told'.feed = feed.known
  BY ToldThen DEF server
<1>2. PollOK /\ PageOK /\ FeedOK /\ FetchOK /\ OnceOK /\ ToldOK /\ WaitOK /\ ShownOK
  BY DEF CountsInv
<1>3. PollOK' /\ FetchOK' /\ FeedOK'
  BY <1>1, <1>2 DEF PollOK, FetchOK, FeedOK
<1>4. /\ last' \in Nat /\ (last # 0 => last' # 0)
      /\ \A s \in Solves : feed.known[s] <= last'
      /\ last' = 0 => feed.known = NoSolves
  BY LastThen
<1>5. CASE last = 0
  <2>1. UNCHANGED <<challenges, applied>>
    BY <1>5, AppliesNew
  <2>2. told'.start = feed.known /\ told'.skipped = told.skipped /\ told'.gone = told.gone
    BY <1>5, ToldThen
  <2>3. PageOK'
    BY <1>1, <1>2, <1>4, <2>1 DEF PageOK
  <2>4. OnceOK' /\ ToldOK'
    BY <1>1, <1>2, <1>4, <1>5, <2>1, <2>2 DEF OnceOK, ToldOK
  <2>5. \A c : AppliedFor(c) = {} /\ AppliedFor(c)' = {}
    BY <1>2, <1>5, <2>1 DEF ToldOK, AppliedFor
  <2>6. WaitOK'
    BY <1>1, <2>2, <2>5 DEF WaitOK
  <2>7. ASSUME challenges # None, NEW c \in Challenges PROVE ShownFor(c)'
    <3>1. RightFor(challenges, c, told.counts)
      BY <1>2, <1>5, <2>7 DEF ShownOK, ShownFor
    <3>2. RightFor(challenges', c, told'.counts)
      BY <1>1, <2>1, <3>1
    <3>3. ASSUME \A t \in Teams : feed.known[<<c, t>>] = told.counts[<<c, t>>]
          PROVE  /\ Solvers(c, feed.known) \subseteq Solvers(c, told.counts)
                 /\ Cardinality(Solvers(c, told.counts)) <= challenges.count[c]
                 /\ RightFor(challenges, c, feed.known)
      <4>1. /\ Solvers(c, feed.known) = Solvers(c, told.counts)
            /\ Earliest(c, feed.known) = Earliest(c, told.counts)
        BY <3>3, SameSolvers
      <4> QED
        BY <3>1, <4>1, SolversFinite DEF RightFor
    <3>4. Counted(c)' = Solvers(c, told.counts)
      BY <1>1, <2>5 DEF Counted
    <3> QED
      BY <1>1, <2>1, <2>2, <2>5, <3>1, <3>3, <3>4 DEF ShownFor, SameStart, RightFor
  <2>8. Grown(challenges, challenges) \/ challenges = None
    BY <1>2 DEF Grown, PageOK, Counts
  <2> QED
    BY <1>1, <1>3, <2>1, <2>3, <2>4, <2>6, <2>7, <2>8 DEF CountsInv, ShownOK
<1>6. CASE last # 0
  <2>1. /\ told'.start = told.start
        /\ told'.skipped = told.skipped \cup SkippedBy(feed)
        /\ told'.gone = told.gone \cup GoneIn(feed) \cup Uncovered(feed)
    BY <1>6, ToldThen
  <2>2. /\ applied' \in SUBSET Solves
        /\ \A c : AppliedFor(c)' = AppliedFor(c) \cup TeamsOf(c)
    BY <1>6, CountsThen
  <2>3. OnceOK' /\ ToldOK'
    <3>1. challenges = None => challenges' = None
      BY <1>6, CountsThen
    <3> QED
      BY <1>1, <1>2, <1>4, <1>6, <3>1 DEF OnceOK, ToldOK
  <2>4. CASE challenges = None
    <3>1. challenges' = None
      BY <1>6, <2>4, CountsThen
    <3>2. PageOK'
      BY <1>1, <1>2, <1>4, <2>2, <3>1 DEF PageOK
    <3>3. ASSUME NEW c \in Challenges \ told'.skipped
          PROVE  /\ Solvers(c, feed.known) \cup AppliedFor(c)' \subseteq Solvers(c, told.start)
                 /\ c \notin told'.gone =>
                       \A t \in Teams : feed.known[<<c, t>>] = told.start[<<c, t>>]
      <4>1. /\ Solvers(c, told.feed) \cup AppliedFor(c) \subseteq Solvers(c, told.start)
            /\ c \notin told.gone => \A t \in Teams : told.feed[<<c, t>>] = told.start[<<c, t>>]
        BY <1>2, <2>1, <2>4, <3>3 DEF WaitOK
      <4>2. Solvers(c, feed.known) \subseteq Solvers(c, told.feed)
        BY <2>1, <2>4, <3>3 DEF SkippedBy, Solvers
      <4>3. ASSUME NEW t \in TeamsOf(c) PROVE t \in Solvers(c, feed.known)
        <5>0. feed # None
          BY <1>1
        <5>1. PICK e \in New : e.challenge = c /\ e.team = t
          BY ONLY CountsInv, <4>3, <5>0, TeamsTold
        <5>2. e.team \in Solvers(e.challenge, feed.known)
          BY <1>1, <5>1, NewTells
        <5> QED
          BY <5>1, <5>2
      <4>4. ASSUME c \notin told'.gone, NEW t \in Teams
            PROVE  feed.known[<<c, t>>] = told.feed[<<c, t>>]
        <5>1. CASE t \in Solvers(c, told.feed)
          BY <2>1, <4>4, <5>1 DEF GoneIn
        <5>2. CASE t \notin Solvers(c, told.feed)
          BY <4>2, <5>2 DEF Solvers
        <5> QED
          BY <5>1, <5>2
      <4> QED
        BY <2>1, <2>2, <4>1, <4>2, <4>3, <4>4
    <3>4. WaitOK'
      BY <1>1, <2>1, <3>3 DEF WaitOK
    <3> QED
      BY <1>1, <1>3, <2>3, <2>4, <3>1, <3>2, <3>4 DEF CountsInv, ShownOK
  <2>5. CASE challenges # None
    <3>1. challenges' \in Counts /\ challenges' # None /\ Grown(challenges, challenges')
      BY <1>6, <2>5, CountsThen
    <3>2. PageOK'
      BY <1>1, <1>2, <1>4, <2>2, <3>1 DEF PageOK
    <3>3. WaitOK'
      BY <3>1 DEF WaitOK
    <3>4. ASSUME NEW c \in Challenges PROVE ShownFor(c)'
      <4> DEFINE counted == Counted(c) \cup TeamsOf(c)
      <4>1. Counted(c)' = counted
        BY <1>1, <2>2 DEF Counted
      <4>2. ASSUME c \notin told'.skipped, SameStart(c)
            PROVE  /\ Solvers(c, feed.known) \subseteq counted
                   /\ Cardinality(counted) <= challenges'.count[c]
                   /\ c \notin told'.gone => /\ RightFor(challenges', c, feed.known)
                                             /\ AppliedFor(c)' \subseteq Solvers(c, feed.known)
        <5>1. c \notin told.skipped /\ c \notin SkippedBy(feed)
          BY <2>1, <4>2
        <5>2. /\ Solvers(c, told.feed) \subseteq Counted(c)
              /\ Cardinality(Counted(c)) <= challenges.count[c]
              /\ c \notin told.gone => /\ RightFor(challenges, c, told.feed)
                                      /\ AppliedFor(c) \subseteq Solvers(c, told.feed)
          BY <1>2, <2>5, <4>2, <5>1 DEF ShownOK, ShownFor
        <5>3. /\ Solvers(c, feed.known) \subseteq counted
              /\ Cardinality(counted) <= challenges'.count[c]
          BY <1>6, <2>5, <5>1, <5>2, CountsThen
        <5>4. ASSUME c \notin told'.gone
              PROVE  /\ RightFor(challenges', c, feed.known)
                     /\ AppliedFor(c) \cup TeamsOf(c) \subseteq Solvers(c, feed.known)
          BY <1>6, <2>1, <2>5, <5>1, <5>2, <5>4, CountsThen
        <5> QED
          BY <2>2, <5>3, <5>4
      <4>3. SameStart(c)' <=> SameStart(c)
        BY <1>1, <2>1 DEF SameStart
      <4> HIDE DEF counted
      <4> QED
        BY <1>1, <1>4, <1>6, <4>1, <4>2, <4>3 DEF ShownFor, RightFor
    <3> QED
      BY <1>1, <1>3, <2>3, <3>1, <3>2, <3>3, <3>4 DEF CountsInv, ShownOK
  <2> QED
    BY <2>4, <2>5
<1> QED
  BY <1>5, <1>6

\* The steps of the page's view; all others leave it alone.
ViewStep == RunEffects \/ \E i \in DOMAIN globes : LoadEnds(i) \/ LoadFails(i) \/ handleGlobeReady(i)

LEMMA CountsStep ==
  ASSUME CountsInv, [CtfNext]_ctfVars
  PROVE  /\ CountsInv'
         /\ challenges # None => challenges' # None /\ Grown(challenges, challenges')
         /\ UNCHANGED view \/ (ViewStep /\ UNCHANGED challenges)
<1>1. ASSUME UNCHANGED challenges, challenges # None PROVE Grown(challenges, challenges')
  BY <1>1 DEF CountsInv, PageOK, Grown, Counts
<1>2. CASE \E t \in Teams : \/ \E row \in [Challenges -> 0 .. MaxTime] : TeamUpdated(t, row)
                            \/ \E at \in 1 .. MaxTime : TeamIsCreated(t, at)
                            \/ TeamIsDeleted(t)
  BY <1>1, <1>2, CountsServer DEF page
<1>3. CASE handleChallenges \/ ListDeployments \/ handleActivityFeed
  BY <1>1, <1>3, CountsFetch, CountsListed, CountsFeed DEF page
<1>4. CASE TakeChallenges \/ FetchFails
  BY <1>1, <1>4, CountsFetchEnds
<1>5. CASE TakeFeed
  BY <1>5, CountsTakeFeed
<1>6. CASE ViewStep
  <2>1. UNCHANGED <<server, poll, fetch, page>>
    BY <1>6 DEF ViewStep, RunEffects, LoadEnds, LoadFails, handleGlobeReady
  <2> QED
    BY <1>1, <1>6, <2>1, CountsUnchanged DEF page
<1>7. CASE UNCHANGED ctfVars
  BY <1>1, <1>7, CountsUnchanged DEF ctfVars, page
<1> QED
  BY <1>1, <1>2, <1>3, <1>4, <1>5, <1>6, <1>7 DEF CtfNext, ViewStep

\* Whatever teams solve, lose or solve again, and in which order the page is told of it,
\* the counts shown are no less than those of the solves it was told of, and the same,
\* with one of the earliest solvers, where none of them went or was skipped
\* (useActivitySolveProcessor, applySolveEvent).
THEOREM ShownAreRight == CtfSpec => []ShownSolvesAreRight
<1>1. CtfInit => CountsInv
  BY CountsInit
<1>2. CountsInv /\ [CtfNext]_ctfVars => CountsInv'
  BY CountsStep
<1>3. CountsInv => ShownSolvesAreRight
  <2> SUFFICES ASSUME CountsInv, challenges # None, NEW c \in Challenges \ told.skipped, SameStart(c)
               PROVE  /\ challenges.count[c] >= Cardinality(Solvers(c, told.feed))
                      /\ c \notin told.gone => RightFor(challenges, c, told.feed)
    BY DEF ShownSolvesAreRight, RightFor
  <2>1. /\ Solvers(c, told.feed) \subseteq Counted(c)
        /\ Cardinality(Counted(c)) <= challenges.count[c]
        /\ c \notin told.gone => RightFor(challenges, c, told.feed)
    BY DEF CountsInv, ShownOK, ShownFor
  <2>2. Counted(c) \in SUBSET Teams
    BY DEF Counted, Solvers, AppliedFor
  <2>3. IsFiniteSet(Counted(c)) /\ Cardinality(Counted(c)) \in Nat
    BY <2>2, TeamsFinite
  <2>4. Cardinality(Solvers(c, told.feed)) <= Cardinality(Counted(c))
        /\ Cardinality(Solvers(c, told.feed)) \in Nat
    BY <2>1, <2>3, FS_Subset, SolversFinite
  <2>5. challenges.count[c] \in Nat
    BY DEF CountsInv, PageOK, Counts
  <2> QED
    BY <2>1, <2>3, <2>4, <2>5
<1> QED
  BY <1>1, <1>2, <1>3, PTL DEF CtfSpec

\* Once there are counts there are always counts, and no batch, whatever it tells and
\* in which order, takes a solve or a first solver back (applySolveEvent, fetchChallenges).
THEOREM CountsNeverFall ==
  CtfSpec => [][challenges # None => challenges' # None /\ Grown(challenges, challenges')]_ctfVars
<1>1. CtfInit => CountsInv
  BY CountsInit
<1>2. CountsInv /\ [CtfNext]_ctfVars => CountsInv'
  BY CountsStep
<1>3. CountsInv /\ [CtfNext]_ctfVars =>
        [challenges # None => challenges' # None /\ Grown(challenges, challenges')]_ctfVars
  BY CountsStep
<1> QED
  BY <1>1, <1>2, <1>3, PTL DEF CtfSpec

(***************************************************************************)
(* The globes.                                                             *)
(***************************************************************************)
GlobeState == [stage : {"loading", "building", "ready", "failed"}, patterns : SUBSET Challenges,
               given : [Challenges -> Nat], missed : SUBSET Challenges]

ViewTypeOK ==
    /\ challengesRef \in {None} \cup Counts
    /\ previous \in {None} \cup Counts
    /\ globes \in Seq(GlobeState)
    /\ handle \in {0} \cup DOMAIN globes

\* The effects lag behind the counts, which only grow; loads begin with the first
\* counts, and once a globe has the handle it was told of all the effects have run
\* with.
RefsOK ==
    /\ challengesRef # None => challenges # None /\ Grown(challengesRef, challenges)
    /\ challengesRef = None => globes = <<>>
    /\ previous = None <=> handle = 0
    /\ handle # 0 => previous = challengesRef /\ globes[handle].stage = "ready"

\* What a globe has for a challenge: its pattern from the load, when it was solved
\* before, or the word that it was solved, once.
GlobeOK(i, c) ==
    LET g == globes[i] IN
    /\ c \in g.patterns => challengesRef.count[c] > 0 /\ g.given[c] = 0
    /\ g.given[c] <= 1
    /\ g.given[c] > 0 => previous # None /\ previous.count[c] > 0
    /\ handle = i /\ c \in SolvedWithPatterns(previous) =>
          c \in g.patterns \cup g.missed \/ g.given[c] > 0

ViewInv == ViewTypeOK /\ RefsOK /\ \A i \in DOMAIN globes, c \in Challenges : GlobeOK(i, c)

LEMMA GrownTwice ==
  ASSUME NEW old \in Counts, NEW mid \in Counts, NEW new \in Counts, Grown(old, mid), Grown(mid, new)
  PROVE  Grown(old, new)
<1> SUFFICES ASSUME NEW c \in Challenges
             PROVE  /\ old.count[c] <= new.count[c]
                    /\ old.first[c] # Nobody => new.first[c] # Nobody
  BY DEF Grown
<1>1. old.count[c] \in Nat /\ mid.count[c] \in Nat /\ new.count[c] \in Nat
  BY DEF Counts
<1>2. old.count[c] <= mid.count[c] /\ mid.count[c] <= new.count[c]
  BY DEF Grown
<1> QED
  BY <1>1, <1>2 DEF Grown

\* The counts grow, and nothing else happens.
LEMMA ViewWaits ==
  ASSUME CountsInv, CountsInv', ViewInv, UNCHANGED view,
         challenges # None => challenges' # None /\ Grown(challenges, challenges')
  PROVE  ViewInv'
<1>1. UNCHANGED <<challengesRef, previous, globes, handle>>
  BY DEF view
<1>2. ViewTypeOK'
  BY <1>1 DEF ViewInv, ViewTypeOK
<1>3. RefsOK'
  <2> SUFFICES ASSUME challengesRef # None PROVE challenges' # None /\ Grown(challengesRef, challenges')
    BY <1>1 DEF ViewInv, RefsOK, Grown
  <2>1. challenges # None /\ Grown(challengesRef, challenges) /\ challengesRef \in Counts
    BY DEF ViewInv, RefsOK, ViewTypeOK
  <2>2. challenges \in Counts /\ challenges' \in Counts
    BY <2>1 DEF CountsInv, PageOK
  <2> QED
    BY <2>1, <2>2, GrownTwice
<1>4. \A i \in DOMAIN globes, c \in Challenges : GlobeOK(i, c)'
  BY <1>1 DEF ViewInv, GlobeOK, SolvedWithPatterns
<1> QED
  BY <1>1, <1>2, <1>3, <1>4 DEF ViewInv

LEMMA FunctionIsSeq ==
  ASSUME NEW S, NEW n \in Nat, NEW f \in [1 .. n -> S]
  PROVE  f \in Seq(S) /\ DOMAIN f = 1 .. n
BY SeqDef

\* The stage of one globe changes, and what it missed may be noted.
LEMMA GlobeChanged ==
  ASSUME ViewTypeOK, NEW i \in DOMAIN globes, NEW stage \in {"building", "ready", "failed"},
         NEW missed \in SUBSET Challenges,
         globes' = [globes EXCEPT ![i].stage = stage, ![i].missed = missed]
  PROVE  /\ globes' \in Seq(GlobeState) /\ DOMAIN globes' = DOMAIN globes
         /\ \A j \in DOMAIN globes :
               /\ globes'[j].patterns = globes[j].patterns /\ globes'[j].given = globes[j].given
               /\ globes'[j].stage = IF j = i THEN stage ELSE globes[j].stage
               /\ globes'[j].missed = IF j = i THEN missed ELSE globes[j].missed
<1>1. globes \in Seq(GlobeState) /\ i \in 1 .. Len(globes) /\ globes[i] \in GlobeState
  BY DEF ViewTypeOK
<1> DEFINE g == [globes[i] EXCEPT !.stage = stage, !.missed = missed]
<1>2. /\ g \in GlobeState /\ g.patterns = globes[i].patterns /\ g.given = globes[i].given
      /\ g.stage = stage /\ g.missed = missed
  BY <1>1 DEF GlobeState
<1>3. globes' = [j \in 1 .. Len(globes) |-> IF j = i THEN g ELSE globes[j]]
  <2>1. DOMAIN globes = 1 .. Len(globes)
    BY <1>1
  <2>2. globes' = [j \in DOMAIN globes |-> globes'[j]]
    OBVIOUS
  <2>3. \A j \in DOMAIN globes : globes'[j] = IF j = i THEN g ELSE globes[j]
    OBVIOUS
  <2> QED
    BY <2>1, <2>2, <2>3
<1> HIDE DEF g
<1>4. globes' \in [1 .. Len(globes) -> GlobeState] /\ Len(globes) \in Nat
  BY <1>1, <1>2, <1>3
<1>5. globes' \in Seq(GlobeState) /\ DOMAIN globes' = DOMAIN globes
  <2>1. DOMAIN globes = 1 .. Len(globes)
    BY <1>1
  <2> QED
    BY <1>4, <2>1, FunctionIsSeq
<1> QED
  BY <1>1, <1>2, <1>3, <1>5

\* A load ends, well or not, or a globe is ready and gets the handle.
LEMMA LoadSteps ==
  ASSUME CountsInv, ViewInv, UNCHANGED challenges,
         NEW i \in DOMAIN globes, LoadEnds(i) \/ LoadFails(i) \/ handleGlobeReady(i)
  PROVE  ViewInv'
<1> USE DEF ViewInv
<1>1. /\ globes # <<>> /\ challengesRef # None /\ challengesRef \in Counts
      /\ globes \in Seq(GlobeState) /\ DOMAIN globes = 1 .. Len(globes)
  BY DEF RefsOK, ViewTypeOK
<1>2. CASE LoadEnds(i) \/ LoadFails(i)
  <2>1. /\ UNCHANGED <<challengesRef, previous, handle>> /\ globes[i].stage = "loading"
        /\ \E stage \in {"building", "failed"} : globes' = [globes EXCEPT ![i].stage = stage]
    BY <1>2 DEF LoadEnds, LoadFails
  <2>2. PICK stage \in {"building", "failed"} : globes' = [globes EXCEPT ![i].stage = stage]
    BY <2>1
  <2> DEFINE g == [globes[i] EXCEPT !.stage = stage]
  <2>3. globes[i] \in GlobeState
    BY <1>1
  <2>4. /\ g \in GlobeState /\ g.stage = stage /\ g.patterns = globes[i].patterns
        /\ g.given = globes[i].given /\ g.missed = globes[i].missed
    BY <2>3 DEF GlobeState
  <2>5. /\ globes' \in Seq(GlobeState) /\ DOMAIN globes' = DOMAIN globes
        /\ \A j \in DOMAIN globes :
              /\ globes'[j].patterns = globes[j].patterns /\ globes'[j].given = globes[j].given
              /\ globes'[j].stage = IF j = i THEN stage ELSE globes[j].stage
              /\ globes'[j].missed = globes[j].missed
    <3>1. globes' = [globes EXCEPT ![i] = g]
      BY <2>2
    <3> HIDE DEF g
    <3>2. /\ globes' \in Seq(GlobeState) /\ Len(globes') = Len(globes)
          /\ \A j \in 1 .. Len(globes) : globes'[j] = IF j = i THEN g ELSE globes[j]
      BY <1>1, <2>4, <3>1, ExceptSeq
    <3> QED
      BY <1>1, <2>4, <3>2
  <2>6. ViewTypeOK' /\ RefsOK'
    BY <1>1, <2>1, <2>5 DEF ViewTypeOK, RefsOK, Grown
  <2>7. \A j \in DOMAIN globes, c \in Challenges : GlobeOK(j, c)'
    BY <2>1, <2>5 DEF GlobeOK, SolvedWithPatterns
  <2> QED
    BY <2>5, <2>6, <2>7
<1>3. CASE handleGlobeReady(i)
  <2>1. /\ handle' = i /\ previous' = Baseline /\ UNCHANGED challengesRef
        /\ globes' = [globes EXCEPT ![i].stage = "ready",
                                    ![i].missed = SolvedWithPatterns(Baseline) \ globes[i].patterns]
    BY <1>3 DEF handleGlobeReady
  <2>2. Baseline = challengesRef
    BY <1>1 DEF Baseline, RefsOK
  <2>3. SolvedWithPatterns(Baseline) \ globes[i].patterns \in SUBSET Challenges
    BY DEF SolvedWithPatterns
  <2>4. /\ globes' \in Seq(GlobeState) /\ DOMAIN globes' = DOMAIN globes
        /\ \A j \in DOMAIN globes :
              /\ globes'[j].patterns = globes[j].patterns /\ globes'[j].given = globes[j].given
              /\ globes'[j].stage = IF j = i THEN "ready" ELSE globes[j].stage
              /\ globes'[j].missed = IF j = i THEN SolvedWithPatterns(Baseline) \ globes[i].patterns
                                     ELSE globes[j].missed
    <3>1. PICK new \in SUBSET Challenges : new = SolvedWithPatterns(Baseline) \ globes[i].patterns
      BY <2>3
    <3>2. globes' = [globes EXCEPT ![i].stage = "ready", ![i].missed = new]
      BY <2>1, <3>1
    <3>3. /\ globes' \in Seq(GlobeState) /\ DOMAIN globes' = DOMAIN globes
          /\ \A j \in DOMAIN globes :
                /\ globes'[j].patterns = globes[j].patterns /\ globes'[j].given = globes[j].given
                /\ globes'[j].stage = IF j = i THEN "ready" ELSE globes[j].stage
                /\ globes'[j].missed = IF j = i THEN new ELSE globes[j].missed
      <4>1. ViewTypeOK /\ i \in DOMAIN globes /\ "ready" \in {"building", "ready", "failed"}
        BY <1>1
      <4> QED
        BY <3>2, <4>1, GlobeChanged, ZenonT(60)
    <3> QED
      BY <3>1, <3>3
  <2>5. ViewTypeOK'
    BY <1>1, <2>1, <2>2, <2>4 DEF ViewTypeOK
  <2>6. RefsOK'
    BY <1>1, <2>1, <2>2, <2>4 DEF RefsOK, Grown
  <2>7. ASSUME NEW j \in DOMAIN globes, NEW c \in Challenges PROVE GlobeOK(j, c)'
    <3>1. GlobeOK(j, c)
      OBVIOUS
    <3>2. previous # None => previous = challengesRef
      BY DEF RefsOK
    <3>3. SolvedWithPatterns(previous)' = SolvedWithPatterns(Baseline)
      BY <2>1 DEF SolvedWithPatterns
    <3> QED
      BY <1>1, <2>1, <2>2, <2>4, <3>1, <3>2, <3>3 DEF GlobeOK
  <2> QED
    BY <2>4, <2>5, <2>6, <2>7
<1> QED
  BY <1>2, <1>3

\* The effects start another load, or tell the globe that has the handle.
LEMMA EffectsStep ==
  ASSUME CountsInv, ViewInv, UNCHANGED challenges, RunEffects
  PROVE  ViewInv'
<1> USE DEF ViewInv
<1>1. /\ challenges # challengesRef /\ challengesRef' = challenges /\ UNCHANGED handle
      /\ globes \in Seq(GlobeState) /\ DOMAIN globes = 1 .. Len(globes) /\ Len(globes) \in Nat
  BY DEF RunEffects, ViewTypeOK
<1>2. challenges # None /\ challenges \in Counts
  BY <1>1 DEF RefsOK, CountsInv, PageOK
<1>3. Grown(challenges, challenges)
  BY <1>2 DEF Grown, Counts
<1>4. challengesRef # None => Grown(challengesRef, challenges) /\ challengesRef \in Counts
  BY DEF RefsOK, ViewTypeOK
<1>5. CASE handle = 0
  <2>1. globes' = loadAllData /\ UNCHANGED previous /\ previous = None
    BY <1>5 DEF RunEffects, RefsOK
  <2>2. ASSUME NEW j \in DOMAIN globes, NEW c \in Challenges
        PROVE  /\ c \in globes[j].patterns => challenges.count[c] > 0 /\ globes[j].given[c] = 0
               /\ globes[j].given[c] = 0
    <3>1. challengesRef # None
      BY DEF RefsOK
    <3>2. GlobeOK(j, c) /\ globes[j].given[c] \in Nat
      <4>1. globes[j] \in GlobeState
        BY <1>1
      <4>2. GlobeOK(j, c)
        OBVIOUS
      <4> QED
        BY <4>1, <4>2 DEF GlobeState
    <3>3. challengesRef.count[c] \in Nat /\ challenges.count[c] \in Nat
      BY <1>2, <1>4, <3>1 DEF Counts
    <3>4. challengesRef.count[c] <= challenges.count[c]
      BY <1>4, <3>1 DEF Grown
    <3> QED
      BY <2>1, <3>2, <3>3, <3>4 DEF GlobeOK
  <2>3. CASE Loaded
    <3>1. globes' = globes
      BY <2>1, <2>3 DEF loadAllData
    <3>2. ViewTypeOK' /\ RefsOK'
      BY <1>1, <1>2, <1>3, <1>5, <2>1, <3>1 DEF ViewTypeOK, RefsOK, Grown
    <3>3. \A j \in DOMAIN globes, c \in Challenges : GlobeOK(j, c)'
      BY <1>1, <1>2, <1>5, <2>1, <2>2, <3>1 DEF GlobeOK
    <3> QED
      BY <3>1, <3>2, <3>3
  <2>4. CASE ~Loaded
    <3> DEFINE g == NewGlobe(challenges)
    <3>1. globes' = Append(globes, g)
      BY <2>1, <2>4 DEF loadAllData
    <3>2. /\ g \in GlobeState /\ g.patterns = SolvedWithPatterns(challenges)
          /\ \A c \in Challenges : g.given[c] = 0
      BY DEF NewGlobe, GlobeState, SolvedWithPatterns
    <3> HIDE DEF g
    <3>3. /\ globes' \in Seq(GlobeState) /\ Len(globes') = Len(globes) + 1
          /\ \A j \in 1 .. Len(globes) : globes'[j] = globes[j]
          /\ globes'[Len(globes) + 1] = g
      BY <1>1, <3>1, <3>2, AppendProperties
    <3>4. DOMAIN globes' = 1 .. Len(globes) + 1
      BY <3>3
    <3>5. ViewTypeOK' /\ RefsOK'
      BY <1>1, <1>2, <1>3, <1>5, <2>1, <3>3, <3>4 DEF ViewTypeOK, RefsOK, Grown
    <3>6. ASSUME NEW j \in 1 .. Len(globes) + 1, NEW c \in Challenges PROVE GlobeOK(j, c)'
      <4>1. j # 0 /\ handle' # j
        BY <1>1, <1>5
      <4>2. CASE j \in DOMAIN globes
        BY <1>1, <2>2, <3>3, <4>1, <4>2 DEF GlobeOK
      <4>3. CASE j = Len(globes) + 1
        BY <1>1, <3>2, <3>3, <4>1, <4>3 DEF GlobeOK, SolvedWithPatterns
      <4> QED
        BY <1>1, <4>2, <4>3
    <3> QED
      BY <3>4, <3>5, <3>6
  <2> QED
    BY <2>3, <2>4
<1>6. CASE handle # 0
  <2> DEFINE newly == findNewlySolvedChallenges(previous, challenges)
             given == [c \in Challenges |-> globes[handle].given[c] + IF c \in newly THEN 1 ELSE 0]
             lacking == {c \in SolvedWithPatterns(challenges) :
                         previous.count[c] > 0 /\ previous.first[c] = Nobody}
             g == [globes[handle] EXCEPT !.given = given, !.missed = @ \cup lacking]
  <2>1. /\ previous' = challenges /\ handle \in DOMAIN globes
        /\ globes' = focusAndHighlight
    BY <1>6 DEF RunEffects, ViewTypeOK
  <2>2. previous = challengesRef /\ previous # None /\ globes[handle] \in GlobeState
        /\ globes[handle].stage = "ready"
    BY <1>1, <1>6, <2>1 DEF RefsOK
  <2>3. \A c \in Challenges : previous.count[c] \in Nat /\ challenges.count[c] \in Nat
    BY <1>2, <1>4, <2>2 DEF Counts
  <2>4. given \in [Challenges -> Nat]
    BY <2>2 DEF GlobeState
  <2>5. /\ g \in GlobeState /\ g.given = given
        /\ g.patterns = globes[handle].patterns /\ g.missed = globes[handle].missed \cup lacking
        /\ g.stage = "ready"
    <3>1. lacking \in SUBSET Challenges
      BY DEF SolvedWithPatterns
    <3> HIDE DEF given, lacking
    <3> QED
      BY <2>2, <2>4, <3>1 DEF GlobeState
  <2>6. globes' = [globes EXCEPT ![handle] = g]
    BY <2>1 DEF focusAndHighlight
  <2> HIDE DEF g
  <2>7. /\ globes' \in Seq(GlobeState) /\ Len(globes') = Len(globes)
        /\ \A j \in 1 .. Len(globes) : globes'[j] = IF j = handle THEN g ELSE globes[j]
    BY <1>1, <2>1, <2>5, <2>6, ExceptSeq
  <2>8. DOMAIN globes' = DOMAIN globes
    BY <1>1, <2>7
  <2>9. ViewTypeOK'
    BY <1>1, <1>2, <2>1, <2>7, <2>8 DEF ViewTypeOK
  <2>10. RefsOK'
    BY <1>1, <1>2, <1>3, <1>6, <2>1, <2>5, <2>7 DEF RefsOK, Grown
  <2>11. ASSUME NEW j \in DOMAIN globes, NEW c \in Challenges PROVE GlobeOK(j, c)'
    <3>1. GlobeOK(j, c) /\ globes[j].given[c] \in Nat
      <4>1. globes[j] \in GlobeState
        BY <1>1
      <4>2. GlobeOK(j, c)
        OBVIOUS
      <4> QED
        BY <4>1, <4>2 DEF GlobeState
    <3>2. /\ previous.count[c] <= challenges.count[c]
          /\ previous.first[c] # Nobody => challenges.first[c] # Nobody
      BY <1>4, <2>2 DEF Grown
    <3>3. CASE j # handle
      BY <1>1, <2>1, <2>2, <2>3, <2>7, <3>1, <3>2, <3>3, <1>2 DEF GlobeOK
    <3>4. CASE j = handle
      <4>1. globes'[j] = g /\ g.given[c] = globes[j].given[c] + IF c \in newly THEN 1 ELSE 0
        BY <1>1, <2>5, <2>7, <3>4
      <4>2. c \in newly <=> c \in SolvedWithPatterns(challenges) /\ previous.count[c] = 0
        BY DEF findNewlySolvedChallenges, SolvedWithPatterns
      <4>3. c \in newly => challenges.count[c] > 0 /\ c \notin globes[j].patterns /\ globes[j].given[c] = 0
        BY <2>2, <2>3, <3>1, <4>2 DEF GlobeOK, SolvedWithPatterns
      <4>4. c \in g.patterns => challenges.count[c] > 0 /\ g.given[c] = 0
        BY <2>2, <2>3, <2>5, <3>1, <3>2, <3>4, <4>1, <4>3 DEF GlobeOK
      <4>5. g.given[c] <= 1 /\ (g.given[c] > 0 => challenges.count[c] > 0)
        <5> HIDE DEF newly
        <5> QED
          BY <2>3, <3>1, <3>2, <4>1, <4>3 DEF GlobeOK
      <4>6. c \in SolvedWithPatterns(challenges) => c \in g.patterns \cup g.missed \/ g.given[c] > 0
        <5>1. CASE c \in newly
          <6> HIDE DEF newly
          <6> QED
            BY <3>1, <4>1, <5>1
        <5>2. CASE c \notin newly /\ c \in SolvedWithPatterns(challenges)
          <6>1. previous.count[c] > 0
            BY <2>3, <4>2, <5>2
          <6>2. CASE previous.first[c] = Nobody
            BY <2>5, <5>2, <6>1, <6>2
          <6>3. CASE previous.first[c] # Nobody
            <7>1. c \in SolvedWithPatterns(previous)
              BY <5>2, <6>1, <6>3 DEF SolvedWithPatterns
            <7>2. g.given[c] = globes[j].given[c]
              BY <3>1, <4>1, <5>2
            <7> QED
              BY <2>5, <3>1, <3>4, <7>1, <7>2 DEF GlobeOK
          <6> QED
            BY <6>2, <6>3
        <5> QED
          BY <5>1, <5>2
      <4>7. SolvedWithPatterns(previous)' = SolvedWithPatterns(challenges)
        BY <2>1 DEF SolvedWithPatterns
      <4> HIDE DEF newly, given
      <4> QED
        BY <1>1, <1>2, <2>1, <4>1, <4>4, <4>5, <4>6, <4>7 DEF GlobeOK
    <3> QED
      BY <3>3, <3>4
  <2> QED
    BY <2>8, <2>9, <2>10, <2>11
<1> QED
  BY <1>5, <1>6

LEMMA ViewInit == CtfInit => ViewInv
<1> SUFFICES ASSUME CtfInit PROVE ViewInv
  OBVIOUS
<1>1. ViewTypeOK
  BY DEF CtfInit, ViewTypeOK
<1> QED
  BY <1>1 DEF CtfInit, ViewInv, RefsOK

\* Whatever the order of the counts' arrival, of loads that end or fail and of globes
\* that become ready, each globe gets each solve once, and the one with the handle
\* lacks none but those it missed (useGlobeDataLoader, findNewlySolvedChallenges).
THEOREM SolvesReachGlobes == CtfSpec => []GlobeGetsEachSolveOnce
<1>1. CtfInit => CountsInv /\ ViewInv
  BY CountsInit, ViewInit
<1>2. CountsInv /\ ViewInv /\ [CtfNext]_ctfVars => CountsInv' /\ ViewInv'
  BY CountsStep, ViewWaits, LoadSteps, EffectsStep DEF ViewStep
<1>3. CountsInv /\ ViewInv => GlobeGetsEachSolveOnce
  <2> SUFFICES ASSUME CountsInv, ViewInv PROVE GlobeGetsEachSolveOnce
    OBVIOUS
  <2>1. ASSUME NEW i \in DOMAIN globes, NEW c \in Challenges
        PROVE  /\ globes[i].given[c] + (IF c \in globes[i].patterns THEN 1 ELSE 0) <= 1
               /\ handle = i /\ challenges = challengesRef /\ c \in SolvedWithPatterns(challenges) =>
                     c \in globes[i].patterns \cup globes[i].missed \/ globes[i].given[c] > 0
    <3>1. GlobeOK(i, c)
      BY DEF ViewInv
    <3>2. globes[i] \in GlobeState /\ i # 0
      BY DEF ViewInv, ViewTypeOK
    <3>3. globes[i].given[c] \in Nat
      BY <3>2 DEF GlobeState
    <3>4. handle = i => previous = challengesRef
      BY <3>2 DEF ViewInv, RefsOK
    <3> QED
      BY <3>1, <3>3, <3>4 DEF GlobeOK
  <2>2. \A c \in SolvedWithPatterns(challenges) : c \in Challenges
    BY DEF SolvedWithPatterns
  <2> QED
    BY <2>1, <2>2 DEF GlobeGetsEachSolveOnce
<1> QED
  BY <1>1, <1>2, <1>3, PTL DEF CtfSpec
================================================================================
