------------------------------- MODULE Globe -------------------------------
(***************************************************************************)
(* The globe of the CTF page.  A loop of animation frames draws it, and    *)
(* pauses when the tab is hidden or the WebGL context is lost.  Solved     *)
(* challenges' countries are queued and shown one after the other: the     *)
(* camera turns to the country, its solid fill is replaced by the first    *)
(* solver's pattern as soon as the texture is there, the pattern spreads   *)
(* from the capital and the country glows.  Times are in halves of a       *)
(* second; a frame may come any time after the one before.                 *)
(***************************************************************************)
EXTENDS Naturals, Sequences, SequencesExt, FiniteSets

CONSTANTS
    Countries,      \* countries with a challenge
    Centreless,     \* those of them nobody knows a centre of
    Patterns,       \* texture files
    Pattern,        \* Pattern[c]: that of the team that solves c first
    Nothing,
    TransitionStart, CameraTime, HighlightStart, GiveUpAfter, RevealTime, HighlightTime,
    IdleTimeout,
    MaxStep,        \* bound: time between two frames
    MaxLosses       \* bound: how often the context is lost

ASSUME GlobeAssumption ==
    /\ IsFiniteSet(Countries)
    /\ Centreless \subseteq Countries
    /\ Pattern \in [Countries -> Patterns]
    /\ {IdleTimeout, MaxLosses} \subseteq Nat
    /\ MaxStep \in Nat \ {0}
    /\ {TransitionStart, CameraTime, HighlightStart, RevealTime, HighlightTime, GiveUpAfter}
           \subseteq Nat \ {0}
    /\ TransitionStart <= HighlightStart /\ CameraTime <= HighlightStart
    /\ HighlightStart <= GiveUpAfter /\ RevealTime <= HighlightTime

\* The sequence that turns to a country, lets its pattern spread and lets it glow;
\* 0 stands for a phase that has not begun.
SequenceState == [country : Countries, elapsed : Nat, transitioned : BOOLEAN,
                  revealStart : Nat, highlightStart : Nat]

ASSUME NothingAssumption == Nothing \notin SequenceState

VARIABLES
    todo,       \* countries solved before, whose pattern is still to be put on
    ready,      \* the page has the handle, and the frames have begun
    solved,     \* countries with a pattern from the start, or handed over by the page
    mesh,       \* mesh[c]: "solid", "hidden" under a pattern not spread yet, "pattern"
    texture,    \* texture[p]: what the cache has of p
    waiting,    \* transitions whose texture is not there yet
    late,       \* history: transitions that ended after their sequence
    queue,      \* sequences to come
    sequence,   \* the one that runs
    rotate,     \* the user may turn the globe
    autoRotate, \* it turns by itself
    idle,       \* time since the last activity, as far as it matters
    seen,       \* the tab is visible
    context,    \* there is a WebGL context
    running,    \* isRunning
    latest,     \* the frame asked for last is still to come
    others,     \* how many frames asked for before are still to come
    losses      \* history: how often the context was lost

countries == <<solved, mesh, texture, waiting, late>>
animator == <<queue, sequence, rotate, autoRotate, idle>>
loop == <<running, latest, others>>
tab == <<seen, context, losses>>
vars == <<todo, ready, countries, animator, loop, tab>>

Init ==
    /\ solved \in SUBSET Countries
    /\ todo = solved
    /\ ready = FALSE
    /\ mesh = [c \in Countries |-> "solid"]
    /\ texture = [p \in Patterns |-> "none"]
    /\ waiting = {}
    /\ late = {}
    /\ queue = <<>>
    /\ sequence = Nothing
    /\ rotate = TRUE
    /\ autoRotate = FALSE
    /\ idle = 0
    /\ seen \in BOOLEAN
    /\ context = TRUE
    /\ running = TRUE
    /\ latest = FALSE
    /\ others = 0
    /\ losses = 0

(***************************************************************************)
(* Textures.                                                               *)
(***************************************************************************)
There(p) == texture[p] \in {"loaded", "failed"}

\* A file is asked for once; also its failure is kept.
loadTexture(p) == IF texture[p] = "none" THEN [texture EXCEPT ![p] = "loading"] ELSE texture

TextureLoads(p) ==
    /\ texture[p] = "loading"
    /\ \E outcome \in {"loaded", "failed"} : texture' = [texture EXCEPT ![p] = outcome]
    /\ UNCHANGED <<todo, ready, solved, mesh, waiting, late, animator, loop, tab>>

(***************************************************************************)
(* Initialization.                                                         *)
(***************************************************************************)

\* One texture after the other is awaited.
AskForTexture(c) ==
    /\ c \in todo /\ "loading" \notin {texture[p] : p \in Patterns}
    /\ texture[Pattern[c]] = "none"
    /\ texture' = loadTexture(Pattern[c])
    /\ UNCHANGED <<todo, ready, solved, mesh, waiting, late, animator, loop, tab>>

\* Without its texture a country is solid.
createRenderObjects(c) ==
    /\ c \in todo /\ There(Pattern[c])
    /\ todo' = todo \ {c}
    /\ mesh' = [mesh EXCEPT ![c] = IF texture[Pattern[c]] = "loaded" THEN "pattern" ELSE @]
    /\ UNCHANGED <<ready, solved, texture, waiting, late, animator, loop, tab>>

\* Another frame is asked for.
RequestFrame ==
    /\ latest' = TRUE
    /\ others' = IF latest THEN others + 1 ELSE others

\* The one asked for last is taken back.
CancelFrame == latest' = FALSE /\ UNCHANGED others

GlobeIsReady ==
    /\ ~ready /\ todo = {}
    /\ ready' = TRUE
    /\ running' = TRUE
    /\ RequestFrame
    /\ UNCHANGED <<todo, countries, animator, tab>>

(***************************************************************************)
(* The loop.                                                               *)
(***************************************************************************)
Pause == running' = FALSE /\ CancelFrame

\* Mutant: the loop is to ask for its next frame itself.
ResumeWithoutFrame == running' = TRUE /\ UNCHANGED <<latest, others>>

Resume == running' = TRUE /\ RequestFrame

handleContextLost ==
    /\ context /\ losses < MaxLosses
    /\ context' = FALSE
    /\ losses' = losses + 1
    /\ Pause
    /\ UNCHANGED <<todo, ready, countries, animator, seen>>

handleContextRestored ==
    /\ ~context
    /\ context' = TRUE
    /\ Resume
    /\ UNCHANGED <<todo, ready, countries, animator, seen, losses>>

\* The page listens from when it is ready.
handleVisibilityChange ==
    /\ seen' = ~seen
    /\ IF ~ready THEN UNCHANGED loop ELSE IF seen THEN Pause ELSE Resume
    /\ UNCHANGED <<todo, ready, countries, animator, context, losses>>

\* One of the frames that were asked for comes.
TakeFrame ==
    \/ latest /\ latest' = FALSE /\ UNCHANGED others
    \/ others > 0 /\ others' = others - 1 /\ UNCHANGED latest

\* A frame that comes while the loop pauses, or before there is an animator, asks
\* for no other.
SkipFrame ==
    /\ seen /\ ~(running /\ ready)
    /\ TakeFrame
    /\ UNCHANGED <<todo, ready, countries, animator, running, tab>>

(***************************************************************************)
(* The animations.                                                         *)
(***************************************************************************)

SolveSequence(c) ==
    [country |-> c, elapsed |-> 0, transitioned |-> FALSE, revealStart |-> 0, highlightStart |-> 0]

\* A new one begins at 0.
Step(d) == IF sequence = Nothing THEN SolveSequence(Head(queue))
           ELSE [sequence EXCEPT !.elapsed = @ + d]

HasPattern(c) == mesh[c] \in {"hidden", "pattern"}

\* The phases of a sequence, as a frame moves them.
Phases(s) ==
    [s EXCEPT !.transitioned = @ \/ s.elapsed >= TransitionStart,
              !.highlightStart = IF @ = 0 /\ s.elapsed >= HighlightStart /\ HasPattern(s.country)
                                 THEN s.elapsed ELSE @]

\* The country has glowed.
CountryHighlight(s) == s.elapsed - s.highlightStart >= HighlightTime

\* Mutant: a sequence ends with its time, glowing or not.
OverInTime(s) == s.elapsed >= CameraTime /\ s.elapsed > GiveUpAfter

\* A sequence is over with its glow, or when there is none in time.
Over(s) ==
    IF s.highlightStart # 0
    THEN CountryHighlight(s)
    ELSE s.elapsed >= CameraTime /\ s.elapsed > GiveUpAfter

\* Mutant: the camera keeps the controls.
CameraStays(s) == FALSE

\* Until the camera has turned the user may not turn the globe; from then on it is
\* put back in its place with every frame, and the user may.
CameraFocus(s) == s.elapsed >= CameraTime

\* The pattern has spread.
PatternReveal(s) == s.revealStart # 0 /\ s.elapsed - s.revealStart >= RevealTime

\* A frame of the sequence that runs, or of the next.
Animate(d) ==
    LET s == Step(d) IN
    /\ queue' = IF sequence = Nothing THEN Tail(queue) ELSE queue
    /\ sequence' = IF Over(Phases(s)) THEN Nothing ELSE Phases(s)
    /\ rotate' = CameraFocus(s)
    /\ mesh' = IF PatternReveal(s) THEN [mesh EXCEPT ![s.country] = "pattern"] ELSE mesh
    /\ IF ~s.transitioned /\ s.elapsed >= TransitionStart
       THEN waiting' = waiting \cup {s.country} /\ texture' = loadTexture(Pattern[s.country])
       ELSE UNCHANGED <<waiting, texture>>
    /\ autoRotate' = FALSE
    /\ idle' = 0
    /\ UNCHANGED <<solved, late>>

\* Nothing to animate: after a while the globe turns by itself.
Rest(d) ==
    /\ idle' = IF idle + d > IdleTimeout THEN IdleTimeout + 1 ELSE idle + d
    /\ autoRotate' = (autoRotate \/ idle + d > IdleTimeout)
    /\ UNCHANGED <<queue, sequence, rotate, countries>>

Idle == sequence = Nothing /\ queue = <<>>

\* Transitions whose texture is there end before the next frame.
Settled == \A c \in waiting : ~There(Pattern[c])

render(d) ==
    /\ seen /\ running /\ ready /\ Settled
    /\ latest \/ others > 0
    /\ latest' = TRUE
    /\ others' = IF latest THEN others ELSE others - 1
    /\ IF Idle THEN Rest(d) ELSE Animate(d)
    /\ UNCHANGED <<todo, ready, running, tab>>

\* A drag or the wheel.
ControlsStart ==
    /\ ready /\ seen
    /\ autoRotate' = FALSE
    /\ idle' = 0
    /\ UNCHANGED <<todo, ready, countries, queue, sequence, rotate, loop, tab>>

\* The texture of a transition is there: the pattern takes the place of the solid
\* fill, and begins to spread if the country's sequence still runs.  Without a
\* texture the country stays as it is.
transitionCountryToSolved(c) ==
    LET loaded == texture[Pattern[c]] = "loaded"
        current == sequence # Nothing /\ sequence.country = c
    IN
    /\ c \in waiting /\ There(Pattern[c])
    /\ waiting' = waiting \ {c}
    /\ mesh' = IF ~loaded THEN mesh
               ELSE [mesh EXCEPT ![c] = IF c \in Centreless THEN "pattern" ELSE "hidden"]
    /\ sequence' = IF loaded /\ current
                   THEN [sequence EXCEPT !.revealStart = sequence.elapsed] ELSE sequence
    /\ late' = IF current THEN late ELSE late \cup {c}
    /\ UNCHANGED <<todo, ready, solved, texture, queue, rotate, autoRotate, idle, loop, tab>>

\* The page hands over the countries of newly solved challenges; they are queued from
\* the nearest on, which may be any, and those without a centre are changed at once.
focusAndHighlightCountries(newly) ==
    /\ ready
    /\ newly # {} /\ newly \cap solved = {}
    /\ solved' = solved \cup newly
    /\ \E order \in SetToSeqs(newly \ Centreless) : queue' = queue \o order
    /\ waiting' = waiting \cup (newly \cap Centreless)
    /\ texture' = [p \in Patterns |-> IF \E c \in newly \cap Centreless : Pattern[c] = p
                                      THEN loadTexture(p)[p] ELSE texture[p]]
    /\ UNCHANGED <<todo, ready, mesh, late, sequence, rotate, autoRotate, idle, loop, tab>>

Next ==
    \/ \E p \in Patterns : TextureLoads(p)
    \/ \E c \in Countries :
        AskForTexture(c) \/ createRenderObjects(c) \/ transitionCountryToSolved(c)
    \/ GlobeIsReady
    \/ handleContextLost \/ handleContextRestored \/ handleVisibilityChange
    \/ SkipFrame \/ \E d \in 0 .. MaxStep : render(d)
    \/ ControlsStart
    \/ \E newly \in SUBSET Countries : focusAndHighlightCountries(newly)

Spec == Init /\ [][Next]_vars

\* The browser goes on with its frames and the clock with them, transitions end
\* before the next frame.  Textures may never come.
FairSpec ==
    /\ Spec
    /\ WF_vars(\E d \in 1 .. MaxStep : render(d))
    /\ \A c \in Countries : WF_vars(transitionCountryToSolved(c))

(***************************************************************************)
(* Properties.                                                             *)
(***************************************************************************)

\* Whichever of the two pauses ended last, and in whatever order, a globe that can
\* be seen goes on being drawn (handleContextLost, handleVisibilityChange).
AliveWhenSeen == ready /\ seen /\ context => running /\ (latest \/ others > 0)

\* No country is forgotten: one that was solved has its turn still to come, or
\* waits for its texture, or shows its pattern whole, or stays solid without one.
\* What is left of its fill is hidden under its pattern for good only if its transition
\* ended late: its texture came after its sequence was over, or one frame, the texture
\* there or not, went from before the time at which the pattern is asked for to past the
\* sequence's end (SolveSequenceAnimation).
EveryPatternShows ==
    \A c \in solved :
        \/ c \in todo \cup ToSet(queue) \cup waiting
        \/ sequence # Nothing /\ sequence.country = c
        \/ mesh[c] = "pattern"
        \/ mesh[c] = "solid" /\ texture[Pattern[c]] = "failed"
        \/ mesh[c] = "hidden" /\ c \in late

\* A globe that is looked at for long enough comes to rest, the user may turn it and
\* if nobody does, it turns by itself.
ComesToRest ==
    <>[](ready /\ seen /\ context) =>
        <>[](Idle /\ rotate) /\ ([]<>autoRotate \/ []<><<ControlsStart>>_vars)
====
