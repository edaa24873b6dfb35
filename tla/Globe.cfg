SPECIFICATION FairSpec
CONSTANTS
    Countries = {1, 2, 3}
    Centreless = {3}
    Patterns = {"a", "b"}
    Pattern <- MCPattern
    Nothing = Nothing
    TransitionStart = 2
    CameraTime = 3
    HighlightStart = 3
    GiveUpAfter = 4
    RevealTime = 5
    HighlightTime = 6
    IdleTimeout = 1
    MaxStep = 4
    MaxLosses = 2
INVARIANTS AliveWhenSeen EveryPatternShows
PROPERTIES ComesToRest
