SPECIFICATION CtfFairSpec
CONSTANTS
    Challenges = {1, 2}
    Difficulty <- MCDifficulty
    Available = 2
    Teams = {t1, t2}
    Nobody = Nobody
    None = None
    Ended = Ended
    Limit = 2
    Units = {1, 2}
    MaxTime = 3
    MaxSolves = 1
    MaxUpdates = 2
    MaxAtOnce = 1
INVARIANTS ShownSolvesAreRight GlobeGetsEachSolveOnce
PROPERTIES CountsCatchUp
