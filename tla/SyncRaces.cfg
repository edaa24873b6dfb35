SPECIFICATION Spec
CONSTANTS
    t1 = t1
    t2 = t2
    c1 = c1
    c2 = c2
    r1 = r1
    r2 = r2
    h1 = h1
    h2 = h2
    w1 = w1
    w2 = w2
    NoOne = NoOne
    Teams = {t1, t2}
    Challenges = {c1}
    Replicas = {r1}
    Prepared = {r1}
    Handlers = {h1}
    Workers = {w1, w2}
    FreezeOnEnd = TRUE
    CheatReports = {TRUE}
    MaxRestarts = 1
    MaxFailures = 0
SYMMETRY Symmetry
INVARIANT TypeOK OnlyEarnedSolves FrozenScoresStay
PROPERTY CheatsDropOnlyByOverlap
