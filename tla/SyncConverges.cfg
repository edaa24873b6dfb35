SPECIFICATION FairSpec
CONSTANTS
    t1 = t1
    t2 = t2
    c1 = c1
    c2 = c2
    r1 = r1
    r2 = r2
    h1 = h1
    h2 = h2
    w1 = w1
    w2 = w2
    NoOne = NoOne
    Teams = {t1}
    Challenges = {c1, c2}
    Replicas = {r1}
    Prepared = {r1}
    Handlers = {h1}
    Workers = {w1}
    FreezeOnEnd = TRUE
    CheatReports = {FALSE}
    MaxRestarts = 1
    MaxFailures = 1
INVARIANT OneEntryPerChallenge
PROPERTY Converges PodsAreRestored SolvesDropOnlyByOverlap
