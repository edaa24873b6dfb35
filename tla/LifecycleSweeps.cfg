SPECIFICATION Spec
CONSTANTS
    Teams = {t1}
    Replicas = {r1, r2}
    Requests = {q1}
    Lookups = {p1, p2}
    Absent = Absent
    Nobody = Nobody
    MaxInstances = 4
    LLMEnabled = FALSE
    CacheTime = 2
    MaxInactive = 4
    MaxTime = 7
    MaxCreations = 2
    MaxFailures = 0
SYMMETRY Symmetry
PROPERTIES SweptTeamsWereIdle
