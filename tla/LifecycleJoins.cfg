SPECIFICATION Spec
CONSTANTS
    Teams = {t1, t2, t3}
    Replicas = {}
    Requests = {q1, q2}
    Lookups = {}
    Absent = Absent
    Nobody = Nobody
    MaxInstances = 2
    LLMEnabled = TRUE
    CacheTime = 1
    MaxInactive = 1
    MaxTime = 1
    MaxCreations = 4
    MaxFailures = 1
SYMMETRY Symmetry
INVARIANTS TypeOK InstancesBounded ToldTeamsAreServed
