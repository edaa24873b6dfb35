SPECIFICATION FairSpec
CONSTANTS
    Teams = {t1, t2}
    Replicas = {r1, r2}
    Absent = Absent
    Nobody = Nobody
    MaxRetries = 3
    MaxTokens = 3
    MaxEdits = 2
    MaxCreations = 2
    MaxFailures = 1
    MaxLostAnswers = 1
INVARIANTS TypeOK
PROPERTIES KeepsTheLedger OtherAnnotationsSurvive FlushedInTheEnd
