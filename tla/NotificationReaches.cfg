SPECIFICATION FairSpec
CONSTANTS
    Replicas = {r1}
    Browsers = {b1}
    Admins = {a1, a2}
    Messages = {"pizza"}
    NoMessage = "none"
    Absent = Absent
    MaxTime = 2
    MaxEdits = 2
    MaxFailures = 2
INVARIANTS TypeOK AcceptedEditsStand WatchersAreCurrent
PROPERTIES NoReplicaGoesBack BrowsersCatchUp
