SPECIFICATION FairSpec
CONSTANTS
    Teams = {1, 2, 3}
    Challenges = {"easy"}
    Difficulty <- MCDifficulty
    SolveTimes = {1}
    Initial <- MCInitial
    Replicas = {r1}
    Clients = {c1}
    Wanted = {Board, 1}
    Board = Board
    Absent = Absent
    TopTeams = 2
    MaxEdits = 3
    MaxFailures = 1
INVARIANTS PositionsAreRanks DeployedTeamsAreCurrent NoMissedUpdate
PROPERTIES ClientsCatchUp
