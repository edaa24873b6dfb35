SPECIFICATION ConsoleFairSpec
CONSTANTS
    Instances = {t1}
    Polls = {p1, p2}
    Idle = Idle
    Asked = Asked
    MaxCalls = 2
    MaxPasscodes = 2
INVARIANTS ButtonsAwaitTheirCall DialogPasscodeOpens
PROPERTIES ListCatchesUp
