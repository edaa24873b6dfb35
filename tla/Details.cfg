SPECIFICATION FairSpec
CONSTANTS
    Challenges = {1, 2}
    Keys = {1, 2, 3}
    Country <- MCCountry
    germany = germany
    japan = japan
    Teams = {t1, t2}
    Nothing = Nothing
    Refused = Refused
    MaxTime = 2
    MaxUpdates = 1
    MaxAway = 2
INVARIANTS DetailsAreTheOpenOnes OneCountryIsLit
PROPERTIES DetailsArrive
