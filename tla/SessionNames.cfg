SPECIFICATION FairSpec
CONSTANTS
    Members = {m1}
    Teams = {"ape", "bee"}
    Admin = "admin"
    NoTeam = "none"
    MaxPasscodes = 3
    MaxCalls = 2
    MaxClicks = 2
    MaxMishaps = 1
INVARIANTS  NameIsTheCookies
PROPERTIES LinksLeadSomewhere
