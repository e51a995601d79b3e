CONSTANTS
    Supernode = {s1, s2, s3}
    NoSn = none
    Mac = {m1}
    Homes <- FirstHome
    Purgeable = FALSE
    EdgeExpired = 1
    AssocExpired = 1
    MaxMoves = 1
    MaxRestarts = 1
    MaxInFlight = 1
SPECIFICATION MCSpec
PROPERTY ReachableAgain
