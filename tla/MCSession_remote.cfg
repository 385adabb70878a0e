\* Two users, whose key patterns overlap, on two servers; an exit and a restart.
CONSTANTS
    h1 = h1  h2 = h2  s1 = s1  s2 = s2  s3 = s3  alice = alice  bob = bob
    Server = {h1, h2}
    User = {alice, bob}
    Socket = {s1, s2}
    Home <- HomeApart
    Matches <- MatchesHyphen
    LoginsPerSocket = 1
    MaxLogin = 3
    MaxExit = 1
    MaxDrop = 0
    NoUser = NoUser
    NoReq = NoReq
SPECIFICATION FairSpec
INVARIANTS DirectoryInv
PROPERTIES DisplacedGone LoginEnds
CHECK_DEADLOCK FALSE
