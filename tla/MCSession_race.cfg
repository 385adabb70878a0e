\* Three connections of one user on two servers, no failures.
CONSTANTS
    h1 = h1  h2 = h2  s1 = s1  s2 = s2  s3 = s3  alice = alice  bob = bob
    Server = {h1, h2}
    User = {alice}
    Socket = {s1, s2, s3}
    Home <- HomeTwoOne
    Matches <- MatchesOwn
    LoginsPerSocket = 1
    MaxLogin = 3
    MaxExit = 0
    MaxDrop = 0
    NoUser = NoUser
    NoReq = NoReq
SPECIFICATION Spec
INVARIANTS DirectoryInv Displaced
SYMMETRY Twins
CHECK_DEADLOCK FALSE
