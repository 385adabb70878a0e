\* One user on two sockets of one server, three logins, with an exit, a restart
\* and a lost Redis link.
CONSTANTS
    h1 = h1  h2 = h2  s1 = s1  s2 = s2  s3 = s3  alice = alice  bob = bob
    Server = {h1}
    User = {alice}
    Socket = {s1, s2}
    Home <- HomeTogether
    Matches <- MatchesOwn
    LoginsPerSocket = 2
    MaxLogin = 3
    MaxExit = 1
    MaxDrop = 1
    NoUser = NoUser
    NoReq = NoReq
SPECIFICATION Spec
INVARIANTS DirectoryAccurate Heals
SYMMETRY Twins
CHECK_DEADLOCK FALSE
