\* A relayed kick that meets a closing websocket.
CONSTANTS
    h1 = h1  h2 = h2  s1 = s1  s2 = s2  s3 = s3  alice = alice  bob = bob
    Server = {h1, h2}
    User = {alice}
    Socket = {s1, s2}
    Home <- HomeApart
    Matches <- MatchesOwn
    LoginsPerSocket = 1
    MaxLogin = 3
    MaxExit = 0
    MaxDrop = 0
    NoUser = NoUser
    NoReq = NoReq
SPECIFICATION Spec
INVARIANTS NoticeKillsNoServer
CHECK_DEADLOCK FALSE
