\* Entering races closing.
CONSTANTS
    h1 = h1  h2 = h2  s1 = s1  s2 = s2  alice = alice  bob = bob  q1 = q1  q2 = q2
    star = star
    Server = {h1, h2}
    Socket = {s1, s2}
    User = {alice, bob}
    Home <- HomeApart
    LoginAs <- TwoUsers
    Pattern = {}
    Matches <- Globs
    Slot = {q1}
    AskedRoom = {1}
    MaxRequest = 3
    MaxExit = 0
    MaxDrop = 0
    NoRoom = NoRoom
    NoUser = NoUser
SPECIFICATION Spec
INVARIANTS ClosedIsEmpty
CHECK_DEADLOCK FALSE
