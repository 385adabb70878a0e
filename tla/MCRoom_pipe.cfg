\* One user with two unanswered requests on one connection, who names room 1 or
\* the pattern "*"; a lost Redis connection.
CONSTANTS
    h1 = h1  h2 = h2  s1 = s1  s2 = s2  alice = alice  bob = bob  q1 = q1  q2 = q2
    star = star
    Server = {h1}
    Socket = {s1}
    User = {alice}
    Home <- HomeOne
    LoginAs <- OneUser
    Pattern = {star}
    Matches <- Globs
    Slot = {q1, q2}
    AskedRoom = {1, star}
    MaxRequest = 3
    MaxExit = 0
    MaxDrop = 1
    NoRoom = NoRoom
    NoUser = NoUser
SPECIFICATION FairSpec
INVARIANTS MembershipBacked OnlyListHangs
PROPERTIES ChainsEnd CloseLeavesRoom
CHECK_DEADLOCK FALSE
