\* Two users on two servers, one unanswered request each, who name room 1 or the
\* pattern "*"; an exit.
CONSTANTS
    h1 = h1  h2 = h2  s1 = s1  s2 = s2  alice = alice  bob = bob  q1 = q1  q2 = q2
    star = star
    Server = {h1, h2}
    Socket = {s1, s2}
    User = {alice, bob}
    Home <- HomeApart
    LoginAs <- TwoUsers
    Pattern = {star}
    Matches <- Globs
    Slot = {q1}
    AskedRoom = {1, star}
    MaxRequest = 3
    MaxExit = 1
    MaxDrop = 0
    NoRoom = NoRoom
    NoUser = NoUser
SPECIFICATION Spec
INVARIANTS TypeOK ClosedAreTold RegistryInv
PROPERTIES ImplementsRegistry
SYMMETRY Mirror
CHECK_DEADLOCK FALSE
