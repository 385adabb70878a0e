SPECIFICATION FairSpec
CONSTANTS
    h1 = h1
    h2 = h2
    a1 = a1
    b1 = b1
    b2 = b2
    a = a
    b = b
    Server = {h1, h2}
    Socket = {a1, b1, b2}
    User = {a, b}
    Home <- MCHome
    UserOf <- MCUserOf
    Early = {a1, b1}
    Guests = {a}
    Ask <- MCAsk
    MaxRequest = 2
    Leaver = {a1, b2}
    MaxClose = 1
INVARIANTS NumbersInv CopiesBounded InOrder
PROPERTIES Delivered
CHECK_DEADLOCK FALSE
