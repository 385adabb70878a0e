\* One client with transactions, one without, one fault, crashes.
CONSTANTS
    c1 = c1  c2 = c2  k1 = k1
    Client = {c1, c2}
    TxClient = {c1}
    Key = {k1}
    Ops <- OneKeyOps
    NoClient = NoClient
    SaveChanges = {1, 2}
    MaxVal = 1
    MaxLog = 3
    MaxDirty = 2
    MaxQueue = 2
    MaxFault = 1
    MaxCrash = 1
SPECIFICATION FairSpec
INVARIANTS TypeOK DirtyCountsAll WatchedUnchanged CleanStop
PROPERTIES ImplementsStore StopWrites ChangesReachDisk WritesResume
