SPECIFICATION FairSpec
CONSTANTS
    k1 = k1
    k2 = k2
    k3 = k3
    Key = {k1, k2, k3}
    Bits = 3
    Hashes <- MCHashes
    InitialSize = 1
    ForceRatio = 1
    MinFill = 60
    EmptyVisits = 2
INVARIANTS TablesInv KeysOnce ScanComplete
PROPERTIES ScanForward RehashEnds
