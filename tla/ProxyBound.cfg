CONSTANTS
    r1 = r1
    r2 = r2
    Names <- MCNames
    Readers <- TwoReaders
    Keys <- TwoListings
    Writes <- PutAndMove
    Ttl = 1
    MaxDelay = 1
    BackendLag = 1
SPECIFICATION Spec
SYMMETRY MCSymmetry
INVARIANTS TypeOK Dropped
PROPERTIES AddsTtlOnly
CHECK_DEADLOCK FALSE
