CONSTANTS
    p1 = p1
    p2 = p2
    p3 = p3
    Puts <- TwoPuts
    Bodies <- AllBodies
    UploadWaitTimeout = 0
    Aborts = FALSE
    FreshListing = FALSE
    InitialFile = TRUE
    InitialMd5 = "m1"
    MaxDeletes = 2
SPECIFICATION Spec
SYMMETRY MCSymmetry2
INVARIANTS TypeOK NewestKept SerializedEndToEnd AckDurable UploadingDrains
CHECK_DEADLOCK FALSE
