CONSTANTS
    p1 = p1
    p2 = p2
    p3 = p3
    Puts <- TwoPuts
    Bodies <- AllBodies
    UploadWaitTimeout = 5
    Aborts = TRUE
    FreshListing = TRUE
    InitialFile = TRUE
    InitialMd5 = "m1"
    MaxDeletes = 0
SPECIFICATION FairSpec
INVARIANTS NewestKept FoldHasHeir
PROPERTIES QueuedIsAnswered
CHECK_DEADLOCK FALSE
