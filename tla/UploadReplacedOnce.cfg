CONSTANTS
    p1 = p1
    p2 = p2
    p3 = p3
    Puts <- TwoPuts
    Bodies <- ContentBodies
    UploadWaitTimeout = 0
    Aborts = FALSE
    FreshListing = TRUE
    InitialFile = TRUE
    InitialMd5 = "m1"
    MaxDeletes = 0
SPECIFICATION Spec
SYMMETRY MCSymmetry2
INVARIANTS ReplacedOnce
CHECK_DEADLOCK FALSE
