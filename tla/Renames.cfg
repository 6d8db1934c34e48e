CONSTANTS
    d1 = d1
    d2 = d2
    n1 = n1
    n2 = n2
    f1 = f1
    f2 = f2
    m1 = m1
    m2 = m2
    NoFid = NoFid
    Dirs <- TwoDirs
    Names <- TwoNames
    Files <- TwoFiles
    Uploads <- OneFile
    Home <- OneHome
    Moves <- TwoMoves
SPECIFICATION Spec
INVARIANTS TypeOK  OverlayTrueUnlessMoved
SYMMETRY MCSymmetry
CHECK_DEADLOCK FALSE
