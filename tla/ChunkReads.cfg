CONSTANTS
    r1 = r1
    r2 = r2
    v1 = v1
    v2 = v2
    Readers <- TwoReaders
    Versions <- TwoVersions
    Size <- MCSize
    First = v1
    ChunkSize = 2
    Positions <- MCPositions
    Counts <- MCCounts
SPECIFICATION Spec
INVARIANTS TypeOK ReadExact UploadLeavesNoOldChunk LockHolderWorks
SYMMETRY MCSymmetry
