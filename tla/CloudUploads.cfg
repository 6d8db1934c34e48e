CONSTANTS
    Size <- MCSize
    PartSize <- MCPartSize
    HasOld = TRUE
    MaxRetries <- MCMaxRetries
    MaxFaults <- MCMaxFaults
SPECIFICATION Spec
INVARIANTS TypeOK PublishedIsWhole FailedLeavesNothing
PROPERTIES Replaces UploadEnds
CHECK_DEADLOCK FALSE
