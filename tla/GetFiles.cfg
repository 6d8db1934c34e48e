CONSTANTS
    Fids = {"f1", "f2"}
    SizeOf <- MCSizeOf
    Md5Told = {"f1", "f2"}
    None = None
    NoFid = NoFid
    Ranges <- MCRanges
    MaxFaults = 2
SPECIFICATION GetSpec
INVARIANTS GetTypeOK DigestOfBody SentInPlace
PROPERTIES GetEnds
