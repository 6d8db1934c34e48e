CONSTANTS
    r1 = r1
    r2 = r2
    i1 = i1
    m1 = m1
    Readers <- OneReader
    Invalidators <- Put
    Mkdirs <- Mkdir
    Ttl = 1
    MaxDelay = 1
    MaxLag = 0
    MaxWrites = 1
SPECIFICATION Spec
INVARIANTS TypeOK
PROPERTIES BoundedStaleness
CHECK_DEADLOCK FALSE
