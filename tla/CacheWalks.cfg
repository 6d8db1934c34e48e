CONSTANTS
    c1 = c1
    Paths <- MCPaths
    Dirs <- MCDirs
    Long <- MCLong
    Initial <- MCInitial
    NamePrefixes <- MCPrefixes
    Clients <- One
    MaxFids = 4
    MaxFaults = 1
    MaxTodo = 2
SPECIFICATION Spec
INVARIANTS TypeOK NotFoundOnlyIfAbsent
PROPERTIES LookupsEnd
