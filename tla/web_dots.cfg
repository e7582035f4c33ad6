SPECIFICATION MCSpec
CONSTANTS
    Workers = {1, 2}
    Requests <- MCPastRoot
    Descs <- MCDescs
    Files <- MCFiles
    Contents <- MCContents
    Paths <- MCPaths
    VPaths <- MCVPaths
    Dirs <- MCDirs
    VDirs <- MCVDirs
    DirLists <- MCDirLists
    BufSize = 2
    MaxSets = 2
    MaxChanges = 1
INVARIANTS
  PastRootRefused
CHECK_DEADLOCK FALSE
