SPECIFICATION MCSpec
CONSTANTS
    Workers = {1, 2}
    Requests <- MCRequests
    Descs <- MCDescs
    Files <- MCFiles
    Contents <- MCContents
    Paths <- MCPaths
    VPaths <- MCVPaths
    Dirs <- MCDirs
    VDirs <- MCVDirs
    DirLists <- MCDirLists
    BufSize = 2
    MaxSets = 2
    MaxChanges = 1
INVARIANTS
  TransfersRight
  DocServed
  TextsRight
CHECK_DEADLOCK FALSE
