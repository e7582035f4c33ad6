SPECIFICATION MCSpec
CONSTANTS
    Conns = {"c1"}
    Families = {"4", "6", "6u"}
    StartPort = 2
    MaxPort = 4
    TakenSets = {{}, {2}, {2, 3, 4}}
    Faults = {"socket", "listen", "pool", "slow", "stop", "read"}
    Answers <- MCAnswers
    Asks <- MCAsks
    Sizes = {1, 2}
    Timeout = 1
    Leftover = {FALSE}
    Clients = {9}
    Devices = {1, 2, 3}
    Doc <- MCDoc
    AddressFamilies = {"4", "6"}
    DeviceAf <- MCDeviceAf
    Targets <- MCTargets
    Mxs = {0}
    ForeignMxs = {12}
    MinSearchTime = 2
    MaxSearchTime = 4
    DefaultMx = 5
    MaxSearches = 1
    MaxAsks = 1
INVARIANTS
  NoSocketLeft
  PiecesAgree
  ExchangeRight
  RepliesRight
  ByebyeCoversAlive
PROPERTIES
  ServerEnds
  CallEnds
  SearchEnds
CHECK_DEADLOCK FALSE
