SPECIFICATION LocalSpec
CONSTANTS
  Ids = {"m1"}
  Hosts = {"h1", "h2"}
  Loops = {y1, y2}
  MaxStarts = 1
  NoId = NoId
  NoLoop = NoLoop
  NoHost = NoHost
  Computers = {"m1", "m2"}
  SharedFolders = {"f1"}
  Runs = {y1, y2}
  Requests = {"r1"}
  Nowhere = Nowhere
  Callers = {"k1", "k2", "k3"}
  NoCaller = NoCaller
  Questions = {y1, y2}
  Clients = {"c1", "c2"}
  Sources = {"f1"}
  MaxEdits = 1
  NoClient = NoClient
  Compactors = {y1, y2}
  Readers = {"r1"}
  Batch = 2
  PageSize = 2
  Budget = 2
  MaxNotes = 3
  Movers = {"c1", "c2"}
  Editors = {"e1"}
  Rememberers = {"h1"}
  MaxSteps = 3
  Savers = {y1, y2}
  Commands = {"k1"}
  MaxSaves = 3
  Tunnels = {y1, y2}
  Switches = {"s1"}
  MaxRuns = 2
  NoTunnel = NoTunnel
  Logins = {y1, y2}
  MaxCerts = 2
  NoOne = NoOne
  Fetches = {"f1", "f2", "f3"}
  NoFetch = NoFetch
  Folders = {"f1"}
  Workspaces = {"w1", "w2"}
  Asking = {y1, y2}
  NoWorkspace = NoWorkspace
  Saves = {y1, y2}
  ChangeSets = {g1}
  Orders <- MCOrders
  NoPlace = NoPlace
  Requested = requested
  Clicks = {"a1"}
  Undos = {"u1", "u2"}
  Remote = {"u2"}
  NoRule = NoRule
  r1 = r1
  r2 = r2
  src = src
  Cores = {"c1", "c2"}
  Windows = {y1, y2}
  MaxTries = 2
  NoCore = NoCore
INVARIANTS
  OnlineIsThisSession TasksStayHome NobodyIsLeftWaiting NothingOutlivesClose PagingMissesNothing
  StaleMovesFail NothingLoosensByItself PublishedIsAlive PanelIsTrue CancelReachesWhatRuns SelectionIsWhole
  OneCoreOwnsTheData
PROPERTIES
  UndoneIsNeverAccepted
SYMMETRY Perms
CHECK_DEADLOCK FALSE
