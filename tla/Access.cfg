SPECIFICATION AccessSpec
CONSTANTS
  Callers = {c1, c2}
  Surfaces = {s1, s2}
  MaxPrompts = 2
  Requests <- MCRequests
  Shown = {p1, p2, p3}
  Strict = {p2}
  NoPrompt = NoPrompt
  ChangeSets = {"k1"}
  Signed = {"m1"}
  Inbound = {"h1", "h2"}
  Window = 1
  MaxClock = 4
  MaxRestarts = 1
  PairCodes = {"c1"}
  Phones = {"d1", "d2"}
  Claims = {"h1", "h2"}
  Prompts = {"p1", "p2"}
  Polls = {"q1"}
  Pushes = {"g1"}
  MaxSubs = 2
  Nobody = "nobody"
  Reqs = {"r1"}
  Devices = {"d1", "d2"}
  Here = "d1"
  Posts = {"h1", "h2"}
  Calls = {"k1", "k2"}
  Deciders = {"s1"}
  MaxPairPrompts = 2
  NoDevice = NoDevice
  Codes = {"c1"}
  Handlers = {"g1", "g2"}
  MaxTokens = 4
  NoFamily = NoFamily
  Fwds = {"f1"}
  Chunks = 2
  ChanCap = 2
  MaxConns = 2
INVARIANTS
  OneSurfaceAnswers NobodyWaitsUnannounced AnswerDecidesOnce PollsAreWoken
  OneAgreedCode OneUsableToken StreamIsIntact
PROPERTIES
  ReplayIsFreshAndOwn
SYMMETRY Perms
CHECK_DEADLOCK FALSE
