SPECIFICATION LinkFairSpec
CONSTANTS
  N = 2
  SecureEnabled = FALSE
  NoKey = 0
  CheckSize = 2
  KeyFor <- MCKeyFor
  StartAddress <- MCStart
  Commands <- MCOne
  NewKeys = {}
  NewAddresses = {}
  MaxQueue = 2
  SecureDevice = FALSE
  Strict = FALSE
  ConfigAddr = FALSE
  InputCount = 0
  OutputCount = 1
  MaxSwitches = 0
  MaxRestarts = 1
  Patience = TRUE
  QueueSize = 2
  StartKey = 1
  Cards = {}
  Dead = {2}
  MaxHistory = 4
  Burst = 3
  Late = FALSE
  MaxFresh = 1
  MaxChain = 0
INVARIANT BusInv
PROPERTIES AskedIsPerformed Recovers
