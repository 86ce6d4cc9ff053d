SPECIFICATION LinkSpec
CONSTANTS
  N = 1
  SecureEnabled = TRUE
  NoKey = 0
  CheckSize = 2
  KeyFor <- MCKeyFor
  StartAddress <- MCStart
  Commands = {}
  NewKeys = {3}
  NewAddresses = {}
  MaxQueue = 2
  SecureDevice = TRUE
  Strict = FALSE
  ConfigAddr = FALSE
  InputCount = 0
  OutputCount = 1
  MaxSwitches = 0
  MaxRestarts = 0
  Patience = FALSE
  QueueSize = 2
  StartKey = 1
  Cards = {}
  Dead = {}
  MaxHistory = 3
  Burst = 1
  Late = FALSE
  MaxFresh = 3
  MaxChain = 4
INVARIANT RekeyedTogether
