SPECIFICATION LinkFairSpec
CONSTANTS
  N = 1
  SecureEnabled = FALSE
  NoKey = 0
  CheckSize = 2
  KeyFor <- MCKeyFor
  StartAddress <- MCStart
  Commands <- MCOne
  NewKeys = {}
  NewAddresses = {9}
  MaxQueue = 2
  SecureDevice = FALSE
  Strict = FALSE
  ConfigAddr = FALSE
  InputCount = 1
  OutputCount = 1
  MaxSwitches = 2
  MaxRestarts = 0
  Patience = FALSE
  QueueSize = 1
  StartKey = 1
  Cards = {}
  Dead = {}
  MaxHistory = 4
  Burst = 0
  Late = FALSE
  MaxFresh = 1
  MaxChain = 0
INVARIANT ContactsKnown
PROPERTY AskedIsPerformed
