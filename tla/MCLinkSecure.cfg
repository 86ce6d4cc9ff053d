SPECIFICATION LinkSpec
CONSTANTS
  N = 1
  SecureEnabled = TRUE
  NoKey = 0
  CheckSize = 2
  KeyFor <- MCKeyFor
  StartAddress <- MCStart
  Commands <- MCOne
  NewKeys = {3, 4}
  NewAddresses = {}
  MaxQueue = 2
  SecureDevice = TRUE
  Strict = FALSE
  ConfigAddr = FALSE
  InputCount = 0
  OutputCount = 1
  MaxSwitches = 0
  MaxRestarts = 0
  Patience = FALSE
  QueueSize = 2
  StartKey = 1
  Cards = {}
  Dead = {}
  MaxHistory = 3
  Burst = 3
  Late = TRUE
  MaxFresh = 3
  MaxChain = 4
INVARIANTS ChainsAgree DeclinedMeansWrongKey KeySetSealed KeysAgree
PROPERTY SecureDeliveredWasPerformed
