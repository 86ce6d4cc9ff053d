SPECIFICATION LinkSpec
CONSTANTS
  N = 1
  SecureEnabled = FALSE
  NoKey = 0
  CheckSize = 2
  KeyFor <- MCKeyFor
  StartAddress <- MCStart
  Commands <- MCTwo
  NewKeys = {}
  NewAddresses = {}
  MaxQueue = 2
  SecureDevice = FALSE
  Strict = FALSE
  ConfigAddr = FALSE
  InputCount = 0
  OutputCount = 1
  MaxSwitches = 0
  MaxRestarts = 0
  Patience = FALSE
  QueueSize = 2
  StartKey = 1
  Cards = {7, 8}
  Dead = {}
  MaxHistory = 4
  Burst = 2
  Late = TRUE
  MaxFresh = 1
  MaxChain = 0
INVARIANTS OnceInOrder CardsInOrder
PROPERTY DeliveredWasPerformed
