SPECIFICATION Spec
CONSTANTS
  N = 1
  SecureEnabled = TRUE
  NoKey = 0
  CheckSize = 2
  KeyFor <- MCKeyFor
  StartAddress <- MCStart
  Commands <- MCOut
  NewKeys = {3}
  NewAddresses = {9}
  Nonces = {1}
  Replies <- MCReplies
  MaxQueue = 2
  MaxChain = 2
  Codes = {"ACK", "Busy", "PDID", "PDCap", "NAK", "Com", "CCrypt", "RMACI"}
  FarAddress = 200
INVARIANTS RepeatIsExact BusInv
PROPERTIES Custody OnlyTheAnsweredCommandLeaves LossIsReported
