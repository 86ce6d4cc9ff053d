SPECIFICATION FairSpec
CONSTANTS
  MaxFrame = 16
  Address = 1
  Streams <- MCStreams
INVARIANTS NothingMissed CutsDoNotMatter
PROPERTIES SameOctetsAgain StopsForCause RunEnds
