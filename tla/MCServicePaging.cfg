SPECIFICATION Spec
CONSTANTS
  d1 = d1
  d2 = d2
  Writers = {w1, w2}
  Parents <- MCParents
  Capacity = 3
  MaxUint64 = 5
  NameWidth = 2
  Wildcard = Wildcard
  Empty = Empty
  Requests <- MCRequests
  DefaultPageSize = 2
  MaxPageSize = 3
  WithDefault = 0
  WithMax = 2
  Separator = Separator
  Junk <- MCJunk
SYMMETRY MCSymmetry
INVARIANTS RingInOrder IndexIsExact ListingComplete AnswerIsSnapshot
PROPERTIES WindowOnNewest TokenMeansMore
CHECK_DEADLOCK FALSE
