SPECIFICATION Spec
CONSTANTS
  MaxFrame = 16
  Address = 1
  Streams <- MCStreams
INVARIANT FrameIsIntact
