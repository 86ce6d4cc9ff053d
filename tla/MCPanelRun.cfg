SPECIFICATION Spec
CONSTANTS
  c1 = c1
  c2 = c2
  Callers = {c1, c2}
  First = c1
  MaxCalls <- CallBounds
  MaxEvents = 2
  RequestQueue = 2
  EventBuffer = 0
INVARIANTS AcceptedMeansQueued CallerOrder NoEventForgotten
PROPERTIES CancelEndsRun EveryCallReturns
CHECK_DEADLOCK FALSE
