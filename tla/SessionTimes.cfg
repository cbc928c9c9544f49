CONSTANTS
  a = a  b = b  worker = worker
  Session = {1, 2}
  Employee = {worker}
  Operation = {a, b}
  Never = Never
  DayLength = 5
  Shift <- DayAndNight
  EarlyTolerance = 1
  Grace = 1
  FutureSkew = 1
  PastSkew = 1
  Horizon = 6
  Typed = {2, 5}
  MaxInterventions = 1
SPECIFICATION MCSpec
CHECK_DEADLOCK FALSE
INVARIANTS
  TypeOK
  OverlapOnlyByTransfer
  EndsBeforeStartOnlyAhead
  ClosedAtOwnBoundary
PROPERTY
  LeftOpenIsClosed
