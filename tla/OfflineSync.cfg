CONSTANTS
  Work = {w1}
  Handler = {h1, h2}
  NoEvent = NoEvent
  MaxRetry = 2
  Obstructed <- AnyEvent
SPECIFICATION Spec
INVARIANTS
  TypeOK
  FinishRestsOnStart
PROPERTIES
  DeliversOnce
  AcceptedStands
