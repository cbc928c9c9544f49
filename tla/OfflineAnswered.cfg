CONSTANTS
  Work = {w1}
  Handler = {h1}
  NoEvent = NoEvent
  MaxRetry = 2
  Obstructed <- StartsOnly
SPECIFICATION FairSpec
PROPERTIES
  EveryEventAnswered
  OutageRejectsNothing
