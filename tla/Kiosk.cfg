CONSTANTS
  Device = {d1}
  Employee = {e1, e2}
  Session = {1, 2}
  Press = {p1, p2}
  Thread = {t1, t2}
  Nobody = Nobody
  NoSession = NoSession
  NoPress = NoPress
  OpenAtOnce = 2
  e1 = e1
SPECIFICATION MCSpec
SYMMETRY Hands
CONSTRAINT FewOpen
INVARIANTS
  TypeOK
  CopiesAreCurrentOrOlder
  EffectAsShown
  OpensOnce
  AcceptedIsDone
PROPERTY InterruptedIsFlagged
