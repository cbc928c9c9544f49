CONSTANTS
  Employee = {e1}
  Session = {s1, s2, s3}
  Order = {P1}
  cut = cut  weld = weld  grind = grind  bench = bench  setup = setup  far = far
  P1 = P1  P2 = P2
  NoOp = NoOp  NoEmployee = NoEmployee  NoHold = NoHold
  Operation <- FlowOps
  Kind <- LineKind
  OrderOf <- LineOrderOf
  Bench <- LineBench
  Source <- LineSource
  SourceKind <- LineInput
  DefectsConsume <- LineDefects
  Predecessor <- LinePred
  Report <- OneReport
  Target = {1}
  AdminStatus = {}
  Clerk = {}
  NoForm = NoForm
SPECIFICATION Spec
CHECK_DEADLOCK FALSE
SYMMETRY Rows
INVARIANT ExcludedHoldsNothing
