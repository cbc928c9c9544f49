CONSTANTS
  Employee = {e1, e2}
  Session = {s1, s2}
  Order = {P1, P2}
  cut = cut  weld = weld  grind = grind  bench = bench  setup = setup  far = far
  P1 = P1  P2 = P2
  NoOp = NoOp  NoEmployee = NoEmployee  NoHold = NoHold
  Operation <- OrderOps
  Kind <- PairKind
  OrderOf <- PairOrderOf
  Bench <- LineBench
  Source <- NoSource
  SourceKind <- AllGood
  DefectsConsume <- NoDefects
  Predecessor <- LinePred
  Report <- PlainReport
  Target = {1}
  AdminStatus = {"COMPLETED"}
  Clerk = {c1}
  NoForm = NoForm
SPECIFICATION Spec
CHECK_DEADLOCK FALSE
SYMMETRY Workers
CONSTRAINTS
  SupportStands
  OneExcluded
  FormOnCut
INVARIANT SetupMakesNothing
PROPERTIES
  RollupExact
  OpenSessionRunsOperation
  CompletedOrderIsDone
