SPECIFICATION MCSpec
CONSTANTS
  Order <- Orders
  Operation <- Operations
  Session = {s1, s2}
  Thread = {t1, t2}
  OrderOf <- OrdersOf
  Source <- Sources
  Predecessor <- Predecessors
  SetupOf <- Setups
  Bench <- Benches
  LastOrder = 2
  None = None
INVARIANTS TypeOK CirclesAreKnown OneWriterPerOrder
SYMMETRY Alike
CONSTRAINT Few
