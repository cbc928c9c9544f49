CONSTANTS
  o1 = o1  o2 = o2  o3 = o3  p = p  q = q  t1 = t1  t2 = t2
  Operation = {o1, o2, o3}
  Order = {p, q}
  Thread = {t1, t2}
  None = None
  Keep = Keep
  Patch <- OneChange
SPECIFICATION MCSpec
CHECK_DEADLOCK FALSE
CONSTRAINT Few
SYMMETRY Alike
INVARIANTS
  TypeOK
  NoCycle
  DrawnFromSource
