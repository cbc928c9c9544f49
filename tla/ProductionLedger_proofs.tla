----------------------- MODULE ProductionLedger_proofs -----------------------
(***************************************************************************)
(* Proofs about ProductionLedger, for every set of employees, sessions,    *)
(* operations and orders and every configuration of them.                  *)
(***************************************************************************)
EXTENDS ProductionLedger, FiniteSetTheorems, WellFoundedInduction, TLAPS

\* Both status chains stay inside their status sets.
LEMMA OperationStatusType ==
  ASSUME NEW current \in OperationStatus, NEW ss, NEW o, NEW done, NEW planned
  PROVE  NextOperationStatus(current, ss, o, done, planned) \in OperationStatus
BY DEF NextOperationStatus, OperationStatus

LEMMA OrderStatusType ==
  ASSUME NEW current \in OrderStatus, NEW os, NEW ss, NEW p
  PROVE  NextOrderStatus(current, os, ss, p) \in OrderStatus
BY DEF NextOrderStatus, OrderStatus

\* A table of operations of the right shape.
Shaped(os) ==
  /\ os = [o \in Operation |-> [status |-> os[o].status, sums |-> os[o].sums]]
  /\ \A o \in Operation : os[o].status \in OperationStatus

\* Rebuilding one operation keeps the shape, makes its sums exact and leaves
\* the other operations alone.
LEMMA RebuildOperation ==
  ASSUME NEW os, NEW ss, NEW o \in Operation, Shaped(os)
  PROVE  LET new == ReconcileOperation(os, ss, o) IN
         /\ Shaped(new)
         /\ new[o].sums = Rollup(ss, o)
         /\ \A x \in Operation \ {o} : new[x] = os[x]
<1> DEFINE new == ReconcileOperation(os, ss, o)
           row == [status |-> NextOperationStatus(os[o].status, ss, o,
                                Rollup(ss, o).done, orders[OrderOf[o]].planned),
                   sums |-> Rollup(ss, o)]
<1>1. row.status \in OperationStatus
  BY OperationStatusType DEF Shaped
<1>2. new = [os EXCEPT ![o] = row]
  BY DEF ReconcileOperation
<1> HIDE DEF new, row
<1>3. /\ DOMAIN os = Operation
      /\ \A x \in Operation : os[x] = [status |-> os[x].status, sums |-> os[x].sums]
  BY DEF Shaped
<1>4. new = [x \in Operation |-> IF x = o THEN row ELSE os[x]]
  BY <1>2, <1>3
<1>5. /\ new[o] = row
      /\ \A x \in Operation \ {o} : new[x] = os[x]
  BY <1>4
<1>6. row = [status |-> row.status, sums |-> row.sums] /\ row.sums = Rollup(ss, o)
  BY DEF row
<1>7. Shaped(new)
  <2>1. \A x \in Operation : new[x].status \in OperationStatus
    BY <1>1, <1>5 DEF Shaped
  <2>2. \A x \in Operation : new[x] = [status |-> new[x].status, sums |-> new[x].sums]
    BY <1>3, <1>5, <1>6
  <2>3. new = [x \in Operation |-> new[x]]
    BY <1>4
  <2> QED BY <2>1, <2>2, <2>3 DEF Shaped
<1> QED BY <1>5, <1>6, <1>7 DEF new

\* The same for the orders.
LEMMA RebuildOrder ==
  ASSUME NEW pos \in [Order -> [status : OrderStatus, planned : Target]],
         NEW os, NEW ss, NEW p \in Order
  PROVE  ReconcileOrder(pos, os, ss, p) \in
            [Order -> [status : OrderStatus, planned : Target]]
<1> DEFINE st == NextOrderStatus(pos[p].status, os, ss, p)
<1>1. st \in OrderStatus
  BY OrderStatusType
<1>2. ReconcileOrder(pos, os, ss, p) = [pos EXCEPT ![p].status = st]
  BY DEF ReconcileOrder
<1> HIDE DEF st
<1> QED BY <1>1, <1>2

\* reconcile_operation_and_po: what every command of one operation leaves.
LEMMA OneRebuilt ==
  ASSUME OperationsOK, OrdersOK, NEW o \in Operation, Reconciled(o)
  PROVE  /\ OperationsOK' /\ OrdersOK'
         /\ ops'[o].sums = Rollup(sess', o)
         /\ \A x \in Operation \ {o} : ops'[x] = ops[x]
<1>1. Shaped(ops) /\ OrderOf[o] \in Order
  BY ConfigAssumption DEF OperationsOK, Shaped
<1>2. ops' = ReconcileOperation(ops, sess', o)
  BY DEF Reconciled
<1>3. /\ Shaped(ops')
      /\ ops'[o].sums = Rollup(sess', o)
      /\ \A x \in Operation \ {o} : ops'[x] = ops[x]
  BY <1>1, <1>2, RebuildOperation
<1>4. OrdersOK'
  BY <1>1, RebuildOrder DEF OrdersOK, Reconciled
<1> QED BY <1>3, <1>4 DEF OperationsOK, Shaped

\* Two operations rebuilt: both have exact sums, the others are left alone.
LEMMA TwoRebuilt ==
  ASSUME OperationsOK, OrdersOK, NEW o1 \in Operation, NEW o2 \in Operation,
         ReconciledBoth(o1, o2)
  PROVE  /\ OperationsOK' /\ OrdersOK'
         /\ ops'[o1].sums = Rollup(sess', o1)
         /\ ops'[o2].sums = Rollup(sess', o2)
         /\ \A x \in Operation \ {o1, o2} : ops'[x] = ops[x]
<1> DEFINE os1 == ReconcileOperation(ops, sess', o1)
           po1 == ReconcileOrder(orders, os1, sess', OrderOf[o1])
<1>1. Shaped(ops) /\ OrderOf[o1] \in Order /\ OrderOf[o2] \in Order
  BY ConfigAssumption DEF OperationsOK, Shaped
<1>2. /\ ops' = ReconcileOperation(os1, sess', o2)
      /\ orders' = ReconcileOrder(po1, ops', sess', OrderOf[o2])
  BY DEF ReconciledBoth
<1>3. /\ Shaped(os1)
      /\ os1[o1].sums = Rollup(sess', o1)
      /\ \A x \in Operation \ {o1} : os1[x] = ops[x]
  BY <1>1, RebuildOperation
<1>4. po1 \in [Order -> [status : OrderStatus, planned : Target]]
  BY <1>1, RebuildOrder DEF OrdersOK
<1> HIDE DEF os1, po1
<1>5. /\ Shaped(ops')
      /\ ops'[o2].sums = Rollup(sess', o2)
      /\ \A x \in Operation \ {o2} : ops'[x] = os1[x]
  BY <1>2, <1>3, RebuildOperation
<1>6. OrdersOK'
  BY <1>1, <1>2, <1>4, RebuildOrder DEF OrdersOK
<1>7. ops'[o1].sums = Rollup(sess', o1)
  BY <1>3, <1>5
<1> QED BY <1>3, <1>5, <1>6, <1>7 DEF OperationsOK, Shaped

-----------------------------------------------------------------------------
(* Rows and material *)

\* What a report takes is a number of pieces.
LEMMA NeedType ==
  ASSUME NEW o \in Operation, NEW r, r.good \in Nat, r.defect \in Nat
  PROVE  Need(o, r) \in Nat
BY ConfigAssumption DEF Need

HoldOK == hold \in [Session -> Hold \cup {NoHold}]

\* _validate_and_upsert_input_consumption: one material row is written, for the
\* operation and the source it is configured with, or removed.
LEMMA ConsumesEffect ==
  ASSUME HoldOK, NEW s \in Session, NEW o \in Operation,
         NEW r, r.good \in Nat, r.defect \in Nat, Consumes(s, o, r)
  PROVE  /\ HoldOK'
         /\ \A t \in Session \ {s} : hold'[t] = hold[t]
         /\ Source[o] = NoOp => hold'[s] = NoHold
         /\ Source[o] # NoOp =>
              /\ hold'[s] = [source |-> Source[o], target |-> o,
                             qty |-> Need(o, r), kind |-> SourceKind[o]]
              /\ hold'[s] # NoHold
<1> DEFINE row == [source |-> Source[o], target |-> o,
                   qty |-> Need(o, r), kind |-> SourceKind[o]]
<1>1. CASE Source[o] = NoOp
  BY <1>1 DEF Consumes, HoldOK
<1>2. CASE Source[o] # NoOp
  <2>1. Source[o] \in Operation /\ SourceKind[o] \in {"GOOD", "REWORK"}
    BY <1>2, ConfigAssumption
  <2>2. row \in Hold
    BY <2>1, NeedType DEF Hold
  <2>3. row # NoHold
    BY <2>2, NullAssumption
  <2>4. hold' = [hold EXCEPT ![s] = row]
    BY <1>2 DEF Consumes
  <2> HIDE DEF row
  <2>5. /\ HoldOK'
        /\ hold'[s] = row
        /\ \A t \in Session \ {s} : hold'[t] = hold[t]
    BY <2>2, <2>4 DEF HoldOK
  <2> QED BY <1>2, <2>3, <2>5 DEF row
<1> QED BY <1>1, <1>2

\* exclude_session and a reopening edit: one material row is removed.
LEMMA ReleasesEffect ==
  ASSUME HoldOK, NEW s \in Session, Releases(s)
  PROVE  /\ HoldOK'
         /\ hold'[s] = NoHold
         /\ \A t \in Session \ {s} : hold'[t] = hold[t]
BY DEF Releases, HoldOK

\* One session row overwritten.
LEMMA OneRowWritten ==
  ASSUME SessionsOK, NEW s \in Session, NEW row \in SessionRow,
         row.emp \in Employee, row.op \in Operation,
         sess' = [sess EXCEPT ![s] = row]
  PROVE  /\ SessionsOK'
         /\ sess'[s] = row
         /\ \A t \in Session \ {s} : sess'[t] = sess[t]
BY DEF SessionsOK, Exists

\* A row by its fields: whose work, where, in what status, what was reported (r),
\* what was resolved of it (c), and whether it is excluded.
Written(row, e, o, st, r, c, x) ==
  /\ row.emp = e /\ row.op = o /\ row.status = st
  /\ row.good = r.good /\ row.defect = r.defect /\ row.rework = r.rework
  /\ row.repaired = c.repaired /\ row.scrap = c.scrap
  /\ row.excluded = x

NoCredit == [repaired |-> 0, scrap |-> 0]

\* A row as INSERT leaves it.
LEMMA BlankRow ==
  ASSUME NEW e \in Employee, NEW o \in Operation, NEW st \in {"OPEN", "CLOSED"}
  PROVE  /\ Blank(e, o, st) \in SessionRow
         /\ Written(Blank(e, o, st), e, o, st, Nothing, NoCredit, FALSE)
BY DEF Blank, SessionRow, Written, Nothing, NoCredit

\* A row with the quantities of a report.
LEMMA ReportedRow ==
  ASSUME NEW row \in SessionRow, NEW r,
         r.good \in Nat, r.defect \in Nat, r.rework \in Nat
  PROVE  /\ WithReport(row, r) \in SessionRow
         /\ Written(WithReport(row, r), row.emp, row.op, row.status, r, row, row.excluded)
BY DEF WithReport, SessionRow, Written

\* A row as edit_session writes it.
LEMMA EditedRow ==
  ASSUME NEW row \in SessionRow, NEW e \in Employee, NEW o \in Operation,
         NEW st \in {"OPEN", "CLOSED"}
  PROVE  /\ [row EXCEPT !.emp = e, !.op = o, !.status = st] \in SessionRow
         /\ Written([row EXCEPT !.emp = e, !.op = o, !.status = st],
                    e, o, st, row, row, row.excluded)
<1> DEFINE r2 == [row EXCEPT !.emp = e]
           r3 == [r2 EXCEPT !.op = o]
           r4 == [r3 EXCEPT !.status = st]
           Same(r) == /\ r.good = row.good /\ r.defect = row.defect
                      /\ r.rework = row.rework /\ r.repaired = row.repaired
                      /\ r.scrap = row.scrap /\ r.excluded = row.excluded
<1>1. [row EXCEPT !.emp = e, !.op = o, !.status = st] = r4
  BY Zenon
<1>2. r2 \in SessionRow /\ r2.emp = e /\ Same(r2)
  BY DEF SessionRow
<1> HIDE DEF r2
<1>3. r3 \in SessionRow /\ r3.emp = e /\ r3.op = o /\ Same(r3)
  BY <1>2 DEF SessionRow
<1> HIDE DEF r3
<1>4. r4 \in SessionRow /\ r4.emp = e /\ r4.op = o /\ r4.status = st /\ Same(r4)
  BY <1>3 DEF SessionRow
<1>5. r4 \in SessionRow /\ Written(r4, e, o, st, row, row, row.excluded)
  BY <1>4 DEF Written
<1> HIDE DEF r4
<1> QED BY <1>1, <1>5

\* A row as resolve credits it: n pieces repaired and counted good, m scrapped.
Credited(new, row, n, m) ==
  /\ new.emp = row.emp /\ new.op = row.op /\ new.status = row.status
  /\ new.good = row.good + n
  /\ new.defect = row.defect /\ new.rework = row.rework
  /\ new.repaired = row.repaired + n
  /\ new.scrap = row.scrap + m
  /\ new.excluded = row.excluded

LEMMA CreditedRow ==
  ASSUME NEW row \in SessionRow, NEW n \in Nat, NEW m \in Nat
  PROVE  /\ [row EXCEPT !.good = @ + n, !.repaired = @ + n, !.scrap = @ + m]
               \in SessionRow
         /\ Credited([row EXCEPT !.good = @ + n, !.repaired = @ + n, !.scrap = @ + m],
                     row, n, m)
<1> DEFINE good == row.good + n
           repaired == row.repaired + n
           scrap == row.scrap + m
           c1 == [row EXCEPT !.good = good]
           c2 == [c1 EXCEPT !.repaired = repaired]
           c3 == [c2 EXCEPT !.scrap = scrap]
           Same(r) == /\ r.emp = row.emp /\ r.op = row.op /\ r.status = row.status
                      /\ r.defect = row.defect /\ r.rework = row.rework
                      /\ r.excluded = row.excluded
<1>1. [row EXCEPT !.good = @ + n, !.repaired = @ + n, !.scrap = @ + m] = c3
  BY Zenon
<1>2. good \in Nat /\ repaired \in Nat /\ scrap \in Nat
  BY DEF SessionRow
<1> HIDE DEF good, repaired, scrap
<1>3. c1 \in SessionRow /\ c1.good = good /\ Same(c1)
  BY <1>2 DEF SessionRow
<1> HIDE DEF c1
<1>4. c2 \in SessionRow /\ c2.good = good /\ c2.repaired = repaired /\ Same(c2)
  BY <1>2, <1>3 DEF SessionRow
<1> HIDE DEF c2
<1>5. c3 \in SessionRow /\ c3.good = good /\ c3.repaired = repaired
      /\ c3.scrap = scrap /\ Same(c3)
  BY <1>2, <1>4 DEF SessionRow
<1> HIDE DEF c3
<1>6. Credited(c3, row, n, m)
  BY <1>5 DEF Credited, good, repaired, scrap
<1> QED BY <1>1, <1>5, <1>6, Zenon

-----------------------------------------------------------------------------
(* What each transaction does to the tables *)

\* Only session s is written.
OnlySession(s) == \A t \in Session \ {s} : sess'[t] = sess[t]

\* Only the material row of session s is written.
OnlyHold(s) == \A t \in Session \ {s} : hold'[t] = hold[t]

\* Session s holds what operation o needs for report r, or nothing if o has no
\* source.
Holding(s, o, r) ==
  /\ Source[o] = NoOp => hold'[s] = NoHold
  /\ Source[o] # NoOp =>
       /\ hold'[s] = [source |-> Source[o], target |-> o,
                      qty |-> Need(o, r), kind |-> SourceKind[o]]
       /\ hold'[s] # NoHold

\* The operations of O are rebuilt; the aggregates of the others stay.
Rebuilt(O) ==
  /\ \A o \in O : ops'[o].sums = Rollup(sess', o)
  /\ \A x \in Operation \ O : ops'[x].sums = ops[x].sums

\* Facts about a row of a session that exists.
LEMMA ExistingRow ==
  ASSUME ShapesOK, NEW s \in Session, Exists(s)
  PROVE  /\ sess[s] \in SessionRow
         /\ sess[s].emp \in Employee /\ sess[s].op \in Operation
         /\ sess[s].good \in Nat /\ sess[s].defect \in Nat /\ sess[s].rework \in Nat
         /\ sess[s].repaired \in Nat /\ sess[s].scrap \in Nat
BY DEF ShapesOK, SessionsOK, SessionRow

LEMMA ReportType ==
  ASSUME NEW r \in Report
  PROVE  r.good \in Nat /\ r.defect \in Nat /\ r.rework \in Nat /\ r.rework <= r.defect
BY QuantityAssumption

LEMMA FormType ==
  ASSUME ShapesOK, NEW s \in Session, NEW r \in Form(s)
  PROVE  r.good \in Nat /\ r.defect \in Nat /\ r.rework \in Nat
<1>1. CASE r \in Report
  BY <1>1, ReportType
<1>2. CASE r = Reported(sess[s])
  BY <1>2 DEF Reported, ShapesOK, SessionsOK, SessionRow
<1> QED BY <1>1, <1>2 DEF Form

\* start
LEMMA StartEffect ==
  ASSUME ShapesOK, NEW s \in Session, NEW e \in Employee, NEW o \in Operation,
         Start(s, e, o)
  PROVE  /\ ShapesOK'
         /\ ~Exists(s) /\ OnlySession(s)
         /\ Written(sess'[s], e, o, "OPEN", Nothing, NoCredit, FALSE)
         /\ UNCHANGED <<hold, bucket, form>>
         /\ Rebuilt({o})
<1> DEFINE os  == ReconcileOperation(ops, sess, o)
           pos == ReconcileOrder(orders, os, sess, OrderOf[o])
           row == Blank(e, o, "OPEN")
<1>1. /\ ~Exists(s)
      /\ sess' = [sess EXCEPT ![s] = row]
      /\ ops' = ReconcileOperation(os, sess', o)
      /\ orders' = ReconcileOrder(pos, ops', sess', OrderOf[o])
      /\ UNCHANGED <<hold, bucket, form>>
  BY DEF Start
<1>2. /\ row \in SessionRow /\ row.emp = e /\ row.op = o
      /\ Written(row, e, o, "OPEN", Nothing, NoCredit, FALSE)
  BY BlankRow DEF Written
<1>3. Shaped(ops) /\ OrdersOK /\ SessionsOK /\ OrderOf[o] \in Order
  BY ConfigAssumption DEF ShapesOK, OperationsOK, Shaped
<1>4. Shaped(os) /\ \A x \in Operation \ {o} : os[x] = ops[x]
  BY <1>3, RebuildOperation
<1>5. pos \in [Order -> [status : OrderStatus, planned : Target]]
  BY <1>3, RebuildOrder DEF OrdersOK
<1> HIDE DEF os, pos, row
<1>6. /\ Shaped(ops')
      /\ ops'[o].sums = Rollup(sess', o)
      /\ \A x \in Operation \ {o} : ops'[x] = os[x]
  BY <1>1, <1>4, RebuildOperation
<1>7. OrdersOK'
  BY <1>1, <1>3, <1>5, RebuildOrder DEF OrdersOK
<1>8. /\ SessionsOK' /\ sess'[s] = row /\ OnlySession(s)
  BY <1>1, <1>2, <1>3, OneRowWritten DEF OnlySession
<1>9. ShapesOK'
  BY <1>1, <1>6, <1>7, <1>8 DEF ShapesOK, OperationsOK, Shaped, FormsOK
<1>10. Rebuilt({o})
  BY <1>4, <1>6 DEF Rebuilt
<1> QED BY <1>1, <1>2, <1>8, <1>9, <1>10

\* A command of one operation: a session row of that operation written, the
\* operation and its order rebuilt.
LEMMA OneOperationStep ==
  ASSUME ShapesOK, NEW s \in Session, NEW o \in Operation,
         NEW row \in SessionRow, row.emp \in Employee, row.op \in Operation,
         sess' = [sess EXCEPT ![s] = row], HoldOK', UNCHANGED <<bucket, form>>, Reconciled(o)
  PROVE  /\ ShapesOK'
         /\ sess'[s] = row /\ OnlySession(s)
         /\ Rebuilt({o})
<1>1. /\ SessionsOK' /\ sess'[s] = row /\ OnlySession(s)
  BY OneRowWritten DEF ShapesOK, OnlySession
<1>2. /\ OperationsOK' /\ OrdersOK' /\ Rebuilt({o})
  BY OneRebuilt DEF ShapesOK, Rebuilt
<1> QED BY <1>1, <1>2 DEF ShapesOK, HoldOK, FormsOK

\* A command that moves a session: both operations and orders rebuilt.
LEMMA TwoOperationStep ==
  ASSUME ShapesOK, NEW s \in Session, NEW o1 \in Operation, NEW o2 \in Operation,
         NEW row \in SessionRow, row.emp \in Employee, row.op \in Operation,
         sess' = [sess EXCEPT ![s] = row], HoldOK', UNCHANGED <<bucket, form>>,
         ReconciledBoth(o1, o2)
  PROVE  /\ ShapesOK'
         /\ sess'[s] = row /\ OnlySession(s)
         /\ Rebuilt({o1, o2})
<1>1. /\ SessionsOK' /\ sess'[s] = row /\ OnlySession(s)
  BY OneRowWritten DEF ShapesOK, OnlySession
<1>2. /\ OperationsOK' /\ OrdersOK' /\ Rebuilt({o1, o2})
  BY TwoRebuilt DEF ShapesOK, Rebuilt
<1> QED BY <1>1, <1>2 DEF ShapesOK, HoldOK, FormsOK

\* _finish_within
LEMMA FinishEffect ==
  ASSUME ShapesOK, NEW s \in Session, NEW r \in Report, Finish(s, r)
  PROVE  LET o     == sess[s].op
             typed == IF Kind[o] = "SETUP" THEN Nothing ELSE r
         IN  /\ ShapesOK'
             /\ o \in Operation /\ sess[s].status = "OPEN"
             /\ RowCheck(sess'[s]) /\ OnlySession(s)
             /\ Written(sess'[s], sess[s].emp, o, "CLOSED", typed, sess[s],
                        sess[s].excluded)
             /\ typed.good \in Nat /\ typed.defect \in Nat /\ typed.rework \in Nat
             /\ IF Kind[o] = "SETUP" THEN UNCHANGED hold
                                     ELSE Holding(s, o, r) /\ OnlyHold(s)
             /\ UNCHANGED <<bucket, form>>
             /\ Rebuilt({o})
<1> DEFINE o     == sess[s].op
           typed == IF Kind[o] = "SETUP" THEN Nothing ELSE r
           row   == [WithReport(sess[s], typed) EXCEPT !.status = "CLOSED"]
<1>1. /\ sess[s].status = "OPEN" /\ RowCheck(row)
      /\ IF Kind[o] = "SETUP" THEN UNCHANGED hold ELSE Consumes(s, o, r)
      /\ sess' = [sess EXCEPT ![s] = row]
      /\ Reconciled(o) /\ UNCHANGED <<bucket, form>>
  BY DEF Finish
<1>2. sess[s] \in SessionRow /\ sess[s].emp \in Employee /\ o \in Operation
  BY <1>1, ExistingRow DEF Exists
<1>3. typed.good \in Nat /\ typed.defect \in Nat /\ typed.rework \in Nat
  BY ReportType DEF Nothing
<1> HIDE DEF typed
<1>4. /\ row \in SessionRow /\ row.emp = sess[s].emp /\ row.op = o
      /\ Written(row, sess[s].emp, o, "CLOSED", typed, sess[s], sess[s].excluded)
  <2> DEFINE filled == WithReport(sess[s], typed)
  <2>1. /\ filled \in SessionRow
        /\ Written(filled, sess[s].emp, o, sess[s].status, typed, sess[s],
                   sess[s].excluded)
    BY <1>2, <1>3, ReportedRow
  <2> HIDE DEF filled
  <2>2. /\ [filled EXCEPT !.status = "CLOSED"] \in SessionRow
        /\ Written([filled EXCEPT !.status = "CLOSED"], sess[s].emp, o, "CLOSED",
                   typed, sess[s], sess[s].excluded)
    BY <2>1 DEF SessionRow, Written
  <2>3. row = [filled EXCEPT !.status = "CLOSED"]
    BY DEF filled
  <2> QED BY <1>2, <2>2, <2>3 DEF Written
<1>5. /\ HoldOK'
      /\ IF Kind[o] = "SETUP" THEN UNCHANGED hold
                              ELSE Holding(s, o, r) /\ OnlyHold(s)
  <2>1. CASE Kind[o] = "SETUP"
    BY <1>1, <2>1 DEF ShapesOK, HoldOK
  <2>2. CASE Kind[o] # "SETUP"
    BY <1>1, <1>2, <2>2, ReportType, ConsumesEffect DEF ShapesOK, HoldOK, Holding, OnlyHold
  <2> QED BY <2>1, <2>2
<1> HIDE DEF row
<1>6. ShapesOK' /\ sess'[s] = row /\ OnlySession(s) /\ Rebuilt({o})
  BY <1>1, <1>2, <1>4, <1>5, OneOperationStep
<1> QED BY <1>1, <1>2, <1>3, <1>4, <1>5, <1>6 DEF typed

\* auto_close_for_shift_end
LEMMA AutoCloseEffect ==
  ASSUME ShapesOK, NEW s \in Session, AutoClose(s)
  PROVE  LET o == sess[s].op IN
         /\ ShapesOK'
         /\ o \in Operation /\ sess[s].status = "OPEN"
         /\ OnlySession(s)
         /\ Written(sess'[s], sess[s].emp, o, "CLOSED", sess[s], sess[s],
                    sess[s].excluded)
         /\ Holding(s, o, sess[s]) /\ OnlyHold(s)
         /\ UNCHANGED <<bucket, form>>
         /\ Rebuilt({o})
<1> DEFINE o   == sess[s].op
           row == [sess[s] EXCEPT !.status = "CLOSED"]
<1>1. /\ sess[s].status = "OPEN"
      /\ Consumes(s, o, sess[s])
      /\ Reconciled(o) /\ UNCHANGED <<bucket, form>>
  BY DEF AutoClose
<1>2. /\ sess[s] \in SessionRow /\ sess[s].emp \in Employee /\ o \in Operation
      /\ sess[s].good \in Nat /\ sess[s].defect \in Nat
  BY <1>1, ExistingRow DEF Exists
<1>3. /\ row \in SessionRow /\ row.emp = sess[s].emp /\ row.op = o
      /\ Written(row, sess[s].emp, o, "CLOSED", sess[s], sess[s], sess[s].excluded)
  BY <1>2 DEF SessionRow, Written
<1>4. sess' = [sess EXCEPT ![s] = row]
  BY DEF AutoClose
<1>5. HoldOK' /\ Holding(s, o, sess[s]) /\ OnlyHold(s)
  BY <1>1, <1>2, ConsumesEffect DEF ShapesOK, HoldOK, Holding, OnlyHold
<1> HIDE DEF row
<1>6. ShapesOK' /\ sess'[s] = row /\ OnlySession(s) /\ Rebuilt({o})
  BY <1>1, <1>2, <1>3, <1>4, <1>5, OneOperationStep
<1> QED BY <1>1, <1>2, <1>3, <1>5, <1>6

\* resolve
LEMMA ResolveEffect ==
  ASSUME ShapesOK, NEW s \in Session, NEW w \in Session \ {s}, NEW e \in Employee,
         NEW n \in 0..sess[s].rework, NEW m \in 0..sess[s].rework,
         Resolve(s, w, e, n, m)
  PROVE  LET o == sess[s].op IN
         /\ n \in Nat /\ m \in Nat
         /\ ShapesOK'
         /\ o \in Operation /\ sess[s].status = "CLOSED" /\ ~Exists(w)
         /\ Credited(sess'[s], sess[s], n, m)
         /\ RowCheck(sess'[s])
         /\ Written(sess'[w], e, Bench[o], "CLOSED", Nothing, NoCredit, FALSE)
         /\ \A t \in Session \ {s, w} : sess'[t] = sess[t] /\ bucket'[t] = bucket[t]
         /\ bucket'[s] = [reworked |-> bucket[s].reworked + n,
                          scrapped |-> bucket[s].scrapped + m]
         /\ bucket'[w] = bucket[w]
         /\ UNCHANGED <<hold, form>>
         /\ Rebuilt({o})
<1> DEFINE o      == sess[s].op
           credit == [sess[s] EXCEPT !.good = @ + n, !.repaired = @ + n,
                                     !.scrap = @ + m]
           bench  == Blank(e, Bench[o], "CLOSED")
           entry  == [reworked |-> bucket[s].reworked + n,
                      scrapped |-> bucket[s].scrapped + m]
<1>1. /\ sess[s].status = "CLOSED" /\ ~Exists(w) /\ RowCheck(credit)
      /\ sess' = [sess EXCEPT ![s] = credit, ![w] = bench]
      /\ bucket' = [bucket EXCEPT ![s] = entry]
      /\ Reconciled(o) /\ UNCHANGED <<hold, form>>
  BY DEF Resolve
<1>2. /\ sess[s] \in SessionRow /\ sess[s].emp \in Employee /\ o \in Operation
      /\ sess[s].good \in Nat /\ sess[s].repaired \in Nat /\ sess[s].scrap \in Nat
      /\ n \in Nat /\ m \in Nat
  <2>1. sess[s].rework \in Nat
    BY <1>1, ExistingRow DEF Exists
  <2> QED BY <1>1, <2>1, ExistingRow DEF Exists
<1>3. credit \in SessionRow /\ Credited(credit, sess[s], n, m)
  BY <1>2, CreditedRow, Zenon
<1>4. /\ Bench[o] \in Operation
      /\ bench \in SessionRow
      /\ Written(bench, e, Bench[o], "CLOSED", Nothing, NoCredit, FALSE)
  <2>1. Bench[o] \in Operation
    BY <1>2, ConfigAssumption
  <2> QED BY <2>1, BlankRow
<1>5. bucket[s] \in Bucket /\ bucket \in [Session -> Bucket]
  BY DEF ShapesOK
<1>6. entry \in Bucket
  BY <1>5 DEF Bucket
<1> HIDE DEF credit, bench, entry
<1>8. /\ bucket' \in [Session -> Bucket]
      /\ bucket'[s] = entry
      /\ \A t \in Session \ {s} : bucket'[t] = bucket[t]
  BY <1>1, <1>5, <1>6
<1>9. /\ SessionsOK'
      /\ sess'[s] = credit /\ sess'[w] = bench
      /\ \A t \in Session \ {s, w} : sess'[t] = sess[t]
  <2>1. /\ credit.emp \in Employee /\ credit.op \in Operation
        /\ bench.emp \in Employee /\ bench.op \in Operation
    BY <1>2, <1>3, <1>4 DEF Credited, Written
  <2> QED BY <1>1, <1>3, <1>4, <2>1 DEF ShapesOK, SessionsOK, Exists
<1>10. OperationsOK' /\ OrdersOK' /\ Rebuilt({o})
  BY <1>1, <1>2, OneRebuilt DEF ShapesOK, Rebuilt
<1>11. ShapesOK'
  BY <1>1, <1>8, <1>9, <1>10 DEF ShapesOK, FormsOK
<1> QED BY <1>1, <1>2, <1>3, <1>4, <1>8, <1>9, <1>10, <1>11 DEF entry

\* adjust
LEMMA AdjustEffect ==
  ASSUME ShapesOK, NEW s \in Session, NEW r \in Report, Adjust(s, r)
  PROVE  LET o == sess[s].op
         IN  /\ ShapesOK'
             /\ o \in Operation /\ Exists(s) /\ LedgerGuard(s, r)
             /\ OnlySession(s)
             /\ Written(sess'[s], sess[s].emp, o, sess[s].status, r, sess[s],
                        sess[s].excluded)
             /\ IF sess[s].status = "CLOSED" THEN Holding(s, o, r) /\ OnlyHold(s)
                                             ELSE UNCHANGED hold
             /\ UNCHANGED <<bucket, form>>
             /\ Rebuilt({o})
<1> DEFINE o == sess[s].op
           row == WithReport(sess[s], r)
<1>1. /\ Exists(s) /\ LedgerGuard(s, r)
      /\ IF sess[s].status = "CLOSED" THEN Consumes(s, o, r) ELSE UNCHANGED hold
      /\ sess' = [sess EXCEPT ![s] = row]
      /\ Reconciled(o) /\ UNCHANGED <<bucket, form>>
  BY DEF Adjust
<1>2. sess[s] \in SessionRow /\ sess[s].emp \in Employee /\ o \in Operation
  BY <1>1, ExistingRow
<1>3. /\ row \in SessionRow /\ row.emp = sess[s].emp /\ row.op = o
      /\ Written(row, sess[s].emp, o, sess[s].status, r, sess[s], sess[s].excluded)
  BY <1>2, ReportType, ReportedRow DEF Written
<1>4. /\ HoldOK'
      /\ IF sess[s].status = "CLOSED" THEN Holding(s, o, r) /\ OnlyHold(s)
                                      ELSE UNCHANGED hold
  <2>1. CASE sess[s].status = "CLOSED"
    BY <1>1, <1>2, <2>1, ReportType, ConsumesEffect DEF ShapesOK, HoldOK, Holding, OnlyHold
  <2>2. CASE sess[s].status # "CLOSED"
    BY <1>1, <2>2 DEF ShapesOK, HoldOK
  <2> QED BY <2>1, <2>2
<1> HIDE DEF row
<1>5. ShapesOK' /\ sess'[s] = row /\ OnlySession(s) /\ Rebuilt({o})
  BY <1>1, <1>2, <1>3, <1>4, OneOperationStep
<1> QED BY <1>1, <1>2, <1>3, <1>4, <1>5

\* edit_session
LEMMA EditEffect ==
  ASSUME ShapesOK, NEW s \in Session, NEW e \in Employee, NEW o \in Operation,
         NEW st \in {"OPEN", "CLOSED"}, NEW r \in Form(s), Edit(s, e, o, st, r)
  PROVE  /\ ShapesOK'
         /\ r.good \in Nat /\ r.defect \in Nat /\ r.rework \in Nat
         /\ r.rework <= r.defect
         /\ sess[s].op \in Operation /\ Exists(s) /\ LedgerGuard(s, r)
         /\ OnlySession(s)
         /\ Written(sess'[s], e, o, st, r, sess[s], sess[s].excluded)
         /\ OnlyHold(s)
         /\ IF st = "CLOSED" THEN Holding(s, o, r) ELSE hold'[s] = NoHold
         /\ UNCHANGED <<bucket, form>>
         /\ Rebuilt({sess[s].op, o})
<1> DEFINE old == sess[s].op
           row == [WithReport(sess[s], r) EXCEPT !.emp = e, !.op = o, !.status = st]
<1>1. /\ Exists(s) /\ LedgerGuard(s, r) /\ RowCheck(row)
      /\ IF st = "CLOSED" THEN Consumes(s, o, r) ELSE Releases(s)
      /\ sess' = [sess EXCEPT ![s] = row]
      /\ IF o = old THEN Reconciled(o) ELSE ReconciledBoth(old, o)
      /\ UNCHANGED <<bucket, form>>
  BY DEF Edit
<1>2. sess[s] \in SessionRow /\ old \in Operation
  BY <1>1, ExistingRow
<1>3. /\ row \in SessionRow /\ row.emp = e /\ row.op = o
      /\ Written(row, e, o, st, r, sess[s], sess[s].excluded)
  <2> DEFINE filled == WithReport(sess[s], r)
  <2>1. /\ filled \in SessionRow
        /\ Written(filled, sess[s].emp, old, sess[s].status, r, sess[s],
                   sess[s].excluded)
    BY <1>2, FormType, ReportedRow
  <2>2. row = [filled EXCEPT !.emp = e, !.op = o, !.status = st]
    BY Zenon
  <2> HIDE DEF filled, row
  <2>3. /\ row \in SessionRow
        /\ Written(row, e, o, st, filled, filled, filled.excluded)
    BY <2>1, <2>2, EditedRow, Zenon
  <2> QED BY <2>1, <2>3 DEF Written
<1>4. /\ HoldOK' /\ OnlyHold(s)
      /\ IF st = "CLOSED" THEN Holding(s, o, r) ELSE hold'[s] = NoHold
  <2>1. CASE st = "CLOSED"
    BY <1>1, <2>1, FormType, ConsumesEffect DEF ShapesOK, HoldOK, Holding, OnlyHold
  <2>2. CASE st # "CLOSED"
    BY <1>1, <2>2, ReleasesEffect DEF ShapesOK, HoldOK, OnlyHold
  <2> QED BY <2>1, <2>2
<1> HIDE DEF row
<1>5. ShapesOK' /\ sess'[s] = row /\ OnlySession(s) /\ Rebuilt({old, o})
  <2>1. CASE o = old
    <3>1. ShapesOK' /\ sess'[s] = row /\ OnlySession(s) /\ Rebuilt({o})
      BY <1>1, <1>3, <1>4, <2>1, OneOperationStep
    <3> QED BY <2>1, <3>1
  <2>2. CASE o # old
    BY <1>1, <1>2, <1>3, <1>4, <2>2, TwoOperationStep
  <2> QED BY <2>1, <2>2
<1>6. r.rework <= r.defect
  BY <1>1, <1>3 DEF RowCheck, Written
<1> QED BY <1>1, <1>2, <1>3, <1>4, <1>5, <1>6, FormType

\* transfer_operation
LEMMA TransferEffect ==
  ASSUME ShapesOK, NEW s \in Session, NEW o \in Operation, Transfer(s, o)
  PROVE  /\ ShapesOK'
         /\ sess[s].op \in Operation /\ Exists(s)
         /\ IsSupport(o) => CarriesNothing(sess[s])
         /\ OnlySession(s)
         /\ Written(sess'[s], sess[s].emp, o, sess[s].status, sess[s], sess[s],
                    sess[s].excluded)
         /\ IF sess[s].status = "CLOSED" THEN Holding(s, o, sess[s]) /\ OnlyHold(s)
                                         ELSE UNCHANGED hold
         /\ UNCHANGED <<bucket, form>>
         /\ Rebuilt({sess[s].op, o})
<1> DEFINE old == sess[s].op
           row == [sess[s] EXCEPT !.op = o]
<1>1. /\ Exists(s)
      /\ IsSupport(o) => CarriesNothing(sess[s])
      /\ IF sess[s].status = "CLOSED" THEN Consumes(s, o, sess[s]) ELSE UNCHANGED hold
      /\ ReconciledBoth(old, o)
      /\ UNCHANGED <<bucket, form>>
  BY DEF Transfer
<1>2. /\ sess[s] \in SessionRow /\ old \in Operation /\ sess[s].emp \in Employee
      /\ sess[s].good \in Nat /\ sess[s].defect \in Nat
  BY <1>1, ExistingRow
<1>3. /\ row \in SessionRow /\ row.emp = sess[s].emp /\ row.op = o
      /\ Written(row, sess[s].emp, o, sess[s].status, sess[s], sess[s],
                 sess[s].excluded)
  BY <1>2 DEF SessionRow, Written
<1>4. /\ HoldOK'
      /\ IF sess[s].status = "CLOSED" THEN Holding(s, o, sess[s]) /\ OnlyHold(s)
                                      ELSE UNCHANGED hold
  <2>1. CASE sess[s].status = "CLOSED"
    BY <1>1, <1>2, <2>1, ConsumesEffect DEF ShapesOK, HoldOK, Holding, OnlyHold
  <2>2. CASE sess[s].status # "CLOSED"
    BY <1>1, <2>2 DEF ShapesOK, HoldOK
  <2> QED BY <2>1, <2>2
<1>5. sess' = [sess EXCEPT ![s] = row]
  BY DEF Transfer
<1> HIDE DEF row, old
<1>6. ShapesOK' /\ sess'[s] = row /\ OnlySession(s) /\ Rebuilt({old, o})
  <2>1. /\ old \in Operation /\ row \in SessionRow
        /\ row.emp \in Employee /\ row.op \in Operation
    BY <1>2, <1>3
  <2>2. /\ HoldOK' /\ UNCHANGED <<bucket, form>> /\ ReconciledBoth(old, o)
    BY <1>1, <1>4
  <2> QED BY <1>5, <2>1, <2>2, TwoOperationStep
<1> QED BY <1>1, <1>2, <1>3, <1>4, <1>6 DEF old

\* exclude_session
LEMMA ExcludeEffect ==
  ASSUME ShapesOK, NEW s \in Session, Exclude(s)
  PROVE  /\ ShapesOK'
         /\ Exists(s) /\ sess[s].op \in Operation
         /\ OnlySession(s)
         /\ Written(sess'[s], sess[s].emp, sess[s].op, sess[s].status, sess[s],
                    sess[s], TRUE)
         /\ hold'[s] = NoHold /\ OnlyHold(s)
         /\ UNCHANGED <<bucket, form>>
         /\ Rebuilt({sess[s].op})
<1> DEFINE o   == sess[s].op
           row == [sess[s] EXCEPT !.excluded = TRUE]
<1>1. Exists(s) /\ Releases(s) /\ Reconciled(o) /\ UNCHANGED <<bucket, form>>
  BY DEF Exclude
<1>2. sess' = [sess EXCEPT ![s] = row]
  BY DEF Exclude
<1>3. /\ sess[s] \in SessionRow /\ sess[s].emp \in Employee /\ o \in Operation
  BY <1>1, ExistingRow
<1>4. /\ row \in SessionRow /\ row.emp = sess[s].emp /\ row.op = o
      /\ Written(row, sess[s].emp, o, sess[s].status, sess[s], sess[s], TRUE)
  BY <1>3 DEF SessionRow, Written
<1>5. HoldOK' /\ hold'[s] = NoHold /\ OnlyHold(s)
  BY <1>1, ReleasesEffect DEF ShapesOK, HoldOK, OnlyHold
<1> HIDE DEF row
<1>6. ShapesOK' /\ sess'[s] = row /\ OnlySession(s) /\ Rebuilt({o})
  BY <1>1, <1>2, <1>3, <1>4, <1>5, OneOperationStep
<1> QED BY <1>1, <1>3, <1>4, <1>5, <1>6

\* restore_session
LEMMA RestoreEffect ==
  ASSUME ShapesOK, NEW s \in Session, Restore(s)
  PROVE  /\ ShapesOK'
         /\ Exists(s) /\ sess[s].op \in Operation
         /\ OnlySession(s)
         /\ Written(sess'[s], sess[s].emp, sess[s].op, sess[s].status, sess[s],
                    sess[s], FALSE)
         /\ IF sess[s].status = "CLOSED"
            THEN Holding(s, sess[s].op, sess[s]) /\ OnlyHold(s)
            ELSE UNCHANGED hold
         /\ UNCHANGED <<bucket, form>>
         /\ Rebuilt({sess[s].op})
<1> DEFINE o   == sess[s].op
           row == [sess[s] EXCEPT !.excluded = FALSE]
<1>1. /\ Exists(s) /\ Reconciled(o) /\ UNCHANGED <<bucket, form>>
      /\ IF sess[s].status = "CLOSED" THEN Consumes(s, o, sess[s]) ELSE UNCHANGED hold
  BY DEF Restore
<1>2. sess' = [sess EXCEPT ![s] = row]
  BY DEF Restore
<1>3. /\ sess[s] \in SessionRow /\ sess[s].emp \in Employee /\ o \in Operation
      /\ sess[s].good \in Nat /\ sess[s].defect \in Nat
  BY <1>1, ExistingRow
<1>4. /\ row \in SessionRow /\ row.emp = sess[s].emp /\ row.op = o
      /\ Written(row, sess[s].emp, o, sess[s].status, sess[s], sess[s], FALSE)
  BY <1>3 DEF SessionRow, Written
<1>5. HoldOK' /\ IF sess[s].status = "CLOSED"
                 THEN Holding(s, o, sess[s]) /\ OnlyHold(s) ELSE UNCHANGED hold
  <2>1. CASE sess[s].status = "CLOSED"
    BY <1>1, <1>3, <2>1, ConsumesEffect DEF ShapesOK, HoldOK, Holding, OnlyHold
  <2>2. CASE sess[s].status # "CLOSED"
    BY <1>1, <2>2 DEF ShapesOK, HoldOK
  <2> QED BY <2>1, <2>2
<1> HIDE DEF row
<1>6. ShapesOK' /\ sess'[s] = row /\ OnlySession(s) /\ Rebuilt({o})
  BY <1>1, <1>2, <1>3, <1>4, <1>5, OneOperationStep
<1> QED BY <1>1, <1>3, <1>4, <1>5, <1>6

\* create_manual_session
LEMMA CreateManualEffect ==
  ASSUME ShapesOK, NEW s \in Session, NEW e \in Employee, NEW o \in Operation,
         NEW r \in Report, CreateManual(s, e, o, r)
  PROVE  /\ ShapesOK'
         /\ ~Exists(s) /\ OnlySession(s)
         /\ Written(sess'[s], e, o, "CLOSED", r, NoCredit, FALSE)
         /\ Holding(s, o, r) /\ OnlyHold(s)
         /\ UNCHANGED <<bucket, form>>
         /\ Rebuilt({o})
<1> DEFINE row == WithReport(Blank(e, o, "CLOSED"), r)
<1>1. /\ ~Exists(s) /\ Consumes(s, o, r)
      /\ sess' = [sess EXCEPT ![s] = row]
      /\ Reconciled(o) /\ UNCHANGED <<bucket, form>>
  BY DEF CreateManual
<1>2. /\ Blank(e, o, "CLOSED") \in SessionRow
      /\ Written(Blank(e, o, "CLOSED"), e, o, "CLOSED", Nothing, NoCredit, FALSE)
  BY BlankRow
<1>3. /\ row \in SessionRow /\ row.emp = e /\ row.op = o
      /\ Written(row, e, o, "CLOSED", r, NoCredit, FALSE)
  BY <1>2, ReportType, ReportedRow DEF Written
<1>4. HoldOK' /\ Holding(s, o, r) /\ OnlyHold(s)
  BY <1>1, ReportType, ConsumesEffect DEF ShapesOK, HoldOK, Holding, OnlyHold
<1> HIDE DEF row
<1>5. ShapesOK' /\ sess'[s] = row /\ OnlySession(s) /\ Rebuilt({o})
  BY <1>1, <1>3, <1>4, OneOperationStep
<1> QED BY <1>1, <1>3, <1>4, <1>5

\* cancel_operation
LEMMA CancelEffect ==
  ASSUME ShapesOK, NEW o \in Operation, CancelOperation(o)
  PROVE  /\ ShapesOK'
         /\ UNCHANGED <<sess, hold, bucket, form>>
         /\ \A x \in Operation : ops'[x].sums = ops[x].sums
<1> DEFINE row == [ops[o] EXCEPT !.status = "CANCELLED"]
<1>1. /\ orders' = ReconcileOrder(orders, ops', sess, OrderOf[o])
      /\ UNCHANGED <<sess, hold, bucket, form>>
      /\ ops' = [ops EXCEPT ![o] = row]
  BY DEF CancelOperation
<1>2. Shaped(ops) /\ OrderOf[o] \in Order
  BY ConfigAssumption DEF ShapesOK, OperationsOK, Shaped
<1>3. /\ DOMAIN ops = Operation
      /\ \A x \in Operation : ops[x] = [status |-> ops[x].status, sums |-> ops[x].sums]
  BY <1>2 DEF Shaped
<1>4. row = [status |-> "CANCELLED", sums |-> ops[o].sums]
  <2>1. ops[o] = [status |-> ops[o].status, sums |-> ops[o].sums]
    BY <1>3
  <2> QED BY <2>1
<1> HIDE DEF row
<1>5. /\ ops'[o] = row
      /\ \A x \in Operation \ {o} : ops'[x] = ops[x]
      /\ ops' = [x \in Operation |-> ops'[x]]
  BY <1>1, <1>3
<1>6. /\ \A x \in Operation : ops'[x].sums = ops[x].sums
      /\ \A x \in Operation : ops'[x] = [status |-> ops'[x].status, sums |-> ops'[x].sums]
      /\ \A x \in Operation : ops'[x].status \in OperationStatus
  BY <1>2, <1>3, <1>4, <1>5 DEF OperationStatus, Shaped
<1>7. OperationsOK'
  BY <1>5, <1>6 DEF OperationsOK
<1>8. OrdersOK'
  BY <1>1, <1>2, RebuildOrder DEF ShapesOK, OrdersOK
<1> QED BY <1>1, <1>6, <1>7, <1>8 DEF ShapesOK, SessionsOK, Exists, FormsOK

\* start_production_order and the order form change order rows only.
LEMMA OrderRowEffect ==
  ASSUME ShapesOK,
         \/ \E p \in Order : StartOrder(p)
         \/ \E p \in Order, n \in Target :
               \E st \in AdminStatus \cup {orders[p].status} : UpdateOrder(p, st, n)
  PROVE  ShapesOK' /\ UNCHANGED <<sess, hold, bucket, ops, form>>
<1>1. UNCHANGED <<sess, hold, bucket, ops, form>>
  BY DEF StartOrder, UpdateOrder
<1>2. OrdersOK'
  <2>1. ASSUME NEW p \in Order, StartOrder(p) PROVE OrdersOK'
    <3>1. "IN_PROGRESS" \in OrderStatus
      BY DEF OrderStatus
    <3> QED BY <2>1, <3>1 DEF ShapesOK, OrdersOK, StartOrder
  <2>2. ASSUME NEW p \in Order, NEW n \in Target,
               NEW st \in AdminStatus \cup {orders[p].status}, UpdateOrder(p, st, n)
        PROVE  OrdersOK'
    <3>1. st \in OrderStatus
      BY QuantityAssumption DEF ShapesOK, OrdersOK
    <3> QED BY <2>2, <3>1 DEF ShapesOK, OrdersOK, UpdateOrder
  <2> QED BY <2>1, <2>2
<1> QED BY <1>1, <1>2 DEF ShapesOK, SessionsOK, Exists, OperationsOK, FormsOK

\* Putting back what a form read keeps the shape of the table and writes one row.
LEMMA PutBackShape ==
  ASSUME ShapesOK, NEW c \in Clerk, form[c] # NoForm
  PROVE  LET o   == form[c].op
             new == PutBack(c)
         IN  /\ o \in Operation /\ Shaped(new)
             /\ \A x \in Operation \ {o} : new[x] = ops[x]
             /\ new[o].sums =
                  IF form[c].sent
                  THEN [ops[o].sums EXCEPT !.done = form[c].sums.done,
                                           !.defect = form[c].sums.defect,
                                           !.rework = form[c].sums.rework]
                  ELSE ops[o].sums
             /\ form[c].sent => new[o].status = form[c].status
             /\ ~form[c].sent => new = ops
<1> DEFINE o    == form[c].op
           new  == PutBack(c)
           sums == [ops[o].sums EXCEPT !.done = form[c].sums.done,
                                       !.defect = form[c].sums.defect,
                                       !.rework = form[c].sums.rework]
           row  == IF form[c].sent THEN [status |-> form[c].status, sums |-> sums]
                                   ELSE ops[o]
<1>1. o \in Operation /\ form[c].status \in OperationStatus
  BY DEF ShapesOK, FormsOK
<1>2. /\ DOMAIN ops = Operation
      /\ ops = [x \in Operation |-> ops[x]]
      /\ \A x \in Operation : /\ ops[x] = [status |-> ops[x].status, sums |-> ops[x].sums]
                              /\ ops[x].status \in OperationStatus
  BY DEF ShapesOK, OperationsOK
<1>3. new = [ops EXCEPT ![o] = row]
  BY DEF PutBack
<1> HIDE DEF new, sums
<1>4. /\ row = [status |-> row.status, sums |-> row.sums]
      /\ row.status \in OperationStatus
      /\ row.sums = IF form[c].sent THEN sums ELSE ops[o].sums
      /\ form[c].sent => row.status = form[c].status
      /\ ~form[c].sent => row = ops[o]
  BY <1>1, <1>2
<1> HIDE DEF row
<1>5. /\ new[o] = row
      /\ \A x \in Operation \ {o} : new[x] = ops[x]
      /\ new = [x \in Operation |-> new[x]]
  BY <1>1, <1>2, <1>3
<1>6. Shaped(new)
  <2>1. \A x \in Operation : /\ new[x] = [status |-> new[x].status, sums |-> new[x].sums]
                            /\ new[x].status \in OperationStatus
    BY <1>2, <1>4, <1>5
  <2> QED BY <1>5, <2>1 DEF Shaped
<1>7. ~form[c].sent => new = ops
  BY <1>2, <1>4, <1>5
<1> QED BY <1>1, <1>4, <1>5, <1>6, <1>7 DEF new, sums

\* The transaction of the operation form: one operation is written, and rebuilt if
\* the request saw sessions.
LEMMA SaveEffect ==
  ASSUME ShapesOK, NEW c \in Clerk, SaveOperation(c)
  PROVE  LET o == form[c].op IN
         /\ o \in Operation
         /\ OperationsOK' /\ OrdersOK'
         /\ \A x \in Operation \ {o} : ops'[x] = ops[x]
         /\ form[c].history = "SOME" => ops'[o].sums = Rollup(sess', o)
         /\ form[c].history # "SOME" => form[c].history = "NONE" /\ ops' = PutBack(c)
<1> DEFINE o == form[c].op
           os == PutBack(c)
<1>1. /\ form[c] # NoForm /\ form[c].history \in {"SOME", "NONE"} /\ sess' = sess
      /\ IF form[c].history = "SOME"
         THEN /\ ops' = ReconcileOperation(os, sess, o)
              /\ orders' = ReconcileOrder(orders, ops', sess, OrderOf[o])
         ELSE ops' = os /\ UNCHANGED orders
  BY DEF SaveOperation, ShapesOK, FormsOK
<1>2. /\ o \in Operation /\ Shaped(os)
      /\ \A x \in Operation \ {o} : os[x] = ops[x]
  BY <1>1, PutBackShape
<1>3. OrderOf[o] \in Order
  BY <1>2, ConfigAssumption
<1> HIDE DEF os
<1>4. CASE form[c].history = "SOME"
  <2>1. /\ Shaped(ops')
        /\ ops'[o].sums = Rollup(sess', o)
        /\ \A x \in Operation \ {o} : ops'[x] = os[x]
    BY <1>1, <1>2, <1>4, RebuildOperation
  <2>2. OrdersOK'
    BY <1>1, <1>3, <1>4, RebuildOrder DEF ShapesOK, OrdersOK
  <2> QED BY <1>2, <1>4, <2>1, <2>2 DEF OperationsOK, Shaped
<1>5. CASE form[c].history = "NONE"
  BY <1>1, <1>2, <1>5 DEF ShapesOK, OperationsOK, OrdersOK, Shaped, os
<1> QED BY <1>1, <1>4, <1>5

\* Whatever the operation form does leaves sessions, material and repairs alone.
LEMMA FormEffect ==
  ASSUME ShapesOK, NEW c \in Clerk, FormStep(c)
  PROVE  /\ ShapesOK'
         /\ UNCHANGED ops \/ SaveOperation(c)
<1>1. UNCHANGED <<sess, hold, bucket>>
  BY DEF FormStep, AskUpdate, CountSessions, SaveOperation, DropForm
<1> DEFINE Row(op, st, sums, sent, h) ==
             [op |-> op, status |-> st, sums |-> sums, sent |-> sent, history |-> h]
<1>2. FormsOK'
  <2>1. ASSUME NEW o \in Operation, NEW st \in OperationStatus, NEW sums,
               NEW sent \in BOOLEAN, NEW h \in {"UNREAD", "NONE", "SOME"},
               form' = [form EXCEPT ![c] = Row(o, st, sums, sent, h)]
        PROVE  FormsOK'
    <3>1. form'[c] = Row(o, st, sums, sent, h) /\ \A d \in Clerk \ {c} : form'[d] = form[d]
      BY <2>1 DEF ShapesOK, FormsOK
    <3>2. form' = [d \in Clerk |-> form'[d]]
      BY <2>1 DEF ShapesOK, FormsOK
    <3> QED BY <3>1, <3>2 DEF ShapesOK, FormsOK
  <2>2. ASSUME NEW o \in Operation, NEW sent \in BOOLEAN, AskUpdate(c, o, sent)
        PROVE  FormsOK'
    <3>1. ops[o].status \in OperationStatus
      BY DEF ShapesOK, OperationsOK
    <3>2. form' = [form EXCEPT ![c] = Row(o, ops[o].status, ops[o].sums, sent, "UNREAD")]
      BY <2>2 DEF AskUpdate
    <3> QED BY <2>1, <3>1, <3>2
  <2>3. CASE CountSessions(c)
    <3>1. form[c] # NoForm
      BY <2>3 DEF CountSessions
    <3>2. PICK h \in {"SOME", "NONE"} : form' = [form EXCEPT ![c].history = h]
      BY <2>3 DEF CountSessions
    <3>3. /\ form[c] = Row(form[c].op, form[c].status, form[c].sums, form[c].sent,
                           form[c].history)
          /\ form[c].op \in Operation /\ form[c].status \in OperationStatus
          /\ form[c].sent \in BOOLEAN
      BY <3>1 DEF ShapesOK, FormsOK
    <3>4. form' = [form EXCEPT ![c] = Row(form[c].op, form[c].status, form[c].sums,
                                          form[c].sent, h)]
      <4>1. [form[c] EXCEPT !.history = h]
              = Row(form[c].op, form[c].status, form[c].sums, form[c].sent, h)
        BY <3>3
      <4>2. form' = [form EXCEPT ![c] = [form[c] EXCEPT !.history = h]]
        BY <3>2
      <4> QED BY <4>1, <4>2
    <3> QED BY <2>1, <3>3, <3>4
  <2>4. CASE SaveOperation(c) \/ DropForm(c)
    <3>1. form' = [form EXCEPT ![c] = NoForm]
      BY <2>4 DEF SaveOperation, DropForm
    <3>2. form' = [d \in Clerk |-> form'[d]]
      BY <3>1 DEF ShapesOK, FormsOK
    <3>3. form'[c] = NoForm /\ \A d \in Clerk \ {c} : form'[d] = form[d]
      BY <3>1 DEF ShapesOK, FormsOK
    <3> QED BY <3>2, <3>3 DEF ShapesOK, FormsOK
  <2> QED BY <2>2, <2>3, <2>4 DEF FormStep
<1>3. CASE SaveOperation(c)
  BY <1>1, <1>2, <1>3, SaveEffect DEF ShapesOK, SessionsOK, Exists
<1>4. CASE ~SaveOperation(c)
  <2>1. UNCHANGED <<ops, orders>>
    BY <1>4 DEF FormStep, AskUpdate, CountSessions, DropForm
  <2> QED BY <1>1, <1>2, <2>1 DEF ShapesOK, SessionsOK, Exists, OperationsOK, OrdersOK
<1> QED BY <1>3, <1>4

\* The steps that write no session, material row or repair.
Quiet == OrderStep \/ (\E c \in Clerk : FormStep(c)) \/ UNCHANGED vars

LEMMA QuietEffect ==
  ASSUME Quiet
  PROVE  UNCHANGED <<sess, hold, bucket>>
<1>1. CASE OrderStep
  BY <1>1 DEF OrderStep, CancelOperation, StartOrder, UpdateOrder
<1>2. CASE \E c \in Clerk : FormStep(c)
  BY <1>2 DEF FormStep, AskUpdate, CountSessions, SaveOperation, DropForm
<1>3. CASE UNCHANGED vars
  BY <1>3 DEF vars
<1> QED BY <1>1, <1>2, <1>3 DEF Quiet

-----------------------------------------------------------------------------
(* Type correctness *)

LEMMA TypeInit == Init => ShapesOK
<1> SUFFICES ASSUME Init PROVE ShapesOK
  OBVIOUS
<1>1. SessionsOK
  BY DEF Init, SessionsOK, Blank, SessionRow, Exists
<1>2. hold \in [Session -> Hold \cup {NoHold}] /\ bucket \in [Session -> Bucket]
  BY DEF Init, Bucket
<1>3. OperationsOK
  <2>1. "PLANNED" \in OperationStatus
    BY DEF OperationStatus
  <2>2. ops = [o \in Operation |-> [status |-> "PLANNED", sums |-> Rollup(sess, o)]]
    BY DEF Init
  <2>3. \A o \in Operation : /\ ops[o].status = "PLANNED"
                             /\ ops[o] = [status |-> ops[o].status, sums |-> ops[o].sums]
    BY <2>2
  <2> QED BY <2>1, <2>2, <2>3 DEF OperationsOK
<1>4. OrdersOK
  BY DEF Init, OrdersOK, OrderStatus
<1>5. FormsOK
  BY DEF Init, FormsOK
<1> QED BY <1>1, <1>2, <1>3, <1>4, <1>5 DEF ShapesOK

LEMMA TypeNext == ShapesOK /\ [Next]_vars => ShapesOK'
<1> SUFFICES ASSUME ShapesOK, [Next]_vars PROVE ShapesOK'
  OBVIOUS
<1>1. ASSUME NEW s \in Session, SessionStep(s) PROVE ShapesOK'
  <2>1. CASE \E e \in Employee, o \in Operation : Start(s, e, o)
    BY <2>1, StartEffect
  <2>2. CASE \E r \in Report : Finish(s, r)
    BY <2>2, FinishEffect
  <2>3. CASE AutoClose(s)
    BY <2>3, AutoCloseEffect
  <2>4. CASE \E w \in Session \ {s}, e \in Employee, n, m \in 0..sess[s].rework :
               Resolve(s, w, e, n, m)
    BY <2>4, ResolveEffect
  <2> QED BY <1>1, <2>1, <2>2, <2>3, <2>4 DEF SessionStep
<1>2. ASSUME NEW s \in Session, SupervisorStep(s) PROVE ShapesOK'
  <2>1. CASE \E r \in Report : Adjust(s, r)
    BY <2>1, AdjustEffect
  <2>2. CASE \E e \in Employee, o \in Operation, st \in {"OPEN", "CLOSED"}, r \in Form(s) :
               Edit(s, e, o, st, r)
    BY <2>2, EditEffect
  <2>3. CASE \E o \in Operation : Transfer(s, o)
    BY <2>3, TransferEffect
  <2>4. CASE Exclude(s)
    BY <2>4, ExcludeEffect
  <2>5. CASE Restore(s)
    BY <2>5, RestoreEffect
  <2>6. CASE \E e \in Employee, o \in Operation, r \in Report : CreateManual(s, e, o, r)
    BY <2>6, CreateManualEffect
  <2> QED BY <1>2, <2>1, <2>2, <2>3, <2>4, <2>5, <2>6 DEF SupervisorStep
<1>3. CASE OrderStep
  BY <1>3, CancelEffect, OrderRowEffect DEF OrderStep
<1>4. CASE \E c \in Clerk : FormStep(c)
  BY <1>4, FormEffect
<1>5. CASE UNCHANGED vars
  BY <1>5 DEF vars, ShapesOK, SessionsOK, Exists, OperationsOK, OrdersOK, FormsOK
<1> QED BY <1>1, <1>2, <1>3, <1>4, <1>5 DEF Next

-----------------------------------------------------------------------------
(* The stored aggregates *)

\* Rollup depends on what the sessions contribute and on nothing else.
LEMMA RollupSame ==
  ASSUME NEW ss, NEW tt, NEW x,
         \A t \in Session : Contribution(ss, t, x) = Contribution(tt, t, x)
  PROVE  Rollup(ss, x) = Rollup(tt, x)
<1> DEFINE in(rows) == {t \in Session : Contribution(rows, t, x) # NoSums}
<1>1. in(ss) = in(tt)
  OBVIOUS
<1>2. [t \in in(ss) |-> Contribution(ss, t, x)] = [t \in in(tt) |-> Contribution(tt, t, x)]
  BY <1>1
<1> QED BY <1>2 DEF Rollup

\* A session contributes to the operation it is on only.
LEMMA ContributesToItsOwn ==
  ASSUME NEW ss, NEW s, NEW x, ss[s].status # "NONE" => ss[s].op # x
  PROVE  Contribution(ss, s, x) = NoSums
BY DEF Contribution, Reportable

\* Writing one session disturbs the operation it was on and the one it is on.
LEMMA RollupElsewhere ==
  ASSUME NEW s \in Session, OnlySession(s), NEW x,
         Exists(s) => sess[s].op # x,
         sess'[s].op # x
  PROVE  Rollup(sess', x) = Rollup(sess, x)
<1>1. Contribution(sess', s, x) = NoSums /\ Contribution(sess, s, x) = NoSums
  BY ContributesToItsOwn DEF Exists
<1>2. ASSUME NEW t \in Session \ {s}
      PROVE  Contribution(sess', t, x) = Contribution(sess, t, x)
  BY DEF OnlySession, Contribution, Reportable
<1> QED BY <1>1, <1>2, RollupSame

\* An operation a step rebuilds, or leaves alone together with the work on it.
Settled(x) ==
  \/ Exact(x)'
  \/ ops'[x].sums = ops[x].sums /\ Rollup(sess', x) = Rollup(sess, x)

AllSettled == \A x \in Operation : Settled(x)

\* So rebuilding those is enough.
LEMMA RebuiltSettles ==
  ASSUME NEW O \in SUBSET Operation, Rebuilt(O),
         \A x \in Operation \ O : Rollup(sess', x) = Rollup(sess, x)
  PROVE  AllSettled
BY DEF AllSettled, Settled, Exact, Rebuilt

LEMMA SessionsSettle ==
  ASSUME ShapesOK, NEW s \in Session, SessionStep(s) \/ SupervisorStep(s)
  PROVE  AllSettled
<1>1. CASE SessionStep(s)
  <2>1. ASSUME NEW e \in Employee, NEW o \in Operation, Start(s, e, o) PROVE AllSettled
    <3>1. ~Exists(s) /\ sess'[s].op = o /\ OnlySession(s) /\ Rebuilt({o})
      BY <2>1, StartEffect DEF Written
    <3> QED BY <3>1, RollupElsewhere, RebuiltSettles
  <2>2. ASSUME NEW r \in Report, Finish(s, r) PROVE AllSettled
    <3>1. /\ sess[s].op \in Operation /\ sess'[s].op = sess[s].op
          /\ OnlySession(s) /\ Rebuilt({sess[s].op})
      BY <2>2, FinishEffect DEF Written
    <3> QED BY <3>1, RollupElsewhere, RebuiltSettles
  <2>3. CASE AutoClose(s)
    <3>1. /\ sess[s].op \in Operation /\ sess'[s].op = sess[s].op
          /\ OnlySession(s) /\ Rebuilt({sess[s].op})
      BY <2>3, AutoCloseEffect DEF Written
    <3> QED BY <3>1, RollupElsewhere, RebuiltSettles
  <2>4. ASSUME NEW w \in Session \ {s}, NEW e \in Employee,
               NEW n \in 0..sess[s].rework, NEW m \in 0..sess[s].rework,
               Resolve(s, w, e, n, m)
        PROVE  AllSettled
    <3> DEFINE o == sess[s].op
    <3>0. /\ o \in Operation /\ Rebuilt({o}) /\ ~Exists(w)
          /\ Credited(sess'[s], sess[s], n, m)
          /\ Written(sess'[w], e, Bench[o], "CLOSED", Nothing, NoCredit, FALSE)
          /\ \A t \in Session \ {s, w} : sess'[t] = sess[t]
      BY <2>4, ResolveEffect, Zenon
    <3>1. /\ o \in Operation /\ sess'[s].op = o /\ Rebuilt({o}) /\ ~Exists(w)
          /\ Written(sess'[w], e, Bench[o], "CLOSED", Nothing, NoCredit, FALSE)
          /\ \A t \in Session \ {s, w} : sess'[t] = sess[t]
      BY <3>0 DEF Credited
    <3>2. ASSUME NEW x \in Operation \ {o} PROVE Rollup(sess', x) = Rollup(sess, x)
      <4>1. Contribution(sess', s, x) = NoSums /\ Contribution(sess, s, x) = NoSums
        BY <3>1, ContributesToItsOwn
      <4>2. Contribution(sess, w, x) = NoSums
        BY <3>1, ContributesToItsOwn DEF Exists
      <4>3. Contribution(sess', w, x) = NoSums
        BY <3>1 DEF Contribution, Written, Nothing, NoCredit, NoSums
      <4>4. ASSUME NEW t \in Session \ {s, w}
            PROVE  Contribution(sess', t, x) = Contribution(sess, t, x)
        BY <3>1 DEF Contribution, Reportable
      <4> QED BY <4>1, <4>2, <4>3, <4>4, RollupSame
    <3> QED BY <3>1, <3>2, RebuiltSettles
  <2> QED BY <1>1, <2>1, <2>2, <2>3, <2>4 DEF SessionStep
<1>2. CASE SupervisorStep(s)
  <2>1. ASSUME NEW r \in Report, Adjust(s, r) PROVE AllSettled
    <3>1. /\ sess[s].op \in Operation /\ sess'[s].op = sess[s].op
          /\ OnlySession(s) /\ Rebuilt({sess[s].op})
      BY <2>1, AdjustEffect DEF Written
    <3> QED BY <3>1, RollupElsewhere, RebuiltSettles
  <2>2. ASSUME NEW e \in Employee, NEW o \in Operation, NEW st \in {"OPEN", "CLOSED"},
               NEW r \in Form(s), Edit(s, e, o, st, r)
        PROVE  AllSettled
    <3>0. /\ sess[s].op \in Operation
          /\ Written(sess'[s], e, o, st, r, sess[s], sess[s].excluded)
          /\ OnlySession(s) /\ Rebuilt({sess[s].op, o})
      BY <2>2, EditEffect, Zenon
    <3>1. /\ sess[s].op \in Operation /\ sess'[s].op = o
          /\ OnlySession(s) /\ Rebuilt({sess[s].op, o})
      BY <3>0 DEF Written
    <3> QED BY <3>1, RollupElsewhere, RebuiltSettles
  <2>3. ASSUME NEW o \in Operation, Transfer(s, o) PROVE AllSettled
    <3>1. /\ sess[s].op \in Operation /\ sess'[s].op = o
          /\ OnlySession(s) /\ Rebuilt({sess[s].op, o})
      BY <2>3, TransferEffect DEF Written
    <3> QED BY <3>1, RollupElsewhere, RebuiltSettles
  <2>4. CASE Exclude(s) \/ Restore(s)
    <3>1. /\ sess[s].op \in Operation /\ sess'[s].op = sess[s].op
          /\ OnlySession(s) /\ Rebuilt({sess[s].op})
      BY <2>4, ExcludeEffect, RestoreEffect DEF Written
    <3> QED BY <3>1, RollupElsewhere, RebuiltSettles
  <2>5. ASSUME NEW e \in Employee, NEW o \in Operation, NEW r \in Report,
               CreateManual(s, e, o, r)
        PROVE  AllSettled
    <3>1. ~Exists(s) /\ sess'[s].op = o /\ OnlySession(s) /\ Rebuilt({o})
      BY <2>5, CreateManualEffect DEF Written
    <3> QED BY <3>1, RollupElsewhere, RebuiltSettles
  <2> QED BY <1>2, <2>1, <2>2, <2>3, <2>4, <2>5 DEF SupervisorStep
<1> QED BY <1>1, <1>2

\* A save of the form whose request saw a session rebuilds what it wrote, and one
\* that sends no quantities writes none.
LEMMA FormsSettle ==
  ASSUME ShapesOK, NEW c \in Clerk, FormStep(c), NEW x \in Operation, ~SavedUnseen(x)
  PROVE  Settled(x)
<1>1. sess' = sess
  BY DEF FormStep, AskUpdate, CountSessions, SaveOperation, DropForm
<1>2. CASE SaveOperation(c)
  <2>1. CASE form[c].history = "SOME" /\ x = form[c].op
    BY <1>1, <1>2, <2>1, SaveEffect DEF Settled, Exact
  <2>2. CASE ~(form[c].history = "SOME" /\ x = form[c].op)
    <3>1. form[c] # NoForm /\ \A y \in Operation \ {form[c].op} : ops'[y] = ops[y]
      BY <1>2, SaveEffect DEF SaveOperation
    <3>2. CASE x = form[c].op
      <4>1. form[c].history = "NONE" /\ ops' = PutBack(c)
        BY <1>2, <2>2, <3>2, SaveEffect
      <4>2. ~form[c].sent
        BY <1>2, <3>1, <3>2, <4>1 DEF SavedUnseen
      <4> QED BY <1>1, <3>1, <4>1, <4>2, PutBackShape DEF Settled
    <3> QED BY <1>1, <3>1, <3>2 DEF Settled
  <2> QED BY <2>1, <2>2
<1>3. CASE ~SaveOperation(c)
  BY <1>1, <1>3 DEF FormStep, AskUpdate, CountSessions, DropForm, Settled
<1> QED BY <1>2, <1>3

LEMMA RollupNext ==
  ASSUME ShapesOK, [Next]_vars, NEW x \in Operation
  PROVE  Settled(x) \/ SavedUnseen(x)
<1>1. CASE \E s \in Session : SessionStep(s) \/ SupervisorStep(s)
  BY <1>1, SessionsSettle DEF AllSettled
<1>2. CASE OrderStep
  BY <1>2, CancelEffect, OrderRowEffect DEF OrderStep, Settled
<1>3. CASE \E c \in Clerk : FormStep(c)
  BY <1>3, FormsSettle
<1>4. CASE UNCHANGED vars
  BY <1>4 DEF vars, Settled
<1> QED BY <1>1, <1>2, <1>3, <1>4 DEF Next

\* No write path but one forgets to rebuild an operation: a step either leaves
\* the stored aggregates of an operation equal to the sums over its counted
\* CLOSED sessions, or touches neither, or is a save of the operation form whose
\* request saw no session; for every factory and every number of sessions.
THEOREM AggregatesExact == Spec => RollupExact
<1>1. ShapesOK /\ [Next]_vars =>
        \A o \in Operation :
          \/ Exact(o)'
          \/ ops'[o].sums = ops[o].sums /\ Rollup(sess', o) = Rollup(sess, o)
          \/ SavedUnseen(o)
  BY RollupNext DEF Settled
<1>2. ShapesOK /\ [Next]_vars => ShapesOK'
  BY TypeNext
<1> QED BY <1>1, <1>2, TypeInit, PTL DEF Spec, RollupExact

-----------------------------------------------------------------------------
(* The repair ledger *)

\* Rows that do not exist yet carry no credit.
CreditInv ==
  /\ ReworkCreditedOnce
  /\ \A s \in Session : ~Exists(s) => sess[s].repaired = 0 /\ sess[s].scrap = 0

\* A write that leaves repaired and scrap alone and keeps room for them.
LEMMA CreditKept ==
  ASSUME ShapesOK, ShapesOK', CreditInv, NEW s \in Session, OnlySession(s),
         UNCHANGED bucket, sess'[s].status # "NONE",
         sess'[s].repaired = sess[s].repaired, sess'[s].scrap = sess[s].scrap,
         sess[s].repaired + sess[s].scrap <= sess'[s].rework,
         sess'[s].rework <= sess'[s].defect
  PROVE  CreditInv'
<1>1. ASSUME NEW t \in Session \ {s}
      PROVE  sess'[t] = sess[t]
  BY DEF OnlySession
<1> QED BY <1>1 DEF CreditInv, ReworkCreditedOnce, Exists

LEMMA CreditNext == ShapesOK /\ CreditInv /\ [Next]_vars => CreditInv'
<1> SUFFICES ASSUME ShapesOK, CreditInv, [Next]_vars PROVE CreditInv'
  OBVIOUS
<1>0. ShapesOK'
  BY TypeNext
<1>1. ASSUME NEW s \in Session, SessionStep(s) PROVE CreditInv'
  <2>1. ASSUME NEW e \in Employee, NEW o \in Operation, Start(s, e, o) PROVE CreditInv'
    <3>1. /\ ~Exists(s) /\ OnlySession(s) /\ UNCHANGED <<bucket, form>>
          /\ Written(sess'[s], e, o, "OPEN", Nothing, NoCredit, FALSE)
      BY <2>1, StartEffect, Zenon
    <3>2. /\ sess'[s].status # "NONE" /\ sess'[s].rework = 0 /\ sess'[s].defect = 0
          /\ sess'[s].repaired = 0 /\ sess'[s].scrap = 0
      BY <3>1 DEF Written, Nothing, NoCredit
    <3> QED BY <1>0, <3>1, <3>2, CreditKept DEF CreditInv
  <2>2. ASSUME NEW r \in Report, Finish(s, r) PROVE CreditInv'
    <3> DEFINE typed == IF Kind[sess[s].op] = "SETUP" THEN Nothing ELSE r
    <3>1. /\ OnlySession(s) /\ UNCHANGED <<bucket, form>> /\ RowCheck(sess'[s])
          /\ Written(sess'[s], sess[s].emp, sess[s].op, "CLOSED", typed, sess[s],
                     sess[s].excluded)
      BY <2>2, FinishEffect, Zenon
    <3>2. /\ sess'[s].status # "NONE"
          /\ sess'[s].repaired = sess[s].repaired /\ sess'[s].scrap = sess[s].scrap
      BY <3>1 DEF Written
    <3> QED BY <1>0, <3>1, <3>2, CreditKept DEF RowCheck
  <2>3. CASE AutoClose(s)
    <3>1. /\ OnlySession(s) /\ UNCHANGED <<bucket, form>>
          /\ Written(sess'[s], sess[s].emp, sess[s].op, "CLOSED", sess[s], sess[s],
                     sess[s].excluded)
      BY <2>3, AutoCloseEffect, Zenon
    <3>2. /\ sess'[s].status # "NONE"
          /\ sess'[s].repaired = sess[s].repaired /\ sess'[s].scrap = sess[s].scrap
          /\ sess'[s].rework = sess[s].rework /\ sess'[s].defect = sess[s].defect
      BY <3>1 DEF Written
    <3> QED BY <1>0, <3>1, <3>2, CreditKept DEF CreditInv, ReworkCreditedOnce
  <2>4. ASSUME NEW w \in Session \ {s}, NEW e \in Employee,
               NEW n \in 0..sess[s].rework, NEW m \in 0..sess[s].rework,
               Resolve(s, w, e, n, m)
        PROVE  CreditInv'
    <3>1. /\ n \in Nat /\ m \in Nat /\ ~Exists(w) /\ sess[s].status = "CLOSED"
          /\ Credited(sess'[s], sess[s], n, m) /\ RowCheck(sess'[s])
          /\ Written(sess'[w], e, Bench[sess[s].op], "CLOSED", Nothing, NoCredit, FALSE)
          /\ \A t \in Session \ {s, w} : sess'[t] = sess[t] /\ bucket'[t] = bucket[t]
          /\ bucket'[s] = [reworked |-> bucket[s].reworked + n,
                           scrapped |-> bucket[s].scrapped + m]
          /\ bucket'[w] = bucket[w]
      BY <2>4, ResolveEffect, Zenon
    <3>2. /\ sess[s].repaired \in Nat /\ sess[s].scrap \in Nat
      BY <3>1, ExistingRow DEF Exists
    <3>3. /\ sess'[s].status # "NONE"
          /\ sess'[s].repaired = bucket'[s].reworked
          /\ sess'[s].scrap = bucket'[s].scrapped
          /\ bucket'[s].reworked + bucket'[s].scrapped <= sess'[s].rework
          /\ sess'[s].rework <= sess'[s].defect
      <4>1. /\ sess'[s].repaired = sess[s].repaired + n
            /\ sess'[s].scrap = sess[s].scrap + m /\ sess'[s].status = "CLOSED"
        BY <3>1 DEF Credited
      <4>2. sess[s].repaired = bucket[s].reworked /\ sess[s].scrap = bucket[s].scrapped
        BY DEF CreditInv, ReworkCreditedOnce
      <4>3. /\ sess'[s].repaired = bucket'[s].reworked
            /\ sess'[s].scrap = bucket'[s].scrapped
        BY <3>1, <4>1, <4>2
      <4> QED BY <3>1, <4>1, <4>3 DEF RowCheck
    <3>4. /\ sess'[w].status # "NONE"
          /\ sess'[w].repaired = bucket'[w].reworked
          /\ sess'[w].scrap = bucket'[w].scrapped
          /\ bucket'[w].reworked + bucket'[w].scrapped <= sess'[w].rework
          /\ sess'[w].rework <= sess'[w].defect
      <4>1. bucket'[w].reworked = 0 /\ bucket'[w].scrapped = 0
        BY <3>1 DEF CreditInv, ReworkCreditedOnce
      <4>2. /\ sess'[w].rework = 0 /\ sess'[w].defect = 0
            /\ sess'[w].repaired = 0 /\ sess'[w].scrap = 0 /\ sess'[w].status = "CLOSED"
        BY <3>1 DEF Written, Nothing, NoCredit
      <4> QED BY <4>1, <4>2
    <3>5. ASSUME NEW t \in Session \ {s, w}
          PROVE  sess'[t] = sess[t] /\ bucket'[t] = bucket[t]
      BY <3>1
    <3> QED BY <3>3, <3>4, <3>5 DEF CreditInv, ReworkCreditedOnce, Exists
  <2> QED BY <1>1, <2>1, <2>2, <2>3, <2>4 DEF SessionStep
<1>2. ASSUME NEW s \in Session, SupervisorStep(s) PROVE CreditInv'
  <2>1. ASSUME NEW r \in Report, Adjust(s, r) PROVE CreditInv'
    <3>1. /\ Exists(s) /\ OnlySession(s) /\ UNCHANGED <<bucket, form>> /\ LedgerGuard(s, r)
          /\ Written(sess'[s], sess[s].emp, sess[s].op, sess[s].status, r, sess[s],
                     sess[s].excluded)
      BY <2>1, AdjustEffect, Zenon
    <3>2. /\ sess'[s].status # "NONE"
          /\ sess'[s].repaired = sess[s].repaired /\ sess'[s].scrap = sess[s].scrap
          /\ sess'[s].rework = r.rework /\ sess'[s].defect = r.defect
      BY <3>1 DEF Written, Exists
    <3>3. sess[s].repaired + sess[s].scrap <= r.rework
      BY <3>1 DEF LedgerGuard, CreditInv, ReworkCreditedOnce
    <3> QED BY <1>0, <3>1, <3>2, <3>3, ReportType, CreditKept
  <2>2. ASSUME NEW e \in Employee, NEW o \in Operation, NEW st \in {"OPEN", "CLOSED"},
               NEW r \in Form(s), Edit(s, e, o, st, r)
        PROVE  CreditInv'
    <3>1. /\ r.good \in Nat /\ r.defect \in Nat /\ r.rework \in Nat
          /\ r.rework <= r.defect
          /\ OnlySession(s) /\ UNCHANGED <<bucket, form>> /\ LedgerGuard(s, r)
          /\ Written(sess'[s], e, o, st, r, sess[s], sess[s].excluded)
      BY <2>2, EditEffect, Zenon
    <3>2. /\ sess'[s].status # "NONE"
          /\ sess'[s].repaired = sess[s].repaired /\ sess'[s].scrap = sess[s].scrap
          /\ sess'[s].rework = r.rework /\ sess'[s].defect = r.defect
      BY <3>1 DEF Written
    <3>3. sess[s].repaired + sess[s].scrap <= r.rework
      BY <3>1 DEF LedgerGuard, CreditInv, ReworkCreditedOnce
    <3> QED BY <1>0, <3>1, <3>2, <3>3, CreditKept
  <2>3. CASE (\E o \in Operation : Transfer(s, o)) \/ Exclude(s) \/ Restore(s)
    <3>1. PICK o, x : /\ Exists(s) /\ OnlySession(s) /\ UNCHANGED <<bucket, form>>
                      /\ Written(sess'[s], sess[s].emp, o, sess[s].status, sess[s],
                                 sess[s], x)
      BY <2>3, TransferEffect, ExcludeEffect, RestoreEffect
    <3>2. /\ sess'[s].status # "NONE"
          /\ sess'[s].repaired = sess[s].repaired /\ sess'[s].scrap = sess[s].scrap
          /\ sess'[s].rework = sess[s].rework /\ sess'[s].defect = sess[s].defect
      BY <3>1 DEF Written, Exists
    <3> QED BY <1>0, <3>1, <3>2, CreditKept DEF CreditInv, ReworkCreditedOnce
  <2>4. ASSUME NEW e \in Employee, NEW o \in Operation, NEW r \in Report,
               CreateManual(s, e, o, r)
        PROVE  CreditInv'
    <3>1. /\ ~Exists(s) /\ OnlySession(s) /\ UNCHANGED <<bucket, form>>
          /\ Written(sess'[s], e, o, "CLOSED", r, NoCredit, FALSE)
      BY <2>4, CreateManualEffect, Zenon
    <3>2. /\ sess'[s].status # "NONE"
          /\ sess'[s].rework = r.rework /\ sess'[s].defect = r.defect
          /\ sess'[s].repaired = 0 /\ sess'[s].scrap = 0
      BY <3>1 DEF Written, NoCredit
    <3> QED BY <1>0, <3>1, <3>2, ReportType, CreditKept DEF CreditInv
  <2> QED BY <1>2, <2>1, <2>2, <2>3, <2>4 DEF SupervisorStep
<1>3. CASE Quiet
  <2>1. UNCHANGED <<sess, bucket>>
    BY <1>3, QuietEffect
  <2> QED BY <2>1 DEF CreditInv, ReworkCreditedOnce, Exists
<1> QED BY <1>1, <1>2, <1>3 DEF Next, Quiet

\* Repaired and scrapped pieces of every session are what the repair ledger holds
\* for it and never exceed the repairable pieces it reports now, however many
\* resolutions and corrections alternate.
THEOREM CreditOnce == Spec => []ReworkCreditedOnce
<1>1. Init => ShapesOK /\ CreditInv
  BY TypeInit DEF Init, CreditInv, ReworkCreditedOnce, Exists, Blank
<1>2. ShapesOK /\ CreditInv /\ [Next]_vars => (ShapesOK /\ CreditInv)'
  BY TypeNext, CreditNext
<1>3. CreditInv => ReworkCreditedOnce
  BY DEF CreditInv
<1> QED BY <1>1, <1>2, <1>3, PTL DEF Spec

-----------------------------------------------------------------------------
(* Material rows *)

\* The two invariants about material rows, for one session.
Follows(s) ==
  hold[s] # NoHold =>
     /\ sess[s].status = "CLOSED"
     /\ hold[s].target = sess[s].op
     /\ hold[s].source = Source[sess[s].op]
     /\ hold[s].kind = SourceKind[sess[s].op]

Matches(s) ==
  /\ hold[s] # NoHold =>
       LET need == Need(sess[s].op, sess[s]) IN
       hold[s].qty <= need /\ need <= hold[s].qty + sess[s].repaired
  /\ (/\ sess[s].status = "CLOSED" /\ ~sess[s].excluded
      /\ ~IsSupport(sess[s].op) /\ Source[sess[s].op] # NoOp)
     => hold[s] # NoHold

HoldInv == \A s \in Session : Follows(s) /\ Matches(s)

LEMMA HoldInvIs == HoldInv <=> HoldFollowsSession /\ HoldMatchesReport
BY DEF HoldInv, Follows, Matches, HoldFollowsSession, HoldMatchesReport

\* A session untouched by a step keeps both.
LEMMA UntouchedHold ==
  ASSUME HoldInv, NEW t \in Session, sess'[t] = sess[t], hold'[t] = hold[t]
  PROVE  Follows(t)' /\ Matches(t)'
BY DEF HoldInv, Follows, Matches

\* Material asked for again: the row is what the report needs.
LEMMA HoldingHold ==
  ASSUME ShapesOK', NEW s \in Session, NEW o \in Operation, NEW e, NEW r, NEW c, NEW x,
         Written(sess'[s], e, o, "CLOSED", r, c, x),
         r.good \in Nat, r.defect \in Nat, Holding(s, o, r)
  PROVE  Follows(s)' /\ Matches(s)'
<1>1. /\ sess'[s].status = "CLOSED" /\ sess'[s].op = o
      /\ sess'[s].good = r.good /\ sess'[s].defect = r.defect
  BY DEF Written
<1>2. Need(o, sess'[s]) = Need(o, r) /\ Need(o, r) \in Nat
  BY <1>1, NeedType DEF Need
<1>3. sess'[s].repaired \in Nat
  BY DEF ShapesOK, SessionsOK, SessionRow
<1>4. CASE Source[o] = NoOp
  BY <1>1, <1>4 DEF Holding, Follows, Matches
<1>5. CASE Source[o] # NoOp
  <2>1. /\ hold'[s] # NoHold
        /\ hold'[s].source = Source[o] /\ hold'[s].target = o
        /\ hold'[s].qty = Need(o, r) /\ hold'[s].kind = SourceKind[o]
    BY <1>5 DEF Holding
  <2>2. Follows(s)'
    BY <1>1, <2>1 DEF Follows
  <2>3. hold'[s].qty <= Need(o, sess'[s])
        /\ Need(o, sess'[s]) <= hold'[s].qty + sess'[s].repaired
    BY <1>2, <1>3, <2>1
  <2>4. Matches(s)'
    BY <1>1, <2>1, <2>3 DEF Matches
  <2> QED BY <2>2, <2>4
<1> QED BY <1>4, <1>5

\* A session without a row that need not have one.
LEMMA NoRowHold ==
  ASSUME NEW s \in Session, hold'[s] = NoHold,
         \/ sess'[s].status # "CLOSED"
         \/ sess'[s].excluded
         \/ IsSupport(sess'[s].op)
  PROVE  Follows(s)' /\ Matches(s)'
BY DEF Follows, Matches, IsSupport

\* Only a CLOSED session has a row.
LEMMA OpenHoldsNothing ==
  ASSUME HoldInv, NEW s \in Session, sess[s].status # "CLOSED"
  PROVE  hold[s] = NoHold
BY DEF HoldInv, Follows

LEMMA HoldNext == ShapesOK /\ HoldInv /\ [Next]_vars => HoldInv'
<1> SUFFICES ASSUME ShapesOK, HoldInv, [Next]_vars PROVE HoldInv'
  OBVIOUS
<1>0. ShapesOK'
  BY TypeNext
<1>a. ASSUME NEW s \in Session, OnlySession(s), OnlyHold(s), Follows(s)', Matches(s)'
      PROVE  HoldInv'
  BY <1>a, UntouchedHold DEF OnlySession, OnlyHold, HoldInv
<1>1. ASSUME NEW s \in Session, SessionStep(s) PROVE HoldInv'
  <2>1. ASSUME NEW e \in Employee, NEW o \in Operation, Start(s, e, o) PROVE HoldInv'
    <3>1. /\ ~Exists(s) /\ OnlySession(s) /\ UNCHANGED hold
          /\ Written(sess'[s], e, o, "OPEN", Nothing, NoCredit, FALSE)
      BY <2>1, StartEffect, Zenon
    <3>2. hold'[s] = NoHold /\ sess'[s].status # "CLOSED" /\ OnlyHold(s)
      BY <3>1, OpenHoldsNothing DEF Exists, Written, OnlyHold
    <3> QED BY <1>a, <3>1, <3>2, NoRowHold
  <2>2. ASSUME NEW r \in Report, Finish(s, r) PROVE HoldInv'
    <3> DEFINE o     == sess[s].op
               typed == IF Kind[o] = "SETUP" THEN Nothing ELSE r
    <3>1. /\ OnlySession(s) /\ sess[s].status = "OPEN" /\ o \in Operation
          /\ Written(sess'[s], sess[s].emp, o, "CLOSED", typed, sess[s],
                     sess[s].excluded)
          /\ IF Kind[o] = "SETUP" THEN UNCHANGED hold ELSE Holding(s, o, r) /\ OnlyHold(s)
      BY <2>2, FinishEffect, Zenon
    <3>2. CASE Kind[o] = "SETUP"
      <4>1. hold'[s] = NoHold /\ IsSupport(sess'[s].op) /\ OnlyHold(s)
        BY <3>1, <3>2, OpenHoldsNothing DEF Written, IsSupport, OnlyHold
      <4> QED BY <1>a, <3>1, <4>1, NoRowHold
    <3>3. CASE Kind[o] # "SETUP"
      <4>1. /\ typed = r /\ Holding(s, o, r) /\ OnlyHold(s)
            /\ r.good \in Nat /\ r.defect \in Nat
        BY <3>1, <3>3, ReportType
      <4> QED BY <1>0, <1>a, <3>1, <4>1, HoldingHold
    <3> QED BY <3>2, <3>3
  <2>3. CASE AutoClose(s)
    <3>1. /\ OnlySession(s) /\ sess[s].op \in Operation /\ Exists(s)
          /\ Written(sess'[s], sess[s].emp, sess[s].op, "CLOSED", sess[s], sess[s],
                     sess[s].excluded)
          /\ Holding(s, sess[s].op, sess[s]) /\ OnlyHold(s)
      BY <2>3, AutoCloseEffect DEF Exists
    <3>2. sess[s].good \in Nat /\ sess[s].defect \in Nat
      BY <3>1, ExistingRow
    <3> QED BY <1>0, <1>a, <3>1, <3>2, HoldingHold
  <2>4. ASSUME NEW w \in Session \ {s}, NEW e \in Employee,
               NEW n \in 0..sess[s].rework, NEW m \in 0..sess[s].rework,
               Resolve(s, w, e, n, m)
        PROVE  HoldInv'
    <3> DEFINE o == sess[s].op
    <3>1. /\ n \in Nat /\ ~Exists(w) /\ sess[s].status = "CLOSED" /\ o \in Operation
          /\ Credited(sess'[s], sess[s], n, m) /\ UNCHANGED hold
          /\ Written(sess'[w], e, Bench[o], "CLOSED", Nothing, NoCredit, FALSE)
          /\ \A t \in Session \ {s, w} : sess'[t] = sess[t] /\ bucket'[t] = bucket[t]
      BY <2>4, ResolveEffect, Zenon
    <3>2. /\ sess[s].good \in Nat /\ sess[s].defect \in Nat /\ sess[s].repaired \in Nat
      BY <3>1, ExistingRow DEF Exists
    <3>3. Follows(s)' /\ Matches(s)'
      <4>1. /\ sess'[s].op = o /\ sess'[s].status = "CLOSED" /\ hold'[s] = hold[s]
            /\ sess'[s].good = sess[s].good + n /\ sess'[s].defect = sess[s].defect
            /\ sess'[s].repaired = sess[s].repaired + n
            /\ sess'[s].excluded = sess[s].excluded
        BY <3>1 DEF Credited
      <4>2. Need(o, sess'[s]) = Need(o, sess[s]) + n /\ Need(o, sess[s]) \in Nat
        BY <3>1, <3>2, <4>1, NeedType DEF Need
      <4>3. Follows(s) /\ Matches(s)
        BY DEF HoldInv
      <4>4. Follows(s)'
        BY <4>1, <4>3 DEF Follows
      <4>5. ASSUME hold[s] # NoHold
            PROVE  /\ hold'[s].qty <= Need(o, sess'[s])
                   /\ Need(o, sess'[s]) <= hold'[s].qty + sess'[s].repaired
        <5>1. hold[s].qty \in Nat
          BY <4>5 DEF ShapesOK, Hold
        <5>2. /\ hold[s].qty <= Need(o, sess[s])
              /\ Need(o, sess[s]) <= hold[s].qty + sess[s].repaired
          BY <4>3, <4>5 DEF Matches
        <5> QED BY <3>1, <3>2, <4>1, <4>2, <5>1, <5>2
      <4>6. Matches(s)'
        BY <3>1, <4>1, <4>3, <4>5 DEF Matches, IsSupport
      <4> QED BY <4>4, <4>6
    <3>4. Follows(w)' /\ Matches(w)'
      <4>1. hold'[w] = NoHold
        BY <3>1, OpenHoldsNothing DEF Exists
      <4>2. IsSupport(sess'[w].op)
        BY <3>1, ConfigAssumption DEF Written, IsSupport
      <4> QED BY <4>1, <4>2, NoRowHold
    <3>5. ASSUME NEW t \in Session \ {s, w} PROVE Follows(t)' /\ Matches(t)'
      BY <3>1, UntouchedHold
    <3> QED BY <3>3, <3>4, <3>5 DEF HoldInv
  <2> QED BY <1>1, <2>1, <2>2, <2>3, <2>4 DEF SessionStep
<1>2. ASSUME NEW s \in Session, SupervisorStep(s) PROVE HoldInv'
  <2>a. ASSUME NEW o \in Operation, NEW r, NEW e, NEW x,
               r.good \in Nat, r.defect \in Nat, OnlySession(s),
               Written(sess'[s], e, o, sess[s].status, r, sess[s], x),
               IF sess[s].status = "CLOSED" THEN Holding(s, o, r) /\ OnlyHold(s)
                                            ELSE UNCHANGED hold
        PROVE  HoldInv'
    <3>1. CASE sess[s].status = "CLOSED"
      BY <1>0, <1>a, <2>a, <3>1, HoldingHold
    <3>2. CASE sess[s].status # "CLOSED"
      <4>1. hold'[s] = NoHold /\ sess'[s].status # "CLOSED" /\ OnlyHold(s)
        BY <2>a, <3>2, OpenHoldsNothing DEF Written, OnlyHold
      <4> QED BY <1>a, <2>a, <4>1, NoRowHold
    <3> QED BY <3>1, <3>2
  <2>1. ASSUME NEW r \in Report, Adjust(s, r) PROVE HoldInv'
    <3>1. /\ OnlySession(s) /\ sess[s].op \in Operation
          /\ Written(sess'[s], sess[s].emp, sess[s].op, sess[s].status, r, sess[s],
                     sess[s].excluded)
          /\ IF sess[s].status = "CLOSED" THEN Holding(s, sess[s].op, r) /\ OnlyHold(s)
                                          ELSE UNCHANGED hold
      BY <2>1, AdjustEffect, Zenon
    <3> QED BY <2>a, <3>1, ReportType
  <2>2. ASSUME NEW e \in Employee, NEW o \in Operation, NEW st \in {"OPEN", "CLOSED"},
               NEW r \in Form(s), Edit(s, e, o, st, r)
        PROVE  HoldInv'
    <3>1. /\ r.good \in Nat /\ r.defect \in Nat /\ r.rework \in Nat
          /\ r.rework <= r.defect
          /\ OnlySession(s) /\ OnlyHold(s)
          /\ Written(sess'[s], e, o, st, r, sess[s], sess[s].excluded)
          /\ IF st = "CLOSED" THEN Holding(s, o, r) ELSE hold'[s] = NoHold
      BY <2>2, EditEffect, Zenon
    <3>2. CASE st = "CLOSED"
      <4>1. Written(sess'[s], e, o, "CLOSED", r, sess[s], sess[s].excluded)
            /\ Holding(s, o, r)
        BY <3>1, <3>2
      <4> QED BY <1>0, <1>a, <3>1, <4>1, HoldingHold
    <3>3. CASE st # "CLOSED"
      <4>1. sess'[s].status # "CLOSED"
        BY <3>1, <3>3 DEF Written
      <4> QED BY <1>a, <3>1, <3>3, <4>1, NoRowHold
    <3> QED BY <3>2, <3>3
  <2>3. ASSUME NEW o \in Operation, Transfer(s, o) PROVE HoldInv'
    <3>1. /\ Exists(s) /\ OnlySession(s)
          /\ Written(sess'[s], sess[s].emp, o, sess[s].status, sess[s], sess[s],
                     sess[s].excluded)
          /\ IF sess[s].status = "CLOSED" THEN Holding(s, o, sess[s]) /\ OnlyHold(s)
                                          ELSE UNCHANGED hold
      BY <2>3, TransferEffect, Zenon
    <3> QED BY <2>a, <3>1, ExistingRow
  <2>4. CASE Exclude(s)
    <3>1. OnlySession(s) /\ OnlyHold(s) /\ hold'[s] = NoHold /\ sess'[s].excluded = TRUE
      BY <2>4, ExcludeEffect DEF Written
    <3> QED BY <1>a, <3>1, NoRowHold
  <2>5. CASE Restore(s)
    <3>1. /\ Exists(s) /\ OnlySession(s) /\ sess[s].op \in Operation
          /\ Written(sess'[s], sess[s].emp, sess[s].op, sess[s].status, sess[s],
                     sess[s], FALSE)
          /\ IF sess[s].status = "CLOSED"
             THEN Holding(s, sess[s].op, sess[s]) /\ OnlyHold(s) ELSE UNCHANGED hold
      BY <2>5, RestoreEffect, Zenon
    <3> QED BY <2>a, <3>1, ExistingRow
  <2>6. ASSUME NEW e \in Employee, NEW o \in Operation, NEW r \in Report,
               CreateManual(s, e, o, r)
        PROVE  HoldInv'
    <3>1. /\ OnlySession(s) /\ OnlyHold(s) /\ Holding(s, o, r)
          /\ Written(sess'[s], e, o, "CLOSED", r, NoCredit, FALSE)
      BY <2>6, CreateManualEffect, Zenon
    <3> QED BY <1>0, <1>a, <3>1, ReportType, HoldingHold
  <2> QED BY <1>2, <2>1, <2>2, <2>3, <2>4, <2>5, <2>6 DEF SupervisorStep
<1>3. CASE Quiet
  <2>1. UNCHANGED <<sess, hold>>
    BY <1>3, QuietEffect
  <2> QED BY <2>1, UntouchedHold DEF HoldInv
<1> QED BY <1>1, <1>2, <1>3 DEF Next, Quiet

LEMMA HoldAlways == Spec => []HoldInv
<1>1. Init => ShapesOK /\ HoldInv
  BY TypeInit DEF Init, HoldInv, Follows, Matches, Blank
<1>2. ShapesOK /\ HoldInv /\ [Next]_vars => (ShapesOK /\ HoldInv)'
  BY TypeNext, HoldNext
<1> QED BY <1>1, <1>2, PTL DEF Spec

\* A material row is always on the operation its session is on now, drawn from
\* the source configured for that operation, and only for a CLOSED session.
THEOREM HoldFollows == Spec => []HoldFollowsSession
BY HoldAlways, HoldInvIs, PTL

\* What a session holds accounts for its report, up to the pieces repaired since,
\* and no counted session of a fed production operation is without a row.
THEOREM HoldMatches == Spec => []HoldMatchesReport
BY HoldAlways, HoldInvIs, PTL
-----------------------------------------------------------------------------
(* Sums over finite sets                                                   *)
(*                                                                         *)
(* The folds of the community modules choose the elements of a set one     *)
(* after the other.  Induction over finite sets is stated with a set G in  *)
(* place of a predicate, and a fold with a function in place of an         *)
(* operator, so that both can be cited for any operator.                   *)

\* Induction over the naturals.
LEMMA NatInduct ==
  ASSUME NEW G \in SUBSET Nat, 0 \in G, \A n \in G : n + 1 \in G
  PROVE  G = Nat
<1> DEFINE R == OpToRel(<, Nat)
           T == Nat \ G
<1>1. R = {p \in Nat \X Nat : p[1] < p[2]}
  BY DEF OpToRel
<1>2. IsWellFoundedOn(R, Nat)
  BY NatLessThanWellFounded
<1> HIDE DEF R
<1>3. SUFFICES ASSUME T # {} PROVE FALSE
  OBVIOUS
<1>4. PICK n \in T : \A m \in T : ~(<<m, n>> \in R)
  BY <1>2, <1>3, WFMin
<1>5. n \in Nat /\ n # 0 /\ n - 1 \in Nat /\ n - 1 < n
  BY <1>4
<1>6. n - 1 \in G
  BY <1>1, <1>4, <1>5
<1> QED BY <1>4, <1>5, <1>6

\* Induction over the subsets of a finite set.
LEMMA SubsetInduct ==
  ASSUME NEW S, IsFiniteSet(S), NEW G,
         \A T \in SUBSET S : (\A x \in T : T \ {x} \in G) => T \in G
  PROVE  S \in G
<1> DEFINE N == {n \in Nat : \A T \in SUBSET S : Cardinality(T) = n => T \in G}
<1>1. \A T \in SUBSET S : IsFiniteSet(T) /\ Cardinality(T) \in Nat
  BY FS_Subset, FS_CardinalityType
<1>2. 0 \in N
  <2>1. \A T \in SUBSET S : Cardinality(T) = 0 => T = {}
    BY <1>1, FS_EmptySet
  <2> QED BY <2>1
<1>3. ASSUME NEW n \in N PROVE n + 1 \in N
  <2>1. ASSUME NEW T \in SUBSET S, Cardinality(T) = n + 1 PROVE T \in G
    <3>1. ASSUME NEW x \in T PROVE T \ {x} \in G
      <4>1. T \ {x} \in SUBSET S /\ Cardinality(T \ {x}) = n
        BY <1>1, <2>1, FS_RemoveElement
      <4> QED BY <4>1
    <3> QED BY <3>1
  <2> QED BY <2>1
<1>4. N = Nat
  <2> HIDE DEF N
  <2>1. N \in SUBSET Nat
    BY DEF N
  <2> QED BY <1>2, <1>3, <2>1, NatInduct
<1>5. Cardinality(S) \in N
  BY <1>1, <1>4
<1> QED BY <1>5

\* An operation whose arguments may be taken in any order.
Commutes(V, plus, zero) ==
  /\ zero \in V
  /\ plus \in [V \X V -> V]
  /\ \A a, b, c \in V :
        plus[<<a, plus[<<b, c>>]>>] = plus[<<b, plus[<<a, c>>]>>]

\* The element MapThenFoldSet takes first.
Pick(T) == CHOOSE x \in T : TRUE

\* g[T] combines the values of f at the elements of T, for every T within S.
Folding(g, V, plus, zero, f, S) ==
  /\ g \in [SUBSET S -> V]
  /\ g[{}] = zero
  /\ \A T \in SUBSET S : T # {} => g[T] = plus[<<f[Pick(T)], g[T \ {Pick(T)}]>>]

LEMMA PickIn ==
  ASSUME NEW T, T # {}
  PROVE  Pick(T) \in T
BY DEF Pick

\* Such a function exists: it is extended to larger and larger subsets.
LEMMA FoldExists ==
  ASSUME NEW V, NEW plus, NEW zero, Commutes(V, plus, zero),
         NEW f, NEW S, IsFiniteSet(S), \A x \in S : f[x] \in V
  PROVE  \E g : Folding(g, V, plus, zero, f, S)
<1> DEFINE Upto(g, n) == \A T \in SUBSET S : T # {} /\ Cardinality(T) <= n =>
                            g[T] = plus[<<f[Pick(T)], g[T \ {Pick(T)}]>>]
           Based(g) == g \in [SUBSET S -> V] /\ g[{}] = zero
           N == {n \in Nat : \E g : Based(g) /\ Upto(g, n)}
<1>1. \A T \in SUBSET S : IsFiniteSet(T) /\ Cardinality(T) \in Nat
                          /\ Cardinality(T) <= Cardinality(S)
  BY FS_Subset, FS_CardinalityType
<1>2. \A T \in SUBSET S : T # {} =>
         /\ Pick(T) \in S /\ T \ {Pick(T)} \in SUBSET S
         /\ Cardinality(T) # 0 /\ Cardinality(T \ {Pick(T)}) = Cardinality(T) - 1
  BY <1>1, PickIn, FS_RemoveElement, FS_EmptySet
<1>3. 0 \in N
  <2> DEFINE g == [T \in SUBSET S |-> zero]
  <2>1. Based(g)
    BY DEF Commutes
  <2>2. \A T \in SUBSET S : T # {} => ~(Cardinality(T) <= 0)
    BY <1>1, FS_EmptySet
  <2>3. Upto(g, 0)
    BY <2>2
  <2> HIDE DEF Based, Upto, g
  <2> QED BY <2>1, <2>3
<1>4. ASSUME NEW n \in N PROVE n + 1 \in N
  <2>1. PICK g : Based(g) /\ Upto(g, n)
    OBVIOUS
  <2> DEFINE over(T) == plus[<<f[Pick(T)], g[T \ {Pick(T)}]>>]
             h == [T \in SUBSET S |->
                     IF T # {} /\ Cardinality(T) = n + 1 THEN over(T) ELSE g[T]]
  <2>2. \A T \in SUBSET S : T # {} => over(T) \in V
    BY <1>2, <2>1 DEF Commutes
  <2>3. Based(h)
    BY <2>1, <2>2
  <2>4. ASSUME NEW T \in SUBSET S, T # {}, Cardinality(T) <= n + 1
        PROVE  h[T] = plus[<<f[Pick(T)], h[T \ {Pick(T)}]>>]
    <3>1. /\ T \ {Pick(T)} \in SUBSET S
          /\ Cardinality(T \ {Pick(T)}) \in Nat /\ Cardinality(T \ {Pick(T)}) <= n
          /\ Cardinality(T) \in Nat /\ n \in Nat
      BY <1>1, <1>2, <2>4
    <3>2. h[T \ {Pick(T)}] = g[T \ {Pick(T)}]
      BY <3>1
    <3>3. h[T] = over(T)
      BY <2>1, <2>4, <3>1
    <3> QED BY <3>2, <3>3
  <2> HIDE DEF h
  <2>5. Upto(h, n + 1)
    BY <2>4
  <2> HIDE DEF Based, Upto
  <2> QED BY <2>3, <2>5
<1>5. Cardinality(S) \in N
  <2> HIDE DEF N
  <2>1. N \in SUBSET Nat
    BY DEF N
  <2> QED BY <1>1, <1>3, <1>4, <2>1, NatInduct
<1>6. PICK g : Based(g) /\ Upto(g, Cardinality(S))
  BY <1>5
<1> QED BY <1>1, <1>6 DEF Folding

\* Any element may be taken out first, not only the one that is chosen.
LEMMA FoldTakesOut ==
  ASSUME NEW V, NEW plus, NEW zero, Commutes(V, plus, zero),
         NEW f, NEW S, IsFiniteSet(S), \A x \in S : f[x] \in V,
         NEW g, Folding(g, V, plus, zero, f, S), NEW U \in SUBSET S, NEW y \in U
  PROVE  g[U] = plus[<<f[y], g[U \ {y}]>>]
<1> DEFINE G == {T \in SUBSET S : \A x \in T : g[T] = plus[<<f[x], g[T \ {x}]>>]}
<1>1. ASSUME NEW T \in SUBSET S, \A x \in T : T \ {x} \in G
      PROVE  T \in G
  <2> DEFINE p == Pick(T)
  <2>1. T # {} => p \in T /\ g[T] = plus[<<f[p], g[T \ {p}]>>]
    BY PickIn DEF Folding
  <2> HIDE DEF p
  <2>2. ASSUME NEW z \in T PROVE g[T] = plus[<<f[z], g[T \ {z}]>>]
    <3>1. CASE z = p
      BY <2>1, <3>1
    <3>2. CASE z # p
      <4> DEFINE rest == g[(T \ {z}) \ {p}]
      <4>1. p \in T /\ g[T] = plus[<<f[p], g[T \ {p}]>>]
        BY <2>1
      <4>2. /\ g[T \ {p}] = plus[<<f[z], g[(T \ {p}) \ {z}]>>]
            /\ g[T \ {z}] = plus[<<f[p], g[(T \ {z}) \ {p}]>>]
        BY <1>1, <3>2, <4>1
      <4>3. (T \ {p}) \ {z} = (T \ {z}) \ {p} /\ (T \ {z}) \ {p} \in SUBSET S
        OBVIOUS
      <4>4. f[p] \in V /\ f[z] \in V /\ rest \in V
        BY <4>1, <4>3 DEF Folding
      <4>5. plus[<<f[p], plus[<<f[z], rest>>]>>] = plus[<<f[z], plus[<<f[p], rest>>]>>]
        BY <4>4 DEF Commutes
      <4> QED BY <4>1, <4>2, <4>3, <4>5
    <3> QED BY <3>1, <3>2
  <2> QED BY <2>2
<1>2. U \in G
  <2>1. IsFiniteSet(U)
    BY FS_Subset
  <2> HIDE DEF G
  <2>2. \A T \in SUBSET U : (\A x \in T : T \ {x} \in G) => T \in G
    BY <1>1
  <2> QED BY <2>1, <2>2, SubsetInduct
<1> QED BY <1>2

\* The result depends on nothing but the values at the elements.
LEMMA FoldAgrees ==
  ASSUME NEW V, NEW plus, NEW zero,
         NEW f, NEW S, NEW g, Folding(g, V, plus, zero, f, S),
         NEW e, NEW R, NEW h, Folding(h, V, plus, zero, e, R),
         NEW U \in SUBSET (R \cap S), IsFiniteSet(U), \A x \in U : f[x] = e[x]
  PROVE  g[U] = h[U]
<1> DEFINE G == {T \in SUBSET U : g[T] = h[T]}
<1>1. ASSUME NEW T \in SUBSET U, \A x \in T : T \ {x} \in G
      PROVE  T \in G
  <2>1. CASE T = {}
    BY <2>1 DEF Folding
  <2>2. CASE T # {}
    <3> DEFINE p == Pick(T)
    <3>1. p \in T
      BY <2>2, PickIn
    <3>2. g[T] = plus[<<f[p], g[T \ {p}]>>] /\ h[T] = plus[<<e[p], h[T \ {p}]>>]
      BY <2>2 DEF Folding
    <3> HIDE DEF p
    <3> QED BY <1>1, <3>1, <3>2
  <2> QED BY <2>1, <2>2
<1> HIDE DEF G
<1>2. U \in G
  BY <1>1, SubsetInduct
<1> QED BY <1>2 DEF G

\* Addition of integers, as a function.
Plus == [p \in Int \X Int |-> p[1] + p[2]]

LEMMA PlusCommutes == Commutes(Int, Plus, 0)
<1>1. \A a, b \in Int : <<a, b>> \in Int \X Int /\ Plus[<<a, b>>] = a + b
  BY DEF Plus
<1>2. Plus \in [Int \X Int -> Int]
  BY DEF Plus
<1>3. ASSUME NEW a \in Int, NEW b \in Int, NEW c \in Int
      PROVE  Plus[<<a, Plus[<<b, c>>]>>] = Plus[<<b, Plus[<<a, c>>]>>]
  <2>1. Plus[<<a, Plus[<<b, c>>]>>] = a + (b + c)
    BY <1>1
  <2>2. Plus[<<b, Plus[<<a, c>>]>>] = b + (a + c)
    BY <1>1
  <2> QED BY <2>1, <2>2
<1> QED BY <1>2, <1>3 DEF Commutes

\* SumFunctionOnSet of the community modules is such a fold.
LEMMA SumFolds ==
  ASSUME NEW f, NEW S, IsFiniteSet(S), \A x \in S : f[x] \in Int
  PROVE  \E g : Folding(g, Int, Plus, 0, f, S) /\ SumFunctionOnSet(f, S) = g[S]
<1> DEFINE Summed(g) ==
             g = [T \in SUBSET S |-> IF T = {} THEN 0
                    ELSE f[CHOOSE x \in T : TRUE] + g[T \ {CHOOSE x \in T : TRUE}]]
           sum == CHOOSE g : Summed(g)
<1>1. SumFunctionOnSet(f, S) = sum[S]
  BY DEF SumFunctionOnSet, FoldFunctionOnSet, MapThenFoldSet
<1>2. PICK g : Folding(g, Int, Plus, 0, f, S)
  BY FoldExists, PlusCommutes
<1>3. \A T \in SUBSET S : T # {} => g[T] = f[Pick(T)] + g[T \ {Pick(T)}]
  <2> SUFFICES ASSUME NEW T \in SUBSET S, T # {}
               PROVE  g[T] = f[Pick(T)] + g[T \ {Pick(T)}]
    OBVIOUS
  <2>1. Pick(T) \in T
    BY PickIn
  <2>2. f[Pick(T)] \in Int /\ g[T \ {Pick(T)}] \in Int
    BY <1>2, <2>1 DEF Folding
  <2>3. g[T] = Plus[<<f[Pick(T)], g[T \ {Pick(T)}]>>]
    BY <1>2 DEF Folding
  <2> QED BY <2>2, <2>3 DEF Plus
<1>4. Summed(g)
  <2>1. /\ g = [T \in SUBSET S |-> g[T]] /\ g[{}] = 0
    BY <1>2 DEF Folding
  <2> QED BY <1>3, <2>1 DEF Pick
<1>5. Summed(sum)
  <2> HIDE DEF Summed
  <2> QED BY <1>4
<1> HIDE DEF sum
<1>6. /\ sum[{}] = 0
      /\ \A T \in SUBSET S : T # {} => sum[T] = f[Pick(T)] + sum[T \ {Pick(T)}]
  BY <1>5 DEF Pick
<1> DEFINE G == {T \in SUBSET S : sum[T] = g[T]}
<1>7. ASSUME NEW T \in SUBSET S, \A x \in T : T \ {x} \in G
      PROVE  T \in G
  BY <1>2, <1>3, <1>6, <1>7, PickIn DEF Folding
<1> HIDE DEF G
<1>8. S \in G
  BY <1>7, SubsetInduct
<1>9. sum[S] = g[S]
  BY <1>8 DEF G
<1> QED BY <1>1, <1>2, <1>9

\* A sum of numbers is a number.
LEMMA SumType ==
  ASSUME NEW D, IsFiniteSet(D), NEW f \in [D -> Nat]
  PROVE  SumFunction(f) \in Nat
<1>1. PICK g : Folding(g, Int, Plus, 0, f, D) /\ SumFunction(f) = g[D]
  BY SumFolds DEF SumFunction
<1> DEFINE G == {T \in SUBSET D : g[T] \in Nat}
<1>2. ASSUME NEW T \in SUBSET D, \A x \in T : T \ {x} \in G
      PROVE  T \in G
  <2>1. CASE T = {}
    BY <1>1, <2>1 DEF Folding
  <2>2. CASE T # {}
    <3>1. Pick(T) \in T
      BY <2>2, PickIn
    <3>2. f[Pick(T)] \in Nat /\ g[T \ {Pick(T)}] \in Nat
      BY <1>2, <3>1
    <3>3. g[T] = Plus[<<f[Pick(T)], g[T \ {Pick(T)}]>>]
      BY <1>1, <2>2 DEF Folding
    <3>4. g[T] = f[Pick(T)] + g[T \ {Pick(T)}]
      BY <3>2, <3>3 DEF Plus
    <3>5. g[T] \in Nat
      <4> HIDE DEF G
      <4> QED BY <3>2, <3>4
    <3> QED BY <3>5
  <2> QED BY <2>1, <2>2
<1> HIDE DEF G
<1>3. D \in G
  BY <1>2, SubsetInduct
<1> QED BY <1>1, <1>3 DEF G

\* A sum is the value at any one element and the sum of the others.
LEMMA SumWithout ==
  ASSUME NEW D, IsFiniteSet(D), NEW f \in [D -> Nat], NEW x \in D
  PROVE  SumFunction(f) = f[x] + SumFunction([y \in D \ {x} |-> f[y]])
<1> DEFINE R == D \ {x}
           e == [y \in R |-> f[y]]
<1>1. IsFiniteSet(R)
  BY FS_Subset
<1>2. PICK g : Folding(g, Int, Plus, 0, f, D) /\ SumFunction(f) = g[D]
  BY SumFolds DEF SumFunction
<1>3. PICK h : Folding(h, Int, Plus, 0, e, R) /\ SumFunction(e) = h[R]
  <2>1. DOMAIN e = R /\ \A y \in R : e[y] \in Int
    OBVIOUS
  <2> HIDE DEF e, R
  <2> QED BY <1>1, <2>1, SumFolds DEF SumFunction
<1>4. g[D] = Plus[<<f[x], g[R]>>]
  BY <1>2, FoldTakesOut, PlusCommutes
<1>5. g[R] = h[R]
  <2>1. \A y \in R : f[y] = e[y]
    OBVIOUS
  <2>2. R \in SUBSET (R \cap D)
    OBVIOUS
  <2> HIDE DEF e, R
  <2> QED BY <1>1, <1>2, <1>3, <2>1, <2>2, FoldAgrees
<1>6. f[x] \in Int /\ g[R] \in Int
  BY <1>2 DEF Folding
<1>7. g[D] = f[x] + g[R]
  BY <1>4, <1>6 DEF Plus
<1> QED BY <1>2, <1>3, <1>5, <1>7

-----------------------------------------------------------------------------
(* What the rollups add up to *)


\* PlusSums as a function.
PlusOfSums == [p \in Sums \X Sums |-> PlusSums(p[1], p[2])]

LEMMA PlusSumsType ==
  ASSUME NEW a \in Sums, NEW b \in Sums
  PROVE  /\ PlusSums(a, b) \in Sums
         /\ PlusOfSums[<<a, b>>] = PlusSums(a, b)
         /\ PlusSums(a, b) = PlusSums(b, a)
         /\ PlusSums(a, NoSums) = a
BY DEF Sums, PlusSums, PlusOfSums, NoSums

LEMMA PlusSumsCommutes == Commutes(Sums, PlusOfSums, NoSums)
<1>1. NoSums \in Sums
  BY DEF NoSums, Sums
<1>2. PlusOfSums \in [Sums \X Sums -> Sums]
  BY PlusSumsType DEF PlusOfSums
<1>3. ASSUME NEW a \in Sums, NEW b \in Sums, NEW c \in Sums
      PROVE  PlusOfSums[<<a, PlusOfSums[<<b, c>>]>>]
               = PlusOfSums[<<b, PlusOfSums[<<a, c>>]>>]
  <2>1. PlusSums(a, PlusSums(b, c)) = PlusSums(b, PlusSums(a, c))
    BY DEF PlusSums, Sums
  <2>2. /\ PlusOfSums[<<b, c>>] = PlusSums(b, c) /\ PlusSums(b, c) \in Sums
        /\ PlusOfSums[<<a, c>>] = PlusSums(a, c) /\ PlusSums(a, c) \in Sums
    BY PlusSumsType
  <2>3. /\ PlusOfSums[<<a, PlusSums(b, c)>>] = PlusSums(a, PlusSums(b, c))
        /\ PlusOfSums[<<b, PlusSums(a, c)>>] = PlusSums(b, PlusSums(a, c))
    BY <2>2, PlusSumsType
  <2> QED BY <2>1, <2>2, <2>3
<1> QED BY <1>1, <1>2, <1>3 DEF Commutes

\* Total is a fold too.
LEMMA TotalFolds ==
  ASSUME NEW S, IsFiniteSet(S), NEW f \in [S -> Sums]
  PROVE  \E g : Folding(g, Sums, PlusOfSums, NoSums, f, S) /\ Total(f) = g[S]
<1> DEFINE Summed(g) ==
             g = [T \in SUBSET S |-> IF T = {} THEN NoSums
                    ELSE PlusSums(f[CHOOSE x \in T : TRUE],
                                  g[T \ {CHOOSE x \in T : TRUE}])]
           sum == CHOOSE g : Summed(g)
<1>1. Total(f) = sum[S]
  BY DEF Total, FoldFunction, FoldFunctionOnSet, MapThenFoldSet
<1>2. PICK g : Folding(g, Sums, PlusOfSums, NoSums, f, S)
  BY FoldExists, PlusSumsCommutes
<1>3. \A T \in SUBSET S : T # {} => g[T] = PlusSums(f[Pick(T)], g[T \ {Pick(T)}])
  <2> SUFFICES ASSUME NEW T \in SUBSET S, T # {}
               PROVE  g[T] = PlusSums(f[Pick(T)], g[T \ {Pick(T)}])
    OBVIOUS
  <2>1. Pick(T) \in T
    BY PickIn
  <2>2. f[Pick(T)] \in Sums /\ g[T \ {Pick(T)}] \in Sums
    BY <1>2, <2>1 DEF Folding
  <2>3. g[T] = PlusOfSums[<<f[Pick(T)], g[T \ {Pick(T)}]>>]
    BY <1>2 DEF Folding
  <2> QED BY <2>2, <2>3, PlusSumsType
<1>4. Summed(g)
  <2>1. /\ g = [T \in SUBSET S |-> g[T]] /\ g[{}] = NoSums
    BY <1>2 DEF Folding
  <2> QED BY <1>3, <2>1 DEF Pick
<1>5. Summed(sum)
  <2> HIDE DEF Summed
  <2> QED BY <1>4
<1> HIDE DEF sum
<1>6. /\ sum[{}] = NoSums
      /\ \A T \in SUBSET S : T # {} =>
            sum[T] = PlusSums(f[Pick(T)], sum[T \ {Pick(T)}])
  BY <1>5 DEF Pick
<1> DEFINE G == {T \in SUBSET S : sum[T] = g[T]}
<1>7. ASSUME NEW T \in SUBSET S, \A x \in T : T \ {x} \in G
      PROVE  T \in G
  BY <1>2, <1>3, <1>6, <1>7, PickIn DEF Folding
<1> HIDE DEF G
<1>8. S \in G
  BY <1>7, SubsetInduct
<1>9. sum[S] = g[S]
  BY <1>8 DEF G
<1> QED BY <1>1, <1>2, <1>9

LEMMA TotalType ==
  ASSUME NEW D, IsFiniteSet(D), NEW f \in [D -> Sums]
  PROVE  Total(f) \in Sums
<1>1. PICK g : Folding(g, Sums, PlusOfSums, NoSums, f, D) /\ Total(f) = g[D]
  BY TotalFolds
<1> QED BY <1>1 DEF Folding

\* Of no session at all, both come to nothing.
LEMMA NothingAddsUp ==
  \A f : f = [x \in {} |-> f[x]] => Total(f) = NoSums /\ SumFunction(f) = 0
<1> SUFFICES ASSUME NEW f, f = [x \in {} |-> f[x]]
             PROVE  Total(f) = NoSums /\ SumFunction(f) = 0
  OBVIOUS
<1>1. f \in [{} -> Sums] /\ DOMAIN f = {} /\ IsFiniteSet({})
  BY FS_EmptySet
<1>2. \A x \in {} : f[x] \in Int
  OBVIOUS
<1>3. \E g : Folding(g, Sums, PlusOfSums, NoSums, f, {}) /\ Total(f) = g[{}]
  BY <1>1, TotalFolds
<1>4. \E g : Folding(g, Int, Plus, 0, f, {}) /\ SumFunctionOnSet(f, {}) = g[{}]
  BY <1>1, <1>2, SumFolds
<1>5. SumFunction(f) = SumFunctionOnSet(f, {})
  BY <1>1 DEF SumFunction
<1> QED BY <1>3, <1>4, <1>5 DEF Folding

\* A total is what any one session adds and the total of the others.
LEMMA TotalWithout ==
  ASSUME NEW D, IsFiniteSet(D), NEW f \in [D -> Sums], NEW x \in D
  PROVE  Total(f) = PlusSums(f[x], Total([y \in D \ {x} |-> f[y]]))
<1> DEFINE R == D \ {x}
           e == [y \in R |-> f[y]]
<1>1. IsFiniteSet(R)
  BY FS_Subset
<1>2. PICK g : Folding(g, Sums, PlusOfSums, NoSums, f, D) /\ Total(f) = g[D]
  BY TotalFolds
<1>3. PICK h : Folding(h, Sums, PlusOfSums, NoSums, e, R) /\ Total(e) = h[R]
  <2>1. e \in [R -> Sums]
    OBVIOUS
  <2> HIDE DEF e, R
  <2> QED BY <1>1, <2>1, TotalFolds
<1>4. g[D] = PlusOfSums[<<f[x], g[R]>>]
  <2>1. \A y \in D : f[y] \in Sums
    OBVIOUS
  <2> QED BY <1>2, <2>1, FoldTakesOut, PlusSumsCommutes
<1>5. g[R] = h[R]
  <2>1. \A y \in R : f[y] = e[y]
    OBVIOUS
  <2>2. R \in SUBSET (R \cap D)
    OBVIOUS
  <2> HIDE DEF e, R
  <2> QED BY <1>1, <1>2, <1>3, <2>1, <2>2, FoldAgrees
<1>6. f[x] \in Sums /\ g[R] \in Sums
  BY <1>2 DEF Folding
<1>7. g[D] = PlusSums(f[x], g[R])
  BY <1>4, <1>6, PlusSumsType
<1> QED BY <1>2, <1>3, <1>5, <1>7

\* The sums of an operation without what session s adds to them.
RollupBut(ss, s, o) ==
  Total([t \in {u \in Session \ {s} : Contribution(ss, u, o) # NoSums}
           |-> Contribution(ss, t, o)])

LEMMA ContributionType ==
  ASSUME NEW ss \in [Session -> SessionRow], NEW s \in Session, NEW o
  PROVE  Contribution(ss, s, o) \in Sums
BY DEF Contribution, SessionRow, Sums, NoSums

\* The sums of an operation, seen from any one session: what that session adds,
\* and the rest.
LEMMA RollupSplit ==
  ASSUME NEW ss \in [Session -> SessionRow], NEW o,
         IsFiniteSet({t \in Session : ss[t].status # "NONE"}), NEW s \in Session
  PROVE  /\ Rollup(ss, o) \in Sums /\ RollupBut(ss, s, o) \in Sums
         /\ Rollup(ss, o) = PlusSums(Contribution(ss, s, o), RollupBut(ss, s, o))
<1> DEFINE D == {t \in Session : Contribution(ss, t, o) # NoSums}
           E == {u \in Session \ {s} : Contribution(ss, u, o) # NoSums}
           f == [t \in D |-> Contribution(ss, t, o)]
           e == [t \in E |-> Contribution(ss, t, o)]
<1>1. IsFiniteSet(D) /\ IsFiniteSet(E) /\ E = D \ {s}
  <2>1. D \subseteq {t \in Session : ss[t].status # "NONE"}
    BY DEF Contribution, Reportable
  <2>2. E = D \ {s}
    OBVIOUS
  <2> QED BY <2>1, <2>2, FS_Subset
<1>2. f \in [D -> Sums] /\ e \in [E -> Sums] /\ \A x \in E : f[x] = e[x]
  BY ContributionType
<1>3. Rollup(ss, o) = Total(f) /\ RollupBut(ss, s, o) = Total(e)
  BY DEF Rollup, RollupBut
<1>4. Total(f) \in Sums /\ Total(e) \in Sums
  <2> HIDE DEF f, e, D, E
  <2> QED BY <1>1, <1>2, TotalType
<1>5. CASE s \in D
  <2>1. f[s] = Contribution(ss, s, o)
    BY <1>5
  <2>2. e = [t \in D \ {s} |-> f[t]]
    BY <1>1
  <2> HIDE DEF f, e, D, E
  <2>3. Total(f) = PlusSums(f[s], Total(e))
    BY <1>1, <1>2, <1>5, <2>2, TotalWithout
  <2> QED BY <1>3, <1>4, <2>1, <2>3
<1>6. CASE s \notin D
  <2>1. D = E /\ Contribution(ss, s, o) = NoSums /\ NoSums \in Sums
    BY <1>6, ContributionType
  <2>2. f = e
    BY <2>1
  <2> HIDE DEF f, e, D, E
  <2>3. PlusSums(NoSums, Total(e)) = Total(e)
    BY <1>4, <2>1, PlusSumsType
  <2> QED BY <1>3, <1>4, <2>1, <2>2, <2>3
<1> QED BY <1>5, <1>6

-----------------------------------------------------------------------------
(* Finitely many sessions *)

\* Only finitely many sessions exist at a time, whatever the identifiers.
FiniteInv == IsFiniteSet({s \in Session : Exists(s)})

\* A step that writes two session rows.
LEMMA FewWritten ==
  ASSUME FiniteInv, NEW s \in Session, NEW w \in Session,
         \A t \in Session \ {s, w} : sess'[t] = sess[t]
  PROVE  FiniteInv'
<1> DEFINE E == {t \in Session : Exists(t)}
           F == {t \in Session : Exists(t)'}
<1>1. F \subseteq E \cup {s, w}
  BY DEF Exists
<1>2. IsFiniteSet(E \cup {s, w})
  <2>1. IsFiniteSet(E)
    BY DEF FiniteInv
  <2>2. E \cup {s, w} = (E \cup {s}) \cup {w}
    OBVIOUS
  <2> HIDE DEF E
  <2>3. IsFiniteSet(E \cup {s})
    BY <2>1, FS_AddElement
  <2> QED BY <2>2, <2>3, FS_AddElement
<1> HIDE DEF E, F
<1>3. IsFiniteSet(F)
  BY <1>1, <1>2, FS_Subset
<1> QED BY <1>3 DEF F, FiniteInv

LEMMA FiniteNext == ShapesOK /\ FiniteInv /\ [Next]_vars => FiniteInv'
<1> SUFFICES ASSUME ShapesOK, FiniteInv, [Next]_vars PROVE FiniteInv'
  OBVIOUS
<1>1. ASSUME NEW s \in Session, OnlySession(s) PROVE FiniteInv'
  BY <1>1, FewWritten DEF OnlySession
<1>2. ASSUME NEW s \in Session, SessionStep(s) PROVE FiniteInv'
  <2>1. ASSUME NEW w \in Session \ {s}, NEW e \in Employee,
               NEW n \in 0..sess[s].rework, NEW m \in 0..sess[s].rework,
               Resolve(s, w, e, n, m)
        PROVE  FiniteInv'
    <3>1. \A t \in Session \ {s, w} : sess'[t] = sess[t] /\ bucket'[t] = bucket[t]
      BY <2>1, ResolveEffect, Zenon
    <3> QED BY <3>1, FewWritten
  <2> QED BY <1>1, <1>2, <2>1, StartEffect, FinishEffect, AutoCloseEffect
          DEF SessionStep
<1>3. ASSUME NEW s \in Session, SupervisorStep(s) PROVE FiniteInv'
  BY <1>1, <1>3, AdjustEffect, EditEffect, TransferEffect, ExcludeEffect,
     RestoreEffect, CreateManualEffect DEF SupervisorStep
<1>4. CASE Quiet
  <2>1. UNCHANGED sess
    BY <1>4, QuietEffect
  <2> QED BY <2>1 DEF FiniteInv, Exists
<1> QED BY <1>2, <1>3, <1>4 DEF Next, Quiet

LEMMA FiniteInit == Init => FiniteInv
<1>1. Init => {s \in Session : Exists(s)} = {}
  BY DEF Init, Exists, Blank
<1> QED BY <1>1, FS_EmptySet DEF FiniteInv

-----------------------------------------------------------------------------
(* Material handed out *)

\* Pieces the rows of hs hold, counting those in A.
Drawn(hs, A) == SumFunction([s \in {t \in Session : hs[t] \in A} |-> hs[s].qty])

From(src) == {h \in Hold : h.source = src}
FromAs(src, kind) == {h \in Hold : h.source = src /\ h.kind = kind}

LEMMA AllocatedIsDrawn ==
  ASSUME NEW hs \in [Session -> Hold \cup {NoHold}], NEW src, NEW kind
  PROVE  /\ Allocated(hs, src) = Drawn(hs, From(src))
         /\ AllocatedAs(hs, src, kind) = Drawn(hs, FromAs(src, kind))
<1>1. {t \in Session : hs[t] \in From(src)} = HeldFrom(hs, src)
  BY NullAssumption DEF From, HeldFrom
<1>2. {t \in Session : hs[t] \in FromAs(src, kind)}
        = {t \in HeldFrom(hs, src) : hs[t].kind = kind}
  BY NullAssumption DEF FromAs, HeldFrom
<1> QED BY <1>1, <1>2 DEF Allocated, AllocatedAs, Drawn

\* What is drawn, seen from any one session: what its row holds, and the rest.
LEMMA DrawnSplit ==
  ASSUME NEW hs \in [Session -> Hold \cup {NoHold}],
         IsFiniteSet({t \in Session : hs[t] # NoHold}),
         NEW A \in SUBSET Hold, NEW s \in Session
  PROVE  LET rest == Drawn([hs EXCEPT ![s] = NoHold], A) IN
         /\ rest \in Nat
         /\ hs[s] \in A => hs[s].qty \in Nat /\ Drawn(hs, A) = hs[s].qty + rest
         /\ hs[s] \notin A => Drawn(hs, A) = rest
<1> DEFINE ks == [hs EXCEPT ![s] = NoHold]
           D == {t \in Session : hs[t] \in A}
           E == {t \in Session : ks[t] \in A}
           f == [t \in D |-> hs[t].qty]
           e == [t \in E |-> ks[t].qty]
<1>1. NoHold \notin A
  BY NullAssumption
<1>2. /\ ks[s] = NoHold
      /\ \A t \in Session \ {s} : ks[t] = hs[t]
  OBVIOUS
<1>3. IsFiniteSet(D)
  <2>1. D \subseteq {t \in Session : hs[t] # NoHold}
    BY <1>1
  <2> HIDE DEF D
  <2> QED BY <2>1, FS_Subset
<1> HIDE DEF ks
<1>4. E = D \ {s}
  BY <1>1, <1>2
<1>5. f \in [D -> Nat]
  BY DEF Hold
<1>6. e = [t \in D \ {s} |-> f[t]]
  BY <1>2, <1>4
<1>7. Drawn(hs, A) = SumFunction(f) /\ Drawn(ks, A) = SumFunction(e)
  BY DEF Drawn
<1>8. SumFunction(e) \in Nat
  <2>1. IsFiniteSet(E) /\ e \in [E -> Nat]
    <3>1. IsFiniteSet(D \ {s})
      <4> HIDE DEF D
      <4> QED BY <1>3, FS_Subset
    <3> QED BY <1>4, <1>5, <1>6, <3>1
  <2> HIDE DEF e, E
  <2> QED BY <2>1, SumType
<1>9. CASE hs[s] \in A
  <2>1. s \in D /\ f[s] = hs[s].qty /\ hs[s].qty \in Nat
    BY <1>9 DEF Hold
  <2> HIDE DEF D, E, f, e
  <2>2. SumFunction(f) = f[s] + SumFunction(e)
    BY <1>3, <1>5, <1>6, <2>1, SumWithout
  <2> QED BY <1>7, <1>8, <1>9, <2>1, <2>2 DEF ks
<1>10. CASE hs[s] \notin A
  <2>1. D = E /\ f = e
    BY <1>4, <1>6, <1>10
  <2> QED BY <1>7, <1>8, <1>10, <2>1 DEF ks
<1> QED BY <1>9, <1>10

\* Session s is given n pieces for operation o, after the check against the
\* stored aggregates of its source.
Draws(s, o, n) ==
  /\ Source[o] # NoOp
  /\ n <= Available(ops, [hold EXCEPT ![s] = NoHold], o)
  /\ hold' = [hold EXCEPT ![s] = [source |-> Source[o], target |-> o,
                                  qty |-> n, kind |-> SourceKind[o]]]

\* Only the operation session s was on and operation o are rebuilt.
KeepsOthers(s, o) ==
  \A x \in Operation : x # o /\ (Exists(s) => x # sess[s].op) =>
     ops'[x].sums = ops[x].sums

\* A step that writes the material row of session s: it is removed, or drawn for
\* the operation the session is on afterwards.
WritesMaterial(s) ==
  \/ Releases(s)
  \/ \E o \in Operation, n \in Nat : Draws(s, o, n) /\ KeepsOthers(s, o)

LEMMA ConsumesWrites ==
  ASSUME NEW s \in Session, NEW o \in Operation, NEW r, r.good \in Nat, r.defect \in Nat,
         Consumes(s, o, r), KeepsOthers(s, o)
  PROVE  WritesMaterial(s)
<1>1. CASE Source[o] = NoOp
  BY <1>1 DEF Consumes, WritesMaterial, Releases
<1>2. CASE Source[o] # NoOp
  <2>1. Need(o, r) \in Nat
    BY NeedType
  <2>2. Draws(s, o, Need(o, r))
    BY <1>2 DEF Consumes, Draws
  <2> QED BY <2>1, <2>2 DEF WritesMaterial
<1> QED BY <1>1, <1>2

LEMMA RebuiltKeeps ==
  ASSUME NEW s, NEW o \in Operation,
         \/ Rebuilt({o})
         \/ Exists(s) /\ Rebuilt({sess[s].op, o})
  PROVE  KeepsOthers(s, o)
BY DEF Rebuilt, KeepsOthers

LEMMA StepMaterial ==
  ASSUME ShapesOK, [Next]_vars
  PROVE  UNCHANGED hold \/ \E s \in Session : WritesMaterial(s)
<1>1. ASSUME NEW s \in Session, SessionStep(s) PROVE UNCHANGED hold \/ WritesMaterial(s)
  <2>1. ASSUME NEW r \in Report, Finish(s, r) PROVE UNCHANGED hold \/ WritesMaterial(s)
    <3> DEFINE o == sess[s].op
    <3>1. o \in Operation /\ Rebuilt({o})
      BY <2>1, FinishEffect
    <3>2. UNCHANGED hold \/ Consumes(s, o, r)
      BY <2>1 DEF Finish
    <3> QED BY <3>1, <3>2, RebuiltKeeps, ConsumesWrites, ReportType
  <2>2. CASE AutoClose(s)
    <3>1. Exists(s) /\ sess[s].op \in Operation /\ Rebuilt({sess[s].op})
      BY <2>2, AutoCloseEffect DEF Exists
    <3>2. Consumes(s, sess[s].op, sess[s])
      BY <2>2 DEF AutoClose
    <3> QED BY <3>1, <3>2, RebuiltKeeps, ConsumesWrites, ExistingRow
  <2>3. CASE \/ \E e \in Employee, o \in Operation : Start(s, e, o)
             \/ \E w \in Session \ {s}, e \in Employee, n, m \in 0..sess[s].rework :
                   Resolve(s, w, e, n, m)
    BY <2>3 DEF Start, Resolve
  <2> QED BY <1>1, <2>1, <2>2, <2>3 DEF SessionStep
<1>2. ASSUME NEW s \in Session, SupervisorStep(s)
      PROVE  UNCHANGED hold \/ WritesMaterial(s)
  <2>1. ASSUME NEW r \in Report, Adjust(s, r) PROVE UNCHANGED hold \/ WritesMaterial(s)
    <3> DEFINE o == sess[s].op
    <3>1. o \in Operation /\ Rebuilt({o})
      BY <2>1, AdjustEffect
    <3>2. UNCHANGED hold \/ Consumes(s, o, r)
      BY <2>1 DEF Adjust
    <3> QED BY <3>1, <3>2, RebuiltKeeps, ConsumesWrites, ReportType
  <2>2. ASSUME NEW e \in Employee, NEW o \in Operation, NEW st \in {"OPEN", "CLOSED"},
               NEW r \in Form(s), Edit(s, e, o, st, r)
        PROVE  WritesMaterial(s)
    <3>1. /\ r.good \in Nat /\ r.defect \in Nat
          /\ Exists(s) /\ Rebuilt({sess[s].op, o})
      BY <2>2, EditEffect
    <3>2. Releases(s) \/ Consumes(s, o, r)
      BY <2>2 DEF Edit
    <3>3. CASE Releases(s)
      BY <3>3 DEF WritesMaterial
    <3>4. CASE Consumes(s, o, r)
      BY <3>1, <3>4, RebuiltKeeps, ConsumesWrites
    <3> QED BY <3>2, <3>3, <3>4
  <2>3. ASSUME NEW o \in Operation, Transfer(s, o)
        PROVE  UNCHANGED hold \/ WritesMaterial(s)
    <3>1. Exists(s) /\ Rebuilt({sess[s].op, o})
      BY <2>3, TransferEffect
    <3>2. UNCHANGED hold \/ Consumes(s, o, sess[s])
      BY <2>3 DEF Transfer
    <3> QED BY <3>1, <3>2, RebuiltKeeps, ConsumesWrites, ExistingRow
  <2>4. CASE Exclude(s)
    BY <2>4 DEF Exclude, WritesMaterial
  <2>5. CASE Restore(s)
    <3>1. Exists(s) /\ sess[s].op \in Operation /\ Rebuilt({sess[s].op})
      BY <2>5, RestoreEffect
    <3>2. UNCHANGED hold \/ Consumes(s, sess[s].op, sess[s])
      BY <2>5 DEF Restore
    <3> QED BY <3>1, <3>2, RebuiltKeeps, ConsumesWrites, ExistingRow
  <2>6. ASSUME NEW e \in Employee, NEW o \in Operation, NEW r \in Report,
               CreateManual(s, e, o, r)
        PROVE  WritesMaterial(s)
    <3>1. Rebuilt({o})
      BY <2>6, CreateManualEffect
    <3>2. Consumes(s, o, r)
      BY <2>6 DEF CreateManual
    <3> QED BY <3>1, <3>2, RebuiltKeeps, ConsumesWrites, ReportType
  <2> QED BY <1>2, <2>1, <2>2, <2>3, <2>4, <2>5, <2>6 DEF SupervisorStep
<1>3. CASE Quiet
  BY <1>3, QuietEffect
<1> QED BY <1>1, <1>2, <1>3 DEF Next, Quiet

\* What the sessions add up to is a number of pieces.
LEMMA RollupType ==
  ASSUME NEW ss \in [Session -> SessionRow],
         IsFiniteSet({t \in Session : ss[t].status # "NONE"}), NEW o
  PROVE  Rollup(ss, o) \in Sums
<1>1. CASE Session = {}
  <2>1. Rollup(ss, o) = Total([t \in {} |-> Contribution(ss, t, o)])
    BY <1>1 DEF Rollup
  <2>2. [t \in {} |-> Contribution(ss, t, o)] \in [{} -> Sums]
    OBVIOUS
  <2> QED BY <2>1, <2>2, TotalType, FS_EmptySet
<1>2. CASE Session # {}
  BY <1>2, RollupSplit
<1> QED BY <1>1, <1>2

\* A form holds the aggregates it held, or those an operation has now.
LEMMA FormRows ==
  ASSUME ShapesOK, [Next]_vars, NEW c \in Clerk, form'[c] # NoForm
  PROVE  \/ /\ form[c] # NoForm
            /\ form'[c].op = form[c].op /\ form'[c].sums = form[c].sums
         \/ \E o \in Operation : form'[c].op = o /\ form'[c].sums = ops[o].sums
<1>1. ASSUME NEW s \in Session, SessionStep(s) \/ SupervisorStep(s)
      PROVE  UNCHANGED form
  <2>1. CASE SessionStep(s)
    BY <2>1 DEF SessionStep, Start, Finish, AutoClose, Resolve
  <2>2. CASE SupervisorStep(s)
    BY <2>2 DEF SupervisorStep, Adjust, Edit, Transfer, Exclude, Restore, CreateManual
  <2> QED BY <1>1, <2>1, <2>2
<1>2. CASE OrderStep
  BY <1>2 DEF OrderStep, CancelOperation, StartOrder, UpdateOrder
<1>3. ASSUME NEW d \in Clerk, FormStep(d), UNCHANGED form => FALSE
      PROVE  \/ /\ form[c] # NoForm
                /\ form'[c].op = form[c].op /\ form'[c].sums = form[c].sums
             \/ \E o \in Operation : form'[c].op = o /\ form'[c].sums = ops[o].sums
  <2>0. form = [x \in Clerk |-> form[x]]
    BY DEF ShapesOK, FormsOK
  <2>1. ASSUME NEW o \in Operation, NEW sent \in BOOLEAN, AskUpdate(d, o, sent)
        PROVE  \/ form'[c] = form[c]
               \/ form'[c].op = o /\ form'[c].sums = ops[o].sums
    BY <2>0, <2>1 DEF AskUpdate
  <2>2. CASE CountSessions(d)
    <3>1. /\ form[d] # NoForm
          /\ form' = [form EXCEPT ![d].history =
               IF \E s \in Session : Exists(s) /\ sess[s].op = form[d].op
               THEN "SOME" ELSE "NONE"]
      BY <2>2 DEF CountSessions
    <3>2. PICK h : form' = [form EXCEPT ![d] = [form[d] EXCEPT !.history = h]]
      BY <3>1
    <3>3. CASE c = d
      BY <2>0, <3>1, <3>2, <3>3 DEF ShapesOK, FormsOK
    <3>4. CASE c # d
      BY <2>0, <3>2, <3>4
    <3> QED BY <3>3, <3>4
  <2>3. CASE SaveOperation(d) \/ DropForm(d)
    <3>1. form' = [form EXCEPT ![d] = NoForm]
      BY <2>3 DEF SaveOperation, DropForm
    <3> QED BY <2>0, <3>1
  <2> QED BY <1>3, <2>1, <2>2, <2>3 DEF FormStep
<1> QED BY <1>1, <1>2, <1>3 DEF Next, vars

\* The aggregates stay numbers of pieces: what a form puts back was read there.
LEMMA QuantitiesNext ==
  ASSUME ShapesOK, ShapesOK', FiniteInv', QuantitiesOK, [Next]_vars
  PROVE  QuantitiesOK'
<1>1. ASSUME NEW x \in Operation PROVE ops'[x].sums \in Sums
  <2>1. CASE Exact(x)'
    <3>1. /\ sess' \in [Session -> SessionRow]
          /\ IsFiniteSet({t \in Session : sess'[t].status # "NONE"})
      BY DEF ShapesOK, SessionsOK, FiniteInv, Exists
    <3> QED BY <2>1, <3>1, RollupType DEF Exact
  <2>2. CASE ops'[x].sums = ops[x].sums
    BY <2>2 DEF QuantitiesOK
  <2>3. ASSUME NEW c \in Clerk, form[c] # NoForm, form[c].op = x, form[c].sent,
               form[c].history = "NONE", SaveOperation(c)
        PROVE  ops'[x].sums \in Sums
    <3>1. ops'[x].sums = [ops[x].sums EXCEPT !.done = form[c].sums.done,
                                             !.defect = form[c].sums.defect,
                                             !.rework = form[c].sums.rework]
      BY <2>3, SaveEffect, PutBackShape
    <3>2. ops[x].sums \in Sums /\ form[c].sums \in Sums
      BY <2>3 DEF QuantitiesOK
    <3> QED BY <3>1, <3>2 DEF Sums
  <2> QED BY <2>1, <2>2, <2>3, RollupNext DEF Settled, SavedUnseen
<1>2. ASSUME NEW c \in Clerk, form'[c] # NoForm PROVE form'[c].sums \in Sums
  BY <1>2, FormRows DEF QuantitiesOK
<1> QED BY <1>1, <1>2 DEF QuantitiesOK

LEMMA QuantitiesInit == Init => QuantitiesOK
<1> SUFFICES ASSUME Init PROVE QuantitiesOK
  OBVIOUS
<1>1. /\ sess \in [Session -> SessionRow]
      /\ IsFiniteSet({t \in Session : sess[t].status # "NONE"})
  BY TypeInit, FiniteInit DEF ShapesOK, SessionsOK, FiniteInv, Exists
<1>2. ASSUME NEW o \in Operation PROVE ops[o].sums \in Sums
  <2>1. ops[o].sums = Rollup(sess, o)
    BY DEF Init
  <2> QED BY <1>1, <2>1, RollupType
<1>3. \A c \in Clerk : form[c] = NoForm
  BY DEF Init
<1> QED BY <1>2, <1>3 DEF QuantitiesOK

\* The material rows are finitely many and the stored sums are numbers.
LEMMA LedgerTypes ==
  ASSUME FiniteInv, HoldInv, QuantitiesOK
  PROVE  /\ IsFiniteSet({t \in Session : hold[t] # NoHold})
         /\ \A o \in Operation : ops[o].sums \in Sums
<1>1. {t \in Session : hold[t] # NoHold} \subseteq {t \in Session : Exists(t)}
  BY DEF HoldInv, Follows, Exists
<1> QED BY <1>1, FS_Subset DEF FiniteInv, QuantitiesOK

\* Arithmetic of the check: drawing within what is free keeps the total within
\* the supply.
LEMMA WithinFree ==
  ASSUME NEW supply \in Nat, NEW rest \in Nat, NEW n \in Nat, n > 0,
         n <= Max0(supply - rest)
  PROVE  n + rest <= supply
BY DEF Max0

\* What one draw does to the pieces held from each operation.
LEMMA DrawEffect ==
  ASSUME ShapesOK, IsFiniteSet({t \in Session : hold[t] # NoHold}),
         NEW s \in Session, NEW o \in Operation, NEW n \in Nat, Draws(s, o, n),
         NEW A \in SUBSET Hold
  PROVE  LET row  == [source |-> Source[o], target |-> o, qty |-> n,
                      kind |-> SourceKind[o]]
             rest == Drawn([hold EXCEPT ![s] = NoHold], A)
         IN  /\ row \in Hold /\ rest \in Nat
             /\ Drawn(hold, A) \in Nat /\ rest <= Drawn(hold, A)
             /\ Drawn(hold', A) = IF row \in A THEN n + rest ELSE rest
<1> DEFINE row  == [source |-> Source[o], target |-> o, qty |-> n,
                    kind |-> SourceKind[o]]
           bare == [hold EXCEPT ![s] = NoHold]
           rest == Drawn(bare, A)
<1>1. row \in Hold
  BY ConfigAssumption DEF Draws, Hold
<1>2. hold \in [Session -> Hold \cup {NoHold}]
  BY DEF ShapesOK
<1>3. /\ rest \in Nat
      /\ hold[s] \in A => hold[s].qty \in Nat /\ Drawn(hold, A) = hold[s].qty + rest
      /\ hold[s] \notin A => Drawn(hold, A) = rest
  BY <1>2, DrawnSplit
<1>4. hold' = [hold EXCEPT ![s] = row]
  BY DEF Draws
<1> HIDE DEF row
<1>5. /\ hold' \in [Session -> Hold \cup {NoHold}]
      /\ hold'[s] = row /\ [hold' EXCEPT ![s] = NoHold] = bare
  BY <1>1, <1>2, <1>4
<1>6. IsFiniteSet({t \in Session : hold'[t] # NoHold})
  <2> DEFINE D == {t \in Session : hold[t] # NoHold}
             E == {t \in Session : hold'[t] # NoHold}
  <2>1. E \subseteq D \cup {s}
    BY <1>2, <1>4
  <2> HIDE DEF D, E
  <2>2. IsFiniteSet(D \cup {s})
    BY FS_AddElement DEF D
  <2>3. IsFiniteSet(E)
    BY <2>1, <2>2, FS_Subset
  <2> QED BY <2>3 DEF E
<1>7. /\ hold'[s] \in A => hold'[s].qty \in Nat /\ Drawn(hold', A) = hold'[s].qty + rest
      /\ hold'[s] \notin A => Drawn(hold', A) = rest
  <2> DEFINE back == Drawn([hold' EXCEPT ![s] = NoHold], A)
  <2>1. /\ hold'[s] \in A => hold'[s].qty \in Nat /\ Drawn(hold', A) = hold'[s].qty + back
        /\ hold'[s] \notin A => Drawn(hold', A) = back
    BY <1>5, <1>6, DrawnSplit
  <2>2. back = rest
    BY <1>5
  <2> QED BY <2>1, <2>2
<1>8. row.qty = n
  BY DEF row
<1> HIDE DEF bare, rest
<1>9. /\ Drawn(hold, A) \in Nat /\ rest <= Drawn(hold, A)
      /\ Drawn(hold', A) = IF row \in A THEN n + rest ELSE rest
  BY <1>3, <1>5, <1>7, <1>8
<1> QED BY <1>1, <1>3, <1>9 DEF row, rest, bare

LEMMA ReleaseEffect ==
  ASSUME ShapesOK, IsFiniteSet({t \in Session : hold[t] # NoHold}),
         NEW s \in Session, Releases(s), NEW A \in SUBSET Hold
  PROVE  ~(Drawn(hold', A) > Drawn(hold, A))
<1>1. /\ Drawn([hold EXCEPT ![s] = NoHold], A) \in Nat
      /\ hold[s] \in A => /\ hold[s].qty \in Nat
                          /\ Drawn(hold, A)
                               = hold[s].qty + Drawn([hold EXCEPT ![s] = NoHold], A)
      /\ hold[s] \notin A => Drawn(hold, A) = Drawn([hold EXCEPT ![s] = NoHold], A)
  BY DrawnSplit DEF ShapesOK
<1>2. hold' = [hold EXCEPT ![s] = NoHold]
  BY DEF Releases
<1> QED BY <1>1, <1>2

\* One draw raises what is held from its source only, and stays within what is
\* stored there: in total, and for repaired pieces within the repaired.
LEMMA DrawBounded ==
  ASSUME ShapesOK, IsFiniteSet({t \in Session : hold[t] # NoHold}),
         NEW s \in Session, NEW o \in Operation, NEW n \in Nat, Draws(s, o, n),
         NEW x \in Operation, ops[x].sums \in Sums
  PROVE  /\ Allocated(hold', x) > Allocated(hold, x)
              => x = Source[o] /\ Allocated(hold', x) <= ops[x].sums.done
         /\ AllocatedAs(hold', x, "REWORK") > AllocatedAs(hold, x, "REWORK")
              => x = Source[o] /\ AllocatedAs(hold', x, "REWORK") <= ops[x].sums.repaired
<1> DEFINE row  == [source |-> Source[o], target |-> o, qty |-> n,
                    kind |-> SourceKind[o]]
           bare == [hold EXCEPT ![s] = NoHold]
           all  == Drawn(bare, From(x))
           some == Drawn(bare, FromAs(x, "REWORK"))
<1>1. From(x) \in SUBSET Hold /\ FromAs(x, "REWORK") \in SUBSET Hold
  BY DEF From, FromAs
<1>2. /\ row \in Hold /\ all \in Nat
      /\ Drawn(hold, From(x)) \in Nat /\ all <= Drawn(hold, From(x))
      /\ Drawn(hold', From(x)) = IF row \in From(x) THEN n + all ELSE all
  BY <1>1, DrawEffect
<1>3. /\ some \in Nat
      /\ Drawn(hold, FromAs(x, "REWORK")) \in Nat
      /\ some <= Drawn(hold, FromAs(x, "REWORK"))
      /\ Drawn(hold', FromAs(x, "REWORK"))
           = IF row \in FromAs(x, "REWORK") THEN n + some ELSE some
  BY <1>1, DrawEffect
<1>4. /\ hold \in [Session -> Hold \cup {NoHold}]
      /\ bare \in [Session -> Hold \cup {NoHold}]
      /\ hold' \in [Session -> Hold \cup {NoHold}]
  BY <1>2 DEF ShapesOK, Draws
<1> HIDE DEF bare
<1>5. /\ Allocated(hold, x) = Drawn(hold, From(x))
      /\ Allocated(hold', x) = Drawn(hold', From(x))
      /\ Allocated(bare, x) = all
      /\ AllocatedAs(hold, x, "REWORK") = Drawn(hold, FromAs(x, "REWORK"))
      /\ AllocatedAs(hold', x, "REWORK") = Drawn(hold', FromAs(x, "REWORK"))
      /\ AllocatedAs(bare, x, "REWORK") = some
  BY <1>4, AllocatedIsDrawn
<1> HIDE DEF all, some
<1>6. /\ row \in From(x) => x = Source[o]
      /\ row \in FromAs(x, "REWORK") => x = Source[o] /\ SourceKind[o] = "REWORK"
  BY DEF From, FromAs
<1> HIDE DEF row
<1>7. ops[x].sums.done \in Nat /\ ops[x].sums.repaired \in Nat
  BY DEF Sums
<1>8. n <= Available(ops, bare, o)
  BY DEF Draws, bare
<1>9. x = Source[o] =>
        /\ n <= Max0(ops[x].sums.done - all)
        /\ SourceKind[o] = "REWORK" => n <= Max0(ops[x].sums.repaired - some)
  BY <1>2, <1>3, <1>5, <1>7, <1>8 DEF Available, Max0
<1>10. ASSUME Allocated(hold', x) > Allocated(hold, x)
       PROVE  x = Source[o] /\ Allocated(hold', x) <= ops[x].sums.done
  <2>1. row \in From(x) /\ n > 0
    BY <1>2, <1>5, <1>10
  <2> QED BY <1>2, <1>5, <1>6, <1>7, <1>9, <2>1, WithinFree
<1>11. ASSUME AllocatedAs(hold', x, "REWORK") > AllocatedAs(hold, x, "REWORK")
       PROVE  x = Source[o] /\ AllocatedAs(hold', x, "REWORK") <= ops[x].sums.repaired
  <2>1. row \in FromAs(x, "REWORK") /\ n > 0
    BY <1>3, <1>5, <1>11
  <2> QED BY <1>3, <1>5, <1>6, <1>7, <1>9, <2>1, WithinFree
<1> QED BY <1>10, <1>11

\* What the theorems about material rest on.
LedgerInv == ShapesOK /\ FiniteInv /\ HoldInv /\ QuantitiesOK

LEMMA LedgerNext == LedgerInv /\ [Next]_vars => LedgerInv'
BY TypeNext, FiniteNext, HoldNext, QuantitiesNext DEF LedgerInv

LEMMA LedgerAlways == Spec => []LedgerInv
<1>1. Init => LedgerInv
  <2>1. Init => HoldInv
    BY DEF Init, HoldInv, Follows, Matches, Blank
  <2> QED BY <2>1, TypeInit, FiniteInit, QuantitiesInit DEF LedgerInv
<1> QED BY <1>1, LedgerNext, PTL DEF Spec

\* In every reachable state all tables hold rows of their shape, sessions belong
\* to an employee and an operation, and the aggregates, stored or in a form, are
\* numbers: the first needs the guards of every write path, the last that finitely
\* many sessions exist and that a form puts back only what it read.
THEOREM TypeCorrect == Spec => []TypeOK
<1>1. LedgerInv => TypeOK
  BY DEF LedgerInv, TypeOK
<1> QED BY <1>1, LedgerAlways, PTL

\* What is held from an operation is a number of pieces.
LEMMA DrawnType ==
  ASSUME NEW hs \in [Session -> Hold \cup {NoHold}],
         IsFiniteSet({t \in Session : hs[t] # NoHold}), NEW A \in SUBSET Hold
  PROVE  Drawn(hs, A) \in Nat
<1> DEFINE D == {t \in Session : hs[t] \in A}
           f == [t \in D |-> hs[t].qty]
<1>1. D \subseteq {t \in Session : hs[t] # NoHold}
  BY NullAssumption
<1>2. f \in [D -> Nat]
  BY DEF Hold
<1>3. Drawn(hs, A) = SumFunction(f)
  BY DEF Drawn
<1> HIDE DEF D, f
<1>4. IsFiniteSet(D)
  BY <1>1, FS_Subset
<1> QED BY <1>2, <1>3, <1>4, SumType

NumbersOf(x) ==
  /\ Allocated(hold, x) \in Nat
  /\ AllocatedAs(hold, x, "REWORK") \in Nat
  /\ ops[x].sums.done \in Nat /\ ops[x].sums.repaired \in Nat

LEMMA AllocatedType == LedgerInv => \A x \in Operation : NumbersOf(x)
<1> SUFFICES ASSUME LedgerInv, NEW x \in Operation PROVE NumbersOf(x)
  OBVIOUS
<1>1. hold \in [Session -> Hold \cup {NoHold}]
  BY DEF LedgerInv, ShapesOK
<1>2. /\ IsFiniteSet({t \in Session : hold[t] # NoHold})
      /\ ops[x].sums \in Sums
  BY LedgerTypes DEF LedgerInv
<1>3. From(x) \in SUBSET Hold /\ FromAs(x, "REWORK") \in SUBSET Hold
  BY DEF From, FromAs
<1>4. Allocated(hold, x) \in Nat
  BY <1>1, <1>2, <1>3, DrawnType, AllocatedIsDrawn
<1>5. AllocatedAs(hold, x, "REWORK") \in Nat
  BY <1>1, <1>2, <1>3, DrawnType, AllocatedIsDrawn
<1> QED BY <1>2, <1>4, <1>5 DEF Sums, NumbersOf

\* A step that draws nothing raises nothing.
LEMMA NothingRises ==
  ASSUME LedgerInv, NEW x \in Operation,
         UNCHANGED hold \/ \E s \in Session : Releases(s)
  PROVE  /\ ~(Allocated(hold', x) > Allocated(hold, x))
         /\ ~(AllocatedAs(hold', x, "REWORK") > AllocatedAs(hold, x, "REWORK"))
<1>1. ShapesOK /\ NumbersOf(x) /\ IsFiniteSet({t \in Session : hold[t] # NoHold})
  BY LedgerTypes, AllocatedType DEF LedgerInv
<1>2. CASE UNCHANGED hold
  BY <1>1, <1>2 DEF NumbersOf
<1>3. ASSUME NEW s \in Session, Releases(s)
      PROVE  /\ ~(Allocated(hold', x) > Allocated(hold, x))
             /\ ~(AllocatedAs(hold', x, "REWORK") > AllocatedAs(hold, x, "REWORK"))
  <2>1. From(x) \in SUBSET Hold /\ FromAs(x, "REWORK") \in SUBSET Hold
    BY DEF From, FromAs
  <2>2. /\ hold \in [Session -> Hold \cup {NoHold}]
        /\ hold' \in [Session -> Hold \cup {NoHold}]
    BY <1>1, <1>3 DEF ShapesOK, Releases
  <2>3. /\ ~(Drawn(hold', From(x)) > Drawn(hold, From(x)))
        /\ ~(Drawn(hold', FromAs(x, "REWORK")) > Drawn(hold, FromAs(x, "REWORK")))
    BY <1>1, <1>3, <2>1, ReleaseEffect
  <2> QED BY <2>2, <2>3, AllocatedIsDrawn
<1> QED BY <1>2, <1>3

\* Each transaction writes the aggregates of at most two operations.
RebuildsWithin(left, at) ==
  \A x \in Operation \ {left, at} : ops'[x].sums = ops[x].sums

LEMMA StepRebuilds ==
  ASSUME ShapesOK, [Next]_vars
  PROVE  \/ UNCHANGED hold /\ \A x \in Operation : ops'[x].sums = ops[x].sums
         \/ \E left, at \in Operation : RebuildsWithin(left, at)
<1>1. ASSUME NEW o \in Operation, NEW p \in Operation, Rebuilt({o}) \/ Rebuilt({p, o})
      PROVE  \E left, at \in Operation : RebuildsWithin(left, at)
  <2>1. RebuildsWithin(p, o)
    BY <1>1 DEF Rebuilt, RebuildsWithin
  <2> QED BY <2>1
<1>2. ASSUME NEW s \in Session, SessionStep(s)
      PROVE  \E o \in Operation : Rebuilt({o})
  <2>1. ASSUME NEW w \in Session \ {s}, NEW e \in Employee,
               NEW n \in 0..sess[s].rework, NEW m \in 0..sess[s].rework,
               Resolve(s, w, e, n, m)
        PROVE  \E o \in Operation : Rebuilt({o})
    <3>1. sess[s].op \in Operation /\ Rebuilt({sess[s].op})
      BY <2>1, ResolveEffect, Zenon
    <3> QED BY <3>1
  <2> QED BY <1>2, <2>1, StartEffect, FinishEffect, AutoCloseEffect DEF SessionStep
<1>3. ASSUME NEW s \in Session, SupervisorStep(s)
      PROVE  \E o, p \in Operation : Rebuilt({o}) \/ Rebuilt({p, o})
  <2>1. CASE \/ \E r \in Report : Adjust(s, r)
             \/ Exclude(s) \/ Restore(s)
             \/ \E e \in Employee, o \in Operation, r \in Report : CreateManual(s, e, o, r)
    BY <2>1, AdjustEffect, ExcludeEffect, RestoreEffect, CreateManualEffect
  <2>2. ASSUME NEW e \in Employee, NEW o \in Operation, NEW st \in {"OPEN", "CLOSED"},
               NEW r \in Form(s), Edit(s, e, o, st, r)
        PROVE  sess[s].op \in Operation /\ Rebuilt({sess[s].op, o})
    BY <2>2, EditEffect
  <2>3. ASSUME NEW o \in Operation, Transfer(s, o)
        PROVE  sess[s].op \in Operation /\ Rebuilt({sess[s].op, o})
    BY <2>3, TransferEffect
  <2> QED BY <1>3, <2>1, <2>2, <2>3 DEF SupervisorStep
<1>4. CASE OrderStep \/ UNCHANGED vars
  BY <1>4, CancelEffect, OrderRowEffect DEF OrderStep, vars
<1>5. ASSUME NEW c \in Clerk, FormStep(c)
      PROVE  \/ UNCHANGED hold /\ \A x \in Operation : ops'[x].sums = ops[x].sums
             \/ \E left, at \in Operation : RebuildsWithin(left, at)
  <2>1. CASE SaveOperation(c)
    <3>1. form[c].op \in Operation /\ RebuildsWithin(form[c].op, form[c].op)
      BY <2>1, SaveEffect DEF RebuildsWithin
    <3> QED BY <3>1
  <2>2. CASE ~SaveOperation(c)
    BY <1>5, <2>2 DEF FormStep, AskUpdate, CountSessions, DropForm
  <2> QED BY <2>1, <2>2
<1> QED BY <1>1, <1>2, <1>3, <1>4, <1>5 DEF Next

\* A step that writes two operations and draws on one other.
Booked(left, at, src) ==
  /\ RebuildsWithin(left, at)
  /\ \A x \in Operation :
       /\ Allocated(hold', x) > Allocated(hold, x)
            => x = src /\ x # at /\ Allocated(hold', x) <= ops[x].sums.done
       /\ AllocatedAs(hold', x, "REWORK") > AllocatedAs(hold, x, "REWORK")
            => x = src /\ x # at /\ AllocatedAs(hold', x, "REWORK") <= ops[x].sums.repaired

LEMMA StepBooks ==
  ASSUME LedgerInv, [Next]_vars
  PROVE  \/ UNCHANGED hold /\ \A x \in Operation : ops'[x].sums = ops[x].sums
         \/ \E left, at, src \in Operation : Booked(left, at, src)
<1>1. /\ ShapesOK /\ IsFiniteSet({t \in Session : hold[t] # NoHold})
      /\ \A x \in Operation : ops[x].sums \in Sums
  BY LedgerTypes DEF LedgerInv
<1>2. CASE UNCHANGED hold \/ \E s \in Session : Releases(s)
  <2>1. ASSUME NEW left \in Operation, NEW at \in Operation, RebuildsWithin(left, at)
        PROVE  Booked(left, at, at)
    BY <1>2, <2>1, NothingRises DEF Booked
  <2> QED BY <1>1, <2>1, StepRebuilds
<1>3. ASSUME NEW s \in Session, NEW o \in Operation, NEW n \in Nat,
             Draws(s, o, n), KeepsOthers(s, o)
      PROVE  \E left, at, src \in Operation : Booked(left, at, src)
  <2> DEFINE left == IF Exists(s) THEN sess[s].op ELSE o
  <2>1. left \in Operation
    BY <1>1 DEF ShapesOK, SessionsOK
  <2>2. RebuildsWithin(left, o)
    BY <1>3 DEF KeepsOthers, RebuildsWithin
  <2>3. Source[o] \in Operation /\ Source[o] # o
    BY <1>3, ConfigAssumption, FlowAssumption DEF Draws
  <2> HIDE DEF left
  <2>4. Booked(left, o, Source[o])
    BY <1>1, <1>3, <2>2, <2>3, DrawBounded DEF Booked
  <2> QED BY <2>1, <2>3, <2>4
<1> QED BY <1>1, <1>2, <1>3, StepMaterial DEF WritesMaterial

\* No step raises what is held from an operation beyond what was stored as
\* produced there, in total or, for repaired pieces, as repaired.
LEMMA HandsOutStep ==
  ASSUME LedgerInv, [Next]_vars, NEW x \in Operation
  PROVE  /\ Allocated(hold', x) > Allocated(hold, x)
              => Allocated(hold', x) <= ops[x].sums.done
         /\ AllocatedAs(hold', x, "REWORK") > AllocatedAs(hold, x, "REWORK")
              => AllocatedAs(hold', x, "REWORK") <= ops[x].sums.repaired
BY StepBooks, NothingRises DEF Booked

-----------------------------------------------------------------------------
(* The ledger implements MaterialAccount *)

\* Nothing has been made or drawn at first.
LEMMA AccountInit == Init => Material!AInit
<1> SUFFICES ASSUME Init PROVE Material!AInit
  OBVIOUS
<1>1. ASSUME NEW o \in Operation
      PROVE  /\ ops[o].sums.done = 0 /\ ops[o].sums.repaired = 0
             /\ Allocated(hold, o) = 0 /\ AllocatedAs(hold, o, "REWORK") = 0
  <2>1. ops[o].sums = NoSums
    <3>1. {t \in Session : Contribution(sess, t, o) # NoSums} = {}
      BY DEF Init, Blank, Contribution, Reportable
    <3>2. ops[o].sums = Total([s \in {} |-> Contribution(sess, s, o)])
      BY <3>1 DEF Init, Rollup
    <3> QED BY <3>2, NothingAddsUp
  <2>2. HeldFrom(hold, o) = {}
    BY DEF Init, HeldFrom
  <2>3. /\ Allocated(hold, o) = SumFunction([s \in {} |-> hold[s].qty])
        /\ AllocatedAs(hold, o, "REWORK") = SumFunction([s \in {} |-> hold[s].qty])
    BY <2>2 DEF Allocated, AllocatedAs
  <2> QED BY <2>1, <2>3, NothingAddsUp DEF NoSums
<1> QED BY <1>1 DEF Material!AInit, Material!Empty, Material!Pool

\* Every step of the ledger is a booking, or leaves the accounts as they are.
LEMMA AccountStep ==
  ASSUME LedgerInv, LedgerInv', [Next]_vars
  PROVE  [Material!ANext]_(Material!avars)
<1>1. \A x \in Operation : NumbersOf(x)
  BY AllocatedType
<1>2. \A x \in Operation : NumbersOf(x)'
  <2>1. (LedgerInv => \A x \in Operation : NumbersOf(x))'
    BY AllocatedType, PTL
  <2> QED BY <2>1
<1>3. CASE UNCHANGED hold /\ \A x \in Operation : ops'[x].sums = ops[x].sums
  BY <1>3 DEF Material!avars
<1>4. ASSUME NEW left \in Operation, NEW at \in Operation, NEW src \in Operation,
             Booked(left, at, src)
      PROVE  Material!ANext
  <2>1. Material!Book(left, at, src)
    BY <1>2, <1>4 DEF Booked, RebuildsWithin, NumbersOf, Material!Book, Material!Pool,
                      Material!Account
  <2> QED BY <2>1 DEF Material!ANext
<1> QED BY <1>3, <1>4, StepBooks

\* The ledger keeps the promise of MaterialAccount, for any number of sessions
\* drawing on one operation and any interleaving of reports, corrections, moves,
\* exclusions and restorations: nothing is handed out that is not in stock.
THEOREM ImplementsAccount == Spec => KeepsAccount
<1>1. LedgerInv /\ LedgerInv' /\ [Next]_vars => [Material!ANext]_(Material!avars)
  BY AccountStep
<1> QED BY <1>1, AccountInit, LedgerAlways, PTL DEF Spec, KeepsAccount, Material!ASpec

\* Whatever is handed out beyond what was produced became so by lowering what
\* was produced, or was so before.
THEOREM Shortfall == Spec => ShortfallIsACorrection
<1>1. ASSUME LedgerInv, [Next]_vars, NEW o \in Operation
      PROVE  /\ Allocated(hold', o) > ops'[o].sums.done
                  => \/ Allocated(hold, o) > ops[o].sums.done
                     \/ ops'[o].sums.done < ops[o].sums.done
             /\ AllocatedAs(hold', o, "REWORK") > ops'[o].sums.repaired
                  => \/ AllocatedAs(hold, o, "REWORK") > ops[o].sums.repaired
                     \/ ops'[o].sums.repaired < ops[o].sums.repaired
  <2>1. LedgerInv'
    BY <1>1, LedgerNext
  <2>2. NumbersOf(o)
    BY <1>1, AllocatedType
  <2>3. (LedgerInv => \A x \in Operation : NumbersOf(x))'
    BY AllocatedType, PTL
  <2>5. NumbersOf(o)'
    BY <2>1, <2>3
  <2>4. /\ Allocated(hold', o) > Allocated(hold, o)
              => Allocated(hold', o) <= ops[o].sums.done
        /\ AllocatedAs(hold', o, "REWORK") > AllocatedAs(hold, o, "REWORK")
              => AllocatedAs(hold', o, "REWORK") <= ops[o].sums.repaired
    BY <1>1, HandsOutStep
  <2> QED BY <2>2, <2>4, <2>5 DEF NumbersOf
<1>2. LedgerInv /\ [Next]_vars =>
        [\A o \in Operation :
           /\ Allocated(hold', o) > ops'[o].sums.done
                => \/ Allocated(hold, o) > ops[o].sums.done
                   \/ ops'[o].sums.done < ops[o].sums.done
           /\ AllocatedAs(hold', o, "REWORK") > ops'[o].sums.repaired
                => \/ AllocatedAs(hold, o, "REWORK") > ops[o].sums.repaired
                   \/ ops'[o].sums.repaired < ops[o].sums.repaired]_vars
  BY <1>1
<1> QED BY <1>2, LedgerAlways, PTL DEF Spec, ShortfallIsACorrection

\* A session that draws on an operation it was not on leaves the source supplied
\* after the step too: only the operation it was on and the one it is on now are
\* rebuilt, and an operation does not feed itself.
THEOREM DrawnElsewhere == Spec => DrawnElsewhereIsSupplied
<1>1. ASSUME LedgerInv, [Next]_vars, NEW s \in Session,
             hold'[s] # hold[s], hold'[s] # NoHold,
             Exists(s) => sess[s].op # hold'[s].source,
             Allocated(hold', hold'[s].source) > Allocated(hold, hold'[s].source)
      PROVE  Allocated(hold', hold'[s].source) <= ops'[hold'[s].source].sums.done
  <2>1. ShapesOK /\ hold \in [Session -> Hold \cup {NoHold}]
    BY <1>1 DEF LedgerInv, ShapesOK
  <2>2. PICK t \in Session : WritesMaterial(t)
    BY <1>1, <2>1, StepMaterial
  <2>3. t = s
    BY <1>1, <2>1, <2>2 DEF WritesMaterial, Releases, Draws
  <2>4. PICK o \in Operation, n \in Nat : Draws(s, o, n) /\ KeepsOthers(s, o)
    BY <1>1, <2>1, <2>2, <2>3 DEF WritesMaterial, Releases
  <2>5. hold'[s].source = Source[o] /\ Source[o] \in Operation /\ Source[o] # o
    BY <2>1, <2>4, ConfigAssumption, FlowAssumption DEF Draws
  <2>6. ops'[Source[o]].sums = ops[Source[o]].sums
    BY <1>1, <2>4, <2>5 DEF KeepsOthers
  <2>7. Allocated(hold', Source[o]) <= ops[Source[o]].sums.done
    BY <1>1, <2>5, HandsOutStep
  <2> QED BY <2>5, <2>6, <2>7
<1>2. LedgerInv /\ [Next]_vars =>
        [\A s \in Session :
           /\ hold'[s] # hold[s] /\ hold'[s] # NoHold
           /\ Exists(s) => sess[s].op # hold'[s].source
           /\ Allocated(hold', hold'[s].source) > Allocated(hold, hold'[s].source)
           => Allocated(hold', hold'[s].source) <= ops'[hold'[s].source].sums.done]_vars
  BY <1>1
<1> QED BY <1>2, LedgerAlways, PTL DEF Spec, DrawnElsewhereIsSupplied

\* A step that moves a session writes no other session.
LEMMA MoverAlone ==
  ASSUME ShapesOK, [Next]_vars, NEW s \in Session, Exists(s), sess'[s].op # sess[s].op
  PROVE  OnlySession(s)
<1>1. ASSUME NEW t \in Session, OnlySession(t) PROVE OnlySession(s)
  BY <1>1 DEF OnlySession
<1>2. ASSUME NEW t \in Session, SessionStep(t) PROVE OnlySession(s)
  <2>1. ASSUME NEW w \in Session \ {t}, NEW e \in Employee,
               NEW n \in 0..sess[t].rework, NEW m \in 0..sess[t].rework,
               Resolve(t, w, e, n, m)
        PROVE  FALSE
    <3>1. /\ ~Exists(w) /\ Credited(sess'[t], sess[t], n, m)
          /\ \A u \in Session \ {t, w} : sess'[u] = sess[u] /\ bucket'[u] = bucket[u]
      BY <2>1, ResolveEffect, Zenon
    <3> QED BY <3>1 DEF Credited
  <2> QED BY <1>1, <1>2, <2>1, StartEffect, FinishEffect, AutoCloseEffect
          DEF SessionStep
<1>3. ASSUME NEW t \in Session, SupervisorStep(t) PROVE OnlySession(s)
  BY <1>1, <1>3, AdjustEffect, EditEffect, TransferEffect, ExcludeEffect,
     RestoreEffect, CreateManualEffect DEF SupervisorStep
<1>4. CASE Quiet
  BY <1>4, QuietEffect
<1> QED BY <1>2, <1>3, <1>4 DEF Next, Quiet

\* What the other sessions add to an operation stays when one session is written.
LEMMA RestStays ==
  ASSUME NEW ss, NEW tt, NEW s, NEW o, \A u \in Session \ {s} : tt[u] = ss[u]
  PROVE  RollupBut(tt, s, o) = RollupBut(ss, s, o)
<1> DEFINE D(qq) == {u \in Session \ {s} : Contribution(qq, u, o) # NoSums}
<1>1. \A u \in Session \ {s} : Contribution(tt, u, o) = Contribution(ss, u, o)
  BY DEF Contribution, Reportable
<1>2. D(tt) = D(ss)
  BY <1>1
<1>3. [u \in D(tt) |-> Contribution(tt, u, o)] = [u \in D(ss) |-> Contribution(ss, u, o)]
  BY <1>1, <1>2
<1> QED BY <1>3 DEF RollupBut

\* Pieces handed over from one sum to another.
LEMMA HandedOver ==
  ASSUME NEW c \in Sums, NEW a \in Sums, NEW b \in Sums
  PROVE  PlusSums(PlusSums(NoSums, a), PlusSums(c, b))
           = PlusSums(PlusSums(c, a), PlusSums(NoSums, b))
BY DEF Sums, PlusSums, NoSums

\* A session that moves takes its pieces along, in all five aggregates, whatever
\* else is recorded on the two operations, if those were exact.
THEOREM MovesWhole == Spec => MoveKeepsPieces
<1>1. ASSUME LedgerInv, [Next]_vars, NEW s \in Session, Exists(s),
             sess'[s].op # sess[s].op,
             sess'[s] = [sess[s] EXCEPT !.op = sess'[s].op],
             Exact(sess[s].op), Exact(sess'[s].op)
      PROVE  PlusSums(ops'[sess[s].op].sums, ops'[sess'[s].op].sums)
               = PlusSums(ops[sess[s].op].sums, ops[sess'[s].op].sums)
  <2> DEFINE old == sess[s].op
             new == sess'[s].op
             c   == Contribution(sess, s, old)
             a   == RollupBut(sess, s, old)
             b   == RollupBut(sess, s, new)
  <2>1. /\ ShapesOK /\ ShapesOK' /\ FiniteInv /\ FiniteInv'
    BY <1>1, LedgerNext DEF LedgerInv
  <2>2. /\ sess \in [Session -> SessionRow] /\ sess' \in [Session -> SessionRow]
        /\ IsFiniteSet({t \in Session : sess[t].status # "NONE"})
        /\ IsFiniteSet({t \in Session : sess'[t].status # "NONE"})
    BY <2>1 DEF ShapesOK, SessionsOK, FiniteInv, Exists
  <2>3. /\ sess'[s].status = sess[s].status /\ sess'[s].excluded = sess[s].excluded
        /\ sess'[s].good = sess[s].good /\ sess'[s].defect = sess[s].defect
        /\ sess'[s].rework = sess[s].rework /\ sess'[s].repaired = sess[s].repaired
        /\ sess'[s].scrap = sess[s].scrap
    BY <1>1, <2>2 DEF SessionRow
  <2>4. old \in Operation /\ new \in Operation
    BY <1>1, <2>1, <2>3 DEF ShapesOK, SessionsOK, Exists
  <2>5. \A u \in Session \ {s} : sess'[u] = sess[u]
    BY <1>1, <2>1, MoverAlone DEF OnlySession
  <2>6. /\ Contribution(sess', s, new) = c
        /\ Contribution(sess', s, old) = NoSums
        /\ Contribution(sess, s, new) = NoSums
    BY <1>1, <2>3 DEF Contribution, Reportable
  <2>7. RollupBut(sess', s, old) = a /\ RollupBut(sess', s, new) = b
    BY <2>5, RestStays
  <2>8. c \in Sums /\ a \in Sums /\ b \in Sums
    BY <2>2, ContributionType, RollupSplit
  <2>9. /\ Rollup(sess, old) = PlusSums(c, a)
        /\ Rollup(sess, new) = PlusSums(NoSums, b)
    BY <2>2, <2>6, RollupSplit
  <2>10. /\ Rollup(sess', old) = PlusSums(NoSums, a)
         /\ Rollup(sess', new) = PlusSums(c, b)
    BY <2>2, <2>6, <2>7, RollupSplit
  <2>11. /\ ops[old].sums = Rollup(sess, old) /\ ops[new].sums = Rollup(sess, new)
         /\ ops'[old].sums = Rollup(sess', old) /\ ops'[new].sums = Rollup(sess', new)
    <3>1. ~SavedUnseen(old) /\ ~SavedUnseen(new)
      BY <1>1 DEF SavedUnseen, SaveOperation
    <3> QED BY <1>1, <2>1, <2>4, <3>1, RollupNext DEF Settled, Exact
  <2> HIDE DEF old, new, a, b, c
  <2>12. PlusSums(ops'[old].sums, ops'[new].sums)
           = PlusSums(ops[old].sums, ops[new].sums)
    BY <2>8, <2>9, <2>10, <2>11, HandedOver
  <2> QED BY <2>12 DEF old, new
<1>2. LedgerInv /\ [Next]_vars =>
        [\A s \in Session :
           LET old == sess[s].op  new == sess'[s].op IN
           /\ Exists(s) /\ new # old /\ sess'[s] = [sess[s] EXCEPT !.op = new]
           /\ Exact(old) /\ Exact(new)
           => PlusSums(ops'[old].sums, ops'[new].sums)
                = PlusSums(ops[old].sums, ops[new].sums)]_vars
  BY <1>1
<1> QED BY <1>2, LedgerAlways, PTL DEF Spec, MoveKeepsPieces

-----------------------------------------------------------------------------
(* Machine setups *)

\* A session on a SETUP operation has no quantities, OPEN or CLOSED, counted or not.
SetupInv ==
  \A s \in Session : Exists(s) /\ Kind[sess[s].op] = "SETUP" => CarriesNothing(sess[s])

\* A step that writes one session's row.
LEMMA SetupKept ==
  ASSUME SetupInv, NEW s \in Session, OnlySession(s),
         Kind[sess'[s].op] = "SETUP" => CarriesNothing(sess'[s])
  PROVE  SetupInv'
BY DEF SetupInv, OnlySession, Exists, CarriesNothing

LEMMA SetupNext == ShapesOK /\ SetupInv /\ [Next]_vars => SetupInv'
<1> SUFFICES ASSUME ShapesOK, SetupInv, [Next]_vars PROVE SetupInv'
  OBVIOUS
<1>1. ASSUME NEW s \in Session, SessionStep(s) PROVE SetupInv'
  <2>1. ASSUME NEW e \in Employee, NEW o \in Operation, Start(s, e, o) PROVE SetupInv'
    <3>1. OnlySession(s) /\ Written(sess'[s], e, o, "OPEN", Nothing, NoCredit, FALSE)
      BY <2>1, StartEffect, Zenon
    <3>2. CarriesNothing(sess'[s])
      BY <3>1 DEF Written, Nothing, CarriesNothing
    <3> QED BY <3>1, <3>2, SetupKept
  <2>2. ASSUME NEW r \in Report, Finish(s, r) PROVE SetupInv'
    <3> DEFINE typed == IF Kind[sess[s].op] = "SETUP" THEN Nothing ELSE r
    <3>1. /\ OnlySession(s)
          /\ Written(sess'[s], sess[s].emp, sess[s].op, "CLOSED", typed, sess[s],
                     sess[s].excluded)
      BY <2>2, FinishEffect, Zenon
    <3>2. Kind[sess'[s].op] = "SETUP" => CarriesNothing(sess'[s])
      BY <3>1 DEF Written, Nothing, CarriesNothing
    <3> QED BY <3>1, <3>2, SetupKept
  <2>3. CASE AutoClose(s)
    <3>1. /\ sess[s].status = "OPEN" /\ OnlySession(s)
          /\ Written(sess'[s], sess[s].emp, sess[s].op, "CLOSED", sess[s], sess[s],
                     sess[s].excluded)
      BY <2>3, AutoCloseEffect, Zenon DEF AutoClose
    <3>2. Kind[sess'[s].op] = "SETUP" => CarriesNothing(sess'[s])
      BY <3>1 DEF Written, SetupInv, Exists, CarriesNothing
    <3> QED BY <3>1, <3>2, SetupKept
  <2>4. ASSUME NEW w \in Session \ {s}, NEW e \in Employee,
               NEW n \in 0..sess[s].rework, NEW m \in 0..sess[s].rework,
               Resolve(s, w, e, n, m)
        PROVE  SetupInv'
    <3>1. /\ Credited(sess'[s], sess[s], n, m)
          /\ Written(sess'[w], e, Bench[sess[s].op], "CLOSED", Nothing, NoCredit, FALSE)
          /\ \A t \in Session \ {s, w} : sess'[t] = sess[t]
      BY <2>4, ResolveEffect, Zenon
    <3>2. Kind[sess'[s].op] # "SETUP"
      BY <2>4, <3>1 DEF Resolve, IsSupport, Credited
    <3>3. CarriesNothing(sess'[w])
      BY <3>1 DEF Written, Nothing, CarriesNothing
    <3> QED BY <3>1, <3>2, <3>3 DEF SetupInv, Exists
  <2> QED BY <1>1, <2>1, <2>2, <2>3, <2>4 DEF SessionStep
<1>2. ASSUME NEW s \in Session, SupervisorStep(s) PROVE SetupInv'
  <2>1. ASSUME NEW r \in Report, Adjust(s, r) PROVE SetupInv'
    <3>1. /\ OnlySession(s) /\ SupportGuard(sess[s].op, r)
          /\ Written(sess'[s], sess[s].emp, sess[s].op, sess[s].status, r, sess[s],
                     sess[s].excluded)
      BY <2>1, AdjustEffect, Zenon DEF Adjust
    <3>2. Kind[sess'[s].op] = "SETUP" => CarriesNothing(sess'[s])
      BY <3>1 DEF Written, SupportGuard, IsSupport, CarriesNothing
    <3> QED BY <3>1, <3>2, SetupKept
  <2>2. ASSUME NEW e \in Employee, NEW o \in Operation, NEW st \in {"OPEN", "CLOSED"},
               NEW r \in Form(s), Edit(s, e, o, st, r)
        PROVE  SetupInv'
    <3>1. /\ OnlySession(s) /\ SupportGuard(o, r)
          /\ Written(sess'[s], e, o, st, r, sess[s], sess[s].excluded)
      BY <2>2, EditEffect, Zenon DEF Edit
    <3>2. Kind[sess'[s].op] = "SETUP" => CarriesNothing(sess'[s])
      BY <3>1 DEF Written, SupportGuard, IsSupport, CarriesNothing
    <3> QED BY <3>1, <3>2, SetupKept
  <2>3. ASSUME NEW o \in Operation, Transfer(s, o) PROVE SetupInv'
    <3>1. /\ OnlySession(s)
          /\ IsSupport(o) => CarriesNothing(sess[s])
          /\ Written(sess'[s], sess[s].emp, o, sess[s].status, sess[s], sess[s],
                     sess[s].excluded)
      BY <2>3, TransferEffect, Zenon
    <3>2. Kind[sess'[s].op] = "SETUP" => CarriesNothing(sess'[s])
      BY <3>1 DEF Written, IsSupport, CarriesNothing
    <3> QED BY <3>1, <3>2, SetupKept
  <2>4. CASE Exclude(s) \/ Restore(s)
    <3>1. PICK x : /\ Exists(s) /\ OnlySession(s)
                   /\ Written(sess'[s], sess[s].emp, sess[s].op, sess[s].status,
                              sess[s], sess[s], x)
      BY <2>4, ExcludeEffect, RestoreEffect
    <3>2. Kind[sess'[s].op] = "SETUP" => CarriesNothing(sess'[s])
      BY <3>1 DEF Written, SetupInv, CarriesNothing
    <3> QED BY <3>1, <3>2, SetupKept
  <2>5. ASSUME NEW e \in Employee, NEW o \in Operation, NEW r \in Report,
               CreateManual(s, e, o, r)
        PROVE  SetupInv'
    <3>1. /\ OnlySession(s) /\ Kind[o] # "SETUP"
          /\ Written(sess'[s], e, o, "CLOSED", r, NoCredit, FALSE)
      BY <2>5, CreateManualEffect, Zenon DEF CreateManual
    <3> QED BY <3>1, SetupKept DEF Written
  <2> QED BY <1>2, <2>1, <2>2, <2>3, <2>4, <2>5 DEF SupervisorStep
<1>3. CASE Quiet
  <2>1. UNCHANGED sess
    BY <1>3, QuietEffect
  <2> QED BY <2>1 DEF SetupInv, Exists
<1> QED BY <1>1, <1>2, <1>3 DEF Next, Quiet

\* Such sessions add up to nothing.
LEMMA SetupRollup ==
  ASSUME NEW ss \in [Session -> SessionRow], NEW o,
         \A s \in Session : /\ Reportable(ss, s, o) => CarriesNothing(ss[s])
                            /\ ss[s].repaired + ss[s].scrap <= ss[s].rework
  PROVE  Rollup(ss, o) = NoSums
<1>1. ASSUME NEW s \in Session PROVE Contribution(ss, s, o) = NoSums
  <2>1. CASE Reportable(ss, s, o)
    <3>1. ss[s].good = 0 /\ ss[s].defect = 0 /\ ss[s].rework = 0
      BY <2>1 DEF CarriesNothing
    <3>2. ss[s].repaired \in Nat /\ ss[s].scrap \in Nat
      BY DEF SessionRow
    <3>3. ss[s].repaired = 0 /\ ss[s].scrap = 0
      BY <3>1, <3>2
    <3> QED BY <3>1, <3>3 DEF Contribution, NoSums
  <2>2. CASE ~Reportable(ss, s, o)
    BY <2>2 DEF Contribution
  <2> QED BY <2>1, <2>2
<1>2. {t \in Session : Contribution(ss, t, o) # NoSums} = {}
  BY <1>1
<1>3. Rollup(ss, o) = Total([s \in {} |-> Contribution(ss, s, o)])
  BY <1>2 DEF Rollup
<1> QED BY <1>3, NothingAddsUp

\* A form that read a SETUP operation puts nothing back there.
SetupForms ==
  \A c \in Clerk : form[c] # NoForm /\ Kind[form[c].op] = "SETUP"
                     => form[c].sums = NoSums

SetupTotals ==
  ShapesOK /\ CreditInv /\ SetupInv /\ SetupMakesNothing /\ SetupForms

LEMMA SetupTotalsNext == SetupTotals /\ [Next]_vars => SetupTotals'
<1> SUFFICES ASSUME SetupTotals, [Next]_vars PROVE SetupTotals'
  OBVIOUS
<1>1. ShapesOK' /\ CreditInv' /\ SetupInv'
  BY TypeNext, CreditNext, SetupNext DEF SetupTotals
<1>2. ASSUME NEW o \in Operation, Kind[o] = "SETUP" PROVE ops'[o].sums = NoSums
  <2>1. CASE Exact(o)'
    <3>1. sess' \in [Session -> SessionRow]
      BY <1>1 DEF ShapesOK, SessionsOK
    <3>2. ASSUME NEW s \in Session
          PROVE  /\ Reportable(sess', s, o) => CarriesNothing(sess'[s])
                 /\ sess'[s].repaired + sess'[s].scrap <= sess'[s].rework
      BY <1>1, <1>2 DEF SetupInv, CreditInv, ReworkCreditedOnce, Reportable, Exists
    <3>3. Rollup(sess', o) = NoSums
      BY <3>1, <3>2, SetupRollup
    <3> QED BY <2>1, <3>3 DEF Exact
  <2>2. CASE ops'[o].sums = ops[o].sums
    BY <1>2, <2>2 DEF SetupTotals, SetupMakesNothing
  <2>3. ASSUME NEW c \in Clerk, form[c] # NoForm, form[c].op = o, form[c].sent,
               form[c].history = "NONE", SaveOperation(c)
        PROVE  ops'[o].sums = NoSums
    <3>1. ops'[o].sums = [ops[o].sums EXCEPT !.done = form[c].sums.done,
                                             !.defect = form[c].sums.defect,
                                             !.rework = form[c].sums.rework]
      BY <2>3, SaveEffect, PutBackShape DEF SetupTotals
    <3>2. ops[o].sums = NoSums /\ form[c].sums = NoSums
      BY <1>2, <2>3 DEF SetupTotals, SetupMakesNothing, SetupForms
    <3> QED BY <3>1, <3>2 DEF NoSums
  <2> QED BY <2>1, <2>2, <2>3, RollupNext DEF Settled, SavedUnseen, SetupTotals
<1>3. SetupForms'
  <2> SUFFICES ASSUME NEW c \in Clerk, form'[c] # NoForm, Kind[form'[c].op] = "SETUP"
               PROVE  form'[c].sums = NoSums
    BY DEF SetupForms
  <2> QED BY FormRows DEF SetupTotals, SetupMakesNothing, SetupForms
<1> QED BY <1>1, <1>2, <1>3 DEF SetupTotals, SetupMakesNothing

\* The aggregates of a SETUP operation stay empty: none of its sessions has
\* quantities, with nothing repairable nothing was repaired or scrapped either,
\* and what a form read of it and puts back is nothing.
THEOREM SetupsMakeNothing == Spec => []SetupMakesNothing
<1>1. Init => SetupTotals
  <2>1. Init => CreditInv /\ SetupInv /\ SetupForms
    BY DEF Init, CreditInv, ReworkCreditedOnce, SetupInv, SetupForms, Exists, Blank
  <2>2. ASSUME Init PROVE SetupMakesNothing
    <3>1. /\ \A o \in Operation : ops[o].sums = Rollup(sess, o)
          /\ \A s \in Session : sess[s] = Blank(NoEmployee, NoOp, "NONE")
      BY <2>2 DEF Init
    <3>2. sess \in [Session -> SessionRow]
      BY <2>2, TypeInit DEF ShapesOK, SessionsOK
    <3> QED BY <3>1, <3>2, SetupRollup DEF SetupMakesNothing, Reportable, Blank
  <2> QED BY <2>1, <2>2, TypeInit DEF SetupTotals
<1>2. SetupTotals => SetupMakesNothing
  BY DEF SetupTotals
<1> QED BY <1>1, <1>2, SetupTotalsNext, PTL DEF Spec
=============================================================================
