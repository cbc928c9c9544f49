----------------------- MODULE ProductionStatus_proofs -----------------------
(***************************************************************************)
(* Proofs about the statuses that ProductionLedger rebuilds: no step hides *)
(* work that is going on, and none leaves an order COMPLETED with open     *)
(* production operations, but for the forms the properties name.           *)
(***************************************************************************)
EXTENDS ProductionLedger_proofs

-----------------------------------------------------------------------------
(* Operations *)

\* Somebody works on operation o, and the session counts in the reports.
Running(ss, o) == \E s \in Session : Reportable(ss, s, o) /\ ss[s].status = "OPEN"

\* Rebuilding an operation does not revive a cancelled one or cancel another, and
\* one that somebody works on is IN_PROGRESS afterwards.
LEMMA StatusRebuilt ==
  ASSUME NEW os, NEW ss, NEW o \in Operation, Shaped(os)
  PROVE  LET new == ReconcileOperation(os, ss, o) IN
         /\ new[o].status = "CANCELLED" <=> os[o].status = "CANCELLED"
         /\ Running(ss, o) => new[o].status \in {"IN_PROGRESS", "CANCELLED"}
<1> DEFINE done == Rollup(ss, o).done
           planned == orders[OrderOf[o]].planned
           status == NextOperationStatus(os[o].status, ss, o, done, planned)
<1>1. /\ status = "CANCELLED" <=> os[o].status = "CANCELLED"
      /\ Running(ss, o) => status \in {"IN_PROGRESS", "CANCELLED"}
  <2> HIDE DEF done, planned
  <2> QED BY DEF NextOperationStatus, Running, Shaped, OperationStatus
<1>2. ReconcileOperation(os, ss, o)[o].status = status
  <2>1. o \in DOMAIN os
    BY DEF Shaped
  <2> HIDE DEF status
  <2>2. ReconcileOperation(os, ss, o)
          = [os EXCEPT ![o] = [status |-> status, sums |-> Rollup(ss, o)]]
    BY DEF ReconcileOperation, status
  <2> QED BY <2>1, <2>2
<1> QED BY <1>1, <1>2

\* The operations of O are rebuilt from the new sessions, the others are as before.
StatusOf(O) ==
  /\ \A o \in O : /\ ops'[o].status = "CANCELLED" <=> ops[o].status = "CANCELLED"
                  /\ Running(sess', o) => ops'[o].status \in {"IN_PROGRESS", "CANCELLED"}
  /\ \A x \in Operation \ O : ops'[x].status = ops[x].status

LEMMA StatusOfOne ==
  ASSUME ShapesOK, NEW o \in Operation, Reconciled(o)
  PROVE  StatusOf({o})
<1>1. Shaped(ops)
  BY DEF ShapesOK, OperationsOK, Shaped
<1>2. ops' = ReconcileOperation(ops, sess', o)
  BY DEF Reconciled
<1>3. \A x \in Operation \ {o} : ops'[x] = ops[x]
  BY <1>1, <1>2, RebuildOperation
<1>4. /\ ops'[o].status = "CANCELLED" <=> ops[o].status = "CANCELLED"
      /\ Running(sess', o) => ops'[o].status \in {"IN_PROGRESS", "CANCELLED"}
  BY <1>1, <1>2, StatusRebuilt
<1> QED BY <1>3, <1>4 DEF StatusOf

LEMMA StatusOfTwo ==
  ASSUME ShapesOK, NEW o1 \in Operation, NEW o2 \in Operation, o1 # o2,
         ReconciledBoth(o1, o2)
  PROVE  StatusOf({o1, o2})
<1> DEFINE os1 == ReconcileOperation(ops, sess', o1)
<1>1. Shaped(ops)
  BY DEF ShapesOK, OperationsOK, Shaped
<1>2. ops' = ReconcileOperation(os1, sess', o2)
  BY DEF ReconciledBoth
<1>3. Shaped(os1) /\ \A x \in Operation \ {o1} : os1[x] = ops[x]
  BY <1>1, RebuildOperation
<1>4. /\ os1[o1].status = "CANCELLED" <=> ops[o1].status = "CANCELLED"
      /\ Running(sess', o1) => os1[o1].status \in {"IN_PROGRESS", "CANCELLED"}
  BY <1>1, StatusRebuilt
<1> HIDE DEF os1
<1>5. \A x \in Operation \ {o2} : ops'[x] = os1[x]
  BY <1>2, <1>3, RebuildOperation
<1>6. /\ ops'[o2].status = "CANCELLED" <=> os1[o2].status = "CANCELLED"
      /\ Running(sess', o2) => ops'[o2].status \in {"IN_PROGRESS", "CANCELLED"}
  BY <1>2, <1>3, StatusRebuilt
<1> QED BY <1>3, <1>4, <1>5, <1>6 DEF StatusOf

\* A session that nobody sees at work was already so, on the same operation in the
\* same status.
AsBefore(t) ==
  Unshown(t)' => LET x == sess'[t].op IN
                 Unshown(t) /\ sess[t].op = x /\ ops'[x].status = ops[x].status

Shows == \A t \in Session : AsBefore(t)

\* A command that writes one session and rebuilds where it was and where it is
\* hides nobody's work, provided the session, if it is OPEN now, was OPEN there
\* before or is not on a cancelled operation.
LEMMA OneSessionStatus ==
  ASSUME ShapesOK, ShapesOK', NEW s \in Session, OnlySession(s),
         NEW O \in SUBSET Operation, StatusOf(O), sess'[s].op \in O,
         sess'[s].status = "OPEN" =>
            \/ ops[sess'[s].op].status # "CANCELLED"
            \/ sess[s].status = "OPEN" /\ sess[s].op = sess'[s].op
  PROVE  Shows
<1> SUFFICES ASSUME NEW t \in Session, Unshown(t)'
             PROVE  LET x == sess'[t].op IN
                    Unshown(t) /\ sess[t].op = x /\ ops'[x].status = ops[x].status
  BY DEF Shows, AsBefore
<1> DEFINE x == sess'[t].op
<1>1. x \in Operation /\ sess'[t].status = "OPEN"
  BY DEF ShapesOK, SessionsOK, Exists, Unshown
<1>2. CASE x \in O
  <2>1. ~sess'[t].excluded => Running(sess', x)
    BY <1>1 DEF Running, Reportable
  <2>2. ops'[x].status = "CANCELLED" /\ ops[x].status = "CANCELLED"
    BY <1>2, <2>1 DEF StatusOf, Unshown
  <2>3. sess[t].status = "OPEN" /\ sess[t].op = x
    <3>1. CASE t = s
      BY <1>1, <2>2, <3>1
    <3>2. CASE t # s
      BY <1>1, <3>2 DEF OnlySession
    <3> QED BY <3>1, <3>2
  <2> QED BY <2>2, <2>3 DEF Unshown
<1>3. CASE x \notin O
  <2>1. t # s
    BY <1>3
  <2>2. sess[t] = sess'[t]
    BY <2>1 DEF OnlySession
  <2>3. ops'[x].status = ops[x].status
    BY <1>1, <1>3 DEF StatusOf
  <2> QED BY <2>2, <2>3 DEF Unshown
<1> QED BY <1>2, <1>3

LEMMA SessionsShow ==
  ASSUME ShapesOK, [Next]_vars, NEW s \in Session, SessionStep(s) \/ SupervisorStep(s)
  PROVE  Shows
<1>0. ShapesOK'
  BY TypeNext
<1>1. CASE SessionStep(s)
  <2>1. ASSUME NEW e \in Employee, NEW o \in Operation, Start(s, e, o)
        PROVE  Shows
    <3> DEFINE os == ReconcileOperation(ops, sess, o)
    <3>1. /\ OnlySession(s)
          /\ sess'[s].op = o /\ sess'[s].status = "OPEN" /\ ~sess'[s].excluded
      BY <2>1, StartEffect DEF Written
    <3>2. Shaped(ops)
      BY DEF ShapesOK, OperationsOK, Shaped
    <3>3. Shaped(os) /\ \A x \in Operation \ {o} : os[x] = ops[x]
      BY <3>2, RebuildOperation
    <3>4. os[o].status # "CANCELLED" /\ ops' = ReconcileOperation(os, sess', o)
      BY <2>1 DEF Start
    <3>5. ops[o].status # "CANCELLED"
      <4>1. SUFFICES ASSUME ops[o].status = "CANCELLED" PROVE FALSE
        OBVIOUS
      <4>2. o \in DOMAIN ops
        BY <3>2 DEF Shaped
      <4>3. os[o].status = "CANCELLED"
        BY <4>1, <4>2 DEF ReconcileOperation, NextOperationStatus
      <4> QED BY <3>4, <4>3
    <3> HIDE DEF os
    <3>6. /\ ops'[o].status = "CANCELLED" <=> os[o].status = "CANCELLED"
          /\ Running(sess', o) => ops'[o].status \in {"IN_PROGRESS", "CANCELLED"}
          /\ \A x \in Operation \ {o} : ops'[x] = os[x]
      BY <3>3, <3>4, RebuildOperation, StatusRebuilt
    <3>7. StatusOf({o})
      BY <3>3, <3>4, <3>5, <3>6 DEF StatusOf
    <3> QED BY <1>0, <3>1, <3>5, <3>7, OneSessionStatus
  <2>2. ASSUME NEW r \in Report, Finish(s, r) PROVE Shows
    <3>1. /\ OnlySession(s) /\ sess[s].op \in Operation
          /\ sess'[s].op = sess[s].op /\ sess'[s].status = "CLOSED"
      BY <2>2, FinishEffect DEF Written
    <3>2. Reconciled(sess[s].op)
      BY <2>2 DEF Finish
    <3> QED BY <1>0, <3>1, <3>2, StatusOfOne, OneSessionStatus
  <2>3. CASE AutoClose(s)
    <3>1. /\ OnlySession(s) /\ sess[s].op \in Operation
          /\ sess'[s].op = sess[s].op /\ sess'[s].status = "CLOSED"
      BY <2>3, AutoCloseEffect DEF Written
    <3>2. Reconciled(sess[s].op)
      BY <2>3 DEF AutoClose
    <3> QED BY <1>0, <3>1, <3>2, StatusOfOne, OneSessionStatus
  <2>4. ASSUME NEW w \in Session \ {s}, NEW e \in Employee,
               NEW n \in 0..sess[s].rework, NEW m \in 0..sess[s].rework,
               Resolve(s, w, e, n, m)
        PROVE  Shows
    <3> DEFINE o == sess[s].op
    <3>1. /\ o \in Operation /\ sess[s].status = "CLOSED"
          /\ Credited(sess'[s], sess[s], n, m)
          /\ Written(sess'[w], e, Bench[o], "CLOSED", Nothing, NoCredit, FALSE)
          /\ \A t \in Session \ {s, w} : sess'[t] = sess[t]
      BY <2>4, ResolveEffect, Zenon
    <3>2. /\ o \in Operation
          /\ sess'[s].status = "CLOSED" /\ sess'[w].status = "CLOSED"
          /\ \A t \in Session \ {s, w} : sess'[t] = sess[t]
      BY <3>1 DEF Credited, Written
    <3>3. StatusOf({o})
      BY <2>4, <3>2, StatusOfOne DEF Resolve
    <3>4. ASSUME NEW t \in Session, Unshown(t)'
          PROVE  LET x == sess'[t].op IN
                 Unshown(t) /\ sess[t].op = x /\ ops'[x].status = ops[x].status
      <4>1. sess'[t] = sess[t] /\ sess[t].status = "OPEN"
        BY <3>2, <3>4 DEF Unshown
      <4>2. sess[t].op \in Operation
        BY <4>1, ExistingRow DEF Exists
      <4>3. ~sess[t].excluded => Running(sess', sess[t].op)
        BY <4>1 DEF Running, Reportable
      <4>4. ops'[sess[t].op].status = ops[sess[t].op].status
        BY <3>3, <3>4, <4>1, <4>2, <4>3 DEF StatusOf, Unshown
      <4> QED BY <3>4, <4>1, <4>4 DEF Unshown
    <3> QED BY <3>4 DEF Shows, AsBefore
  <2> QED BY <1>1, <2>1, <2>2, <2>3, <2>4 DEF SessionStep
<1>2. CASE SupervisorStep(s)
  <2>0. ASSUME Exists(s), sess[s].op \in Operation, OnlySession(s),
               sess'[s].op = sess[s].op, sess'[s].status = sess[s].status,
               Reconciled(sess[s].op)
        PROVE  Shows
    BY <1>0, <2>0, StatusOfOne, OneSessionStatus
  <2>1. ASSUME NEW r \in Report, Adjust(s, r) PROVE Shows
    <3>1. /\ Exists(s) /\ sess[s].op \in Operation /\ OnlySession(s)
          /\ sess'[s].op = sess[s].op /\ sess'[s].status = sess[s].status
      BY <2>1, AdjustEffect DEF Written
    <3>2. Reconciled(sess[s].op)
      BY <2>1 DEF Adjust
    <3> QED BY <2>0, <3>1, <3>2
  <2>2. ASSUME NEW e \in Employee, NEW o \in Operation, NEW st \in {"OPEN", "CLOSED"},
               NEW r \in Form(s), Edit(s, e, o, st, r)
        PROVE  Shows
    <3>1. /\ sess[s].op \in Operation /\ OnlySession(s)
          /\ Written(sess'[s], e, o, st, r, sess[s], sess[s].excluded)
      BY <2>2, EditEffect, Zenon
    <3>2. sess'[s].op = o /\ sess'[s].status = st
      BY <3>1 DEF Written
    <3>3. /\ st = "OPEN" => ops[o].status # "CANCELLED"
          /\ IF o = sess[s].op THEN Reconciled(o) ELSE ReconciledBoth(sess[s].op, o)
      BY <2>2 DEF Edit
    <3>4. StatusOf({sess[s].op, o})
      <4>1. CASE o = sess[s].op
        <5>1. StatusOf({o})
          BY <3>3, <4>1, StatusOfOne
        <5>2. {sess[s].op, o} = {o}
          BY <4>1
        <5> QED BY <5>1, <5>2
      <4>2. CASE o # sess[s].op
        BY <3>1, <3>3, <4>2, StatusOfTwo
      <4> QED BY <4>1, <4>2
    <3> QED BY <1>0, <3>1, <3>2, <3>3, <3>4, OneSessionStatus
  <2>3. ASSUME NEW o \in Operation, Transfer(s, o) PROVE Shows
    <3>1. sess[s].op \in Operation /\ OnlySession(s) /\ sess'[s].op = o
      BY <2>3, TransferEffect DEF Written
    <3>2. ops[o].status # "CANCELLED" /\ o # sess[s].op /\ ReconciledBoth(sess[s].op, o)
      BY <2>3 DEF Transfer
    <3>3. StatusOf({sess[s].op, o})
      BY <3>1, <3>2, StatusOfTwo
    <3> QED BY <1>0, <3>1, <3>2, <3>3, OneSessionStatus
  <2>4. CASE Exclude(s) \/ Restore(s)
    <3>1. /\ Exists(s) /\ sess[s].op \in Operation /\ OnlySession(s)
          /\ sess'[s].op = sess[s].op /\ sess'[s].status = sess[s].status
      BY <2>4, ExcludeEffect, RestoreEffect DEF Written
    <3>2. Reconciled(sess[s].op)
      BY <2>4 DEF Exclude, Restore
    <3> QED BY <2>0, <3>1, <3>2
  <2>5. ASSUME NEW e \in Employee, NEW o \in Operation, NEW r \in Report,
               CreateManual(s, e, o, r)
        PROVE  Shows
    <3>1. OnlySession(s) /\ sess'[s].op = o /\ sess'[s].status = "CLOSED"
      BY <2>5, CreateManualEffect DEF Written
    <3>2. StatusOf({o})
      BY <2>5, StatusOfOne DEF CreateManual
    <3> QED BY <1>0, <3>1, <3>2, OneSessionStatus
  <2> QED BY <1>2, <2>1, <2>2, <2>3, <2>4, <2>5 DEF SupervisorStep
<1> QED BY <1>1, <1>2

\* A cancellation waits for the last OPEN session.
LEMMA OrdersShow ==
  ASSUME ShapesOK, OrderStep
  PROVE  Shows
<1>1. ASSUME NEW o \in Operation, CancelOperation(o) PROVE Shows
  <2>1. /\ sess' = sess
        /\ \A s \in Session : ~(sess[s].status = "OPEN" /\ sess[s].op = o)
        /\ ops' = [ops EXCEPT ![o].status = "CANCELLED"]
    BY <1>1 DEF CancelOperation
  <2>2. \A x \in Operation \ {o} : ops'[x] = ops[x]
    BY <2>1 DEF ShapesOK, OperationsOK
  <2>3. ASSUME NEW s \in Session, sess[s].status = "OPEN"
        PROVE  sess[s].op \in Operation \ {o}
    BY <2>1, <2>3, ExistingRow DEF Exists
  <2> QED BY <2>1, <2>2, <2>3 DEF Shows, AsBefore, Unshown
<1>2. CASE ~ \E o \in Operation : CancelOperation(o)
  <2>1. UNCHANGED <<sess, ops>>
    BY <1>2, OrderRowEffect DEF OrderStep
  <2> QED BY <2>1 DEF Shows, AsBefore, Unshown
<1> QED BY <1>1, <1>2

\* The operation form hides work in the two ways the property names.
LEMMA FormsShow ==
  ASSUME ShapesOK, NEW c \in Clerk, FormStep(c), NEW t \in Session,
         ~SavedUnseen(sess'[t].op), ~SavedCancelled(sess'[t].op)
  PROVE  AsBefore(t)
<1> DEFINE o  == form[c].op
           os == PutBack(c)
<1>1. sess' = sess
  BY DEF FormStep, AskUpdate, CountSessions, SaveOperation, DropForm
<1>2. CASE ~SaveOperation(c)
  <2>1. ops' = ops
    BY <1>2 DEF FormStep, AskUpdate, CountSessions, DropForm
  <2> QED BY <1>1, <2>1 DEF AsBefore, Unshown
<1>3. ASSUME SaveOperation(c), Unshown(t)', sess[t].op # o PROVE AsBefore(t)
  <2>1. sess[t].op \in Operation \ {o}
    BY <1>1, <1>3, ExistingRow DEF Unshown, Exists
  <2>2. ops'[sess[t].op] = ops[sess[t].op]
    BY <1>3, <2>1, SaveEffect
  <2> QED BY <1>1, <2>2 DEF AsBefore, Unshown
<1>4. ASSUME SaveOperation(c), Unshown(t)', sess[t].op = o PROVE AsBefore(t)
  <2>1. /\ form[c] # NoForm /\ form[c].history \in {"SOME", "NONE"}
        /\ o \in Operation /\ Shaped(os)
        /\ form[c].sent => os[o].status = form[c].status
        /\ ~form[c].sent => os = ops
    <3>1. form[c] # NoForm /\ form[c].history \in {"SOME", "NONE"}
      BY <1>4 DEF SaveOperation, ShapesOK, FormsOK
    <3> QED BY <3>1, PutBackShape
  <2> HIDE DEF os
  <2>2. CASE form[c].history = "NONE"
    <3>1. ~form[c].sent
      BY <1>1, <1>4, <2>1, <2>2 DEF SavedUnseen
    <3>2. ops' = ops
      BY <1>4, <2>1, <2>2, <3>1, SaveEffect DEF os
    <3> QED BY <1>1, <3>2 DEF AsBefore, Unshown
  <2>3. CASE form[c].history = "SOME"
    <3>1. ops' = ReconcileOperation(os, sess, o)
      BY <1>4, <2>3 DEF SaveOperation, os
    <3>2. /\ ops'[o].status = "CANCELLED" <=> os[o].status = "CANCELLED"
          /\ Running(sess, o) => ops'[o].status \in {"IN_PROGRESS", "CANCELLED"}
      BY <2>1, <3>1, StatusRebuilt
    <3>3. ~sess[t].excluded => Running(sess, o)
      BY <1>1, <1>4 DEF Running, Reportable, Unshown
    <3>4. ops'[o].status = "CANCELLED" /\ os[o].status = "CANCELLED"
      BY <1>1, <1>4, <3>2, <3>3 DEF Unshown
    <3>5. ~form[c].sent
      BY <1>1, <1>4, <2>1, <3>4 DEF SavedCancelled
    <3> QED BY <1>1, <1>4, <2>1, <3>4, <3>5 DEF AsBefore, Unshown
  <2> QED BY <2>1, <2>2, <2>3
<1> QED BY <1>2, <1>3, <1>4 DEF AsBefore

\* No step of any factory hides work that is going on, through every start,
\* correction, transfer, restoration and cancellation, but the two saves of the
\* operation form that the property names.
THEOREM WorkShows == Spec => OpenSessionRunsOperation
<1>1. ASSUME ShapesOK, [Next]_vars, NEW s \in Session, Unshown(s)'
      PROVE  LET o == sess'[s].op IN
             \/ Unshown(s) /\ sess[s].op = o /\ ops'[o].status = ops[o].status
             \/ SavedUnseen(o)
             \/ SavedCancelled(o)
  <2>1. CASE \E t \in Session : SessionStep(t) \/ SupervisorStep(t)
    BY <1>1, <2>1, SessionsShow DEF Shows, AsBefore
  <2>2. CASE OrderStep
    BY <1>1, <2>2, OrdersShow DEF Shows, AsBefore
  <2>3. CASE \E c \in Clerk : FormStep(c)
    BY <1>1, <2>3, FormsShow DEF AsBefore
  <2>4. CASE UNCHANGED vars
    BY <1>1, <2>4 DEF vars, Unshown
  <2> QED BY <1>1, <2>1, <2>2, <2>3, <2>4 DEF Next
<1>2. ShapesOK /\ [Next]_vars =>
        [\A s \in Session : LET o == sess'[s].op IN
           Unshown(s)' =>
             \/ Unshown(s) /\ sess[s].op = o /\ ops'[o].status = ops[o].status
             \/ SavedUnseen(o)
             \/ SavedCancelled(o)]_vars
  BY <1>1
<1> QED BY <1>2, TypeInit, TypeNext, PTL DEF Spec, OpenSessionRunsOperation

-----------------------------------------------------------------------------
(* Orders *)

OrderRows == [Order -> [status : OrderStatus, planned : Target]]

\* From the tables pos and os to new ones: an order is COMPLETED only with all its
\* production operations, or it and they have the status they had.
Complete(pos, os, p) ==
  pos[p].status = "COMPLETED" => \A o \in Productive(p) : os[o].status = "COMPLETED"

Tidy(pos, os, newPos, newOs) ==
  \A p \in Order :
     \/ Complete(newPos, newOs, p)
     \/ /\ newPos[p].status = pos[p].status
        /\ \A o \in Productive(p) : newOs[o].status = os[o].status

\* One such step after another is such a step.
LEMMA TidyTwice ==
  ASSUME NEW pos, NEW os, NEW pos1, NEW os1, NEW pos2, NEW os2,
         Tidy(pos, os, pos1, os1), Tidy(pos1, os1, pos2, os2)
  PROVE  Tidy(pos, os, pos2, os2)
BY DEF Tidy, Complete

\* Rebuilding an order completes it only if its operations are, and the other
\* orders stay as they are.
LEMMA OrderRebuilt ==
  ASSUME NEW pos \in OrderRows, NEW os, NEW ss, NEW p \in Order
  PROVE  LET new == ReconcileOrder(pos, os, ss, p) IN
         /\ new[p].status = "COMPLETED" =>
              \A o \in Productive(p) : os[o].status = "COMPLETED"
         /\ \A q \in Order \ {p} : new[q] = pos[q]
<1> DEFINE status == NextOrderStatus(pos[p].status, os, ss, p)
<1>1. status = "COMPLETED" => \A o \in Productive(p) : os[o].status = "COMPLETED"
  BY DEF NextOrderStatus
<1>2. ReconcileOrder(pos, os, ss, p) = [pos EXCEPT ![p].status = status]
  BY DEF ReconcileOrder
<1> HIDE DEF status
<1>3. ReconcileOrder(pos, os, ss, p)[p].status = status
  BY <1>2 DEF OrderRows
<1>4. \A q \in Order \ {p} : ReconcileOrder(pos, os, ss, p)[q] = pos[q]
  BY <1>2 DEF OrderRows
<1> QED BY <1>1, <1>3, <1>4

\* Tables that differ in one operation and in the order it belongs to, which was
\* rebuilt from the new operations.
LEMMA OneWritten ==
  ASSUME NEW pos \in OrderRows, NEW os, NEW new, NEW ss, NEW o \in Operation,
         \A x \in Operation \ {o} : new[x] = os[x]
  PROVE  Tidy(pos, os, ReconcileOrder(pos, new, ss, OrderOf[o]), new)
<1> DEFINE rebuilt == ReconcileOrder(pos, new, ss, OrderOf[o])
<1>0. OrderOf[o] \in Order
  BY ConfigAssumption
<1>1. /\ rebuilt[OrderOf[o]].status = "COMPLETED" =>
           \A x \in Productive(OrderOf[o]) : new[x].status = "COMPLETED"
      /\ \A q \in Order \ {OrderOf[o]} : rebuilt[q] = pos[q]
  BY <1>0, OrderRebuilt
<1> HIDE DEF rebuilt
<1>2. ASSUME NEW q \in Order \ {OrderOf[o]}, NEW x \in Productive(q)
      PROVE  new[x].status = os[x].status
  <2>1. x \in Operation \ {o}
    BY <1>2 DEF Productive
  <2> QED BY <2>1
<1>3. Tidy(pos, os, rebuilt, new)
  BY <1>1, <1>2 DEF Tidy, Complete
<1> QED BY <1>3 DEF rebuilt

\* reconcile_operation_and_po on tables os and pos.
LEMMA OneRebuiltTidy ==
  ASSUME NEW pos \in OrderRows, NEW os, NEW ss, NEW o \in Operation, Shaped(os)
  PROVE  LET new == ReconcileOperation(os, ss, o)
             rebuilt == ReconcileOrder(pos, new, ss, OrderOf[o])
         IN  Shaped(new) /\ rebuilt \in OrderRows /\ Tidy(pos, os, rebuilt, new)
<1> DEFINE new == ReconcileOperation(os, ss, o)
           rebuilt == ReconcileOrder(pos, new, ss, OrderOf[o])
<1>1. Shaped(new) /\ \A x \in Operation \ {o} : new[x] = os[x]
  BY RebuildOperation
<1>2. rebuilt \in OrderRows
  BY ConfigAssumption, RebuildOrder DEF OrderRows
<1> HIDE DEF new
<1>3. Tidy(pos, os, rebuilt, new)
  BY <1>1, OneWritten
<1> QED BY <1>1, <1>2, <1>3 DEF new

LEMMA TablesShaped ==
  ASSUME ShapesOK
  PROVE  Shaped(ops) /\ orders \in OrderRows
BY DEF ShapesOK, OperationsOK, OrdersOK, Shaped, OrderRows

LEMMA SessionsTidy ==
  ASSUME ShapesOK, NEW s \in Session, SessionStep(s) \/ SupervisorStep(s)
  PROVE  Tidy(orders, ops, orders', ops')
<1>0. Shaped(ops) /\ orders \in OrderRows
  BY TablesShaped
<1>2. ASSUME NEW o \in Operation, Reconciled(o) PROVE Tidy(orders, ops, orders', ops')
  BY <1>0, <1>2, OneRebuiltTidy DEF Reconciled
<1>3. ASSUME NEW o1 \in Operation, NEW o2 \in Operation, ReconciledBoth(o1, o2)
      PROVE  Tidy(orders, ops, orders', ops')
  <2> DEFINE os1 == ReconcileOperation(ops, sess', o1)
             po1 == ReconcileOrder(orders, os1, sess', OrderOf[o1])
  <2>1. Shaped(os1) /\ po1 \in OrderRows /\ Tidy(orders, ops, po1, os1)
    BY <1>0, OneRebuiltTidy
  <2>2. /\ ops' = ReconcileOperation(os1, sess', o2)
        /\ orders' = ReconcileOrder(po1, ops', sess', OrderOf[o2])
    BY <1>3 DEF ReconciledBoth
  <2> HIDE DEF os1, po1
  <2>3. Tidy(po1, os1, orders', ops')
    BY <2>1, <2>2, OneRebuiltTidy
  <2> QED BY <2>1, <2>3, TidyTwice
<1>4. CASE SessionStep(s)
  <2>1. ASSUME NEW e \in Employee, NEW o \in Operation, Start(s, e, o)
        PROVE  Tidy(orders, ops, orders', ops')
    <3> DEFINE os == ReconcileOperation(ops, sess, o)
               pos == ReconcileOrder(orders, os, sess, OrderOf[o])
    <3>1. Shaped(os) /\ pos \in OrderRows /\ Tidy(orders, ops, pos, os)
      BY <1>0, OneRebuiltTidy
    <3>2. /\ ops' = ReconcileOperation(os, sess', o)
          /\ orders' = ReconcileOrder(pos, ops', sess', OrderOf[o])
      BY <2>1 DEF Start
    <3> HIDE DEF os, pos
    <3>3. Tidy(pos, os, orders', ops')
      BY <3>1, <3>2, OneRebuiltTidy
    <3> QED BY <3>1, <3>3, TidyTwice
  <2>2. ASSUME NEW r \in Report, Finish(s, r) PROVE Tidy(orders, ops, orders', ops')
    <3>1. sess[s].op \in Operation
      BY <2>2, FinishEffect
    <3> QED BY <1>2, <2>2, <3>1 DEF Finish
  <2>3. CASE AutoClose(s)
    <3>1. sess[s].op \in Operation
      BY <2>3, AutoCloseEffect
    <3> QED BY <1>2, <2>3, <3>1 DEF AutoClose
  <2>4. ASSUME NEW w \in Session \ {s}, NEW e \in Employee,
               NEW n \in 0..sess[s].rework, NEW m \in 0..sess[s].rework,
               Resolve(s, w, e, n, m)
        PROVE  Tidy(orders, ops, orders', ops')
    <3>1. sess[s].op \in Operation
      BY <2>4, ResolveEffect, Zenon
    <3> QED BY <1>2, <2>4, <3>1 DEF Resolve
  <2> QED BY <1>4, <2>1, <2>2, <2>3, <2>4 DEF SessionStep
<1>5. CASE SupervisorStep(s)
  <2>1. ASSUME NEW r \in Report, Adjust(s, r) PROVE Tidy(orders, ops, orders', ops')
    <3>1. sess[s].op \in Operation
      BY <2>1, AdjustEffect
    <3> QED BY <1>2, <2>1, <3>1 DEF Adjust
  <2>2. ASSUME NEW e \in Employee, NEW o \in Operation, NEW st \in {"OPEN", "CLOSED"},
               NEW r \in Form(s), Edit(s, e, o, st, r)
        PROVE  Tidy(orders, ops, orders', ops')
    <3>1. sess[s].op \in Operation
      BY <2>2, EditEffect, Zenon
    <3>2. IF o = sess[s].op THEN Reconciled(o) ELSE ReconciledBoth(sess[s].op, o)
      BY <2>2 DEF Edit
    <3> QED BY <1>2, <1>3, <3>1, <3>2
  <2>3. ASSUME NEW o \in Operation, Transfer(s, o) PROVE Tidy(orders, ops, orders', ops')
    <3>1. sess[s].op \in Operation
      BY <2>3, TransferEffect
    <3> QED BY <1>3, <2>3, <3>1 DEF Transfer
  <2>4. CASE Exclude(s) \/ Restore(s)
    <3>1. sess[s].op \in Operation
      BY <2>4, ExcludeEffect, RestoreEffect
    <3> QED BY <1>2, <2>4, <3>1 DEF Exclude, Restore
  <2>5. ASSUME NEW e \in Employee, NEW o \in Operation, NEW r \in Report,
               CreateManual(s, e, o, r)
        PROVE  Tidy(orders, ops, orders', ops')
    BY <1>2, <2>5 DEF CreateManual
  <2> QED BY <1>5, <2>1, <2>2, <2>3, <2>4, <2>5 DEF SupervisorStep
<1> QED BY <1>4, <1>5

\* What one order may come to by a step, the two forms aside.
Kept(p) ==
  \/ Complete(orders', ops', p)
  \/ /\ orders'[p].status = orders[p].status
     /\ \A o \in Productive(p) : ops'[o].status = ops[o].status

\* Orders are cancelled operation by operation, started, and rewritten by a form.
LEMMA OrdersTidy ==
  ASSUME ShapesOK, OrderStep, NEW p \in Order,
         ~ \E n \in Target : UpdateOrder(p, "COMPLETED", n)
  PROVE  Kept(p)
<1>0. Shaped(ops) /\ orders \in OrderRows
  BY TablesShaped
<1>1. ASSUME NEW o \in Operation, CancelOperation(o) PROVE Kept(p)
  <2>1. /\ ops' = [ops EXCEPT ![o].status = "CANCELLED"]
        /\ orders' = ReconcileOrder(orders, ops', sess, OrderOf[o])
    BY <1>1 DEF CancelOperation
  <2>2. \A x \in Operation \ {o} : ops'[x] = ops[x]
    BY <1>0, <2>1 DEF Shaped
  <2>3. Tidy(orders, ops, orders', ops')
    BY <1>0, <2>1, <2>2, OneWritten
  <2> QED BY <2>3 DEF Tidy, Kept
<1>2. ASSUME NEW q \in Order, StartOrder(q) PROVE Kept(p)
  <2>1. ops' = ops /\ orders' = [orders EXCEPT ![q].status = "IN_PROGRESS"]
    BY <1>2 DEF StartOrder
  <2>2. orders'[p].status \in {"IN_PROGRESS", orders[p].status}
    BY <1>0, <2>1 DEF OrderRows
  <2> QED BY <2>1, <2>2 DEF Kept, Complete
<1>3. ASSUME NEW q \in Order, NEW n \in Target,
             NEW st \in AdminStatus \cup {orders[q].status}, UpdateOrder(q, st, n)
      PROVE  Kept(p)
  <2>1. ops' = ops /\ orders' = [orders EXCEPT ![q] = [status |-> st, planned |-> n]]
    BY <1>3 DEF UpdateOrder
  <2>2. CASE q = p
    <3>1. st # "COMPLETED"
      BY <1>3, <2>2
    <3>2. orders'[p].status = st
      BY <1>0, <2>1, <2>2 DEF OrderRows
    <3> QED BY <3>1, <3>2 DEF Kept, Complete
  <2>3. CASE q # p
    <3>1. orders'[p] = orders[p]
      BY <1>0, <2>1, <2>3 DEF OrderRows
    <3> QED BY <2>1, <3>1 DEF Kept
  <2> QED BY <2>2, <2>3
<1> QED BY <1>1, <1>2, <1>3 DEF OrderStep

\* The operation form rebuilds the order of an operation that had sessions.
LEMMA FormsTidy ==
  ASSUME ShapesOK, NEW c \in Clerk, FormStep(c), NEW p \in Order,
         ~ \E o \in Productive(p) : SavedUnseen(o)
  PROVE  Kept(p)
<1> DEFINE o == form[c].op
<1>0. Shaped(ops) /\ orders \in OrderRows
  BY TablesShaped
<1>1. CASE ~SaveOperation(c)
  <2>1. UNCHANGED <<ops, orders>>
    BY <1>1 DEF FormStep, AskUpdate, CountSessions, DropForm
  <2> QED BY <2>1 DEF Kept
<1>2. CASE SaveOperation(c) /\ form[c].history = "SOME"
  <2>1. orders' = ReconcileOrder(orders, ops', sess, OrderOf[o])
    BY <1>2 DEF SaveOperation
  <2>2. o \in Operation /\ \A x \in Operation \ {o} : ops'[x] = ops[x]
    BY <1>2, SaveEffect
  <2>3. Tidy(orders, ops, orders', ops')
    BY <1>0, <2>1, <2>2, OneWritten
  <2> QED BY <2>3 DEF Tidy, Kept
<1>3. CASE SaveOperation(c) /\ form[c].history # "SOME"
  <2>1. /\ form[c] # NoForm /\ form[c].history = "NONE"
        /\ o \in Operation /\ ops' = PutBack(c) /\ orders' = orders
    BY <1>3, SaveEffect DEF SaveOperation
  <2>2. /\ \A x \in Operation \ {o} : ops'[x] = ops[x]
        /\ ~form[c].sent => ops' = ops
    BY <2>1, PutBackShape
  <2>3. ~form[c].sent \/ o \notin Productive(p)
    BY <1>3, <2>1 DEF SavedUnseen
  <2>4. \A x \in Productive(p) : ops'[x] = ops[x]
    BY <2>2, <2>3 DEF Productive
  <2> QED BY <2>1, <2>4 DEF Kept
<1> QED BY <1>1, <1>2, <1>3

\* Done means done, in every factory: no step that changes an order or one of its
\* production operations leaves it COMPLETED with an operation that is not,
\* whatever corrections and transfers touch several orders at once, but the two
\* forms that the property names.
THEOREM CompletedMeansDone == Spec => CompletedOrderIsDone
<1>1. ASSUME ShapesOK, [Next]_vars, NEW p \in Order
      PROVE  \/ orders'[p].status = "COMPLETED" =>
                   \A o \in Productive(p) : ops'[o].status = "COMPLETED"
             \/ /\ orders'[p].status = orders[p].status
                /\ \A o \in Productive(p) : ops'[o].status = ops[o].status
             \/ \E n \in Target : UpdateOrder(p, "COMPLETED", n)
             \/ \E o \in Productive(p) : SavedUnseen(o)
  <2>1. CASE \E s \in Session : SessionStep(s) \/ SupervisorStep(s)
    BY <1>1, <2>1, SessionsTidy DEF Tidy, Complete
  <2>2. CASE OrderStep
    BY <1>1, <2>2, OrdersTidy DEF Kept, Complete
  <2>3. CASE \E c \in Clerk : FormStep(c)
    BY <1>1, <2>3, FormsTidy DEF Kept, Complete
  <2>4. CASE UNCHANGED vars
    BY <2>4 DEF vars
  <2> QED BY <1>1, <2>1, <2>2, <2>3, <2>4 DEF Next
<1>2. ShapesOK /\ [Next]_vars =>
        [\A p \in Order :
           \/ orders'[p].status = "COMPLETED" =>
                 \A o \in Productive(p) : ops'[o].status = "COMPLETED"
           \/ /\ orders'[p].status = orders[p].status
              /\ \A o \in Productive(p) : ops'[o].status = ops[o].status
           \/ \E n \in Target : UpdateOrder(p, "COMPLETED", n)
           \/ \E o \in Productive(p) : SavedUnseen(o)]_vars
  BY <1>1
<1> QED BY <1>2, TypeInit, TypeNext, PTL DEF Spec, CompletedOrderIsDone
=============================================================================
