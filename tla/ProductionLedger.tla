-------------------------- MODULE ProductionLedger --------------------------
(*************************************************************************)
(* The production ledger of MESFlow: work sessions, the material each    *)
(* one holds from an upstream operation, the repair queue, and the       *)
(* stored aggregates and statuses of operations and production orders    *)
(* that are rebuilt ("reconciled") from the sessions inside the same     *)
(* transaction.                                                          *)
(*                                                                       *)
(* The write paths take the row lock of the parent production order      *)
(* before any other, so the transactions of one order queue up: one      *)
(* action here is one committed transaction, with everything it changes. *)
(* The operation form alone is three: it is judged by two reads made     *)
(* before its transaction, and writes back what they saw.                *)
(* A transaction that raises rolls back and is no step.  The locks are   *)
(* not in this module: a session moved to another order between the      *)
(* unlocked look-up of its order and the lock is work for a module about *)
(* them.                                                                 *)
(*                                                                       *)
(* Clock time is left out.  A time overlap of two sessions of one        *)
(* employee on one operation makes a transaction refuse; the refusal     *)
(* depends on clock readings the ledger does not hold, so it is one more *)
(* transaction that may not happen.  Two OPEN sessions always overlap,   *)
(* and that refusal is kept (the partial unique index of migration       *)
(* 0054).                                                                *)
(*************************************************************************)
EXTENDS Integers, Functions

CONSTANTS
  Employee,        \* active employees
  Session,         \* identifiers of work_sessions rows, unused ones included
  Operation,
  Order,           \* production orders
  NoOp,            \* the NULL of a column that refers to an operation
  NoEmployee,      \* the employee of a row that does not exist yet
  NoHold,          \* no operation_input_consumptions row for this session
  Kind,            \* operations.operation_type
  OrderOf,         \* operations.production_order_id
  Bench,           \* the repair bench of an operation's (order, part)
  Source,          \* input_source_operation_id, NoOp when the flow is off
  SourceKind,      \* input_source_kind
  DefectsConsume,  \* defects_consume_input
  Predecessor,     \* predecessor_operation_id
  Report,          \* the quantities an operator may type in
  Target,          \* the values production_orders.planned_quantity may take
  AdminStatus,     \* the order statuses the order form writes: typed by someone,
                   \* or loaded by the form before the order changed
  Clerk,           \* requests in which the operation form is saved
  NoForm           \* a request that is not under way

OperationKind   == {"PRODUCTION", "SETUP", "REWORK"}
OperationStatus == {"DRAFT", "PLANNED", "RELEASED", "READY", "IN_PROGRESS",
                    "PAUSED", "COMPLETED", "CANCELLED"}
OrderStatus     == {"DRAFT", "PLANNED", "RELEASED", "IN_PROGRESS", "PAUSED",
                    "COMPLETED", "CANCELLED"}

ASSUME ConfigAssumption ==
  /\ Kind \in [Operation -> OperationKind]
  /\ OrderOf \in [Operation -> Order]
  /\ Bench \in [Operation -> Operation]
  /\ \A o \in Operation : Kind[Bench[o]] = "REWORK"
  /\ Source \in [Operation -> Operation \cup {NoOp}]
  /\ SourceKind \in [Operation -> {"GOOD", "REWORK"}]
  /\ DefectsConsume \in [Operation -> BOOLEAN]
  /\ Predecessor \in [Operation -> Operation \cup {NoOp}]

\* An operation draws its input from another operation of the same order
\* (OperationRepository._validate_flow).
ASSUME FlowAssumption ==
  \A o \in Operation : Source[o] # NoOp =>
     Source[o] # o /\ OrderOf[Source[o]] = OrderOf[o]

ASSUME QuantityAssumption ==
  /\ Report \subseteq [good : Nat, defect : Nat, rework : Nat]
  /\ \A r \in Report : r.rework <= r.defect
  /\ Target \subseteq Nat \ {0}
  /\ AdminStatus \subseteq OrderStatus

\* A row of operation_input_consumptions; good and defect pieces are one sum,
\* as every query adds them.
Hold == [source : Operation, target : Operation, qty : Nat,
         kind : {"GOOD", "REWORK"}]

\* The five aggregates of an operation.
Sums == [done : Nat, defect : Nat, rework : Nat, repaired : Nat, scrap : Nat]

\* A save of the operation form under way: the row it read, whether it sends
\* status and quantities back, and what it learnt of the operation's sessions.
Saving == [op : Operation, status : OperationStatus, sums : Sums,
           sent : BOOLEAN, history : {"UNREAD", "NONE", "SOME"}]

ASSUME NullAssumption ==
  /\ NoOp \notin Operation
  /\ NoEmployee \notin Employee
  /\ NoHold \notin Hold
  /\ NoForm \notin Saving

VARIABLES
  sess,     \* work_sessions
  hold,     \* operation_input_consumptions, at most one row per session
  bucket,   \* rework_ledger, summed per source session
  ops,      \* operations: status and stored aggregates
  orders,   \* production_orders: status and planned quantity
  form      \* saves of the operation form under way

vars == <<sess, hold, bucket, ops, orders, form>>

-----------------------------------------------------------------------------
(* Rows *)

SessionRow == [status   : {"NONE", "OPEN", "CLOSED"},
               emp      : Employee \cup {NoEmployee},
               op       : Operation \cup {NoOp},
               good     : Nat, defect   : Nat, rework : Nat,
               repaired : Nat, scrap    : Nat,
               excluded : BOOLEAN]

Bucket == [reworked : Nat, scrapped : Nat]

\* A row as INSERT leaves it: no quantities, counted in the reports.
Blank(e, o, st) ==
  [status |-> st, emp |-> e, op |-> o, good |-> 0, defect |-> 0, rework |-> 0,
   repaired |-> 0, scrap |-> 0, excluded |-> FALSE]

Exists(s)  == sess[s].status # "NONE"
IsSupport(o) == Kind[o] # "PRODUCTION"
Nothing == [good |-> 0, defect |-> 0, rework |-> 0]

WithReport(row, r) ==
  [row EXCEPT !.good = r.good, !.defect = r.defect, !.rework = r.rework]

-----------------------------------------------------------------------------
(* Reconciliation: aggregates and statuses rebuilt from the sessions *)

\* reportable_session_sql: a row that exists and is not excluded.
Reportable(ss, s, o) ==
  ss[s].status # "NONE" /\ ss[s].op = o /\ ~ss[s].excluded

\* What one session adds to the aggregates of operation o.
NoSums == [done |-> 0, defect |-> 0, rework |-> 0, repaired |-> 0, scrap |-> 0]

Contribution(ss, s, o) ==
  IF Reportable(ss, s, o) /\ ss[s].status = "CLOSED"
  THEN [done |-> ss[s].good, defect |-> ss[s].defect, rework |-> ss[s].rework,
        repaired |-> ss[s].repaired, scrap |-> ss[s].scrap]
  ELSE NoSums

PlusSums(a, b) ==
  [done |-> a.done + b.done, defect |-> a.defect + b.defect,
   rework |-> a.rework + b.rework, repaired |-> a.repaired + b.repaired,
   scrap |-> a.scrap + b.scrap]

Total(part) == FoldFunction(PlusSums, NoSums, part)

\* The five sums of reconcile_operation; sessions that add nothing are left out.
Rollup(ss, o) ==
  Total([s \in {t \in Session : Contribution(ss, t, o) # NoSums}
           |-> Contribution(ss, s, o)])

\* The status chain of reconcile_operation, first match wins.
NextOperationStatus(current, ss, o, done, planned) ==
  LET reported == \E s \in Session : Reportable(ss, s, o)
      running  == \E s \in Session : Reportable(ss, s, o) /\ ss[s].status = "OPEN"
  IN  IF current = "CANCELLED"                        THEN "CANCELLED"
      ELSE IF running                                 THEN "IN_PROGRESS"
      ELSE IF current = "COMPLETED" /\ ~reported      THEN "COMPLETED"
      ELSE IF planned > 0 /\ done >= planned          THEN "COMPLETED"
      ELSE IF current = "PAUSED"                      THEN "PAUSED"
      ELSE IF reported                                THEN "IN_PROGRESS"
      ELSE IF current \in {"DRAFT", "PLANNED", "RELEASED", "READY"} THEN current
      ELSE "PLANNED"

\* reconcile_operation: operation o rebuilt, the others untouched.
ReconcileOperation(os, ss, o) ==
  LET sums == Rollup(ss, o) IN
  [os EXCEPT ![o] =
     [status |-> NextOperationStatus(os[o].status, ss, o, sums.done,
                                     orders[OrderOf[o]].planned),
      sums   |-> sums]]

Productive(p) == {o \in Operation : OrderOf[o] = p /\ ~IsSupport(o)}

\* Mutant: a running order gets the status the dashboards once looked for.
NextOrderStatusActive(current, os, ss, p) ==
  IF \E s \in Session : ss[s].status = "OPEN" /\ OrderOf[ss[s].op] = p
  THEN "ACTIVE" ELSE current

\* The status chain of reconcile_production_order.  An OPEN session counts
\* whatever its operation and even when it is excluded; history does not.
NextOrderStatus(current, os, ss, p) ==
  LET mine     == {s \in Session : ss[s].status # "NONE" /\ OrderOf[ss[s].op] = p}
      complete == Productive(p) # {}
                  /\ \A o \in Productive(p) : os[o].status = "COMPLETED"
      working  == \E s \in mine : ss[s].status = "OPEN"
      started  == \/ \E o \in Productive(p) : os[o].status = "IN_PROGRESS"
                  \/ \E s \in mine : ~ss[s].excluded
                  \/ current \in {"IN_PROGRESS", "COMPLETED"}
  IN  IF current = "CANCELLED"    THEN "CANCELLED"
      ELSE IF complete            THEN "COMPLETED"
      ELSE IF working             THEN "IN_PROGRESS"
      ELSE IF current = "PAUSED"  THEN "PAUSED"
      ELSE IF started             THEN "IN_PROGRESS"
      ELSE current

\* reconcile_production_order: order p rebuilt from its operations.
ReconcileOrder(pos, os, ss, p) ==
  [pos EXCEPT ![p].status = NextOrderStatus(pos[p].status, os, ss, p)]

\* reconcile_operation_and_po, from the sessions the transaction leaves.
Reconciled(o) ==
  /\ ops' = ReconcileOperation(ops, sess', o)
  /\ orders' = ReconcileOrder(orders, ops', sess', OrderOf[o])

\* Mutants: the operation the session leaves, or its order, is not rebuilt.
ReconciledTargetOnly(o1, o2) == Reconciled(o2)

ReconciledTargetOrder(o1, o2) ==
  /\ ops' = ReconcileOperation(ReconcileOperation(ops, sess', o1), sess', o2)
  /\ orders' = ReconcileOrder(orders, ops', sess', OrderOf[o2])

\* Two operations reconciled one after the other (edit, transfer): the orders
\* of both are rebuilt, each after its own operation.
ReconciledBoth(o1, o2) ==
  LET os1 == ReconcileOperation(ops, sess', o1)
      po1 == ReconcileOrder(orders, os1, sess', OrderOf[o1])
  IN  /\ ops' = ReconcileOperation(os1, sess', o2)
      /\ orders' = ReconcileOrder(po1, ops', sess', OrderOf[o2])

-----------------------------------------------------------------------------
(* Material: what a session holds from the operation upstream *)

Max0(n) == IF n > 0 THEN n ELSE 0

\* Pieces of src held by the rows of hs, of any kind or of one kind.
HeldFrom(hs, src) == {s \in Session : hs[s] # NoHold /\ hs[s].source = src}

Allocated(hs, src) ==
  SumFunction([s \in HeldFrom(hs, src) |-> hs[s].qty])

AllocatedAs(hs, src, kind) ==
  SumFunction([s \in {t \in HeldFrom(hs, src) : hs[t].kind = kind} |-> hs[s].qty])

\* Input a report of r on operation o takes: defects only if configured.
Need(o, r) == r.good + (IF DefectsConsume[o] THEN r.defect ELSE 0)

\* Mutant: each kind budgeted on its own, as before repaired pieces were seen
\* to be in both.
AvailablePerKind(os, hs, o) ==
  IF SourceKind[o] = "REWORK"
  THEN Max0(os[Source[o]].sums.repaired - AllocatedAs(hs, Source[o], "REWORK"))
  ELSE Max0(os[Source[o]].sums.done - AllocatedAs(hs, Source[o], "GOOD"))

\* Mutant: only what sessions of the same operation hold counts against it.
AvailablePerTarget(os, hs, o) ==
  LET mine == {s \in HeldFrom(hs, Source[o]) : hs[s].target = o}
  IN  Max0(os[Source[o]].sums.done - SumFunction([s \in mine |-> hs[s].qty]))

\* Stored supply of o's source that the rows of hs leave free.  Repaired pieces
\* are part of done, so done caps every kind and repaired caps REWORK too.
Available(os, hs, o) ==
  LET src  == Source[o]
      free == Max0(os[src].sums.done - Allocated(hs, src))
      pool == Max0(os[src].sums.repaired - AllocatedAs(hs, src, "REWORK"))
  IN  IF SourceKind[o] = "REWORK" /\ pool < free THEN pool ELSE free

\* _validate_and_upsert_input_consumption: session s reports r on operation o.
\* The session's own row does not count against it; with no source the row goes.
Consumes(s, o, r) ==
  IF Source[o] = NoOp
  THEN hold' = [hold EXCEPT ![s] = NoHold]
  ELSE /\ Need(o, r) <= Available(ops, [hold EXCEPT ![s] = NoHold], o)
       /\ hold' = [hold EXCEPT ![s] = [source |-> Source[o], target |-> o,
                                       qty |-> Need(o, r), kind |-> SourceKind[o]]]

Releases(s) == hold' = [hold EXCEPT ![s] = NoHold]

-----------------------------------------------------------------------------
(* Guards the write paths share *)

\* _guard_support_operation_quantity
CarriesNothing(r) == r.good = 0 /\ r.defect = 0 /\ r.rework = 0
SupportGuard(o, r) == IsSupport(o) => CarriesNothing(r)

\* _guard_rework_ledger: a correction keeps room for what the bench resolved.
LedgerGuard(s, r) ==
  /\ sess[s].repaired >= bucket[s].reworked
  /\ r.rework >= bucket[s].reworked + bucket[s].scrapped
  /\ sess[s].scrap >= bucket[s].scrapped

\* The CHECK constraints of work_sessions (migration 0051); a row that fails
\* them aborts the transaction.
RowCheck(row) ==
  row.rework <= row.defect /\ row.repaired + row.scrap <= row.rework

\* uq_open_session_per_employee_operation (migration 0054)
OpenSlotFree(s, e, o) ==
  \A t \in Session \ {s} :
     ~(sess[t].status = "OPEN" /\ sess[t].emp = e /\ sess[t].op = o)

\* dispatch_state_from_db / operation_wip, on reconciled os and pos.
Wip(os, pos, o) ==
  LET pred == Predecessor[o]
      sums == os[o].sums
      src  == Source[o]
  IN  IF src # NoOp
      THEN (IF SourceKind[o] = "REWORK" THEN os[src].sums.repaired
                                        ELSE os[src].sums.done)
           - AllocatedAs(hold, src, SourceKind[o])
      ELSE IF pred # NoOp THEN os[pred].sums.done - (sums.done + sums.defect)
      ELSE pos[OrderOf[o]].planned - sums.done

Actionable(os, pos, o) ==
  /\ os[o].status \in {"DRAFT", "PLANNED", "RELEASED", "READY", "IN_PROGRESS"}
  /\ pos[OrderOf[o]].status \in {"RELEASED", "IN_PROGRESS"}
  /\ Wip(os, pos, o) > 0

-----------------------------------------------------------------------------
(* The shop floor *)

\* WorkSessionRepository.start: everything is judged on the reconciled
\* operation and order, and the source only has to have been started.
Start(s, e, o) ==
  LET os  == ReconcileOperation(ops, sess, o)
      pos == ReconcileOrder(orders, os, sess, OrderOf[o])
  IN  /\ ~Exists(s)
      /\ os[o].status \notin {"COMPLETED", "CANCELLED"}
      /\ Kind[o] # "REWORK"
      /\ pos[OrderOf[o]].status = "IN_PROGRESS"
      /\ Source[o] # NoOp => \E t \in Session : sess[t].op = Source[o]
      /\ Actionable(os, pos, o)
      /\ OpenSlotFree(s, e, o)
      /\ sess' = [sess EXCEPT ![s] = Blank(e, o, "OPEN")]
      /\ ops' = ReconcileOperation(os, sess', o)
      /\ orders' = ReconcileOrder(pos, ops', sess', OrderOf[o])
      /\ UNCHANGED <<hold, bucket, form>>

\* Mutant: a SETUP session keeps what the keypad sent.
FinishAsTyped(s, r) ==
  LET closed == [WithReport(sess[s], r) EXCEPT !.status = "CLOSED"]
  IN  /\ sess[s].status = "OPEN"
      /\ Consumes(s, sess[s].op, r)
      /\ RowCheck(closed)
      /\ sess' = [sess EXCEPT ![s] = closed]
      /\ Reconciled(sess[s].op)
      /\ UNCHANGED <<bucket, form>>

\* WorkSessionRepository._finish_within: absolute quantities; a SETUP session
\* discards what was typed and draws no input.
Finish(s, r) ==
  LET o      == sess[s].op
      typed  == IF Kind[o] = "SETUP" THEN Nothing ELSE r
      closed == [WithReport(sess[s], typed) EXCEPT !.status = "CLOSED"]
  IN  /\ sess[s].status = "OPEN"
      /\ IF Kind[o] = "SETUP" THEN UNCHANGED hold ELSE Consumes(s, o, r)
      /\ RowCheck(closed)
      /\ sess' = [sess EXCEPT ![s] = closed]
      /\ Reconciled(o)
      /\ UNCHANGED <<bucket, form>>

\* auto_close_for_shift_end: closed with the quantities the row already has.
AutoClose(s) ==
  /\ sess[s].status = "OPEN"
  /\ Consumes(s, sess[s].op, sess[s])
  /\ sess' = [sess EXCEPT ![s].status = "CLOSED"]
  /\ Reconciled(sess[s].op)
  /\ UNCHANGED <<bucket, form>>

\* Mutant: scrapped pieces are not written to the repair ledger.
ResolveForgetsScrap(s, w, e, repaired, scrapped) ==
  /\ repaired + scrapped > 0
  /\ sess[s].status = "CLOSED" /\ ~IsSupport(sess[s].op) /\ ~Exists(w)
  /\ repaired + scrapped <= sess[s].rework - sess[s].repaired - sess[s].scrap
  /\ sess' = [sess EXCEPT ![s].good = @ + repaired, ![s].repaired = @ + repaired,
                          ![s].scrap = @ + scrapped,
                          ![w] = Blank(e, Bench[sess[s].op], "CLOSED")]
  /\ bucket' = [bucket EXCEPT ![s].reworked = @ + repaired]
  /\ Reconciled(sess[s].op)
  /\ UNCHANGED <<hold, form>>

\* ReworkQueueRepository.resolve: the source session is credited, the ledger
\* records it, and a session with no quantities records the labour on the
\* bench, which is not reconciled.
Resolve(s, w, e, repaired, scrapped) ==
  LET o       == sess[s].op
      done    == IF sess[s].repaired > bucket[s].reworked
                 THEN sess[s].repaired ELSE bucket[s].reworked
      lost    == IF sess[s].scrap > bucket[s].scrapped
                 THEN sess[s].scrap ELSE bucket[s].scrapped
      credit  == [sess[s] EXCEPT !.good = @ + repaired,
                                 !.repaired = @ + repaired,
                                 !.scrap = @ + scrapped]
  IN  /\ repaired + scrapped > 0
      /\ sess[s].status = "CLOSED"
      /\ ~IsSupport(o)
      /\ repaired + scrapped <= sess[s].rework - done - lost
      /\ ~Exists(w)
      /\ RowCheck(credit)
      /\ sess' = [sess EXCEPT ![s] = credit,
                              ![w] = Blank(e, Bench[o], "CLOSED")]
      /\ bucket' = [bucket EXCEPT ![s] = [reworked |-> @.reworked + repaired,
                                          scrapped |-> @.scrapped + scrapped]]
      /\ Reconciled(o)
      /\ UNCHANGED <<hold, form>>

-----------------------------------------------------------------------------
(* Supervisors *)

\* Mutant: a correction leaves the material row as it was.
AdjustKeepsHold(s, r) ==
  /\ Exists(s) /\ SupportGuard(sess[s].op, r) /\ LedgerGuard(s, r)
  /\ RowCheck(WithReport(sess[s], r))
  /\ sess' = [sess EXCEPT ![s] = WithReport(sess[s], r)]
  /\ Reconciled(sess[s].op)
  /\ UNCHANGED <<hold, bucket, form>>

\* SupervisorRepository.adjust: quantities overwritten, OPEN sessions included.
Adjust(s, r) ==
  LET o     == sess[s].op
      fixed == WithReport(sess[s], r)
  IN  /\ Exists(s)
      /\ SupportGuard(o, r)
      /\ LedgerGuard(s, r)
      /\ RowCheck(fixed)
      /\ IF sess[s].status = "CLOSED" THEN Consumes(s, o, r) ELSE UNCHANGED hold
      /\ sess' = [sess EXCEPT ![s] = fixed]
      /\ Reconciled(o)
      /\ UNCHANGED <<bucket, form>>

\* What the edit form sends: quantities typed in, or those the session has.
Reported(row) == [good |-> row.good, defect |-> row.defect, rework |-> row.rework]
Form(s) == Report \cup {Reported(sess[s])}

\* SupervisorRepository.edit_session: employee, operation, status and
\* quantities in one command; both operations are reconciled.
Edit(s, e, o, st, r) ==
  LET old   == sess[s]
      fixed == [WithReport(old, r) EXCEPT !.emp = e, !.op = o, !.status = st]
  IN  /\ Exists(s)
      /\ st = "OPEN" => ops[o].status # "CANCELLED" /\ OpenSlotFree(s, e, o)
      /\ SupportGuard(o, r)
      /\ LedgerGuard(s, r)
      /\ RowCheck(fixed)
      /\ IF st = "CLOSED" THEN Consumes(s, o, r) ELSE Releases(s)
      /\ sess' = [sess EXCEPT ![s] = fixed]
      /\ IF o = old.op THEN Reconciled(o) ELSE ReconciledBoth(old.op, o)
      /\ UNCHANGED <<bucket, form>>

\* Mutant: the material row stays with the operation the session left.
TransferKeepsHold(s, o) ==
  /\ Exists(s) /\ o # sess[s].op /\ ops[o].status # "CANCELLED"
  /\ IsSupport(o) => CarriesNothing(sess[s]) /\ sess[s].scrap = 0
  /\ sess[s].status = "OPEN" => OpenSlotFree(s, sess[s].emp, o)
  /\ sess' = [sess EXCEPT ![s].op = o]
  /\ ReconciledBoth(sess[s].op, o)
  /\ UNCHANGED <<hold, bucket, form>>

\* SupervisorRepository.transfer_operation, by an administrator who confirmed
\* a transfer across parts: the quantities move unchanged.  The material is
\* checked against the stored aggregates, before either operation is rebuilt.
Transfer(s, o) ==
  LET old == sess[s] IN
  /\ Exists(s)
  /\ o # old.op
  /\ ops[o].status # "CANCELLED"
  /\ IsSupport(o) => CarriesNothing(old) /\ old.scrap = 0
  /\ old.status = "OPEN" => OpenSlotFree(s, old.emp, o)
  /\ IF old.status = "CLOSED" THEN Consumes(s, o, old) ELSE UNCHANGED hold
  /\ sess' = [sess EXCEPT ![s].op = o]
  /\ ReconciledBoth(old.op, o)
  /\ UNCHANGED <<bucket, form>>

\* SupervisorRepository.exclude_session: the row stays, what it held is freed.
Exclude(s) ==
  /\ Exists(s)
  /\ ~sess[s].excluded
  /\ sess' = [sess EXCEPT ![s].excluded = TRUE]
  /\ Releases(s)
  /\ Reconciled(sess[s].op)
  /\ UNCHANGED <<bucket, form>>

\* SupervisorRepository.restore_session: what it held is asked for again.
Restore(s) ==
  /\ Exists(s)
  /\ sess[s].excluded
  /\ IF sess[s].status = "CLOSED" THEN Consumes(s, sess[s].op, sess[s])
                                  ELSE UNCHANGED hold
  /\ sess' = [sess EXCEPT ![s].excluded = FALSE]
  /\ Reconciled(sess[s].op)
  /\ UNCHANGED <<bucket, form>>

\* SupervisorRepository.create_manual_session: work recorded after the fact,
\* whatever the operation's or the order's status.
CreateManual(s, e, o, r) ==
  /\ ~Exists(s)
  /\ Kind[o] # "SETUP"
  /\ SupportGuard(o, r)
  /\ Consumes(s, o, r)
  /\ sess' = [sess EXCEPT ![s] = WithReport(Blank(e, o, "CLOSED"), r)]
  /\ Reconciled(o)
  /\ UNCHANGED <<bucket, form>>

-----------------------------------------------------------------------------
(* Operations and orders *)

\* Mutant: only sessions that count in the reports hold the cancellation back.
CancelPastExcluded(o) ==
  /\ ops[o].status # "COMPLETED"
  /\ \A s \in Session : ~(sess[s].status = "OPEN" /\ Reportable(sess, s, o))
  /\ ops' = [ops EXCEPT ![o].status = "CANCELLED"]
  /\ orders' = ReconcileOrder(orders, ops', sess, OrderOf[o])
  /\ UNCHANGED <<sess, hold, bucket, form>>

\* cancel_operation: refused while any session of it is OPEN, excluded or not.
CancelOperation(o) ==
  /\ ops[o].status # "COMPLETED"
  /\ \A s \in Session : ~(sess[s].status = "OPEN" /\ sess[s].op = o)
  /\ ops' = [ops EXCEPT ![o].status = "CANCELLED"]
  /\ orders' = ReconcileOrder(orders, ops', sess, OrderOf[o])
  /\ UNCHANGED <<sess, hold, bucket, form>>

\* start_production_order; on an order IN_PROGRESS it changes nothing.
StartOrder(p) ==
  /\ orders[p].status \notin {"IN_PROGRESS", "COMPLETED", "CANCELLED"}
  /\ Productive(p) # {}
  /\ orders' = [orders EXCEPT ![p].status = "IN_PROGRESS"]
  /\ UNCHANGED <<sess, hold, bucket, ops, form>>

\* ProductionOrderRepository.update: status and target as the form sends them,
\* with no look at the sessions, no reconciliation and no version check; the
\* form sends the status it loaded, so nobody need have typed it.
UpdateOrder(p, st, n) ==
  /\ orders' = [orders EXCEPT ![p] = [status |-> st, planned |-> n]]
  /\ UNCHANGED <<sess, hold, bucket, ops, form>>

-----------------------------------------------------------------------------
(* The operation form: OperationRepository.update *)

\* The first read: what the form sends must be what the row has now, and enough
\* for the pieces others have drawn.  No lock is held yet.
AskUpdate(c, o, sent) ==
  /\ form[c] = NoForm
  /\ sent => /\ AllocatedAs(hold, o, "GOOD") <= ops[o].sums.done
             /\ AllocatedAs(hold, o, "REWORK") <= ops[o].sums.rework
             /\ ops[o].sums.rework <= ops[o].sums.defect
  /\ form' = [form EXCEPT ![c] = [op |-> o, status |-> ops[o].status,
                                  sums |-> ops[o].sums, sent |-> sent,
                                  history |-> "UNREAD"]]
  /\ UNCHANGED <<sess, hold, bucket, ops, orders>>

\* The second read, also without a lock: has the operation any session?
CountSessions(c) ==
  LET some == \E s \in Session : Exists(s) /\ sess[s].op = form[c].op
  IN  /\ form[c] # NoForm /\ form[c].history = "UNREAD"
      /\ form' = [form EXCEPT ![c].history = IF some THEN "SOME" ELSE "NONE"]
      /\ UNCHANGED <<sess, hold, bucket, ops, orders>>

\* The row as the form leaves it: status and three aggregates as they were read;
\* the repair totals are not the form's.
PutBack(c) ==
  LET read == form[c].sums IN
  [ops EXCEPT ![form[c].op] =
     IF form[c].sent
     THEN [status |-> form[c].status,
           sums   |-> [@.sums EXCEPT !.done = read.done, !.defect = read.defect,
                                     !.rework = read.rework]]
     ELSE @]

\* Mutant: what the form sent back is left for the next session to rebuild.
SaveRebuildsNothing(c) ==
  /\ form[c] # NoForm /\ form[c].history # "UNREAD"
  /\ ops' = PutBack(c)
  /\ form' = [form EXCEPT ![c] = NoForm]
  /\ UNCHANGED <<sess, hold, bucket, orders>>

\* The transaction: it takes the lock and writes what the reads allowed, with no
\* second look, and rebuilds only an operation that had sessions at the count.
SaveOperation(c) ==
  LET o == form[c].op IN
  /\ form[c] # NoForm /\ form[c].history # "UNREAD"
  /\ IF form[c].history = "SOME"
     THEN /\ ops' = ReconcileOperation(PutBack(c), sess, o)
          /\ orders' = ReconcileOrder(orders, ops', sess, OrderOf[o])
     ELSE /\ ops' = PutBack(c)
          /\ UNCHANGED orders
  /\ form' = [form EXCEPT ![c] = NoForm]
  /\ UNCHANGED <<sess, hold, bucket>>

\* A request refused after its reads (dependencies, identity codes) or broken off.
DropForm(c) ==
  /\ form[c] # NoForm
  /\ form' = [form EXCEPT ![c] = NoForm]
  /\ UNCHANGED <<sess, hold, bucket, ops, orders>>

-----------------------------------------------------------------------------
(* An order fresh from its template: operations PLANNED, no session yet. *)

Init ==
  /\ sess = [s \in Session |-> Blank(NoEmployee, NoOp, "NONE")]
  /\ hold = [s \in Session |-> NoHold]
  /\ bucket = [s \in Session |-> [reworked |-> 0, scrapped |-> 0]]
  /\ ops = [o \in Operation |-> [status |-> "PLANNED", sums |-> Rollup(sess, o)]]
  /\ orders \in [Order -> [status : {"PLANNED"}, planned : Target]]
  /\ form = [c \in Clerk |-> NoForm]

SessionStep(s) ==
  \/ \E e \in Employee, o \in Operation : Start(s, e, o)
  \/ \E r \in Report : Finish(s, r)
  \/ AutoClose(s)
  \/ \E w \in Session \ {s}, e \in Employee, n, m \in 0..sess[s].rework :
        Resolve(s, w, e, n, m)

SupervisorStep(s) ==
  \/ \E r \in Report : Adjust(s, r)
  \/ \E e \in Employee, o \in Operation, st \in {"OPEN", "CLOSED"}, r \in Form(s) :
        Edit(s, e, o, st, r)
  \/ \E o \in Operation : Transfer(s, o)
  \/ Exclude(s)
  \/ Restore(s)
  \/ \E e \in Employee, o \in Operation, r \in Report : CreateManual(s, e, o, r)

OrderStep ==
  \/ \E o \in Operation : CancelOperation(o)
  \/ \E p \in Order : StartOrder(p)
  \/ \E p \in Order, n \in Target :
        \E st \in AdminStatus \cup {orders[p].status} : UpdateOrder(p, st, n)

FormStep(c) ==
  \/ \E o \in Operation, sent \in BOOLEAN : AskUpdate(c, o, sent)
  \/ CountSessions(c)
  \/ SaveOperation(c)
  \/ DropForm(c)

Next ==
  \/ \E s \in Session : SessionStep(s) \/ SupervisorStep(s)
  \/ OrderStep
  \/ \E c \in Clerk : FormStep(c)

Spec == Init /\ [][Next]_vars

-----------------------------------------------------------------------------
(* Properties *)

SessionsOK ==
  /\ sess \in [Session -> SessionRow]
  /\ \A s \in Session : Exists(s) => sess[s].emp \in Employee /\ sess[s].op \in Operation

OperationsOK ==
  /\ ops = [o \in Operation |-> [status |-> ops[o].status, sums |-> ops[o].sums]]
  /\ \A o \in Operation : ops[o].status \in OperationStatus

OrdersOK == orders \in [Order -> [status : OrderStatus, planned : Target]]

FormsOK ==
  /\ form = [c \in Clerk |-> form[c]]
  /\ \A c \in Clerk : form[c] # NoForm =>
       /\ form[c] = [op |-> form[c].op, status |-> form[c].status,
                     sums |-> form[c].sums, sent |-> form[c].sent,
                     history |-> form[c].history]
       /\ form[c].op \in Operation /\ form[c].status \in OperationStatus
       /\ form[c].sent \in BOOLEAN /\ form[c].history \in {"UNREAD", "NONE", "SOME"}

ShapesOK ==
  /\ SessionsOK
  /\ hold \in [Session -> Hold \cup {NoHold}]
  /\ bucket \in [Session -> Bucket]
  /\ OperationsOK
  /\ OrdersOK
  /\ FormsOK

QuantitiesOK ==
  /\ \A o \in Operation : ops[o].sums \in Sums
  /\ \A c \in Clerk : form[c] # NoForm => form[c].sums \in Sums

\* Every table holds rows of its shape, a session that exists belongs to an
\* employee and an operation, and the aggregates, stored or in a form, are
\* numbers of pieces.
TypeOK == ShapesOK /\ QuantitiesOK

\* The operation form is saved by a request that saw no session of operation o:
\* the one write to an operation that nothing rebuilds afterwards.
SavedUnseen(o) ==
  \E c \in Clerk : /\ form[c] # NoForm /\ form[c].op = o
                   /\ form[c].sent /\ form[c].history = "NONE"
                   /\ SaveOperation(c)

\* The form puts back a cancellation it read.
SavedCancelled(o) ==
  \E c \in Clerk : /\ form[c] # NoForm /\ form[c].op = o
                   /\ form[c].sent /\ form[c].status = "CANCELLED"
                   /\ SaveOperation(c)

Exact(o) == ops[o].sums = Rollup(sess, o)

\* The stored aggregates of an operation are exactly what its sessions add up
\* to after every step that writes them or changes what the sessions add up to:
\* no write path forgets to rebuild an operation it moved work from or to
\* (reconcile_operation at the end of each, edit and transfer twice).  They go
\* wrong in one way only, by a save of the operation form whose request saw no
\* session, and are exact again from the next rebuild on.
RollupExact ==
  [][\A o \in Operation :
       \/ Exact(o)'
       \/ ops'[o].sums = ops[o].sums /\ Rollup(sess', o) = Rollup(sess, o)
       \/ SavedUnseen(o)]_vars

\* Repaired pieces are credited once: a session's repaired and scrap totals are
\* what the repair ledger recorded for it, and together they never exceed what
\* was declared repairable, whatever corrections came between two resolutions
\* (_guard_rework_ledger, ReworkQueueRepository.resolve).
ReworkCreditedOnce ==
  \A s \in Session :
     /\ sess[s].repaired = bucket[s].reworked
     /\ sess[s].scrap = bucket[s].scrapped
     /\ bucket[s].reworked + bucket[s].scrapped <= sess[s].rework
     /\ sess[s].rework <= sess[s].defect

\* A material row follows its session: it exists for a CLOSED session only, and
\* names the operation the session is on now and the source configured for it.
HoldFollowsSession ==
  \A s \in Session : hold[s] # NoHold =>
     /\ sess[s].status = "CLOSED"
     /\ hold[s].target = sess[s].op
     /\ hold[s].source = Source[sess[s].op]
     /\ hold[s].kind = SourceKind[sess[s].op]

\* A counted session of a fed production operation holds material for what it
\* reported: all of it but the pieces repaired since, which were input once.
HoldMatchesReport ==
  \A s \in Session :
     /\ hold[s] # NoHold =>
          LET need == Need(sess[s].op, sess[s]) IN
          hold[s].qty <= need /\ need <= hold[s].qty + sess[s].repaired
     /\ (/\ sess[s].status = "CLOSED" /\ ~sess[s].excluded
         /\ ~IsSupport(sess[s].op) /\ Source[sess[s].op] # NoOp)
        => hold[s] # NoHold

\* An OPEN session nobody sees at work: its operation is CANCELLED, or is not
\* IN_PROGRESS although the session counts.
Unshown(s) ==
  /\ sess[s].status = "OPEN"
  /\ \/ ops[sess[s].op].status = "CANCELLED"
     \/ ~sess[s].excluded /\ ops[sess[s].op].status # "IN_PROGRESS"

\* Work in progress shows: no step leaves an OPEN session on a CANCELLED
\* operation, or a counted one on an operation that is not IN_PROGRESS, unless
\* it was so before, on that operation and in that status.  The exceptions are
\* saves of the operation form that put back what they read: with no session
\* seen any status, else only CANCELLED, which a rebuild keeps.
OpenSessionRunsOperation ==
  [][\A s \in Session : LET o == sess'[s].op IN
       Unshown(s)' =>
          \/ Unshown(s) /\ sess[s].op = o /\ ops'[o].status = ops[o].status
          \/ SavedUnseen(o)
          \/ SavedCancelled(o)]_vars

\* A step that changes the status of an order or of one of its production
\* operations leaves the order COMPLETED only with all of them COMPLETED, also
\* when it takes quantities away from operations of several orders.  Two forms
\* are the exceptions: the order form when it writes COMPLETED, typed or loaded
\* earlier, and the operation form saved by a request that saw no session.
CompletedOrderIsDone ==
  [][\A p \in Order :
       \/ orders'[p].status = "COMPLETED" =>
             \A o \in Productive(p) : ops'[o].status = "COMPLETED"
       \/ /\ orders'[p].status = orders[p].status
          /\ \A o \in Productive(p) : ops'[o].status = ops[o].status
       \/ \E n \in Target : UpdateOrder(p, "COMPLETED", n)
       \/ \E o \in Productive(p) : SavedUnseen(o)]_vars

\* Preparing a machine produces nothing: whatever is typed at the terminal, moved
\* there, corrected or repaired, the aggregates of a SETUP operation stay empty,
\* so no pieces vanish from an order's progress there (_finish_within discards,
\* _guard_support_operation_quantity refuses, resolve looks at production only);
\* a form that puts back old aggregates puts back none.
SetupMakesNothing ==
  \A o \in Operation : Kind[o] = "SETUP" => ops[o].sums = NoSums

Material == INSTANCE MaterialAccount WITH
  stock <- [o \in Operation |->
              [k \in {"all", "repaired"} |->
                 IF k = "all" THEN ops[o].sums.done ELSE ops[o].sums.repaired]],
  drawn <- [o \in Operation |->
              [k \in {"all", "repaired"} |->
                 IF k = "all" THEN Allocated(hold, o)
                              ELSE AllocatedAs(hold, o, "REWORK")]]

\* Sessions, their material rows and the stored aggregates together keep the
\* promise of MaterialAccount: a transaction writes the accounts of two
\* operations at most, and draws on one other within what that has in stock.
KeepsAccount == Material!ASpec

\* More handed out than produced arises in one way only: by a step that lowers
\* what the operation upstream produced (a correction, an exclusion or a move of
\* its sessions, or a form that puts back an old quantity, none of which is
\* checked against what was consumed since), never
\* by a step that draws on it or by one that rebuilds another operation.
ShortfallIsACorrection ==
  [][\A o \in Operation :
       /\ Allocated(hold', o) > ops'[o].sums.done
            => \/ Allocated(hold, o) > ops[o].sums.done
               \/ ops'[o].sums.done < ops[o].sums.done
       /\ AllocatedAs(hold', o, "REWORK") > ops'[o].sums.repaired
            => \/ AllocatedAs(hold, o, "REWORK") > ops[o].sums.repaired
               \/ ops'[o].sums.repaired < ops[o].sums.repaired]_vars

\* The check against the aggregates stored before the step is enough for every
\* session but one that leaves the very operation it then draws on: in all other
\* cases what is held is within what the source still has after the step.
DrawnElsewhereIsSupplied ==
  [][\A s \in Session :
       /\ hold'[s] # hold[s] /\ hold'[s] # NoHold
       /\ Exists(s) => sess[s].op # hold'[s].source
       /\ Allocated(hold', hold'[s].source) > Allocated(hold, hold'[s].source)
       =>
          Allocated(hold', hold'[s].source) <= ops'[hold'[s].source].sums.done]_vars

\* A session that moves takes its pieces along: what the operation it leaves
\* loses is what the operation it joins gains, in every aggregate, if both were
\* exact (transfer_operation and edit_session rebuild both).
MoveKeepsPieces ==
  [][\A s \in Session :
       LET old == sess[s].op  new == sess'[s].op IN
       /\ Exists(s) /\ new # old /\ sess'[s] = [sess[s] EXCEPT !.op = new]
       /\ Exact(old) /\ Exact(new)
       =>
          PlusSums(ops'[old].sums, ops'[new].sums)
            = PlusSums(ops[old].sums, ops[new].sums)]_vars

\* Said of the ledger by docs/architecture/INVARIANTS.md, section 5 (2), and not
\* kept: a session excluded from the reports holds no material.  Correcting or
\* closing an excluded session asks for it again.
ExcludedHoldsNothing ==
  \A s \in Session : hold[s] # NoHold => ~sess[s].excluded

\* Said by the same section of transfer_operation, and not kept: a session that
\* moves draws on its new source only what that source has.  The check reads
\* the aggregates stored before the move takes the session's pieces away.
MovedSessionIsSupplied ==
  [][\A s \in Session :
       /\ Exists(s)
       /\ sess'[s].op # sess[s].op
       /\ sess'[s] = [sess[s] EXCEPT !.op = sess'[s].op]
       /\ hold'[s] # NoHold
       =>
          Allocated(hold', hold'[s].source) <= ops'[hold'[s].source].sums.done]_vars
=============================================================================
