----------------------------- MODULE WriteLocks -----------------------------
(*************************************************************************)
(* The row locks the write paths take, and the order they take them in.  *)
(* The rule (INVARIANTS.md, section 6) is that the production order is   *)
(* locked before anything below it.  A path that starts from a session   *)
(* looks its operation up without a lock, so the order it locks first    *)
(* may no longer be the session's order when the session is locked; some *)
(* paths do not follow the rule.  What the rows hold is left out: a      *)
(* transaction is the list of locks it asks for, may be refused at any   *)
(* point, and is broken off by the database when it waits in a circle.   *)
(*************************************************************************)
EXTENDS Naturals, Sequences, FiniteSets

CONSTANTS
  Order,       \* ids of production orders
  Operation,   \* ids of operations, those of setups that do not exist yet included
  Session,     \* work sessions
  Thread,      \* server threads, one transaction each
  OrderOf,     \* operation -> its order
  Source,      \* operation -> the one it draws material from, or None
  Predecessor, \* operation -> the one it waits for, or None
  SetupOf,     \* operation -> the id of its SETUP row, or None
  Bench,       \* operation -> the repair bench of its part, or None
  LastOrder,   \* no order has a greater id
  None

ASSUME RowAssumption ==
  /\ Order \subseteq Nat /\ Operation \subseteq Nat /\ IsFiniteSet(Operation)
  /\ LastOrder \in Nat /\ \A o \in Order : o <= LastOrder
  /\ Order \cap Operation = {} /\ Session \cap (Order \cup Operation) = {}
  /\ None \notin Order \cup Operation \cup Session

ASSUME ShapeAssumption ==
  /\ OrderOf \in [Operation -> Order]
  /\ \A f \in {Source, Predecessor, SetupOf, Bench} :
       /\ f \in [Operation -> Operation \cup {None}]
       /\ \A o \in Operation : f[o] # None => OrderOf[f[o]] = OrderOf[o]

VARIABLES
  opOf, \* work_sessions.operation_id, committed
  live, \* the operations that exist
  job,  \* what the transaction of each thread has still to lock
  held  \* the locks it has

vars == <<opOf, live, job, held>>

-----------------------------------------------------------------------------
(* Locks.  A mode is a strength: two locks of different transactions on    *)
(* one row conflict when their strengths add up to five, which is          *)
(* PostgreSQL's table of row locks.                                        *)

KeyShare    == 1  \* a foreign key that is inserted
Share       == 2  \* SELECT ... FOR SHARE
NoKeyUpdate == 3  \* UPDATE
Update      == 4  \* SELECT ... FOR UPDATE, DELETE

Row  == Order \cup Operation \cup Session
Lock == [row: Row, mode: KeyShare..Update]

Conflicts(m, n) == m + n >= 5

At(r, m) == [row |-> r, mode |-> m]
Ask(r)   == At(r, Update)

Some(r, m) == IF r = None THEN <<>> ELSE <<At(r, m)>>

-----------------------------------------------------------------------------
(* What the paths lock *)

Below(po) == {o \in live : OrderOf[o] = po}

\* reconcile_operation_and_po
Reconcile(o) == <<Ask(OrderOf[o]), Ask(o)>>

\* _validate_and_upsert_input_consumption
Supply(o) == <<Ask(o)>> \o Some(Source[o], Update)

\* The ids of S in ascending order: ORDER BY id FOR UPDATE.
Ascending(S) ==
  {q \in [1..Cardinality(S) -> S] : \A i, j \in DOMAIN q : i < j => q[i] < q[j]}

AsksFor(q) == [i \in DOMAIN q |-> Ask(q[i])]

\* Finishing the session of a setup stamps the operation it prepares.
Prepares(o) == {p \in Operation : SetupOf[p] = o}
FinishPaths(o) ==
  IF Prepares(o) = {} THEN {Supply(o) \o Reconcile(o)}
  ELSE {<<At(p, NoKeyUpdate)>> \o Reconcile(o) : p \in Prepares(o)}

\* Finishing, correcting, excluding or restoring a session, and resolving its
\* repair, which looks for the bench.
ReportPaths(o) ==
  FinishPaths(o) \cup {Supply(o) \o Reconcile(o), Reconcile(o),
                       <<Ask(OrderOf[o])>> \o Some(Bench[o], Update) \o Reconcile(o)}

\* edit_session locks the new operation, transfer_operation the old one as well;
\* a session with a result is bound to the new source.
MovePaths(o, d) ==
  {p \o Reconcile(o) \o Reconcile(d) :
     p \in {<<Ask(d)>>, Supply(d), <<Ask(o), Ask(d)>>, <<Ask(o)>> \o Supply(d)}}

\* What is locked after the session row: the session is read again under its
\* lock, so this follows the operation it has now.
SessionPaths(kind, o, d) ==
  CASE kind = "report" -> ReportPaths(o)
    [] kind = "batch"  -> FinishPaths(o)
    [] kind = "move"   -> MovePaths(o, d)
    [] kind = "qc"     -> {<<At(o, KeyShare)>>}

\* What configure locks after its operation: the SETUP row, or, to insert one,
\* the key of the order.
SetupPaths(o) ==
  IF SetupOf[o] \in live THEN {<<Ask(SetupOf[o])>>} ELSE {<<At(OrderOf[o], KeyShare)>>}

-----------------------------------------------------------------------------
(* Transactions *)

\* orders: looked up first and locked first; todo: the locks that follow;
\* rest: the sessions of a batch that are still to be finished.
Idle == [kind |-> "none", sess |-> None, dest |-> None, orders |-> {}, todo |-> <<>>, rest |-> <<>>]

Locked(t) == {l.row : l \in held[t]}

\* The orders looked up and not locked yet.
Missing(t) == job[t].orders \ Locked(t)

\* Mutant: the order the session is in goes first.
FirstOrderLeft(t) ==
  IF job[t].sess # None /\ OrderOf[opOf[job[t].sess]] \in Missing(t)
  THEN OrderOf[opOf[job[t].sess]] ELSE CHOOSE o \in Missing(t) : TRUE

\* The lower id is next.
FirstOrder(t) == CHOOSE o \in Missing(t) : \A p \in Missing(t) : o <= p

\* Inserting a row that refers to an order takes only its key.
OrderMode(kind) == IF kind = "create" THEN KeyShare ELSE Update

Asks(t) == Missing(t) # {} \/ job[t].todo # <<>>
Wanted(t) == IF Missing(t) # {} THEN At(FirstOrder(t), OrderMode(job[t].kind))
             ELSE Head(job[t].todo)

Waits(t, u) ==
  /\ t # u /\ Asks(t)
  /\ \E l \in held[u] : l.row = Wanted(t).row /\ Conflicts(l.mode, Wanted(t).mode)

\* Every member waits for a member.
Circle(C) == C # {} /\ \A t \in C : \E u \in C : Waits(t, u)

Submit(t, kind, s, d, orders, todo, rest) ==
  /\ job[t] = Idle
  /\ job' = [job EXCEPT ![t] = [kind |-> kind, sess |-> s, dest |-> d, orders |-> orders,
                                todo |-> todo, rest |-> rest]]
  /\ UNCHANGED <<opOf, live, held>>

\* A path that starts from an operation: starting a session, recording one by
\* hand, cancelling the operation, rebuilding it.
WriteOperation(t) ==
  \E o \in live : \E q \in {<<>>, Some(Source[o], Share), Some(Source[o], Update)} :
    Submit(t, "order", None, None, {OrderOf[o]}, Reconcile(o) \o q, <<>>)

\* A path that starts from an order: starting it, or with all its operations,
\* rebuilding it and updating one of them.
WriteOrder(t) ==
  \E po \in Order : \E q \in {<<>>} \cup Ascending(Below(po)) :
    Submit(t, "order", None, None, {po}, AsksFor(q), <<>>)

\* A path that starts from a session: the order is that of its operation now.
WriteSession(t) ==
  \E s \in Session :
    Submit(t, "report", s, None, {OrderOf[opOf[s]]}, <<Ask(s)>>, <<>>)

\* finish_many: the first session, the others follow in the order of the request.
FinishMany(t) ==
  \E s \in Session : \E r \in Session \ {s} :
    Submit(t, "batch", s, None, {OrderOf[opOf[s]]}, <<Ask(s)>>, <<r>>)

\* Mutant: only the order the session leaves is looked up.
MoveSessionOneOrder(t) ==
  \E s \in Session, d \in live :
    Submit(t, "move", s, d, {OrderOf[opOf[s]]}, <<Ask(s)>>, <<>>)

\* transfer_operation and edit_session look up both orders.
MoveSession(t) ==
  \E s \in Session, d \in live :
    Submit(t, "move", s, d, {OrderOf[opOf[s]], OrderOf[d]}, <<Ask(s)>>, <<>>)

\* Creating an operation: the keys of the order and of what it depends on.
Create(t) ==
  \E po \in Order : \E p, s \in Below(po) \cup {None} :
    Submit(t, "create", None, None, {po}, Some(p, KeyShare) \o Some(s, KeyShare), <<>>)

(* Paths that do not lock the order first *)

Configure(t) ==
  \E o \in live : /\ Prepares(o) = {} /\ SetupOf[o] # None
                  /\ Submit(t, "configure", None, o, {}, <<Ask(o)>>, <<>>)

\* Deleting an operation deletes its setup and clears the references to it.
Delete(t) ==
  \E o \in live : \E r \in {x \in live : Predecessor[x] = o} \cup {None} :
    /\ o \notin {opOf[s] : s \in Session} /\ \A x \in live : Source[x] # o
    /\ Submit(t, "delete", None, o, {},
              <<Ask(o)>> \o Some(r, NoKeyUpdate) \o Some(SetupOf[o], Update), <<>>)

\* A spreadsheet of operations, in the order of its rows; two locks of it here.
\* An operation that exists is locked, a new one takes the key of its order, and
\* the plan quantity of a row is written to an order that has none.
Import(t) ==
  LET rows == {Ask(o) : o \in live} \cup {At(po, KeyShare) : po \in Order}
              \cup {At(po, NoKeyUpdate) : po \in Order} IN
    \E a, b \in rows : a # b /\ Submit(t, "import", None, None, {}, <<a, b>>, <<>>)

Inspect(t) ==
  \E s \in Session : Submit(t, "qc", s, None, {}, <<At(s, Share)>>, <<>>)

-----------------------------------------------------------------------------
(* Steps *)

\* What is asked for once row r is locked.
Onward(j, r) ==
  IF r = j.sess THEN SessionPaths(j.kind, opOf[j.sess], j.dest)
  ELSE IF j.kind = "configure" /\ r = j.dest THEN SetupPaths(j.dest)
  ELSE {<<>>}

\* One more of the orders looked up.
LockOrder(t) ==
  /\ Missing(t) # {}
  /\ \A u \in Thread : ~Waits(t, u)
  /\ held' = [held EXCEPT ![t] = @ \cup {Wanted(t)}]
  /\ UNCHANGED <<opOf, live, job>>

\* The next row; one that does not exist any more is not found.
LockRow(t) ==
  /\ Missing(t) = {} /\ job[t].todo # <<>>
  /\ \A u \in Thread : ~Waits(t, u)
  /\ LET want == Wanted(t) IN
       IF want.row \in Operation \ live
       THEN /\ job' = [job EXCEPT ![t].todo = Tail(@)]
            /\ UNCHANGED held
       ELSE /\ \E q \in Onward(job[t], want.row) :
                 job' = [job EXCEPT ![t].todo = Tail(@) \o q]
            /\ held' = [held EXCEPT ![t] = @ \cup {want}]
  /\ UNCHANGED <<opOf, live>>

\* The next session of a batch, with a look-up of its own.
NextItem(t) ==
  /\ job[t] # Idle /\ ~Asks(t) /\ job[t].rest # <<>>
  /\ LET s == Head(job[t].rest) IN
       job' = [job EXCEPT ![t].sess = s, ![t].orders = {OrderOf[opOf[s]]},
                          ![t].todo = <<Ask(s)>>, ![t].rest = Tail(@)]
  /\ UNCHANGED <<opOf, live, held>>

\* Mutant: the connection goes back to the pool with its transaction open.
EndKeepsLocks(t) == /\ job' = [job EXCEPT ![t] = Idle]
                    /\ UNCHANGED held

End(t) == /\ job' = [job EXCEPT ![t] = Idle]
          /\ held' = [held EXCEPT ![t] = {}]

\* A move is refused when its destination has been deleted, and a deletion while
\* sessions stand on what it takes away.
Moved(j) == IF j.kind = "move" /\ j.dest \in live
            THEN [opOf EXCEPT ![j.sess] = j.dest] ELSE opOf

Built(j) == IF j.kind = "configure" /\ j.dest \in live THEN {SetupOf[j.dest]} ELSE {}

Gone(j) == LET rows == IF j.kind = "delete" THEN {j.dest, SetupOf[j.dest]} ELSE {} IN
             IF \E s \in Session : opOf[s] \in rows THEN {} ELSE rows

Commit(t) ==
  /\ job[t] # Idle /\ ~Asks(t) /\ job[t].rest = <<>>
  /\ End(t)
  /\ opOf' = Moved(job[t])
  /\ live' = (live \ Gone(job[t])) \cup Built(job[t])

\* A check refuses and everything is rolled back; or the database breaks off a
\* transaction that waits in a circle.
Refuse(t) ==
  /\ job[t] # Idle /\ \A u \in Thread : ~Waits(t, u)
  /\ End(t)
  /\ UNCHANGED <<opOf, live>>

BreakCircle(t) ==
  /\ \E C \in SUBSET Thread : t \in C /\ Circle(C)
  /\ End(t)
  /\ UNCHANGED <<opOf, live>>

Init ==
  /\ live \in SUBSET Operation
  /\ \A o \in live : Prepares(o) \cup ({Bench[o]} \ {None}) \subseteq live
  /\ opOf \in [Session -> live]
  /\ job = [t \in Thread |-> Idle]
  /\ held = [t \in Thread |-> {}]

Begin(t) == WriteOperation(t) \/ WriteOrder(t) \/ WriteSession(t) \/ FinishMany(t)
            \/ MoveSession(t) \/ Create(t) \/ Configure(t) \/ Delete(t) \/ Import(t) \/ Inspect(t)

Work(t) == LockOrder(t) \/ LockRow(t) \/ NextItem(t) \/ Commit(t)

Next == \E t \in Thread : Begin(t) \/ Work(t) \/ Refuse(t) \/ BreakCircle(t)

Spec == Init /\ [][Next]_vars

-----------------------------------------------------------------------------
(* Properties *)

Kinds == {"none", "order", "report", "batch", "move", "create",
          "configure", "delete", "import", "qc"}

Job == [kind: Kinds, sess: Session \cup {None}, dest: Operation \cup {None},
        orders: SUBSET Order, todo: Seq(Lock), rest: Seq(Session)]

\* The values the variables take; a thread without a transaction holds no lock
\* (connection.py: transaction commits or rolls back before the connection goes
\* back to the pool), and locks of two transactions on one row do not conflict.
TypeOK ==
  /\ opOf \in [Session -> Operation]
  /\ live \subseteq Operation
  /\ job \in [Thread -> Job]
  /\ held \in [Thread -> SUBSET Lock]
  /\ \A t \in Thread :
       /\ job[t] = Idle => held[t] = {}
       /\ \A u \in Thread \ {t} : \A l \in held[t], m \in held[u] :
            l.row = m.row => ~Conflicts(l.mode, m.mode)

\* The paths that lock an operation or a session before its order, or without it.
Unordered == {"configure", "delete", "import", "qc"}

\* The session is no longer below an order the transaction has looked up.
Strayed(t) ==
  job[t].sess # None /\ OrderOf[opOf[job[t].sess]] \notin job[t].orders \cup Locked(t)

Loose(t) == job[t].kind \in Unordered \/ Strayed(t)

\* A batch that has finished a session and goes on to one of another order.
SecondOrder(t) == job[t].kind = "batch" /\ Missing(t) # {} /\ held[t] # {}

\* Transactions wait in a circle only when one of them is on a path that does not
\* lock the order first, has followed a look-up that has become stale, or is a
\* batch between two orders.  All others may run side by side: the orders they
\* look up are locked in ascending order, and what is below an order only after
\* it (production_state.py: lock_production_order_first_for_session; execution.py:
\* sorted order ids of edit_session and transfer_operation).
CirclesAreKnown ==
  \A C \in SUBSET Thread :
    Circle(C) => \E t \in C : Loose(t) \/ SecondOrder(t)

Home(r) == IF r \in Session THEN OrderOf[opOf[r]] ELSE OrderOf[r]

WritesBelow(t, po) == \E r \in Locked(t) \ Order : Home(r) = po

\* Two writers never have rows below the same order, unless one of them is on one
\* of those paths: this is what makes a command on an order one step for the
\* others, as in ProductionLedger.
OneWriterPerOrder ==
  \A t \in Thread : \A u \in Thread \ {t} : \A po \in Order :
    WritesBelow(t, po) /\ WritesBelow(u, po) /\ ~Loose(t) /\ ~Loose(u)
      => job[t].kind = "create" /\ job[u].kind = "create"

=============================================================================
