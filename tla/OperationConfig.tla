--------------------------- MODULE OperationConfig ---------------------------
(*************************************************************************)
(* How an operation depends on others: the predecessor it waits for and  *)
(* the source its material comes from.  A request that changes them      *)
(* reads the operation, checks without a lock what the merged row would  *)
(* be, and writes under the lock of the production order, where only the *)
(* dependency graph is checked again.  Workers' sessions meanwhile draw  *)
(* material from the sources.                                            *)
(*                                                                       *)
(* The same UPDATE writes the operation's status and quantities, and     *)
(* rebuilds them if the operation had sessions when the request counted  *)
(* them.  That half of it, and what a stale copy does there, is          *)
(* SaveOperation in ProductionLedger.                                    *)
(*************************************************************************)
EXTENDS Naturals, FiniteSets

CONSTANTS
  Operation,  \* the ids of operations, never used twice
  Order,      \* production orders
  Thread,     \* server threads
  None,       \* no operation, no order
  Keep,       \* a field the request does not send
  Patch       \* bound: the updates requested, records [po, predecessor, source]

ASSUME PatchAssumption ==
  /\ None \notin Operation \cup Order /\ Keep \notin Operation \cup Order \cup {None}
  /\ Patch \subseteq [po: Order \cup {Keep},
                      predecessor: Operation \cup {None, Keep},
                      source: Operation \cup {None, Keep}]

VARIABLES
  operation, \* the rows: [state, po, predecessor, source]
  drawn,     \* operation_input_consumptions: the sources an operation has drawn from
  worked,    \* the operations that have sessions
  thread,    \* what each server thread is doing
  overtaken  \* history: operations with material drawn whose row was written from a stale copy

vars == <<operation, drawn, worked, thread, overtaken>>

Row == [state: {"unborn", "live", "deleted"}, po: Order \cup {None},
        predecessor: Operation \cup {None}, source: Operation \cup {None}]
Unborn == [state |-> "unborn", po |-> None, predecessor |-> None, source |-> None]

Live(o) == operation[o].state = "live"

-----------------------------------------------------------------------------
(* The dependency graph *)

\* What a row waits for or draws from.
Needs(row) == {row.predecessor, row.source} \ {None}

\* Every set of operations has one that needs none of the set: no cycle.
Acyclic(nodes, needs) ==
  \A S \in SUBSET nodes : S # {} => \E o \in S : needs[o] \cap S = {}

InOrder(po) == {o \in Operation : Live(o) /\ operation[o].po = po}

\* validate_operation_dependencies for the operations o (none for one that is
\* created): what the row needs is in the order, and the order with the row in
\* it has no cycle and needs nothing outside.
Valid(os, po, row) ==
  LET ids   == InOrder(po)
      needs == [n \in ids \cup os |-> IF n \in os THEN Needs(row) ELSE Needs(operation[n])] IN
    /\ Needs(row) \subseteq ids \ os
    /\ \A n \in ids \cup os : needs[n] \subseteq ids
    /\ Acyclic(ids \cup os, needs)

\* _validate_flow: the source is another operation of the order.
FlowValid(os, po, row) == row.source # None => row.source \in InOrder(po) \ os

-----------------------------------------------------------------------------
(* Threads *)

Idle == [at |-> "idle", op |-> None, patch |-> None, seen |-> Unborn, drew |-> {}]

\* The value a field takes: what the request sends, or else what it was.
Sent(value, old) == IF value = Keep THEN old ELSE value

\* The row a request was about, with the fields it sends.
Merged(t) ==
  LET row == thread[t].seen  patch == thread[t].patch IN
    [row EXCEPT !.po = Sent(patch.po, @), !.predecessor = Sent(patch.predecessor, @),
                !.source = Sent(patch.source, @)]

\* Mutant: the fields the request does not send are written too.
WrittenWhole(row, t) ==
  [row EXCEPT !.po = thread[t].patch.po, !.predecessor = thread[t].patch.predecessor,
              !.source = Merged(t).source]

\* What the request writes: the source always, the other fields when it sends them.
Written(row, t) ==
  LET patch == thread[t].patch IN
    [row EXCEPT !.po = Sent(patch.po, @), !.predecessor = Sent(patch.predecessor, @),
                !.source = Merged(t).source]

\* Mutant: the source is not compared.
SourceMayChangeAlways(t) == TRUE

\* Once material is drawn, the source stays.
SourceMayChange(t) == Merged(t).source = thread[t].seen.source \/ thread[t].drew = {}

Ends(t) == thread' = [thread EXCEPT ![t] = Idle]

-----------------------------------------------------------------------------
(* update *)

AskUpdate(t, o, patch) ==
  /\ thread[t].at = "idle" /\ Live(o)
  /\ thread' = [thread EXCEPT ![t] = [at |-> "update", op |-> o, patch |-> patch,
                                      seen |-> operation[o], drew |-> drawn[o]]]
  /\ UNCHANGED <<operation, drawn, worked, overtaken>>

\* The checks before the lock; a request that fails them is refused.
CheckUpdate(t) ==
  LET o == thread[t].op IN
    /\ thread[t].at = "update"
    /\ IF /\ FlowValid({o}, Merged(t).po, Merged(t))
          /\ Valid({o}, Merged(t).po, Merged(t))
          /\ SourceMayChange(t)
         THEN thread' = [thread EXCEPT ![t].at = "write"]
         ELSE Ends(t)
    /\ UNCHANGED <<operation, drawn, worked, overtaken>>

Stale(t) == LET o == thread[t].op IN
  operation[o].source # thread[t].seen.source \/ drawn[o] # thread[t].drew

\* Mutant: the validation before the lock is taken for good.
MayWriteUnvalidated(t) == Live(thread[t].op)

\* Under the lock of the order the graph is validated as it is now.
MayWrite(t) == Live(thread[t].op) /\ Valid({thread[t].op}, Merged(t).po, Merged(t))

WriteUpdate(t) ==
  LET o == thread[t].op IN
    /\ thread[t].at = "write"
    /\ IF MayWrite(t)
         THEN /\ operation' = [operation EXCEPT ![o] = Written(@, t)]
              /\ overtaken' = IF Stale(t) THEN overtaken \cup {o} ELSE overtaken
         ELSE UNCHANGED <<operation, overtaken>>
    /\ Ends(t)
    /\ UNCHANGED <<drawn, worked>>

-----------------------------------------------------------------------------
(* create, which no lock protects *)

AskCreate(t, po, predecessor, source) ==
  LET row == [state |-> "live", po |-> po, predecessor |-> predecessor, source |-> source] IN
    /\ thread[t].at = "idle"
    /\ FlowValid({}, po, row) /\ Valid({}, po, row)
    /\ thread' = [thread EXCEPT ![t] = [Idle EXCEPT !.at = "insert", !.seen = row]]
    /\ UNCHANGED <<operation, drawn, worked, overtaken>>

\* The foreign keys hold the row back when what it needs is gone.
Insert(t, o) ==
  /\ thread[t].at = "insert" /\ operation[o].state = "unborn"
  /\ operation' = IF \A n \in Needs(thread[t].seen) : Live(n)
                    THEN [operation EXCEPT ![o] = thread[t].seen] ELSE operation
  /\ Ends(t)
  /\ UNCHANGED <<drawn, worked, overtaken>>

-----------------------------------------------------------------------------
(* delete *)

\* Refused for an operation with sessions, or with material drawn, or that is
\* the source of another; being a predecessor is no objection.
AskDelete(t, o) ==
  /\ thread[t].at = "idle" /\ Live(o)
  /\ o \notin worked
  /\ \A n \in Operation : operation[n].source # o
  /\ thread' = [thread EXCEPT ![t] = [Idle EXCEPT !.at = "delete", !.op = o]]
  /\ UNCHANGED <<operation, drawn, worked, overtaken>>

\* ON DELETE SET NULL
Without(o, value) == IF value = o THEN None ELSE value

\* The row goes unless it has sessions by now; the references to it are cleared.
Delete(t) ==
  LET o == thread[t].op IN
    /\ thread[t].at = "delete"
    /\ operation' =
         IF Live(o) /\ o \notin worked
           THEN [n \in Operation |->
                   IF n = o THEN [Unborn EXCEPT !.state = "deleted"]
                   ELSE [operation[n] EXCEPT !.predecessor = Without(o, @), !.source = Without(o, @)]]
           ELSE operation
    /\ Ends(t)
    /\ UNCHANGED <<drawn, worked, overtaken>>

-----------------------------------------------------------------------------
(* Sessions *)

\* A session of o is finished and its material taken from the source.
Draw(o) ==
  LET source == operation[o].source IN
    /\ Live(o) /\ source # None
    /\ drawn' = [drawn EXCEPT ![o] = @ \cup {source}]
    /\ worked' = worked \cup {o, source}
    /\ UNCHANGED <<operation, thread, overtaken>>

\* The sessions of o are corrected or excluded, so that nothing is drawn.
PutBack(o) ==
  /\ drawn[o] # {}
  /\ drawn' = [drawn EXCEPT ![o] = {}]
  /\ overtaken' = overtaken \ {o}
  /\ UNCHANGED <<operation, worked, thread>>

-----------------------------------------------------------------------------
NeedsIn(rows) == [o \in Operation |-> Needs(rows[o])]

\* Orders made from validated templates, at rest.
Init ==
  /\ operation \in [Operation -> Row]
  /\ \A o \in Operation :
       /\ operation[o] = Unborn \/ (Live(o) /\ operation[o].po # None)
       /\ \A n \in Needs(operation[o]) : Live(n) /\ operation[n].po = operation[o].po
  /\ Acyclic(Operation, NeedsIn(operation))
  /\ drawn = [o \in Operation |-> {}] /\ worked = {} /\ overtaken = {}
  /\ thread = [t \in Thread |-> Idle]

Next ==
  \/ \E t \in Thread :
       \/ CheckUpdate(t) \/ WriteUpdate(t) \/ Delete(t)
       \/ \E o \in Operation : AskDelete(t, o) \/ Insert(t, o)
       \/ \E o \in Operation, patch \in Patch : AskUpdate(t, o, patch)
       \/ \E po \in Order, predecessor, source \in Operation \cup {None} :
            AskCreate(t, po, predecessor, source)
  \/ \E o \in Operation : Draw(o) \/ PutBack(o)

Spec == Init /\ [][Next]_vars

-----------------------------------------------------------------------------
(* Properties *)

TypeOK ==
  /\ operation \in [Operation -> Row]
  /\ drawn \in [Operation -> SUBSET Operation]
  /\ worked \subseteq Operation /\ overtaken \subseteq Operation
  /\ thread \in [Thread -> [at: {"idle", "update", "write", "insert", "delete"},
                            op: Operation \cup {None}, patch: Patch \cup {None},
                            seen: Row, drew: SUBSET Operation]]

\* No operation waits for itself, however the requests that change the
\* dependencies are interleaved, from copies of a row however old.
NoCycle == Acyclic(Operation, NeedsIn(operation))

\* While an operation has material drawn, its source is where it drew it from,
\* unless a request that read the row before wrote it back.
DrawnFromSource ==
  \A o \in Operation \ overtaken : drawn[o] \subseteq {operation[o].source}
=============================================================================
