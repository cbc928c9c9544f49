------------------------ MODULE OperationConfig_proofs ------------------------
(*************************************************************************)
(* Proofs about the dependencies of operations: the shape of the state,  *)
(* and that no interleaving of stale requests makes a cycle.             *)
(*************************************************************************)
EXTENDS OperationConfig, TLAPS

-----------------------------------------------------------------------------
(* Types *)

LEMMA IdleType == Idle \in [at: {"idle", "update", "write", "insert", "delete"},
                            op: Operation \cup {None}, patch: Patch \cup {None},
                            seen: Row, drew: SUBSET Operation]
  BY DEF Idle, Unborn, Row

\* The row a request merges, and the one it writes, are rows.
LEMMA MergedType ==
  ASSUME TypeOK, NEW t \in Thread, thread[t].patch \in Patch
  PROVE  /\ Merged(t) \in Row
         /\ \A row \in Row : Written(row, t) \in Row
<1>1. thread[t].seen \in Row
  BY DEF TypeOK
<1>2. thread[t].patch \in [po: Order \cup {Keep}, predecessor: Operation \cup {None, Keep},
                           source: Operation \cup {None, Keep}]
  BY PatchAssumption
<1>3. \A v \in Order \cup {Keep}, old \in Order \cup {None} : Sent(v, old) \in Order \cup {None}
  BY DEF Sent
<1>4. \A v \in Operation \cup {None, Keep}, old \in Operation \cup {None} :
        Sent(v, old) \in Operation \cup {None}
  BY DEF Sent
<1>5. Merged(t) \in Row
  BY <1>1, <1>2, <1>3, <1>4 DEF Merged, Row
<1>6. ASSUME NEW row \in Row PROVE Written(row, t) \in Row
  BY <1>2, <1>3, <1>5, <1>4 DEF Written, Row
<1> QED
  BY <1>5, <1>6

\* An update is about an operation and one of the requested ones.
RequestOK == \A t \in Thread : thread[t].at \in {"update", "write"} =>
                                 thread[t].patch \in Patch /\ thread[t].op \in Operation

Typed == TypeOK /\ RequestOK

LEMMA InitTyped == Init => Typed
  BY IdleType DEF Init, Typed, TypeOK, RequestOK, Idle

LEMMA NextTyped == Typed /\ [Next]_vars => Typed'
<1> SUFFICES ASSUME Typed, [Next]_vars PROVE Typed'
  OBVIOUS
<1> USE DEF Typed
<1>1. ASSUME NEW t \in Thread, Ends(t)
      PROVE  /\ thread' \in [Thread -> [at: {"idle", "update", "write", "insert", "delete"},
                                        op: Operation \cup {None}, patch: Patch \cup {None},
                                        seen: Row, drew: SUBSET Operation]]
             /\ RequestOK'
  BY <1>1, IdleType DEF Ends, TypeOK, RequestOK, Idle
<1>2. ASSUME NEW t \in Thread, NEW o \in Operation, NEW patch \in Patch, AskUpdate(t, o, patch)
      PROVE  Typed'
  BY <1>2 DEF AskUpdate, TypeOK, RequestOK
<1>3. ASSUME NEW t \in Thread, CheckUpdate(t) PROVE Typed'
  <2>1. CASE thread' = [thread EXCEPT ![t].at = "write"]
    BY <1>3, <2>1 DEF CheckUpdate, TypeOK, RequestOK
  <2>2. CASE Ends(t)
    BY <1>3, <1>1, <2>2 DEF CheckUpdate, TypeOK
  <2> QED
    BY <1>3, <2>1, <2>2 DEF CheckUpdate
<1>4. ASSUME NEW t \in Thread, WriteUpdate(t) PROVE Typed'
  <2> DEFINE o == thread[t].op
  <2>1. thread[t].patch \in Patch /\ o \in Operation
    BY <1>4 DEF WriteUpdate, RequestOK
  <2>2. operation' \in [Operation -> Row] /\ overtaken' \subseteq Operation
    <3>1. operation[o] \in Row /\ operation \in [Operation -> Row] /\ overtaken \subseteq Operation
      BY <2>1 DEF TypeOK
    <3>2. Written(operation[o], t) \in Row
      BY <2>1, <3>1, MergedType DEF Typed
    <3>3. CASE MayWrite(t)
      BY <1>4, <2>1, <3>1, <3>2, <3>3 DEF WriteUpdate
    <3>4. CASE ~MayWrite(t)
      BY <1>4, <3>1, <3>4 DEF WriteUpdate
    <3> QED
      BY <3>3, <3>4
  <2> QED
    BY <1>4, <1>1, <2>2 DEF WriteUpdate, TypeOK
<1>5. ASSUME NEW t \in Thread, NEW po \in Order, NEW predecessor \in Operation \cup {None},
             NEW source \in Operation \cup {None}, AskCreate(t, po, predecessor, source)
      PROVE  Typed'
  BY <1>5, IdleType DEF AskCreate, TypeOK, RequestOK, Idle, Row
<1>6. ASSUME NEW t \in Thread, NEW o \in Operation, Insert(t, o) PROVE Typed'
  BY <1>6, <1>1 DEF Insert, TypeOK
<1>7. ASSUME NEW t \in Thread, NEW o \in Operation, AskDelete(t, o) PROVE Typed'
  BY <1>7, IdleType DEF AskDelete, TypeOK, RequestOK, Idle
<1>8. ASSUME NEW t \in Thread, Delete(t) PROVE Typed'
  <2>1. operation' \in [Operation -> Row]
    <3>1. [Unborn EXCEPT !.state = "deleted"] \in Row
      BY DEF Unborn, Row
    <3>2. ASSUME NEW o, NEW row \in Row
          PROVE  [row EXCEPT !.predecessor = Without(o, @), !.source = Without(o, @)] \in Row
      <4>1. \A v \in Operation \cup {None} : Without(o, v) \in Operation \cup {None}
        BY DEF Without
      <4> QED
        BY <4>1 DEF Row
    <3>3. operation \in [Operation -> Row]
      BY DEF TypeOK
    <3> HIDE DEF Row
    <3> QED
      BY <1>8, <3>1, <3>2, <3>3 DEF Delete
  <2> QED
    BY <1>8, <1>1, <2>1 DEF Delete, TypeOK
<1>9. ASSUME NEW o \in Operation, Draw(o) PROVE Typed'
  BY <1>9 DEF Draw, TypeOK, RequestOK, Row
<1>10. ASSUME NEW o \in Operation, PutBack(o) PROVE Typed'
  BY <1>10 DEF PutBack, TypeOK, RequestOK
<1>11. CASE UNCHANGED vars
  BY <1>11 DEF vars, TypeOK, RequestOK
<1> QED
  BY <1>2, <1>3, <1>4, <1>5, <1>6, <1>7, <1>8, <1>9, <1>10, <1>11 DEF Next

\* Every reachable state of the configuration, for any operations, orders,
\* requests and threads, has rows and requests of the right shape.
THEOREM TypeCorrect == Spec => []TypeOK
<1>1. Typed => TypeOK
  BY DEF Typed
<1> QED
  BY InitTyped, NextTyped, <1>1, PTL DEF Spec

-----------------------------------------------------------------------------
(* Cycles *)

\* What a row needs is live: the foreign keys.
NeedsLive == \A o \in Operation : \A n \in Needs(operation[o]) : n \in Operation /\ Live(n)

GraphInv == Typed /\ NeedsLive /\ NoCycle

\* A set of operations without a cycle has one that needs none of the set.
LEMMA Free ==
  ASSUME NoCycle, NEW S \in SUBSET Operation, S # {}
  PROVE  \E o \in S : Needs(operation[o]) \cap S = {}
  BY DEF NoCycle, Acyclic, NeedsIn

LEMMA InitGraph == Init => GraphInv
  BY InitTyped DEF Init, GraphInv, NeedsLive, NoCycle, Typed, TypeOK, Needs, Row

\* What the row of o needs lies in its order, the others of the order need
\* nothing outside, and no set of the order closes a cycle through o.
ClosedWith(o, po, row) ==
  /\ Needs(row) \subseteq InOrder(po) \ {o}
  /\ \A n \in InOrder(po) \ {o} : Needs(operation[n]) \subseteq InOrder(po)
  /\ \A S \in SUBSET (InOrder(po) \cup {o}) :
       S # {} => \E n \in S : (IF n = o THEN Needs(row) ELSE Needs(operation[n])) \cap S = {}

LEMMA ValidRow ==
  ASSUME NEW o, NEW po, NEW row, Valid({o}, po, row)
  PROVE  ClosedWith(o, po, row)
<1> DEFINE needs == [n \in InOrder(po) \cup {o} |-> IF n \in {o} THEN Needs(row) ELSE Needs(operation[n])]
<1>1. /\ Needs(row) \subseteq InOrder(po) \ {o}
      /\ \A n \in InOrder(po) \cup {o} : needs[n] \subseteq InOrder(po)
      /\ Acyclic(InOrder(po) \cup {o}, needs)
  BY DEF Valid
<1>2. \A n \in InOrder(po) \cup {o} : needs[n] = IF n = o THEN Needs(row) ELSE Needs(operation[n])
  OBVIOUS
<1>3. ASSUME NEW S \in SUBSET (InOrder(po) \cup {o}), S # {}
      PROVE  \E n \in S : (IF n = o THEN Needs(row) ELSE Needs(operation[n])) \cap S = {}
  <2>1. PICK n \in S : needs[n] \cap S = {}
    BY <1>1, <1>3 DEF Acyclic
  <2> QED
    BY <2>1, <1>2
<1>4. \A n \in InOrder(po) \ {o} : Needs(operation[n]) \subseteq InOrder(po)
  BY <1>1, <1>2
<1> QED
  BY <1>1, <1>3, <1>4 DEF ClosedWith

\* A request that writes needs nothing but what the row needed before and what
\* was validated.
LEMMA WrittenNeeds ==
  ASSUME Typed, NEW t \in Thread, NEW row \in Row, thread[t].patch \in Patch
  PROVE  Needs(Written(row, t)) \subseteq Needs(row) \cup Needs(Merged(t))
<1>1. Written(row, t).source = Merged(t).source
  BY DEF Written, Row
<1>2. /\ Written(row, t).predecessor = Sent(thread[t].patch.predecessor, row.predecessor)
      /\ Merged(t).predecessor = Sent(thread[t].patch.predecessor, thread[t].seen.predecessor)
  BY DEF Written, Merged, Row, Typed, TypeOK
<1>3. Written(row, t).predecessor \in {row.predecessor, Merged(t).predecessor}
  BY <1>2 DEF Sent
<1> QED
  BY <1>1, <1>3 DEF Needs

LEMMA WriteKeepsGraph ==
  ASSUME GraphInv, NEW t \in Thread, WriteUpdate(t), MayWrite(t)
  PROVE  NeedsLive' /\ NoCycle'
<1> DEFINE o == thread[t].op
           po == Merged(t).po
<1> USE DEF GraphInv
<1>1. o \in Operation /\ thread[t].patch \in Patch
  BY DEF WriteUpdate, Typed, RequestOK
<1>2. Live(o) /\ Valid({o}, po, Merged(t))
  BY DEF MayWrite
<1>3. operation \in [Operation -> Row]
  BY DEF Typed, TypeOK
<1>4. operation' = [operation EXCEPT ![o] = Written(operation[o], t)]
  BY <1>1, <1>3 DEF WriteUpdate
<1>5. /\ \A n \in Operation \ {o} : operation'[n] = operation[n]
      /\ operation'[o] = Written(operation[o], t)
  BY <1>1, <1>3, <1>4
<1>6. Needs(operation'[o]) \subseteq Needs(operation[o]) \cup Needs(Merged(t))
  BY <1>1, <1>3, <1>5, WrittenNeeds
<1>7. /\ Needs(Merged(t)) \subseteq InOrder(po) \ {o}
      /\ \A n \in InOrder(po) \ {o} : Needs(operation[n]) \subseteq InOrder(po)
      /\ \A S \in SUBSET (InOrder(po) \cup {o}) :
           S # {} => \E n \in S : (IF n = o THEN Needs(Merged(t)) ELSE Needs(operation[n])) \cap S = {}
  <2>1. ClosedWith(o, po, Merged(t))
    BY <1>2, ValidRow
  <2> QED
    BY <2>1 DEF ClosedWith
<1>8. InOrder(po) \subseteq Operation /\ \A n \in InOrder(po) : Live(n)
  BY DEF InOrder
<1>9. NeedsLive'
  <2>1. \A n \in Operation : Live(n) => Live(n)'
    BY <1>1, <1>3, <1>5 DEF Live, Written, Row
  <2>2. \A n \in Operation : Needs(operation[n]) \subseteq {m \in Operation : Live(m)}
    BY DEF NeedsLive
  <2>3. \A n \in Operation : Needs(operation'[n]) \subseteq {m \in Operation : Live(m)}
    BY <1>5, <1>6, <1>7, <1>8, <2>2
  <2> QED
    BY <2>1, <2>3 DEF NeedsLive
<1>10. NoCycle'
  <2> SUFFICES ASSUME NEW S \in SUBSET Operation, S # {},
                      \A n \in S : Needs(operation'[n]) \cap S # {}
               PROVE  FALSE
    BY DEF NoCycle, Acyclic, NeedsIn
  <2>1. PICK n \in S : Needs(operation[n]) \cap S = {}
    BY Free
  <2>2. n = o
    BY <1>5, <2>1
  <2>3. Needs(Merged(t)) \cap S # {}
    BY <1>6, <2>1, <2>2
  <2> DEFINE T == (S \cap InOrder(po)) \cup {o}
  <2>4. PICK m \in T : (IF m = o THEN Needs(Merged(t)) ELSE Needs(operation[m])) \cap T = {}
    BY <1>7
  <2>5. CASE m = o
    BY <1>7, <2>3, <2>4, <2>5
  <2>6. CASE m # o
    <3>1. m \in S /\ m \in InOrder(po) \ {o}
      BY <2>6
    <3>2. Needs(operation[m]) \cap S # {} /\ Needs(operation[m]) \subseteq InOrder(po)
      BY <1>5, <1>7, <3>1
    <3> QED
      BY <2>4, <2>6, <3>2
  <2> QED
    BY <2>5, <2>6
<1> QED
  BY <1>9, <1>10

\* An operation nobody needs yet closes no cycle, whatever it needs itself.
LEMMA InsertKeepsGraph ==
  ASSUME GraphInv, NEW t \in Thread, NEW o \in Operation, Insert(t, o)
  PROVE  NeedsLive' /\ NoCycle'
<1> USE DEF GraphInv
<1> DEFINE row == thread[t].seen
<1>1. operation \in [Operation -> Row] /\ row \in Row
  BY DEF Typed, TypeOK
<1>2. ~Live(o) /\ \A n \in Operation : o \notin Needs(operation[n])
  BY DEF Insert, NeedsLive, Live
<1>3. CASE operation' = operation
  BY <1>3 DEF NeedsLive, NoCycle, Live, NeedsIn, Acyclic
<1>4. CASE operation' # operation
  <2>1. /\ \A n \in Needs(row) : Live(n)
        /\ operation' = [operation EXCEPT ![o] = row]
    BY <1>4 DEF Insert
  <2>2. Needs(row) \subseteq Operation \ {o}
    BY <1>1, <1>2, <2>1 DEF Needs, Row
  <2>3. operation'[o] = row /\ \A n \in Operation \ {o} : operation'[n] = operation[n]
    BY <1>1, <2>1
  <2>4. NeedsLive'
    BY <1>2, <2>1, <2>2, <2>3 DEF NeedsLive, Live
  <2>5. NoCycle'
    <3> SUFFICES ASSUME NEW S \in SUBSET Operation, S # {},
                        \A n \in S : Needs(operation'[n]) \cap S # {}
                 PROVE  FALSE
      BY DEF NoCycle, Acyclic, NeedsIn
    <3>1. S \ {o} # {}
      BY <2>2, <2>3
    <3>2. PICK n \in S \ {o} : Needs(operation[n]) \cap (S \ {o}) = {}
      BY <3>1, Free
    <3> QED
      BY <1>2, <2>3, <3>2
  <2> QED
    BY <2>4, <2>5
<1> QED
  BY <1>3, <1>4

\* Deleting an operation only takes needs away.
LEMMA DeleteKeepsGraph ==
  ASSUME GraphInv, NEW t \in Thread, Delete(t)
  PROVE  NeedsLive' /\ NoCycle'
<1> USE DEF GraphInv
<1> DEFINE o == thread[t].op
<1>1. operation \in [Operation -> Row]
  BY DEF Typed, TypeOK
<1>2. CASE operation' = operation
  BY <1>2 DEF NeedsLive, NoCycle, Live, NeedsIn, Acyclic
<1>3. CASE operation' # operation
  <2>1. operation' = [n \in Operation |->
                        IF n = o THEN [Unborn EXCEPT !.state = "deleted"]
                        ELSE [operation[n] EXCEPT !.predecessor = Without(o, @), !.source = Without(o, @)]]
    BY <1>3 DEF Delete
  <2>2. ASSUME NEW n \in Operation PROVE Needs(operation'[n]) \subseteq Needs(operation[n]) \ {o}
    <3>1. CASE n = o
      BY <2>1, <3>1 DEF Needs, Unborn
    <3>2. CASE n # o
      <4>1. /\ operation'[n].predecessor = Without(o, operation[n].predecessor)
            /\ operation'[n].source = Without(o, operation[n].source)
        BY <1>1, <2>1, <3>2 DEF Row
      <4> QED
        BY <4>1 DEF Needs, Without
    <3> QED
      BY <3>1, <3>2
  <2>3. \A n \in Operation \ {o} : Live(n) => Live(n)'
    BY <1>1, <2>1 DEF Live, Row
  <2>4. NeedsLive'
    BY <2>2, <2>3 DEF NeedsLive
  <2>5. NoCycle'
    <3> SUFFICES ASSUME NEW S \in SUBSET Operation, S # {},
                        \A n \in S : Needs(operation'[n]) \cap S # {}
                 PROVE  FALSE
      BY DEF NoCycle, Acyclic, NeedsIn
    <3>1. PICK n \in S : Needs(operation[n]) \cap S = {}
      BY Free
    <3> QED
      BY <2>2, <3>1
  <2> QED
    BY <2>4, <2>5
<1> QED
  BY <1>2, <1>3

LEMMA NextGraph == GraphInv /\ [Next]_vars => GraphInv'
<1> SUFFICES ASSUME GraphInv, [Next]_vars PROVE GraphInv'
  OBVIOUS
<1>1. Typed'
  BY NextTyped DEF GraphInv
<1>2. CASE operation' = operation
  BY <1>1, <1>2 DEF GraphInv, NeedsLive, NoCycle, Live, NeedsIn, Acyclic
<1>3. ASSUME NEW t \in Thread, WriteUpdate(t) PROVE GraphInv'
  <2>1. CASE MayWrite(t)
    BY <1>1, <1>3, <2>1, WriteKeepsGraph DEF GraphInv
  <2>2. CASE ~MayWrite(t)
    BY <1>2, <1>3, <2>2 DEF WriteUpdate
  <2> QED
    BY <2>1, <2>2
<1>4. ASSUME NEW t \in Thread, NEW o \in Operation, Insert(t, o) PROVE GraphInv'
  BY <1>1, <1>4, InsertKeepsGraph DEF GraphInv
<1>5. ASSUME NEW t \in Thread, Delete(t) PROVE GraphInv'
  BY <1>1, <1>5, DeleteKeepsGraph DEF GraphInv
<1>6. CASE UNCHANGED vars
  BY <1>2, <1>6 DEF vars
<1> QED
  BY <1>2, <1>3, <1>4, <1>5, <1>6
     DEF Next, CheckUpdate, AskUpdate, AskCreate, AskDelete, Draw, PutBack

\* No operation waits for itself, over any number of others: whatever copies the
\* requests merge into, the graph validated under the lock and the graph before
\* leave no set of operations that closes a cycle.
THEOREM DependenciesHaveNoCycle == Spec => []NoCycle
<1>1. GraphInv => NoCycle
  BY DEF GraphInv
<1> QED
  BY InitGraph, NextGraph, <1>1, PTL DEF Spec

-----------------------------------------------------------------------------
(* Material *)

\* A request that has passed its checks leaves the source it has read, or has
\* read that nothing was drawn.
CheckedOK == \A t \in Thread : thread[t].at = "write" => SourceMayChange(t)

\* What is drawn was drawn from operations that have sessions, by one that has.
DrawnWorked == \A o \in Operation : drawn[o] # {} => drawn[o] \cup {o} \subseteq worked

\* An operation that has sessions exists.
WorkedLive == \A o \in worked : Live(o)

DrawnInv == GraphInv /\ DrawnFromSource /\ CheckedOK /\ DrawnWorked /\ WorkedLive

LEMMA InitDrawn == Init => DrawnInv
  BY InitGraph DEF Init, DrawnInv, DrawnFromSource, CheckedOK, DrawnWorked, WorkedLive, Idle

\* A step of one thread that leaves it idle, or asking, keeps what the others
\* have checked.
LEMMA CheckedKept ==
  ASSUME Typed, CheckedOK, NEW t \in Thread, thread'[t].at # "write",
         \E request : thread' = [thread EXCEPT ![t] = request]
  PROVE  CheckedOK'
<1>1. \A u \in Thread \ {t} : thread'[u] = thread[u]
  BY DEF Typed, TypeOK
<1> QED
  BY <1>1 DEF CheckedOK, SourceMayChange, Merged

LEMMA EndsChecked ==
  ASSUME Typed, CheckedOK, NEW t \in Thread, Ends(t)
  PROVE  CheckedOK'
<1>1. thread' = [thread EXCEPT ![t] = Idle] /\ thread'[t].at # "write"
  BY DEF Ends, Idle, Typed, TypeOK
<1> QED
  BY <1>1, CheckedKept

LEMMA NextDrawn == DrawnInv /\ [Next]_vars => DrawnInv'
<1> SUFFICES ASSUME DrawnInv, [Next]_vars PROVE DrawnInv'
  OBVIOUS
<1> USE DEF DrawnInv
<1>0. GraphInv' /\ Typed
  BY NextGraph DEF GraphInv
<1>1. ASSUME NEW t \in Thread, NEW o \in Operation, NEW patch \in Patch, AskUpdate(t, o, patch)
      PROVE  DrawnInv'
  <2>1. thread'[t].at # "write"
    BY <1>0, <1>1 DEF AskUpdate, Typed, TypeOK
  <2>2. CheckedOK'
    BY <1>0, <1>1, <2>1, CheckedKept DEF AskUpdate
  <2> QED
    BY <1>0, <1>1, <2>2 DEF AskUpdate, DrawnFromSource, DrawnWorked, WorkedLive, Live
<1>2. ASSUME NEW t \in Thread, CheckUpdate(t) PROVE DrawnInv'
  <2>1. CASE thread' = [thread EXCEPT ![t].at = "write"]
    <3>1. SourceMayChange(t)
      BY <1>0, <1>2, <2>1 DEF CheckUpdate, Ends, Idle, Typed, TypeOK
    <3>2. \A u \in Thread : /\ thread'[u].patch = thread[u].patch /\ thread'[u].seen = thread[u].seen
                            /\ thread'[u].drew = thread[u].drew
                            /\ u # t => thread'[u].at = thread[u].at
      BY <1>0, <2>1 DEF Typed, TypeOK
    <3>3. CheckedOK'
      BY <3>1, <3>2 DEF CheckedOK, SourceMayChange, Merged
    <3> QED
      BY <1>0, <1>2, <3>3 DEF CheckUpdate, DrawnFromSource, DrawnWorked, WorkedLive, Live
  <2>2. CASE Ends(t)
    BY <1>0, <1>2, <2>2, EndsChecked DEF CheckUpdate, DrawnFromSource, DrawnWorked, WorkedLive, Live
  <2> QED
    BY <1>2, <2>1, <2>2 DEF CheckUpdate
<1>3. ASSUME NEW t \in Thread, WriteUpdate(t) PROVE DrawnInv'
  <2> DEFINE o == thread[t].op
  <2>1. CheckedOK' /\ UNCHANGED <<drawn, worked>>
    BY <1>0, <1>3, EndsChecked DEF WriteUpdate
  <2>2. CASE ~MayWrite(t)
    BY <1>0, <1>3, <2>1, <2>2 DEF WriteUpdate, DrawnFromSource, DrawnWorked, WorkedLive, Live
  <2>3. CASE MayWrite(t)
    <3>1. /\ o \in Operation /\ SourceMayChange(t) /\ operation \in [Operation -> Row]
          /\ operation' = [operation EXCEPT ![o] = Written(operation[o], t)]
          /\ overtaken' = IF Stale(t) THEN overtaken \cup {o} ELSE overtaken
      BY <1>0, <1>3, <2>3 DEF WriteUpdate, Typed, RequestOK, TypeOK, CheckedOK
    <3>2. /\ operation'[o].source = Merged(t).source
          /\ operation'[o].state = operation[o].state
          /\ \A n \in Operation \ {o} : operation'[n] = operation[n]
      BY <3>1 DEF Written, Row
    <3>3. DrawnFromSource'
      <4>1. CASE Stale(t)
        BY <2>1, <3>1, <3>2, <4>1 DEF DrawnFromSource
      <4>2. CASE ~Stale(t)
        BY <2>1, <3>1, <3>2, <4>2 DEF DrawnFromSource, Stale, SourceMayChange
      <4> QED
        BY <4>1, <4>2
    <3>4. WorkedLive'
      <4>1. worked \subseteq Operation
        BY <1>0 DEF Typed, TypeOK
      <4> QED
        BY <2>1, <3>2, <4>1 DEF WorkedLive, Live
    <3> QED
      BY <1>0, <2>1, <3>3, <3>4 DEF DrawnWorked
  <2> QED
    BY <2>2, <2>3
<1>4. ASSUME NEW t \in Thread, NEW po \in Order, NEW predecessor \in Operation \cup {None},
             NEW source \in Operation \cup {None}, AskCreate(t, po, predecessor, source)
      PROVE  DrawnInv'
  <2>1. thread'[t].at # "write"
    BY <1>0, <1>4 DEF AskCreate, Typed, TypeOK, Idle
  <2>2. CheckedOK'
    BY <1>0, <1>4, <2>1, CheckedKept DEF AskCreate
  <2> QED
    BY <1>0, <1>4, <2>2 DEF AskCreate, DrawnFromSource, DrawnWorked, WorkedLive, Live
<1>5. ASSUME NEW t \in Thread, NEW o \in Operation, Insert(t, o) PROVE DrawnInv'
  <2>1. CheckedOK' /\ UNCHANGED <<drawn, worked, overtaken>>
    BY <1>0, <1>5, EndsChecked DEF Insert
  <2>2. o \notin worked /\ worked \subseteq Operation
    BY <1>0, <1>5 DEF Insert, WorkedLive, Live, Typed, TypeOK
  <2>3. drawn[o] = {}
    BY <2>2 DEF DrawnWorked
  <2>4. \A n \in Operation \ {o} : operation'[n] = operation[n]
    BY <1>0, <1>5 DEF Insert, Typed, TypeOK
  <2> QED
    BY <1>0, <2>1, <2>2, <2>3, <2>4 DEF DrawnFromSource, DrawnWorked, WorkedLive, Live
<1>6. ASSUME NEW t \in Thread, NEW o \in Operation, AskDelete(t, o) PROVE DrawnInv'
  <2>1. thread'[t].at # "write"
    BY <1>0, <1>6 DEF AskDelete, Typed, TypeOK, Idle
  <2>2. CheckedOK'
    BY <1>0, <1>6, <2>1, CheckedKept DEF AskDelete
  <2> QED
    BY <1>0, <1>6, <2>2 DEF AskDelete, DrawnFromSource, DrawnWorked, WorkedLive, Live
<1>7. ASSUME NEW t \in Thread, Delete(t) PROVE DrawnInv'
  <2> DEFINE o == thread[t].op
  <2>1. CheckedOK' /\ UNCHANGED <<drawn, worked, overtaken>>
    BY <1>0, <1>7, EndsChecked DEF Delete
  <2>2. CASE operation' = operation
    BY <1>0, <2>1, <2>2 DEF DrawnFromSource, DrawnWorked, WorkedLive, Live
  <2>3. CASE operation' # operation
    <3>1. /\ o \notin worked /\ operation \in [Operation -> Row] /\ worked \subseteq Operation
          /\ operation' = [n \in Operation |->
                IF n = o THEN [Unborn EXCEPT !.state = "deleted"]
                ELSE [operation[n] EXCEPT !.predecessor = Without(o, @), !.source = Without(o, @)]]
      BY <1>0, <1>7, <2>3 DEF Delete, Typed, TypeOK
    <3>2. \A n \in Operation \ {o} : /\ operation'[n].state = operation[n].state
                                     /\ operation'[n].source = Without(o, operation[n].source)
      BY <3>1 DEF Row
    <3>3. \A n \in Operation : o \notin drawn[n] /\ (n = o => drawn[n] = {})
      BY <3>1 DEF DrawnWorked
    <3>4. DrawnFromSource'
      BY <2>1, <3>2, <3>3 DEF DrawnFromSource, Without
    <3>5. WorkedLive'
      BY <2>1, <3>1, <3>2 DEF WorkedLive, Live
    <3> QED
      BY <1>0, <2>1, <3>4, <3>5 DEF DrawnWorked
  <2> QED
    BY <2>2, <2>3
<1>8. ASSUME NEW o \in Operation, Draw(o) PROVE DrawnInv'
  <2> DEFINE source == operation[o].source
  <2>1. /\ Live(o) /\ source # None /\ UNCHANGED <<operation, thread, overtaken>>
        /\ drawn' = [drawn EXCEPT ![o] = @ \cup {source}]
        /\ worked' = worked \cup {o, source}
    BY <1>8 DEF Draw
  <2>2. Live(source)
    BY <1>0, <2>1 DEF GraphInv, NeedsLive, Needs
  <2>3. drawn \in [Operation -> SUBSET Operation]
    BY <1>0 DEF Typed, TypeOK
  <2>4. CheckedOK'
    BY <2>1 DEF CheckedOK, SourceMayChange, Merged
  <2>5. DrawnFromSource' /\ DrawnWorked'
    BY <2>1, <2>3 DEF DrawnFromSource, DrawnWorked
  <2>6. WorkedLive'
    BY <2>1, <2>2 DEF WorkedLive, Live
  <2> QED
    BY <1>0, <2>4, <2>5, <2>6
<1>9. ASSUME NEW o \in Operation, PutBack(o) PROVE DrawnInv'
  <2>1. drawn \in [Operation -> SUBSET Operation]
    BY <1>0 DEF Typed, TypeOK
  <2>2. CheckedOK' /\ WorkedLive'
    BY <1>9 DEF PutBack, CheckedOK, SourceMayChange, Merged, WorkedLive, Live
  <2>3. DrawnFromSource' /\ DrawnWorked'
    BY <1>9, <2>1 DEF PutBack, DrawnFromSource, DrawnWorked
  <2> QED
    BY <1>0, <2>2, <2>3
<1>10. CASE UNCHANGED vars
  BY <1>0, <1>10 DEF vars, DrawnFromSource, CheckedOK, SourceMayChange, Merged, DrawnWorked, WorkedLive, Live
<1> QED
  BY <1>1, <1>2, <1>3, <1>4, <1>5, <1>6, <1>7, <1>8, <1>9, <1>10 DEF Next

\* While an operation has material drawn, its source is where it drew it from,
\* unless a stale request wrote it: for any number of requests, orders and
\* operations, and with operations deleted between the checks and the writes.
THEOREM MaterialFromSource == Spec => []DrawnFromSource
<1>1. DrawnInv => DrawnFromSource
  BY DEF DrawnInv
<1> QED
  BY InitDrawn, NextDrawn, <1>1, PTL DEF Spec
=============================================================================
