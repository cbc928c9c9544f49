-------------------------- MODULE WriteLocks_proofs --------------------------
(*************************************************************************)
(* Proofs about WriteLocks.  The invariant speaks of one transaction at a *)
(* time: its job j, the locks H it has and the operations f of sessions.  *)
(* What it has locked below an order, and what it still asks for, is      *)
(* below an order it has locked or looked up, or below the order its      *)
(* session has strayed to.                                                *)
(*************************************************************************)
EXTENDS WriteLocks, FiniteSetTheorems, SequenceTheorems, WellFoundedInduction, TLAPS

Rows(H)    == {l.row : l \in H}
Left(j, H) == j.orders \ Rows(H)

\* The order a row is below when the sessions stand on the operations f.
Under(f, r) == IF r \in Session THEN OrderOf[f[r]] ELSE OrderOf[r]

\* The session is locked, so what follows it has been worked out.
Placed(j, H) == j.sess \in Rows(H) /\ Left(j, H) = {}

\* An order to be locked is in S, and any other row is below one of S.
Fits(l, S) ==
  /\ l \in Lock /\ l.row \notin Session
  /\ l.row \in Order => l.row \in S /\ l.mode = Update
  /\ l.row \in Operation => OrderOf[l.row] \in S

AllFit(q, S) == q \in Seq(Lock) /\ \A i \in DOMAIN q : Fits(q[i], S)

Names(q, r) == \E i \in DOMAIN q : q[i].row = r

Reach(j, H, f) ==
  j.orders \cup Rows(H) \cup (IF j.sess # None THEN {OrderOf[f[j.sess]]} ELSE {})

WithSession == {"report", "batch", "move", "qc"}

ShapeOf(j) ==
  /\ j.kind = "none" => j = Idle
  /\ j.sess # None <=> j.kind \in WithSession
  /\ j.kind = "move" => j.dest \in Operation /\ OrderOf[j.dest] \in j.orders
  /\ j.kind = "configure" => j.dest \in Operation /\ SetupOf[j.dest] # None
  /\ j.rest # <<>> => j.kind = "batch"

ModesOK(j, H) ==
  \A l \in H : /\ l.row \in Order => l.mode = OrderMode(j.kind)
               /\ l.row \in Session => l.mode = Update
               /\ j.kind = "create" => l.mode = KeyShare

HeldOK(j, H, f) ==
  \A l \in H : l.row \notin Order =>
    \/ Under(f, l.row) \in Rows(H)
    \/ Placed(j, H) /\ Under(f, l.row) = OrderOf[f[j.sess]]

TodoOK(j, H, f) ==
  /\ j.sess # None /\ ~Placed(j, H) => j.todo = <<Ask(j.sess)>>
  /\ j.sess = None \/ Placed(j, H) =>
       \A i \in DOMAIN j.todo :
         \/ j.sess # None /\ j.todo[i] = Ask(j.sess)
         \/ Fits(j.todo[i], Reach(j, H, f))
  /\ j.kind = "create" =>
       \A i \in DOMAIN j.todo : j.todo[i].row \notin Order /\ j.todo[i].mode = KeyShare

EndOK(j, H, f) ==
  j.sess # None /\ Placed(j, H) =>
    \/ OrderOf[f[j.sess]] \in Rows(H)
    \/ Names(j.todo, OrderOf[f[j.sess]])
    \/ Names(j.todo, j.sess)

AscendOK(j, H) ==
  j.kind # "batch" /\ Left(j, H) # {} =>
    \A r \in Rows(H) : r \in j.orders /\ \A m \in Left(j, H) : r < m

TidyOf(j, H, f) ==
  ModesOK(j, H) /\ HeldOK(j, H, f) /\ TodoOK(j, H, f) /\ EndOK(j, H, f) /\ AscendOK(j, H)

Inv ==
  /\ TypeOK
  /\ \A t \in Thread : /\ ShapeOf(job[t])
                       /\ job[t].kind \notin Unordered => TidyOf(job[t], held[t], opOf)

-----------------------------------------------------------------------------
(* What the paths ask for *)

LEMMA ModeValues == KeyShare = 1 /\ Share = 2 /\ NoKeyUpdate = 3 /\ Update = 4
  BY DEF KeyShare, Share, NoKeyUpdate, Update

LEMMA AskIsLock ==
  ASSUME NEW r \in Row, NEW m \in {KeyShare, Share, NoKeyUpdate, Update}
  PROVE  At(r, m) \in Lock /\ At(r, m).row = r /\ At(r, m).mode = m
  BY DEF At, Lock, KeyShare, Share, NoKeyUpdate, Update

LEMMA FitOperation ==
  ASSUME NEW S, NEW o \in Operation, OrderOf[o] \in S,
         NEW m \in {KeyShare, Share, NoKeyUpdate, Update}
  PROVE  Fits(At(o, m), S)
  BY AskIsLock, RowAssumption DEF Fits, Row

LEMMA FitOrder ==
  ASSUME NEW S, NEW o \in Order, o \in S
  PROVE  Fits(Ask(o), S)
  BY AskIsLock, RowAssumption DEF Fits, Row, Ask

LEMMA FitEmpty == ASSUME NEW S PROVE AllFit(<<>>, S)
  BY DEF AllFit

LEMMA FitOne ==
  ASSUME NEW S, NEW l, Fits(l, S)
  PROVE  AllFit(<<l>>, S)
  BY DEF AllFit, Fits

LEMMA FitConcat ==
  ASSUME NEW S, NEW p, NEW q, AllFit(p, S), AllFit(q, S)
  PROVE  AllFit(p \o q, S)
  <1>1. p \in Seq(Lock) /\ q \in Seq(Lock) /\ p \o q \in Seq(Lock)
    BY DEF AllFit
  <1>2. ASSUME NEW i \in DOMAIN (p \o q) PROVE Fits((p \o q)[i], S)
    <2>1. CASE i <= Len(p)
      BY <2>1, <1>1 DEF AllFit
    <2>2. CASE ~(i <= Len(p))
      <3>1. i - Len(p) \in DOMAIN q /\ (p \o q)[i] = q[i - Len(p)]
        BY <2>2, <1>1
      <3> QED BY <3>1 DEF AllFit
    <2> QED BY <2>1, <2>2
  <1> QED BY <1>1, <1>2 DEF AllFit

LEMMA FitSome ==
  ASSUME NEW S, NEW r \in Operation \cup {None}, r # None => OrderOf[r] \in S,
         NEW m \in {KeyShare, Share, NoKeyUpdate, Update}
  PROVE  AllFit(Some(r, m), S)
  <1>1. CASE r = None
    BY <1>1, FitEmpty DEF Some
  <1>2. CASE r # None
    <2>1. Fits(At(r, m), S)
      BY <1>2, FitOperation
    <2> QED BY <1>2, <2>1, FitOne DEF Some
  <1> QED BY <1>1, <1>2

LEMMA FitReconcile ==
  ASSUME NEW S, NEW o \in Operation, OrderOf[o] \in S
  PROVE  AllFit(Reconcile(o), S) /\ Names(Reconcile(o), OrderOf[o])
  <1>1. Fits(Ask(OrderOf[o]), S)
    BY FitOrder, ShapeAssumption
  <1>2. Fits(Ask(o), S)
    BY FitOperation DEF Ask
  <1>3. Ask(OrderOf[o]).row = OrderOf[o]
    BY DEF Ask, At
  <1>4. AllFit(Reconcile(o), S)
    BY <1>1, <1>2 DEF AllFit, Reconcile, Fits
  <1>5. Names(Reconcile(o), OrderOf[o])
    BY <1>3 DEF Names, Reconcile
  <1> QED BY <1>4, <1>5

LEMMA FitSupply ==
  ASSUME NEW S, NEW o \in Operation, OrderOf[o] \in S
  PROVE  AllFit(Supply(o), S)
  <1>1. AllFit(<<Ask(o)>>, S)
    BY FitOperation, FitOne DEF Ask
  <1>2. Source[o] \in Operation \cup {None} /\ (Source[o] # None => OrderOf[Source[o]] \in S)
    BY ShapeAssumption
  <1>3. AllFit(Some(Source[o], Update), S)
    BY <1>2, FitSome
  <1> QED BY <1>1, <1>3, FitConcat DEF Supply

LEMMA NamesConcat ==
  ASSUME NEW p \in Seq(Lock), NEW q \in Seq(Lock), NEW r, Names(p, r) \/ Names(q, r)
  PROVE  Names(p \o q, r)
  <1>1. CASE Names(p, r)
    <2>1. PICK i \in DOMAIN p : p[i].row = r
      BY <1>1 DEF Names
    <2>2. i \in DOMAIN (p \o q) /\ (p \o q)[i] = p[i]
      OBVIOUS
    <2> QED BY <2>1, <2>2 DEF Names
  <1>2. CASE Names(q, r)
    <2>1. PICK i \in DOMAIN q : q[i].row = r
      BY <1>2 DEF Names
    <2>2. Len(p) + i \in DOMAIN (p \o q) /\ (p \o q)[Len(p) + i] = q[i]
      OBVIOUS
    <2> QED BY <2>1, <2>2 DEF Names
  <1> QED BY <1>1, <1>2

\* A path that fits before reconciling fits with it, and names the order.
LEMMA FitThenReconcile ==
  ASSUME NEW S, NEW o \in Operation, OrderOf[o] \in S, NEW p, AllFit(p, S)
  PROVE  AllFit(p \o Reconcile(o), S) /\ Names(p \o Reconcile(o), OrderOf[o])
  <1>1. AllFit(Reconcile(o), S) /\ Names(Reconcile(o), OrderOf[o])
    BY FitReconcile
  <1>2. p \in Seq(Lock) /\ Reconcile(o) \in Seq(Lock)
    BY <1>1 DEF AllFit
  <1> QED BY <1>1, <1>2, FitConcat, NamesConcat

LEMMA FitFinish ==
  ASSUME NEW S, NEW o \in Operation, OrderOf[o] \in S, NEW q \in FinishPaths(o)
  PROVE  AllFit(q, S) /\ Names(q, OrderOf[o])
  <1>1. CASE Prepares(o) = {}
    <2>1. q = Supply(o) \o Reconcile(o)
      BY <1>1 DEF FinishPaths
    <2> QED BY <2>1, FitSupply, FitThenReconcile
  <1>2. CASE Prepares(o) # {}
    <2>1. PICK p \in Prepares(o) : q = <<At(p, NoKeyUpdate)>> \o Reconcile(o)
      BY <1>2 DEF FinishPaths
    <2>2. p \in Operation /\ OrderOf[p] \in S
      BY ShapeAssumption, RowAssumption DEF Prepares
    <2>3. AllFit(<<At(p, NoKeyUpdate)>>, S)
      BY <2>2, FitOperation, FitOne
    <2> QED BY <2>1, <2>3, FitThenReconcile
  <1> QED BY <1>1, <1>2

LEMMA FitReport ==
  ASSUME NEW S, NEW o \in Operation, OrderOf[o] \in S, NEW q \in ReportPaths(o)
  PROVE  AllFit(q, S) /\ Names(q, OrderOf[o])
  <1>1. CASE q \in FinishPaths(o)
    BY <1>1, FitFinish
  <1>2. CASE q = Supply(o) \o Reconcile(o)
    BY <1>2, FitSupply, FitThenReconcile
  <1>3. CASE q = Reconcile(o)
    BY <1>3, FitReconcile
  <1>4. CASE q = <<Ask(OrderOf[o])>> \o Some(Bench[o], Update) \o Reconcile(o)
    <2>1. AllFit(<<Ask(OrderOf[o])>>, S)
      BY FitOrder, FitOne, ShapeAssumption
    <2>2. Bench[o] \in Operation \cup {None} /\ (Bench[o] # None => OrderOf[Bench[o]] \in S)
      BY ShapeAssumption
    <2>3. AllFit(Some(Bench[o], Update), S)
      BY <2>2, FitSome
    <2>4. AllFit(<<Ask(OrderOf[o])>> \o Some(Bench[o], Update), S)
      BY <2>1, <2>3, FitConcat
    <2> QED BY <1>4, <2>4, FitThenReconcile
  <1> QED BY <1>1, <1>2, <1>3, <1>4 DEF ReportPaths

LEMMA FitMove ==
  ASSUME NEW S, NEW o \in Operation, NEW d \in Operation, OrderOf[o] \in S, OrderOf[d] \in S,
         NEW q \in MovePaths(o, d)
  PROVE  AllFit(q, S) /\ Names(q, OrderOf[o])
  <1>1. PICK p \in {<<Ask(d)>>, Supply(d), <<Ask(o), Ask(d)>>, <<Ask(o)>> \o Supply(d)} :
          q = p \o Reconcile(o) \o Reconcile(d)
    BY DEF MovePaths
  <1>2. AllFit(<<Ask(o)>>, S) /\ AllFit(<<Ask(d)>>, S) /\ AllFit(Supply(d), S)
    BY FitSupply, FitOne, FitOperation DEF Ask
  <1>3. <<Ask(o), Ask(d)>> = <<Ask(o)>> \o <<Ask(d)>>
    OBVIOUS
  <1>4. AllFit(p, S)
    BY <1>2, <1>3, FitConcat
  <1>5. AllFit(p \o Reconcile(o), S) /\ Names(p \o Reconcile(o), OrderOf[o])
    BY <1>4, FitThenReconcile
  <1>6. AllFit(Reconcile(d), S)
    BY FitReconcile
  <1>7. p \o Reconcile(o) \in Seq(Lock) /\ Reconcile(d) \in Seq(Lock)
    BY <1>5, <1>6 DEF AllFit
  <1> QED BY <1>1, <1>5, <1>6, <1>7, FitConcat, NamesConcat

\* What follows the session, on the paths that lock the order first.
LEMMA FitSession ==
  ASSUME NEW S, NEW kind \in {"report", "batch", "move"}, NEW o \in Operation, NEW d,
         OrderOf[o] \in S, kind = "move" => d \in Operation /\ OrderOf[d] \in S,
         NEW q \in SessionPaths(kind, o, d)
  PROVE  AllFit(q, S) /\ Names(q, OrderOf[o])
  <1>1. CASE kind = "report"
    BY <1>1, FitReport DEF SessionPaths
  <1>2. CASE kind = "batch"
    BY <1>2, FitFinish DEF SessionPaths
  <1>3. CASE kind = "move"
    BY <1>3, FitMove DEF SessionPaths
  <1> QED BY <1>1, <1>2, <1>3


-----------------------------------------------------------------------------
(* One transaction stays tidy *)

LEMMA FitMore ==
  ASSUME NEW S, NEW T, S \subseteq T, NEW l, Fits(l, S)
  PROVE  Fits(l, T)
  BY DEF Fits

LEMMA MoreRows ==
  ASSUME NEW H, NEW l
  PROVE  Rows(H \cup {l}) = Rows(H) \cup {l.row}
  BY DEF Rows

\* A transaction that locks the lowest of the orders it has looked up.
LEMMA TidyLockOrder ==
  ASSUME NEW j \in Job, ShapeOf(j), NEW H \in SUBSET Lock, NEW f \in [Session -> Operation],
         TidyOf(j, H, f), NEW o \in Left(j, H), \A p \in Left(j, H) : o <= p
  PROVE  TidyOf(j, H \cup {At(o, OrderMode(j.kind))}, f)
  <1> DEFINE l  == At(o, OrderMode(j.kind))
             H2 == H \cup {l}
  <1>1. o \in Order /\ o \in j.orders /\ o \in Nat
    BY RowAssumption DEF Left, Job
  <1>2. l \in Lock /\ l.row = o /\ l.mode = OrderMode(j.kind)
    BY <1>1, AskIsLock DEF OrderMode, Row
  <1>3. Rows(H2) = Rows(H) \cup {o} /\ Left(j, H2) = Left(j, H) \ {o}
    BY <1>2, MoreRows DEF Left
  <1>4. o # j.sess /\ ~Placed(j, H)
    BY <1>1, RowAssumption DEF Job, Placed
  <1>5. ModesOK(j, H2)
    BY <1>1, <1>2, RowAssumption DEF ModesOK, TidyOf, OrderMode
  <1>6. HeldOK(j, H2, f)
    BY <1>1, <1>2, <1>3, <1>4 DEF HeldOK, TidyOf
  <1>7. TodoOK(j, H2, f)
    <2>1. Reach(j, H, f) \subseteq Reach(j, H2, f)
      BY <1>3 DEF Reach
    <2>2. CASE j.sess = None
      BY <2>1, <2>2, FitMore DEF TodoOK, TidyOf
    <2>3. CASE j.sess # None
      <3>1. j.todo = <<Ask(j.sess)>>
        BY <2>3, <1>4 DEF TodoOK, TidyOf
      <3>2. \A i \in DOMAIN j.todo : j.todo[i] = Ask(j.sess)
        BY <3>1
      <3>3. j.kind # "create"
        BY <2>3 DEF ShapeOf, WithSession
      <3> QED BY <2>3, <3>1, <3>2, <3>3 DEF TodoOK
    <2> QED BY <2>2, <2>3
  <1>8. EndOK(j, H2, f)
    <2>1. SUFFICES ASSUME j.sess # None
                   PROVE  Names(j.todo, j.sess)
      BY DEF EndOK
    <2>2. j.todo = <<Ask(j.sess)>>
      BY <2>1, <1>4 DEF TodoOK, TidyOf
    <2>3. 1 \in DOMAIN j.todo /\ j.todo[1].row = j.sess
      BY <2>2 DEF Ask, At
    <2> QED BY <2>3 DEF Names
  <1>9. AscendOK(j, H2)
    <2>1. SUFFICES ASSUME j.kind # "batch", Left(j, H2) # {}, NEW r \in Rows(H2),
                          NEW m \in Left(j, H2)
                   PROVE  r \in j.orders /\ r < m
      BY DEF AscendOK
    <2>2. m \in Left(j, H) /\ m # o /\ m \in Nat /\ o <= m
      BY <2>1, <1>3, RowAssumption DEF Left, Job
    <2>3. CASE r \in Rows(H)
      BY <2>1, <2>2, <2>3 DEF AscendOK, TidyOf
    <2>4. CASE r = o
      BY <2>4, <2>2, <1>1
    <2> QED BY <2>1, <2>3, <2>4, <1>3
  <1> QED BY <1>5, <1>6, <1>7, <1>8, <1>9 DEF TidyOf

LEMMA HeadAndTail ==
  ASSUME NEW q \in Seq(Lock), q # <<>>
  PROVE  /\ Head(q) = q[1] /\ 1 \in DOMAIN q /\ Head(q) \in Lock
         /\ Tail(q) \in Seq(Lock)
         /\ \A i \in DOMAIN Tail(q) : i + 1 \in DOMAIN q /\ Tail(q)[i] = q[i + 1]
         /\ \A r : Names(q, r) => Head(q).row = r \/ Names(Tail(q), r)
  <1>1. /\ Head(q) = q[1] /\ 1 \in DOMAIN q /\ Head(q) \in Lock
        /\ Tail(q) \in Seq(Lock)
        /\ \A i \in DOMAIN Tail(q) : i + 1 \in DOMAIN q /\ Tail(q)[i] = q[i + 1]
    OBVIOUS
  <1>2. ASSUME NEW r, Names(q, r), Head(q).row # r
        PROVE  Names(Tail(q), r)
    <2>1. PICK i \in DOMAIN q : q[i].row = r
      BY <1>2 DEF Names
    <2>2. i # 1
      BY <2>1, <1>1, <1>2
    <2>3. i - 1 \in DOMAIN Tail(q) /\ Tail(q)[i - 1] = q[i]
      BY <2>2
    <2> QED BY <2>1, <2>3 DEF Names
  <1> QED BY <1>1, <1>2

LEMMA ConcatCases ==
  ASSUME NEW p \in Seq(Lock), NEW q \in Seq(Lock), NEW i \in DOMAIN (p \o q)
  PROVE  \/ i \in DOMAIN p /\ (p \o q)[i] = p[i]
         \/ \E n \in DOMAIN q : (p \o q)[i] = q[n]
  <1>1. CASE i <= Len(p)
    BY <1>1
  <1>2. CASE ~(i <= Len(p))
    <2>1. i - Len(p) \in DOMAIN q /\ (p \o q)[i] = q[i - Len(p)]
      BY <1>2
    <2> QED BY <2>1
  <1> QED BY <1>1, <1>2

\* A transaction that locks the next row, with what follows its session.
LEMMA TidyLockRow ==
  ASSUME NEW j \in Job, ShapeOf(j), j.kind \notin Unordered, NEW H \in SUBSET Lock,
         NEW f \in [Session -> Operation], TidyOf(j, H, f), Left(j, H) = {}, j.todo # <<>>,
         NEW q, IF Head(j.todo).row = j.sess
                THEN q \in SessionPaths(j.kind, f[j.sess], j.dest) ELSE q = <<>>,
         NEW k, k = [j EXCEPT !.todo = Tail(@) \o q]
  PROVE  k \in Job /\ ShapeOf(k) /\ TidyOf(k, H \cup {Head(j.todo)}, f)
  <1> DEFINE l  == Head(j.todo)
             H2 == H \cup {l}
             S  == Reach(j, H, f)
             S2 == Reach(k, H2, f)
  <1>1. /\ j.todo \in Seq(Lock) /\ j.sess \in Session \cup {None} /\ j.orders \in SUBSET Order
        /\ k.kind = j.kind /\ k.sess = j.sess /\ k.dest = j.dest /\ k.orders = j.orders
        /\ k.rest = j.rest /\ k.todo = Tail(j.todo) \o q
    BY DEF Job
  <1>2. /\ l = j.todo[1] /\ 1 \in DOMAIN j.todo /\ l \in Lock /\ Tail(j.todo) \in Seq(Lock)
        /\ \A i \in DOMAIN Tail(j.todo) : i + 1 \in DOMAIN j.todo /\ Tail(j.todo)[i] = j.todo[i + 1]
        /\ \A r : Names(j.todo, r) => l.row = r \/ Names(Tail(j.todo), r)
    BY <1>1, HeadAndTail
  <1>3. Rows(H2) = Rows(H) \cup {l.row} /\ Left(k, H2) = {} /\ j.orders \subseteq Rows(H)
    <2>1. Rows(H2) = Rows(H) \cup {l.row}
      BY MoreRows
    <2>2. j.orders \subseteq Rows(H)
      BY DEF Left
    <2> QED BY <2>1, <2>2, <1>1 DEF Left
  <1>4. Rows(H2) \subseteq Row /\ None \notin Row /\ Session \cap (Order \cup Operation) = {}
    BY <1>2, RowAssumption DEF Rows, Lock, Row
  <1>5. j.sess # None => j.sess \in Session /\ f[j.sess] \in Operation
                         /\ j.kind \in {"report", "batch", "move"}
    BY <1>1 DEF ShapeOf, WithSession, Unordered
  <1>6. S \subseteq S2
    BY <1>1, <1>3 DEF Reach
  <1>7. \/ j.sess # None /\ l = Ask(j.sess)
        \/ (j.sess = None \/ Placed(j, H)) /\ Fits(l, S)
    <2>1. CASE j.sess # None /\ ~Placed(j, H)
      BY <2>1, <1>2 DEF TidyOf, TodoOK
    <2>2. CASE j.sess = None \/ Placed(j, H)
      BY <2>2, <1>2 DEF TidyOf, TodoOK
    <2> QED BY <2>1, <2>2
  <1>8. Ask(j.sess).row = j.sess /\ Ask(j.sess).mode = Update
    BY DEF Ask, At
  <1>9. j.sess # None => Placed(k, H2)
    BY <1>7, <1>8, <1>3, <1>1 DEF Placed
  <1>10. CASE l.row = j.sess
    <2>1. j.sess # None
      BY <1>10, <1>2, <1>4 DEF Lock
    <2>2. q \in SessionPaths(j.kind, f[j.sess], j.dest)
      BY <1>10
    <2>3. OrderOf[f[j.sess]] \in S2
      BY <2>1, <1>1 DEF Reach
    <2>4. j.kind = "move" => j.dest \in Operation /\ OrderOf[j.dest] \in S2
      BY <1>1 DEF Reach, ShapeOf
    <2>5. AllFit(q, S2) /\ Names(q, OrderOf[f[j.sess]])
      BY <2>1, <2>2, <2>3, <2>4, <1>5, FitSession
    <2> QED
      <3> DEFINE x == OrderOf[f[j.sess]]
      <3>1. q \in Seq(Lock) /\ Tail(j.todo) \in Seq(Lock) /\ k.todo \in Seq(Lock)
        BY <2>5, <1>1, <1>2 DEF AllFit
      <3>2. k \in Job /\ ShapeOf(k)
        <4>1. k \in Job
          BY <3>1, <1>1 DEF Job
        <4>2. ShapeOf(k)
          BY <1>1, <1>5, <2>1 DEF ShapeOf
        <4> QED BY <4>1, <4>2
      <3>3. ModesOK(k, H2)
        BY <1>1, <1>4, <1>5, <1>7, <1>8, <2>1 DEF ModesOK, TidyOf, Fits, OrderMode
      <3>4. HeldOK(k, H2, f)
        <4>1. Under(f, j.sess) = x
          BY <1>5, <2>1 DEF Under
        <4> QED BY <1>1, <1>3, <1>9, <1>10, <2>1, <4>1 DEF HeldOK, TidyOf
      <3>5. TodoOK(k, H2, f)
        <4>1. ASSUME NEW i \in DOMAIN Tail(j.todo)
              PROVE  Tail(j.todo)[i] = Ask(j.sess) \/ Fits(Tail(j.todo)[i], S2)
          <5>1. CASE ~Placed(j, H)
            <6>1. j.todo = <<Ask(j.sess)>>
              BY <5>1, <2>1 DEF TidyOf, TodoOK
            <6>2. DOMAIN Tail(<<Ask(j.sess)>>) = {}
              OBVIOUS
            <6> QED BY <6>1, <6>2
          <5>2. CASE Placed(j, H)
            BY <5>2, <1>2, <1>6, FitMore DEF TidyOf, TodoOK
          <5> QED BY <5>1, <5>2
        <4>2. ASSUME NEW i \in DOMAIN k.todo
              PROVE  k.todo[i] = Ask(j.sess) \/ Fits(k.todo[i], S2)
          <5>1. \/ i \in DOMAIN Tail(j.todo) /\ k.todo[i] = Tail(j.todo)[i]
                \/ \E n \in DOMAIN q : k.todo[i] = q[n]
            BY <3>1, <1>1, ConcatCases
          <5> QED BY <5>1, <4>1, <2>5 DEF AllFit
        <4> QED BY <1>1, <1>5, <1>9, <2>1, <4>2 DEF TodoOK
      <3>6. EndOK(k, H2, f)
        BY <1>1, <2>5, <3>1, NamesConcat DEF EndOK
      <3>7. AscendOK(k, H2)
        BY <1>3 DEF AscendOK
      <3> QED BY <3>2, <3>3, <3>4, <3>5, <3>6, <3>7 DEF TidyOf
  <1>11. CASE l.row # j.sess
    <2>1. q = <<>>
      BY <1>11
    <2>2. k.todo = Tail(j.todo)
      BY <2>1, <1>1, <1>2
    <2>3. (j.sess = None \/ Placed(j, H)) /\ Fits(l, S)
      BY <1>7, <1>8, <1>11
    <2>4. k \in Job /\ ShapeOf(k)
      <3>1. k \in Job
        BY <2>2, <1>1, <1>2 DEF Job
      <3>2. ShapeOf(k)
        <4>1. j.kind # "none"
          BY DEF ShapeOf, Idle
        <4> QED BY <4>1, <1>1 DEF ShapeOf
      <3> QED BY <3>1, <3>2
    <2>5. j.kind = "create" => l.row \notin Order /\ l.mode = KeyShare
      BY <1>2 DEF TidyOf, TodoOK
    <2>6. ModesOK(k, H2)
      BY <1>1, <2>3, <2>5 DEF ModesOK, TidyOf, Fits, OrderMode
    <2>7. HeldOK(k, H2, f)
      <3>1. SUFFICES ASSUME NEW m \in H2, m.row \notin Order
                     PROVE  \/ Under(f, m.row) \in Rows(H2)
                            \/ Placed(k, H2) /\ Under(f, m.row) = OrderOf[f[k.sess]]
        BY DEF HeldOK
      <3>2. Placed(j, H) => Placed(k, H2)
        BY <1>1, <1>3 DEF Placed
      <3>3. CASE m \in H
        BY <3>1, <3>2, <3>3, <1>1, <1>3 DEF HeldOK, TidyOf
      <3>4. CASE m = l
        <4>1. l.row \in Operation /\ Under(f, l.row) = OrderOf[l.row] /\ OrderOf[l.row] \in S
          BY <3>1, <3>4, <2>3, <1>2 DEF Fits, Under, Lock, Row
        <4>2. CASE j.sess = None
          BY <4>1, <4>2, <3>4, <1>3 DEF Reach
        <4>3. CASE Placed(j, H)
          BY <4>1, <4>3, <3>2, <3>4, <1>1, <1>3 DEF Reach
        <4> QED BY <4>2, <4>3, <2>3
      <3> QED BY <3>3, <3>4
    <2>8. TodoOK(k, H2, f)
      <3>1. ASSUME NEW i \in DOMAIN k.todo
            PROVE  (k.sess # None /\ k.todo[i] = Ask(k.sess)) \/ Fits(k.todo[i], S2)
        <4>1. i + 1 \in DOMAIN j.todo /\ k.todo[i] = j.todo[i + 1]
          BY <2>2, <1>2
        <4>2. \/ j.sess # None /\ j.todo[i + 1] = Ask(j.sess)
              \/ Fits(j.todo[i + 1], S)
          BY <4>1, <2>3 DEF TidyOf, TodoOK
        <4> QED BY <4>1, <4>2, <1>1, <1>6, FitMore
      <3>2. k.kind = "create" =>
              \A i \in DOMAIN k.todo : k.todo[i].row \notin Order /\ k.todo[i].mode = KeyShare
        BY <2>2, <1>1, <1>2 DEF TidyOf, TodoOK
      <3> QED BY <3>1, <3>2, <1>1, <1>9 DEF TodoOK
    <2>9. EndOK(k, H2, f)
      BY <2>2, <2>3, <1>1, <1>2, <1>3, <1>11 DEF EndOK, TidyOf
    <2>10. AscendOK(k, H2)
      BY <1>3 DEF AscendOK
    <2> QED BY <2>4, <2>6, <2>7, <2>8, <2>9, <2>10 DEF TidyOf
  <1> QED BY <1>10, <1>11

\* A row that has been deleted is not locked.
LEMMA TidySkip ==
  ASSUME NEW j \in Job, ShapeOf(j), NEW H \in SUBSET Lock,
         NEW f \in [Session -> Operation], TidyOf(j, H, f), Left(j, H) = {}, j.todo # <<>>,
         Head(j.todo).row \in Operation, NEW k, k = [j EXCEPT !.todo = Tail(@)]
  PROVE  k \in Job /\ ShapeOf(k) /\ TidyOf(k, H, f)
  <1> DEFINE l == Head(j.todo)
  <1>1. /\ j.todo \in Seq(Lock) /\ j.sess \in Session \cup {None} /\ j.orders \in SUBSET Order
        /\ k.kind = j.kind /\ k.sess = j.sess /\ k.dest = j.dest /\ k.orders = j.orders
        /\ k.rest = j.rest /\ k.todo = Tail(j.todo)
    BY DEF Job
  <1>2. /\ l = j.todo[1] /\ 1 \in DOMAIN j.todo /\ Tail(j.todo) \in Seq(Lock)
        /\ \A i \in DOMAIN Tail(j.todo) : i + 1 \in DOMAIN j.todo /\ Tail(j.todo)[i] = j.todo[i + 1]
        /\ \A r : Names(j.todo, r) => l.row = r \/ Names(Tail(j.todo), r)
    BY <1>1, HeadAndTail
  <1>3. l.row \notin Order /\ l.row # j.sess
    BY <1>1, RowAssumption
  <1>4. j.sess = None \/ Placed(j, H)
    <2>1. Ask(j.sess).row = j.sess
      BY DEF Ask, At
    <2> QED BY <2>1, <1>2, <1>3 DEF TidyOf, TodoOK
  <1>5. Reach(k, H, f) = Reach(j, H, f) /\ (Placed(j, H) <=> Placed(k, H))
    BY <1>1 DEF Reach, Placed, Left
  <1>6. k \in Job
    BY <1>1, <1>2 DEF Job
  <1>7. ShapeOf(k)
    <2>1. j.kind # "none"
      BY DEF ShapeOf, Idle
    <2> QED BY <2>1, <1>1 DEF ShapeOf
  <1>8. ModesOK(k, H) /\ HeldOK(k, H, f) /\ AscendOK(k, H)
    BY <1>1, <1>5 DEF TidyOf, ModesOK, HeldOK, AscendOK, Left
  <1>9. TodoOK(k, H, f)
    <2>1. ASSUME NEW i \in DOMAIN k.todo
          PROVE  (k.sess # None /\ k.todo[i] = Ask(k.sess)) \/ Fits(k.todo[i], Reach(k, H, f))
      <3>1. i + 1 \in DOMAIN j.todo /\ k.todo[i] = j.todo[i + 1]
        BY <1>1, <1>2
      <3>2. \/ j.sess # None /\ j.todo[i + 1] = Ask(j.sess)
            \/ Fits(j.todo[i + 1], Reach(j, H, f))
        BY <3>1, <1>4 DEF TidyOf, TodoOK
      <3> QED BY <3>1, <3>2, <1>1, <1>5
    <2>2. k.kind = "create" =>
            \A i \in DOMAIN k.todo : k.todo[i].row \notin Order /\ k.todo[i].mode = KeyShare
      BY <1>1, <1>2 DEF TidyOf, TodoOK
    <2> QED BY <2>1, <2>2, <1>1, <1>4, <1>5 DEF TodoOK
  <1>10. EndOK(k, H, f)
    <2>1. CASE j.sess = None
      BY <2>1, <1>1 DEF EndOK
    <2>2. CASE j.sess # None
      <3>1. f[j.sess] \in Operation /\ OrderOf[f[j.sess]] \in Order
        BY <2>2, <1>1, ShapeAssumption
      <3> QED BY <2>2, <3>1, <1>1, <1>2, <1>3, <1>5 DEF EndOK, TidyOf
    <2> QED BY <2>1, <2>2
  <1> QED BY <1>6, <1>7, <1>8, <1>9, <1>10 DEF TidyOf

\* A transaction that asks for no more has locked the order of its session.
LEMMA AtTheEnd ==
  ASSUME NEW j \in Job, NEW H, NEW f, TidyOf(j, H, f), Left(j, H) = {},
         j.todo = <<>>, j.sess # None
  PROVE  Placed(j, H) /\ OrderOf[f[j.sess]] \in Rows(H)
  <1>1. j.todo # <<Ask(j.sess)>>
    OBVIOUS
  <1>2. Placed(j, H)
    BY <1>1 DEF TidyOf, TodoOK
  <1>3. \A r : ~Names(j.todo, r)
    BY DEF Names
  <1> QED BY <1>2, <1>3 DEF TidyOf, EndOK

\* A batch that goes on to its next session.
LEMMA TidyNext ==
  ASSUME NEW j \in Job, ShapeOf(j), NEW H \in SUBSET Lock,
         NEW f \in [Session -> Operation], TidyOf(j, H, f), Left(j, H) = {}, j.todo = <<>>,
         j.rest # <<>>, NEW s, s = Head(j.rest),
         NEW k, k = [j EXCEPT !.sess = s, !.orders = {OrderOf[f[s]]},
                              !.todo = <<Ask(s)>>, !.rest = Tail(@)]
  PROVE  k \in Job /\ ShapeOf(k) /\ TidyOf(k, H, f)
  <1>1. /\ j.rest \in Seq(Session) /\ s \in Session /\ Tail(j.rest) \in Seq(Session)
        /\ k.kind = j.kind /\ k.sess = s /\ k.dest = j.dest /\ k.orders = {OrderOf[f[s]]}
        /\ k.rest = Tail(j.rest) /\ k.todo = <<Ask(s)>>
    BY DEF Job
  <1>2. j.kind = "batch" /\ j.sess # None /\ s # None
    BY <1>1, RowAssumption DEF ShapeOf, WithSession
  <1>3. OrderOf[f[s]] \in Order /\ Ask(s) \in Lock /\ Ask(s).row = s
    BY <1>1, ShapeAssumption, AskIsLock DEF Ask, Row
  <1>4. <<Ask(s)>> \in Seq(Lock) /\ \A i \in DOMAIN <<Ask(s)>> : <<Ask(s)>>[i] = Ask(s)
    BY <1>3
  <1>5. k \in Job
    BY <1>1, <1>3, <1>4 DEF Job
  <1>6. ShapeOf(k)
    BY <1>1, <1>2 DEF ShapeOf, WithSession
  <1>7. ModesOK(k, H)
    BY <1>1 DEF TidyOf, ModesOK
  <1>8. HeldOK(k, H, f)
    <2>1. OrderOf[f[j.sess]] \in Rows(H)
      BY <1>2, AtTheEnd
    <2> QED BY <2>1 DEF TidyOf, HeldOK
  <1>9. TodoOK(k, H, f)
    BY <1>1, <1>2, <1>4 DEF TodoOK
  <1>10. EndOK(k, H, f)
    <2>1. 1 \in DOMAIN <<Ask(s)>>
      OBVIOUS
    <2>2. Names(k.todo, s)
      BY <2>1, <1>1, <1>3, <1>4 DEF Names
    <2> QED BY <2>2, <1>1 DEF EndOK
  <1>11. AscendOK(k, H)
    BY <1>1, <1>2 DEF AscendOK
  <1> QED BY <1>5, <1>6, <1>7, <1>8, <1>9, <1>10, <1>11 DEF TidyOf

\* Somebody else moves a session that the transaction has not locked.
LEMMA TidyFrozen ==
  ASSUME NEW j \in Job, ShapeOf(j), NEW H \in SUBSET Lock, NEW f \in [Session -> Operation],
         NEW g \in [Session -> Operation], NEW s, s \notin Rows(H),
         \A r \in Session : r # s => g[r] = f[r], TidyOf(j, H, f)
  PROVE  TidyOf(j, H, g)
  <1>1. j.sess \in Session \cup {None}
    BY DEF Job
  <1>2. \A l \in H : Under(g, l.row) = Under(f, l.row)
    BY DEF Under, Rows
  <1>3. Placed(j, H) => j.sess \in Session /\ j.sess # s /\ g[j.sess] = f[j.sess]
    <2>1. SUFFICES ASSUME Placed(j, H) PROVE j.sess \in Session
      BY DEF Placed
    <2>2. Rows(H) \subseteq Row
      BY DEF Rows, Lock
    <2> QED BY <1>1, <2>1, <2>2, RowAssumption DEF Placed, Row
  <1>4. HeldOK(j, H, g)
    BY <1>2, <1>3 DEF TidyOf, HeldOK
  <1>5. TodoOK(j, H, g)
    <2>1. CASE j.sess # None /\ ~Placed(j, H)
      BY <2>1 DEF TidyOf, TodoOK
    <2>2. CASE j.sess = None \/ Placed(j, H)
      <3>1. Reach(j, H, g) = Reach(j, H, f)
        BY <2>2, <1>3 DEF Reach
      <3> QED BY <3>1, <2>2 DEF TidyOf, TodoOK
    <2> QED BY <2>1, <2>2
  <1>6. EndOK(j, H, g)
    BY <1>3 DEF TidyOf, EndOK
  <1> QED BY <1>4, <1>5, <1>6 DEF TidyOf

\* A transaction that begins.
LEMMA TidySubmit ==
  ASSUME NEW j \in Job, NEW f,
         j.sess # None => j.todo = <<Ask(j.sess)>>,
         j.sess = None => \A i \in DOMAIN j.todo : Fits(j.todo[i], j.orders),
         j.kind = "create" =>
           \A i \in DOMAIN j.todo : j.todo[i].row \notin Order /\ j.todo[i].mode = KeyShare
  PROVE  TidyOf(j, {}, f)
  <1>1. Rows({}) = {}
    BY DEF Rows
  <1>2. ~Placed(j, {})
    BY <1>1 DEF Placed
  <1>3. ModesOK(j, {}) /\ HeldOK(j, {}, f) /\ EndOK(j, {}, f) /\ AscendOK(j, {})
    BY <1>1, <1>2 DEF ModesOK, HeldOK, EndOK, AscendOK
  <1>4. TodoOK(j, {}, f)
    BY <1>2, FitMore DEF TodoOK, Reach
  <1> QED BY <1>3, <1>4 DEF TidyOf

-----------------------------------------------------------------------------
(* Steps *)

LEMMA Lowest ==
  ASSUME NEW T \in SUBSET Nat, T # {}
  PROVE  \E x \in T : \A y \in T : x <= y
  <1> DEFINE R == OpToRel(<, Nat)
  <1>1. R = {p \in Nat \X Nat : p[1] < p[2]}
    BY DEF OpToRel
  <1>2. IsWellFoundedOn(R, Nat)
    BY NatLessThanWellFounded
  <1> HIDE DEF R
  <1>3. PICK x \in T : \A y \in T : ~(<<y, x>> \in R)
    BY <1>2, WFMin
  <1>4. ASSUME NEW y \in T PROVE x <= y
    <2>1. x \in Nat /\ y \in Nat /\ <<y, x>> \notin R
      BY <1>3
    <2>2. ~(y < x)
      BY <2>1, <1>1
    <2> QED BY <2>1, <2>2
  <1> QED BY <1>4

LEMMA NextWanted ==
  ASSUME TypeOK, NEW t \in Thread, Asks(t)
  PROVE  /\ Wanted(t) \in Lock
         /\ Missing(t) # {} =>
              /\ FirstOrder(t) \in Missing(t) /\ \A p \in Missing(t) : FirstOrder(t) <= p
              /\ Wanted(t) = At(FirstOrder(t), OrderMode(job[t].kind))
              /\ Wanted(t).row = FirstOrder(t) /\ FirstOrder(t) \in Order
         /\ Missing(t) = {} => Wanted(t) = Head(job[t].todo) /\ job[t].todo # <<>>
  <1>1. job[t] \in Job /\ Missing(t) \in SUBSET Order
    BY DEF TypeOK, Job, Missing
  <1>2. CASE Missing(t) # {}
    <2>1. \E x \in Missing(t) : \A y \in Missing(t) : x <= y
      BY <1>1, <1>2, Lowest, RowAssumption
    <2>2. FirstOrder(t) \in Missing(t) /\ \A p \in Missing(t) : FirstOrder(t) <= p
      BY <2>1 DEF FirstOrder
    <2>3. FirstOrder(t) \in Order
      BY <2>2, <1>1
    <2>4. Wanted(t) = At(FirstOrder(t), OrderMode(job[t].kind))
      BY <1>2 DEF Wanted
    <2>5. Wanted(t) \in Lock /\ Wanted(t).row = FirstOrder(t)
      BY <2>3, <2>4, AskIsLock DEF OrderMode, Row
    <2> QED BY <1>2, <2>2, <2>3, <2>4, <2>5
  <1>3. CASE Missing(t) = {}
    <2>1. job[t].todo \in Seq(Lock) /\ job[t].todo # <<>>
      BY <1>1, <1>3 DEF Asks, Job
    <2> QED BY <1>3, <2>1 DEF Wanted
  <1> QED BY <1>2, <1>3

LEMMA SameRows ==
  ASSUME NEW t
  PROVE  Locked(t) = Rows(held[t]) /\ Missing(t) = Left(job[t], held[t])
  BY DEF Locked, Rows, Missing, Left

LEMMA Clash ==
  ASSUME NEW l \in Lock, NEW m \in Lock
  PROVE  /\ Conflicts(l.mode, m.mode) <=> Conflicts(m.mode, l.mode)
         /\ l.mode = Update => Conflicts(l.mode, m.mode)
         /\ l.mode = KeyShare /\ m.mode = KeyShare => ~Conflicts(l.mode, m.mode)
  BY DEF Lock, Conflicts, KeyShare, Update

THEOREM InitInv == Init => Inv
  <1> SUFFICES ASSUME Init PROVE Inv
    OBVIOUS
  <1>1. Idle \in Job /\ ShapeOf(Idle)
    <2>1. <<>> \in Seq(Lock) /\ <<>> \in Seq(Session)
      OBVIOUS
    <2>2. Idle \in Job
      BY <2>1 DEF Idle, Job, Kinds
    <2>3. ShapeOf(Idle)
      BY DEF Idle, ShapeOf, WithSession
    <2> QED BY <2>2, <2>3
  <1>2. TypeOK
    BY <1>1 DEF Init, TypeOK
  <1>3. ASSUME NEW t \in Thread
        PROVE  ShapeOf(job[t]) /\ TidyOf(job[t], held[t], opOf)
    <2>1. job[t] = Idle /\ held[t] = {}
      BY <1>3 DEF Init
    <2>2. TidyOf(Idle, {}, opOf)
      BY <1>1, TidySubmit DEF Idle
    <2> QED BY <1>1, <2>1, <2>2
  <1> QED BY <1>2, <1>3 DEF Inv

\* A transaction that begins on a path that locks the order first, or on any other.
LEMMA BeginInv ==
  ASSUME Inv, NEW t \in Thread, NEW kind \in Kinds, kind # "none",
         NEW s \in Session \cup {None}, NEW d \in Operation \cup {None},
         NEW os \in SUBSET Order, NEW q \in Seq(Lock), NEW r \in Seq(Session),
         Submit(t, kind, s, d, os, q, r),
         s # None <=> kind \in WithSession,
         kind = "move" => d \in Operation /\ OrderOf[d] \in os,
         kind = "configure" => d \in Operation /\ SetupOf[d] # None,
         r # <<>> => kind = "batch",
         kind \notin Unordered =>
           /\ s # None => q = <<Ask(s)>>
           /\ s = None => \A i \in DOMAIN q : Fits(q[i], os)
           /\ kind = "create" => \A i \in DOMAIN q : q[i].row \notin Order /\ q[i].mode = KeyShare
  PROVE  Inv'
  <1> DEFINE j == [kind |-> kind, sess |-> s, dest |-> d, orders |-> os, todo |-> q, rest |-> r]
  <1>1. /\ j \in Job
        /\ j.kind = kind /\ j.sess = s /\ j.dest = d /\ j.orders = os /\ j.todo = q /\ j.rest = r
    BY DEF Job
  <1>2. ShapeOf(j)
    BY <1>1 DEF ShapeOf
  <1>3. kind \notin Unordered => TidyOf(j, {}, opOf)
    BY <1>1, TidySubmit
  <1> HIDE DEF j
  <1>4. /\ job[t] = Idle /\ held[t] = {} /\ job' = [job EXCEPT ![t] = j]
        /\ opOf' = opOf /\ live' = live /\ held' = held
    BY DEF Submit, Inv, TypeOK, j
  <1>5. TypeOK'
    BY <1>1, <1>4 DEF Inv, TypeOK
  <1>6. ASSUME NEW u \in Thread
        PROVE  ShapeOf(job'[u]) /\ (job'[u].kind \notin Unordered => TidyOf(job'[u], held'[u], opOf'))
    BY <1>1, <1>2, <1>3, <1>4 DEF Inv, TypeOK
  <1> QED BY <1>5, <1>6 DEF Inv

\* A transaction that goes on: it locks the row it wants or no row.
LEMMA WorkInv ==
  ASSUME Inv, NEW t \in Thread, NEW j \in Job, NEW l \in Lock, NEW H \in {held[t], held[t] \cup {l}},
         ShapeOf(j), j # Idle,
         j.kind \notin Unordered => TidyOf(j, H, opOf),
         H # held[t] => Asks(t) /\ l = Wanted(t) /\ \A u \in Thread : ~Waits(t, u),
         job' = [job EXCEPT ![t] = j], held' = [held EXCEPT ![t] = H],
         opOf' = opOf, live' = live
  PROVE  Inv'
  <1>1. TypeOK
    BY DEF Inv
  <1>2. job' \in [Thread -> Job] /\ held' \in [Thread -> SUBSET Lock]
    BY <1>1 DEF TypeOK
  <1>3. job'[t] = j /\ held'[t] = H
        /\ \A u \in Thread \ {t} : job'[u] = job[u] /\ held'[u] = held[u]
    BY <1>1 DEF TypeOK
  <1>4. ASSUME NEW u \in Thread \ {t}, NEW a \in H, NEW b \in held[u], a.row = b.row
        PROVE  ~Conflicts(a.mode, b.mode)
    <2>1. CASE a \in held[t]
      BY <2>1, <1>4, <1>1 DEF TypeOK
    <2>2. CASE a \notin held[t]
      <3>1. a = l /\ Asks(t) /\ l = Wanted(t) /\ ~Waits(t, u)
        BY <2>2
      <3>2. ~Conflicts(b.mode, a.mode)
        BY <3>1, <1>4 DEF Waits
      <3>3. a \in Lock /\ b \in Lock
        BY <3>1, <1>1 DEF TypeOK
      <3> QED BY <3>2, <3>3, Clash
    <2> QED BY <2>1, <2>2
  <1>5. ASSUME NEW u \in Thread, NEW v \in Thread \ {u}, NEW a \in held'[u], NEW b \in held'[v],
               a.row = b.row
        PROVE  ~Conflicts(a.mode, b.mode)
    <2>1. a \in Lock /\ b \in Lock
      BY <1>2
    <2>2. CASE u = t
      BY <2>2, <1>3, <1>4, <1>5
    <2>3. CASE v = t
      <3>1. ~Conflicts(b.mode, a.mode)
        BY <2>3, <1>3, <1>4, <1>5
      <3> QED BY <3>1, <2>1, Clash
    <2>4. CASE u # t /\ v # t
      BY <2>4, <1>3, <1>1, <1>5 DEF TypeOK
    <2> QED BY <2>2, <2>3, <2>4
  <1>6. TypeOK'
    <2>1. \A u \in Thread : job'[u] = Idle => held'[u] = {}
      BY <1>1, <1>3 DEF TypeOK
    <2> QED BY <1>1, <1>2, <1>5, <2>1 DEF TypeOK
  <1>7. ASSUME NEW u \in Thread
        PROVE  ShapeOf(job'[u]) /\ (job'[u].kind \notin Unordered => TidyOf(job'[u], held'[u], opOf'))
    BY <1>3 DEF Inv
  <1> QED BY <1>6, <1>7 DEF Inv

-----------------------------------------------------------------------------
(* Transactions that begin *)

LEMMA Types ==
  ASSUME Inv
  PROVE  /\ opOf \in [Session -> Operation] /\ live \subseteq Operation
         /\ \A s \in Session : opOf[s] \in Operation /\ OrderOf[opOf[s]] \in Order
         /\ \A o \in Operation : OrderOf[o] \in Order
         /\ None \notin Session /\ None \notin Operation
         /\ <<>> \in Seq(Session) /\ <<>> \in Seq(Lock)
  <1>1. opOf \in [Session -> Operation] /\ live \subseteq Operation
    BY DEF Inv, TypeOK
  <1>2. \A o \in Operation : OrderOf[o] \in Order
    BY ShapeAssumption
  <1>3. None \notin Session /\ None \notin Operation
    BY RowAssumption
  <1>4. <<>> \in Seq(Session) /\ <<>> \in Seq(Lock)
    OBVIOUS
  <1> QED BY <1>1, <1>2, <1>3, <1>4

LEMMA AskSession ==
  ASSUME NEW s \in Session
  PROVE  <<Ask(s)>> \in Seq(Lock)
  BY AskIsLock DEF Ask, Row

LEMMA WriteOperationInv ==
  ASSUME Inv, NEW t \in Thread, WriteOperation(t)
  PROVE  Inv'
  <1>a. PICK o \in live :
          \E q \in {<<>>, Some(Source[o], Share), Some(Source[o], Update)} :
            Submit(t, "order", None, None, {OrderOf[o]}, Reconcile(o) \o q, <<>>)
    BY DEF WriteOperation
  <1>1. PICK q \in {<<>>, Some(Source[o], Share), Some(Source[o], Update)} :
          Submit(t, "order", None, None, {OrderOf[o]}, Reconcile(o) \o q, <<>>)
    BY <1>a
  <1>2. o \in Operation /\ OrderOf[o] \in Order
    BY Types
  <1>3. Source[o] \in Operation \cup {None} /\ (Source[o] # None => OrderOf[Source[o]] = OrderOf[o])
    BY <1>2, ShapeAssumption
  <1>4. AllFit(q, {OrderOf[o]})
    BY <1>3, FitEmpty, FitSome
  <1>5. AllFit(Reconcile(o) \o q, {OrderOf[o]})
    BY <1>2, <1>4, FitReconcile, FitConcat
  <1>6. /\ Reconcile(o) \o q \in Seq(Lock)
        /\ \A i \in DOMAIN (Reconcile(o) \o q) : Fits((Reconcile(o) \o q)[i], {OrderOf[o]})
    BY <1>5 DEF AllFit
  <1> DEFINE todo == Reconcile(o) \o q
  <1> HIDE DEF todo
  <1>7. todo \in Seq(Lock) /\ \A i \in DOMAIN todo : Fits(todo[i], {OrderOf[o]})
    BY <1>6 DEF todo
  <1>8. Submit(t, "order", None, None, {OrderOf[o]}, todo, <<>>)
    BY <1>1 DEF todo
  <1> QED BY <1>2, <1>7, <1>8, Types, BeginInv DEF Kinds, WithSession

LEMMA WriteOrderInv ==
  ASSUME Inv, NEW t \in Thread, WriteOrder(t)
  PROVE  Inv'
  <1>a. PICK po \in Order :
          \E q \in {<<>>} \cup Ascending(Below(po)) :
            Submit(t, "order", None, None, {po}, AsksFor(q), <<>>)
    BY DEF WriteOrder
  <1>1. PICK q \in {<<>>} \cup Ascending(Below(po)) :
          Submit(t, "order", None, None, {po}, AsksFor(q), <<>>)
    BY <1>a
  <1>2. q \in Seq(Below(po))
    <2>1. CASE q = <<>>
      BY <2>1
    <2>2. CASE q \in Ascending(Below(po))
      <3>1. Below(po) \in SUBSET Operation
        BY Types DEF Below
      <3>2. Cardinality(Below(po)) \in Nat
        BY <3>1, RowAssumption, FS_Subset, FS_CardinalityType
      <3>3. q \in [1..Cardinality(Below(po)) -> Below(po)]
        BY <2>2 DEF Ascending
      <3> QED BY <3>2, <3>3
    <2> QED BY <1>1, <2>1, <2>2
  <1>3. \A o \in Below(po) : o \in Operation /\ OrderOf[o] = po
    BY Types DEF Below
  <1> DEFINE todo == AsksFor(q)
  <1>4. DOMAIN todo = DOMAIN q /\ \A i \in DOMAIN q : todo[i] = Ask(q[i])
    BY DEF AsksFor
  <1>5. ASSUME NEW i \in DOMAIN todo PROVE Fits(todo[i], {po})
    <2>1. q[i] \in Below(po) /\ todo[i] = Ask(q[i])
      BY <1>2, <1>4
    <2> QED BY <2>1, <1>3, FitOperation DEF Ask
  <1>6. todo \in Seq(Lock)
    <2>1. \A i \in DOMAIN q : Ask(q[i]) \in Lock
      BY <1>4, <1>5 DEF Fits
    <2> QED BY <2>1, <1>2 DEF AsksFor
  <1>7. Submit(t, "order", None, None, {po}, todo, <<>>)
    BY <1>1
  <1> HIDE DEF todo
  <1> QED BY <1>5, <1>6, <1>7, Types, BeginInv DEF Kinds, WithSession

LEMMA WriteSessionInv ==
  ASSUME Inv, NEW t \in Thread, WriteSession(t)
  PROVE  Inv'
  <1>1. PICK s \in Session :
          Submit(t, "report", s, None, {OrderOf[opOf[s]]}, <<Ask(s)>>, <<>>)
    BY DEF WriteSession
  <1> QED BY <1>1, Types, AskSession, BeginInv DEF Kinds, WithSession

LEMMA FinishManyInv ==
  ASSUME Inv, NEW t \in Thread, FinishMany(t)
  PROVE  Inv'
  <1>1. PICK s \in Session, r \in Session :
          Submit(t, "batch", s, None, {OrderOf[opOf[s]]}, <<Ask(s)>>, <<r>>)
    BY DEF FinishMany
  <1>2. <<r>> \in Seq(Session)
    OBVIOUS
  <1> QED BY <1>1, <1>2, Types, AskSession, BeginInv DEF Kinds, WithSession

LEMMA MoveSessionInv ==
  ASSUME Inv, NEW t \in Thread, MoveSession(t)
  PROVE  Inv'
  <1>1. PICK s \in Session, d \in live :
          Submit(t, "move", s, d, {OrderOf[opOf[s]], OrderOf[d]}, <<Ask(s)>>, <<>>)
    BY DEF MoveSession
  <1>2. d \in Operation /\ OrderOf[d] \in {OrderOf[opOf[s]], OrderOf[d]}
        /\ {OrderOf[opOf[s]], OrderOf[d]} \in SUBSET Order
    BY Types
  <1> QED BY <1>1, <1>2, Types, AskSession, BeginInv DEF Kinds, WithSession

LEMMA CreateInv ==
  ASSUME Inv, NEW t \in Thread, Create(t)
  PROVE  Inv'
  <1>a. PICK po \in Order :
          \E p, s \in Below(po) \cup {None} :
            Submit(t, "create", None, None, {po}, Some(p, KeyShare) \o Some(s, KeyShare), <<>>)
    BY DEF Create
  <1>1. PICK p, s \in Below(po) \cup {None} :
          Submit(t, "create", None, None, {po}, Some(p, KeyShare) \o Some(s, KeyShare), <<>>)
    BY <1>a
  <1> DEFINE todo == Some(p, KeyShare) \o Some(s, KeyShare)
  <1>2. ASSUME NEW r \in {p, s}
        PROVE  /\ AllFit(Some(r, KeyShare), {po})
               /\ \A i \in DOMAIN Some(r, KeyShare) :
                    /\ Some(r, KeyShare)[i].row \notin Order
                    /\ Some(r, KeyShare)[i].mode = KeyShare
    <2>1. r \in Operation \cup {None} /\ (r # None => OrderOf[r] \in {po})
      BY Types DEF Below
    <2>2. r = None => Some(r, KeyShare) = <<>>
      BY DEF Some
    <2>3. r # None => r \notin Order /\ Some(r, KeyShare) = <<At(r, KeyShare)>>
      BY <2>1, RowAssumption DEF Some
    <2>4. At(r, KeyShare).row = r /\ At(r, KeyShare).mode = KeyShare
      BY DEF At
    <2> QED BY <2>1, <2>2, <2>3, <2>4, FitSome
  <1>3. AllFit(todo, {po})
    BY <1>2, FitConcat
  <1>4. Some(p, KeyShare) \in Seq(Lock) /\ Some(s, KeyShare) \in Seq(Lock)
    BY <1>2 DEF AllFit
  <1>5. ASSUME NEW i \in DOMAIN todo PROVE todo[i].row \notin Order /\ todo[i].mode = KeyShare
    BY <1>2, <1>4, ConcatCases
  <1>6. todo \in Seq(Lock) /\ \A i \in DOMAIN todo : Fits(todo[i], {po})
    BY <1>3 DEF AllFit
  <1>7. Submit(t, "create", None, None, {po}, todo, <<>>)
    BY <1>1
  <1> HIDE DEF todo
  <1> QED BY <1>5, <1>6, <1>7, Types, BeginInv DEF Kinds, WithSession

LEMMA ConfigureInv ==
  ASSUME Inv, NEW t \in Thread, Configure(t)
  PROVE  Inv'
  <1>1. PICK o \in live : /\ SetupOf[o] # None
                          /\ Submit(t, "configure", None, o, {}, <<Ask(o)>>, <<>>)
    BY DEF Configure
  <1>2. o \in Operation
    BY Types
  <1>3. <<Ask(o)>> \in Seq(Lock)
    BY <1>2, AskIsLock DEF Ask, Row
  <1> QED BY <1>1, <1>2, <1>3, Types, BeginInv DEF Kinds, WithSession, Unordered

LEMMA DeleteInv ==
  ASSUME Inv, NEW t \in Thread, Delete(t)
  PROVE  Inv'
  <1>1. PICK o \in live, r \in live \cup {None} :
          Submit(t, "delete", None, o, {},
                 <<Ask(o)>> \o Some(r, NoKeyUpdate) \o Some(SetupOf[o], Update), <<>>)
    BY DEF Delete
  <1>2. o \in Operation /\ r \in Operation \cup {None} /\ SetupOf[o] \in Operation \cup {None}
    BY Types, ShapeAssumption
  <1>3. /\ AllFit(<<Ask(o)>>, Order) /\ AllFit(Some(r, NoKeyUpdate), Order)
        /\ AllFit(Some(SetupOf[o], Update), Order)
    BY <1>2, Types, FitOperation, FitOne, FitSome DEF Ask
  <1> DEFINE todo == <<Ask(o)>> \o Some(r, NoKeyUpdate) \o Some(SetupOf[o], Update)
  <1>4. todo \in Seq(Lock)
    BY <1>3 DEF AllFit
  <1>5. Submit(t, "delete", None, o, {}, todo, <<>>)
    BY <1>1
  <1> HIDE DEF todo
  <1> QED BY <1>2, <1>4, <1>5, Types, BeginInv DEF Kinds, WithSession, Unordered

LEMMA ImportInv ==
  ASSUME Inv, NEW t \in Thread, Import(t)
  PROVE  Inv'
  <1> DEFINE rows == {Ask(o) : o \in live} \cup {At(po, KeyShare) : po \in Order}
                     \cup {At(po, NoKeyUpdate) : po \in Order}
  <1>1. \A l \in rows : l \in Lock
    BY Types, AskIsLock DEF Ask, Row
  <1>2. \E a, b \in rows : a # b /\ Submit(t, "import", None, None, {}, <<a, b>>, <<>>)
    BY DEF Import
  <1> HIDE DEF rows
  <1>3. PICK a \in rows, b \in rows : Submit(t, "import", None, None, {}, <<a, b>>, <<>>)
    BY <1>2, Zenon
  <1>4. <<a, b>> \in Seq(Lock)
    BY <1>1
  <1> QED BY <1>3, <1>4, Types, BeginInv DEF Kinds, WithSession, Unordered

LEMMA InspectInv ==
  ASSUME Inv, NEW t \in Thread, Inspect(t)
  PROVE  Inv'
  <1>1. PICK s \in Session : Submit(t, "qc", s, None, {}, <<At(s, Share)>>, <<>>)
    BY DEF Inspect
  <1>2. <<At(s, Share)>> \in Seq(Lock)
    BY AskIsLock DEF Row
  <1> QED BY <1>1, <1>2, Types, BeginInv DEF Kinds, WithSession, Unordered

-----------------------------------------------------------------------------
(* Transactions that go on and end *)

LEMMA LockOrderInv ==
  ASSUME Inv, NEW t \in Thread, LockOrder(t)
  PROVE  Inv'
  <1> DEFINE j == job[t]
             l == Wanted(t)
             H == held[t] \cup {l}
  <1>1. TypeOK /\ j \in Job /\ held[t] \in SUBSET Lock /\ opOf \in [Session -> Operation]
    BY DEF Inv, TypeOK
  <1>2. Asks(t) /\ Missing(t) # {} /\ \A u \in Thread : ~Waits(t, u)
    BY DEF LockOrder, Asks
  <1>3. l \in Lock /\ FirstOrder(t) \in Missing(t)
        /\ (\A p \in Missing(t) : FirstOrder(t) <= p)
        /\ l = At(FirstOrder(t), OrderMode(j.kind))
    BY <1>1, <1>2, NextWanted
  <1>4. ShapeOf(j)
    BY DEF Inv
  <1>5. j.kind \notin Unordered => TidyOf(j, H, opOf)
    BY <1>1, <1>3, <1>4, SameRows, TidyLockOrder DEF Inv
  <1>6. j # Idle
    BY <1>2 DEF Idle, Missing
  <1>7. job' = [job EXCEPT ![t] = j] /\ held' = [held EXCEPT ![t] = H]
        /\ opOf' = opOf /\ live' = live
    BY <1>1 DEF LockOrder, TypeOK
  <1> HIDE DEF j, l
  <1> QED BY <1>1, <1>2, <1>3, <1>4, <1>5, <1>6, <1>7, WorkInv DEF l

\* What is appended are locks, on every path.
LEMMA OnwardLocks ==
  ASSUME Inv, NEW t \in Thread, NEW r \in Row, NEW q \in Onward(job[t], r)
  PROVE  q \in Seq(Lock)
  <1> DEFINE j == job[t]
  <1>1. j \in Job /\ ShapeOf(j)
    BY DEF Inv, TypeOK
  <1>2. CASE r = j.sess
    <2>1. j.sess \in Session /\ opOf[j.sess] \in Operation /\ OrderOf[opOf[j.sess]] \in Order
      BY <1>1, <1>2, Types, RowAssumption DEF Job, Row
    <2>2. q \in SessionPaths(j.kind, opOf[j.sess], j.dest)
      BY <1>2 DEF Onward
    <2>3. j.kind \in WithSession
      BY <1>1, <2>1, Types DEF ShapeOf
    <2>4. CASE j.kind = "qc"
      <3>1. q = <<At(opOf[j.sess], KeyShare)>>
        BY <2>2, <2>4 DEF SessionPaths
      <3>2. At(opOf[j.sess], KeyShare) \in Lock
        BY <2>1, AskIsLock DEF Row
      <3> QED BY <3>1, <3>2
    <2>5. CASE j.kind # "qc"
      <3>1. j.kind = "move" => j.dest \in Operation /\ OrderOf[j.dest] \in Order
        BY <1>1, Types DEF ShapeOf
      <3>2. AllFit(q, Order)
        BY <2>1, <2>2, <2>3, <2>5, <3>1, FitSession DEF WithSession
      <3> QED BY <3>2 DEF AllFit
    <2> QED BY <2>4, <2>5
  <1>3. CASE r # j.sess /\ j.kind = "configure" /\ r = j.dest
    <2>1. q \in SetupPaths(j.dest) /\ j.dest \in Operation
      BY <1>1, <1>3 DEF Onward, ShapeOf
    <2>2. CASE SetupOf[j.dest] \in live
      <3>1. q = <<Ask(SetupOf[j.dest])>> /\ SetupOf[j.dest] \in Operation
        BY <2>1, <2>2, Types DEF SetupPaths
      <3> QED BY <3>1, AskIsLock DEF Ask, Row
    <2>3. CASE SetupOf[j.dest] \notin live
      <3>1. q = <<At(OrderOf[j.dest], KeyShare)>> /\ OrderOf[j.dest] \in Order
        BY <2>1, <2>3, Types DEF SetupPaths
      <3> QED BY <3>1, AskIsLock DEF Row
    <2> QED BY <2>2, <2>3
  <1>4. CASE r # j.sess /\ ~(j.kind = "configure" /\ r = j.dest)
    <2>1. q = <<>>
      BY <1>4 DEF Onward
    <2> QED BY <2>1, Types
  <1> QED BY <1>2, <1>3, <1>4

LEMMA LockRowInv ==
  ASSUME Inv, NEW t \in Thread, LockRow(t)
  PROVE  Inv'
  <1> DEFINE j == job[t]
             l == Wanted(t)
  <1>1. TypeOK /\ j \in Job /\ held[t] \in SUBSET Lock /\ opOf \in [Session -> Operation]
        /\ ShapeOf(j)
    BY DEF Inv, TypeOK
  <1>2. Asks(t) /\ Missing(t) = {} /\ j.todo # <<>> /\ \A u \in Thread : ~Waits(t, u)
    BY DEF LockRow, Asks
  <1>3. l \in Lock /\ l = Head(j.todo) /\ Left(j, held[t]) = {} /\ l.row \in Row
    BY <1>1, <1>2, NextWanted, SameRows DEF Lock
  <1>4. j.kind # "none"
    BY <1>1, <1>2 DEF ShapeOf, Idle
  <1>5. j.kind \notin Unordered => TidyOf(j, held[t], opOf)
    BY DEF Inv
  <1>6. j.todo \in Seq(Lock) /\ Tail(j.todo) \in Seq(Lock)
    BY <1>1, <1>2 DEF Job
  <1>7. CASE l.row \in Operation \ live
    <2> DEFINE k == [j EXCEPT !.todo = Tail(@)]
    <2>1. job' = [job EXCEPT ![t] = k] /\ held' = [held EXCEPT ![t] = held[t]]
          /\ opOf' = opOf /\ live' = live
      BY <1>1, <1>7 DEF LockRow, TypeOK
    <2>2. k \in Job /\ k.kind = j.kind
      BY <1>1, <1>6 DEF Job
    <2>3. ShapeOf(k)
      BY <1>1, <1>4 DEF ShapeOf, Job
    <2>4. k.kind \notin Unordered => TidyOf(k, held[t], opOf)
      BY <1>1, <1>2, <1>3, <1>5, <1>7, <2>2, TidySkip
    <2>5. k # Idle
      BY <2>2, <1>4 DEF Idle
    <2> HIDE DEF k
    <2> QED BY <1>3, <2>1, <2>2, <2>3, <2>4, <2>5, WorkInv
  <1>8. CASE l.row \notin Operation \ live
    <2>1. PICK q \in Onward(j, l.row) : job' = [job EXCEPT ![t].todo = Tail(@) \o q]
      BY <1>8 DEF LockRow
    <2> DEFINE k == [j EXCEPT !.todo = Tail(@) \o q]
               H == held[t] \cup {l}
    <2>2. job' = [job EXCEPT ![t] = k] /\ held' = [held EXCEPT ![t] = H]
          /\ opOf' = opOf /\ live' = live
      BY <1>1, <1>8, <2>1 DEF LockRow, TypeOK
    <2>3. q \in Seq(Lock)
      BY <1>3, <2>1, OnwardLocks
    <2>4. k \in Job /\ k.kind = j.kind
      <3>1. Tail(j.todo) \o q \in Seq(Lock)
        BY <1>6, <2>3
      <3> QED BY <1>1, <3>1 DEF Job
    <2>5. ShapeOf(k)
      BY <1>1, <1>4 DEF ShapeOf, Job
    <2>6. j.kind \notin Unordered =>
            IF l.row = j.sess THEN q \in SessionPaths(j.kind, opOf[j.sess], j.dest) ELSE q = <<>>
      BY <2>1 DEF Onward, Unordered
    <2>7. k.kind \notin Unordered => TidyOf(k, H, opOf)
      BY <1>1, <1>2, <1>3, <1>5, <2>4, <2>6, TidyLockRow
    <2>8. k # Idle
      BY <2>4, <1>4 DEF Idle
    <2> HIDE DEF k, l
    <2> QED BY <1>2, <1>3, <2>2, <2>4, <2>5, <2>7, <2>8, WorkInv DEF l
  <1> QED BY <1>7, <1>8

LEMMA NextItemInv ==
  ASSUME Inv, NEW t \in Thread, NextItem(t)
  PROVE  Inv'
  <1> DEFINE j == job[t]
             s == Head(j.rest)
             k == [j EXCEPT !.sess = s, !.orders = {OrderOf[opOf[s]]},
                            !.todo = <<Ask(s)>>, !.rest = Tail(@)]
  <1>1. TypeOK /\ j \in Job /\ held[t] \in SUBSET Lock /\ opOf \in [Session -> Operation]
        /\ ShapeOf(j)
    BY DEF Inv, TypeOK
  <1>2. j.rest # <<>> /\ j.todo = <<>> /\ Left(j, held[t]) = {}
    BY SameRows DEF NextItem, Asks
  <1>3. j.kind = "batch"
    BY <1>1, <1>2 DEF ShapeOf
  <1>4. TidyOf(j, held[t], opOf)
    BY <1>3 DEF Inv, Unordered
  <1>5. k \in Job /\ ShapeOf(k) /\ TidyOf(k, held[t], opOf)
    BY <1>1, <1>2, <1>4, TidyNext
  <1>6. job' = [job EXCEPT ![t] = k] /\ held' = [held EXCEPT ![t] = held[t]]
        /\ opOf' = opOf /\ live' = live
    BY <1>1 DEF NextItem, TypeOK
  <1>7. k # Idle
    <2>1. k.kind = "batch"
      BY <1>3, <1>1 DEF Job
    <2> QED BY <2>1 DEF Idle
  <1>8. \E l : l \in Lock
    <2>1. s \in Session
      BY <1>1, <1>2 DEF Job
    <2> QED BY <2>1, AskIsLock DEF Row
  <1> HIDE DEF k
  <1> QED BY <1>5, <1>6, <1>7, <1>8, WorkInv

\* A transaction that ends, with its move if it is one.
LEMMA EndInv ==
  ASSUME Inv, NEW t \in Thread, End(t), live' \subseteq Operation,
         opOf' = opOf \/ (~Asks(t) /\ job[t].kind = "move" /\ job[t].dest \in live
                          /\ opOf' = [opOf EXCEPT ![job[t].sess] = job[t].dest])
  PROVE  Inv'
  <1> DEFINE s == job[t].sess
  <1>1. TypeOK /\ job[t] \in Job /\ ShapeOf(job[t]) /\ held[t] \in SUBSET Lock
        /\ opOf \in [Session -> Operation]
    BY DEF Inv, TypeOK
  <1>2. opOf' \in [Session -> Operation] /\ \A r \in Session : r # s => opOf'[r] = opOf[r]
    BY <1>1, Types
  <1>3. Idle \in Job /\ ShapeOf(Idle)
    <2>1. Idle \in Job
      BY Types DEF Idle, Job, Kinds
    <2>2. ShapeOf(Idle)
      BY DEF Idle, ShapeOf, WithSession
    <2> QED BY <2>1, <2>2
  <1>4. job'[t] = Idle /\ held'[t] = {} /\ job' \in [Thread -> Job] /\ held' \in [Thread -> SUBSET Lock]
        /\ \A u \in Thread \ {t} : job'[u] = job[u] /\ held'[u] = held[u]
    BY <1>1, <1>3 DEF End, TypeOK
  <1>5. TypeOK'
    <2>1. \A u \in Thread : job'[u] = Idle => held'[u] = {}
      BY <1>1, <1>4 DEF TypeOK
    <2>2. \A u \in Thread : \A v \in Thread \ {u} : \A a \in held'[u], b \in held'[v] :
            a.row = b.row => ~Conflicts(a.mode, b.mode)
      BY <1>1, <1>4 DEF TypeOK
    <2> QED BY <1>2, <1>4, <2>1, <2>2 DEF TypeOK
  <1>6. ASSUME opOf' # opOf, NEW u \in Thread \ {t}
        PROVE  s \notin Rows(held[u])
    <2>1. ~Asks(t) /\ job[t].kind = "move"
      BY <1>6
    <2>2. TidyOf(job[t], held[t], opOf)
      BY <2>1 DEF Inv, Unordered
    <2>3. s # None /\ Left(job[t], held[t]) = {} /\ job[t].todo = <<>>
      BY <1>1, <2>1, SameRows DEF ShapeOf, WithSession, Asks
    <2>4. s \in Rows(held[t]) /\ s \in Session
      BY <1>1, <2>2, <2>3, AtTheEnd DEF Placed, Job
    <2>5. PICK a \in held[t] : a.row = s
      BY <2>4 DEF Rows
    <2>6. a.mode = Update /\ a \in Lock
      BY <1>1, <2>2, <2>4, <2>5 DEF TidyOf, ModesOK
    <2>7. ASSUME NEW b \in held[u] PROVE b.row # s
      <3>1. b \in Lock
        BY <1>1 DEF TypeOK
      <3>2. Conflicts(a.mode, b.mode)
        BY <2>6, <3>1, Clash
      <3> QED BY <1>1, <1>6, <2>5, <3>2 DEF TypeOK
    <2> QED BY <2>7 DEF Rows
  <1>7. ASSUME NEW u \in Thread \ {t}
        PROVE  ShapeOf(job[u]) /\ (job[u].kind \notin Unordered => TidyOf(job[u], held[u], opOf'))
    <2>1. /\ ShapeOf(job[u]) /\ job[u] \in Job /\ held[u] \in SUBSET Lock
          /\ job[u].kind \notin Unordered => TidyOf(job[u], held[u], opOf)
      BY DEF Inv, TypeOK
    <2>2. CASE opOf' = opOf
      BY <2>1, <2>2
    <2>3. CASE opOf' # opOf
      BY <1>1, <1>2, <1>6, <2>1, <2>3, TidyFrozen
    <2> QED BY <2>2, <2>3
  <1>8. TidyOf(Idle, {}, opOf')
    BY <1>3, TidySubmit DEF Idle
  <1>9. ASSUME NEW u \in Thread
        PROVE  ShapeOf(job'[u]) /\ (job'[u].kind \notin Unordered => TidyOf(job'[u], held'[u], opOf'))
    BY <1>3, <1>4, <1>7, <1>8
  <1> QED BY <1>5, <1>9 DEF Inv

\* The invariant is inductive.
LEMMA StepInv == Inv /\ [Next]_vars => Inv'
  <1> SUFFICES ASSUME Inv, [Next]_vars PROVE Inv'
    OBVIOUS
  <1>1. CASE UNCHANGED vars
    <2>1. opOf' = opOf /\ live' = live /\ job' = job /\ held' = held
      BY <1>1 DEF vars
    <2> QED BY <2>1 DEF Inv, TypeOK
  <1>2. CASE Next
    <2>1. PICK t \in Thread : Begin(t) \/ Work(t) \/ Refuse(t) \/ BreakCircle(t)
      BY <1>2 DEF Next
    <2>2. CASE Begin(t)
      BY <2>2, WriteOperationInv, WriteOrderInv, WriteSessionInv, FinishManyInv, MoveSessionInv,
         CreateInv, ConfigureInv, DeleteInv, ImportInv, InspectInv DEF Begin
    <2>3. CASE LockOrder(t)
      BY <2>3, LockOrderInv
    <2>4. CASE LockRow(t)
      BY <2>4, LockRowInv
    <2>5. CASE NextItem(t)
      BY <2>5, NextItemInv
    <2>6. CASE Commit(t)
      <3>1. ~Asks(t) /\ End(t) /\ opOf' = Moved(job[t])
            /\ live' = (live \ Gone(job[t])) \cup Built(job[t])
        BY <2>6 DEF Commit
      <3>2. Built(job[t]) \subseteq Operation
        <4>1. ShapeOf(job[t])
          BY DEF Inv
        <4>2. job[t].kind = "configure" => SetupOf[job[t].dest] \in Operation
          BY <4>1, ShapeAssumption DEF ShapeOf
        <4> QED BY <4>2 DEF Built
      <3>3. live' \subseteq Operation
        BY <3>1, <3>2, Types
      <3> QED BY <3>1, <3>3, EndInv DEF Moved
    <2>7. CASE Refuse(t) \/ BreakCircle(t)
      <3>1. End(t) /\ opOf' = opOf /\ live' = live
        BY <2>7 DEF Refuse, BreakCircle
      <3> QED BY <3>1, Types, EndInv
    <2> QED BY <2>1, <2>2, <2>3, <2>4, <2>5, <2>6, <2>7 DEF Work
  <1> QED BY <1>1, <1>2

THEOREM Invariance == Spec => []Inv
  <1>1. Init => Inv
    BY InitInv
  <1>2. Inv /\ [Next]_vars => Inv'
    BY StepInv
  <1> QED BY <1>1, <1>2, PTL DEF Spec

\* Transactions release what they locked when they end (connection.py:
\* transaction), and two of them never hold locks that exclude each other.
THEOREM TypeCorrect == Spec => []TypeOK
  <1>1. Inv => TypeOK
    BY DEF Inv
  <1> QED BY <1>1, Invariance, PTL

-----------------------------------------------------------------------------
(* Orders keep writers apart *)

\* What a transaction that has not strayed has below an order, it has under the
\* lock of the order.
LEMMA HomeIsLocked ==
  ASSUME Inv, NEW t \in Thread, ~Loose(t), NEW l \in held[t], l.row \notin Order
  PROVE  Home(l.row) \in Locked(t)
  <1>1. TidyOf(job[t], held[t], opOf) /\ Home(l.row) = Under(opOf, l.row)
    BY DEF Inv, Loose, Home, Under
  <1>2. CASE Under(opOf, l.row) \in Rows(held[t])
    BY <1>1, <1>2, SameRows
  <1>3. CASE Placed(job[t], held[t]) /\ Under(opOf, l.row) = OrderOf[opOf[job[t].sess]]
    <2>1. held[t] \in SUBSET Lock
      BY DEF Inv, TypeOK
    <2>2. job[t].sess # None
      BY <1>3, <2>1, RowAssumption DEF Placed, Rows, Lock, Row
    <2>3. OrderOf[opOf[job[t].sess]] \in job[t].orders \cup Locked(t)
      BY <2>2 DEF Loose, Strayed
    <2>4. job[t].orders \subseteq Locked(t)
      BY <1>3, SameRows DEF Placed, Left
    <2> QED BY <1>1, <1>3, <2>3, <2>4
  <1> QED BY <1>1, <1>2, <1>3 DEF TidyOf, HeldOK

LEMMA OrdersExclude ==
  ASSUME Inv, NEW t \in Thread, NEW u \in Thread \ {t}, ~Loose(t), ~Loose(u),
         NEW po \in Order, po \in Locked(t), po \in Locked(u)
  PROVE  job[t].kind = "create" /\ job[u].kind = "create"
  <1>1. PICK l \in held[t] : l.row = po
    BY DEF Locked
  <1>2. PICK m \in held[u] : m.row = po
    BY DEF Locked
  <1>3. l \in Lock /\ m \in Lock /\ ~Conflicts(l.mode, m.mode) /\ ~Conflicts(m.mode, l.mode)
    BY <1>1, <1>2, Clash DEF Inv, TypeOK
  <1>4. l.mode = OrderMode(job[t].kind) /\ m.mode = OrderMode(job[u].kind)
    BY <1>1, <1>2 DEF Inv, Loose, TidyOf, ModesOK
  <1> QED BY <1>3, <1>4, Clash DEF OrderMode

\* A command on an order is alone below it, unless it has strayed or is one of
\* the paths that do not lock the order (production_state.py:
\* lock_production_order_first_for_session).
THEOREM WritersApart == Spec => []OneWriterPerOrder
  <1>1. ASSUME Inv PROVE OneWriterPerOrder
    <2>1. SUFFICES ASSUME NEW t \in Thread, NEW u \in Thread \ {t}, NEW po \in Order,
                          WritesBelow(t, po), WritesBelow(u, po), ~Loose(t), ~Loose(u)
                   PROVE  job[t].kind = "create" /\ job[u].kind = "create"
      BY DEF OneWriterPerOrder
    <2>2. PICK r \in Locked(t) \ Order : Home(r) = po
      BY <2>1 DEF WritesBelow
    <2>3. PICK x \in Locked(u) \ Order : Home(x) = po
      BY <2>1 DEF WritesBelow
    <2>4. po \in Locked(t)
      BY <1>1, <2>1, <2>2, HomeIsLocked DEF Locked
    <2>5. po \in Locked(u)
      BY <1>1, <2>1, <2>3, HomeIsLocked DEF Locked
    <2> QED BY <1>1, <2>1, <2>4, <2>5, OrdersExclude
  <1> QED BY <1>1, Invariance, PTL

-----------------------------------------------------------------------------
(* No circle without a known reason *)

\* Nobody who has all his orders waits for another who keeps to the order.
LEMMA OnlyOrdersAreWaitedFor ==
  ASSUME Inv, NEW t \in Thread, NEW u \in Thread, ~Loose(t), ~Loose(u), Waits(t, u)
  PROVE  Missing(t) # {}
  <1>1. SUFFICES ASSUME Missing(t) = {} PROVE FALSE
    OBVIOUS
  <1> DEFINE l == Wanted(t)
             j == job[t]
  <1>2. TypeOK /\ j \in Job /\ TidyOf(j, held[t], opOf) /\ Asks(t) /\ t # u
    BY DEF Inv, TypeOK, Loose, Waits
  <1>3. l \in Lock /\ l = Head(j.todo) /\ j.todo # <<>>
    BY <1>1, <1>2, NextWanted
  <1>4. l = j.todo[1] /\ 1 \in DOMAIN j.todo
    BY <1>2, <1>3, HeadAndTail DEF Job
  <1>5. PICK m \in held[u] : m.row = l.row /\ Conflicts(m.mode, l.mode)
    BY DEF Waits
  <1>6. m \in Lock
    BY <1>2 DEF TypeOK
  <1>7. \A S : S = Reach(j, held[t], opOf) => S \subseteq Locked(t)
    <2>1. j.orders \subseteq Locked(t)
      BY <1>1 DEF Missing
    <2>2. j.sess # None => OrderOf[opOf[j.sess]] \in Locked(t)
      BY <2>1 DEF Loose, Strayed
    <2> QED BY <2>1, <2>2, SameRows DEF Reach
  <1>8. \/ j.sess # None /\ l = Ask(j.sess)
        \/ Fits(l, Reach(j, held[t], opOf))
    <2>1. CASE j.sess # None /\ ~Placed(j, held[t])
      <3>1. j.todo = <<Ask(j.sess)>>
        BY <1>2, <2>1 DEF TidyOf, TodoOK
      <3> QED BY <2>1, <3>1, <1>4
    <2>2. CASE j.sess = None \/ Placed(j, held[t])
      BY <1>2, <1>4, <2>2 DEF TidyOf, TodoOK
    <2> QED BY <2>1, <2>2
  <1>9. CASE l.row \in Order
    <2>1. l.row \in Locked(t) /\ l.row \in Locked(u)
      <3>1. Ask(j.sess).row = j.sess
        BY DEF Ask, At
      <3>2. j.sess \notin Order
        BY <1>2, RowAssumption DEF Job
      <3>3. Fits(l, Reach(j, held[t], opOf))
        BY <1>8, <1>9, <3>1, <3>2
      <3> QED BY <1>5, <1>7, <1>9, <3>3 DEF Fits, Locked
    <2>2. j.kind = "create"
      BY <1>2, <1>9, <2>1, OrdersExclude
    <2>3. l.row \notin Order
      BY <1>2, <1>4, <2>2 DEF TidyOf, TodoOK
    <2> QED BY <1>9, <2>3
  <1>10. CASE l.row \notin Order
    <2>1. Home(l.row) \in Locked(t) /\ Home(l.row) \in Order
      <3>1. CASE j.sess # None /\ l = Ask(j.sess)
        <4>1. l.row = j.sess /\ j.sess \in Session
          BY <3>1, <1>2 DEF Ask, At, Job
        <4>2. Home(l.row) = OrderOf[opOf[j.sess]]
          BY <4>1 DEF Home
        <4>3. Home(l.row) \in Reach(j, held[t], opOf)
          BY <3>1, <4>2 DEF Reach
        <4> QED BY <4>1, <4>2, <4>3, <1>7, Types
      <3>2. CASE Fits(l, Reach(j, held[t], opOf))
        <4>1. l.row \in Operation
          BY <3>2, <1>10 DEF Fits, Lock, Row
        <4>2. l.row \notin Session
          BY <4>1, RowAssumption
        <4> QED BY <3>2, <4>1, <4>2, <1>7, Types DEF Fits, Home
      <3> QED BY <3>1, <3>2, <1>8
    <2>2. Home(l.row) \in Locked(u)
      BY <1>5, <1>10, HomeIsLocked
    <2>3. j.kind = "create" /\ job[u].kind = "create"
      BY <1>2, <2>1, <2>2, OrdersExclude
    <2>4. l.mode = KeyShare
      BY <1>2, <1>4, <2>3 DEF TidyOf, TodoOK
    <2>5. m.mode = KeyShare
      BY <2>3 DEF Inv, Loose, TidyOf, ModesOK
    <2> QED BY <1>3, <1>5, <1>6, <2>4, <2>5, Clash
  <1> QED BY <1>9, <1>10

\* Along a wait the order waited for gets greater.
LEMMA WaitsAscend ==
  ASSUME Inv, NEW t \in Thread, NEW u \in Thread, ~Loose(u), ~SecondOrder(u), Waits(t, u),
         Missing(t) # {}, Missing(u) # {}
  PROVE  FirstOrder(t) \in Order /\ FirstOrder(u) \in Order /\ FirstOrder(t) < FirstOrder(u)
  <1>1. TypeOK /\ Asks(t) /\ Asks(u)
    BY DEF Inv, Asks
  <1>2. FirstOrder(t) \in Order /\ Wanted(t).row = FirstOrder(t)
    BY <1>1, NextWanted
  <1>3. FirstOrder(u) \in Order /\ FirstOrder(u) \in Missing(u)
    BY <1>1, NextWanted
  <1>4. FirstOrder(t) \in Locked(u) /\ held[u] # {}
    BY <1>2 DEF Waits, Locked
  <1>5. job[u].kind # "batch"
    BY <1>4 DEF SecondOrder
  <1>6. AscendOK(job[u], held[u])
    BY DEF Inv, Loose, TidyOf
  <1> QED BY <1>2, <1>3, <1>4, <1>5, <1>6, SameRows DEF AscendOK

\* Transactions that keep to the order of the locks never wait in a circle,
\* however many there are (test_lock_order_ab_ba.py asks for the order only).
THEOREM CirclesKnown == Spec => []CirclesAreKnown
  <1>1. ASSUME Inv PROVE CirclesAreKnown
    <2>1. SUFFICES ASSUME NEW C \in SUBSET Thread, Circle(C),
                          \A t \in C : ~Loose(t) /\ ~SecondOrder(t)
                   PROVE  FALSE
      BY DEF CirclesAreKnown
    <2>2. C # {} /\ \A t \in C : \E u \in C : Waits(t, u)
      BY <2>1 DEF Circle
    <2>3. \A t \in C : Missing(t) # {}
      BY <1>1, <2>1, <2>2, OnlyOrdersAreWaitedFor
    <2>4. \A t \in C : \E u \in C :
            FirstOrder(t) \in Order /\ FirstOrder(u) \in Order /\ FirstOrder(t) < FirstOrder(u)
      BY <1>1, <2>1, <2>2, <2>3, WaitsAscend
    <2> DEFINE T == {LastOrder - FirstOrder(t) : t \in C}
    <2>a. ASSUME NEW t \in C
          PROVE  FirstOrder(t) \in Nat /\ LastOrder \in Nat /\ FirstOrder(t) <= LastOrder
      <3>1. FirstOrder(t) \in Order
        BY <2>4
      <3> QED BY <3>1, RowAssumption
    <2>5. T \in SUBSET Nat /\ T # {}
      <3>1. \A t \in C : LastOrder - FirstOrder(t) \in Nat
        BY <2>a
      <3> QED BY <3>1, <2>2
    <2>6. PICK x \in T : \A y \in T : x <= y
      BY <2>5, Lowest
    <2>7. PICK t \in C : x = LastOrder - FirstOrder(t)
      BY <2>6
    <2>8. PICK u \in C : FirstOrder(t) \in Order /\ FirstOrder(u) \in Order
                         /\ FirstOrder(t) < FirstOrder(u)
      BY <2>4, <2>7
    <2>9. x <= LastOrder - FirstOrder(u)
      BY <2>6, <2>8
    <2>10. FirstOrder(t) \in Nat /\ FirstOrder(u) \in Nat /\ LastOrder \in Nat
      BY <2>a, <2>7, <2>8
    <2> QED BY <2>7, <2>8, <2>9, <2>10
  <1> QED BY <1>1, Invariance, PTL

=============================================================================
