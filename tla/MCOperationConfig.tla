-------------------------- MODULE MCOperationConfig --------------------------
(* Three operations, the last not yet created, two orders and two threads. *)
EXTENDS OperationConfig, TLC

CONSTANTS o1, o2, o3, p, q, t1, t2

Plain == [po |-> Keep, predecessor |-> Keep, source |-> Keep]

\* A request renames, or changes one dependency, or moves the operation to q
\* without any.
OneChange ==
  {Plain, [po |-> q, predecessor |-> None, source |-> None]}
  \cup {[Plain EXCEPT !.predecessor = o] : o \in {o1, o2}}
  \cup {[Plain EXCEPT !.source = o] : o \in {o1, o2, None}}

MCInit ==
  /\ operation = [o \in Operation |-> IF o = o3 THEN Unborn
                    ELSE [state |-> "live", po |-> p, predecessor |-> None, source |-> None]]
  /\ Init

\* Bounds: one operation has material drawn, at most one is moved to q or deleted,
\* and the third is created in p with one dependency and not updated; sessions
\* run only while the two first ones are in p and the third is not created.
Few ==
  /\ Cardinality({o \in Operation : drawn[o] # {}}) <= 1
  /\ Cardinality({o \in Operation : operation[o].state = "deleted" \/ operation[o].po = q}) <= 1
  /\ Cardinality({t \in Thread : thread[t].at = "insert"}) <= 1
  /\ \A t \in Thread : thread[t].at = "update" => thread[t].op # o3
  /\ \A t \in Thread : thread[t].at = "insert" =>
       thread[t].seen.po = p /\ None \in {thread[t].seen.predecessor, thread[t].seen.source}
  /\ worked # {} => /\ InOrder(p) = {o1, o2}
                    /\ \A t \in Thread : thread[t].at # "insert"

Alike == Permutations(Thread) \cup Permutations({o1, o2})

MCSpec == MCInit /\ [][Next]_vars
=============================================================================
