---------------------------- MODULE MCWriteLocks ----------------------------
(*************************************************************************)
(* An instance of WriteLocks: order 1 has an operation, its setup and a   *)
(* second operation that is the bench of the first one's part, order 2    *)
(* has one operation.                                                     *)
(*************************************************************************)
EXTENDS WriteLocks, TLC

Main  == 11
Setup == 12
Other == 13
Far   == 21

Orders     == {1, 2}
Operations == {Main, Setup, Other, Far}

OrdersOf     == [o \in Operations |-> IF o = Far THEN 2 ELSE 1]
Only(o, p)   == [x \in Operations |-> IF x = o THEN p ELSE None]
Sources      == Only(Other, Main)
Predecessors == Only(Other, Main)
Setups       == Only(Main, Setup)
Benches      == Only(Main, Other)

\* Everything exists at first, and the sessions stand on the first operation;
\* every other placement is reached from there.
MCInit == Init /\ live = Operations /\ \A s \in Session : opOf[s] = Main
MCSpec == MCInit /\ [][Next]_vars

\* Beyond the setup nothing stays deleted (it comes back when it is configured),
\* and a session that has moved to the second operation goes no further.
Few == /\ Operations \ live \subseteq {Setup}
       /\ \A s \in Session : opOf[s] # Other

Alike == Permutations(Thread) \cup Permutations(Session)

=============================================================================
