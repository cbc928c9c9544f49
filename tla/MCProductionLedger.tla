------------------------- MODULE MCProductionLedger -------------------------
(* Small factories for TLC.                                                *)
EXTENDS ProductionLedger, FiniteSets, TLC

CONSTANTS cut, weld, grind, bench, setup, far, P1, P2

Workers == Permutations(Session) \cup Permutations(Employee)
Rows    == Permutations(Session)

Triple(g, d, r) == [good |-> g, defect |-> d, rework |-> r]

(* One order, P1.  cut feeds weld with its good pieces and, in the larger    *)
(* factory, grind with the pieces repaired at the bench.  Defects of weld    *)
(* use up input, those of grind do not.                                      *)
FlowOps      == {cut, weld, bench}
RepairOps    == FlowOps \cup {grind}
LineKind     == [o \in Operation |-> IF o = bench THEN "REWORK" ELSE "PRODUCTION"]
LineOrderOf  == [o \in Operation |-> P1]
LineBench    == [o \in Operation |-> bench]
LineSource   == [o \in Operation |-> IF o \in {weld, grind} THEN cut ELSE NoOp]
LineInput    == [o \in Operation |-> IF o = grind THEN "REWORK" ELSE "GOOD"]
LineDefects  == [o \in Operation |-> o = weld]
LinePred     == [o \in Operation |-> NoOp]
OneReport    == {Triple(1, 1, 1)}

\* Bounds of the larger factory: one session, or the operation that feeds the
\* others, is set aside at a time, and a few repairs do.
FewSetAside ==
  LET cancelled == {o \in Operation : ops[o].status = "CANCELLED"} IN
  /\ cancelled \subseteq {cut}
  /\ Cardinality({s \in Session : sess[s].excluded} \cup cancelled) <= 1

FewResolved ==
  /\ SumFunction([s \in Session |-> sess[s].repaired + sess[s].scrap]) <= 2
  /\ SumFunction([s \in Session |-> sess[s].scrap]) <= 1

\* Bounds of the two orders: only their production operations are cancelled, and
\* one session at a time is excluded.
SupportStands ==
  \A o \in Operation : IsSupport(o) => ops[o].status # "CANCELLED"

OneExcluded == Cardinality({s \in Session : sess[s].excluded}) <= 1

\* Bound of the two orders: the operation form is saved for cut, and is under
\* way while one session at most exists and the other order rests.
FormOnCut ==
  \A c \in Clerk : form[c] # NoForm =>
     /\ form[c].op = cut
     /\ orders[P2].status = "PLANNED"
     /\ Cardinality({s \in Session : Exists(s)}) <= 1

(* Two orders.  P1 has cut, its machine setup, and the bench; P2 has far,    *)
(* which follows nothing.                                                    *)
OrderOps     == {cut, setup, bench, far}
PairKind     == (cut :> "PRODUCTION") @@ (setup :> "SETUP")
                @@ (bench :> "REWORK") @@ (far :> "PRODUCTION")
PairOrderOf  == [o \in Operation |-> IF o = far THEN P2 ELSE P1]
NoSource     == [o \in Operation |-> NoOp]
AllGood      == [o \in Operation |-> "GOOD"]
NoDefects    == [o \in Operation |-> FALSE]
PlainReport  == {Triple(1, 0, 0)}
=============================================================================
