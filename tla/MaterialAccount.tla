-------------------------- MODULE MaterialAccount --------------------------
(*************************************************************************)
(* What the production ledger promises of material: every operation has  *)
(* an account of the pieces it made and of those that operations         *)
(* downstream have drawn, and nobody draws what is not in stock.         *)
(*************************************************************************)
EXTENDS Naturals

CONSTANT Operation

VARIABLES
  stock,  \* pieces each operation made, and how many of them were repaired
  drawn   \* pieces drawn on each operation, and how many as repaired ones

avars == <<stock, drawn>>

Pool    == {"all", "repaired"}
Account == [Pool -> Nat]
Empty   == [k \in Pool |-> 0]

AInit ==
  /\ stock = [o \in Operation |-> Empty]
  /\ drawn = [o \in Operation |-> Empty]

\* Work is booked on operation at, anew or moved there from operation left: the
\* stock of these two is written afresh.  It may draw on one other operation,
\* from, within what that had in stock; what it drew before goes back.
Book(left, at, from) ==
  /\ \A o \in Operation \ {left, at} : stock'[o] = stock[o]
  /\ \A o \in Operation, k \in Pool :
       drawn'[o][k] > drawn[o][k] =>
          o = from /\ o # at /\ drawn'[o][k] <= stock[o][k]
  /\ stock' \in [Operation -> Account]
  /\ drawn' \in [Operation -> Account]

ANext == \E left, at, from \in Operation : Book(left, at, from)

ASpec == AInit /\ [][ANext]_avars
=============================================================================
