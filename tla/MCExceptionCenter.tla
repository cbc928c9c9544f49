-------------------------- MODULE MCExceptionCenter --------------------------
(* Two faults for TLC: a severe one that comes back after its first          *)
(* incident, and one that only the kiosk reports and any scan puts aside.    *)
EXTENDS ExceptionCenter

CONSTANTS severe, interrupted

Recurring == [f \in Fault |-> IF f = severe THEN 2 ELSE 1]
=============================================================================
