---------------------------- MODULE MCSessionTimes ----------------------------
(* Two days of five ticks with a day shift, a shift that crosses midnight   *)
(* and a gap between them; one worker on two operations.  The operations    *)
(* are alike, so that session 1 is made on a.                               *)
EXTENDS SessionTimes

CONSTANTS a, b, worker

DayAndNight == {
  [opens |-> 2, ends |-> 3, crosses |-> FALSE, weekdays |-> {0}, rank |-> 0],
  [opens |-> 4, ends |-> 6, crosses |-> TRUE, weekdays |-> {1}, rank |-> 1]}

FirstOnA == Exists(1) \/ ~Exists(1)' \/ rows'[1].operation = a

MCSpec == Init /\ [][Next /\ FirstOnA]_vars /\ WF_vars(FindCandidates) /\ WF_vars(AutoCloseNext)
=============================================================================
