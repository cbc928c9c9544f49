----------------------------- MODULE IncidentLog -----------------------------
(*************************************************************************)
(* What the exception center promises of its records: the incidents of   *)
(* one fault follow each other, the next is raised only when the one     *)
(* before is decided, a decision is never taken back, and an incident of *)
(* a severe fault is put aside by a person only.                         *)
(*************************************************************************)
EXTENDS Sequences, Naturals

CONSTANTS
  Fault,    \* an anomaly of one session
  Severe    \* the faults only a person may put aside

VARIABLE log   \* the incidents of each fault, oldest first

Undecided == {"OPEN", "ACKNOWLEDGED"}
ByPerson  == {"RESOLVED", "MANUAL_IGNORED"}
Latest(f) == log[f][Len(log[f])]
Pending(f) == log[f] # <<>> /\ Latest(f) \in Undecided

LInit == log = [f \in Fault |-> <<>>]

\* One fault has a new incident.
Raised(f) == ~Pending(f) /\ log'[f] = Append(log[f], "OPEN")

\* The pending incident of a fault gets a new status.
Becomes(f, status) == Pending(f) /\ log'[f] = [log[f] EXCEPT ![Len(log[f])] = status]

Noted(f)    == Becomes(f, "ACKNOWLEDGED") /\ Latest(f) = "OPEN"
Settled(f)  == \E status \in ByPerson : Becomes(f, status)
PutAside(f) == Becomes(f, "AUTO_IGNORED") /\ f \notin Severe

\* One look at the factory may raise and put aside several at once.
LNext == \A f \in Fault :
  log'[f] = log[f] \/ Raised(f) \/ Noted(f) \/ Settled(f) \/ PutAside(f)

LSpec == LInit /\ [][LNext]_log
=============================================================================
