--------------------------- MODULE EventDelivery ---------------------------
(***************************************************************************)
(* What offline synchronisation promises of the events a kiosk recorded    *)
(* while it was cut off: each takes effect at most once, the end of a      *)
(* piece of work only after its start, and the device forgets an event     *)
(* only when it took effect or the server has it on record for good.       *)
(***************************************************************************)
EXTENDS Naturals

CONSTANT Work   \* pieces of work recorded offline, each a START and a FINISH

Event == Work \X {"START", "FINISH"}

\* The START of the work an event belongs to.
StartOf(e) == <<e[1], "START">>

VARIABLES
  times,   \* how often each event took effect
  onFile,  \* events the server has on record
  kept     \* events the device still holds

dvars == <<times, onFile, kept>>

DInit ==
  /\ times = [e \in Event |-> 0]
  /\ onFile = {}
  /\ kept = Event

TakeEffect(e) ==
  /\ times[e] = 0
  /\ e[2] = "FINISH" => times[StartOf(e)] = 1
  /\ times' = [times EXCEPT ![e] = 1]
  /\ UNCHANGED <<onFile, kept>>

File(e) ==
  /\ onFile' = onFile \cup {e}
  /\ UNCHANGED <<times, kept>>

Forget(e) ==
  /\ times[e] = 1 \/ e \in onFile
  /\ kept' = kept \ {e}
  /\ UNCHANGED <<times, onFile>>

DNext == \E e \in Event : TakeEffect(e) \/ File(e) \/ Forget(e)

DSpec == DInit /\ [][DNext]_dvars
=============================================================================
