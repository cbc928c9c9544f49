---------------------------- MODULE MCOfflineSync ----------------------------
(* One piece of work for TLC; two threads let a retransmission overtake the  *)
(* request it repeats, and the bound on the tries is low enough to reach.    *)
EXTENDS OfflineSync

AnyEvent   == Event
StartsOnly == {e \in Event : ~IsFinish(e)}
==============================================================================
