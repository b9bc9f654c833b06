------------------------ MODULE MCReconnectSchedule ------------------------
(* Bound: of the hunts that are under way at most one is older than one time
   unit when time goes on.                                                  *)
EXTENDS ReconnectSchedule

Young(i) == seen[i] = "OFF" \/ armedFor[i] <= 1

OneOld == \A i, j \in Slots : i # j => Young(i) \/ Young(j)
=============================================================================
