-------------------------- MODULE MCConnectPromises --------------------------
(* Small instances of ConnectPromises for TLC. *)
EXTENDS ConnectPromises

CONSTANTS s1, s2

\* Slot 0 has a saved sensor.
FirstSaved == {[s \in Slots |-> IF s = 0 THEN s1 ELSE Proximity]}

=============================================================================
