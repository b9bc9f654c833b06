---------------------------- MODULE MCControlLoop ----------------------------
(* Small instances of ControlLoop and its refinement for TLC. *)
EXTENDS SlotRefinement

CONSTANTS s1, s2

\* Nothing is paired yet.
NothingSaved == {[s \in Slots |-> Proximity]}

\* Slot 0 has a saved sensor.
FirstSaved == {[s \in Slots |-> IF s = 0 THEN s1 ELSE Proximity]}

\* Each slot has a saved sensor of its own.
BothSaved == {[s \in Slots |-> IF s = 0 THEN s1 ELSE s2]}

=============================================================================
