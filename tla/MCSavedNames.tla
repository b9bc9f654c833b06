---------------------------- MODULE MCSavedNames ----------------------------
(* An instance of SavedNames for TLC. *)
EXTENDS SavedNames, TLC

CONSTANTS s1, s2

MCSensors == {s1, s2}
Symmetry == Permutations(MCSensors)

(* Bound: one slot at a time is in use, hunted, forgotten, or in doubt about its name;
   the others may be saved, and be looked at by any task. *)
InUse(i) == ~Free(i) \/ armed[i] \/ forgotten[i]
InDoubt(i) == raced[i] \/ (failed[i] /\ (saved[i] \/ key[i] # NoName))

OneInUse == \A i, j \in Slots : i # j => ~ \A k \in {i, j} : InUse(k) \/ InDoubt(k)
=============================================================================
