--------------------------- MODULE MCDuoInflight ---------------------------
(* Small instances of DuoInflight for TLC.                                   *)
EXTENDS DuoInflight, TLC

CONSTANTS c1, c2, c3, k1, k2

ThreeCallers == {c1, c2, c3}
TwoKeys == {k1, k2}
Symmetry == Permutations(ThreeCallers) \cup Permutations(TwoKeys)
=============================================================================
