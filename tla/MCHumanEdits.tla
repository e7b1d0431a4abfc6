---------------------------- MODULE MCHumanEdits ----------------------------
(* Instances of HumanEdits for TLC.                                        *)
EXTENDS HumanEdits, TLC

CONSTANTS o1, t1, t2, v1, m1, m2, j1, j2

Symmetry == Permutations(Maintainer) \cup Permutations(Value)
=============================================================================
