--------------------------- MODULE MCContributions ---------------------------
(* Instances of Contributions for TLC.                                     *)
EXTENDS Contributions, TLC

CONSTANTS a, m, r

(* People who are not configured as maintainers differ in nothing.         *)
PersonSymmetry == Permutations(Person \ Maintainer)
=============================================================================
