---------------------------- MODULE MCL1Cycle ----------------------------
(* Instances of L1Cycle for TLC.                                           *)
EXTENDS L1Cycle, TLC

(* No unchanged repeat is chained.                                         *)
NoRepeat == [c \in Manual |-> NoCycle]

(* The cycle first asks for repeat once it ends well.                      *)
CONSTANTS first, repeat
Repeat == [c \in Manual |-> IF c = first THEN repeat ELSE NoCycle]

Symmetry == Permutations(Worker) \cup Permutations(Adapter)

(* Without a chained repeat, manual cycles and coordinators are alike too. *)
QueueSymmetry ==
    Symmetry \cup Permutations(Manual) \cup Permutations(Coordinator)
=============================================================================
