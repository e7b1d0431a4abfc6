-------------------------- MODULE MCQueueRecovery --------------------------
(***************************************************************************)
(* QueueRecovery beside the fleets and bodies of MCOutboxDelivery, with a  *)
(* one-off recovery task r1 and a second one r2 that overlaps it.          *)
(***************************************************************************)
EXTENDS QueueRecovery, MCOutboxDelivery

CONSTANTS r1, r2, dlq

RecoverySymmetry == Symmetry \cup Permutations(Recoverer)
=============================================================================
