--------------------------- MODULE MCSourceTasks ---------------------------
(***************************************************************************)
(* SourceTasks with jobs that import the same document, two worker         *)
(* processes and a two-tick lease.                                         *)
(***************************************************************************)
EXTENDS SourceTasks, TLC

CONSTANTS t1, t2, t3, s1, w1, w2, w3

MCSourceOf == [t \in Task |-> s1]

(* min(900, 30 * 2^(n-1)) seconds against a 180-second lease: the first    *)
(* retries wait less than a lease, and every wait is at least one tick.    *)
MCBackoff == [n \in 1..MaxAttempts |-> n]

Symmetry == Permutations(Worker) \cup Permutations(Task)
=============================================================================
