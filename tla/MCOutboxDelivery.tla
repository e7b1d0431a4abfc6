-------------------------- MODULE MCOutboxDelivery --------------------------
(***************************************************************************)
(* OutboxDelivery with fleets l0, l1, l2 and l7.  Event 1 is a command of  *)
(* l1, event 2 a layer event that the bus brings to l2 and to l7, which    *)
(* does not consume it, event 3 an audit row, event 4 of an unknown kind,  *)
(* and event 5 a held command of l0.  The stray body s1 is a scheduled     *)
(* command of l1 that is also put on l0's queue, s2 a malformed body.      *)
(***************************************************************************)
EXTENDS OutboxDelivery, TLC

CONSTANTS l0, l1, l2, l7, s1, s2, z0, z1, z2, z7, y0, y1

MCKind == [b \in Body |->
    CASE b \in {1, 5, s1} -> "command"
      [] b = 2 -> "layer"
      [] b = 3 -> "audit"
      [] b = 4 -> "unknown"
      [] b = s2 -> "malformed"]

MCConsumers == [b \in Body |->
    CASE b \in {1, s1} -> {l1}
      [] b = 2 -> {l2}
      [] b = 5 -> {l0}
      [] b \in {3, 4, s2} -> {}]

MCSubscribers == [b \in Body |->
    CASE b = 1 -> {l1}
      [] b = 2 -> {l2, l7}
      [] b = 5 -> {l0}
      [] b = s1 -> {l0, l1}
      [] b = s2 -> {l1}
      [] b \in {3, 4} -> {}]

MCHeld == {2, 5} \cap Body

MCFleetOf == [w \in Worker |->
    CASE w \in {z0, y0} -> l0
      [] w \in {z1, y1} -> l1
      [] w = z2 -> l2
      [] w = z7 -> l7]

Symmetry ==
    Permutations(Worker \cap {z0, y0}) \cup Permutations(Worker \cap {z1, y1})
=============================================================================
