---------------------------- MODULE EventLedger ----------------------------
(***************************************************************************)
(* What the outbox, the queues, the delivery ledger and the deferred       *)
(* ledger promise together.  A duty is one event one fleet has to handle.  *)
(* From the moment it is asked for, a duty is done, or set aside where an  *)
(* operator finds it, or still carried by something that will bring it to  *)
(* its fleet; and once done it stays done.  Nothing here mentions rows,    *)
(* messages, leases or receives: those are how app/clhear/platform keeps   *)
(* the promise (modules OutboxDelivery and QueueRecovery).                 *)
(***************************************************************************)

CONSTANT Duty

VARIABLES
    fate,       \* fate[d]: "unasked", "open", "aside" or "done"
    carried     \* the duties that a row or a message still carries

vars == <<fate, carried>>

Init ==
    /\ fate = [d \in Duty |-> "unasked"]
    /\ carried = {}

(* The fates a duty may have next.                                         *)
After(f) ==
    CASE f = "unasked" -> {"unasked", "open"}
      [] f = "open"    -> {"open", "aside", "done"}
      [] f = "aside"   -> {"aside", "open", "done"}
      [] f = "done"    -> {"done"}

(* Several duties may move in one step, each of them on its own terms.     *)
Next ==
    /\ fate' \in [Duty -> {"unasked", "open", "aside", "done"}]
    /\ carried' \subseteq Duty
    /\ \A d \in Duty :
        /\ fate'[d] \in After(fate[d])
        /\ fate'[d] = "open" => d \in carried'
        /\ fate'[d] = "unasked" => d \notin carried'

Spec == Init /\ [][Next]_vars
=============================================================================
