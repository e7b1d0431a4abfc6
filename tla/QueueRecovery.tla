--------------------------- MODULE QueueRecovery ---------------------------
(***************************************************************************)
(* The bounded recovery of the fleet queues and the dead-letter queue      *)
(* (app/clhear/platform/queue_recovery.py) beside the running event plane  *)
(* of OutboxDelivery.  A pass receives a batch from one queue, leaves the  *)
(* commands their owner will consume, gives the others a disposition in    *)
(* one transaction that also sends commands home, commits it, and only     *)
(* then deletes them.  It may stop or die anywhere; each batch is a pass   *)
(* of its own here, since nothing but counts goes from one to the next.    *)
(***************************************************************************)
EXTENDS OutboxDelivery

CONSTANTS
    Recoverer,    \* recovery tasks
    Reference,    \* events too large for a queue, sent as outbox references
    DeadLetters,  \* the name of the dead-letter queue
    MaxBatch,     \* RECEIVE_BATCH
    MaxPasses     \* bound: batches received

ASSUME RecoveryAssumption ==
    /\ Recoverer \cap Worker = {}
    /\ Reference \subseteq Event
    /\ DeadLetters \notin Fleet
    /\ MaxBatch \in Nat \ {0}
    /\ MaxPasses \in Nat

VARIABLES
    rpc,      \* rpc[r]: "idle", "tx" in the transaction, "delete" after it
    channel,  \* of the queue the batch came from
    todo,     \* messages without a disposition yet, or not yet deleted
    draft,    \* what became of the batch's messages, uncommitted
    holding,  \* hold_downstream of the pass
    passes

recoveryVars == <<rpc, channel, todo, draft, holding, passes>>
allVars == <<vars, recoveryVars>>

Entry == {"deferred", "quarantined", "rerouted"}

(* A drafted message has its entry's status, or was sent home again and    *)
(* its entry, there before, is not updated yet.                            *)
Draft == Entry \cup {"sent"}

Drafted(r) == {d[1] : d \in draft[r]}

(* Messages whose entries r has yet to update.                             *)
Unresolved(r) == {m \in todo[r] : <<m, "sent">> \in draft[r]}

(* A recovery has messages in hand from its receive to its last delete,    *)
(* drafts only those, and updates only entries that were there.            *)
RecoveryTypeOK ==
    /\ rpc \in [Recoverer -> {"idle", "tx", "delete"}]
    /\ channel \in [Recoverer -> Channel]
    /\ todo \in [Recoverer -> SUBSET Message]
    /\ draft \in [Recoverer -> SUBSET (Message \X Draft)]
    /\ holding \in [Recoverer -> BOOLEAN]
    /\ passes \in 0..MaxPasses
    /\ \A r \in Recoverer :
        /\ todo[r] = {} <=> rpc[r] = "idle"
        /\ Drafted(r) # {} => rpc[r] = "tx" /\ Drafted(r) \subseteq todo[r]
        /\ \A m \in Unresolved(r) : ledger[<<channel[r], m>>] # "none"

RecoveryInit ==
    /\ Init
    /\ rpc = [r \in Recoverer |-> "idle"]
    /\ channel = [r \in Recoverer |-> "sqs"]
    /\ todo = [r \in Recoverer |-> {}]
    /\ draft = [r \in Recoverer |-> {}]
    /\ holding = [r \in Recoverer |-> FALSE]
    /\ passes = 0

-----------------------------------------------------------------------------
(* classify_message.                                                       *)
Disposition(b) ==
    CASE b \in Reference \/ Kind[b] \in {"malformed", "unknown"} -> "quarantined"
      [] Kind[b] = "command" /\ b \notin Reference /\ b \notin Held -> "rerouted"
      [] OTHER -> "deferred"

(* Mutant: a pass takes whatever it received.                              *)
OwnedHereNever(b, q) == FALSE

(* _owned_here: a command on the queue of the fleet that owns it.          *)
OwnedHere(b, q) == Disposition(b) = "rerouted" /\ q \in Consumers[b]

(* recover's disposition: a held command goes home too once the hold is    *)
(* lifted; a layer event has no owner to go to.                            *)
Decided(b, hold) ==
    IF Kind[b] = "command" /\ Disposition(b) = "deferred" /\ ~hold
    THEN "rerouted" ELSE Disposition(b)

(* The messages a receive from queue q can return.                         *)
Waiting(q) ==
    {m \in Message \ inflight :
        IF q = DeadLetters THEN place[m] = "dlq"
        ELSE place[m] = "queue" /\ home[m] = q /\ receives[m] < MaxReceives}

(* Mutant: a batch of owned messages only is handled like another.         *)
NothingLeftNever(S, q) == FALSE

(* The batch holds owned messages only.                                    *)
NothingLeft(S, q) == \A m \in S : OwnedHere(body[m], q)

(* A receive from q, of which the owned messages are left alone: they stay *)
(* invisible for a while and have spent a receive.                         *)
Pull(r, q, S) ==
    /\ rpc[r] = "idle"
    /\ passes < MaxPasses
    /\ S \subseteq Waiting(q)
    /\ S # {} /\ Cardinality(S) <= MaxBatch
    /\ passes' = passes + 1
    /\ inflight' = inflight \cup S
    /\ receives' = [m \in Message |->
            IF m \in S /\ q # DeadLetters THEN receives[m] + 1 ELSE receives[m]]
    /\ todo' = [todo EXCEPT ![r] = {m \in S : ~OwnedHere(body[m], q)}]
    /\ rpc' = [rpc EXCEPT ![r] = IF NothingLeft(S, q) THEN "idle" ELSE "tx"]
    /\ channel' = [channel EXCEPT ![r] = IF q = DeadLetters THEN "dlq" ELSE "sqs"]
    /\ holding' = [holding EXCEPT ![r] = \E w \in held : FleetOf[w] = L0]
    /\ UNCHANGED <<row, bus, body, home, place, deliveryVars, ledger,
                   workerVars, held, boundVars, draft>>

Recorded(r, m) == ledger[<<channel[r], m>>]

(* An insert waits for another transaction's uncommitted insert of the     *)
(* same key; an entry that is there is read without waiting.               *)
Free(c, m) ==
    ledger[<<c, m>>] = "none" =>
        \A r \in Recoverer : channel[r] = c => m \notin Drafted(r)

(* Mutant: a message with any entry counts as sent home.                   *)
GoesHomeNew(r, m) ==
    Decided(body[m], holding[r]) = "rerouted" /\ Recorded(r, m) = "none"

(* A message whose entry says rerouted has been sent home before.          *)
GoesHome(r, m) ==
    Decided(body[m], holding[r]) = "rerouted" /\ Recorded(r, m) # "rerouted"

(* record and what follows it for one message of the batch: the ledger     *)
(* insert, and the send of a command that goes home, which no rollback     *)
(* takes back.                                                             *)
Dispose(r, m) ==
    LET goes == GoesHome(r, m)
        new == Recorded(r, m) = "none"
        becomes == IF goes /\ ~new THEN "sent" ELSE Decided(body[m], holding[r])
    IN
    /\ rpc[r] = "tx"
    /\ Unresolved(r) = {}
    /\ m \in todo[r] \ Drafted(r)
    /\ Free(channel[r], m)
    /\ draft' = [draft EXCEPT ![r] = @ \cup {<<m, becomes>>}]
    /\ IF goes
       THEN \E f \in Consumers[body[m]] : Put(body[m], f)
       ELSE UNCHANGED queueVars
    /\ UNCHANGED <<row, bus, deliveryVars, ledger, workerVars, held, boundVars,
                   rpc, channel, todo, holding, passes>>

(* resolve: the update of an entry that was there waits, after the send,   *)
(* for another transaction's update of the same row.                       *)
Resolve(r, m) ==
    /\ m \in Unresolved(r)
    /\ \A s \in Recoverer : channel[s] = channel[r] /\ <<m, "rerouted">> \in draft[s]
                               => Recorded(r, m) = "rerouted"
    /\ draft' = [draft EXCEPT ![r] = (@ \ {<<m, "sent">>}) \cup {<<m, "rerouted">>}]
    /\ UNCHANGED <<vars, rpc, channel, todo, holding, passes>>

(* The commit: new entries are inserted, an entry that was there keeps its *)
(* status unless its message went home.                                    *)
Commit(r) ==
    /\ rpc[r] = "tx"
    /\ Drafted(r) = todo[r] /\ Unresolved(r) = {}
    /\ ledger' = [k \in Channel \X Message |->
            IF k[1] = channel[r] /\ <<k[2], "rerouted">> \in draft[r] THEN "rerouted"
            ELSE IF k[1] = channel[r] /\ k[2] \in Drafted(r) /\ ledger[k] = "none"
                 THEN (CHOOSE d \in draft[r] : d[1] = k[2])[2]
            ELSE ledger[k]]
    /\ draft' = [draft EXCEPT ![r] = {}]
    /\ rpc' = [rpc EXCEPT ![r] = "delete"]
    /\ UNCHANGED <<row, bus, queueVars, deliveryVars, workerVars, held,
                   boundVars, channel, todo, holding, passes>>

(* Mutant: messages are deleted while the transaction is open.             *)
CommittedOrNot(r) == rpc[r] \in {"tx", "delete"}

Committed(r) == rpc[r] = "delete"

(* The delete of one message, which may fail, or come too late.            *)
Remove(r, m) ==
    /\ Committed(r)
    /\ m \in todo[r]
    /\ todo' = [todo EXCEPT ![r] = @ \ {m}]
    /\ rpc' = [rpc EXCEPT ![r] = IF todo[r] = {m} THEN "idle" ELSE @]
    /\ \/ /\ place[m] = IF channel[r] = "dlq" THEN "dlq" ELSE "queue"
          /\ place' = [place EXCEPT ![m] = "gone"]
          /\ inflight' = inflight \ {m}
       \/ UNCHANGED <<place, inflight>>
    /\ UNCHANGED <<row, bus, body, home, receives, deliveryVars, ledger,
                   workerVars, held, boundVars, channel, draft, holding,
                   passes>>

(* The task dies, is interrupted or fails: its transaction is rolled back. *)
Abandon(r) ==
    /\ rpc[r] # "idle"
    /\ rpc' = [rpc EXCEPT ![r] = "idle"]
    /\ todo' = [todo EXCEPT ![r] = {}]
    /\ draft' = [draft EXCEPT ![r] = {}]
    /\ UNCHANGED <<vars, channel, holding, passes>>

-----------------------------------------------------------------------------
(* A worker's insert into the deferred ledger waits for the recovery's.    *)
Undisturbed == \A w \in Worker : pc[w] = "defer" /\ pc'[w] = "ack" => Free("sqs", hand[w])

Recover(r) ==
    \/ \E q \in Fleet \cup {DeadLetters}, S \in SUBSET Message : Pull(r, q, S)
    \/ \E m \in Message : Dispose(r, m) \/ Resolve(r, m) \/ Remove(r, m)
    \/ Commit(r) \/ Abandon(r)

RecoveryNext ==
    \/ Next /\ Undisturbed /\ UNCHANGED recoveryVars
    \/ \E r \in Recoverer : Recover(r)

RecoverySpec == RecoveryInit /\ [][RecoveryNext]_allVars

-----------------------------------------------------------------------------
(* "A valid command already on its owner's queue is the owner's to         *)
(* consume: leave it untouched": such a message leaves its queue when it   *)
(* has been handled, or for the dead-letter queue.  An outbox reference to *)
(* a command is no valid command here: classify_message quarantines every  *)
(* reference, from its owner's queue too.                                  *)
LeftForOwner ==
    [][ \A m \in Message :
          /\ place[m] = "queue" /\ place'[m] = "gone"
          /\ Kind[body[m]] = "command" /\ body[m] \notin Held \cup Reference
          /\ home[m] \in Consumers[body[m]]
          => <<home[m], body[m]>> \in done ]_allVars
=============================================================================
