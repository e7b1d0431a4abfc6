--------------------------- MODULE OutboxDelivery ---------------------------
(***************************************************************************)
(* The event plane: outbox rows and their relay (app/clhear/platform/      *)
(* events.py, routing.py), one queue per fleet with a dead-letter queue,   *)
(* and the worker loop (app/clhear/workers.py) that handles a message      *)
(* under the delivery ledger (app/clhear/l1/workflow.py) or defers it      *)
(* (app/clhear/platform/deferred.py).                                      *)
(*                                                                         *)
(* An L0 worker relays before every receive; the other fleets only         *)
(* receive.  Each database transaction and each call of SQS or EventBridge *)
(* is one action.  The relay's batch limit is not reached; the guard of    *)
(* the L1 cycles is module L1Cycle's, here it is one of the ways a handler *)
(* fails.                                                                  *)
(***************************************************************************)
EXTENDS Naturals, FiniteSets

CONSTANTS
    Event,        \* rows of l0_events, numbered by their id
    Stray,        \* bodies that reach a queue without an outbox row
    Kind,         \* routing.classify of a body, or "malformed"
    Consumers,    \* routing.consumers_for: the fleets that may consume it
    Subscribers,  \* the queues it is sent to: its owner's, or the bus rules'
    Held,         \* bodies of routing.DOWNSTREAM_HELD_KINDS
    Fleet,
    L0,           \* the fleet that relays
    Downstream,   \* the fleets paused while L1 is being accepted
    Worker,
    FleetOf,      \* FleetOf[w]: the fleet of worker w
    NoWorker,
    Hold,         \* whether CLHEAR_L1_ONLY is set at first
    MaxReceives,  \* the redrive limit of the queues
    MaxBodies,    \* bound: bodies that enter the plane
    MaxMessages,  \* bound: messages sent
    MaxReopens,   \* bound: rows the recovery of a cycle relays again
    MaxCrashes,   \* bound: processes that die
    MaxLapses     \* bound: leases and receipts that lapse in a live worker

Body == Event \cup Stray
Message == 1..MaxMessages
NoMessage == 0

ASSUME ConstantsAssumption ==
    /\ Event \subseteq Nat \ {0}
    /\ Event \cap Stray = {} /\ NoMessage \notin Stray
    /\ Kind \in [Body -> {"command", "layer", "audit", "unknown", "malformed"}]
    /\ Consumers \in [Body -> SUBSET Fleet]
    /\ Subscribers \in [Body -> SUBSET Fleet]
    /\ \A b \in Body :
        /\ Kind[b] = "command" => \E f \in Fleet : Consumers[b] = {f}
        /\ Kind[b] \notin {"command", "layer"} => Consumers[b] = {}
        /\ Kind[b] = "layer" => Consumers[b] \subseteq Subscribers[b]
    /\ \A e \in Event :
        /\ Kind[e] # "malformed"
        /\ Kind[e] = "command" => Subscribers[e] = Consumers[e]
    /\ Held \subseteq Body
    /\ L0 \in Fleet
    /\ Downstream \subseteq Fleet \ {L0}
    /\ FleetOf \in [Worker -> Fleet]
    /\ NoWorker \notin Worker
    /\ Hold \in BOOLEAN
    /\ {MaxReceives, MaxBodies, MaxMessages} \subseteq Nat \ {0}
    /\ {MaxReopens, MaxCrashes, MaxLapses} \subseteq Nat

(* What somebody has to handle: one delivery-ledger row per fleet.         *)
Duty == {d \in Fleet \X Body : d[1] \in Consumers[d[2]]}

VARIABLES
    (* l0_events, and what EventBridge has accepted and not yet delivered *)
    row, bus,
    (* messages: body, queue first sent to, where it is, receives, and    *)
    (* which are invisible                                                *)
    body, home, place, receives, inflight,
    (* worker_deliveries (completed, lease), runs, deferred_deliveries    *)
    done, lease, runs, ledger,
    (* worker processes: control, message in hand, rows left to relay,    *)
    (* those whose message has become visible to others, and those        *)
    (* started under CLHEAR_L1_ONLY                                       *)
    pc, hand, batch, stale, held,
    (* what bounds the environment *)
    reopens, crashes, lapses

queueVars == <<body, home, place, receives, inflight>>
deliveryVars == <<done, lease, runs>>
workerVars == <<pc, hand, batch, stale>>
boundVars == <<reopens, crashes, lapses>>
vars == <<row, bus, queueVars, deliveryVars, ledger, workerVars, held,
          boundVars>>

(* A ledger entry is keyed by channel, queue and message id; a message     *)
(* meets a dead-letter queue and one other.                                *)
Channel == {"sqs", "dlq"}
Status == {"none", "deferred", "quarantined", "rerouted"}

(* Every row, message and process is in the domain the code writes; a      *)
(* worker relays while rows are left, and has a message in hand after it   *)
(* received one.                                                           *)
TypeOK ==
    /\ row \in [Event -> {"absent", "open", "sent", "audit", "quarantined"}]
    /\ bus \subseteq Event \X Fleet
    /\ body \in [Message -> Body \cup {NoMessage}]
    /\ home \in [Message -> Fleet \cup {NoMessage}]
    /\ place \in [Message -> {"unsent", "queue", "dlq", "gone"}]
    /\ receives \in [Message -> 0..MaxReceives]
    /\ inflight \subseteq Message
    /\ done \subseteq Duty
    /\ lease \in [Duty -> Worker \cup {NoWorker}]
    /\ runs \in [Duty -> Nat]
    /\ ledger \in [Channel \X Message -> Status]
    /\ \A w \in Worker :
        /\ batch[w] # {} <=> pc[w] \in {"relay", "stamp"}
        /\ hand[w] = NoMessage <=> pc[w] \in {"loop", "relay", "stamp", "poll"}
    /\ pc \in [Worker -> {"loop", "relay", "stamp", "poll", "defer", "claim",
                          "work", "finish", "record", "ack"}]
    /\ hand \in [Worker -> Message \cup {NoMessage}]
    /\ batch \in [Worker -> SUBSET Event]
    /\ stale \subseteq Worker
    /\ held \subseteq Worker
    /\ reopens \in 0..MaxReopens
    /\ crashes \in 0..MaxCrashes
    /\ lapses \in 0..MaxLapses

(* Where a worker's iteration begins.                                      *)
Start(w) == IF FleetOf[w] = L0 THEN "loop" ELSE "poll"

Init ==
    /\ row = [e \in Event |-> "absent"]
    /\ bus = {}
    /\ body = [m \in Message |-> NoMessage]
    /\ home = [m \in Message |-> NoMessage]
    /\ place = [m \in Message |-> "unsent"]
    /\ receives = [m \in Message |-> 0]
    /\ inflight = {}
    /\ done = {}
    /\ lease = [d \in Duty |-> NoWorker]
    /\ runs = [d \in Duty |-> 0]
    /\ ledger = [k \in Channel \X Message |-> "none"]
    /\ pc = [w \in Worker |-> Start(w)]
    /\ hand = [w \in Worker |-> NoMessage]
    /\ batch = [w \in Worker |-> {}]
    /\ stale = {}
    /\ held = IF Hold THEN Worker ELSE {}
    /\ reopens = 0
    /\ crashes = 0
    /\ lapses = 0

-----------------------------------------------------------------------------
Goto(w, p) == pc' = [pc EXCEPT ![w] = p]

(* A new message with body b on the queue of fleet f.                      *)
Put(b, f) ==
    \E m \in Message :
        /\ place[m] = "unsent"
        /\ \A n \in Message : place[n] = "unsent" => m <= n
        /\ body' = [body EXCEPT ![m] = b]
        /\ home' = [home EXCEPT ![m] = f]
        /\ place' = [place EXCEPT ![m] = "queue"]
        /\ UNCHANGED <<receives, inflight>>

(* Body b may enter, or has entered.                                       *)
Entered == {e \in Event : row[e] # "absent"} \cup {body[m] : m \in Message}
Room(b) == Cardinality((Entered \cup {b}) \ {NoMessage}) <= MaxBodies

(* emit, with the commit of its caller.  Ids follow the inserts, rows      *)
(* become visible with the commits.                                        *)
Emit(e) ==
    /\ row[e] = "absent"
    /\ Room(e)
    /\ row' = [row EXCEPT ![e] = "open"]
    /\ UNCHANGED <<bus, queueVars, deliveryVars, ledger, workerVars, held,
                   boundVars>>

(* A schedule, an older release or a rule puts a body on a queue.          *)
Arrive(b, f) ==
    /\ b \in Stray
    /\ f \in Subscribers[b]
    /\ Room(b)
    /\ \A m \in Message : ~(body[m] = b /\ home[m] = f)
    /\ Put(b, f)
    /\ UNCHANGED <<row, bus, deliveryVars, ledger, workerVars, held, boundVars>>

(* _recover_commands of the L1 cycles: a command's row is unrelayed again. *)
Reopen(e) ==
    /\ row[e] = "sent"
    /\ Kind[e] = "command"
    /\ Consumers[e] \X {e} \cap done = {}
    /\ reopens < MaxReopens
    /\ reopens' = reopens + 1
    /\ row' = [row EXCEPT ![e] = "open"]
    /\ UNCHANGED <<bus, queueVars, deliveryVars, ledger, workerVars, held,
                   crashes, lapses>>

-----------------------------------------------------------------------------
(* relay_once.                                                             *)

Head(w) == CHOOSE e \in batch[w] : \A o \in batch[w] : e <= o

(* Mutant: the pass goes on after its last row.                            *)
AdvancePast(w) ==
    /\ batch' = [batch EXCEPT ![w] = @ \ {Head(w)}]
    /\ Goto(w, "relay")

(* The row at the head is disposed of; an empty batch ends the pass.       *)
Advance(w) ==
    /\ batch' = [batch EXCEPT ![w] = @ \ {Head(w)}]
    /\ Goto(w, IF batch[w] = {Head(w)} THEN "poll" ELSE "relay")

(* Stamps apply only to a row that is still unrelayed.                     *)
Stamped(e, disposition) ==
    row' = [row EXCEPT ![e] = IF @ = "open" THEN disposition ELSE @]

Unrelayed == {e \in Event : row[e] = "open"}

SelectRows(w) ==
    /\ FleetOf[w] = L0
    /\ pc[w] = "loop"
    /\ batch' = [batch EXCEPT ![w] = Unrelayed]
    /\ Goto(w, IF Unrelayed = {} THEN "poll" ELSE "relay")
    /\ UNCHANGED <<row, bus, queueVars, deliveryVars, ledger, hand, stale, held,
                   boundVars>>

(* Audit rows are stamped, unknown kinds recorded and stamped, in one      *)
(* transaction and without a send.                                         *)
Keep(w) ==
    /\ pc[w] = "relay"
    /\ Kind[Head(w)] \in {"audit", "unknown"}
    /\ Stamped(Head(w), IF Kind[Head(w)] = "audit" THEN "audit" ELSE "quarantined")
    /\ Advance(w)
    /\ UNCHANGED <<bus, queueVars, deliveryVars, ledger, hand, stale, held, boundVars>>

(* RoutedOutboxTransport.send: a command to its owner's queue, a layer     *)
(* event to the bus.                                                       *)
Send(w) ==
    /\ pc[w] = "relay"
    /\ \/ /\ Kind[Head(w)] = "command"
          /\ \E f \in Consumers[Head(w)] : Put(Head(w), f)
          /\ UNCHANGED bus
       \/ /\ Kind[Head(w)] = "layer"
          /\ bus' = bus \cup ({Head(w)} \X Subscribers[Head(w)])
          /\ UNCHANGED queueVars
    /\ Goto(w, "stamp")
    /\ UNCHANGED <<row, deliveryVars, ledger, hand, batch, stale, held, boundVars>>

(* Mutant: the transport's answer is not looked at.                        *)
RefuseIgnored(w) ==
    /\ pc[w] = "relay"
    /\ Kind[Head(w)] \in {"command", "layer"}
    /\ Goto(w, "stamp")
    /\ UNCHANGED <<row, bus, queueVars, deliveryVars, ledger, hand, batch,
                   stale, held, boundVars>>

(* The transport does not accept the row: the pass ends, and so does the   *)
(* iteration of the worker's loop.                                         *)
Refuse(w) ==
    /\ pc[w] = "relay"
    /\ Kind[Head(w)] \in {"command", "layer"}
    /\ batch' = [batch EXCEPT ![w] = {}]
    /\ Goto(w, "loop")
    /\ UNCHANGED <<row, bus, queueVars, deliveryVars, ledger, hand, stale, held,
                   boundVars>>

Stamp(w) ==
    /\ pc[w] = "stamp"
    /\ Stamped(Head(w), "sent")
    /\ Advance(w)
    /\ UNCHANGED <<bus, queueVars, deliveryVars, ledger, hand, stale, held, boundVars>>

(* A bus rule delivers to the queue of a subscribed fleet.                 *)
Deliver(e, f) ==
    /\ <<e, f>> \in bus
    /\ bus' = bus \ {<<e, f>>}
    /\ Put(e, f)
    /\ UNCHANGED <<row, deliveryVars, ledger, workerVars, held, boundVars>>

-----------------------------------------------------------------------------
(* main and handle_envelope.                                               *)

DutyOf(w) == <<FleetOf[w], body[hand[w]]>>

(* Mutant: the hold pauses every fleet.                                    *)
PausedHeld(w) == w \in held

Paused(w) == w \in held /\ FleetOf[w] \in Downstream

(* MalformedDelivery, L1AcceptanceHold, WrongFleet: not handled here.      *)
Deferred(w, b) ==
    \/ Kind[b] = "malformed"
    \/ w \in held /\ b \in Held
    \/ FleetOf[w] \notin Consumers[b]

Visible(m) == place[m] = "queue" /\ m \notin inflight

Receivable(w) ==
    {m \in Message : Visible(m) /\ home[m] = FleetOf[w] /\ receives[m] < MaxReceives}

(* A long poll that finds the queue empty.                                 *)
ReceiveNothing(w) ==
    /\ FleetOf[w] = L0
    /\ pc[w] = "poll"
    /\ Receivable(w) = {}
    /\ Goto(w, "loop")
    /\ UNCHANGED <<row, bus, queueVars, deliveryVars, ledger, hand, batch,
                   stale, held, boundVars>>

(* A receive, up to the read of the delivery's status.                     *)
Receive(w, m) ==
    /\ pc[w] = "poll"
    /\ ~Paused(w)
    /\ m \in Receivable(w)
    /\ receives' = [receives EXCEPT ![m] = @ + 1]
    /\ inflight' = inflight \cup {m}
    /\ hand' = [hand EXCEPT ![w] = m]
    /\ Goto(w, IF Deferred(w, body[m]) THEN "defer"
               ELSE IF <<FleetOf[w], body[m]>> \in done THEN "ack" ELSE "claim")
    /\ UNCHANGED <<row, bus, body, home, place, deliveryVars, ledger, batch,
                   stale, held, boundVars>>

(* The redrive policy moves a message that was received too often.         *)
Redrive(m) ==
    /\ Visible(m)
    /\ receives[m] = MaxReceives
    /\ place' = [place EXCEPT ![m] = "dlq"]
    /\ receives' = [receives EXCEPT ![m] = 0]
    /\ UNCHANGED <<row, bus, body, home, inflight, deliveryVars, ledger,
                   workerVars, held, boundVars>>

(* The worker goes on without the message, which stays on its queue.       *)
Drop(w) ==
    /\ Goto(w, Start(w))
    /\ hand' = [hand EXCEPT ![w] = NoMessage]
    /\ stale' = stale \ {w}

(* defer_message: once per queue and message id.                           *)
Record(m) ==
    ledger' = [ledger EXCEPT ![<<"sqs", m>>] =
        IF @ # "none" THEN @
        ELSE IF Kind[body[m]] \in {"unknown", "malformed"} THEN "quarantined"
        ELSE "deferred"]

(* Mutant: the ledger row is committed after the message is deleted.       *)
DeferLater(w) ==
    /\ pc[w] = "defer"
    /\ Goto(w, "ack")
    /\ UNCHANGED <<row, bus, queueVars, deliveryVars, ledger, hand, batch,
                   stale, held, boundVars>>

Defer(w) ==
    /\ pc[w] = "defer"
    /\ Record(hand[w])
    /\ Goto(w, "ack")
    /\ UNCHANGED <<row, bus, queueVars, deliveryVars, hand, batch, stale, held,
                   boundVars>>

(* claim_delivery: taken, completed meanwhile, or busy.                    *)
Claim(w) ==
    /\ pc[w] = "claim"
    /\ DutyOf(w) \notin done
    /\ lease[DutyOf(w)] = NoWorker
    /\ lease' = [lease EXCEPT ![DutyOf(w)] = w]
    /\ Goto(w, "work")
    /\ UNCHANGED <<row, bus, queueVars, done, runs, ledger, hand, batch, stale, held,
                   boundVars>>

ClaimCompleted(w) ==
    /\ pc[w] = "claim"
    /\ DutyOf(w) \in done
    /\ Goto(w, "ack")
    /\ UNCHANGED <<row, bus, queueVars, deliveryVars, ledger, hand, batch,
                   stale, held, boundVars>>

ClaimBusy(w) ==
    /\ pc[w] = "claim"
    /\ DutyOf(w) \notin done
    /\ lease[DutyOf(w)] # NoWorker
    /\ Drop(w)
    /\ UNCHANGED <<row, bus, queueVars, deliveryVars, ledger, batch, held,
                   boundVars>>

Succeed(w) ==
    /\ pc[w] = "work"
    /\ Goto(w, "finish")
    /\ UNCHANGED <<row, bus, queueVars, deliveryVars, ledger, hand, batch,
                   stale, held, boundVars>>

(* Mutant: a finish applies to the row whoever holds it.                   *)
OwnedByAnyone(w) == TRUE

(* finish_delivery applies to the lease its caller still holds.            *)
Owned(w) == lease[DutyOf(w)] = w

Finish(w) ==
    /\ pc[w] = "finish"
    /\ Owned(w)
    /\ done' = done \cup {DutyOf(w)}
    /\ lease' = [lease EXCEPT ![DutyOf(w)] = NoWorker]
    /\ Goto(w, "record")
    /\ UNCHANGED <<row, bus, queueVars, runs, ledger, hand, batch, stale, held,
                   boundVars>>

(* The insert into runs, a transaction of its own.                         *)
RecordRun(w) ==
    /\ pc[w] = "record"
    /\ runs' = [runs EXCEPT ![DutyOf(w)] = @ + 1]
    /\ Goto(w, "ack")
    /\ UNCHANGED <<row, bus, queueVars, done, lease, ledger, hand, batch, stale, held,
                   boundVars>>

(* The handler, its heartbeat, the finish or the insert raises: the        *)
(* failure is recorded if the lease still stands, the message retained.    *)
Fail(w) ==
    /\ pc[w] \in {"work", "finish", "record"}
    /\ lease' = [lease EXCEPT ![DutyOf(w)] = IF @ = w THEN NoWorker ELSE @]
    /\ Drop(w)
    /\ UNCHANGED <<row, bus, queueVars, done, runs, ledger, batch, held,
                   boundVars>>

(* The deferral, the phase guard, the claim or the delete raises: the      *)
(* message is retained.                                                    *)
Retain(w) ==
    /\ pc[w] \in {"defer", "claim", "ack"}
    /\ Drop(w)
    /\ UNCHANGED <<row, bus, queueVars, deliveryVars, ledger, batch, held,
                   boundVars>>

Acknowledge(w) ==
    /\ pc[w] = "ack"
    /\ place[hand[w]] = "queue"
    /\ place' = [place EXCEPT ![hand[w]] = "gone"]
    /\ inflight' = inflight \ {hand[w]}
    /\ Drop(w)
    /\ UNCHANGED <<row, bus, body, home, receives, deliveryVars, ledger, batch,
                   held, boundVars>>

-----------------------------------------------------------------------------
(* Timeouts, deaths, deployments.                                          *)

InHand(m) == \E w \in Worker \ stale : hand[w] = m

(* A message becomes visible again after its worker dropped it.            *)
Reappear(m) ==
    /\ m \in inflight
    /\ ~InHand(m)
    /\ inflight' = inflight \ {m}
    /\ UNCHANGED <<row, bus, body, home, place, receives, deliveryVars, ledger,
                   workerVars, held, boundVars>>

(* The lease of a delivery whose worker is gone runs out.                  *)
Executes(w, d) == hand[w] # NoMessage /\ DutyOf(w) = d /\ pc[w] \in {"work", "finish"}

ExpireLease(d) ==
    /\ lease[d] # NoWorker
    /\ ~Executes(lease[d], d)
    /\ lease' = [lease EXCEPT ![d] = NoWorker]
    /\ UNCHANGED <<row, bus, queueVars, done, runs, ledger, workerVars, held,
                   boundVars>>

(* The heartbeats of a live worker do not get through: its message is      *)
(* visible to others, or its delivery free to claim.                       *)
LapseMessage(w) ==
    /\ hand[w] # NoMessage
    /\ w \notin stale
    /\ lapses < MaxLapses
    /\ lapses' = lapses + 1
    /\ stale' = stale \cup {w}
    /\ inflight' = inflight \ {hand[w]}
    /\ UNCHANGED <<row, bus, body, home, place, receives, deliveryVars, ledger,
                   pc, hand, batch, held, reopens, crashes>>

LapseLease(d) ==
    /\ lease[d] # NoWorker
    /\ Executes(lease[d], d)
    /\ lapses < MaxLapses
    /\ lapses' = lapses + 1
    /\ lease' = [lease EXCEPT ![d] = NoWorker]
    /\ UNCHANGED <<row, bus, queueVars, done, runs, ledger, workerVars, held,
                   reopens, crashes>>

Restart(w) ==
    /\ pc' = [pc EXCEPT ![w] = Start(w)]
    /\ hand' = [hand EXCEPT ![w] = NoMessage]
    /\ batch' = [batch EXCEPT ![w] = {}]
    /\ stale' = stale \ {w}

Crash(w) ==
    /\ pc[w] \notin {"loop", "poll"}
    /\ crashes < MaxCrashes
    /\ crashes' = crashes + 1
    /\ Restart(w)
    /\ UNCHANGED <<row, bus, queueVars, deliveryVars, ledger, held, reopens,
                   lapses>>

(* A deployment without CLHEAR_L1_ONLY.                                    *)
LiftHold(w) ==
    /\ w \in held
    /\ held' = held \ {w}
    /\ Restart(w)
    /\ UNCHANGED <<row, bus, queueVars, deliveryVars, ledger, boundVars>>

-----------------------------------------------------------------------------
Relay(w) == SelectRows(w) \/ Keep(w) \/ Send(w) \/ Refuse(w) \/ Stamp(w)

Consume(w) ==
    \/ ReceiveNothing(w)
    \/ \E m \in Message : Receive(w, m)
    \/ Defer(w) \/ Claim(w) \/ ClaimCompleted(w) \/ ClaimBusy(w)
    \/ Succeed(w) \/ Finish(w) \/ RecordRun(w) \/ Fail(w)
    \/ Retain(w) \/ Acknowledge(w)

Ask ==
    \/ \E e \in Event : Emit(e) \/ Reopen(e)
    \/ \E b \in Stray, f \in Fleet : Arrive(b, f)

Transport ==
    \/ \E e \in Event, f \in Fleet : Deliver(e, f)
    \/ \E m \in Message : Redrive(m) \/ Reappear(m)

Break ==
    \/ \E d \in Duty : ExpireLease(d) \/ LapseLease(d)
    \/ \E w \in Worker : LapseMessage(w) \/ Crash(w) \/ LiftHold(w)

Next ==
    \/ Ask \/ Transport \/ Break
    \/ \E w \in Worker : Relay(w) \/ Consume(w)

Spec == Init /\ [][Next]_vars

(* Loops go on after a crash; the transport accepts a row it is offered    *)
(* again and again; the bus delivers; timeouts run out.  Nothing makes     *)
(* anyone emit, die or lift the hold.                                      *)
FairSpec ==
    /\ Spec
    /\ \A w \in Worker : WF_vars(Relay(w)) /\ SF_vars(Send(w)) /\ WF_vars(Consume(w))
    /\ \A e \in Event, f \in Fleet : WF_vars(Deliver(e, f))
    /\ \A m \in Message : WF_vars(Redrive(m)) /\ WF_vars(Reappear(m))
    /\ \A d \in Duty : WF_vars(ExpireLease(d))

-----------------------------------------------------------------------------
(* A command is the same duty on whatever queue it is; a layer event is    *)
(* one on the queue of each of its consumers.                              *)
Copies(d) ==
    {m \in Message : body[m] = d[2] /\ (Kind[d[2]] = "command" \/ home[m] = d[1])}

Asked(d) == IF d[2] \in Event THEN row[d[2]] # "absent" ELSE Copies(d) # {}

Carried(d) ==
    \/ d[2] \in Event /\ (row[d[2]] = "open" \/ <<d[2], d[1]>> \in bus)
    \/ \E m \in Copies(d) : place[m] \in {"queue", "dlq"}

Aside(d) ==
    \E m \in Copies(d), c \in Channel : ledger[<<c, m>>] \in {"deferred", "quarantined"}

Fate(d) ==
    IF d \in done THEN "done"
    ELSE IF Aside(d) THEN "aside"
    ELSE IF Asked(d) THEN "open" ELSE "unasked"

(* The event plane keeps the promise of EventLedger: no crash, refusal,    *)
(* redelivery or dead letter loses a duty that is neither completed nor in *)
(* the deferred ledger, and none takes a completion back.                  *)
Ledger == INSTANCE EventLedger WITH
    fate <- [d \in Duty |-> Fate(d)],
    carried <- {d \in Duty : Carried(d)}
LedgerSpec == Ledger!Spec

(* "Writes the exact message to the deferred-delivery ledger and only then *)
(* acknowledges it" (docs/L1_DEPLOYMENT.md): every message that has left   *)
(* its queue was completed by that queue's fleet or is in the ledger.      *)
Disposed ==
    \A m \in Message : place[m] = "gone" =>
        \/ <<home[m], body[m]>> \in done
        \/ \E c \in Channel : ledger[<<c, m>>] # "none"

(* A duty completes once: redeliveries, lapsed leases and second copies    *)
(* leave at most one run record, and one only of a completed delivery.     *)
RunOnce == \A d \in Duty : runs[d] <= 1 /\ (runs[d] = 1 => d \in done)

(* deployment_verification.py: "A recovered one-off task reuses            *)
(* successfully completed child events": the result of a completed         *)
(* delivery is in runs, or its worker is about to insert it.               *)
ResultKept ==
    \A d \in done : runs[d] = 1 \/ \E w \in Worker : pc[w] = "record" /\ DutyOf(w) = d

(* Every duty of a fleet that is not paused is completed, set aside or in  *)
(* the dead-letter queue some time after it is asked for.                  *)
DeadLettered(d) == \E m \in Copies(d) : place[m] = "dlq"

Settles ==
    \A d \in Duty : d[1] \notin Downstream =>
        (Asked(d) ~> (d \in done \/ Aside(d) \/ DeadLettered(d)))
=============================================================================
