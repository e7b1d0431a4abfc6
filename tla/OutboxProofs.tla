--------------------------- MODULE OutboxProofs ---------------------------
(***************************************************************************)
(* For any events, stray bodies, fleets and workers, and any bounds: the   *)
(* event plane keeps its messages, rows and deliveries well formed, no     *)
(* message leaves its queue undisposed of, a duty completes once, and the  *)
(* plane implements EventLedger.                                           *)
(*                                                                         *)
(* A duty once carried by a copy stays accounted for: the copy is on a     *)
(* queue, or it is gone and then completed or in the deferred ledger.  A   *)
(* ledger entry may also say that its message was sent home again.  Then   *)
(* there is a later copy, and the last copy of all has no such entry.      *)
(***************************************************************************)
EXTENDS OutboxDelivery, WellFoundedInduction, TLAPS

(* Messages are sent in their order; what is sent has a body that entered. *)
MessageInv ==
    /\ \A m \in Message :
          IF place[m] = "unsent"
          THEN body[m] = NoMessage /\ \A c \in Channel : ledger[<<c, m>>] = "none"
          ELSE /\ body[m] \in Body /\ home[m] \in Fleet
               /\ body[m] \in Event => row[body[m]] # "absent"
    /\ \A m, n \in Message : place[n] # "unsent" /\ m < n => place[m] # "unsent"

(* The row of e has been given to the transport.                           *)
Given(e) ==
    \A d \in Duty : d[2] = e => Copies(d) # {} \/ <<e, d[1]>> \in bus

RowInv ==
    /\ \A e \in Event :
          /\ row[e] = "sent" => Given(e)
          /\ row[e] \in {"audit", "quarantined"} => Kind[e] \in {"audit", "unknown"}
    /\ \A x \in bus : row[x[1]] # "absent"

RelayInv(w) ==
    /\ \A e \in batch[w] : row[e] # "absent"
    /\ pc[w] = "stamp" => Given(Head(w))

(* What a worker has in hand, and why it may go on as it does.             *)
HandInv(w) ==
    /\ hand[w] # NoMessage => place[hand[w]] # "unsent" /\ home[hand[w]] = FleetOf[w]
    /\ pc[w] \in {"claim", "work", "finish", "record"} => DutyOf(w) \in Duty
    /\ pc[w] = "ack" => DutyOf(w) \in done \/ ledger[<<"sqs", hand[w]>>] # "none"
    /\ pc[w] = "record" => DutyOf(w) \in done /\ runs[DutyOf(w)] = 0

OneRecorder ==
    \A v, w \in Worker :
        pc[v] = "record" /\ pc[w] = "record" /\ DutyOf(v) = DutyOf(w) => v = w

LeaseInv == \A d \in Duty : lease[d] # NoWorker => d \notin done

(* A message sent home has a later copy; what is completed had a copy.     *)
CopyInv ==
    /\ \A m \in Message, c \in Channel : ledger[<<c, m>>] = "rerouted" =>
          /\ Kind[body[m]] = "command"
          /\ \E n \in Message : m < n /\ body[n] = body[m]
    /\ \A d \in done : Copies(d) # {}

IInv ==
    /\ TypeOK
    /\ MessageInv
    /\ RowInv
    /\ \A w \in Worker : RelayInv(w) /\ HandInv(w)
    /\ OneRecorder
    /\ LeaseInv
    /\ CopyInv
    /\ Disposed
    /\ RunOnce

-----------------------------------------------------------------------------
(* Numbers, constants, and what a worker's batch begins with.              *)
LEMMA LeastElement ==
    ASSUME NEW S \in SUBSET Nat, S # {}
    PROVE  \E m \in S : \A n \in S : m <= n
<1> DEFINE R == {ss \in Nat \X Nat : ss[1] < ss[2]}
<1>1. IsWellFoundedOn(R, Nat)
  BY NatLessThanWellFounded, Zenon DEF OpToRel
<1>2. PICK m \in S : \A n \in S : ~(<<n, m>> \in R)
  BY <1>1, WFMin, Zenon
<1>3. \A n \in S : ~(n < m)
  BY <1>2
<1> QED
  BY <1>3

LEMMA GreatestMessage ==
    ASSUME NEW S \in SUBSET Message, S # {}
    PROVE  \E m \in S : \A n \in S : n <= m
<1>1. MaxMessages \in Nat
  BY ConstantsAssumption
<1> DEFINE D == {MaxMessages - m : m \in S}
<1>2. D \in SUBSET Nat /\ D # {}
  <2>1. \A m \in S : MaxMessages - m \in Nat
    BY <1>1 DEF Message
  <2> QED
    BY <2>1
<1>3. PICK k \in D : \A j \in D : k <= j
  BY <1>2, LeastElement
<1>4. PICK m \in S : k = MaxMessages - m
  BY <1>3
<1>5. \A n \in S : MaxMessages - m <= MaxMessages - n
  BY <1>3, <1>4
<1> QED
  BY <1>1, <1>4, <1>5 DEF Message

LEMMA Messages ==
    /\ Message \subseteq Nat \ {0} /\ NoMessage \notin Message
    /\ NoMessage \notin Body /\ Event \subseteq Body
BY ConstantsAssumption DEF Message, NoMessage, Body

(* A command has one consumer; audit and unknown events have none.         *)
LEMMA Consumed ==
    ASSUME NEW b \in Body
    PROVE  /\ Consumers[b] \subseteq Fleet
           /\ \A f, g \in Consumers[b] : Kind[b] = "command" => f = g
           /\ \A f \in Consumers[b] : Kind[b] \in {"command", "layer"}
BY ConstantsAssumption

LEMMA Duties ==
    ASSUME NEW d \in Duty
    PROVE  d[1] \in Fleet /\ d[2] \in Body /\ d[1] \in Consumers[d[2]] /\ d = <<d[1], d[2]>>
BY DEF Duty

LEMMA IsDuty ==
    ASSUME NEW f \in Fleet, NEW b \in Body, f \in Consumers[b]
    PROVE  <<f, b>> \in Duty
BY DEF Duty

LEMMA HeadOfBatch ==
    ASSUME TypeOK, NEW w \in Worker, pc[w] \in {"relay", "stamp"}
    PROVE  Head(w) \in batch[w] /\ Head(w) \in Event
<1>1. batch[w] # {} /\ batch[w] \subseteq Event /\ batch[w] \in SUBSET Nat
  BY ConstantsAssumption DEF TypeOK
<1>2. \E e \in batch[w] : \A o \in batch[w] : e <= o
  BY <1>1, LeastElement
<1> QED
  BY <1>1, <1>2 DEF Head

-----------------------------------------------------------------------------
(* Type correctness by groups of variables.                                *)
StoreTypes ==
    /\ row \in [Event -> {"absent", "open", "sent", "audit", "quarantined"}]
    /\ bus \subseteq Event \X Fleet
    /\ body \in [Message -> Body \cup {NoMessage}]
    /\ home \in [Message -> Fleet \cup {NoMessage}]
    /\ place \in [Message -> {"unsent", "queue", "dlq", "gone"}]
    /\ done \subseteq Duty
    /\ runs \in [Duty -> Nat]
    /\ ledger \in [Channel \X Message -> Status]

LooseTypes ==
    /\ receives \in [Message -> 0..MaxReceives]
    /\ inflight \subseteq Message
    /\ lease \in [Duty -> Worker \cup {NoWorker}]
    /\ reopens \in 0..MaxReopens
    /\ crashes \in 0..MaxCrashes
    /\ lapses \in 0..MaxLapses

WorkTypes ==
    /\ pc \in [Worker -> {"loop", "relay", "stamp", "poll", "defer", "claim",
                          "work", "finish", "record", "ack"}]
    /\ hand \in [Worker -> Message \cup {NoMessage}]
    /\ batch \in [Worker -> SUBSET Event]
    /\ stale \subseteq Worker
    /\ held \subseteq Worker

PlaceOK(w) ==
    /\ batch[w] # {} <=> pc[w] \in {"relay", "stamp"}
    /\ hand[w] = NoMessage <=> pc[w] \in {"loop", "relay", "stamp", "poll"}

LEMMA TypeGroups ==
    TypeOK <=> /\ StoreTypes /\ LooseTypes /\ WorkTypes
               /\ \A w \in Worker : PlaceOK(w)
BY DEF TypeOK, StoreTypes, LooseTypes, WorkTypes, PlaceOK

LEMMA TypeGroupsNext ==
    TypeOK' <=> /\ StoreTypes' /\ LooseTypes' /\ WorkTypes'
                /\ \A w \in Worker : PlaceOK(w)'
BY DEF TypeOK, StoreTypes, LooseTypes, WorkTypes, PlaceOK

-----------------------------------------------------------------------------
(* What no step takes back.                                                *)
Grows ==
    /\ \A m \in Message : place[m] # "unsent" =>
          place'[m] # "unsent" /\ body'[m] = body[m] /\ home'[m] = home[m]
    /\ \A e \in Event : row[e] # "absent" => row'[e] # "absent"
    /\ done \subseteq done'
    /\ \A m \in Message, c \in Channel :
          ledger[<<c, m>>] # "none" => ledger'[<<c, m>>] # "none"
    /\ \A x \in bus : \/ x \in bus'
                      \/ \E m \in Message : body'[m] = x[1] /\ home'[m] = x[2]

(* A duty is done, and a message in the ledger, only after it was sent.    *)
NoJump ==
    /\ \A d \in done' : d \in done \/ Copies(d) # {}
    /\ \A m \in Message, c \in Channel : place[m] = "unsent" => ledger'[<<c, m>>] = "none"

StepOK == IInv' /\ Grows /\ NoJump

LEMMA CopiesSent ==
    ASSUME IInv, NEW d \in Duty, NEW m \in Copies(d)
    PROVE  m \in Message /\ place[m] # "unsent" /\ body[m] = d[2]
BY Duties, Messages DEF IInv, MessageInv, Copies

LEMMA CopiesKept ==
    ASSUME IInv, Grows, NEW d \in Duty
    PROVE  Copies(d) \subseteq Copies(d)'
BY CopiesSent DEF Grows, Copies

LEMMA GivenKept ==
    ASSUME IInv, Grows, NEW e, Given(e)
    PROVE  Given(e)'
<1> SUFFICES ASSUME NEW d \in Duty, d[2] = e, <<e, d[1]>> \notin bus'
             PROVE  Copies(d)' # {}
  BY DEF Given
<1>1. CASE Copies(d) # {}
  BY <1>1, CopiesKept
<1>2. CASE <<e, d[1]>> \in bus
  <2>1. PICK m \in Message : body'[m] = e /\ home'[m] = d[1]
    BY <1>2 DEF Grows
  <2> QED
    BY <2>1 DEF Copies
<1> QED
  BY <1>1, <1>2 DEF Given

(* A worker that does not move keeps what it relies on.                    *)
LEMMA UnmovedKeeps ==
    ASSUME IInv, Grows, NEW v \in Worker,
           pc'[v] = pc[v], hand'[v] = hand[v], batch'[v] = batch[v],
           pc[v] = "record" => runs'[DutyOf(v)] = runs[DutyOf(v)]
    PROVE  /\ PlaceOK(v)' /\ RelayInv(v)' /\ HandInv(v)'
           /\ hand[v] # NoMessage => DutyOf(v)' = DutyOf(v)
<1>0. /\ PlaceOK(v) /\ RelayInv(v) /\ HandInv(v) /\ WorkTypes
  BY TypeGroups DEF IInv
<1>1. PlaceOK(v)'
  BY <1>0 DEF PlaceOK
<1>2. RelayInv(v)'
  BY <1>0, GivenKept DEF RelayInv, Grows, WorkTypes, Head
<1>3. hand[v] # NoMessage =>
        /\ hand[v] \in Message
        /\ body'[hand[v]] = body[hand[v]] /\ home'[hand[v]] = home[hand[v]]
        /\ place'[hand[v]] # "unsent"
  BY <1>0 DEF HandInv, Grows, WorkTypes
<1>4. hand[v] # NoMessage => DutyOf(v)' = DutyOf(v)
  BY <1>3 DEF DutyOf
<1>5. HandInv(v)'
  <2>1. pc[v] \in {"claim", "work", "finish", "record", "ack"} => hand[v] # NoMessage
    BY <1>0 DEF PlaceOK
  <2>2. pc[v] = "ack" => DutyOf(v) \in done' \/ ledger'[<<"sqs", hand[v]>>] # "none"
    BY <1>0, <1>3, <2>1 DEF HandInv, Grows, Channel
  <2> QED
    BY <1>0, <1>3, <1>4, <2>1, <2>2 DEF HandInv, Grows
<1> QED
  BY <1>1, <1>2, <1>4, <1>5

-----------------------------------------------------------------------------
(* The workers of W move, the others do not.                               *)
Moves(W) ==
    /\ WorkTypes'
    /\ \A v \in Worker \ W : pc'[v] = pc[v] /\ hand'[v] = hand[v] /\ batch'[v] = batch[v]
    /\ \A w \in W : PlaceOK(w)' /\ RelayInv(w)' /\ HandInv(w)'

Store == <<row, bus, body, home, place, done, runs, ledger>>

LEMMA WorkersKeep ==
    ASSUME IInv, Grows, UNCHANGED runs, NEW W \in SUBSET Worker, Moves(W),
           \A w \in W : pc'[w] # "record"
    PROVE  /\ \A v \in Worker : PlaceOK(v)' /\ RelayInv(v)' /\ HandInv(v)'
           /\ OneRecorder'
<1>0. WorkTypes /\ OneRecorder /\ \A v \in Worker : PlaceOK(v)
  BY TypeGroups DEF IInv
<1>1. ASSUME NEW v \in Worker
      PROVE  /\ PlaceOK(v)' /\ RelayInv(v)' /\ HandInv(v)'
             /\ pc'[v] = "record" => pc[v] = "record" /\ DutyOf(v)' = DutyOf(v)
  <2>1. CASE v \in W
    BY <2>1 DEF Moves
  <2>2. CASE v \notin W
    <3>1. pc'[v] = pc[v] /\ hand'[v] = hand[v] /\ batch'[v] = batch[v]
      BY <2>2 DEF Moves
    <3>2. pc[v] = "record" => hand[v] # NoMessage
      BY <1>0 DEF PlaceOK
    <3> QED
      BY <3>1, <3>2, UnmovedKeeps
  <2> QED
    BY <2>1, <2>2
<1>2. OneRecorder'
  BY <1>0, <1>1 DEF OneRecorder
<1> QED
  BY <1>1, <1>2

(* What is stored stays; workers move, leases and receipts change.         *)
LEMMA StillStep ==
    ASSUME IInv, UNCHANGED Store, NEW W \in SUBSET Worker, Moves(W),
           \A w \in W : pc'[w] # "record", LooseTypes', LeaseInv'
    PROVE  StepOK
<1> USE DEF Store
<1>0. StoreTypes /\ MessageInv /\ RowInv /\ CopyInv /\ Disposed /\ RunOnce
  BY TypeGroups DEF IInv
<1>1. Grows /\ NoJump
  BY <1>0 DEF Grows, NoJump, MessageInv
<1>2. /\ \A v \in Worker : PlaceOK(v)' /\ RelayInv(v)' /\ HandInv(v)'
      /\ OneRecorder'
  BY <1>1, WorkersKeep
<1>3. StoreTypes'
  BY <1>0 DEF StoreTypes
<1>4. MessageInv' /\ CopyInv' /\ Disposed' /\ RunOnce'
  BY <1>0 DEF MessageInv, CopyInv, Disposed, RunOnce, Copies
<1>5. RowInv'
  BY <1>0 DEF RowInv, Given, Copies
<1> QED
  BY <1>1, <1>2, <1>3, <1>4, <1>5, TypeGroupsNext DEF StepOK, IInv, Moves

(* What the steps below start from.                                        *)
LEMMA Parts ==
    ASSUME IInv
    PROVE  /\ StoreTypes /\ LooseTypes /\ WorkTypes /\ TypeOK
           /\ \A w \in Worker : /\ PlaceOK(w) /\ RelayInv(w) /\ HandInv(w)
                                /\ FleetOf[w] \in Fleet
           /\ {MaxReceives, MaxReopens, MaxCrashes, MaxLapses} \subseteq Nat
           /\ NoWorker \notin Worker
BY TypeGroups, ConstantsAssumption DEF IInv

(* The relay reads rows or gives up.                                       *)
LEMMA RelayControl ==
    ASSUME IInv, NEW w \in Worker, SelectRows(w) \/ Refuse(w) \/ ReceiveNothing(w)
    PROVE  StepOK
<1>0. /\ StoreTypes /\ LooseTypes /\ WorkTypes /\ LeaseInv
      /\ PlaceOK(w) /\ RelayInv(w) /\ HandInv(w)
  BY Parts DEF IInv
<1>1. /\ UNCHANGED <<row, bus, body, home, place, done, runs, ledger, receives, inflight,
                     lease, hand, stale, held, reopens, crashes, lapses>>
      /\ pc' \in {[pc EXCEPT ![w] = "poll"], [pc EXCEPT ![w] = "relay"],
                  [pc EXCEPT ![w] = "loop"]}
      /\ \/ batch' = [batch EXCEPT ![w] = Unrelayed]
            /\ pc' = [pc EXCEPT ![w] = IF Unrelayed = {} THEN "poll" ELSE "relay"]
            /\ pc[w] = "loop"
         \/ batch' = [batch EXCEPT ![w] = {}]
            /\ pc' = [pc EXCEPT ![w] = "loop"]
            /\ pc[w] = "relay"
         \/ batch' = batch /\ pc' = [pc EXCEPT ![w] = "loop"] /\ pc[w] = "poll"
  BY DEF SelectRows, Refuse, ReceiveNothing, queueVars, deliveryVars, boundVars, Goto
<1>2. UNCHANGED Store /\ LooseTypes' /\ LeaseInv'
  BY <1>0, <1>1 DEF Store, LooseTypes, LeaseInv
<1>3. WorkTypes' /\ \A v \in Worker \ {w} :
         pc'[v] = pc[v] /\ hand'[v] = hand[v] /\ batch'[v] = batch[v]
  BY <1>0, <1>1 DEF WorkTypes, Unrelayed
<1>4. PlaceOK(w)' /\ RelayInv(w)' /\ HandInv(w)' /\ pc'[w] # "record"
  BY <1>0, <1>1 DEF PlaceOK, RelayInv, HandInv, WorkTypes, Unrelayed
<1>5. Moves({w})
  BY <1>3, <1>4 DEF Moves
<1> QED
  BY <1>2, <1>4, <1>5, StillStep

(* A worker that has no message in hand relies on nothing.                 *)
LEMMA Restarted ==
    ASSUME IInv, NEW w \in Worker, WorkTypes', batch'[w] = {}, hand'[w] = NoMessage,
           pc'[w] = Start(w)
    PROVE  PlaceOK(w)' /\ RelayInv(w)' /\ HandInv(w)' /\ pc'[w] # "record"
BY DEF PlaceOK, RelayInv, HandInv, Start

LEMMA GiveUpSteps ==
    ASSUME IInv, NEW w \in Worker,
           ClaimBusy(w) \/ Retain(w) \/ Fail(w) \/ Crash(w) \/ LiftHold(w)
    PROVE  StepOK
<1>0. /\ LooseTypes /\ WorkTypes /\ LeaseInv /\ PlaceOK(w) /\ NoWorker \notin Worker
      /\ MaxCrashes \in Nat
  BY Parts DEF IInv
<1>1. /\ UNCHANGED Store
      /\ UNCHANGED <<receives, inflight, reopens, lapses>>
      /\ pc' = [pc EXCEPT ![w] = Start(w)]
      /\ hand' = [hand EXCEPT ![w] = NoMessage]
      /\ batch' \in {batch, [batch EXCEPT ![w] = {}]}
      /\ stale' = stale \ {w}
      /\ held' \subseteq held
  BY DEF ClaimBusy, Retain, Fail, Crash, LiftHold, Drop, Restart, Goto, Store, queueVars,
         deliveryVars, boundVars
<1>2. batch'[w] = {}
  BY <1>0, <1>1 DEF ClaimBusy, Retain, Fail, Crash, LiftHold, Restart, PlaceOK, WorkTypes
<1>3. WorkTypes'
  BY <1>0, <1>1 DEF WorkTypes, Start
<1>4. Moves({w}) /\ pc'[w] # "record"
  <2>1. PlaceOK(w)' /\ RelayInv(w)' /\ HandInv(w)' /\ pc'[w] # "record"
    BY <1>0, <1>1, <1>2, <1>3, Restarted DEF WorkTypes
  <2> QED
    BY <1>0, <1>1, <1>3, <2>1 DEF Moves, WorkTypes
<1>5. LooseTypes' /\ LeaseInv'
  <2>1. /\ lease' \in [Duty -> Worker \cup {NoWorker}]
        /\ \A d \in Duty : lease'[d] \in {lease[d], NoWorker}
        /\ done' = done
    BY <1>0 DEF ClaimBusy, Retain, Fail, Crash, LiftHold, LooseTypes, deliveryVars
  <2>2. crashes' \in 0..MaxCrashes
    BY <1>0 DEF ClaimBusy, Retain, Fail, Crash, LiftHold, LooseTypes, boundVars
  <2> QED
    BY <1>0, <1>1, <2>1, <2>2 DEF LooseTypes, LeaseInv
<1> QED
  BY <1>1, <1>4, <1>5, StillStep

(* A message, or a completed delivery, found; the handler's way.           *)
LEMMA ReceiveStep ==
    ASSUME IInv, NEW w \in Worker, NEW m \in Message, Receive(w, m)
    PROVE  StepOK
<1>0. /\ StoreTypes /\ LooseTypes /\ WorkTypes /\ LeaseInv /\ PlaceOK(w) /\ MessageInv
      /\ MaxReceives \in Nat /\ FleetOf[w] \in Fleet /\ m # NoMessage
  BY Parts, Messages DEF IInv
<1>1. /\ UNCHANGED Store
      /\ UNCHANGED <<lease, batch, stale, held, reopens, crashes, lapses>>
      /\ receives' = [receives EXCEPT ![m] = @ + 1] /\ receives[m] < MaxReceives
      /\ inflight' = inflight \cup {m}
      /\ hand' = [hand EXCEPT ![w] = m]
      /\ pc' = [pc EXCEPT ![w] =
                   IF Deferred(w, body[m]) THEN "defer"
                   ELSE IF <<FleetOf[w], body[m]>> \in done THEN "ack" ELSE "claim"]
      /\ pc[w] = "poll" /\ place[m] = "queue" /\ home[m] = FleetOf[w]
  BY DEF Receive, Receivable, Visible, Goto, Store, deliveryVars, boundVars
<1>2. LooseTypes' /\ LeaseInv'
  BY <1>0, <1>1 DEF LooseTypes, LeaseInv, Store
<1>3. WorkTypes'
  BY <1>0, <1>1 DEF WorkTypes
<1>4. DutyOf(w)' = <<FleetOf[w], body[m]>>
  BY <1>0, <1>1 DEF DutyOf, WorkTypes, Store
<1>5. pc'[w] = "claim" => DutyOf(w)' \in Duty
  BY <1>0, <1>1, <1>4, IsDuty DEF Deferred, MessageInv, WorkTypes
<1>6. PlaceOK(w)' /\ RelayInv(w)' /\ HandInv(w)' /\ pc'[w] # "record"
  BY <1>0, <1>1, <1>4, <1>5 DEF PlaceOK, RelayInv, HandInv, WorkTypes, Store
<1>7. Moves({w})
  BY <1>0, <1>1, <1>3, <1>6 DEF Moves, WorkTypes
<1> QED
  BY <1>1, <1>2, <1>6, <1>7, StillStep

LEMMA GoOnSteps ==
    ASSUME IInv, NEW w \in Worker, Claim(w) \/ ClaimCompleted(w) \/ Succeed(w)
    PROVE  StepOK
<1>0. /\ StoreTypes /\ LooseTypes /\ WorkTypes /\ LeaseInv /\ PlaceOK(w) /\ HandInv(w)
  BY Parts DEF IInv
<1>1. /\ UNCHANGED Store
      /\ UNCHANGED <<hand, batch, stale, held, receives, inflight, reopens, crashes,
                     lapses>>
      /\ \/ pc[w] = "claim" /\ pc' = [pc EXCEPT ![w] = "work"]
            /\ DutyOf(w) \notin done
            /\ lease' = [lease EXCEPT ![DutyOf(w)] = w]
         \/ pc[w] = "claim" /\ pc' = [pc EXCEPT ![w] = "ack"] /\ DutyOf(w) \in done
            /\ lease' = lease
         \/ pc[w] = "work" /\ pc' = [pc EXCEPT ![w] = "finish"] /\ lease' = lease
  BY DEF Claim, ClaimCompleted, Succeed, Goto, Store, queueVars, deliveryVars, boundVars
<1>2. LooseTypes' /\ LeaseInv'
  BY <1>0, <1>1 DEF LooseTypes, LeaseInv, Store
<1>3. DutyOf(w)' = DutyOf(w)
  BY <1>1 DEF DutyOf, Store
<1>4. WorkTypes'
  BY <1>0, <1>1 DEF WorkTypes
<1>5. PlaceOK(w)' /\ RelayInv(w)' /\ HandInv(w)' /\ pc'[w] # "record"
  BY <1>0, <1>1, <1>3 DEF PlaceOK, RelayInv, HandInv, WorkTypes, Store
<1>6. Moves({w})
  BY <1>0, <1>1, <1>4, <1>5 DEF Moves, WorkTypes
<1> QED
  BY <1>1, <1>2, <1>5, <1>6, StillStep

(* Timeouts.                                                               *)
LEMMA TimeoutSteps ==
    ASSUME IInv,
           \/ \E m \in Message : Reappear(m)
           \/ \E w \in Worker : LapseMessage(w)
           \/ \E d \in Duty : ExpireLease(d) \/ LapseLease(d)
    PROVE  StepOK
<1>0. /\ LooseTypes /\ WorkTypes /\ LeaseInv
      /\ NoWorker \notin Worker /\ MaxLapses \in Nat
  BY Parts DEF IInv
<1>1. /\ UNCHANGED Store
      /\ UNCHANGED <<pc, hand, batch, held, receives, reopens, crashes>>
      /\ stale' \subseteq stale \cup Worker
      /\ inflight' \subseteq inflight
  BY DEF Reappear, LapseMessage, ExpireLease, LapseLease, Store, queueVars, deliveryVars,
         workerVars, boundVars
<1>2. /\ lease' \in [Duty -> Worker \cup {NoWorker}]
      /\ \A d \in Duty : lease'[d] \in {lease[d], NoWorker}
      /\ done' = done
      /\ lapses' \in 0..MaxLapses
  BY <1>0 DEF Reappear, LapseMessage, ExpireLease, LapseLease, LooseTypes, deliveryVars,
              boundVars
<1>3. LooseTypes' /\ LeaseInv'
  BY <1>0, <1>1, <1>2 DEF LooseTypes, LeaseInv
<1>4. Moves({})
  BY <1>0, <1>1 DEF Moves, WorkTypes
<1> QED
  BY <1>1, <1>3, <1>4, StillStep

-----------------------------------------------------------------------------
(* Rows.                                                                   *)
LEMMA RowsStep ==
    ASSUME IInv, UNCHANGED <<bus, body, home, place, done, runs, ledger>>,
           UNCHANGED <<receives, inflight, lease, crashes, lapses>>,
           reopens' \in 0..MaxReopens,
           row' \in [Event -> {"absent", "open", "sent", "audit", "quarantined"}],
           \A e \in Event : row[e] # "absent" => row'[e] # "absent",
           \A e \in Event : row'[e] = "sent" => row[e] = "sent" \/ Given(e),
           \A e \in Event : row'[e] \in {"audit", "quarantined"} =>
                               Kind[e] \in {"audit", "unknown"},
           NEW W \in SUBSET Worker, Moves(W), \A w \in W : pc'[w] # "record"
    PROVE  StepOK
<1>0. StoreTypes /\ LooseTypes /\ MessageInv /\ RowInv /\ CopyInv /\ Disposed /\ RunOnce
      /\ LeaseInv
  BY Parts DEF IInv
<1>1. Grows /\ NoJump
  BY <1>0 DEF Grows, NoJump, MessageInv
<1>2. /\ \A v \in Worker : PlaceOK(v)' /\ RelayInv(v)' /\ HandInv(v)'
      /\ OneRecorder'
  BY <1>1, WorkersKeep
<1>3. StoreTypes' /\ LooseTypes' /\ LeaseInv'
  BY <1>0 DEF StoreTypes, LooseTypes, LeaseInv
<1>4. MessageInv' /\ CopyInv' /\ Disposed' /\ RunOnce'
  BY <1>0 DEF MessageInv, CopyInv, Disposed, RunOnce, Copies
<1>5. RowInv'
  BY <1>0 DEF RowInv, Given, Copies, StoreTypes
<1> QED
  BY <1>1, <1>2, <1>3, <1>4, <1>5, TypeGroupsNext DEF StepOK, IInv, Moves

LEMMA AskingSteps ==
    ASSUME IInv, NEW e \in Event, Emit(e) \/ Reopen(e)
    PROVE  StepOK
<1>0. /\ StoreTypes /\ LooseTypes /\ WorkTypes /\ RowInv /\ MaxReopens \in Nat
  BY Parts DEF IInv
<1>1. /\ UNCHANGED <<bus, body, home, place, done, runs, ledger>>
      /\ UNCHANGED <<receives, inflight, lease, crashes, lapses>>
      /\ UNCHANGED <<pc, hand, batch, stale, held>>
      /\ row' = [row EXCEPT ![e] = "open"]
  BY DEF Emit, Reopen, queueVars, deliveryVars, workerVars, boundVars
<1>2. reopens' \in 0..MaxReopens
  BY <1>0 DEF Emit, Reopen, LooseTypes, boundVars
<1>3. Moves({})
  BY <1>0, <1>1 DEF Moves, WorkTypes
<1>4. /\ row' \in [Event -> {"absent", "open", "sent", "audit", "quarantined"}]
      /\ \A x \in Event : row[x] # "absent" => row'[x] # "absent"
      /\ \A x \in Event : row'[x] = "sent" => row[x] = "sent" \/ Given(x)
      /\ \A x \in Event : row'[x] \in {"audit", "quarantined"} =>
                             Kind[x] \in {"audit", "unknown"}
  BY <1>0, <1>1 DEF StoreTypes, RowInv
<1> QED
  BY <1>1, <1>2, <1>3, <1>4, RowsStep

(* The relay is done with the head of its batch.                           *)
LEMMA StampingSteps ==
    ASSUME IInv, NEW w \in Worker, Keep(w) \/ Stamp(w)
    PROVE  StepOK
<1> DEFINE e == Head(w)
<1>0. /\ StoreTypes /\ LooseTypes /\ WorkTypes /\ RowInv
      /\ PlaceOK(w) /\ RelayInv(w) /\ HandInv(w)
      /\ pc[w] \in {"relay", "stamp"} /\ e \in batch[w] /\ e \in Event
  BY Parts, HeadOfBatch DEF IInv, Keep, Stamp
<1>1. /\ UNCHANGED <<bus, body, home, place, done, runs, ledger>>
      /\ UNCHANGED <<receives, inflight, lease, reopens, crashes, lapses>>
      /\ UNCHANGED <<hand, stale, held>>
      /\ batch' = [batch EXCEPT ![w] = @ \ {e}]
      /\ pc' = [pc EXCEPT ![w] = IF batch[w] = {e} THEN "poll" ELSE "relay"]
      /\ \E s \in {"audit", "quarantined", "sent"} :
            /\ row' = [row EXCEPT ![e] = IF @ = "open" THEN s ELSE @]
            /\ IF s = "sent" THEN pc[w] = "stamp"
               ELSE Kind[e] \in {"audit", "unknown"}
  <2>1. CASE Keep(w)
    BY <2>1 DEF Keep, Stamped, Advance, Goto, queueVars, deliveryVars, boundVars
  <2>2. CASE Stamp(w)
    BY <2>2 DEF Stamp, Stamped, Advance, Goto, queueVars, deliveryVars, boundVars
  <2> QED
    BY <2>1, <2>2
<1>2. Given(e) \/ pc[w] # "stamp"
  BY <1>0 DEF RelayInv
<1> HIDE DEF e
<1>3. /\ row' \in [Event -> {"absent", "open", "sent", "audit", "quarantined"}]
      /\ \A x \in Event : row[x] # "absent" => row'[x] # "absent"
      /\ \A x \in Event : row'[x] = "sent" => row[x] = "sent" \/ Given(x)
      /\ \A x \in Event : row'[x] \in {"audit", "quarantined"} =>
                             Kind[x] \in {"audit", "unknown"}
  BY <1>0, <1>1, <1>2 DEF StoreTypes, RowInv
<1>4. WorkTypes'
  BY <1>0, <1>1 DEF WorkTypes
<1>5. PlaceOK(w)' /\ HandInv(w)' /\ RelayInv(w)' /\ pc'[w] # "record"
  BY <1>0, <1>1, <1>3 DEF PlaceOK, HandInv, RelayInv, WorkTypes
<1>6. Moves({w})
  BY <1>0, <1>1, <1>4, <1>5 DEF Moves, WorkTypes
<1>7. reopens' \in 0..MaxReopens
  BY <1>0, <1>1 DEF LooseTypes
<1> QED
  BY <1>1, <1>3, <1>5, <1>6, <1>7, RowsStep

-----------------------------------------------------------------------------
(* Messages sent.                                                          *)

(* Body b is put on the queue of fleet f as message m.                     *)
PutAs(m, b, f) ==
    /\ place[m] = "unsent"
    /\ \A n \in Message : place[n] = "unsent" => m <= n
    /\ body' = [body EXCEPT ![m] = b]
    /\ home' = [home EXCEPT ![m] = f]
    /\ place' = [place EXCEPT ![m] = "queue"]
    /\ UNCHANGED <<receives, inflight>>

LEMMA Putting ==
    ASSUME NEW b, NEW f, Put(b, f)
    PROVE  \E m \in Message : PutAs(m, b, f)
BY DEF Put, PutAs

LEMMA PutStep ==
    ASSUME IInv, NEW b \in Body, NEW f \in Fleet, NEW m \in Message, PutAs(m, b, f),
           b \in Event => row[b] # "absent",
           UNCHANGED <<row, done, runs, ledger, lease, reopens, crashes, lapses>>,
           bus' \subseteq bus, \A x \in bus : x \in bus' \/ x = <<b, f>>,
           NEW W \in SUBSET Worker, Moves(W), \A w \in W : pc'[w] # "record"
    PROVE  StepOK
<1>0. StoreTypes /\ LooseTypes /\ MessageInv /\ RowInv /\ CopyInv /\ Disposed /\ RunOnce
      /\ LeaseInv /\ b # NoMessage
  BY Parts, Messages DEF IInv
<1>1. Grows /\ NoJump
  BY <1>0 DEF Grows, NoJump, MessageInv, PutAs, StoreTypes
<1>2. /\ \A v \in Worker : PlaceOK(v)' /\ RelayInv(v)' /\ HandInv(v)'
      /\ OneRecorder'
  BY <1>1, WorkersKeep
<1>3. StoreTypes' /\ LooseTypes' /\ LeaseInv'
  BY <1>0 DEF StoreTypes, LooseTypes, LeaseInv, PutAs
<1>4. MessageInv'
  <2>1. \A n \in Message : place[n] = "unsent" /\ n # m => m < n
    BY <1>0, Messages DEF PutAs
  <2>2. ASSUME NEW n \in Message, NEW k \in Message, place'[k] # "unsent", n < k
        PROVE  place'[n] # "unsent"
    BY <1>0, <2>1, <2>2, Messages DEF MessageInv, PutAs, StoreTypes
  <2>3. ASSUME NEW n \in Message
        PROVE  IF place'[n] = "unsent"
               THEN body'[n] = NoMessage /\ \A c \in Channel : ledger'[<<c, n>>] = "none"
               ELSE /\ body'[n] \in Body /\ home'[n] \in Fleet
                    /\ body'[n] \in Event => row'[body'[n]] # "absent"
    BY <1>0 DEF MessageInv, PutAs, StoreTypes
  <2> QED
    BY <2>2, <2>3 DEF MessageInv
<1>5. CopyInv'
  <2>1. ASSUME NEW n \in Message, NEW c \in Channel, ledger'[<<c, n>>] = "rerouted"
        PROVE  /\ Kind[body'[n]] = "command"
               /\ \E k \in Message : n < k /\ body'[k] = body'[n]
    <3>1. ledger[<<c, n>>] = "rerouted" /\ n # m
      BY <1>0, <2>1 DEF MessageInv, PutAs
    <3>2. PICK k \in Message : n < k /\ body[k] = body[n] /\ Kind[body[n]] = "command"
      BY <1>0, <3>1 DEF CopyInv
    <3>3. place[n] # "unsent" /\ place[k] # "unsent"
      BY <1>0, <3>1, <3>2, Messages DEF MessageInv
    <3> QED
      BY <1>1, <3>2, <3>3 DEF Grows
  <2>2. ASSUME NEW d \in done' PROVE Copies(d)' # {}
    BY <1>0, <1>1, <2>2, CopiesKept DEF CopyInv, StoreTypes
  <2> QED
    BY <2>1, <2>2 DEF CopyInv
<1>6. Disposed' /\ RunOnce'
  BY <1>0 DEF Disposed, RunOnce, PutAs, StoreTypes
<1>7. RowInv'
  <2>1. \A e \in Event : Given(e) => Given(e)'
    BY <1>1, GivenKept
  <2> QED
    BY <1>0, <2>1 DEF RowInv
<1> QED
  BY <1>1, <1>2, <1>3, <1>4, <1>5, <1>6, <1>7, TypeGroupsNext DEF StepOK, IInv, Moves

LEMMA ArrivingSteps ==
    ASSUME IInv,
           \/ \E b \in Stray, f \in Fleet : Arrive(b, f)
           \/ \E e \in Event, f \in Fleet : Deliver(e, f)
    PROVE  StepOK
<1>0. /\ StoreTypes /\ LooseTypes /\ WorkTypes /\ RowInv
  BY Parts DEF IInv
<1>1. PICK b \in Body, f \in Fleet :
        /\ Put(b, f)
        /\ b \in Event => row[b] # "absent"
        /\ bus' \subseteq bus
        /\ \A x \in bus : x \in bus' \/ x = <<b, f>>
        /\ UNCHANGED <<row, done, runs, ledger, lease, reopens, crashes, lapses>>
        /\ UNCHANGED <<pc, hand, batch, stale, held>>
  <2>1. ASSUME NEW b \in Stray, NEW f \in Fleet, Arrive(b, f)
        PROVE  /\ Put(b, f) /\ b \in Body
               /\ b \in Event => row[b] # "absent"
               /\ bus' = bus
               /\ UNCHANGED <<row, done, runs, ledger, lease, reopens, crashes, lapses>>
               /\ UNCHANGED <<pc, hand, batch, stale, held>>
    BY <2>1, ConstantsAssumption DEF Arrive, Body, deliveryVars, workerVars, boundVars
  <2>2. ASSUME NEW e \in Event, NEW f \in Fleet, Deliver(e, f)
        PROVE  /\ Put(e, f) /\ e \in Body
               /\ row[e] # "absent"
               /\ bus' = bus \ {<<e, f>>}
               /\ UNCHANGED <<row, done, runs, ledger, lease, reopens, crashes, lapses>>
               /\ UNCHANGED <<pc, hand, batch, stale, held>>
    <3>1. row[e] # "absent"
      BY <1>0, <2>2 DEF Deliver, RowInv
    <3> QED
      BY <2>2, <3>1, Messages DEF Deliver, deliveryVars, workerVars, boundVars
  <2>3. CASE \E b \in Stray, f \in Fleet : Arrive(b, f)
    BY <2>1, <2>3
  <2>4. CASE \E e \in Event, f \in Fleet : Deliver(e, f)
    <3>1. PICK e \in Event, f \in Fleet : Deliver(e, f)
      BY <2>4
    <3>2. \A x \in bus : x \in bus' \/ x = <<e, f>>
      BY <2>2, <3>1
    <3> QED
      BY <2>2, <3>1, <3>2
  <2> QED
    BY <2>3, <2>4
<1>2. PICK m \in Message : PutAs(m, b, f)
  BY <1>1, Putting
<1>3. Moves({})
  BY <1>0, <1>1 DEF Moves, WorkTypes
<1> QED
  BY <1>1, <1>2, <1>3, PutStep

LEMMA SendStep ==
    ASSUME IInv, NEW w \in Worker, Send(w)
    PROVE  StepOK
<1>e. PICK e \in Event : e = Head(w) /\ e \in batch[w]
  BY Parts, HeadOfBatch DEF Send
<1>0. /\ StoreTypes /\ LooseTypes /\ WorkTypes /\ MessageInv /\ RowInv /\ CopyInv
      /\ Disposed /\ RunOnce /\ LeaseInv
      /\ PlaceOK(w) /\ RelayInv(w) /\ HandInv(w)
      /\ pc[w] = "relay" /\ e \in Body
  BY Parts, Messages DEF IInv, Send
<1>1. /\ UNCHANGED <<row, done, runs, ledger, lease, reopens, crashes, lapses>>
      /\ UNCHANGED <<hand, batch, stale, held>>
      /\ pc' = [pc EXCEPT ![w] = "stamp"]
      /\ row[e] # "absent"
      /\ Head(w)' = e
  BY <1>0, <1>e DEF Send, Goto, deliveryVars, boundVars, RelayInv, Head
<1>2. WorkTypes' /\ PlaceOK(w)' /\ HandInv(w)'
  BY <1>0, <1>1 DEF WorkTypes, PlaceOK, HandInv
<1>3. ASSUME Given(e)' PROVE Moves({w})
  BY <1>0, <1>1, <1>e, <1>2, <1>3 DEF Moves, RelayInv, WorkTypes
<1>4. CASE /\ Kind[e] = "command" /\ UNCHANGED bus
           /\ \E f \in Consumers[e] : Put(e, f)
  <2>1. PICK f \in Consumers[e] : Put(e, f)
    BY <1>4
  <2>2. PICK m \in Message : PutAs(m, e, f)
    BY <2>1, Putting
  <2>3. f \in Fleet
    BY <1>0, Consumed
  <2>4. Given(e)'
    <3>1. body'[m] = e
      BY <1>0, <2>2 DEF PutAs, StoreTypes
    <3>2. \A d \in Duty : d[2] = e => m \in Copies(d)'
      BY <1>4, <3>1 DEF Copies
    <3> QED
      BY <3>2 DEF Given
  <2>5. Moves({w}) /\ pc'[w] # "record"
    BY <1>0, <1>1, <1>3, <2>4 DEF WorkTypes
  <2> QED
    BY <1>0, <1>1, <1>4, <2>2, <2>3, <2>5, PutStep
<1>5. CASE /\ Kind[e] = "layer" /\ UNCHANGED queueVars
           /\ bus' = bus \cup ({e} \X Subscribers[e])
  <2>1. UNCHANGED <<body, home, place, receives, inflight>>
    BY <1>5 DEF queueVars
  <2>2. Subscribers[e] \subseteq Fleet /\ Consumers[e] \subseteq Subscribers[e]
    BY <1>0, <1>5, ConstantsAssumption
  <2>3. Given(e)'
    <3>1. \A d \in Duty : d[2] = e => <<e, d[1]>> \in bus'
      BY <1>5, <2>2, Duties
    <3> QED
      BY <3>1 DEF Given
  <2>4. Moves({w}) /\ pc'[w] # "record"
    BY <1>0, <1>1, <1>3, <2>3 DEF WorkTypes
  <2>5. Grows /\ NoJump
    BY <1>0, <1>1, <1>5, <2>1 DEF Grows, NoJump, MessageInv
  <2>6. /\ \A v \in Worker : PlaceOK(v)' /\ RelayInv(v)' /\ HandInv(v)'
        /\ OneRecorder'
    BY <1>1, <2>4, <2>5, WorkersKeep
  <2>7. StoreTypes' /\ LooseTypes' /\ LeaseInv'
    BY <1>0, <1>1, <1>5, <2>1, <2>2 DEF StoreTypes, LooseTypes, LeaseInv
  <2>8. MessageInv' /\ CopyInv' /\ Disposed' /\ RunOnce'
    BY <1>0, <1>1, <2>1 DEF MessageInv, CopyInv, Disposed, RunOnce, Copies
  <2>9. RowInv'
    <3>1. \A x \in Event : Given(x) => Given(x)'
      BY <2>5, GivenKept
    <3> QED
      BY <1>0, <1>1, <1>5, <3>1 DEF RowInv
  <2> QED
    BY <2>4, <2>5, <2>6, <2>7, <2>8, <2>9, TypeGroupsNext DEF StepOK, IInv, Moves
<1> QED
  BY <1>e, <1>4, <1>5 DEF Send

-----------------------------------------------------------------------------
(* Messages moved and disposed of.                                         *)
LEMMA PlaceStep ==
    ASSUME IInv, NEW m \in Message, NEW p \in {"queue", "dlq", "gone"},
           place' = [place EXCEPT ![m] = p], place[m] # "unsent",
           p = "gone" => \/ <<home[m], body[m]>> \in done
                         \/ \E c \in Channel : ledger[<<c, m>>] # "none",
           UNCHANGED <<row, bus, body, home, done, runs, ledger>>,
           LooseTypes', LeaseInv',
           NEW W \in SUBSET Worker, Moves(W), \A w \in W : pc'[w] # "record"
    PROVE  StepOK
<1>0. StoreTypes /\ MessageInv /\ RowInv /\ CopyInv /\ Disposed /\ RunOnce
  BY Parts DEF IInv
<1>1. Grows /\ NoJump
  BY <1>0 DEF Grows, NoJump, MessageInv, StoreTypes
<1>2. /\ \A v \in Worker : PlaceOK(v)' /\ RelayInv(v)' /\ HandInv(v)'
      /\ OneRecorder'
  BY <1>1, WorkersKeep
<1>3. StoreTypes'
  BY <1>0 DEF StoreTypes
<1>4. MessageInv' /\ Disposed'
  BY <1>0 DEF MessageInv, Disposed, StoreTypes
<1>5. CopyInv' /\ RunOnce'
  BY <1>0 DEF CopyInv, RunOnce, Copies
<1>6. RowInv'
  BY <1>0 DEF RowInv, Given, Copies
<1> QED
  BY <1>1, <1>2, <1>3, <1>4, <1>5, <1>6, TypeGroupsNext DEF StepOK, IInv, Moves

LEMMA RedriveStep ==
    ASSUME IInv, NEW m \in Message, Redrive(m)
    PROVE  StepOK
<1>0. /\ LooseTypes /\ WorkTypes /\ LeaseInv /\ MaxReceives \in Nat
  BY Parts DEF IInv
<1>1. /\ place' = [place EXCEPT ![m] = "dlq"] /\ place[m] # "unsent"
      /\ UNCHANGED <<row, bus, body, home, done, runs, ledger>>
      /\ UNCHANGED <<pc, hand, batch, stale, held, inflight, lease, reopens, crashes,
                     lapses>>
  BY DEF Redrive, Visible, deliveryVars, workerVars, boundVars
<1>2. LooseTypes' /\ LeaseInv'
  BY <1>0, <1>1 DEF LooseTypes, LeaseInv, Redrive
<1>3. Moves({})
  BY <1>0, <1>1 DEF Moves, WorkTypes
<1> QED
  BY <1>1, <1>2, <1>3, PlaceStep

LEMMA AcknowledgeStep ==
    ASSUME IInv, NEW w \in Worker, Acknowledge(w)
    PROVE  StepOK
<1> DEFINE m == hand[w]
<1>0. /\ LooseTypes /\ WorkTypes /\ LeaseInv /\ PlaceOK(w) /\ HandInv(w)
      /\ pc[w] = "ack" /\ m \in Message
  BY Parts DEF IInv, Acknowledge, PlaceOK, WorkTypes
<1>1. /\ place' = [place EXCEPT ![m] = "gone"] /\ place[m] # "unsent"
      /\ UNCHANGED <<row, bus, body, home, done, runs, ledger>>
      /\ UNCHANGED <<receives, batch, held, lease, reopens, crashes, lapses>>
      /\ inflight' = inflight \ {m}
      /\ pc' = [pc EXCEPT ![w] = Start(w)]
      /\ hand' = [hand EXCEPT ![w] = NoMessage]
      /\ stale' = stale \ {w}
  BY DEF Acknowledge, Drop, Goto, deliveryVars, boundVars
<1>2. \/ <<home[m], body[m]>> \in done
      \/ \E c \in Channel : ledger[<<c, m>>] # "none"
  BY <1>0, Messages DEF HandInv, DutyOf, Channel
<1>3. LooseTypes' /\ LeaseInv'
  BY <1>0, <1>1 DEF LooseTypes, LeaseInv
<1>4. WorkTypes' /\ batch'[w] = {} /\ hand'[w] = NoMessage /\ pc'[w] = Start(w)
  BY <1>0, <1>1 DEF WorkTypes, Start, PlaceOK
<1>5. Moves({w}) /\ pc'[w] # "record"
  BY <1>0, <1>1, <1>4, Restarted DEF Moves, WorkTypes
<1> HIDE DEF m
<1> QED
  BY <1>0, <1>1, <1>2, <1>3, <1>5, PlaceStep

(* The copy a worker has in hand.                                          *)
LEMMA InHandCopy ==
    ASSUME IInv, NEW w \in Worker, hand[w] # NoMessage, DutyOf(w) \in Duty
    PROVE  hand[w] \in Copies(DutyOf(w))
BY Parts DEF HandInv, Copies, DutyOf, WorkTypes

LEMMA FinishStep ==
    ASSUME IInv, NEW w \in Worker, Finish(w)
    PROVE  StepOK
<1>d. PICK d \in Duty : d = DutyOf(w)
  BY Parts DEF HandInv, Finish
<1>0. /\ StoreTypes /\ LooseTypes /\ WorkTypes /\ MessageInv /\ RowInv /\ CopyInv
      /\ Disposed /\ RunOnce /\ LeaseInv /\ OneRecorder
      /\ PlaceOK(w) /\ RelayInv(w) /\ HandInv(w) /\ NoWorker \notin Worker
  BY Parts DEF IInv
<1>1. /\ UNCHANGED <<row, bus, body, home, place, runs, ledger>>
      /\ UNCHANGED <<receives, inflight, reopens, crashes, lapses>>
      /\ UNCHANGED <<hand, batch, stale, held>>
      /\ pc[w] = "finish" /\ pc' = [pc EXCEPT ![w] = "record"]
      /\ lease[d] = w /\ lease' = [lease EXCEPT ![d] = NoWorker]
      /\ done' = done \cup {d}
  BY <1>d DEF Finish, Goto, Owned, queueVars, boundVars
<1>2. /\ hand[w] # NoMessage /\ hand[w] \in Copies(d)
      /\ d \notin done /\ runs[d] = 0
  <2>1. hand[w] # NoMessage
    BY <1>0, <1>1 DEF PlaceOK
  <2>2. d \notin done
    BY <1>0, <1>1 DEF LeaseInv
  <2>3. runs[d] = 0
    BY <1>0, <2>2 DEF RunOnce, StoreTypes
  <2> QED
    BY <1>d, <2>1, <2>2, <2>3, InHandCopy
<1>3. Grows /\ NoJump
  BY <1>0, <1>1, <1>2 DEF Grows, NoJump, MessageInv
<1>4. WorkTypes' /\ StoreTypes' /\ LooseTypes' /\ LeaseInv'
  BY <1>0, <1>1 DEF WorkTypes, StoreTypes, LooseTypes, LeaseInv
<1>5. DutyOf(w)' = d
  BY <1>1, <1>d DEF DutyOf
<1>6. PlaceOK(w)' /\ RelayInv(w)' /\ HandInv(w)'
  <2>1. pc'[w] = "record"
    BY <1>0, <1>1 DEF WorkTypes
  <2> QED
    BY <1>0, <1>1, <1>2, <1>5, <2>1 DEF PlaceOK, RelayInv, HandInv
<1>7. ASSUME NEW v \in Worker, v # w
      PROVE  /\ PlaceOK(v)' /\ RelayInv(v)' /\ HandInv(v)'
             /\ pc'[v] = "record" => pc[v] = "record" /\ DutyOf(v)' \in done
                                     /\ DutyOf(v)' = DutyOf(v)
  <2>1. pc'[v] = pc[v] /\ hand'[v] = hand[v] /\ batch'[v] = batch[v]
    BY <1>0, <1>1, <1>7 DEF WorkTypes
  <2>2. PlaceOK(v) /\ HandInv(v)
    BY Parts
  <2>3. PlaceOK(v)' /\ RelayInv(v)' /\ HandInv(v)'
    BY <1>1, <1>3, <2>1, UnmovedKeeps
  <2>4. DutyOf(v)' = DutyOf(v)
    BY <1>1, <2>1 DEF DutyOf
  <2> QED
    BY <2>1, <2>2, <2>3, <2>4 DEF HandInv
<1>8. OneRecorder'
  <2> SUFFICES ASSUME NEW u \in Worker, NEW v \in Worker, pc'[u] = "record",
                      pc'[v] = "record", DutyOf(u)' = DutyOf(v)', u # v
               PROVE  FALSE
    BY DEF OneRecorder
  <2>1. CASE u = w
    BY <1>2, <1>5, <1>7, <2>1
  <2>2. CASE v = w
    BY <1>2, <1>5, <1>7, <2>2
  <2>3. CASE u # w /\ v # w
    BY <1>0, <1>7, <2>3 DEF OneRecorder
  <2> QED
    BY <2>1, <2>2, <2>3
<1>9. MessageInv' /\ Disposed' /\ RunOnce'
  BY <1>0, <1>1 DEF MessageInv, Disposed, RunOnce
<1>10. CopyInv'
  BY <1>0, <1>1, <1>2 DEF CopyInv, Copies
<1>11. RowInv'
  BY <1>0, <1>1 DEF RowInv, Given, Copies
<1> QED
  BY <1>3, <1>4, <1>6, <1>7, <1>8, <1>9, <1>10, <1>11, TypeGroupsNext DEF StepOK, IInv

LEMMA RecordRunStep ==
    ASSUME IInv, NEW w \in Worker, RecordRun(w)
    PROVE  StepOK
<1>d. PICK d \in Duty : d = DutyOf(w)
  BY Parts DEF HandInv, RecordRun
<1>0. /\ StoreTypes /\ LooseTypes /\ WorkTypes /\ MessageInv /\ RowInv /\ CopyInv
      /\ Disposed /\ RunOnce /\ LeaseInv /\ OneRecorder
      /\ PlaceOK(w) /\ RelayInv(w) /\ HandInv(w)
  BY Parts DEF IInv
<1>1. /\ UNCHANGED <<row, bus, body, home, place, done, ledger>>
      /\ UNCHANGED <<receives, inflight, lease, reopens, crashes, lapses>>
      /\ UNCHANGED <<hand, batch, stale, held>>
      /\ pc[w] = "record" /\ pc' = [pc EXCEPT ![w] = "ack"]
      /\ runs' = [runs EXCEPT ![d] = @ + 1]
  BY <1>d DEF RecordRun, Goto, queueVars, boundVars
<1>2. hand[w] # NoMessage /\ d \in done /\ runs[d] = 0
  BY <1>0, <1>1, <1>d DEF PlaceOK, HandInv
<1>3. Grows /\ NoJump
  BY <1>0, <1>1 DEF Grows, NoJump, MessageInv
<1>4. WorkTypes' /\ StoreTypes' /\ LooseTypes' /\ LeaseInv'
  BY <1>0, <1>1 DEF WorkTypes, StoreTypes, LooseTypes, LeaseInv
<1>5. DutyOf(w)' = d
  BY <1>1, <1>d DEF DutyOf
<1>6. PlaceOK(w)' /\ RelayInv(w)' /\ HandInv(w)' /\ pc'[w] = "ack"
  <2>1. pc'[w] = "ack"
    BY <1>0, <1>1 DEF WorkTypes
  <2> QED
    BY <1>0, <1>1, <1>2, <1>5, <2>1 DEF PlaceOK, RelayInv, HandInv
<1>7. ASSUME NEW v \in Worker, v # w
      PROVE  /\ PlaceOK(v)' /\ RelayInv(v)' /\ HandInv(v)'
             /\ pc'[v] = "record" => pc[v] = "record" /\ DutyOf(v)' = DutyOf(v)
  <2>1. pc'[v] = pc[v] /\ hand'[v] = hand[v] /\ batch'[v] = batch[v]
    BY <1>0, <1>1, <1>7 DEF WorkTypes
  <2>2. pc[v] = "record" => DutyOf(v) # d
    BY <1>0, <1>1, <1>7, <1>d DEF OneRecorder
  <2>3. pc[v] = "record" => runs'[DutyOf(v)] = runs[DutyOf(v)]
    <3>1. pc[v] = "record" => DutyOf(v) \in Duty
      BY Parts DEF HandInv
    <3> QED
      BY <1>0, <1>1, <2>2, <3>1 DEF StoreTypes
  <2>4. PlaceOK(v)' /\ RelayInv(v)' /\ HandInv(v)'
    BY <1>3, <2>1, <2>3, UnmovedKeeps
  <2> QED
    BY <1>1, <2>1, <2>4 DEF DutyOf
<1>8. OneRecorder'
  BY <1>0, <1>6, <1>7 DEF OneRecorder
<1>9. MessageInv' /\ Disposed' /\ CopyInv'
  BY <1>0, <1>1 DEF MessageInv, Disposed, CopyInv, Copies
<1>10. RunOnce'
  BY <1>0, <1>1, <1>2 DEF RunOnce, StoreTypes
<1>11. RowInv'
  BY <1>0, <1>1 DEF RowInv, Given, Copies
<1> QED
  BY <1>3, <1>4, <1>6, <1>7, <1>8, <1>9, <1>10, <1>11, TypeGroupsNext DEF StepOK, IInv

(* An entry is made in the deferred ledger, or stays.                      *)
LEMMA LedgerStep ==
    ASSUME IInv, UNCHANGED <<row, bus, body, home, place, done, runs>>,
           ledger' \in [Channel \X Message -> Status],
           \A m \in Message, c \in Channel :
              \/ ledger'[<<c, m>>] = ledger[<<c, m>>]
              \/ place[m] # "unsent" /\ ledger'[<<c, m>>] # "none",
           \A m \in Message, c \in Channel : ledger'[<<c, m>>] = "rerouted" =>
              /\ Kind[body[m]] = "command"
              /\ \E n \in Message : m < n /\ body[n] = body[m],
           LooseTypes', LeaseInv',
           NEW W \in SUBSET Worker, Moves(W), \A w \in W : pc'[w] # "record"
    PROVE  StepOK
<1>0. StoreTypes /\ MessageInv /\ RowInv /\ CopyInv /\ Disposed /\ RunOnce
  BY Parts DEF IInv
<1>1. Grows /\ NoJump
  BY <1>0 DEF Grows, NoJump, MessageInv
<1>2. /\ \A v \in Worker : PlaceOK(v)' /\ RelayInv(v)' /\ HandInv(v)'
      /\ OneRecorder'
  BY <1>1, WorkersKeep
<1>3. StoreTypes' /\ RunOnce'
  BY <1>0 DEF StoreTypes, RunOnce
<1>4. MessageInv'
  BY <1>0 DEF MessageInv
<1>5. Disposed'
  BY <1>0 DEF Disposed
<1>6. CopyInv'
  BY <1>0 DEF CopyInv, Copies
<1>7. RowInv'
  BY <1>0 DEF RowInv, Given, Copies
<1> QED
  BY <1>1, <1>2, <1>3, <1>4, <1>5, <1>6, <1>7, TypeGroupsNext DEF StepOK, IInv, Moves

LEMMA DeferStep ==
    ASSUME IInv, NEW w \in Worker, Defer(w)
    PROVE  StepOK
<1>m. PICK m \in Message : m = hand[w] /\ place[m] # "unsent"
  BY Parts DEF PlaceOK, HandInv, WorkTypes, Defer
<1>0. /\ StoreTypes /\ LooseTypes /\ WorkTypes /\ LeaseInv /\ CopyInv /\ MessageInv
      /\ PlaceOK(w) /\ HandInv(w)
  BY Parts DEF IInv
<1>1. /\ UNCHANGED <<row, bus, body, home, place, done, runs>>
      /\ UNCHANGED <<receives, inflight, lease, reopens, crashes, lapses>>
      /\ UNCHANGED <<hand, batch, stale, held>>
      /\ pc[w] = "defer" /\ pc' = [pc EXCEPT ![w] = "ack"]
      /\ \E s \in {"deferred", "quarantined"} :
            ledger' = [ledger EXCEPT ![<<"sqs", m>>] = IF @ # "none" THEN @ ELSE s]
  BY <1>m DEF Defer, Record, Goto, queueVars, deliveryVars, boundVars
<1>k. <<"sqs", m>> \in Channel \X Message
  BY DEF Channel
<1>2. ledger' \in [Channel \X Message -> Status]
  BY <1>0, <1>1, <1>k DEF StoreTypes, Status
<1>3. /\ ledger'[<<"sqs", m>>] # "none"
      /\ \A n \in Message, c \in Channel :
            \/ ledger'[<<c, n>>] = ledger[<<c, n>>]
            \/ /\ c = "sqs" /\ n = m /\ ledger[<<c, n>>] = "none"
               /\ ledger'[<<c, n>>] \in {"deferred", "quarantined"}
  BY <1>0, <1>1, <1>k DEF StoreTypes
<1>4. ASSUME NEW n \in Message, NEW c \in Channel
      PROVE  \/ ledger'[<<c, n>>] = ledger[<<c, n>>]
             \/ place[n] # "unsent" /\ ledger'[<<c, n>>] # "none"
  BY <1>3, <1>m
<1>5. \A n \in Message, c \in Channel : ledger'[<<c, n>>] = "rerouted" =>
         /\ Kind[body[n]] = "command"
         /\ \E k \in Message : n < k /\ body[k] = body[n]
  BY <1>0, <1>3 DEF CopyInv
<1>6. WorkTypes' /\ LooseTypes' /\ LeaseInv' /\ pc'[w] = "ack"
  BY <1>0, <1>1 DEF WorkTypes, LooseTypes, LeaseInv
<1>7. PlaceOK(w)' /\ RelayInv(w)' /\ HandInv(w)'
  BY <1>0, <1>1, <1>3, <1>6, <1>m DEF PlaceOK, RelayInv, HandInv
<1>8. Moves({w})
  BY <1>0, <1>1, <1>6, <1>7 DEF Moves, WorkTypes
<1> QED
  BY <1>1, <1>2, <1>4, <1>5, <1>6, <1>8, LedgerStep

-----------------------------------------------------------------------------
(* Every step keeps the invariant, and takes nothing back.                 *)
LEMMA NextStep ==
    ASSUME IInv, Next
    PROVE  StepOK
<1>1. ASSUME NEW w \in Worker, Relay(w)
      PROVE  StepOK
  BY <1>1, RelayControl, StampingSteps, SendStep DEF Relay
<1>2. ASSUME NEW w \in Worker, Consume(w)
      PROVE  StepOK
  <2>1. CASE ReceiveNothing(w)
    BY <2>1, RelayControl
  <2>2. CASE \E m \in Message : Receive(w, m)
    BY <2>2, ReceiveStep
  <2>3. CASE Claim(w) \/ ClaimCompleted(w) \/ Succeed(w)
    BY <2>3, GoOnSteps
  <2>4. CASE ClaimBusy(w) \/ Retain(w) \/ Fail(w)
    BY <2>4, GiveUpSteps
  <2>5. CASE Defer(w)
    BY <2>5, DeferStep
  <2>6. CASE Finish(w)
    BY <2>6, FinishStep
  <2>7. CASE RecordRun(w)
    BY <2>7, RecordRunStep
  <2>8. CASE Acknowledge(w)
    BY <2>8, AcknowledgeStep
  <2> QED
    BY <1>2, <2>1, <2>2, <2>3, <2>4, <2>5, <2>6, <2>7, <2>8 DEF Consume
<1>3. CASE Ask
  BY <1>3, AskingSteps, ArrivingSteps DEF Ask
<1>4. CASE Transport
  BY <1>4, ArrivingSteps, RedriveStep, TimeoutSteps DEF Transport
<1>5. CASE Break
  BY <1>5, TimeoutSteps, GiveUpSteps DEF Break
<1> QED
  BY <1>1, <1>2, <1>3, <1>4, <1>5 DEF Next

LEMMA Stuttering ==
    ASSUME IInv, UNCHANGED vars
    PROVE  StepOK
<1>0. LooseTypes /\ WorkTypes /\ LeaseInv
  BY Parts DEF IInv
<1>1. UNCHANGED Store /\ LooseTypes' /\ LeaseInv'
  BY <1>0 DEF vars, queueVars, deliveryVars, workerVars, boundVars, Store, LooseTypes, LeaseInv
<1>2. Moves({})
  BY <1>0 DEF Moves, WorkTypes, vars, workerVars
<1> QED
  BY <1>1, <1>2, StillStep

LEMMA InitInv == Init => IInv
<1> SUFFICES ASSUME Init PROVE IInv
  OBVIOUS
<1> USE DEF Init
<1>0. /\ {MaxReceives, MaxReopens, MaxCrashes, MaxLapses} \subseteq Nat
      /\ \A m \in Message : m # NoMessage
  BY ConstantsAssumption, Messages
<1>1. StoreTypes
  BY DEF StoreTypes, Status
<1>2. LooseTypes
  BY <1>0 DEF LooseTypes
<1>3. WorkTypes /\ \A w \in Worker : PlaceOK(w)
  BY DEF WorkTypes, PlaceOK, Start
<1>4. MessageInv /\ RowInv /\ CopyInv /\ Disposed
  BY DEF MessageInv, RowInv, CopyInv, Disposed, Channel
<1>5. \A w \in Worker : RelayInv(w) /\ HandInv(w)
  BY DEF RelayInv, HandInv, Start
<1>6. OneRecorder /\ LeaseInv /\ RunOnce
  BY DEF OneRecorder, LeaseInv, RunOnce, Start
<1> QED
  BY <1>1, <1>2, <1>3, <1>4, <1>5, <1>6, TypeGroups DEF IInv

LEMMA Invariance == Spec => []IInv
<1>1. IInv /\ [Next]_vars => IInv'
  BY NextStep, Stuttering DEF StepOK
<1> QED
  BY InitInv, <1>1, PTL DEF Spec

(* Rows, messages, deliveries and workers stay in their domains.           *)
THEOREM TypeCorrect == Spec => []TypeOK
<1>1. IInv => TypeOK
  BY DEF IInv
<1> QED
  BY Invariance, <1>1, PTL

(* handle_envelope acknowledges after finish_delivery or defer_message     *)
(* committed: what left its queue is completed or in the deferred ledger.  *)
THEOREM DisposedAlways == Spec => []Disposed
<1>1. IInv => Disposed
  BY DEF IInv
<1> QED
  BY Invariance, <1>1, PTL

(* finish_delivery applies to the lease its caller still holds: a delivery *)
(* completes, and is recorded in runs, at most once.                       *)
THEOREM RunsOnce == Spec => []RunOnce
<1>1. IInv => RunOnce
  BY DEF IInv
<1> QED
  BY Invariance, <1>1, PTL

-----------------------------------------------------------------------------
(* The plane implements EventLedger.                                       *)

(* A duty with a copy, and a duty with an entry, has been asked for.       *)
LEMMA CopiedIsAsked ==
    ASSUME IInv, NEW d \in Duty, Copies(d) # {}
    PROVE  Asked(d)
<1>1. PICK m \in Copies(d) : m \in Message /\ place[m] # "unsent" /\ body[m] = d[2]
  BY CopiesSent
<1> QED
  BY <1>1 DEF Asked, IInv, MessageInv

(* The last copy of a duty has no entry that sent it on: it is on a queue, *)
(* or it was disposed of for good.                                         *)
LEMMA LastCopy ==
    ASSUME IInv, NEW d \in Duty, Copies(d) # {}, d \notin done, ~Aside(d)
    PROVE  Carried(d)
<1>0. StoreTypes /\ CopyInv /\ Disposed
  BY Parts DEF IInv
<1>1. Copies(d) \in SUBSET Message
  BY DEF Copies
<1>2. PICK m \in Copies(d) : \A n \in Copies(d) : n <= m
  BY <1>1, GreatestMessage
<1>3. m \in Message /\ place[m] # "unsent" /\ body[m] = d[2]
  BY CopiesSent
<1>4. \A f \in Consumers[d[2]] : Kind[d[2]] = "command" => f = d[1]
  BY Duties, Consumed
<1>5. Kind[d[2]] = "command" \/ home[m] = d[1]
  BY DEF Copies
<1>6. place[m] # "gone"
  <2> SUFFICES ASSUME place[m] = "gone" PROVE FALSE
    OBVIOUS
  <2>1. <<home[m], body[m]>> \notin done
    <3> SUFFICES ASSUME <<home[m], body[m]>> \in done PROVE FALSE
      OBVIOUS
    <3>1. home[m] \in Consumers[d[2]]
      BY <1>0, <1>3 DEF StoreTypes, Duty
    <3>2. home[m] = d[1]
      BY <1>4, <1>5, <3>1
    <3> QED
      BY <1>3, <3>2, Duties
  <2>2. PICK c \in Channel : ledger[<<c, m>>] # "none"
    BY <1>0, <1>3, <2>1 DEF Disposed
  <2>3. ledger[<<c, m>>] \notin {"deferred", "quarantined"}
    BY DEF Aside
  <2>4. ledger[<<c, m>>] = "rerouted"
    BY <1>0, <1>3, <2>2, <2>3 DEF StoreTypes, Status
  <2>5. PICK n \in Message : m < n /\ body[n] = body[m]
    BY <1>0, <1>3, <2>4 DEF CopyInv
  <2>6. n \in Copies(d)
    BY <1>0, <1>3, <2>4, <2>5 DEF Copies, CopyInv
  <2> QED
    BY <1>2, <1>3, <2>5, <2>6, Messages
<1> QED
  BY <1>0, <1>3, <1>6 DEF Carried, StoreTypes

(* A duty that is open is carried, and one nobody asked for is not.        *)
Accounted ==
    \A d \in Duty :
        /\ Fate(d) = "open" => Carried(d)
        /\ Fate(d) = "unasked" => ~Carried(d)

LEMMA IsAccounted ==
    ASSUME IInv
    PROVE  Accounted
<1>0. StoreTypes /\ MessageInv /\ RowInv
  BY Parts DEF IInv
<1>1. ASSUME NEW d \in Duty, Fate(d) = "open"
      PROVE  Carried(d)
  <2>1. d \notin done /\ ~Aside(d) /\ Asked(d)
    BY <1>1 DEF Fate
  <2>2. CASE Copies(d) # {}
    BY <2>1, <2>2, LastCopy
  <2>3. CASE Copies(d) = {}
    <3>1. d[2] \in Event /\ row[d[2]] # "absent"
      BY <2>1, <2>3 DEF Asked
    <3>2. row[d[2]] \in {"open", "sent"}
      <4>1. Kind[d[2]] \in {"command", "layer"}
        BY Duties, Consumed
      <4> QED
        BY <1>0, <3>1, <4>1 DEF RowInv, StoreTypes
    <3>3. row[d[2]] = "sent" => <<d[2], d[1]>> \in bus
      BY <1>0, <2>3, <3>1 DEF RowInv, Given
    <3> QED
      BY <3>1, <3>2, <3>3 DEF Carried
  <2> QED
    BY <2>2, <2>3
<1>2. ASSUME NEW d \in Duty, Fate(d) = "unasked"
      PROVE  ~Carried(d)
  <2>1. ~Asked(d)
    BY <1>2 DEF Fate
  <2>2. Copies(d) = {}
    BY <2>1, CopiedIsAsked
  <2>3. d[2] \in Event => row[d[2]] = "absent"
    BY <2>1 DEF Asked
  <2>4. d[2] \in Event => <<d[2], d[1]>> \notin bus
    BY <1>0, <2>3 DEF RowInv
  <2> QED
    BY <2>2, <2>3, <2>4 DEF Carried
<1> QED
  BY <1>1, <1>2 DEF Accounted

LEMMA AskedKept ==
    ASSUME IInv, Grows, NEW d \in Duty, Asked(d)
    PROVE  Asked(d)'
<1>1. CASE d[2] \in Event
  BY <1>1 DEF Asked, Grows
<1>2. CASE d[2] \notin Event
  BY <1>2, CopiesKept DEF Asked
<1> QED
  BY <1>1, <1>2

(* A step of the plane takes each duty where EventLedger lets it go.       *)
LEMMA FateStep ==
    ASSUME IInv, StepOK, NEW d \in Duty
    PROVE  Fate(d)' \in Ledger!After(Fate(d))
<1>0. Grows /\ NoJump
  BY DEF StepOK
<1>1. CASE d \in done
  BY <1>0, <1>1 DEF Grows, Fate, Ledger!After
<1>2. CASE d \notin done /\ Asked(d)
  <2>1. Asked(d)'
    BY <1>0, <1>2, AskedKept
  <2>2. Fate(d) \in {"aside", "open"} /\ Fate(d)' \in {"aside", "open", "done"}
    BY <1>2, <2>1 DEF Fate
  <2> QED
    BY <2>2 DEF Ledger!After
<1>3. CASE d \notin done /\ ~Asked(d)
  <2>1. Copies(d) = {}
    BY <1>3, CopiedIsAsked
  <2>2. d \notin done'
    BY <1>0, <1>3, <2>1 DEF NoJump
  <2>3. ~Aside(d)
    BY <2>1 DEF Aside
  <2>4. ~Aside(d)'
    <3> SUFFICES ASSUME NEW m \in Message, NEW c \in Channel, m \in Copies(d)',
                        ledger'[<<c, m>>] # "none"
                 PROVE  FALSE
      BY DEF Aside, Copies
    <3>1. place[m] # "unsent"
      BY <1>0 DEF NoJump
    <3>2. body'[m] = body[m] /\ home'[m] = home[m]
      BY <1>0, <3>1 DEF Grows
    <3> QED
      BY <2>1, <3>2 DEF Copies
  <2>5. Fate(d) = "unasked" /\ Fate(d)' \in {"unasked", "open"}
    BY <1>3, <2>2, <2>3, <2>4 DEF Fate
  <2> QED
    BY <2>5 DEF Ledger!After
<1> QED
  BY <1>1, <1>2, <1>3

LEMMA StepImplements ==
    ASSUME IInv, StepOK, Accounted'
    PROVE  Ledger!Next
<1>1. \A d \in Duty : Fate(d)' \in {"unasked", "open", "aside", "done"}
  BY DEF Fate
<1>2. \A d \in Duty : Fate(d)' \in Ledger!After(Fate(d))
  BY FateStep
<1>3. \A d \in Duty : /\ Fate(d)' = "open" => Carried(d)'
                      /\ Fate(d)' = "unasked" => ~Carried(d)'
  BY DEF Accounted
<1> QED
  BY <1>1, <1>2, <1>3 DEF Ledger!Next

LEMMA InitImplements == Init => Ledger!Init
<1> SUFFICES ASSUME Init PROVE Ledger!Init
  OBVIOUS
<1>1. ASSUME NEW d \in Duty
      PROVE  Fate(d) = "unasked"
  <2>1. Copies(d) = {}
    BY Duties, Messages DEF Init, Copies
  <2> QED
    BY <2>1 DEF Init, Fate, Aside, Asked
<1>2. \A d \in Duty : ~Carried(d)
  BY <1>1, InitInv, IsAccounted DEF Accounted
<1> QED
  BY <1>1, <1>2 DEF Ledger!Init

(* No crash, refusal, redelivery or dead letter loses a duty that is       *)
(* neither completed nor in the deferred ledger, and none takes a          *)
(* completion back: the event plane implements EventLedger.                *)
THEOREM ImplementsLedger == Spec => LedgerSpec
<1>1. IInv => Accounted
  BY IsAccounted
<1>2. IInv /\ Accounted' /\ [Next]_vars => Ledger!Next
  BY NextStep, Stuttering, StepImplements
<1> QED
  BY Invariance, InitImplements, <1>1, <1>2, PTL DEF Spec, LedgerSpec, Ledger!Spec

=============================================================================
