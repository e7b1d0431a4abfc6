------------------------ MODULE QueueRecoveryProofs ------------------------
(***************************************************************************)
(* The recovery passes beside the running event plane, for any recoveries, *)
(* batches and bounds: nothing leaves a queue undisposed of, what its      *)
(* owner will consume is left to it, and plane and recovery together       *)
(* implement EventLedger.                                                  *)
(*                                                                         *)
(* The invariant of OutboxProofs is kept by every step of the recovery.    *)
(* What a pass knows of its batch is kept by every step of the plane: it   *)
(* says of messages that were sent, and of ledger entries that were made,  *)
(* what no step takes back.                                                *)
(***************************************************************************)
EXTENDS QueueRecovery, OutboxProofs

(* A pass holds messages that were sent, and deletes what has an entry.    *)
TodoInv ==
    \A r \in Recoverer : \A m \in todo[r] :
        /\ place[m] # "unsent"
        /\ rpc[r] = "delete" => ledger[<<channel[r], m>>] # "none"

(* A command drafted as sent home has a later copy.                        *)
Later(m) ==
    /\ Kind[body[m]] = "command"
    /\ \E n \in Message : m < n /\ body[n] = body[m]

Homeward(r, m) == <<m, "rerouted">> \in draft[r] \/ <<m, "sent">> \in draft[r]

DraftInv ==
    \A r \in Recoverer : \A m \in Message : Homeward(r, m) => Later(m)

(* A command on its owner's queue, sent whole and not held.                *)
Own(m) ==
    /\ place[m] # "unsent"
    /\ Kind[body[m]] = "command" /\ body[m] \notin Held \cup Reference
    /\ home[m] \in Consumers[body[m]]

(* Nobody defers it, no pass over a fleet queue takes it up, and it has no *)
(* entry of that channel.                                                  *)
OwnInv ==
    \A m \in Message : Own(m) =>
        /\ ledger[<<"sqs", m>>] = "none"
        /\ \A r \in Recoverer : channel[r] = "sqs" => m \notin todo[r]
        /\ \A w \in Worker : pc[w] = "defer" => hand[w] # m

RInv ==
    /\ IInv
    /\ RecoveryTypeOK
    /\ TodoInv
    /\ DraftInv
    /\ OwnInv

-----------------------------------------------------------------------------
(* What a step of the plane does to the deferred ledger and to the queues. *)
Defers ==
    \A w \in Worker : pc'[w] = "defer" =>
        \/ pc[w] = "defer" /\ hand'[w] = hand[w]
        \/ hand'[w] \in Message /\ place[hand'[w]] = "queue" /\ Deferred(w, body[hand'[w]])
           /\ home[hand'[w]] = FleetOf[w]

Records == ledger' = ledger \/ \E w \in Worker : pc[w] = "defer" /\ Record(hand[w])

Deletes ==
    \A m \in Message : place[m] = "queue" /\ place'[m] = "gone" =>
        \E w \in Worker : pc[w] = "ack" /\ hand[w] = m

Effects == Defers /\ Records /\ Deletes

LEMMA MovedEffects ==
    ASSUME WorkTypes, NEW w \in Worker, NEW p, p # "defer",
           pc' = [pc EXCEPT ![w] = p],
           hand' = hand \/ hand' = [hand EXCEPT ![w] = NoMessage],
           UNCHANGED <<place, ledger>>
    PROVE  Effects
<1>1. Defers
  BY DEF Defers, WorkTypes
<1>2. Records /\ Deletes
  BY DEF Records, Deletes
<1> QED
  BY <1>1, <1>2 DEF Effects

LEMMA StoredEffects ==
    ASSUME UNCHANGED <<pc, hand, ledger>>,
           \A m \in Message : place[m] = "queue" => place'[m] # "gone"
    PROVE  Effects
BY DEF Effects, Defers, Records, Deletes

LEMMA RelayEffects ==
    ASSUME IInv, NEW w \in Worker, Relay(w)
    PROVE  Effects
<1>0. StoreTypes /\ WorkTypes
  BY Parts
<1>1. /\ UNCHANGED <<ledger, hand>>
      /\ \E p \in {"poll", "relay", "loop", "stamp"} : pc' = [pc EXCEPT ![w] = p]
  BY DEF Relay, SelectRows, Keep, Send, Refuse, Stamp, Advance, Goto
<1>2. \/ place' = place
      \/ \E m \in Message : place' = [place EXCEPT ![m] = "queue"]
  BY DEF Relay, SelectRows, Keep, Send, Refuse, Stamp, Put, queueVars
<1>3. Defers
  BY <1>0, <1>1 DEF Defers, WorkTypes
<1>4. Records /\ Deletes
  BY <1>0, <1>1, <1>2 DEF Records, Deletes, StoreTypes
<1> QED
  BY <1>3, <1>4 DEF Effects

LEMMA ConsumeEffects ==
    ASSUME IInv, NEW w \in Worker, Consume(w)
    PROVE  Effects
<1>0. StoreTypes /\ WorkTypes
  BY Parts
<1>1. CASE \E m \in Message : Receive(w, m)
  <2>1. PICK m \in Message : Receive(w, m)
    BY <1>1
  <2>2. Defers
    BY <1>0, <2>1 DEF Defers, WorkTypes, Receive, Receivable, Visible, Goto
  <2>3. Records /\ Deletes
    BY <2>1 DEF Records, Deletes, Receive
  <2> QED
    BY <2>2, <2>3 DEF Effects
<1>2. CASE Defer(w)
  <2>1. Defers
    BY <1>0, <1>2 DEF Defers, WorkTypes, Defer, Goto
  <2>2. Records /\ Deletes
    BY <1>2 DEF Records, Deletes, Defer, queueVars
  <2> QED
    BY <2>1, <2>2 DEF Effects
<1>3. CASE Acknowledge(w)
  <2>1. Defers
    BY <1>0, <1>3 DEF Defers, WorkTypes, Acknowledge, Drop, Goto, Start
  <2>2. Records /\ Deletes
    BY <1>0, <1>3 DEF Records, Deletes, Acknowledge, StoreTypes
  <2> QED
    BY <2>1, <2>2 DEF Effects
<1>4. CASE \/ ReceiveNothing(w) \/ Claim(w) \/ ClaimCompleted(w) \/ Succeed(w)
           \/ Finish(w) \/ RecordRun(w)
  <2>1. PICK p \in {"loop", "work", "ack", "finish", "record"} :
          UNCHANGED <<place, ledger, hand>> /\ pc' = [pc EXCEPT ![w] = p]
    BY <1>4 DEF ReceiveNothing, Claim, ClaimCompleted, Succeed, Finish, RecordRun, Goto,
                queueVars
  <2> QED
    BY <1>0, <2>1, MovedEffects
<1>5. CASE ClaimBusy(w) \/ Fail(w) \/ Retain(w)
  <2>1. /\ UNCHANGED <<place, ledger>>
        /\ pc' = [pc EXCEPT ![w] = Start(w)] /\ Start(w) # "defer"
        /\ hand' = [hand EXCEPT ![w] = NoMessage]
    BY <1>5 DEF ClaimBusy, Fail, Retain, Drop, Goto, queueVars, Start
  <2> QED
    BY <1>0, <2>1, MovedEffects
<1> QED
  BY <1>1, <1>2, <1>3, <1>4, <1>5 DEF Consume

LEMMA NextEffects ==
    ASSUME IInv, Next
    PROVE  Effects
<1>0. StoreTypes /\ WorkTypes
  BY Parts
<1>1. CASE Ask \/ \E e \in Event, f \in Fleet : Deliver(e, f)
  <2>1. UNCHANGED <<pc, hand, ledger>>
    BY <1>1 DEF Ask, Emit, Reopen, Arrive, Deliver, workerVars
  <2>2. \/ place' = place
        \/ \E m \in Message : place' = [place EXCEPT ![m] = "queue"]
    BY <1>1 DEF Ask, Emit, Reopen, Arrive, Deliver, Put, queueVars
  <2> QED
    BY <1>0, <2>1, <2>2, StoredEffects DEF StoreTypes
<1>2. CASE \E m \in Message : Redrive(m) \/ Reappear(m)
  <2>1. UNCHANGED <<pc, hand, ledger>>
    BY <1>2 DEF Redrive, Reappear, workerVars
  <2>2. place' = place \/ \E m \in Message : place' = [place EXCEPT ![m] = "dlq"]
    BY <1>2 DEF Redrive, Reappear
  <2> QED
    BY <1>0, <2>1, <2>2, StoredEffects DEF StoreTypes
<1>3. CASE \/ \E d \in Duty : ExpireLease(d) \/ LapseLease(d)
           \/ \E w \in Worker : LapseMessage(w)
  <2>1. UNCHANGED <<pc, hand, ledger, place>>
    BY <1>3 DEF ExpireLease, LapseLease, LapseMessage, queueVars, workerVars
  <2> QED
    BY <2>1, StoredEffects
<1>4. CASE \E w \in Worker : Crash(w) \/ LiftHold(w)
  <2>1. PICK w \in Worker :
          /\ UNCHANGED <<place, ledger>>
          /\ pc' = [pc EXCEPT ![w] = Start(w)] /\ Start(w) # "defer"
          /\ hand' = [hand EXCEPT ![w] = NoMessage]
    BY <1>4 DEF Crash, LiftHold, Restart, queueVars, Start
  <2> QED
    BY <1>0, <2>1, MovedEffects
<1> QED
  BY <1>1, <1>2, <1>3, <1>4, RelayEffects, ConsumeEffects DEF Next, Transport, Break

-----------------------------------------------------------------------------
(* Type correctness of the passes, one by one.                             *)
PassTypes ==
    /\ rpc \in [Recoverer -> {"idle", "tx", "delete"}]
    /\ channel \in [Recoverer -> Channel]
    /\ todo \in [Recoverer -> SUBSET Message]
    /\ draft \in [Recoverer -> SUBSET (Message \X Draft)]
    /\ holding \in [Recoverer -> BOOLEAN]
    /\ passes \in 0..MaxPasses

BatchOK(r) ==
    /\ todo[r] = {} <=> rpc[r] = "idle"
    /\ Drafted(r) # {} => rpc[r] = "tx" /\ Drafted(r) \subseteq todo[r]
    /\ \A m \in Unresolved(r) : ledger[<<channel[r], m>>] # "none"

LEMMA PassGroups ==
    RecoveryTypeOK <=> PassTypes /\ \A r \in Recoverer : BatchOK(r)
BY DEF RecoveryTypeOK, PassTypes, BatchOK

LEMMA PassGroupsNext ==
    RecoveryTypeOK' <=> PassTypes' /\ \A r \in Recoverer : BatchOK(r)'
BY DEF RecoveryTypeOK, PassTypes, BatchOK

(* A batch that stays as it is stays in order beside any step.             *)
LEMMA BatchKept ==
    ASSUME PassTypes, Grows, NEW r \in Recoverer, BatchOK(r),
           rpc'[r] = rpc[r], channel'[r] = channel[r], todo'[r] = todo[r],
           draft'[r] = draft[r]
    PROVE  BatchOK(r)'
<1>1. Drafted(r)' = Drafted(r) /\ Unresolved(r)' = Unresolved(r)
  BY DEF Drafted, Unresolved
<1>2. \A m \in Unresolved(r) : ledger'[<<channel[r], m>>] # "none"
  BY DEF PassTypes, BatchOK, Grows, Unresolved
<1> QED
  BY <1>1, <1>2 DEF BatchOK

LEMMA IsDrafted ==
    ASSUME NEW r, NEW m, NEW e, <<m, e>> \in draft[r]
    PROVE  m \in Drafted(r)
BY DEF Drafted

(* One pass moves.                                                         *)
LEMMA OnePass ==
    ASSUME RecoveryTypeOK, Grows, NEW r \in Recoverer, PassTypes', BatchOK(r)',
           \A s \in Recoverer \ {r} :
              /\ rpc'[s] = rpc[s] /\ channel'[s] = channel[s]
              /\ todo'[s] = todo[s] /\ draft'[s] = draft[s]
    PROVE  RecoveryTypeOK'
<1>1. \A s \in Recoverer : BatchOK(s)'
  BY PassGroups, BatchKept
<1> QED
  BY <1>1, PassGroupsNext

-----------------------------------------------------------------------------
(* What a pass knows of its batch is kept.                                 *)
LEMMA LaterKept ==
    ASSUME IInv, Grows, NEW m \in Message, place[m] # "unsent", Later(m)
    PROVE  Later(m)'
<1>0. MessageInv
  BY DEF IInv
<1>1. PICK n \in Message : m < n /\ body[n] = body[m]
  BY DEF Later
<1>2. place[n] # "unsent"
  BY <1>0, <1>1, Messages DEF MessageInv
<1> QED
  BY <1>1, <1>2 DEF Later, Grows

LEMMA BatchesKept ==
    ASSUME RInv, Grows,
           \A r \in Recoverer : \A m \in todo'[r] :
              /\ m \in Message /\ place[m] # "unsent"
              /\ rpc'[r] = "delete" => ledger'[<<channel'[r], m>>] # "none",
           \A r \in Recoverer : \A m \in Message :
              Homeward(r, m)' => Homeward(r, m) \/ Later(m)'
    PROVE  TodoInv' /\ DraftInv'
<1>1. TodoInv'
  BY DEF TodoInv, Grows
<1>2. DraftInv'
  <2> SUFFICES ASSUME NEW r \in Recoverer, NEW m \in Message,
                      Homeward(r, m)', Homeward(r, m)
               PROVE  Later(m)'
    BY DEF DraftInv
  <2>1. m \in todo[r]
    BY IsDrafted, PassGroups DEF RInv, BatchOK, Homeward
  <2>2. place[m] # "unsent" /\ Later(m)
    BY <2>1 DEF RInv, TodoInv, DraftInv
  <2> QED
    BY <2>2, LaterKept DEF RInv
<1> QED
  BY <1>1, <1>2

(* Nothing is the owner's that was not, but what is sent now.              *)
LEMMA OwnKept ==
    ASSUME RInv, Grows, NoJump,
           \A m \in Message : Own(m) => ledger'[<<"sqs", m>>] = ledger[<<"sqs", m>>],
           \A r \in Recoverer : channel'[r] = "sqs" =>
              \A m \in todo'[r] : place[m] # "unsent" /\ ~Own(m),
           \A w \in Worker : pc'[w] = "defer" =>
              place[hand'[w]] # "unsent" /\ ~Own(hand'[w])
    PROVE  OwnInv'
<1> SUFFICES ASSUME NEW m \in Message, Own(m)'
             PROVE  /\ ledger'[<<"sqs", m>>] = "none"
                    /\ \A r \in Recoverer : channel'[r] = "sqs" => m \notin todo'[r]
                    /\ \A w \in Worker : pc'[w] = "defer" => hand'[w] # m
  BY DEF OwnInv
<1>1. CASE place[m] = "unsent"
  BY <1>1 DEF NoJump, Channel
<1>2. CASE place[m] # "unsent"
  <2>1. Own(m)
    BY <1>2 DEF Own, Grows
  <2> QED
    BY <2>1 DEF RInv, OwnInv
<1> QED
  BY <1>1, <1>2

(* What the owner will consume, its worker does not defer.                 *)
LEMMA OwnIsHandled ==
    ASSUME IInv, NEW w \in Worker, NEW m \in Message, home[m] = FleetOf[w],
           Deferred(w, body[m])
    PROVE  ~Own(m)
BY DEF Own, Deferred

LEMMA DeferringKnown ==
    ASSUME RInv, NEW w \in Worker, pc[w] = "defer"
    PROVE  hand[w] \in Message /\ place[hand[w]] # "unsent" /\ ~Own(hand[w])
<1>1. hand[w] \in Message /\ place[hand[w]] # "unsent"
  BY Parts DEF RInv, PlaceOK, HandInv, WorkTypes
<1> QED
  BY <1>1 DEF RInv, OwnInv

RStepOK == StepOK /\ RInv'

(* The plane moves beside the recovery.                                    *)
LEMMA PlaneStep ==
    ASSUME RInv, Next, UNCHANGED recoveryVars
    PROVE  RStepOK
<1>1. IInv /\ StepOK /\ Grows /\ NoJump /\ Effects
  BY NextStep, NextEffects DEF RInv, StepOK
<1>2. UNCHANGED <<rpc, channel, todo, draft, holding, passes>>
  BY DEF recoveryVars
<1>3. RecoveryTypeOK'
  <2>1. PassTypes'
    BY <1>2, PassGroups DEF RInv, PassTypes
  <2>2. \A r \in Recoverer : BatchOK(r)'
    BY <1>1, <1>2, PassGroups, BatchKept DEF RInv
  <2> QED
    BY <2>1, <2>2, PassGroupsNext
<1>4. PassTypes
  BY PassGroups DEF RInv
<1>5. TodoInv' /\ DraftInv'
  <2>1. \A r \in Recoverer : channel[r] \in Channel /\ todo[r] \subseteq Message
    BY <1>4 DEF PassTypes
  <2>2. \A r \in Recoverer : \A m \in todo[r] :
           /\ m \in Message /\ place[m] # "unsent"
           /\ rpc[r] = "delete" => ledger'[<<channel[r], m>>] # "none"
    BY <1>1, <2>1 DEF RInv, TodoInv, Grows
  <2> QED
    BY <1>1, <1>2, <2>2, BatchesKept DEF Homeward
<1>6. OwnInv'
  <2>1. \A m \in Message : Own(m) => ledger'[<<"sqs", m>>] = ledger[<<"sqs", m>>]
    <3> SUFFICES ASSUME NEW m \in Message, Own(m),
                        NEW w \in Worker, pc[w] = "defer", Record(hand[w])
                 PROVE  ledger'[<<"sqs", m>>] = ledger[<<"sqs", m>>]
      BY <1>1 DEF Effects, Records
    <3>1. hand[w] # m
      BY DeferringKnown
    <3> QED
      BY <1>1, <3>1, Parts DEF Record, StoreTypes, Channel
  <2>2. \A r \in Recoverer : channel'[r] = "sqs" =>
           \A m \in todo'[r] : place[m] # "unsent" /\ ~Own(m)
    BY <1>2, <1>4 DEF RInv, TodoInv, OwnInv, PassTypes
  <2>3. \A w \in Worker : pc'[w] = "defer" =>
           place[hand'[w]] # "unsent" /\ ~Own(hand'[w])
    BY <1>1, DeferringKnown, OwnIsHandled DEF Effects, Defers
  <2> QED
    BY <1>1, <2>1, <2>2, <2>3, OwnKept
<1> QED
  BY <1>1, <1>3, <1>5, <1>6 DEF RStepOK, RInv, StepOK

-----------------------------------------------------------------------------
(* The steps of a pass.                                                    *)

LEMMA Waits ==
    ASSUME NEW q, NEW m \in Waiting(q)
    PROVE  /\ m \in Message /\ place[m] \in {"queue", "dlq"}
           /\ q # DeadLetters => home[m] = q /\ receives[m] < MaxReceives
BY DEF Waiting

LEMMA OwnHere ==
    ASSUME NEW m, NEW q, Own(m), home[m] = q
    PROVE  OwnedHere(body[m], q)
BY DEF Own, OwnedHere, Disposition

LEMMA PullStep ==
    ASSUME RInv, NEW r \in Recoverer, NEW q \in Fleet \cup {DeadLetters},
           NEW S \in SUBSET Message, Pull(r, q, S)
    PROVE  RStepOK
<1>0. /\ LooseTypes /\ WorkTypes /\ LeaseInv /\ PassTypes /\ BatchOK(r)
      /\ MaxReceives \in Nat /\ MaxPasses \in Nat
  BY Parts, PassGroups, RecoveryAssumption DEF RInv, IInv
<1>1. /\ UNCHANGED Store
      /\ UNCHANGED <<lease, pc, hand, batch, stale, held, reopens, crashes, lapses>>
      /\ UNCHANGED draft
      /\ rpc[r] = "idle" /\ passes < MaxPasses /\ passes' = passes + 1
      /\ S \subseteq Waiting(q)
      /\ inflight' = inflight \cup S
      /\ receives' = [m \in Message |->
            IF m \in S /\ q # DeadLetters THEN receives[m] + 1 ELSE receives[m]]
      /\ todo' = [todo EXCEPT ![r] = {m \in S : ~OwnedHere(body[m], q)}]
      /\ rpc' = [rpc EXCEPT ![r] =
            IF \A m \in S : OwnedHere(body[m], q) THEN "idle" ELSE "tx"]
      /\ channel' = [channel EXCEPT ![r] = IF q = DeadLetters THEN "dlq" ELSE "sqs"]
      /\ holding' = [holding EXCEPT ![r] = \E w \in held : FleetOf[w] = L0]
  BY DEF Pull, NothingLeft, Store, deliveryVars, workerVars, boundVars
<1>2. LooseTypes'
  <2>1. receives' \in [Message -> 0..MaxReceives]
    BY <1>0, <1>1, Waits DEF LooseTypes
  <2> QED
    BY <1>0, <1>1, <2>1 DEF LooseTypes
<1>3. StepOK
  <2>1. LeaseInv' /\ Moves({})
    BY <1>0, <1>1 DEF LeaseInv, Moves, WorkTypes, Store
  <2> QED
    BY <1>1, <1>2, <2>1, StillStep DEF RInv
<1>4. Drafted(r) = {} /\ Drafted(r)' = {} /\ Unresolved(r)' = {}
  <2>1. draft[r] = {} /\ draft'[r] = {}
    BY <1>0, <1>1 DEF BatchOK, Drafted
  <2> QED
    BY <2>1 DEF Drafted, Unresolved
<1>5. RecoveryTypeOK'
  <2>1. PassTypes'
    BY <1>0, <1>1 DEF PassTypes, Channel
  <2>2. BatchOK(r)'
    BY <1>0, <1>1, <1>4 DEF BatchOK, PassTypes
  <2>3. \A s \in Recoverer \ {r} :
           /\ rpc'[s] = rpc[s] /\ channel'[s] = channel[s]
           /\ todo'[s] = todo[s] /\ draft'[s] = draft[s]
    BY <1>0, <1>1 DEF PassTypes
  <2> QED
    BY <1>3, <2>1, <2>2, <2>3, OnePass DEF RInv, StepOK
<1>6. \A s \in Recoverer : \A m \in todo'[s] :
         /\ m \in Message /\ place[m] # "unsent"
         /\ rpc'[s] = "delete" => ledger'[<<channel'[s], m>>] # "none"
  <2> SUFFICES ASSUME NEW s \in Recoverer, NEW m \in todo'[s]
               PROVE  /\ m \in Message /\ place[m] # "unsent"
                      /\ rpc'[s] = "delete" => ledger'[<<channel'[s], m>>] # "none"
    OBVIOUS
  <2>1. CASE s = r
    BY <1>0, <1>1, <2>1, Waits DEF PassTypes
  <2>2. CASE s # r
    BY <1>0, <1>1, <2>2 DEF PassTypes, RInv, TodoInv, Store
  <2> QED
    BY <2>1, <2>2
<1>7. TodoInv' /\ DraftInv'
  BY <1>1, <1>3, <1>6, BatchesKept DEF StepOK, Homeward
<1>8. OwnInv'
  <2>1. \A s \in Recoverer : channel'[s] = "sqs" =>
           \A m \in todo'[s] : place[m] # "unsent" /\ ~Own(m)
    <3> SUFFICES ASSUME NEW s \in Recoverer, channel'[s] = "sqs", NEW m \in todo'[s]
                 PROVE  ~Own(m)
      BY <1>6
    <3>1. CASE s = r
      <4>1. q # DeadLetters /\ m \in Waiting(q) /\ ~OwnedHere(body[m], q)
        BY <1>0, <1>1, <3>1 DEF PassTypes
      <4> QED
        BY <4>1, Waits, OwnHere
    <3>2. CASE s # r
      BY <1>0, <1>1, <1>6, <3>2 DEF PassTypes, RInv, OwnInv
    <3> QED
      BY <3>1, <3>2
  <2>2. \A w \in Worker : pc'[w] = "defer" =>
           place[hand'[w]] # "unsent" /\ ~Own(hand'[w])
    BY <1>1, DeferringKnown
  <2> QED
    BY <1>1, <1>3, <2>1, <2>2, OwnKept DEF StepOK, Store
<1> QED
  BY <1>3, <1>5, <1>7, <1>8 DEF RStepOK, RInv, StepOK

(* Only a command is sent home; one that is not sent was sent before.      *)
LEMMA HomeIsCommand ==
    ASSUME NEW b, NEW h, Decided(b, h) = "rerouted"
    PROVE  Kind[b] = "command"
BY DEF Decided, Disposition

LEMMA DecidedType ==
    ASSUME NEW b, NEW h
    PROVE  Decided(b, h) \in Entry
BY DEF Decided, Disposition, Entry

LEMMA DisposeStep ==
    ASSUME RInv, NEW r \in Recoverer, NEW m \in Message, Dispose(r, m)
    PROVE  RStepOK
<1> DEFINE e == IF GoesHome(r, m) /\ Recorded(r, m) # "none"
                THEN "sent" ELSE Decided(body[m], holding[r])
<1>0. /\ StoreTypes /\ LooseTypes /\ WorkTypes /\ LeaseInv /\ PassTypes /\ BatchOK(r)
      /\ MessageInv /\ CopyInv
  BY Parts, PassGroups DEF RInv, IInv
<1>1. /\ UNCHANGED <<row, bus, done, runs, ledger, lease, reopens, crashes, lapses>>
      /\ UNCHANGED <<pc, hand, batch, stale, held>>
      /\ UNCHANGED <<rpc, channel, todo, holding, passes>>
      /\ rpc[r] = "tx" /\ m \in todo[r] /\ m \notin Drafted(r) /\ Unresolved(r) = {}
      /\ draft' = [draft EXCEPT ![r] = @ \cup {<<m, e>>}]
  BY DEF Dispose, deliveryVars, workerVars, boundVars
<1>2. /\ place[m] # "unsent" /\ body[m] \in Body
      /\ body[m] \in Event => row[body[m]] # "absent"
  BY <1>0, <1>1 DEF RInv, TodoInv, MessageInv
<1>3. Moves({})
  BY <1>0, <1>1 DEF Moves, WorkTypes
<1>4. StepOK /\ (e \in {"rerouted", "sent"} => Later(m)')
  <2>1. CASE GoesHome(r, m)
    <3>1. PICK f \in Consumers[body[m]] : Put(body[m], f)
      BY <2>1 DEF Dispose
    <3>2. PICK k \in Message : PutAs(k, body[m], f)
      BY <3>1, Putting
    <3>3. f \in Fleet
      BY <1>2, Consumed
    <3>4. StepOK
      BY <1>1, <1>2, <1>3, <3>2, <3>3, PutStep DEF RInv
    <3>5. m < k
      <4>1. m # k /\ place[k] = "unsent"
        BY <1>2, <3>2 DEF PutAs
      <4>2. ~(k < m)
        BY <1>0, <1>2, <4>1 DEF MessageInv
      <4> QED
        BY <4>1, <4>2, Messages
    <3>6. body'[m] = body[m] /\ body'[k] = body[m]
      BY <1>0, <3>2, <3>5, Messages DEF PutAs, StoreTypes
    <3>7. e \in {"rerouted", "sent"} => Later(m)'
      BY <2>1, <3>5, <3>6, HomeIsCommand DEF Later, GoesHome
    <3> QED
      BY <3>4, <3>7
  <2>2. CASE ~GoesHome(r, m)
    <3>1. UNCHANGED Store /\ UNCHANGED <<receives, inflight>>
      BY <1>1, <2>2 DEF Dispose, queueVars, Store
    <3>2. LooseTypes' /\ LeaseInv'
      BY <1>0, <1>1, <3>1 DEF LooseTypes, LeaseInv
    <3>3. StepOK
      BY <1>3, <3>1, <3>2, StillStep DEF RInv
    <3>4. e \in {"rerouted", "sent"} =>
             ledger[<<channel[r], m>>] = "rerouted" /\ channel[r] \in Channel
      BY <1>0, <2>2, DecidedType DEF GoesHome, Recorded, PassTypes, Entry
    <3>5. e \in {"rerouted", "sent"} => Later(m)'
      BY <1>0, <3>1, <3>4 DEF CopyInv, Later, Store
    <3> QED
      BY <3>3, <3>5
  <2> QED
    BY <2>1, <2>2
<1>5. e \in Draft /\ (e = "sent" => ledger[<<channel[r], m>>] # "none")
  BY DecidedType DEF Draft, Entry, Recorded
<1> HIDE DEF e
<1>6. Drafted(r)' = Drafted(r) \cup {m}
  <2>1. draft'[r] = draft[r] \cup {<<m, e>>} /\ <<m, e>>[1] = m
    BY <1>0, <1>1 DEF PassTypes
  <2> QED
    BY <2>1 DEF Drafted
<1>7. RecoveryTypeOK'
  <2>1. PassTypes'
    BY <1>0, <1>1, <1>5 DEF PassTypes
  <2>2. Unresolved(r)' \subseteq {m} /\ (m \in Unresolved(r)' => e = "sent")
    <3>1. draft'[r] = draft[r] \cup {<<m, e>>} /\ todo'[r] = todo[r]
      BY <1>0, <1>1 DEF PassTypes
    <3>2. <<m, "sent">> \notin draft[r]
      BY <1>1, IsDrafted
    <3> QED
      BY <1>1, <3>1, <3>2 DEF Unresolved
  <2>3. BatchOK(r)'
    BY <1>0, <1>1, <1>5, <1>6, <2>2 DEF BatchOK
  <2>4. \A s \in Recoverer \ {r} :
           /\ rpc'[s] = rpc[s] /\ channel'[s] = channel[s]
           /\ todo'[s] = todo[s] /\ draft'[s] = draft[s]
    BY <1>0, <1>1 DEF PassTypes
  <2> QED
    BY <1>4, <2>1, <2>3, <2>4, OnePass DEF RInv, StepOK
<1>8. TodoInv' /\ DraftInv'
  <2>1. \A s \in Recoverer : \A n \in todo[s] :
           /\ n \in Message /\ place[n] # "unsent"
           /\ rpc[s] = "delete" => ledger[<<channel[s], n>>] # "none"
    BY <1>0 DEF PassTypes, RInv, TodoInv
  <2>2. \A s \in Recoverer : \A n \in Message :
           Homeward(s, n)' => Homeward(s, n) \/ Later(n)'
    BY <1>0, <1>1, <1>4 DEF PassTypes, Homeward
  <2> QED
    BY <1>1, <1>4, <2>1, <2>2, BatchesKept DEF StepOK
<1>9. OwnInv'
  <2>1. \A s \in Recoverer : channel'[s] = "sqs" =>
           \A n \in todo'[s] : place[n] # "unsent" /\ ~Own(n)
    BY <1>0, <1>1 DEF PassTypes, RInv, TodoInv, OwnInv
  <2>2. \A w \in Worker : pc'[w] = "defer" =>
           place[hand'[w]] # "unsent" /\ ~Own(hand'[w])
    BY <1>1, DeferringKnown
  <2> QED
    BY <1>1, <1>4, <2>1, <2>2, OwnKept DEF StepOK
<1> QED
  BY <1>4, <1>7, <1>8, <1>9 DEF RStepOK, RInv, StepOK

(* An entry that was there is updated.                                     *)
LEMMA ResolveStep ==
    ASSUME RInv, NEW r \in Recoverer, NEW m \in Message, Resolve(r, m)
    PROVE  RStepOK
<1>0. PassTypes /\ BatchOK(r)
  BY PassGroups DEF RInv
<1>1. /\ UNCHANGED vars /\ UNCHANGED <<pc, hand, ledger, body, home, place>>
      /\ UNCHANGED <<rpc, channel, todo, holding, passes>>
      /\ m \in todo[r] /\ <<m, "sent">> \in draft[r]
      /\ draft' = [draft EXCEPT ![r] = (@ \ {<<m, "sent">>}) \cup {<<m, "rerouted">>}]
  BY DEF Resolve, Unresolved, vars, workerVars, queueVars
<1>2. StepOK
  BY <1>1, Stuttering DEF RInv
<1>3. draft'[r] = (draft[r] \ {<<m, "sent">>}) \cup {<<m, "rerouted">>}
  BY <1>0, <1>1 DEF PassTypes
<1>4. Drafted(r)' \subseteq Drafted(r) /\ Unresolved(r)' \subseteq Unresolved(r)
  <2>1. Drafted(r)' \subseteq Drafted(r)
    BY <1>1, <1>3 DEF Drafted
  <2>2. Unresolved(r)' \subseteq Unresolved(r)
    BY <1>1, <1>3 DEF Unresolved
  <2> QED
    BY <2>1, <2>2
<1>5. RecoveryTypeOK'
  <2>1. PassTypes'
    BY <1>0, <1>1 DEF PassTypes, Draft, Entry
  <2>2. BatchOK(r)'
    BY <1>0, <1>1, <1>4 DEF BatchOK
  <2>3. \A s \in Recoverer \ {r} :
           /\ rpc'[s] = rpc[s] /\ channel'[s] = channel[s]
           /\ todo'[s] = todo[s] /\ draft'[s] = draft[s]
    BY <1>0, <1>1 DEF PassTypes
  <2> QED
    BY <1>2, <2>1, <2>2, <2>3, OnePass DEF RInv, StepOK
<1>6. TodoInv' /\ DraftInv'
  <2>1. \A s \in Recoverer : \A n \in todo'[s] :
           /\ n \in Message /\ place[n] # "unsent"
           /\ rpc'[s] = "delete" => ledger'[<<channel'[s], n>>] # "none"
    BY <1>0, <1>1 DEF PassTypes, RInv, TodoInv
  <2>2. \A s \in Recoverer : \A n \in Message : Homeward(s, n)' => Homeward(s, n)
    BY <1>0, <1>1, <1>3 DEF PassTypes, Homeward
  <2> QED
    BY <1>2, <2>1, <2>2, BatchesKept DEF StepOK
<1>7. OwnInv'
  BY <1>1 DEF RInv, OwnInv, Own
<1> QED
  BY <1>2, <1>5, <1>6, <1>7 DEF RStepOK, RInv, StepOK

(* The commit inserts what was drafted.                                    *)
LEMMA CommitStep ==
    ASSUME RInv, NEW r \in Recoverer, Commit(r)
    PROVE  RStepOK
<1>0. /\ StoreTypes /\ LooseTypes /\ WorkTypes /\ LeaseInv /\ PassTypes /\ BatchOK(r)
      /\ CopyInv
  BY Parts, PassGroups DEF RInv, IInv
<1>1. /\ UNCHANGED <<row, bus, body, home, place, done, runs>>
      /\ UNCHANGED <<receives, inflight, lease, reopens, crashes, lapses>>
      /\ UNCHANGED <<pc, hand, batch, stale, held>>
      /\ UNCHANGED <<channel, todo, holding, passes>>
      /\ rpc[r] = "tx" /\ Drafted(r) = todo[r] /\ Unresolved(r) = {}
      /\ draft' = [draft EXCEPT ![r] = {}]
      /\ rpc' = [rpc EXCEPT ![r] = "delete"]
      /\ ledger' = [k \in Channel \X Message |->
            IF k[1] = channel[r] /\ <<k[2], "rerouted">> \in draft[r] THEN "rerouted"
            ELSE IF k[1] = channel[r] /\ k[2] \in Drafted(r) /\ ledger[k] = "none"
                 THEN (CHOOSE d \in draft[r] : d[1] = k[2])[2]
            ELSE ledger[k]]
  BY DEF Commit, queueVars, deliveryVars, workerVars, boundVars
<1>2. channel[r] \in Channel /\ todo[r] \subseteq Message
      /\ draft[r] \subseteq Message \X Entry
  <2>1. channel[r] \in Channel /\ todo[r] \subseteq Message
        /\ draft[r] \subseteq Message \X Draft
    BY <1>0 DEF PassTypes
  <2>2. \A m \in Message : <<m, "sent">> \notin draft[r]
    BY <1>1, IsDrafted DEF Unresolved
  <2> QED
    BY <2>1, <2>2 DEF Draft
<1>3. \A m \in Drafted(r) : (CHOOSE d \in draft[r] : d[1] = m)[2] \in Entry
  <2> SUFFICES ASSUME NEW m \in Drafted(r)
               PROVE  (CHOOSE d \in draft[r] : d[1] = m)[2] \in Entry
    OBVIOUS
  <2>1. \E d \in draft[r] : d[1] = m
    BY DEF Drafted
  <2>2. (CHOOSE d \in draft[r] : d[1] = m) \in draft[r]
    BY <2>1
  <2> QED
    BY <1>2, <2>2
<1>4. ASSUME NEW m \in Message, NEW c \in Channel
      PROVE  \/ ledger'[<<c, m>>] = ledger[<<c, m>>]
                /\ ~(c = channel[r] /\ m \in Drafted(r) /\ ledger[<<c, m>>] = "none")
             \/ /\ c = channel[r] /\ m \in Drafted(r)
                /\ ledger'[<<c, m>>] \in Entry
                /\ <<m, "rerouted">> \in draft[r] \/ ledger[<<c, m>>] = "none"
  <2>1. <<c, m>> \in Channel \X Message /\ <<c, m>>[1] = c /\ <<c, m>>[2] = m
    OBVIOUS
  <2>2. ledger'[<<c, m>>] =
            IF c = channel[r] /\ <<m, "rerouted">> \in draft[r] THEN "rerouted"
            ELSE IF c = channel[r] /\ m \in Drafted(r) /\ ledger[<<c, m>>] = "none"
                 THEN (CHOOSE d \in draft[r] : d[1] = m)[2]
            ELSE ledger[<<c, m>>]
    BY <1>1, <2>1
  <2>3. <<m, "rerouted">> \in draft[r] => m \in Drafted(r)
    BY IsDrafted
  <2> QED
    BY <1>3, <2>2, <2>3 DEF Entry
<1>5. \A m \in Message : m \in Drafted(r) => place[m] # "unsent"
  BY <1>1 DEF RInv, TodoInv
<1>6. ledger' \in [Channel \X Message -> Status]
  <2>1. \A m \in Message, c \in Channel : ledger'[<<c, m>>] \in Status
    BY <1>0, <1>4 DEF StoreTypes, Entry, Status
  <2>2. \A k \in Channel \X Message : ledger'[k] \in Status
    BY <2>1
  <2>3. ledger' = [k \in Channel \X Message |-> ledger'[k]]
    BY <1>1
  <2> QED
    BY <2>2, <2>3
<1>7. ASSUME NEW m \in Message, NEW c \in Channel, ledger'[<<c, m>>] = "rerouted"
      PROVE  Later(m)
  <2>1. ledger[<<c, m>>] = "rerouted" \/ <<m, "rerouted">> \in draft[r]
    <3>1. <<c, m>> \in Channel \X Message /\ <<c, m>>[1] = c /\ <<c, m>>[2] = m
      OBVIOUS
    <3>2. ASSUME m \in Drafted(r),
                 (CHOOSE d \in draft[r] : d[1] = m)[2] = "rerouted"
          PROVE  <<m, "rerouted">> \in draft[r]
      <4> DEFINE x == CHOOSE d \in draft[r] : d[1] = m
      <4>1. \E d \in draft[r] : d[1] = m
        BY <3>2 DEF Drafted
      <4>2. x \in draft[r] /\ x[1] = m
        BY <4>1
      <4>3. x[2] = "rerouted"
        BY <3>2
      <4> HIDE DEF x
      <4>4. x = <<x[1], x[2]>>
        BY <1>2, <4>2
      <4> QED
        BY <4>2, <4>3, <4>4
    <3> QED
      BY <1>1, <1>7, <3>1, <3>2
  <2> QED
    BY <1>0, <2>1 DEF CopyInv, Later, RInv, DraftInv, Homeward
<1>8. StepOK
  <2>1. LooseTypes' /\ LeaseInv' /\ Moves({})
    BY <1>0, <1>1 DEF LooseTypes, LeaseInv, Moves, WorkTypes
  <2>2. \A m \in Message, c \in Channel :
           \/ ledger'[<<c, m>>] = ledger[<<c, m>>]
           \/ place[m] # "unsent" /\ ledger'[<<c, m>>] # "none"
    BY <1>4, <1>5 DEF Entry
  <2>3. \A m \in Message, c \in Channel : ledger'[<<c, m>>] = "rerouted" =>
           /\ Kind[body[m]] = "command"
           /\ \E n \in Message : m < n /\ body[n] = body[m]
    BY <1>7 DEF Later
  <2> QED
    BY <1>1, <1>6, <2>1, <2>2, <2>3, LedgerStep DEF RInv
<1>9. RecoveryTypeOK'
  <2>1. PassTypes' /\ draft'[r] = {} /\ rpc'[r] = "delete"
    BY <1>0, <1>1 DEF PassTypes
  <2>2. Drafted(r)' = {} /\ Unresolved(r)' = {}
    BY <2>1 DEF Drafted, Unresolved
  <2>3. BatchOK(r)'
    BY <1>0, <1>1, <2>1, <2>2 DEF BatchOK
  <2>4. \A s \in Recoverer \ {r} :
           /\ rpc'[s] = rpc[s] /\ channel'[s] = channel[s]
           /\ todo'[s] = todo[s] /\ draft'[s] = draft[s]
    BY <1>0, <1>1 DEF PassTypes
  <2> QED
    BY <1>8, <2>1, <2>3, <2>4, OnePass DEF RInv, StepOK
<1>10. TodoInv' /\ DraftInv'
  <2>1. ASSUME NEW s \in Recoverer, NEW m \in todo[s]
        PROVE  /\ m \in Message /\ place[m] # "unsent"
               /\ rpc'[s] = "delete" => ledger'[<<channel[s], m>>] # "none"
    <3>1. m \in Message /\ place[m] # "unsent" /\ channel[s] \in Channel
      BY <1>0 DEF PassTypes, RInv, TodoInv
    <3>2. CASE s = r
      BY <1>1, <1>4, <3>1, <3>2 DEF Entry
    <3>3. CASE s # r
      BY <1>0, <1>1, <1>8, <3>1, <3>3 DEF PassTypes, RInv, TodoInv, StepOK, Grows
    <3> QED
      BY <3>1, <3>2, <3>3
  <2>2. \A s \in Recoverer : \A m \in Message :
           Homeward(s, m)' => Homeward(s, m) \/ Later(m)'
    BY <1>0, <1>1 DEF PassTypes, Homeward
  <2> QED
    BY <1>1, <1>8, <2>1, <2>2, BatchesKept DEF StepOK
<1>11. OwnInv'
  <2>1. \A m \in Message : Own(m) => ledger'[<<"sqs", m>>] = ledger[<<"sqs", m>>]
    <3> SUFFICES ASSUME NEW m \in Message, Own(m)
                 PROVE  ledger'[<<"sqs", m>>] = ledger[<<"sqs", m>>]
      OBVIOUS
    <3>1. "sqs" = channel[r] => m \notin todo[r]
      BY DEF RInv, OwnInv
    <3> QED
      BY <1>1, <1>4, <3>1 DEF Channel
  <2>2. \A s \in Recoverer : channel'[s] = "sqs" =>
           \A n \in todo'[s] : place[n] # "unsent" /\ ~Own(n)
    BY <1>0, <1>1 DEF PassTypes, RInv, TodoInv, OwnInv
  <2>3. \A w \in Worker : pc'[w] = "defer" =>
           place[hand'[w]] # "unsent" /\ ~Own(hand'[w])
    BY <1>1, DeferringKnown
  <2> QED
    BY <1>8, <2>1, <2>2, <2>3, OwnKept DEF StepOK
<1> QED
  BY <1>8, <1>9, <1>10, <1>11 DEF RStepOK, RInv, StepOK

(* Messages leave a batch, deleted or not.                                 *)
LEMMA ShrinkStep ==
    ASSUME RInv, NEW r \in Recoverer, StepOK,
           UNCHANGED <<pc, hand, ledger, channel, holding, passes>>,
           rpc' \in [Recoverer -> {"idle", "tx", "delete"}],
           todo' \in [Recoverer -> SUBSET Message],
           draft' \in [Recoverer -> SUBSET (Message \X Draft)],
           \A s \in Recoverer \ {r} :
              rpc'[s] = rpc[s] /\ todo'[s] = todo[s] /\ draft'[s] = draft[s],
           todo'[r] \subseteq todo[r], draft'[r] = {},
           todo'[r] = {} <=> rpc'[r] = "idle",
           rpc'[r] = "delete" => rpc[r] = "delete"
    PROVE  RStepOK
<1>0. PassTypes
  BY PassGroups DEF RInv
<1>1. RecoveryTypeOK'
  <2>1. PassTypes' /\ Drafted(r)' = {} /\ Unresolved(r)' = {}
    BY <1>0 DEF PassTypes, Drafted, Unresolved
  <2>2. BatchOK(r)'
    BY <2>1 DEF BatchOK
  <2> QED
    BY <2>1, <2>2, OnePass DEF RInv, StepOK
<1>2. \A s \in Recoverer : /\ todo'[s] \subseteq todo[s] /\ draft'[s] \subseteq draft[s]
                           /\ rpc'[s] = "delete" => rpc[s] = "delete"
  OBVIOUS
<1>3. TodoInv' /\ DraftInv'
  <2>1. \A s \in Recoverer : \A m \in todo'[s] :
           /\ m \in Message /\ place[m] # "unsent"
           /\ rpc'[s] = "delete" => ledger'[<<channel'[s], m>>] # "none"
    BY <1>0, <1>2 DEF PassTypes, RInv, TodoInv
  <2>2. \A s \in Recoverer : \A m \in Message : Homeward(s, m)' => Homeward(s, m)
    BY <1>2 DEF Homeward
  <2> QED
    BY <2>1, <2>2, BatchesKept DEF StepOK
<1>4. OwnInv'
  <2>1. \A s \in Recoverer : channel'[s] = "sqs" =>
           \A n \in todo'[s] : place[n] # "unsent" /\ ~Own(n)
    <3> SUFFICES ASSUME NEW s \in Recoverer, channel[s] = "sqs", NEW n \in todo[s]
                 PROVE  place[n] # "unsent" /\ ~Own(n)
      BY <1>2
    <3>1. n \in Message
      BY <1>0 DEF PassTypes
    <3> QED
      BY <3>1 DEF RInv, TodoInv, OwnInv
  <2>2. \A w \in Worker : pc'[w] = "defer" =>
           place[hand'[w]] # "unsent" /\ ~Own(hand'[w])
    BY DeferringKnown
  <2> QED
    BY <2>1, <2>2, OwnKept DEF StepOK
<1> QED
  BY <1>1, <1>3, <1>4 DEF RStepOK, RInv, StepOK

LEMMA RemoveStep ==
    ASSUME RInv, NEW r \in Recoverer, NEW m \in Message, Remove(r, m)
    PROVE  RStepOK
<1>0. /\ LooseTypes /\ WorkTypes /\ LeaseInv /\ PassTypes /\ BatchOK(r)
  BY Parts, PassGroups DEF RInv, IInv
<1>1. /\ UNCHANGED <<row, bus, body, home, done, runs, ledger>>
      /\ UNCHANGED <<receives, lease, reopens, crashes, lapses>>
      /\ UNCHANGED <<pc, hand, batch, stale, held>>
      /\ UNCHANGED <<channel, draft, holding, passes>>
      /\ rpc[r] = "delete" /\ m \in todo[r]
      /\ todo' = [todo EXCEPT ![r] = @ \ {m}]
      /\ rpc' = [rpc EXCEPT ![r] = IF todo[r] = {m} THEN "idle" ELSE @]
      /\ \/ place' = [place EXCEPT ![m] = "gone"] /\ inflight' = inflight \ {m}
         \/ UNCHANGED <<place, inflight>>
  BY DEF Remove, Committed, deliveryVars, workerVars, boundVars
<1>2. LooseTypes' /\ LeaseInv' /\ Moves({})
  BY <1>0, <1>1 DEF LooseTypes, LeaseInv, Moves, WorkTypes
<1>3. StepOK
  <2>1. CASE place' = [place EXCEPT ![m] = "gone"]
    <3>1. place[m] # "unsent" /\ \E c \in Channel : ledger[<<c, m>>] # "none"
      BY <1>0, <1>1 DEF PassTypes, RInv, TodoInv
    <3> QED
      BY <1>1, <1>2, <2>1, <3>1, PlaceStep DEF RInv
  <2>2. CASE UNCHANGED place
    BY <1>1, <1>2, <2>2, StillStep DEF RInv, Store
  <2> QED
    BY <1>1, <2>1, <2>2
<1>4. draft[r] = {}
  <2>1. Drafted(r) = {}
    BY <1>0, <1>1 DEF BatchOK
  <2> QED
    BY <2>1 DEF Drafted
<1>5. /\ rpc' \in [Recoverer -> {"idle", "tx", "delete"}]
      /\ todo' \in [Recoverer -> SUBSET Message]
      /\ draft' \in [Recoverer -> SUBSET (Message \X Draft)]
      /\ \A s \in Recoverer \ {r} :
            rpc'[s] = rpc[s] /\ todo'[s] = todo[s] /\ draft'[s] = draft[s]
      /\ todo'[r] \subseteq todo[r] /\ draft'[r] = {}
      /\ todo'[r] = {} <=> rpc'[r] = "idle"
  BY <1>0, <1>1, <1>4 DEF PassTypes
<1> QED
  BY <1>1, <1>3, <1>5, ShrinkStep

LEMMA AbandonStep ==
    ASSUME RInv, NEW r \in Recoverer, Abandon(r)
    PROVE  RStepOK
<1>0. PassTypes
  BY PassGroups DEF RInv
<1>1. /\ UNCHANGED vars /\ UNCHANGED <<pc, hand, ledger>>
      /\ UNCHANGED <<channel, holding, passes>>
      /\ rpc' = [rpc EXCEPT ![r] = "idle"]
      /\ todo' = [todo EXCEPT ![r] = {}]
      /\ draft' = [draft EXCEPT ![r] = {}]
  BY DEF Abandon, vars, workerVars
<1>2. StepOK
  BY <1>1, Stuttering DEF RInv
<1>3. /\ rpc' \in [Recoverer -> {"idle", "tx", "delete"}]
      /\ todo' \in [Recoverer -> SUBSET Message]
      /\ draft' \in [Recoverer -> SUBSET (Message \X Draft)]
      /\ \A s \in Recoverer \ {r} :
            rpc'[s] = rpc[s] /\ todo'[s] = todo[s] /\ draft'[s] = draft[s]
      /\ todo'[r] = {} /\ draft'[r] = {} /\ rpc'[r] = "idle"
  BY <1>0, <1>1 DEF PassTypes
<1> QED
  BY <1>1, <1>2, <1>3, ShrinkStep

LEMMA RecoverStep ==
    ASSUME RInv, NEW r \in Recoverer, Recover(r)
    PROVE  RStepOK
BY PullStep, DisposeStep, ResolveStep, CommitStep, RemoveStep, AbandonStep DEF Recover

LEMMA IdleStep ==
    ASSUME RInv, UNCHANGED allVars
    PROVE  RStepOK
<1>1. UNCHANGED vars /\ UNCHANGED <<rpc, channel, todo, draft, holding, passes>>
  BY DEF allVars, recoveryVars
<1>2. UNCHANGED <<body, home, place, ledger, pc, hand>>
  BY <1>1 DEF vars, queueVars, workerVars
<1>3. StepOK
  BY <1>1, Stuttering DEF RInv
<1>4. RecoveryTypeOK' /\ TodoInv' /\ DraftInv'
  BY <1>1, <1>2 DEF RInv, RecoveryTypeOK, Drafted, Unresolved, TodoInv, DraftInv,
                    Homeward, Later
<1>5. OwnInv'
  BY <1>1, <1>2 DEF RInv, OwnInv, Own
<1> QED
  BY <1>3, <1>4, <1>5 DEF RStepOK, RInv, StepOK

LEMMA RecoveryInitInv == RecoveryInit => RInv
<1> SUFFICES ASSUME RecoveryInit PROVE RInv
  OBVIOUS
<1>1. IInv
  BY InitInv DEF RecoveryInit
<1>2. MaxPasses \in Nat
  BY RecoveryAssumption
<1>3. RecoveryTypeOK
  BY <1>2 DEF RecoveryInit, RecoveryTypeOK, Channel, Drafted, Unresolved
<1>4. TodoInv /\ DraftInv
  BY DEF RecoveryInit, TodoInv, DraftInv, Homeward
<1>5. OwnInv
  BY DEF RecoveryInit, Init, OwnInv, Own
<1> QED
  BY <1>1, <1>3, <1>4, <1>5 DEF RInv

LEMMA RecoveryInvariance == RecoverySpec => []RInv
<1>1. RInv /\ [RecoveryNext]_allVars => RInv'
  BY PlaneStep, RecoverStep, IdleStep DEF RecoveryNext, RStepOK
<1> QED
  BY RecoveryInitInv, <1>1, PTL DEF RecoverySpec

-----------------------------------------------------------------------------
(* recover drafts entries only for the batch it holds, in the transaction  *)
(* it has open, and updates only entries that were in the ledger.          *)
THEOREM RecoveryTypeCorrect == RecoverySpec => []RecoveryTypeOK
<1>1. RInv => RecoveryTypeOK
  BY DEF RInv
<1> QED
  BY RecoveryInvariance, <1>1, PTL

(* recover deletes after its commit: with passes that stop anywhere beside *)
(* the workers, what left its queue is completed or in the ledger.         *)
THEOREM RecoveryDisposed == RecoverySpec => []Disposed
<1>1. RInv => Disposed
  BY DEF RInv, IInv
<1> QED
  BY RecoveryInvariance, <1>1, PTL

(* A batch sent home in a transaction that rolls back, or deleted after    *)
(* its worker came back, loses no duty: plane and recovery implement       *)
(* EventLedger.                                                            *)
THEOREM RecoveryImplementsLedger == RecoverySpec => LedgerSpec
<1>1. RInv => Accounted
  BY IsAccounted DEF RInv
<1>2. RInv /\ Accounted' /\ [RecoveryNext]_allVars => Ledger!Next
  <2> SUFFICES ASSUME RInv, Accounted', [RecoveryNext]_allVars
               PROVE  Ledger!Next
    OBVIOUS
  <2>1. RStepOK
    BY PlaneStep, RecoverStep, IdleStep DEF RecoveryNext
  <2> QED
    BY <2>1, StepImplements DEF RInv, RStepOK
<1>3. RecoveryInit => Ledger!Init
  BY InitImplements DEF RecoveryInit
<1> QED
  BY RecoveryInvariance, <1>1, <1>2, <1>3, PTL DEF RecoverySpec, LedgerSpec, Ledger!Spec

(* Who deletes a command from its owner's queue has handled it.            *)
LEMMA OwnerHandledIt ==
    ASSUME RInv, RecoveryNext, NEW m \in Message, place[m] = "queue", place'[m] = "gone",
           Own(m)
    PROVE  <<home[m], body[m]>> \in done
<1>0. StoreTypes /\ PassTypes /\ ledger[<<"sqs", m>>] = "none"
      /\ \A r \in Recoverer : channel[r] = "sqs" => m \notin todo[r]
  BY Parts, PassGroups DEF RInv, OwnInv
<1>1. CASE Next
  <2>1. PICK w \in Worker : pc[w] = "ack" /\ hand[w] = m
    BY <1>1, NextEffects DEF RInv, Effects, Deletes
  <2>2. DutyOf(w) \in done /\ home[m] = FleetOf[w]
    BY <1>0, <2>1, Parts, Messages DEF RInv, HandInv
  <2> QED
    BY <2>1, <2>2 DEF DutyOf
<1>2. ASSUME NEW r \in Recoverer, Recover(r)
      PROVE  FALSE
  <2>1. \/ place' = place
        \/ \E n \in Message : place' = [place EXCEPT ![n] = "queue"]
        \/ \E n \in Message : Remove(r, n)
    BY <1>2 DEF Recover, Pull, Dispose, Resolve, Commit, Abandon, Put, vars, queueVars
  <2>2. PICK n \in Message : Remove(r, n)
    BY <1>0, <2>1 DEF StoreTypes
  <2>3. n = m /\ m \in todo[r] /\ channel[r] # "dlq"
    BY <1>0, <2>2 DEF Remove, StoreTypes
  <2> QED
    BY <1>0, <2>3 DEF PassTypes, Channel
<1> QED
  BY <1>1, <1>2 DEF RecoveryNext

(* _owned_here: recover leaves alone what is on its owner's queue, and the *)
(* owner's worker deletes it only once it was handled.                     *)
THEOREM OwnersCommandLeft == RecoverySpec => LeftForOwner
<1>1. RInv /\ [RecoveryNext]_allVars =>
        [ \A m \in Message :
            /\ place[m] = "queue" /\ place'[m] = "gone"
            /\ Kind[body[m]] = "command" /\ body[m] \notin Held \cup Reference
            /\ home[m] \in Consumers[body[m]]
            => <<home[m], body[m]>> \in done ]_allVars
  BY OwnerHandledIt DEF Own
<1> QED
  BY RecoveryInvariance, <1>1, PTL DEF RecoverySpec, LeftForOwner

=============================================================================
