--------------------------- MODULE L1CycleProofs ---------------------------
(***************************************************************************)
(* For any cycles, adapters, workers, coordinators and limits: rows,       *)
(* messages and processes are well formed, one cycle at a time is worked   *)
(* for and holds the slot, results are whole and final, deliveries are not *)
(* executed again, the queue is FIFO.                                      *)
(*                                                                         *)
(* Most steps move no cycle in the queue.  What they do to the rows is     *)
(* said once, by Quiet, and what follows from it proved once; the steps    *)
(* that enqueue and the reconciliation are taken one by one.               *)
(***************************************************************************)
EXTENDS L1Cycle, FiniteSetTheorems, TLAPS

Succeeded == {"candidate_verified", "completed_for_review"}

(* What a process has in hand, by where its control is.                    *)
HandState(step, e, v) ==
    /\ step \in {"idle", "guarded", "retired", "bind", "binding", "work", "report",
                 "raised", "settle", "failing", "closing", "direct"}
    /\ step \notin {"idle", "direct"} => e \in Command
    /\ step \in {"binding", "report", "raised", "settle"} => KindOf(e) = "adapter"
    /\ step = "binding" => v \in TerminalChild \cup {"running"}
    /\ step = "report" => v \in TerminalChild \cup {"retrying"}
    /\ step = "settle" => v \in {"setup", "failed"}

HandsInv ==
    /\ \A w \in Worker : HandState(pc[w], cmd[w], verdict[w])
    /\ \A p \in Coordinator :
          /\ pc[p] \in {"poll", "verify", "step", "advanced", "admit", "bootstrap"}
          /\ pc[p] \in {"verify", "step", "advanced"} => at[p] \in Cycle

(* Tickets are drawn once; who has one has been queued; who has the slot   *)
(* was admitted.                                                           *)
QueueInv ==
    /\ \A c \in Cycle :
          /\ position[c] <= tickets
          /\ status[c] = "queued" => position[c] # 0
          /\ position[c] # 0 => status[c] \in {"queued"} \cup Active \cup TerminalCycle
    /\ \A c, d \in Cycle : position[c] = position[d] => c = d \/ position[c] = 0
    /\ slot # NoCycle => status[slot] \in Active \cup TerminalCycle

(* A child's success is one of its sources, in the row and in what a       *)
(* worker is about to write into it.                                       *)
LaneRows ==
    \A c \in Cycle, a \in Adapter :
        child[c][a] \in Successful => sources[c][a] \in Successful

CarriesSuccess(step, v) == step \in {"binding", "report"} /\ v \in Successful

LaneHands ==
    \A w \in Worker : CarriesSuccess(pc[w], verdict[w]) =>
        sources[CycleOf(cmd[w])][LaneOf(cmd[w])] \in Successful

IInv ==
    /\ TypeOK
    /\ HandsInv
    /\ QueueInv
    /\ LaneRows
    /\ LaneHands
    /\ OneCycle
    /\ SlotHeld
    /\ VerifiedWhole
    /\ RepeatedWhole
    /\ CompletedOnce

-----------------------------------------------------------------------------
(* Type correctness by groups of variables.                                *)
RowTypes ==
    /\ status \in [Cycle -> {"absent", "requested", "collecting", "queued"}
                              \cup Active \cup TerminalCycle]
    /\ revision \in [Cycle -> 0..MaxRevision]
    /\ batches \in [Cycle -> 0..MaxBatches]
    /\ position \in [Cycle -> Nat]
    /\ lease \in [Cycle -> BOOLEAN]
    /\ recoveries \in [Cycle -> 0..MaxAttempts]
    /\ tickets \in Nat
    /\ slot \in Cycle \cup {NoCycle}

LaneTypes ==
    /\ child \in [Cycle -> [Adapter -> {"none", "received", "queued",
                              "running", "retrying"} \cup TerminalChild]]
    /\ retryable \in [Cycle -> [Adapter -> BOOLEAN]]
    /\ sources \in [Cycle -> [Adapter -> {"open"} \cup TerminalChild]]

BusTypes ==
    /\ asked \in [Manual -> {"no", "operator", "repeat"}]
    /\ inbox \in [Command -> 0..MaxReceives]
    /\ advances \in [Cycle -> 0..MaxAdvances]

DeliveryTypes ==
    /\ completed \subseteq Command
    /\ holder \in [Command -> Worker \cup {NoWorker}]
    /\ attempt \in [Command -> 0..MaxAttempts]

ControlPoint == {"idle", "guarded", "retired", "bind", "binding", "work", "report",
          "raised", "settle", "failing", "closing", "direct",
          "poll", "verify", "step", "advanced", "admit", "bootstrap"}

ProcTypes ==
    /\ pc \in [Worker \cup Coordinator -> ControlPoint]
    /\ cmd \in [Worker -> Command \cup {NoCommand}]
    /\ verdict \in [Worker -> {"none", "done", "error", "setup", "retrying", "running"}
                                \cup TerminalChild]
    /\ at \in [Coordinator -> Cycle \cup {NoCycle}]
    /\ rev \in [Worker \cup Coordinator -> 1..MaxRevision]

BoundTypes ==
    crashes \in 0..MaxCrashes /\ lapses \in 0..MaxLapses /\ directs \in 0..MaxDirect

LEMMA TypeGroups ==
    TypeOK <=> /\ RowTypes /\ LaneTypes /\ BusTypes /\ DeliveryTypes
               /\ ProcTypes /\ BoundTypes
BY DEF TypeOK, RowTypes, LaneTypes, BusTypes, DeliveryTypes, ProcTypes,
       BoundTypes, ControlPoint

LEMMA TypeGroupsNext ==
    TypeOK' <=> /\ RowTypes' /\ LaneTypes' /\ BusTypes' /\ DeliveryTypes'
                /\ ProcTypes' /\ BoundTypes'
BY DEF TypeOK, RowTypes, LaneTypes, BusTypes, DeliveryTypes, ProcTypes,
       BoundTypes, ControlPoint

(* A command names its cycle, and an adapter command its lane.             *)
LEMMA Commands ==
    ASSUME NEW e \in Command
    PROVE  /\ CycleOf(e) \in Cycle
           /\ KindOf(e) \in {"discovery", "evaluation", "adapter"}
           /\ KindOf(e) = "adapter" =>
                 LaneOf(e) \in Adapter /\ e = Run(CycleOf(e), LaneOf(e))
           /\ e # NoCommand
BY NoCommandAssumption DEF Command, CycleOf, KindOf, LaneOf, Run

LEMMA Emitted ==
    ASSUME TypeOK, NEW S, NEW T, \A c \in T \cap Cycle : advances[c] > 0,
           EmitAdvances(S, T)
    PROVE  advances' \in [Cycle -> 0..MaxAdvances]
<1>1. advances \in [Cycle -> 0..MaxAdvances] /\ MaxAdvances \in Nat
  BY ConstantsAssumption DEF TypeOK
<1>2. ASSUME NEW c \in Cycle PROVE advances'[c] \in 0..MaxAdvances
  BY <1>1, <1>2 DEF EmitAdvances
<1> QED
  BY <1>1, <1>2 DEF EmitAdvances

LEMMA Sent ==
    ASSUME TypeOK, NEW E, Send(E)
    PROVE  inbox' \in [Command -> 0..MaxReceives]
BY ConstantsAssumption DEF TypeOK, Send

-----------------------------------------------------------------------------
(* What the action properties say of one step.                             *)
FinalStep ==
    \A c \in Cycle : Ended(c) =>
        /\ status'[c] = status[c]
        /\ \A a \in Adapter :
              child[c][a] \in TerminalChild /\ child'[c][a] # child[c][a]
                  => Binding(c, a) # {}

HandoverStep ==
    /\ (slot' # slot \/ \E c \in Cycle : recoveries'[c] > recoveries[c])
          => \A w \in Worker : ~Fenced(w)
    /\ slot' # slot /\ slot # NoCycle => status'[slot] \in TerminalCycle

FifoStep ==
    \A c \in Cycle : status[c] = "queued" /\ status'[c] = "discovering" =>
        \A d \in Cycle : 0 < position[d] /\ position[d] < position[c]
                          => status'[d] \in TerminalCycle

(* A status a step may leave a cycle in that it does not queue or admit.   *)
Onward(s, t) ==
    \/ t = s
    \/ s = "absent" /\ t = "collecting"
    \/ s \notin TerminalCycle /\ t = "failed"
    \/ s \in Active /\ t \in (Active \ {"discovering"}) \cup TerminalCycle

(* Sources that have completed stay so.                                    *)
SourcesKept ==
    \A c \in Cycle, a \in Adapter :
        sources[c][a] \in Successful => sources'[c][a] \in Successful

Quiet ==
    /\ UNCHANGED <<slot, position, tickets>>
    /\ \A c \in Cycle : recoveries'[c] <= recoveries[c]
    /\ \A c \in Cycle : Onward(status[c], status'[c])
    /\ \A c \in Cycle :
          status'[c] \in Succeeded =>
              \/ status[c] = status'[c]
              \/ \A a \in Adapter : sources'[c][a] \in Successful
    /\ SourcesKept
    /\ LaneRows'
    /\ FinalStep

QueueSide ==
    /\ QueueInv' /\ SlotHeld' /\ VerifiedWhole' /\ LaneRows'
    /\ SourcesKept /\ FinalStep /\ HandoverStep /\ FifoStep

LEMMA QuietRows ==
    ASSUME IInv, RowTypes', Quiet
    PROVE  QueueSide
<1> USE DEF RowTypes, Onward, Active, TerminalCycle, Succeeded
<1>0. RowTypes /\ TypeOK /\ QueueInv /\ SlotHeld /\ VerifiedWhole
  BY TypeGroups DEF IInv
<1>1. QueueInv'
  BY <1>0 DEF Quiet, QueueInv
<1>2. SlotHeld'
  BY <1>0 DEF Quiet, SlotHeld
<1>3. VerifiedWhole'
  <2> SUFFICES ASSUME NEW c \in Cycle, status'[c] \in Succeeded, NEW a \in Adapter
               PROVE  sources'[c][a] \in Successful
    BY DEF VerifiedWhole
  <2> QED
    BY <1>0 DEF Quiet, SourcesKept, VerifiedWhole
<1>4. HandoverStep
  BY <1>0 DEF Quiet, HandoverStep
<1>5. FifoStep
  BY <1>0 DEF Quiet, FifoStep
<1> QED
  BY <1>1, <1>2, <1>3, <1>4, <1>5 DEF QueueSide, Quiet

(* A step that leaves the rows alone.                                      *)
LEMMA StillRows ==
    ASSUME IInv,
           UNCHANGED <<status, position, tickets, slot, recoveries, child, sources>>
    PROVE  Quiet
BY TypeGroups DEF IInv, Quiet, Onward, FinalStep, RowTypes, SourcesKept, LaneRows

(* A repeat that a step asks for follows a cycle that ended well.          *)
AsksWell ==
    /\ asked' \in [Manual -> {"no", "operator", "repeat"}]
    /\ \A c, d \in Manual :
          FollowUp[c] = d /\ asked'[d] = "repeat" /\ asked[d] # "repeat" =>
              /\ status'[c] \in Succeeded
              /\ \A a \in Adapter : sources'[c][a] \in Successful

LEMMA Asking ==
    ASSUME IInv, QueueSide, AsksWell
    PROVE  RepeatedWhole'
<1> SUFFICES ASSUME NEW c \in Manual, NEW d \in Manual, FollowUp[c] = d,
                    asked'[d] = "repeat"
             PROVE  /\ status'[c] \in Succeeded
                    /\ \A a \in Adapter : sources'[c][a] \in Successful
  BY DEF RepeatedWhole, Succeeded
<1>1. CASE asked[d] # "repeat"
  BY <1>1 DEF AsksWell
<1>2. CASE asked[d] = "repeat"
  BY <1>2 DEF IInv, RepeatedWhole, QueueSide, FinalStep, SourcesKept, Ended,
              TerminalCycle, Succeeded, Cycle
<1> QED
  BY <1>1, <1>2

-----------------------------------------------------------------------------
(* What a step must do for the invariant to hold after it.                 *)
StepOK ==
    /\ TypeOK' /\ HandsInv' /\ LaneHands' /\ OneCycle' /\ CompletedOnce'
    /\ QueueSide
    /\ AsksWell

LEMMA StepKeeps ==
    ASSUME IInv, StepOK
    PROVE  IInv'
BY Asking DEF StepOK, QueueSide, IInv

(* Worker w, and no other process, moves: on with the command in hand, or  *)
(* out of the fence.                                                       *)
Handling(w) ==
    /\ pc' \in [Worker \cup Coordinator -> ControlPoint]
    /\ cmd' \in [Worker -> Command \cup {NoCommand}]
    /\ verdict' \in [Worker -> {"none", "done", "error", "setup", "retrying", "running"}
                                 \cup TerminalChild]
    /\ rev' \in [Worker \cup Coordinator -> 1..MaxRevision]
    /\ UNCHANGED <<at, slot>>
    /\ \A q \in Worker \cup Coordinator : q # w => pc'[q] = pc[q]
    /\ \A v \in Worker : v # w => cmd'[v] = cmd[v] /\ verdict'[v] = verdict[v]
    /\ HandState(pc'[w], cmd'[w], verdict'[w])
    /\ CarriesSuccess(pc'[w], verdict'[w]) =>
          sources'[CycleOf(cmd'[w])][LaneOf(cmd'[w])] \in Successful
    /\ pc'[w] # "direct"
    /\ pc'[w] \notin {"idle", "retired"} => cmd'[w] = cmd[w] /\ Fenced(w)

(* The lane of a command in hand that carries a success.                   *)
LEMMA Carried ==
    ASSUME IInv, NEW w \in Worker, CarriesSuccess(pc[w], verdict[w]), SourcesKept
    PROVE  sources'[CycleOf(cmd[w])][LaneOf(cmd[w])] \in Successful
<1>1. cmd[w] \in Command /\ KindOf(cmd[w]) = "adapter"
  BY DEF IInv, HandsInv, HandState, CarriesSuccess
<1>2. CycleOf(cmd[w]) \in Cycle /\ LaneOf(cmd[w]) \in Adapter
  BY <1>1, Commands
<1> QED
  BY <1>2 DEF IInv, LaneHands, SourcesKept

LEMMA HandlingKeeps ==
    ASSUME IInv, NEW w \in Worker, Handling(w), SourcesKept
    PROVE  ProcTypes' /\ HandsInv' /\ LaneHands' /\ OneCycle'
<1>0. ProcTypes /\ HandsInv /\ OneCycle /\ Worker \cap Coordinator = {}
  BY TypeGroups, ConstantsAssumption DEF IInv
<1>1. ProcTypes'
  BY <1>0 DEF Handling, ProcTypes
<1>2. HandsInv'
  BY <1>0 DEF Handling, HandsInv
<1>3. OneCycle'
  BY <1>0 DEF Handling, OneCycle, Fenced
<1>4. LaneHands'
  <2> SUFFICES ASSUME NEW v \in Worker, CarriesSuccess(pc'[v], verdict'[v])
               PROVE  sources'[CycleOf(cmd'[v])][LaneOf(cmd'[v])] \in Successful
    BY DEF LaneHands
  <2>1. CASE v = w
    BY <2>1 DEF Handling
  <2>2. CASE v # w
    BY <2>2, Carried DEF Handling
  <2> QED
    BY <2>1, <2>2
<1> QED
  BY <1>1, <1>2, <1>3, <1>4

(* The rows stay as they are, and the leases and completions are right.    *)
LEMMA DeliveryStep ==
    ASSUME IInv, NEW w \in Worker, Handling(w),
           UNCHANGED <<rowVars, asked, advances>>,
           inbox' \in [Command -> 0..MaxReceives], DeliveryTypes', BoundTypes',
           CompletedOnce'
    PROVE  StepOK
<1>0. RowTypes /\ LaneTypes /\ BusTypes
  BY TypeGroups DEF IInv
<1>1. RowTypes' /\ LaneTypes' /\ BusTypes'
  BY <1>0 DEF RowTypes, LaneTypes, BusTypes, rowVars, cycleVars, queueVars,
              childVars
<1>2. QueueSide
  <2>1. UNCHANGED <<status, position, tickets, slot, recoveries, child, sources>>
    BY DEF rowVars, cycleVars, queueVars, childVars
  <2> QED
    BY <1>1, <2>1, StillRows, QuietRows
<1>3. ProcTypes' /\ HandsInv' /\ LaneHands' /\ OneCycle'
  BY <1>2, HandlingKeeps DEF QueueSide
<1>4. AsksWell
  BY <1>0 DEF AsksWell, BusTypes
<1> QED
  BY <1>1, <1>2, <1>3, <1>4, TypeGroupsNext DEF StepOK

(* Nothing is stored.                                                      *)
LEMMA ControlStep ==
    ASSUME IInv, NEW w \in Worker, Handling(w), UNCHANGED dbVars, BoundTypes'
    PROVE  StepOK
<1>0. BusTypes /\ DeliveryTypes /\ CompletedOnce
  BY TypeGroups DEF IInv
<1>1. UNCHANGED <<rowVars, asked, inbox, advances, completed, holder, attempt>>
  BY DEF dbVars, busVars, deliveryVars
<1>2. /\ inbox' \in [Command -> 0..MaxReceives] /\ DeliveryTypes'
      /\ UNCHANGED <<rowVars, asked, advances>>
  BY <1>0, <1>1 DEF BusTypes, DeliveryTypes
<1>3. CompletedOnce'
  BY <1>0, <1>1 DEF CompletedOnce, Handling, Fenced
<1> QED
  BY <1>2, <1>3, DeliveryStep

-----------------------------------------------------------------------------
(* A worker's command at hand.                                             *)
LEMMA Hand ==
    ASSUME IInv, NEW w \in Worker
    PROVE  /\ ProcTypes /\ DeliveryTypes /\ BusTypes /\ BoundTypes
           /\ RowTypes /\ LaneTypes
           /\ HandState(pc[w], cmd[w], verdict[w])
           /\ pc[w] \notin {"idle", "direct"} => cmd[w] \in Command
BY TypeGroups DEF IInv, HandsInv, HandState

(* The steps that only decide how the handler goes on.                     *)
LEMMA ControlSteps ==
    ASSUME IInv, NEW w \in Worker,
           \/ ReadChild(w) \/ BindPhase(w) \/ Defer(w) \/ RaiseLane(w) \/ Unhandled(w)
           \/ TooLate(w) \/ RaisePhase(w) \/ DirectEnd(w)
    PROVE  StepOK
<1>0. /\ ProcTypes /\ BoundTypes
      /\ HandState(pc[w], cmd[w], verdict[w])
  BY Hand
<1>1. SUFFICES Handling(w) /\ UNCHANGED dbVars /\ BoundTypes'
  BY ControlStep
<1> USE <1>0 DEF Handling, HandState, ProcTypes, ControlPoint, Fenced, Decide, Goto,
                 envVars, boundVars, workerVars, TerminalChild, BoundTypes,
                 CarriesSuccess
<1>9. CASE ReadChild(w)
  <2>1. cmd[w] \in Command /\ KindOf(cmd[w]) = "adapter"
    BY <1>9 DEF ReadChild
  <2>2. CycleOf(cmd[w]) \in Cycle /\ LaneOf(cmd[w]) \in Adapter
    BY <2>1, Commands
  <2>3. verdict'[w] \in Successful =>
           sources'[CycleOf(cmd[w])][LaneOf(cmd[w])] \in Successful
    BY <1>9, <2>2 DEF ReadChild, IInv, LaneRows, Successful, dbVars, rowVars, childVars
  <2>4. Handling(w)
    BY <1>9, <2>1, <2>3 DEF ReadChild, dbVars, rowVars, queueVars
  <2> QED
    BY <1>9, <2>4 DEF ReadChild
<1>2. CASE BindPhase(w)
  <2>1. Handling(w)
    BY <1>2 DEF BindPhase, dbVars, rowVars, queueVars
  <2> QED
    BY <1>2, <2>1 DEF BindPhase
<1>3. CASE Defer(w)
  <2>1. Handling(w)
    BY <1>3 DEF Defer, dbVars, rowVars, queueVars
  <2> QED
    BY <1>3, <2>1 DEF Defer
<1>4. CASE RaiseLane(w)
  <2>1. Handling(w)
    BY <1>4 DEF RaiseLane, dbVars, rowVars, queueVars
  <2> QED
    BY <1>4, <2>1 DEF RaiseLane
<1>5. CASE Unhandled(w)
  <2>1. Handling(w)
    BY <1>5 DEF Unhandled, dbVars, rowVars, queueVars
  <2> QED
    BY <1>5, <2>1 DEF Unhandled
<1>6. CASE TooLate(w)
  <2>1. Handling(w)
    BY <1>6 DEF TooLate, dbVars, rowVars, queueVars
  <2> QED
    BY <1>6, <2>1 DEF TooLate
<1>7. CASE RaisePhase(w)
  <2>1. Handling(w)
    BY <1>7 DEF RaisePhase, dbVars, rowVars, queueVars
  <2> QED
    BY <1>7, <2>1 DEF RaisePhase
<1>8. CASE DirectEnd(w)
  <2>1. Handling(w)
    BY <1>8 DEF DirectEnd, dbVars, rowVars, queueVars
  <2> QED
    BY <1>8, <2>1 DEF DirectEnd
<1> QED
  BY <1>2, <1>3, <1>4, <1>5, <1>6, <1>7, <1>8, <1>9

(* Processes of workers that end.                                          *)
LEMMA WorkerEnds ==
    ASSUME IInv, NEW w \in Worker, CrashWorker(w) \/ DeployWorker(w)
    PROVE  StepOK
<1>0. ProcTypes /\ BoundTypes
  BY Hand
<1>1. {MaxCrashes, MaxRevision} \subseteq Nat
  BY ConstantsAssumption
<1>2. Handling(w)
  <2> USE <1>0 DEF Handling, HandState, ProcTypes, ControlPoint, Drop, dbVars, rowVars,
                   queueVars, CarriesSuccess
  <2>1. CASE CrashWorker(w)
    BY <2>1 DEF CrashWorker
  <2>2. CASE DeployWorker(w)
    BY <1>1, <2>2 DEF DeployWorker
  <2> QED
    BY <2>1, <2>2
<1>3. UNCHANGED dbVars /\ BoundTypes'
  BY <1>0, <1>1 DEF CrashWorker, DeployWorker, BoundTypes, boundVars
<1> QED
  BY <1>2, <1>3, ControlStep

-----------------------------------------------------------------------------
(* The steps on deliveries alone.                                          *)
LEMMA ReceiveSteps ==
    ASSUME IInv, NEW w \in Worker, NEW e \in Command,
           ReceiveCompleted(w, e) \/ ReceiveRetired(w, e) \/ ReceiveRefused(w, e)
    PROVE  StepOK
<1>0. /\ ProcTypes /\ BoundTypes /\ BusTypes /\ DeliveryTypes /\ CompletedOnce
      /\ HandState(pc[w], cmd[w], verdict[w])
      /\ KindOf(e) \in {"discovery", "evaluation", "adapter"}
      /\ MaxReceives \in Nat
  BY Hand, Commands, ConstantsAssumption DEF IInv
<1>1. /\ UNCHANGED <<rowVars, asked, advances, completed, holder, attempt>>
      /\ UNCHANGED <<at, rev, verdict, boundVars>>
  BY DEF ReceiveCompleted, ReceiveRetired, ReceiveRefused, deliveryVars,
         envVars, workerVars
<1>2. Handling(w)
  <2> USE <1>0, <1>1 DEF Handling, HandState, ProcTypes, ControlPoint, Goto, workerVars,
                         rowVars, queueVars, CarriesSuccess
  <2>1. CASE ReceiveRetired(w, e)
    BY <2>1 DEF ReceiveRetired
  <2>2. CASE ReceiveCompleted(w, e) \/ ReceiveRefused(w, e)
    BY <2>2 DEF ReceiveCompleted, ReceiveRefused
  <2> QED
    BY <2>1, <2>2
<1>3. inbox' \in [Command -> 0..MaxReceives]
  BY <1>0 DEF BusTypes, ReceiveCompleted, ReceiveRetired, ReceiveRefused, Delete
<1>4. DeliveryTypes' /\ BoundTypes' /\ CompletedOnce'
  BY <1>0, <1>1, <1>2 DEF DeliveryTypes, BoundTypes, CompletedOnce, Handling,
                          Fenced, boundVars
<1> QED
  BY <1>1, <1>2, <1>3, <1>4, DeliveryStep

LEMMA ClaimSteps ==
    ASSUME IInv, NEW w \in Worker, Claim(w) \/ ClaimFails(w) \/ AcknowledgeRetired(w)
    PROVE  StepOK
<1>0. /\ ProcTypes /\ BoundTypes /\ BusTypes /\ DeliveryTypes /\ CompletedOnce
      /\ HandState(pc[w], cmd[w], verdict[w])
      /\ {MaxReceives, MaxAttempts} \subseteq Nat
      /\ NoWorker \notin Worker
  BY Hand, ConstantsAssumption DEF IInv
<1>1. pc[w] \in {"guarded", "retired"} /\ cmd[w] \in Command
  BY <1>0 DEF Claim, ClaimFails, AcknowledgeRetired, HandState
<1>2. Handling(w)
  <2> USE <1>0, <1>1 DEF Handling, HandState, ProcTypes, ControlPoint, Goto, workerVars,
                         envVars, Drop, Fenced, rowVars, queueVars, CarriesSuccess
  <2>1. CASE Claim(w)
    BY <2>1 DEF Claim
  <2>2. CASE ClaimFails(w)
    BY <2>2 DEF ClaimFails
  <2>3. CASE AcknowledgeRetired(w)
    BY <2>3 DEF AcknowledgeRetired
  <2> QED
    BY <2>1, <2>2, <2>3
<1>3. /\ UNCHANGED <<rowVars, asked, advances>> /\ UNCHANGED boundVars
      /\ inbox' \in [Command -> 0..MaxReceives]
  BY <1>0, <1>1 DEF Claim, ClaimFails, AcknowledgeRetired, Delete, busVars,
                    BusTypes, envVars
<1>4. DeliveryTypes'
  BY <1>0, <1>1 DEF Claim, ClaimFails, AcknowledgeRetired, Claimed, DeliveryTypes,
                    deliveryVars
<1>5. CompletedOnce'
  <2> USE <1>0, <1>1 DEF CompletedOnce, Fenced, Claimable, DeliveryTypes
  <2>1. CASE Claim(w)
    BY <1>2, <2>1 DEF Claim, Claimed, Handling, workerVars
  <2>2. CASE ClaimFails(w)
    BY <1>2, <2>2 DEF ClaimFails, Handling, deliveryVars, Drop, ProcTypes
  <2>3. CASE AcknowledgeRetired(w)
    BY <1>2, <2>3 DEF AcknowledgeRetired, Handling, Drop, ProcTypes
  <2> QED
    BY <2>1, <2>2, <2>3
<1> QED
  BY <1>0, <1>2, <1>3, <1>4, <1>5, DeliveryStep DEF BoundTypes, boundVars

LEMMA CloseSteps ==
    ASSUME IInv, NEW w \in Worker, CloseDone(w) \/ CloseLate(w) \/ CloseError(w)
    PROVE  StepOK
<1>0. /\ ProcTypes /\ BoundTypes /\ BusTypes /\ DeliveryTypes /\ CompletedOnce
      /\ HandState(pc[w], cmd[w], verdict[w])
      /\ MaxReceives \in Nat
      /\ NoWorker \notin Worker
  BY Hand, ConstantsAssumption DEF IInv
<1>1. pc[w] = "closing" /\ cmd[w] \in Command
  BY <1>0 DEF CloseDone, CloseLate, CloseError, HandState
<1>2. Handling(w)
  <2> USE <1>0, <1>1 DEF Handling, HandState, ProcTypes, ControlPoint, Goto, workerVars,
                         envVars, Drop, Fenced, rowVars, queueVars, Decide,
                         CarriesSuccess
  <2>1. CASE CloseDone(w)
    BY <2>1 DEF CloseDone
  <2>2. CASE CloseLate(w)
    BY <2>2 DEF CloseLate
  <2>3. CASE CloseError(w)
    BY <2>3 DEF CloseError
  <2> QED
    BY <2>1, <2>2, <2>3
<1>3. /\ UNCHANGED <<rowVars, asked, advances>> /\ UNCHANGED boundVars
      /\ inbox' \in [Command -> 0..MaxReceives]
  BY <1>0, <1>1 DEF CloseDone, CloseLate, CloseError, Delete, busVars, BusTypes,
                    envVars
<1>4. DeliveryTypes'
  BY <1>0, <1>1 DEF CloseDone, CloseLate, CloseError, DeliveryTypes
<1>5. CompletedOnce'
  <2> USE <1>0, <1>1 DEF CompletedOnce, Fenced, DeliveryTypes, ProcTypes
  <2>1. CASE CloseDone(w)
    BY <1>2, <2>1 DEF CloseDone, Handling
  <2>2. CASE CloseLate(w)
    BY <1>2, <2>2 DEF CloseLate, Handling
  <2>3. CASE CloseError(w)
    BY <1>2, <2>3 DEF CloseError, Handling, Drop
  <2> QED
    BY <2>1, <2>2, <2>3
<1> QED
  BY <1>0, <1>2, <1>3, <1>4, <1>5, DeliveryStep DEF BoundTypes, boundVars

-----------------------------------------------------------------------------
(* The steps of a handler that write rows.                                 *)
LEMMA HandlerStep ==
    ASSUME IInv, NEW w \in Worker, Handling(w), UNCHANGED deliveryVars,
           UNCHANGED boundVars, RowTypes', LaneTypes', BusTypes', Quiet, AsksWell
    PROVE  StepOK
<1>0. DeliveryTypes /\ BoundTypes /\ CompletedOnce
  BY Hand DEF IInv
<1>1. DeliveryTypes' /\ BoundTypes'
  BY <1>0 DEF DeliveryTypes, BoundTypes, deliveryVars, boundVars
<1>2. CompletedOnce'
  BY <1>0 DEF CompletedOnce, Handling, Fenced, deliveryVars
<1>3. QueueSide
  BY QuietRows
<1>4. ProcTypes' /\ HandsInv' /\ LaneHands' /\ OneCycle'
  BY <1>3, HandlingKeeps DEF QueueSide
<1> QED
  BY <1>1, <1>2, <1>3, <1>4, TypeGroupsNext DEF StepOK

LEMMA Setting ==
    ASSUME NEW S, NEW T, NEW V, NEW f \in [S -> [T -> V]], NEW c \in S, NEW a \in T,
           NEW x \in V
    PROVE  [f EXCEPT ![c][a] = x] \in [S -> [T -> V]]
OBVIOUS

LEMMA BindStep ==
    ASSUME IInv, NEW w \in Worker, BindChild(w)
    PROVE  StepOK
<1> DEFINE c == CycleOf(cmd[w])
           a == LaneOf(cmd[w])
<1>0. /\ ProcTypes /\ RowTypes /\ LaneTypes /\ BusTypes
      /\ HandState(pc[w], cmd[w], verdict[w])
      /\ cmd[w] \in Command /\ KindOf(cmd[w]) = "adapter"
      /\ pc[w] = "binding" /\ verdict[w] \in TerminalChild \cup {"running"}
  BY Hand DEF BindChild, HandState
<1>1. c \in Cycle /\ a \in Adapter /\ cmd[w] = Run(c, a)
  BY <1>0, Commands
<1>2. Handling(w)
  BY <1>0 DEF BindChild, Handling, HandState, ProcTypes, ControlPoint, Goto, Decide,
              Fenced, queueVars, envVars, CarriesSuccess, TerminalChild
<1>3. /\ UNCHANGED <<cycleVars, queueVars, busVars, retryable, sources>>
      /\ UNCHANGED deliveryVars /\ UNCHANGED boundVars
      /\ child' = [child EXCEPT ![c][a] = verdict[w]]
  BY DEF BindChild, envVars
<1>4. verdict[w] \in Successful => sources[c][a] \in Successful
  BY <1>0 DEF IInv, LaneHands, CarriesSuccess
<1>5. RowTypes' /\ BusTypes' /\ AsksWell
  BY <1>0, <1>3 DEF RowTypes, BusTypes, cycleVars, queueVars, busVars, AsksWell
<1> HIDE DEF c, a
<1>6. LaneTypes'
  <2>1. child' \in [Cycle -> [Adapter -> {"none", "received", "queued",
                              "running", "retrying"} \cup TerminalChild]]
    BY <1>0, <1>1, <1>3, Setting DEF LaneTypes
  <2> QED
    BY <1>0, <1>3, <2>1 DEF LaneTypes
<1>7. \A d \in Cycle, b \in Adapter :
         child'[d][b] = IF d = c /\ b = a THEN verdict[w] ELSE child[d][b]
  BY <1>0, <1>1, <1>3 DEF LaneTypes
<1>8. FinalStep
  BY <1>0, <1>1, <1>3, <1>7 DEF FinalStep, cycleVars, Binding
<1>9. LaneRows' /\ SourcesKept
  BY <1>3, <1>4, <1>7 DEF LaneRows, SourcesKept, IInv
<1>10. Quiet
  BY <1>0, <1>3, <1>8, <1>9 DEF Quiet, Onward, RowTypes, cycleVars, queueVars
<1> QED
  BY <1>2, <1>3, <1>5, <1>6, <1>10, HandlerStep

LEMMA RunStep ==
    ASSUME IInv, NEW w \in Worker, NEW v \in TerminalChild \cup {"retrying"},
           RunLane(w, v)
    PROVE  StepOK
<1> DEFINE c == CycleOf(cmd[w])
           a == LaneOf(cmd[w])
           came == IF v = "retrying" THEN sources[c][a] ELSE v
<1>0. /\ ProcTypes /\ RowTypes /\ LaneTypes /\ BusTypes
      /\ HandState(pc[w], cmd[w], verdict[w])
      /\ cmd[w] \in Command /\ KindOf(cmd[w]) = "adapter"
  BY Hand DEF RunLane
<1>1. c \in Cycle /\ a \in Adapter
  BY <1>0, Commands
<1>2. /\ UNCHANGED <<cycleVars, queueVars, busVars, child, retryable>>
      /\ UNCHANGED deliveryVars /\ UNCHANGED boundVars
      /\ sources' = [sources EXCEPT ![c][a] = came]
      /\ came \in {"open"} \cup TerminalChild
      /\ sources[c][a] \in Successful => came = sources[c][a]
      /\ v \in Successful => came = v
  BY <1>0, <1>1 DEF RunLane, envVars, LaneTypes, Successful, TerminalChild
<1> HIDE DEF came
<1>3. \A d \in Cycle, b \in Adapter :
         sources'[d][b] = IF d = c /\ b = a THEN came ELSE sources[d][b]
  BY <1>0, <1>1, <1>2 DEF LaneTypes
<1>4. LaneTypes'
  <2>1. sources' \in [Cycle -> [Adapter -> {"open"} \cup TerminalChild]]
    BY <1>0, <1>1, <1>2, Setting DEF LaneTypes
  <2> QED
    BY <1>0, <1>2, <2>1 DEF LaneTypes
<1>5. v \in Successful => sources'[CycleOf(cmd[w])][LaneOf(cmd[w])] \in Successful
  BY <1>1, <1>2, <1>3
<1>6. Handling(w)
  BY <1>0, <1>5 DEF RunLane, Handling, HandState, ProcTypes, ControlPoint, Goto, Decide,
              Fenced, queueVars, envVars, CarriesSuccess, TerminalChild
<1>7. RowTypes' /\ BusTypes' /\ AsksWell
  BY <1>0, <1>2 DEF RowTypes, BusTypes, cycleVars, queueVars, busVars, AsksWell
<1>8. SourcesKept
  BY <1>2, <1>3 DEF SourcesKept
<1>9. LaneRows' /\ FinalStep
  BY <1>2, <1>8 DEF LaneRows, SourcesKept, IInv, FinalStep, cycleVars
<1>10. Quiet
  BY <1>0, <1>2, <1>8, <1>9 DEF Quiet, Onward, RowTypes, cycleVars, queueVars
<1> QED
  BY <1>2, <1>4, <1>6, <1>7, <1>10, HandlerStep

(* What a report does to its child, its cycle and the advances.            *)
OnlyWrites(c, a, v) ==
    \A d \in Cycle : \A b \in Adapter : child'[d][b] # child[d][b] =>
        /\ d = c /\ b = a
        /\ child'[d][b] \in Successful => v \in Successful

LEMMA Finishing ==
    ASSUME IInv, NEW c \in Cycle, NEW a \in Adapter,
           NEW v \in TerminalChild \cup {"retrying", "setup"}, FinishChild(c, a, v)
    PROVE  /\ child' \in [Cycle -> [Adapter -> {"none", "received", "queued",
                              "running", "retrying"} \cup TerminalChild]]
           /\ retryable' \in [Cycle -> [Adapter -> BOOLEAN]]
           /\ lease' \in [Cycle -> BOOLEAN]
           /\ recoveries' \in [Cycle -> 0..MaxAttempts]
           /\ \A d \in Cycle : recoveries'[d] <= recoveries[d]
           /\ \A d \in Cycle : Ended(d) => child'[d] = child[d]
           /\ OnlyWrites(c, a, v)
           /\ advances' \in [Cycle -> 0..MaxAdvances]
<1>0. RowTypes /\ LaneTypes /\ BusTypes /\ TypeOK /\ MaxAttempts \in Nat
  BY TypeGroups, ConstantsAssumption DEF IInv
<1>1. advances' \in [Cycle -> 0..MaxAdvances]
  BY <1>0, Emitted DEF FinishChild, BusTypes, EmitAdvance
<1>2. CASE Ended(c)
  <2>1. UNCHANGED <<child, retryable, lease, recoveries>>
    BY <1>2 DEF FinishChild
  <2>2. OnlyWrites(c, a, v)
    BY <2>1 DEF OnlyWrites
  <2> QED
    BY <1>0, <1>1, <2>1, <2>2 DEF RowTypes, LaneTypes
<1>3. CASE ~Ended(c)
  <2>0. /\ child' = [child EXCEPT ![c][a] =
                        IF v \in {"retrying", "setup"} THEN "retrying" ELSE v]
        /\ retryable' = [retryable EXCEPT ![c][a] = (v = "retrying")]
        /\ lease' = [lease EXCEPT ![c] = TRUE]
        /\ recoveries' = [recoveries EXCEPT ![c] =
                             IF v \in {"retrying", "setup"} THEN @ ELSE 0]
    BY <1>3 DEF FinishChild
  <2>1. child' \in [Cycle -> [Adapter -> {"none", "received", "queued",
                              "running", "retrying"} \cup TerminalChild]]
    <3>1. (IF v \in {"retrying", "setup"} THEN "retrying" ELSE v)
              \in {"none", "received", "queued", "running", "retrying"}
                    \cup TerminalChild
      OBVIOUS
    <3> QED
      BY <1>0, <2>0, <3>1, Setting DEF LaneTypes
  <2>2. retryable' \in [Cycle -> [Adapter -> BOOLEAN]]
    BY <1>0, <2>0, Setting DEF LaneTypes
  <2>3. /\ lease' \in [Cycle -> BOOLEAN]
        /\ recoveries' \in [Cycle -> 0..MaxAttempts]
        /\ \A d \in Cycle : recoveries'[d] <= recoveries[d]
    BY <1>0, <2>0 DEF RowTypes
  <2>4. \A d \in Cycle : Ended(d) => child'[d] = child[d]
    BY <1>0, <1>3 DEF FinishChild, LaneTypes
  <2>5. OnlyWrites(c, a, v)
    <3> DEFINE x == IF v \in {"retrying", "setup"} THEN "retrying" ELSE v
    <3>1. x \in Successful => v \in Successful
      BY DEF Successful
    <3>2. child' = [child EXCEPT ![c][a] = x]
      BY <2>0
    <3> HIDE DEF x
    <3>3. \A d \in Cycle : \A b \in Adapter :
             child'[d][b] = IF d = c /\ b = a THEN x ELSE child[d][b]
      BY <1>0, <3>2 DEF LaneTypes
    <3> QED
      BY <3>1, <3>3 DEF OnlyWrites
  <2> QED
    BY <1>1, <2>1, <2>2, <2>3, <2>4, <2>5
<1> QED
  BY <1>2, <1>3

LEMMA ReportSteps ==
    ASSUME IInv, NEW w \in Worker, ReportChild(w) \/ SettleChild(w)
    PROVE  StepOK
<1>0. /\ ProcTypes /\ RowTypes /\ LaneTypes /\ BusTypes
      /\ HandState(pc[w], cmd[w], verdict[w])
      /\ cmd[w] \in Command /\ KindOf(cmd[w]) = "adapter"
      /\ verdict[w] \in TerminalChild \cup {"retrying", "setup"}
      /\ verdict[w] \in Successful => CarriesSuccess(pc[w], verdict[w])
  BY Hand DEF ReportChild, SettleChild, HandState, TerminalChild, Successful,
              CarriesSuccess
<1>1. CycleOf(cmd[w]) \in Cycle /\ LaneOf(cmd[w]) \in Adapter
  BY <1>0, Commands
<1>2. Handling(w)
  BY <1>0 DEF ReportChild, SettleChild, Handling, HandState, ProcTypes, ControlPoint, Goto,
              Decide, workerVars, envVars, Fenced, TerminalChild, CarriesSuccess
<1>3. /\ UNCHANGED <<cycleVars, position, tickets, slot, sources, asked, inbox>>
      /\ UNCHANGED deliveryVars /\ UNCHANGED boundVars
      /\ FinishChild(CycleOf(cmd[w]), LaneOf(cmd[w]), verdict[w])
  BY DEF ReportChild, SettleChild, envVars
<1>4. /\ child' \in [Cycle -> [Adapter -> {"none", "received", "queued",
                              "running", "retrying"} \cup TerminalChild]]
      /\ retryable' \in [Cycle -> [Adapter -> BOOLEAN]]
      /\ lease' \in [Cycle -> BOOLEAN]
      /\ recoveries' \in [Cycle -> 0..MaxAttempts]
      /\ \A d \in Cycle : recoveries'[d] <= recoveries[d]
      /\ \A d \in Cycle : Ended(d) => child'[d] = child[d]
      /\ OnlyWrites(CycleOf(cmd[w]), LaneOf(cmd[w]), verdict[w])
      /\ advances' \in [Cycle -> 0..MaxAdvances]
  BY <1>0, <1>1, <1>3, Finishing
<1>5. RowTypes' /\ LaneTypes' /\ BusTypes' /\ AsksWell
  BY <1>0, <1>3, <1>4 DEF RowTypes, LaneTypes, BusTypes, AsksWell, cycleVars
<1>6. LaneRows' /\ SourcesKept
  BY <1>0, <1>3, <1>4 DEF LaneRows, LaneHands, SourcesKept, IInv, OnlyWrites
<1>7. Quiet
  BY <1>3, <1>4, <1>6 DEF Quiet, Onward, FinalStep, cycleVars
<1> QED
  BY <1>2, <1>3, <1>5, <1>7, HandlerStep

LEMMA DiscoverySteps ==
    ASSUME IInv, NEW w \in Worker, DiscoverMore(w) \/ Plan(w)
    PROVE  StepOK
<1>0. /\ ProcTypes /\ RowTypes /\ LaneTypes /\ BusTypes /\ TypeOK
      /\ HandState(pc[w], cmd[w], verdict[w])
      /\ cmd[w] \in Command
      /\ {MaxAttempts, MaxBatches} \subseteq Nat
  BY Hand, ConstantsAssumption DEF DiscoverMore, Plan, IInv
<1>1. CycleOf(cmd[w]) \in Cycle
  BY <1>0, Commands
<1>2. Handling(w)
  BY <1>0 DEF DiscoverMore, Plan, Handling, HandState, ProcTypes, ControlPoint, Goto,
              Decide, envVars, Fenced, CarriesSuccess
<1>3. /\ UNCHANGED <<revision, position, tickets, slot, childVars, asked>>
      /\ UNCHANGED deliveryVars /\ UNCHANGED boundVars
      /\ status[CycleOf(cmd[w])] = "discovering"
      /\ status' \in {status, [status EXCEPT ![CycleOf(cmd[w])] = "planned"]}
      /\ lease' = [lease EXCEPT ![CycleOf(cmd[w])] = TRUE]
      /\ recoveries' = [recoveries EXCEPT ![CycleOf(cmd[w])] = 0]
  BY DEF DiscoverMore, Plan, envVars
<1>4. batches' \in [Cycle -> 0..MaxBatches]
  BY <1>0, <1>1 DEF DiscoverMore, Plan, RowTypes
<1>5. inbox' \in [Command -> 0..MaxReceives] /\ advances' \in [Cycle -> 0..MaxAdvances]
  BY <1>0, Sent, Emitted DEF DiscoverMore, Plan, BusTypes, EmitAdvance
<1>6. RowTypes' /\ LaneTypes' /\ BusTypes' /\ AsksWell
  <2>1. status' \in [Cycle -> {"absent", "requested", "collecting", "queued"}
                                \cup Active \cup TerminalCycle]
    BY <1>0, <1>3 DEF RowTypes, Active
  <2>2. lease' \in [Cycle -> BOOLEAN] /\ recoveries' \in [Cycle -> 0..MaxAttempts]
    <3>1. 0 \in 0..MaxAttempts
      BY <1>0
    <3>2. recoveries' \in [Cycle -> 0..MaxAttempts]
      BY <1>0, <1>3, <3>1 DEF RowTypes
    <3> QED
      BY <1>0, <1>3, <3>2 DEF RowTypes
  <2>3. RowTypes'
    BY <1>0, <1>3, <1>4, <2>1, <2>2 DEF RowTypes
  <2>4. LaneTypes'
    BY <1>0, <1>3 DEF LaneTypes, childVars
  <2> QED
    BY <1>0, <1>3, <1>5, <2>3, <2>4 DEF BusTypes, AsksWell
<1>7. LaneRows' /\ SourcesKept
  BY <1>3 DEF LaneRows, SourcesKept, IInv, childVars
<1>8. Quiet
  BY <1>0, <1>1, <1>3, <1>7 DEF Quiet, Onward, FinalStep, Ended, RowTypes, childVars,
     Active, TerminalCycle, Succeeded
<1> QED
  BY <1>2, <1>3, <1>6, <1>8, HandlerStep

LEMMA FinishCycleStep ==
    ASSUME IInv, NEW w \in Worker, NEW v \in TerminalCycle, FinishCycle(w, v)
    PROVE  StepOK
<1> DEFINE c == CycleOf(cmd[w])
<1>0. /\ ProcTypes /\ RowTypes /\ LaneTypes /\ BusTypes /\ TypeOK
      /\ HandState(pc[w], cmd[w], verdict[w])
      /\ cmd[w] \in Command
  BY Hand DEF FinishCycle, IInv
<1>1. c \in Cycle
  BY <1>0, Commands
<1>2. Handling(w)
  BY <1>0 DEF FinishCycle, Handling, HandState, ProcTypes, ControlPoint, Goto, Decide,
              envVars, Fenced, CarriesSuccess
<1>3. /\ UNCHANGED <<revision, batches, position, tickets, slot, recoveries>>
      /\ UNCHANGED <<child, retryable, sources, inbox>>
      /\ UNCHANGED deliveryVars /\ UNCHANGED boundVars
      /\ status' = [status EXCEPT ![c] = v]
      /\ lease' = [lease EXCEPT ![c] = FALSE]
      /\ asked' = [d \in Manual |->
            IF d \in Repeats(c, v) /\ asked[d] = "no" THEN "repeat" ELSE asked[d]]
      /\ advances' \in [Cycle -> 0..MaxAdvances]
  BY <1>0, Emitted DEF FinishCycle, BusTypes, EmitAdvance, childVars, envVars
<1>4. /\ status[c] = "evaluating"
      /\ \A a \in Adapter : child[c][a] \in TerminalChild
      /\ v # "failed" => \A a \in Adapter : child[c][a] \in Successful
  BY DEF FinishCycle, Evaluable, ChildrenEnded, Unfinished, Verdicts, TerminalChild,
         Successful
<1> HIDE DEF c
<1>5. RowTypes' /\ LaneTypes'
  BY <1>0, <1>1, <1>3 DEF RowTypes, LaneTypes
<1>6. BusTypes' /\ AsksWell
  <2>1. ASSUME NEW b \in Manual, NEW d \in Manual, FollowUp[b] = d, d \in Repeats(c, v)
        PROVE  b = c /\ v # "failed"
    BY <2>1, ConstantsAssumption DEF Repeats, Cycle
  <2>2. v # "failed" => \A a \in Adapter : sources'[c][a] \in Successful
    BY <1>1, <1>3, <1>4 DEF IInv, LaneRows
  <2>3. asked' \in [Manual -> {"no", "operator", "repeat"}]
    BY <1>0, <1>3 DEF BusTypes
  <2>4. ASSUME NEW b \in Manual, NEW d \in Manual, FollowUp[b] = d,
               asked'[d] = "repeat", asked[d] # "repeat"
        PROVE  /\ status'[b] \in Succeeded
               /\ \A a \in Adapter : sources'[b][a] \in Successful
    <3>1. d \in Repeats(c, v)
      BY <1>3, <2>4
    <3> QED
      BY <1>0, <1>1, <1>3, <2>1, <2>2, <2>4, <3>1
         DEF RowTypes, Succeeded, TerminalCycle
  <2>5. AsksWell
    BY <2>3, <2>4 DEF AsksWell
  <2> QED
    BY <1>0, <1>3, <2>3, <2>5 DEF BusTypes
<1>7. LaneRows' /\ SourcesKept
  BY <1>3 DEF LaneRows, SourcesKept, IInv
<1>8. status'[c] \in Succeeded => \A a \in Adapter : sources'[c][a] \in Successful
  BY <1>0, <1>1, <1>3, <1>4 DEF IInv, LaneRows, RowTypes, Succeeded
<1>9. Quiet
  BY <1>0, <1>1, <1>3, <1>4, <1>7, <1>8 DEF Quiet, Onward, FinalStep, Ended, RowTypes,
     Active, TerminalCycle
<1> QED
  BY <1>2, <1>3, <1>5, <1>6, <1>9, HandlerStep

LEMMA FailPhaseStep ==
    ASSUME IInv, NEW w \in Worker, FailPhase(w)
    PROVE  StepOK
<1> DEFINE c == CycleOf(cmd[w])
<1>0. /\ ProcTypes /\ RowTypes /\ LaneTypes /\ BusTypes /\ TypeOK
      /\ HandState(pc[w], cmd[w], verdict[w])
      /\ cmd[w] \in Command
  BY Hand DEF FailPhase, IInv
<1>1. c \in Cycle
  BY <1>0, Commands
<1>2. Handling(w)
  BY <1>0 DEF FailPhase, Handling, HandState, ProcTypes, ControlPoint, Goto, envVars,
              workerVars, Fenced, CarriesSuccess
<1>3. /\ UNCHANGED <<revision, batches, position, tickets, slot, recoveries>>
      /\ UNCHANGED <<child, retryable, sources, inbox, asked>>
      /\ UNCHANGED deliveryVars /\ UNCHANGED boundVars
      /\ \/ UNCHANGED <<status, lease, advances>>
         \/ /\ ~Ended(c)
            /\ status' = [status EXCEPT ![c] = "failed"]
            /\ lease' = [lease EXCEPT ![c] = FALSE]
            /\ EmitAdvance(c)
  BY DEF FailPhase, childVars, envVars
<1>4. advances' \in [Cycle -> 0..MaxAdvances]
  BY <1>0, <1>3, Emitted DEF BusTypes, EmitAdvance
<1> HIDE DEF c
<1>5. RowTypes' /\ LaneTypes' /\ BusTypes' /\ AsksWell
  BY <1>0, <1>1, <1>3, <1>4 DEF RowTypes, LaneTypes, BusTypes, AsksWell, TerminalCycle
<1>6. LaneRows' /\ SourcesKept
  BY <1>3 DEF LaneRows, SourcesKept, IInv
<1>7. Quiet
  BY <1>0, <1>1, <1>3, <1>6 DEF Quiet, Onward, FinalStep, Ended, RowTypes, TerminalCycle,
     Succeeded
<1> QED
  BY <1>2, <1>3, <1>5, <1>7, HandlerStep

(* Every step of a handler.                                                *)
LEMMA HandleSteps ==
    ASSUME IInv, NEW w \in Worker, Handle(w)
    PROVE  StepOK
BY ControlSteps, ClaimSteps, CloseSteps, BindStep, RunStep, ReportSteps, DiscoverySteps,
   FinishCycleStep, FailPhaseStep
DEF Handle

-----------------------------------------------------------------------------
(* Steps outside the handlers.                                             *)

(* No process moves; deliveries may lose their holder.                     *)
Aside ==
    /\ UNCHANGED <<pc, cmd, verdict, at, rev, slot, completed, attempt>>
    /\ holder' \in [Command -> Worker \cup {NoWorker}]
    /\ \A e \in Command : holder'[e] \in {holder[e], NoWorker}

LEMMA AsideStep ==
    ASSUME IInv, Aside, BoundTypes', RowTypes', LaneTypes', BusTypes', Quiet, AsksWell
    PROVE  StepOK
<1>0. /\ ProcTypes /\ HandsInv /\ OneCycle /\ DeliveryTypes /\ CompletedOnce
      /\ NoWorker \notin Worker
  BY TypeGroups, ConstantsAssumption DEF IInv
<1>1. ProcTypes' /\ HandsInv' /\ OneCycle' /\ DeliveryTypes'
  BY <1>0 DEF Aside, ProcTypes, HandsInv, OneCycle, DeliveryTypes, Fenced
<1>2. CompletedOnce'
  BY <1>0 DEF Aside, CompletedOnce, Fenced, DeliveryTypes
<1>3. QueueSide
  BY QuietRows
<1>4. LaneHands'
  BY <1>3, Carried DEF LaneHands, Aside, QueueSide
<1> QED
  BY <1>1, <1>2, <1>3, <1>4, TypeGroupsNext DEF StepOK

LEMMA ExpirySteps ==
    ASSUME IInv,
           \/ \E e \in Command : ExpireDelivery(e) \/ LapseDelivery(e)
           \/ \E c \in Cycle : ExpireCycle(c)
    PROVE  StepOK
<1>0. /\ RowTypes /\ LaneTypes /\ BusTypes /\ DeliveryTypes /\ BoundTypes
      /\ MaxLapses \in Nat
  BY TypeGroups, ConstantsAssumption DEF IInv
<1>1. Aside
  BY <1>0 DEF Aside, ExpireDelivery, LapseDelivery, ExpireCycle, DeliveryTypes,
     workerVars, envVars, rowVars, queueVars, deliveryVars
<1>2. /\ UNCHANGED <<cycleVars, position, recoveries, tickets, slot, childVars, busVars>>
      /\ lease' \in [Cycle -> BOOLEAN]
  BY <1>0 DEF ExpireDelivery, LapseDelivery, ExpireCycle, rowVars, queueVars, RowTypes
<1>3. BoundTypes'
  BY <1>0 DEF BoundTypes, ExpireDelivery, LapseDelivery, ExpireCycle, envVars,
     boundVars
<1>4. RowTypes' /\ LaneTypes' /\ BusTypes' /\ AsksWell
  BY <1>0, <1>2 DEF RowTypes, LaneTypes, BusTypes, AsksWell, cycleVars, childVars,
     busVars
<1>5. Quiet
  BY <1>2, StillRows DEF cycleVars, childVars
<1> QED
  BY <1>1, <1>3, <1>4, <1>5, AsideStep

LEMMA RequestStep ==
    ASSUME IInv, NEW c \in Manual, RequestCycle(c)
    PROVE  StepOK
<1>0. /\ RowTypes /\ LaneTypes /\ BusTypes /\ DeliveryTypes /\ BoundTypes
  BY TypeGroups DEF IInv
<1>1. Aside /\ BoundTypes'
  BY <1>0 DEF Aside, RequestCycle, DeliveryTypes, BoundTypes, workerVars, envVars,
     boundVars, rowVars, queueVars, deliveryVars
<1>2. /\ UNCHANGED <<status, revision, batches, position, lease, recoveries,
                     tickets, slot, child, retryable, sources, inbox, advances>>
      /\ asked' = [asked EXCEPT ![c] = "operator"]
  BY DEF RequestCycle, rowVars, cycleVars, queueVars, childVars
<1>3. RowTypes' /\ LaneTypes' /\ BusTypes' /\ AsksWell
  BY <1>0, <1>2 DEF RowTypes, LaneTypes, BusTypes, AsksWell
<1>4. Quiet
  BY <1>2, StillRows
<1> QED
  BY <1>1, <1>3, <1>4, AsideStep

LEMMA ScheduledStep ==
    ASSUME IInv, NEW w \in Worker, NEW c \in Scheduled, NEW a \in Adapter,
           ScheduledChild(w, c, a)
    PROVE  StepOK
<1>0. /\ RowTypes /\ LaneTypes /\ BusTypes /\ DeliveryTypes /\ BoundTypes
      /\ ProcTypes /\ TypeOK /\ VerifiedWhole /\ c \in Cycle /\ MaxRevision \in Nat
  BY TypeGroups, ConstantsAssumption DEF IInv, Cycle
<1>1. Aside /\ BoundTypes'
  BY <1>0 DEF Aside, ScheduledChild, DeliveryTypes, BoundTypes, workerVars, envVars,
     boundVars, queueVars, deliveryVars
<1>2. /\ UNCHANGED <<batches, position, lease, recoveries, tickets, slot,
                     retryable, sources, inbox, asked>>
      /\ child' = [child EXCEPT ![c][a] = "received"]
      /\ child[c][a] = "none"
      /\ advances' \in [Cycle -> 0..MaxAdvances]
  BY <1>0, Emitted DEF ScheduledChild, queueVars, EmitAdvance, BusTypes
<1>3. child' \in [Cycle -> [Adapter -> {"none", "received", "queued",
                              "running", "retrying"} \cup TerminalChild]]
  BY <1>0, <1>2, Setting DEF LaneTypes
<1>4. /\ \/ status' = status
         \/ status[c] = "absent" /\ status' = [status EXCEPT ![c] = "collecting"]
      /\ revision' \in [Cycle -> 0..MaxRevision]
  BY <1>0 DEF ScheduledChild, RowTypes, ProcTypes
<1>5. RowTypes' /\ LaneTypes' /\ BusTypes' /\ AsksWell
  BY <1>0, <1>2, <1>3, <1>4 DEF RowTypes, LaneTypes, BusTypes, AsksWell
<1>6. FinalStep
  BY <1>0, <1>2, <1>4 DEF FinalStep, Ended, TerminalCycle, TerminalChild, RowTypes,
     LaneTypes
<1>8. LaneRows' /\ SourcesKept
  BY <1>0, <1>2 DEF LaneRows, SourcesKept, IInv, LaneTypes, Successful
<1>7. Quiet
  BY <1>0, <1>2, <1>4, <1>6, <1>8 DEF Quiet, Onward, RowTypes, Succeeded
<1> QED
  BY <1>1, <1>5, <1>7, AsideStep

(* A worker passes the guard, or begins direct work.                       *)
LEMMA GuardedStep ==
    ASSUME IInv, NEW w \in Worker, NEW e \in Command, ReceiveGuarded(w, e)
    PROVE  StepOK
<1>0. /\ RowTypes /\ LaneTypes /\ BusTypes /\ DeliveryTypes /\ BoundTypes
      /\ ProcTypes /\ HandsInv /\ OneCycle /\ CompletedOnce
      /\ NoCycle \notin Cycle /\ CycleOf(e) \in Cycle /\ MaxReceives \in Nat
      /\ Worker \cap Coordinator = {}
  BY Hand, Commands, ConstantsAssumption DEF IInv
<1>1. /\ UNCHANGED <<cycleVars, position, recoveries, tickets, slot, childVars,
                     asked, advances, completed, holder, attempt, verdict, at, rev,
                     crashes, lapses, directs>>
      /\ inbox' = [inbox EXCEPT ![e] = @ - 1] /\ inbox[e] > 0
      /\ lease' = [lease EXCEPT ![CycleOf(e)] = TRUE]
      /\ pc' = [pc EXCEPT ![w] = "guarded"]
      /\ cmd' = [cmd EXCEPT ![w] = e]
      /\ pc[w] = "idle" /\ e \notin completed
      /\ SharedFree /\ slot = CycleOf(e)
  BY DEF ReceiveGuarded, Guarded, Goto, deliveryVars, envVars, boundVars
<1>2. ProcTypes' /\ HandsInv'
  BY <1>0, <1>1 DEF ProcTypes, ControlPoint, HandsInv, HandState
<1>3. OneCycle'
  BY <1>0, <1>1 DEF OneCycle, Fenced, SharedFree, ProcTypes
<1>4. CompletedOnce' /\ DeliveryTypes' /\ BoundTypes'
  BY <1>0, <1>1 DEF CompletedOnce, Fenced, ProcTypes, DeliveryTypes, BoundTypes
<1>5. RowTypes' /\ LaneTypes' /\ BusTypes' /\ AsksWell
  BY <1>0, <1>1 DEF RowTypes, LaneTypes, BusTypes, AsksWell, cycleVars, childVars
<1>6. QueueSide
  BY <1>1, <1>5, StillRows, QuietRows DEF cycleVars, childVars
<1>7. LaneHands'
  BY <1>0, <1>1, <1>6, Carried DEF LaneHands, CarriesSuccess, QueueSide, ProcTypes
<1> QED
  BY <1>2, <1>3, <1>4, <1>5, <1>6, <1>7, TypeGroupsNext DEF StepOK

LEMMA DirectStep ==
    ASSUME IInv, NEW w \in Worker, DirectBegin(w)
    PROVE  StepOK
<1>0. /\ RowTypes /\ LaneTypes /\ BusTypes /\ DeliveryTypes /\ BoundTypes
      /\ ProcTypes /\ HandsInv /\ OneCycle /\ CompletedOnce
      /\ MaxDirect \in Nat /\ Worker \cap Coordinator = {}
  BY Hand, ConstantsAssumption DEF IInv
<1>1. /\ UNCHANGED <<rowVars, asked, inbox, advances, completed, holder, attempt>>
      /\ UNCHANGED <<cmd, verdict, at, rev, crashes, lapses>>
      /\ directs' = directs + 1 /\ directs < MaxDirect
      /\ pc' = [pc EXCEPT ![w] = "direct"]
      /\ ExclusiveFree /\ slot = NoCycle
  BY DEF DirectBegin, dbVars, busVars, deliveryVars, workerVars, Goto
<1>2. ProcTypes' /\ HandsInv'
  BY <1>0, <1>1 DEF ProcTypes, ControlPoint, HandsInv, HandState
<1>3. OneCycle'
  BY <1>0, <1>1 DEF OneCycle, Fenced, ExclusiveFree, ProcTypes, rowVars, queueVars
<1>4. CompletedOnce' /\ DeliveryTypes' /\ BoundTypes'
  BY <1>0, <1>1 DEF CompletedOnce, Fenced, ProcTypes, DeliveryTypes, BoundTypes
<1>5. RowTypes' /\ LaneTypes' /\ BusTypes' /\ AsksWell
  BY <1>0, <1>1 DEF RowTypes, LaneTypes, BusTypes, AsksWell, rowVars, cycleVars,
                    queueVars, childVars
<1>6. QueueSide
  BY <1>1, <1>5, StillRows, QuietRows DEF rowVars, cycleVars, queueVars, childVars
<1>7. LaneHands'
  BY <1>0, <1>1, <1>6, Carried DEF LaneHands, CarriesSuccess, QueueSide, ProcTypes
<1> QED
  BY <1>2, <1>3, <1>4, <1>5, <1>6, <1>7, TypeGroupsNext DEF StepOK

-----------------------------------------------------------------------------
(* Coordinators.  Only p moves; the slot may change hands only while no    *)
(* worker holds the fence.                                                 *)
Coordinating(p) ==
    /\ UNCHANGED <<cmd, verdict, completed, holder, attempt>>
    /\ pc' \in [Worker \cup Coordinator -> ControlPoint]
    /\ at' \in [Coordinator -> Cycle \cup {NoCycle}]
    /\ rev' \in [Worker \cup Coordinator -> 1..MaxRevision]
    /\ \A q \in Worker \cup Coordinator : q # p => pc'[q] = pc[q]
    /\ \A q \in Coordinator : q # p => at'[q] = at[q]
    /\ pc'[p] \in {"poll", "verify", "step", "advanced", "admit", "bootstrap"}
    /\ pc'[p] \in {"verify", "step", "advanced"} => at'[p] \in Cycle
    /\ slot' = slot \/ ExclusiveFree

LEMMA CoordinatingKeeps ==
    ASSUME IInv, NEW p \in Coordinator, Coordinating(p), BoundTypes', QueueSide,
           RowTypes', LaneTypes', BusTypes', AsksWell
    PROVE  StepOK
<1>0. /\ ProcTypes /\ HandsInv /\ OneCycle /\ DeliveryTypes /\ CompletedOnce
      /\ Worker \cap Coordinator = {}
  BY TypeGroups, ConstantsAssumption DEF IInv
<1>1. \A w \in Worker : pc'[w] = pc[w] /\ cmd'[w] = cmd[w] /\ verdict'[w] = verdict[w]
  BY <1>0 DEF Coordinating
<1>2. ProcTypes' /\ HandsInv' /\ DeliveryTypes'
  BY <1>0, <1>1 DEF Coordinating, ProcTypes, HandsInv, DeliveryTypes
<1>3. OneCycle'
  BY <1>0, <1>1 DEF Coordinating, OneCycle, Fenced, ExclusiveFree
<1>4. CompletedOnce'
  BY <1>0, <1>1 DEF Coordinating, CompletedOnce, Fenced
<1>5. LaneHands'
  BY <1>1, Carried DEF LaneHands, QueueSide
<1> QED
  BY <1>2, <1>3, <1>4, <1>5, TypeGroupsNext DEF StepOK

LEMMA EndCoordinator ==
    ASSUME IInv, NEW p \in Coordinator, CrashCoordinator(p) \/ DeployCoordinator(p)
    PROVE  StepOK
<1>0. /\ RowTypes /\ LaneTypes /\ BusTypes /\ BoundTypes /\ ProcTypes /\ TypeOK
      /\ {MaxCrashes, MaxRevision} \subseteq Nat
  BY TypeGroups, ConstantsAssumption DEF IInv
<1>1. UNCHANGED <<rowVars, asked, inbox, completed, holder, attempt, cmd, verdict>>
  BY DEF CrashCoordinator, DeployCoordinator, dbVars, busVars, deliveryVars, workerVars
<1>2. Coordinating(p) /\ BoundTypes'
  BY <1>0, <1>1 DEF CrashCoordinator, DeployCoordinator, Coordinating, ProcTypes, ControlPoint,
     rowVars, queueVars, BoundTypes, boundVars
<1>3. advances' \in [Cycle -> 0..MaxAdvances]
  BY <1>0, Emitted DEF CrashCoordinator, DeployCoordinator, BusTypes, dbVars, busVars
<1>4. RowTypes' /\ LaneTypes' /\ BusTypes' /\ AsksWell
  BY <1>0, <1>1, <1>3 DEF RowTypes, LaneTypes, BusTypes, AsksWell, rowVars, cycleVars,
                    queueVars, childVars
<1>5. QueueSide
  BY <1>1, <1>4, StillRows, QuietRows DEF rowVars, cycleVars, queueVars, childVars
<1> QED
  BY <1>2, <1>4, <1>5, CoordinatingKeeps

(* The children of ended cycles stay; others may only fail.                *)
LEMMA Failed ==
    ASSUME IInv, NEW S, FailChildren(S)
    PROVE  /\ child' \in [Cycle -> [Adapter -> {"none", "received", "queued",
                              "running", "retrying"} \cup TerminalChild]]
           /\ \A c \in Cycle, a \in Adapter :
                 /\ child[c][a] \in TerminalChild => child'[c][a] = child[c][a]
                 /\ child'[c][a] \in Successful => child'[c][a] = child[c][a]
<1>0. LaneTypes
  BY TypeGroups DEF IInv
<1> QED
  BY <1>0 DEF LaneTypes, FailChildren, TerminalChild, Successful

LEMMA VerifyStep ==
    ASSUME IInv, NEW p \in Coordinator, Verify(p)
    PROVE  StepOK
<1>0. /\ RowTypes /\ LaneTypes /\ BusTypes /\ BoundTypes /\ ProcTypes /\ TypeOK
      /\ at[p] \in Cycle
  BY TypeGroups DEF IInv, HandsInv, Verify
<1>1. PICK ends \in SUBSET {at[p]} :
        /\ ends \subseteq {c \in {at[p]} : ~Ended(c)}
        /\ status' = [d \in Cycle |-> IF d \in ends THEN "failed" ELSE status[d]]
        /\ lease' = [d \in Cycle |-> lease[d] /\ d \notin ends]
        /\ FailChildren(ends)
        /\ EmitAdvances(ends, {})
  <2> DEFINE ends == IF revision[at[p]] = rev[p] \/ Ended(at[p]) THEN {} ELSE {at[p]}
  <2>1. /\ status' = [d \in Cycle |-> IF d \in ends THEN "failed" ELSE status[d]]
        /\ lease' = [d \in Cycle |-> lease[d] /\ d \notin ends]
        /\ FailChildren(ends)
        /\ EmitAdvances(ends, {})
    BY DEF Verify
  <2>2. ends \in SUBSET {at[p]} /\ ends \subseteq {c \in {at[p]} : ~Ended(c)}
    OBVIOUS
  <2> QED
    BY <2>1, <2>2
<1>2. /\ UNCHANGED <<revision, batches, position, recoveries, tickets, slot,
                     retryable, sources, asked, inbox>>
      /\ UNCHANGED <<completed, holder, attempt, cmd, verdict, rev, crashes, lapses,
                     directs>>
  BY DEF Verify, deliveryVars, workerVars, boundVars
<1>3. Coordinating(p) /\ BoundTypes'
  BY <1>0, <1>2 DEF Verify, Coordinating, ProcTypes, ControlPoint, BoundTypes
<1>4. /\ advances' \in [Cycle -> 0..MaxAdvances]
      /\ child' \in [Cycle -> [Adapter -> {"none", "received", "queued",
                              "running", "retrying"} \cup TerminalChild]]
      /\ \A c \in Cycle, a \in Adapter :
            /\ child[c][a] \in TerminalChild => child'[c][a] = child[c][a]
            /\ child'[c][a] \in Successful => child'[c][a] = child[c][a]
  BY <1>0, <1>1, Emitted, Failed
<1>5. RowTypes' /\ LaneTypes' /\ BusTypes' /\ AsksWell
  BY <1>0, <1>1, <1>2, <1>4 DEF RowTypes, LaneTypes, BusTypes, AsksWell, TerminalCycle
<1>6. LaneRows' /\ SourcesKept
  BY <1>2, <1>4 DEF LaneRows, SourcesKept, IInv
<1>7. Quiet
  BY <1>0, <1>1, <1>2, <1>4, <1>6 DEF Quiet, Onward, FinalStep, Ended, RowTypes,
     TerminalCycle, Succeeded
<1> QED
  BY <1>3, <1>5, <1>7, QuietRows, CoordinatingKeeps

(* A cycle draws a ticket.                                                 *)
LEMMA Enqueued ==
    ASSUME IInv, NEW c \in Cycle, status[c] \in {"absent", "collecting"},
           status' = [status EXCEPT ![c] = "queued"],
           tickets' = tickets + 1,
           position' = [position EXCEPT ![c] = tickets + 1],
           UNCHANGED <<slot, recoveries, child, sources>>
    PROVE  QueueSide
<1>0. /\ RowTypes /\ QueueInv /\ SlotHeld /\ VerifiedWhole
  BY TypeGroups DEF IInv
<1> USE <1>0 DEF RowTypes, Active, TerminalCycle
<1>1. QueueInv'
  BY DEF QueueInv
<1>2. SlotHeld'
  BY DEF SlotHeld
<1>3. VerifiedWhole' /\ FinalStep
  BY DEF VerifiedWhole, FinalStep, Ended
<1>4. HandoverStep /\ FifoStep
  BY DEF HandoverStep, FifoStep
<1>5. LaneRows' /\ SourcesKept
  BY DEF LaneRows, SourcesKept, IInv
<1> QED
  BY <1>1, <1>2, <1>3, <1>4, <1>5 DEF QueueSide

LEMMA StartStep ==
    ASSUME IInv, NEW p \in Coordinator, NEW c \in Cycle, Start(p, c)
    PROVE  StepOK
<1>0. /\ RowTypes /\ LaneTypes /\ BusTypes /\ BoundTypes /\ ProcTypes
      /\ MaxRevision \in Nat
  BY TypeGroups, ConstantsAssumption DEF IInv
<1>1. Coordinating(p) /\ BoundTypes'
  BY <1>0 DEF Start, Coordinating, ProcTypes, ControlPoint, BoundTypes, envVars, boundVars,
     workerVars, deliveryVars
<1>2. RowTypes'
  BY <1>0 DEF Start, RowTypes, ProcTypes
<1>3. LaneTypes' /\ BusTypes' /\ AsksWell
  BY <1>0 DEF Start, LaneTypes, BusTypes, AsksWell, childVars, busVars
<1>4. QueueSide
  BY Enqueued DEF Start, childVars
<1> QED
  BY <1>1, <1>2, <1>3, <1>4, CoordinatingKeeps

LEMMA StepStep ==
    ASSUME IInv, NEW p \in Coordinator, Step(p)
    PROVE  StepOK
<1> DEFINE c == at[p]
<1>0. /\ RowTypes /\ LaneTypes /\ BusTypes /\ BoundTypes /\ ProcTypes /\ TypeOK
      /\ c \in Cycle /\ {MaxAttempts, MaxRevision} \subseteq Nat
  BY TypeGroups, ConstantsAssumption DEF IInv, HandsInv, Step
<1>1. /\ UNCHANGED <<revision, batches, slot, asked, advances, cmd, verdict,
                     completed, holder, attempt>>
      /\ pc' = [pc EXCEPT ![p] = "advanced"]
      /\ UNCHANGED <<at, rev, crashes, lapses, directs>>
  BY DEF Step, deliveryVars, workerVars, envVars, boundVars
<1>2. Coordinating(p) /\ BoundTypes'
  BY <1>0, <1>1 DEF Coordinating, ProcTypes, ControlPoint, BoundTypes
<1> HIDE DEF c
<1>3. SUFFICES RowTypes' /\ LaneTypes' /\ inbox' \in [Command -> 0..MaxReceives]
               /\ QueueSide
  BY <1>0, <1>1, <1>2, CoordinatingKeeps DEF BusTypes, AsksWell
<1>4. CASE Enqueue(c)
  <2>1. RowTypes'
    BY <1>0, <1>1, <1>4 DEF Enqueue, RowTypes
  <2>2. LaneTypes' /\ inbox' \in [Command -> 0..MaxReceives]
    BY <1>0, <1>4 DEF Enqueue, LaneTypes, BusTypes, childVars
  <2>3. QueueSide
    BY <1>0, <1>1, <1>4, Enqueued DEF Enqueue, childVars
  <2> QED
    BY <2>1, <2>2, <2>3
<1>5. CASE Dispatch(c)
  <2>1. RowTypes' /\ LaneTypes' /\ inbox' \in [Command -> 0..MaxReceives]
    BY <1>0, <1>1, <1>5, Sent DEF Dispatch, RowTypes, LaneTypes, Active
  <2>2. LaneRows' /\ SourcesKept
    BY <1>0, <1>5 DEF Dispatch, LaneRows, SourcesKept, IInv, LaneTypes, Successful
  <2>3. Quiet
    BY <1>0, <1>1, <1>5, <2>2 DEF Dispatch, Quiet, Onward, FinalStep, Ended, RowTypes,
       LaneTypes, Active, TerminalCycle, Succeeded
  <2> QED
    BY <2>1, <2>3, QuietRows
<1>6. CASE Evaluate(c)
  <2>1. LaneTypes' /\ inbox' \in [Command -> 0..MaxReceives]
    BY <1>0, <1>6, Sent DEF Evaluate, LaneTypes, childVars
  <2>2. RowTypes'
    BY <1>0, <1>1, <1>6 DEF Evaluate, RowTypes, Active
  <2>3. LaneRows' /\ SourcesKept
    BY <1>6 DEF Evaluate, LaneRows, SourcesKept, IInv, childVars
  <2>4. Quiet
    BY <1>0, <1>1, <1>6, <2>3 DEF Evaluate, Quiet, Onward, FinalStep, Ended, RowTypes,
       Active, TerminalCycle, Succeeded, childVars
  <2> QED
    BY <2>1, <2>2, <2>4, QuietRows
<1>7. CASE Waits(c)
  <2>1. RowTypes' /\ LaneTypes' /\ inbox' \in [Command -> 0..MaxReceives]
    BY <1>0, <1>1, <1>7 DEF Waits, RowTypes, LaneTypes, BusTypes, childVars
  <2>2. QueueSide
    BY <1>1, <1>7, <2>1, StillRows, QuietRows DEF Waits, childVars
  <2> QED
    BY <2>1, <2>2
<1> QED
  BY <1>4, <1>5, <1>6, <1>7 DEF Step, c

-----------------------------------------------------------------------------
(* Reconciliation by p, by the names of its definition.                    *)
Stays(p, admit) == slot # NoCycle /\ ~Retired(p, admit)
Seeks(p, admit) == admit /\ ~Stays(p, admit)
Recovers(p, admit) == Stays(p, admit) /\ admit /\ ~lease[slot]
Chosen(p, admit) == IF Seeks(p, admit) THEN NextUp(p) ELSE {}
Failing(p, admit) ==
    Unserialized
    \cup (IF slot # NoCycle /\ Retired(p, admit) /\ ~Ended(slot) THEN {slot} ELSE {})
    \cup (IF Seeks(p, admit) THEN Skipped(p) ELSE {})

(* Nobody who has ended is failed, only waiting cycles are chosen, at most *)
(* one of them, and none of those it overtakes goes on.                    *)
LEMMA Choices ==
    ASSUME IInv, NEW p, NEW admit
    PROVE  /\ \A c \in Failing(p, admit) :
                 c \in Cycle /\ ~Ended(c) /\ c \notin Chosen(p, admit)
           /\ \A c \in Chosen(p, admit) : c \in Cycle /\ status[c] = "queued"
           /\ \A c, d \in Chosen(p, admit) : c = d
           /\ \A c \in Chosen(p, admit), d \in Cycle :
                 status[d] = "queued" /\ position[d] < position[c]
                    => d \in Failing(p, admit)
           /\ Chosen(p, admit) # {} => ~Stays(p, admit)
           /\ slot # NoCycle /\ ~Stays(p, admit) =>
                 Ended(slot) \/ slot \in Failing(p, admit)
<1>0. /\ RowTypes /\ QueueInv
  BY TypeGroups DEF IInv
<1> USE DEF Chosen, Failing, Stays
<1>1. \A c \in Unserialized : c \in Cycle /\ ~Ended(c) /\ status[c] # "queued"
  BY DEF Unserialized, Ended, TerminalCycle, Active
<1>2. \A c \in Skipped(p) : /\ c \in Cycle /\ status[c] = "queued"
                            /\ revision[c] # rev[p]
  BY DEF Skipped, Mismatched, Waiting
<1>3. \A c \in NextUp(p) : /\ c \in Cycle /\ status[c] = "queued"
                           /\ revision[c] = rev[p]
  BY DEF NextUp, Mismatched, Waiting
<1>5. ASSUME NEW c \in NextUp(p), NEW d \in NextUp(p) PROVE c = d
  <2>1. /\ ~(position[c] < position[d]) /\ ~(position[d] < position[c])
    BY DEF NextUp, Ahead
  <2>2. position[c] \in Nat \ {0} /\ position[d] \in Nat \ {0}
    BY <1>0, <1>3 DEF RowTypes, QueueInv
  <2> QED
    BY <1>0, <1>3, <2>1, <2>2 DEF QueueInv
<1>6. ASSUME NEW c \in NextUp(p), NEW d \in Cycle, status[d] = "queued",
             position[d] < position[c]
      PROVE  d \in Skipped(p)
  <2>1. d \in Mismatched(p)
    BY <1>6 DEF NextUp, Ahead, Waiting
  <2>2. \A e \in NextUp(p) : d \in Ahead(e, Waiting)
    BY <1>5, <1>6 DEF Ahead, Waiting
  <2> QED
    BY <2>1, <2>2 DEF Skipped
<1>7. slot # NoCycle => slot \in Cycle /\ status[slot] # "queued"
  BY <1>0 DEF RowTypes, QueueInv, Active, TerminalCycle
<1>8. \A c \in Failing(p, admit) : c \in Cycle /\ ~Ended(c) /\ c \notin Chosen(p, admit)
  BY <1>1, <1>2, <1>3, <1>7 DEF Ended, TerminalCycle
<1> QED
  BY <1>3, <1>5, <1>6, <1>7, <1>8 DEF Seeks

(* What a reconciliation under the exclusive fence does.                   *)
Reconciled(p, admit) ==
    LET chosen == Chosen(p, admit)
        failing == Failing(p, admit)
        recovers == Recovers(p, admit)
    IN  /\ ExclusiveFree
        /\ status' = [c \in Cycle |->
               IF c \in failing THEN "failed"
               ELSE IF c \in chosen THEN "discovering" ELSE status[c]]
        /\ FailChildren(failing)
        /\ slot' = IF chosen # {} THEN CHOOSE c \in chosen : TRUE
                   ELSE IF Stays(p, admit) THEN slot ELSE NoCycle
        /\ lease' = [c \in Cycle |->
               IF c \in failing THEN FALSE
               ELSE lease[c] \/ c \in chosen \/ (recovers /\ c = slot)]
        /\ recoveries' = [c \in Cycle |->
               IF c \in chosen THEN 0
               ELSE IF recovers /\ c = slot THEN recoveries[c] + 1
               ELSE recoveries[c]]
        /\ \E E : Send(E)
        /\ UNCHANGED <<revision, batches, position, tickets, retryable, sources>>

LEMMA Reconciling ==
    ASSUME NEW p, NEW admit, NEW received, Reconcile(p, admit, received)
    PROVE  \/ /\ UNCHANGED <<rowVars, inbox>>
              /\ EmitAdvances({}, received)
           \/ /\ Reconciled(p, admit)
              /\ \E S : EmitAdvances(S, received)
<1>1. CASE ~ExclusiveFree
  BY <1>1 DEF Reconcile
<1>2. CASE ExclusiveFree
  <2>1. \E S : EmitAdvances(S, received)
    BY <1>2 DEF Reconcile
  <2>2. Reconciled(p, admit)
    BY <1>2 DEF Reconcile, Reconciled, Chosen, Failing, Recovers, Stays, Seeks
  <2> QED
    BY <2>1, <2>2
<1> QED
  BY <1>1, <1>2

LEMMA ReconciledRows ==
    ASSUME IInv, NEW p, NEW admit \in BOOLEAN, Reconciled(p, admit)
    PROVE  /\ RowTypes' /\ LaneTypes' /\ QueueSide
           /\ inbox' \in [Command -> 0..MaxReceives]
<1> DEFINE chosen == Chosen(p, admit)
           failing == Failing(p, admit)
           recovers == Recovers(p, admit)
           stays == Stays(p, admit)
<1>0. /\ RowTypes /\ LaneTypes /\ TypeOK /\ QueueInv /\ SlotHeld /\ VerifiedWhole
      /\ MaxAttempts \in Nat /\ NoCycle \notin Cycle
  BY TypeGroups, ConstantsAssumption DEF IInv
<1>1. /\ \A c \in failing : c \in Cycle /\ ~Ended(c) /\ c \notin chosen
      /\ \A c \in chosen : c \in Cycle /\ status[c] = "queued"
      /\ \A c, d \in chosen : c = d
      /\ \A c \in chosen, d \in Cycle :
            status[d] = "queued" /\ position[d] < position[c] => d \in failing
      /\ chosen # {} => ~stays
      /\ slot # NoCycle /\ ~stays => Ended(slot) \/ slot \in failing
  BY Choices
<1>2. /\ stays => slot \in Cycle /\ ~Ended(slot)
      /\ recovers => stays /\ recoveries[slot] < MaxAttempts
  BY <1>0 DEF Stays, Recovers, Retired, RowTypes
<1>3. /\ ExclusiveFree
      /\ status' = [c \in Cycle |->
             IF c \in failing THEN "failed"
             ELSE IF c \in chosen THEN "discovering" ELSE status[c]]
      /\ FailChildren(failing)
      /\ slot' = IF chosen # {} THEN CHOOSE c \in chosen : TRUE
                 ELSE IF stays THEN slot ELSE NoCycle
      /\ lease' = [c \in Cycle |->
             IF c \in failing THEN FALSE
             ELSE lease[c] \/ c \in chosen \/ (recovers /\ c = slot)]
      /\ recoveries' = [c \in Cycle |->
             IF c \in chosen THEN 0
             ELSE IF recovers /\ c = slot THEN recoveries[c] + 1
             ELSE recoveries[c]]
      /\ UNCHANGED <<revision, batches, position, tickets, retryable, sources>>
  BY DEF Reconciled
<1>4. inbox' \in [Command -> 0..MaxReceives]
  BY <1>0, Sent DEF Reconciled
<1>5. /\ child' \in [Cycle -> [Adapter -> {"none", "received", "queued",
                              "running", "retrying"} \cup TerminalChild]]
      /\ \A c \in Cycle, a \in Adapter :
            /\ child[c][a] \in TerminalChild => child'[c][a] = child[c][a]
            /\ child'[c][a] \in Successful => child'[c][a] = child[c][a]
  BY <1>3, Failed
<1> HIDE DEF chosen, failing, recovers, stays
<1>6. /\ chosen # {} => slot' \in chosen
      /\ chosen = {} => slot' = IF stays THEN slot ELSE NoCycle
  <2>1. chosen # {} => (CHOOSE c \in chosen : TRUE) \in chosen
    OBVIOUS
  <2> QED
    BY <1>3, <2>1
<1>7. RowTypes' /\ LaneTypes'
  <2>1. status' \in [Cycle -> {"absent", "requested", "collecting", "queued"}
                                \cup Active \cup TerminalCycle]
    BY <1>0, <1>3 DEF RowTypes, Active, TerminalCycle
  <2>2. lease' \in [Cycle -> BOOLEAN]
    BY <1>0, <1>3, Zenon DEF RowTypes
  <2>3. recoveries' \in [Cycle -> 0..MaxAttempts]
    BY <1>0, <1>2, <1>3 DEF RowTypes
  <2>4. slot' \in Cycle \cup {NoCycle}
    BY <1>1, <1>2, <1>6
  <2> QED
    BY <1>0, <1>3, <1>5, <2>1, <2>2, <2>3, <2>4 DEF RowTypes, LaneTypes
<1>8. /\ \A c \in Cycle : Ended(c) => status'[c] = status[c]
      /\ slot # NoCycle /\ ~stays => status'[slot] \in TerminalCycle
  BY <1>0, <1>1, <1>3 DEF Ended, TerminalCycle, RowTypes
<1>9. FinalStep
  BY <1>5, <1>8 DEF FinalStep
<1> USE DEF Active, TerminalCycle
<1>10. QueueInv'
  <2>1. slot' # NoCycle => status'[slot'] \in Active \cup TerminalCycle
    BY <1>0, <1>1, <1>2, <1>3, <1>6 DEF QueueInv, RowTypes
  <2>2. ASSUME NEW c \in Cycle
        PROVE  /\ status'[c] = "queued" => position'[c] # 0
               /\ position'[c] # 0 =>
                     status'[c] \in {"queued"} \cup Active \cup TerminalCycle
    BY <1>0, <1>1, <1>3 DEF QueueInv, RowTypes
  <2> QED
    BY <1>0, <1>3, <2>1, <2>2 DEF QueueInv
<1>11. SlotHeld'
  <2> SUFFICES ASSUME NEW c \in Cycle, position'[c] # 0, status'[c] \in Active
               PROVE  slot' = c
    BY DEF SlotHeld
  <2>1. c \notin failing
    BY <1>3
  <2>2. CASE c \in chosen
    BY <1>1, <1>6, <2>2
  <2>3. CASE c \notin chosen
    <3>1. status[c] \in Active /\ slot = c
      BY <1>0, <1>3, <2>1, <2>3 DEF SlotHeld
    <3>2. stays
      BY <1>0, <1>1, <2>1, <3>1 DEF Ended
    <3> QED
      BY <1>1, <1>6, <3>1, <3>2
  <2> QED
    BY <2>2, <2>3
<1>12. VerifiedWhole'
  <2> SUFFICES ASSUME NEW c \in Cycle, status'[c] \in Succeeded, NEW a \in Adapter
               PROVE  sources'[c][a] \in Successful
    BY DEF VerifiedWhole, Succeeded
  <2>1. status[c] \in Succeeded
    BY <1>3 DEF Succeeded
  <2> QED
    BY <1>0, <1>3, <2>1 DEF VerifiedWhole, Succeeded
<1>13. HandoverStep
  BY <1>1, <1>2, <1>3, <1>6, <1>8 DEF HandoverStep, ExclusiveFree, Fenced
<1>14. FifoStep
  <2> SUFFICES ASSUME NEW c \in Cycle, status[c] = "queued",
                      status'[c] = "discovering", NEW d \in Cycle,
                      0 < position[d], position[d] < position[c]
               PROVE  status'[d] \in TerminalCycle
    BY DEF FifoStep
  <2>1. c \in chosen /\ ~stays
    BY <1>1, <1>3
  <2>2. status[d] \in {"queued"} \cup Active \cup TerminalCycle
    BY <1>0 DEF QueueInv, RowTypes
  <2>3. CASE status[d] = "queued"
    BY <1>1, <1>3, <2>1, <2>3
  <2>4. CASE status[d] \in Active
    <3>1. slot = d /\ slot # NoCycle
      BY <1>0, <2>4 DEF SlotHeld, RowTypes
    <3> QED
      BY <1>8, <2>1, <3>1
  <2>5. CASE status[d] \in TerminalCycle
    BY <1>8, <2>5 DEF Ended
  <2> QED
    BY <2>2, <2>3, <2>4, <2>5
<1>15. LaneRows' /\ SourcesKept
  BY <1>3, <1>5 DEF LaneRows, SourcesKept, IInv
<1> QED
  BY <1>4, <1>7, <1>9, <1>10, <1>11, <1>12, <1>13, <1>14, <1>15 DEF QueueSide

LEMMA ReconcileSteps ==
    ASSUME IInv, NEW p \in Coordinator,
           \/ Poll(p) \/ Admit(p) \/ Bootstrap(p) \/ FinishAdvance(p)
           \/ \E c \in Cycle : TakeAdvance(p, c)
    PROVE  StepOK
<1>0. /\ RowTypes /\ LaneTypes /\ BusTypes /\ BoundTypes /\ ProcTypes /\ TypeOK
  BY TypeGroups DEF IInv
<1>1. PICK admit \in BOOLEAN, received \in SUBSET Cycle :
        /\ Reconcile(p, admit, received)
        /\ \A c \in received : advances[c] > 0
  <2>1. CASE Poll(p) \/ Admit(p) \/ FinishAdvance(p)
    <3>1. Reconcile(p, TRUE, {})
      BY <2>1 DEF Poll, Admit, FinishAdvance
    <3> WITNESS TRUE \in BOOLEAN, {} \in SUBSET Cycle
    <3> QED
      BY <3>1
  <2>2. CASE Bootstrap(p)
    <3>1. Reconcile(p, FALSE, {})
      BY <2>2 DEF Bootstrap
    <3> WITNESS FALSE \in BOOLEAN, {} \in SUBSET Cycle
    <3> QED
      BY <3>1
  <2>3. ASSUME NEW c \in Cycle, TakeAdvance(p, c)
        PROVE  /\ Reconcile(p, TRUE, {c})
               /\ \A d \in {c} : advances[d] > 0
    BY <2>3 DEF TakeAdvance
  <2>4. CASE \E c \in Cycle : TakeAdvance(p, c)
    <3>1. PICK c \in Cycle : TakeAdvance(p, c)
      BY <2>4
    <3> WITNESS TRUE \in BOOLEAN, {c} \in SUBSET Cycle
    <3> QED
      BY <2>3, <3>1
  <2> QED
    BY <2>1, <2>2, <2>4
<1>2. /\ UNCHANGED <<asked, completed, holder, attempt, cmd, verdict, rev, crashes,
                     lapses, directs>>
      /\ \/ UNCHANGED <<pc, at>>
         \/ pc' = [pc EXCEPT ![p] = "poll"] /\ UNCHANGED at
         \/ pc' = [pc EXCEPT ![p] = "poll"] /\ at' = [at EXCEPT ![p] = NoCycle]
         \/ \E c \in Cycle : /\ pc' = [pc EXCEPT ![p] = "verify"]
                             /\ at' = [at EXCEPT ![p] = c]
  BY DEF Poll, Admit, Bootstrap, FinishAdvance, TakeAdvance, deliveryVars, workerVars,
         envVars, boundVars
<1>3. \/ /\ UNCHANGED <<rowVars, inbox>>
         /\ EmitAdvances({}, received)
      \/ /\ Reconciled(p, admit)
         /\ \E S : EmitAdvances(S, received)
  BY <1>1, Reconciling
<1>4. advances' \in [Cycle -> 0..MaxAdvances]
  BY <1>0, <1>1, <1>3, Emitted
<1>5. /\ RowTypes' /\ LaneTypes' /\ QueueSide
      /\ inbox' \in [Command -> 0..MaxReceives]
      /\ slot' = slot \/ ExclusiveFree
  <2>1. CASE Reconciled(p, admit)
    BY <2>1, ReconciledRows DEF Reconciled
  <2>2. CASE UNCHANGED <<rowVars, inbox>>
    <3>1. RowTypes' /\ LaneTypes' /\ inbox' \in [Command -> 0..MaxReceives]
      BY <1>0, <2>2 DEF RowTypes, LaneTypes, BusTypes, rowVars, cycleVars, queueVars,
                        childVars
    <3> QED
      BY <2>2, <3>1, StillRows, QuietRows DEF rowVars, cycleVars, queueVars, childVars
  <2> QED
    BY <1>3, <2>1, <2>2
<1>6. Coordinating(p) /\ BoundTypes'
  <2>1. pc[p] \in {"poll", "verify", "step", "advanced", "admit", "bootstrap"}
        /\ (pc[p] \in {"verify", "step", "advanced"} => at[p] \in Cycle)
    BY DEF IInv, HandsInv
  <2> QED
    BY <1>0, <1>2, <1>5, <2>1 DEF Coordinating, ProcTypes, ControlPoint, BoundTypes
<1>7. BusTypes' /\ AsksWell
  BY <1>0, <1>2, <1>4, <1>5 DEF BusTypes, AsksWell
<1> QED
  BY <1>5, <1>6, <1>7, CoordinatingKeeps

-----------------------------------------------------------------------------
LEMMA NextStep ==
    ASSUME IInv, Next
    PROVE  StepOK
<1>1. ASSUME Ask PROVE StepOK
  BY <1>1, RequestStep, ScheduledStep, DirectStep DEF Ask
<1>2. ASSUME Break PROVE StepOK
  BY <1>2, WorkerEnds, EndCoordinator, ExpirySteps DEF Break
<1>3. ASSUME Expire PROVE StepOK
  BY <1>3, ExpirySteps DEF Expire
<1>4. ASSUME NEW p \in Coordinator, Coordinate(p) PROVE StepOK
  BY <1>4, ReconcileSteps, StartStep, VerifyStep, StepStep DEF Coordinate
<1>5. ASSUME NEW w \in Worker, Receive(w) PROVE StepOK
  BY <1>5, ReceiveSteps, GuardedStep DEF Receive
<1>6. ASSUME NEW w \in Worker, Handle(w) PROVE StepOK
  BY <1>6, HandleSteps
<1> QED
  BY <1>1, <1>2, <1>3, <1>4, <1>5, <1>6 DEF Next

LEMMA AnyStep ==
    ASSUME IInv, [Next]_vars
    PROVE  StepOK
<1>1. CASE Next
  BY <1>1, NextStep
<1>2. CASE UNCHANGED vars
  <2>1. UNCHANGED <<rowVars, busVars, deliveryVars, pc, cmd, verdict, at, rev, boundVars>>
    BY <1>2 DEF vars, dbVars, workerVars, envVars
  <2>2. /\ RowTypes /\ LaneTypes /\ BusTypes /\ BoundTypes /\ DeliveryTypes
    BY TypeGroups DEF IInv
  <2>3. Aside /\ BoundTypes'
    BY <2>1, <2>2 DEF Aside, rowVars, queueVars, deliveryVars, DeliveryTypes, BoundTypes,
       boundVars
  <2>4. RowTypes' /\ LaneTypes' /\ BusTypes' /\ AsksWell
    BY <2>1, <2>2 DEF RowTypes, LaneTypes, BusTypes, AsksWell, rowVars, cycleVars,
                      queueVars, childVars, busVars
  <2>5. Quiet
    BY <2>1, StillRows DEF rowVars, cycleVars, queueVars, childVars
  <2> QED
    BY <2>3, <2>4, <2>5, AsideStep
<1> QED
  BY <1>1, <1>2

LEMMA InitInv == Init => IInv
<1> SUFFICES ASSUME Init PROVE IInv
  OBVIOUS
<1>0. /\ {MaxAttempts, MaxReceives, MaxAdvances, MaxRevision} \subseteq Nat \ {0}
      /\ {MaxBatches, MaxCrashes, MaxLapses, MaxDirect} \subseteq Nat
      /\ Worker \cap Coordinator = {} /\ NoCycle \notin Cycle
      /\ FollowUp \in [Manual -> Manual \cup {NoCycle}]
  BY ConstantsAssumption
<1>1. RowTypes /\ \A c \in Cycle : status[c] \in {"absent", "requested"} \cup Active
  BY <1>0 DEF Init, RowTypes, Active
<1>2. LaneTypes
  BY DEF Init, LaneTypes
<1>3. BusTypes /\ DeliveryTypes /\ BoundTypes
  BY <1>0 DEF Init, BusTypes, DeliveryTypes, BoundTypes
<1>4. ProcTypes
  BY <1>0 DEF Init, ProcTypes, ControlPoint
<1>5. HandsInv
  BY <1>0 DEF Init, HandsInv, HandState
<1>6. QueueInv /\ SlotHeld
  <2>1. slot = NoCycle /\ tickets = 0 /\ \A c \in Cycle : position[c] = 0
    BY DEF Init
  <2>2. \A c \in Cycle : status[c] # "queued"
    BY <1>1 DEF Active
  <2> QED
    BY <2>1, <2>2 DEF QueueInv, SlotHeld
<1>7. OneCycle /\ CompletedOnce
  BY <1>0 DEF Init, OneCycle, CompletedOnce, Fenced
<1>8. VerifiedWhole /\ RepeatedWhole
  BY <1>1 DEF Init, VerifiedWhole, RepeatedWhole, Active
<1>9. LaneRows /\ LaneHands
  BY DEF Init, LaneRows, LaneHands, CarriesSuccess, Successful
<1> QED
  BY <1>1, <1>2, <1>3, <1>4, <1>5, <1>6, <1>7, <1>8, <1>9, TypeGroups DEF IInv

LEMMA Invariance == Spec => []IInv
<1>1. IInv /\ [Next]_vars => IInv'
  BY AnyStep, StepKeeps
<1> QED
  BY <1>1, InitInv, PTL DEF Spec

(* Rows, messages and processes stay well formed, and no cycle is          *)
(* recovered beyond the budget.                                            *)
THEOREM TypeCorrect == Spec => []TypeOK
BY Invariance, PTL DEF IInv

(* Whatever handlers, reconciliations, crashes and deployments interleave: *)
(* a handler past the guard works for the cycle in the slot, direct work   *)
(* runs alone.                                                             *)
THEOREM OneCycleAlways == Spec => []OneCycle
BY Invariance, PTL DEF IInv

(* A queued cycle that is active keeps the slot.                           *)
THEOREM SlotAlwaysHeld == Spec => []SlotHeld
BY Invariance, PTL DEF IInv

(* No redelivery and no overwritten child makes a cycle end well without   *)
(* the success of every lane's source tasks.                               *)
THEOREM VerifiedAlwaysWhole == Spec => []VerifiedWhole
BY Invariance, PTL DEF IInv

(* The unchanged repeat is asked for behind whole cycles only.             *)
THEOREM RepeatedAlwaysWhole == Spec => []RepeatedWhole
BY Invariance, PTL DEF IInv

(* No worker executes under the lease of a completed delivery.             *)
THEOREM CompletedAlwaysOnce == Spec => []CompletedOnce
BY Invariance, PTL DEF IInv

(* The slot changes hands, and commands are recovered, only while nothing  *)
(* executes, and from a cycle that has ended.                              *)
THEOREM HandsOver == Spec => Handover
<1>1. IInv /\ [Next]_vars =>
        [ /\ (slot' # slot \/ \E c \in Cycle : recoveries'[c] > recoveries[c])
                => \A w \in Worker : ~Fenced(w)
          /\ slot' # slot /\ slot # NoCycle => status'[slot] \in TerminalCycle ]_vars
  BY AnyStep DEF StepOK, QueueSide, HandoverStep
<1> QED
  BY <1>1, Invariance, PTL DEF Spec, Handover

(* Nobody overtakes a cycle in the queue that has not ended.               *)
THEOREM InOrder == Spec => Fifo
<1>1. IInv /\ [Next]_vars =>
        [ \A c \in Cycle : status[c] = "queued" /\ status'[c] = "discovering" =>
            \A d \in Cycle : 0 < position[d] /\ position[d] < position[c]
                              => status'[d] \in TerminalCycle ]_vars
  BY AnyStep DEF StepOK, QueueSide, FifoStep
<1> QED
  BY <1>1, Invariance, PTL DEF Spec, Fifo

(* The result of a cycle is final once it ended; a child's too but for a   *)
(* worker that is between child_context's read and its update.             *)
THEOREM FinalResults == Spec => Final
<1>1. IInv /\ [Next]_vars =>
        [ \A c \in Cycle : Ended(c) =>
            /\ status'[c] = status[c]
            /\ \A a \in Adapter :
                  child[c][a] \in TerminalChild /\ child'[c][a] # child[c][a]
                      => Binding(c, a) # {} ]_vars
  BY AnyStep DEF StepOK, QueueSide, FinalStep
<1> QED
  BY <1>1, Invariance, PTL DEF Spec, Final

=============================================================================
