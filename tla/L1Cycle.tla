------------------------------ MODULE L1Cycle ------------------------------
(***************************************************************************)
(* Whole L1 verification cycles (app/clhear/l1/cycles.py) and the worker   *)
(* path that executes their commands (app/clhear/workers.py).              *)
(*                                                                         *)
(* L0 coordinators admit one cycle at a time from a FIFO queue into the    *)
(* slot and advance it through its phases.  L1 workers execute discovery,  *)
(* adapter and evaluation commands under a shared execution fence, direct  *)
(* maintenance work and the admission of cycles under the exclusive one.   *)
(* A command is delivered at least once: it stays on its queue until it is *)
(* deleted or its receives are spent.  Each database transaction is one    *)
(* action; a handler that makes several is a process with a pc.            *)
(*                                                                         *)
(* A lease is a boolean, live or expired; when it may expire is said at    *)
(* the actions that expire it.  A queue row is finished exactly when its   *)
(* cycle is terminal (_terminal runs in the transaction that ends the      *)
(* cycle), so finished_at is not a variable.                               *)
(***************************************************************************)
EXTENDS Integers, FiniteSets

CONSTANTS
    Manual,       \* cycles asked for with L1CycleRequested
    Scheduled,    \* cycles made of EventBridge occurrences
    Legacy,       \* cycles left active by a deployment without the queue
    FollowUp,     \* FollowUp[c]: the unchanged repeat chained to c, or NoCycle
    NoCycle,
    Adapter,      \* the adapter lanes of a manifest
    Worker,       \* L1 worker processes
    NoWorker,
    Coordinator,  \* L0 worker processes
    NoCommand,
    MaxAttempts,  \* workflow.MAX_ATTEMPTS
    MaxReceives,  \* the redrive limit of the queues
    MaxBatches,   \* bound: page batches a discovery frontier yields
    MaxAdvances,  \* bound: advance commands counted apart
    MaxRevision,  \* bound: deployed revisions
    MaxCrashes,   \* bound: process deaths other than deployments
    MaxLapses,    \* bound: delivery leases that lapse under a live worker
    MaxDirect,    \* bound: direct maintenance commands
    Started       \* bound: the manual cycles that are ever created

Cycle == Manual \cup Scheduled \cup Legacy

ASSUME ConstantsAssumption ==
    /\ Manual \cap Scheduled = {} /\ Manual \cap Legacy = {}
    /\ Scheduled \cap Legacy = {}
    /\ NoCycle \notin Cycle
    /\ FollowUp \in [Manual -> Manual \cup {NoCycle}]
    /\ \A c, d \in Manual :   \* the repeat's name is its first cycle's, suffixed
          FollowUp[c] = FollowUp[d] => c = d \/ FollowUp[c] = NoCycle
    /\ NoWorker \notin Worker
    /\ Worker \cap Coordinator = {}
    /\ {MaxAttempts, MaxReceives, MaxAdvances, MaxRevision} \subseteq Nat \ {0}
    /\ {MaxBatches, MaxCrashes, MaxLapses, MaxDirect} \subseteq Nat
    /\ Started \subseteq Manual

(* Commands by their durable identity: the n-th discovery page batch, the  *)
(* evaluation, the adapter command of a child.                             *)
Discovery(c, n) == <<"discovery", c, n>>
Evaluation(c) == <<"evaluation", c, 0>>
Run(c, a) == <<"adapter", c, a>>

Command ==
    ({"discovery"} \X Cycle \X (1..MaxBatches + 1))
    \cup ({"evaluation"} \X Cycle \X {0})
    \cup ({"adapter"} \X Cycle \X Adapter)

ASSUME NoCommandAssumption == NoCommand \notin Command

KindOf(e) == e[1]
CycleOf(e) == e[2]

TerminalChild == {"completed", "completed_for_review", "failed"}
TerminalCycle == {"candidate_verified", "completed_for_review", "failed"}
Active == {"discovering", "planned", "running", "evaluating"}

VARIABLES
    (* l1_cycles, l1_cycle_queue, l1_cycle_slot *)
    status, revision, batches, position, lease, recoveries, tickets, slot,
    (* l1_cycle_children: the row's status, its result's retryable flag,  *)
    (* and what its job's source tasks have come to                       *)
    child, retryable, sources,
    (* outbox and queues: who asked for a cycle ("operator", or "repeat"  *)
    (* for finish_cycle), deliveries left of a command, advances          *)
    asked, inbox, advances,
    (* worker_deliveries *)
    completed, holder, attempt,
    (* processes: worker and coordinator control, command or cycle in hand *)
    pc, cmd, verdict, at, rev,
    (* what bounds the environment *)
    crashes, lapses, directs

cycleVars == <<status, revision, batches>>
queueVars == <<position, lease, recoveries, tickets, slot>>
childVars == <<child, retryable, sources>>
deliveryVars == <<completed, holder, attempt>>
workerVars == <<cmd, verdict>>
boundVars == <<crashes, lapses, directs>>
busVars == <<asked, inbox, advances>>
rowVars == <<cycleVars, queueVars, childVars>>
dbVars == <<rowVars, busVars, deliveryVars>>
envVars == <<at, rev, boundVars>>
vars == <<dbVars, pc, workerVars, envVars>>

(* Every row, message and process is in the domain the code writes; no     *)
(* cycle is recovered more often than the code's bound.                    *)
TypeOK ==
    /\ status \in [Cycle -> {"absent", "requested", "collecting", "queued"}
                              \cup Active \cup TerminalCycle]
    /\ revision \in [Cycle -> 0..MaxRevision]
    /\ batches \in [Cycle -> 0..MaxBatches]
    /\ position \in [Cycle -> Nat]
    /\ lease \in [Cycle -> BOOLEAN]
    /\ recoveries \in [Cycle -> 0..MaxAttempts]
    /\ tickets \in Nat
    /\ slot \in Cycle \cup {NoCycle}
    /\ child \in [Cycle -> [Adapter -> {"none", "received", "queued",
                              "running", "retrying"} \cup TerminalChild]]
    /\ retryable \in [Cycle -> [Adapter -> BOOLEAN]]
    /\ sources \in [Cycle -> [Adapter -> {"open"} \cup TerminalChild]]
    /\ asked \in [Manual -> {"no", "operator", "repeat"}]
    /\ inbox \in [Command -> 0..MaxReceives]
    /\ advances \in [Cycle -> 0..MaxAdvances]
    /\ completed \subseteq Command
    /\ holder \in [Command -> Worker \cup {NoWorker}]
    /\ attempt \in [Command -> 0..MaxAttempts]
    /\ pc \in [Worker \cup Coordinator ->
                {"idle", "guarded", "retired", "bind", "binding", "work", "report",
                 "raised", "settle", "failing", "closing", "direct",
                 "poll", "verify", "step", "advanced", "admit", "bootstrap"}]
    /\ cmd \in [Worker -> Command \cup {NoCommand}]
    /\ verdict \in [Worker -> {"none", "done", "error", "setup", "retrying", "running"}
                                \cup TerminalChild]
    /\ at \in [Coordinator -> Cycle \cup {NoCycle}]
    /\ rev \in [Worker \cup Coordinator -> 1..MaxRevision]
    /\ crashes \in 0..MaxCrashes
    /\ lapses \in 0..MaxLapses
    /\ directs \in 0..MaxDirect

(* Legacy cycles are in any status the earlier code left them in, without  *)
(* a queue row.                                                            *)
Init ==
    /\ \E old \in [Legacy -> {"requested"} \cup Active] :
        status = [c \in Cycle |-> IF c \in Legacy THEN old[c] ELSE "absent"]
    /\ revision = [c \in Cycle |-> 0]
    /\ batches = [c \in Cycle |-> 0]
    /\ position = [c \in Cycle |-> 0]
    /\ lease = [c \in Cycle |-> FALSE]
    /\ recoveries = [c \in Cycle |-> 0]
    /\ tickets = 0
    /\ slot = NoCycle
    /\ child = [c \in Cycle |-> [a \in Adapter |-> "none"]]
    /\ retryable = [c \in Cycle |-> [a \in Adapter |-> FALSE]]
    /\ sources = [c \in Cycle |-> [a \in Adapter |-> "open"]]
    /\ asked = [c \in Manual |-> "no"]
    /\ inbox = [e \in Command |-> 0]
    /\ advances = [c \in Cycle |-> 0]
    /\ completed = {}
    /\ holder = [e \in Command |-> NoWorker]
    /\ attempt = [e \in Command |-> 0]
    /\ pc = [p \in Worker \cup Coordinator |->
                IF p \in Worker THEN "idle" ELSE "poll"]
    /\ cmd = [w \in Worker |-> NoCommand]
    /\ verdict = [w \in Worker |-> "none"]
    /\ at = [p \in Coordinator |-> NoCycle]
    /\ rev = [p \in Worker \cup Coordinator |-> 1]
    /\ crashes = 0
    /\ lapses = 0
    /\ directs = 0

-----------------------------------------------------------------------------
(* A worker between operation_guard's checks and its exit holds the fence  *)
(* shared; a direct command holds it exclusive until it returns.           *)
Fenced(w) == pc[w] \notin {"idle", "retired", "direct"}
SharedFree == \A w \in Worker : pc[w] # "direct"
ExclusiveFree == \A w \in Worker : pc[w] \in {"idle", "retired"}

Ended(c) == status[c] \in TerminalCycle
Unfinished(c) == {a \in Adapter : child[c][a] \notin TerminalChild}
ChildrenEnded(c) == Unfinished(c) = {}

(* _emit of L1CycleAdvanceRequested for every cycle of S, and the receive  *)
(* of one advance of every cycle of T.  Identical advances on the queue    *)
(* count once above MaxAdvances.                                           *)
EmitAdvances(S, T) ==
    advances' = [c \in Cycle |->
        LET left == advances[c] - (IF c \in T THEN 1 ELSE 0)
        IN  IF c \in S /\ left < MaxAdvances THEN left + 1 ELSE left]

EmitAdvance(c) == EmitAdvances({c}, {})

(* Outbox rows of the commands of E are (again) unrelayed.                 *)
Send(E) == inbox' = [e \in Command |-> IF e \in E THEN MaxReceives ELSE inbox[e]]

(* _fail_locked and verify_runtime end the unfinished children with their  *)
(* cycles.                                                                 *)
FailChildren(S) ==
    child' = [c \in Cycle |-> [a \in Adapter |->
        IF c \in S /\ child[c][a] # "none" /\ child[c][a] \notin TerminalChild
        THEN "failed" ELSE child[c][a]]]

-----------------------------------------------------------------------------
(* Requests and scheduler receipts.                                        *)

(* request_cycle: the L0 command line writes one request per identity, the *)
(* name of another cycle's repeat included.                                *)
RequestCycle(c) ==
    /\ asked[c] = "no"
    /\ asked' = [asked EXCEPT ![c] = "operator"]
    /\ UNCHANGED <<rowVars, inbox, advances, deliveryVars, pc, workerVars,
                   envVars>>

(* start, up to its reconcile: create the row and enqueue it at once.  A   *)
(* redelivered request finds its row and only polls.                       *)
Start(p, c) ==
    /\ pc[p] = "poll"
    /\ c \in Started
    /\ asked[c] # "no"
    /\ status[c] = "absent"
    /\ status' = [status EXCEPT ![c] = "queued"]
    /\ revision' = [revision EXCEPT ![c] = rev[p]]
    /\ tickets' = tickets + 1
    /\ position' = [position EXCEPT ![c] = tickets + 1]
    /\ pc' = [pc EXCEPT ![p] = "admit"]
    /\ UNCHANGED <<batches, lease, recoveries, slot, childVars, busVars,
                   deliveryVars, workerVars, envVars>>

(* scheduled_child: an occurrence recorded by an L1 worker, which creates  *)
(* its cycle at the first receipt.                                         *)
ScheduledChild(w, c, a) ==
    /\ pc[w] = "idle"
    /\ c \in Scheduled
    /\ child[c][a] = "none"
    /\ IF status[c] = "absent"
       THEN /\ status' = [status EXCEPT ![c] = "collecting"]
            /\ revision' = [revision EXCEPT ![c] = rev[w]]
       ELSE UNCHANGED <<status, revision>>
    /\ child' = [child EXCEPT ![c][a] = "received"]
    /\ EmitAdvance(c)
    /\ UNCHANGED <<batches, queueVars, retryable, sources, asked, inbox,
                   deliveryVars, pc, workerVars, envVars>>

-----------------------------------------------------------------------------
(* Reconciliation, atomic under the exclusive fence and the slot row.      *)

Unserialized ==
    {c \in Cycle : status[c] \in {"requested"} \cup Active /\ position[c] = 0}

(* Mutant: one recovery more than the budget.                              *)
RetiredOnceMore(p, admit) ==
    \/ Ended(slot)
    \/ revision[slot] # rev[p]
    \/ admit /\ ~lease[slot] /\ recoveries[slot] > MaxAttempts

(* The slot's cycle cannot go on: it ended, its revision is not p's, or    *)
(* its recoveries are spent.                                               *)
Retired(p, admit) ==
    LET c == slot IN
    \/ Ended(c)
    \/ revision[c] # rev[p]
    \/ admit /\ ~lease[c] /\ recoveries[c] >= MaxAttempts

Waiting == {c \in Cycle : status[c] = "queued"}

Ahead(c, S) == {d \in S : position[d] < position[c]}

(* The candidates p rejects before the one it admits, and that one.        *)
Mismatched(p) == {c \in Waiting : revision[c] # rev[p]}

(* Mutant: the newest candidate first.                                     *)
NextUpLast(p) == {c \in Waiting \ Mismatched(p) :
    \A d \in Waiting \ Mismatched(p) : d = c \/ d \in Ahead(c, Waiting)}

NextUp(p) == {c \in Waiting \ Mismatched(p) :
                Ahead(c, Waiting \ Mismatched(p)) = {}}
(* Mutant: a candidate of another revision is passed over, not failed.     *)
SkippedNone(p) == {}

Skipped(p) == {c \in Mismatched(p) : \A d \in NextUp(p) : c \in Ahead(d, Waiting)}

(* _recover_commands: the commands of c to relay again.                    *)
Relayed(c) ==
    CASE status[c] = "running" -> {Run(c, a) : a \in Unfinished(c)}
      [] status[c] = "discovering" -> {Discovery(c, batches[c] + 1)}
      [] status[c] = "evaluating" -> {Evaluation(c)}
      [] OTHER -> {}

(* reconcile by p; received is the advance its caller takes up.            *)
Reconcile(p, admit, received) ==
    LET occupied == slot # NoCycle
        freed == occupied /\ Retired(p, admit)
        stays == occupied /\ ~freed
        recovers == stays /\ admit /\ ~lease[slot]
        seeks == admit /\ ~stays
        chosen == IF seeks THEN NextUp(p) ELSE {}
        failing == Unserialized
                   \cup (IF freed /\ ~Ended(slot) THEN {slot} ELSE {})
                   \cup (IF seeks THEN Skipped(p) ELSE {})
        nudged == IF recovers /\ status[slot] \in {"planned", "running"}
                  THEN {slot} ELSE {}
    IN  IF ~ExclusiveFree
        THEN /\ EmitAdvances({}, received)
             /\ UNCHANGED <<rowVars, inbox>>
        ELSE /\ status' = [c \in Cycle |->
                    IF c \in failing THEN "failed"
                    ELSE IF c \in chosen THEN "discovering" ELSE status[c]]
             /\ FailChildren(failing)
             /\ slot' = IF chosen # {} THEN CHOOSE c \in chosen : TRUE
                        ELSE IF stays THEN slot ELSE NoCycle
             /\ lease' = [c \in Cycle |->
                    IF c \in failing THEN FALSE
                    ELSE lease[c] \/ c \in chosen \/ (recovers /\ c = slot)]
             /\ recoveries' = [c \in Cycle |->
                    IF c \in chosen THEN 0
                    ELSE IF recovers /\ c = slot THEN recoveries[c] + 1
                    ELSE recoveries[c]]
             /\ Send({Discovery(c, batches[c] + 1) : c \in chosen}
                     \cup (IF recovers THEN Relayed(slot) ELSE {}))
             /\ EmitAdvances(failing \cup nudged, received)
             /\ UNCHANGED <<revision, batches, position, tickets, retryable,
                            sources>>

(* main's poll between two messages.                                       *)
Poll(p) ==
    /\ pc[p] = "poll"
    /\ Reconcile(p, TRUE, {})
    /\ UNCHANGED <<asked, deliveryVars, pc, workerVars, envVars>>

(* start's reconcile.                                                      *)
Admit(p) ==
    /\ pc[p] = "admit"
    /\ Reconcile(p, TRUE, {})
    /\ pc' = [pc EXCEPT ![p] = "poll"]
    /\ UNCHANGED <<asked, deliveryVars, workerVars, envVars>>

(* The deployment's bootstrap retires interrupted cycles, admits nothing.  *)
Bootstrap(p) ==
    /\ pc[p] = "bootstrap"
    /\ Reconcile(p, FALSE, {})
    /\ pc' = [pc EXCEPT ![p] = "poll"]
    /\ UNCHANGED <<asked, deliveryVars, workerVars, envVars>>

-----------------------------------------------------------------------------
(* advance: reconcile, verify_runtime, the step, reconcile.                *)

TakeAdvance(p, c) ==
    /\ pc[p] = "poll"
    /\ advances[c] > 0
    /\ Reconcile(p, TRUE, {c})
    /\ pc' = [pc EXCEPT ![p] = "verify"]
    /\ at' = [at EXCEPT ![p] = c]
    /\ UNCHANGED <<asked, deliveryVars, workerVars, rev, boundVars>>

(* verify_runtime holds the cycle's row, not the fence: it ends a cycle of *)
(* another revision while workers may still execute it.                    *)
Verify(p) ==
    LET c == at[p]
        matches == revision[c] = rev[p]
        ends == IF matches \/ Ended(c) THEN {} ELSE {c}
    IN
    /\ pc[p] = "verify"
    /\ status' = [d \in Cycle |-> IF d \in ends THEN "failed" ELSE status[d]]
    /\ lease' = [d \in Cycle |-> lease[d] /\ d \notin ends]
    /\ FailChildren(ends)
    /\ EmitAdvances(ends, {})
    /\ pc' = [pc EXCEPT ![p] = IF matches THEN "step" ELSE "poll"]
    /\ at' = [at EXCEPT ![p] = IF matches THEN c ELSE NoCycle]
    /\ UNCHANGED <<revision, batches, position, recoveries, tickets, slot,
                   retryable, sources, asked, inbox, deliveryVars,
                   workerVars, rev, boundVars>>

(* Every lane of the manifest has its scheduler receipt: _enqueue.         *)
Enqueue(c) ==
    /\ status[c] = "collecting"
    /\ \A a \in Adapter : child[c][a] # "none"
    /\ status' = [status EXCEPT ![c] = "queued"]
    /\ tickets' = tickets + 1
    /\ position' = [position EXCEPT ![c] = tickets + 1]
    /\ UNCHANGED <<lease, recoveries, childVars, inbox>>

(* The frozen plan is dispatched to every lane, received or not.           *)
Dispatch(c) ==
    /\ status[c] = "planned"
    /\ status' = [status EXCEPT ![c] = "running"]
    /\ child' = [child EXCEPT ![c] = [a \in Adapter |-> "queued"]]
    /\ Send({Run(c, a) : a \in Adapter})
    /\ UNCHANGED <<position, tickets, lease, recoveries, retryable, sources>>

(* Mutant: the status is not read again.                                   *)
EvaluateUnchecked(c) ==
    /\ status[c] \notin {"absent", "collecting", "queued", "planned"}
    /\ ChildrenEnded(c)
    /\ status' = [status EXCEPT ![c] = "evaluating"]
    /\ lease' = [lease EXCEPT ![c] = TRUE]
    /\ recoveries' = [recoveries EXCEPT ![c] = 0]
    /\ Send({Evaluation(c)})
    /\ UNCHANGED <<position, tickets, childVars>>

(* Every child ended: the evaluation is asked for.                         *)
Evaluate(c) ==
    /\ status[c] = "running"
    /\ ChildrenEnded(c)
    /\ status' = [status EXCEPT ![c] = "evaluating"]
    /\ lease' = [lease EXCEPT ![c] = TRUE]
    /\ recoveries' = [recoveries EXCEPT ![c] = 0]
    /\ Send({Evaluation(c)})
    /\ UNCHANGED <<position, tickets, childVars>>

Waits(c) ==
    /\ status[c] = "collecting" => \E a \in Adapter : child[c][a] = "none"
    /\ status[c] # "planned"
    /\ status[c] = "running" => ~ChildrenEnded(c)
    /\ UNCHANGED <<status, position, tickets, lease, recoveries, childVars,
                   inbox>>

Step(p) ==
    /\ pc[p] = "step"
    /\ Enqueue(at[p]) \/ Dispatch(at[p]) \/ Evaluate(at[p]) \/ Waits(at[p])
    /\ pc' = [pc EXCEPT ![p] = "advanced"]
    /\ UNCHANGED <<revision, batches, slot, asked, advances, deliveryVars,
                   workerVars, envVars>>

(* The second reconcile; the advance is done with.                         *)
FinishAdvance(p) ==
    /\ pc[p] = "advanced"
    /\ Reconcile(p, TRUE, {})
    /\ pc' = [pc EXCEPT ![p] = "poll"]
    /\ at' = [at EXCEPT ![p] = NoCycle]
    /\ UNCHANGED <<asked, deliveryVars, workerVars, rev, boundVars>>

-----------------------------------------------------------------------------
(* Delivery of a command to an L1 worker: handle_envelope.                 *)

Goto(w, p) == pc' = [pc EXCEPT ![w] = p]

(* The worker drops the command; it stays on its queue or is deleted.      *)
Drop(w) ==
    /\ pc' = [pc EXCEPT ![w] = "idle"]
    /\ cmd' = [cmd EXCEPT ![w] = NoCommand]
    /\ verdict' = [verdict EXCEPT ![w] = "none"]

Delete(e) == inbox' = [inbox EXCEPT ![e] = 0]

(* operation_guard admits a command of the slot's cycle, of the worker's   *)
(* revision, in its phase; adapter commands have no phase check.           *)
PhaseOf == [discovery |-> {"discovering"}, evaluation |-> {"evaluating"},
            adapter |-> Active]

Guarded(w, e) ==
    LET c == CycleOf(e) IN
    /\ SharedFree
    /\ slot = c
    /\ ~Ended(c)
    /\ revision[c] = rev[w]
    /\ status[c] \in PhaseOf[KindOf(e)]

(* A receive of a command completed earlier only deletes it.               *)
ReceiveCompleted(w, e) ==
    /\ pc[w] = "idle"
    /\ inbox[e] > 0
    /\ e \in completed
    /\ Delete(e)
    /\ UNCHANGED <<rowVars, asked, advances, deliveryVars, pc, workerVars,
                   envVars>>

(* The guard passes: the fence is held and the cycle's lease touched.      *)
ReceiveGuarded(w, e) ==
    /\ pc[w] = "idle"
    /\ inbox[e] > 0
    /\ e \notin completed
    /\ Guarded(w, e)
    /\ inbox' = [inbox EXCEPT ![e] = @ - 1]
    /\ lease' = [lease EXCEPT ![CycleOf(e)] = TRUE]
    /\ Goto(w, "guarded")
    /\ cmd' = [cmd EXCEPT ![w] = e]
    /\ UNCHANGED <<cycleVars, position, recoveries, tickets, slot, childVars,
                   asked, advances, deliveryVars, verdict, envVars>>

(* The cycle has ended: the command will be acknowledged without work.     *)
ReceiveRetired(w, e) ==
    /\ pc[w] = "idle"
    /\ inbox[e] > 0
    /\ e \notin completed
    /\ SharedFree /\ Ended(CycleOf(e))
    /\ inbox' = [inbox EXCEPT ![e] = @ - 1]
    /\ Goto(w, "retired")
    /\ cmd' = [cmd EXCEPT ![w] = e]
    /\ UNCHANGED <<rowVars, asked, advances, deliveryVars, verdict, envVars>>

(* The guard refuses: the receive is spent, nothing else happens.          *)
ReceiveRefused(w, e) ==
    /\ pc[w] = "idle"
    /\ inbox[e] > 0
    /\ e \notin completed
    /\ ~Guarded(w, e)
    /\ ~(SharedFree /\ Ended(CycleOf(e)))
    /\ inbox' = [inbox EXCEPT ![e] = @ - 1]
    /\ UNCHANGED <<rowVars, asked, advances, deliveryVars, pc, workerVars,
                   envVars>>

(* Mutant: the claim trusts the receive's check for completion.            *)
ClaimableUnlessHeld(e) == holder[e] = NoWorker

(* claim_delivery.                                                         *)
Claimable(e) == e \notin completed /\ holder[e] = NoWorker

Claimed(w, e) ==
    /\ holder' = [holder EXCEPT ![e] = w]
    /\ attempt' = [attempt EXCEPT ![e] = IF @ < MaxAttempts THEN @ + 1 ELSE @]
    /\ UNCHANGED completed

Claim(w) ==
    LET e == cmd[w] IN
    /\ pc[w] = "guarded"
    /\ Claimable(e)
    /\ Claimed(w, e)
    /\ Goto(w, "bind")
    /\ UNCHANGED <<rowVars, busVars, workerVars, envVars>>

(* The delivery was completed meanwhile, or another worker leases it.      *)
ClaimFails(w) ==
    LET e == cmd[w] IN
    /\ pc[w] \in {"guarded", "retired"}
    /\ ~Claimable(e)
    /\ IF e \in completed THEN Delete(e) ELSE UNCHANGED inbox
    /\ Drop(w)
    /\ UNCHANGED <<rowVars, asked, advances, deliveryVars, envVars>>

(* The handler of a retired command does nothing; its delivery completes.  *)
AcknowledgeRetired(w) ==
    LET e == cmd[w] IN
    /\ pc[w] = "retired"
    /\ Claimable(e)
    /\ completed' = completed \cup {e}
    /\ attempt' = [attempt EXCEPT ![e] = IF @ < MaxAttempts THEN @ + 1 ELSE @]
    /\ Delete(e)
    /\ Drop(w)
    /\ UNCHANGED <<rowVars, asked, advances, holder, envVars>>

-----------------------------------------------------------------------------
(* Handlers.  A verdict is what the handler is about to report: a child    *)
(* status, "setup" for a retry after an unhandled error, "done" or "error" *)
(* for the delivery.                                                       *)

LaneOf(e) == e[3]
Succeeds(v) == v \in {"done", "completed", "completed_for_review"}

Decide(w, p, v) ==
    /\ Goto(w, p)
    /\ verdict' = [verdict EXCEPT ![w] = v]

(* child_context reads the child without a lock and decides.               *)
ReadChild(w) ==
    LET was == child[CycleOf(cmd[w])][LaneOf(cmd[w])] IN
    /\ pc[w] = "bind"
    /\ KindOf(cmd[w]) = "adapter"
    /\ Decide(w, "binding", IF was \in TerminalChild THEN was ELSE "running")
    /\ UNCHANGED <<dbVars, cmd, envVars>>

(* Then it updates the child, whatever became of it and its cycle.         *)
BindChild(w) ==
    LET c == CycleOf(cmd[w])
        a == LaneOf(cmd[w])
    IN
    /\ pc[w] = "binding"
    /\ child' = [child EXCEPT ![c][a] = verdict[w]]
    /\ Decide(w, "work", "none")
    /\ UNCHANGED <<cycleVars, queueVars, retryable, sources, busVars,
                   deliveryVars, cmd, envVars>>

(* A phase handler returns at once when it reads that its phase is over.   *)
BindPhase(w) ==
    LET e == cmd[w]
        c == CycleOf(e)
    IN
    /\ pc[w] = "bind"
    /\ KindOf(e) # "adapter"
    /\ IF \/ KindOf(e) = "discovery" /\ status[c] # "discovering"
          \/ KindOf(e) = "evaluation" /\ Ended(c)
       THEN Decide(w, "closing", "done")
       ELSE Decide(w, "work", "none")
    /\ UNCHANGED <<dbVars, cmd, envVars>>

(* The handler gives up on a lease or asks for a redelivery: neither the   *)
(* child nor the cycle is told.                                            *)
Defer(w) ==
    /\ pc[w] = "work"
    /\ Decide(w, "closing", "error")
    /\ UNCHANGED <<dbVars, cmd, envVars>>

(* run_adapter_fleet ends with what the job's source tasks have come to.   *)
(* Ended tasks are reused by every later run; a task with attempts left    *)
(* makes the lane retry.                                                   *)
RunLane(w, v) ==
    LET c == CycleOf(cmd[w])
        a == LaneOf(cmd[w])
    IN
    /\ pc[w] = "work"
    /\ KindOf(cmd[w]) = "adapter"
    /\ IF sources[c][a] = "open"
       THEN v \in TerminalChild \cup {"retrying"}
       ELSE v = sources[c][a]
    /\ sources' = [sources EXCEPT ![c][a] = IF v = "retrying" THEN @ ELSE v]
    /\ Decide(w, "report", v)
    /\ UNCHANGED <<cycleVars, queueVars, child, retryable, busVars,
                   deliveryVars, cmd, envVars>>

(* Setup or bookkeeping raises before the lane has an outcome.             *)
RaiseLane(w) ==
    /\ pc[w] = "work"
    /\ KindOf(cmd[w]) = "adapter"
    /\ Decide(w, "raised", "error")
    /\ UNCHANGED <<dbVars, cmd, envVars>>

(* Mutant: a child reports into an ended cycle.                            *)
FinishChildAlways(c, a, v) ==
    LET retries == v \in {"retrying", "setup"} IN
    /\ child' = [child EXCEPT ![c][a] = IF retries THEN "retrying" ELSE v]
    /\ retryable' = [retryable EXCEPT ![c][a] = v = "retrying"]
    /\ lease' = [lease EXCEPT ![c] = TRUE]
    /\ recoveries' = [recoveries EXCEPT ![c] = IF retries THEN @ ELSE 0]
    /\ EmitAdvance(c)

(* finish_child: nothing once the cycle has ended; else the child's status *)
(* whatever it was, the cycle touched, an advance.                         *)
FinishChild(c, a, v) ==
    LET retries == v \in {"retrying", "setup"} IN
    IF Ended(c)
    THEN UNCHANGED <<child, retryable, lease, recoveries, advances>>
    ELSE /\ child' = [child EXCEPT ![c][a] = IF retries THEN "retrying" ELSE v]
         /\ retryable' = [retryable EXCEPT ![c][a] = v = "retrying"]
         /\ lease' = [lease EXCEPT ![c] = TRUE]
         /\ recoveries' = [recoveries EXCEPT ![c] = IF retries THEN @ ELSE 0]
         /\ EmitAdvance(c)

(* The lane reports; it raises unless its sources ended.                   *)
ReportChild(w) ==
    LET v == verdict[w] IN
    /\ pc[w] = "report"
    /\ FinishChild(CycleOf(cmd[w]), LaneOf(cmd[w]), v)
    /\ IF Succeeds(v) THEN Decide(w, "closing", "done")
                      ELSE Decide(w, "raised", "error")
    /\ UNCHANGED <<cycleVars, position, tickets, slot, sources, asked, inbox,
                   deliveryVars, cmd, envVars>>

(* unhandled_child_error reads the child and the delivery's attempts.      *)
Unhandled(w) ==
    LET e == cmd[w]
        c == CycleOf(e)
        a == LaneOf(e)
    IN
    /\ pc[w] = "raised"
    /\ IF child[c][a] \in TerminalChild \/ retryable[c][a]
       THEN Decide(w, "closing", "error")
       ELSE Decide(w, "settle", IF attempt[e] < MaxAttempts THEN "setup" ELSE "failed")
    /\ UNCHANGED <<dbVars, cmd, envVars>>

SettleChild(w) ==
    /\ pc[w] = "settle"
    /\ FinishChild(CycleOf(cmd[w]), LaneOf(cmd[w]), verdict[w])
    /\ Decide(w, "closing", "error")
    /\ UNCHANGED <<cycleVars, position, tickets, slot, sources, asked, inbox,
                   deliveryVars, cmd, envVars>>

(* discovered with pages pending: the batch, a touch and the next command. *)
DiscoverMore(w) ==
    LET c == CycleOf(cmd[w]) IN
    /\ pc[w] = "work"
    /\ KindOf(cmd[w]) = "discovery"
    /\ status[c] = "discovering"
    /\ batches[c] < MaxBatches
    /\ batches' = [batches EXCEPT ![c] = @ + 1]
    /\ lease' = [lease EXCEPT ![c] = TRUE]
    /\ recoveries' = [recoveries EXCEPT ![c] = 0]
    /\ Send({Discovery(c, batches[c] + 2)})
    /\ Decide(w, "closing", "done")
    /\ UNCHANGED <<status, revision, position, tickets, slot, childVars,
                   asked, advances, deliveryVars, cmd, envVars>>

(* discovered with the frontier traversed: the manifest is frozen.         *)
Plan(w) ==
    LET c == CycleOf(cmd[w]) IN
    /\ pc[w] = "work"
    /\ KindOf(cmd[w]) = "discovery"
    /\ status[c] = "discovering"
    /\ status' = [status EXCEPT ![c] = "planned"]
    /\ lease' = [lease EXCEPT ![c] = TRUE]
    /\ recoveries' = [recoveries EXCEPT ![c] = 0]
    /\ EmitAdvance(c)
    /\ Decide(w, "closing", "done")
    /\ UNCHANGED <<revision, batches, position, tickets, slot, childVars,
                   asked, inbox, deliveryVars, cmd, envVars>>

(* discovered finds that the phase ended during the audit; finish_cycle    *)
(* that the cycle did.                                                     *)
TooLate(w) ==
    LET e == cmd[w]
        c == CycleOf(e)
    IN
    /\ pc[w] = "work"
    /\ \/ KindOf(e) = "discovery" /\ status[c] # "discovering"
       \/ KindOf(e) = "evaluation" /\ Ended(c)
    /\ Decide(w, "closing", "done")
    /\ UNCHANGED <<dbVars, cmd, envVars>>

(* Mutant: the children are taken for ended.                               *)
EvaluableAnyhow(c) == status[c] = "evaluating"

(* finish_cycle.                                                           *)
Evaluable(c) == status[c] = "evaluating" /\ ChildrenEnded(c)

Verdicts(c) ==
    IF \E a \in Adapter : child[c][a] = "failed" THEN {"failed"}
    ELSE {"failed", "candidate_verified", "completed_for_review"}

(* Mutant: the repeat is asked for whatever came of the cycle.             *)
RepeatsAnyhow(c, v) ==
    {d \in Manual : c \in Manual /\ asked[c] = "operator" /\ FollowUp[c] = d}

(* The unchanged repeat of a cycle that did not fail; a repeat's own       *)
(* request chains none.                                                    *)
Repeats(c, v) ==
    {d \in Manual :
        c \in Manual /\ v # "failed" /\ asked[c] = "operator" /\ FollowUp[c] = d}

FinishCycle(w, v) ==
    LET c == CycleOf(cmd[w]) IN
    /\ pc[w] = "work"
    /\ KindOf(cmd[w]) = "evaluation"
    /\ Evaluable(c)
    /\ v \in Verdicts(c)
    /\ status' = [status EXCEPT ![c] = v]
    /\ lease' = [lease EXCEPT ![c] = FALSE]
    /\ EmitAdvance(c)
    /\ asked' = [d \in Manual |->
            IF d \in Repeats(c, v) /\ asked[d] = "no" THEN "repeat" ELSE asked[d]]
    /\ Decide(w, "closing", "done")
    /\ UNCHANGED <<revision, batches, position, recoveries, tickets, slot,
                   childVars, inbox, deliveryVars, cmd, envVars>>

(* A phase handler raises: any error, or finish_cycle's refusal to end a   *)
(* cycle whose children have not.                                          *)
RaisePhase(w) ==
    /\ pc[w] = "work"
    /\ KindOf(cmd[w]) # "adapter"
    /\ Decide(w, "failing", "error")
    /\ UNCHANGED <<dbVars, cmd, envVars>>

(* failed_phase: the last attempt ends the cycle, whatever its phase.      *)
FailPhase(w) ==
    LET e == cmd[w]
        c == CycleOf(e)
        ends == attempt[e] >= MaxAttempts /\ ~Ended(c)
    IN
    /\ pc[w] = "failing"
    /\ IF ends
       THEN /\ status' = [status EXCEPT ![c] = "failed"]
            /\ lease' = [lease EXCEPT ![c] = FALSE]
            /\ EmitAdvance(c)
       ELSE UNCHANGED <<status, lease, advances>>
    /\ Goto(w, "closing")
    /\ UNCHANGED <<revision, batches, position, recoveries, tickets, slot,
                   childVars, asked, inbox, deliveryVars, workerVars,
                   envVars>>

-----------------------------------------------------------------------------
(* finish_delivery, the fence's release and the queue's delete.            *)

(* At-least-once: the delete may be lost, and the command come again.      *)
CloseDone(w) ==
    LET e == cmd[w] IN
    /\ pc[w] = "closing"
    /\ verdict[w] = "done"
    /\ holder[e] = w
    /\ holder' = [holder EXCEPT ![e] = NoWorker]
    /\ completed' = completed \cup {e}
    /\ Delete(e) \/ UNCHANGED inbox
    /\ Drop(w)
    /\ UNCHANGED <<rowVars, asked, advances, attempt, envVars>>

(* An error after the handler succeeded: its heartbeat failed, the lease   *)
(* was lost, or the delivery was finished and its run not recorded.  A     *)
(* phase command takes it for an error of the phase.                       *)
CloseLate(w) ==
    LET e == cmd[w] IN
    /\ pc[w] = "closing"
    /\ verdict[w] = "done"
    /\ \/ UNCHANGED <<completed, holder>>
       \/ /\ holder[e] = w
          /\ completed' = completed \cup {e}
          /\ holder' = [holder EXCEPT ![e] = NoWorker]
    /\ IF KindOf(e) = "adapter" THEN Decide(w, "closing", "error")
                                ELSE Decide(w, "failing", "error")
    /\ UNCHANGED <<rowVars, busVars, attempt, cmd, envVars>>

CloseError(w) ==
    LET e == cmd[w] IN
    /\ pc[w] = "closing"
    /\ verdict[w] = "error"
    /\ holder' = [holder EXCEPT ![e] = IF @ = w THEN NoWorker ELSE @]
    /\ Drop(w)
    /\ UNCHANGED <<rowVars, busVars, completed, attempt, envVars>>

(* Direct maintenance work: the exclusive fence and an empty slot.         *)
DirectBegin(w) ==
    /\ pc[w] = "idle"
    /\ ExclusiveFree
    /\ slot = NoCycle
    /\ directs < MaxDirect
    /\ directs' = directs + 1
    /\ Goto(w, "direct")
    /\ UNCHANGED <<dbVars, workerVars, at, rev, crashes, lapses>>

DirectEnd(w) ==
    /\ pc[w] = "direct"
    /\ Goto(w, "idle")
    /\ UNCHANGED <<dbVars, workerVars, envVars>>

-----------------------------------------------------------------------------
(* The environment: deaths, deployments, leases that run out.              *)

(* A dead worker's fence goes with its process, its delivery's lease stays *)
(* until it expires.                                                       *)
CrashWorker(w) ==
    /\ pc[w] # "idle"
    /\ crashes < MaxCrashes
    /\ crashes' = crashes + 1
    /\ Drop(w)
    /\ UNCHANGED <<dbVars, at, rev, lapses, directs>>

(* The advance in hand comes again, or has spent its last receive.         *)
CrashCoordinator(p) ==
    /\ pc[p] # "poll"
    /\ crashes < MaxCrashes
    /\ crashes' = crashes + 1
    /\ pc' = [pc EXCEPT ![p] = "poll"]
    /\ at' = [at EXCEPT ![p] = NoCycle]
    /\ UNCHANGED advances \/ EmitAdvances({at[p]} \ {NoCycle}, {})
    /\ UNCHANGED <<rowVars, asked, inbox, deliveryVars, workerVars, rev,
                   lapses, directs>>

DeployWorker(w) ==
    /\ rev[w] < MaxRevision
    /\ rev' = [rev EXCEPT ![w] = @ + 1]
    /\ Drop(w)
    /\ UNCHANGED <<dbVars, at, boundVars>>

DeployCoordinator(p) ==
    /\ rev[p] < MaxRevision
    /\ rev' = [rev EXCEPT ![p] = @ + 1]
    /\ pc' = [pc EXCEPT ![p] = "bootstrap"]
    /\ at' = [at EXCEPT ![p] = NoCycle]
    /\ UNCHANGED <<dbVars, workerVars, boundVars>>

(* The lease of e is the one w executes under.                             *)
Holds(w, e) ==
    holder[e] = w /\ cmd[w] = e /\ pc[w] \notin {"guarded", "retired"}

(* The lease of a delivery whose worker is gone runs out.                  *)
ExpireDelivery(e) ==
    /\ holder[e] # NoWorker
    /\ ~Holds(holder[e], e)
    /\ holder' = [holder EXCEPT ![e] = NoWorker]
    /\ UNCHANGED <<rowVars, busVars, completed, attempt, pc, workerVars,
                   envVars>>

(* It lapses under a live worker whose heartbeats do not get through.      *)
LapseDelivery(e) ==
    /\ holder[e] # NoWorker
    /\ Holds(holder[e], e)
    /\ lapses < MaxLapses
    /\ lapses' = lapses + 1
    /\ holder' = [holder EXCEPT ![e] = NoWorker]
    /\ UNCHANGED <<rowVars, busVars, completed, attempt, pc, workerVars, at,
                   rev, crashes, directs>>

(* A cycle's lease runs out.  While a handler holds the fence no reader of *)
(* the lease gets past it, so an expiry then is one right after.           *)
ExpireCycle(c) ==
    /\ lease[c]
    /\ \A w \in Worker : Fenced(w) => CycleOf(cmd[w]) # c
    /\ lease' = [lease EXCEPT ![c] = FALSE]
    /\ UNCHANGED <<cycleVars, position, recoveries, tickets, slot, childVars,
                   busVars, deliveryVars, pc, workerVars, envVars>>

-----------------------------------------------------------------------------
Receive(w) ==
    \E e \in Command :
        \/ ReceiveCompleted(w, e) \/ ReceiveGuarded(w, e)
        \/ ReceiveRetired(w, e) \/ ReceiveRefused(w, e)

Handle(w) ==
    \/ Claim(w) \/ ClaimFails(w) \/ AcknowledgeRetired(w)
    \/ ReadChild(w) \/ BindChild(w) \/ BindPhase(w) \/ Defer(w)
    \/ \E v \in TerminalChild \cup {"retrying"} : RunLane(w, v)
    \/ RaiseLane(w) \/ ReportChild(w) \/ Unhandled(w) \/ SettleChild(w)
    \/ DiscoverMore(w) \/ Plan(w) \/ TooLate(w)
    \/ \E v \in TerminalCycle : FinishCycle(w, v)
    \/ RaisePhase(w) \/ FailPhase(w)
    \/ CloseDone(w) \/ CloseLate(w) \/ CloseError(w)
    \/ DirectEnd(w)

Coordinate(p) ==
    \/ Poll(p) \/ Admit(p) \/ Bootstrap(p)
    \/ \E c \in Cycle : Start(p, c) \/ TakeAdvance(p, c)
    \/ Verify(p) \/ Step(p) \/ FinishAdvance(p)

Ask ==
    \/ \E c \in Manual : RequestCycle(c)
    \/ \E w \in Worker, c \in Scheduled, a \in Adapter : ScheduledChild(w, c, a)
    \/ \E w \in Worker : DirectBegin(w)

Break ==
    \/ \E w \in Worker : CrashWorker(w) \/ DeployWorker(w)
    \/ \E p \in Coordinator : CrashCoordinator(p) \/ DeployCoordinator(p)
    \/ \E e \in Command : LapseDelivery(e)

Expire ==
    \/ \E e \in Command : ExpireDelivery(e)
    \/ \E c \in Cycle : ExpireCycle(c)

Next ==
    \/ Ask \/ Break \/ Expire
    \/ \E p \in Coordinator : Coordinate(p)
    \/ \E w \in Worker : Receive(w) \/ Handle(w)

Spec == Init /\ [][Next]_vars

(* Processes run again after a crash and poll for ever; leases run out.    *)
(* Nothing makes anyone ask, crash or deploy.                              *)
FairSpec ==
    /\ Spec
    /\ \A p \in Coordinator : WF_vars(Coordinate(p))
    /\ \A w \in Worker : WF_vars(Receive(w)) /\ WF_vars(Handle(w))
    /\ \A e \in Command : WF_vars(ExpireDelivery(e))
    /\ \A c \in Cycle : WF_vars(ExpireCycle(c))

-----------------------------------------------------------------------------
(* A handler past the guard works for the cycle in the slot, and direct    *)
(* work runs beside neither a handler nor a cycle: docs/                   *)
(* L1_CORPUS_VERIFICATION.md, "L0 serializes complete manual and           *)
(* scheduled cycles".                                                      *)
OneCycle ==
    \A w \in Worker :
        /\ Fenced(w) => slot = CycleOf(cmd[w])
        /\ pc[w] = "direct" =>
              slot = NoCycle /\ \A v \in Worker \ {w} : pc[v] # "direct"

(* A queued cycle that became active, and has not ended, is in the slot.   *)
SlotHeld ==
    \A c \in Cycle : position[c] # 0 /\ status[c] \in Active => slot = c

Successful == {"completed", "completed_for_review"}

(* A cycle that ended other than in failure ended on every lane's success: *)
(* the source tasks of each have completed, although commands come again   *)
(* and children's rows are overwritten before and after (child_context).   *)
VerifiedWhole ==
    \A c \in Cycle : status[c] \in {"candidate_verified", "completed_for_review"} =>
        \A a \in Adapter : sources[c][a] \in Successful

(* The worker that leases a delivery executes a command that has not been  *)
(* completed: a redelivery is acknowledged, never executed.                *)
CompletedOnce ==
    \A w \in Worker : Fenced(w) /\ cmd[w] \in completed => holder[cmd[w]] # w

(* "Lease expiry never steals executing work": the slot changes hands and  *)
(* commands are recovered only while no handler executes, and the cycle    *)
(* that leaves the slot has ended by then.                                 *)
Handover ==
    [][ /\ (slot' # slot \/ \E c \in Cycle : recoveries'[c] > recoveries[c])
              => \A w \in Worker : ~Fenced(w)
        /\ slot' # slot /\ slot # NoCycle => status'[slot] \in TerminalCycle ]_vars

(* "The queue is FIFO": nobody overtakes a cycle that has not ended.       *)
Fifo ==
    [][ \A c \in Cycle : status[c] = "queued" /\ status'[c] = "discovering" =>
          \A d \in Cycle : 0 < position[d] /\ position[d] < position[c]
                            => status'[d] \in TerminalCycle ]_vars

(* Workers about to write another status than a's over it, read before.    *)
Binding(c, a) ==
    {w \in Worker : pc[w] = "binding" /\ cmd[w] = Run(c, a) /\ verdict[w] # child[c][a]}

(* The result of a cycle, and of a child, outlives whatever still runs     *)
(* when the cycle ends; only child_context's update, of a status it read   *)
(* before, may still come over a child's.                                  *)
Final ==
    [][ \A c \in Cycle : Ended(c) =>
          /\ status'[c] = status[c]
          /\ \A a \in Adapter :
                child[c][a] \in TerminalChild /\ child'[c][a] # child[c][a]
                    => Binding(c, a) # {} ]_vars

(* "A failed first cycle is repaired, not repeated": a chained repeat is   *)
(* asked for, and so admitted, only behind a cycle that ended well on the  *)
(* success of all its lanes, and that stays so.                            *)
RepeatedWhole ==
    \A c, d \in Manual : FollowUp[c] = d /\ asked[d] = "repeat" =>
        /\ status[c] \in {"candidate_verified", "completed_for_review"}
        /\ \A a \in Adapter : sources[c][a] \in Successful

(* Every cycle that entered the queue ends, whatever its commands, workers *)
(* and leases do on the way.                                               *)
QueuedSettles ==
    \A c \in Manual \cup Scheduled : status[c] = "queued" ~> Ended(c)

(* docs/L1_CORPUS_VERIFICATION.md: "After all children finish, L1          *)
(* evaluates the corpus".                                                  *)
FinishedFirst ==
    \A c \in Cycle : status[c] = "evaluating" => ChildrenEnded(c)
=============================================================================
