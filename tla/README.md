# CLHEAR: a verification project

CLHEAR keeps a corpus of financial regulation and derives eight layers from it
(L0 platform, L1 sources and clauses, L2 obligations, L3-L6 structure,
ontology, requirements and control sets, L7 enforcement evidence, L8
aggregates).  Each layer is worked by a fleet: a long-lived process
(`app/clhear/workers.py`) that takes one SQS message at a time, runs a handler
against PostgreSQL and deletes the message.  This directory holds TLA+ models
of the durable-execution machinery those fleets share, TLC configurations that
check the models on small instances, and TLAPS proofs of the properties that
matter most for every instance.

Source paths below are relative to `src/`.

## 1. The system

### Parts, state and operations

| part | code | state | operations |
|---|---|---|---|
| L1 cycles | `app/clhear/l1/cycles.py` | `l1_cycles` (status, revision, manifest, follow-up), `l1_cycle_children`, `l1_cycle_queue` (position, lease, recovery count), one-row `l1_cycle_slot` | `request_cycle`, `start`, `scheduled_child`, `reconcile`, `plan_sources`, `discovered`, `advance`, `child_context`, `freeze_child`, `finish_child`, `failed_phase`, `finish_cycle`, `verify_runtime`, `operation_guard` |
| Leased source tasks | `app/clhear/l1/workflow.py`, ingest loop in `app/clhear/workers.py`, persistence in `app/clhear/l1/pipeline.py` | `l1_workflow_jobs/tasks/steps`, `l1_source_leases`, `source_versions` | `ensure_task`, `claim_task`, `heartbeat_task`, `finish_task`, `assert_ownership`, stage enter/exit, persist |
| Delivery ledger | `app/clhear/l1/workflow.py` (`*_delivery`), `app/clhear/workers.py` (`handle_envelope`, `_execute_delivery`) | `worker_deliveries` | claim, heartbeat, finish, acknowledge |
| Outbox and bus | `app/clhear/platform/events.py`, `routing.py` | `l0_events` with `relayed_at` | `emit`, `relay_once`, routing to a queue per fleet |
| Deferred messages | `app/clhear/platform/deferred.py`, `queue_recovery.py`, `workers.defer_message` | `deferred_deliveries`, bodies by hash | `record`, `resolve`, bounded queue and DLQ recovery |
| Ingest pipeline | `app/clhear/l1/pipeline.py`, `originals.py`, `rights.py`, `permissions.py`, `change_detect.py` | sources, versions, clauses, artifacts | fetch, fidelity gate, persist, diff |
| Inventory and discovery | `app/clhear/l1/inventory.py`, `discovery.py` | inventory audits, discovery pages and frontier | page traversal under leases, audit, acceptance |
| Viewer, translation, review | `l1/viewer_snapshot.py`, `translation.py`, `poc_review.py`, `finra_private_review.py` | snapshots, English views, reviews | refresh requests, build, accept |
| Versioned record | `platform/record.py`, `graph.py`, `gates.py` | artifacts with validity intervals, graph edges | gate, write, invalidate |
| Approval console | `platform/console.py`, `proposals.py`, `v1/console.py` | `proposals`, `human_edits`, the rows decided on | propose, approve or reject, validate, apply, reproduce or escalate |
| L2 extraction and review | `l2/extract.py`, `l2/review.py` | `obligations` (text hash, extractor, status, fields), `obligation_reviews` | derive, keep, revoke; doubt |
| Contributions | `platform/contributions.py`, `v1/contributions.py` | `cla_signatures`, `roles`, `contributions`, `contribution_reviews`, the mirror in `proposals` | sign, grant, revoke, submit, re-derive, review, apply |
| Governance, community | `governance.py`, `community*.py` | submissions, endorsements, policies | submit, moderate, promote |
| Releases | `platform/releases.py`, `release_verification`, `exporter`, `manifest.py` | releases and manifests | freeze, gate, publish |
| LLM router and gateway | `platform/router.py`, `gateway.py` | spend ledger, caps | route, reserve, charge |
| Derived layers | `app/clhear/l2` .. `l8`, `layer_builds.py` | obligations, ontology, requirements, control sets, enforcement, aggregates | extract, consolidate, compose (set cover), score, aggregate with k-anonymity |
| Accounts and web | `accounts.py`, `api_keys.py`, `ratelimit.py`, `usage.py`, `v1/*`, `web_server.py` | sessions, keys, counters | sign-in, authorise, count |
| Evaluation and operations | `platform/evals.py`, `dr.py`, `deployment_verification.py`, `deployment_recovery.py`, `scripts/*` | evaluation runs, snapshots | suites, backup and restore, deploy checks |

### How they interact

The L0 coordinator polls: it calls `cycles.reconcile`, then `relay_once`,
which sends every unrelayed outbox row to the queues of the fleets that own
its kind.  A fleet receives a message, finds the delivery row for
(consumer, event), enters `cycles.operation_guard` (a shared database fence
when the command belongs to a cycle, an exclusive one otherwise), claims the
delivery, runs the handler under a heartbeat and finishes the delivery.  The
handlers of the L1 fleet change the cycle tables and emit the next commands
into the outbox in the same transaction.  An adapter command runs the ingest
loop, which claims one task per document together with the document's source
lease.  A message that a fleet must not or cannot handle is recorded in
`deferred_deliveries` before it is deleted; anything else that fails stays on
the queue for redelivery and, after five receives, the dead-letter queue.

The nightly stack (`fleets.run_nightly_stack`) re-derives the obligations from
the clauses in force, lets a second model doubt them, and then treats the
ledger of human edits: an edit whose text is unchanged and whose value is lost
is put back, one whose text has changed becomes a conflict proposal.  It also
re-derives every checked contribution.  Meanwhile maintainers decide proposals
in the console and reviewers vote on contributions; an accepted contribution
takes effect through the console's own functions, and a console decision on a
contribution's mirror is one vote.

### What is hard

At-least-once delivery with concurrent redelivery; leases that expire under a
live worker; clock readings taken before a statement waits on a row lock;
checks and writes in different transactions; crashes between a send and its
stamp or between a handler and its ledger row; deployments that change the
revision under a running cycle; a FIFO queue whose head may be stuck; nightly
jobs that write rows they compared earlier while people decide on them; status
checks made on one connection and relied on in a later transaction; decisions
whose flip and whose effect are two transactions.

### What makes each part correct

* L1 cycles: at most one cycle is admitted, in FIFO order; no handler of
  another cycle executes beside it; a terminal cycle is immutable; an
  evaluating cycle has only terminal children; a stuck cycle is recovered a
  bounded number of times and then failed, so every queued cycle ends.
* Leased source tasks: one unexpired owner per document; only the latest owner
  persists; one version in force; a task left by whatever died can be claimed
  again until it has ended or its attempts are spent.
* Delivery ledger and outbox: no event is lost; a completed delivery never
  executes again.
* Deferred messages: no message leaves a queue without a durable disposition.
* Human edits: no decision is superseded with nothing in its place; a row says validated
  or rejected only because somebody decided so; every row ends up derived from
  the text in force.
* Contributions: an application has two approvers other than the author and a
  verdict of the fleet; what is closed stays closed; the mirror says no more
  than what happened.
* Releases, record, router: gates precede publication; validity
  intervals do not overlap; caps are not exceeded by concurrent calls.

## 2. Plan

1. `SourceTasks` with the abstract `FencedStore`: the leases under every
   document import.  Invariants, refinement and proofs. (done)
2. `L1Cycle`: the serialised cycles, their commands, fence and recovery. (done)
3. `OutboxDelivery`: outbox, relay, queues, delivery ledger, deferral and
   acknowledgement, with the abstract `EventLedger`. (done)
4. `QueueRecovery`: the bounded recovery of queues and dead letters, on top of
   `OutboxDelivery`. (done)
5. `HumanEdits`: obligations between the nightly re-derivation and the
   approval console. (done)
6. `Contributions`: filing, re-derivation, votes and the console's mirror. (done)
7. Proofs of every safety property of these modules and of the refinements:
   `SourceTasksProofs`, `L1CycleProofs`, `OutboxProofs`,
   `QueueRecoveryProofs`, `HumanEditsProofs`, `ContributionsProofs`. (done)
8. Viewer snapshots (coalesced refresh requests) and the operator control;
   discovery page leases; the versioned record; releases; router spend caps;
   k-anonymity and set cover as pure algorithms.

## 3. The modules

### SourceTasks, FencedStore

`SourceTasks` models `app/clhear/l1/workflow.py` as the ingest loop of
`workers.run_adapter_fleet` drives it.  A task is one (job, source) row; several
jobs may hold tasks for one source.

| state | code |
|---|---|
| `status attempt owner lease wait` | the columns of `l1_workflow_tasks` (`lease_until`, `next_attempt_at` as ticks left) |
| `srcOwner srcLease rowLock` | `l1_source_leases` and the row lock a `SELECT ... FOR UPDATE` holds |
| `latest inForce` | the latest row of `source_versions`, the versions without `superseded_at` |
| `steps` | `l1_workflow_steps` per attempt: none, running, closed, interrupted |
| `pc task token att prev err` | the main thread: where it stands, its task, lease token, attempt number, the version it read, whether it unwinds |
| `beat lag beatLag` | the heartbeat thread, and how old a clock reading either thread may still be using |

Each database transaction is an action: `Claim` is `claim_task`, `Begin` the
first heartbeat, `Beat` the daemon thread, `ReadPrevious` the read at the start
of `pipeline.ingest`, `EnterStage`/`InsertStep` and `ExitStage`/`CloseStep` the
two transactions of a recorded stage, `OpenPersist` and `CommitPersist` or
`AbortPersist` the persistence transaction, `Finish`, `FinishAgain` and
`GiveUp` what `finish_task` and its except clause do, `Crash` a process death.

*Clocks.*  Every operation reads `utcnow()` in Python before its statement
runs, so the statement may compare a deadline with an old reading.  Deadlines
count down and saturate at `-MaxLag`, which also stands for NULL; an operation
chooses how old its reading is, up to the time since the same thread's
previous database step.  Waiting for a row lock is the step not being taken
while time passes.

*Abstracted.*  One recorded stage, the one that persists, stands for all; a
version is the token of the worker that wrote it.  Fetching, parsing and
fidelity scoring are the choice between going on and failing.

`FencedStore` is the abstract promise: holders carry ever newer tickets, only
the present holder adds a version, and adding one retires the one in force.
`SourceTasks` implements it with the lease row's token as the holder.

### L1Cycle

`L1Cycle` models `app/clhear/l1/cycles.py` together with the worker loop that
executes its commands (`handle_envelope`, `_execute_delivery`,
`run_adapter_fleet`'s reporting, the phase handlers).

| state | code |
|---|---|
| `status revision batches` | `l1_cycles`: status, runtime revision, discovery batches in the manifest |
| `position lease recoveries tickets slot` | `l1_cycle_queue` and the one-row `l1_cycle_slot` |
| `child retryable sources` | `l1_cycle_children`: status, the result's retryable flag, and what the child's source tasks have come to |
| `asked inbox advances` | outbox and queues: who asked for a cycle (an operator, or `finish_cycle` for a repeat), receives left of a command, pending advance commands |
| `completed holder attempt` | `worker_deliveries`: completed rows, the worker whose lease runs, attempts |
| `pc cmd verdict`, `at rev` | worker and coordinator processes, the command or cycle in hand, the deployed revision |

Coordinators (the L0 fleet) take `Poll`, `Start`, `TakeAdvance`, `Verify`,
`Step` (`Enqueue`, `Dispatch`, `Evaluate`, `Waits`), `FinishAdvance` and, after
a deployment, `Bootstrap`.  `Reconcile` is the whole of `reconcile` under the
exclusive fence: it fails unserialized cycles, retires the slot's cycle,
recovers its commands when the lease ran out, rejects mismatched candidates and
admits the next one.  Workers take `Receive...` (`handle_envelope` up to the
guard), `Claim`, the handlers, and `CloseDone`, `CloseLate` or `CloseError`
(finish, run record, delete).  A lane's handler begins with `child_context`,
which is two steps: `ReadChild` reads the child without a lock, and `BindChild`
writes the status computed from that read (running, or the terminal one it
saw), whatever has become of the child and its cycle.  An operator may request
a cycle under the very name that a repeat will have.

*Merged and abstracted.*

* The outbox relay and SQS are one: a command has `inbox[e]` receives left,
  emitting it or recovering it gives it `MaxReceives` again, and 0 is "never
  sent, deleted or dead-lettered".  `OutboxDelivery` takes this apart.
* Advance commands of one cycle are identical; `advances` counts those
  pending, and above `MaxAdvances` they count once.  A coordinator's crash may
  return the one in hand or lose it.
* `finished_at` of a queue row is exactly "the cycle is terminal"
  (`_terminal` runs in the same transaction), so it is not a variable.  The
  position is assigned under the slot's row lock, so it is the commit order.
* Leases are booleans.  A cycle's lease that expires while a handler holds the
  fence is seen by nobody before the handler ends, so it is modelled as
  expiring afterwards.  A delivery's lease expires after its worker is gone, or
  lapses under a live worker (`MaxLapses`).
* `attempt` saturates at `MaxAttempts`, the only bound the code compares it
  with.  The touches of the cycle's lease by the heartbeat are those of the
  guard and of the handlers.
* A redelivered `L1CycleRequested` finds its row and polls; a redelivered
  scheduler receipt only adds an advance: neither has an action of its own.
* Audits, evaluation scores, gates and lane outcomes are nondeterministic
  choices; `sources` keeps the one thing about them that persists, that the
  tasks of a lane which ended are reused by every later run of the lane.

### EventLedger, OutboxDelivery

`OutboxDelivery` is the event plane in general: rows of the outbox, the relay
of the L0 workers, one queue per fleet with a common dead-letter queue, the bus
rules, and the worker loop with the delivery ledger and the deferred ledger.

| state | code |
|---|---|
| `row` | `l0_events`: absent, `relayed_at` null, or its `relay_disposition` |
| `bus` | what EventBridge accepted and has not yet put on a subscriber's queue |
| `body home place receives inflight` | SQS messages: what they carry, the queue they were sent to, where they are, `ApproximateReceiveCount`, invisibility |
| `done lease` | `worker_deliveries` per fleet and event: completed, and whose lease runs |
| `runs` | rows of `runs` the worker wrote for a delivery |
| `ledger` | `deferred_deliveries` per channel and message: its status |
| `pc hand batch stale held` | worker processes: step, message, rows left to relay, receipt lapsed, started under `CLHEAR_L1_ONLY` |

A *duty* is an event one fleet has to handle: a command is a duty of its owner,
a layer event one of each consumer.  `Relay` is `relay_once` (`SelectRows`, then
per row `Keep`, or `Send` and `Stamp`, or `Refuse`); `Consume` is the loop of
`main` (`Receive` with all checks up to the status read, `Defer`, `Claim...`,
`Succeed`/`Fail`, `Finish`, `RecordRun`, `Acknowledge`, or `Retain`); `Deliver`,
`Redrive` and `Reappear` are what EventBridge and SQS do (`infra/sqs.tf`,
`infra/eventbridge.tf`).  Workers of L2-L8 that were started under the hold do
not receive (`Paused`); `LiftHold` is a deployment, one process at a time.

`EventLedger` is the abstract promise: a duty, once asked for, is done, or set
aside in the ledger, or carried by a row or a message; done stays done.
`OutboxDelivery` implements it, and so does `QueueRecovery`.

*Abstracted.*  Every unreadable or unidentifiable body is "malformed"; a message that EventBridge itself
gives up on reaches the dead-letter queue like one that was redriven; the
batch limit of 100 rows is not reached; the record of a relay's quarantine is
the row's disposition, written by the same transaction.  A handler is
success or failure; the guard of the L1 cycles is one of the failures.

### QueueRecovery

`QueueRecovery` EXTENDS `OutboxDelivery` with recovery tasks
(`app/clhear/platform/queue_recovery.py`), which also run as a handler of L0.
`Pull` receives a batch from one queue and leaves out what `_owned_here`
accepts; `Dispose` is `deferred.record` and the send for one message of the
batch: it drafts a ledger entry and, unless an entry says so already, sends a
command home, which no rollback undoes; `Resolve` is `deferred.resolve`, the
update of an entry that was there before; `Commit` is the end of
`engine.begin()`, `Remove` one entry of `delete_message_batch`, `Abandon` an
exception or a death anywhere.  `draft` is the uncommitted part of the ledger.
`Free` is the unique key on which an insert waits for another one; an entry that
has been committed is read by a plain SELECT, so two transactions may handle it
at once and both send the command home, and only their updates of the row wait
for each other.  Messages a recovery holds become visible whenever `Reappear`
says so, because it does not extend their 120 seconds. Each batch is a pass of
its own, because only counts go from one to the next.

### HumanEdits

`HumanEdits` models the L2 obligations between three writers: the extraction
(`l2/extract.py`), the console (`platform/console.py`, `platform/proposals.py`)
and the pass over the ledger (`console.reproduce_human_edits`).

| state | code |
|---|---|
| `clause extractor` | the text in force of each clause, `EXTRACTOR_VERSION` |
| `row` | `obligations`: `text_hash`, `method`, `status`, and one field for the others that people may edit; None without a row |
| `edits` | `human_edits`, in the order of their ids: kind (a field edit of the status is `status_edit`), value accepted, text hash it was accepted on, status |
| `proposals` | `proposals` of the kinds `l2_modification`, `l2_review`, `human_edit_conflict` |
| `desk` | a maintainer's request: idle, proposal decided, transaction open with what it read |
| `reading pass` | what each extraction has read and is about to commit; the edits the pass has still to treat |

`ReadClauses`, `ReadRows` and `Extract` are `run_extraction`: the clauses in
force, the rows as its transaction reads them, and its commit.  `Job` are the
extractions that may run at a time: the nightly one and those of
`l2/change.on_l1_changed`; one that inserts a row another has inserted fails on
its key (`Doubled`).  `Request` files a reader's proposal about the field or
about the status, `Doubt` that of the second model.  `Flip` is
`proposals._decide`; `Open` and one of `ApplyModification`, `ApplyVerdict`,
`ApplyConflict` are `apply_decision`; `Validate` and `ApplyValidation` are
`_validate`.  `ListEdits` reads the ledger; `ReadEdit` and `CheckEdit` are one
edit's transaction, which escalates (`Escalate`), puts back (`Reassert`) or
leaves it (`Intact`), and writes the status the list had.

*Reads and commits.*  PostgreSQL runs these transactions as READ COMMITTED and
none of them locks the row it reads, so every transaction is two actions, and
what is written is computed from what was read exactly where the code does so:
`_validate` writes a status derived from the row it read, an edit's basis is
the hash it read, `_apply_l2_review` promotes only what it read as derived.

*Abstracted.*  The clauses are read at one moment, although each source's are
read on a connection of its own; rows belong to one source each.  What is
derived from a text is a value of its own for each text and extractor.  Two
fields stand for those of `L2_FIELDS`: the status, which validations, verdicts
and extractions write as well, and one for all others, which only edits and
derivations write and the code treats each separately.  A status that is asked
for may be any string in the API (`v1/l2.py:355`), and the approver may
override the draft's value; the model has the statuses the code itself knows,
of which `StatusAsked` is the bound.  Why-trails, versions and review events
are left out, and so are two more writers of rows: the model's refinement of
derived fields (`l2/structured.py:101`), a batch of its own after the
extraction, and the revocation on expiry (`l2/change.py:274`), which makes a
row stale although its clause is in force.  One pass at a time: an on-demand
pass beside the nightly one is not modelled.  L3 to L5 edits take the same path
and are left out.

### Contributions

`Contributions` models `platform/contributions.py`.

| state | code |
|---|---|
| `status author derived` | `contributions`: status, contributor, whether there is a `rederivation` |
| `votes` | `contribution_reviews`, unique per reviewer |
| `applied` | the approvers of each call of `_apply` |
| `refused` | `contributor_notifications` of kind `rejected`: whose rejections the author has been told of |
| `proposal` | the mirror in `proposals` |
| `signed roles` | `cla_signatures`, valid rows of `roles`; the configured maintainers are a constant |
| `desk night` | a person's request; the nightly re-derivation |

`Sign`, `Grant`, `Revoke`; `Check` and `File` are `submit`; `LookToDerive` and
`Rederive` (`NightLook` and `NightDerive` at night) are `rederive`, whose status
check is on another connection than its unconditional write; `Look`,
`LookAgain`, `Count`, `Vote` and `Flip` are `review`: the status check, again
after a first re-derivation, the transaction's count of the committed accepts
with its own, its commit, and the mirror.  `Abort` is a request that dies or
whose transaction fails.

*Abstracted.*  The outcome of the automated checks and what the fleet says are
open; nothing in the code reads the latter when votes are counted.  One request
per person: the unique key of the reviews serialises those of one reviewer.
What an application writes is `HumanEdits`' matter.  `release_contributions`
has no caller and is left out, so `accepted` is final.

## 4. The runs

| run | shows | bounds |
|---|---|---|
| `source_two_jobs` | TypeOK; SourceExclusive (no two unexpired leases on one document); SingleInForce; refinement of FencedStore | three jobs for one document, two workers, lease of 2 ticks, readings up to 1 tick old |
| `source_settle` | InterruptedStays; NeverStranded under fairness | one task, two attempts, two workers, crashes unbounded |
| `l1_lapse` | TypeOK, VerifiedWhole, RepeatedWhole, OneCycle, SlotHeld, CompletedOnce, Final with two workers sharing a cycle's commands and a delivery lease that lapses under one of them | a cycle and its chained repeat, which `finish_cycle` or an operator asks for and which is not started; one lane, two workers, 1 attempt, 2 receives, one lapse |
| `l1_fifo` | Fifo | three requests and a legacy cycle, two coordinators, two revisions, no workers |
| `l1_scheduled` | QueuedSettles under fairness; OneCycle, Handover, Final | a scheduled cycle, one extra discovery batch, one direct command, two revisions, one crash anywhere |
| `l1_finished_first` | *violation*: FinishedFirst | one cycle, 2 attempts, 3 receives |
| `outbox_race` | TypeOK, Disposed, RunOnce, EventLedger | a command, a layer event, an audit row and an unknown kind, of which one at a time is sent; a stray malformed body or one without an outbox row; workers of three fleets, two of them on one queue; 3 messages, 2 receives; one lapse, crash and re-relay |
| `outbox_settles` | Settles under fairness | a command and a held command under the hold, 3 messages, 2 receives |
| `outbox_result` | *violation*: ResultKept | one command, one crash |
| `queue_recovery` | RecoveryTypeOK, Disposed, EventLedger, LeftForOwner | two recoveries with three passes of one message between them beside an L0 worker, under the hold and after; a command sent as an outbox reference, a held command or a stray body (one of them a whole command, also on its owner's queue), one at a time, at most 3 messages, one receive before the dead-letter queue |
| `human_edits` | TypeOK, Answered, Vouched; Follows under fairness | one obligation, two texts or none, one extraction at a time, one new extractor, two changes of the clause, one request (of a field, or of the status `validated`) or doubt, one validation, the conflicts they lead to, a ledger to which the pass adds up to four edits, any number of crashes of any of the three writers |
| `contributions` | TypeOK, Backed, Mirrored, Closes | one contribution by one of three people, one of them a configured maintainer, two grants or revocations, any number of votes and re-derivations, up to two applications, one night that dies |

Why the bounds suffice. The hazards are races of two actors over one row: two
workers and one document, two workers and one cycle, two coordinators and one
queue; the third actor is the clock or the environment. Three jobs let a source
row pass from one job to another and on while the first still runs. Three
requests let one be rejected, one be admitted and one be passed; the legacy
cycle is what `reconcile` meets once, at the first poll after the queue was
introduced. `Started` names the requests whose cycle is ever created; only in
`l1_lapse` is it less than there are, so that the first cycle runs in every
detail and its repeat is requested and then waits. Two revisions are one
deployment between any two steps, of either fleet alone. One lane suffices
where a child's own history matters; the properties that quantify over lanes
are disturbed one lane at a time, because `finish_child` touches one row. Every
row of the event plane belongs to one body, so `MaxBodies = 1` lets every
behaviour choose one of the bodies of the run; the one place where bodies meet,
the relay's batch, has two in `outbox_settles`. A body needs two messages for a
duplicate and a third for the copy a recovery sends; two receives separate the
redelivered message from the dead-lettered one. Every crash leaves a state that
a fresh process meets at its first step. What the bounds leave out: more than
one crash, lapse or extra discovery batch in one behaviour, crashes in the
middle of a batch of several rows, and more receives than two (three in the
violation). Human edits are disturbed one row at a time, since every writer
treats rows separately; two changes of a clause let it return to its first
text, and the second one fall on a decision already re-accepted. `Initially`
names two of the three starts, the third being the first one with the texts
exchanged. The one status asked for, `validated`, is the one that validations
and verdicts write as well. Several extractions at a time are left to the
theorems, which hold for any number of them; with two and fewer changes TLC
finishes too, but within its time not beside everything else this run has. Two
decisions of one kind on one row, other than a re-assertion or a re-acceptance,
do not happen within these bounds either; nor do several contributions, of
which a night that ends early would leave some unread (section 6). An
application needs two accepts of people other than the author, so two reviewers
racing each other, the author and the night are all the actors there are;
`MaxApplications` lets a second application happen where the code allows it,
and two grants or revocations let a reviewer vote and then lose the role.

The runs of `L1Cycle`, `OutboxDelivery`, `QueueRecovery` and `Contributions` set
`CHECK_DEADLOCK FALSE`, because the system may really stop: all cycles ended,
all queues empty, all contributions closed, all bounds spent.  Symmetry (workers,
coordinators, recovery tasks, people who are not configured as maintainers, and
in `l1_fifo` requests) is used in safety runs only.

### Fairness

`SourceTasks`: weak fairness of a live worker's main thread and of time.
Nothing makes anybody claim a task: a command's five receives may be spent on
busy leases and refusals, recoveries are bounded (`l1/cycles.py:223`), and the
command of an ended or revised cycle is acknowledged without being run
(`workers.py:884`), so a task may stay unsettled for good.  What holds is
`NeverStranded`: until a task has ended or its attempts are spent, it comes up
for a claim again and again, that is, its status, its lease and its backoff,
the source's lease and the source's row lock let a worker have it whose command
names it.  Nothing keeps a worker from crashing for ever; a crash only lets
what it held run out.

`L1Cycle`: weak fairness of each coordinator's loop and each worker's loop
(`main` never ends and restarts after a crash) and of the expiry of leases.
No fairness of requests, crashes, deployments or lapses.  `Receive` and
`Handle` are fair separately: a worker in a handler finishes it, an idle one
takes up messages.  Direct work is bounded by `MaxDirect`; unbounded direct
work could keep the exclusive try-lock from being free at every poll, and
admission would starve.

`OutboxDelivery`: weak fairness of each worker's relay and of its receive loop,
of the bus rules, of redrive, of visibility timeouts and of the expiry of
leases whose worker is gone; strong fairness of `Send`, that is the transport
accepts a row it is offered again and again.  The last is an assumption about
AWS that the code needs: a refused row ends the iteration before the receive,
so without it the L0 fleet would not consume either.  Nothing is assumed of
emissions, deaths, lapses or deployments, and handlers may fail every time,
which is why `Settles` allows the dead-letter queue.  Duties of paused fleets
are excluded: they wait for the hold to end.

`HumanEdits`: weak fairness of beginning an extraction, one of which the nightly
stack runs every night, and strong fairness of each further step of one: any
number of them may die, but not each at the same step.  No extraction has to be
run for a change.  Maintainers, readers, the second model and the pass owe
nothing, and a request may stay open for ever.  `Contributions` checks safety
only; no one has to review.

## 5. What is proved

Every invariant and every action property that a passing run checks is a
theorem for all values of the constants, and so are the three refinements.
Each component has a module `...Proofs` beside it; `PROJECT.json` lists its
theorems.

| module | theorems |
|---|---|
| `SourceTasksProofs` | `TypeCorrect`, `Exclusion` (SourceExclusive), `OneInForce` (SingleInForce), `StaysInterrupted` (InterruptedStays), `Implementation` (of FencedStore) |
| `L1CycleProofs` | `TypeCorrect`, `OneCycleAlways`, `SlotAlwaysHeld`, `VerifiedAlwaysWhole`, `RepeatedAlwaysWhole`, `CompletedAlwaysOnce`, `HandsOver` (Handover), `InOrder` (Fifo), `FinalResults` (Final) |
| `OutboxProofs` | `TypeCorrect`, `DisposedAlways`, `RunsOnce` (RunOnce), `ImplementsLedger` (EventLedger) |
| `QueueRecoveryProofs` | `RecoveryTypeCorrect`, `RecoveryDisposed`, `OwnersCommandLeft` (LeftForOwner), `RecoveryImplementsLedger` (EventLedger) |
| `HumanEditsProofs` | `TypeCorrect`, `AnsweredAlways`, `VouchedAlways` |
| `ContributionsProofs` | `TypeCorrect`, `BackedAlways`, `MirrorHonest` (Mirrored), `ClosesForGood` (Closes) |

### Assumptions

Only the named assumptions on constants in the modules; TLC evaluates them in
every run.  Beyond types and positive limits they say:

* a value that stands for "none" is not one of the things it is none of
  (`NoWorker`, `NoTask`, `NoCommand`, `NoMessage` and the stray bodies;
  `NoneAssumption` of `HumanEdits` and `Contributions`): NULL is not a value;
* `FollowUp` of `L1Cycle` is injective: the identifier of a repeat is computed
  from the cycle it repeats, so no two cycles have the same one;
* the kinds, consumers and owners of `OutboxDelivery` are a table such as
  `routing.py` has, in which a command has exactly one owner.

### The inductive invariants

The safety properties above, types apart, are hardly ever inductive by
themselves.  Each `Proofs` module has an invariant (`IInv`, `RInv`), with a
lemma for `Init` and one for the step, one case per action.

*`SourceTasks`.*  `WorkersInv`: a busy worker has a claimed task and a token
issued to it alone, so a row's token identifies its worker.  `FenceInv`: a
worker inside its persistence transaction holds the row lock and its token is
still on the source row; and as long as a worker's token is there, the version
it read at the start is still the latest.  This is why superseding a version
read minutes earlier is right.  `LeaseInv`: a running task whose token is not on
its source row has an expired lease, and one whose token is there expires no
later than the source row; two live leases on one source would both need the
one token of the row.  `StoreStep` maps a claim to `Acquire`, a finish that
still holds the row to `Release`, a commit to `Write`, everything else to a
stutter.  For `InterruptedStays` there is `StepInv`: no two workers record for
one attempt of a task, because the attempt number a worker uses was read while
its claim still stood, and a worker that has still to insert its step finds no
row there.  So neither its insertion nor its closing meets an interrupted row
that belongs to somebody else.

*`L1Cycle`.*  The properties support each other and are one invariant with
`HandsInv` (what a process has in hand, by where its control is) and `QueueInv`
(tickets are drawn once; whoever has one is queued, active or over; whoever has
the slot was admitted).  Most actions move no cycle of the queue; their common
effect is an operator, `Quiet`, with one lemma.  The steps that enqueue and the
reconciliation are taken by themselves.  A child's row proves nothing once its
cycle has ended, since `child_context` may write over it from an old read; what
persists are the source tasks of its lane.  `LaneRows` and `LaneHands` carry
that: a successful status, in a child's row or in the hands of a worker about
to write it, is that of the lane's sources, and sources that have completed
stay so.  Hence `VerifiedWhole` and `RepeatedWhole` speak of the sources, and
`Final` lets a terminal child change only under a `BindChild` whose read is
older.  `Handover`, `Fifo` and `Final` follow
from the invariant and the step.

*`OutboxDelivery`.*  The heart is what a duty is carried by.  `MessageInv` and
`RowInv`: messages are sent in their order, each with a body that entered, and a
row stamped as sent has been given to the transport.  `CopyInv`: a ledger entry
that says "sent home" has a later copy of the same body.  So among the copies of
a duty the last has no such entry, and it is on a queue, completed or in the
ledger for good (well-foundedness of the order of the messages); hence no step
can lose a duty, which is `EventLedger`.  `HandInv` says why a worker may go on:
before it deletes, its duty is completed or its message is in the ledger.
`OneRecorder` and `LeaseInv` give `RunOnce`: a delivery with a lease is not
completed, and one worker at a time is between a completion and its record.

*`QueueRecovery`.*  `OutboxProofs` is reused: every step of a recovery keeps
`IInv`.  `TodoInv` and `DraftInv` say what a pass knows of its batch: what it
deletes has an entry, and what it drafts as sent home, or has sent home again
and not yet resolved, has a later copy, sent before any commit and surviving a
rollback.  No step of the plane takes that
back.  `OwnInv`: a command on its owner's queue is in no entry, no batch and no
deferral.  Proving it showed that an earlier form of `LeftForOwner`, without
the exception for references, was false (section 6).

*`HumanEdits`.*  A request and a pass act on what an earlier step read.
`EditsInv`, `ProposalsInv` and `DeskInv` say that what they rely on is never
taken back: rows stay, ledger and queue only grow, a decided proposal stays
decided, an edit and a request say what their kind says (a status, for one
about the status), and a status seen by a request as validated or rejected was
decided by somebody, which the ledger still shows when the request commits.
`ReadingInv` says of every extraction, however many overlap, that what it is
about to revoke is there and what it is about to derive has a text.

*`Contributions`.*  `RowsInv`, `RequestInv` and `BallotInv` follow a request
through its transactions: a counted accept is a vote already committed or its
own, never the author's; a request on its way to the mirror has its application
behind it, or its rejection of which the author was told in the same
transaction.

### What is only model-checked

Liveness (`NeverStranded`, `QueuedSettles`, `Settles`, `Follows`): fairness and
ENABLED are out of the provers' reach here. `FinishedFirst` and `ResultKept` are
violated and refuted by TLC.  No module has a RECURSIVE operator.  Induction
over data is not available, so the proofs about `HumanEdits` treat the list of a
pass (`ListEdits`) through the elements it has, not through the order it has
them in.

## 6. Where the code and its documents disagree

Two runs end in a counterexample.

* `FinishedFirst` (`l1/cycles.py:635`).  `operation_guard` has no phase check
  for adapter commands and `finish_child` writes the child's status whatever it
  was, so a lane redelivered after its terminal report turns a child of an
  evaluating cycle back into a retry, where `docs/L1_CORPUS_VERIFICATION.md:86`
  has the evaluation after all children finished.  The damage is bounded:
  `finish_cycle` refuses to end a cycle with an unfinished child, which is why
  `VerifiedWhole` holds.
* `ResultKept` (`workers.py:912`).  The delivery is completed in one
  transaction and its outputs are inserted into `runs` in the next.  A death
  between them leaves a completed delivery without a result; its redelivery
  answers nothing, and `deployment_verification._dispatch`, which says a
  recovered task reuses completed child events, raises "Completed child event
  is missing its persisted result" whenever it is run again.

Further observations from writing the models have no run of their own.

* `l1/workflow.py:384`: the ownership check of a stage and the insert of its
  running step are two transactions, so a worker that stalls between them
  inserts a running step for an attempt already reclaimed, after the reclaim
  marked that attempt's steps interrupted.  `InterruptedStays` is the part of
  the promise that holds.
* `l1/cycles.py:576`: `child_context` reads a child without a lock and then
  updates it unconditionally.  A child that another delivery finished in
  between, or one of a cycle that was verified or failed in between, is set
  running again, and with the cycle over nobody sets it back; a terminal status
  that was read is written back over a newer one.  `Final` says that nothing
  else does so, and the verdict of the cycle stands on its sources.
* `infra/sqs.tf:18`, `l1/cycles.py:223`, `workers.py:884`: a source command may
  be spent or acknowledged with tasks of its job still open, and nobody comes
  for them but a later job of the same source (section 4, fairness).
* `platform/events.py:289`: send and stamp are not one transaction, so a relay
  that stops between them leaves a sent row unrelayed and the next pass sends
  it again, where the comment at `platform/events.py:247` says nothing is sent
  twice.  `RunOnce` and the refinement show what absorbs the second copy.
* `platform/queue_recovery.py:71`: recovery leaves valid commands on their
  owner's queue alone, except those sent as an outbox reference, resolvable or
  not: `classify_message` quarantines every reference before it looks at the
  kind, and `_owned_here` does not hold for one.  The head of the module speaks
  of unresolvable references only, and `docs/L1_DEPLOYMENT.md:291` has the
  owning worker retrieve the event of a reference.  The duty is in the ledger
  as quarantined; `LeftForOwner` is about commands sent whole.
* `platform/queue_recovery.py`, `_owned_here`: it is false for a held kind even
  after the hold is lifted, so a pass moves such a message from its queue to
  the same queue until its bound.
* `platform/queue_recovery.py:164`: an entry that says "deferred" is read
  without waiting, so two recoveries that hold the same redelivered message may
  both send its command home; the delivery ledger absorbs the second copy
  (`RunOnce` and the refinement).
* `platform/console.py:642`: a live edit of the status is put back whatever the
  row has become, so the status of an obligation whose clause is gone goes from
  stale to the edited one every night and back at the next extraction;
  `Follows` makes an exception of such rows (`Contested`).
* `platform/console.py:654`: the pass writes an edit's status as it was in the
  list.  A decision superseded after the list was read is `accepted` again, and
  the next pass puts its older value over the newer decision, where
  `app/clhear/models.py:262` says statuses only move forward, the head of
  `console.py` that nothing is silently overwritten and `fleets.py:98` that what
  a maintainer accepted survives the cycle.  No property says that a row
  carries the newest decision, because the code does not keep that.
* `platform/console.py:506`: a verdict that rejected an obligation, re-accepted
  through a conflict, is recorded as a validation, where the comment above it
  says that the edit is re-accepted on the new basis.
* `platform/contributions.py:646` and `:771`: the status is checked before the
  transaction that relies on it, so a slow re-derivation reopens a closed
  contribution, and one being reviewed may be applied twice, or applied after a
  reject.  `Closes` is the part of the promise that holds: it is over when the
  requests that had looked at the open contribution are.
* `platform/contributions.py:789`: two first accepts that count at the same
  time do not see each other, and the contribution waits for a third vote.

Further hazards that no property covers, each for the stated reason:

* `l1/cycles.py:660`: `failed_phase` ends the cycle and leaves children that
  are not terminal, unlike `_fail_locked`; nothing promises otherwise.
* `l1/cycles.py:662`: attempts spent on deferred receives count towards the
  budget of real errors; the tests accept it.
* `platform/queue_recovery.py:123`: a command left for its owner has lost a
  receive and may be dead-lettered untried; the refinement shows it is carried.
* `infra/sqs.tf:22`: the queues of paused fleets keep messages for four days;
  message age is not modelled.
* `platform/console.py:531`: a proposal is decided in one transaction and takes
  effect in another, so a crash or a logged `KeyError` leaves an approved
  proposal without its effect (`Lose` takes the step).
* `v1/console.py:97`: an on-demand pass beside the nightly one may escalate or
  re-assert one edit twice; one pass is modelled.
* `platform/contributions.py:681`: a contribution closed after the night listed
  it raises and ends the night for those behind it, which wait for the next;
  the model has it, but TLC does not finish several contributions in its time.
* `platform/events.py:288`: a row that the transport refuses for ever keeps the
  rows behind it and the L0 queue waiting; `Settles` assumes it is accepted
  in the end.
* `platform/contributions.py:388`: two equal submissions look for a duplicate
  before either commits; the checks are an open outcome.
* `l1/viewer_snapshot.py:395`: a refresh request's time is the start of its
  transaction, so a compile that starts before that transaction commits counts
  as newer than the request; and `l1/operator_access.py:104`: a mutation that
  fails after its invalidation leaves the control updating.  Both belong to
  step 8 of the plan.

## 7. What is not modelled

`PROJECT.json` lists every component with its status and reason.  In short:
network and file I/O, parsing, scoring and format conversion are outcomes, not
models; read-only routes and static pages have no state; the parts of the plan
above marked as open are protocol and still to come.  Of the modelled parts,
left out are the release of accepted contributions (no caller), the refinement
and expiry of derived obligations, console decisions on L3 to L5 rows, concept
proposals and the older community submissions decided through the same path, two
passes over the ledger at once, and the age of SQS messages.
