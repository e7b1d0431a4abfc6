---------------------------- MODULE SourceTasks ----------------------------
(***************************************************************************)
(* Leased, resumable source tasks of the L1 fleet                          *)
(* (app/clhear/l1/workflow.py) driven by the fleet's ingest loop           *)
(* (app/clhear/workers.py, app/clhear/l1/pipeline.py).                     *)
(*                                                                         *)
(* A task is one (job, source) row; two jobs may hold tasks for the same   *)
(* source, so a claim takes the task row and the source's lease row        *)
(* together.  A worker's main thread runs the ingest, a daemon thread of   *)
(* the same process renews the lease.  Each database transaction is one    *)
(* action.  The persistence transaction is two: the ownership check that   *)
(* takes the row locks (SELECT ... FOR UPDATE) and the commit, so that     *)
(* time passes, the other thread runs and other workers claim in between.  *)
(*                                                                         *)
(* Time is a countdown.  A deadline column holds the ticks left, saturated *)
(* at -MaxLag, which also stands for SQL NULL: a code path that compares a *)
(* deadline with a clock value read up to MaxLag ticks ago treats both as  *)
(* past.  Every operation reads its clock in Python before the statement   *)
(* runs, so it may use a value up to `lag' ticks old, where lag is the     *)
(* time since the same thread's previous database step.                    *)
(***************************************************************************)
EXTENDS Integers, FiniteSets

CONSTANTS
    Task,         \* (job, source) rows of l1_workflow_tasks
    Source,       \* rows of l1_source_leases
    SourceOf,     \* SourceOf[t]: the source of task t
    Worker,       \* worker processes
    NoWorker,     \* "no row lock"
    NoTask,       \* the task of an idle worker
    MaxAttempts,  \* workflow.MAX_ATTEMPTS
    Lease,        \* workflow.LEASE_SECONDS, in ticks
    Backoff,      \* Backoff[n]: ticks before the retry after attempt n
    MaxLag        \* bound: ticks a statement may run after its clock read

ASSUME ConstantsAssumption ==
    /\ SourceOf \in [Task -> Source]
    /\ NoWorker \notin Worker
    /\ NoTask \notin Task
    /\ MaxAttempts \in Nat \ {0}
    /\ Lease \in Nat \ {0}
    /\ MaxLag \in Nat
    /\ Backoff \in [1..MaxAttempts -> Nat]

VARIABLES
    (* l1_workflow_tasks *)
    status, attempt, owner, lease, wait,
    (* l1_source_leases *)
    srcOwner, srcLease, rowLock,
    (* source_versions and l1_workflow_steps *)
    latest, inForce, steps,
    (* lease tokens issued so far; a token is its serial number *)
    issued,
    (* worker processes: main thread, then heartbeat thread *)
    pc, task, token, att, prev, err, lag, beat, beatLag

taskVars == <<status, attempt, owner, lease, wait>>
srcVars == <<srcOwner, srcLease>>
dataVars == <<latest, inForce>>
threadVars == <<pc, task, token, att, prev, err>>
clockVars == <<lag, beatLag>>
vars == <<taskVars, srcVars, rowLock, dataVars, steps, issued,
          threadVars, beat, clockVars>>

Past == -MaxLag
Terminal == {"completed", "blocked", "failed"}
Unread == -1
Done == -2

RowsOK ==
    /\ status \in [Task -> {"queued", "retrying", "running"} \cup Terminal]
    /\ attempt \in [Task -> 0..MaxAttempts]
    /\ owner \in [Task -> Nat]
    /\ lease \in [Task -> Int]
    /\ wait \in [Task -> Int]

SourcesOK ==
    /\ srcOwner \in [Source -> Nat]
    /\ srcLease \in [Source -> Int]
    /\ rowLock \in [Source -> Worker \cup {NoWorker}]

DataOK ==
    /\ latest \in [Source -> Nat]
    /\ inForce \in [Source -> SUBSET Nat]
    /\ steps \in [Task -> [1..MaxAttempts ->
                    {"none", "running", "closed", "interrupted"}]]
    /\ issued \in Nat

ThreadsOK ==
    /\ pc \in [Worker -> {"idle", "claimed", "work", "entering", "staged",
                          "persisting", "exiting", "finishing"}]
    /\ task \in [Worker -> Task \cup {NoTask}]
    /\ token \in [Worker -> Nat]
    /\ att \in [Worker -> 1..MaxAttempts]
    /\ prev \in [Worker -> Nat \cup {Unread, Done}]
    /\ err \in [Worker -> BOOLEAN]

ClocksOK ==
    /\ beat \in [Worker -> {"off", "on", "lost"}]
    /\ lag \in [Worker -> 0..MaxLag]
    /\ beatLag \in [Worker -> 0..MaxLag]

(* Every row and every worker is in the domain the code writes.            *)
TypeOK == RowsOK /\ SourcesOK /\ DataOK /\ ThreadsOK /\ ClocksOK

(* The rows as ensure_job and ensure_task leave them; the source's lease   *)
(* row is inserted free by the first claim.                                *)
Init ==
    /\ status = [t \in Task |-> "queued"]
    /\ attempt = [t \in Task |-> 0]
    /\ owner = [t \in Task |-> 0]
    /\ lease = [t \in Task |-> Past]
    /\ wait = [t \in Task |-> Past]
    /\ srcOwner = [s \in Source |-> 0]
    /\ srcLease = [s \in Source |-> Past]
    /\ rowLock = [s \in Source |-> NoWorker]
    /\ latest = [s \in Source |-> 0]
    /\ inForce = [s \in Source |-> {}]
    /\ steps = [t \in Task |-> [n \in 1..MaxAttempts |-> "none"]]
    /\ issued = 0
    /\ pc = [w \in Worker |-> "idle"]
    /\ task = [w \in Worker |-> NoTask]
    /\ token = [w \in Worker |-> 0]
    /\ att = [w \in Worker |-> 1]
    /\ prev = [w \in Worker |-> Unread]
    /\ err = [w \in Worker |-> FALSE]
    /\ beat = [w \in Worker |-> "off"]
    /\ lag = [w \in Worker |-> 0]
    /\ beatLag = [w \in Worker |-> 0]

-----------------------------------------------------------------------------
Src(w) == SourceOf[task[w]]

(* The main thread moves to p; its next clock reading is taken after now.  *)
Goto(w, p) ==
    /\ pc' = [pc EXCEPT ![w] = p]
    /\ lag' = [lag EXCEPT ![w] = 0]

(* assert_ownership and the guards of heartbeat_task, at a clock l old.    *)
TaskHeld(w, l) ==
    /\ owner[task[w]] = token[w]
    /\ status[task[w]] = "running"
    /\ lease[task[w]] + l > 0

SourceHeldByAnyone(w, l) == srcLease[Src(w)] + l > 0

SourceHeld(w, l) ==
    /\ srcOwner[Src(w)] = token[w]
    /\ srcLease[Src(w)] + l > 0

Owns(w, l) == TaskHeld(w, l) /\ SourceHeld(w, l)

(* The check may pass with the oldest reading the main thread can still be *)
(* using, and may fail with a fresh one.                                   *)
CheckPasses(w) == Owns(w, lag[w])
CheckFails(w) == ~Owns(w, 0)

(* claim_task: the task's conditional UPDATE.                              *)
ClaimableOnceMore(t, l) ==
    /\ status[t] \in {"queued", "retrying", "running"}
    /\ attempt[t] <= MaxAttempts
    /\ lease[t] + l <= 0
    /\ wait[t] + l <= 0

ClaimableUnlessRunning(t, l) ==
    /\ status[t] \in {"queued", "retrying"}
    /\ attempt[t] < MaxAttempts
    /\ lease[t] + l <= 0
    /\ wait[t] + l <= 0

Claimable(t, l) ==
    /\ status[t] \in {"queued", "retrying", "running"}
    /\ attempt[t] < MaxAttempts
    /\ lease[t] + l <= 0
    /\ wait[t] + l <= 0

(* claim_task, the successful transaction.  When the source row is owned   *)
(* it raises and the rollback leaves every row as it was; the other        *)
(* refusals (None, AttemptsExhausted, RetryDeferred, LeaseBusy) change     *)
(* nothing either, so they are stuttering steps.  Steps that an earlier    *)
(* attempt left running are marked interrupted in the same transaction.    *)
Claim(w, t) ==
    /\ pc[w] = "idle"
    /\ \E l \in 0..MaxLag :
        /\ Claimable(t, l)
        /\ srcLease[SourceOf[t]] + l <= 0
        /\ lease' = [lease EXCEPT ![t] = Lease - l]
        /\ srcLease' = [srcLease EXCEPT ![SourceOf[t]] = Lease - l]
    /\ rowLock[SourceOf[t]] = NoWorker
    /\ issued' = issued + 1
    /\ status' = [status EXCEPT ![t] = "running"]
    /\ attempt' = [attempt EXCEPT ![t] = attempt[t] + 1]
    /\ owner' = [owner EXCEPT ![t] = issued + 1]
    /\ wait' = [wait EXCEPT ![t] = Past]
    /\ srcOwner' = [srcOwner EXCEPT ![SourceOf[t]] = issued + 1]
    /\ steps' = [steps EXCEPT ![t] = [n \in 1..MaxAttempts |->
            IF n <= attempt[t] /\ steps[t][n] = "running"
            THEN "interrupted" ELSE steps[t][n]]]
    /\ task' = [task EXCEPT ![w] = t]
    /\ token' = [token EXCEPT ![w] = issued + 1]
    /\ Goto(w, "claimed")
    /\ UNCHANGED <<rowLock, dataVars, att, prev, err, beat, beatLag>>

(* heartbeat_task: both rows are extended or neither is.                   *)
Extend(w, l) ==
    /\ Owns(w, l)
    /\ rowLock[Src(w)] = NoWorker
    /\ lease' = [lease EXCEPT ![task[w]] = Lease - l]
    /\ srcLease' = [srcLease EXCEPT ![Src(w)] = Lease - l]
    /\ UNCHANGED <<status, attempt, owner, wait, srcOwner>>

(* An exception unwinds to the fleet's except clause: heartbeat() stops    *)
(* the daemon thread on the way and finish_task(status="failed") is next.  *)
Raise(w) ==
    /\ err' = [err EXCEPT ![w] = TRUE]
    /\ beat' = [beat EXCEPT ![w] = "off"]
    /\ beatLag' = [beatLag EXCEPT ![w] = 0]
    /\ Goto(w, "finishing")
    /\ UNCHANGED <<taskVars, srcVars, rowLock, dataVars, steps, issued,
                   task, token, att, prev>>

(* bind_execution reads the attempt number; heartbeat() runs its callback  *)
(* once on the main thread, then starts the daemon thread.  The number is  *)
(* used only if the callback finds the claim unchanged since.              *)
Begin(w) ==
    /\ pc[w] = "claimed"
    /\ \E l \in 0..lag[w] : Extend(w, l)
    /\ att' = [att EXCEPT ![w] = attempt[task[w]]]
    /\ beat' = [beat EXCEPT ![w] = "on"]
    /\ Goto(w, "work")
    /\ UNCHANGED <<rowLock, dataVars, steps, issued,
                   task, token, prev, err, beatLag>>

(* The daemon thread renews the lease, or records the loss and ends.       *)
Beat(w) ==
    /\ beat[w] = "on"
    /\ \/ (\E l \in 0..beatLag[w] : Extend(w, l)) /\ UNCHANGED beat
       \/ /\ CheckFails(w)
          /\ beat' = [beat EXCEPT ![w] = "lost"]
          /\ UNCHANGED <<taskVars, srcVars>>
    /\ beatLag' = [beatLag EXCEPT ![w] = 0]
    /\ UNCHANGED <<rowLock, dataVars, steps, issued, threadVars, lag>>

(* pipeline.ingest reads the latest version, long before it persists.      *)
ReadPrevious(w) ==
    /\ pc[w] = "work"
    /\ prev[w] = Unread
    /\ prev' = [prev EXCEPT ![w] = latest[Src(w)]]
    /\ Goto(w, "work")
    /\ UNCHANGED <<taskVars, srcVars, rowLock, dataVars, steps, issued,
                   task, token, att, err, beat, beatLag>>

(* StageRecorder.__enter__: the check, then the insert in a transaction of *)
(* its own.  One recorded stage, the one that persists, stands for all.    *)
EnterStage(w) ==
    /\ pc[w] = "work"
    /\ prev[w] \in Nat
    /\ CheckPasses(w)
    /\ Goto(w, "entering")
    /\ UNCHANGED <<taskVars, srcVars, rowLock, dataVars, steps, issued,
                   task, token, att, prev, err, beat, beatLag>>

InsertStep(w) ==
    /\ pc[w] = "entering"
    /\ steps' = [steps EXCEPT ![task[w]][att[w]] = "running"]
    /\ Goto(w, "staged")
    /\ UNCHANGED <<taskVars, srcVars, rowLock, dataVars, issued,
                   task, token, att, prev, err, beat, beatLag>>

(* SELECT ... FOR UPDATE in assert_ownership(conn).                        *)
ReadRowsOnly(w) == UNCHANGED rowLock

LockRows(w) ==
    /\ rowLock[Src(w)] = NoWorker
    /\ rowLock' = [rowLock EXCEPT ![Src(w)] = w]

(* _persist opens its transaction with assert_ownership(conn): the rows    *)
(* stay locked until it ends.                                              *)
OpenPersist(w) ==
    /\ pc[w] = "staged"
    /\ prev[w] # Done
    /\ ~err[w]
    /\ CheckPasses(w)
    /\ LockRows(w)
    /\ Goto(w, "persisting")
    /\ UNCHANGED <<taskVars, srcVars, dataVars, steps, issued,
                   task, token, att, prev, err, beat, beatLag>>

(* Any exception inside the stage before the transaction: the adapter, the *)
(* publisher, the artifact store, or LeaseLost from assert_ownership.      *)
FailStage(w) ==
    /\ pc[w] = "staged"
    /\ ~err[w]
    /\ err' = [err EXCEPT ![w] = TRUE]
    /\ Goto(w, "staged")
    /\ UNCHANGED <<taskVars, srcVars, rowLock, dataVars, steps, issued,
                   task, token, att, prev, beat, beatLag>>

(* The transaction supersedes the version read at the start and inserts    *)
(* the new one.  It never looks at which version is in force now.          *)
CommitPersist(w) ==
    /\ pc[w] = "persisting"
    /\ inForce' = [inForce EXCEPT ![Src(w)] =
                      (inForce[Src(w)] \ {prev[w]}) \cup {token[w]}]
    /\ latest' = [latest EXCEPT ![Src(w)] = token[w]]
    /\ prev' = [prev EXCEPT ![w] = Done]
    /\ rowLock' = [rowLock EXCEPT ![Src(w)] = NoWorker]
    /\ Goto(w, "staged")
    /\ UNCHANGED <<taskVars, srcVars, steps, issued,
                   task, token, att, err, beat, beatLag>>

(* Readback, permission or database failure inside the transaction.        *)
AbortPersist(w) ==
    /\ pc[w] = "persisting"
    /\ rowLock' = [rowLock EXCEPT ![Src(w)] = NoWorker]
    /\ err' = [err EXCEPT ![w] = TRUE]
    /\ Goto(w, "staged")
    /\ UNCHANGED <<taskVars, srcVars, dataVars, steps, issued,
                   task, token, att, prev, beat, beatLag>>

(* StageRecorder.__exit__ runs on success and on failure alike: the check, *)
(* then the update of a step that is still running.                        *)
ExitStage(w) ==
    /\ pc[w] = "staged"
    /\ CheckPasses(w)
    /\ Goto(w, "exiting")
    /\ UNCHANGED <<taskVars, srcVars, rowLock, dataVars, steps, issued,
                   task, token, att, prev, err, beat, beatLag>>

ClosedWhatever(step) == "closed"

Closed(step) == IF step = "running" THEN "closed" ELSE step

CloseStep(w) ==
    /\ pc[w] = "exiting"
    /\ steps' = [steps EXCEPT ![task[w]][att[w]] = Closed(@)]
    /\ prev' = [prev EXCEPT ![w] = Done]
    /\ Goto(w, "work")
    /\ UNCHANGED <<taskVars, srcVars, rowLock, dataVars, issued,
                   task, token, att, err, beat, beatLag>>

(* LeaseLost from the first heartbeat, or from the check that opens or     *)
(* closes a stage.                                                         *)
LoseLease(w) ==
    /\ pc[w] \in {"claimed", "work", "staged"}
    /\ CheckFails(w)
    /\ Raise(w)

(* The ingest raises, or heartbeat() surfaces a lease its thread lost.     *)
Fail(w) == pc[w] = "work" /\ Raise(w)

(* The ingest returns with the heartbeat still running.                    *)
Return(w) ==
    /\ pc[w] = "work"
    /\ beat[w] = "on"
    /\ ~err[w]
    /\ beat' = [beat EXCEPT ![w] = "off"]
    /\ beatLag' = [beatLag EXCEPT ![w] = 0]
    /\ Goto(w, "finishing")
    /\ UNCHANGED <<taskVars, srcVars, rowLock, dataVars, steps, issued,
                   task, token, att, prev, err>>

(* The worker drops the task, by returning or by dying.                    *)
Leave(w) ==
    /\ task' = [task EXCEPT ![w] = NoTask]
    /\ token' = [token EXCEPT ![w] = 0]
    /\ att' = [att EXCEPT ![w] = 1]
    /\ prev' = [prev EXCEPT ![w] = Unread]
    /\ err' = [err EXCEPT ![w] = FALSE]
    /\ beat' = [beat EXCEPT ![w] = "off"]
    /\ beatLag' = [beatLag EXCEPT ![w] = 0]
    /\ Goto(w, "idle")

(* finish_task's status column for the outcome the fleet reports.          *)
Recorded(t, outcome) ==
    IF outcome = "failed" /\ attempt[t] < MaxAttempts THEN "retrying"
    ELSE outcome

(* finish_task: the task row decides; the source row is freed only if it   *)
(* still carries this token.                                               *)
Finish(w, outcome) ==
    /\ pc[w] = "finishing"
    /\ err[w] => outcome = "failed"
    /\ rowLock[Src(w)] = NoWorker
    /\ \E l \in 0..lag[w] :
        /\ TaskHeld(w, l)
        /\ wait' = [wait EXCEPT ![task[w]] =
                IF Recorded(task[w], outcome) = "retrying"
                THEN Backoff[attempt[task[w]]] - l ELSE Past]
    /\ status' = [status EXCEPT ![task[w]] = Recorded(task[w], outcome)]
    /\ owner' = [owner EXCEPT ![task[w]] = 0]
    /\ lease' = [lease EXCEPT ![task[w]] = Past]
    /\ \/ /\ srcOwner[Src(w)] = token[w]
          /\ srcOwner' = [srcOwner EXCEPT ![Src(w)] = 0]
          /\ srcLease' = [srcLease EXCEPT ![Src(w)] = Past]
       \/ srcOwner[Src(w)] # token[w] /\ UNCHANGED srcVars
    /\ Leave(w)
    /\ UNCHANGED <<attempt, rowLock, dataVars, steps, issued>>

(* LeaseLost from finish_task: the except clause reports the failure once  *)
(* more, and a second LeaseLost is logged.                                 *)
FinishAgain(w) ==
    /\ pc[w] = "finishing"
    /\ ~err[w]
    /\ ~TaskHeld(w, 0)
    /\ err' = [err EXCEPT ![w] = TRUE]
    /\ Goto(w, "finishing")
    /\ UNCHANGED <<taskVars, srcVars, rowLock, dataVars, steps, issued,
                   task, token, att, prev, beat, beatLag>>

GiveUp(w) ==
    /\ pc[w] = "finishing"
    /\ err[w]
    /\ ~TaskHeld(w, 0)
    /\ Leave(w)
    /\ UNCHANGED <<taskVars, srcVars, rowLock, dataVars, steps, issued>>

(* Process death: PostgreSQL rolls back the open transaction.              *)
Crash(w) ==
    /\ pc[w] # "idle"
    /\ rowLock' = [s \in Source |->
                      IF rowLock[s] = w THEN NoWorker ELSE rowLock[s]]
    /\ Leave(w)
    /\ UNCHANGED <<taskVars, srcVars, dataVars, steps, issued>>

(* Where the main thread's next step reads the clock.                      *)
ReadsClock == {"claimed", "work", "staged", "finishing"}

Down(left) == IF left > Past THEN left - 1 ELSE Past
Older(age) == IF age < MaxLag THEN age + 1 ELSE MaxLag

Tick ==
    /\ lease' = [t \in Task |-> Down(lease[t])]
    /\ wait' = [t \in Task |-> Down(wait[t])]
    /\ srcLease' = [s \in Source |-> Down(srcLease[s])]
    /\ lag' = [w \in Worker |->
                  IF pc[w] \in ReadsClock THEN Older(lag[w]) ELSE 0]
    /\ beatLag' = [w \in Worker |->
                  IF beat[w] = "on" THEN Older(beatLag[w]) ELSE 0]
    /\ UNCHANGED <<status, attempt, owner, srcOwner, rowLock, dataVars,
                   steps, issued, threadVars, beat>>

MainThread(w) ==
    \/ Begin(w) \/ ReadPrevious(w) \/ EnterStage(w) \/ InsertStep(w)
    \/ OpenPersist(w) \/ CommitPersist(w) \/ AbortPersist(w) \/ FailStage(w)
    \/ ExitStage(w) \/ CloseStep(w) \/ LoseLease(w) \/ Fail(w) \/ Return(w)
    \/ \E outcome \in Terminal : Finish(w, outcome)
    \/ FinishAgain(w) \/ GiveUp(w)

Next ==
    \/ \E w \in Worker :
        \/ \E t \in Task : Claim(w, t)
        \/ MainThread(w)
        \/ Beat(w)
        \/ Crash(w)
    \/ Tick

Spec == Init /\ [][Next]_vars

(* A live process runs on and time passes.  Nothing makes anyone claim: a  *)
(* command's receives may be spent, or its cycle have ended.               *)
Fairness ==
    /\ \A w \in Worker : WF_vars(MainThread(w))
    /\ WF_vars(Tick)

FairSpec == Spec /\ Fairness

-----------------------------------------------------------------------------
Live(t) == status[t] = "running" /\ lease[t] > 0

(* At no moment do two tasks hold unexpired leases on one source, although *)
(* every lease is granted and renewed against clock readings that may be   *)
(* stale (claim_task, heartbeat_task and their all-or-nothing updates of   *)
(* the task row and the source row).                                       *)
SourceExclusive ==
    \A t, u \in Task :
        t # u /\ SourceOf[t] = SourceOf[u] => ~(Live(t) /\ Live(u))

(* A source never has two versions in force.  _persist retires only the    *)
(* version the ingest read at its start, so this rests on the row locks    *)
(* of assert_ownership(conn) being held from the check to the commit.      *)
SingleInForce == \A s \in Source : Cardinality(inForce[s]) <= 1

(* An interrupted step stays interrupted: the worker that lost the task    *)
(* cannot give its abandoned stage a duration and an outcome.              *)
InterruptedStays ==
    [][\A t \in Task : \A n \in 1..MaxAttempts :
        steps[t][n] = "interrupted" => steps'[t][n] = "interrupted"]_vars

(* A task that no attempt is left to, or that ended.                       *)
Settled(t) ==
    \/ status[t] \in Terminal
    \/ status[t] = "running" /\ attempt[t] = MaxAttempts /\ lease[t] <= 0

(* A worker whose command names t, and whose clock is right, gets it.      *)
Resumable(t) ==
    /\ Claimable(t, 0)
    /\ srcLease[SourceOf[t]] <= 0
    /\ rowLock[SourceOf[t]] = NoWorker

(* No task is stranded: until it settles, it comes up for a claim again    *)
(* and again, whatever died under it; no dead worker's status, lease,      *)
(* backoff or row lock bars it for ever (claim_task resumes "running").    *)
(* That a command for it comes again is not claimed.                       *)
NeverStranded == \A t \in Task : []<>(Settled(t) \/ Resumable(t))

(* The leased tasks keep the promise of FencedStore: the lease row's token *)
(* is the ticket of the holder, and a commit adds the holder's version.    *)
Store == INSTANCE FencedStore WITH holder <- srcOwner
StoreSpec == Store!Spec
=============================================================================
