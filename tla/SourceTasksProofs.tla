------------------------- MODULE SourceTasksProofs -------------------------
(***************************************************************************)
(* For any number of jobs, sources, workers and attempts, any lease length *)
(* and any bound on how stale a clock reading may be: the state of         *)
(* SourceTasks is well typed, at most one unexpired lease exists per       *)
(* source, and persistence implements FencedStore, so that a source never  *)
(* has two versions in force.                                              *)
(***************************************************************************)
EXTENDS SourceTasks, FiniteSetTheorems, TLAPS

(* A worker that is not idle holds a token of its own for a claimed task.  *)
Busy(w) == pc[w] # "idle"

WorkersInv ==
    /\ \A w \in Worker : Busy(w) =>
          /\ task[w] \in Task
          /\ token[w] # 0
          /\ token[w] <= issued
          /\ attempt[task[w]] # 0
    /\ \A v, w \in Worker :
          Busy(v) /\ Busy(w) /\ token[v] = token[w] => v = w
    /\ \A w \in Worker : beat[w] = "on" => Busy(w)

(* The source row is where the fence stands.  A worker inside its          *)
(* persistence transaction holds the row lock, so no claim has replaced    *)
(* its token; and as long as its token stands, nobody else has committed,  *)
(* so the version it read at the start is still the latest.                *)
FenceInv ==
    /\ \A s \in Source : srcOwner[s] <= issued /\ inForce[s] \subseteq {latest[s]}
    /\ \A w \in Worker :
          /\ pc[w] = "idle" => prev[w] = Unread
          /\ pc[w] \in {"entering", "staged", "persisting", "exiting"}
                => prev[w] # Unread
          /\ pc[w] = "persisting" =>
                /\ rowLock[Src(w)] = w
                /\ srcOwner[Src(w)] = token[w]
                /\ prev[w] \in Nat
          /\ (Busy(w) /\ prev[w] \in Nat /\ srcOwner[Src(w)] = token[w])
                => prev[w] = latest[Src(w)]

(* A running task whose token is not on the source row has an expired      *)
(* lease; one whose token is there expires no later than the source row.   *)
LeaseInv ==
    /\ \A t \in Task : owner[t] <= issued
    /\ \A t \in Task : status[t] = "running" =>
          /\ owner[t] # 0
          /\ owner[t] = srcOwner[SourceOf[t]] => lease[t] <= srcLease[SourceOf[t]]
          /\ owner[t] # srcOwner[SourceOf[t]] => lease[t] <= 0
    /\ \A t, u \in Task :
          status[t] = "running" /\ status[u] = "running" /\ owner[t] = owner[u]
             => t = u

IInv == TypeOK /\ WorkersInv /\ FenceInv /\ LeaseInv

-----------------------------------------------------------------------------
LEMMA TypeInit == Init => TypeOK
BY ConstantsAssumption DEF ConstantsAssumption, Init, TypeOK, RowsOK,
   SourcesOK, DataOK, ThreadsOK, ClocksOK, Past, Unread, Terminal

Pcs == {"idle", "claimed", "work", "entering", "staged",
        "persisting", "exiting", "finishing"}

(* What the three operators shared by the actions do to the typed state.   *)
LEMMA GotoTyped ==
    ASSUME TypeOK, NEW w \in Worker, NEW p \in Pcs, Goto(w, p)
    PROVE  pc' \in [Worker -> Pcs] /\ lag' \in [Worker -> 0..MaxLag]
<1>1. 0 \in 0..MaxLag
  BY ConstantsAssumption DEF ConstantsAssumption
<1>2. pc \in [Worker -> Pcs] /\ lag \in [Worker -> 0..MaxLag]
  BY DEF TypeOK, ThreadsOK, ClocksOK, Pcs
<1> QED
  BY <1>1, <1>2 DEF Goto

LEMMA RaiseTyped ==
    ASSUME TypeOK, NEW w \in Worker, Raise(w)
    PROVE  TypeOK'
<1>1. 0 \in 0..MaxLag
  BY ConstantsAssumption DEF ConstantsAssumption
<1>2. pc' \in [Worker -> Pcs] /\ lag' \in [Worker -> 0..MaxLag]
  BY GotoTyped DEF Raise, Pcs
<1>3. ThreadsOK'
  BY <1>2 DEF Raise, TypeOK, ThreadsOK, Pcs
<1>4. ClocksOK'
  BY <1>1, <1>2 DEF Raise, TypeOK, ClocksOK
<1> QED
  BY <1>3, <1>4 DEF Raise, TypeOK, RowsOK, SourcesOK, DataOK,
     taskVars, srcVars, dataVars

LEMMA LeaveTyped ==
    ASSUME TypeOK, NEW w \in Worker, Leave(w)
    PROVE  ThreadsOK' /\ ClocksOK'
<1>1. 0 \in 0..MaxLag /\ 1 \in 1..MaxAttempts
  BY ConstantsAssumption DEF ConstantsAssumption
<1>2. pc' \in [Worker -> Pcs] /\ lag' \in [Worker -> 0..MaxLag]
  BY GotoTyped DEF Leave, Pcs
<1>3. task' \in [Worker -> Task \cup {NoTask}]
  BY DEF Leave, TypeOK, ThreadsOK
<1>4. token' \in [Worker -> Nat] /\ att' \in [Worker -> 1..MaxAttempts]
  BY <1>1 DEF Leave, TypeOK, ThreadsOK
<1>5. prev' \in [Worker -> Nat \cup {Unread, Done}] /\ err' \in [Worker -> BOOLEAN]
  BY DEF Leave, TypeOK, ThreadsOK
<1>6. ThreadsOK'
  BY <1>2, <1>3, <1>4, <1>5 DEF ThreadsOK, Pcs
<1>7. ClocksOK'
  BY <1>1, <1>2 DEF Leave, TypeOK, ClocksOK
<1> QED
  BY <1>6, <1>7

LEMMA ExtendTyped ==
    ASSUME TypeOK, NEW w \in Worker, NEW l \in Int, Extend(w, l),
           UNCHANGED rowLock
    PROVE  RowsOK' /\ SourcesOK'
<1>1. Lease - l \in Int
  BY ConstantsAssumption DEF ConstantsAssumption
<1> QED
  BY <1>1 DEF Extend, TypeOK, RowsOK, SourcesOK

LEMMA TypeStep ==
    ASSUME TypeOK, WorkersInv, [Next]_vars
    PROVE  TypeOK'
<1>1. ASSUME NEW w \in Worker, NEW t \in Task, Claim(w, t) PROVE TypeOK'
  <2>1. SourceOf[t] \in Source /\ Past \in Int /\ issued + 1 \in Nat
    BY ConstantsAssumption DEF ConstantsAssumption, Past, TypeOK, DataOK
  <2>2. PICK l \in 0..MaxLag :
          /\ lease' = [lease EXCEPT ![t] = Lease - l]
          /\ srcLease' = [srcLease EXCEPT ![SourceOf[t]] = Lease - l]
    BY <1>1 DEF Claim
  <2>3. Lease - l \in Int
    BY ConstantsAssumption DEF ConstantsAssumption
  <2>4. attempt' \in [Task -> 0..MaxAttempts]
    BY <1>1, ConstantsAssumption
    DEF ConstantsAssumption, Claim, Claimable, TypeOK, RowsOK
  <2>5. status' \in [Task -> {"queued", "retrying", "running"} \cup Terminal]
    BY <1>1 DEF Claim, TypeOK, RowsOK
  <2>6. owner' \in [Task -> Nat] /\ wait' \in [Task -> Int]
    BY <1>1, <2>1 DEF Claim, TypeOK, RowsOK
  <2>7. lease' \in [Task -> Int] /\ srcLease' \in [Source -> Int]
    BY <2>2, <2>3 DEF TypeOK, RowsOK, SourcesOK
  <2>8. SourcesOK'
    BY <1>1, <2>1, <2>7 DEF Claim, TypeOK, SourcesOK
  <2>9. DataOK'
    BY <1>1, <2>1 DEF Claim, dataVars, TypeOK, DataOK
  <2>10. pc' \in [Worker -> Pcs] /\ lag' \in [Worker -> 0..MaxLag]
    BY <1>1, GotoTyped DEF Claim, Pcs
  <2>11. ThreadsOK'
    BY <1>1, <2>1, <2>10 DEF Claim, TypeOK, ThreadsOK, Pcs
  <2>12. ClocksOK'
    BY <1>1, <2>10 DEF Claim, TypeOK, ClocksOK
  <2> QED
    BY <2>4, <2>5, <2>6, <2>7, <2>8, <2>9, <2>11, <2>12 DEF TypeOK, RowsOK
<1>2. ASSUME NEW w \in Worker, Begin(w) PROVE TypeOK'
  <2>1. task[w] \in Task /\ attempt[task[w]] \in 1..MaxAttempts
    BY <1>2, ConstantsAssumption
    DEF ConstantsAssumption, Begin, WorkersInv, Busy, TypeOK, RowsOK
  <2>2. RowsOK' /\ SourcesOK'
    BY <1>2, ExtendTyped DEF Begin, TypeOK, ClocksOK
  <2>3. pc' \in [Worker -> Pcs] /\ lag' \in [Worker -> 0..MaxLag]
    BY <1>2, GotoTyped DEF Begin, Pcs
  <2>4. ThreadsOK'
    BY <1>2, <2>1, <2>3 DEF Begin, TypeOK, ThreadsOK, Pcs
  <2>5. ClocksOK'
    BY <1>2, <2>3 DEF Begin, TypeOK, ClocksOK
  <2> QED
    BY <1>2, <2>2, <2>4, <2>5 DEF Begin, TypeOK, DataOK, dataVars
<1>3. ASSUME NEW w \in Worker, ReadPrevious(w) PROVE TypeOK'
  <2>1. pc' \in [Worker -> Pcs] /\ lag' \in [Worker -> 0..MaxLag]
    BY <1>3, GotoTyped DEF ReadPrevious, Pcs
  <2>2. Src(w) \in Source
    BY <1>3, ConstantsAssumption
    DEF ConstantsAssumption, ReadPrevious, Src, WorkersInv, Busy
  <2>3. prev' \in [Worker -> Nat \cup {Unread, Done}]
    BY <1>3, <2>2 DEF ReadPrevious, TypeOK, DataOK, ThreadsOK
  <2>4. ThreadsOK'
    BY <1>3, <2>1, <2>3 DEF ReadPrevious, TypeOK, ThreadsOK, Pcs
  <2>5. ClocksOK'
    BY <1>3, <2>1 DEF ReadPrevious, TypeOK, ClocksOK
  <2> QED
    BY <1>3, <2>4, <2>5 DEF ReadPrevious, TypeOK, RowsOK, SourcesOK, DataOK,
       taskVars, srcVars, dataVars
<1>4. ASSUME NEW w \in Worker, EnterStage(w) PROVE TypeOK'
  <2>1. pc' \in [Worker -> Pcs] /\ lag' \in [Worker -> 0..MaxLag]
    BY <1>4, GotoTyped DEF EnterStage, Pcs
  <2>2. ThreadsOK'
    BY <1>4, <2>1 DEF EnterStage, TypeOK, ThreadsOK, Pcs
  <2>3. ClocksOK'
    BY <1>4, <2>1 DEF EnterStage, TypeOK, ClocksOK
  <2> QED
    BY <1>4, <2>2, <2>3 DEF EnterStage, TypeOK, RowsOK, SourcesOK, DataOK,
       taskVars, srcVars, dataVars
<1>5. ASSUME NEW w \in Worker, InsertStep(w) PROVE TypeOK'
  <2>1. pc' \in [Worker -> Pcs] /\ lag' \in [Worker -> 0..MaxLag]
    BY <1>5, GotoTyped DEF InsertStep, Pcs
  <2>2. ThreadsOK'
    BY <1>5, <2>1 DEF InsertStep, TypeOK, ThreadsOK, Pcs
  <2>3. ClocksOK'
    BY <1>5, <2>1 DEF InsertStep, TypeOK, ClocksOK
  <2>4. DataOK'
    <3>1. steps' \in [Task -> [1..MaxAttempts ->
                  {"none", "running", "closed", "interrupted"}]]
      BY <1>5 DEF InsertStep, TypeOK, DataOK, ThreadsOK
    <3> QED
      BY <1>5, <3>1 DEF InsertStep, dataVars, TypeOK, DataOK
  <2> QED
    BY <1>5, <2>2, <2>3, <2>4 DEF InsertStep, TypeOK, RowsOK, SourcesOK,
       taskVars, srcVars, dataVars
<1>6. ASSUME NEW w \in Worker, OpenPersist(w) PROVE TypeOK'
  <2>1. pc' \in [Worker -> Pcs] /\ lag' \in [Worker -> 0..MaxLag]
    BY <1>6, GotoTyped DEF OpenPersist, Pcs
  <2>2. ThreadsOK'
    BY <1>6, <2>1 DEF OpenPersist, TypeOK, ThreadsOK, Pcs
  <2>3. ClocksOK'
    BY <1>6, <2>1 DEF OpenPersist, TypeOK, ClocksOK
  <2>4. SourcesOK'
    BY <1>6 DEF OpenPersist, LockRows, TypeOK, SourcesOK, srcVars
  <2> QED
    BY <1>6, <2>2, <2>3, <2>4 DEF OpenPersist, TypeOK, RowsOK, DataOK,
       taskVars, srcVars, dataVars
<1>7. ASSUME NEW w \in Worker, CommitPersist(w) PROVE TypeOK'
  <2>1. pc' \in [Worker -> Pcs] /\ lag' \in [Worker -> 0..MaxLag]
    BY <1>7, GotoTyped DEF CommitPersist, Pcs
  <2>2. ThreadsOK'
    BY <1>7, <2>1 DEF CommitPersist, TypeOK, ThreadsOK, Pcs
  <2>3. ClocksOK'
    BY <1>7, <2>1 DEF CommitPersist, TypeOK, ClocksOK
  <2>4. SourcesOK'
    BY <1>7 DEF CommitPersist, Src, TypeOK, SourcesOK, srcVars
  <2>5. DataOK'
    <3>1. token[w] \in Nat
      BY DEF TypeOK, ThreadsOK
    <3>2. latest' \in [Source -> Nat] /\ inForce' \in [Source -> SUBSET Nat]
      BY <1>7, <3>1 DEF CommitPersist, TypeOK, DataOK
    <3> QED
      BY <1>7, <3>2 DEF CommitPersist, TypeOK, DataOK
  <2> QED
    BY <1>7, <2>2, <2>3, <2>4, <2>5 DEF CommitPersist, TypeOK, RowsOK,
       taskVars, srcVars, dataVars
<1>8. ASSUME NEW w \in Worker, AbortPersist(w) PROVE TypeOK'
  <2>1. pc' \in [Worker -> Pcs] /\ lag' \in [Worker -> 0..MaxLag]
    BY <1>8, GotoTyped DEF AbortPersist, Pcs
  <2>2. ThreadsOK'
    BY <1>8, <2>1 DEF AbortPersist, TypeOK, ThreadsOK, Pcs
  <2>3. ClocksOK'
    BY <1>8, <2>1 DEF AbortPersist, TypeOK, ClocksOK
  <2>4. SourcesOK'
    BY <1>8 DEF AbortPersist, Src, TypeOK, SourcesOK, srcVars
  <2> QED
    BY <1>8, <2>2, <2>3, <2>4 DEF AbortPersist, TypeOK, RowsOK, DataOK,
       taskVars, srcVars, dataVars
<1>9. ASSUME NEW w \in Worker, FailStage(w) PROVE TypeOK'
  <2>1. pc' \in [Worker -> Pcs] /\ lag' \in [Worker -> 0..MaxLag]
    BY <1>9, GotoTyped DEF FailStage, Pcs
  <2>2. ThreadsOK'
    BY <1>9, <2>1 DEF FailStage, TypeOK, ThreadsOK, Pcs
  <2>3. ClocksOK'
    BY <1>9, <2>1 DEF FailStage, TypeOK, ClocksOK
  <2> QED
    BY <1>9, <2>2, <2>3 DEF FailStage, TypeOK, RowsOK, SourcesOK, DataOK,
       taskVars, srcVars, dataVars
<1>10. ASSUME NEW w \in Worker, ExitStage(w) PROVE TypeOK'
  <2>1. pc' \in [Worker -> Pcs] /\ lag' \in [Worker -> 0..MaxLag]
    BY <1>10, GotoTyped DEF ExitStage, Pcs
  <2>2. ThreadsOK'
    BY <1>10, <2>1 DEF ExitStage, TypeOK, ThreadsOK, Pcs
  <2>3. ClocksOK'
    BY <1>10, <2>1 DEF ExitStage, TypeOK, ClocksOK
  <2> QED
    BY <1>10, <2>2, <2>3 DEF ExitStage, TypeOK, RowsOK, SourcesOK, DataOK,
       taskVars, srcVars, dataVars
<1>11. ASSUME NEW w \in Worker, CloseStep(w) PROVE TypeOK'
  <2>1. pc' \in [Worker -> Pcs] /\ lag' \in [Worker -> 0..MaxLag]
    BY <1>11, GotoTyped DEF CloseStep, Pcs
  <2>2. ThreadsOK'
    BY <1>11, <2>1 DEF CloseStep, TypeOK, ThreadsOK, Pcs
  <2>3. ClocksOK'
    BY <1>11, <2>1 DEF CloseStep, TypeOK, ClocksOK
  <2>4. DataOK'
    <3>1. steps' \in [Task -> [1..MaxAttempts ->
                  {"none", "running", "closed", "interrupted"}]]
      BY <1>11 DEF CloseStep, Closed, TypeOK, DataOK, ThreadsOK
    <3> QED
      BY <1>11, <3>1 DEF CloseStep, dataVars, TypeOK, DataOK
  <2> QED
    BY <1>11, <2>2, <2>3, <2>4 DEF CloseStep, TypeOK, RowsOK, SourcesOK,
       taskVars, srcVars, dataVars
<1>12. ASSUME NEW w \in Worker, LoseLease(w) PROVE TypeOK'
  BY <1>12, RaiseTyped DEF LoseLease
<1>13. ASSUME NEW w \in Worker, Fail(w) PROVE TypeOK'
  BY <1>13, RaiseTyped DEF Fail
<1>14. ASSUME NEW w \in Worker, Return(w) PROVE TypeOK'
  <2>1. pc' \in [Worker -> Pcs] /\ lag' \in [Worker -> 0..MaxLag]
    BY <1>14, GotoTyped DEF Return, Pcs
  <2>2. ThreadsOK'
    BY <1>14, <2>1 DEF Return, TypeOK, ThreadsOK, Pcs
  <2>3. ClocksOK'
    <3>1. 0 \in 0..MaxLag
      BY ConstantsAssumption DEF ConstantsAssumption
    <3> QED
      BY <1>14, <2>1, <3>1 DEF Return, TypeOK, ClocksOK
  <2> QED
    BY <1>14, <2>2, <2>3 DEF Return, TypeOK, RowsOK, SourcesOK, DataOK,
       taskVars, srcVars, dataVars
<1>15. ASSUME NEW w \in Worker, NEW outcome \in Terminal, Finish(w, outcome)
       PROVE  TypeOK'
  <2>1. task[w] \in Task /\ attempt[task[w]] \in 1..MaxAttempts
    BY <1>15, ConstantsAssumption
    DEF ConstantsAssumption, Finish, WorkersInv, Busy, TypeOK, RowsOK
  <2>2. Past \in Int /\ Backoff[attempt[task[w]]] \in Int
    BY <2>1, ConstantsAssumption DEF ConstantsAssumption, Past
  <2>3. wait' \in [Task -> Int]
    <3>1. PICK l \in 0..lag[w] :
            wait' = [wait EXCEPT ![task[w]] =
                        IF Recorded(task[w], outcome) = "retrying"
                        THEN Backoff[attempt[task[w]]] - l ELSE Past]
      BY <1>15 DEF Finish
    <3>2. l \in Int
      BY DEF TypeOK, ClocksOK
    <3>3. Backoff[attempt[task[w]]] - l \in Int
      BY <2>2, <3>2
    <3>4. (IF Recorded(task[w], outcome) = "retrying"
           THEN Backoff[attempt[task[w]]] - l ELSE Past) \in Int
      BY <2>2, <3>3
    <3> QED
      BY <3>1, <3>4 DEF TypeOK, RowsOK
  <2>4. status' \in [Task -> {"queued", "retrying", "running"} \cup Terminal]
    BY <1>15 DEF Finish, Recorded, TypeOK, RowsOK
  <2>5. RowsOK'
    BY <1>15, <2>2, <2>3, <2>4 DEF Finish, TypeOK, RowsOK
  <2>6. SourcesOK'
    BY <1>15, <2>2 DEF Finish, srcVars, TypeOK, SourcesOK
  <2>7. ThreadsOK' /\ ClocksOK'
    BY <1>15, LeaveTyped DEF Finish
  <2> QED
    BY <1>15, <2>5, <2>6, <2>7 DEF Finish, TypeOK, DataOK, dataVars
<1>16. ASSUME NEW w \in Worker, FinishAgain(w) PROVE TypeOK'
  <2>1. pc' \in [Worker -> Pcs] /\ lag' \in [Worker -> 0..MaxLag]
    BY <1>16, GotoTyped DEF FinishAgain, Pcs
  <2>2. ThreadsOK'
    BY <1>16, <2>1 DEF FinishAgain, TypeOK, ThreadsOK, Pcs
  <2>3. ClocksOK'
    BY <1>16, <2>1 DEF FinishAgain, TypeOK, ClocksOK
  <2> QED
    BY <1>16, <2>2, <2>3 DEF FinishAgain, TypeOK, RowsOK, SourcesOK, DataOK,
       taskVars, srcVars, dataVars
<1>17. ASSUME NEW w \in Worker, GiveUp(w) PROVE TypeOK'
  <2>1. ThreadsOK' /\ ClocksOK'
    BY <1>17, LeaveTyped DEF GiveUp
  <2> QED
    BY <1>17, <2>1 DEF GiveUp, TypeOK, RowsOK, SourcesOK, DataOK,
       taskVars, srcVars, dataVars
<1>18. ASSUME NEW w \in Worker, Beat(w) PROVE TypeOK'
  <2>1. 0 \in 0..MaxLag
    BY ConstantsAssumption DEF ConstantsAssumption
  <2>2. RowsOK' /\ SourcesOK'
    <3>1. CASE \E l \in 0..beatLag[w] : Extend(w, l)
      BY <1>18, <3>1, ExtendTyped DEF Beat
    <3>2. CASE UNCHANGED <<taskVars, srcVars>>
      BY <1>18, <3>2 DEF Beat, TypeOK, RowsOK, SourcesOK, taskVars, srcVars
    <3> QED
      BY <1>18, <3>1, <3>2 DEF Beat
  <2>3. ClocksOK'
    BY <1>18, <2>1 DEF Beat, TypeOK, ClocksOK
  <2> QED
    BY <1>18, <2>2, <2>3 DEF Beat, TypeOK, DataOK, ThreadsOK, dataVars, threadVars
<1>19. ASSUME NEW w \in Worker, Crash(w) PROVE TypeOK'
  <2>1. ThreadsOK' /\ ClocksOK'
    BY <1>19, LeaveTyped DEF Crash
  <2>2. SourcesOK'
    BY <1>19 DEF Crash, srcVars, TypeOK, SourcesOK
  <2> QED
    BY <1>19, <2>1, <2>2 DEF Crash, TypeOK, RowsOK, DataOK, taskVars, dataVars
<1>20. ASSUME Tick PROVE TypeOK'
  <2>1. \A left \in Int : Down(left) \in Int
    BY ConstantsAssumption DEF ConstantsAssumption, Down, Past
  <2>2. \A age \in 0..MaxLag : Older(age) \in 0..MaxLag /\ 0 \in 0..MaxLag
    BY ConstantsAssumption DEF ConstantsAssumption, Older
  <2>3. RowsOK'
    BY <1>20, <2>1 DEF Tick, TypeOK, RowsOK
  <2>4. SourcesOK'
    BY <1>20, <2>1 DEF Tick, TypeOK, SourcesOK
  <2>5. ClocksOK'
    BY <1>20, <2>2 DEF Tick, TypeOK, ClocksOK
  <2> QED
    BY <1>20, <2>3, <2>4, <2>5
    DEF Tick, TypeOK, DataOK, ThreadsOK, dataVars, threadVars
<1>21. CASE UNCHANGED vars
  BY <1>21 DEF vars, taskVars, srcVars, dataVars, threadVars, clockVars,
     TypeOK, RowsOK, SourcesOK, DataOK, ThreadsOK, ClocksOK
<1> QED
  BY <1>1, <1>2, <1>3, <1>4, <1>5, <1>6, <1>7, <1>8, <1>9, <1>10, <1>11,
     <1>12, <1>13, <1>14, <1>15, <1>16, <1>17, <1>18, <1>19, <1>20, <1>21
  DEF Next, MainThread

-----------------------------------------------------------------------------
LEMMA WorkersInit == Init => WorkersInv
BY DEF Init, WorkersInv, Busy

(* Claims hand out a token larger than every token before; nothing else    *)
(* gives a worker a token, and attempts only grow.                         *)
LEMMA WorkersStep ==
    ASSUME TypeOK, WorkersInv, [Next]_vars
    PROVE  WorkersInv'
<1> USE DEF WorkersInv, Busy
<1>1. ASSUME NEW w \in Worker, NEW t \in Task, Claim(w, t) PROVE WorkersInv'
  <2>1. /\ issued \in Nat /\ issued' = issued + 1
        /\ task' = [task EXCEPT ![w] = t]
        /\ token' = [token EXCEPT ![w] = issued + 1]
        /\ pc' = [pc EXCEPT ![w] = "claimed"]
        /\ attempt' = [attempt EXCEPT ![t] = attempt[t] + 1]
        /\ attempt \in [Task -> Nat]
        /\ token \in [Worker -> Nat]
        /\ task \in [Worker -> Task \cup {NoTask}]
        /\ pc \in [Worker -> Pcs]
        /\ UNCHANGED beat
    BY <1>1, ConstantsAssumption
    DEF ConstantsAssumption, Claim, Goto, TypeOK, RowsOK, DataOK, ThreadsOK, Pcs
  <2>2. \A v \in Worker \ {w} :
          /\ pc'[v] = pc[v] /\ task'[v] = task[v] /\ token'[v] = token[v]
    BY <2>1
  <2>3. task'[w] = t /\ token'[w] = issued + 1
    BY <2>1
  <2>4. \A u \in Task : attempt[u] # 0 => attempt'[u] # 0
    BY <2>1
  <2>5. attempt'[t] # 0
    BY <2>1
  <2> QED
    BY <2>1, <2>2, <2>3, <2>4, <2>5
<1>2. ASSUME NEW w \in Worker, MainThread(w) PROVE WorkersInv'
  <2> USE <1>2 DEF Goto, Leave, Raise, taskVars, TypeOK, ThreadsOK, RowsOK,
                   DataOK, ClocksOK
  <2>1. CASE Begin(w)
    BY <2>1 DEF Begin, Extend
  <2>2. CASE ReadPrevious(w)
    BY <2>2 DEF ReadPrevious
  <2>3. CASE EnterStage(w)
    BY <2>3 DEF EnterStage
  <2>4. CASE InsertStep(w)
    BY <2>4 DEF InsertStep
  <2>5. CASE OpenPersist(w)
    BY <2>5 DEF OpenPersist
  <2>6. CASE CommitPersist(w)
    BY <2>6 DEF CommitPersist
  <2>7. CASE AbortPersist(w)
    BY <2>7 DEF AbortPersist
  <2>8. CASE FailStage(w)
    BY <2>8 DEF FailStage
  <2>9. CASE ExitStage(w)
    BY <2>9 DEF ExitStage
  <2>10. CASE CloseStep(w)
    BY <2>10 DEF CloseStep
  <2>11. CASE LoseLease(w)
    BY <2>11 DEF LoseLease
  <2>12. CASE Fail(w)
    BY <2>12 DEF Fail
  <2>13. CASE Return(w)
    BY <2>13 DEF Return
  <2>14. ASSUME NEW outcome \in Terminal, Finish(w, outcome) PROVE WorkersInv'
    BY <2>14 DEF Finish
  <2>15. CASE FinishAgain(w)
    BY <2>15 DEF FinishAgain
  <2>16. CASE GiveUp(w)
    BY <2>16 DEF GiveUp
  <2> QED
    BY <2>1, <2>2, <2>3, <2>4, <2>5, <2>6, <2>7, <2>8, <2>9, <2>10, <2>11,
       <2>12, <2>13, <2>14, <2>15, <2>16 DEF MainThread
<1>3. ASSUME NEW w \in Worker, Beat(w) PROVE WorkersInv'
  BY <1>3 DEF Beat, Extend, taskVars, threadVars, TypeOK, ClocksOK
<1>4. ASSUME NEW w \in Worker, Crash(w) PROVE WorkersInv'
  BY <1>4 DEF Crash, Leave, Goto, taskVars, TypeOK, ThreadsOK, ClocksOK
<1>5. ASSUME Tick PROVE WorkersInv'
  BY <1>5 DEF Tick, threadVars
<1>6. CASE UNCHANGED vars
  BY <1>6 DEF vars, taskVars, threadVars
<1> QED
  BY <1>1, <1>2, <1>3, <1>4, <1>5, <1>6 DEF Next

-----------------------------------------------------------------------------
LEMMA FenceInit == Init => FenceInv
BY DEF Init, FenceInv, Busy, Unread

(* Claims and finishes leave a locked source alone, so a transaction that  *)
(* passed its check commits with its token still on the source row.        *)
LEMMA FenceStep ==
    ASSUME TypeOK, WorkersInv, FenceInv, [Next]_vars
    PROVE  FenceInv'
<1> USE DEF FenceInv, Busy, Src
<1>1. ASSUME NEW w \in Worker, NEW t \in Task, Claim(w, t) PROVE FenceInv'
  <2>1. /\ issued \in Nat /\ issued' = issued + 1
        /\ task' = [task EXCEPT ![w] = t]
        /\ token' = [token EXCEPT ![w] = issued + 1]
        /\ pc' = [pc EXCEPT ![w] = "claimed"]
        /\ srcOwner' = [srcOwner EXCEPT ![SourceOf[t]] = issued + 1]
        /\ pc[w] = "idle"
        /\ rowLock[SourceOf[t]] = NoWorker
        /\ UNCHANGED <<prev, latest, inForce, rowLock>>
    BY <1>1 DEF Claim, Goto, TypeOK, DataOK, dataVars
  <2>2. /\ srcOwner \in [Source -> Nat]
        /\ token \in [Worker -> Nat]
        /\ task \in [Worker -> Task \cup {NoTask}]
        /\ pc \in [Worker -> Pcs]
        /\ SourceOf[t] \in Source
        /\ NoWorker \notin Worker
    BY ConstantsAssumption
    DEF ConstantsAssumption, TypeOK, SourcesOK, ThreadsOK, Pcs
  <2>3. \A s \in Source : srcOwner'[s] <= issued' /\ inForce'[s] \subseteq {latest'[s]}
    BY <2>1, <2>2
  <2>4. ASSUME NEW v \in Worker, v # w
        PROVE  /\ pc'[v] = "idle" => prev'[v] = Unread
               /\ pc'[v] \in {"entering", "staged", "persisting", "exiting"}
                    => prev'[v] # Unread
               /\ pc'[v] = "persisting" =>
                    /\ rowLock'[SourceOf[task'[v]]] = v
                    /\ srcOwner'[SourceOf[task'[v]]] = token'[v]
                    /\ prev'[v] \in Nat
               /\ (pc'[v] # "idle" /\ prev'[v] \in Nat
                     /\ srcOwner'[SourceOf[task'[v]]] = token'[v])
                    => prev'[v] = latest'[SourceOf[task'[v]]]
    <3>1. pc'[v] = pc[v] /\ task'[v] = task[v] /\ token'[v] = token[v]
      BY <2>1, <2>2, <2>4
    <3>2. CASE pc[v] = "idle"
      BY <2>1, <3>1, <3>2
    <3>3. CASE pc[v] # "idle"
      <4>1. SourceOf[task[v]] \in Source /\ token[v] <= issued
        BY <3>3, ConstantsAssumption DEF ConstantsAssumption, WorkersInv
      <4>2. CASE SourceOf[task[v]] = SourceOf[t]
        BY <2>1, <2>2, <3>1, <4>1, <4>2
      <4>3. CASE SourceOf[task[v]] # SourceOf[t]
        BY <2>1, <2>2, <3>1, <4>1, <4>3
      <4> QED
        BY <4>2, <4>3
    <3> QED
      BY <3>2, <3>3
  <2>5. pc'[w] = "claimed" /\ prev'[w] = Unread /\ Unread \notin Nat
    BY <2>1, <2>2 DEF Unread
  <2> QED
    BY <2>3, <2>4, <2>5
<1>2. ASSUME NEW w \in Worker, MainThread(w) PROVE FenceInv'
  <2> USE <1>2 DEF Goto, Raise, WorkersInv, taskVars, srcVars, dataVars,
                   TypeOK, ThreadsOK
  <2>1. CASE Begin(w)
    BY <2>1 DEF Begin, Extend
  <2>2. CASE ReadPrevious(w)
    BY <2>2 DEF ReadPrevious, DataOK, Unread
  <2>3. CASE EnterStage(w)
    BY <2>3 DEF EnterStage, Unread
  <2>4. CASE InsertStep(w)
    BY <2>4 DEF InsertStep
  <2>5. CASE OpenPersist(w)
    BY <2>5, ConstantsAssumption
    DEF ConstantsAssumption, OpenPersist, LockRows, CheckPasses, Owns,
        SourceHeld, SourcesOK
  <2>6. CASE CommitPersist(w)
    BY <2>6, ConstantsAssumption
    DEF ConstantsAssumption, CommitPersist, Unread, Done, SourcesOK, DataOK
  <2>7. CASE AbortPersist(w)
    BY <2>7, ConstantsAssumption
    DEF ConstantsAssumption, AbortPersist, SourcesOK
  <2>8. CASE FailStage(w)
    BY <2>8 DEF FailStage
  <2>9. CASE ExitStage(w)
    BY <2>9 DEF ExitStage
  <2>10. CASE CloseStep(w)
    BY <2>10 DEF CloseStep, Done, Unread
  <2>11. CASE LoseLease(w)
    BY <2>11 DEF LoseLease
  <2>12. CASE Fail(w)
    BY <2>12 DEF Fail
  <2>13. CASE Return(w)
    BY <2>13 DEF Return
  <2>14. ASSUME NEW outcome \in Terminal, Finish(w, outcome) PROVE FenceInv'
    <3>1. /\ rowLock[SourceOf[task[w]]] = NoWorker
          /\ UNCHANGED <<rowLock, latest, inForce, issued>>
          /\ \A v \in Worker \ {w} :
                /\ pc'[v] = pc[v] /\ task'[v] = task[v]
                /\ token'[v] = token[v] /\ prev'[v] = prev[v]
          /\ pc'[w] = "idle" /\ prev'[w] = Unread
      BY <2>14 DEF Finish, Leave
    <3>2. \A s \in Source :
            \/ srcOwner'[s] = srcOwner[s]
            \/ s = SourceOf[task[w]] /\ srcOwner'[s] = 0
      BY <2>14 DEF Finish, SourcesOK
    <3>3. \A v \in Worker : pc[v] # "idle" => SourceOf[task[v]] \in Source
      BY ConstantsAssumption DEF ConstantsAssumption
    <3>4. 0 <= issued /\ Unread \notin Nat /\ NoWorker \notin Worker
      BY ConstantsAssumption DEF ConstantsAssumption, DataOK, Unread
    <3> QED
      BY <3>1, <3>2, <3>3, <3>4
  <2>15. CASE FinishAgain(w)
    BY <2>15 DEF FinishAgain
  <2>16. CASE GiveUp(w)
    BY <2>16 DEF GiveUp, Leave, Unread
  <2> QED
    BY <2>1, <2>2, <2>3, <2>4, <2>5, <2>6, <2>7, <2>8, <2>9, <2>10, <2>11,
       <2>12, <2>13, <2>14, <2>15, <2>16 DEF MainThread
<1>3. ASSUME NEW w \in Worker, Beat(w) PROVE FenceInv'
  BY <1>3 DEF Beat, Extend, srcVars, dataVars, threadVars
<1>4. ASSUME NEW w \in Worker, Crash(w) PROVE FenceInv'
  BY <1>4, ConstantsAssumption
  DEF ConstantsAssumption, Crash, Leave, Goto, Unread, taskVars, srcVars,
      dataVars, TypeOK, ThreadsOK, WorkersInv
<1>5. ASSUME Tick PROVE FenceInv'
  BY <1>5 DEF Tick, dataVars, threadVars
<1>6. CASE UNCHANGED vars
  BY <1>6 DEF vars, srcVars, dataVars, threadVars
<1> QED
  BY <1>1, <1>2, <1>3, <1>4, <1>5, <1>6 DEF Next

-----------------------------------------------------------------------------
LEMMA LeaseInit == Init => LeaseInv
BY DEF Init, LeaseInv

(* Claiming needs the source's lease past, hence every lease on the source *)
(* past; renewing needs the token on both rows.  A clock reading that is l *)
(* ticks old only makes the granted lease l ticks shorter.                 *)
LEMMA LeaseStep ==
    ASSUME TypeOK, WorkersInv, LeaseInv, [Next]_vars
    PROVE  LeaseInv'
<1> USE DEF LeaseInv
<1>1. ASSUME NEW w \in Worker, NEW t \in Task, Claim(w, t) PROVE LeaseInv'
  <2>1. PICK l \in 0..MaxLag :
          /\ Claimable(t, l)
          /\ srcLease[SourceOf[t]] + l <= 0
          /\ lease' = [lease EXCEPT ![t] = Lease - l]
          /\ srcLease' = [srcLease EXCEPT ![SourceOf[t]] = Lease - l]
    BY <1>1 DEF Claim
  <2>2. /\ issued' = issued + 1
        /\ status' = [status EXCEPT ![t] = "running"]
        /\ owner' = [owner EXCEPT ![t] = issued + 1]
        /\ srcOwner' = [srcOwner EXCEPT ![SourceOf[t]] = issued + 1]
    BY <1>1 DEF Claim
  <2>3. /\ issued \in Nat
        /\ owner \in [Task -> Nat] /\ lease \in [Task -> Int]
        /\ srcOwner \in [Source -> Nat] /\ srcLease \in [Source -> Int]
        /\ status \in [Task -> {"queued", "retrying", "running"} \cup Terminal]
        /\ SourceOf \in [Task -> Source]
        /\ Lease \in Nat /\ l \in Nat
    BY ConstantsAssumption
    DEF ConstantsAssumption, TypeOK, RowsOK, SourcesOK, DataOK
  <2>4. \A u \in Task \ {t} :
          owner'[u] = owner[u] /\ lease'[u] = lease[u] /\ status'[u] = status[u]
    BY <2>1, <2>2, <2>3
  <2>5. /\ status'[t] = "running" /\ owner'[t] = issued + 1
        /\ lease'[t] = Lease - l
        /\ srcOwner'[SourceOf[t]] = issued + 1
        /\ srcLease'[SourceOf[t]] = Lease - l
    BY <2>1, <2>2, <2>3
  <2>6. \A s \in Source \ {SourceOf[t]} :
          srcOwner'[s] = srcOwner[s] /\ srcLease'[s] = srcLease[s]
    BY <2>1, <2>2, <2>3
  <2>7. \A u \in Task \ {t} :
          status[u] = "running" /\ SourceOf[u] = SourceOf[t] => lease[u] <= 0
    BY <2>1, <2>3
  <2>8. \A u \in Task : owner'[u] <= issued'
    BY <2>2, <2>3, <2>4, <2>5
  <2>9. ASSUME NEW u \in Task, status'[u] = "running"
        PROVE  /\ owner'[u] # 0
               /\ owner'[u] = srcOwner'[SourceOf[u]]
                    => lease'[u] <= srcLease'[SourceOf[u]]
               /\ owner'[u] # srcOwner'[SourceOf[u]] => lease'[u] <= 0
    <3>1. CASE u = t
      BY <2>3, <2>5, <3>1
    <3>2. CASE u # t /\ SourceOf[u] = SourceOf[t]
      BY <2>3, <2>4, <2>5, <2>7, <2>9, <3>2
    <3>3. CASE u # t /\ SourceOf[u] # SourceOf[t]
      BY <2>3, <2>4, <2>6, <2>9, <3>3
    <3> QED
      BY <3>1, <3>2, <3>3
  <2>10. \A u, v \in Task : status'[u] = "running" /\ status'[v] = "running"
                              /\ owner'[u] = owner'[v] => u = v
    BY <2>3, <2>4, <2>5
  <2> QED
    BY <2>8, <2>9, <2>10
<1>2. ASSUME NEW w \in Worker, NEW l \in Int, Busy(w), Extend(w, l),
             UNCHANGED issued
      PROVE  LeaseInv'
  <2>1. task[w] \in Task /\ SourceOf[task[w]] \in Source
    BY <1>2, ConstantsAssumption DEF ConstantsAssumption, WorkersInv
  <2>2. /\ UNCHANGED <<status, owner, srcOwner, issued>>
        /\ owner[task[w]] = token[w] /\ status[task[w]] = "running"
        /\ srcOwner[SourceOf[task[w]]] = token[w]
        /\ lease'[task[w]] = Lease - l
        /\ srcLease'[SourceOf[task[w]]] = Lease - l
        /\ \A u \in Task \ {task[w]} : lease'[u] = lease[u]
        /\ \A s \in Source \ {SourceOf[task[w]]} : srcLease'[s] = srcLease[s]
    BY <1>2, <2>1
    DEF Extend, Owns, TaskHeld, SourceHeld, Src, TypeOK, RowsOK, SourcesOK
  <2>3. Lease - l \in Int /\ \A u \in Task : SourceOf[u] \in Source
    BY ConstantsAssumption DEF ConstantsAssumption
  <2>4. ASSUME NEW u \in Task, status'[u] = "running"
        PROVE  /\ owner'[u] # 0
               /\ owner'[u] = srcOwner'[SourceOf[u]]
                    => lease'[u] <= srcLease'[SourceOf[u]]
               /\ owner'[u] # srcOwner'[SourceOf[u]] => lease'[u] <= 0
    <3>1. CASE u = task[w]
      BY <2>1, <2>2, <2>3, <2>4, <3>1
    <3>2. CASE u # task[w] /\ SourceOf[u] = SourceOf[task[w]]
      BY <2>1, <2>2, <2>4, <3>2
    <3>3. CASE u # task[w] /\ SourceOf[u] # SourceOf[task[w]]
      BY <2>2, <2>3, <2>4, <3>3
    <3> QED
      BY <3>1, <3>2, <3>3
  <2> QED
    BY <2>2, <2>4
<1>3. ASSUME NEW w \in Worker, NEW outcome \in Terminal, Finish(w, outcome)
      PROVE  LeaseInv'
  <2>1. task[w] \in Task /\ SourceOf[task[w]] \in Source /\ token[w] # 0
    BY <1>3, ConstantsAssumption DEF ConstantsAssumption, Finish, WorkersInv, Busy
  <2>2. /\ status[task[w]] = "running" /\ owner[task[w]] = token[w]
        /\ status'[task[w]] # "running"
        /\ owner'[task[w]] = 0
        /\ \A u \in Task \ {task[w]} :
             status'[u] = status[u] /\ owner'[u] = owner[u] /\ lease'[u] = lease[u]
        /\ UNCHANGED issued
    BY <1>3, <2>1
    DEF Finish, TaskHeld, Recorded, Terminal, TypeOK, RowsOK
  <2>3. \/ UNCHANGED <<srcOwner, srcLease>>
        \/ /\ srcOwner[SourceOf[task[w]]] = token[w]
           /\ srcOwner'[SourceOf[task[w]]] = 0
           /\ \A s \in Source \ {SourceOf[task[w]]} :
                srcOwner'[s] = srcOwner[s] /\ srcLease'[s] = srcLease[s]
    BY <1>3, <2>1 DEF Finish, Src, srcVars, TypeOK, SourcesOK
  <2>4. issued \in Nat /\ \A u \in Task : SourceOf[u] \in Source
    BY ConstantsAssumption DEF ConstantsAssumption, TypeOK, DataOK
  <2>5. ASSUME NEW u \in Task, status'[u] = "running"
        PROVE  /\ owner'[u] # 0
               /\ owner'[u] = srcOwner'[SourceOf[u]]
                    => lease'[u] <= srcLease'[SourceOf[u]]
               /\ owner'[u] # srcOwner'[SourceOf[u]] => lease'[u] <= 0
    <3>1. /\ u # task[w] /\ status[u] = "running"
          /\ owner'[u] = owner[u] /\ lease'[u] = lease[u]
          /\ owner[u] # token[w]
      BY <2>1, <2>2, <2>5
    <3>2. CASE UNCHANGED <<srcOwner, srcLease>>
      BY <3>1, <3>2
    <3>3. CASE ~UNCHANGED <<srcOwner, srcLease>>
      <4>1. CASE SourceOf[u] = SourceOf[task[w]]
        BY <2>3, <3>1, <3>3, <4>1
      <4>2. CASE SourceOf[u] # SourceOf[task[w]]
        BY <2>3, <2>4, <3>1, <3>3, <4>2
      <4> QED
        BY <4>1, <4>2
    <3> QED
      BY <3>2, <3>3
  <2> QED
    BY <2>1, <2>2, <2>4, <2>5
<1>4. ASSUME Tick PROVE LeaseInv'
  <2>1. \A a, b \in Int : a <= b => Down(a) <= Down(b)
    BY ConstantsAssumption DEF ConstantsAssumption, Down, Past
  <2>2. \A a \in Int : a <= 0 => Down(a) <= 0
    BY ConstantsAssumption DEF ConstantsAssumption, Down, Past
  <2> QED
    BY <1>4, <2>1, <2>2, ConstantsAssumption
    DEF ConstantsAssumption, Tick, TypeOK, RowsOK, SourcesOK
<1>5. CASE UNCHANGED <<taskVars, srcVars, issued>>
  BY <1>5 DEF taskVars, srcVars
<1>6. ASSUME NEW w \in Worker, Begin(w) PROVE LeaseInv'
  BY <1>2, <1>6 DEF Begin, Busy, TypeOK, ClocksOK
<1>7. ASSUME NEW w \in Worker, Beat(w), Busy(w) PROVE LeaseInv'
  BY <1>2, <1>5, <1>7 DEF Beat
<1>8. ASSUME NEW w \in Worker, MainThread(w) PROVE LeaseInv'
  BY <1>3, <1>5, <1>6, <1>8
  DEF MainThread, ReadPrevious, EnterStage, InsertStep, OpenPersist,
      CommitPersist, AbortPersist, FailStage, ExitStage, CloseStep,
      LoseLease, Fail, Raise, Return, FinishAgain, GiveUp
<1>9. ASSUME NEW w \in Worker, Beat(w) PROVE Busy(w)
  BY <1>9 DEF Beat, WorkersInv
<1> QED
  BY <1>1, <1>4, <1>5, <1>7, <1>8, <1>9 DEF Next, Crash, vars

-----------------------------------------------------------------------------
LEMMA IInvInit == Init => IInv
BY TypeInit, WorkersInit, FenceInit, LeaseInit DEF IInv

LEMMA IInvStep == IInv /\ [Next]_vars => IInv'
BY TypeStep, WorkersStep, FenceStep, LeaseStep DEF IInv

(* The four parts of the strengthened invariant hold in every reachable    *)
(* state of claim_task, heartbeat_task, finish_task and the ingest loop.   *)
THEOREM Invariance == Spec => []IInv
<1>1. Init => IInv
  BY IInvInit
<1>2. IInv /\ [Next]_vars => IInv'
  BY IInvStep
<1> QED
  BY <1>1, <1>2, PTL DEF Spec

(* Every row and every worker stays in the domain the code writes.         *)
THEOREM TypeCorrect == Spec => []TypeOK
<1>1. IInv => TypeOK
  BY DEF IInv
<1> QED
  BY <1>1, Invariance, PTL

(* claim_task and heartbeat_task never let two tasks hold unexpired leases *)
(* on one source, for any lease length and any staleness of the clock.     *)
THEOREM Exclusion == Spec => []SourceExclusive
<1>1. IInv => SourceExclusive
  <2> SUFFICES ASSUME IInv, NEW t \in Task, NEW u \in Task,
                      t # u, SourceOf[t] = SourceOf[u], Live(t), Live(u)
               PROVE  FALSE
    BY DEF SourceExclusive
  <2>1. owner[t] # owner[u]
    BY DEF IInv, LeaseInv, Live
  <2>2. lease[t] \in Int /\ lease[u] \in Int
    BY DEF IInv, TypeOK, RowsOK
  <2>3. lease[t] <= 0 \/ lease[u] <= 0
    BY <2>1 DEF IInv, LeaseInv, Live
  <2> QED
    BY <2>2, <2>3 DEF Live
<1> QED
  BY <1>1, Invariance, PTL

(* _persist never leaves two versions of a source in force, although it    *)
(* retires only the version it read before the fetch.                      *)
THEOREM OneInForce == Spec => []SingleInForce
<1>1. IInv => SingleInForce
  <2> SUFFICES ASSUME IInv, NEW s \in Source
               PROVE  Cardinality(inForce[s]) <= 1
    BY DEF SingleInForce
  <2>1. inForce[s] = {} \/ inForce[s] = {latest[s]}
    BY DEF IInv, FenceInv
  <2>2. Cardinality({}) = 0 /\ Cardinality({latest[s]}) = 1
    BY FS_EmptySet, FS_Singleton
  <2> QED
    BY <2>1, <2>2
<1> QED
  BY <1>1, Invariance, PTL

-----------------------------------------------------------------------------
(* A step of the leased tasks is a step of FencedStore or leaves its three *)
(* variables alone: a claim acquires, a finish that still holds the source *)
(* row releases, a commit writes.                                          *)
LEMMA StoreStep ==
    ASSUME IInv, [Next]_vars
    PROVE  [Store!Next]_(Store!vars)
<1> USE DEF Store!Next, Store!vars
<1>1. ASSUME NEW w \in Worker, NEW t \in Task, Claim(w, t)
      PROVE  Store!Next
  BY <1>1, ConstantsAssumption
  DEF ConstantsAssumption, Claim, dataVars, Store!Acquire
<1>2. ASSUME NEW w \in Worker, CommitPersist(w) PROVE Store!Next
  <2>1. /\ Src(w) \in Source
        /\ srcOwner[Src(w)] = token[w]
        /\ token[w] # 0
        /\ inForce[Src(w)] \subseteq {prev[w]}
    BY <1>2, ConstantsAssumption
    DEF ConstantsAssumption, CommitPersist, IInv, WorkersInv, FenceInv, Busy, Src
  <2>2. (inForce[Src(w)] \ {prev[w]}) \cup {token[w]} = {srcOwner[Src(w)]}
    BY <2>1
  <2>3. Store!Write(Src(w))
    BY <1>2, <2>1, <2>2 DEF CommitPersist, srcVars, Store!Write
  <2> QED
    BY <2>1, <2>3
<1>3. ASSUME NEW w \in Worker, NEW outcome \in Terminal, Finish(w, outcome)
      PROVE  Store!Next \/ UNCHANGED Store!vars
  <2>1. Src(w) \in Source /\ token[w] # 0
    BY <1>3, ConstantsAssumption
    DEF ConstantsAssumption, Finish, IInv, WorkersInv, Busy, Src
  <2>2. CASE UNCHANGED srcVars
    BY <1>3, <2>2 DEF Finish, srcVars, dataVars
  <2>3. CASE srcOwner[Src(w)] = token[w]
             /\ srcOwner' = [srcOwner EXCEPT ![Src(w)] = 0]
    BY <1>3, <2>1, <2>3 DEF Finish, dataVars, Store!Release
  <2> QED
    BY <1>3, <2>2, <2>3 DEF Finish
<1>4. ASSUME NEW w \in Worker, MainThread(w)
      PROVE  Store!Next \/ UNCHANGED Store!vars
  BY <1>2, <1>3, <1>4
  DEF MainThread, Begin, Extend, ReadPrevious, EnterStage, InsertStep,
      OpenPersist, AbortPersist, FailStage, ExitStage, CloseStep, LoseLease,
      Fail, Raise, Return, FinishAgain, GiveUp, srcVars, dataVars
<1>5. ASSUME NEW w \in Worker, Beat(w) \/ Crash(w) PROVE UNCHANGED Store!vars
  BY <1>5 DEF Beat, Crash, Extend, srcVars, dataVars
<1>6. ASSUME Tick \/ UNCHANGED vars PROVE UNCHANGED Store!vars
  BY <1>6 DEF Tick, vars, srcVars, dataVars
<1> QED
  BY <1>1, <1>4, <1>5, <1>6 DEF Next

(* The leased tasks implement FencedStore with the token of the source     *)
(* lease row as the holder: only the latest claimant's version is ever     *)
(* added, whatever leases expire, clocks lag, threads stall or workers die.*)
THEOREM Implementation == Spec => StoreSpec
<1>1. Init => Store!Init
  BY DEF Init, Store!Init
<1>2. IInv /\ [Next]_vars => [Store!Next]_(Store!vars)
  BY StoreStep
<1> QED
  BY <1>1, <1>2, Invariance, PTL DEF Spec, StoreSpec, Store!Spec

-----------------------------------------------------------------------------
(* An interrupted step stays interrupted.  A worker inserts the step of    *)
(* its attempt once, and no two workers record for one attempt: the number *)
(* is read under the first heartbeat, when the claim still stands.         *)

(* The worker knows its attempt number; it may still insert its step.      *)
Recording(w) == pc[w] \in {"work", "entering", "staged", "persisting", "exiting"}
Fresh(w) == pc[w] = "entering" \/ (pc[w] = "work" /\ prev[w] # Done)

NoStep(t, n) == steps[t][n] = "none"

OwnAttempt(w) ==
    /\ att[w] <= attempt[task[w]]
    /\ att[w] = attempt[task[w]] => owner[task[w]] = token[w]

StepInv ==
    /\ \A w \in Worker : Recording(w) => OwnAttempt(w)
    /\ \A v, w \in Worker :
          Recording(v) /\ Recording(w) /\ task[v] = task[w] /\ att[v] = att[w] => v = w
    /\ \A t \in Task, n \in 1..MaxAttempts : attempt[t] < n => NoStep(t, n)
    /\ \A w \in Worker : Fresh(w) => NoStep(task[w], att[w])
    /\ \A w \in Worker : pc[w] = "claimed" /\ owner[task[w]] = token[w] =>
          NoStep(task[w], attempt[task[w]])

(* What a step may do to the attempts without touching a step row.         *)
Elsewhere(w) ==
    \A v \in Worker \ {w} :
        /\ pc'[v] = pc[v] /\ task'[v] = task[v] /\ token'[v] = token[v]
        /\ att'[v] = att[v] /\ prev'[v] = prev[v]

QuietStep ==
    /\ UNCHANGED <<attempt, owner, steps, task, token, att>>
    /\ \A w \in Worker :
          /\ Recording(w)' => Recording(w)
          /\ Fresh(w)' => Fresh(w)
          /\ pc'[w] = "claimed" => pc[w] = "claimed"

Departs(w) ==
    /\ Elsewhere(w)
    /\ pc'[w] = "idle"
    /\ UNCHANGED <<attempt, steps>>
    /\ \/ UNCHANGED owner
       \/ /\ owner[task[w]] = token[w]
          /\ owner' = [owner EXCEPT ![task[w]] = 0]

Claims(w, t) ==
    /\ Elsewhere(w)
    /\ pc'[w] = "claimed" /\ task'[w] = t
    /\ attempt[t] < MaxAttempts
    /\ attempt' = [attempt EXCEPT ![t] = attempt[t] + 1]
    /\ owner' = [owner EXCEPT ![t] = issued + 1]
    /\ \A u \in Task, n \in 1..MaxAttempts : NoStep(u, n) => NoStep(u, n)'

Numbers(w) ==
    /\ Elsewhere(w)
    /\ pc[w] = "claimed" /\ pc'[w] = "work"
    /\ task'[w] = task[w] /\ token'[w] = token[w]
    /\ att'[w] = attempt[task[w]]
    /\ owner[task[w]] = token[w]
    /\ UNCHANGED <<attempt, owner, steps>>

Inserts(w) ==
    /\ Elsewhere(w)
    /\ pc[w] = "entering" /\ pc'[w] = "staged"
    /\ UNCHANGED <<task, token, att, attempt, owner>>
    /\ steps' = [steps EXCEPT ![task[w]][att[w]] = "running"]

Closes(w) ==
    /\ Elsewhere(w)
    /\ pc[w] = "exiting" /\ pc'[w] = "work" /\ prev'[w] = Done
    /\ UNCHANGED <<task, token, att, attempt, owner>>
    /\ steps' = [steps EXCEPT ![task[w]][att[w]] = Closed(@)]

LEMMA QuietKeeps ==
    ASSUME StepInv, QuietStep
    PROVE  StepInv'
BY DEF StepInv, QuietStep, OwnAttempt, NoStep

LEMMA DepartsKeeps ==
    ASSUME TypeOK, WorkersInv, StepInv, NEW w \in Worker, Busy(w), Departs(w)
    PROVE  StepInv'
<1>1. \A v \in Worker : (Recording(v)' => Recording(v) /\ v # w)
                     /\ (Fresh(v)' => Fresh(v) /\ v # w)
                     /\ (pc'[v] = "claimed" => pc[v] = "claimed" /\ v # w)
  BY DEF Departs, Elsewhere, Recording, Fresh
<1>2. \A v \in Worker : Recording(v) => Busy(v) /\ task[v] \in Task
  BY DEF Recording, Busy, WorkersInv
<1>3. \A v \in Worker : pc[v] = "claimed" =>
         Busy(v) /\ task[v] \in Task /\ token[v] # 0
  BY DEF Busy, WorkersInv
<1>4. owner \in [Task -> Nat] /\ task[w] \in Task
  BY DEF TypeOK, RowsOK, WorkersInv
<1>5. ASSUME NEW v \in Worker, Recording(v)' PROVE OwnAttempt(v)'
  <2>1. v # w /\ Recording(v) /\ OwnAttempt(v) /\ Busy(v) /\ task[v] \in Task
    BY <1>1, <1>2, <1>5 DEF StepInv
  <2>2. task'[v] = task[v] /\ token'[v] = token[v] /\ att'[v] = att[v]
    BY <2>1 DEF Departs, Elsewhere
  <2>3. token[v] # token[w]
    BY <2>1 DEF WorkersInv
  <2> QED
    BY <1>4, <2>1, <2>2, <2>3 DEF Departs, OwnAttempt
<1>6. \A u, v \in Worker :
         Recording(u)' /\ Recording(v)' /\ task'[u] = task'[v] /\ att'[u] = att'[v]
            => u = v
  BY <1>1 DEF StepInv, Departs, Elsewhere
<1>7. \A t \in Task, n \in 1..MaxAttempts : attempt'[t] < n => NoStep(t, n)'
  BY DEF StepInv, Departs, NoStep
<1>8. \A v \in Worker : Fresh(v)' => NoStep(task[v], att[v])'
  BY <1>1 DEF StepInv, Departs, Elsewhere, NoStep
<1>9. ASSUME NEW v \in Worker, pc'[v] = "claimed", owner'[task'[v]] = token'[v]
      PROVE  NoStep(task[v], attempt[task[v]])'
  <2>1. v # w /\ pc[v] = "claimed" /\ task'[v] = task[v] /\ token'[v] = token[v]
    BY <1>1, <1>9 DEF Departs, Elsewhere
  <2>2. owner[task[v]] = token[v]
    BY <1>3, <1>4, <1>9, <2>1 DEF Departs
  <2>3. NoStep(task[v], attempt[task[v]])
    BY <2>1, <2>2 DEF StepInv
  <2> QED
    BY <2>1, <2>3 DEF Departs, NoStep
<1> QED
  BY <1>5, <1>6, <1>7, <1>8, <1>9 DEF StepInv

LEMMA ClaimsKeeps ==
    ASSUME TypeOK, WorkersInv, StepInv, NEW w \in Worker, NEW t \in Task,
           Claims(w, t)
    PROVE  StepInv'
<1>1. \A v \in Worker : (Recording(v)' => Recording(v) /\ v # w)
                     /\ (Fresh(v)' => Fresh(v) /\ v # w)
  BY DEF Claims, Elsewhere, Recording, Fresh
<1>2. \A v \in Worker : Recording(v) => task[v] \in Task
  BY DEF Recording, Busy, WorkersInv
<1>3. \A v \in Worker : Fresh(v) => task[v] \in Task
  BY DEF Fresh, Busy, WorkersInv
<1>4. /\ attempt \in [Task -> Nat] /\ owner \in [Task -> Nat]
      /\ MaxAttempts \in Nat /\ issued \in Nat
      /\ att \in [Worker -> 1..MaxAttempts]
  BY ConstantsAssumption
  DEF ConstantsAssumption, TypeOK, RowsOK, ThreadsOK, DataOK
<1>5. ASSUME NEW v \in Worker, Recording(v)' PROVE OwnAttempt(v)'
  <2>1. v # w /\ OwnAttempt(v) /\ task[v] \in Task
    BY <1>1, <1>2, <1>5 DEF StepInv
  <2>2. task'[v] = task[v] /\ token'[v] = token[v] /\ att'[v] = att[v]
    BY <2>1 DEF Claims, Elsewhere
  <2>3. CASE task[v] = t
    <3>1. att[v] <= attempt[t] /\ attempt'[t] = attempt[t] + 1
      BY <1>4, <2>1, <2>3 DEF Claims, OwnAttempt
    <3>2. att[v] \in Nat /\ attempt[t] \in Nat
      BY <1>4
    <3> QED
      BY <2>2, <2>3, <3>1, <3>2 DEF OwnAttempt
  <2>4. CASE task[v] # t
    BY <1>4, <2>1, <2>2, <2>4 DEF Claims, OwnAttempt
  <2> QED
    BY <2>3, <2>4
<1>6. \A u, v \in Worker :
         Recording(u)' /\ Recording(v)' /\ task'[u] = task'[v] /\ att'[u] = att'[v]
            => u = v
  BY <1>1 DEF StepInv, Claims, Elsewhere
<1>7. ASSUME NEW u \in Task, NEW n \in 1..MaxAttempts, attempt'[u] < n
      PROVE  NoStep(u, n)'
  <2>1. attempt[u] <= attempt'[u] /\ attempt[u] \in Nat /\ attempt'[u] \in Nat
    BY <1>4 DEF Claims
  <2>2. attempt[u] < n
    BY <1>4, <1>7, <2>1
  <2> QED
    BY <2>2 DEF StepInv, Claims
<1>8. ASSUME NEW v \in Worker, Fresh(v)' PROVE NoStep(task[v], att[v])'
  <2>1. v # w /\ task[v] \in Task /\ NoStep(task[v], att[v]) /\ att[v] \in 1..MaxAttempts
    BY <1>1, <1>3, <1>4, <1>8 DEF StepInv
  <2>2. task'[v] = task[v] /\ att'[v] = att[v]
    BY <2>1 DEF Claims, Elsewhere
  <2>3. steps'[task[v]][att[v]] = "none"
    BY <2>1 DEF Claims, NoStep
  <2> QED
    BY <2>2, <2>3 DEF NoStep
<1>9. ASSUME NEW v \in Worker, pc'[v] = "claimed", owner'[task'[v]] = token'[v]
      PROVE  NoStep(task[v], attempt[task[v]])'
  <2>1. CASE v = w
    <3>1. attempt[t] + 1 \in 1..MaxAttempts /\ attempt'[t] = attempt[t] + 1
      BY <1>4 DEF Claims
    <3>2. NoStep(t, attempt[t] + 1)
      BY <1>4, <3>1 DEF StepInv
    <3>3. steps'[t][attempt[t] + 1] = "none"
      BY <3>1, <3>2 DEF Claims, NoStep
    <3>4. task'[v] = t
      BY <2>1 DEF Claims
    <3> QED
      BY <3>1, <3>3, <3>4 DEF NoStep
  <2>2. CASE v # w
    <3>1. pc[v] = "claimed" /\ task'[v] = task[v] /\ token'[v] = token[v]
      BY <1>9, <2>2 DEF Claims, Elsewhere
    <3>2. task[v] \in Task /\ token[v] <= issued /\ token[v] \in Nat /\ attempt[task[v]] # 0
      BY <3>1 DEF WorkersInv, Busy, TypeOK, ThreadsOK
    <3>3. task[v] # t
      BY <1>4, <1>9, <3>1, <3>2 DEF Claims
    <3>4. owner[task[v]] = token[v] /\ attempt'[task[v]] = attempt[task[v]]
      BY <1>4, <1>9, <3>1, <3>2, <3>3 DEF Claims
    <3>5. NoStep(task[v], attempt[task[v]]) /\ attempt[task[v]] \in 1..MaxAttempts
      BY <3>1, <3>2, <3>4 DEF StepInv, TypeOK, RowsOK
    <3>6. steps'[task[v]][attempt[task[v]]] = "none"
      BY <3>2, <3>5 DEF Claims, NoStep
    <3> QED
      BY <3>1, <3>4, <3>6 DEF NoStep
  <2> QED
    BY <2>1, <2>2
<1> QED
  BY <1>5, <1>6, <1>7, <1>8, <1>9 DEF StepInv

LEMMA NumbersKeeps ==
    ASSUME TypeOK, WorkersInv, StepInv, NEW w \in Worker, Numbers(w)
    PROVE  StepInv'
<1>1. \A v \in Worker : v # w =>
         /\ Recording(v)' <=> Recording(v)
         /\ Fresh(v)' <=> Fresh(v)
         /\ task'[v] = task[v] /\ token'[v] = token[v] /\ att'[v] = att[v]
         /\ pc'[v] = pc[v]
  BY DEF Numbers, Elsewhere, Recording, Fresh
<1>2. /\ task'[w] = task[w] /\ token'[w] = token[w] /\ pc'[w] = "work"
      /\ att'[w] = attempt[task[w]] /\ owner[task[w]] = token[w] /\ Busy(w)
      /\ NoStep(task[w], attempt[task[w]])
  BY DEF Numbers, Busy, StepInv
<1>3. task[w] \in Task /\ attempt[task[w]] \in Nat
  BY <1>2 DEF WorkersInv, TypeOK, RowsOK
<1>4. UNCHANGED <<attempt, owner, steps>>
  BY DEF Numbers
<1>5. ASSUME NEW v \in Worker, Recording(v)' PROVE OwnAttempt(v)'
  <2>1. CASE v = w
    BY <1>2, <1>3, <1>4, <2>1 DEF OwnAttempt
  <2>2. CASE v # w
    BY <1>1, <1>4, <1>5, <2>2 DEF StepInv, OwnAttempt
  <2> QED
    BY <2>1, <2>2
<1>6. ASSUME NEW v \in Worker, v # w, Recording(v), task[v] = task[w]
      PROVE  att[v] # attempt[task[w]]
  <2>1. Busy(v) /\ OwnAttempt(v)
    BY <1>6 DEF Recording, Busy, StepInv
  <2>2. token[v] # token[w]
    BY <1>2, <1>6, <2>1 DEF WorkersInv
  <2> QED
    BY <1>2, <1>6, <2>1, <2>2 DEF OwnAttempt
<1>7. ASSUME NEW u \in Worker, NEW v \in Worker, Recording(u)', Recording(v)',
             task'[u] = task'[v], att'[u] = att'[v]
      PROVE  u = v
  BY <1>1, <1>2, <1>6, <1>7 DEF StepInv
<1>8. \A t \in Task, n \in 1..MaxAttempts : attempt'[t] < n => NoStep(t, n)'
  BY <1>4 DEF StepInv, NoStep
<1>9. \A v \in Worker : Fresh(v)' => NoStep(task[v], att[v])'
  BY <1>1, <1>2, <1>4 DEF StepInv, NoStep
<1>10. \A v \in Worker : pc'[v] = "claimed" /\ owner'[task'[v]] = token'[v] =>
          NoStep(task[v], attempt[task[v]])'
  BY <1>1, <1>2, <1>4 DEF StepInv, NoStep
<1> QED
  BY <1>5, <1>7, <1>8, <1>9, <1>10 DEF StepInv

(* The step a worker writes is the one of its own attempt.                 *)
LEMMA WritesOwnStep ==
    ASSUME TypeOK, WorkersInv, StepInv, NEW w \in Worker, Recording(w)
    PROVE  /\ task[w] \in Task /\ att[w] \in 1..MaxAttempts
           /\ att[w] <= attempt[task[w]]
           /\ \A v \in Worker : v # w /\ Recording(v) =>
                 task[v] # task[w] \/ att[v] # att[w]
           /\ \A v \in Worker :
                 pc[v] = "claimed" /\ owner[task[v]] = token[v] =>
                    task[v] # task[w] \/ attempt[task[v]] # att[w]
<1>1. Busy(w) /\ OwnAttempt(w)
  BY DEF Recording, Busy, StepInv
<1>2. task[w] \in Task /\ att[w] \in 1..MaxAttempts /\ att[w] <= attempt[task[w]]
  BY <1>1 DEF WorkersInv, TypeOK, ThreadsOK, OwnAttempt
<1>3. ASSUME NEW v \in Worker, v # w, Recording(v)
      PROVE  task[v] # task[w] \/ att[v] # att[w]
  BY <1>3 DEF StepInv
<1>4. ASSUME NEW v \in Worker, pc[v] = "claimed", owner[task[v]] = token[v]
      PROVE  task[v] # task[w] \/ attempt[task[v]] # att[w]
  <2>1. Busy(v) /\ v # w
    BY <1>4 DEF Busy, Recording
  <2>2. token[v] # token[w]
    BY <1>1, <2>1 DEF WorkersInv
  <2> QED
    BY <1>1, <1>4, <2>2 DEF OwnAttempt
<1> QED
  BY <1>2, <1>3, <1>4

LEMMA InsertsKeeps ==
    ASSUME TypeOK, WorkersInv, StepInv, NEW w \in Worker, Inserts(w)
    PROVE  StepInv'
<1>1. \A v \in Worker : (Recording(v)' => Recording(v))
                     /\ (Fresh(v)' => Fresh(v) /\ v # w)
                     /\ (pc'[v] = "claimed" => pc[v] = "claimed")
  BY DEF Inserts, Elsewhere, Recording, Fresh
<1>2. Recording(w) /\ UNCHANGED <<task, token, att, attempt, owner>>
  BY DEF Inserts, Recording
<1>3. \A t \in Task, n \in 1..MaxAttempts :
         NoStep(t, n) /\ (t # task[w] \/ n # att[w]) => NoStep(t, n)'
  BY DEF Inserts, NoStep, TypeOK, DataOK
<1>4. \A v \in Worker : Recording(v)' => OwnAttempt(v)'
  BY <1>1, <1>2 DEF StepInv, OwnAttempt
<1>5. \A u, v \in Worker :
         Recording(u)' /\ Recording(v)' /\ task'[u] = task'[v] /\ att'[u] = att'[v]
            => u = v
  BY <1>1, <1>2 DEF StepInv
<1>6. ASSUME NEW t \in Task, NEW n \in 1..MaxAttempts, attempt'[t] < n
      PROVE  NoStep(t, n)'
  <2>1. NoStep(t, n) /\ attempt[t] < n
    BY <1>2, <1>6 DEF StepInv
  <2>2. att[w] <= attempt[task[w]] /\ task[w] \in Task /\ att[w] \in Nat
    BY <1>2, WritesOwnStep
  <2>3. t # task[w] \/ n # att[w]
    BY <2>1, <2>2 DEF TypeOK, RowsOK
  <2> QED
    BY <1>3, <2>1, <2>3
<1>7. ASSUME NEW v \in Worker, Fresh(v)' PROVE NoStep(task[v], att[v])'
  <2>1. Fresh(v) /\ v # w /\ Recording(v) /\ NoStep(task[v], att[v])
    BY <1>1, <1>7 DEF Fresh, Recording, StepInv
  <2>2. task[v] \in Task /\ att[v] \in 1..MaxAttempts
    BY <2>1, WritesOwnStep
  <2>3. task[v] # task[w] \/ att[v] # att[w]
    BY <1>2, <2>1, WritesOwnStep
  <2>4. steps'[task[v]][att[v]] = "none"
    BY <1>3, <2>1, <2>2, <2>3 DEF NoStep
  <2> QED
    BY <1>2, <2>4 DEF NoStep
<1>8. ASSUME NEW v \in Worker, pc'[v] = "claimed", owner'[task'[v]] = token'[v]
      PROVE  NoStep(task[v], attempt[task[v]])'
  <2>1. pc[v] = "claimed" /\ owner[task[v]] = token[v]
    BY <1>1, <1>2, <1>8
  <2>2. task[v] \in Task /\ attempt[task[v]] \in 1..MaxAttempts
    BY <2>1 DEF WorkersInv, Busy, TypeOK, RowsOK
  <2>3. NoStep(task[v], attempt[task[v]])
    BY <2>1 DEF StepInv
  <2>4. task[v] # task[w] \/ attempt[task[v]] # att[w]
    BY <1>2, <2>1, WritesOwnStep
  <2>5. steps'[task[v]][attempt[task[v]]] = "none"
    BY <1>3, <2>2, <2>3, <2>4 DEF NoStep
  <2> QED
    BY <1>2, <2>5 DEF NoStep
<1> QED
  BY <1>4, <1>5, <1>6, <1>7, <1>8 DEF StepInv

LEMMA ClosesKeeps ==
    ASSUME TypeOK, WorkersInv, StepInv, NEW w \in Worker, Closes(w)
    PROVE  StepInv'
<1>1. \A v \in Worker : (Recording(v)' => Recording(v))
                     /\ (Fresh(v)' => Fresh(v))
                     /\ (pc'[v] = "claimed" => pc[v] = "claimed")
  BY DEF Closes, Elsewhere, Recording, Fresh
<1>2. UNCHANGED <<task, token, att, attempt, owner>>
  BY DEF Closes
<1>3. \A t \in Task, n \in 1..MaxAttempts : NoStep(t, n) => NoStep(t, n)'
  BY DEF Closes, Closed, NoStep, TypeOK, DataOK
<1>4. \A v \in Worker : Recording(v)' => OwnAttempt(v)'
  BY <1>1, <1>2 DEF StepInv, OwnAttempt
<1>5. \A u, v \in Worker :
         Recording(u)' /\ Recording(v)' /\ task'[u] = task'[v] /\ att'[u] = att'[v]
            => u = v
  BY <1>1, <1>2 DEF StepInv
<1>6. \A t \in Task, n \in 1..MaxAttempts : attempt'[t] < n => NoStep(t, n)'
  BY <1>2, <1>3 DEF StepInv
<1>7. ASSUME NEW v \in Worker, Fresh(v)' PROVE NoStep(task[v], att[v])'
  <2>1. Recording(v) /\ NoStep(task[v], att[v])
    BY <1>1, <1>7 DEF Fresh, Recording, StepInv
  <2>2. task[v] \in Task /\ att[v] \in 1..MaxAttempts
    BY <2>1, WritesOwnStep
  <2>3. steps'[task[v]][att[v]] = "none"
    BY <1>3, <2>1, <2>2 DEF NoStep
  <2> QED
    BY <1>2, <2>3 DEF NoStep
<1>8. ASSUME NEW v \in Worker, pc'[v] = "claimed", owner'[task'[v]] = token'[v]
      PROVE  NoStep(task[v], attempt[task[v]])'
  <2>1. pc[v] = "claimed" /\ owner[task[v]] = token[v]
    BY <1>1, <1>2, <1>8
  <2>2. task[v] \in Task /\ attempt[task[v]] \in 1..MaxAttempts
    BY <2>1 DEF WorkersInv, Busy, TypeOK, RowsOK
  <2>3. NoStep(task[v], attempt[task[v]])
    BY <2>1 DEF StepInv
  <2>4. steps'[task[v]][attempt[task[v]]] = "none"
    BY <1>3, <2>2, <2>3 DEF NoStep
  <2> QED
    BY <1>2, <2>4 DEF NoStep
<1> QED
  BY <1>4, <1>5, <1>6, <1>7, <1>8 DEF StepInv

LEMMA StepInit == Init => StepInv
BY DEF Init, StepInv, Recording, Fresh, NoStep

(* Every step of the specification is one of the six.                      *)
LEMMA StageQuiet ==
    ASSUME TypeOK, NEW w \in Worker,
           \/ ReadPrevious(w) \/ EnterStage(w) \/ OpenPersist(w)
           \/ CommitPersist(w) \/ AbortPersist(w) \/ FailStage(w) \/ ExitStage(w)
    PROVE  QuietStep
<1> USE DEF TypeOK, ThreadsOK, Goto, Recording, Fresh, QuietStep, taskVars,
        Unread, Done
<1>1. CASE ReadPrevious(w)
  BY <1>1 DEF ReadPrevious
<1>2. CASE EnterStage(w)
  BY <1>2 DEF EnterStage
<1>3. CASE OpenPersist(w)
  BY <1>3 DEF OpenPersist
<1>4. CASE CommitPersist(w)
  BY <1>4 DEF CommitPersist
<1>5. CASE AbortPersist(w)
  BY <1>5 DEF AbortPersist
<1>6. CASE FailStage(w)
  BY <1>6 DEF FailStage
<1>7. CASE ExitStage(w)
  BY <1>7 DEF ExitStage
<1> QED
  BY <1>1, <1>2, <1>3, <1>4, <1>5, <1>6, <1>7

LEMMA UnwindQuiet ==
    ASSUME TypeOK, NEW w \in Worker,
           LoseLease(w) \/ Fail(w) \/ Return(w) \/ FinishAgain(w)
    PROVE  QuietStep
<1> USE DEF TypeOK, ThreadsOK, Goto, Recording, Fresh, QuietStep, taskVars
<1>1. CASE Raise(w)
  BY <1>1 DEF Raise
<1>2. CASE Return(w)
  BY <1>2 DEF Return
<1>3. CASE FinishAgain(w)
  BY <1>3 DEF FinishAgain
<1> QED
  BY <1>1, <1>2, <1>3 DEF LoseLease, Fail

LEMMA LeaveDeparts ==
    ASSUME TypeOK, NEW w \in Worker,
           GiveUp(w) \/ Crash(w) \/ \E outcome \in Terminal : Finish(w, outcome)
    PROVE  Busy(w) /\ Departs(w)
<1>1. ASSUME Leave(w) PROVE Elsewhere(w) /\ pc'[w] = "idle"
  BY <1>1 DEF Leave, Goto, Elsewhere, TypeOK, ThreadsOK
<1>2. CASE GiveUp(w)
  BY <1>1, <1>2 DEF GiveUp, Departs, Busy, taskVars
<1>3. CASE Crash(w)
  BY <1>1, <1>3 DEF Crash, Departs, Busy, taskVars
<1>4. ASSUME NEW outcome \in Terminal, Finish(w, outcome)
      PROVE  Busy(w) /\ Departs(w)
  BY <1>1, <1>4 DEF Finish, TaskHeld, Departs, Busy
<1> QED
  BY <1>2, <1>3, <1>4

LEMMA ClaimClaims ==
    ASSUME TypeOK, NEW w \in Worker, NEW t \in Task, Claim(w, t)
    PROVE  Claims(w, t)
<1>1. Elsewhere(w) /\ pc'[w] = "claimed" /\ task'[w] = t
  BY DEF Claim, Goto, Elsewhere, TypeOK, ThreadsOK
<1>2. /\ attempt[t] < MaxAttempts
      /\ attempt' = [attempt EXCEPT ![t] = attempt[t] + 1]
      /\ owner' = [owner EXCEPT ![t] = issued + 1]
  BY DEF Claim, Claimable
<1>3. \A u \in Task, n \in 1..MaxAttempts : NoStep(u, n) => NoStep(u, n)'
  BY DEF Claim, NoStep, TypeOK, DataOK
<1> QED
  BY <1>1, <1>2, <1>3 DEF Claims

LEMMA StepInvStep ==
    ASSUME IInv, StepInv, [Next]_vars
    PROVE  StepInv'
<1> USE DEF IInv
<1>1. ASSUME NEW w \in Worker, NEW t \in Task, Claim(w, t) PROVE StepInv'
  BY <1>1, ClaimClaims, ClaimsKeeps
<1>2. ASSUME NEW w \in Worker, Begin(w) PROVE StepInv'
  <2>1. Numbers(w)
    BY <1>2 DEF Begin, Extend, Owns, TaskHeld, Goto, Numbers, Elsewhere,
       TypeOK, ThreadsOK
  <2> QED
    BY <2>1, NumbersKeeps
<1>3. ASSUME NEW w \in Worker, InsertStep(w) PROVE StepInv'
  <2>1. Inserts(w)
    BY <1>3 DEF InsertStep, Goto, Inserts, Elsewhere, taskVars, TypeOK, ThreadsOK
  <2> QED
    BY <2>1, InsertsKeeps
<1>4. ASSUME NEW w \in Worker, CloseStep(w) PROVE StepInv'
  <2>1. Closes(w)
    BY <1>4 DEF CloseStep, Goto, Closes, Elsewhere, taskVars, TypeOK, ThreadsOK
  <2> QED
    BY <2>1, ClosesKeeps
<1>5. ASSUME NEW w \in Worker, GiveUp(w) \/ Crash(w)
                 \/ \E outcome \in Terminal : Finish(w, outcome)
      PROVE  StepInv'
  BY <1>5, LeaveDeparts, DepartsKeeps
<1>6. ASSUME NEW w \in Worker,
             \/ ReadPrevious(w) \/ EnterStage(w) \/ OpenPersist(w)
             \/ CommitPersist(w) \/ AbortPersist(w) \/ FailStage(w) \/ ExitStage(w)
      PROVE  StepInv'
  BY <1>6, StageQuiet, QuietKeeps
<1>7. ASSUME NEW w \in Worker,
             LoseLease(w) \/ Fail(w) \/ Return(w) \/ FinishAgain(w)
      PROVE  StepInv'
  BY <1>7, UnwindQuiet, QuietKeeps
<1>8. ASSUME (\E w \in Worker : Beat(w)) \/ Tick \/ UNCHANGED vars PROVE StepInv'
  <2>1. QuietStep
    BY <1>8 DEF Beat, Extend, Tick, vars, taskVars, threadVars, QuietStep,
       Recording, Fresh
  <2> QED
    BY <2>1, QuietKeeps
<1> QED
  BY <1>1, <1>2, <1>3, <1>4, <1>5, <1>6, <1>7, <1>8 DEF Next, MainThread

Interrupted(t, n) == steps[t][n] = "interrupted"

(* Only a claim, an insertion and a closing touch step rows: a claim turns *)
(* running into interrupted, an insertion finds no row, a closing rewrites *)
(* a running one.                                                          *)
LEMMA InterruptedStep ==
    ASSUME IInv, StepInv, [Next]_vars,
           NEW t \in Task, NEW n \in 1..MaxAttempts, Interrupted(t, n)
    PROVE  Interrupted(t, n)'
<1> USE DEF IInv
<1>1. ASSUME NEW w \in Worker, NEW u \in Task, Claim(w, u)
      PROVE  Interrupted(t, n)'
  BY <1>1 DEF Claim, Interrupted, TypeOK, DataOK
<1>2. ASSUME NEW w \in Worker, InsertStep(w) PROVE Interrupted(t, n)'
  <2>1. Fresh(w) /\ Recording(w)
    BY <1>2 DEF InsertStep, Fresh, Recording
  <2>2. NoStep(task[w], att[w])
    BY <2>1 DEF StepInv
  <2>3. t # task[w] \/ n # att[w]
    BY <2>2 DEF NoStep, Interrupted
  <2> QED
    BY <1>2, <2>3 DEF InsertStep, Interrupted, TypeOK, DataOK
<1>3. ASSUME NEW w \in Worker, CloseStep(w) PROVE Interrupted(t, n)'
  BY <1>3 DEF CloseStep, Closed, Interrupted, TypeOK, DataOK
<1>4. ASSUME UNCHANGED steps PROVE Interrupted(t, n)'
  BY <1>4 DEF Interrupted
<1> QED
  BY <1>1, <1>2, <1>3, <1>4
  DEF Next, MainThread, Begin, ReadPrevious, EnterStage, OpenPersist,
      CommitPersist, AbortPersist, FailStage, ExitStage, LoseLease, Fail, Raise,
      Return, Finish, FinishAgain, GiveUp, Beat, Crash, Tick, vars

(* An interrupted step stays interrupted: no stalled worker overwrites the *)
(* row a later claim closed, neither by inserting its step nor by closing  *)
(* it, whatever leases it lost meanwhile.                                  *)
THEOREM StaysInterrupted == Spec => InterruptedStays
<1>1. IInv /\ StepInv /\ [Next]_vars =>
        [\A t \in Task : \A n \in 1..MaxAttempts :
            steps[t][n] = "interrupted" => steps'[t][n] = "interrupted"]_vars
  <2> SUFFICES ASSUME IInv, StepInv, [Next]_vars,
                      NEW t \in Task, NEW n \in 1..MaxAttempts,
                      steps[t][n] = "interrupted"
               PROVE  steps'[t][n] = "interrupted"
    OBVIOUS
  <2>1. Interrupted(t, n)'
    BY InterruptedStep DEF Interrupted
  <2> QED
    BY <2>1 DEF Interrupted
<1>2. IInv /\ StepInv /\ [Next]_vars => StepInv'
  BY StepInvStep
<1> QED
  BY <1>1, <1>2, StepInit, Invariance, PTL DEF Spec, InterruptedStays

=============================================================================
