--------------------------- MODULE DispatchProofs ---------------------------
(***************************************************************************)
(* The dispatcher drives the task engine: whatever its handlers, callbacks *)
(* and resets do to the workflow, the queue and the workers only ever make *)
(* the steps of TaskEngine.  What TaskEngineProofs proves of the engine    *)
(* therefore holds of the composed system.  On top of it come the          *)
(* in-flight lock and the accounts of the analyses under way.              *)
(***************************************************************************)
EXTENDS Dispatch, TaskEngineProofs

LEMMA InitImplements == DispatchInit => EngineInit
BY DEF DispatchInit

LEMMA HandlerImplements ==
  ASSUME NEW t \in Tasks, Receive(t) \/ HandlerStep(t) \/ HandlerFault(t)
  PROVE  EngineNext \/ UNCHANGED engineVars
<1>1. CASE EnqueueTask(t)
  BY <1>1 DEF EnqueueTask, EngineNext
<1>2. CASE Receive(t) \/ HandlerFault(t)
  BY <1>2 DEF Receive, HandlerFault, EngineIdle
<1>3. CASE ReadContext(t) \/ CreateContext(t) \/ TakeLock(t)
  BY <1>3 DEF ReadContext, CreateContext, TakeLock, EngineIdle
<1>4. CASE CheckTasks(t) \/ Apply(t) \/ MarkProcessed(t)
  BY <1>4 DEF CheckTasks, Apply, MarkProcessed, EngineIdle
<1> QED
  BY <1>1, <1>2, <1>3, <1>4 DEF HandlerStep

LEMMA CallbackImplements ==
  ASSUME NEW w \in Workers,
         WorkerOnly(w) \/ CallbackRead(w) \/ CallbackWrite(w) \/ CallbackFault(w)
  PROVE  EngineNext \/ UNCHANGED engineVars
<1>1. CASE WorkerOnly(w)
  BY <1>1 DEF WorkerOnly, WorkerStep, EngineNext
<1>2. CASE CallbackRead(w)
  BY <1>2 DEF CallbackRead
<1>3. CASE CallbackWrite(w)
  BY <1>3 DEF CallbackWrite, WorkerStep, EngineNext
<1>4. CASE CallbackFault(w)
  BY <1>4 DEF CallbackFault, WorkerStep, EngineNext
<1> QED
  BY <1>1, <1>2, <1>3, <1>4

LEMMA RequestImplements ==
  ASSUME NEW a \in Admins, AdminOnly(a) \/ ResetRead(a) \/ ResetEnds(a)
  PROVE  EngineNext \/ UNCHANGED engineVars
<1>1. CASE AdminOnly(a)
  BY <1>1 DEF AdminOnly, AdminStep, EngineNext
<1>2. CASE ResetRead(a)
  BY <1>2 DEF ResetRead
<1>3. CASE ResetEnds(a)
  BY <1>3 DEF ResetEnds, AdminStep, EngineNext
<1> QED
  BY <1>1, <1>2, <1>3

LEMMA StepImplements == [DispatchNext]_dispatchVars => [EngineNext]_engineVars
<1> SUFFICES ASSUME [DispatchNext]_dispatchVars
             PROVE  EngineNext \/ UNCHANGED engineVars
  OBVIOUS
<1>1. CASE UNCHANGED dispatchVars
  BY <1>1 DEF dispatchVars
<1>2. ASSUME NEW e \in Edits, EditRead(e) \/ EditWrite(e)
      PROVE  UNCHANGED engineVars
  BY <1>2 DEF EditRead, EditWrite
<1>3. CASE ScannerOnly
  BY <1>3 DEF ScannerOnly, EngineNext
<1>4. CASE DispatchRestart
  BY <1>4 DEF DispatchRestart, EngineNext
<1> QED
  BY <1>1, <1>2, <1>3, <1>4, HandlerImplements, CallbackImplements, RequestImplements
  DEF DispatchNext

\* The dispatcher implements the task engine.
THEOREM DispatchImplementsEngine == DispatchSpec => EngineSpec
BY InitImplements, StepImplements, PTL DEF DispatchSpec, EngineSpec

\* serial_queue keeps its promises under the real callers: handlers that enqueue,
\* callbacks, resets and replays never make two workers serve one agent.
THEOREM DispatchSerialExclusive == DispatchSpec => []SerialAgentExclusive
BY DispatchImplementsEngine, SerialQueueExclusive, PTL

\* Nor do they make a task that succeeded run again, a replayed delivery
\* included.
THEOREM DispatchSuccessNeverUndone == DispatchSpec => SuccessIsFinal
BY DispatchImplementsEngine, SuccessNeverUndone, PTL

\* The composed system keeps the tasks table as TaskTable promises it.
THEOREM DispatchKeepsTable == Serial /\ DispatchSpec => TaskTableKept
BY DispatchImplementsEngine, EngineKeepsTable, PTL

-----------------------------------------------------------------------------
(***************************************************************************)
(* The in-flight lock: in a process that lives, that nobody resets and     *)
(* that runs in serial_queue, two tasks of one issue are never live        *)
(* together, for every number of deliveries, agents, workers and issues,   *)
(* every policy and any number of database errors and panics.              *)
(***************************************************************************)

Calm == Undisturbed /\ EngineInv /\ LockInv

-----------------------------------------------------------------------------
\* Consequences of the invariant.

\* A worker that holds its slot is the only one with its task.
LEMMA AloneWithTask ==
  ASSUME Calm, NEW v \in Workers, NEW w \in Workers,
         wpc[v] \in Holding, wpc[w] \in Holding, wtask[v] = wtask[w]
  PROVE  v = w
BY DEF Calm, Undisturbed, EngineInv, SerialAgentExclusive

\* A worker between its check and the end of its callback has a task that relies
\* on the lock.
Serving == {"mark", "register", "run", "backoff", "unregister", "writeback",
            "callback", "panicked", "panicCallback"}

LEMMA ServingRelies ==
  ASSUME Calm, NEW w \in Workers, wpc[w] \in Serving
  PROVE  wtask[w] \in Tasks /\ Relies(wtask[w])
<1>1. wtask[w] \in Tasks
  BY DEF Calm, EngineInv, LocalsSound, Serving
<1>2. CASE wpc[w] \in {"callback", "panicked", "panicCallback"}
  BY <1>1, <1>2 DEF Relies, CallsBack
<1>3. CASE wpc[w] \in Serving \ {"callback", "panicked", "panicCallback"}
  <2>1. row[wtask[w]] \in Live
    BY <1>3 DEF Calm, LockInv, HolderRows, Serving
  <2>2. ~CalledBack(wtask[w])
    <3> SUFFICES ASSUME NEW v \in Workers, wtask[v] = wtask[w], wpc[v] = "persist"
                 PROVE  FALSE
      BY DEF CalledBack
    <3> QED
      BY <1>3, AloneWithTask DEF Serving, Holding
  <2> QED
    BY <1>1, <2>1, <2>2 DEF Relies
<1> QED
  BY <1>1, <1>2, <1>3

\* A worker's task is a row, so no handler is at work on it.
LEMMA HeldTaskHasNoHandler ==
  ASSUME Calm, NEW w \in Workers, wpc[w] # "idle"
  PROVE  wtask[w] \in Tasks /\ row[wtask[w]] # "absent" /\ ~InHandler(wtask[w])
BY DEF Calm, EngineInv, LocalsSound, LockInv, TasksExist, HandlersFresh, InHandler

\* A step that leaves the lock and has nobody new rely on it.
LEMMA FewerRelySameLock ==
  ASSUME LockExclusive, lock' = lock,
         \A u \in Tasks : Relies(u)' => Relies(u)
  PROVE  LockExclusive'
BY DEF LockExclusive

\* A step that releases the lock of t, when nobody but t relied on it and t does
\* no more.
LEMMA ReleasedByOwner ==
  ASSUME LockExclusive, NEW t \in Tasks, Relies(t),
         lock' = lock \ {IssueOf[t]},
         \A u \in Tasks : Relies(u)' => Relies(u),
         ~Relies(t)'
  PROVE  LockExclusive'
BY DEF LockExclusive

\* A step that makes no row live and moves no handler to apply.
LEMMA NoNewLiveRow ==
  ASSUME CheckedFree, OneLiveTaskPerIssue,
         \A u \in Tasks : row'[u] \in Live => row[u] \in Live,
         \A u \in Tasks : hpc'[u] \in {"apply", "enqueue"} => hpc[u] \in {"apply", "enqueue"}
  PROVE  CheckedFree' /\ OneLiveTaskPerIssue'
BY DEF CheckedFree, OneLiveTaskPerIssue

\* Handler steps that leave the engine alone.
LEMMA EngineUntouched ==
  ASSUME Calm, UNCHANGED engineVars
  PROVE  /\ TasksExist' /\ HolderRows'
         /\ \A u \in Tasks : row'[u] = row[u]
         /\ \A u \in Tasks : CallsBack(u)' = CallsBack(u) /\ CalledBack(u)' = CalledBack(u)
BY DEF Calm, LockInv, TasksExist, HolderRows, CallsBack, CalledBack, engineVars

\* Steps of the callbacks and the edits that leave the engine and the lock alone.
LEMMA EngineAndLockUntouched ==
  ASSUME Calm, UNCHANGED <<engineVars, hpc, inbox, lock>>
  PROVE  LockInv'
BY DEF Calm, LockInv, HandlersFresh, TasksExist, HolderRows, CheckedFree, LockExclusive,
       OneLiveTaskPerIssue, Relies, InHandler, CallsBack, CalledBack, engineVars

\* Who relies on the lock after the handler of t has moved on.
LEMMA HandlerRelies ==
  ASSUME Calm, UNCHANGED engineVars, NEW t \in Tasks, NEW pc \in HandlerPC,
         hpc' = [hpc EXCEPT ![t] = pc]
  PROVE  /\ \A u \in Tasks \ {t} : Relies(u)' = Relies(u)
         /\ row[t] = "absent" =>
              (Relies(t)' => pc \in {"check", "apply", "enqueue"} \/ CallsBack(t))
<1> USE DEF Calm, LockInv
<1>1. \A u \in Tasks \ {t} : InHandler(u)' = InHandler(u)
  BY DEF InHandler
<1>2. InHandler(t)' => pc \in {"check", "apply", "enqueue"}
  BY DEF InHandler
<1> QED
  BY <1>1, <1>2, EngineUntouched DEF Relies, Live

\* A delivery without a row has no worker.
LEMMA NoRowNoWorker ==
  ASSUME Calm, NEW t \in Tasks, row[t] = "absent"
  PROVE  ~CallsBack(t) /\ ~CalledBack(t)
BY DEF Calm, LockInv, TasksExist, CallsBack, CalledBack

\* A handler step that is not in or into the locked section.
LEMMA OutsideTheLock ==
  ASSUME Calm, UNCHANGED <<engineVars, lock>>, NEW t \in Tasks,
         NEW pc \in HandlerPC \ {"check", "apply", "enqueue"},
         hpc' = [hpc EXCEPT ![t] = pc], HandlersFresh',
         inbox' \in [Tasks -> {"none", "accepted", "processed"}]
  PROVE  LockInv'
<1> USE DEF Calm, LockInv
<1>1. hpc' \in [Tasks -> HandlerPC]
  OBVIOUS
<1>2. \A u \in Tasks : Relies(u)' => Relies(u)
  <2>1. Relies(t)' => Relies(t)
    <3>1. ~InHandler(t)'
      BY DEF InHandler
    <3> QED
      BY <3>1, EngineUntouched DEF Relies
  <2> QED
    BY <2>1, HandlerRelies
<1>3. LockExclusive'
  BY <1>2, FewerRelySameLock
<1>4. CheckedFree' /\ OneLiveTaskPerIssue'
  BY EngineUntouched, NoNewLiveRow
<1> QED
  BY <1>1, <1>3, <1>4, EngineUntouched

\* A handler step that leaves the locked section, releasing the lock.
LEMMA LeavesTheLock ==
  ASSUME Calm, UNCHANGED <<engineVars, inbox>>, NEW t \in Tasks,
         NEW pc \in {"mark", "idle"},
         hpc[t] \in {"check", "apply", "enqueue"},
         hpc' = [hpc EXCEPT ![t] = pc],
         lock' = lock \ {IssueOf[t]}
  PROVE  LockInv'
<1> USE DEF Calm, LockInv
<1>1. hpc' \in [Tasks -> HandlerPC]
  BY DEF HandlerPC
<1>2. row[t] = "absent" /\ Relies(t)
  BY DEF HandlersFresh, Relies, InHandler
<1>3. ~Relies(t)' /\ \A u \in Tasks : Relies(u)' => Relies(u)
  BY <1>2, HandlerRelies, NoRowNoWorker DEF HandlerPC
<1>4. LockExclusive'
  BY <1>2, <1>3, ReleasedByOwner
<1>5. CheckedFree' /\ OneLiveTaskPerIssue'
  BY EngineUntouched, NoNewLiveRow
<1>6. HandlersFresh'
  BY EngineUntouched DEF HandlersFresh
<1> QED
  BY <1>1, <1>4, <1>5, <1>6, EngineUntouched

LEMMA DecideGoes ==
  ASSUME NEW t \in Tasks, NEW c, hpc \in [Tasks -> HandlerPC], Decide(t, c)
  PROVE  \E pc \in {"lock", "mark"} : hpc' = [hpc EXCEPT ![t] = pc]
BY DEF Decide, HandlerGoto

LEMMA BeforeTheLock ==
  ASSUME Calm, NEW t \in Tasks, Receive(t) \/ ReadContext(t) \/ CreateContext(t) \/ MarkProcessed(t)
  PROVE  LockInv'
<1> USE DEF Calm, LockInv
<1>1. CASE Receive(t)
  <2>1. HandlersFresh' /\ hpc' = [hpc EXCEPT ![t] = "start"]
    BY <1>1, EngineUntouched DEF Receive, HandlerGoto, HandlersFresh, EngineIdle
  <2> QED
    BY <1>1, <2>1, OutsideTheLock DEF Receive, EngineIdle, workflowVars, HandlerPC
<1>2. CASE MarkProcessed(t)
  <2>1. HandlersFresh' /\ hpc' = [hpc EXCEPT ![t] = "idle"]
    BY <1>2, EngineUntouched DEF MarkProcessed, HandlerGoto, HandlersFresh, EngineIdle
  <2> QED
    BY <1>2, <2>1, OutsideTheLock DEF MarkProcessed, EngineIdle, workflowVars, HandlerPC
<1>3. ASSUME ReadContext(t) \/ CreateContext(t) PROVE LockInv'
  <2>1. PICK pc \in {"lock", "mark", "create", "idle"} : hpc' = [hpc EXCEPT ![t] = pc]
    BY <1>3, DecideGoes DEF ReadContext, CreateContext, HandlerGoto
  <2>2. /\ hpc[t] \in {"start", "create"}
        /\ UNCHANGED <<engineVars, lock, inbox>>
    BY <1>3 DEF ReadContext, CreateContext, EngineIdle, workflowVars
  <2>3. HandlersFresh'
    BY <2>1, <2>2, EngineUntouched DEF HandlersFresh
  <2> QED
    BY <2>1, <2>2, <2>3, OutsideTheLock DEF HandlerPC
<1> QED
  BY <1>1, <1>2, <1>3

LEMMA TakeLockKeeps ==
  ASSUME Calm, NEW t \in Tasks, TakeLock(t)
  PROVE  LockInv'
<1> USE DEF Calm, LockInv
<1>1. UNCHANGED <<engineVars, inbox>> /\ hpc[t] = "lock"
  BY DEF TakeLock, EngineIdle
<1>2. CASE IssueOf[t] \in lock
  <2>1. hpc' = [hpc EXCEPT ![t] = "mark"] /\ lock' = lock
    BY <1>2 DEF TakeLock, HandlerGoto
  <2>2. HandlersFresh'
    BY <1>1, <2>1, EngineUntouched DEF HandlersFresh
  <2> QED
    BY <1>1, <2>1, <2>2, OutsideTheLock DEF HandlerPC
<1>3. CASE IssueOf[t] \notin lock
  <2>1. hpc' = [hpc EXCEPT ![t] = "check"] /\ lock' = lock \cup {IssueOf[t]}
    BY <1>3 DEF TakeLock, HandlerGoto
  <2>2. hpc' \in [Tasks -> HandlerPC] /\ HandlersFresh'
    BY <1>1, <2>1, EngineUntouched DEF HandlersFresh, HandlerPC
  <2>3. \A u \in Tasks \ {t} : Relies(u)' = Relies(u)
    BY <1>1, <2>1, HandlerRelies DEF HandlerPC
  <2>4. \A u \in Tasks : IssueOf[u] = IssueOf[t] => ~Relies(u)
    BY <1>3 DEF LockExclusive
  <2>5. LockExclusive'
    BY <2>1, <2>3, <2>4 DEF LockExclusive
  <2>6. CheckedFree' /\ OneLiveTaskPerIssue'
    BY <1>1, <2>1, EngineUntouched, NoNewLiveRow
  <2> QED
    BY <1>1, <2>2, <2>5, <2>6, EngineUntouched
<1> QED
  BY <1>2, <1>3

LEMMA CheckTasksKeeps ==
  ASSUME Calm, NEW t \in Tasks, CheckTasks(t)
  PROVE  LockInv'
<1> USE DEF Calm, LockInv
<1>1. UNCHANGED <<engineVars, inbox>> /\ hpc[t] = "check"
  BY DEF CheckTasks, EngineIdle
<1>2. CASE LiveOn(IssueOf[t]) # {}
  BY <1>1, <1>2, LeavesTheLock DEF CheckTasks, HandlerGoto
<1>3. CASE LiveOn(IssueOf[t]) = {}
  <2>1. hpc' = [hpc EXCEPT ![t] = "apply"] /\ lock' = lock
    BY <1>3 DEF CheckTasks, HandlerGoto
  <2>2. hpc' \in [Tasks -> HandlerPC] /\ HandlersFresh'
    BY <1>1, <2>1, EngineUntouched DEF HandlersFresh, HandlerPC
  <2>3. \A u \in Tasks : Relies(u)' => Relies(u)
    BY <1>1, <2>1, HandlerRelies DEF HandlerPC, Relies, InHandler
  <2>4. LockExclusive'
    BY <2>1, <2>3, FewerRelySameLock
  <2>5. CheckedFree' /\ OneLiveTaskPerIssue'
    BY <1>1, <1>3, <2>1, EngineUntouched DEF CheckedFree, OneLiveTaskPerIssue, LiveOn
  <2> QED
    BY <1>1, <2>2, <2>4, <2>5, EngineUntouched
<1> QED
  BY <1>2, <1>3

LEMMA ApplyKeeps ==
  ASSUME Calm, NEW t \in Tasks, Apply(t)
  PROVE  LockInv'
<1> USE DEF Calm, LockInv
<1>1. /\ UNCHANGED <<engineVars, inbox, lock>> /\ hpc[t] = "apply"
      /\ hpc' = [hpc EXCEPT ![t] = "enqueue"]
  BY DEF Apply, EngineIdle, HandlerGoto
<1>2. hpc' \in [Tasks -> HandlerPC] /\ HandlersFresh'
  BY <1>1, EngineUntouched DEF HandlersFresh, HandlerPC
<1>3. \A u \in Tasks : Relies(u)' => Relies(u)
  BY <1>1, HandlerRelies DEF HandlerPC, Relies, InHandler
<1>4. LockExclusive'
  BY <1>1, <1>3, FewerRelySameLock
<1>5. CheckedFree' /\ OneLiveTaskPerIssue'
  BY <1>1, EngineUntouched, NoNewLiveRow
<1> QED
  BY <1>1, <1>2, <1>4, <1>5, EngineUntouched

LEMMA HandlerFaultKeeps ==
  ASSUME Calm, NEW t \in Tasks, HandlerFault(t)
  PROVE  LockInv'
BY LeavesTheLock DEF Calm, LockInv, HandlerFault, HandlerGoto, EngineIdle

\* What a push leaves in the channel.
LEMMA PushedRows ==
  ASSUME Calm, NEW t \in Tasks, Push(t), row[t] # "absent" \/ row'[t] # "absent",
         \A u \in Tasks : row[u] # "absent" => row'[u] # "absent"
  PROVE  \A n \in 1..Len(ch') : row'[ch'[n]] # "absent"
<1> USE DEF Calm, LockInv, EngineInv, TypeOK
<1>1. CASE Len(ch) < QueueSize
  <2>1. ch' = Append(ch, t)
    BY <1>1 DEF Push
  <2> QED
    BY <2>1 DEF TasksExist
<1>2. CASE ~(Len(ch) < QueueSize)
  BY <1>2 DEF Push, TasksExist
<1> QED
  BY <1>1, <1>2

LEMMA EnqueueTaskKeeps ==
  ASSUME Calm, NEW t \in Tasks, EnqueueTask(t)
  PROVE  LockInv'
<1> USE DEF Calm, LockInv
<1>1. hpc[t] = "enqueue" /\ row[t] = "absent" /\ UNCHANGED inbox
  BY DEF EnqueueTask, HandlersFresh
<1>2. /\ row' = [row EXCEPT ![t] = "pending"] /\ Push(t)
      /\ hpc' = [hpc EXCEPT ![t] = "mark"]
      /\ UNCHANGED <<lock, scan, wpc, wtask>>
  BY <1>1 DEF EnqueueTask, Enqueue, HandlerGoto, locals
<1>3. row \in [Tasks -> Status]
  BY DEF EngineInv, TypeOK
<1>4. hpc' \in [Tasks -> HandlerPC] /\ HandlersFresh'
  BY <1>1, <1>2, <1>3 DEF HandlersFresh, HandlerPC
<1>5. \A u \in Tasks : row[u] # "absent" => row'[u] # "absent"
  BY <1>2, <1>3
<1>6. TasksExist'
  <2>1. \A n \in 1..Len(ch') : row'[ch'[n]] # "absent"
    BY <1>2, <1>3, <1>5, PushedRows
  <2>2. \A w \in Workers : wpc[w] # "idle" => wtask[w] \in Tasks
    BY DEF EngineInv, LocalsSound
  <2>3. scan \subseteq Tasks
    BY DEF EngineInv, TypeOK
  <2> QED
    BY <1>2, <1>5, <2>1, <2>2, <2>3 DEF TasksExist
<1>7. HolderRows'
  <2> SUFFICES ASSUME NEW w \in Workers, wpc[w] # "idle" PROVE row'[wtask[w]] = row[wtask[w]]
    BY <1>2 DEF HolderRows
  <2> QED
    BY <1>1, <1>2, <1>3, HeldTaskHasNoHandler
<1>8. \A u \in Tasks : CallsBack(u)' = CallsBack(u) /\ CalledBack(u)' = CalledBack(u)
  BY <1>2 DEF CallsBack, CalledBack
<1>9. \A u \in Tasks : Relies(u)' => Relies(u)
  <2>1. Relies(t)
    BY <1>1 DEF Relies, InHandler
  <2>2. \A u \in Tasks \ {t} : Relies(u)' => Relies(u)
    BY <1>2, <1>3, <1>8 DEF Relies, InHandler
  <2> QED
    BY <2>1, <2>2
<1>10. LockExclusive'
  BY <1>2, <1>9, FewerRelySameLock
<1>11. CheckedFree'
  <2> SUFFICES ASSUME NEW u \in Tasks, NEW v \in Tasks, hpc'[u] \in {"apply", "enqueue"},
                      IssueOf[v] = IssueOf[u], row'[v] \in Live
               PROVE  FALSE
    BY DEF CheckedFree
  <2>1. u # t /\ hpc[u] \in {"apply", "enqueue"}
    BY <1>2
  <2>2. v = t
    BY <1>2, <1>3, <2>1 DEF CheckedFree
  <2>3. Relies(u) /\ Relies(t)
    BY <1>1, <2>1 DEF Relies, InHandler
  <2> QED
    BY <2>1, <2>2, <2>3 DEF LockExclusive
<1>12. OneLiveTaskPerIssue'
  BY <1>1, <1>2, <1>3 DEF OneLiveTaskPerIssue, CheckedFree
<1> QED
  BY <1>1, <1>4, <1>6, <1>7, <1>10, <1>11, <1>12

-----------------------------------------------------------------------------
\* Workers.

\* A step of w that leaves the workflow alone keeps the invariant if it makes no
\* row live and nobody new rely on the lock.
LEMMA WorkerKeeps ==
  ASSUME Calm, UNCHANGED <<hpc, inbox, lock>>, TasksExist', HolderRows',
         \A u \in Tasks : row[u] = "absent" <=> row'[u] = "absent",
         \A u \in Tasks : row'[u] \in Live => row[u] \in Live,
         \A u \in Tasks : Relies(u)' => Relies(u)
  PROVE  LockInv'
<1> USE DEF Calm, LockInv
<1>1. HandlersFresh'
  BY DEF HandlersFresh
<1>2. LockExclusive'
  BY FewerRelySameLock
<1>3. CheckedFree' /\ OneLiveTaskPerIssue'
  BY NoNewLiveRow
<1> QED
  BY <1>1, <1>2, <1>3

\* Where a worker may go without touching a row, and what must hold of it then.
MayGo(w, pc) ==
  /\ wpc[w] \notin {"idle", "persist"}
  /\ pc \in WorkerPC \ {"idle", "panicCallback"}
  /\ pc \in {"mark", "register", "run", "backoff", "unregister", "writeback", "callback"} =>
       row[wtask[w]] \in Live
  /\ pc \in {"callback", "panicked"} => wpc[w] \in Serving

LEMMA QuietWorker ==
  ASSUME Calm, NEW w \in Workers, NEW pc, MayGo(w, pc), wpc' = [wpc EXCEPT ![w] = pc],
         UNCHANGED <<hpc, inbox, lock, row, ch, scan, wtask>>
  PROVE  LockInv'
<1> USE DEF Calm, LockInv
<1>1. wpc \in [Workers -> WorkerPC]
  BY DEF EngineInv, TypeOK
<1>2. TasksExist'
  BY <1>1 DEF TasksExist, MayGo
<1>3. HolderRows'
  BY <1>1 DEF HolderRows, MayGo
<1>4. ASSUME NEW u \in Tasks, CalledBack(u) PROVE CalledBack(u)'
  BY <1>1, <1>4 DEF CalledBack, MayGo
<1>5. ASSUME NEW u \in Tasks, CallsBack(u)' PROVE Relies(u)
  <2>1. PICK v \in Workers : wtask[v] = u /\ wpc'[v] \in {"callback", "panicked", "panicCallback"}
    BY <1>5 DEF CallsBack
  <2>2. wpc[v] \in Serving
    BY <1>1, <2>1 DEF MayGo, Serving
  <2> QED
    BY <2>1, <2>2, ServingRelies
<1>6. \A u \in Tasks : Relies(u)' => Relies(u)
  BY <1>4, <1>5 DEF Relies, InHandler
<1> QED
  BY <1>2, <1>3, <1>6, WorkerKeeps

\* No two workers with one task, seen from the rows: a step of w on the row of
\* its task leaves the rows of the other holders.
LEMMA OwnRow ==
  ASSUME Calm, NEW w \in Workers, wpc[w] \in Holding, NEW s \in Status \ {"absent"},
         row' = [row EXCEPT ![wtask[w]] = s]
  PROVE  /\ \A u \in Tasks \ {wtask[w]} : row'[u] = row[u]
         /\ row'[wtask[w]] = s
         /\ \A v \in Workers \ {w} : wpc[v] \in Holding => row'[wtask[v]] = row[wtask[v]]
         /\ \A u \in Tasks : row[u] = "absent" <=> row'[u] = "absent"
<1> USE DEF Calm, LockInv
<1>1. row \in [Tasks -> Status]
  BY DEF EngineInv, TypeOK
<1>2. wtask[w] \in Tasks /\ row[wtask[w]] # "absent"
  BY HeldTaskHasNoHandler DEF Holding
<1>3. \A v \in Workers \ {w} : wpc[v] \in Holding => wtask[v] # wtask[w]
  BY AloneWithTask
<1> QED
  BY <1>1, <1>2, <1>3

LEMMA RowWriter ==
  ASSUME Calm, NEW w \in Workers, wpc[w] \in Holding \ {"idle"}, NEW s \in Status \ {"absent"},
         NEW pc \in {"register", "panicCallback", "release"},
         row' = [row EXCEPT ![wtask[w]] = s],
         wpc' = [wpc EXCEPT ![w] = pc],
         s \in Live => wpc[w] = "mark" /\ pc = "register",
         pc = "register" => s \in Live,
         pc = "panicCallback" => s = "failed" /\ wpc[w] = "panicked",
         UNCHANGED <<hpc, inbox, lock, ch, scan, wtask>>
  PROVE  LockInv'
<1> USE DEF Calm, LockInv
<1>1. wpc \in [Workers -> WorkerPC] /\ row \in [Tasks -> Status]
  BY DEF EngineInv, TypeOK
<1>2. wtask[w] \in Tasks /\ row[wtask[w]] # "absent"
  BY HeldTaskHasNoHandler
<1>3. TasksExist'
  <2>1. \A v \in Workers : wpc[v] # "idle" => wtask[v] \in Tasks
    BY DEF EngineInv, LocalsSound
  <2>2. scan \subseteq Tasks /\ ch \in Seq(Tasks)
    BY DEF EngineInv, TypeOK
  <2>3. \A v \in Workers : wpc'[v] # "idle" => wpc[v] # "idle"
    BY <1>1
  <2> QED
    BY <2>1, <2>2, <2>3, OwnRow DEF TasksExist
<1>4. HolderRows'
  <2>1. \A v \in Workers \ {w} : wpc'[v] = wpc[v]
    BY <1>1
  <2>2. wpc'[w] = pc
    BY <1>1
  <2>3. ASSUME NEW v \in Workers \ {w}, wpc[v] \in Holding
        PROVE  row'[wtask[v]] = row[wtask[v]]
    BY <2>3, OwnRow
  <2>4. row'[wtask[w]] = s
    BY OwnRow
  <2> QED
    BY <2>1, <2>2, <2>3, <2>4 DEF HolderRows, Holding
<1>5. \A u \in Tasks : row'[u] \in Live => row[u] \in Live
  <2>1. s \in Live => row[wtask[w]] \in Live
    BY DEF HolderRows
  <2> QED
    BY <2>1, OwnRow
<1>6. ASSUME NEW u \in Tasks, CallsBack(u)' PROVE CallsBack(u)
  <2>1. PICK v \in Workers : wtask[v] = u /\ wpc'[v] \in {"callback", "panicked", "panicCallback"}
    BY <1>6 DEF CallsBack
  <2>2. wpc[v] \in {"callback", "panicked", "panicCallback"}
    BY <1>1, <2>1
  <2> QED
    BY <2>1, <2>2 DEF CallsBack
<1>7. ASSUME NEW u \in Tasks, row'[u] \in Live, CalledBack(u) PROVE CalledBack(u)'
  <2>1. PICK v \in Workers : wtask[v] = u /\ wpc[v] = "persist"
    BY <1>7 DEF CalledBack
  <2>2. CASE v = w
    <3>1. u = wtask[w] /\ wpc[w] = "persist"
      BY <2>1, <2>2
    <3>2. row'[wtask[w]] = s
      BY OwnRow
    <3> QED
      BY <1>7, <3>1, <3>2
  <2>3. CASE v # w
    BY <1>1, <2>1, <2>3 DEF CalledBack
  <2> QED
    BY <2>2, <2>3
<1>8. \A u \in Tasks : Relies(u)' => Relies(u)
  BY <1>5, <1>6, <1>7 DEF Relies, InHandler
<1> QED
  BY <1>3, <1>4, <1>5, <1>8, OwnRow, WorkerKeeps

LEMMA WorkerOnlyKeeps ==
  ASSUME Calm, NEW w \in Workers, WorkerOnly(w)
  PROVE  LockInv'
<1> USE DEF Calm, LockInv
<1>1. UNCHANGED <<hpc, inbox, lock>> /\ WorkerAlone(w)
  BY DEF WorkerOnly, handlerVars, workflowVars
<1>2. wpc \in [Workers -> WorkerPC] /\ row \in [Tasks -> Status]
  BY DEF EngineInv, TypeOK
<1>3. wpc[w] # "idle" => wtask[w] \in Tasks
  BY DEF EngineInv, LocalsSound
<1>4. CASE Claim(w)
  <2>1. /\ wpc[w] = "idle" /\ ch # <<>> /\ ch' = Tail(ch)
        /\ wpc' = [wpc EXCEPT ![w] = "check"]
        /\ wtask' = [wtask EXCEPT ![w] = Head(ch)]
        /\ UNCHANGED <<row, scan>>
    BY <1>4 DEF Claim, Goto, stored
  <2>2. ch \in Seq(Tasks) /\ wtask \in [Workers -> Tasks \cup {NoTask}]
    BY DEF EngineInv, TypeOK
  <2>3. TasksExist'
    <3>1. Head(ch) = ch[1] /\ 1 \in 1..Len(ch)
      BY <2>1, <2>2
    <3>2. \A n \in 1..Len(Tail(ch)) : n + 1 \in 1..Len(ch) /\ Tail(ch)[n] = ch[n + 1]
      BY <2>1, <2>2
    <3> QED
      BY <1>2, <2>1, <2>2, <3>1, <3>2 DEF TasksExist
  <2>4. HolderRows'
    BY <1>2, <2>1, <2>2 DEF HolderRows
  <2>5. \A u \in Tasks : CallsBack(u)' = CallsBack(u) /\ CalledBack(u)' = CalledBack(u)
    BY <1>2, <2>1, <2>2 DEF CallsBack, CalledBack
  <2>6. \A u \in Tasks : Relies(u)' = Relies(u)
    BY <1>1, <2>1, <2>5 DEF Relies, InHandler
  <2> QED
    BY <1>1, <2>1, <2>3, <2>4, <2>6, WorkerKeeps
<1>5. CASE Defer(w)
  <2>1. ch' = Tail(ch) /\ ch # <<>> /\ UNCHANGED <<row, scan, wpc, wtask>>
    BY <1>5 DEF Defer, stored, locals
  <2>2. ch \in Seq(Tasks)
    BY DEF EngineInv, TypeOK
  <2>3. \A n \in 1..Len(Tail(ch)) : n + 1 \in 1..Len(ch) /\ Tail(ch)[n] = ch[n + 1]
    BY <2>1, <2>2
  <2>4. TasksExist' /\ HolderRows'
    BY <2>1, <2>3 DEF TasksExist, HolderRows
  <2>5. \A u \in Tasks : Relies(u)' = Relies(u)
    BY <1>1, <2>1 DEF Relies, InHandler, CallsBack, CalledBack
  <2> QED
    BY <1>1, <2>1, <2>4, <2>5, WorkerKeeps
<1>6. CASE CheckRow(w)
  <2>1. PICK pc \in {"mark", "release"} :
          wpc' = [wpc EXCEPT ![w] = pc] /\ (pc = "mark" => row[wtask[w]] \in Live)
    BY <1>6 DEF CheckRow, Goto
  <2> QED
    BY <1>1, <1>6, <2>1, QuietWorker DEF CheckRow, MayGo, WorkerPC, Holding, stored, locals
<1>7. CASE MarkRunning(w)
  BY <1>1, <1>7, RowWriter DEF MarkRunning, Goto, Holding, Status, Live, locals
<1>8. CASE Register(w)
  BY <1>1, <1>8, QuietWorker DEF Register, Goto, MayGo, HolderRows, WorkerPC, Holding, stored
<1>9. CASE LoadAgentFails(w)
  BY <1>1, <1>9, QuietWorker
  DEF LoadAgentFails, Goto, MayGo, HolderRows, WorkerPC, Holding, Serving, stored
<1>10. CASE HubSubmit(w) \/ Deadline(w)
  <2>1. /\ wpc[w] \in {"run", "backoff"} /\ wpc' = wpc
        /\ UNCHANGED <<row, ch, scan, wtask>>
    BY <1>10 DEF HubSubmit, Deadline, stored, locals
  <2>2. wpc' = [wpc EXCEPT ![w] = wpc[w]]
    BY <1>2, <2>1
  <2>3. MayGo(w, wpc[w])
    BY <2>1 DEF MayGo, HolderRows, WorkerPC, Holding
  <2> QED
    BY <1>1, <2>1, <2>2, <2>3, QuietWorker
<1>11. CASE RunEnds(w)
  <2>1. PICK pc \in {"unregister", "backoff"} : wpc' = [wpc EXCEPT ![w] = pc]
    BY <1>11 DEF RunEnds, RunSucceeds, RunFails, Goto
  <2>2. wpc[w] = "run" /\ UNCHANGED <<row, ch, scan, wtask>>
    BY <1>11 DEF RunEnds, RunSucceeds, RunFails
  <2> QED
    BY <1>1, <2>1, <2>2, QuietWorker DEF MayGo, HolderRows, WorkerPC, Holding
<1>12. CASE Backoff(w)
  <2>1. PICK pc \in {"unregister", "run"} : wpc' = [wpc EXCEPT ![w] = pc]
    BY <1>12 DEF Backoff, Goto
  <2>2. wpc[w] = "backoff" /\ UNCHANGED <<row, ch, scan, wtask>>
    BY <1>12 DEF Backoff, stored
  <2> QED
    BY <1>1, <2>1, <2>2, QuietWorker DEF MayGo, HolderRows, WorkerPC, Holding
<1>13. CASE Unregister(w)
  <2>1. PICK pc \in {"release", "writeback", "callback"} : wpc' = [wpc EXCEPT ![w] = pc]
    BY <1>13 DEF Unregister, Goto
  <2>2. wpc[w] = "unregister" /\ UNCHANGED <<row, ch, scan, wtask>>
    BY <1>13 DEF Unregister, stored
  <2> QED
    BY <1>1, <2>1, <2>2, QuietWorker DEF MayGo, HolderRows, WorkerPC, Holding, Serving
<1>14. CASE WriteBack(w)
  BY <1>1, <1>14, QuietWorker
  DEF WriteBack, Goto, MayGo, HolderRows, WorkerPC, Holding, Serving, stored
<1>15. CASE Persist(w)
  <2>1. outcome[w] \in {"success", "failed", "partial"} /\ wpc[w] = "persist"
    BY <1>15 DEF Persist, EngineInv, LocalsSound
  <2> QED
    BY <1>1, <1>15, <2>1, RowWriter DEF Persist, Goto, Holding, Status, Live, locals
<1>16. CASE Panic(w)
  BY <1>1, <1>16, QuietWorker
  DEF Panic, Goto, MayGo, HolderRows, WorkerPC, Holding, Serving, stored, locals
<1>17. CASE PanicPersist(w)
  BY <1>1, <1>17, RowWriter DEF PanicPersist, Goto, Holding, Status, Live, locals
<1>18. CASE ReleaseSlot(w)
  BY <1>1, <1>18, QuietWorker
  DEF ReleaseSlot, Goto, MayGo, WorkerPC, Holding, Serving, stored, locals
<1>19. CASE Kick(w)
  <2>1. /\ wpc[w] = "kick" /\ wpc' = [wpc EXCEPT ![w] = "idle"]
        /\ wtask' = [wtask EXCEPT ![w] = NoTask]
        /\ UNCHANGED <<row, scan>>
        /\ ch' = ch \/ \E t \in Pending : Push(t)
    BY <1>19 DEF Kick, Goto, stored
  <2>2. \A n \in 1..Len(ch') : row[ch'[n]] # "absent"
    BY <2>1, PushedRows DEF Pending, TasksExist
  <2>3. TasksExist'
    BY <1>2, <2>1, <2>2 DEF TasksExist
  <2>4. HolderRows'
    BY <1>2, <2>1 DEF HolderRows
  <2>5. \A u \in Tasks : CallsBack(u)' => CallsBack(u)
    BY <1>2, <2>1 DEF CallsBack
  <2>6. \A u \in Tasks : CalledBack(u) => CalledBack(u)'
    BY <1>2, <2>1 DEF CalledBack
  <2>7. \A u \in Tasks : Relies(u)' => Relies(u)
    BY <1>1, <2>1, <2>5, <2>6 DEF Relies, InHandler
  <2> QED
    BY <1>1, <2>1, <2>3, <2>4, <2>7, WorkerKeeps
<1> QED
  BY <1>1, <1>4, <1>5, <1>6, <1>7, <1>8, <1>9, <1>10, <1>11, <1>12, <1>13, <1>14, <1>15,
     <1>16, <1>17, <1>18, <1>19
  DEF WorkerAlone, WorkerMoves

\* The callback of w is over: its task no longer relies on the lock, which is
\* released, or kept by a callback that gave up.
LEMMA CalledBackKeeps ==
  ASSUME Calm, NEW w \in Workers, WorkerCalls(w), UNCHANGED <<hpc, inbox>>,
         lock' = lock \/ lock' = lock \ {IssueOf[wtask[w]]}
  PROVE  LockInv'
<1> USE DEF Calm, LockInv
<1>1. wpc \in [Workers -> WorkerPC] /\ row \in [Tasks -> Status]
  BY DEF EngineInv, TypeOK
<1>2. PICK pc \in {"persist", "release"} :
        /\ wpc' = [wpc EXCEPT ![w] = pc]
        /\ wpc[w] = IF pc = "persist" THEN "callback" ELSE "panicCallback"
        /\ UNCHANGED <<row, ch, scan, wtask>>
  BY DEF WorkerCalls, Callback, PanicCallback, Goto, stored, locals
<1>3. PICK t \in Tasks : t = wtask[w] /\ Relies(t) /\ ~InHandler(t)
  BY <1>2, ServingRelies, HeldTaskHasNoHandler DEF Serving
<1>4. TasksExist' /\ HolderRows' /\ HandlersFresh'
  BY <1>1, <1>2 DEF TasksExist, HolderRows, HandlersFresh
<1>5. ~CallsBack(t)'
  <2> SUFFICES ASSUME NEW v \in Workers, wtask[v] = t,
                      wpc'[v] \in {"callback", "panicked", "panicCallback"}
               PROVE  FALSE
    BY <1>2 DEF CallsBack
  <2>1. v # w /\ wpc[v] = wpc'[v]
    BY <1>1, <1>2
  <2> QED
    BY <1>2, <1>3, <2>1, AloneWithTask DEF Holding
<1>6. row'[t] \in Live => CalledBack(t)'
  <2>1. CASE pc = "persist"
    BY <1>1, <1>2, <1>3, <2>1 DEF CalledBack
  <2>2. CASE pc = "release"
    BY <1>2, <1>3, <2>2 DEF HolderRows, Live
  <2> QED
    BY <2>1, <2>2
<1>7. ~Relies(t)'
  BY <1>3, <1>5, <1>6 DEF Relies, InHandler
<1>8. ASSUME NEW u \in Tasks, Relies(u)' PROVE Relies(u)
  <2>1. CalledBack(u) => CalledBack(u)'
    BY <1>1, <1>2 DEF CalledBack
  <2>2. CallsBack(u)' => CallsBack(u)
    BY <1>1, <1>2 DEF CallsBack
  <2> QED
    BY <1>2, <1>8, <2>1, <2>2 DEF Relies, InHandler
<1>9. LockExclusive'
  BY <1>3, <1>7, <1>8, FewerRelySameLock, ReleasedByOwner
<1>10. CheckedFree' /\ OneLiveTaskPerIssue'
  BY <1>2, NoNewLiveRow
<1> QED
  BY <1>4, <1>9, <1>10

LEMMA WorkersKeep ==
  ASSUME Calm, NEW w \in Workers,
         WorkerOnly(w) \/ CallbackRead(w) \/ CallbackWrite(w) \/ CallbackFault(w)
  PROVE  LockInv'
<1>1. CASE WorkerOnly(w)
  BY <1>1, WorkerOnlyKeeps
<1>2. CASE CallbackRead(w)
  BY <1>2, EngineAndLockUntouched DEF CallbackRead, handlerVars, workflowVars
<1>3. CASE CallbackWrite(w)
  BY <1>3, CalledBackKeeps DEF CallbackWrite, handlerVars
<1>4. CASE CallbackFault(w)
  BY <1>4, CalledBackKeeps DEF CallbackFault, handlerVars
<1> QED
  BY <1>1, <1>2, <1>3, <1>4

-----------------------------------------------------------------------------
\* The rest of the system.

LEMMA HandlersKeep ==
  ASSUME Calm, NEW t \in Tasks, Receive(t) \/ HandlerStep(t) \/ HandlerFault(t)
  PROVE  LockInv'
BY BeforeTheLock, TakeLockKeeps, CheckTasksKeeps, ApplyKeeps, EnqueueTaskKeeps, HandlerFaultKeeps
DEF HandlerStep

LEMMA ScannerKeeps ==
  ASSUME Calm, ScannerOnly
  PROVE  LockInv'
<1> USE DEF Calm, LockInv
<1>1. UNCHANGED <<hpc, inbox, lock, row, wpc, wtask>>
  BY DEF ScannerOnly, ScanTick, ScanPush, handlerVars, workflowVars, stored, locals
<1>2. TasksExist'
  <2>1. CASE ScanTick
    BY <1>1, <2>1 DEF ScanTick, TasksExist, Pending
  <2>2. CASE ScanPush
    <3>1. PICK t \in scan : scan' = scan \ {t} /\ Push(t)
      BY <2>2 DEF ScanPush
    <3>2. t \in Tasks /\ row[t] # "absent"
      BY <3>1 DEF EngineInv, TypeOK, TasksExist
    <3>3. \A n \in 1..Len(ch') : row'[ch'[n]] # "absent"
      BY <1>1, <3>1, <3>2, PushedRows
    <3> QED
      BY <1>1, <3>1, <3>3 DEF TasksExist
  <2> QED
    BY <2>1, <2>2 DEF ScannerOnly
<1>3. HolderRows'
  BY <1>1 DEF HolderRows
<1>4. \A u \in Tasks : Relies(u)' = Relies(u)
  BY <1>1 DEF Relies, InHandler, CallsBack, CalledBack
<1> QED
  BY <1>1, <1>2, <1>3, <1>4, WorkerKeeps

LEMMA LockInvInit == DispatchInit => LockInv
BY DEF DispatchInit, EngineInit, LockInv, HandlerPC, HandlersFresh, TasksExist, HolderRows,
       CheckedFree, LockExclusive, OneLiveTaskPerIssue, Relies, InHandler, CallsBack, CalledBack, Live

LEMMA LockInvStep ==
  ASSUME Calm, [DispatchNext]_dispatchVars
  PROVE  LockInv'
<1>1. CASE UNCHANGED dispatchVars
  BY <1>1, EngineAndLockUntouched DEF dispatchVars, handlerVars, workflowVars
<1>2. ASSUME NEW e \in Edits, EditRead(e) \/ EditWrite(e) PROVE LockInv'
  BY <1>2, EngineAndLockUntouched
  DEF EditRead, EditWrite, handlerVars, workflowVars, Calm, Undisturbed
<1>3. ASSUME NEW a \in Admins PROVE FALSE
  BY DEF Calm, Undisturbed
<1>4. ~DispatchRestart
  BY EngineAssumption DEF DispatchRestart, Restart, Calm, Undisturbed, EngineInv, TypeOK
<1> QED
  BY <1>1, <1>2, <1>3, <1>4, HandlersKeep, WorkersKeep, ScannerKeeps DEF DispatchNext

\* The inductive invariant of the lock holds of every process that lives, that
\* nobody resets and that runs in serial_queue.
THEOREM LockInvariant == Undisturbed /\ DispatchSpec => []LockInv
<1>1. Undisturbed /\ EngineInv /\ LockInv /\ [DispatchNext]_dispatchVars => LockInv'
  BY LockInvStep DEF Calm
<1>2. Undisturbed => []Undisturbed
  <2>1. Undisturbed => Undisturbed'
    BY DEF Undisturbed
  <2> QED
    BY <2>1, PTL
<1> QED
  BY <1>1, <1>2, LockInvInit, DispatchImplementsEngine, EngineInvariant, PTL DEF DispatchSpec

\* The in-flight lock does protect: whoever has taken it, up to the callback of the
\* task it led to, holds it alone, so that no callback, early return or error
\* path releases the lock of another delivery.
THEOREM LockProtects == Undisturbed /\ DispatchSpec => []LockExclusive
<1>1. LockInv => LockExclusive
  BY DEF LockInv
<1> QED
  BY <1>1, LockInvariant, PTL

\* An issue never has two tasks pending or running, whatever the number of
\* deliveries and of agents and however the handlers race.
THEOREM OneTaskPerIssue == Undisturbed /\ DispatchSpec => []OneLiveTaskPerIssue
<1>1. LockInv => OneLiveTaskPerIssue
  BY DEF LockInv
<1> QED
  BY <1>1, LockInvariant, PTL

-----------------------------------------------------------------------------
(***************************************************************************)
(* The stage "analyzing" is not left behind: in the same process, and as   *)
(* long as no database error interrupts a handler or a callback, an issue  *)
(* whose analyze agent is asked for analyses only is at that stage only    *)
(* while the analysis is under way.                                        *)
(***************************************************************************)

\* The contexts that handlers, callbacks and requests hold, or are about to write,
\* are contexts.
HandlerSnaps ==
  /\ hpc \in [Tasks -> HandlerPC]
  /\ hsnap \in [Tasks -> Ctx \cup {NoSnap}]
  /\ \A t \in Tasks : hpc[t] \in {"lock", "check", "apply"} => hsnap[t] \in Ctx

EditSnaps ==
  /\ epc \in [Edits -> EditPC]
  /\ esnap \in [Edits -> Ctx \cup {NoRow, NoSnap}]
  /\ \A e \in Edits : epc[e] = "write" => esnap[e] \in Ctx \cup {NoRow}

ContextsTyped ==
  /\ ctx \in [Issues -> Ctx]
  /\ wsnap \in [Workers -> Ctx \cup {NoSnap}]
  /\ asnap \in [Admins -> Ctx \cup {NoRow, NoSnap}]
  /\ HandlerSnaps /\ EditSnaps
  /\ known \subseteq Issues
  /\ faults \in Nat

\* The delivery or the task that accounts for the stage of its issue: it relies on
\* the lock, and its transition has been written.
Busy(t) ==
  \/ hpc[t] = "enqueue"
  \/ row[t] \in Live /\ ~CalledBack(t)
  \/ CallsBack(t)

\* The stage belongs to an analysis that is under way ...
AnalysisBusy(i) ==
  ctx[i].stage = "analyzing" =>
    \E t \in Tasks : IssueOf[t] = i /\ Role(t) = "analyze" /\ Busy(t)

\* ... and a callback that has read it is the callback of that analysis, which
\* finds the stage as it will overwrite it.
SnapshotFits(w) ==
  wsnap[w] # NoSnap =>
    /\ ctx[IssueOf[wtask[w]]].stage = "analyzing" => wsnap[w].stage = "analyzing"
    /\ wsnap[w].stage = "analyzing" => Role(wtask[w]) = "analyze"

SnapshotsInCallbacks ==
  \A w \in Workers : wsnap[w] # NoSnap => wpc[w] \in {"callback", "panicCallback"}

AnalyzeInv ==
  /\ SnapshotsInCallbacks
  /\ faults = 0 =>
       /\ \A i \in Issues : OnlyAnalyses(i) => AnalysisBusy(i)
       /\ \A w \in Workers :
            wsnap[w] # NoSnap /\ OnlyAnalyses(IssueOf[wtask[w]]) => SnapshotFits(w)

-----------------------------------------------------------------------------
\* What the rules do to a context.

LEMMA SnapsAreNoContexts == NoSnap \notin Ctx /\ NoRow \notin Ctx /\ NoSnap # NoRow
BY DEF NoSnap, NoRow, FreshContext, Ctx, Contexts, Stages

LEMMA FreshIsContext == FreshContext \in Ctx /\ FreshContext.stage # "analyzing"
BY DEF FreshContext, Ctx, Contexts, Stages

LEMMA TransitionContext ==
  ASSUME NEW c \in Ctx, NEW t \in Tasks
  PROVE  LET d == TransitionStage(c, StageOf(Role(t)), AgentOf[t], Role(t))
         IN  d \in Ctx /\ (d.stage = "analyzing" => Role(t) = "analyze")
<1>1. Role(t) \in Roles /\ AgentOf[t] \in Agents
  BY EngineAssumption, DispatchAssumption DEF Role
<1>2. StageOf(Role(t)) \in Stages /\ (StageOf(Role(t)) = "analyzing" => Role(t) = "analyze")
  BY <1>1 DEF StageOf, Roles, Stages
<1> QED
  BY <1>1, <1>2 DEF TransitionStage, Ctx, Contexts

LEMMA RolledBackContext ==
  ASSUME NEW c \in Ctx, NEW s \in Stages
  PROVE  RolledBack(c, s) \in Ctx /\ RolledBack(c, s).stage = s
BY DEF RolledBack, Ctx, Contexts

LEMMA RecordPrContext ==
  ASSUME NEW c \in Ctx, NEW pr \in {0, PrId}
  PROVE  RecordPr(c, pr) \in Ctx /\ RecordPr(c, pr).stage = c.stage
BY DEF RecordPr, Ctx, Contexts

\* The rollback never goes to analyzing.
LEMMA RollbackContext ==
  ASSUME NEW c \in Ctx
  PROVE  /\ RollbackTransientStage(c) \in Ctx
         /\ c.stage # "analyzing" => RollbackTransientStage(c).stage # "analyzing"
<1> DEFINE target == IF c.prev = "analyzing" THEN "idle" ELSE c.prev
<1>1. CASE c.prev = ""
  BY <1>1 DEF RollbackTransientStage, Ctx, Contexts, Stages
<1>2. CASE c.prev # "" /\ target = c.stage
  BY <1>2 DEF RollbackTransientStage, Ctx, Contexts
<1>3. CASE c.prev # "" /\ target # c.stage
  <2>1. target \in Stages /\ target # "analyzing"
    BY <1>3 DEF Ctx, Contexts, Stages
  <2>2. RollbackTransientStage(c) = RolledBack(c, target)
    BY <1>3 DEF RollbackTransientStage
  <2> QED
    BY <2>1, <2>2, RolledBackContext
<1> QED
  BY <1>1, <1>2, <1>3

\* A completion ends an analysis and otherwise does not start one.
LEMMA CompletionContext ==
  ASSUME NEW c \in Ctx, NEW pr \in {0, PrId}, NEW type \in TaskTypes
  PROVE  /\ OnTaskComplete(c, type, pr) \in Ctx
         /\ type = "analyze_issue" \/ c.stage # "analyzing" =>
              OnTaskComplete(c, type, pr).stage # "analyzing"
<1>1. CASE type = "analyze_issue"
  BY <1>1 DEF OnTaskComplete, Ctx, Contexts, Stages
<1>2. CASE type \in {"solve_issue", "fix_bug", "review_pr"}
  BY <1>2, RecordPrContext DEF OnTaskComplete
<1>3. CASE type = "reply_comment"
  BY <1>3, RecordPrContext, RollbackContext DEF OnTaskComplete
<1>4. CASE type = "solve_comment"
  BY <1>4, RecordPrContext, RollbackContext DEF OnTaskComplete
<1> QED
  BY <1>1, <1>2, <1>3, <1>4 DEF TaskTypes

LEMMA FailureContext ==
  ASSUME NEW c \in Ctx, c.stage = "analyzing"
  PROVE  /\ OnTaskFailed(c, "analyze_issue") \in Ctx
         /\ OnTaskFailed(c, "analyze_issue").stage # "analyzing"
<1> DEFINE target == IF c.prev \in {"", "analyzing"} THEN "idle" ELSE c.prev
<1>1. target \in Stages /\ target # "analyzing"
  BY DEF Ctx, Contexts, Stages
<1>2. OnTaskFailed(c, "analyze_issue") = RolledBack(c, target)
  BY DEF OnTaskFailed
<1> QED
  BY <1>1, <1>2, RolledBackContext

LEMMA ClosedAndReset ==
  ASSUME NEW c \in Ctx
  PROVE  /\ ClosedContext(c) \in Ctx /\ ClosedContext(c).stage = "done"
         /\ ResetContext(c) \in Ctx
<1>1. ClosedContext(c) \in Ctx /\ ClosedContext(c).stage = "done"
  BY DEF ClosedContext, Ctx, Contexts, Stages
<1>2. RolledBack(c, "idle") \in Ctx
  BY RolledBackContext DEF Stages
<1>3. ResetContext(c) \in Ctx
  BY <1>2 DEF ResetContext, Ctx, Contexts
<1> QED
  BY <1>1, <1>3

\* What a callback writes is a context.
LEMMA CallbackWritesContext ==
  ASSUME NEW w \in Workers, NEW c \in Ctx, NEW now \in Ctx, wtask[w] \in Tasks,
         NEW d \in CallbackContexts(w, c, now)
  PROVE  d \in Ctx
<1>1. TypeOf[wtask[w]] \in TaskTypes
  BY DispatchAssumption
<1>2. CASE Succeeded(w)
  <2>1. PICK pr \in ReportedPr(wtask[w]) : d = OnTaskComplete(c, TypeOf[wtask[w]], pr)
    BY <1>2 DEF CallbackContexts
  <2>2. pr \in {0, PrId}
    BY <2>1 DEF ReportedPr
  <2> QED
    BY <1>1, <2>1, <2>2, CompletionContext
<1>3. CASE ~Succeeded(w) /\ TypeOf[wtask[w]] = "analyze_issue" /\ c.stage = "analyzing"
  <2>1. d = OnTaskFailed(c, "analyze_issue")
    BY <1>3 DEF CallbackContexts
  <2> QED
    BY <1>3, <2>1, FailureContext
<1>4. CASE ~Succeeded(w) /\ ~(TypeOf[wtask[w]] = "analyze_issue" /\ c.stage = "analyzing")
  BY <1>4 DEF CallbackContexts
<1> QED
  BY <1>2, <1>3, <1>4

-----------------------------------------------------------------------------
\* The types of the contexts, under every step of the dispatcher.

LEMMA GotoTyped ==
  ASSUME HandlerSnaps, NEW t \in Tasks, NEW pc \in HandlerPC \ {"lock"}, HandlerGoto(t, pc),
         pc \in {"check", "apply"} => hpc[t] \in {"lock", "check"}
  PROVE  HandlerSnaps'
BY DEF HandlerSnaps, HandlerGoto

LEMMA DecideTyped ==
  ASSUME HandlerSnaps, NEW t \in Tasks, NEW c \in Ctx, Decide(t, c)
  PROVE  HandlerSnaps'
<1>1. CASE Admitted(t, c)
  BY <1>1 DEF Decide, HandlerSnaps, HandlerPC
<1>2. CASE ~Admitted(t, c)
  BY <1>2, GotoTyped DEF Decide, HandlerPC
<1> QED
  BY <1>1, <1>2

LEMMA HandlersTyped ==
  ASSUME ContextsTyped, NEW t \in Tasks, Receive(t) \/ HandlerStep(t) \/ HandlerFault(t)
  PROVE  ContextsTyped'
<1> USE DEF ContextsTyped
<1>1. IssueOf[t] \in Issues
  BY EngineAssumption
<1>2. UNCHANGED <<wsnap, asnap, epc, esnap>>
  BY DEF Receive, HandlerStep, HandlerFault, ReadContext, CreateContext, TakeLock, CheckTasks,
         Apply, EnqueueTask, MarkProcessed, EngineIdle, editVars
<1>3. EditSnaps'
  BY <1>2 DEF EditSnaps
<1>4. faults' \in Nat /\ known' \subseteq Issues
  BY <1>1 DEF Receive, HandlerStep, HandlerFault, ReadContext, CreateContext, TakeLock,
              CheckTasks, Apply, EnqueueTask, MarkProcessed, workflowVars
<1>5. CASE Apply(t)
  <2>1. hsnap[t] \in Ctx
    BY <1>5 DEF Apply, HandlerSnaps
  <2>2. ctx' \in [Issues -> Ctx]
    BY <1>1, <1>5, <2>1, TransitionContext DEF Apply
  <2>3. HandlerSnaps'
    BY <1>5, GotoTyped DEF Apply, HandlerPC
  <2> QED
    BY <1>2, <1>3, <1>4, <2>2, <2>3
<1>6. CASE Receive(t) \/ HandlerFault(t) \/ TakeLock(t) \/ CheckTasks(t) \/ MarkProcessed(t)
  <2>1. ctx' = ctx
    BY <1>6 DEF Receive, HandlerFault, TakeLock, CheckTasks, MarkProcessed, workflowVars
  <2>2. PICK pc \in HandlerPC \ {"lock"} :
          HandlerGoto(t, pc) /\ (pc \in {"check", "apply"} => hpc[t] \in {"lock", "check"})
    <3>1. CASE Receive(t)
      BY <3>1 DEF Receive, HandlerPC
    <3>2. CASE HandlerFault(t)
      BY <3>2 DEF HandlerFault, HandlerPC
    <3>3. CASE TakeLock(t)
      BY <3>3 DEF TakeLock, HandlerPC
    <3>4. CASE CheckTasks(t)
      BY <3>4 DEF CheckTasks, HandlerPC
    <3>5. CASE MarkProcessed(t)
      BY <3>5 DEF MarkProcessed, HandlerPC
    <3> QED
      BY <1>6, <3>1, <3>2, <3>3, <3>4, <3>5
  <2> QED
    BY <1>2, <1>3, <1>4, <2>1, <2>2, GotoTyped
<1>7. CASE ReadContext(t) \/ CreateContext(t) \/ EnqueueTask(t)
  <2>1. ctx' = ctx
    BY <1>7 DEF ReadContext, CreateContext, EnqueueTask, workflowVars
  <2>2. \/ \E c \in Ctx : Decide(t, c)
        \/ \E pc \in {"create", "idle", "mark"} : HandlerGoto(t, pc)
    BY <1>1, <1>7, FreshIsContext DEF ReadContext, CreateContext, EnqueueTask
  <2> QED
    BY <1>2, <1>3, <1>4, <2>1, <2>2, GotoTyped, DecideTyped DEF HandlerPC
<1> QED
  BY <1>5, <1>6, <1>7 DEF HandlerStep

LEMMA WorkersTyped ==
  ASSUME ContextsTyped, EngineInv, NEW w \in Workers,
         WorkerOnly(w) \/ CallbackRead(w) \/ CallbackWrite(w) \/ CallbackFault(w)
  PROVE  ContextsTyped'
<1> USE DEF ContextsTyped
<1>1. UNCHANGED <<hpc, hsnap, asnap, epc, esnap, known>>
  BY DEF WorkerOnly, CallbackRead, CallbackWrite, CallbackFault, handlerVars, editVars,
         workflowVars
<1>2. HandlerSnaps' /\ EditSnaps'
  BY <1>1 DEF HandlerSnaps, EditSnaps
<1>3. wpc[w] # "idle" => wtask[w] \in Tasks /\ IssueOf[wtask[w]] \in Issues
  BY EngineAssumption DEF EngineInv, LocalsSound
<1>4. CASE WorkerOnly(w) \/ CallbackFault(w)
  BY <1>1, <1>2, <1>4 DEF WorkerOnly, CallbackFault, workflowVars
<1>5. CASE CallbackRead(w)
  BY <1>1, <1>2, <1>3, <1>5 DEF CallbackRead, workflowVars
<1>6. CASE CallbackWrite(w)
  <2> DEFINE i == IssueOf[wtask[w]]
  <2>1. wpc[w] # "idle" /\ wsnap[w] \in Ctx
    BY <1>6 DEF CallbackWrite, WorkerCalls, Callback, PanicCallback
  <2>2. PICK d \in CallbackContexts(w, wsnap[w], ctx[i]) : ctx' = [ctx EXCEPT ![i] = d]
    BY <1>6 DEF CallbackWrite
  <2>3. d \in Ctx
    BY <1>3, <2>1, <2>2, CallbackWritesContext
  <2>4. ctx' \in [Issues -> Ctx]
    BY <2>2, <2>3
  <2> QED
    BY <1>1, <1>2, <1>6, <2>4 DEF CallbackWrite
<1> QED
  BY <1>4, <1>5, <1>6

LEMMA FoundTyped ==
  ASSUME ContextsTyped, NEW i
  PROVE  Found(i) \in Ctx \cup {NoRow}
BY DEF ContextsTyped, Found

LEMMA UpdatedTyped ==
  ASSUME ContextsTyped, NEW i, NEW found, NEW c, found # NoRow => c \in Ctx
  PROVE  Updated(i, found, c) \in [Issues -> Ctx]
BY DEF ContextsTyped, Updated

LEMMA RequestsTyped ==
  ASSUME ContextsTyped, NEW a \in Admins, AdminOnly(a) \/ ResetRead(a) \/ ResetEnds(a)
  PROVE  ContextsTyped'
<1> USE DEF ContextsTyped
<1>1. UNCHANGED <<hpc, hsnap, wsnap, epc, esnap, known, faults>>
  BY DEF AdminOnly, ResetRead, ResetEnds, handlerVars, editVars, workflowVars
<1>2. HandlerSnaps' /\ EditSnaps'
  BY <1>1 DEF HandlerSnaps, EditSnaps
<1>3. CASE AdminOnly(a)
  BY <1>1, <1>2, <1>3 DEF AdminOnly, workflowVars
<1>4. CASE ResetRead(a)
  <2>1. Found(aissue[a]) \in Ctx \cup {NoRow}
    BY FoundTyped
  <2> QED
    BY <1>1, <1>2, <1>4, <2>1 DEF ResetRead, workflowVars
<1>5. CASE ResetEnds(a)
  <2>1. ctx' \in [Issues -> Ctx] /\ asnap' \in [Admins -> Ctx \cup {NoRow, NoSnap}]
    <3>1. CASE UNCHANGED <<ctx, asnap>>
      BY <3>1
    <3>2. CASE /\ asnap[a] # NoSnap
               /\ ctx' = Updated(aissue[a], asnap[a], ResetContext(asnap[a]))
               /\ asnap' = [asnap EXCEPT ![a] = NoSnap]
      <4>1. asnap[a] # NoRow => ResetContext(asnap[a]) \in Ctx
        BY <3>2, ClosedAndReset
      <4> QED
        BY <3>2, <4>1, UpdatedTyped
    <3> QED
      BY <1>5, <3>1, <3>2 DEF ResetEnds
  <2> QED
    BY <1>1, <1>2, <2>1
<1> QED
  BY <1>3, <1>4, <1>5

LEMMA EditsTyped ==
  ASSUME ContextsTyped, NEW e \in Edits, EditRead(e) \/ EditWrite(e)
  PROVE  ContextsTyped'
<1> USE DEF ContextsTyped
<1>1. UNCHANGED <<hpc, hsnap, wsnap, asnap, known, faults>>
  BY DEF EditRead, EditWrite, handlerVars, workflowVars
<1>2. HandlerSnaps'
  BY <1>1 DEF HandlerSnaps
<1>3. CASE EditRead(e)
  <2>1. Found(EditIssue[e]) \in Ctx \cup {NoRow}
    BY FoundTyped
  <2>2. EditSnaps'
    BY <1>3, <2>1 DEF EditRead, EditSnaps, EditPC
  <2> QED
    BY <1>1, <1>2, <1>3, <2>2 DEF EditRead, workflowVars
<1>4. CASE EditWrite(e)
  <2>1. esnap[e] \in Ctx \cup {NoRow}
    BY <1>4 DEF EditWrite, EditSnaps
  <2>2. ctx' \in [Issues -> Ctx]
    <3> DEFINE d == IF EditKind[e] = "close" THEN ClosedContext(esnap[e])
                    ELSE ResetContext(esnap[e])
    <3>1. esnap[e] # NoRow => d \in Ctx
      BY <2>1, ClosedAndReset
    <3>2. ctx' = Updated(EditIssue[e], esnap[e], d)
      BY <1>4 DEF EditWrite
    <3> HIDE DEF d
    <3> QED
      BY <3>1, <3>2, UpdatedTyped
  <2>3. EditSnaps'
    BY <1>4 DEF EditWrite, EditSnaps, EditPC
  <2> QED
    BY <1>1, <1>2, <2>2, <2>3
<1> QED
  BY <1>3, <1>4

LEMMA RestartTyped ==
  ASSUME ContextsTyped, DispatchRestart
  PROVE  ContextsTyped'
<1> USE DEF ContextsTyped
<1>1. HandlerSnaps'
  BY DEF DispatchRestart, HandlerSnaps, HandlerPC
<1>2. EditSnaps'
  BY SnapsAreNoContexts DEF DispatchRestart, EditSnaps, EditPC
<1> QED
  BY <1>1, <1>2 DEF DispatchRestart

LEMMA ContextsInit == DispatchInit => ContextsTyped
BY FreshIsContext
DEF DispatchInit, ContextsTyped, HandlerSnaps, HandlerPC, EditSnaps, EditPC

LEMMA ContextsStep ==
  ASSUME ContextsTyped, EngineInv, [DispatchNext]_dispatchVars
  PROVE  ContextsTyped'
<1>1. CASE UNCHANGED dispatchVars
  BY <1>1 DEF dispatchVars, handlerVars, workflowVars, editVars, ContextsTyped, HandlerSnaps,
              EditSnaps
<1>2. CASE ScannerOnly
  BY <1>2 DEF ScannerOnly, handlerVars, workflowVars, editVars, ContextsTyped, HandlerSnaps,
              EditSnaps
<1> QED
  BY <1>1, <1>2, HandlersTyped, WorkersTyped, RequestsTyped, EditsTyped, RestartTyped
  DEF DispatchNext

\* Whatever is read, kept across other statements and written back is a context:
\* also with restarts, resets and database errors.
THEOREM DispatchContexts == DispatchSpec => []ContextsTyped
<1>1. EngineInv /\ ContextsTyped /\ [DispatchNext]_dispatchVars => ContextsTyped'
  BY ContextsStep
<1> QED
  BY <1>1, ContextsInit, DispatchImplementsEngine, EngineInvariant, PTL DEF DispatchSpec

-----------------------------------------------------------------------------
\* Who is busy.

LEMMA BusyRelies ==
  ASSUME NEW t \in Tasks, Busy(t)
  PROVE  Relies(t)
BY DEF Busy, Relies, InHandler

\* The task of a callback is the only one of its issue that can be busy.
LEMMA CallerIsBusyOne ==
  ASSUME Calm, NEW w \in Workers, wpc[w] \in {"callback", "panicCallback"},
         NEW t \in Tasks, IssueOf[t] = IssueOf[wtask[w]], Busy(t)
  PROVE  t = wtask[w]
<1>1. wtask[w] \in Tasks /\ Relies(wtask[w])
  BY ServingRelies DEF Serving
<1>2. Relies(t)
  BY BusyRelies
<1> QED
  BY <1>1, <1>2 DEF Calm, LockInv, LockExclusive

\* Only the end of its callback, or an error, makes a task or a delivery idle.
LEMMA HandlerKeepsBusy ==
  ASSUME Calm, NEW t \in Tasks, Receive(t) \/ HandlerStep(t), NEW u \in Tasks, Busy(u)
  PROVE  Busy(u)'
<1> USE DEF Calm, LockInv
<1>1. CASE EnqueueTask(t)
  <2>1. /\ row' = [row EXCEPT ![t] = "pending"]
        /\ hpc' = [hpc EXCEPT ![t] = "mark"]
        /\ UNCHANGED <<wpc, wtask>>
    BY <1>1 DEF EnqueueTask, Enqueue, HandlerGoto, HandlersFresh, locals
  <2>2. row[t] = "absent" /\ row \in [Tasks -> Status]
    BY <1>1 DEF EnqueueTask, HandlersFresh, EngineInv, TypeOK
  <2>3. CallsBack(u)' = CallsBack(u) /\ CalledBack(u)' = CalledBack(u)
    BY <2>1 DEF CallsBack, CalledBack
  <2>4. CASE u = t
    BY <2>1, <2>2, <2>3, <2>4, NoRowNoWorker DEF Busy, Live
  <2>5. CASE u # t
    BY <2>1, <2>2, <2>3, <2>5 DEF Busy
  <2> QED
    BY <2>4, <2>5
<1>2. CASE ~EnqueueTask(t)
  <2>1. UNCHANGED engineVars
    BY <1>2 DEF Receive, HandlerStep, ReadContext, CreateContext, TakeLock, CheckTasks, Apply,
                MarkProcessed, EngineIdle
  <2>2. hpc[u] = "enqueue" => hpc'[u] = "enqueue"
    <3>1. CASE Receive(t)
      BY <3>1 DEF Receive, HandlerGoto, HandlersFresh
    <3>2. CASE ReadContext(t) \/ CreateContext(t)
      <4>1. PICK pc \in {"lock", "mark", "create", "idle"} : hpc' = [hpc EXCEPT ![t] = pc]
        BY <3>2, DecideGoes DEF ReadContext, CreateContext, HandlerGoto
      <4> QED
        BY <3>2, <4>1 DEF ReadContext, CreateContext
    <3>3. CASE TakeLock(t) \/ CheckTasks(t) \/ Apply(t) \/ MarkProcessed(t)
      BY <3>3 DEF TakeLock, CheckTasks, Apply, MarkProcessed, HandlerGoto
    <3> QED
      BY <1>2, <3>1, <3>2, <3>3 DEF HandlerStep
  <2> QED
    BY <2>1, <2>2, EngineUntouched DEF Busy
<1> QED
  BY <1>1, <1>2

\* The program counters that tell who calls back, from one step of w to the next.
LEMMA PcKeepsBusy ==
  ASSUME Calm, NEW w \in Workers, NEW pc \in WorkerPC,
         wpc' = [wpc EXCEPT ![w] = pc], wtask' = wtask, hpc' = hpc,
         pc # "persist",
         wpc[w] \in {"callback", "panicked", "panicCallback"} =>
           pc \in {"callback", "panicked", "panicCallback"},
         NEW u \in Tasks, Busy(u),
         row[u] \in Live /\ ~CalledBack(u) =>
           row'[u] \in Live \/ (u = wtask[w] /\ pc = "panicCallback")
  PROVE  Busy(u)'
<1>1. wpc \in [Workers -> WorkerPC]
  BY DEF Calm, EngineInv, TypeOK
<1>2. CallsBack(u) => CallsBack(u)'
  BY <1>1 DEF CallsBack
<1>3. CalledBack(u)' => CalledBack(u)
  BY <1>1 DEF CalledBack
<1>4. u = wtask[w] /\ pc = "panicCallback" => CallsBack(u)'
  BY <1>1 DEF CallsBack
<1> QED
  BY <1>2, <1>3, <1>4 DEF Busy

LEMMA WorkerKeepsBusy ==
  ASSUME Calm, NEW w \in Workers, WorkerAlone(w), hpc' = hpc, NEW u \in Tasks, Busy(u)
  PROVE  Busy(u)'
<1> USE DEF Calm
<1>1. wpc \in [Workers -> WorkerPC] /\ row \in [Tasks -> Status]
      /\ wtask \in [Workers -> Tasks \cup {NoTask}]
  BY DEF EngineInv, TypeOK
<1>2. CASE Claim(w) \/ Kick(w)
  <2>1. /\ wpc[w] \in {"idle", "kick"} /\ row' = row
        /\ \A v \in Workers \ {w} : wpc'[v] = wpc[v] /\ wtask'[v] = wtask[v]
        /\ wpc'[w] \in {"check", "idle"}
    BY <1>1, <1>2 DEF Claim, Kick, Goto, stored
  <2>2. CallsBack(u) => CallsBack(u)'
    BY <2>1 DEF CallsBack
  <2>3. CalledBack(u)' => CalledBack(u)
    BY <2>1 DEF CalledBack
  <2> QED
    BY <2>1, <2>2, <2>3 DEF Busy
<1>3. CASE Defer(w) \/ HubSubmit(w) \/ Deadline(w)
  BY <1>3 DEF Defer, HubSubmit, Deadline, stored, locals, Busy, CallsBack, CalledBack
<1>4. CASE CheckRow(w) \/ Register(w) \/ LoadAgentFails(w) \/ RunEnds(w) \/ Backoff(w)
           \/ Unregister(w) \/ WriteBack(w) \/ Panic(w) \/ ReleaseSlot(w)
  <2>1. PICK pc \in WorkerPC \ {"persist"} :
          /\ wpc' = [wpc EXCEPT ![w] = pc]
          /\ wpc[w] \in {"callback", "panicked", "panicCallback"} => pc = "panicked"
          /\ UNCHANGED <<row, wtask>>
    <3>1. CASE CheckRow(w)
      BY <3>1 DEF CheckRow, Goto, WorkerPC, Holding, stored, locals
    <3>2. CASE Register(w)
      BY <3>2 DEF Register, Goto, WorkerPC, Holding, stored
    <3>3. CASE LoadAgentFails(w)
      BY <3>3 DEF LoadAgentFails, Goto, WorkerPC, Holding, stored
    <3>4. CASE RunEnds(w)
      BY <3>4 DEF RunEnds, RunSucceeds, RunFails, Goto, WorkerPC, Holding
    <3>5. CASE Backoff(w)
      BY <3>5 DEF Backoff, Goto, WorkerPC, Holding, stored
    <3>6. CASE Unregister(w)
      BY <3>6 DEF Unregister, Goto, WorkerPC, Holding, stored
    <3>7. CASE WriteBack(w)
      BY <3>7 DEF WriteBack, Goto, WorkerPC, Holding, stored
    <3>8. CASE Panic(w)
      BY <3>8 DEF Panic, Goto, WorkerPC, Holding, stored, locals
    <3>9. CASE ReleaseSlot(w)
      BY <3>9 DEF ReleaseSlot, Goto, WorkerPC, Holding, stored, locals
    <3> QED
      BY <1>4, <3>1, <3>2, <3>3, <3>4, <3>5, <3>6, <3>7, <3>8, <3>9
  <2>2. pc \in WorkerPC /\ pc # "persist"
        /\ (wpc[w] \in {"callback", "panicked", "panicCallback"} =>
              pc \in {"callback", "panicked", "panicCallback"})
    BY <2>1
  <2>3. row[u] \in Live => row'[u] \in Live
    BY <2>1
  <2>4. wpc' = [wpc EXCEPT ![w] = pc] /\ wtask' = wtask
    BY <2>1
  <2> QED
    BY <2>2, <2>3, <2>4, PcKeepsBusy
<1>5. CASE MarkRunning(w)
  <2>1. /\ wpc[w] = "mark" /\ wpc' = [wpc EXCEPT ![w] = "register"]
        /\ row' = [row EXCEPT ![wtask[w]] = "running"] /\ wtask' = wtask
    BY <1>5 DEF MarkRunning, Goto, locals
  <2>2. row[u] \in Live => row'[u] \in Live
    BY <1>1, <2>1 DEF Live
  <2>3. "register" \in WorkerPC
    BY DEF WorkerPC, Holding
  <2> QED
    BY <2>1, <2>2, <2>3, PcKeepsBusy
<1>6. CASE Persist(w)
  <2>1. /\ wpc[w] = "persist" /\ wpc' = [wpc EXCEPT ![w] = "release"]
        /\ row' = [row EXCEPT ![wtask[w]] = outcome[w]] /\ wtask' = wtask
    BY <1>6 DEF Persist, Goto, locals
  <2>2. u = wtask[w] => CalledBack(u)
    BY <2>1 DEF CalledBack
  <2>3. u # wtask[w] => row'[u] = row[u]
    BY <1>1, <2>1
  <2>4. row[u] \in Live /\ ~CalledBack(u) => row'[u] \in Live
    BY <2>2, <2>3
  <2>5. "release" \in WorkerPC
    BY DEF WorkerPC, Holding
  <2> QED
    BY <2>1, <2>4, <2>5, PcKeepsBusy
<1>7. CASE PanicPersist(w)
  <2>1. /\ wpc[w] = "panicked" /\ wpc' = [wpc EXCEPT ![w] = "panicCallback"]
        /\ row' = [row EXCEPT ![wtask[w]] = "failed"] /\ wtask' = wtask
    BY <1>7 DEF PanicPersist, Goto, locals
  <2>2. u # wtask[w] => row'[u] = row[u]
    BY <1>1, <2>1
  <2> QED
    BY <2>1, <2>2, PcKeepsBusy DEF WorkerPC, Holding
<1> QED
  BY <1>2, <1>3, <1>4, <1>5, <1>6, <1>7 DEF WorkerAlone, WorkerMoves

\* The end of a callback concerns its own task only.
LEMMA CallbackKeepsBusy ==
  ASSUME Calm, NEW w \in Workers, WorkerCalls(w), hpc' = hpc,
         NEW u \in Tasks, u # wtask[w], Busy(u)
  PROVE  Busy(u)'
<1>1. wpc \in [Workers -> WorkerPC]
  BY DEF Calm, EngineInv, TypeOK
<1>2. PICK pc \in {"persist", "release"} :
        wpc' = [wpc EXCEPT ![w] = pc] /\ UNCHANGED <<row, wtask>>
  BY DEF WorkerCalls, Callback, PanicCallback, Goto, stored, locals
<1>3. CallsBack(u) => CallsBack(u)'
  BY <1>1, <1>2 DEF CallsBack
<1>4. CalledBack(u)' => CalledBack(u)
  BY <1>1, <1>2 DEF CalledBack
<1> QED
  BY <1>2, <1>3, <1>4 DEF Busy

\* A worker's step leaves the other workers where they are.
LEMMA OthersStay ==
  ASSUME TypeOK, NEW w \in Workers, WorkerAlone(w), NEW v \in Workers \ {w}
  PROVE  wpc'[v] = wpc[v] /\ wtask'[v] = wtask[v]
<1> USE DEF TypeOK, Goto
<1>1. CASE Claim(w) \/ Defer(w) \/ CheckRow(w) \/ MarkRunning(w) \/ Register(w)
           \/ LoadAgentFails(w) \/ Backoff(w)
  BY <1>1 DEF Claim, Defer, CheckRow, MarkRunning, Register, LoadAgentFails, Backoff, locals
<1>2. CASE Unregister(w) \/ WriteBack(w) \/ Persist(w) \/ PanicPersist(w) \/ ReleaseSlot(w)
           \/ Kick(w)
  BY <1>2 DEF Unregister, WriteBack, Persist, PanicPersist, ReleaseSlot, Kick, locals
<1>3. CASE HubSubmit(w) \/ Deadline(w) \/ RunEnds(w) \/ Panic(w)
  BY <1>3 DEF HubSubmit, Deadline, RunEnds, RunSucceeds, RunFails, Panic, locals
<1> QED
  BY <1>1, <1>2, <1>3 DEF WorkerAlone, WorkerMoves

-----------------------------------------------------------------------------
\* The invariant of the analyses, step by step.

Steady == Calm /\ ContextsTyped /\ AnalyzeInv

\* A step that writes no context and ends no callback.
LEMMA NothingWritten ==
  ASSUME Steady, ctx' = ctx, faults' = faults,
         \A u \in Tasks : Busy(u) => Busy(u)',
         \A w \in Workers : wsnap'[w] # NoSnap =>
           /\ wsnap'[w] = wsnap[w] /\ wtask'[w] = wtask[w]
           /\ wpc'[w] \in {"callback", "panicCallback"}
  PROVE  AnalyzeInv'
<1> USE DEF Steady, AnalyzeInv
<1>1. SnapshotsInCallbacks'
  BY DEF SnapshotsInCallbacks
<1>2. ASSUME faults' = 0, NEW i \in Issues, OnlyAnalyses(i)
      PROVE  AnalysisBusy(i)'
  BY <1>2 DEF AnalysisBusy
<1>3. ASSUME faults' = 0, NEW w \in Workers, wsnap'[w] # NoSnap,
             OnlyAnalyses(IssueOf[wtask'[w]])
      PROVE  SnapshotFits(w)'
  <2>1. wsnap'[w] = wsnap[w] /\ wtask'[w] = wtask[w]
    BY <1>3
  <2>2. SnapshotFits(w)
    BY <1>3, <2>1
  <2> QED
    BY <2>1, <2>2 DEF SnapshotFits
<1> QED
  BY <1>1, <1>2, <1>3 DEF OnlyAnalyses

\* After a database error nothing is claimed but where the snapshots are.
LEMMA NothingClaimed ==
  ASSUME Steady, faults' = faults + 1, SnapshotsInCallbacks'
  PROVE  AnalyzeInv'
<1>1. faults' # 0
  BY DEF Steady, ContextsTyped
<1> QED
  BY <1>1 DEF AnalyzeInv

LEMMA HandlersAnalyze ==
  ASSUME Steady, NEW t \in Tasks, Receive(t) \/ HandlerStep(t) \/ HandlerFault(t)
  PROVE  AnalyzeInv'
<1> USE DEF Steady
<1>1. UNCHANGED <<wpc, wtask, wsnap>>
  BY DEF Receive, HandlerStep, HandlerFault, ReadContext, CreateContext, TakeLock, CheckTasks,
         Apply, EnqueueTask, Enqueue, MarkProcessed, EngineIdle, engineVars, locals
<1>2. CASE HandlerFault(t)
  <2>1. SnapshotsInCallbacks'
    BY <1>1 DEF AnalyzeInv, SnapshotsInCallbacks
  <2> QED
    BY <1>2, <2>1, NothingClaimed DEF HandlerFault
<1>3. CASE Apply(t)
  <2> DEFINE d == TransitionStage(hsnap[t], StageOf(Role(t)), AgentOf[t], Role(t))
  <2>1. hpc[t] = "apply" /\ ctx' = [ctx EXCEPT ![IssueOf[t]] = d] /\ faults' = faults
        /\ hpc' = [hpc EXCEPT ![t] = "enqueue"]
    BY <1>3 DEF Apply, HandlerGoto
  <2>2. hsnap[t] \in Ctx /\ IssueOf[t] \in Issues
    BY <2>1, EngineAssumption DEF ContextsTyped, HandlerSnaps
  <2>3. d.stage = "analyzing" => Role(t) = "analyze"
    BY <2>2, TransitionContext
  <2> HIDE DEF d
  <2>4. Busy(t)'
    BY <2>1 DEF Busy, Calm, LockInv
  <2>5. \A u \in Tasks : Busy(u) => Busy(u)'
    BY <1>3, HandlerKeepsBusy DEF HandlerStep
  <2>6. \A i \in Issues \ {IssueOf[t]} : ctx'[i] = ctx[i]
    BY <2>1, <2>2 DEF ContextsTyped
  <2>7. ctx'[IssueOf[t]] = d
    BY <2>1, <2>2 DEF ContextsTyped
  <2>8. ASSUME NEW w \in Workers, wsnap[w] # NoSnap
        PROVE  IssueOf[wtask[w]] \in Issues \ {IssueOf[t]}
    <3>1. wpc[w] \in {"callback", "panicCallback"}
      BY <2>8 DEF AnalyzeInv, SnapshotsInCallbacks
    <3>2. wtask[w] \in Tasks /\ Relies(wtask[w]) /\ ~InHandler(wtask[w])
      BY <3>1, ServingRelies, HeldTaskHasNoHandler DEF Serving
    <3>3. InHandler(t) /\ Relies(t)
      BY <2>1 DEF InHandler, Relies
    <3> QED
      BY <3>2, <3>3, EngineAssumption DEF Calm, LockInv, LockExclusive
  <2>9. ASSUME faults = 0, NEW i \in Issues, OnlyAnalyses(i) PROVE AnalysisBusy(i)'
    <3>1. CASE i = IssueOf[t]
      BY <2>3, <2>4, <2>7, <3>1 DEF AnalysisBusy
    <3>2. CASE i # IssueOf[t]
      BY <2>5, <2>6, <2>9, <3>2 DEF AnalysisBusy, AnalyzeInv
    <3> QED
      BY <3>1, <3>2
  <2>10. ASSUME faults = 0, NEW w \in Workers, wsnap[w] # NoSnap,
                OnlyAnalyses(IssueOf[wtask[w]])
         PROVE  SnapshotFits(w)'
    <3>1. SnapshotFits(w)
      BY <2>10 DEF AnalyzeInv
    <3>2. ctx'[IssueOf[wtask[w]]] = ctx[IssueOf[wtask[w]]]
      BY <2>6, <2>8, <2>10
    <3> QED
      BY <1>1, <3>1, <3>2 DEF SnapshotFits
  <2>11. SnapshotsInCallbacks'
    BY <1>1 DEF AnalyzeInv, SnapshotsInCallbacks
  <2> QED
    BY <1>1, <2>1, <2>9, <2>10, <2>11 DEF AnalyzeInv, OnlyAnalyses
<1>4. CASE ~HandlerFault(t) /\ ~Apply(t)
  <2>1. ctx' = ctx /\ faults' = faults /\ (Receive(t) \/ HandlerStep(t))
    BY <1>4 DEF Receive, HandlerStep, ReadContext, CreateContext, TakeLock, CheckTasks,
                EnqueueTask, MarkProcessed, workflowVars
  <2>2. \A u \in Tasks : Busy(u) => Busy(u)'
    BY <2>1, HandlerKeepsBusy
  <2> QED
    BY <1>1, <2>1, <2>2, NothingWritten DEF AnalyzeInv, SnapshotsInCallbacks
<1> QED
  BY <1>2, <1>3, <1>4

\* What the callback of the only busy task of its issue writes is not analyzing.
LEMMA CallbackEndsAnalysis ==
  ASSUME Steady, NEW w \in Workers, wsnap[w] # NoSnap, faults = 0,
         OnlyAnalyses(IssueOf[wtask[w]]),
         NEW d \in CallbackContexts(w, wsnap[w], ctx[IssueOf[wtask[w]]])
  PROVE  d.stage # "analyzing"
<1> DEFINE t == wtask[w]
           c == wsnap[w]
<1> USE DEF Steady
<1>1. wpc[w] \in {"callback", "panicCallback"} /\ SnapshotFits(w)
  BY DEF AnalyzeInv, SnapshotsInCallbacks
<1>2. t \in Tasks /\ c \in Ctx /\ TypeOf[t] \in TaskTypes
  BY <1>1, DispatchAssumption DEF Calm, EngineInv, LocalsSound, ContextsTyped
<1>3. c.stage = "analyzing" => TypeOf[t] = "analyze_issue"
  BY <1>1, <1>2 DEF SnapshotFits, OnlyAnalyses
<1>4. CASE Succeeded(w)
  <2>1. PICK pr \in ReportedPr(t) : d = OnTaskComplete(c, TypeOf[t], pr)
    BY <1>4 DEF CallbackContexts
  <2>2. pr \in {0, PrId}
    BY <2>1 DEF ReportedPr
  <2> QED
    BY <1>2, <1>3, <2>1, <2>2, CompletionContext
<1>5. CASE ~Succeeded(w) /\ TypeOf[t] = "analyze_issue" /\ c.stage = "analyzing"
  <2>1. d = OnTaskFailed(c, "analyze_issue")
    BY <1>5 DEF CallbackContexts
  <2> QED
    BY <1>2, <1>5, <2>1, FailureContext
<1>6. CASE ~Succeeded(w) /\ ~(TypeOf[t] = "analyze_issue" /\ c.stage = "analyzing")
  <2>1. d = ctx[IssueOf[t]]
    BY <1>6 DEF CallbackContexts
  <2>2. c.stage # "analyzing"
    BY <1>3, <1>6
  <2> QED
    BY <1>1, <2>1, <2>2 DEF SnapshotFits
<1> QED
  BY <1>4, <1>5, <1>6

LEMMA CallbackReadAnalyze ==
  ASSUME Steady, NEW w \in Workers, CallbackRead(w)
  PROVE  AnalyzeInv'
<1> USE DEF Steady
<1> DEFINE t == wtask[w]
<1>1. /\ wpc[w] \in {"callback", "panicCallback"}
      /\ wsnap' = [wsnap EXCEPT ![w] = ctx[IssueOf[t]]]
      /\ UNCHANGED <<wpc, wtask, ctx, faults, row, hpc>>
  BY DEF CallbackRead, CallbackRead, engineVars, locals, workflowVars, handlerVars
<1>2. t \in Tasks /\ IssueOf[t] \in Issues
  BY <1>1, EngineAssumption DEF Calm, EngineInv, LocalsSound
<1>3. wsnap'[w] = ctx[IssueOf[t]] /\ \A v \in Workers \ {w} : wsnap'[v] = wsnap[v]
  BY <1>1 DEF ContextsTyped
<1>4. \A u \in Tasks : Busy(u) => Busy(u)'
  BY <1>1 DEF Busy, CallsBack, CalledBack
<1>5. SnapshotsInCallbacks'
  BY <1>1, <1>3 DEF AnalyzeInv, SnapshotsInCallbacks
<1>6. ASSUME faults = 0, NEW i \in Issues, OnlyAnalyses(i) PROVE AnalysisBusy(i)'
  BY <1>1, <1>4, <1>6 DEF AnalyzeInv, AnalysisBusy
<1>7. ASSUME faults = 0, NEW v \in Workers, wsnap'[v] # NoSnap,
             OnlyAnalyses(IssueOf[wtask[v]])
      PROVE  SnapshotFits(v)'
  <2>1. CASE v = w
    <3>1. AnalysisBusy(IssueOf[t])
      BY <1>2, <1>7, <2>1 DEF AnalyzeInv
    <3>2. ctx[IssueOf[t]].stage = "analyzing" => Role(t) = "analyze"
      BY <1>1, <1>2, <3>1, CallerIsBusyOne DEF AnalysisBusy
    <3> QED
      BY <1>1, <1>3, <2>1, <3>2 DEF SnapshotFits
  <2>2. CASE v # w
    BY <1>1, <1>3, <1>7, <2>2 DEF AnalyzeInv, SnapshotFits
  <2> QED
    BY <2>1, <2>2
<1> QED
  BY <1>1, <1>5, <1>6, <1>7 DEF AnalyzeInv, OnlyAnalyses

LEMMA CallbackWriteAnalyze ==
  ASSUME Steady, NEW w \in Workers, CallbackWrite(w)
  PROVE  AnalyzeInv'
<1> USE DEF Steady
<1> DEFINE t == wtask[w]
<1>1. /\ wsnap[w] # NoSnap /\ WorkerCalls(w)
      /\ wsnap' = [wsnap EXCEPT ![w] = NoSnap]
      /\ UNCHANGED <<hpc, faults>>
  BY DEF CallbackWrite, handlerVars
<1>2. PICK d \in CallbackContexts(w, wsnap[w], ctx[IssueOf[t]]) :
        ctx' = [ctx EXCEPT ![IssueOf[t]] = d]
  BY DEF CallbackWrite
<1>3. PICK pc \in {"persist", "release"} :
        /\ wpc' = [wpc EXCEPT ![w] = pc]
        /\ wpc[w] \in {"callback", "panicCallback"}
        /\ UNCHANGED wtask
  BY <1>1 DEF WorkerCalls, Callback, PanicCallback, Goto, locals
<1>4. t \in Tasks /\ IssueOf[t] \in Issues
  BY <1>3, EngineAssumption DEF Calm, EngineInv, LocalsSound
<1>5. wsnap'[w] = NoSnap
      /\ \A v \in Workers \ {w} : wsnap'[v] = wsnap[v] /\ wpc'[v] = wpc[v]
  BY <1>1, <1>3 DEF ContextsTyped, Calm, EngineInv, TypeOK
<1>6. ctx'[IssueOf[t]] = d /\ \A i \in Issues \ {IssueOf[t]} : ctx'[i] = ctx[i]
  BY <1>2, <1>4 DEF ContextsTyped
<1>7. SnapshotsInCallbacks'
  BY <1>5 DEF AnalyzeInv, SnapshotsInCallbacks
<1>8. ASSUME faults = 0, NEW i \in Issues, OnlyAnalyses(i) PROVE AnalysisBusy(i)'
  <2>1. CASE i = IssueOf[t]
    BY <1>1, <1>2, <1>6, <1>8, <2>1, CallbackEndsAnalysis DEF AnalysisBusy
  <2>2. CASE i # IssueOf[t]
    <3>1. \A u \in Tasks : IssueOf[u] = i /\ Busy(u) => Busy(u)'
      BY <1>1, <2>2, CallbackKeepsBusy
    <3> QED
      BY <1>6, <1>8, <2>2, <3>1 DEF AnalysisBusy, AnalyzeInv
  <2> QED
    BY <2>1, <2>2
<1>9. ASSUME faults = 0, NEW v \in Workers, wsnap'[v] # NoSnap,
             OnlyAnalyses(IssueOf[wtask[v]])
      PROVE  SnapshotFits(v)'
  <2>1. v # w /\ wsnap'[v] = wsnap[v] /\ SnapshotFits(v)
    BY <1>5, <1>9 DEF AnalyzeInv
  <2>2. IssueOf[wtask[v]] \in Issues
    <3>1. wpc[v] \in {"callback", "panicCallback"}
      BY <1>9, <2>1 DEF AnalyzeInv, SnapshotsInCallbacks
    <3> QED
      BY <3>1, EngineAssumption DEF Calm, EngineInv, LocalsSound
  <2>3. CASE IssueOf[wtask[v]] = IssueOf[t]
    <3>1. ctx'[IssueOf[t]].stage # "analyzing"
      BY <1>1, <1>2, <1>6, <1>9, <2>3, CallbackEndsAnalysis
    <3> QED
      BY <1>3, <1>9, <2>1, <2>3, <3>1 DEF SnapshotFits
  <2>4. CASE IssueOf[wtask[v]] # IssueOf[t]
    BY <1>3, <1>6, <1>9, <2>1, <2>2, <2>4 DEF SnapshotFits
  <2> QED
    BY <2>3, <2>4
<1> QED
  BY <1>1, <1>3, <1>7, <1>8, <1>9 DEF AnalyzeInv, OnlyAnalyses

LEMMA WorkersAnalyze ==
  ASSUME Steady, NEW w \in Workers,
         WorkerOnly(w) \/ CallbackRead(w) \/ CallbackWrite(w) \/ CallbackFault(w)
  PROVE  AnalyzeInv'
<1> USE DEF Steady
<1>1. CASE WorkerOnly(w)
  <2>1. /\ WorkerAlone(w) /\ UNCHANGED <<ctx, faults, hpc>>
        /\ wsnap' = [wsnap EXCEPT ![w] = NoSnap]
    BY <1>1 DEF WorkerOnly, workflowVars, handlerVars
  <2>2. \A u \in Tasks : Busy(u) => Busy(u)'
    BY <2>1, WorkerKeepsBusy
  <2>3. \A v \in Workers \ {w} : wpc'[v] = wpc[v] /\ wtask'[v] = wtask[v]
    BY <2>1, OthersStay DEF Calm, EngineInv, TypeOK
  <2>4. \A v \in Workers : wsnap'[v] # NoSnap => v # w /\ wsnap'[v] = wsnap[v]
    BY <2>1 DEF ContextsTyped
  <2> QED
    BY <2>1, <2>2, <2>3, <2>4, NothingWritten DEF AnalyzeInv, SnapshotsInCallbacks
<1>2. CASE CallbackFault(w)
  <2>1. wsnap[w] = NoSnap /\ WorkerCalls(w) /\ wsnap' = wsnap /\ faults' = faults + 1
    BY <1>2 DEF CallbackFault
  <2>2. \A v \in Workers \ {w} : wpc'[v] = wpc[v]
    BY <2>1 DEF WorkerCalls, Callback, PanicCallback, Goto, Calm, EngineInv, TypeOK
  <2>3. SnapshotsInCallbacks'
    BY <2>1, <2>2 DEF AnalyzeInv, SnapshotsInCallbacks
  <2> QED
    BY <2>1, <2>3, NothingClaimed
<1> QED
  BY <1>1, <1>2, CallbackReadAnalyze, CallbackWriteAnalyze

\* A close moves an issue to done, from whichever snapshot.
LEMMA EditsAnalyze ==
  ASSUME Steady, NEW e \in Edits, EditRead(e) \/ EditWrite(e)
  PROVE  AnalyzeInv'
<1> USE DEF Steady
<1>1. UNCHANGED <<hpc, row, wpc, wtask, wsnap, faults>>
  BY DEF EditRead, EditWrite, handlerVars, engineVars, stored, locals
<1>2. \A u \in Tasks : Busy(u) => Busy(u)'
  BY <1>1 DEF Busy, CallsBack, CalledBack
<1>3. CASE ctx' = ctx
  BY <1>1, <1>2, <1>3, NothingWritten DEF AnalyzeInv, SnapshotsInCallbacks
<1>4. CASE ctx' # ctx
  <2>1. /\ esnap[e] # NoRow /\ esnap[e] \in Ctx
        /\ ctx' = [ctx EXCEPT ![EditIssue[e]] = ClosedContext(esnap[e])]
    BY <1>4 DEF EditRead, EditWrite, workflowVars, Updated, Calm, Undisturbed, ContextsTyped,
                EditSnaps
  <2>2. \A i \in Issues : ctx'[i].stage = "analyzing" => ctx'[i] = ctx[i]
    BY <2>1, ClosedAndReset DEF ContextsTyped
  <2>3. ASSUME faults = 0, NEW i \in Issues, OnlyAnalyses(i) PROVE AnalysisBusy(i)'
    BY <1>2, <2>2, <2>3 DEF AnalyzeInv, AnalysisBusy
  <2>4. ASSUME faults = 0, NEW w \in Workers, wsnap[w] # NoSnap,
               OnlyAnalyses(IssueOf[wtask[w]])
        PROVE  SnapshotFits(w)'
    <3>1. IssueOf[wtask[w]] \in Issues
      BY <2>4, EngineAssumption
      DEF AnalyzeInv, SnapshotsInCallbacks, Calm, EngineInv, LocalsSound
    <3>2. SnapshotFits(w)
      BY <2>4 DEF AnalyzeInv
    <3> QED
      BY <1>1, <2>2, <3>1, <3>2 DEF SnapshotFits
  <2> QED
    BY <1>1, <2>3, <2>4 DEF AnalyzeInv, SnapshotsInCallbacks, OnlyAnalyses
<1> QED
  BY <1>3, <1>4

LEMMA AnalyzeInit == DispatchInit => AnalyzeInv
BY FreshIsContext
DEF DispatchInit, AnalyzeInv, SnapshotsInCallbacks, AnalysisBusy

LEMMA AnalyzeStep ==
  ASSUME Steady, [DispatchNext]_dispatchVars
  PROVE  AnalyzeInv'
<1> USE DEF Steady
<1>1. ASSUME UNCHANGED <<hpc, row, wpc, wtask, wsnap, ctx, faults>> PROVE AnalyzeInv'
  <2>1. \A u \in Tasks : Busy(u) => Busy(u)'
    BY <1>1 DEF Busy, CallsBack, CalledBack
  <2> QED
    BY <1>1, <2>1, NothingWritten DEF AnalyzeInv, SnapshotsInCallbacks
<1>2. CASE UNCHANGED dispatchVars
  BY <1>1, <1>2 DEF dispatchVars, engineVars, handlerVars, workflowVars, stored, locals
<1>3. CASE ScannerOnly
  BY <1>1, <1>3 DEF ScannerOnly, ScanTick, ScanPush, handlerVars, workflowVars, stored, locals
<1>4. ASSUME NEW a \in Admins PROVE FALSE
  BY DEF Calm, Undisturbed
<1>5. ~DispatchRestart
  BY EngineAssumption DEF DispatchRestart, Restart, Calm, Undisturbed, EngineInv, TypeOK
<1> QED
  BY <1>2, <1>3, <1>4, <1>5, HandlersAnalyze, WorkersAnalyze, EditsAnalyze DEF DispatchNext

\* An issue is never left at analyzing: as long as no database error interrupts a
\* handler or a callback, the stage that keeps other events away is the stage of a
\* delivery or a task that is still to be served, whatever the failures, panics,
\* closes and races in between.  The condition Undisturbed is the property's own.
THEOREM AnalysisAccounted == DispatchSpec => []AnalyzingIsWork
<1>1. Undisturbed /\ EngineInv /\ LockInv /\ ContextsTyped /\ AnalyzeInv
        /\ [DispatchNext]_dispatchVars => AnalyzeInv'
  BY AnalyzeStep DEF Steady, Calm
<1>2. Undisturbed => []Undisturbed
  <2>1. Undisturbed => Undisturbed'
    BY DEF Undisturbed
  <2> QED
    BY <2>1, PTL
<1>3. Undisturbed /\ DispatchSpec => []AnalyzeInv
  BY <1>1, <1>2, AnalyzeInit, LockInvariant, DispatchContexts, DispatchImplementsEngine,
     EngineInvariant, PTL DEF DispatchSpec
<1>4. AnalyzeInv => AnalyzingIsWork
  BY DEF AnalyzeInv, AnalysisBusy, Busy, AnalyzingIsWork
<1>5. ~Undisturbed => AnalyzingIsWork
  BY DEF AnalyzingIsWork
<1>6. ~Undisturbed => []~Undisturbed
  <2>1. ~Undisturbed => ~Undisturbed'
    BY DEF Undisturbed
  <2> QED
    BY <2>1, PTL
<1> QED
  BY <1>3, <1>4, <1>5, <1>6, PTL
=============================================================================
