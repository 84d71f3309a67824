----------------------------- MODULE TaskEngine -----------------------------
(***************************************************************************)
(* The task queue and the executor: the tasks table, the in-memory         *)
(* channel, the worker goroutines, the registry of running tasks, the      *)
(* serial_queue agent slots, the pending scanner, the reset calls of the   *)
(* WebUI and the restart of the process.                                   *)
(*                                                                         *)
(* Source: internal/dispatcher/queue.go, executor.go, dispatcher.go and    *)
(* the task statements of internal/store.  Each action is one statement    *)
(* the database, the channel or a mutex makes atomic; what a goroutine     *)
(* does between two of them is local to it.                                *)
(*                                                                         *)
(* The statements of the store succeed here.  The executor does not stop   *)
(* for one that fails: a status is then not written, and a row that cannot *)
(* be read is taken for a live one.                                        *)
(*                                                                         *)
(* The workflow callbacks (onComplete, onFailed) are the step Callback     *)
(* here; module Dispatch says what they change.                            *)
(***************************************************************************)
EXTENDS Naturals, Sequences, FiniteSets

CONSTANTS
  Tasks,       \* task ids (rows of the tasks table)
  HubTasks,    \* those run by a hub backend, with a persisted handle
  Agents, AgentOf,
  Issues, IssueOf,
  Workers,     \* max_concurrent worker goroutines
  Admins,      \* concurrent WebUI reset requests
  QueueSize,   \* capacity of the channel
  MaxRetries,  \* task_retry_count
  Serial,      \* agent_concurrency = serial_queue
  MaxCrashes,  \* bound on process restarts
  NoTask, NoWorker, NoIssue

ASSUME EngineAssumption ==
  /\ HubTasks \subseteq Tasks
  /\ AgentOf \in [Tasks -> Agents]
  /\ IssueOf \in [Tasks -> Issues]
  /\ QueueSize \in Nat \ {0}
  /\ MaxRetries \in Nat
  /\ MaxCrashes \in Nat
  /\ Serial \in BOOLEAN
  /\ NoTask \notin Tasks
  /\ NoWorker \notin Workers
  /\ NoIssue \notin Issues

VARIABLES
  row,       \* tasks.status; "absent" before CreateTask
  handle,    \* hub_handles.status; "none" before SaveHubHandle
  ch,        \* TaskQueue.ch
  scan,      \* rows the scanner has read as pending and not yet pushed
  running,   \* Executor.running: the execution whose cancel is registered
  external,  \* runningTask.external of that entry
  busy,      \* Executor.agentBusy
  wpc,       \* program counter of a worker
  wtask,     \* its task
  attempt,   \* its attempt counter
  ctxDone,   \* its context is cancelled or past its deadline
  outcome,   \* the result its finalization will persist
  apc,       \* program counter of a reset request
  atask,     \* task it resets (CancelAndResetTask)
  aissue,    \* issue it resets (ResetIssue)
  crashes    \* restarts so far

stored    == <<row, handle>>
registry  == <<running, external>>
locals    == <<wtask, attempt, ctxDone, outcome>>
adminVars == <<apc, atask, aissue>>
engineVars ==
  <<row, handle, ch, scan, running, external, busy, wpc, wtask, attempt,
    ctxDone, outcome, apc, atask, aissue, crashes>>

Status       == {"absent", "pending", "running", "success", "failed", "partial"}
Live         == {"pending", "running"}
\* Mutant of Resettable: running rows are left out.
ResettableNotRunning == {"pending", "partial"}
Resettable   == {"pending", "running", "partial"}
HandleStatus == {"none", "running", "done", "failed", "canceled"}
Terminal     == {"done", "failed", "canceled"}
Outcomes     == {"none", "ok", "err", "success", "failed", "partial"}

\* A worker holds its agent's slot from tryAcquireAgentSlot to
\* releaseAgentSlot.
Holding ==
  {"check", "mark", "register", "run", "backoff", "unregister", "writeback",
   "callback", "persist", "panicked", "panicCallback", "release"}
WorkerPC == Holding \cup {"idle", "kick"}
AdminPC  == {"idle", "taskRow", "issueRows", "taskRelease", "issueRelease"}

Pending == {t \in Tasks : row[t] = "pending"}
NonTerminalHandle(t) == handle[t] \notin {"none"} \cup Terminal

-----------------------------------------------------------------------------
\* Non-blocking send on the channel: dropped when it is full.
Push(t) == ch' = IF Len(ch) < QueueSize THEN Append(ch, t) ELSE ch

\* TaskQueue.Enqueue: CreateTask and the push, under TaskQueue.mu.
Enqueue(t) ==
  /\ row[t] = "absent"
  /\ row' = [row EXCEPT ![t] = "pending"]
  /\ Push(t)
  /\ UNCHANGED <<handle, scan, registry, busy, wpc, locals, adminVars, crashes>>

\* One tick of the scanner reads the pending rows.  Rows already in the
\* channel are read again.  resetStaleRunningTasks, the rest of the tick,
\* updates no row: its WHERE asks for started_at < cutoff and no statement
\* of the executor sets started_at.
ScanTick ==
  /\ scan = {}
  /\ Pending # {}
  /\ scan' = Pending
  /\ UNCHANGED <<stored, ch, registry, busy, wpc, locals, adminVars, crashes>>

\* ... and pushes them one by one, whatever became of them meanwhile.
ScanPush ==
  \E t \in scan :
    /\ scan' = scan \ {t}
    /\ Push(t)
    /\ UNCHANGED <<stored, registry, busy, wpc, locals, adminVars, crashes>>

-----------------------------------------------------------------------------
\* Workers.

Goto(w, pc) == wpc' = [wpc EXCEPT ![w] = pc]

\* Mutant of SlotFree: the running rows alone decide, as with several processes.
SlotFreeByRows(t) ==
  \/ ~Serial
  \/ \A u \in Tasks \ {t} : AgentOf[u] = AgentOf[t] => row[u] # "running"

\* tryAcquireAgentSlot, decided under agentMu.
SlotFree(t) ==
  \/ ~Serial
  \/ /\ AgentOf[t] \notin busy
     /\ \A u \in Tasks \ {t} : AgentOf[u] = AgentOf[t] => row[u] # "running"

\* Dequeue a task and claim its agent.
Claim(w) ==
  /\ wpc[w] = "idle"
  /\ ch # <<>>
  /\ SlotFree(Head(ch))
  /\ ch' = Tail(ch)
  /\ busy' = IF Serial THEN busy \cup {AgentOf[Head(ch)]} ELSE busy
  /\ wtask' = [wtask EXCEPT ![w] = Head(ch)]
  /\ Goto(w, "check")
  /\ UNCHANGED <<stored, scan, registry, attempt, ctxDone, outcome, adminVars,
                 crashes>>

\* serial_queue with a busy agent: the task leaves the channel, stays pending.
Defer(w) ==
  /\ wpc[w] = "idle"
  /\ ch # <<>>
  /\ ~SlotFree(Head(ch))
  /\ ch' = Tail(ch)
  /\ UNCHANGED <<stored, scan, registry, busy, wpc, locals, adminVars, crashes>>

\* Mutant of CheckRow: the task taken from the channel is trusted.
CheckNothing(w) ==
  /\ wpc[w] = "check"
  /\ Goto(w, "mark")
  /\ UNCHANGED <<stored, ch, scan, registry, busy, locals, adminVars, crashes>>

\* execute: GetTask; only a pending or running row goes on, or one that could
\* not be read, a fault this module leaves out.
CheckRow(w) ==
  /\ wpc[w] = "check"
  /\ Goto(w, IF row[wtask[w]] \in Live THEN "mark" ELSE "release")
  /\ UNCHANGED <<stored, ch, scan, registry, busy, locals, adminVars, crashes>>

\* UpdateTaskStatus(id, "running"), unconditional on the row.
MarkRunning(w) ==
  /\ wpc[w] = "mark"
  /\ row' = [row EXCEPT ![wtask[w]] = "running"]
  /\ Goto(w, "register")
  /\ UNCHANGED <<handle, ch, scan, registry, busy, locals, adminVars, crashes>>

\* GetAgent found the agent: registerRunning overwrites any earlier entry.
Register(w) ==
  /\ wpc[w] = "register"
  /\ running' = [running EXCEPT ![wtask[w]] = w]
  /\ external' = [external EXCEPT ![wtask[w]] = FALSE]
  /\ attempt' = [attempt EXCEPT ![w] = 0]
  /\ ctxDone' = [ctxDone EXCEPT ![w] = FALSE]
  /\ Goto(w, "run")
  /\ UNCHANGED <<stored, ch, scan, busy, wtask, outcome, adminVars, crashes>>

\* GetAgent failed (the agent was deleted): finalize without registering.
LoadAgentFails(w) ==
  /\ wpc[w] = "register"
  /\ outcome' = [outcome EXCEPT ![w] = "failed"]
  /\ Goto(w, "callback")
  /\ UNCHANGED <<stored, ch, scan, registry, busy, wtask, attempt, ctxDone,
                 adminVars, crashes>>

\* runViaHub: submit and persist the handle, unless a non-terminal one is
\* there to be reused.
HubSubmit(w) ==
  /\ wpc[w] = "run"
  /\ wtask[w] \in HubTasks
  /\ ~NonTerminalHandle(wtask[w])
  /\ handle' = [handle EXCEPT ![wtask[w]] = "running"]
  /\ UNCHANGED <<row, ch, scan, registry, busy, wpc, locals, adminVars, crashes>>

\* The task timeout expires, or Shutdown cancels the context of every
\* execution before the process ends.
Deadline(w) ==
  /\ wpc[w] \in {"run", "backoff"}
  /\ ~ctxDone[w]
  /\ ctxDone' = [ctxDone EXCEPT ![w] = TRUE]
  /\ UNCHANGED <<stored, ch, scan, registry, busy, wpc, wtask, attempt, outcome,
                 adminVars, crashes>>

\* The runner returns a result; a hub run has marked its handle done.
RunSucceeds(w) ==
  /\ wpc[w] = "run"
  /\ wtask[w] \in HubTasks => NonTerminalHandle(wtask[w])
  /\ handle' = [handle EXCEPT ![wtask[w]] =
                  IF wtask[w] \in HubTasks THEN "done" ELSE @]
  /\ outcome' = [outcome EXCEPT ![w] = "ok"]
  /\ Goto(w, "unregister")
  /\ UNCHANGED <<row, ch, scan, registry, busy, wtask, attempt, ctxDone,
                 adminVars, crashes>>

\* The runner fails.  A hub run leaves its handle as it was (submit failed,
\* poll error), failed or canceled.  A whole-task retry follows unless the
\* context is done or the retries are used up.
RunFails(w) ==
  /\ wpc[w] = "run"
  /\ \E h \in IF NonTerminalHandle(wtask[w])
              THEN {handle[wtask[w]], "failed", "canceled"}
              ELSE {handle[wtask[w]]} :
       handle' = [handle EXCEPT ![wtask[w]] = h]
  /\ outcome' = [outcome EXCEPT ![w] = "err"]
  /\ Goto(w, IF ctxDone[w] \/ attempt[w] = MaxRetries
             THEN "unregister" ELSE "backoff")
  /\ UNCHANGED <<row, ch, scan, registry, busy, wtask, attempt, ctxDone,
                 adminVars, crashes>>

\* After the backoff the whole task runs again, unless its context is done.
Backoff(w) ==
  /\ wpc[w] = "backoff"
  /\ IF ctxDone[w]
     THEN Goto(w, "unregister") /\ UNCHANGED <<attempt, outcome>>
     ELSE /\ Goto(w, "run")
          /\ attempt' = [attempt EXCEPT ![w] = @ + 1]
          /\ outcome' = [outcome EXCEPT ![w] = "none"]
  /\ UNCHANGED <<stored, ch, scan, registry, busy, wtask, ctxDone, adminVars,
                 crashes>>

\* Mutant of DropEntry: an externally cancelled entry is kept.
DropEntryUnlessExternal(t) ==
  /\ running' = [running EXCEPT ![t] = IF external[t] THEN @ ELSE NoWorker]
  /\ external' = [external EXCEPT ![t] = FALSE]

DropEntry(t) ==
  /\ running' = [running EXCEPT ![t] = NoWorker]
  /\ external' = [external EXCEPT ![t] = FALSE]

\* unregisterRunning deletes the entry of the task, whoever registered it; an
\* externally cancelled execution skips the finalization.
Unregister(w) ==
  /\ wpc[w] = "unregister"
  /\ DropEntry(wtask[w])
  /\ IF external[wtask[w]]
     THEN Goto(w, "release") /\ UNCHANGED outcome
     ELSE IF outcome[w] = "ok"
          THEN Goto(w, "writeback") /\ UNCHANGED outcome
          ELSE Goto(w, "callback") /\ outcome' = [outcome EXCEPT ![w] = "failed"]
  /\ UNCHANGED <<stored, ch, scan, busy, wtask, attempt, ctxDone, adminVars, crashes>>

\* writeBackToGitea: a result that could not be posted is partial.
WriteBack(w) ==
  /\ wpc[w] = "writeback"
  /\ \E o \in {"success", "partial"} : outcome' = [outcome EXCEPT ![w] = o]
  /\ Goto(w, "callback")
  /\ UNCHANGED <<stored, ch, scan, registry, busy, wtask, attempt, ctxDone,
                 adminVars, crashes>>

\* onComplete for a success, onFailed otherwise, before the row is updated.
Callback(w) ==
  /\ wpc[w] = "callback"
  /\ Goto(w, "persist")
  /\ UNCHANGED <<stored, ch, scan, registry, busy, locals, adminVars, crashes>>

\* UpdateTaskStatus with the terminal status, unconditional on the row.
Persist(w) ==
  /\ wpc[w] = "persist"
  /\ row' = [row EXCEPT ![wtask[w]] = outcome[w]]
  /\ Goto(w, "release")
  /\ UNCHANGED <<handle, ch, scan, registry, busy, locals, adminVars, crashes>>

\* A panic of the runner or of the finalization is recovered; the entry is
\* dropped whatever its external flag says.
Panic(w) ==
  /\ wpc[w] \in {"run", "writeback", "callback"}
  /\ DropEntry(wtask[w])
  /\ Goto(w, "panicked")
  /\ UNCHANGED <<stored, ch, scan, busy, locals, adminVars, crashes>>

PanicPersist(w) ==
  /\ wpc[w] = "panicked"
  /\ row' = [row EXCEPT ![wtask[w]] = "failed"]
  /\ Goto(w, "panicCallback")
  /\ UNCHANGED <<handle, ch, scan, registry, busy, locals, adminVars, crashes>>

\* onFailed of the panic path.
PanicCallback(w) ==
  /\ wpc[w] = "panicCallback"
  /\ Goto(w, "release")
  /\ UNCHANGED <<stored, ch, scan, registry, busy, locals, adminVars, crashes>>

\* Mutant of ReleaseSlot: the early return of a skipped task keeps the slot.
ReleaseSlotOfExecuted(w) ==
  /\ wpc[w] = "release"
  /\ busy' = IF outcome[w] # "none" THEN busy \ {AgentOf[wtask[w]]} ELSE busy
  /\ Goto(w, "kick")
  /\ UNCHANGED <<stored, ch, scan, registry, locals, adminVars, crashes>>

ReleaseSlot(w) ==
  /\ wpc[w] = "release"
  /\ busy' = IF Serial THEN busy \ {AgentOf[wtask[w]]} ELSE busy
  /\ Goto(w, "kick")
  /\ UNCHANGED <<stored, ch, scan, registry, locals, adminVars, crashes>>

\* kickNextForAgent: in serial_queue, wake the next pending task of the
\* agent.  All tasks have one priority and created_at has a resolution of a
\* second, so which one is next is left open.
Kick(w) ==
  /\ wpc[w] = "kick"
  /\ LET next == {t \in Pending : AgentOf[t] = AgentOf[wtask[w]]}
     IN  IF Serial /\ next # {} THEN \E t \in next : Push(t) ELSE UNCHANGED ch
  /\ Goto(w, "idle")
  /\ wtask' = [wtask EXCEPT ![w] = NoTask]
  /\ outcome' = [outcome EXCEPT ![w] = "none"]
  /\ attempt' = [attempt EXCEPT ![w] = 0]
  /\ ctxDone' = [ctxDone EXCEPT ![w] = FALSE]
  /\ UNCHANGED <<stored, scan, registry, busy, adminVars, crashes>>

-----------------------------------------------------------------------------
\* Reset requests.

\* The running entries of S are flagged external and their contexts cancelled.
CancelRunning(S) ==
  /\ external' = [t \in Tasks |->
                    external[t] \/ (t \in S /\ running[t] # NoWorker)]
  /\ ctxDone' = [w \in Workers |->
                   ctxDone[w] \/ \E t \in S : running[t] = w]
  /\ UNCHANGED running

\* CancelAndResetTask: GetTask, CancelTask.
BeginTaskReset(a) ==
  \E t \in Tasks :
    /\ apc[a] = "idle"
    /\ row[t] # "absent"
    /\ CancelRunning({t})
    /\ atask' = [atask EXCEPT ![a] = t]
    /\ aissue' = [aissue EXCEPT ![a] = IssueOf[t]]
    /\ apc' = [apc EXCEPT ![a] = "taskRow"]
    /\ UNCHANGED <<stored, ch, scan, busy, wpc, wtask, attempt, outcome, crashes>>

\* ... ResetTask: an error for a row that is not resettable ends the request.
ResetTaskRow(a) ==
  /\ apc[a] = "taskRow"
  /\ IF row[atask[a]] \in Resettable
     THEN /\ row' = [row EXCEPT ![atask[a]] = "failed"]
          /\ apc' = [apc EXCEPT ![a] = "taskRelease"]
     ELSE apc' = [apc EXCEPT ![a] = "idle"] /\ UNCHANGED row
  /\ UNCHANGED <<handle, ch, scan, registry, busy, wpc, locals, atask, aissue, crashes>>

\* ResetIssue: CancelByIssue.
BeginIssueReset(a) ==
  \E i \in Issues :
    /\ apc[a] = "idle"
    /\ CancelRunning({t \in Tasks : IssueOf[t] = i})
    /\ aissue' = [aissue EXCEPT ![a] = i]
    /\ apc' = [apc EXCEPT ![a] = "issueRows"]
    /\ UNCHANGED <<stored, ch, scan, busy, wpc, wtask, attempt, outcome, atask, crashes>>

\* ... ResetTasksByIssue: one UPDATE over the rows of the issue.
ResetIssueRows(a) ==
  /\ apc[a] = "issueRows"
  /\ row' = [t \in Tasks |->
               IF IssueOf[t] = aissue[a] /\ row[t] \in Resettable
               THEN "failed" ELSE row[t]]
  /\ apc' = [apc EXCEPT ![a] = "issueRelease"]
  /\ UNCHANGED <<handle, ch, scan, registry, busy, wpc, locals, atask, aissue, crashes>>

\* The rest of both requests touches the lock and the workflow only.
EndReset(a) ==
  /\ apc[a] \in {"taskRelease", "issueRelease"}
  /\ apc' = [apc EXCEPT ![a] = "idle"]
  /\ UNCHANGED <<stored, ch, scan, registry, busy, wpc, locals, atask, aissue, crashes>>

-----------------------------------------------------------------------------
\* Restart: the process dies, taking its memory, and Dispatcher.Start runs.
\* Its three statements are idempotent, so a crash among them is one more
\* restart.

\* FailOrphanedRunningTasksExceptHub fails the running rows without a
\* non-terminal handle, ReattachHubHandles makes the others pending again.
RowAfterRestart(t) ==
  IF row[t] = "running"
  THEN IF NonTerminalHandle(t) THEN "pending" ELSE "failed"
  ELSE row[t]

\* ReattachHubHandles reconciles a handle whose task is terminal.
HandleAfterRestart(t) ==
  IF NonTerminalHandle(t) /\ row[t] \notin Live
  THEN IF row[t] \in {"success", "partial"} THEN "done" ELSE "failed"
  ELSE handle[t]

\* LoadPending pushes the pending rows while the channel has room, then
\* ReattachHubHandles the re-attached ones.
Reattached == {t \in Tasks : row[t] = "running" /\ NonTerminalHandle(t)}
StartupQueues ==
  {s \in UNION {[1..n -> Pending \cup Reattached] : n \in 0..QueueSize} :
     /\ \A i, j \in DOMAIN s : s[i] = s[j] => i = j
     /\ \A i, j \in DOMAIN s : i < j /\ s[i] \in Reattached => s[j] \in Reattached
     /\ Len(s) = QueueSize \/ \A t \in Pending \cup Reattached :
                                 \E i \in DOMAIN s : s[i] = t
     /\ (\E i \in DOMAIN s : s[i] \in Reattached) =>
          \A t \in Pending : \E i \in DOMAIN s : s[i] = t}

Restart ==
  /\ crashes < MaxCrashes
  /\ crashes' = crashes + 1
  /\ row' = [t \in Tasks |-> RowAfterRestart(t)]
  /\ handle' = [t \in Tasks |-> HandleAfterRestart(t)]
  /\ ch' \in StartupQueues
  /\ scan' = {}
  /\ running' = [t \in Tasks |-> NoWorker]
  /\ external' = [t \in Tasks |-> FALSE]
  /\ busy' = {}
  /\ wpc' = [w \in Workers |-> "idle"]
  /\ wtask' = [w \in Workers |-> NoTask]
  /\ attempt' = [w \in Workers |-> 0]
  /\ ctxDone' = [w \in Workers |-> FALSE]
  /\ outcome' = [w \in Workers |-> "none"]
  /\ apc' = [a \in Admins |-> "idle"]
  /\ atask' = [a \in Admins |-> NoTask]
  /\ aissue' = [a \in Admins |-> NoIssue]

-----------------------------------------------------------------------------
EngineInit ==
  /\ row = [t \in Tasks |-> "absent"]
  /\ handle = [t \in Tasks |-> "none"]
  /\ ch = <<>>
  /\ scan = {}
  /\ running = [t \in Tasks |-> NoWorker]
  /\ external = [t \in Tasks |-> FALSE]
  /\ busy = {}
  /\ wpc = [w \in Workers |-> "idle"]
  /\ wtask = [w \in Workers |-> NoTask]
  /\ attempt = [w \in Workers |-> 0]
  /\ ctxDone = [w \in Workers |-> FALSE]
  /\ outcome = [w \in Workers |-> "none"]
  /\ apc = [a \in Admins |-> "idle"]
  /\ atask = [a \in Admins |-> NoTask]
  /\ aissue = [a \in Admins |-> NoIssue]
  /\ crashes = 0

\* What a worker does by itself, short of running the task and of calling the
\* workflow back.
WorkerMoves(w) ==
  \/ Claim(w) \/ Defer(w) \/ CheckRow(w) \/ MarkRunning(w)
  \/ Register(w) \/ LoadAgentFails(w) \/ Backoff(w)
  \/ Unregister(w) \/ WriteBack(w) \/ Persist(w)
  \/ PanicPersist(w) \/ ReleaseSlot(w) \/ Kick(w)

WorkerCalls(w) == Callback(w) \/ PanicCallback(w)

RunEnds(w) == RunSucceeds(w) \/ RunFails(w)

\* The steps that no callback and no reset of the workflow accompanies.
WorkerAlone(w) ==
  WorkerMoves(w) \/ HubSubmit(w) \/ Deadline(w) \/ RunEnds(w) \/ Panic(w)

AdminAlone(a) ==
  \/ BeginTaskReset(a) \/ ResetTaskRow(a)
  \/ BeginIssueReset(a) \/ ResetIssueRows(a)

WorkerStep(w) == WorkerAlone(w) \/ WorkerCalls(w)
AdminStep(a) == AdminAlone(a) \/ EndReset(a)

EngineNext ==
  \/ \E t \in Tasks : Enqueue(t)
  \/ ScanTick \/ ScanPush
  \/ \E w \in Workers : WorkerStep(w)
  \/ \E a \in Admins : AdminStep(a)
  \/ Restart

EngineSpec == EngineInit /\ [][EngineNext]_engineVars

\* The scanner's ticker fires, goroutines are scheduled and a started request
\* runs to its end.  The context of every execution has a deadline, and a
\* runner whose context is done returns; nothing else makes a run end.
\* Nothing makes a webhook arrive, an administrator ask for a reset, a runner
\* panic or the process die.
EngineFairness ==
  /\ WF_engineVars(ScanTick) /\ WF_engineVars(ScanPush)
  /\ \A w \in Workers :
       /\ WF_engineVars(WorkerMoves(w) \/ WorkerCalls(w))
       /\ WF_engineVars(Deadline(w))
       /\ WF_engineVars(ctxDone[w] /\ RunEnds(w))
  /\ \A a \in Admins :
       WF_engineVars(ResetTaskRow(a) \/ ResetIssueRows(a) \/ EndReset(a))

FairEngineSpec == EngineSpec /\ EngineFairness

-----------------------------------------------------------------------------
TypeOK ==
  /\ row \in [Tasks -> Status]
  /\ handle \in [Tasks -> HandleStatus]
  /\ ch \in Seq(Tasks)
  /\ scan \subseteq Tasks
  /\ running \in [Tasks -> Workers \cup {NoWorker}]
  /\ external \in [Tasks -> BOOLEAN]
  /\ busy \subseteq Agents
  /\ wpc \in [Workers -> WorkerPC]
  /\ wtask \in [Workers -> Tasks \cup {NoTask}]
  /\ attempt \in [Workers -> 0..MaxRetries]
  /\ ctxDone \in [Workers -> BOOLEAN]
  /\ outcome \in [Workers -> Outcomes]
  /\ apc \in [Admins -> AdminPC]
  /\ atask \in [Admins -> Tasks \cup {NoTask}]
  /\ aissue \in [Admins -> Issues \cup {NoIssue}]
  /\ crashes \in 0..MaxCrashes
  /\ Len(ch) <= QueueSize

-----------------------------------------------------------------------------
\* Safety.

\* serial_queue runs one task of an agent at a time: two workers between
\* tryAcquireAgentSlot and releaseAgentSlot never serve the same agent, however
\* often the scanner, a kick or a restart has put a task in the channel, and
\* the slot of a serving worker is taken.
SerialAgentExclusive ==
  Serial =>
    \A w \in Workers : wpc[w] \in Holding =>
      /\ AgentOf[wtask[w]] \in busy
      /\ \A v \in Workers \ {w} :
           wpc[v] \in Holding => AgentOf[wtask[v]] # AgentOf[wtask[w]]

\* serial_queue, seen from the table that HasRunningTaskForAgent queries: no
\* two rows of an agent are running, even with the row of a cancelled
\* execution, which stays running until its reset reaches it, and with the row
\* of a reset that a worker puts back to running.
OneRunningRowPerAgent ==
  Serial =>
    \A t, u \in Tasks :
      /\ row[t] = "running"
      /\ row[u] = "running"
      /\ AgentOf[t] = AgentOf[u]
      => t = u

\* The registry entry of a task, what CancelTask and CancelByIssue act on,
\* belongs to a worker executing that very task: a reset never cancels the run
\* of another task.
RegistrySound ==
  \A t \in Tasks : running[t] # NoWorker =>
    /\ wtask[running[t]] = t
    /\ wpc[running[t]] \in {"run", "backoff", "unregister"}

\* serial_queue: a task that succeeded is never started, failed or delivered
\* again; neither a copy left in the channel nor a reset or a restart moves
\* its row.
SuccessIsFinal ==
  [][Serial => \A t \in Tasks : row[t] = "success" => row'[t] = "success"]_engineVars

\* What each program counter says of the locals, and what the invariants
\* above rest on: the result to persist is a terminal status, a retry is left
\* whenever a worker backs off, a holder's task is the only one of its agent
\* that may be running, and it has not succeeded before.
LocalsSound ==
  /\ \A w \in Workers :
       /\ wpc[w] # "idle" => wtask[w] \in Tasks
       /\ wpc[w] \in {"callback", "persist"} =>
            outcome[w] \in {"success", "failed", "partial"}
       /\ wpc[w] = "backoff" => attempt[w] < MaxRetries
  /\ \A a \in Admins : apc[a] = "taskRow" => atask[a] \in Tasks

AloneOnAgent ==
  Serial =>
    \A w \in Workers, t \in Tasks :
      /\ wpc[w] \in Holding
      /\ t # wtask[w]
      /\ AgentOf[t] = AgentOf[wtask[w]]
      => row[t] # "running"

NotSucceededYet ==
  Serial =>
    \A w \in Workers :
      wpc[w] \in Holding \ {"check", "release"} => row[wtask[w]] # "success"

\* The inductive invariant of the proofs: together these parts imply
\* themselves after every step, and every safety property above.
EngineInv ==
  /\ TypeOK /\ LocalsSound
  /\ RegistrySound
  /\ SerialAgentExclusive /\ AloneOnAgent /\ OneRunningRowPerAgent
  /\ NotSucceededYet

-----------------------------------------------------------------------------
\* The abstract specification of the table.  What its executor does with a task
\* is read off the program counters: from the check of the row to MarkRunning it
\* is taken, from there to the end of the execution it is started.
Executing ==
  {"register", "run", "backoff", "unregister", "writeback", "callback", "persist", "panicked"}
Phase(t) ==
  IF \E w \in Workers : wtask[w] = t /\ wpc[w] = "mark" THEN "taken"
  ELSE IF \E w \in Workers : wtask[w] = t /\ wpc[w] \in Executing THEN "started"
  ELSE "none"

Phases == [t \in Tasks |-> Phase(t)]

Table == INSTANCE TaskTable WITH Remote <- HubTasks, phase <- Phases

\* serial_queue: seen from the table alone, whatever is dropped from the channel,
\* pushed twice, retried or restarted, a task is started only while its agent does
\* nothing else, once each time it is taken, and ends once; only a hub's task is
\* pending again after a restart; a success is never touched.
TaskTableKept == Table!Spec

-----------------------------------------------------------------------------
\* Liveness.

\* An accepted task leaves the queue: dropped pushes, deferrals, duplicates
\* and restarts never leave it pending for ever.
PendingServed == \A t \in Tasks : row[t] = "pending" ~> row[t] # "pending"

\* A running task ends: its deadline, its reset or the restart takes care of
\* it, also when its execution was cancelled and skips its own finalization.
RunningEnds == \A t \in Tasks : row[t] = "running" ~> row[t] # "running"

\* A claimed agent slot is given back.
SlotReturned == \A a \in Agents : a \in busy ~> a \notin busy

=============================================================================
