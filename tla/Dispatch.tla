------------------------------ MODULE Dispatch ------------------------------
(***************************************************************************)
(* The dispatcher: webhook deliveries that many handler goroutines turn    *)
(* into tasks, the in-flight lock per issue, the workflow contexts they    *)
(* share with the callbacks of the executor, the reset requests, the       *)
(* lifecycle events and the restart.  TaskEngine supplies the queue and    *)
(* the workers, WorkflowRules what a handler or a callback does to a       *)
(* context.                                                                *)
(*                                                                         *)
(* Source: internal/ingress/gitea (handler.go, dedup.go) and               *)
(* internal/dispatcher (pipeline.go, dispatcher.go).  Delivery t, when it  *)
(* is served, creates task t.  A read and a write of a context are two     *)
(* statements, as in the code; a callback or a reset releases the lock in  *)
(* the same step as its write, the two being next to each other.           *)
(***************************************************************************)
EXTENDS TaskEngine, WorkflowRules

CONSTANTS
  RoleOf,     \* role of an agent
  TypeOf,     \* task type a delivery asks for
  Policy,     \* name of the preset
  PrId,       \* the pull request a coding task may open
  Edits,      \* events and comments that change the workflow without a task
  EditKind,   \* "close" (issues.closed, a merge) or "reset" (/matea reset)
  EditIssue,
  MaxFaults   \* bound on database errors

ASSUME DispatchAssumption ==
  /\ RoleOf \in [Agents -> Roles]
  /\ TypeOf \in [Tasks -> TaskTypes]
  /\ PrId \in Nat \ {0}
  /\ 0 \notin Agents
  /\ EditKind \in [Edits -> {"close", "reset"}]
  /\ EditIssue \in [Edits -> Issues]
  /\ MaxFaults \in Nat

VARIABLES
  inbox,   \* processed_deliveries.status; "none" before TryAccept
  hpc,     \* program counter of the handler of a delivery
  hsnap,   \* the context it decided on
  ctx,     \* workflow_contexts
  known,   \* the issues that have a row there
  lock,    \* Dispatcher.inFlight
  wsnap,   \* context a worker's callback has read
  asnap,   \* context a reset request has read
  epc,     \* program counter of an edit
  esnap,   \* context it has read
  faults   \* database errors so far

handlerVars  == <<inbox, hpc, hsnap>>
editVars     == <<epc, esnap>>
workflowVars == <<ctx, known, lock>>
dispatchVars == <<engineVars, handlerVars, workflowVars, wsnap, asnap, editVars, faults>>

HandlerPC == {"idle", "start", "create", "lock", "check", "apply", "enqueue", "mark"}
EditPC    == {"todo", "write", "done"}
NoSnap    == [FreshContext EXCEPT !.stage = ""]
NoRow     == [FreshContext EXCEPT !.stage = "no row"]
Ctx       == Contexts(Agents, {PrId})
policy    == BuildPolicy(Policy, << >>)

Role(t) == RoleOf[AgentOf[t]]
Admitted(t, c) ==
  /\ TransitionAllowed(c.stage, Role(t))
  /\ GatesAllow(policy, c, Role(t), AgentOf[t], FALSE)

-----------------------------------------------------------------------------
\* Handlers.

\* The context it decided on is dropped once it is written or no longer needed.
HandlerGoto(t, pc) ==
  /\ hpc' = [hpc EXCEPT ![t] = pc]
  /\ hsnap' = [hsnap EXCEPT ![t] = IF pc \in {"check", "apply"} THEN @ ELSE NoSnap]
EngineIdle == UNCHANGED <<engineVars, wsnap, asnap, editVars>>

\* Mutant of Receive: IsProcessed is not asked, a processed delivery is accepted again.
ReceiveAgain(t) ==
  /\ inbox[t] \in {"none", "processed"}
  /\ inbox' = [inbox EXCEPT ![t] = "accepted"]
  /\ HandlerGoto(t, "start")
  /\ UNCHANGED <<workflowVars, faults>> /\ EngineIdle

\* ServeHTTP: a new delivery is recorded as accepted and a goroutine started.
\* IsProcessed and TryAccept turn away every later copy of it.
Receive(t) ==
  /\ inbox[t] = "none"
  /\ inbox' = [inbox EXCEPT ![t] = "accepted"]
  /\ HandlerGoto(t, "start")
  /\ UNCHANGED <<workflowVars, faults>> /\ EngineIdle

\* Transition and the policy's gates on the context c just read.
Decide(t, c) ==
  IF Admitted(t, c)
  THEN hpc' = [hpc EXCEPT ![t] = "lock"] /\ hsnap' = [hsnap EXCEPT ![t] = c]
  ELSE HandlerGoto(t, "mark")

\* GetOrCreateWorkflowContext: the SELECT ...
ReadContext(t) ==
  /\ hpc[t] = "start"
  /\ IF IssueOf[t] \in known
     THEN Decide(t, ctx[IssueOf[t]])
     ELSE HandlerGoto(t, "create")
  /\ UNCHANGED <<inbox, workflowVars, faults>> /\ EngineIdle

\* ... and the INSERT, which UNIQUE(repo, issue_id) fails for the second of two
\* handlers that found no row.  The delivery stays accepted.
CreateContext(t) ==
  /\ hpc[t] = "create"
  /\ IF IssueOf[t] \in known
     THEN HandlerGoto(t, "idle")
     ELSE Decide(t, FreshContext)
  /\ known' = known \cup {IssueOf[t]}
  /\ UNCHANGED <<inbox, ctx, lock, faults>> /\ EngineIdle

\* Mutant of TakeLock: a held lock is taken all the same.
TakeLockRegardless(t) ==
  /\ hpc[t] = "lock"
  /\ HandlerGoto(t, "check")
  /\ lock' = lock \cup {IssueOf[t]}
  /\ UNCHANGED <<inbox, ctx, known, faults>> /\ EngineIdle

\* LoadOrStore; a held lock ends the event.
TakeLock(t) ==
  /\ hpc[t] = "lock"
  /\ HandlerGoto(t, IF IssueOf[t] \in lock THEN "mark" ELSE "check")
  /\ lock' = lock \cup {IssueOf[t]}
  /\ UNCHANGED <<inbox, ctx, known, faults>> /\ EngineIdle

LiveOn(i) == {t \in Tasks : IssueOf[t] = i /\ row[t] \in Live}

\* Mutant of CheckTasks: the lock is thought to be enough.
CheckTasksNot(t) ==
  /\ hpc[t] = "check"
  /\ HandlerGoto(t, "apply")
  /\ UNCHANGED <<inbox, workflowVars, faults>> /\ EngineIdle

\* HasPendingOrRunningTask, under the lock.
CheckTasks(t) ==
  /\ hpc[t] = "check"
  /\ IF LiveOn(IssueOf[t]) # {}
     THEN HandlerGoto(t, "mark") /\ lock' = lock \ {IssueOf[t]}
     ELSE HandlerGoto(t, "apply") /\ UNCHANGED lock
  /\ UNCHANGED <<inbox, ctx, known, faults>> /\ EngineIdle

\* ApplyTransition writes the context read before the lock was taken.
Apply(t) ==
  /\ hpc[t] = "apply"
  /\ ctx' = [ctx EXCEPT ![IssueOf[t]] =
               TransitionStage(hsnap[t], StageOf(Role(t)), AgentOf[t], Role(t))]
  /\ HandlerGoto(t, "enqueue")
  /\ UNCHANGED <<inbox, known, lock, faults>> /\ EngineIdle

\* Mutant of EnqueueTask: the error path keeps the lock.
EnqueueTaskKeepingLock(t) ==
  /\ hpc[t] = "enqueue"
  /\ IF row[t] = "absent"
     THEN Enqueue(t) /\ HandlerGoto(t, "mark")
     ELSE UNCHANGED engineVars /\ HandlerGoto(t, "idle")
  /\ UNCHANGED <<inbox, workflowVars, wsnap, asnap, editVars, faults>>

\* Enqueue; CreateTask refuses a delivery that has a task, and the lock is
\* released.
EnqueueTask(t) ==
  /\ hpc[t] = "enqueue"
  /\ IF row[t] = "absent"
     THEN Enqueue(t) /\ HandlerGoto(t, "mark") /\ UNCHANGED lock
     ELSE /\ UNCHANGED engineVars
          /\ HandlerGoto(t, "idle")
          /\ lock' = lock \ {IssueOf[t]}
  /\ UNCHANGED <<inbox, ctx, known, wsnap, asnap, editVars, faults>>

\* A database error under the lock: released, the delivery stays accepted.
HandlerFault(t) ==
  /\ faults < MaxFaults
  /\ faults' = faults + 1
  /\ hpc[t] \in {"check", "apply", "enqueue"}
  /\ HandlerGoto(t, "idle")
  /\ lock' = lock \ {IssueOf[t]}
  /\ UNCHANGED <<inbox, ctx, known>> /\ EngineIdle

\* processAccepted: HandleEvent returned true.
MarkProcessed(t) ==
  /\ hpc[t] = "mark"
  /\ inbox' = [inbox EXCEPT ![t] = "processed"]
  /\ HandlerGoto(t, "idle")
  /\ UNCHANGED <<workflowVars, faults>> /\ EngineIdle

-----------------------------------------------------------------------------
\* Executor callbacks.

\* GetWorkflowContext of onComplete or onFailed.
CallbackRead(w) ==
  /\ wpc[w] \in {"callback", "panicCallback"}
  /\ wsnap[w] = NoSnap
  /\ wsnap' = [wsnap EXCEPT ![w] = ctx[IssueOf[wtask[w]]]]
  /\ UNCHANGED <<engineVars, handlerVars, workflowVars, asnap, editVars, faults>>

Succeeded(w) == wpc[w] = "callback" /\ outcome[w] = "success"

\* The pull requests a task can report: it may have opened one if it codes.
ReportedPr(t) ==
  IF TypeOf[t] \in {"solve_issue", "fix_bug", "solve_comment"} THEN {0, PrId} ELSE {0}

\* What the callback makes of the context it has read, c, when now is the
\* current one; OnTaskFailed writes only a stage analyzing it found.
CallbackContexts(w, c, now) ==
  LET t == wtask[w]
  IN  CASE Succeeded(w) -> {OnTaskComplete(c, TypeOf[t], pr) : pr \in ReportedPr(t)}
        [] ~Succeeded(w) /\ TypeOf[t] = "analyze_issue" /\ c.stage = "analyzing" ->
             {OnTaskFailed(c, TypeOf[t])}
        [] OTHER -> {now}

\* The rest of the callback; the lock is released whoever holds it.
CallbackWrite(w) ==
  LET i == IssueOf[wtask[w]]
  IN  /\ wsnap[w] # NoSnap
      /\ WorkerCalls(w)
      /\ \E c \in CallbackContexts(w, wsnap[w], ctx[i]) : ctx' = [ctx EXCEPT ![i] = c]
      /\ lock' = lock \ {i}
      /\ wsnap' = [wsnap EXCEPT ![w] = NoSnap]
      /\ UNCHANGED <<handlerVars, known, asnap, editVars, faults>>

\* A database error in GetWorkflowContext: onComplete returns at once, onFailed
\* still releases the lock.
CallbackFault(w) ==
  /\ faults < MaxFaults
  /\ faults' = faults + 1
  /\ wsnap[w] = NoSnap
  /\ WorkerCalls(w)
  /\ lock' = IF Succeeded(w) THEN lock ELSE lock \ {IssueOf[wtask[w]]}
  /\ UNCHANGED <<handlerVars, ctx, known, wsnap, asnap, editVars>>

\* The other steps of a worker; a panic abandons a callback.
WorkerOnly(w) ==
  /\ WorkerAlone(w)
  /\ wsnap' = [wsnap EXCEPT ![w] = NoSnap]
  /\ UNCHANGED <<handlerVars, workflowVars, asnap, editVars, faults>>

-----------------------------------------------------------------------------
\* Resets and lifecycle events.

AdminOnly(a) ==
  /\ AdminAlone(a)
  /\ UNCHANGED <<handlerVars, workflowVars, wsnap, asnap, editVars, faults>>

\* GetWorkflowContext, and the UPDATE by id that follows when it found a row.
Found(i) == IF i \in known THEN ctx[i] ELSE NoRow
Updated(i, found, c) == IF found = NoRow THEN ctx ELSE [ctx EXCEPT ![i] = c]

\* ResetIssue: resetIssue reads the context ...
ResetRead(a) ==
  /\ apc[a] = "issueRelease"
  /\ asnap[a] = NoSnap
  /\ asnap' = [asnap EXCEPT ![a] = Found(aissue[a])]
  /\ UNCHANGED <<engineVars, handlerVars, workflowVars, wsnap, editVars, faults>>

\* ... writes it and releases the lock; CancelAndResetTask only releases it.
ResetEnds(a) ==
  /\ EndReset(a)
  /\ \/ apc[a] = "taskRelease" /\ UNCHANGED <<ctx, asnap>>
     \/ /\ apc[a] = "issueRelease" /\ asnap[a] # NoSnap
        /\ ctx' = Updated(aissue[a], asnap[a], ResetContext(asnap[a]))
        /\ asnap' = [asnap EXCEPT ![a] = NoSnap]
  /\ lock' = lock \ {aissue[a]}
  /\ UNCHANGED <<handlerVars, known, wsnap, editVars, faults>>

\* OnIssueClosed and the /matea reset comment: read ...
EditRead(e) ==
  /\ epc[e] = "todo"
  /\ epc' = [epc EXCEPT ![e] = "write"]
  /\ esnap' = [esnap EXCEPT ![e] = Found(EditIssue[e])]
  /\ UNCHANGED <<engineVars, handlerVars, workflowVars, wsnap, asnap, faults>>

\* ... and write; the comment releases the lock, and cancels nothing.
EditWrite(e) ==
  LET i == EditIssue[e]
  IN  /\ epc[e] = "write"
      /\ epc' = [epc EXCEPT ![e] = "done"]
      /\ ctx' = Updated(i, esnap[e], IF EditKind[e] = "close" THEN ClosedContext(esnap[e])
                                     ELSE ResetContext(esnap[e]))
      /\ lock' = IF EditKind[e] = "reset" THEN lock \ {i} ELSE lock
      /\ esnap' = [esnap EXCEPT ![e] = NoSnap]
      /\ UNCHANGED <<engineVars, handlerVars, known, wsnap, asnap, faults>>

-----------------------------------------------------------------------------
\* The process dies: inFlight and the goroutines are gone, ReplayAccepted
\* starts a handler for every accepted delivery.
DispatchRestart ==
  /\ Restart
  /\ lock' = {}
  /\ hpc' = [t \in Tasks |-> IF inbox[t] = "accepted" THEN "start" ELSE "idle"]
  /\ hsnap' = [t \in Tasks |-> NoSnap]
  /\ wsnap' = [w \in Workers |-> NoSnap]
  /\ asnap' = [a \in Admins |-> NoSnap]
  /\ epc' = [e \in Edits |-> IF epc[e] = "write" THEN "todo" ELSE epc[e]]
  /\ esnap' = [e \in Edits |-> NoSnap]
  /\ UNCHANGED <<inbox, ctx, known, faults>>

\* The scanner.
ScannerOnly ==
  /\ ScanTick \/ ScanPush
  /\ UNCHANGED <<handlerVars, workflowVars, wsnap, asnap, editVars, faults>>

DispatchInit ==
  /\ EngineInit
  /\ inbox = [t \in Tasks |-> "none"]
  /\ hpc = [t \in Tasks |-> "idle"]
  /\ hsnap = [t \in Tasks |-> NoSnap]
  /\ ctx = [i \in Issues |-> FreshContext]
  /\ known = {}
  /\ lock = {}
  /\ wsnap = [w \in Workers |-> NoSnap]
  /\ asnap = [a \in Admins |-> NoSnap]
  /\ epc = [e \in Edits |-> "todo"]
  /\ esnap = [e \in Edits |-> NoSnap]
  /\ faults = 0

HandlerStep(t) ==
  \/ ReadContext(t) \/ CreateContext(t) \/ TakeLock(t) \/ CheckTasks(t)
  \/ Apply(t) \/ EnqueueTask(t) \/ MarkProcessed(t)

DispatchNext ==
  \/ \E t \in Tasks : Receive(t) \/ HandlerStep(t) \/ HandlerFault(t)
  \/ \E w \in Workers :
       WorkerOnly(w) \/ CallbackRead(w) \/ CallbackWrite(w) \/ CallbackFault(w)
  \/ \E a \in Admins : AdminOnly(a) \/ ResetRead(a) \/ ResetEnds(a)
  \/ \E e \in Edits : EditRead(e) \/ EditWrite(e)
  \/ ScannerOnly
  \/ DispatchRestart

DispatchSpec == DispatchInit /\ [][DispatchNext]_dispatchVars

\* As in TaskEngine, with the goroutines of the handlers, the callbacks and the
\* rest of a started request.  Nothing makes an event arrive.
DispatchFairness ==
  /\ WF_dispatchVars(ScannerOnly)
  /\ \A t \in Tasks : WF_dispatchVars(HandlerStep(t))
  /\ \A w \in Workers :
       /\ WF_dispatchVars(WorkerMoves(w) /\ WorkerOnly(w))
       /\ WF_dispatchVars(Deadline(w) /\ WorkerOnly(w))
       /\ WF_dispatchVars(ctxDone[w] /\ RunEnds(w) /\ WorkerOnly(w))
       /\ WF_dispatchVars(CallbackRead(w) \/ CallbackWrite(w))
  /\ \A a \in Admins :
       /\ WF_dispatchVars((ResetTaskRow(a) \/ ResetIssueRows(a)) /\ AdminOnly(a))
       /\ WF_dispatchVars(ResetRead(a) \/ ResetEnds(a))
  /\ \A e \in Edits : WF_dispatchVars(EditWrite(e))

FairDispatchSpec == DispatchSpec /\ DispatchFairness

-----------------------------------------------------------------------------
\* Safety.

\* dispatcher.go: "In-flight lock: prevents concurrent tasks on the same (repo,
\* issue)".  Two tasks of an issue are never pending or running together,
\* however their deliveries, the end of an earlier task and its failures
\* interleave.  It holds in serial_queue as long as the process lives and
\* nobody resets; a restart or a reset breaks it.
OneLiveTaskPerIssue ==
  \A t, u \in Tasks :
    IssueOf[t] = IssueOf[u] /\ row[t] \in Live /\ row[u] \in Live => t = u

\* Who relies on the lock of an issue: a handler that has taken it, and a task
\* that was enqueued, until its callback has run.
InHandler(t) == hpc[t] \in {"check", "apply", "enqueue"}
CallsBack(t) == \E w \in Workers : wtask[w] = t /\ wpc[w] \in {"callback", "panicked", "panicCallback"}
CalledBack(t) == \E w \in Workers : wtask[w] = t /\ wpc[w] = "persist"
Relies(t) ==
  \/ InHandler(t)
  \/ row[t] \in Live /\ ~CalledBack(t)
  \/ CallsBack(t)

\* The lock protects whoever relies on it: it is held, and nobody else of the
\* issue relies on it, so no callback releases the lock of another.
LockExclusive ==
  \A t \in Tasks : Relies(t) =>
    /\ IssueOf[t] \in lock
    /\ \A u \in Tasks \ {t} : IssueOf[u] = IssueOf[t] => ~Relies(u)

\* What LockExclusive and OneLiveTaskPerIssue rest on.  A delivery that has not
\* enqueued its task has none; what is in the channel, under the scanner or in a
\* worker's hands is a task; ...
HandlersFresh ==
  \A t \in Tasks :
    /\ inbox[t] = "none" => hpc[t] = "idle" /\ row[t] = "absent"
    /\ hpc[t] \in {"start", "create", "lock", "check", "apply", "enqueue"} => row[t] = "absent"

TasksExist ==
  /\ \A n \in 1..Len(ch) : row[ch[n]] # "absent"
  /\ \A t \in scan : row[t] # "absent"
  /\ \A w \in Workers : wpc[w] # "idle" => row[wtask[w]] # "absent"

\* ... the row of a task is live from the check of its worker to its callback,
\* and failed when a panic calls back; ...
HolderRows ==
  \A w \in Workers :
    /\ wpc[w] \in {"mark", "register", "run", "backoff", "unregister", "writeback", "callback"}
         => row[wtask[w]] \in Live
    /\ wpc[w] = "panicCallback" => row[wtask[w]] = "failed"

\* ... and no task of the issue becomes live behind a handler that has looked.
CheckedFree ==
  \A t, u \in Tasks :
    hpc[t] \in {"apply", "enqueue"} /\ IssueOf[u] = IssueOf[t] => row[u] \notin Live

\* The inductive invariant of the lock, for a process that lives, that nobody
\* resets and that runs in serial_queue.
Undisturbed ==
  /\ Serial
  /\ MaxCrashes = 0
  /\ Admins = {}
  /\ \A e \in Edits : EditKind[e] = "close"

LockInv ==
  /\ inbox \in [Tasks -> {"none", "accepted", "processed"}]
  /\ hpc \in [Tasks -> HandlerPC]
  /\ HandlersFresh /\ TasksExist /\ HolderRows /\ CheckedFree
  /\ LockExclusive /\ OneLiveTaskPerIssue

\* context.go: "analyze_issue failures revert analyzing".  An issue is at
\* analyzing only while a delivery or a task of it is under way; the stage is
\* what keeps every other analyze and coder event away.  A restart, a database
\* error after ApplyTransition and the reset of a single task break it, and so
\* does an analyze agent that is asked for a reply or for code and fails:
\* OnTaskFailed rolls an analyze_issue back and nothing else.
OnlyAnalyses(i) ==
  \A t \in Tasks : IssueOf[t] = i /\ Role(t) = "analyze" => TypeOf[t] = "analyze_issue"

AnalyzingIsWork ==
  Undisturbed /\ faults = 0 =>
    \A i \in Issues : OnlyAnalyses(i) /\ ctx[i].stage = "analyzing" =>
      \E t \in Tasks : IssueOf[t] = i /\ (hpc[t] = "enqueue" \/ row[t] \in Live \/ CallsBack(t))

\* handler.go: an accepted delivery survives a crash.  The only delivery of an
\* issue, admitted by the rules, is not marked processed without a task.
OnlyDeliveryServed ==
  \A t \in Tasks :
    /\ inbox[t] = "processed"
    /\ Admitted(t, FreshContext)
    /\ \A u \in Tasks \ {t} : IssueOf[u] = IssueOf[t] => inbox[u] = "none"
    => row[t] # "absent"

-----------------------------------------------------------------------------
\* Liveness.

\* A lock taken is released: by the handler that gives up, by the callback of
\* the task, by the reset that cancelled it, or by the restart.
LockReleased == \A i \in Issues : i \in lock ~> i \notin lock

=============================================================================
