# Matea: specifications, model checking and proofs

Matea turns webhook events of a Gitea server into tasks for coding agents. An
event on an issue is resolved to an agent and a task type, checked against the
workflow of the issue, queued, executed (in process or by a remote hub) and
answered on Gitea by a comment, a review or a pull request. This directory holds
TLA+ specifications of the parts of it that are concurrent or stateful, the TLC
models that check them, and TLAPS proofs. Paths below are relative to the root
of the repository; line numbers are those of the modelled commit.

- [The system](#the-system)
- [What is hard](#what-is-hard)
- [Modules](#modules)
- [Runs](#runs)
- [Proofs](#proofs)
- [Findings](#findings)
- [Statements the code does not keep](#statements-the-code-does-not-keep)
- [What is not modelled](#what-is-not-modelled)
- [Plan](#plan)

## The system

| component | code | state | operations | correct when |
|---|---|---|---|---|
| Webhook inbox | `ingress/gitea/handler.go`, `dedup.go` | `processed_deliveries` | `ServeHTTP`, `processAccepted`, `ReplayAccepted` | a delivery is handled once and survives a crash |
| Dispatcher | `dispatcher/pipeline.go`, `dispatcher.go` | `inFlight` lock per issue | `handleEventV2`, `onComplete`, `onFailed`, `ResetIssue`, `CancelAndResetTask` | an issue has one live task; locks are released |
| Task queue and executor | `dispatcher/queue.go`, `executor.go`, `store/task.go` | `tasks`, the channel, `running`, `agentBusy` | `Enqueue`, scanner, workers, resets, `Start` | an agent runs one task at a time (`serial_queue`), a success is final, every pending task is served |
| Workflow rules | `workflow/context.go`, `policy.go`, `gate_l1.go`, `tasktype_table.go` | `workflow_contexts` | `Transition`, gates, `OnTaskComplete`, `OnTaskFailed`, reset, close | answers do not move the workflow, failures can be retried, the pull request is remembered |
| Hub runs | `agents/hub_run.go`, `store/hub_handle.go` | `hub_handles`, session `last_head` | `runViaHub`, `abortHubRun`, re-attachment | a remote run survives a restart of Matea, and is not submitted beside itself |
| git_sync transport | `agents/workspace_transport.go`, `gitsync_sweep.go`, `deploy_key_issuer.go`, `write_pr.go` | deploy keys, draft branches, pull requests on Gitea | `Prepare`, `Approve`, `Cleanup`, `SweepOrphanedDeployKeys` | only validated work is accepted, keys are revoked and never from under a run |
| Hub backends | `agents/opencode_http.go`, `backends/hermes` | cache of outcomes | `Submit`, `Poll`, `Cancel` | a poll tells the outcome of the run |
| Sessions and lifecycle | `workflow/session.go`, `lifecycle.go`, `store/session.go`, `agents/write_workspace.go`, `runner_write.go`, `sandbox/git.go` | `agent_sessions`, the work branch | `GetOrCreate`, `CompleteTask`, progress, archival, cleanup, forced push | a coder has one open session per issue; a forced push keeps the session's own work |
| Runners, harness, agent loop | `agents/runner*.go`, `coding_backend.go`, `harness_util.go`, `agent/` | the task's directory, the conversation, the tool registry | tool iterations, truncation, checker, verify commands, commit, push | what is pushed is what was verified; a stuck loop stops, a working one does not |
| Configuration | `config/`, `api/config.go`, `config_io.go`, `setup.go` | `system_config`, the merged configuration, the copy the components have, a cache of model lists | `Update`, `UpdateBatch`, `Delete`, import, export, the setup wizard | what runs is what some request asked for, and what a restart would run |
| Agent registry and manager | `agents/registry.go`, `manager.go`, `api/handlers_agents.go`, `gitea/` | `agents`, the registry, the accounts on Gitea | create, update, delete, auto-provision, take over, reload | the registry serves the table; a person's account is not taken unasked |
| Event resolution | `workflow/resolver.go`, `ingress/gitea/parser.go`, `dispatcher/issue_key.go` | none | `Resolve`, `ResolveTaskType`, `effectiveIssueKey` | an event reaches the agent it names |
| LLM, deliver, MCP | `llm/`, `deliver/`, `mcp/` | caches | calls with retries | bounded retries; an error reaches the caller |
| Gitea client, sandbox, store, auth, logging, web UI | `gitea/`, `sandbox/`, `store/`, `auth/`, `logging/`, `web/` | none of their own | I/O | |

How they interact: the HTTP handler records a delivery and starts a goroutine;
that goroutine runs `handleEventV2`, which reads and writes the context, takes
the in-memory lock of the issue, and inserts and pushes a task. Workers take
tasks from a channel, run them, and call back into the dispatcher, which writes
the context and releases the lock. WebUI requests cancel executions through the
registry and update rows and contexts from their own goroutines. For a hub task
the worker submits and polls; the hub pushes to Gitea by itself with a deploy
key that the worker or the periodic sweep revokes. A task executed in process
works in a clone of its own, on the branch its session names, while closes,
merges, resets, a timer and a cleanup loop archive sessions. The management API
changes configuration and agents from the request's goroutine and shows the
result to the dispatcher afterwards. A restart loses the channel, the lock, the
registries and the caches, and keeps the tables and the directories.

## What is hard

- **Interleaving and atomicity.** Handlers, workers, callbacks and resets share
  rows that each reads in one statement and writes in another; the only mutual
  exclusion is the in-flight lock, the agent slots and SQLite's single
  statements. `execute` decides on a status and then writes `running`
  unconditionally.
- **Unreliable queueing.** A push is dropped when the channel is full, the
  scanner pushes rows that are already queued, a busy agent's task is taken out
  of the channel: tasks are both lost from and duplicated in it.
- **Crash and restart.** Rows, handles, contexts and deliveries are repaired one
  by one at startup; locks are not persisted; remote runs go on.
- **Timeouts and retries.** Task deadlines, whole-task retries that re-attach or
  submit again, a poll error that is not the end of the run, keys revoked from
  under a run that was given up.
- **Stale copies.** Session rows, contexts and configurations are read, kept
  across other calls and written back whole; maps are copied by reference.
- **Partial failure.** A request that writes several rows, or Gitea, the table
  and the registry, may stop after any of them.
- **Boundaries.** The no-progress counter, the token budget and the index into a
  conversation that is being truncated are off by one away from wrong.
- **Protocol sequences.** Answers and detours between roles write the single
  `previous_stage` and `active_role` that rollbacks and gates rely on.

`PROJECT.json` lists each hazard at its line with the properties that guard it.

## Modules

| module | what it is |
|---|---|
| `TaskTable` | abstract: what queue and executor promise of the tasks table |
| `TaskEngine` | queue, workers, registry, slots, resets, restart; refines `TaskTable` |
| `WorkflowRules` | the rules of the workflow as operators on a context |
| `IssueWorkflow` | one issue under these rules, one event or outcome at a time |
| `Dispatch` | extends both: handlers, lock, callbacks, edits, inbox, replay |
| `HubRun` | write tasks executed by a remote hub: keys, drafts, approval, sweep |
| `Sessions` | sessions of coders on an issue, the work branch, archival and cleanup |
| `Transcript` | the message list and its truncation, as operators |
| `Skills` | the discovery of skill files, as operators |
| `AgentRun` | extends both: one task from its runner's start to its result |
| `ConfigRegister` | abstract: what the configuration manager promises of its keys |
| `ConfigStore` | configuration manager, endpoints, setup wizard; refines `ConfigRegister` |
| `AgentAccounts` | agents, their registry, their Gitea accounts and tokens |
| `ControlPlane` | composes `ConfigStore` and `AgentAccounts` |
| `MC...` | instances for TLC |
| `TaskEngineProofs`, `IssueWorkflowProofs`, `DispatchProofs`, `HubRunProofs`, `SessionsProofs`, `AgentRunProofs`, `AgentAccountsProofs`, `ControlPlaneProofs` | theorems |

### TaskEngine

`row` is the status column of `tasks`, `handle` that of `hub_handles`, `ch` the
Go channel, `scan` the rows the scanner has read and not yet pushed, `running`
and `external` the map `Executor.running`, `busy` the map `agentBusy`. Each
worker has a program counter whose values are the points of `workerLoop`,
`execute` and `finalizeTaskResult` between two statements that others can see:
`Claim`/`Defer` (`tryAcquireAgentSlot`), `CheckRow`, `MarkRunning`, `Register`,
the run with its failures and retries, `Unregister`, `WriteBack`, `Callback`,
`Persist`, `ReleaseSlot`, `Kick`; a panic has its own path. An Admin is one
WebUI reset request, also statement by statement. `Restart` is the death of the
process followed by `Dispatcher.Start`. What a hub does during a run is reduced
to the status of its handle; `HubRun` has the rest.

The statements of the store do not fail here: a failed `GetTask` before the run,
in which case `execute` goes on (`executor.go:508`), is left out, as are failed
writes of a row, which the code logs. Database errors are in `Dispatch`, where
locks depend on them.

`resetStaleRunningTasks` (`queue.go:142`) changes no row: it selects on
`started_at`, which no statement of the executor writes. `ScanTick` therefore
only reads.

`TaskTable` is the contract of serial_queue, without channel, scanner, worker,
slot or registry: a task is submitted, taken while its agent does nothing else,
started once, and finished or given up; a reset fails rows and stops nothing; a
restart fails what was running, or makes it pending again if a hub runs it.
`TaskTableKept` is the refinement; its `phase` is read off the program counters
(`Phases`).

### WorkflowRules and IssueWorkflow

A context is a record of the columns the code reads: stage, previous stage,
active agent and role, pull request. The operators follow `context.go`,
`policy.go`, `gate_l1.go` and `tasktype_table.go` branch by branch. The session
id of a context is written and never read, so it is left out. `IssueWorkflow`
lets one issue live through events, completions, failures, merges, closes and
resets, with no concurrency, to check what the rules promise by themselves.
`known` tells whether the row exists, since closing an unknown issue writes
nothing.

### Dispatch

Delivery `t`, once served, creates task `t`. A handler's steps are the
statements of `handleEventV2`: `ReadContext`, `CreateContext` (the INSERT that a
UNIQUE constraint may refuse), `TakeLock`, `CheckTasks`, `Apply`,
`EnqueueTask`, `MarkProcessed`. A callback is a read and a write of the
context; its write and the release of the lock, which directly follow one
another in the code, are one step. `HandlerFault` and `CallbackFault` are
database errors. An Edit is an event that changes the workflow without a task: a
close or merge, or the comment `/matea reset`. `DispatchRestart` adds the replay
of accepted deliveries to the restart of the engine. The structural gate
(`CheckL1`) is in `IssueWorkflow` only; the deliveries of `Dispatch` are
assignments, which it always admits. `AnalyzingIsWork` speaks of issues whose
analyze agents are asked for analyses only (`OnlyAnalyses`): a reply, or coding,
by such an agent that fails is not rolled back and leaves `analyzing` behind.

### HubRun

`runViaHub` for write tasks under git_sync, one action per call that leaves the
process: `Begin` (is there a handle to re-attach to?), `Prepare` (base head,
deploy key), `Choose` (anchor and draft branch), `Submit`, `SubmitReturns`,
`Save` (handle row), polls, `Approve`, `OpenPR`, `Revoke`, `Mark`,
`SaveSession`. `AttemptFails` is the whole-task retry of the executor. The hub
commits and pushes by itself (`Push`, `HubEnds`), people merge, close, push and
move the default branch (`People`), and the sweep lists and revokes.

A commit is the sequence of author marks of its history, so an ancestor is a
prefix, and the four checks of `validateGitSyncDraft` are prefix, base drift,
footer marks and reported head. Draft branch `matea/hub-N` is named by task N.
Modelling choices:

- One repository, one session, one base branch; `resolveGitSyncBaseBranch` and
  the diff policy are left out (the policy is one more way for `Approve` to
  refuse).
- `Async` tells the two adapters apart: Hermes answers `Submit` at once and is
  polled; OpenCode answers at the end and its `Poll` reads a cache. Both caches
  die with the process. A terminal status in Hermes' answer to `Submit` is
  cached and reported as done, whatever it says (`hermes.go`, `Submit`/`Poll`).
- `PastGrace`: the half hour of `DeployKeySweepGrace` is longer than the time
  from `Prepare` to `Save` except while an OpenCode `Submit` waits for the run.
- A run that is over and that nobody will ask about again is forgotten
  (`Forget`, `Awaited`): this only merges states no property can tell apart.
- A hub breaks at most one of its instructions in a run (`Push`).
- A call that fails without ending the attempt is a step of its own kind, counted
  as a fault: the pull request of the task, its state, head or sha cannot be read
  and `resolveGitSyncDraftBranch` goes on to a fresh branch (`DraftChoice`);
  `sessionLastHead` answers "" on a database error (`SessionLastHead`, in
  `Begin` and `Choose`); `saveSessionProgress` ignores that the session could not
  be read or written (`SaveSession`); the drift check of `Approve` is skipped when
  the base cannot be compared, and a transient error refuses a valid draft; the
  answer to the creation of a pull request is lost (`OpenPR`); the status of the
  handle is not written (`MarkTerminal`). `missed` is history: whose head was not
  written (`<<"save", t>>`), who could not read the head (`<<"read", t>>`) or
  its pull request (`<<"pull", t>>`).
- A poll error after which the task is retried is bounded by the retries; the one
  that ends the task counts as a fault.

### Sessions

`sess` is `agent_sessions` for one issue, `lock` the in-flight lock, `remote`,
`main` and `pr` the repository. A task's program counter goes through
`GetOrCreate` (`Dispatch`), clone and branch plan (`Prepare`), the record of the
branch (`SaveBranchRead`, `SaveBranch`), the coding (`Code`), the push, the record
of the head (`SaveHeadRead`, `SaveHead`), the pull request and `CompleteTask`.
Every write of a row is a read of the whole row followed by a write of the whole
row, as in the code; both may be refused, which the code ignores (`Refused`,
`lost`), also when the workspace is prepared, which then goes on without the
session (`Remembered`, `blind`). `Restart` may come between any two steps: the
task under way is failed without a callback (one that still waits is kept), the
lock, the timer and what the archivers had listed are gone, and the row stays as
it was written last; between `Push` and `SaveHead` this leaves a pushed head that
nobody recorded (`orphaned`), as does a push whose answer is lost. The coding backend has a shell (`Stray`): it
may drop commits of the branch and add others, leave the branch, so that the
recorded `HEAD` is another commit, and push by itself (`strayed`). `List` and
`ArchiveOne` are the two halves of `ArchiveByIssue`, in the webhook, in the timer
of a merge and in the cleanup loop; `stale` holds the rows as the cleanup loop has
listed them. `Age` lets the TTL and the retention pass at once, never while a task
runs. `ForcePush` is unconditional: `Git.Push` fetches right before
`--force-with-lease`, so the lease always holds. The tasks are of one type, so
they share a branch; its name and the workspace quota are left out. A commit is
again the sequence of author marks of its history, which no commit with two
parents fits: people merge only a branch that contains the default branch.

### AgentRun, Transcript and Skills

`AgentRun` executes one task: the choice of runner and backend, the clone into
`task_<id>` (`dir`), the tool registry, the loop (`Iterate`, `Answer`,
`ExecuteTool`, `EndTurn`), the checker, the verify commands, commit, push, pull
request and the outbound event. A file's content tells which execution wrote it;
a clone is the files, the index, the commit checked out, the commit on the task's
branch, and whether these two are one (`work`), and a tool is what it may leave
there (`Effect`). A command of the agent's (`Shell`) edits, removes, stages,
commits, goes to another branch and back, and resets the branch; `find`, behind
`list_files` and `tree`, deletes files when the path it is given is one of its own
expressions. `_patch.diff` is the file that `apply_diff` goes through. `Status` is
`git status --porcelain` with its two letters per file. Three calls may fail
without anybody noticing (`slips`, bounded by `MaxFaults`): `git status`, which
then lists nothing, `git add`, and the write of the conversation log. `Push` pushes
the task's branch by name, whatever is checked out. The log keeps the rows of all
executions; `attempt` marks them in the model only. The context may be
cancelled before every step that looks at it, and only there: sandbox, MCP and
deliver calls use a context of their own. `Crash` leaves the directory, `Rerun`
is the next execution, by a whole-task retry or by hand. A task that goes to a
hub ends here (`HubRun` has the rest). `Transcript` follows `truncate.go` message
by message, `Skills` follows `tools_skills.go` file by file. Models, backends,
skills and tool names are constants; the model's answers are any sequence of
calls up to `MaxCalls` a turn.

### ConfigStore and ConfigRegister

`row` is `system_config`, `active` the manager's merged configuration, `live` what
the components were last given, `fileMap` the one map of hub backends that copies
of the file's configuration share (`Shared`). A request takes one step per access
to shared state: check, each row, swap, cache, notification, answer. `UpdateBatch`
swaps in the snapshot it checked, `Update` its entry into the configuration of
that moment (`Swap`). Keys are one of each kind the code treats apart; a hub and a
provider are their secret. `workflow.gates` and `workflow.preset` are the two that
`getConfigEntry` does not know (`Unread`), so that the deletion of an override
reverts to no value at all (`Baseline`), which the gates refuse and the preset
accepts. `PutConfig` reads the configuration in force once where the code reads it
anew per masked entry. `ConfigRegister` is the contract: rows one by one, then all
entries into force in one step, and nothing else changes what runs;
`RegisterImplemented` is the refinement, for every key but `agents.backends`,
whose value aliases a map.

### AgentAccounts and ControlPlane

A request about an agent is a sequence of calls to Gitea and the store (`Lookup`,
`Validate`, `Decide`, `CreateAccount`, `ResetPassword`, `MintToken`, `InsertRow`,
`UpdateRow`, `DeleteUser`, `DeleteRow`) that ends by showing the registry the
result (`Refresh`, `Remove`), each of which may fail. `ValidateUserToken` says no
also when Gitea does not answer, so a managed account with a good token may have
its password reset (`Validate`); a table that cannot be read says that Matea does
not manage the account (`Decide`). Some accounts are people's. `granted` and
`raced` are history: which takeovers were asked for, and on which names two
requests worked at once. `ControlPlane` is both modules, sharing
`gitea.auto_provision` and the restart.

## Runs

All bounds are CONSTANTS of the cfgs: numbers of tasks, workers, requests,
`QueueSize`, `MaxRetries`, `MaxCrashes`, `MaxFaults`, and `MaxEvents`, which in
`HubRun` bounds restarts and human interventions together and in `Sessions` also
refused calls and straying agents. `MaxTrouble` bounds all of a `HubRun`'s restarts,
interventions and failed calls together.

| run | instance | checks | states |
|---|---|---|---|
| `engine_serial` | 2 workers, 2 tasks of one agent (one on a hub), 1 retry each, 1 restart, channel of 1 | exclusion per agent, finality of success, the inductive invariant, the tasks table is implemented; every pending task is served, every slot returned | 650 000 |
| `workflow_standard` | 1 analyst, 2 coders, 1 reviewer, standard preset, failures and closing | answers are neutral, failed work can be retried, pull request remembered | 1170 |
| `dispatch_serial` | an analysis and a coder's delivery on one issue, a close, 1 worker, 1 database error | one live task per issue, the lock, its inductive invariant, `analyzing` is never left behind | 844 000 |
| `dispatch_live` | 1 delivery, parallel mode, 1 reset request, 1 restart | registry, locks are released, running rows end | 160 000 |
| `dispatch_crash_delivery` | 1 delivery, 1 restart | violated: see Findings | |
| `hub_serial` | 2 write tasks, Hermes, 1 retry each, 1 trouble: a restart, an intervention or a failed call (symmetry in the tasks) | approved work is kept, one writer per draft, the sweep spares runs, no second pull request | 1.79M |
| `hub_keys` | 1 write task, OpenCode, 2 restarts or interventions, 2 failed calls | every key is revoked in the end | 251 000 |
| `sessions_two` | 2 tasks of one coder, 1 retry, 2 disturbances (close, merge, reset, restart, people, refused read or write, lost answer of a push, straying agent), the cleanup loop (symmetry in the rows) | one open session per coder, the head on the branch is recorded, a forced push keeps the session's own work | 3.09M |
| `sessions_gc` | 1 task, a row with a workspace, 2 disturbances | idle sessions are archived, workspaces of archived ones reclaimed | 41 700 |
| `agent_run` | 1 task of each kind on each backend and kind of model, 2 executions, 3 turns (5 for an analysis), 1 call a turn, 1 failure that is passed over, a budget that is exceeded | what is pushed was verified, nothing of an earlier execution is delivered, a reader adds nothing to its clone, the no-progress guard is exact, the log is complete and in order | 2.63M |
| `control_plane` | 2 overlapping requests about the configuration, 1 failing write, 1 restart; or a switch of `auto_provision` around 3 requests about agents, two at a time, on a person's account and a free name, 1 error, 1 restart | the register is implemented, a settled configuration is the stored one, no account is taken unasked, the registry serves the table | 761 000 |
| `config_clobber` | the same instance | violated: see Findings | |

Why the bounds are enough to be interesting: a channel of one slot makes pushes be
dropped and tasks be deferred with two tasks; two workers and duplicates are what
races for a slot needs; one restart can fall between any two statements of every
other actor, and `dispatch_live` adds a reset with all of its statements. Resets
beside two workers and three deliveries on one issue, where the lock changes hands
between the check and the enqueue of another handler, are out of these runs and
covered by proofs for any numbers (`EngineInv`, `LockInv`). In `hub_serial` two
tasks with a retry give up to four runs, so a run that was given up coexists with
its successor and with the run of the next task. In `sessions_two` the second task
continues the branch of the first while any two disturbances fall anywhere;
uniqueness of the open session is proved for any number of both. In `agent_run`
three turns are one more than the no-progress limit of two, and the budget fits
the prompt and about two results; one call a turn is enough for every tool to
follow every other, and one failure passed over for each of the three to fall
anywhere. States are compared without the log rows of earlier executions
(`MCView`), which no action and no property reads. In `control_plane` two requests
are what an overlap needs; a third about agents lets one act on what two others
have left behind. The two halves only share one key, so a behaviour that has
requests about agents has at most a switch of that key in the configuration
(`AtMostSwitched`), and requests of the same kind are interchangeable (symmetry;
the properties are invariants and a step property, and no property is about
liveness). `CHECK_DEADLOCK FALSE` everywhere: when every event has been served and
every bound is used up the system rests.

### Fairness

- The scanner is a ticker in a goroutine of its own, workers and handlers are
  goroutines between two statements: weak fairness of each of their steps.
- A run ends because its context has a deadline (`context.WithTimeout` in
  `execute`): `Deadline` is weakly fair, and a runner whose context is done
  returns. Nothing else makes a run end, and nothing makes it succeed.
- A WebUI request that has begun runs to its end. Nothing makes deliveries,
  requests, panics, crashes or faults happen.
- In `HubRun` the steps of an execution and the two steps of the sweep are
  weakly fair; the poll loop has its timeout (`Deadline`). Nothing makes a hub
  push or finish.
- In `Sessions` the cleanup loop is one goroutine with a ticker: weak fairness of
  `LoopStep`. Nothing makes a task end, and a session whose task failed stays
  active, so only idle and archived ones are claimed to be retired.
- `AgentRun` and the management side have no liveness properties and no fairness.

## Proofs

`tlapm` checks all of the following for every value of the constants that
satisfies the modules' assumptions: any numbers of tasks, agents, workers,
requests, keys, retries, restarts, turns and messages. Every property of the
passing runs that is not a liveness property is the statement of a theorem.

**Engine** (`TaskEngineProofs`). `EngineInvariant` proves `[]EngineInv`, which is
inductive: `TypeOK`; `LocalsSound`, what a program counter says of the locals;
`RegistrySound`; `SerialAgentExclusive`; `AloneOnAgent`; `OneRunningRowPerAgent`;
`NotSucceededYet`. Exclusion alone is not inductive: `tryAcquireAgentSlot` looks
at `agentBusy` and at the running rows, so one has to know that while a worker
holds a slot no other row of the agent is running (`AloneOnAgent`), which in turn
needs the holder's claim to have looked at all rows, and the rows of cancelled
executions to be counted. `SuccessNeverUndone` needs `NotSucceededYet`: behind
the check of the row nobody else can have finished the same task, because that
would take the same agent's slot. Parallel mode has no such argument, and the
property fails there.

**Tasks table** (`TaskEngineProofs`). `EngineKeepsTable`: in serial_queue every
step of the engine is a step of `TaskTable` or leaves row and phase alone. Since
at most one worker holds a task (`SerialAgentExclusive`), its program counter is
the task's phase (`PhaseOfHolder`), and a step moves one phase at most
(`PhaseMoves`). `CheckRow` is a legal `Take` because of `AloneOnAgent`, and a
restart one because only tasks of hubs have handles (`HandlesOfHubs`). In parallel
mode a task may be started twice, and the table is not kept.

**Workflow** (`IssueWorkflowProofs`). Types are preserved by every rule
(lemmas per operator, cited by name), the pull request is never forgotten, and
`AnswersAreNeutral` follows from the invariant `TaskContext`: while a task lives,
`previous_stage` is the stage it found, or empty when it re-entered its stage.
They hold for every policy and any set of agents. `FailureCanBeRetried` holds for
every policy but strict: the stage is the one the live task's start left, or done
(`TaskAgent`), so the failure of anything but an analysis cannot leave the issue
at `analyzing`, and without a hard level no gate blocks (`NothingHard`).

**Dispatcher** (`DispatchProofs`). `DispatchImplementsEngine`: every step of
`Dispatch` is a step of `TaskEngine` or leaves its variables unchanged. What is
proved of the engine is thereby proved under the real callers
(`DispatchSerialExclusive`, `DispatchSuccessNeverUndone`, `DispatchKeepsTable`).

*Lock.* Under `Undisturbed` (serial_queue, a process that lives, no resets)
`LockInv` is inductive relative to `EngineInv`, which is available through the
refinement. `OneTaskPerIssue` is not inductive: it needs that whoever relies on
the lock (a handler behind `TakeLock`, a live task whose callback has not run, a
worker about to call back) is alone in doing so (`LockExclusive`); that a handler
behind its check has seen an issue without live rows (`CheckedFree`); that an
unserved delivery has no row and that what sits in the channel, the scanner or a
worker's hands is a task (`HandlersFresh`, `TasksExist`); and which rows a
worker's program counter implies (`HolderRows`), so that `MarkRunning`, which
writes unconditionally, cannot bring a row back to life.

*Analyses.* `DispatchContexts` types the contexts and all copies of them that
handlers, callbacks and edits hold, in both modes and with restarts, resets and
faults. `AnalysisAccounted` adds `AnalyzeInv`: an issue at `analyzing` has an
analyze task that is busy, that is, one a handler is about to enqueue, that lives
and has not been called back, or that a worker is calling back for
(`AnalysisBusy`), and the copy a callback holds agrees with the table on whether
the issue is being analysed, although edits write in between (`SnapshotFits`).
The attempt showed that the property as first stated was false of an analyze
agent that is asked for something else, which no run had contained; hence
`OnlyAnalyses`.

**Hub runs** (`HubRunProofs`). `HubInv` holds the types and, the one hard part of
them, that no more keys are issued than the bounds allow: an attempt issues one
key, and another execution needs a restart that finds a live handle (`Quota`,
`Allowance`). On it rest four invariants, one per property. `SweepInv`: while no
call fails, a polled run has a running handle and the sweep has not decided on
the key of any handle that is running or run that is underway; it is stated of a
hub that answers `Submit` at once (`Async`), because with OpenCode it is false.
`WriterInv`: the keys on the repository are those of the attempt underway, one
task being underway at a time (`Serial`). `WorkInv`: a contract that continues
the session starts from its head, and an approved head descends from that, as long
as the tasks could read the head they continue (`SessionRead`); a head that could
not be written (`missed`) is the one exception per task, other faults are allowed.
`BranchInv`: an open pull request has a branch with a head, so a task about it
finds its anchor there, unless the lookup of the pull request failed; any other
fault is allowed. `Serial` is an assumption of two theorems because in
parallel mode two tasks of a session approve side by side.

**Sessions** (`SessionsProofs`). `SessionsTypes` needs that a task under way has a
session (`Held`). `OneOpenSession` is not inductive, because the writes of a task
open archived rows again. The invariant adds: the lock is held by the one task
under way (`SoleTask`), whose row and whose copy of it are its coder's (`OwnRow`,
`CopyOwn`); what the cleanup loop has listed to write back was archived and is
the same coder's (`StaleArchived`); and, the point of the argument, no *other*
session of the coder is open while its task is under way (`TaskSession`). The
proof is one lemma about any step that keeps rows and tasks (`Kept`) and, per
action, that it does so (`RowsKept`, `TasksKept`).

`HeadIsRecorded` and `PushKeeps` follow a task's commits: `Tips(t, c)` are the
commits under `c` that end in one by `t`. `WorkInv` says that what is on the
branch of a task's work is merged, under the recorded head, or just pushed by the
task about to record it (`PushedSafe`); that what a clone holds of *other* tasks
is safe in the same way (`CloneSafe`), since a forced push puts it back on the
branch; that a clone has all the branch has of its own session (`CloneKeepsOwn`);
that the row a task writes back still has the anchor it read (`CopyFresh`); and
that a task without a base branch is the first of its session and starts from its
anchor (`OwnAnchor`, `FromAnchor`). The attempt found both properties false in
cases outside the run's bounds: of rows from before B2.2, whose workspace the
cleanup takes away with the anchor, and of a task without a base branch after a
refused write of its row. Both are now excluded by name (`Legacy`, `Slipped =>
onBase`), and the head is claimed to be recorded when no task is between its push
and its save. A restart, and an agent that rewrites or leaves the branch, void
parts of the invariant, so each part says of which tasks it speaks: `PushKeeps` of
every task whose own agent kept to the branch, restarts and lost answers included;
`HeadIsRecorded` of every task but those that ended between push and save
(`orphaned`), while no agent strayed.

**Agent runs** (`AgentRunProofs`). The actions, which follow the code, are first
summarised as a handful of effects (`AgentStep`: a step that only moves on, a
clone, a tool call, the end of a turn, ...), once; each theorem is then a short
induction over these. `ReadsOnly`: a run that only reads has a registry of tools
that only read or delete, also after loading skills, and an index and commits as
cloned. `OnItsWay`: while the branch is checked out and git has not failed
unnoticed, the tree the verify commands passed is what is committed, pushed and
then on the branch; a run stopped in between leaves `pushed` false. `OwnWork`: no
file of the tree, the index or a commit is a crashed execution's. `StallInv`: the
counter is the length of the run of equal fingerprints. `TalkInv`: the execution's
rows and what is still to be written are the messages in order, numbered from 1,
through any truncation, and all of them unless a write failed. The truncation is
computed by recursive functions on message lists (`Transcript`). Their types
(`Tokens`, `StripTools`, `DropMiddle`, the cuts), and that an opening prompt is
kept, need an induction over the list, which is done with a set of indices in
place of a predicate (`UpTo`, from the well-foundedness of `<`); what the
truncation keeps of a longer list is not claimed. `AgentRunAssumption` asks of the
process-wide defaults what `ValidateAgentLoopConfig` checks (`config.go:98`), and
of an agent's own overrides no range, as the code does.

**Configuration** (`ControlPlaneProofs`). `ConfigTypes` includes, for every
request by its program counter, what its batch, snapshot and list of keys are
(`RequestOK`); `NoMaskInForce` follows, for all credentials but those of the hubs
(see Findings). `SettlesBetweenRequests` (which excepts a preset whose override
was deleted, `Dropped`) needs of the one request under way how far the table and
the configuration in force have got with its entries (`UnderwayOK`, `TableOK`),
and that its snapshot is still the configuration in force.
`ManagerImplementsRegister` maps a request that stores its entries to a pending
batch of the register (`BatchOf`): `Swap` brings the batch into force because by
then no entry is left to store, and a request that stops before is abandoned.
`ConfigAssumption` says of the constants that the wizard asks for its three keys,
that the catalogue of the environment fills the four of `EnvOrder`, that the file
has gates, and that the mask is nobody's secret.

**Accounts and registry** (`AgentAccountsProofs`). `OnlyHandedOver` rests on
`HandInv`: the account of a person who was never asked has its own password and no
token, no row says that Matea manages it, and no request on it was told or is
about to take it over. `RegistryServesTable` rests on `RegistryInv`: an id has one
user name for good (`IdsNamed`, `IdsFresh`), a name one row (`NamesUnique`), a
name that was never raced one request (`OneEach`); then what that request has
written and not yet shown (`Knows`) tells exactly how the registry may lag behind
the table, and requests on other names touch other ids.

**Control plane** (`ControlPlaneProofs`). `ControlImplementsConfig` and
`ControlImplementsAccounts`: whatever the other half does, the composition takes
steps of each, so the theorems of both hold of it (`ControlKeepsConfig`,
`ControlOnlyHandedOver`, `ControlServesTable`).

**Only model-checked.** All liveness, since fairness and ENABLED are outside the
prover's reach: `PendingServed`, `SlotReturned`, `RunningEnds`, `LockReleased`,
`KeyRevoked`, `IdleRetired` and `WorkspaceReclaimed`. What a property excludes by
its condition is neither checked nor proved; the next two sections say where the
code does not keep the unconditional statement.

**Assumptions.** The `ASSUME`s of the modules, which TLC evaluates on every run,
and where a theorem names them `Serial`, `Async`, `Undisturbed` or a policy other
than strict.

## Findings

Each is a run whose property TLC refutes.

1. `dispatch_crash_delivery` (`pipeline.go:194`). A crash between
   `ApplyTransition` and `Enqueue`: the replayed delivery is turned away by the
   stage it set itself, and is marked processed without a task.
   `handler.go:120-121` promises recovery.
2. `config_clobber` (`config/backends.go:72`). `MarshalAgentBackendsJSON` writes the
   mask into the map it was given. `GET /api/config` marshals the file's hubs, and
   `copyConfig` shares that map, so reading the configuration replaces the hub
   password of the configuration in force by `********` until a restart.
   `api/config.go:19-22` says of the placeholder: "so the admin UI can round-trip
   a masked form without clobbering secrets".

## Statements the code does not keep

Met while modelling, and the reason why some properties carry a condition. None
of these is claimed as a property of a passing run.

- *A reset task stays reset.* `execute` checks the row and then writes `running`
  unconditionally (`executor.go:507`, `:519`): a reset in between is undone, and
  as the execution was not registered it is not cancelled either.
- *No duplicate poll.* `executor.go:129-130` and `queue.go:139-141` argue that a
  hub task is enqueued once. The scanner pushes pending rows that are already in
  the channel; in parallel mode both copies execute. `SuccessIsFinal` and the
  exclusions are claimed for serial_queue only.
- *In-flight lock: prevents concurrent tasks on the same (repo, issue)*
  (`dispatcher.go:52`). A restart forgets the lock while tasks survive, and the
  end of a survivor, for instance by a panic, releases the lock of a handler; a
  reset releases the lock whoever holds it. Hence `Undisturbed`.
- *Analysis failures revert analyzing* (`context.go:174`) and a reset task leaves
  an issue that *can accept new work* (`store/task.go:349`). The analysis that a
  restart fails (`hub_handle.go:217`) has no callback, and `CancelAndResetTask`
  does not touch the stage: the issue stays at `analyzing`, which turns away
  every event but reviews.
- *Stale write.* `ApplyTransition` writes the whole context that was read before
  the lock was taken (`pipeline.go:194`); a pull request recorded meanwhile by
  `onComplete` is lost.
- *Replay is idempotent* (`handler.go:21-22`). A delivery replayed after its task
  ended passes every check, writes the context again, and is refused only at the
  INSERT.
- *After a failure the issue can accept a manual retry* (`executor.go:625`). In
  the strict preset `rerun_same_stage` is hard and only `analyze_issue` is rolled
  back (`context.go:195`), so a failed coding task blocks its own retry.
- A reply, or coding, by an analyze agent that fails leaves `analyzing` behind
  (`context.go:119-128`).
- *Hard gate: analysis must come first* (`SystemConfig.vue:300`): the gate fires
  at stage `idle` only (`policy.go:203`), so a detour through a review or a
  reply passes it.
- Closing is not final: the callback of a task that outlives the close rewrites
  the stage (`lifecycle.go:38`).
- `CheckL1` on an issue event trusts the recorded pull request although it was
  closed, and looks up a comment on a pull request by the wrong number
  (`gate_l1.go:43`, `:59`, `:75`).
- *The reviewer is not the coder* (`docs/DEPLOYMENT.md:209`): the gate compares
  with the active agent of the last transition (`policy.go:286`), which a task
  of another agent in between replaces.
- *Prepare→Submit→persist completes in milliseconds* (`gitsync_sweep.go:36`).
  `Submit` of OpenCode lasts as long as the run; when its time limit is set
  beyond the grace the sweep revokes the key of a run in progress.
  `SweepSparesRun` fails with `Async = FALSE`, so it is claimed for Hermes.
- *Every new task continues from session.LastHead*
  (`docs/archived/20260814-hub-git-sync-plan.md:387`). After a restart a pending
  task of the session may run before the re-attached one, which then records a
  head that descends from its own, older anchor. `NoWorkLost` is claimed of an
  uninterrupted process.
- *A crash is recoverable by re-attachment* (`hub_run.go`, the comment before
  `SaveHubHandle`). Between `Submit` and the row there is nothing to re-attach
  to; a first-ever run of a repository is then invisible to the sweep as well,
  since `ListHubHandleRepos` reads the handles (`hub_handle.go:161-165`).
- *The next task's anchor* (`hub_run.go:359-364`). A failed read
  or write of the session is ignored (`runner_write.go:281-290`) and the task is
  done all the same; a database error while the head is read counts as no head
  (`hub_run.go:717-719`), so the task starts from its branch or the base.
  `NoWorkLost` excepts both.
- *A task about a pull request continues its branch.* When the pull request, its
  state, head or sha cannot be read the lookup goes on
  (`workspace_transport.go:239-280`), the task gets a fresh branch and opens a
  second pull request. `NoSecondPR` excepts a task whose lookup failed.
- *A failing callback releases the lock* (`dispatcher.go:251`,
  `executor.go:624-625`). `onComplete` returns on a database error before the
  release (`dispatcher.go:231`); every later event of the issue is refused until a
  restart or a reset. `LockReleased` is checked without database errors.
- *A leaked key lives for one grace period and one sweep*
  (`gitsync_sweep.go:36-38`). A poll error of the last attempt leaves the handle
  running (`hub_run.go:392`), and the sweep protects the key until a restart.
  `KeyRevoked` excepts such a `Stranded` handle.
- *A panicking execution* drops the registry entry of its task without looking at
  its owner (`executor.go:486`); `resetStaleRunningTasks` resets nothing
  (`queue.go:142`); a reset releases the lock by its key, whoever holds it
  (`pipeline.go:281`); the reset of a single task leaves the stage its transition
  set (`dispatcher.go:355`); replayed deliveries are handled in any order
  (`handler.go:59`).

Sessions and branches:

- *An archived session stays archived* (`ARCHITECTURE.md:166`). `CompleteTask`
  writes back the row it read (`session.go:74`); a session archived meanwhile is
  idle again. `OneOpenSession` is what survives.
- *LastHead is the authoritative start point* (`write_workspace.go:63-74`).
  `pipeline.go:230` sets the base branch of every task with a session branch, so
  the anchor is only used by retries of a task created without one.
- *The head a task pushed is recorded* (`runner_write.go:278-291`). The write of
  the row may be refused, which the code ignores; a later attempt of a task
  without a base branch then starts from the old anchor and pushes over the lost
  head. The same after a death of the process, or a lost answer, between push and
  record. Hence `lost` and `orphaned` in `HeadRecorded` and
  `PushKeepsSessionWork`.
- *A forced push continues the branch.* The agent's shell may amend, reset or rebase
  before it (`tools.go:277-307`), and `HEAD`, which is recorded, may be on another
  branch than the one that is pushed. `PushKeepsSessionWork` excepts the push of a
  task whose agent did so.
- *--force-with-lease protects other people's pushes*: `Push` fetches right before
  it and falls back to `--force`. `PushKeepsSessionWork` speaks of the session's
  own commits only.
- The cleanup writes stale rows back whole (`lifecycle.go:139`); `EnforceDiskLimit`
  is documented as oldest first and its listing has no order; the timers of merges
  die with the process; a merge without an issue archives nothing
  (`lifecycle.go:66`); a failed task leaves its session active for good.

Agent runs:

- *A model of which only the id is known may use tools* (`coding_backend.go:126`):
  the loop and the truncation offer it none (`loop.go:131-134`,
  `truncate.go:63-82`).
- The truncation drops single messages, so tool results may lose the call they
  answer; one oversized result fails the task.
- `limitWriter.Write` returns the truncated length (`sandbox.go:376-387`, whose
  comment says the full one), so a verify command with much output is reported
  failed.
- A directory left by a crash makes the next execution's clone fail once
  (`sandbox.go:124`).
- A cancelled task past its coding phase still commits, pushes and opens its pull
  request: those calls take no context.
- The checker sees `git diff HEAD`, the no-progress guard names of files and their
  status letters; a verify command may change the tree after both. `_patch.diff`
  may be committed.
- *What was verified is what is pushed.* The push names the branch
  (`git.go:147-163`), and the agent may have left it; a `git status` that fails
  counts as no changes (`git.go:205-208`), a `git add` that fails is ignored
  (`write_workspace.go:304`), and both lead on to the push. `PushedIsVerified`
  excepts the three.
- *analyze-readonly → read-only subset* (`tools.go:498`). `list_files` and `tree`
  hand the model's path to `find` as it is (`platform_cmds.go:45`, `:63`), where
  `-delete` is an action: files of the clone, git's own among them, go; another
  action writes a file, which can only be called `-maxdepth`. `AnalyzeAddsNothing`
  claims what is left: no file is edited, staged or committed.
- *The log is the conversation.* Failed writes are only warned about
  (`loop.go:263-265`, `:275-277`), and executions of one task add rows under the
  same `(iteration, seq)`, by which `ListConversationLogs` orders
  (`conversation_log.go:62`), so their messages are listed mixed. `LogComplete`
  speaks of one execution's rows.
- *The filename is the fallback name* of a skill (`tools_skills.go:143`): files
  without a name are named after their directory first, and collide.
- *Limit to last 10 comments* (`runner_interaction.go:153`) takes the first ten.

Configuration and agents:

- *UpdateBatch applies as one unit*: the snapshot it swaps in was taken before the
  writes (`manager.go:174`), so the in-memory effect of an overlapping request is
  lost until a restart; an error in the middle leaves part of it stored. `Settled`
  speaks of requests that neither overlapped nor failed.
- *Delete reverts to the file's value* (`manager.go:212`): `getConfigEntry` has no
  case for `workflow.gates` and `workflow.preset` (`keys.go:389-460`). The gates
  always fail their check, and `agents.loop.max_iterations` may, after the row is
  gone, and keep the override until a restart; `workflow.preset` becomes empty
  without an error, until a restart brings the file's back. `Settled` excepts the
  preset (`Dropped`).
- *Refreshes the token when the stored token is invalid* (`manager.go:101-103`):
  an error of Gitea while the token is validated counts as a bad token
  (`gitea/admin.go:54-62`), and the password of the managed account is reset.
- *Validators see the final state*: the loop's cross-check runs for
  `max_iterations` with the old `no_progress_limit`.
- *Masked exports re-import cleanly* (`config_io.go:19-22`): a masked
  `deliver.webhook_url` is stored as the mask.
- A list of models discovered before a change of the provider may be cached after
  it; a wizard that fails half-way is in force and not announced.
- `DELETE /api/agents/{id}` always deletes the Gitea user, a person's as well
  (`ARCHITECTURE.md:273` says optionally). Requests that race on one name can leave
  a deleted agent served or a live one not (`registry.go:91-96`):
  `RegistryMatches` excepts names that were raced. A `CreateAgent` that fails after
  the account was created is refused when it is retried.

## What is not modelled

`PROJECT.json` names every component with the reason. Left out for good: prompts,
comments, cards, commit messages and titles (wording), HTTP formats of the
providers, the hubs, Gitea and MCP (external; their failures are nondeterministic
outcomes where they matter), processes and files behind the sandbox and the
tools, the Web UI (no protocol state), schema and CRUD of the store, logging,
login and its limiter. Of modelled parts: the payload parser and the agent lookup
of the resolver; read and reply tasks of a hub; the diff policy and the choice of
base branch of git_sync; the normalization of configuration values, the migration
of legacy keys, expiry and regeneration of the setup token; `harness.go` and
`harness_builtin.go`, which production does not use; concurrent reads of maps that
another request writes.

## Plan

What remains, in order of importance:

1. An abstract specification of the in-flight lock and of the sessions of a coder,
   implemented by `Dispatch` and `Sessions`.
2. `Dispatch` with the session service: the row that `Sessions` creates at
   dispatch, under the real pipeline.
3. The lock in parallel mode without duplicates, to see which part of `LockInv`
   really needs serial_queue.
4. The resolver and the parser as pure functions; legacy key migration.
