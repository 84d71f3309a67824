------------------------------ MODULE AgentRun ------------------------------
(***************************************************************************)
(* One task from its runner's start to its result: the choice of runner    *)
(* and backend, the workspace, the tool loop with the model, the checker   *)
(* and the verify commands, commit, push, pull request and the outbound    *)
(* event (internal/agents runner_*.go, coding_backend.go, harness_util.go, *)
(* write_workspace.go; internal/agent loop.go, tools*.go; sandbox;         *)
(* deliver).  The process may crash and the task be run again over what    *)
(* the crash left in its directory; the context may be cancelled between   *)
(* any two steps.  A call of git and a write of the conversation log may   *)
(* fail; both failures are passed over in the code and noted in slips.     *)
(***************************************************************************)
EXTENDS Transcript, Skills, Functions

CONSTANTS
  Kinds,          \* of tasks, a subset of {"write", "analyze", "review", "reply"}
  Backends,       \* of agents, records [type, sync]: the type and whether it writes by git_sync
  Models,         \* "tools", "denied" (known to have none), "sparse" (nothing is known), "plain" (no adapter)
  Calls,          \* the tool names the model comes up with
  AgentLoop,      \* the agent's overrides of the loop configuration ...
  DefaultLoop,    \* ... and the defaults they are merged into
  AgentMaxInput, ContextWindow, DefaultMaxInput,     \* in tokens; 0 is unset
  ToolTokens,     \* what one offered tool costs of the input budget
  McpTools,       \* names of the tools of the agent's MCP servers
  GatewaySkills, WorkspaceSkills,   \* skill files, in the order of their entries
  LLMRetries, EmitRetries,
  Texts,          \* what an execution may write into a file
  MaxCalls,       \* bound: tool calls of one turn
  MaxAttempts,    \* bound: executions of the task
  MaxFaults,      \* bound: failures the code passes over
  None

ASSUME AgentRunAssumption ==
  /\ Kinds \subseteq {"write", "analyze", "review", "reply"}
  /\ DefaultLoop.maxIterations \in Nat \ {0}          \* validated when the process starts ...
  /\ DefaultLoop.noProgressLimit \in Int              \* ... and zero or less turns the guard off
  /\ DefaultLoop.verify \in Seq(STRING) /\ DefaultLoop.checker \in BOOLEAN
  /\ AgentLoop.maxIterations \in Int                  \* of the agent nothing is validated
  /\ AgentLoop.noProgressLimit \in Int \cup {None}
  /\ AgentLoop.verify \in Seq(STRING) \cup {None} /\ AgentLoop.checker \in BOOLEAN \cup {None}
  /\ AgentMaxInput \in Int /\ ContextWindow \in Nat /\ DefaultMaxInput \in Nat \ {0}
  /\ ToolTokens \in Nat /\ IsFiniteSet(McpTools)
  /\ MaxCalls \in Nat /\ MaxAttempts \in Nat \ {0} /\ MaxFaults \in Nat

Files == {"src", "_patch.diff"}
Gone == <<0, "gone">>                                 \* of a file: there is none
Original == <<0, "cloned">>
Edits(n) == {n} \X Texts                              \* what the n-th execution can write
Contents == {Gone, Original} \cup UNION {Edits(n) : n \in 1 .. MaxAttempts}
Clean == [f \in Files |-> IF f = "src" THEN Original ELSE Gone]
CloneOf(tree) == [files |-> tree, index |-> tree, head |-> tree, branch |-> tree, on |-> TRUE]

(* MergeLoopConfig: an empty list of commands is a choice, no list is none. *)
MergeLoopConfig(agent, defaults) ==
  [maxIterations |-> IF agent.maxIterations > 0 THEN agent.maxIterations ELSE defaults.maxIterations,
   noProgressLimit |-> IF agent.noProgressLimit # None THEN agent.noProgressLimit ELSE defaults.noProgressLimit,
   verify |-> IF agent.verify # None THEN agent.verify ELSE defaults.verify,
   checker |-> IF agent.checker # None THEN agent.checker ELSE defaults.checker]
Loop == MergeLoopConfig(AgentLoop, DefaultLoop)

(* resolveMaxInputTokens: the agent's limit within the model's window. *)
MaxInput ==
  LET window == (ContextWindow * 9) \div 10
  IN  IF AgentMaxInput > 0 THEN (IF window > 0 THEN Min({AgentMaxInput, window}) ELSE AgentMaxInput)
      ELSE IF window > 0 THEN window ELSE DefaultMaxInput

VARIABLES
  task,           \* [kind, backend, model]
  pc, attempt, cancelled,
  dir,            \* the task's directory: "absent", "clone" or "stale"
  work,           \* what a clone holds: the files, the index, the commits that are checked
                  \* out (head) and on the task's branch, and whether these are the same (on)
  base, remote, pr,   \* the branch as it was cloned and as it is, and whether it has a pull request
  registry,       \* tool name -> what implements it
  skills,         \* names of the skills found and of those loaded
  msgs, start,    \* the conversation and msgStart
  next,           \* number of the next message
  iter, calls, tries,
  last, stall,    \* lastProgressSnap and stallCount
  snaps,          \* every snapshot taken so far
  log,            \* rows [attempt, iteration, seq, id] of the task in the conversation log
  slips,          \* failures that were passed over, <<what, attempt, iteration>>
  step,           \* verify commands passed so far
  verified,       \* the files as the verify commands left them, or None
  pushed, outcome

taskVars == <<task, pc, attempt, cancelled>>
repoVars == <<dir, work, base, remote, pr>>
toolVars == <<registry, skills>>
talkVars == <<msgs, start, next, iter, calls, tries, last, stall, snaps, log, slips>>
gateVars == <<step, verified, pushed>>
vars == <<taskVars, repoVars, toolVars, talkVars, gateVars, outcome>>

Init ==
  /\ task \in [kind : Kinds, backend : Backends, model : Models]
  /\ pc = "resolve" /\ attempt = 1 /\ cancelled = FALSE
  /\ dir = "absent" /\ work = CloneOf(Clean)
  /\ base = Clean /\ remote = Clean /\ pr = FALSE
  /\ registry = << >> /\ skills = [found |-> {}, loaded |-> {}]
  /\ msgs = << >> /\ start = 0 /\ next = 1 /\ iter = 0 /\ calls = 0 /\ tries = 0
  /\ last = {} /\ stall = 0 /\ snaps = << >> /\ log = {} /\ slips = {}
  /\ step = 0 /\ verified = None /\ pushed = FALSE /\ outcome = "none"

-----------------------------------------------------------------------------
(* Ends of a run.  Once the workspace is prepared its removal is deferred.  *)

Leave(how) == /\ pc' = "end" /\ outcome' = how
              /\ dir' = IF dir = "clone" THEN "absent" ELSE dir
              /\ UNCHANGED <<task, attempt, cancelled, work, base, remote, pr>>

Fail == Leave("failed") /\ UNCHANGED <<toolVars, talkVars, gateVars>>

\* A failure the code does not stop at.
Slip(what) == Cardinality(slips) < MaxFaults /\ slips' = slips \cup {<<what, attempt, iter>>}
Slipped(what) == \E s \in slips : s[1] = what /\ s[2] = attempt

Goto(where) == pc' = where /\ UNCHANGED <<task, attempt, cancelled, outcome>>

(* validateHubDispatch: the backend has a name this process can serve. *)
KnownBackend == task.backend.type # "unknown"
Is(type) == task.backend.type = type

(* A write task runs on a hub only by git_sync. *)
GitSyncWrite == task.backend.type \in {"hermes", "opencode"} /\ task.backend.sync

ViaHub == Leave("hub") /\ UNCHANGED <<toolVars, talkVars, gateVars>>
On(where) == Goto(where) /\ UNCHANGED <<repoVars, toolVars, talkVars, gateVars>>

StartWrite ==
  /\ pc = "resolve" /\ task.kind = "write"
  /\ \/ KnownBackend /\ GitSyncWrite /\ (ViaHub \/ Fail)     \* the health check
     \/ ~(KnownBackend /\ (GitSyncWrite \/ Is("builtin"))) /\ Fail
     \/ Is("builtin") /\ On("prepare")

StartAnalyze ==
  /\ pc = "resolve" /\ task.kind = "analyze"
  /\ \/ ~KnownBackend /\ Fail
     \/ Is("hermes") /\ ViaHub
     \/ Is("opencode") /\ On("prepare")
     \/ Is("builtin") /\ (On("prepare") \/ Fail)              \* no such provider

(* Hermes, too, is given the diff Matea fetched. *)
StartReview ==
  /\ pc = "resolve" /\ task.kind = "review"
  /\ \/ ~KnownBackend /\ Fail
     \/ Is("opencode") /\ On("prepare")
     \/ task.backend.type \in {"hermes", "builtin"} /\ Fail    \* the diff cannot be read
     \/ Is("hermes") /\ ViaHub
     \/ Is("builtin") /\ On("single")

StartReply ==
  /\ pc = "resolve" /\ task.kind = "reply"
  /\ \/ ~KnownBackend /\ Fail
     \/ Is("hermes") /\ ViaHub
     \/ Is("opencode") /\ On("prepare")
     \/ Is("builtin") /\ (On("single") \/ Fail)

(* git clone . refuses a directory that is not empty, and a failed clone    *)
(* removes the directory, also what an earlier execution left there.        *)
CanClone == dir = "absent"

(* Only a write task needs its workspace; the others ask the model once.    *)
Degrade == IF task.kind = "write" THEN pc' = "end" /\ outcome' = "failed"
           ELSE pc' = "single" /\ UNCHANGED outcome

After == IF Is("builtin") THEN "assemble" ELSE "hub"

\* Mutant of PrepareWorkspace: takes a directory that is already there as the clone.
PrepareWorkspaceInPlace ==
  /\ pc = "prepare" /\ task.kind \in {"write", "analyze"}
  /\ dir' = "clone" /\ base' = remote
  /\ work' = IF dir = "stale" THEN work ELSE CloneOf(remote)
  /\ Goto(After)
  /\ UNCHANGED <<remote, pr, toolVars, talkVars, gateVars>>

Clone ==
  \/ /\ CanClone
     /\ dir' = "clone" /\ work' = CloneOf(remote) /\ base' = remote
     /\ Goto(After)
     /\ UNCHANGED <<remote, pr, toolVars, talkVars, gateVars>>
  \/ /\ dir' \in {"absent", dir}                       \* Gitea does not answer, or the clone fails
     /\ Degrade
     /\ UNCHANGED <<work, base, remote, pr, task, attempt, cancelled, toolVars, talkVars, gateVars>>

PrepareWorkspace == pc = "prepare" /\ task.kind \in {"write", "analyze"} /\ Clone

(* The head branch of the pull request. *)
PrepareReview == pc = "prepare" /\ task.kind = "review" /\ Clone

(* A reply gets an empty directory, whatever is in it. *)
PrepareReply ==
  /\ pc = "prepare" /\ task.kind = "reply"
  /\ \/ dir' = "clone" /\ Goto("hub") /\ UNCHANGED <<work, base, remote, pr, toolVars, talkVars, gateVars>>
     \/ On("single")

HubRead == pc = "hub" /\ ViaHub

-----------------------------------------------------------------------------
(* Tools *)

(* Ten builtin tools: those that only read, two that give the model's path   *)
(* to find, and three that write.                                            *)
Readers == {"read_file", "search_code", "rg", "git_log", "git_blame"}
Finders == {"list_files", "tree"}
toolBuilders ==
  [n \in Readers \cup Finders \cup {"write_file", "run_command", "apply_diff"} |->
     CASE n \in Readers -> "read" [] n \in Finders -> "find" [] n = "write_file" -> "write"
       [] n = "run_command" -> "run" [] n = "apply_diff" -> "diff"]
Packs == [write |-> DOMAIN toolBuilders,
          analyze |-> {"list_files", "rg", "search_code", "read_file", "tree", "git_log"}]

AssembleToolRegistry(kind) == Restrict(toolBuilders, Packs[kind])

(* Later registrations of a name replace earlier ones. *)
Registered(names, impl, tools) ==
  [n \in names \cup DOMAIN tools |-> IF n \in names THEN impl ELSE tools[n]]

RegisterMCPTools(tools) == Registered(McpTools, "mcp", tools)

RegisterSkillTools(tools) ==
  Registered({"load_skill"}, "load", Registered({"list_skills"}, "list", tools))

\* Mutant of AllowScripts: a reader may load scripts, too.
AllowScriptsAlways(kind) == TRUE

AllowScripts(kind) == kind = "write"

Aliases == [ls |-> "list_files", dir |-> "list_files", pwd |-> "run_command",
            cat |-> "read_file", type |-> "read_file"]

(* ExecuteTool: the registered tool, else the tool an alias stands for if    *)
(* it is registered, else an answer that names the tools there are.  Of a    *)
(* rewritten call only what ls and dir look for comes from the model.        *)
Implementation(name) ==
  CASE name \in DOMAIN registry -> registry[name]
    [] name \notin DOMAIN registry /\ name \in DOMAIN Aliases
       /\ Aliases[name] \in DOMAIN registry -> IF Aliases[name] = "list_files" THEN "find" ELSE "read"
    [] OTHER -> "unknown"

Edited(f) == {[work EXCEPT !.files[f] = c] : c \in Edits(attempt)}
Removed == {[work EXCEPT !.files = [f \in Files |-> IF f \in F THEN Gone ELSE @[f]]] : F \in SUBSET Files}

\* A commit of a tree: on the task's branch, if that is checked out.
Committed(tree) == [work EXCEPT !.index = tree, !.head = tree, !.branch = IF work.on THEN tree ELSE @]

(* A command of the agent's is any command.  It may edit and remove files,   *)
(* stage them, commit them, go to another branch, go back to the task's, or  *)
(* reset the commits to what was cloned.                                     *)
Shell ==
  Edited("src") \cup Removed \cup
  {[work EXCEPT !.index = work.files], Committed(work.files),
   [work EXCEPT !.on = FALSE], CloneOf(work.branch), [Committed(base) EXCEPT !.files = base]}

(* What a call may leave in the workspace.  find takes a path that starts    *)
(* with a dash for one of its actions: it may delete files, and of those git *)
(* keeps, too, without which every later command of git fails; another one   *)
(* writes a file, but only one named -maxdepth, for which Files has no       *)
(* member.  apply_diff goes through a file of its own, whose removal is not  *)
(* checked.                                                                  *)
Effect(impl) ==
  CASE impl = "write"             -> {work} \cup Edited("src")
    [] impl = "find"              -> Removed
    [] impl \in {"run", "script"} -> Shell
    [] impl = "diff" -> {work} \cup Edited("src") \cup Edited("_patch.diff")
    [] OTHER         -> {work}

Skill == ScanSkills(GatewaySkills, WorkspaceSkills)

(* A scan starts over; what a skill registered before stays registered.      *)
ListSkills == skills' = [found |-> DOMAIN Skill, loaded |-> {}] /\ UNCHANGED registry

LoadSkill(name, allowScripts) ==
  IF name \notin skills.found THEN UNCHANGED toolVars
  ELSE /\ registry' = IF allowScripts THEN Registered(Skill[name].scripts, "script", registry) ELSE registry
       /\ skills' = [skills EXCEPT !.loaded = @ \cup {name}]

Register(impl) ==
  CASE impl = "list" -> ListSkills
    [] impl = "load" -> \E name \in DOMAIN Skill \cup {"missing"} : LoadSkill(name, AllowScripts(task.kind))
    [] OTHER         -> UNCHANGED toolVars

ResultSizes(impl) == IF impl = "read" THEN {1, 3} ELSE {1}

-----------------------------------------------------------------------------
(* The loop *)

Say(role, size, n) == [id |-> next, role |-> role, size |-> size, calls |-> n]

(* A coder is refused a model that is known to have no tools, and let use one *)
(* of which only the name is known; the loop offers tools to neither.         *)
SupportsTools == task.model # "plain"
ModelToolsDenied == task.model = "denied"
MetaSupportsTools == task.model = "tools"

Tools == RegisterSkillTools(RegisterMCPTools(AssembleToolRegistry(task.kind)))
Prompt(size) == << [id |-> 1, role |-> "system", size |-> size, calls |-> 0],
                   [id |-> 2, role |-> "user", size |-> 1, calls |-> 0] >>

(* LoadCodeContext takes files in until they would exceed the input limit;    *)
(* the prompt around them is not counted.                                     *)
ContextSizes == {1, 2}

(* The tools are listed once, before the first iteration.                     *)
Offered == IF MetaSupportsTools THEN Cardinality(DOMAIN Tools) ELSE 0
Truncated(ms) == TruncateMessages(ms, ToolTokens * Offered, MaxInput, MetaSupportsTools)

Ready(ms) == /\ registry' = Tools /\ msgs' = ms /\ next' = 3
             /\ Goto("iterate")
             /\ UNCHANGED <<repoVars, skills, start, iter, calls, tries, last, stall, snaps, log, slips, gateVars>>

AssembleWrite ==
  /\ pc = "assemble" /\ task.kind = "write"
  /\ \/ (~SupportsTools \/ ModelToolsDenied \/ McpTools # {}) /\ Fail    \* also a server that does not answer
     \/ /\ SupportsTools /\ ~ModelToolsDenied
        /\ \E size \in ContextSizes : Ready(Prompt(size))

AssembleAnalyze ==
  /\ pc = "assemble" /\ task.kind = "analyze"
  /\ \/ ~SupportsTools /\ On("single")
     \/ SupportsTools /\ McpTools # {} /\ Fail
     \/ /\ SupportsTools
        /\ \E size \in ContextSizes :
             LET cut == Truncated(Prompt(size)) IN IF cut.ok THEN Ready(cut.msgs) ELSE Fail

Iterations == IF task.kind = "analyze" THEN 5 ELSE Loop.maxIterations
(* One transaction, whose failure is only warned about.  The rows of a task  *)
(* name no execution: attempt is here to tell them apart.                    *)
Rows(iteration, delta) ==
  {[attempt |-> attempt, iteration |-> iteration, seq |-> i, id |-> delta[i].id] : i \in DOMAIN delta}
RecordIteration(iteration, delta) ==
  \/ log' = log \cup Rows(iteration, delta) /\ UNCHANGED slips
  \/ log' = log /\ Slip("log")

\* Mutant of MsgStart: taken before the truncation.
MsgStartEarly(trimmed) == Len(msgs)

(* msgStart is taken after the truncation, which may have dropped messages.  *)
MsgStart(trimmed) == Len(trimmed)

Iterate ==
  /\ pc = "iterate"
  /\ LET cut == Truncated(msgs)
     IN  IF cancelled \/ iter = Iterations \/ ~cut.ok THEN Fail
         ELSE /\ msgs' = cut.msgs /\ start' = MsgStart(cut.msgs)
              /\ IF iter = 0 THEN RecordIteration(0, cut.msgs) ELSE UNCHANGED <<log, slips>>
              /\ tries' = 0
              /\ Goto("ask")
              /\ UNCHANGED <<repoVars, toolVars, next, iter, calls, last, stall, snaps, gateVars>>

(* ChatCompletion with the 429 retries around it. *)
AskFails ==
  /\ pc = "ask"
  /\ \/ ~cancelled /\ tries < LLMRetries /\ tries' = tries + 1
        /\ UNCHANGED <<taskVars, repoVars, toolVars, gateVars, outcome,
                       msgs, start, next, iter, calls, last, stall, snaps, log, slips>>
     \/ Fail

Delta(ms) == SubSeq(ms, start + 1, Len(ms))

Answer(markup) ==
  /\ pc = "ask" /\ ~cancelled
  /\ next' = next + 1
  /\ RecordIteration(iter + 1, Append(Delta(msgs), Say("assistant", 1, 0)))
  /\ IF markup THEN Leave("failed")
     ELSE Goto(IF task.kind = "write" THEN "check" ELSE "deliver") /\ UNCHANGED repoVars
  /\ tries' = 0
  /\ UNCHANGED <<toolVars, msgs, start, iter, calls, last, stall, snaps, gateVars>>

(* Structured calls come only from a model that was offered tools. *)
AnswerCalls(n) ==
  /\ pc = "ask" /\ ~cancelled /\ Offered > 0
  /\ msgs' = Append(msgs, Say("assistant", 1, n)) /\ next' = next + 1
  /\ calls' = n
  /\ Goto("tools")
  /\ UNCHANGED <<repoVars, toolVars, start, iter, tries, last, stall, snaps, log, slips, gateVars>>

ExecuteTool(name) ==
  /\ pc = "tools" /\ calls > 0
  /\ LET impl == Implementation(name)
     IN  /\ work' \in Effect(impl)
         /\ Register(impl)
         /\ \E s \in ResultSizes(impl) : msgs' = Append(msgs, Say("tool", s, 0))
  /\ next' = next + 1 /\ calls' = calls - 1
  /\ UNCHANGED <<taskVars, dir, base, remote, pr, start, iter, tries, last, stall, snaps, log, slips, gateVars, outcome>>

(* git status --porcelain names the files that differ and how: the index     *)
(* from the commit that is checked out, and the file from the index.         *)
Change(a, b) == CASE a = b -> " " [] a # b /\ a = Gone -> "A" [] a # b /\ b = Gone -> "D" [] OTHER -> "M"
Status ==
  {<<f, Change(work.head[f], work.index[f]), Change(work.index[f], work.files[f])>> :
     f \in {g \in Files : ~(work.head[g] = work.index[g] /\ work.index[g] = work.files[g])}}

\* Mutant of StallCount: an empty fingerprint counts as one that has not changed.
StallCountClean(snap) == IF snap = last THEN stall + 1 ELSE 0

StallCount(snap) == IF last # {} /\ snap = last THEN stall + 1 ELSE 0

Compare(snap) == stall' = StallCount(snap) /\ snaps' = Append(snaps, snap) /\ last' = snap

\* workspaceProgressSnapshot is empty also when git fails.
checkNoProgress ==
  IF task.kind = "write" /\ Loop.noProgressLimit > 0
  THEN \E snap \in {Status, {}} : Compare(snap)
  ELSE UNCHANGED <<last, stall, snaps>>

EndTurn ==
  /\ pc = "tools" /\ calls = 0
  /\ RecordIteration(iter + 1, Delta(msgs))
  /\ checkNoProgress
  /\ iter' = iter + 1
  /\ IF stall' > 0 /\ stall' >= Loop.noProgressLimit THEN Leave("stalled")
     ELSE Goto("iterate") /\ UNCHANGED repoVars
  /\ UNCHANGED <<toolVars, msgs, start, next, calls, tries, gateVars>>

(* Runners without a loop ask once: after one truncation, or not at all when  *)
(* nothing fits, no provider is there or it fails.                            *)
AskOnce == \/ ~cancelled /\ On("deliver")
           \/ Fail

AnalyzeOnce == pc = "single" /\ task.kind = "analyze" /\ AskOnce
ReviewOnce  == pc = "single" /\ task.kind = "review" /\ AskOnce
ReplyOnce   == pc = "single" /\ task.kind = "reply" /\ AskOnce

-----------------------------------------------------------------------------
(* The gates and the delivery of a write task.  Commands of the sandbox do   *)
(* not see the task's context, so a cancelled task goes on through them.     *)

(* What the checker's answer is taken for; a missing verdict line is a failure. *)
Verdict == {"PASS", "FAIL", "none"}

Check ==
  /\ pc = "check"
  /\ \/ ~Loop.checker /\ On("verify")
     \/ Loop.checker /\ \E verdict \in Verdict :
          IF verdict = "PASS" /\ ~cancelled THEN On("verify") ELSE Fail    \* also a model that fails

(* One command: it may write into the tree; it counts as failed also when    *)
(* its output crosses the limit in the middle of a write.                    *)
Verify ==
  /\ pc = "verify" /\ step < Len(Loop.verify)
  /\ work' \in {work} \cup Edited("src")
  /\ \/ step' = step + 1 /\ UNCHANGED <<pc, outcome, dir>>
     \/ /\ pc' = "end" /\ outcome' = "failed" /\ dir' = "absent"
        /\ UNCHANGED step
  /\ UNCHANGED <<task, attempt, cancelled, base, remote, pr, toolVars, talkVars, verified, pushed>>

VerifyDone ==
  /\ pc = "verify" /\ step = Len(Loop.verify)
  /\ verified' = work.files
  /\ Goto("commit")
  /\ UNCHANGED <<repoVars, toolVars, talkVars, step, pushed>>

\* Mutant of Staged: git commit -a, files git does not know yet stay behind.
StagedTracked == [work.files EXCEPT !["_patch.diff"] = work.index["_patch.diff"]]

(* git add . takes in what git status lists; when it fails, the index is as  *)
(* the agent left it, and git commit refuses one that holds nothing new.     *)
Staged == work.files

\* A git status that fails lists no changes.
Commit ==
  /\ pc = "commit"
  /\ \/ Status = {} /\ Goto("push") /\ UNCHANGED <<dir, work, slips>>
     \/ Status # {} /\ Slip("status") /\ Goto("push") /\ UNCHANGED <<dir, work>>
     \/ Status # {} /\ work' = Committed(Staged) /\ Goto("push") /\ UNCHANGED <<dir, slips>>
     \/ /\ work.index # work.head /\ Slip("add")
        /\ work' = Committed(work.index) /\ Goto("push") /\ UNCHANGED dir
     \/ /\ Status # {} /\ UNCHANGED <<work, task, attempt, cancelled, slips>>
        /\ pc' = "end" /\ outcome' = "failed" /\ dir' = "absent"
  /\ UNCHANGED <<base, remote, pr, toolVars, msgs, start, next, iter, calls, tries, last, stall, snaps, log, gateVars>>

(* The task's branch is pushed, by its name, whatever is checked out.        *)
Push ==
  /\ pc = "push"
  /\ \/ /\ remote' = work.branch /\ pushed' = TRUE
        /\ Goto("pr")
        /\ UNCHANGED <<dir, work, base, pr, step, verified, toolVars, talkVars>>
     \/ Fail

FinalizeWriteTaskPR ==
  /\ pc = "pr"
  /\ \/ pr' = TRUE /\ Goto("deliver")
        /\ UNCHANGED <<dir, work, base, remote, toolVars, talkVars, gateVars>>
     \/ Fail

(* Emit: a refusal ends the attempts at once; no outcome fails the task.     *)
Emit ==
  /\ pc = "deliver"
  /\ \/ Leave("ok") /\ UNCHANGED <<toolVars, talkVars, gateVars>>
     \/ /\ tries < EmitRetries /\ tries' = tries + 1
        /\ UNCHANGED <<taskVars, repoVars, toolVars, gateVars, outcome,
                       msgs, start, next, iter, calls, last, stall, snaps, log, slips>>

-----------------------------------------------------------------------------
(* The deadline or a reset cancels the context; the process may die; a task   *)
(* that did not succeed is run again in the same directory, and its           *)
(* conversation is added to the log of the earlier executions.                *)
Cancel == /\ pc # "end" /\ ~cancelled
          /\ cancelled' = TRUE
          /\ UNCHANGED <<task, pc, attempt, repoVars, toolVars, talkVars, gateVars, outcome>>

Crash == /\ pc # "end" /\ attempt < MaxAttempts
         /\ pc' = "end" /\ outcome' = "crashed"
         /\ dir' = IF dir = "clone" THEN "stale" ELSE dir
         /\ UNCHANGED <<task, attempt, cancelled, work, base, remote, pr, toolVars, talkVars, gateVars>>

Rerun == /\ pc = "end" /\ outcome \in {"failed", "stalled", "crashed"} /\ attempt < MaxAttempts
         /\ attempt' = attempt + 1 /\ pc' = "resolve" /\ cancelled' = FALSE
         /\ registry' = << >> /\ skills' = [found |-> {}, loaded |-> {}]
         /\ msgs' = << >> /\ start' = 0 /\ next' = 1 /\ iter' = 0 /\ calls' = 0 /\ tries' = 0
         /\ last' = {} /\ stall' = 0 /\ snaps' = << >>
         /\ step' = 0 /\ verified' = None /\ pushed' = FALSE /\ outcome' = "none"
         /\ work' = IF dir = "absent" THEN CloneOf(base) ELSE work
         /\ UNCHANGED <<task, dir, base, remote, pr, log, slips>>

Start   == StartWrite \/ StartAnalyze \/ StartReview \/ StartReply
Prepare == PrepareWorkspace \/ PrepareReview \/ PrepareReply \/ HubRead \/ AssembleWrite \/ AssembleAnalyze
Turn    == \/ Iterate \/ AskFails \/ EndTurn
           \/ \E b \in BOOLEAN : Answer(b)
           \/ \E n \in 1 .. MaxCalls : AnswerCalls(n)
           \/ \E name \in Calls : ExecuteTool(name)
Single  == AnalyzeOnce \/ ReviewOnce \/ ReplyOnce
Finish  == Check \/ Verify \/ VerifyDone \/ Commit \/ Push \/ FinalizeWriteTaskPR \/ Emit

Run == Start \/ Prepare \/ Turn \/ Single \/ Finish

Next == Run \/ Cancel \/ Crash \/ Rerun

Spec == Init /\ [][Next]_vars

-----------------------------------------------------------------------------
(* Types and the bounds of the counters. *)
AgentTypeOK ==
  /\ task \in [kind : Kinds, backend : Backends, model : Models]
  /\ pc \in {"resolve", "prepare", "hub", "single", "assemble", "iterate", "ask", "tools",
             "check", "verify", "commit", "push", "pr", "deliver", "end"}
  /\ outcome \in {"none", "ok", "failed", "stalled", "hub", "crashed"} /\ (outcome # "none" <=> pc = "end")
  /\ dir \in {"absent", "clone", "stale"}
  /\ work \in [files : [Files -> Contents], index : [Files -> Contents], head : [Files -> Contents],
              branch : [Files -> Contents], on : BOOLEAN]
  /\ \A i \in DOMAIN msgs : msgs[i] \in Message
  /\ start <= Len(msgs) /\ iter <= Iterations /\ calls <= MaxCalls
  /\ stall = 0 \/ stall <= Loop.noProgressLimit

(* A task that only reads adds nothing to the files of its clone: it edits,   *)
(* stages and commits none, by no tool of the read-only pack, no alias and no *)
(* skill the model loads; all it may do to one is make find delete it         *)
(* (tools.go ExecuteTool, platform_cmds.go, tools_skills.go LoadSkill,        *)
(* runner_analyze.go).                                                        *)
AnalyzeAddsNothing ==
  task.kind # "write" /\ dir = "clone" =>
    /\ work.index = base /\ work.head = base /\ work.branch = base
    /\ \A f \in Files : work.files[f] \in {base[f], Gone}

(* Unless the agent left the task's branch, or git status or git add failed,  *)
(* what an execution pushes is, file for file, what its verify commands       *)
(* passed: whichever way the edits, the agent's own commits and resets, what  *)
(* it had staged and what a verify command wrote went into the commit         *)
(* (runner_write.go, write_workspace.go finalizeWriteChanges).                *)
PushedIsVerified ==
  pushed /\ work.on /\ ~Slipped("status") /\ ~Slipped("add") => remote = verified

(* Nothing an earlier execution left in the task's directory is delivered:    *)
(* every file on the branch is as this execution cloned it or as it wrote it, *)
(* or it is gone, whatever failed and whatever was checked out (sandbox.go    *)
(* Setup, write_workspace.go prepareWriteWorkspace).                          *)
NoLeftover == pushed => \A f \in Files : remote[f] \in {base[f], Gone} \cup Edits(attempt)

(* The guard stops a run exactly when the last rounds, one more than the      *)
(* limit, ended with one and the same list of uncommitted files (loop.go      *)
(* checkNoProgress): the count starts with the second equal snapshot, is      *)
(* forgotten at every change and never runs on a clean tree.                  *)
Stalled(shots) ==
  LET n == Len(shots)
  IN  /\ 0 < Loop.noProgressLimit /\ Loop.noProgressLimit < n /\ shots[n] # {}
      /\ \A i \in n - Loop.noProgressLimit .. n : shots[i] = shots[n]
StallIsReal == outcome # "crashed" => (outcome = "stalled" <=> Stalled(snaps))

(* Listed by iteration and seq, an execution's rows in the conversation log   *)
(* come in the order of the conversation, whichever writes failed; and unless *)
(* one did, they hold, between two turns, every message there was, although   *)
(* messages are dropped from the request before every turn (loop.go Run,      *)
(* persistInitial, persistIteration; conversation_log.go).                    *)
Mine == {r \in log : r.attempt = attempt}
Before(r, s) == r.iteration < s.iteration \/ (r.iteration = s.iteration /\ r.seq < s.seq)
LogComplete ==
  /\ \A r, s \in Mine : r.id < s.id <=> Before(r, s)
  /\ Mine # {} /\ ~Slipped("log") /\ pc # "tools" /\ outcome # "crashed" =>
       {r.id : r \in Mine} = 1 .. next - 1

=============================================================================
