------------------------------- MODULE HubRun -------------------------------
(***************************************************************************)
(* Write tasks that a remote hub executes under the git_sync transport: a  *)
(* deploy key is issued, the run is submitted and polled, the hub pushes a *)
(* draft branch, Matea validates it and opens the pull request, the key is *)
(* revoked, the head is remembered in the session.  Beside the tasks run   *)
(* the hub, the deploy-key sweep, the people who use the repository, and   *)
(* the restart of Matea.                                                   *)
(*                                                                         *)
(* Source: internal/agents (hub_run.go, workspace_transport.go,            *)
(* gitsync_sweep.go, deploy_key_issuer.go, write_pr.go, opencode_http.go,  *)
(* backends/hermes), internal/store/hub_handle.go.  All the tasks are on   *)
(* one repository and in one session.  A commit is the sequence of its     *)
(* history, one author mark per commit: an ancestor is a prefix.  The      *)
(* draft branch matea/hub-N of task N is named by the task.                *)
(***************************************************************************)
EXTENDS Naturals, SequencesExt

CONSTANTS
  Tasks,
  Async,       \* hub-hermes: submit answers at once; hub-opencode: at the end
  Serial,      \* agent_concurrency = serial_queue
  MaxRetries,  \* whole-task retries of an execution
  MaxEvents,   \* bound on restarts and what people do to the repository
  MaxFaults,   \* bound on failed calls of Gitea, the hub or the database
  MaxTrouble,  \* bound on all of these together
  NoTask

ASSUME HubAssumption ==
  /\ Async \in BOOLEAN /\ Serial \in BOOLEAN
  /\ MaxRetries \in Nat /\ MaxEvents \in Nat /\ MaxFaults \in Nat
  /\ MaxTrouble \in Nat
  /\ NoTask \notin Tasks

VARIABLES
  task,      \* tasks.status
  onPR,      \* whose draft branch heads the pull request the task is about
  pc,        \* where runViaHub is
  tries,     \* retries of this execution
  info,      \* GitSyncInfo and issued key of the attempt
  verdict,   \* terminal status the attempt is about to record
  approved,  \* head of the draft branch that passed validation
  status,    \* hub_handles.status; "none" when there is no row
  saved,     \* the contract columns of hub_handles
  issued,    \* keys issued for a task; the key of its n-th issue is <<t, n>>
  keys,      \* deploy keys on the repository
  doomed,    \* those a sweep in progress has decided to revoke
  run,       \* remote runs, one per key
  base,      \* head of the default branch
  tip,       \* heads of the draft branches
  pr,        \* pull requests, by head branch
  lastHead,  \* agent_sessions.last_head
  missed,    \* history: <<what, t>>, a call for t that failed and was passed over
  crashes, faults, moves

taskVars   == <<task, onPR, pc, tries>>
localVars  == <<info, verdict, approved>>
handleVars == <<status, saved>>
keyVars    == <<issued, keys>>
repoVars   == <<base, tip, pr>>
bounds     == <<crashes, moves>>
hubVars == <<taskVars, localVars, handleVars, keyVars, doomed, run, repoVars,
             lastHead, missed, bounds, faults>>

KeyNo  == 1..((MaxRetries + 1) * (MaxEvents + 1))
Keys   == Tasks \X KeyNo
PC     == {"idle", "begin", "prepare", "choose", "submit", "submitting", "save",
           "poll", "approve", "open", "revoke", "mark", "session",
           "markFailed", "revokeFailed"}
Slips  == {"pull", "read", "save"} \X Tasks
Commits == Seq(Tasks \cup {"main", "human", "unsigned"})
Contracts ==
  [draft : Tasks \cup {NoTask}, base : Commits, anchor : Commits,
   key : {0} \cup KeyNo]
NoCommit == <<>>   \* the empty string for a head; a prefix of every commit
NoContract == [draft |-> NoTask, base |-> <<>>, anchor |-> NoCommit, key |-> 0]
NoRun  == [state |-> "none", given |-> NoContract, head |-> NoCommit, cache |-> "none"]

Finished(t)  == task[t] \in {"done", "failed"}
KeyOf(t)     == <<t, info[t].key>>
Goto(t, l)   == pc' = [pc EXCEPT ![t] = l]
Calm         == crashes + moves + faults < MaxTrouble
Fault        == faults < MaxFaults /\ Calm /\ faults' = faults + 1
NoFault      == faults' = faults

\* GitSyncInfo.anchor: the commit the draft has to descend from.
Anchor(c) == IF c.anchor = NoCommit THEN c.base ELSE c.anchor

-----------------------------------------------------------------------------
\* The execution of a task.

\* A task is created; a comment on a pull request is about that one.
Arrive(t) ==
  /\ task[t] = "absent"
  /\ task' = [task EXCEPT ![t] = "pending"]
  /\ \E b \in {NoTask} \cup {u \in Tasks : pr[u] = "open"} :
       onPR' = [onPR EXCEPT ![t] = b]
  /\ UNCHANGED <<pc, tries, localVars, handleVars, keyVars, doomed, run, repoVars,
                 lastHead, missed, bounds, faults>>

Start(t) ==
  /\ task[t] = "pending"
  /\ Serial => \A u \in Tasks : pc[u] = "idle"
  /\ task' = [task EXCEPT ![t] = "running"]
  /\ Goto(t, "begin")
  /\ UNCHANGED <<onPR, tries, localVars, handleVars, keyVars, doomed, run, repoVars,
                 lastHead, missed, bounds, faults>>

\* Mutant of AttemptFails: a retry is not counted against the limit.
AttemptFailsUncounted(t) ==
  /\ tries' = [tries EXCEPT ![t] = @ + 1]
  /\ Goto(t, "begin")
  /\ UNCHANGED <<task, localVars>>

\* The attempt is over without a result, its local variables are gone.  The
\* executor runs the whole task again while it has retries and its context
\* is not done.
AttemptFails(t) ==
  /\ \/ /\ tries[t] < MaxRetries
        /\ tries' = [tries EXCEPT ![t] = @ + 1]
        /\ Goto(t, "begin")
        /\ UNCHANGED task
     \/ /\ task' = [task EXCEPT ![t] = "failed"]
        /\ tries' = [tries EXCEPT ![t] = 0]
        /\ Goto(t, "idle")
  /\ info' = [info EXCEPT ![t] = NoContract]
  /\ verdict' = [verdict EXCEPT ![t] = "none"]
  /\ approved' = [approved EXCEPT ![t] = NoCommit]

\* Mutant of Begin: a retry submits again beside a run that still goes on.
BeginAnew(t) ==
  /\ pc[t] = "begin"
  /\ Goto(t, "prepare")
  /\ UNCHANGED <<task, onPR, tries, localVars, handleVars, keyVars, doomed, run,
                 repoVars, lastHead, missed, bounds, faults>>

\* A persisted non-terminal handle is taken up again, contract and key with it;
\* a handle that cannot be read counts as none.
Begin(t) ==
  /\ pc[t] = "begin"
  /\ \/ /\ status[t] = "running" /\ NoFault
        /\ Goto(t, "poll") /\ info' = [info EXCEPT ![t] = saved[t]]
     \/ /\ IF status[t] = "running" THEN Fault ELSE NoFault
        /\ Goto(t, "prepare") /\ UNCHANGED info
  /\ UNCHANGED <<task, onPR, tries, verdict, approved, handleVars, keyVars, doomed,
                 run, repoVars, lastHead, missed, bounds>>

\* Prepare reads the base head, then issues the key.  It may fail before the
\* key exists or after (the answer of CreateDeployKey is lost).
Prepare(t) ==
  /\ pc[t] = "prepare"
  /\ \E exists, known \in BOOLEAN :
       /\ known => exists
       /\ IF known THEN NoFault ELSE Fault
       /\ IF exists
          THEN /\ issued' = [issued EXCEPT ![t] = @ + 1]
               /\ keys' = keys \cup {<<t, issued[t] + 1>>}
          ELSE UNCHANGED <<issued, keys>>
       /\ IF known
          THEN /\ info' = [info EXCEPT ![t] =
                             [NoContract EXCEPT !.base = base, !.key = issued[t] + 1]]
               /\ Goto(t, "choose")
               /\ UNCHANGED <<task, tries, verdict, approved>>
          ELSE AttemptFails(t)
  /\ UNCHANGED <<onPR, handleVars, doomed, run, repoVars, lastHead, missed, bounds>>

\* resolveGitSyncDraftBranch: the head of the open pull request the task is
\* about; NoTask, a branch of its own, also when the pull request, its state
\* or its head cannot be read.
DraftChoice(t, readable) ==
  IF readable /\ onPR[t] # NoTask /\ pr[onPR[t]] = "open" THEN onPR[t] ELSE NoTask

\* A session that cannot be read is one without a head.
SessionLastHead(readable) == IF readable THEN lastHead ELSE NoCommit

\* Mutant of ContinuationAnchor: a branch without a session to remember it is no anchor.
SessionAnchorOnly(sessionHead, draftHead) == sessionHead

\* Mutant of ContinuationAnchor: what the session has approved is forgotten.
BranchAnchorOnly(sessionHead, draftHead) == draftHead

\* The head the session remembers, else the head of the draft branch.
ContinuationAnchor(sessionHead, draftHead) ==
  IF sessionHead # NoCommit THEN sessionHead ELSE draftHead

EffectiveDraftBranch(t, prepared, anchor) ==
  IF prepared = NoTask \/ anchor = NoCommit THEN t ELSE prepared

\* The start point and the branch the hub is told to push.  The history notes
\* which of the two reads failed where it made a difference.
Choose(t) ==
  /\ pc[t] = "choose"
  /\ \E seen, remembered \in BOOLEAN :
       LET choice == DraftChoice(t, seen)
           head   == IF choice = NoTask THEN NoCommit ELSE tip[choice]
           anchor == ContinuationAnchor(SessionLastHead(remembered), head)
       IN /\ seen \/ DraftChoice(t, TRUE) # NoTask
          /\ remembered \/ lastHead # NoCommit
          /\ IF seen /\ remembered THEN NoFault ELSE Fault
          /\ missed' = missed \cup (IF seen THEN {} ELSE {<<"pull", t>>})
                              \cup (IF remembered THEN {} ELSE {<<"read", t>>})
          /\ info' = [info EXCEPT ![t].draft = EffectiveDraftBranch(t, choice, anchor),
                                  ![t].anchor = anchor]
  /\ Goto(t, "submit")
  /\ UNCHANGED <<task, onPR, tries, verdict, approved, handleVars, keyVars, doomed,
                 run, repoVars, lastHead, bounds>>

\* A run as it starts.  Hermes may refuse it in the answer, and a terminal
\* status in the answer, whichever, is cached as an outcome that is done.
Started(contract) ==
  LET fresh == [NoRun EXCEPT !.state = "working", !.given = contract] IN
  {fresh} \cup (IF Async THEN {[fresh EXCEPT !.state = "failed", !.cache = "done"]}
               ELSE {})

\* The hub starts a run and Submit answers (hermes) or waits (opencode); or
\* the call fails, with the run started or not, and the key is revoked.
Submit(t) ==
  /\ pc[t] = "submit"
  /\ \E started, answered \in BOOLEAN :
       /\ answered => started
       /\ IF answered THEN NoFault ELSE Fault
       /\ IF started
          THEN \E r \in Started(info[t]) : run' = [run EXCEPT ![KeyOf(t)] = r]
          ELSE UNCHANGED run
       /\ Goto(t, IF ~answered THEN "revokeFailed"
                  ELSE IF Async THEN "save" ELSE "submitting")
  /\ UNCHANGED <<task, onPR, tries, localVars, handleVars, keyVars, doomed, repoVars,
                 lastHead, missed, bounds>>

\* The message call of opencode ends: the run is over, or the call failed or
\* timed out and the session was aborted or not.  The outcome is cached.
CallEnds(k) ==
  \/ /\ run[k].state \in {"done", "failed"}
     /\ run' = [run EXCEPT ![k].cache = run[k].state]
  \/ /\ run[k].state = "working"
     /\ \E s \in {"working", "stopped"} :
          run' = [run EXCEPT ![k].state = s, ![k].cache = "failed"]

\* Either way Submit returns a handle.
SubmitReturns(t) ==
  /\ pc[t] = "submitting"
  /\ CallEnds(KeyOf(t))
  /\ Goto(t, "save")
  /\ UNCHANGED <<task, onPR, tries, localVars, handleVars, keyVars, doomed, repoVars,
                 lastHead, missed, bounds, faults>>

\* SaveHubHandle; a failure is only logged.
Save(t) ==
  /\ pc[t] = "save"
  /\ \/ NoFault /\ status' = [status EXCEPT ![t] = "running"]
                /\ saved' = [saved EXCEPT ![t] = info[t]]
     \/ Fault /\ UNCHANGED handleVars
  /\ Goto(t, "poll")
  /\ UNCHANGED <<task, onPR, tries, localVars, keyVars, doomed, run, repoVars, lastHead,
                 missed, bounds>>

\* What a poll may report: hermes asks the run, opencode answers from its
\* cache, or after a restart from the transcript of the session, where a text
\* of the assistant counts as success, of a run that still works too.
HermesReports(k) == {IF run[k].cache # "none" THEN run[k].cache ELSE run[k].state}

OpenCodeReports(k) ==
  IF run[k].cache # "none" THEN {run[k].cache}
  ELSE IF run[k].state = "done" THEN {"done"} ELSE {"done", "failed"}

Reports(k) == IF Async THEN HermesReports(k) ELSE OpenCodeReports(k)

PollEnds(t) ==
  /\ pc[t] = "poll"
  /\ \/ "done" \in Reports(KeyOf(t)) /\ Goto(t, "approve")
     \/ "failed" \in Reports(KeyOf(t)) /\ Goto(t, "markFailed")
  /\ UNCHANGED <<task, onPR, tries, localVars, handleVars, keyVars, doomed, run,
                 repoVars, lastHead, missed, bounds, faults>>

\* A poll that cannot reach the hub ends the attempt; the handle stays as it
\* is for the next one.  Only the last one counts as a fault: the retries
\* bound the others.
PollError(t) ==
  /\ pc[t] = "poll"
  /\ run[KeyOf(t)].cache = "none"
  /\ AttemptFails(t)
  /\ IF task'[t] = "running" THEN NoFault ELSE Fault
  /\ UNCHANGED <<onPR, handleVars, keyVars, doomed, run, repoVars, lastHead,
                 missed, bounds>>

\* The context is done: key revoked, hub asked to stop, handle canceled.
Deadline(t) ==
  /\ pc[t] = "poll"
  /\ verdict' = [verdict EXCEPT ![t] = "canceled"]
  /\ Goto(t, "revoke")
  /\ UNCHANGED <<task, onPR, tries, info, approved, handleVars, keyVars, doomed, run,
                 repoVars, lastHead, missed, bounds, faults>>

\* fetchDraft: the head of the draft branch on the repository.
FetchDraft(c) == tip[c.draft]

\* The default branch moved since Prepare.
Drifted(t) == base # info[t].base

\* validateGitSyncDraft, but for the drift: start point, one footer per new
\* commit.
Valid(t) ==
  LET c == info[t]  head == FetchDraft(c) IN
  /\ head \notin {NoCommit, Anchor(c)}
  /\ IsPrefix(Anchor(c), head)
  /\ \A i \in DOMAIN head : i > Len(Anchor(c)) => head[i] = t

\* Approve: fetch, validate.  The drift is not looked at when the base cannot
\* be fetched; any other call that fails refuses the draft, as does a head
\* that is not the one the hub reported, if it did.
Approve(t) ==
  /\ pc[t] = "approve"
  /\ \/ /\ Valid(t)
        /\ IF Drifted(t) THEN Fault ELSE NoFault
        /\ approved' = [approved EXCEPT ![t] = FetchDraft(info[t])]
        /\ Goto(t, "open")
        /\ UNCHANGED verdict
     \/ /\ IF ~Valid(t) \/ Drifted(t) \/ run[KeyOf(t)].head # FetchDraft(info[t])
           THEN NoFault
           ELSE Fault
        /\ verdict' = [verdict EXCEPT ![t] = "failed"]
        /\ Goto(t, "revoke")
        /\ UNCHANGED approved
  /\ UNCHANGED <<task, onPR, tries, info, handleVars, keyVars, doomed, run, repoVars,
                 lastHead, missed, bounds>>

\* FinalizeWriteTaskPR: the open pull request of the branch, or a new one.  A
\* call that fails may have created it.
OpenPR(t) ==
  /\ pc[t] = "open"
  /\ \E opened, answered \in BOOLEAN :
       /\ answered => opened
       /\ IF answered THEN NoFault ELSE Fault
       /\ pr' = IF opened THEN [pr EXCEPT ![info[t].draft] = "open"] ELSE pr
       /\ verdict' = [verdict EXCEPT ![t] = IF answered THEN "done" ELSE "failed"]
  /\ Goto(t, "revoke")
  /\ UNCHANGED <<task, onPR, tries, info, approved, handleVars, keyVars, doomed, run,
                 base, tip, lastHead, missed, bounds>>

\* The issuer deletes keys; after three attempts it gives up.
RevokeKeys(ks) ==
  \/ NoFault /\ keys' = keys \ ks
  \/ Fault /\ UNCHANGED keys

\* cleanupGitSyncKey: a failure is only logged.
Cleanup(t) == RevokeKeys({KeyOf(t)})

\* abortHubRun also asks the hub to stop; hermes has no such call.
Revoke(t) ==
  /\ pc[t] = "revoke"
  /\ Cleanup(t)
  /\ \E stopped \in BOOLEAN :
       /\ stopped => ~Async /\ verdict[t] = "canceled" /\ run[KeyOf(t)].state = "working"
       /\ run' = IF stopped THEN [run EXCEPT ![KeyOf(t)].state = "stopped"] ELSE run
  /\ Goto(t, "mark")
  /\ UNCHANGED <<task, onPR, tries, localVars, handleVars, issued, doomed, repoVars,
                 lastHead, missed, bounds>>

\* UpdateHubHandleStatus: without a row it does nothing, a failure is only
\* logged and leaves the row non-terminal.  Nobody asks for a run again whose
\* handle is terminal: one that is over is forgotten, one that still works may
\* yet push.
MarkTerminal(t, s) ==
  \/ /\ NoFault
     /\ status' = [status EXCEPT ![t] = IF @ = "none" THEN @ ELSE s]
     /\ run' = [run EXCEPT ![KeyOf(t)] = IF @.state = "working" THEN @ ELSE NoRun]
  \/ /\ status[t] # "none"
     /\ Fault
     /\ UNCHANGED <<status, run>>

Mark(t) ==
  /\ pc[t] = "mark"
  /\ MarkTerminal(t, verdict[t])
  /\ IF verdict[t] = "done"
     THEN Goto(t, "session") /\ UNCHANGED <<task, tries, localVars>>
     ELSE AttemptFails(t)
  /\ UNCHANGED <<onPR, saved, keyVars, doomed, repoVars, lastHead, missed, bounds>>

\* saveSessionProgress, and the task is done; a session that cannot be read or
\* written back is left as it is.
SaveSession(t) ==
  /\ pc[t] = "session"
  /\ \/ NoFault /\ lastHead' = approved[t] /\ UNCHANGED missed
     \/ Fault /\ missed' = missed \cup {<<"save", t>>} /\ UNCHANGED lastHead
  /\ task' = [task EXCEPT ![t] = "done"]
  /\ tries' = [tries EXCEPT ![t] = 0]
  /\ info' = [info EXCEPT ![t] = NoContract]
  /\ verdict' = [verdict EXCEPT ![t] = "none"]
  /\ Goto(t, "idle")
  /\ UNCHANGED <<onPR, approved, handleVars, keyVars, doomed, run, repoVars, bounds>>

\* The hub reported failure: the handle is marked before the key is revoked.
MarkFailed(t) ==
  /\ pc[t] = "markFailed"
  /\ MarkTerminal(t, "failed")
  /\ Goto(t, "revokeFailed")
  /\ UNCHANGED <<task, onPR, tries, localVars, saved, keyVars, doomed, repoVars,
                 lastHead, missed, bounds>>

RevokeFailed(t) ==
  /\ pc[t] = "revokeFailed"
  /\ Cleanup(t)
  /\ AttemptFails(t)
  /\ UNCHANGED <<onPR, handleVars, issued, doomed, run, repoVars,
                 lastHead, missed, bounds>>

-----------------------------------------------------------------------------
\* The hub, the repository and the people who use it.

\* The hub commits on the start point it was given, with the footer, or
\* breaks one of the two instructions; it pushes if its key is live and the
\* branch fast-forwards.
Push(k) ==
  /\ run[k].state = "working"
  /\ run[k].head = NoCommit
  /\ k \in keys
  /\ LET c == run[k].given IN
     \E head \in {Append(Anchor(c), k[1]), Append(Anchor(c), "unsigned"),
                 Append(c.base, k[1])} :
       /\ IsPrefix(tip[c.draft], head)
       /\ tip' = [tip EXCEPT ![c.draft] = head]
       /\ run' = [run EXCEPT ![k].head = head]
  /\ UNCHANGED <<taskVars, localVars, handleVars, keyVars, doomed, base, pr, lastHead,
                 missed, bounds, faults>>

\* Somebody polls for the run now, or will after a retry or a restart.
Awaited(k) ==
  \/ k = KeyOf(k[1])
  \/ status[k[1]] = "running" /\ k[2] = saved[k[1]].key

\* How a run ended is nobody's concern unless it is awaited.
HubEnds(k) ==
  /\ run[k].state = "working"
  /\ IF Awaited(k)
     THEN \E s \in {"done", "failed"} : run' = [run EXCEPT ![k].state = s]
     ELSE run' = [run EXCEPT ![k] = NoRun]
  /\ UNCHANGED <<taskVars, localVars, handleVars, keyVars, doomed, repoVars, lastHead,
                 missed, bounds, faults>>

\* Somebody merges or closes a pull request, moves the default branch, or
\* pushes to a draft branch.
People ==
  /\ crashes + moves < MaxEvents /\ Calm /\ moves' = moves + 1
  /\ \E b \in Tasks :
       \/ /\ pr[b] = "open"
          /\ pr' = [pr EXCEPT ![b] = "closed"]
          /\ base' \in {base, Append(base, "main")}
          /\ UNCHANGED tip
       \/ /\ tip[b] # NoCommit
          /\ tip' = [tip EXCEPT ![b] = Append(@, "human")]
          /\ UNCHANGED <<base, pr>>
       \/ base' = Append(base, "main") /\ UNCHANGED <<tip, pr>>
  /\ UNCHANGED <<taskVars, localVars, handleVars, keyVars, doomed, run, lastHead,
                 missed, crashes, faults>>

-----------------------------------------------------------------------------
\* The sweep of orphaned deploy keys.

\* Mutant of Protected: a task that is not executing is not in flight.
ProtectedWhileExecuting(t) == status[t] = "running" /\ pc[t] # "idle"

\* Mutant of Protected: any handle row protects, a terminal one too.
ProtectedByRow(t) == status[t] # "none"

Protected(t) == status[t] = "running"

\* Any key may be past the half hour of grace, except one between Prepare
\* and Save: that takes no such time unless Submit waits for the whole run.
PastGrace(k) ==
  k = KeyOf(k[1]) => pc[k[1]] \notin {"choose", "submit", "save"}

\* ListHubHandleRepos: a repository without any handle row is not swept.
HasHandleRows == \E t \in Tasks : status[t] # "none"

\* The repositories with rows, the protected set, then the keys on the repository
\* that are past the grace.
SweepList ==
  /\ doomed = {}
  /\ HasHandleRows
  /\ doomed' \in SUBSET {k \in keys : PastGrace(k) /\ ~Protected(k[1])}
  /\ doomed' # {}
  /\ UNCHANGED <<taskVars, localVars, handleVars, keyVars, run, repoVars, lastHead,
                 missed, bounds, faults>>

SweepRevoke ==
  /\ doomed # {}
  /\ doomed' = {}
  /\ RevokeKeys(doomed)
  /\ UNCHANGED <<taskVars, localVars, handleVars, issued, run, repoVars, lastHead,
                 missed, bounds>>

-----------------------------------------------------------------------------
\* FailOrphanedRunningTasksExceptHub, and the re-attached tasks pending.
TaskAfterRestart(t) ==
  IF task[t] # "running" THEN task[t]
  ELSE IF status[t] = "running" THEN "pending" ELSE "failed"

\* ReattachHubHandles reconciles the handle of a task that is over.
HandleAfterRestart(t) ==
  IF status[t] = "running" /\ Finished(t) THEN task[t] ELSE status[t]

\* Matea dies and starts again; the hub and the repository live on.
Restart ==
  /\ crashes + moves < MaxEvents /\ Calm /\ crashes' = crashes + 1
  /\ task' = [t \in Tasks |-> TaskAfterRestart(t)]
  /\ status' = [t \in Tasks |-> HandleAfterRestart(t)]
  /\ pc' = [t \in Tasks |-> "idle"]
  /\ tries' = [t \in Tasks |-> 0]
  /\ info' = [t \in Tasks |-> NoContract]
  /\ verdict' = [t \in Tasks |-> "none"]
  /\ approved' = [t \in Tasks |-> IF task[t] = "done" THEN approved[t] ELSE NoCommit]
  /\ run' = [k \in Keys |-> [run[k] EXCEPT !.cache = "none"]]
  /\ doomed' = {}
  /\ UNCHANGED <<onPR, saved, keyVars, repoVars, lastHead, missed, moves, faults>>

-----------------------------------------------------------------------------
HubInit ==
  /\ task = [t \in Tasks |-> "absent"]
  /\ onPR = [t \in Tasks |-> NoTask]
  /\ pc = [t \in Tasks |-> "idle"]
  /\ tries = [t \in Tasks |-> 0]
  /\ info = [t \in Tasks |-> NoContract]
  /\ verdict = [t \in Tasks |-> "none"]
  /\ approved = [t \in Tasks |-> NoCommit]
  /\ status = [t \in Tasks |-> "none"]
  /\ saved = [t \in Tasks |-> NoContract]
  /\ issued = [t \in Tasks |-> 0]
  /\ keys = {} /\ doomed = {}
  /\ run = [k \in Keys |-> NoRun]
  /\ base = <<"main">>
  /\ tip = [t \in Tasks |-> NoCommit]
  /\ pr = [t \in Tasks |-> "none"]
  /\ lastHead = NoCommit
  /\ missed = {}
  /\ crashes = 0 /\ faults = 0 /\ moves = 0

Execution(t) ==
  \/ Begin(t) \/ Prepare(t) \/ Choose(t) \/ Submit(t) \/ SubmitReturns(t)
  \/ Save(t) \/ PollEnds(t) \/ PollError(t) \/ Deadline(t) \/ Approve(t)
  \/ OpenPR(t) \/ Revoke(t) \/ Mark(t) \/ SaveSession(t)
  \/ MarkFailed(t) \/ RevokeFailed(t)

HubNext ==
  \/ \E t \in Tasks : Arrive(t) \/ Start(t) \/ Execution(t)
  \/ \E k \in Keys : Push(k) \/ HubEnds(k)
  \/ People \/ SweepList \/ SweepRevoke \/ Restart

HubSpec == HubInit /\ [][HubNext]_hubVars

\* Goroutines are scheduled, a poll loop ends by its timeout, and the
\* sweep's ticker fires.  Nothing makes a hub push or end, a task
\* arrive, people act or the process die.
HubFairness ==
  /\ \A t \in Tasks : WF_hubVars(Start(t)) /\ WF_hubVars(Execution(t))
  /\ WF_hubVars(SweepList) /\ WF_hubVars(SweepRevoke)

FairHubSpec == HubSpec /\ HubFairness

-----------------------------------------------------------------------------
HubTypeOK ==
  /\ task \in [Tasks -> {"absent", "pending", "running", "done", "failed"}]
  /\ onPR \in [Tasks -> Tasks \cup {NoTask}]
  /\ pc \in [Tasks -> PC]
  /\ tries \in [Tasks -> 0..MaxRetries]
  /\ info \in [Tasks -> Contracts] /\ saved \in [Tasks -> Contracts]
  /\ verdict \in [Tasks -> {"none", "done", "failed", "canceled"}]
  /\ approved \in [Tasks -> Commits]
  /\ status \in [Tasks -> {"none", "running", "done", "failed", "canceled"}]
  /\ issued \in [Tasks -> {0} \cup KeyNo]
  /\ keys \subseteq Keys /\ doomed \subseteq Keys
  /\ run \in [Keys -> [state : {"none", "working", "done", "failed", "stopped"},
                       given : Contracts, head : Commits,
                       cache : {"none", "done", "failed"}]]
  /\ base \in Commits
  /\ tip \in [Tasks -> Commits]
  /\ pr \in [Tasks -> {"none", "open", "closed"}]
  /\ lastHead \in Commits /\ missed \subseteq Slips
  /\ crashes \in Nat /\ moves \in Nat /\ crashes + moves \in 0..MaxEvents /\ faults \in 0..MaxFaults

\* Every task that succeeded could read the head it was to continue from.
SessionRead == \A t \in Tasks : task[t] = "done" => <<"read", t>> \notin missed

\* The session continues from everything it approved: the head of a task that
\* succeeded stays in the history of last_head, whatever failed, was retried
\* or moved in between.  The anchor a validation goes by is read long before
\* last_head is written.  A restart breaks it: a task that was waiting runs
\* before the one that is re-attached with its old anchor.  So do the two
\* calls whose failure the code passes over: the head of a task that could
\* not be written is not remembered, and a task that could not read the head
\* starts over from its branch or the base.
NoWorkLost ==
  crashes = 0 /\ SessionRead =>
    \A t \in Tasks : task[t] = "done" /\ <<"save", t>> \notin missed =>
      IsPrefix(approved[t], lastHead)

\* At most one live remote run can push to a draft branch: a run that is
\* given up keeps going, but the key it would push with is gone before
\* another run is submitted.
OneWriter ==
  crashes = 0 /\ faults = 0 =>
    \A k, l \in keys :
      /\ run[k].state = "working" /\ run[l].state = "working"
      /\ run[k].given.draft = run[l].given.draft
      => k = l

Underway(t) == pc[t] \in {"choose", "submit", "submitting", "save", "poll"}

\* The sweep never decides on the key of a run that is underway, a restart
\* and its re-attachment included.
SweepSparesRun ==
  faults = 0 => \A t \in Tasks : Underway(t) => KeyOf(t) \notin doomed

\* A task about a pull request of Matea's that nobody closes never opens a
\* second one, also when the session has lost the head in a crash or cannot be
\* read: unless the pull request itself could not be read.
NoSecondPR ==
  moves = 0 => \A t \in Tasks :
    pr[t] = "open" /\ onPR[t] # NoTask /\ <<"pull", t>> \notin missed =>
      pr[onPR[t]] # "open"

\* A task that is over, its handle still marked running after a poll error.
Stranded(t) == Finished(t) /\ status[t] = "running"

\* Every key is revoked in the end, by its run or by the sweep, also when a
\* revocation failed or the answer to its creation was lost; the exceptions
\* are the key of a stranded handle and a repository without any handle row.
KeyRevoked ==
  \A k \in Keys :
    k \in keys ~> \/ k \notin keys
                  \/ Stranded(k[1])
                  \/ ~HasHandleRows
=============================================================================
