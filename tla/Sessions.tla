------------------------------ MODULE Sessions ------------------------------
(***************************************************************************)
(* Sessions of coders on one issue, and the branch they work on: find or   *)
(* create at dispatch, fresh clone and branch plan of the builtin write    *)
(* path, forced push, progress and completion written back to the row;     *)
(* beside them the archiving events, the timer of a merge, the cleanup     *)
(* loop, the people who use the branch and the restart of the process.     *)
(*                                                                         *)
(* Source: internal/workflow (session.go, lifecycle.go), internal/store    *)
(* (session.go), internal/agents (write_workspace.go, runners_git.go,      *)
(* runner_write.go, write_pr.go), internal/sandbox/git.go,                 *)
(* internal/dispatcher (pipeline.go, dispatcher.go).  The tasks are of one *)
(* type, so GenerateBranchName gives all of them the same branch.  A       *)
(* commit is the sequence of its history, one author mark per commit: an   *)
(* ancestor is a prefix.                                                   *)
(***************************************************************************)
EXTENDS Naturals, SequencesExt

CONSTANTS
  Tasks, Coders, CoderOf,
  Ids,         \* ids of session rows
  Legacy,      \* rows from before B2.2, which own a workspace directory
  MaxRetries,  \* whole-task retries of each task
  MaxEvents,   \* bound on closes, merges, resets, interventions, restarts and
               \* on calls that fail or agents that stray
  NoTask, NoId

ASSUME SessionsAssumption ==
  /\ Coders # {} /\ CoderOf \in [Tasks -> Coders]
  /\ Legacy \subseteq Ids
  /\ MaxRetries \in [Tasks -> Nat] /\ MaxEvents \in Nat
  /\ NoTask \notin Tasks /\ NoId \notin Ids
  /\ "main" \notin Tasks /\ "person" \notin Tasks

VARIABLES
  sess,    \* agent_sessions
  pc,      \* where the task is
  tries,   \* attempts before this one
  sid,     \* tasks.session_id
  onBase,  \* tasks.base_branch is set
  local,   \* HEAD of the clone
  copy,    \* row read and not yet written back
  lock,    \* inFlight: the task that holds the issue
  remote,  \* head of the work branch on Gitea, NoCommit when there is none
  main,    \* head of the default branch
  pr,      \* pull request of the work branch
  todo,    \* rows an archiver has listed and not yet archived
  timer,   \* scheduleWorkspaceDeletion sleeps
  stale,   \* rows as the cleanup loop has listed them
  events,
  blind,     \* tasks whose workspace was prepared without their session
  lost,      \* history: a read or a write of a row failed
  disturbed, \* history: a reset took the lock of a live task
  orphaned,  \* history: tasks that ended between a push and the save of its head
  strayed    \* history: tasks whose agent rewrote or left the branch, or pushed

taskVars == <<pc, tries, sid, onBase, local, copy>>
gitVars  == <<remote, main, pr>>
setVars  == <<blind, orphaned, strayed>>
tally    == <<events, lost, disturbed, setVars>>
gcVars   == <<todo, timer, stale>>
sessionVars ==
  <<sess, taskVars, lock, gitVars, gcVars, tally>>

NoCommit  == <<>>
Marks     == (Tasks \cup {"main", "person"}) \X Nat   \* author, attempt
Commits   == Seq(Marks)
Archivers == {"hook", "timer", "loop"}
PC == {"new", "prepare", "saveBranch", "writeBranch", "code", "push", "saveHead",
       "writeHead", "open", "complete", "writeComplete", "done", "failed"}
Row == [agent : Coders, status : {"none", "active", "idle", "archived"},
        branch : BOOLEAN, head : Commits, ws : BOOLEAN, aged : BOOLEAN]

Quiet(t)   == pc[t] \in {"new", "done", "failed"}
Goto(t, l) == pc' = [pc EXCEPT ![t] = l]
Event      == events < MaxEvents /\ events' = events + 1
Listed(s)  == sess[s].status \in {"active", "idle"}   \* status != archived
OpenOf(c)  == {s \in Ids : Listed(s) /\ sess[s].agent = c}

-----------------------------------------------------------------------------
\* The row.

\* A read or a write of a row fails.
Refused == ~lost /\ Event /\ lost' = TRUE

\* UpdateSession: the whole row, last_active_at included; errors are ignored.
\* A read that fails before, or a head that cannot be had, has the same effect.
Write(s, row) ==
  \/ sess' = [sess EXCEPT ![s] = [row EXCEPT !.aged = FALSE]] /\ UNCHANGED <<events, lost>>
  \/ Refused /\ UNCHANGED sess

NewRow(c) ==
  [agent |-> c, status |-> "active", branch |-> FALSE, head |-> NoCommit,
   ws |-> FALSE, aged |-> FALSE]

NoRow == [NewRow(CHOOSE c \in Coders : TRUE) EXCEPT !.status = "none"]

\* Mutant of GetOrCreate: every task gets a session of its own.
GetOrCreateAlways(t, s) ==
  /\ sess[s].status = "none"
  /\ sess' = [sess EXCEPT ![s] = NewRow(CoderOf[t])]

\* The open session of the coder as it is (its last_active_at too), or a new one.
GetOrCreate(t, s) ==
  \/ s \in OpenOf(CoderOf[t]) /\ UNCHANGED sess
  \/ /\ OpenOf(CoderOf[t]) = {}
     /\ sess[s].status = "none"
     /\ sess' = [sess EXCEPT ![s] = NewRow(CoderOf[t])]

-----------------------------------------------------------------------------
\* The life of a task.

\* handleEventV2 behind the gates.  BaseBranch is the pull request's head when
\* the event carries one, else the branch of the session.
Dispatch(t) ==
  /\ pc[t] = "new"
  /\ lock = NoTask
  /\ \E s \in Ids :
       /\ GetOrCreate(t, s)
       /\ sid' = [sid EXCEPT ![t] = s]
       /\ \E fromPR \in BOOLEAN :
            /\ fromPR => pr = "open"
            /\ onBase' = [onBase EXCEPT ![t] = fromPR \/ sess'[s].branch]
  /\ lock' = t
  /\ Goto(t, "prepare")
  /\ UNCHANGED <<tries, local, copy, gitVars, gcVars, tally>>

\* The task is over for the executor: onFailed releases the lock, the session
\* stays as it is.
AttemptFails(t) ==
  /\ local' = [local EXCEPT ![t] = NoCommit]
  /\ \/ /\ tries[t] < MaxRetries[t]
        /\ tries' = [tries EXCEPT ![t] = @ + 1]
        /\ Goto(t, "prepare")
        /\ UNCHANGED lock
     \/ /\ tries[t] = MaxRetries[t]
        /\ Goto(t, "failed")
        /\ lock' = NoTask
        /\ UNCHANGED tries

\* A failed clone, an error of the coding backend, the checker or the verify
\* commands, a refused push or pull request, a deadline.
Fail(t) ==
  /\ pc[t] \in {"prepare", "code", "push", "open"}
  /\ AttemptFails(t)
  /\ UNCHANGED <<sess, sid, onBase, copy, gitVars, gcVars, tally>>

\* The branch plan: resolveBranchPlan, and the session branch that nobody ever
\* pushed, which is started afresh unless it is the head of a pull request.
Existing(t, row) ==
  /\ onBase[t] \/ row.branch
  /\ ~ (row.head = NoCommit /\ (~onBase[t] \/ row.branch) /\ remote = NoCommit)

\* prepareExistingBranch: the branch as the remote has it; it fails without one.
ExistingBranch == remote

\* CloneFull: the anchor is there when some branch still leads to it.
Cloned(c) == IsPrefix(c, main) \/ IsPrefix(c, remote)

\* Mutant of StartPoint: continuation tasks start from the default branch too.
StartPointFresh(t, row) == main

\* The commit the work starts from, NoCommit when it cannot be found.
StartPoint(t, row) ==
  IF ~Existing(t, row) THEN main
  ELSE IF row.head # NoCommit /\ ~onBase[t]
       THEN IF Cloned(row.head) THEN row.head ELSE NoCommit
       ELSE ExistingBranch

\* The row of the session; one that cannot be read counts as none (UseSession).
Remembered(t, readable) == IF readable THEN sess[sid[t]] ELSE NewRow(CoderOf[t])

\* prepareWriteWorkspace up to the checkout: what people push between the clone
\* and the checkout is not told apart from what they push before.
Prepare(t) ==
  /\ pc[t] = "prepare"
  /\ \E readable \in BOOLEAN :
       LET row == Remembered(t, readable) IN
       /\ IF readable THEN UNCHANGED <<events, lost>> ELSE Refused
       /\ blind' = IF readable THEN blind \ {t} ELSE blind \cup {t}
       /\ StartPoint(t, row) # NoCommit
       /\ local' = [local EXCEPT ![t] = StartPoint(t, row)]
       /\ Goto(t, IF Existing(t, row) THEN "code" ELSE "saveBranch")
  /\ UNCHANGED <<sess, tries, sid, onBase, copy, lock, gitVars, gcVars, disturbed,
                 orphaned, strayed>>

\* A read of the row before it is written back; not when nothing would change.
ReadRow(t, from, to, skip, next) ==
  /\ pc[t] = from
  /\ IF skip THEN Goto(t, next) /\ UNCHANGED copy
     ELSE Goto(t, to) /\ copy' = [copy EXCEPT ![t] = sess[sid[t]]]
  /\ UNCHANGED <<sess, tries, sid, onBase, local, lock, gitVars, gcVars, tally>>

WriteRow(t, from, next, row) ==
  /\ pc[t] = from
  /\ Write(sid[t], row)
  /\ copy' = [copy EXCEPT ![t] = NewRow(CoderOf[t])]
  /\ Goto(t, next)
  /\ UNCHANGED <<tries, sid, onBase, local, gitVars, gcVars, disturbed, setVars>>

SaveBranchRead(t) ==
  ReadRow(t, "saveBranch", "writeBranch", sess[sid[t]].branch, "code")

SaveBranch(t) ==
  /\ WriteRow(t, "writeBranch", "code", [copy[t] EXCEPT !.branch = TRUE])
  /\ UNCHANGED lock

\* The shell of the backend is not confined to the work branch: it may drop
\* commits of it (amend, reset, rebase), leave it, and push it by itself.
Stray(t) ==
  /\ Event
  /\ strayed' = strayed \cup {t}
  /\ \E n \in 1..Len(local[t]), commits \in BOOLEAN :
       LET kept == SubSeq(local[t], 1, n) IN
       local' = [local EXCEPT ![t] = IF commits THEN Append(kept, <<t, tries[t]>>)
                                     ELSE kept]
  /\ remote' \in {remote, local'[t]}

\* The coding backend, the checker and the verify commands; finalizeWriteChanges
\* commits what it finds, if anything.
Code(t) ==
  /\ pc[t] = "code"
  /\ \/ /\ \/ local' = [local EXCEPT ![t] = Append(@, <<t, tries[t]>>)]
           \/ UNCHANGED local
        /\ UNCHANGED <<remote, events, strayed>>
     \/ Stray(t)
  /\ Goto(t, "push")
  /\ UNCHANGED <<sess, tries, sid, onBase, copy, lock, main, pr, gcVars, lost,
                 disturbed, blind, orphaned>>

\* Git.Push fetches the branch right before push --force-with-lease, so the
\* lease always holds, and falls back to --force.
ForcePush(head) == remote' = head

\* finalizeWriteChanges pushes the work branch with or without a new commit; a
\* push whose answer is lost fails the attempt.
Push(t) ==
  /\ pc[t] = "push"
  /\ ForcePush(local[t])
  /\ \/ /\ Goto(t, "saveHead")
        /\ UNCHANGED <<tries, local, lock, events, orphaned>>
     \/ /\ Event
        /\ AttemptFails(t)
        /\ orphaned' = orphaned \cup {t}
  /\ UNCHANGED <<sess, sid, onBase, copy, main, pr, gcVars, lost, disturbed, blind,
                 strayed>>

\* HEAD of the clone, wherever the shell left it.
HeadSHA(t) == {local[t]} \cup (IF t \in strayed THEN {main} ELSE {})

\* Mutant of SaveHeadRead: the anchor is recorded for new branches only.
SaveHeadReadOnce(t) ==
  ReadRow(t, "saveHead", "writeHead", sess[sid[t]].head # NoCommit, "open")

SaveHeadRead(t) ==
  \E head \in HeadSHA(t) :
    ReadRow(t, "saveHead", "writeHead",
            t \in blind \/ (sess[sid[t]].branch /\ sess[sid[t]].head = head), "open")

SaveHead(t) ==
  /\ \E head \in HeadSHA(t) :
       WriteRow(t, "writeHead", "open",
                [copy[t] EXCEPT !.branch = TRUE, !.head = head])
  /\ UNCHANGED lock

\* FinalizeWriteTaskPR: the open pull request of the branch, or a new one.
OpenPR(t) ==
  /\ pc[t] = "open"
  /\ pr' = "open"
  /\ Goto(t, "complete")
  /\ UNCHANGED <<sess, tries, sid, onBase, local, copy, lock, remote, main, gcVars,
                 tally>>

CompleteRead(t) ==
  ReadRow(t, "complete", "writeComplete", FALSE, "done")

\* Mutant of Complete: a status of its own for sessions whose task is done.
CompleteAsCompleted(t) ==
  /\ WriteRow(t, "writeComplete", "done", [copy[t] EXCEPT !.status = "completed"])
  /\ lock' = NoTask

\* CompleteTask, then releaseIssueLock.  Whatever the row was, it is idle now.
Complete(t) ==
  /\ WriteRow(t, "writeComplete", "done", [copy[t] EXCEPT !.status = "idle"])
  /\ lock' = NoTask

-----------------------------------------------------------------------------
\* Archival.

\* ArchiveByIssue lists the sessions that are not archived...
List(a) == todo' = [todo EXCEPT ![a] = {s \in Ids : Listed(s)}]

\* ... and archives them one after the other.  ArchiveSession writes the status
\* and last_active_at only; an error leaves the row and goes on.
ArchiveOne(a, s) ==
  /\ s \in todo[a]
  /\ todo' = [todo EXCEPT ![a] = @ \ {s}]
  /\ \/ /\ sess' = [sess EXCEPT ![s].status = "archived", ![s].aged = FALSE]
        /\ UNCHANGED <<events, lost>>
     \/ Refused /\ UNCHANGED sess
  /\ UNCHANGED <<taskVars, lock, gitVars, timer, stale, disturbed, setVars>>

\* OnIssueClosed.
Close ==
  /\ Event
  /\ todo["hook"] = {}
  /\ List("hook")
  /\ UNCHANGED <<sess, taskVars, lock, gitVars, timer, stale, lost, disturbed, setVars>>

\* People merge; OnPRClosed archives when it knows the issue, and archives again
\* after the retention.  A merge of a branch that lacks commits of the default
\* branch, which would have two parents, is left out.
Merge(linked) ==
  /\ Event
  /\ pr = "open" /\ remote # NoCommit /\ IsPrefix(main, remote)
  /\ main' = remote
  /\ pr' = "merged"
  /\ todo["hook"] = {}
  /\ IF linked THEN List("hook") ELSE UNCHANGED todo
  /\ timer' = (timer \/ linked)
  /\ UNCHANGED <<sess, taskVars, lock, remote, stale, lost, disturbed, setVars>>

TimerFires ==
  /\ timer
  /\ timer' = FALSE
  /\ List("timer")
  /\ UNCHANGED <<sess, taskVars, lock, gitVars, stale, tally>>

\* resetIssue: archives, and releases the lock of the issue whoever holds it.
Reset ==
  /\ Event
  /\ todo["hook"] = {}
  /\ List("hook")
  /\ lock' = NoTask
  /\ disturbed' = (disturbed \/ lock # NoTask)
  /\ UNCHANGED <<sess, taskVars, gitVars, timer, stale, lost, setVars>>

\* The cleanup loop is not in the middle of a sweep.
Swept == todo["loop"] = {} /\ \A s \in Ids : stale[s].status = "none"

\* A week passes: no execution lasts that long.
Age ==
  /\ \A t \in Tasks : Quiet(t)
  /\ Swept /\ \A a \in Archivers : todo[a] = {}
  /\ sess' = [s \in Ids |-> [sess[s] EXCEPT !.aged = (@ \/ sess[s].status # "none")]]
  /\ sess' # sess
  /\ UNCHANGED <<taskVars, lock, gitVars, gcVars, tally>>

-----------------------------------------------------------------------------
\* The cleanup loop, one goroutine: three sweeps in a row, each from its own
\* listing.  A round that lists nothing changes nothing, so where the loop is
\* between two rounds is left out.

\* Mutant of IdleExpired: the sweep lists active rows.
IdleExpiredActive == {s \in Ids : sess[s].status = "active" /\ sess[s].aged}

\* Rows that look active are not listed.
IdleExpired == {s \in Ids : sess[s].status = "idle" /\ sess[s].aged}

CleanupIdleSessions ==
  /\ Swept
  /\ IdleExpired # {}
  /\ todo' = [todo EXCEPT !["loop"] = IdleExpired]
  /\ UNCHANGED <<sess, taskVars, lock, gitVars, timer, stale, tally>>

Reclaimable == {s \in Ids : sess[s].status = "archived" /\ sess[s].ws}

SweepWorkspaces(rows) ==
  /\ Swept
  /\ rows # {}
  /\ stale' = [s \in Ids |-> IF s \in rows THEN sess[s] ELSE NoRow]
  /\ UNCHANGED <<sess, taskVars, lock, gitVars, todo, timer, tally>>

CleanupArchivedWorkspaces == SweepWorkspaces({s \in Reclaimable : sess[s].aged})

\* In the order of the listing, until the size of the base directory fits.
EnforceDiskLimit == \E rows \in SUBSET Reclaimable : SweepWorkspaces(rows)

\* Mutant of Reclaim: the row keeps the path of the directory that is gone.
ReclaimKeepingPath(s) ==
  /\ stale[s].status # "none"
  /\ Write(s, stale[s])
  /\ stale' = [stale EXCEPT ![s] = NoRow]
  /\ UNCHANGED <<taskVars, lock, gitVars, todo, timer, disturbed, setVars>>

\* The directory is removed and the row written back as it was listed.
Reclaim(s) ==
  /\ stale[s].status # "none"
  /\ Write(s, [stale[s] EXCEPT !.ws = FALSE])
  /\ stale' = [stale EXCEPT ![s] = NoRow]
  /\ UNCHANGED <<taskVars, lock, gitVars, todo, timer, disturbed, setVars>>

-----------------------------------------------------------------------------
\* People on the work branch: they push, rewind, delete, close the pull request.

People ==
  /\ Event
  /\ \/ /\ remote # NoCommit
        /\ remote' \in {Append(remote, <<"person", 0>>), Front(remote), NoCommit}
        /\ UNCHANGED pr
     \/ pr = "open" /\ pr' = "closed" /\ UNCHANGED remote
  /\ UNCHANGED <<sess, taskVars, lock, main, gcVars, lost, disturbed, setVars>>

\* The process dies and starts again: a task that ran is failed, one that waits
\* keeps its row, which keeps others of the issue away as the lock did; clones,
\* timers and sweeps are gone.
Restart ==
  /\ Event
  /\ \E waiting \in SUBSET {t \in Tasks : pc[t] = "prepare" /\ tries[t] = 0} :
       /\ pc' = [t \in Tasks |-> IF Quiet(t) \/ t \in waiting THEN pc[t] ELSE "failed"]
       /\ lock' = IF lock \in waiting THEN lock ELSE NoTask
  /\ orphaned' = orphaned \cup {t \in Tasks : pc[t] \in {"saveHead", "writeHead"}}
  /\ local' = [t \in Tasks |-> NoCommit]
  /\ copy' = [t \in Tasks |-> NewRow(CoderOf[t])]
  /\ todo' = [a \in Archivers |-> {}]
  /\ timer' = FALSE
  /\ stale' = [s \in Ids |-> NoRow]
  /\ UNCHANGED <<sess, tries, sid, onBase, gitVars, lost, disturbed, blind, strayed>>

-----------------------------------------------------------------------------
\* Rows from before B2.2 own a workspace.
OldRow == [agent : Coders, status : {"idle", "archived"}, branch : {FALSE},
           head : {NoCommit}, ws : {TRUE}, aged : {FALSE}]

\* The database may hold old rows, no two of them open for one coder.
SessionsInit ==
  /\ sess \in [Ids -> {NoRow} \cup OldRow]
  /\ \A s \in Ids : s \in Legacy <=> sess[s].ws
  /\ \A c \in Coders : \A r, s \in OpenOf(c) : r = s
  /\ pc     = [t \in Tasks |-> "new"]
  /\ tries  = [t \in Tasks |-> 0]
  /\ sid    = [t \in Tasks |-> NoId]
  /\ onBase = [t \in Tasks |-> FALSE]
  /\ local  = [t \in Tasks |-> NoCommit]
  /\ copy   = [t \in Tasks |-> NewRow(CoderOf[t])]
  /\ lock = NoTask
  /\ remote = NoCommit
  /\ main = << <<"main", 0>> >>
  /\ pr = "none"
  /\ todo = [a \in Archivers |-> {}]
  /\ timer = FALSE
  /\ stale = [s \in Ids |-> NoRow]
  /\ events = 0
  /\ lost = FALSE /\ disturbed = FALSE
  /\ blind = {} /\ orphaned = {} /\ strayed = {}

TaskStep(t) ==
  \/ Dispatch(t) \/ Fail(t) \/ Prepare(t) \/ SaveBranchRead(t) \/ SaveBranch(t)
  \/ Code(t) \/ Push(t) \/ SaveHeadRead(t) \/ SaveHead(t) \/ OpenPR(t)
  \/ CompleteRead(t) \/ Complete(t)

LoopStep ==
  \/ CleanupIdleSessions \/ CleanupArchivedWorkspaces \/ EnforceDiskLimit
  \/ \E s \in Ids : ArchiveOne("loop", s) \/ Reclaim(s)

SessionsNext ==
  \/ \E t \in Tasks : TaskStep(t)
  \/ Close \/ \E linked \in BOOLEAN : Merge(linked)
  \/ TimerFires \/ Reset \/ Age \/ People \/ Restart
  \/ \E s \in Ids : ArchiveOne("hook", s) \/ ArchiveOne("timer", s)
  \/ LoopStep

SessionsSpec == SessionsInit /\ [][SessionsNext]_sessionVars

\* The cleanup loop has a goroutine of its own and goes round every ten minutes.
FairSessionsSpec == SessionsSpec /\ WF_sessionVars(LoopStep)

-----------------------------------------------------------------------------
SessionsTypeOK ==
  /\ sess \in [Ids -> Row] /\ copy \in [Tasks -> Row] /\ stale \in [Ids -> Row]
  /\ pc \in [Tasks -> PC]
  /\ tries \in [Tasks -> Nat] /\ \A t \in Tasks : tries[t] <= MaxRetries[t]
  /\ sid \in [Tasks -> Ids \cup {NoId}]
  /\ onBase \in [Tasks -> BOOLEAN]
  /\ local \in [Tasks -> Commits] /\ {remote, main} \subseteq Commits
  /\ lock \in Tasks \cup {NoTask}
  /\ pr \in {"none", "open", "merged", "closed"}
  /\ todo \in [Archivers -> SUBSET Ids]
  /\ {timer, lost, disturbed} \subseteq BOOLEAN
  /\ {blind, orphaned, strayed} \subseteq SUBSET Tasks
  /\ events \in 0..MaxEvents

\* session.go: GetOrCreate "returns an existing session for the repo/issue/
\* agent/role".  A coder never has two open sessions on the issue, although
\* archived ones are opened again by the callbacks of their tasks.
OneOpenSession ==
  ~disturbed => \A c \in Coders : \A r, s \in OpenOf(c) : r = s

\* The commits of the branch whose authors are tasks of the session.
Own(s) == {m \in Range(remote) : m[1] \in Tasks /\ sid[m[1]] = s}

\* The progress of some session may be unknown to it.
Slipped == lost \/ orphaned # {} \/ strayed # {}

\* write_workspace.go: a continuation resumes the session's work.  The forced
\* push of a task never drops what its own session pushed before, in an
\* earlier attempt or by an earlier task, unless its own agent rewrote or left
\* the branch; the commits of others it may drop.  Progress that was not
\* recorded, for a failed call, a restart or an agent that strayed, hurts tasks
\* without a base branch only.
PushKeepsSessionWork ==
  [][ \A t \in Tasks :
        /\ pc[t] = "push" /\ pc'[t] # "push"
        /\ ~disturbed /\ t \notin strayed /\ (Slipped => onBase[t])
        /\ sid[t] \notin Legacy
        => \A m \in Own(sid[t]) : m \in Range(remote') ]_sessionVars

\* runner_write.go: LastHead is the anchor of the next task.  When the branch
\* holds work that is not merged and its last commit is a task's, the session of
\* that task knows the branch and has that head recorded, as soon as the task
\* has left its save.  A task that ended between its push and the save leaves
\* its own commit unrecorded, and nobody else's.
HeadRecorded ==
  ~disturbed /\ ~lost /\ strayed = {} /\ remote # NoCommit /\ ~IsPrefix(remote, main) =>
    \A t \in Tasks \ orphaned :
      /\ Last(remote)[1] = t
      /\ sid[t] \notin Legacy
      /\ \A u \in Tasks : pc[u] \notin {"saveHead", "writeHead"}
      => sess[sid[t]].branch /\ IsPrefix(remote, sess[sid[t]].head)

\* lifecycle.go: a session idle beyond the TTL is archived, or a task has used
\* it again.
IdleRetired ==
  \A s \in Ids : (sess[s].status = "idle" /\ sess[s].aged) ~>
                 ~ (sess[s].status = "idle" /\ sess[s].aged)

\* lifecycle.go: the workspace of an archived session is deleted after the
\* retention period, and its path forgotten.
WorkspaceReclaimed ==
  \A s \in Ids : (sess[s].status = "archived" /\ sess[s].ws /\ sess[s].aged) ~>
                 (sess[s].status # "archived" \/ ~sess[s].ws)
=============================================================================
