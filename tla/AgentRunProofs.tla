--------------------------- MODULE AgentRunProofs ---------------------------
(***************************************************************************)
(* Proofs about AgentRun: what a task that only reads leaves of its        *)
(* workspace, what a write task pushes, when the guard against standing    *)
(* still stops a run, and that the conversation log is complete.           *)
(***************************************************************************)
EXTENDS AgentRun, NaturalsInduction, WellFoundedInduction, FiniteSetTheorems, TLAPS

-----------------------------------------------------------------------------
(* Steps that change no more than where the run is, or that end it. *)

PcMoves ==
  {<<"resolve", "single">>, <<"prepare", "hub">>, <<"prepare", "single">>, <<"assemble", "single">>,
   <<"single", "deliver">>, <<"check", "verify">>, <<"pr", "deliver">>}

NoEffect ==
  UNCHANGED <<task, attempt, work, base, remote, registry, skills, msgs, start, next, iter, calls,
              last, stall, snaps, log, slips, gateVars>>

\* A write of the conversation log, that may fail.
Logged(iteration, delta) ==
  \/ log' = log \cup Rows(iteration, delta) /\ slips' = slips
  \/ log' = log /\ slips \subseteq slips' /\ Slipped("log")'

QuietStep ==
  /\ NoEffect
  /\ \/ pc' = pc /\ outcome' = outcome /\ dir' = dir
     \/ pc \notin {"tools", "end"} /\ pc' = "end" /\ outcome' \in {"ok", "failed", "hub"} /\ dir' \in {"absent", dir}
     \/ /\ pc = "resolve" /\ pc' = "prepare" /\ outcome' = outcome /\ dir' = dir
        /\ task.kind \in {"review", "reply"} => task.backend.type # "builtin"
     \/ <<pc, pc'>> \in PcMoves /\ outcome' = outcome /\ dir' \in {"absent", "clone", dir}

(* The successful branches of the other steps. *)
CloneStep ==
  /\ pc = "prepare" /\ task.kind \in {"write", "analyze", "review"}
  /\ pc' = After /\ outcome' = outcome
  /\ dir' = "clone" /\ work' = CloneOf(remote) /\ base' = remote
  /\ UNCHANGED <<task, attempt, remote, toolVars, talkVars, gateVars>>

ReadyStep ==
  /\ pc = "assemble" /\ task.kind \in {"write", "analyze"}
  /\ \E size \in ContextSizes : \/ msgs' = Prompt(size)
                                \/ msgs' = Truncated(Prompt(size)).msgs
  /\ registry' = Tools /\ next' = 3 /\ pc' = "iterate" /\ outcome' = outcome
  /\ UNCHANGED <<task, attempt, repoVars, skills, start, iter, calls, tries, last, stall, snaps, log, slips, gateVars>>

IterateStep ==
  /\ pc = "iterate" /\ iter # Iterations
  /\ msgs' = Truncated(msgs).msgs /\ start' = Len(msgs')
  /\ \/ iter = 0 /\ Logged(0, msgs')
     \/ iter # 0 /\ log' = log /\ slips' = slips
  /\ pc' = "ask" /\ outcome' = outcome
  /\ UNCHANGED <<task, attempt, repoVars, toolVars, next, iter, calls, last, stall, snaps, gateVars>>

AnswerStep ==
  /\ pc = "ask" /\ next' = next + 1
  /\ Logged(iter + 1, Append(Delta(msgs), Say("assistant", 1, 0)))
  /\ \/ pc' = "end" /\ outcome' = "failed"
     \/ outcome' = outcome /\ task.kind = "write" /\ pc' = "check" /\ UNCHANGED dir
     \/ outcome' = outcome /\ task.kind # "write" /\ pc' = "deliver" /\ UNCHANGED dir
  /\ dir' \in {"absent", dir}
  /\ UNCHANGED <<task, attempt, work, base, remote, toolVars, msgs, start, iter, calls, last, stall, snaps, gateVars>>

CallStep ==
  /\ pc = "ask" /\ next' = next + 1
  /\ \E n \in 1 .. MaxCalls : msgs' = Append(msgs, Say("assistant", 1, n)) /\ calls' = n
  /\ pc' = "tools" /\ outcome' = outcome
  /\ UNCHANGED <<task, attempt, repoVars, toolVars, start, iter, last, stall, snaps, log, slips, gateVars>>

ToolStep ==
  /\ pc = "tools" /\ calls > 0
  /\ \E name \in Calls : work' \in Effect(Implementation(name)) /\ Register(Implementation(name))
  /\ \E s \in {1, 3} : msgs' = Append(msgs, Say("tool", s, 0))
  /\ next' = next + 1 /\ calls' = calls - 1
  /\ UNCHANGED <<task, attempt, pc, outcome, dir, base, remote, start, iter, last, stall, snaps, log, slips, gateVars>>

TurnStep ==
  /\ pc = "tools" /\ calls = 0
  /\ Logged(iter + 1, Delta(msgs))
  /\ checkNoProgress
  /\ iter' = iter + 1
  /\ \/ stall' > 0 /\ stall' >= Loop.noProgressLimit /\ pc' = "end" /\ outcome' = "stalled"
     \/ ~(stall' > 0 /\ stall' >= Loop.noProgressLimit) /\ pc' = "iterate" /\ outcome' = outcome /\ dir' = dir
  /\ dir' \in {"absent", dir}
  /\ UNCHANGED <<task, attempt, work, base, remote, toolVars, msgs, start, next, calls, gateVars>>

VerifyStep ==
  /\ pc = "verify" /\ work' \in {work} \cup Edited("src")
  /\ \/ pc' = pc /\ outcome' = outcome /\ dir' = dir
     \/ pc' = "end" /\ outcome' = "failed" /\ dir' = "absent"
  /\ UNCHANGED <<task, attempt, base, remote, toolVars, talkVars, verified, pushed>>

PassStep ==
  /\ pc = "verify" /\ verified' = work.files /\ pc' = "commit" /\ outcome' = outcome
  /\ UNCHANGED <<task, attempt, repoVars, toolVars, talkVars, pushed>>

CommitStep ==
  /\ pc = "commit" /\ pc' = "push" /\ outcome' = outcome
  /\ \/ Status = {} /\ UNCHANGED work
     \/ Slipped("status")' /\ UNCHANGED work
     \/ work' = Committed(work.files)
     \/ Slipped("add")' /\ work' = Committed(work.index)
  /\ slips \subseteq slips'
  /\ UNCHANGED <<task, attempt, dir, base, remote, toolVars, msgs, start, next, iter, calls,
                 last, stall, snaps, log, gateVars>>

PushStep ==
  /\ pc = "push" /\ remote' = work.branch /\ pushed' = TRUE /\ pc' = "pr" /\ outcome' = outcome
  /\ UNCHANGED <<task, attempt, dir, work, base, verified, toolVars, talkVars>>

CrashStep ==
  /\ pc # "end" /\ pc' = "end" /\ outcome' = "crashed" /\ dir' \in {"stale", dir}
  /\ NoEffect

AgentStep ==
  \/ QuietStep \/ CloneStep \/ ReadyStep \/ IterateStep \/ AnswerStep \/ CallStep \/ ToolStep
  \/ TurnStep \/ VerifyStep \/ PassStep \/ CommitStep \/ PushStep \/ CrashStep \/ Rerun

LEMMA SlipShows ==
  ASSUME NEW what, Slip(what), attempt' = attempt
  PROVE  slips \subseteq slips' /\ Slipped(what)'
<1>1. slips' = slips \cup {<<what, attempt, iter>>}
  BY DEF Slip
<1> DEFINE slip == <<what, attempt, iter>>
<1>2. slip[1] = what /\ slip[2] = attempt
  OBVIOUS
<1>3. slip \in slips'
  BY <1>1
<1> HIDE DEF slip
<1> QED BY <1>1, <1>2, <1>3 DEF Slipped

LEMMA RecordingLogs ==
  ASSUME NEW iteration, NEW delta, RecordIteration(iteration, delta), attempt' = attempt
  PROVE  Logged(iteration, delta)
BY SlipShows DEF RecordIteration, Logged

(* Every step is one of these. *)
LEMMA StepsOfTheRun == Next => AgentStep
<1> SUFFICES ASSUME Next PROVE AgentStep
  OBVIOUS
<1> USE DEF vars, taskVars, repoVars, toolVars, talkVars, gateVars, Leave, Fail, Goto, On, ViaHub
<1>1. Fail /\ pc \notin {"tools", "end"} => AgentStep
  BY DEF AgentStep, QuietStep, NoEffect
<1>2. CASE StartWrite
  <2> QED BY <1>2, <1>1 DEF StartWrite, KnownBackend, GitSyncWrite, Is, AgentStep, QuietStep, NoEffect, PcMoves
<1>3. CASE StartAnalyze
  <2> QED BY <1>3, <1>1 DEF StartAnalyze, KnownBackend, Is, AgentStep, QuietStep, NoEffect, PcMoves
<1>4. CASE StartReview
  <2> QED BY <1>4, <1>1 DEF StartReview, KnownBackend, Is, AgentStep, QuietStep, NoEffect, PcMoves
<1>5. CASE StartReply
  <2> QED BY <1>5, <1>1 DEF StartReply, KnownBackend, Is, AgentStep, QuietStep, NoEffect, PcMoves
<1>6. CASE PrepareWorkspace \/ PrepareReview
  <2>1. pc = "prepare" /\ task.kind \in {"write", "analyze", "review"} /\ Clone
    BY <1>6 DEF PrepareWorkspace, PrepareReview
  <2>2. CASE dir' \in {"absent", dir} /\ Degrade
             /\ UNCHANGED <<work, base, remote, pr, task, attempt, cancelled, toolVars, talkVars, gateVars>>
    BY <2>1, <2>2 DEF Degrade, AgentStep, QuietStep, NoEffect, PcMoves
  <2>3. CASE CloneStep
    BY <2>3 DEF AgentStep
  <2> QED BY <2>1, <2>2, <2>3 DEF Clone, CloneStep
<1>7. CASE PrepareReply \/ HubRead
  BY <1>7 DEF PrepareReply, HubRead, AgentStep, QuietStep, NoEffect, PcMoves
<1>8. CASE AssembleWrite
  <2>1. CASE \E size \in ContextSizes : Ready(Prompt(size))
    <3>1. PICK size \in ContextSizes : Ready(Prompt(size))
      BY <2>1
    <3>2. ReadyStep
      BY <1>8, <3>1 DEF AssembleWrite, Ready, ReadyStep
    <3> QED BY <3>2 DEF AgentStep
  <2> QED BY <1>1, <1>8, <2>1 DEF AssembleWrite
<1>9. CASE AssembleAnalyze
  <2>1. CASE \E size \in ContextSizes : Ready(Truncated(Prompt(size)).msgs)
    <3>1. PICK size \in ContextSizes : Ready(Truncated(Prompt(size)).msgs)
      BY <2>1
    <3>2. ReadyStep
      BY <1>9, <3>1 DEF AssembleAnalyze, Ready, ReadyStep
    <3> QED BY <3>2 DEF AgentStep
  <2>2. CASE On("single")
    BY <1>9, <2>2 DEF AssembleAnalyze, AgentStep, QuietStep, NoEffect, PcMoves
  <2> QED BY <1>1, <1>9, <2>1, <2>2 DEF AssembleAnalyze
<1>10. CASE Iterate
  <2>1. CASE ~ Fail
    <3>1. attempt' = attempt /\ (iter = 0 => RecordIteration(0, msgs')) /\ (iter # 0 => UNCHANGED <<log, slips>>)
      BY <1>10, <2>1 DEF Iterate
    <3>2. /\ pc = "iterate" /\ iter # Iterations
          /\ msgs' = Truncated(msgs).msgs /\ start' = Len(msgs')
          /\ pc' = "ask" /\ outcome' = outcome
          /\ UNCHANGED <<task, attempt, repoVars, toolVars, next, iter, calls, last, stall, snaps, gateVars>>
      BY <1>10, <2>1 DEF Iterate, MsgStart
    <3>3. IterateStep
      BY <3>1, <3>2, RecordingLogs DEF IterateStep
    <3> QED BY <3>3 DEF AgentStep
  <2> QED BY <1>1, <1>10, <2>1 DEF Iterate
<1>11. CASE AskFails
  <2> QED BY <1>1, <1>11 DEF AskFails, AgentStep, QuietStep, NoEffect
<1>12. CASE \E b \in BOOLEAN : Answer(b)
  <2>1. PICK b \in BOOLEAN : Answer(b)
    BY <1>12
  <2>2. AnswerStep
    BY <2>1, RecordingLogs DEF Answer, AnswerStep
  <2> QED BY <2>2 DEF AgentStep
<1>13. CASE \E n \in 1 .. MaxCalls : AnswerCalls(n)
  <2>1. CallStep
    BY <1>13 DEF AnswerCalls, CallStep
  <2> QED BY <2>1 DEF AgentStep
<1>14. CASE \E name \in Calls : ExecuteTool(name)
  <2>1. PICK name \in Calls : ExecuteTool(name)
    BY <1>14
  <2>2. work' \in Effect(Implementation(name)) /\ Register(Implementation(name))
    BY <2>1 DEF ExecuteTool
  <2>3. \E s \in {1, 3} : msgs' = Append(msgs, Say("tool", s, 0))
    BY <2>1 DEF ExecuteTool, ResultSizes
  <2>4. ToolStep
    BY <2>1, <2>2, <2>3 DEF ExecuteTool, ToolStep
  <2> QED BY <2>4 DEF AgentStep
<1>15. CASE EndTurn
  <2>1. TurnStep
    BY <1>15, RecordingLogs DEF EndTurn, TurnStep
  <2> QED BY <2>1 DEF AgentStep
<1>16. CASE Single
  <2> QED BY <1>1, <1>16 DEF Single, AnalyzeOnce, ReviewOnce, ReplyOnce, AskOnce, AgentStep, QuietStep, NoEffect, PcMoves
<1>17. CASE Check
  <2>1. CASE ~ Fail
    <3>1. On("verify") /\ pc = "check"
      BY <1>17, <2>1 DEF Check
    <3> QED BY <3>1 DEF AgentStep, QuietStep, NoEffect, PcMoves
  <2> QED BY <1>1, <1>17, <2>1 DEF Check
<1>18. CASE Verify
  <2>1. VerifyStep
    BY <1>18 DEF Verify, VerifyStep
  <2> QED BY <2>1 DEF AgentStep
<1>19. CASE VerifyDone
  <2>1. PassStep
    BY <1>19 DEF VerifyDone, PassStep
  <2> QED BY <2>1 DEF AgentStep
<1>20. CASE Commit
  <2>1. CASE pc' = "push"
    <3>1. CommitStep
      BY <1>20, <2>1, SlipShows DEF Commit, CommitStep, Staged
    <3> QED BY <3>1 DEF AgentStep
  <2>2. CASE pc' = "end"
    <3>1. QuietStep
      BY <1>20, <2>2 DEF Commit, QuietStep, NoEffect
    <3> QED BY <3>1 DEF AgentStep
  <2> QED BY <1>20, <2>1, <2>2 DEF Commit
<1>21. CASE Push
  <2>1. CASE ~ Fail
    <3>1. PushStep
      BY <1>21, <2>1 DEF Push, PushStep
    <3> QED BY <3>1 DEF AgentStep
  <2> QED BY <1>1, <1>21, <2>1 DEF Push
<1>22. CASE FinalizeWriteTaskPR \/ Emit
  <2> QED BY <1>1, <1>22 DEF FinalizeWriteTaskPR, Emit, AgentStep, QuietStep, NoEffect, PcMoves
<1>23. CASE Cancel
  <2> QED BY <1>23 DEF Cancel, AgentStep, QuietStep, NoEffect
<1>24. CASE Crash
  <2>1. CrashStep
    BY <1>24 DEF Crash, CrashStep, NoEffect
  <2> QED BY <2>1 DEF AgentStep
<1>25. CASE Rerun
  <2> QED BY <1>25 DEF AgentStep
<1> QED
  BY <1>2, <1>3, <1>4, <1>5, <1>6, <1>7, <1>8, <1>9, <1>10, <1>11, <1>12, <1>13, <1>14, <1>15, <1>16,
     <1>17, <1>18, <1>19, <1>20, <1>21, <1>22, <1>23, <1>24, <1>25
  DEF Next, Run, Start, Prepare, Turn, Finish

-----------------------------------------------------------------------------
(* Where a run is, and the contents of its workspace. *)

Tree == [Files -> Contents]
Trees == [files : Tree, index : Tree, head : Tree, branch : Tree, on : BOOLEAN]

Delivering == {"check", "verify", "commit", "push", "pr"}
Looping    == {"assemble", "iterate", "ask", "tools"}

RunTypes ==
  /\ task \in [kind : Kinds, backend : Backends, model : Models]
  /\ pc \in {"resolve", "prepare", "hub", "single", "assemble", "iterate", "ask", "tools",
             "check", "verify", "commit", "push", "pr", "deliver", "end"}
  /\ outcome \in {"none", "ok", "failed", "stalled", "hub", "crashed"} /\ (outcome # "none" <=> pc = "end")
  /\ dir \in {"absent", "clone", "stale"}
  /\ attempt \in 1 .. MaxAttempts
  /\ work \in Trees /\ base \in Tree /\ remote \in Tree
  /\ work.on => work.head = work.branch

\* Which kinds of task take which way.
Routed ==
  /\ pc \in Delivering => task.kind = "write"
  /\ pc \in Looping => task.kind \in {"write", "analyze"}
  /\ pc = "prepare" /\ task.kind \in {"review", "reply"} => task.backend.type # "builtin"

LEMMA GoneIsContent == Gone \in Contents /\ Original \in Contents /\ Clean \in Tree
BY DEF Contents, Clean, Tree

LEMMA EditsAreContents ==
  ASSUME attempt \in 1 .. MaxAttempts
  PROVE  Edits(attempt) \subseteq Contents
BY DEF Contents

LEMMA CloneIsTrees ==
  ASSUME NEW tree \in Tree
  PROVE  CloneOf(tree) \in Trees
BY DEF CloneOf, Trees

(* An edit leaves the commits alone and puts a content of this execution into one file. *)
LEMMA EditOfAFile ==
  ASSUME RunTypes, NEW f \in Files, NEW w \in Edited(f)
  PROVE  /\ w \in Trees
         /\ w.index = work.index /\ w.head = work.head /\ w.branch = work.branch /\ w.on = work.on
         /\ \A g \in Files : w.files[g] \in {work.files[g]} \cup Edits(attempt)
<1>1. work \in Trees /\ attempt \in 1 .. MaxAttempts
  BY DEF RunTypes
<1>2. PICK c \in Edits(attempt) : w = [work EXCEPT !.files[f] = c]
  BY DEF Edited
<1>3. c \in Contents
  BY <1>1, EditsAreContents
<1>4. w = [work EXCEPT !.files = [work.files EXCEPT ![f] = c]]
  BY <1>1, <1>2 DEF Trees
<1>5. work.files \in Tree /\ [work.files EXCEPT ![f] = c] \in Tree
  BY <1>1, <1>3 DEF Tree, Trees
<1>6. /\ w.files = [work.files EXCEPT ![f] = c]
      /\ w.index = work.index /\ w.head = work.head /\ w.branch = work.branch /\ w.on = work.on
  BY <1>1, <1>4 DEF Trees
<1>7. \A g \in Files : w.files[g] \in {work.files[g]} \cup Edits(attempt)
  BY <1>5, <1>6 DEF Tree
<1>8. w \in Trees
  BY <1>1, <1>4, <1>5 DEF Trees
<1> QED BY <1>6, <1>7, <1>8

LEMMA RemovalOfFiles ==
  ASSUME RunTypes, NEW w \in Removed
  PROVE  /\ w \in Trees
         /\ w.index = work.index /\ w.head = work.head /\ w.branch = work.branch /\ w.on = work.on
         /\ \A g \in Files : w.files[g] \in {work.files[g], Gone}
<1>1. work \in Trees
  BY DEF RunTypes
<1>2. PICK F \in SUBSET Files : w = [work EXCEPT !.files = [f \in Files |-> IF f \in F THEN Gone ELSE work.files[f]]]
  BY DEF Removed
<1> DEFINE left == [f \in Files |-> IF f \in F THEN Gone ELSE work.files[f]]
<1>3. left \in Tree /\ \A g \in Files : left[g] \in {work.files[g], Gone}
  BY <1>1, GoneIsContent DEF Tree, Trees
<1>4. w = [work EXCEPT !.files = left]
  BY <1>2
<1> HIDE DEF left
<1>5. /\ w \in Trees /\ w.files = left
      /\ w.index = work.index /\ w.head = work.head /\ w.branch = work.branch /\ w.on = work.on
  BY <1>1, <1>3, <1>4 DEF Trees
<1> QED BY <1>3, <1>5

LEMMA CommitOfATree ==
  ASSUME RunTypes, NEW tree \in Tree
  PROVE  /\ Committed(tree) \in Trees /\ Committed(tree).files = work.files
         /\ Committed(tree).index = tree /\ Committed(tree).head = tree /\ Committed(tree).on = work.on
         /\ Committed(tree).branch = IF work.on THEN tree ELSE work.branch
BY DEF RunTypes, Committed, Trees

\* Every file of a tree has a content the workspace or its clone had, or one of this execution.
Known(tree) ==
  \A g \in Files :
    tree[g] \in {work.files[g], work.index[g], work.head[g], work.branch[g], base[g], Gone} \cup Edits(attempt)
AllKnown(w) == Known(w.files) /\ Known(w.index) /\ Known(w.head) /\ Known(w.branch)

(* The same of a call: the agent may also stage, commit, reset and go to other branches. *)
LEMMA EffectOfACall ==
  ASSUME RunTypes, NEW impl, NEW w \in Effect(impl)
  PROVE  w \in Trees /\ (w.on => w.head = w.branch) /\ AllKnown(w)
<1>0. /\ work \in Trees /\ base \in Tree /\ (work.on => work.head = work.branch)
      /\ work.files \in Tree /\ work.index \in Tree /\ work.head \in Tree /\ work.branch \in Tree
      /\ work.on \in BOOLEAN
  BY DEF RunTypes, Trees
<1>1. Known(work.files) /\ Known(work.index) /\ Known(work.head) /\ Known(work.branch) /\ Known(base)
  BY DEF Known
<1>2. "src" \in Files /\ "_patch.diff" \in Files
  BY DEF Files
<1>3. CASE w \in Edited("src") \cup Edited("_patch.diff")
  <2>1. /\ w \in Trees
        /\ w.index = work.index /\ w.head = work.head /\ w.branch = work.branch /\ w.on = work.on
        /\ \A g \in Files : w.files[g] \in {work.files[g]} \cup Edits(attempt)
    BY <1>2, <1>3, EditOfAFile
  <2>2. Known(w.files)
    BY <2>1 DEF Known
  <2> QED BY <1>0, <1>1, <2>1, <2>2 DEF AllKnown
<1>4. CASE w \in Removed
  <2>1. /\ w \in Trees
        /\ w.index = work.index /\ w.head = work.head /\ w.branch = work.branch /\ w.on = work.on
        /\ \A g \in Files : w.files[g] \in {work.files[g], Gone}
    BY <1>4, RemovalOfFiles
  <2>2. Known(w.files)
    BY <2>1 DEF Known
  <2> QED BY <1>0, <1>1, <2>1, <2>2 DEF AllKnown
<1>5. CASE w = work
  <2> QED BY <1>0, <1>1, <1>5 DEF AllKnown
<1>6. CASE w = [work EXCEPT !.index = work.files]
  <2>1. /\ w \in Trees /\ w.files = work.files /\ w.index = work.files
        /\ w.head = work.head /\ w.branch = work.branch /\ w.on = work.on
    BY <1>0, <1>6 DEF Trees
  <2> QED BY <1>0, <1>1, <2>1 DEF AllKnown
<1>7. CASE w = Committed(work.files)
  <2> QED BY <1>0, <1>1, <1>7, CommitOfATree DEF AllKnown
<1>8. CASE w = [work EXCEPT !.on = FALSE]
  <2>1. /\ w \in Trees /\ w.files = work.files /\ w.index = work.index
        /\ w.head = work.head /\ w.branch = work.branch /\ w.on = FALSE
    BY <1>0, <1>8 DEF Trees
  <2> QED BY <1>0, <1>1, <2>1 DEF AllKnown
<1>9. CASE w = CloneOf(work.branch)
  <2> QED BY <1>0, <1>1, <1>9, CloneIsTrees DEF AllKnown, CloneOf
<1>10. CASE w = [Committed(base) EXCEPT !.files = base]
  <2> DEFINE c == Committed(base)
  <2>1. c \in Trees /\ c.index = base /\ c.head = base /\ c.on = work.on
        /\ c.branch = IF work.on THEN base ELSE work.branch
    BY <1>0, CommitOfATree
  <2>2. w = [c EXCEPT !.files = base]
    BY <1>10
  <2> HIDE DEF c
  <2>3. /\ w \in Trees /\ w.files = base /\ w.index = base /\ w.head = base /\ w.on = work.on
        /\ w.branch = IF work.on THEN base ELSE work.branch
    BY <1>0, <2>1, <2>2 DEF Trees
  <2> QED BY <1>0, <1>1, <2>3 DEF AllKnown
<1>11. \/ w \in Edited("src") \cup Edited("_patch.diff") \cup Removed
       \/ w \in {work, [work EXCEPT !.index = work.files], Committed(work.files),
                [work EXCEPT !.on = FALSE], CloneOf(work.branch), [Committed(base) EXCEPT !.files = base]}
  BY DEF Effect, Shell
<1> QED BY <1>3, <1>4, <1>5, <1>6, <1>7, <1>8, <1>9, <1>10, <1>11

LEMMA RunTypesHold == Spec => [](RunTypes /\ Routed)
<1>1. Init => RunTypes /\ Routed
  <2> SUFFICES ASSUME Init PROVE RunTypes /\ Routed
    OBVIOUS
  <2>1. MaxAttempts \in Nat \ {0} /\ Clean \in Tree
    BY AgentRunAssumption, GoneIsContent
  <2>2. CloneOf(Clean) \in Trees /\ CloneOf(Clean).head = CloneOf(Clean).branch
    BY <2>1, CloneIsTrees DEF CloneOf
  <2> QED BY <2>1, <2>2 DEF Init, RunTypes, Routed, Delivering, Looping
<1>2. RunTypes /\ Routed /\ [Next]_vars => RunTypes' /\ Routed'
  <2> SUFFICES ASSUME RunTypes, Routed, [Next]_vars PROVE RunTypes' /\ Routed'
    OBVIOUS
  <2> USE DEF toolVars, gateVars, talkVars, repoVars, taskVars
  <2>1. CASE UNCHANGED vars
    <3> QED BY <2>1 DEF vars, RunTypes, Routed
  <2>2. CASE QuietStep
    <3>1. RunTypes'
      BY <2>2 DEF QuietStep, NoEffect, RunTypes, PcMoves
    <3>2. Routed'
      BY <2>2 DEF QuietStep, NoEffect, RunTypes, Routed, Delivering, Looping, PcMoves
    <3> QED BY <3>1, <3>2
  <2>3. CASE CloneStep
    <3>1. /\ work' \in Trees /\ base' \in Tree /\ remote' \in Tree
          /\ work'.head = work'.branch
      BY <2>3, CloneIsTrees DEF CloneStep, RunTypes, CloneOf
    <3> QED BY <2>3, <3>1 DEF CloneStep, RunTypes, Routed, Delivering, Looping, After, Is
  <2>4. CASE ReadyStep \/ IterateStep \/ CallStep \/ PassStep
    <3> QED BY <2>4 DEF ReadyStep, IterateStep, CallStep, PassStep, RunTypes, Routed, Delivering, Looping
  <2>5. CASE AnswerStep \/ TurnStep \/ CrashStep
    <3> QED BY <2>5 DEF AnswerStep, TurnStep, CrashStep, NoEffect, RunTypes, Routed, Delivering, Looping
  <2>6. CASE ToolStep
    <3>1. work' \in Trees /\ (work'.on => work'.head = work'.branch)
      BY <2>6, EffectOfACall DEF ToolStep
    <3> QED BY <2>6, <3>1 DEF ToolStep, RunTypes, Routed
  <2>7. CASE VerifyStep
    <3>1. "src" \in Files
      BY DEF Files
    <3>2. work' \in Trees /\ (work'.on => work'.head = work'.branch)
      BY <2>7, <3>1, EditOfAFile DEF VerifyStep, RunTypes
    <3> QED BY <2>7, <3>2 DEF VerifyStep, RunTypes, Routed, Delivering, Looping
  <2>8. CASE CommitStep
    <3>0. work.files \in Tree /\ work.index \in Tree
      BY DEF RunTypes, Trees
    <3>1. work' \in Trees /\ (work'.on => work'.head = work'.branch)
      BY <2>8, <3>0, CommitOfATree DEF CommitStep, RunTypes
    <3> QED BY <2>8, <3>1 DEF CommitStep, RunTypes, Routed, Delivering, Looping
  <2>9. CASE PushStep
    <3>1. work.branch \in Tree
      BY DEF RunTypes, Trees
    <3> QED BY <2>9, <3>1 DEF PushStep, RunTypes, Routed, Delivering, Looping
  <2>10. CASE Rerun
    <3>1. attempt' \in 1 .. MaxAttempts
      BY <2>10, AgentRunAssumption DEF Rerun, RunTypes
    <3>2. work' \in Trees /\ (work'.on => work'.head = work'.branch)
      BY <2>10, CloneIsTrees DEF Rerun, RunTypes, CloneOf
    <3> QED BY <2>10, <3>1, <3>2 DEF Rerun, RunTypes, Routed, Delivering, Looping
  <2> QED BY <2>1, <2>2, <2>3, <2>4, <2>5, <2>6, <2>7, <2>8, <2>9, <2>10, StepsOfTheRun DEF AgentStep
<1> QED BY <1>1, <1>2, PTL DEF Spec

-----------------------------------------------------------------------------
(* A task that only reads. *)

ReadOnly == {"read", "find", "mcp", "list", "load"}

\* Its tools read or delete, and its workspace is, but for deletions, its clone, also
\* when it has none.
ReadsOnly ==
  task.kind # "write" =>
    /\ \A n \in DOMAIN registry : registry[n] \in ReadOnly
    /\ work.index = base /\ work.head = base /\ work.branch = base
    /\ \A f \in Files : work.files[f] \in {base[f], Gone}

LEMMA ToolsOfAReader ==
  ASSUME task.kind = "analyze", NEW n \in DOMAIN Tools
  PROVE  Tools[n] \in ReadOnly
<1> DEFINE pack == AssembleToolRegistry(task.kind)
<1>1. \A x \in DOMAIN pack : pack[x] \in {"read", "find"}
  BY DEF AssembleToolRegistry, Restrict, Packs, toolBuilders, Readers, Finders
<1> HIDE DEF pack
<1>2. Tools = RegisterSkillTools(RegisterMCPTools(pack))
  BY DEF Tools, pack
<1> QED BY <1>1, <1>2 DEF RegisterSkillTools, RegisterMCPTools, Registered, ReadOnly

(* What a call of a reader leaves: the registry as it was, and of the workspace all *)
(* but files.                                                                        *)
LEMMA CallOfAReader ==
  ASSUME ReadsOnly, RunTypes, task.kind # "write", NEW name, NEW w \in Effect(Implementation(name)),
         Register(Implementation(name))
  PROVE  /\ registry' = registry
         /\ w.index = base /\ w.head = base /\ w.branch = base
         /\ \A f \in Files : w.files[f] \in {base[f], Gone}
<1>1. Implementation(name) \in ReadOnly \cup {"unknown"}
  BY DEF ReadsOnly, Implementation, ReadOnly
<1>2. w = work \/ w \in Removed
  BY <1>1 DEF Effect, ReadOnly
<1>3. registry' = registry
  BY DEF Register, ListSkills, LoadSkill, AllowScripts, toolVars
<1>4. CASE w = work
  BY <1>3, <1>4 DEF ReadsOnly
<1>5. CASE w \in Removed
  BY <1>3, <1>5, RemovalOfFiles DEF ReadsOnly
<1> QED BY <1>2, <1>4, <1>5

LEMMA ReadersReadOnly == Spec => []ReadsOnly
<1>1. Init => ReadsOnly
  BY DEF Init, ReadsOnly, CloneOf
<1>2. ReadsOnly /\ RunTypes /\ Routed /\ [Next]_vars => ReadsOnly'
  <2> SUFFICES ASSUME ReadsOnly, RunTypes, Routed, [Next]_vars PROVE ReadsOnly'
    OBVIOUS
  <2> USE DEF toolVars, gateVars, talkVars, repoVars, taskVars
  <2>1. CASE UNCHANGED vars
    <3> QED BY <2>1 DEF vars, ReadsOnly
  <2>2. CASE QuietStep \/ IterateStep \/ AnswerStep \/ CallStep \/ TurnStep \/ CrashStep
    <3>1. UNCHANGED <<task, registry, work, base>>
      BY <2>2 DEF QuietStep, IterateStep, AnswerStep, CallStep, TurnStep, CrashStep, NoEffect
    <3> QED BY <3>1 DEF ReadsOnly
  <2>3. CASE CloneStep
    <3> QED BY <2>3 DEF CloneStep, ReadsOnly, CloneOf
  <2>4. CASE ReadyStep
    <3> QED BY <2>4, ToolsOfAReader DEF ReadyStep, ReadsOnly
  <2>5. CASE ToolStep
    <3> QED BY <2>5, CallOfAReader DEF ToolStep, ReadsOnly
  <2>6. CASE VerifyStep \/ PassStep \/ CommitStep \/ PushStep
    <3>1. task.kind = "write" /\ task' = task
      BY <2>6 DEF VerifyStep, PassStep, CommitStep, PushStep, Routed, Delivering
    <3> QED BY <3>1 DEF ReadsOnly
  <2>7. CASE Rerun
    <3> QED BY <2>7 DEF Rerun, ReadsOnly, CloneOf
  <2> QED BY <2>1, <2>2, <2>3, <2>4, <2>5, <2>6, <2>7, StepsOfTheRun DEF AgentStep
<1> QED BY <1>1, <1>2, RunTypesHold, PTL DEF Spec

(* A task that only reads adds nothing to its workspace and commits nothing;  *)
(* all that may happen to a file is that it is gone: whatever tools its MCP   *)
(* servers have, whatever skills it finds and loads and however often it is   *)
(* cancelled, crashes and is run again (tools.go ExecuteTool,                 *)
(* platform_cmds.go, tools_skills.go LoadSkill, runner_analyze.go).           *)
THEOREM ReadingAddsNothing == Spec => []AnalyzeAddsNothing
<1>1. ReadsOnly => AnalyzeAddsNothing
  BY DEF ReadsOnly, AnalyzeAddsNothing
<1> QED BY <1>1, ReadersReadOnly, PTL

-----------------------------------------------------------------------------
(* What a write task pushes. *)

\* The task's branch is checked out, and no call of git that is not looked at failed.
Trusted == work.on /\ ~Slipped("status") /\ ~Slipped("add")

\* The files the verify commands passed, on their way from the workspace to the branch.
OnItsWay ==
  /\ pc = "commit" => verified = work.files
  /\ pc = "push" /\ Trusted => verified = work.branch
  /\ pushed /\ Trusted => verified = remote
  /\ pushed => pc \in {"pr", "deliver", "end"}

LEMMA SlipsStay ==
  ASSUME slips \subseteq slips', attempt' = attempt, NEW what, Slipped(what)
  PROVE  Slipped(what)'
BY DEF Slipped

LEMMA NoChanges ==
  ASSUME RunTypes, Status = {}
  PROVE  work.files = work.head /\ work.index = work.head
<1>1. work.files \in Tree /\ work.head \in Tree /\ work.index \in Tree
  BY DEF RunTypes, Trees
<1>2. \A g \in Files : work.head[g] = work.index[g] /\ work.index[g] = work.files[g]
  BY DEF Status
<1>3. \A g \in Files : work.files[g] = work.head[g] /\ work.index[g] = work.head[g]
  BY <1>2
<1> QED BY <1>1, <1>3 DEF Tree

LEMMA CommitTakesAll ==
  ASSUME RunTypes, CommitStep, Trusted'
  PROVE  work'.branch = work.files
<1>1. work \in Trees /\ (work.on => work.head = work.branch) /\ work.files \in Tree /\ work.index \in Tree
  BY DEF RunTypes, Trees
<1>2. CASE Status = {} /\ UNCHANGED work
  BY <1>1, <1>2, NoChanges DEF Trusted
<1>3. CASE work' = Committed(work.files)
  BY <1>1, <1>3, CommitOfATree DEF Trusted
<1> QED BY <1>2, <1>3 DEF CommitStep, Trusted

LEMMA OnItsWayHolds == Spec => []OnItsWay
<1>1. Init => OnItsWay
  BY DEF Init, OnItsWay
<1>2. OnItsWay /\ RunTypes /\ [Next]_vars => OnItsWay'
  <2> SUFFICES ASSUME OnItsWay, RunTypes, [Next]_vars PROVE OnItsWay'
    OBVIOUS
  <2> USE DEF toolVars, gateVars, talkVars, repoVars, taskVars
  <2>1. CASE UNCHANGED vars
    <3> QED BY <2>1 DEF vars, OnItsWay, Trusted, Slipped
  <2>2. CASE QuietStep \/ CrashStep
    <3>1. UNCHANGED <<work, slips, attempt, verified, remote, pushed>>
      BY <2>2 DEF QuietStep, CrashStep, NoEffect
    <3>2. Trusted' = Trusted
      BY <3>1 DEF Trusted, Slipped
    <3> QED BY <2>2, <3>1, <3>2 DEF QuietStep, CrashStep, PcMoves, OnItsWay
  <2>3. CASE CloneStep \/ ReadyStep \/ IterateStep \/ AnswerStep \/ CallStep \/ ToolStep \/ TurnStep
    <3>1. ~ pushed /\ ~ pushed' /\ pc' \notin {"commit", "push"}
      BY <2>3 DEF CloneStep, ReadyStep, IterateStep, AnswerStep, CallStep, ToolStep, TurnStep, OnItsWay, After
    <3> QED BY <3>1 DEF OnItsWay
  <2>4. CASE VerifyStep \/ PassStep
    <3> QED BY <2>4 DEF VerifyStep, PassStep, OnItsWay
  <2>5. CASE CommitStep
    <3>1. pc' = "push" /\ ~ pushed /\ ~ pushed' /\ verified' = work.files
      BY <2>5 DEF CommitStep, OnItsWay
    <3> QED BY <2>5, <3>1, CommitTakesAll DEF OnItsWay
  <2>6. CASE PushStep
    <3>1. Trusted' = Trusted
      BY <2>6 DEF PushStep, Trusted, Slipped
    <3> QED BY <2>6, <3>1 DEF PushStep, OnItsWay
  <2>7. CASE Rerun
    <3> QED BY <2>7 DEF Rerun, OnItsWay
  <2> QED BY <2>1, <2>2, <2>3, <2>4, <2>5, <2>6, <2>7, StepsOfTheRun DEF AgentStep
<1> QED BY <1>1, <1>2, RunTypesHold, PTL DEF Spec

(* Unless the agent left the task's branch, or git status or git add failed,  *)
(* what an execution pushes is, file for file, what its verify commands       *)
(* passed: for any files left uncommitted, staged, committed or reset by the  *)
(* agent itself or written by a verify command (write_workspace.go            *)
(* finalizeWriteChanges).                                                     *)
THEOREM OnlyVerifiedIsPushed == Spec => []PushedIsVerified
<1>1. OnItsWay => PushedIsVerified
  BY DEF OnItsWay, Trusted, PushedIsVerified
<1> QED BY <1>1, OnItsWayHolds, PTL

\* Every file is as this execution cloned it or as it wrote it, or it is gone.
OwnContents(tree) == \A f \in Files : tree[f] \in {base[f], Gone} \cup Edits(attempt)
AllOwn == OwnContents(work.files) /\ OwnContents(work.index) /\ OwnContents(work.head) /\ OwnContents(work.branch)

OwnWork ==
  /\ pc \in Looping \cup {"check", "verify", "commit", "push"} => AllOwn
  /\ pushed => OwnContents(remote) /\ pc \in {"pr", "deliver", "end"}

LEMMA KnownIsOwn ==
  ASSUME AllOwn, NEW tree, Known(tree)
  PROVE  OwnContents(tree)
BY DEF AllOwn, OwnContents, Known

LEMMA OwnWorkHolds == Spec => []OwnWork
<1>1. Init => OwnWork
  BY DEF Init, OwnWork, Looping
<1>2. OwnWork /\ RunTypes /\ [Next]_vars => OwnWork'
  <2> SUFFICES ASSUME OwnWork, RunTypes, [Next]_vars PROVE OwnWork'
    OBVIOUS
  <2> USE DEF toolVars, gateVars, talkVars, repoVars, taskVars, Looping
  <2>1. CASE UNCHANGED vars
    <3> QED BY <2>1 DEF vars, OwnWork, AllOwn, OwnContents, Edits
  <2>2. CASE QuietStep \/ CrashStep
    <3>1. UNCHANGED <<work, base, attempt, remote, pushed>>
      BY <2>2 DEF QuietStep, CrashStep, NoEffect
    <3>2. AllOwn' = AllOwn /\ OwnContents(remote)' = OwnContents(remote)
      BY <3>1 DEF AllOwn, OwnContents, Edits
    <3> QED BY <2>2, <3>1, <3>2 DEF QuietStep, CrashStep, PcMoves, OwnWork
  <2>3. CASE CloneStep
    <3>1. work'.files = base' /\ work'.index = base' /\ work'.head = base' /\ work'.branch = base' /\ ~ pushed'
      BY <2>3 DEF CloneStep, CloneOf, OwnWork
    <3> QED BY <3>1 DEF OwnWork, AllOwn, OwnContents
  <2>4. CASE ReadyStep \/ IterateStep \/ AnswerStep \/ CallStep \/ TurnStep \/ PassStep
    <3>1. UNCHANGED <<work, base, attempt, pushed>> /\ ~ pushed
          /\ pc \in Looping \cup {"check", "verify", "commit", "push"}
      BY <2>4 DEF ReadyStep, IterateStep, AnswerStep, CallStep, TurnStep, PassStep, OwnWork
    <3> QED BY <3>1 DEF OwnWork, AllOwn, OwnContents, Edits
  <2>5. CASE ToolStep
    <3>1. PICK name \in Calls : work' \in Effect(Implementation(name))
      BY <2>5 DEF ToolStep
    <3>2. UNCHANGED <<base, attempt, pushed>> /\ ~ pushed /\ AllOwn
      BY <2>5 DEF ToolStep, OwnWork
    <3>3. AllKnown(work')
      BY <3>1, EffectOfACall
    <3>4. OwnContents(work'.files) /\ OwnContents(work'.index) /\ OwnContents(work'.head) /\ OwnContents(work'.branch)
      BY <3>2, <3>3, KnownIsOwn DEF AllKnown
    <3> QED BY <3>2, <3>4 DEF OwnWork, AllOwn, OwnContents, Edits
  <2>6. CASE VerifyStep
    <3>0. "src" \in Files
      BY DEF Files
    <3>1. /\ \A g \in Files : work'.files[g] \in {work.files[g]} \cup Edits(attempt)
          /\ work'.index = work.index /\ work'.head = work.head /\ work'.branch = work.branch
      BY <2>6, <3>0, EditOfAFile DEF VerifyStep
    <3>2. UNCHANGED <<base, attempt, pushed>> /\ ~ pushed /\ AllOwn
      BY <2>6 DEF VerifyStep, OwnWork
    <3>3. OwnContents(work'.files)
      BY <3>1, <3>2 DEF AllOwn, OwnContents
    <3> QED BY <3>1, <3>2, <3>3 DEF OwnWork, AllOwn, OwnContents, Edits
  <2>7. CASE CommitStep
    <3>1. UNCHANGED <<base, attempt, pushed>> /\ ~ pushed /\ AllOwn
      BY <2>7 DEF CommitStep, OwnWork
    <3>2. work.files \in Tree /\ work.index \in Tree
      BY DEF RunTypes, Trees
    <3>3. OwnContents(work'.files) /\ OwnContents(work'.index) /\ OwnContents(work'.head) /\ OwnContents(work'.branch)
      BY <2>7, <3>1, <3>2, CommitOfATree DEF CommitStep, AllOwn
    <3> QED BY <3>1, <3>3 DEF OwnWork, AllOwn, OwnContents, Edits
  <2>8. CASE PushStep
    <3>1. UNCHANGED <<base, attempt>> /\ pushed' /\ pc = "push" /\ pc' = "pr" /\ remote' = work.branch
      BY <2>8 DEF PushStep
    <3> QED BY <3>1 DEF OwnWork, AllOwn, OwnContents, Edits
  <2>9. CASE Rerun
    <3> QED BY <2>9 DEF Rerun, OwnWork
  <2> QED BY <2>1, <2>2, <2>3, <2>4, <2>5, <2>6, <2>7, <2>8, <2>9, StepsOfTheRun DEF AgentStep
<1> QED BY <1>1, <1>2, RunTypesHold, PTL DEF Spec

(* Nothing an earlier execution left in the task's directory is delivered,    *)
(* however many there were and wherever they were killed: every file on the   *)
(* branch is as this execution cloned it or as it wrote it, or it is gone     *)
(* (sandbox.go Setup, write_workspace.go prepareWriteWorkspace).              *)
THEOREM NothingLeftOverIsPushed == Spec => []NoLeftover
<1>1. OwnWork => NoLeftover
  BY DEF OwnWork, OwnContents, NoLeftover
<1> QED BY <1>1, OwnWorkHolds, PTL

-----------------------------------------------------------------------------
(* The guard against standing still. *)

\* The snapshots of equal value at the end, and that they are no more than these:
\* stall counts the repetitions of the last one, unless it is empty.
Repeated ==
  /\ \A i \in Len(snaps) - stall .. Len(snaps) : snaps[i] = last
  /\ stall > 0 => last # {}
  /\ last # {} /\ stall + 1 < Len(snaps) => snaps[Len(snaps) - stall - 1] # last

Letters == {" ", "A", "D", "M"}
Listings == SUBSET (Files \X Letters \X Letters)

StallInv ==
  /\ snaps \in Seq(Listings) /\ stall \in Nat
  /\ snaps = << >> => last = {} /\ stall = 0
  /\ snaps # << >> => stall < Len(snaps) /\ Repeated
  /\ snaps # << >> => 0 < Loop.noProgressLimit
  /\ outcome = "stalled" => 0 < Loop.noProgressLimit /\ stall = Loop.noProgressLimit
  /\ outcome # "stalled" => stall = 0 \/ stall < Loop.noProgressLimit

LEMMA LoopTypes ==
  Loop.noProgressLimit \in Int /\ Loop.maxIterations \in Nat \ {0}
BY AgentRunAssumption DEF Loop, MergeLoopConfig

LEMMA StatusIsListing == Status \in Listings
<1>1. \A a, b : Change(a, b) \in Letters
  BY DEF Change, Letters
<1> QED BY <1>1 DEF Status, Listings

(* One snapshot more. *)
LEMMA SnapshotTaken ==
  ASSUME StallInv, NEW snap \in Listings, Compare(snap)
  PROVE  /\ snaps' \in Seq(Listings) /\ snaps' # << >> /\ stall' \in Nat
         /\ stall' < Len(snaps') /\ Repeated' /\ stall' \in {0, stall + 1}
<1> DEFINE n == Len(snaps)
<1>0. snaps' = Append(snaps, snap) /\ stall' = StallCount(snap) /\ last' = snap
  BY DEF Compare
<1>1. snap \in Listings
  OBVIOUS
<1>2. snaps \in Seq(Listings) /\ n \in Nat /\ stall \in Nat
  BY DEF StallInv
<1>3. /\ snaps' \in Seq(Listings) /\ Len(snaps') = n + 1 /\ snaps'[n + 1] = snap
      /\ \A i \in 1 .. n : snaps'[i] = snaps[i]
  BY <1>0, <1>1, <1>2
<1>4. snaps' # << >>
  BY <1>2, <1>3
<1> HIDE DEF n
<1>5. CASE last # {} /\ snap = last
  <2>1. stall' = stall + 1
    BY <1>0, <1>5 DEF StallCount
  <2>2. snaps # << >>
    BY <1>5 DEF StallInv
  <2>3. stall < n /\ \A i \in n - stall .. n : snaps[i] = last
    BY <2>2 DEF StallInv, Repeated, n
  <2>4. stall + 1 < n => snaps[n - stall - 1] # last
    BY <1>5, <2>2 DEF StallInv, Repeated, n
  <2>5. \A i \in (n + 1) - (stall + 1) .. n + 1 : snaps'[i] = last
    <3> SUFFICES ASSUME NEW i \in (n + 1) - (stall + 1) .. n + 1 PROVE snaps'[i] = last
      OBVIOUS
    <3>1. i = n + 1 \/ (i \in n - stall .. n /\ i \in 1 .. n)
      BY <1>2, <2>3
    <3> QED BY <1>3, <1>5, <2>3, <3>1
  <2>6. (stall + 1) + 1 < n + 1 => snaps'[(n + 1) - (stall + 1) - 1] # last
    BY <1>2, <1>3, <2>3, <2>4
  <2> QED BY <1>0, <1>2, <1>3, <1>4, <1>5, <2>1, <2>3, <2>5, <2>6 DEF Repeated
<1>6. CASE ~(last # {} /\ snap = last)
  <2>1. stall' = 0
    BY <1>0, <1>6 DEF StallCount
  <2>2. snap # {} /\ 1 < n + 1 => snaps'[n] # snap
    <3> SUFFICES ASSUME snap # {}, 1 < n + 1 PROVE snaps'[n] # snap
      OBVIOUS
    <3>1. snaps # << >> /\ n \in n - stall .. n /\ n \in 1 .. n
      BY <1>2 DEF n
    <3>2. snaps[n] = last
      BY <3>1 DEF StallInv, Repeated, n
    <3> QED BY <1>3, <1>6, <3>1, <3>2
  <2>3. \A i \in (n + 1) - 0 .. n + 1 : snaps'[i] = snap
    BY <1>2, <1>3
  <2> QED BY <1>0, <1>2, <1>3, <1>4, <2>1, <2>2, <2>3 DEF Repeated
<1> QED BY <1>5, <1>6

LEMMA StallInvHolds == Spec => []StallInv
<1>1. Init => StallInv
  BY DEF Init, StallInv
<1>2. StallInv /\ RunTypes /\ [Next]_vars => StallInv'
  <2> SUFFICES ASSUME StallInv, RunTypes, [Next]_vars PROVE StallInv'
    OBVIOUS
  <2> USE DEF toolVars, gateVars, talkVars, repoVars, taskVars
  <2>1. CASE UNCHANGED vars
    <3> QED BY <2>1 DEF vars, StallInv, Repeated
  <2>2. CASE TurnStep
    <3>1. outcome # "stalled"
      BY <2>2 DEF TurnStep, RunTypes
    <3>2. CASE task.kind = "write" /\ Loop.noProgressLimit > 0
      <4>0. PICK snap \in {Status, {}} : Compare(snap)
        BY <2>2, <3>2 DEF TurnStep, checkNoProgress
      <4>a. snap \in Listings
        BY StatusIsListing DEF Listings
      <4>1. /\ snaps' \in Seq(Listings) /\ snaps' # << >> /\ stall' \in Nat
            /\ stall' < Len(snaps') /\ Repeated' /\ stall' \in {0, stall + 1}
        BY <4>0, <4>a, SnapshotTaken
      <4>2. stall' \in {0, stall + 1} /\ stall \in Nat /\ (stall = 0 \/ stall < Loop.noProgressLimit)
        BY <3>1, <4>1 DEF StallInv
      <4>3. /\ outcome' = "stalled" => stall' = Loop.noProgressLimit
            /\ outcome' # "stalled" => stall' = 0 \/ stall' < Loop.noProgressLimit
        BY <2>2, <3>1, <3>2, <4>1, <4>2, LoopTypes DEF TurnStep
      <4> QED BY <3>2, <4>1, <4>3, LoopTypes DEF StallInv
    <3>3. CASE ~(task.kind = "write" /\ Loop.noProgressLimit > 0)
      <4>1. UNCHANGED <<last, stall, snaps>>
        BY <2>2, <3>3 DEF TurnStep, checkNoProgress
      <4>2. outcome' = outcome
        BY <2>2, <3>1, <4>1, LoopTypes DEF TurnStep, StallInv
      <4> QED BY <4>1, <4>2 DEF StallInv, Repeated
    <3> QED BY <3>2, <3>3
  <2>3. CASE Rerun
    <3> QED BY <2>3 DEF Rerun, StallInv
  <2>4. CASE QuietStep \/ CrashStep
    <3>1. /\ UNCHANGED <<last, stall, snaps>>
          /\ outcome' = outcome \/ (outcome # "stalled" /\ outcome' # "stalled")
      BY <2>4 DEF QuietStep, CrashStep, NoEffect, RunTypes
    <3> QED BY <3>1 DEF StallInv, Repeated
  <2>5. CASE AnswerStep
    <3>1. UNCHANGED <<last, stall, snaps>> /\ outcome # "stalled" /\ outcome' # "stalled"
      BY <2>5 DEF AnswerStep, RunTypes
    <3> QED BY <3>1 DEF StallInv, Repeated
  <2>6. CASE VerifyStep
    <3>1. UNCHANGED <<last, stall, snaps>> /\ outcome # "stalled" /\ outcome' # "stalled"
      BY <2>6 DEF VerifyStep, RunTypes
    <3> QED BY <3>1 DEF StallInv, Repeated
  <2>7. CASE CloneStep \/ ReadyStep \/ IterateStep \/ CallStep \/ ToolStep \/ PassStep \/ CommitStep \/ PushStep
    <3>1. UNCHANGED <<last, stall, snaps, outcome>>
      BY <2>7 DEF CloneStep, ReadyStep, IterateStep, CallStep, ToolStep, PassStep, CommitStep, PushStep
    <3> QED BY <3>1 DEF StallInv, Repeated
  <2> QED BY <2>1, <2>2, <2>3, <2>4, <2>5, <2>6, <2>7, StepsOfTheRun DEF AgentStep
<1> QED BY <1>1, <1>2, RunTypesHold, PTL DEF Spec

(* The guard stops a run exactly when its last rounds, one more than the     *)
(* limit, ended with one and the same list of uncommitted files, for every   *)
(* limit and any sequence of rounds (loop.go checkNoProgress).               *)
THEOREM StallsOnlyWithoutProgress == Spec => []StallIsReal
<1>1. StallInv /\ RunTypes => StallIsReal
  <2> SUFFICES ASSUME StallInv, RunTypes, outcome # "crashed"
               PROVE  outcome = "stalled" <=> Stalled(snaps)
    BY DEF StallIsReal
  <2> DEFINE n == Len(snaps)  limit == Loop.noProgressLimit
  <2>1. snaps \in Seq(Listings) /\ n \in Nat /\ stall \in Nat /\ limit \in Int
    BY LoopTypes DEF StallInv
  <2>2. Stalled(snaps) <=> /\ 0 < limit /\ limit < n /\ snaps[n] # {}
                           /\ \A i \in n - limit .. n : snaps[i] = snaps[n]
    BY DEF Stalled
  <2>3. CASE snaps = << >>
    <3>1. n = 0 /\ stall = 0
      BY <2>3 DEF StallInv
    <3>2. ~ Stalled(snaps)
      BY <2>1, <2>2, <3>1
    <3>3. outcome # "stalled"
      BY <2>1, <3>1 DEF StallInv
    <3> QED BY <3>2, <3>3
  <2>4. CASE snaps # << >>
    <3>1. stall < n /\ Repeated /\ 0 < limit
      BY <2>4 DEF StallInv
    <3> HIDE DEF n
    <3>2. \A i \in n - stall .. n : snaps[i] = last
      BY <3>1 DEF Repeated, n
    <3>3. last # {} /\ stall + 1 < n => snaps[n - stall - 1] # last
      BY <3>1 DEF Repeated, n
    <3>4. n \in n - stall .. n
      BY <2>1
    <3>5. snaps[n] = last
      BY <3>2, <3>4
    <3>6. CASE stall >= limit
      <4>1. \A i \in n - limit .. n : i \in n - stall .. n
        BY <2>1, <3>6
      <4>2. last # {} /\ limit < n
        BY <2>1, <3>1, <3>6 DEF Repeated
      <4>3. Stalled(snaps)
        BY <2>2, <3>1, <3>2, <3>5, <4>1, <4>2
      <4>4. outcome = "stalled"
        BY <2>1, <3>1, <3>6 DEF StallInv
      <4> QED BY <4>3, <4>4
    <3>7. CASE stall < limit
      <4>1. outcome # "stalled"
        BY <2>1, <3>7 DEF StallInv
      <4>2. ASSUME Stalled(snaps) PROVE FALSE
        <5>1. n - stall - 1 \in n - limit .. n /\ stall + 1 < n
          BY <2>1, <2>2, <3>7, <4>2
        <5>2. snaps[n - stall - 1] = last
          BY <2>2, <3>5, <4>2, <5>1
        <5> QED BY <2>2, <3>3, <3>5, <4>2, <5>1, <5>2
      <4> QED BY <4>1, <4>2
    <3> QED BY <2>1, <3>6, <3>7
  <2> QED BY <2>3, <2>4
<1> QED BY <1>1, StallInvHolds, RunTypesHold, PTL

-----------------------------------------------------------------------------
(* Least and greatest elements, and functions defined by recursion. *)

LEMMA LeastElement ==
  ASSUME NEW S, S \subseteq Nat, S # {}
  PROVE  \E n \in S : \A m \in S : n <= m
<1> DEFINE R == OpToRel(<, Nat)
<1>1. IsWellFoundedOn(R, Nat)
  BY NatLessThanWellFounded
<1>2. \A x, y \in Nat : <<y, x>> \in R <=> y < x
  BY DEF OpToRel
<1> HIDE DEF R
<1>3. PICK x \in S : \A y \in S : <<y, x>> \notin R
  BY <1>1, WFMin, Zenon
<1>4. \A y \in S : ~ (y < x)
  BY <1>2, <1>3
<1> QED BY <1>3, <1>4

LEMMA LeastIsMin ==
  ASSUME NEW S, S \subseteq Nat, S # {}
  PROVE  Min(S) \in S /\ \A m \in S : Min(S) <= m
<1>1. \E n \in S : \A m \in S : n <= m
  BY LeastElement
<1> QED BY <1>1 DEF Min

LEMMA MaxBelow ==
  ASSUME NEW n \in Nat, NEW S, S \subseteq 0 .. n, S # {}
  PROVE  Max(S) \in S /\ \A m \in S : m <= Max(S)
<1> DEFINE T == {k \in Nat : \A m \in S : m <= k}
<1>1. n \in T
  OBVIOUS
<1>2. PICK k \in T : \A j \in T : k <= j
  BY <1>1, LeastElement
<1>3. k \in S
  <2> SUFFICES ASSUME k \notin S PROVE FALSE
    OBVIOUS
  <2>1. \A m \in S : m < k
    BY <1>2
  <2>2. PICK m \in S : m \in 0 .. n /\ m < k
    BY <2>1
  <2>3. k - 1 \in Nat
    BY <1>2, <2>2
  <2>4. \A j \in S : j \in 0 .. n /\ j <= k - 1
    BY <1>2, <2>1
  <2>5. k - 1 \in T
    BY <2>3, <2>4
  <2> QED BY <1>2, <2>5
<1>4. \A m \in S : k >= m /\ m \in Int
  BY <1>2
<1> QED BY <1>3, <1>4 DEF Max

(* What holds at 0 and is kept up to N holds up to N. *)
LEMMA UpTo ==
  ASSUME NEW N \in Nat, NEW K, 0 \in K, \A n \in 1 .. N : n - 1 \in K => n \in K
  PROVE  \A n \in 0 .. N : n \in K
<1> SUFFICES ASSUME NEW z \in 0 .. N, z \notin K PROVE FALSE
  OBVIOUS
<1> DEFINE S == {n \in 0 .. N : n \notin K}
<1>1. S \subseteq Nat /\ S # {}
  OBVIOUS
<1>2. PICK n \in S : \A m \in S : n <= m
  BY <1>1, LeastElement
<1>3. n \in 1 .. N
  BY <1>2
<1>4. n - 1 \notin S
  BY <1>2, <1>3
<1> QED BY <1>2, <1>3, <1>4

Steps(N, V) == [1 .. N -> [V -> V]]

Follows(g, N, V, a, succ) ==
  g \in [0 .. N -> V] /\ g[0] = a /\ \A n \in 1 .. N : g[n] = succ[n][g[n - 1]]

(* A function on 0 .. N whose value at n is made from the one at n - 1 by a   *)
(* step that stays in V exists ...                                            *)
LEMMA RecursionExists ==
  ASSUME NEW N \in Nat, NEW V, NEW a \in V, NEW succ \in Steps(N, V)
  PROVE  \E g : Follows(g, N, V, a, succ)
<1> USE DEF Steps
<1> DEFINE Upto(n, g) == g \in [0 .. n -> V] /\ g[0] = a /\ \A k \in 1 .. n : g[k] = succ[k][g[k - 1]]
           K == {n \in 0 .. N : \E g \in [0 .. n -> V] : Upto(n, g)}
<1>1. 0 \in K
  <2> DEFINE h == [k \in 0 .. 0 |-> a]
  <2>1. h \in [0 .. 0 -> V] /\ h[0] = a /\ \A k \in 1 .. 0 : h[k] = succ[k][h[k - 1]]
    OBVIOUS
  <2>2. Upto(0, h)
    BY <2>1
  <2> HIDE DEF h
  <2> QED BY <2>1, <2>2
<1>2. \A n \in 1 .. N : n - 1 \in K => n \in K
  <2> SUFFICES ASSUME NEW n \in 1 .. N, n - 1 \in K PROVE n \in K
    OBVIOUS
  <2>0. n \in 0 .. N /\ n \in Nat
    OBVIOUS
  <2>1. PICK g \in [0 .. n - 1 -> V] : Upto(n - 1, g)
    OBVIOUS
  <2> DEFINE h == [k \in 0 .. n |-> IF k = n THEN succ[n][g[n - 1]] ELSE g[k]]
  <2>2. n - 1 \in 0 .. n - 1 /\ succ[n][g[n - 1]] \in V
    OBVIOUS
  <2>3. h \in [0 .. n -> V]
    BY <2>2
  <2>4. h[0] = a
    BY <2>1
  <2>5. ASSUME NEW k \in 1 .. n PROVE h[k] = succ[k][h[k - 1]]
    <3>1. h[k - 1] = g[k - 1]
      OBVIOUS
    <3>2. CASE k = n
      <4>1. h[n] = succ[n][g[n - 1]]
        BY <2>0
      <4> QED BY <3>1, <3>2, <4>1
    <3>3. CASE k # n
      <4>1. k \in 1 .. n - 1
        BY <3>3
      <4>2. h[k] = g[k]
        BY <3>3
      <4> QED BY <2>1, <3>1, <4>1, <4>2
    <3> QED BY <3>2, <3>3
  <2>6. Upto(n, h)
    BY <2>3, <2>4, <2>5
  <2> QED BY <2>0, <2>3, <2>6
<1> HIDE DEF K
<1>3. \A n \in 0 .. N : n \in K
  BY <1>1, <1>2, UpTo
<1> QED BY <1>3 DEF K, Follows

(* ... and one whose steps stay in V has its values in V. *)
LEMMA RecursionStays ==
  ASSUME NEW N \in Nat, NEW V, NEW g, g[0] \in V, \A n \in 1 .. N : g[n - 1] \in V => g[n] \in V
  PROVE  \A n \in 0 .. N : g[n] \in V
<1> DEFINE K == {n \in 0 .. N : g[n] \in V}
<1>1. 0 \in K
  OBVIOUS
<1>2. \A n \in 1 .. N : n - 1 \in K => n \in K
  OBVIOUS
<1>3. \A n \in K : g[n] \in V
  OBVIOUS
<1> HIDE DEF K
<1>4. \A n \in 0 .. N : n \in K
  BY <1>1, <1>2, UpTo
<1> QED BY <1>3, <1>4

-----------------------------------------------------------------------------
(* The messages of a request and their truncation. *)

LEMMA TokensCount ==
  ASSUME NEW ms \in Seq(Message)
  PROVE  Tokens(ms) \in Nat
<1> DEFINE N == Len(ms)
           succ == [n \in 1 .. N |-> [x \in Nat |-> x + ms[n].size]]
           total[n \in 0 .. N] == IF n = 0 THEN 0 ELSE total[n - 1] + ms[n].size
<1>0. N \in Nat /\ \A n \in 1 .. N : ms[n] \in Message
  OBVIOUS
<1>1. N \in Nat /\ \A n \in 1 .. N : ms[n].size \in Nat
  BY <1>0 DEF Message
<1>2. succ \in Steps(N, Nat) /\ \A n \in 1 .. N, x \in Nat : succ[n][x] = x + ms[n].size
  BY <1>1 DEF Steps
<1>3. Tokens(ms) = total[N]
  BY DEF Tokens
<1>4. \E g : g = [n \in 0 .. N |-> IF n = 0 THEN 0 ELSE g[n - 1] + ms[n].size]
  <2>1. PICK g : Follows(g, N, Nat, 0, succ)
    <3> HIDE DEF N, succ
    <3> QED BY <1>1, <1>2, RecursionExists
  <2> HIDE DEF N, succ
  <2>2. ASSUME NEW n \in 1 .. N PROVE g[n] = g[n - 1] + ms[n].size
    <3>1. n - 1 \in 0 .. N
      BY <1>1
    <3>2. g[n - 1] \in Nat /\ g[n] = succ[n][g[n - 1]]
      BY <2>1, <3>1 DEF Follows
    <3> QED BY <1>2, <3>2
  <2>3. g = [n \in 0 .. N |-> IF n = 0 THEN 0 ELSE g[n - 1] + ms[n].size]
    BY <1>1, <2>1, <2>2 DEF Follows
  <2> QED BY <2>3
<1>5. total = [n \in 0 .. N |-> IF n = 0 THEN 0 ELSE total[n - 1] + ms[n].size]
  BY <1>4
<1> HIDE DEF N, total, succ
<1>6. total[0] \in Nat /\ \A n \in 1 .. N : total[n - 1] \in Nat => total[n] \in Nat
  BY <1>1, <1>5
<1>7. \A n \in 0 .. N : total[n] \in Nat
  BY <1>1, <1>6, RecursionStays
<1> QED BY <1>1, <1>3, <1>7

LEMMA StrippedMessage ==
  ASSUME NEW m \in Message
  PROVE  /\ [m EXCEPT !.calls = 0] \in Message
         /\ [m EXCEPT !.calls = 0].id = m.id /\ [m EXCEPT !.calls = 0].role = m.role
BY DEF Message

(* What a model without tools is sent are messages, and a prompt it is sent whole. *)
LEMMA StripToolsTypes ==
  ASSUME NEW ms \in Seq(Message)
  PROVE  /\ StripTools(ms) \in Seq(Message)
         /\ Len(ms) = 2 /\ ms[1].role # "tool" /\ ms[2].role # "tool"
              => /\ Len(StripTools(ms)) = 2
                 /\ \A i \in 1 .. 2 : StripTools(ms)[i].id = ms[i].id /\ StripTools(ms)[i].role = ms[i].role
<1> DEFINE N == Len(ms)
           V == Seq(Message)
           none == << >>
           bare(n) == [ms[n] EXCEPT !.calls = 0]
           grown(x, n) == IF ms[n].role = "tool" THEN x ELSE Append(x, bare(n))
           succ == [n \in 1 .. N |-> [x \in V |-> grown(x, n)]]
           said[n \in 0 .. N] ==
             IF n = 0 THEN << >>
             ELSE IF ms[n].role = "tool" THEN said[n - 1]
                  ELSE Append(said[n - 1], [ms[n] EXCEPT !.calls = 0])
<1>0. N \in Nat /\ \A n \in 1 .. N : ms[n] \in Message
  OBVIOUS
<1>1. N \in Nat /\ \A n \in 1 .. N : bare(n) \in Message
  BY <1>0, StrippedMessage
<1>2. StripTools(ms) = said[N]
  BY DEF StripTools
<1>3. \A x \in V, n \in 1 .. N : grown(x, n) \in V
  BY <1>1
<1>4. succ \in Steps(N, V) /\ \A n \in 1 .. N, x \in V : succ[n][x] = grown(x, n)
  BY <1>3 DEF Steps
<1>5. none \in V
  OBVIOUS
<1>6. \E g : g = [n \in 0 .. N |-> IF n = 0 THEN none ELSE grown(g[n - 1], n)]
  <2> HIDE DEF N, succ, V, none, grown
  <2>1. PICK g : Follows(g, N, V, none, succ)
    BY <1>1, <1>4, <1>5, RecursionExists
  <2>2. ASSUME NEW n \in 1 .. N PROVE g[n] = grown(g[n - 1], n)
    <3>1. n - 1 \in 0 .. N
      BY <1>1
    <3>2. g[n - 1] \in V /\ g[n] = succ[n][g[n - 1]]
      BY <2>1, <3>1 DEF Follows
    <3> QED BY <1>4, <3>2
  <2>3. g = [n \in 0 .. N |-> IF n = 0 THEN none ELSE grown(g[n - 1], n)]
    BY <1>1, <2>1, <2>2 DEF Follows
  <2> QED BY <2>3
<1>7. said = [n \in 0 .. N |-> IF n = 0 THEN none ELSE grown(said[n - 1], n)]
  BY <1>6, Zenon
<1> HIDE DEF N, succ, V, none, grown, bare, said
<1>8. said[0] = none /\ \A n \in 1 .. N : said[n] = grown(said[n - 1], n)
  BY <1>1, <1>7
<1>9. \A n \in 0 .. N : said[n] \in V
  BY <1>1, <1>3, <1>5, <1>8, RecursionStays
<1>10. StripTools(ms) \in Seq(Message)
  BY <1>1, <1>2, <1>9 DEF V
<1>11. ASSUME N = 2, ms[1].role # "tool", ms[2].role # "tool"
       PROVE  /\ Len(StripTools(ms)) = 2
              /\ \A i \in 1 .. 2 : StripTools(ms)[i].id = ms[i].id /\ StripTools(ms)[i].role = ms[i].role
  <2>1. said[1] = grown(said[0], 1) /\ said[2] = grown(said[1], 2)
    BY <1>8, <1>11
  <2>2. said[0] \in Seq(Message) /\ said[1] \in Seq(Message) /\ Len(said[0]) = 0
    BY <1>8, <1>9, <1>11 DEF V, none
  <2>3. said[1] = Append(said[0], bare(1)) /\ said[2] = Append(said[1], bare(2))
    BY <1>11, <2>1 DEF grown
  <2>4. Len(said[1]) = 1 /\ said[1][1] = bare(1) /\ Len(said[2]) = 2 /\ said[2][1] = bare(1) /\ said[2][2] = bare(2)
    BY <1>1, <1>11, <2>2, <2>3
  <2>5. \A i \in 1 .. 2 : bare(i).id = ms[i].id /\ bare(i).role = ms[i].role
    BY <1>0, <1>11, StrippedMessage DEF bare
  <2> QED BY <1>2, <1>11, <2>4, <2>5
<1> QED BY <1>10, <1>11 DEF N

(* The message findOldestDroppableTurn names is one of the middle. *)
LEMMA OldestIsDroppable ==
  ASSUME NEW ms \in Seq(Message), Middle(ms) # {}
  PROVE  OldestDroppable(ms) \in 1 .. Len(ms)
<1> DEFINE turns == {i \in Middle(ms) : ms[i].role = "tool" \/ (ms[i].role = "assistant" /\ ms[i].calls > 0)}
           S == IF turns # {} THEN turns ELSE Middle(ms)
<1>1. Middle(ms) \subseteq 1 .. Len(ms)
  BY DEF Middle
<1>2. S \subseteq Middle(ms) /\ S # {}
  OBVIOUS
<1>3. OldestDroppable(ms) = Min(S)
  BY DEF OldestDroppable
<1> HIDE DEF S
<1>4. S \subseteq Nat
  BY <1>1, <1>2
<1>5. Min(S) \in S
  BY <1>2, <1>4, LeastIsMin
<1> QED BY <1>1, <1>2, <1>3, <1>5

LEMMA RemovedStaysSeq ==
  ASSUME NEW ms \in Seq(Message), NEW i \in 1 .. Len(ms)
  PROVE  RemoveAt(ms, i) \in Seq(Message)
<1>1. SubSeq(ms, 1, i - 1) \in Seq(Message) /\ SubSeq(ms, i + 1, Len(ms)) \in Seq(Message)
  OBVIOUS
<1> QED BY <1>1 DEF RemoveAt

(* What is left after dropping are messages, and of a request without a *)
(* middle all of them.                                                  *)
LEMMA DropMiddleTypes ==
  ASSUME NEW ms \in Seq(Message), NEW budget
  PROVE  DropMiddle(ms, budget) \in Seq(Message) /\ (Middle(ms) = {} => DropMiddle(ms, budget) = ms)
<1> DEFINE N == Len(ms)
           V == {x \in Seq(Message) : Middle(ms) = {} => x = ms}
           left(x) == IF Tokens(x) <= budget \/ Middle(x) = {} THEN x ELSE RemoveAt(x, OldestDroppable(x))
           succ == [n \in 1 .. N |-> [x \in V |-> left(x)]]
           after[n \in 0 .. N] ==
             IF n = 0 THEN ms
             ELSE LET was == after[n - 1]
                  IN  IF Tokens(was) <= budget \/ Middle(was) = {} THEN was
                      ELSE RemoveAt(was, OldestDroppable(was))
<1>1. N \in Nat /\ ms \in V
  OBVIOUS
<1>2. DropMiddle(ms, budget) = after[N]
  BY DEF DropMiddle
<1>3. \A x \in V : left(x) \in V
  <2> SUFFICES ASSUME NEW x \in V PROVE left(x) \in V
    OBVIOUS
  <2>1. CASE Middle(x) = {}
    BY <2>1
  <2>2. CASE Middle(x) # {}
    <3>1. Middle(ms) # {} /\ RemoveAt(x, OldestDroppable(x)) \in Seq(Message)
      BY <2>2, OldestIsDroppable, RemovedStaysSeq
    <3> QED BY <3>1
  <2> QED BY <2>1, <2>2
<1>4. succ \in Steps(N, V) /\ \A n \in 1 .. N, x \in V : succ[n][x] = left(x)
  BY <1>3 DEF Steps
<1>5. \E g : g = [n \in 0 .. N |-> IF n = 0 THEN ms ELSE left(g[n - 1])]
  <2> HIDE DEF N, succ, V, left
  <2>1. PICK g : Follows(g, N, V, ms, succ)
    BY <1>1, <1>4, RecursionExists
  <2>2. ASSUME NEW n \in 1 .. N PROVE g[n] = left(g[n - 1])
    <3>1. n - 1 \in 0 .. N
      BY <1>1
    <3>2. g[n - 1] \in V /\ g[n] = succ[n][g[n - 1]]
      BY <2>1, <3>1 DEF Follows
    <3> QED BY <1>4, <3>2
  <2>3. g = [n \in 0 .. N |-> IF n = 0 THEN ms ELSE left(g[n - 1])]
    BY <1>1, <2>1, <2>2 DEF Follows
  <2> QED BY <2>3
<1>6. after = [n \in 0 .. N |-> IF n = 0 THEN ms ELSE left(after[n - 1])]
  BY <1>5, Zenon
<1> HIDE DEF N, succ, V, left, after
<1>7. after[0] = ms /\ \A n \in 1 .. N : after[n] = left(after[n - 1])
  BY <1>1, <1>6
<1>8. \A n \in 0 .. N : after[n] \in V
  BY <1>1, <1>3, <1>7, RecursionStays
<1>9. after[N] \in V
  BY <1>1, <1>8
<1> QED BY <1>2, <1>9 DEF V

LEMMA LowerOfTwo ==
  ASSUME NEW a \in Int, NEW b \in Int
  PROVE  Min({a, b}) \in {a, b} /\ Min({a, b}) <= a /\ Min({a, b}) <= b
<1>1. \E x \in {a, b} : \A y \in {a, b} : x <= y
  <2>1. CASE a <= b
    BY <2>1
  <2>2. CASE b <= a
    BY <2>2
  <2> QED BY <2>1, <2>2
<1> QED BY <1>1 DEF Min

LEMMA AboveZero ==
  ASSUME NEW b \in Int
  PROVE  Max({0, b}) \in Nat
<1>1. \E x \in {0, b} : \A y \in {0, b} : x >= y
  <2>1. CASE 0 >= b
    BY <2>1
  <2>2. CASE b >= 0
    BY <2>2
  <2> QED BY <2>1, <2>2
<1> QED BY <1>1 DEF Max

\* The same messages, of other sizes.
SameMessages(cut, ms) ==
  /\ cut \in Seq(Message) /\ Len(cut) = Len(ms)
  /\ \A i \in 1 .. Len(ms) : cut[i].id = ms[i].id /\ cut[i].role = ms[i].role

LEMMA CutContentTypes ==
  ASSUME NEW ms \in Seq(Message), NEW i \in 1 .. Len(ms), NEW budget \in Int
  PROVE  SameMessages(CutContent(ms, i, budget), ms)
<1> DEFINE room == Max({0, Min({ms[i].size, budget - (Tokens(ms) - ms[i].size)})})
           m == [ms[i] EXCEPT !.size = room]
<1>1. ms[i] \in Message
  OBVIOUS
<1>2. ms[i].size \in Int /\ budget - (Tokens(ms) - ms[i].size) \in Int
  BY <1>1, TokensCount DEF Message
<1>3. Min({ms[i].size, budget - (Tokens(ms) - ms[i].size)}) \in Int
  BY <1>2, LowerOfTwo
<1>4. room \in Nat
  BY <1>3, AboveZero
<1>5. CutContent(ms, i, budget) = [ms EXCEPT ![i] = m]
  BY DEF CutContent
<1> HIDE DEF room
<1>6. m \in Message /\ m.id = ms[i].id /\ m.role = ms[i].role
  BY <1>1, <1>4 DEF Message
<1> HIDE DEF m
<1> QED BY <1>5, <1>6 DEF SameMessages

LEMMA SameMessagesChain ==
  ASSUME NEW a, NEW b, NEW c, SameMessages(a, b), SameMessages(b, c)
  PROVE  SameMessages(a, c)
BY DEF SameMessages

LEMMA CutLastUserTypes ==
  ASSUME NEW ms \in Seq(Message), NEW budget \in Int
  PROVE  SameMessages(CutLastUser(ms, budget), ms)
<1> DEFINE users == {i \in DOMAIN ms : ms[i].role = "user" /\ ms[i].size > 0}
<1>1. CASE users = {}
  <2>1. CutLastUser(ms, budget) = ms
    BY <1>1 DEF CutLastUser
  <2> QED BY <2>1 DEF SameMessages
<1>2. CASE users # {}
  <2>1. Len(ms) \in Nat /\ users \subseteq 1 .. Len(ms) /\ users \subseteq 0 .. Len(ms)
    OBVIOUS
  <2>2. CutLastUser(ms, budget) = CutContent(ms, Max(users), budget)
    BY <1>2 DEF CutLastUser
  <2> HIDE DEF users
  <2>3. Max(users) \in users
    BY <1>2, <2>1, MaxBelow
  <2>4. Max(users) \in 1 .. Len(ms)
    BY <2>1, <2>3
  <2> QED BY <2>2, <2>4, CutContentTypes
<1> QED BY <1>1, <1>2

LEMMA CutSystemTypes ==
  ASSUME NEW ms \in Seq(Message), NEW budget \in Int
  PROVE  SameMessages(CutSystem(ms, budget), ms)
<1> DEFINE N == Len(ms)
           V == {x \in Seq(Message) : SameMessages(x, ms)}
           shorter(x, n) == IF ms[n].role = "system" THEN CutContent(x, n, budget) ELSE x
           succ == [n \in 1 .. N |-> [x \in V |-> shorter(x, n)]]
           cut[n \in 0 .. N] ==
             IF n = 0 THEN ms
             ELSE IF ms[n].role = "system" THEN CutContent(cut[n - 1], n, budget) ELSE cut[n - 1]
<1>1. N \in Nat /\ ms \in V
  BY DEF SameMessages
<1>2. CutSystem(ms, budget) = cut[N]
  BY DEF CutSystem
<1>3. \A x \in V, n \in 1 .. N : shorter(x, n) \in V
  <2> SUFFICES ASSUME NEW x \in V, NEW n \in 1 .. N PROVE shorter(x, n) \in V
    OBVIOUS
  <2>1. x \in Seq(Message) /\ SameMessages(x, ms) /\ n \in 1 .. Len(x)
    BY DEF SameMessages
  <2>2. SameMessages(CutContent(x, n, budget), x)
    BY <2>1, CutContentTypes
  <2>3. SameMessages(CutContent(x, n, budget), ms) /\ CutContent(x, n, budget) \in Seq(Message)
    BY <2>1, <2>2, SameMessagesChain DEF SameMessages
  <2> QED BY <2>3
<1>4. succ \in Steps(N, V) /\ \A n \in 1 .. N, x \in V : succ[n][x] = shorter(x, n)
  BY <1>3 DEF Steps
<1>5. \E g : g = [n \in 0 .. N |-> IF n = 0 THEN ms ELSE shorter(g[n - 1], n)]
  <2> HIDE DEF N, succ, V, shorter
  <2>1. PICK g : Follows(g, N, V, ms, succ)
    BY <1>1, <1>4, RecursionExists
  <2>2. ASSUME NEW n \in 1 .. N PROVE g[n] = shorter(g[n - 1], n)
    <3>1. n - 1 \in 0 .. N
      BY <1>1
    <3>2. g[n - 1] \in V /\ g[n] = succ[n][g[n - 1]]
      BY <2>1, <3>1 DEF Follows
    <3> QED BY <1>4, <3>2
  <2>3. g = [n \in 0 .. N |-> IF n = 0 THEN ms ELSE shorter(g[n - 1], n)]
    BY <1>1, <2>1, <2>2 DEF Follows
  <2> QED BY <2>3
<1>6. cut = [n \in 0 .. N |-> IF n = 0 THEN ms ELSE shorter(cut[n - 1], n)]
  BY <1>5, Zenon
<1> HIDE DEF N, succ, V, shorter, cut
<1>7. cut[0] = ms /\ \A n \in 1 .. N : cut[n] = shorter(cut[n - 1], n)
  BY <1>1, <1>6
<1>8. \A n \in 0 .. N : cut[n] \in V
  BY <1>1, <1>3, <1>7, RecursionStays
<1>9. cut[N] \in V
  BY <1>1, <1>8
<1> QED BY <1>2, <1>9 DEF V

\* The system prompt and the task.
Opening(ms) ==
  /\ Len(ms) = 2 /\ ms[1].id = 1 /\ ms[2].id = 2
  /\ ms[1].role = "system" /\ ms[2].role = "user"

LEMMA SameOpening ==
  ASSUME NEW ms, NEW cut, SameMessages(cut, ms), Opening(ms)
  PROVE  Opening(cut)
BY DEF SameMessages, Opening

(* Truncation makes messages of messages and leaves of the opening no message out. *)
LEMMA TruncateTypes ==
  ASSUME NEW ms \in Seq(Message), NEW toolTokens \in Int, NEW maxInput \in Int, NEW supportsTools
  PROVE  LET cut == TruncateMessages(ms, toolTokens, maxInput, supportsTools).msgs
         IN  cut \in Seq(Message) /\ (Opening(ms) => Opening(cut))
<1> DEFINE kept    == IF supportsTools THEN ms ELSE StripTools(ms)
           budget  == maxInput - (IF supportsTools THEN toolTokens ELSE 0)
           dropped == DropMiddle(kept, budget)
           cut     == CutLastUser(dropped, budget)
           least   == CutSystem(cut, budget)
           result  == TruncateMessages(ms, toolTokens, maxInput, supportsTools).msgs
<1>1. budget \in Int
  OBVIOUS
<1>2. kept \in Seq(Message) /\ (Opening(ms) => Opening(kept))
  BY StripToolsTypes DEF Opening
<1>3. result \in {kept, dropped, cut, least}
  BY DEF TruncateMessages
<1> HIDE DEF kept, budget, result
<1>4. dropped \in Seq(Message) /\ (Opening(ms) => Opening(dropped))
  <2>1. Opening(kept) => Middle(kept) = {}
    BY DEF Opening, Middle
  <2>2. dropped \in Seq(Message) /\ (Middle(kept) = {} => dropped = kept)
    BY <1>2, DropMiddleTypes
  <2> QED BY <1>2, <2>1, <2>2
<1> HIDE DEF dropped
<1>5. SameMessages(cut, dropped)
  BY <1>1, <1>4, CutLastUserTypes
<1> HIDE DEF cut
<1>6. SameMessages(least, cut)
  BY <1>1, <1>5, CutSystemTypes DEF SameMessages
<1> HIDE DEF least
<1>7. cut \in Seq(Message) /\ (Opening(ms) => Opening(cut))
  BY <1>4, <1>5, SameOpening DEF SameMessages
<1>8. least \in Seq(Message) /\ (Opening(ms) => Opening(least))
  BY <1>6, <1>7, SameOpening DEF SameMessages
<1>9. result \in Seq(Message) /\ (Opening(ms) => Opening(result))
  BY <1>2, <1>3, <1>4, <1>7, <1>8
<1> QED BY <1>9 DEF result

-----------------------------------------------------------------------------
(* The conversation and its log. *)

LEMMA InputLimitIsNumber == MaxInput \in Int
<1> DEFINE window == (ContextWindow * 9) \div 10
<1>1. window \in Int /\ AgentMaxInput \in Int /\ DefaultMaxInput \in Int
  BY AgentRunAssumption
<1>2. MaxInput = IF AgentMaxInput > 0 THEN (IF window > 0 THEN Min({AgentMaxInput, window}) ELSE AgentMaxInput)
                 ELSE IF window > 0 THEN window ELSE DefaultMaxInput
  BY DEF MaxInput
<1> HIDE DEF window
<1>3. Min({AgentMaxInput, window}) \in Int
  BY <1>1, LowerOfTwo
<1> QED BY <1>1, <1>2, <1>3

LEMMA ThreeAreFinite ==
  ASSUME NEW a, NEW b, NEW c
  PROVE  IsFiniteSet({a, b, c})
<1>1. IsFiniteSet({a}) /\ IsFiniteSet({b}) /\ IsFiniteSet({c})
  BY FS_Singleton
<1>2. IsFiniteSet({a} \cup {b})
  BY <1>1, FS_Union
<1>3. IsFiniteSet(({a} \cup {b}) \cup {c})
  BY <1>1, <1>2, FS_Union
<1>4. ({a} \cup {b}) \cup {c} = {a, b, c}
  OBVIOUS
<1> QED BY <1>3, <1>4

LEMMA OfferedIsNumber ==
  ASSUME task.kind \in {"write", "analyze"}
  PROVE  Offered \in Nat
<1> DEFINE writers == {"write_file", "run_command", "apply_diff"}
           others  == {"read_file", "list_skills", "load_skill"}
           searchers == {"search_code", "rg", "git_log"}
           walkers == {"git_blame", "list_files", "tree"}
<1>1. IsFiniteSet(searchers) /\ IsFiniteSet(walkers) /\ IsFiniteSet(writers) /\ IsFiniteSet(others)
  BY ThreeAreFinite
<1>2. IsFiniteSet(McpTools)
  BY AgentRunAssumption
<1>3. IsFiniteSet(searchers \cup walkers)
  BY <1>1, FS_Union
<1>4. IsFiniteSet(writers \cup others)
  BY <1>1, FS_Union
<1>5. IsFiniteSet((searchers \cup walkers) \cup (writers \cup others))
  BY <1>3, <1>4, FS_Union
<1>6. IsFiniteSet(McpTools \cup ((searchers \cup walkers) \cup (writers \cup others)))
  BY <1>2, <1>5, FS_Union
<1>7. DOMAIN AssembleToolRegistry(task.kind) \subseteq searchers \cup walkers \cup writers \cup others
  BY DEF AssembleToolRegistry, Restrict, Packs, toolBuilders, Readers, Finders
<1>8. DOMAIN Tools \subseteq McpTools \cup ((searchers \cup walkers) \cup (writers \cup others))
  BY <1>7 DEF Tools, RegisterSkillTools, RegisterMCPTools, Registered
<1>9. IsFiniteSet(DOMAIN Tools)
  BY <1>6, <1>8, FS_Subset
<1>10. Cardinality(DOMAIN Tools) \in Nat
  BY <1>9, FS_CardinalityType
<1> QED BY <1>10 DEF Offered

LEMMA TruncatedTypes ==
  ASSUME NEW ms \in Seq(Message), task.kind \in {"write", "analyze"}
  PROVE  Truncated(ms).msgs \in Seq(Message) /\ (Opening(ms) => Opening(Truncated(ms).msgs))
<1>1. ToolTokens * Offered \in Int
  BY OfferedIsNumber, AgentRunAssumption
<1> QED BY <1>1, InputLimitIsNumber, TruncateTypes DEF Truncated

LEMMA PromptOpens ==
  ASSUME NEW size \in ContextSizes
  PROVE  Prompt(size) \in Seq(Message) /\ Opening(Prompt(size))
<1>1. size \in Nat
  BY DEF ContextSizes
<1>2. /\ [id |-> 1, role |-> "system", size |-> size, calls |-> 0] \in Message
      /\ [id |-> 2, role |-> "user", size |-> 1, calls |-> 0] \in Message
  BY <1>1 DEF Message
<1> QED BY <1>2 DEF Prompt, Opening

LEMMA SayIsMessage ==
  ASSUME next \in Nat, NEW role \in {"assistant", "tool"}, NEW size \in Nat, NEW n \in Nat
  PROVE  Say(role, size, n) \in Message /\ Say(role, size, n).id = next
BY DEF Say, Message

(* The messages since msgStart. *)
LEMMA DeltaIsTail ==
  ASSUME NEW ms \in Seq(Message), start \in Nat, start <= Len(ms)
  PROVE  /\ Delta(ms) \in Seq(Message) /\ Len(Delta(ms)) = Len(ms) - start
         /\ \A i \in 1 .. Len(ms) - start : Delta(ms)[i] = ms[start + i]
BY DEF Delta

(* The number of the first message that is not handed to the log.              *)
First == next - (Len(msgs) - start)

InOrder == \A r, s \in Mine : r.id < s.id <=> Before(r, s)

RowType == [attempt : Nat, iteration : Nat, seq : Nat, id : Nat]

TalkTypes ==
  /\ msgs \in Seq(Message) /\ next \in Nat \ {0}
  /\ start \in Nat /\ start <= Len(msgs)
  /\ calls \in 0 .. MaxCalls
  /\ iter \in Nat /\ iter <= Iterations /\ (pc \in {"ask", "tools"} => iter < Iterations)
  /\ log \subseteq RowType /\ \A r \in log : r.attempt <= attempt

\* The rows of this execution are those of the messages before the n-th.
Has(n) == {r.id : r \in Mine} = 1 .. n - 1

(* Where the messages are while a run goes on: in the log, unless a write of   *)
(* it failed, but for those of the turn under way, which msgStart sets apart.  *)
Recorded ==
  /\ InOrder
  /\ pc \in {"resolve", "prepare", "hub", "single", "assemble"} => Mine = {} /\ start = 0 /\ iter = 0
  /\ pc = "iterate" /\ iter = 0 => Mine = {} /\ next = 3 /\ Opening(msgs)
  /\ pc \in {"iterate", "ask", "tools"} => \A r \in Mine : r.iteration <= iter
  /\ pc = "iterate" => \A r \in Mine : r.id < next
  /\ pc = "iterate" /\ iter # 0 /\ ~Slipped("log") => Has(next)
  /\ pc = "ask" => start = Len(msgs)
  /\ pc \in {"ask", "tools"} =>
       /\ First \in Nat \ {0}
       /\ \A i \in 1 .. Len(msgs) - start : msgs[start + i].id = First + i - 1
       /\ \A r \in Mine : r.id < First
       /\ ~Slipped("log") => Has(First)
  /\ Mine # {} /\ pc # "tools" /\ outcome # "crashed" /\ ~Slipped("log") => Has(next)

TalkInv == TalkTypes /\ Recorded

LEMMA IterationsPositive == Iterations \in Nat /\ 0 < Iterations
BY LoopTypes DEF Iterations

(* The rows of one write. *)
LEMMA RowsOfAWrite ==
  ASSUME NEW delta \in Seq(Message), NEW iteration \in Nat, NEW first \in Nat \ {0}, attempt \in Nat,
         \A i \in 1 .. Len(delta) : delta[i].id = first + i - 1
  PROVE  /\ Rows(iteration, delta) \subseteq RowType
         /\ \A r \in Rows(iteration, delta) :
              /\ r.attempt = attempt /\ r.iteration = iteration /\ r.seq \in 1 .. Len(delta)
              /\ r.id = first + r.seq - 1
         /\ {r.id : r \in Rows(iteration, delta)} = first .. first + Len(delta) - 1
<1>0. DOMAIN delta = 1 .. Len(delta) /\ Len(delta) \in Nat
  OBVIOUS
<1>1. ASSUME NEW r \in Rows(iteration, delta)
      PROVE  /\ r \in RowType /\ r.attempt = attempt /\ r.iteration = iteration /\ r.seq \in 1 .. Len(delta)
             /\ r.id = first + r.seq - 1
  <2>1. PICK i \in 1 .. Len(delta) :
          r = [attempt |-> attempt, iteration |-> iteration, seq |-> i, id |-> delta[i].id]
    BY <1>0 DEF Rows
  <2>2. delta[i].id = first + i - 1 /\ first + i - 1 \in Nat
    BY <1>0
  <2> QED BY <1>0, <2>1, <2>2 DEF RowType
<1>2. ASSUME NEW k \in first .. first + Len(delta) - 1
      PROVE  \E r \in Rows(iteration, delta) : r.id = k
  <2> DEFINE i == k - first + 1
             row == [attempt |-> attempt, iteration |-> iteration, seq |-> i, id |-> delta[i].id]
  <2>1. i \in 1 .. Len(delta) /\ first + i - 1 = k
    BY <1>0
  <2>2. row \in Rows(iteration, delta)
    BY <1>0, <2>1 DEF Rows
  <2>3. row.id = k
    BY <2>1
  <2> QED BY <2>2, <2>3
<1>3. \A r \in Rows(iteration, delta) : r.id \in first .. first + Len(delta) - 1
  BY <1>0, <1>1
<1>4. {r.id : r \in Rows(iteration, delta)} = first .. first + Len(delta) - 1
  <2> DEFINE R == Rows(iteration, delta)
             S == first .. first + Len(delta) - 1
  <2>1. (\A k \in S : \E r \in R : r.id = k) /\ (\A r \in R : r.id \in S)
    BY <1>2, <1>3
  <2> HIDE DEF R, S
  <2>2. {r.id : r \in R} = S
    BY <2>1
  <2> QED BY <2>2 DEF R, S
<1>5. Rows(iteration, delta) \subseteq RowType
  BY <1>1
<1>6. \A r \in Rows(iteration, delta) :
        /\ r.attempt = attempt /\ r.iteration = iteration /\ r.seq \in 1 .. Len(delta)
        /\ r.id = first + r.seq - 1
  BY <1>1
<1> QED BY <1>4, <1>5, <1>6

(* What this execution has in the log after a write, that may have failed: in  *)
(* order, and, if none failed, all messages up to the last one written.        *)
LEMMA LogGrows ==
  ASSUME TalkTypes, attempt \in Nat, InOrder,
         NEW delta \in Seq(Message), NEW iteration \in Nat, NEW first \in Nat \ {0},
         \A i \in 1 .. Len(delta) : delta[i].id = first + i - 1,
         \A r \in Mine : r.id < first /\ r.iteration < iteration,
         Logged(iteration, delta), attempt' = attempt
  PROVE  /\ log' \subseteq RowType /\ \A r \in log' : r.attempt <= attempt'
         /\ InOrder'
         /\ \A r \in Mine' : r.iteration <= iteration /\ r.id < first + Len(delta)
         /\ (~Slipped("log") => Has(first)) /\ ~Slipped("log")' => {r.id : r \in Mine'} = 1 .. first + Len(delta) - 1
<1> DEFINE new == Rows(iteration, delta)
<1>0. Len(delta) \in Nat /\ log \subseteq RowType /\ (\A r \in log : r.attempt <= attempt)
      /\ (\A r \in Mine : r \in log /\ r.id \in Nat /\ r.iteration \in Nat /\ r.seq \in Nat)
  BY DEF TalkTypes, RowType, Mine
<1>1. /\ new \subseteq RowType
      /\ \A r \in new : /\ r.attempt = attempt /\ r.iteration = iteration /\ r.seq \in 1 .. Len(delta)
                        /\ r.id = first + r.seq - 1
      /\ {r.id : r \in new} = first .. first + Len(delta) - 1
  BY RowsOfAWrite
<1> HIDE DEF new
<1>2. CASE log' = log /\ slips \subseteq slips' /\ Slipped("log")'
  <2>1. Mine' = Mine
    BY <1>2 DEF Mine
  <2>2. InOrder'
    BY <2>1 DEF InOrder, Before
  <2> QED BY <1>0, <1>2, <2>1, <2>2
<1>3. CASE log' = log \cup new /\ slips' = slips
  <2>1. Mine' = Mine \cup new
    BY <1>1, <1>3 DEF Mine
  <2>2. log' \subseteq RowType /\ \A r \in log' : r.attempt <= attempt'
    BY <1>0, <1>1, <1>3
  <2>3. ASSUME NEW r \in Mine', NEW s \in Mine' PROVE r.id < s.id <=> Before(r, s)
    <3>1. CASE r \in Mine /\ s \in Mine
      BY <3>1 DEF InOrder
    <3>2. CASE r \in Mine /\ s \in new
      BY <1>0, <1>1, <3>2 DEF Before
    <3>3. CASE r \in new /\ s \in Mine
      BY <1>0, <1>1, <3>3 DEF Before
    <3>4. CASE r \in new /\ s \in new
      BY <1>0, <1>1, <3>4 DEF Before
    <3> QED BY <2>1, <3>1, <3>2, <3>3, <3>4
  <2>4. InOrder'
    BY <2>3 DEF InOrder, Before
  <2>5. \A r \in Mine' : r.iteration <= iteration /\ r.id < first + Len(delta)
    BY <1>0, <1>1, <2>1
  <2>6. ASSUME ~Slipped("log") => Has(first), ~Slipped("log")'
        PROVE  {r.id : r \in Mine'} = 1 .. first + Len(delta) - 1
    <3>1. ~Slipped("log")
      BY <1>3, <2>6 DEF Slipped
    <3>2. {r.id : r \in Mine} = 1 .. first - 1
      BY <2>6, <3>1 DEF Has
    <3>3. {r.id : r \in Mine'} = {r.id : r \in Mine} \cup {r.id : r \in new}
      BY <2>1
    <3>4. (1 .. first - 1) \cup (first .. first + Len(delta) - 1) = 1 .. first + Len(delta) - 1
      BY <1>0
    <3> QED BY <1>1, <3>2, <3>3, <3>4
  <2> QED BY <2>2, <2>4, <2>5, <2>6
<1> QED BY <1>2, <1>3 DEF Logged, new

(* One message more in a turn. *)
LEMMA TurnGrows ==
  ASSUME TalkTypes, NEW m \in Message, m.id = next, msgs' = Append(msgs, m), next' = next + 1, start' = start,
         First \in Nat \ {0},
         \A i \in 1 .. Len(msgs) - start : msgs[start + i].id = First + i - 1
  PROVE  /\ First' = First /\ Len(msgs') = Len(msgs) + 1 /\ msgs' \in Seq(Message)
         /\ \A i \in 1 .. Len(msgs') - start' : msgs'[start' + i].id = First' + i - 1
<1>1. /\ msgs \in Seq(Message) /\ Len(msgs) \in Nat /\ next \in Nat /\ start \in Nat /\ start <= Len(msgs)
  BY DEF TalkTypes
<1>2. /\ msgs' \in Seq(Message) /\ Len(msgs') = Len(msgs) + 1 /\ msgs'[Len(msgs) + 1] = m
      /\ \A k \in 1 .. Len(msgs) : msgs'[k] = msgs[k]
  BY <1>1
<1>3. First' = First /\ First + Len(msgs) - start = next
  BY <1>1, <1>2 DEF First
<1>4. ASSUME NEW i \in 1 .. Len(msgs') - start'
      PROVE  msgs'[start' + i].id = First' + i - 1
  <2>1. CASE start + i = Len(msgs) + 1
    BY <1>1, <1>2, <1>3, <2>1
  <2>2. CASE start + i # Len(msgs) + 1
    <3>1. i \in 1 .. Len(msgs) - start /\ start + i \in 1 .. Len(msgs)
      BY <1>1, <1>2, <2>2
    <3> QED BY <1>2, <1>3, <3>1
  <2> QED BY <2>1, <2>2
<1> QED BY <1>2, <1>3, <1>4

(* A step that leaves the log and the talk alone. *)
LEMMA TalkUntouched ==
  ASSUME UNCHANGED <<log, slips, attempt>>
  PROVE  Mine' = Mine /\ InOrder' = InOrder /\ Slipped("log")' = Slipped("log")
BY DEF Mine, InOrder, Before, Slipped

LEMMA TalkInvHolds == Spec => []TalkInv
<1>1. Init => TalkInv
  <2> SUFFICES ASSUME Init PROVE TalkInv
    OBVIOUS
  <2>1. TalkTypes
    BY IterationsPositive, AgentRunAssumption DEF Init, TalkTypes
  <2>2. Mine = {}
    BY DEF Init, Mine
  <2> QED BY <2>1, <2>2 DEF Init, TalkInv, Recorded, InOrder
<1>2. TalkInv /\ RunTypes /\ Routed /\ [Next]_vars => TalkInv'
  <2> SUFFICES ASSUME TalkTypes, Recorded, RunTypes, Routed, [Next]_vars PROVE TalkTypes' /\ Recorded'
    BY DEF TalkInv
  <2> USE DEF toolVars, gateVars, talkVars, repoVars, taskVars
  <2>0. /\ msgs \in Seq(Message) /\ next \in Nat \ {0} /\ next + 1 \in Nat \ {0}
        /\ start \in Nat /\ start <= Len(msgs) /\ Len(msgs) \in Nat /\ iter \in Nat
        /\ log \subseteq RowType /\ (\A r \in log : r.attempt <= attempt) /\ InOrder
        /\ attempt \in Nat
    BY AgentRunAssumption DEF TalkTypes, Recorded, RunTypes
  <2>1. CASE UNCHANGED vars
    <3>1. UNCHANGED <<task, attempt, pc, outcome, msgs, start, next, iter, calls, log, slips>>
      BY <2>1 DEF vars
    <3> QED BY <3>1, TalkUntouched DEF TalkTypes, Recorded, First, Has, Iterations
  <2>2. CASE QuietStep \/ CrashStep
    <3>1. UNCHANGED <<task, attempt, msgs, start, next, iter, calls, log, slips>>
      BY <2>2 DEF QuietStep, CrashStep, NoEffect
    <3>2. TalkTypes'
      BY <2>2, <3>1 DEF QuietStep, CrashStep, NoEffect, PcMoves, TalkTypes, Iterations
    <3>3. Mine' = Mine /\ InOrder' = InOrder /\ Slipped("log")' = Slipped("log") /\ First' = First
      BY <3>1, TalkUntouched DEF First
    <3>4. Recorded'
      BY <2>2, <3>1, <3>3 DEF QuietStep, CrashStep, NoEffect, PcMoves, Recorded, Has, RunTypes
    <3> QED BY <3>2, <3>4
  <2>3. CASE CloneStep
    <3>1. UNCHANGED <<task, attempt, outcome, msgs, start, next, iter, calls, log, slips>>
          /\ pc = "prepare" /\ pc' \in {"assemble", "hub"}
      BY <2>3 DEF CloneStep, After
    <3>2. Mine' = Mine /\ InOrder' = InOrder /\ Slipped("log")' = Slipped("log")
      BY <3>1, TalkUntouched
    <3> QED BY <3>1, <3>2 DEF TalkTypes, Recorded, Has, Iterations
  <2>4. CASE ReadyStep
    <3>1. msgs' \in Seq(Message) /\ Opening(msgs')
      BY <2>4, PromptOpens, TruncatedTypes DEF ReadyStep
    <3>2. /\ UNCHANGED <<task, attempt, outcome, log, slips, calls>> /\ next' = 3 /\ start' = 0 /\ iter' = 0
          /\ pc' = "iterate" /\ Mine = {}
      BY <2>4 DEF ReadyStep, Recorded
    <3>3. TalkTypes'
      BY <2>0, <3>1, <3>2, IterationsPositive DEF TalkTypes, Iterations, Opening
    <3>4. Mine' = {} /\ InOrder'
      BY <2>0, <3>2, TalkUntouched
    <3> QED BY <3>1, <3>2, <3>3, <3>4 DEF Recorded
  <2>5. CASE IterateStep
    <3>1. task.kind \in {"write", "analyze"} /\ pc = "iterate"
      BY <2>5 DEF IterateStep, Routed, Looping
    <3>2. msgs' \in Seq(Message) /\ (Opening(msgs) => Opening(msgs')) /\ start' = Len(msgs') /\ Len(msgs') \in Nat
      BY <2>5, <2>0, <3>1, TruncatedTypes DEF IterateStep
    <3>3. UNCHANGED <<task, attempt, next, iter, calls>> /\ pc' = "ask" /\ iter # Iterations
      BY <2>5 DEF IterateStep
    <3>4. First' = next
      BY <2>0, <3>2, <3>3 DEF First
    <3>5. /\ log' \subseteq RowType /\ (\A r \in log' : r.attempt <= attempt') /\ InOrder'
          /\ (\A r \in Mine' : r.iteration <= iter /\ r.id < next)
          /\ (~Slipped("log")' => Has(next)')
      <4>1. CASE iter = 0
        <5>1. Logged(0, msgs') /\ next = 3 /\ Opening(msgs') /\ Mine = {}
          BY <2>5, <3>1, <3>2, <4>1 DEF IterateStep, Recorded
        <5>2. Len(msgs') = 2 /\ \A i \in 1 .. Len(msgs') : msgs'[i].id = 1 + i - 1
          BY <5>1 DEF Opening
        <5>3. Has(1)
          BY <5>1 DEF Has
        <5>4. /\ log' \subseteq RowType /\ (\A r \in log' : r.attempt <= attempt') /\ InOrder'
              /\ (\A r \in Mine' : r.iteration <= 0 /\ r.id < 1 + Len(msgs'))
              /\ ((~Slipped("log") => Has(1)) /\ ~Slipped("log")' => {r.id : r \in Mine'} = 1 .. 1 + Len(msgs') - 1)
          BY <2>0, <3>2, <3>3, <5>1, <5>2, LogGrows
        <5> QED BY <3>3, <4>1, <5>1, <5>2, <5>3, <5>4 DEF Has
      <4>2. CASE iter # 0
        <5>1. UNCHANGED <<log, slips, attempt, next>>
          BY <2>5, <3>3, <4>2 DEF IterateStep
        <5>2. Mine' = Mine /\ InOrder' = InOrder /\ Slipped("log")' = Slipped("log")
          BY <5>1, TalkUntouched
        <5> QED BY <2>0, <3>1, <4>2, <5>1, <5>2 DEF Recorded, Has
      <4> QED BY <4>1, <4>2
    <3>6. TalkTypes'
      BY <2>0, <3>2, <3>3, <3>5, IterationsPositive DEF TalkTypes, Iterations
    <3>7. \A i \in 1 .. Len(msgs') - start' : msgs'[start' + i].id = First' + i - 1
      BY <3>2
    <3>8. Has(First)' = Has(next)'
      BY <3>3, <3>4 DEF Has
    <3> QED BY <2>0, <3>2, <3>3, <3>4, <3>5, <3>6, <3>7, <3>8 DEF Recorded
  <2>6. CASE AnswerStep
    <3> DEFINE m == Say("assistant", 1, 0)  delta == Append(Delta(msgs), m)
    <3>1. m \in Message /\ m.id = next
      BY <2>0, SayIsMessage
    <3>2. pc = "ask" /\ start = Len(msgs) /\ First = next /\ (~Slipped("log") => Has(First))
          /\ (\A r \in Mine : r.id < First /\ r.iteration <= iter)
      BY <2>0, <2>6 DEF AnswerStep, Recorded, First
    <3>3. Logged(iter + 1, delta)
      BY <2>6 DEF AnswerStep
    <3> HIDE DEF m
    <3>4. Delta(msgs) \in Seq(Message) /\ Len(Delta(msgs)) = 0
      BY <2>0, <3>2, DeltaIsTail
    <3>5. delta \in Seq(Message) /\ Len(delta) = 1 /\ delta[1] = m
      BY <3>1, <3>4
    <3> HIDE DEF delta
    <3>6. \A i \in 1 .. Len(delta) : delta[i].id = next + i - 1
      BY <2>0, <3>1, <3>5
    <3>7. /\ UNCHANGED <<task, attempt, msgs, start, iter, calls>> /\ next' = next + 1
          /\ pc' \in {"end", "check", "deliver"}
      BY <2>6 DEF AnswerStep
    <3>8. \A r \in Mine : r.id < next /\ r.iteration < iter + 1
      BY <2>0, <3>2 DEF Mine, RowType
    <3>9. iter + 1 \in Nat
      BY <2>0
    <3>10. /\ log' \subseteq RowType /\ (\A r \in log' : r.attempt <= attempt') /\ InOrder'
           /\ ((~Slipped("log") => Has(next)) /\ ~Slipped("log")' => {r.id : r \in Mine'} = 1 .. next + Len(delta) - 1)
      BY <2>0, <3>3, <3>5, <3>6, <3>7, <3>8, <3>9, LogGrows
    <3>11. ~Slipped("log")' => Has(next)'
      BY <2>0, <3>2, <3>5, <3>7, <3>10 DEF Has
    <3>12. TalkTypes'
      BY <2>0, <3>7, <3>10 DEF TalkTypes, Iterations
    <3> QED BY <3>7, <3>10, <3>11, <3>12 DEF Recorded
  <2>7. CASE CallStep
    <3>1. PICK n \in 1 .. MaxCalls : msgs' = Append(msgs, Say("assistant", 1, n)) /\ calls' = n
      BY <2>7 DEF CallStep
    <3> DEFINE m == Say("assistant", 1, n)
    <3>2. n \in Nat
      BY AgentRunAssumption
    <3>3. m \in Message /\ m.id = next
      BY <2>0, <3>2, SayIsMessage
    <3>4. msgs' = Append(msgs, m)
      BY <3>1
    <3> HIDE DEF m
    <3>5. UNCHANGED <<task, attempt, outcome, start, iter, log, slips>> /\ next' = next + 1 /\ pc = "ask" /\ pc' = "tools"
      BY <2>7 DEF CallStep
    <3>6. /\ First \in Nat \ {0} /\ (\A i \in 1 .. Len(msgs) - start : msgs[start + i].id = First + i - 1)
          /\ (\A r \in Mine : r.id < First /\ r.iteration <= iter) /\ (~Slipped("log") => Has(First))
      BY <3>5 DEF Recorded
    <3>7. /\ First' = First /\ Len(msgs') = Len(msgs) + 1 /\ msgs' \in Seq(Message)
          /\ \A i \in 1 .. Len(msgs') - start' : msgs'[start' + i].id = First' + i - 1
      BY <3>3, <3>4, <3>5, <3>6, TurnGrows
    <3>8. Mine' = Mine /\ InOrder' = InOrder /\ Slipped("log")' = Slipped("log") /\ Has(First)' = Has(First)
      BY <3>5, <3>7, TalkUntouched DEF Has
    <3>9. TalkTypes'
      BY <2>0, <3>1, <3>5, <3>7 DEF TalkTypes, Iterations
    <3> QED BY <2>0, <3>5, <3>6, <3>7, <3>8, <3>9 DEF Recorded
  <2>8. CASE ToolStep
    <3>1. PICK s \in {1, 3} : msgs' = Append(msgs, Say("tool", s, 0))
      BY <2>8 DEF ToolStep
    <3> DEFINE m == Say("tool", s, 0)
    <3>2. m \in Message /\ m.id = next
      BY <2>0, SayIsMessage
    <3>3. msgs' = Append(msgs, m)
      BY <3>1
    <3> HIDE DEF m
    <3>4. /\ UNCHANGED <<task, attempt, pc, outcome, start, iter, log, slips>> /\ next' = next + 1 /\ pc = "tools"
          /\ calls > 0 /\ calls' = calls - 1
      BY <2>8 DEF ToolStep
    <3>5. /\ First \in Nat \ {0} /\ (\A i \in 1 .. Len(msgs) - start : msgs[start + i].id = First + i - 1)
          /\ (\A r \in Mine : r.id < First /\ r.iteration <= iter) /\ (~Slipped("log") => Has(First))
      BY <3>4 DEF Recorded
    <3>6. /\ First' = First /\ Len(msgs') = Len(msgs) + 1 /\ msgs' \in Seq(Message)
          /\ \A i \in 1 .. Len(msgs') - start' : msgs'[start' + i].id = First' + i - 1
      BY <3>2, <3>3, <3>4, <3>5, TurnGrows
    <3>7. Mine' = Mine /\ InOrder' = InOrder /\ Slipped("log")' = Slipped("log") /\ Has(First)' = Has(First)
      BY <3>4, <3>6, TalkUntouched DEF Has
    <3>8. TalkTypes'
      BY <2>0, <3>4, <3>6, AgentRunAssumption DEF TalkTypes, Iterations
    <3> QED BY <2>0, <3>4, <3>5, <3>6, <3>7, <3>8 DEF Recorded
  <2>9. CASE TurnStep
    <3>1. /\ UNCHANGED <<task, attempt, msgs, start, next, calls>> /\ iter' = iter + 1 /\ pc = "tools"
          /\ pc' \in {"iterate", "end"} /\ Logged(iter + 1, Delta(msgs))
      BY <2>9 DEF TurnStep
    <3>2. /\ First \in Nat \ {0} /\ (\A i \in 1 .. Len(msgs) - start : msgs[start + i].id = First + i - 1)
          /\ (\A r \in Mine : r.id < First /\ r.iteration <= iter) /\ (~Slipped("log") => Has(First))
      BY <3>1 DEF Recorded
    <3> DEFINE delta == Delta(msgs)
    <3>3. delta \in Seq(Message) /\ Len(delta) = Len(msgs) - start /\ \A i \in 1 .. Len(delta) : delta[i] = msgs[start + i]
      BY <2>0, DeltaIsTail
    <3> HIDE DEF delta
    <3>4. (\A i \in 1 .. Len(delta) : delta[i].id = First + i - 1) /\ First + Len(delta) = next
      <4>1. \A i \in 1 .. Len(delta) : delta[i].id = First + i - 1
        BY <3>2, <3>3
      <4>2. Len(msgs) \in Nat /\ start \in Nat /\ next \in Nat
        BY <2>0 DEF TalkTypes
      <4>3. First + Len(delta) = next
        BY <3>3, <4>2 DEF First
      <4> QED BY <4>1, <4>3
    <3>5. iter + 1 \in Nat /\ \A r \in Mine : r.id < First /\ r.iteration < iter + 1
      BY <2>0, <3>2 DEF Mine, RowType
    <3>6. /\ log' \subseteq RowType /\ (\A r \in log' : r.attempt <= attempt') /\ InOrder'
          /\ (\A r \in Mine' : r.iteration <= iter + 1 /\ r.id < First + Len(delta))
          /\ ((~Slipped("log") => Has(First)) /\ ~Slipped("log")' => {r.id : r \in Mine'} = 1 .. First + Len(delta) - 1)
      BY <2>0, <3>1, <3>2, <3>3, <3>4, <3>5, LogGrows DEF delta
    <3>7. ~Slipped("log")' => Has(next)'
      BY <3>1, <3>2, <3>4, <3>6 DEF Has
    <3>8. TalkTypes'
      BY <2>0, <3>1, <3>6, IterationsPositive DEF TalkTypes, Iterations
    <3>9. iter' # 0
      BY <2>0, <3>1
    <3> QED BY <2>0, <3>1, <3>4, <3>6, <3>7, <3>8, <3>9 DEF Recorded
  <2>10. CASE VerifyStep \/ PassStep \/ PushStep
    <3>1. /\ UNCHANGED <<task, attempt, msgs, start, next, iter, calls, log, slips>>
          /\ pc \in {"verify", "push"} /\ pc' \in {"verify", "end", "commit", "pr"}
      BY <2>10 DEF VerifyStep, PassStep, PushStep
    <3>2. outcome # "crashed"
      BY <3>1 DEF RunTypes
    <3>3. Mine' = Mine /\ InOrder' = InOrder /\ Slipped("log")' = Slipped("log")
      BY <3>1, TalkUntouched
    <3> QED BY <3>1, <3>2, <3>3 DEF TalkTypes, Recorded, Has, Iterations
  <2>11. CASE CommitStep
    <3>1. /\ UNCHANGED <<task, attempt, msgs, start, next, iter, calls, log>> /\ slips \subseteq slips'
          /\ pc = "commit" /\ pc' = "push"
      BY <2>11 DEF CommitStep
    <3>2. outcome # "crashed"
      BY <3>1 DEF RunTypes
    <3>3. Mine' = Mine /\ InOrder' = InOrder
      BY <3>1 DEF Mine, InOrder, Before
    <3>4. ~Slipped("log")' => ~Slipped("log")
      BY <3>1, SlipsStay
    <3> QED BY <3>1, <3>2, <3>3, <3>4 DEF TalkTypes, Recorded, Has, Iterations
  <2>12. CASE Rerun
    <3>1. /\ attempt' = attempt + 1 /\ log' = log /\ pc' = "resolve" /\ task' = task
          /\ msgs' = << >> /\ start' = 0 /\ next' = 1 /\ iter' = 0 /\ calls' = 0
      BY <2>12 DEF Rerun
    <3>2. Mine' = {}
      BY <2>0, <3>1 DEF Mine, RowType
    <3>3. \A r \in log : r.attempt <= attempt + 1
      BY <2>0 DEF RowType
    <3>4. TalkTypes'
      BY <2>0, <3>1, <3>3, IterationsPositive, AgentRunAssumption DEF TalkTypes, Iterations
    <3>5. InOrder'
      BY <3>2 DEF InOrder
    <3> QED BY <3>1, <3>2, <3>4, <3>5 DEF Recorded
  <2> QED BY <2>1, <2>2, <2>3, <2>4, <2>5, <2>6, <2>7, <2>8, <2>9, <2>10, <2>11, <2>12, StepsOfTheRun DEF AgentStep
<1> QED BY <1>1, <1>2, RunTypesHold, PTL DEF Spec

(* Listed by iteration and seq, an execution's rows come in the order of the *)
(* conversation; and unless a write failed they are, between two turns, all  *)
(* the messages there were, for any number of executions, turns and calls    *)
(* and whatever was dropped from the request before a turn (loop.go Run,     *)
(* persistInitial, persistIteration; conversation_log.go).                   *)
THEOREM NoMessageLost == Spec => []LogComplete
<1>1. TalkInv => LogComplete
  BY DEF TalkInv, Recorded, InOrder, Has, LogComplete
<1> QED BY <1>1, TalkInvHolds, PTL

(* The state of a run has its types, and its counters their bounds. *)
THEOREM AgentTypeCorrect == Spec => []AgentTypeOK
<1>1. TalkInv /\ RunTypes /\ StallInv => AgentTypeOK
  <2> SUFFICES ASSUME TalkTypes, RunTypes, StallInv PROVE AgentTypeOK
    BY DEF TalkInv
  <2>1. \A i \in DOMAIN msgs : msgs[i] \in Message
    BY DEF TalkTypes
  <2>2. calls <= MaxCalls
    BY AgentRunAssumption DEF TalkTypes
  <2>3. stall = 0 \/ stall <= Loop.noProgressLimit
    BY LoopTypes DEF StallInv
  <2> QED BY <2>1, <2>2, <2>3 DEF AgentTypeOK, TalkTypes, RunTypes, Tree, Trees
<1> QED BY <1>1, TalkInvHolds, RunTypesHold, StallInvHolds, PTL
=============================================================================
