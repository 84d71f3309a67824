--------------------------- MODULE IssueWorkflow ---------------------------
(***************************************************************************)
(* One issue and its pull request under the rules of WorkflowRules, one    *)
(* event or task outcome at a time: what the workflow promises when        *)
(* nothing races.  Module Dispatch adds the concurrency.                   *)
(*                                                                         *)
(* Source: internal/dispatcher/pipeline.go (handleEventV2) and             *)
(* dispatcher.go (the callbacks), internal/workflow.                       *)
(***************************************************************************)
EXTENDS WorkflowRules

CONSTANTS
  AgentIds,   \* agents, positive numbers
  RoleOf,     \* their roles
  Policy,     \* name of the preset of the repository
  TriggerIntents, \* intents of the events that arrive
  PrId,       \* the number of the pull request that work on the issue opens
  MayFail,    \* whether a task may fail
  MayClose    \* whether the issue may be closed, the pull request closed or merged

ASSUME WorkflowAssumption ==
  /\ AgentIds \subseteq Nat \ {0}
  /\ RoleOf \in [AgentIds -> Roles]
  /\ PrId \in Nat \ {0}
  /\ MayFail \in BOOLEAN /\ MayClose \in BOOLEAN
  /\ TriggerIntents \subseteq Intents

VARIABLES
  ctx,      \* the row of workflow_contexts
  known,    \* that row exists
  prState,  \* the pull request on Gitea: "none", "open" or "closed"
  task,     \* the live task of the issue, NoTask when there is none
  before    \* the stage the live task found

vars == <<ctx, known, prState, task, before>>

CodingTypes == {"solve_issue", "fix_bug", "solve_comment"}
NoTask == [type |-> NoType, agent |-> 0, pr |-> 0]
Events == [agent : AgentIds, surface : Surfaces, intent : TriggerIntents,
           bug : BOOLEAN, draft : BOOLEAN]
policy == BuildPolicy(Policy, << >>)

\* The pull request exists and its body links the issue, so both surfaces share
\* the context.  A comment on it carries the pull request only as an issue
\* number, for which there is no context.
CarriesPr(e) == e.surface = "pr" /\ e.intent = "review_requested"
NumberedContext(e) == IF e.surface = "pr" THEN FreshContext ELSE ctx

Type(e) == ResolveTaskType(RoleOf[e.agent], e.surface, e.intent, e.bug)

PossibleEvent(e) ==
  /\ e.surface = "pr" => prState # "none"
  /\ e.intent = "review_requested" => e.surface = "pr"
  /\ e.draft => e.surface = "pr"
  /\ e.bug => e.intent = "assign"

\* The event asks for a task and gets past the structural gate ...
Reaches(e) ==
  /\ Type(e) # NoType
  /\ CheckL1(RoleOf[e.agent], CarriesPr(e), prState = "open", NumberedContext(e))

\* ... and past the transition and the policy's gates.
Admits(e) ==
  /\ TransitionAllowed(ctx.stage, RoleOf[e.agent])
  /\ GatesAllow(policy, ctx, RoleOf[e.agent], e.agent, CarriesPr(e) /\ e.draft)

-----------------------------------------------------------------------------
\* handleEventV2, with no task in the way.
Trigger(e) ==
  /\ task = NoTask
  /\ PossibleEvent(e) /\ Reaches(e)
  /\ Admits(e)
  /\ known' = TRUE
  /\ ctx' = TransitionStage(ctx, StageOf(RoleOf[e.agent]), e.agent, RoleOf[e.agent])
  /\ task' = [type |-> Type(e), agent |-> e.agent,
              pr |-> IF e.surface = "pr" THEN PrId ELSE 0]
  /\ before' = ctx.stage
  /\ UNCHANGED prState

\* handleEventV2 turns the event away, having created the row.
Blocked(e) ==
  /\ PossibleEvent(e) /\ Reaches(e)
  /\ ~Admits(e)
  /\ known' = TRUE
  /\ UNCHANGED <<ctx, prState, task, before>>

\* onComplete.  A task that writes code may open the pull request.
Complete(opens) ==
  /\ task # NoTask
  /\ opens => task.type \in CodingTypes
  /\ ctx' = OnTaskComplete(ctx, task.type, IF opens THEN PrId ELSE task.pr)
  /\ prState' = IF opens THEN "open" ELSE prState
  /\ task' = NoTask
  /\ UNCHANGED <<known, before>>

\* onFailed.
Fail ==
  /\ MayFail
  /\ task # NoTask
  /\ ctx' = OnTaskFailed(ctx, task.type)
  /\ task' = NoTask
  /\ UNCHANGED <<known, prState, before>>

\* A person opens a pull request that refers to the issue.
OpenPr ==
  /\ prState = "none"
  /\ prState' = "open"
  /\ UNCHANGED <<ctx, known, task, before>>

\* OnPRClosed without a merge changes nothing here.
ClosePr ==
  /\ MayClose
  /\ prState = "open"
  /\ prState' = "closed"
  /\ UNCHANGED <<ctx, known, task, before>>

\* OnIssueClosed: an issue no event has asked anything of has no row to close.
CloseContext == ctx' = IF known THEN ClosedContext(ctx) ELSE ctx

\* OnPRClosed with a merge, and issues.closed.
MergePr ==
  /\ MayClose
  /\ prState = "open"
  /\ prState' = "closed"
  /\ CloseContext
  /\ UNCHANGED <<known, task, before>>

CloseIssue ==
  /\ MayClose
  /\ CloseContext
  /\ UNCHANGED <<known, prState, task, before>>

\* ResetIssue: the live task is cancelled and failed without a callback.
ResetIssue ==
  /\ ctx' = ResetContext(ctx)
  /\ task' = NoTask
  /\ UNCHANGED <<known, prState, before>>

Init ==
  /\ ctx = FreshContext
  /\ known = FALSE
  /\ prState = "none"
  /\ task = NoTask
  /\ before = "idle"

Next ==
  \/ \E e \in Events : Trigger(e) \/ Blocked(e)
  \/ \E opens \in BOOLEAN : Complete(opens)
  \/ Fail
  \/ OpenPr \/ ClosePr \/ MergePr \/ CloseIssue
  \/ ResetIssue

Spec == Init /\ [][Next]_vars

-----------------------------------------------------------------------------
TypeOK ==
  /\ ctx \in Contexts(AgentIds, {PrId})
  /\ known \in BOOLEAN
  /\ prState \in {"none", "open", "closed"}
  /\ task \in [type : TaskTypes \cup {NoType}, agent : AgentIds \cup {0}, pr : {0, PrId}]
  /\ before \in Stages

\* What a live task knows of the context: the stage it found is the one to go
\* back to, unless it re-entered it or the issue was closed.
TaskContext ==
  task # NoTask /\ ctx.stage # "done" =>
    \/ ctx.prev = before /\ before # ctx.stage
    \/ ctx.prev = "" /\ before = ctx.stage

\* The end of a task that did not advance the workflow: an answer, or coding on
\* a comment that leaves no pull request.
EndsWithoutAdvance ==
  \/ task.type = "reply_comment" /\ Complete(FALSE)
  \/ task.type = "solve_comment" /\ task.pr = 0 /\ Complete(FALSE)

\* OnTaskComplete on such a task: on an issue that nobody closed meanwhile the
\* stage becomes the one the task found, whatever transitions, failures and
\* re-entries of a stage led there.  A stage left at analyzing by an earlier
\* task is the exception of rollbackTransientStage.
ReplyIsNeutral ==
  [][EndsWithoutAdvance /\ ctx.stage # "done" /\ before # "analyzing"
       => ctx'.stage = before]_vars

\* finalizeTaskResult: after a failure "the issue can accept a manual retry".
\* Neither the transition nor the gates turn away the agent whose analysis or
\* coding failed when it is asked again.  The strict preset breaks it: the failed
\* task leaves its stage, and rerun_same_stage is hard.
RetryAfterFailure ==
  [][LET role == RoleOf[task.agent]
     IN  /\ Fail
         /\ task.type = "analyze_issue" \/ role = "coder"
         => /\ TransitionAllowed(ctx'.stage, role)
            /\ GatesAllow(policy, ctx', role, task.agent, FALSE)]_vars

\* The pull request of an issue is remembered: whatever tasks complete, fail or
\* are reset later, a review asked for on the issue still passes CheckL1.
PrLinkKept == [][ctx.pr # 0 => ctx'.pr # 0]_vars

=============================================================================
