------------------------ MODULE IssueWorkflowProofs ------------------------
(***************************************************************************)
(* Proofs about IssueWorkflow: type correctness, the pull request link and *)
(* the neutrality of answers, for every set of agents and every policy;    *)
(* that failed work can be asked for again, for every policy but strict.   *)
(***************************************************************************)
EXTENDS IssueWorkflow, TLAPS

\* A context of the workflow.
Ctx == Contexts(AgentIds, {PrId})

WorkflowInv == TypeOK /\ TaskContext

\* Each rule maps a context to a context and forgets no pull request.
LEMMA RulesTyped ==
  ASSUME NEW c \in Ctx, NEW pr \in {0, PrId}, NEW type \in TaskTypes \cup {NoType}
  PROVE  /\ OnTaskComplete(c, type, pr) \in Ctx
         /\ OnTaskFailed(c, type) \in Ctx
         /\ ResetContext(c) \in Ctx
         /\ ClosedContext(c) \in Ctx
         /\ c.pr # 0 => /\ OnTaskComplete(c, type, pr).pr # 0
                        /\ OnTaskFailed(c, type).pr # 0
                        /\ ResetContext(c).pr # 0
                        /\ ClosedContext(c).pr # 0
<1>1. ASSUME NEW d \in Ctx, NEW s \in Stages
      PROVE  RolledBack(d, s) \in Ctx /\ RolledBack(d, s).pr = d.pr
  BY DEF RolledBack, Ctx, Contexts
<1>2. RecordPr(c, pr) \in Ctx /\ (c.pr # 0 => RecordPr(c, pr).pr # 0)
  <2>1. CASE pr = 0
    <3>1. RecordPr(c, pr) = c
      BY <2>1 DEF RecordPr
    <3> QED
      BY <3>1
  <2>2. CASE pr # 0
    <3>1. RecordPr(c, pr) = [c EXCEPT !.pr = pr]
      BY <2>2, WorkflowAssumption DEF RecordPr
    <3> QED
      BY <2>2, <3>1 DEF Ctx, Contexts
  <2> QED
    BY <2>1, <2>2
<1>3. ASSUME NEW d \in Ctx
      PROVE  RollbackTransientStage(d) \in Ctx /\ RollbackTransientStage(d).pr = d.pr
  <2> DEFINE target == IF d.prev = "analyzing" THEN "idle" ELSE d.prev
  <2>1. CASE d.prev = ""
    <3>1. target # d.stage
      BY <2>1 DEF Stages, Ctx, Contexts
    <3>2. RollbackTransientStage(d) = d
      BY <2>1, <3>1 DEF RollbackTransientStage
    <3> QED
      BY <3>2
  <2>2. CASE d.prev # "" /\ target = d.stage
    <3>1. RollbackTransientStage(d) = [d EXCEPT !.prev = ""]
      BY <2>2 DEF RollbackTransientStage
    <3> QED
      BY <3>1 DEF Ctx, Contexts
  <2>3. CASE d.prev # "" /\ target # d.stage
    <3>1. target \in Stages
      BY <2>3 DEF Stages, Ctx, Contexts
    <3>2. RollbackTransientStage(d) = RolledBack(d, target)
      BY <2>3 DEF RollbackTransientStage
    <3> HIDE DEF target
    <3> QED
      BY <3>1, <3>2, <1>1
  <2> QED
    BY <2>1, <2>2, <2>3
<1>4. OnTaskComplete(c, type, pr) \in Ctx
      /\ (c.pr # 0 => OnTaskComplete(c, type, pr).pr # 0)
  <2>1. CASE type = "analyze_issue"
    <3>1. OnTaskComplete(c, type, pr) = [c EXCEPT !.stage = "analyzed"]
      BY <2>1 DEF OnTaskComplete
    <3> QED
      BY <3>1 DEF Ctx, Contexts, Stages
  <2>2. CASE type = "reply_comment"
    <3>1. OnTaskComplete(c, type, pr) = RollbackTransientStage(RecordPr(c, pr))
      BY <2>2 DEF OnTaskComplete
    <3> QED
      BY <3>1, <1>2, <1>3
  <2>3. CASE type = "solve_comment"
    <3>1. OnTaskComplete(c, type, pr) \in {RecordPr(c, pr), RollbackTransientStage(c)}
      BY <2>3 DEF OnTaskComplete
    <3> QED
      BY <3>1, <1>2, <1>3
  <2>4. CASE type \notin {"analyze_issue", "reply_comment", "solve_comment"}
    <3>1. OnTaskComplete(c, type, pr) \in {RecordPr(c, pr), c}
      BY <2>4 DEF OnTaskComplete
    <3> QED
      BY <3>1, <1>2
  <2> QED
    BY <2>1, <2>2, <2>3, <2>4
<1>5. OnTaskFailed(c, type) \in Ctx /\ (c.pr # 0 => OnTaskFailed(c, type).pr # 0)
  <2> DEFINE target == IF c.prev \in {"", "analyzing"} THEN "idle" ELSE c.prev
  <2>1. target \in Stages
    BY DEF Stages, Ctx, Contexts
  <2>2. OnTaskFailed(c, type) \in {RolledBack(c, target), c}
    BY DEF OnTaskFailed
  <2> HIDE DEF target
  <2> QED
    BY <2>1, <2>2, <1>1
<1>6. ResetContext(c) \in Ctx /\ ResetContext(c).pr = c.pr
  <2>1. RolledBack(c, "idle") \in Ctx
    BY <1>1 DEF Stages
  <2> QED
    BY <2>1 DEF ResetContext, Ctx, Contexts
<1>7. ClosedContext(c) \in Ctx /\ ClosedContext(c).pr = c.pr
  BY DEF ClosedContext, Stages, Ctx, Contexts
<1> QED
  BY <1>4, <1>5, <1>6, <1>7

\* Starting a task moves the context to the stage of its role and keeps the
\* pull request.
LEMMA StartTyped ==
  ASSUME NEW c \in Ctx, NEW a \in AgentIds
  PROVE  LET n == TransitionStage(c, StageOf(RoleOf[a]), a, RoleOf[a])
         IN  /\ n \in Ctx
             /\ n.pr = c.pr
             /\ n.prev = IF n.stage # c.stage THEN c.stage ELSE ""
<1> DEFINE s == StageOf(RoleOf[a])
<1>1. RoleOf[a] \in Roles
  BY WorkflowAssumption
<1>2. s \in Stages
  BY <1>1 DEF StageOf, Roles, Stages
<1> HIDE DEF s
<1>3. LET n == TransitionStage(c, s, a, RoleOf[a])
      IN  /\ n \in Ctx
          /\ n.pr = c.pr
          /\ n.prev = IF n.stage # c.stage THEN c.stage ELSE ""
  BY <1>1, <1>2 DEF TransitionStage, Ctx, Contexts
<1> QED
  BY <1>3 DEF s

-----------------------------------------------------------------------------
\* The two initial facts of the invariant.
LEMMA InitInv == Init => WorkflowInv
<1> SUFFICES ASSUME Init PROVE WorkflowInv
  OBVIOUS
<1>1. ctx \in Contexts(AgentIds, {PrId})
  BY DEF Init, FreshContext, Contexts, Stages
<1>2. task \in [type : TaskTypes \cup {NoType}, agent : AgentIds \cup {0}, pr : {0, PrId}]
  BY DEF Init, NoTask
<1>3. TypeOK
  BY <1>1, <1>2 DEF Init, TypeOK, Stages
<1>4. TaskContext
  BY DEF Init, TaskContext
<1> QED
  BY <1>3, <1>4 DEF WorkflowInv

\* Every step preserves the invariant.
LEMMA NextInv == WorkflowInv /\ [Next]_vars => WorkflowInv'
<1> SUFFICES ASSUME TypeOK, TaskContext, [Next]_vars PROVE TypeOK' /\ TaskContext'
  BY DEF WorkflowInv
<1> USE DEF TypeOK
<1>c. ctx \in Ctx /\ ctx.stage \in Stages
  BY DEF Ctx, Contexts
<1>r. /\ task.type \in TaskTypes \cup {NoType}
      /\ task.agent \in AgentIds \cup {0}
      /\ task.pr \in {0, PrId}
  OBVIOUS
<1>n. NoTask \in [type : TaskTypes \cup {NoType}, agent : AgentIds \cup {0}, pr : {0, PrId}]
  BY DEF NoTask
<1>1. ASSUME NEW e \in Events, Trigger(e) PROVE TypeOK' /\ TaskContext'
  <2>1. e.agent \in AgentIds
    BY DEF Events
  <2>2. ctx' \in Ctx /\ ctx'.prev = (IF ctx'.stage # ctx.stage THEN ctx.stage ELSE "")
    BY <1>1, <1>c, <2>1, StartTyped DEF Trigger
  <2>3. Type(e) \in TaskTypes \cup {NoType}
    BY DEF Type, ResolveTaskType, TaskTypes, NoType
  <2>4. task' \in [type : TaskTypes \cup {NoType}, agent : AgentIds \cup {0}, pr : {0, PrId}]
    BY <1>1, <2>1, <2>3 DEF Trigger
  <2>5. TypeOK'
    BY <1>1, <1>c, <2>2, <2>4 DEF Trigger, Ctx
  <2>6. TaskContext'
    BY <1>1, <2>2 DEF Trigger, TaskContext
  <2> QED
    BY <2>5, <2>6
<1>2. ASSUME NEW e \in Events, Blocked(e) PROVE TypeOK' /\ TaskContext'
  BY <1>2 DEF Blocked, TaskContext
<1>3. ASSUME NEW opens \in BOOLEAN, Complete(opens) PROVE TypeOK' /\ TaskContext'
  <2>1. (IF opens THEN PrId ELSE task.pr) \in {0, PrId}
    BY <1>r
  <2>2. ctx' \in Ctx
    BY <1>3, <1>c, <1>r, <2>1, RulesTyped DEF Complete
  <2>3. TypeOK'
    BY <1>3, <1>r, <1>n, <2>2 DEF Complete, Ctx
  <2>4. TaskContext'
    BY <1>3 DEF Complete, TaskContext
  <2> QED
    BY <2>3, <2>4
<1>4. CASE Fail
  <2>1. ctx' \in Ctx
    BY <1>4, <1>c, <1>r, RulesTyped DEF Fail
  <2>2. TypeOK'
    BY <1>4, <1>n, <2>1 DEF Fail, Ctx
  <2> QED
    BY <1>4, <2>2 DEF Fail, TaskContext
<1>5. CASE OpenPr \/ ClosePr
  BY <1>5 DEF OpenPr, ClosePr, TaskContext
<1>6. CASE MergePr \/ CloseIssue
  <2>1. ctx' \in {ClosedContext(ctx), ctx} /\ UNCHANGED <<known, task, before>>
        /\ prState' \in {prState, "closed"}
    BY <1>6 DEF MergePr, CloseIssue, CloseContext
  <2>2. ClosedContext(ctx) \in Ctx
    BY <1>c, RulesTyped
  <2>3. ctx' \in Ctx /\ ctx'.stage \in {"done", ctx.stage}
    BY <1>c, <2>1, <2>2 DEF ClosedContext, Ctx, Contexts
  <2>4. ctx'.stage # "done" => ctx' = ctx
    BY <1>c, <2>1 DEF ClosedContext, Ctx, Contexts
  <2>5. TypeOK'
    BY <2>1, <2>3 DEF Ctx
  <2> QED
    BY <2>1, <2>4, <2>5 DEF TaskContext
<1>7. CASE ResetIssue
  <2>1. ctx' \in Ctx
    BY <1>7, <1>c, RulesTyped DEF ResetIssue
  <2>2. TypeOK'
    BY <1>7, <1>n, <2>1 DEF ResetIssue, Ctx
  <2> QED
    BY <1>7, <2>2 DEF ResetIssue, TaskContext
<1>8. CASE UNCHANGED vars
  BY <1>8 DEF vars, TaskContext
<1> QED
  BY <1>1, <1>2, <1>3, <1>4, <1>5, <1>6, <1>7, <1>8 DEF Next

\* The invariant of the workflow in every reachable state: a live task knows
\* the stage it would go back to (TransitionStage and its two readers).
THEOREM WorkflowInvariant == Spec => []WorkflowInv
<1>1. Init => WorkflowInv
  BY InitInv
<1>2. WorkflowInv /\ [Next]_vars => WorkflowInv'
  BY NextInv
<1> QED
  BY <1>1, <1>2, PTL DEF Spec

\* Contexts, tasks and the stage found stay in their types.
THEOREM WorkflowTypeCorrect == Spec => []TypeOK
<1>1. WorkflowInv => TypeOK
  BY DEF WorkflowInv
<1> QED
  BY <1>1, WorkflowInvariant, PTL

\* No task outcome and no reset makes the context forget the pull request.
THEOREM PrLinkNeverLost == Spec => PrLinkKept
<1>1. ASSUME WorkflowInv, [Next]_vars, ctx.pr # 0 PROVE ctx'.pr # 0
  <2>c. ctx \in Ctx
    BY <1>1 DEF WorkflowInv, TypeOK, Ctx
  <2>r. task.type \in TaskTypes \cup {NoType} /\ task.pr \in {0, PrId}
    BY <1>1 DEF WorkflowInv, TypeOK
  <2>1. ASSUME NEW e \in Events, Trigger(e) PROVE ctx'.pr = ctx.pr
    <3>1. e.agent \in AgentIds
      BY DEF Events
    <3> QED
      BY <2>c, <2>1, <3>1, StartTyped DEF Trigger
  <2>2. ASSUME NEW opens \in BOOLEAN, Complete(opens) PROVE ctx'.pr # 0
    <3>1. (IF opens THEN PrId ELSE task.pr) \in {0, PrId}
      BY <2>r
    <3> QED
      BY <1>1, <2>c, <2>r, <2>2, <3>1, RulesTyped DEF Complete
  <2>3. CASE Fail \/ ResetIssue
    BY <1>1, <2>c, <2>r, <2>3, RulesTyped DEF Fail, ResetIssue
  <2>4. CASE MergePr \/ CloseIssue
    BY <1>1, <2>c, <2>r, <2>4, RulesTyped DEF MergePr, CloseIssue, CloseContext
  <2>5. ASSUME NEW e \in Events, Blocked(e) PROVE ctx' = ctx
    BY <2>5 DEF Blocked
  <2>6. CASE OpenPr \/ ClosePr \/ UNCHANGED vars
    BY <2>6, <1>1 DEF OpenPr, ClosePr, vars
  <2> QED
    BY <1>1, <2>1, <2>2, <2>3, <2>4, <2>5, <2>6 DEF Next
<1>2. WorkflowInv /\ [Next]_vars => [ctx.pr # 0 => ctx'.pr # 0]_vars
  BY <1>1
<1> QED
  BY <1>2, WorkflowInvariant, PTL DEF Spec, PrLinkKept

\* A task that did not advance the workflow leaves the stage it found.
THEOREM AnswersAreNeutral == Spec => ReplyIsNeutral
<1> DEFINE A == EndsWithoutAdvance /\ ctx.stage # "done" /\ before # "analyzing"
                  => ctx'.stage = before
<1>1. ASSUME WorkflowInv, EndsWithoutAdvance, ctx.stage # "done", before # "analyzing"
      PROVE  ctx'.stage = before
  <2> DEFINE c == RecordPr(ctx, task.pr)
  <2>1. /\ task # NoTask
        /\ ctx' = RollbackTransientStage(IF task.type = "reply_comment" THEN c ELSE ctx)
    <3>1. CASE task.type = "reply_comment" /\ Complete(FALSE)
      BY <3>1 DEF Complete, OnTaskComplete
    <3>2. CASE task.type = "solve_comment" /\ task.pr = 0 /\ Complete(FALSE)
      <4>1. ctx' = OnTaskComplete(ctx, "solve_comment", 0) /\ task # NoTask
        BY <3>2 DEF Complete
      <4>2. ctx' = RollbackTransientStage(ctx)
        BY <4>1 DEF OnTaskComplete
      <4> QED
        BY <3>2, <4>1, <4>2
    <3> QED
      BY <1>1, <3>1, <3>2 DEF EndsWithoutAdvance
  <2>2. ctx \in Ctx /\ before \in Stages /\ task.pr \in {0, PrId}
    BY <1>1 DEF WorkflowInv, TypeOK, Ctx
  <2>3. c \in Ctx /\ c.stage = ctx.stage /\ c.prev = ctx.prev
    <3>1. CASE task.pr = 0
      <4>1. c = ctx
        BY <3>1 DEF RecordPr
      <4> QED
        BY <2>2, <4>1
    <3>2. CASE task.pr # 0
      <4>1. c = [ctx EXCEPT !.pr = task.pr]
        BY <2>2, <3>2, WorkflowAssumption DEF RecordPr
      <4> QED
        BY <2>2, <4>1 DEF Ctx, Contexts
    <3> QED
      BY <3>1, <3>2
  <2> HIDE DEF c
  <2>4. PICK d \in Ctx : /\ d.stage = ctx.stage
                         /\ d.prev = ctx.prev
                         /\ ctx' = RollbackTransientStage(d)
    BY <2>1, <2>2, <2>3
  <2>5. \/ d.prev = before /\ before # d.stage
        \/ d.prev = "" /\ before = d.stage
    BY <1>1, <2>1, <2>4 DEF WorkflowInv, TaskContext
  <2>6. CASE d.prev = before /\ before # d.stage
    <3>1. d.prev # "" /\ d.prev # "analyzing" /\ d.prev \in Stages
      BY <1>1, <2>2, <2>6 DEF Stages
    <3>2. RollbackTransientStage(d) = RolledBack(d, before)
      BY <2>6, <3>1 DEF RollbackTransientStage
    <3> QED
      BY <2>2, <2>4, <3>2 DEF RolledBack, Ctx, Contexts
  <2>7. CASE d.prev = "" /\ before = d.stage
    <3>1. d.stage # ""
      BY <2>2, <2>7 DEF Stages
    <3>2. RollbackTransientStage(d) = d
      BY <2>7, <3>1 DEF RollbackTransientStage
    <3> QED
      BY <2>4, <2>7, <3>2
  <2> QED
    BY <2>5, <2>6, <2>7
<1>2. WorkflowInv /\ [Next]_vars => [A]_vars
  BY <1>1
<1> QED
  BY <1>2, WorkflowInvariant, PTL DEF Spec, ReplyIsNeutral

-----------------------------------------------------------------------------
\* A failed task can be asked for again.

\* The stage is the one the live task's start left, unless the issue was closed.
TaskAgent ==
  task # NoTask =>
    /\ task.agent \in AgentIds
    /\ task.type = "analyze_issue" => RoleOf[task.agent] = "analyze"
    /\ ctx.stage \in {StageOf(RoleOf[task.agent]), "done"}

LEMMA AgentStep == WorkflowInv /\ TaskAgent /\ [Next]_vars => TaskAgent'
<1> SUFFICES ASSUME TypeOK, TaskAgent, [Next]_vars PROVE TaskAgent'
  BY DEF WorkflowInv
<1>c. ctx \in Ctx
  BY DEF TypeOK, Ctx
<1>1. ASSUME NEW e \in Events, Trigger(e) PROVE TaskAgent'
  <2> DEFINE role == RoleOf[e.agent]
  <2>1. e.agent \in AgentIds /\ role \in Roles
    BY WorkflowAssumption DEF Events
  <2>2. Type(e) = "analyze_issue" => role = "analyze"
    BY DEF Type, ResolveTaskType, NoType
  <2>3. task'.agent = e.agent /\ task'.type = Type(e)
    BY <1>1 DEF Trigger
  <2>4. ctx'.stage = StageOf(role)
    BY <1>1, <1>c DEF Trigger, TransitionStage, Ctx, Contexts
  <2> QED
    BY <2>1, <2>2, <2>3, <2>4 DEF TaskAgent
<1>2. CASE ctx' \in {ctx, ClosedContext(ctx)} /\ task' = task
  BY <1>c, <1>2 DEF TaskAgent, ClosedContext, Ctx, Contexts
<1>3. CASE task' = NoTask
  BY <1>3 DEF TaskAgent, NoTask
<1>4. CASE (\E e \in Events : Blocked(e)) \/ OpenPr \/ ClosePr \/ MergePr \/ CloseIssue \/ UNCHANGED vars
  BY <1>2, <1>4 DEF Blocked, OpenPr, ClosePr, MergePr, CloseIssue, CloseContext, vars
<1>5. CASE (\E opens \in BOOLEAN : Complete(opens)) \/ Fail \/ ResetIssue
  BY <1>3, <1>5 DEF Complete, Fail, ResetIssue
<1> QED
  BY <1>1, <1>4, <1>5 DEF Next

\* No gate of the presets but strict blocks.
LEMMA NothingHard == ASSUME Policy # "strict" PROVE \A g \in Gates : policy[g] # "hard"
<1> SUFFICES ASSUME NEW g \in Gates PROVE policy[g] # "hard"
  OBVIOUS
<1>1. DOMAIN << >> = {}
  OBVIOUS
<1>2. policy[g] = Preset(Policy)[g]
  BY <1>1 DEF policy, BuildPolicy
<1>3. Preset(Policy)[g] \in {"off", "soft"}
  BY DEF Preset
<1> QED
  BY <1>2, <1>3

\* finalizeTaskResult: "after a failure the issue can accept a manual retry", under every
\* policy but the strict one, for any agents and whatever was closed, merged or reset
\* before.  An analysis is rolled back from analyzing, the only stage a transition
\* does not start from; coding never stands there; and the gates only warn.
THEOREM FailureCanBeRetried == ASSUME Policy # "strict" PROVE Spec => RetryAfterFailure
<1> DEFINE role == RoleOf[task.agent]
           Retry == /\ Fail
                    /\ task.type = "analyze_issue" \/ role = "coder"
                    => /\ TransitionAllowed(ctx'.stage, role)
                       /\ GatesAllow(policy, ctx', role, task.agent, FALSE)
<1>1. Init => TaskAgent
  BY DEF Init, TaskAgent
<1>2. ASSUME WorkflowInv, TaskAgent, Fail, task.type = "analyze_issue" \/ role = "coder"
      PROVE  TransitionAllowed(ctx'.stage, role) /\ GatesAllow(policy, ctx', role, task.agent, FALSE)
  <2>1. ctx \in Ctx /\ task # NoTask /\ role \in Roles
    BY <1>2, WorkflowAssumption DEF WorkflowInv, TypeOK, Ctx, Fail, TaskAgent
  <2>2. ctx.stage \in {StageOf(role), "done"}
    BY <1>2, <2>1 DEF TaskAgent
  <2>3. ctx' = OnTaskFailed(ctx, task.type)
    BY <1>2 DEF Fail
  <2>4. ctx'.stage # "analyzing"
    <3>1. CASE ctx.stage = "analyzing"
      <4>1. task.type = "analyze_issue"
        BY <1>2, <2>2, <3>1 DEF StageOf
      <4>2. ctx' = RolledBack(ctx, IF ctx.prev \in {"", "analyzing"} THEN "idle" ELSE ctx.prev)
        BY <2>3, <3>1, <4>1 DEF OnTaskFailed
      <4> QED
        BY <2>1, <4>2 DEF RolledBack, Ctx, Contexts
    <3>2. CASE ctx.stage # "analyzing"
      BY <2>3, <3>2 DEF OnTaskFailed
    <3> QED
      BY <3>1, <3>2
  <2>5. ASSUME NEW g \in GatesForTransition(ctx', role)
        PROVE  EvaluateGate(policy, g, ctx', task.agent, FALSE)
    <3>1. g \in Gates
      BY <2>1, <2>5 DEF GatesForTransition, Gates, Roles
    <3> QED
      BY <3>1, NothingHard DEF EvaluateGate
  <2> QED
    BY <2>1, <2>4, <2>5 DEF TransitionAllowed, GatesAllow
<1>3. WorkflowInv /\ TaskAgent /\ [Next]_vars => [Retry]_vars
  BY <1>2
<1> QED
  BY <1>1, <1>3, AgentStep, WorkflowInvariant, PTL DEF Spec, RetryAfterFailure
=============================================================================
