--------------------------- MODULE WorkflowRules ---------------------------
(***************************************************************************)
(* The rules of the issue workflow, as functions of a workflow context:    *)
(* which task type an event asks for, which transitions and gates admit    *)
(* it, and what starting, completing, failing, closing and resetting do to *)
(* the context.                                                            *)
(*                                                                         *)
(* Source: internal/workflow (context.go, tasktype_table.go, gate_l1.go,   *)
(* policy.go), internal/dispatcher (gates.go, pipeline.go) and             *)
(* internal/store/workflow.go.  A context is a row of workflow_contexts;   *)
(* its session id is never read and is left out.                           *)
(***************************************************************************)
EXTENDS Naturals, FiniteSets

Stages    == {"idle", "analyzing", "analyzed", "developing", "reviewing", "done"}
Roles     == {"analyze", "coder", "review"}
Surfaces  == {"issue", "pr"}
Intents   == {"assign", "review_requested", "mention", "slash_dev", "slash_reply"}
TaskTypes == {"analyze_issue", "solve_issue", "fix_bug", "solve_comment",
              "reply_comment", "review_pr"}
Levels    == {"off", "soft", "hard"}
NoType    == "none"

\* agent and pr are 0 when unset, role and prev "".
Contexts(AgentIds, PrIds) ==
  [stage : Stages, prev : Stages \cup {""},
   agent : AgentIds \cup {0}, role : Roles \cup {""}, pr : PrIds \cup {0}]

FreshContext == [stage |-> "idle", prev |-> "", agent |-> 0, role |-> "", pr |-> 0]

-----------------------------------------------------------------------------
\* TaskTypeTable and ResolveTaskType: what an agent of a role is asked to do
\* on an issue or a pull request; NoType when the event starts nothing.
ResolveTaskType(role, surface, intent, bug) ==
  CASE intent = "slash_dev"   -> "solve_comment"
    [] intent = "slash_reply" -> "reply_comment"
    [] intent = "mention"     -> IF role = "coder" THEN "solve_comment" ELSE "reply_comment"
    [] intent = "assign" /\ surface = "issue" /\ role = "analyze" -> "analyze_issue"
    [] intent = "assign" /\ surface = "issue" /\ role = "coder" ->
         IF bug THEN "fix_bug" ELSE "solve_issue"
    [] intent = "review_requested" /\ surface = "pr" /\ role = "review" -> "review_pr"
    [] OTHER -> NoType

-----------------------------------------------------------------------------
\* Transition.
StageOf(role) ==
  CASE role = "analyze" -> "analyzing"
    [] role = "coder"   -> "developing"
    [] role = "review"  -> "reviewing"

TransitionAllowed(stage, role) ==
  /\ role \in Roles
  /\ stage = "analyzing" => role = "review"

\* CheckL1: a review needs an open pull request.  On a PR event that is the one
\* in the payload; on an issue event the context of the number in the payload
\* must name one.
CheckL1(role, onPr, prOpen, numberedCtx) ==
  role = "review" => IF onPr THEN prOpen ELSE numberedCtx.pr # 0

-----------------------------------------------------------------------------
\* L2 gates.
Gates == {"coder_requires_analyzed", "reanalyze_while_developing",
          "rerun_same_stage", "review_warn_if_draft", "coder_switch_agent",
          "stage_transition_unassign", "review_not_same_coder"}

\* GetPreset; an unknown name is the standard preset.
Preset(name) ==
  [g \in Gates |->
     CASE name = "free" -> "off"
       [] name = "strict" -> IF g = "review_warn_if_draft" THEN "soft" ELSE "hard"
       [] OTHER -> IF g \in {"coder_requires_analyzed", "review_warn_if_draft"}
                   THEN "off" ELSE "soft"]

\* BuildPolicy: overrides replace levels; a level that is not one is off.
BuildPolicy(name, overrides) ==
  [g \in Gates |->
     IF g \in DOMAIN overrides
     THEN IF overrides[g] \in {"soft", "hard"} THEN overrides[g] ELSE "off"
     ELSE Preset(name)[g]]

GatesForTransition(c, role) ==
  CASE role = "coder" ->
         {g \in {"coder_requires_analyzed"} : c.stage \in {"idle", "done"}}
         \cup {g \in {"rerun_same_stage"} : c.stage = "developing"}
         \cup {g \in {"coder_switch_agent"} : c.agent # 0}
    [] role = "analyze" ->
         {g \in {"reanalyze_while_developing"} : c.stage = "developing"}
         \cup {g \in {"rerun_same_stage"} : c.stage = "analyzing"}
    [] role = "review" ->
         {"review_warn_if_draft"}
         \cup {g \in {"review_not_same_coder"} : c.agent # 0}

\* EvaluateGate: the situation a gate warns of or blocks.
GateFires(g, c, agent, draft) ==
  CASE g = "coder_requires_analyzed"    -> c.stage = "idle"
    [] g = "reanalyze_while_developing" -> c.stage = "developing"
    [] g = "rerun_same_stage"           -> TRUE
    [] g = "coder_switch_agent"         -> c.agent \notin {0, agent}
    [] g = "review_warn_if_draft"       -> draft
    [] g = "review_not_same_coder"      ->
         /\ c.agent = agent /\ agent # 0
         /\ c.stage = "developing" \/ c.role = "coder"
    [] OTHER -> FALSE

\* A soft gate never blocks: it lets pass with a warning, so /force has
\* nothing to bypass.
EvaluateGate(policy, g, c, agent, draft) ==
  GateFires(g, c, agent, draft) => policy[g] # "hard"

GatesAllow(policy, c, role, agent, draft) ==
  \A g \in GatesForTransition(c, role) : EvaluateGate(policy, g, c, agent, draft)

-----------------------------------------------------------------------------
\* What happens to the context.

\* Mutant of TransitionStage: re-entering a stage keeps the old previous stage.
TransitionStageKeepingPrevious(c, stage, agent, role) ==
  [c EXCEPT !.prev = IF stage # c.stage THEN c.stage ELSE @,
            !.stage = stage, !.agent = agent, !.role = role]

\* TransitionStage: a re-entered stage has nothing to go back to.
TransitionStage(c, stage, agent, role) ==
  [c EXCEPT !.prev = IF stage # c.stage THEN c.stage ELSE "",
            !.stage = stage, !.agent = agent, !.role = role]

RecordPr(c, pr) == IF pr > 0 THEN [c EXCEPT !.pr = pr] ELSE c

RolledBack(c, stage) ==
  [c EXCEPT !.stage = stage, !.prev = "", !.agent = 0, !.role = ""]

\* Mutant of RollbackTransientStage: goes back also when there is no stage to go
\* back to.
RollbackUnguarded(c) == RolledBack(c, IF c.prev = "analyzing" THEN "idle" ELSE c.prev)

RollbackTransientStage(c) ==
  LET target == IF c.prev = "analyzing" THEN "idle" ELSE c.prev
  IN  CASE c.prev = ""       -> c
        [] target = c.stage  -> [c EXCEPT !.prev = ""]
        [] OTHER             -> RolledBack(c, target)

OnTaskComplete(c, type, pr) ==
  CASE type = "analyze_issue" -> [c EXCEPT !.stage = "analyzed"]
    [] type \in {"solve_issue", "fix_bug", "review_pr"} -> RecordPr(c, pr)
    [] type = "reply_comment" -> RollbackTransientStage(RecordPr(c, pr))
    [] type = "solve_comment" -> IF pr > 0 THEN RecordPr(c, pr) ELSE RollbackTransientStage(c)
    [] OTHER -> c

\* Mutant of OnTaskFailed: the rollback of a failed analysis is forgotten.
OnTaskFailedNoRollback(c, type) == c

OnTaskFailed(c, type) ==
  IF type = "analyze_issue" /\ c.stage = "analyzing"
  THEN RolledBack(c, IF c.prev \in {"", "analyzing"} THEN "idle" ELSE c.prev)
  ELSE c

\* Mutant of ResetContext: the row starts afresh.
ResetContextAfresh(c) == FreshContext

\* resetIssue and OnIssueClosed.
ResetContext(c) == [RolledBack(c, "idle") EXCEPT !.pr = c.pr]
ClosedContext(c) == [c EXCEPT !.stage = "done"]

=============================================================================
