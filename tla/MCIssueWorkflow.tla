--------------------------- MODULE MCIssueWorkflow ---------------------------
\* One analyze agent (1), two coders (2, 3) and one review agent (4).
EXTENDS IssueWorkflow

MCAgentIds == 1..4
MCRoleOf == [a \in MCAgentIds |-> CASE a = 1 -> "analyze" [] a = 4 -> "review" [] OTHER -> "coder"]
=============================================================================
