----------------------------- MODULE MCDispatch -----------------------------
(***************************************************************************)
(* Small instances of Dispatch: every delivery concerns one issue; t1 asks *)
(* the analyze agent a1, the others the coder a2.                          *)
(***************************************************************************)
EXTENDS Dispatch, TLC

CONSTANTS t1, t2, t3, a1, a2, i1, closing, comment

MCAgentOf == [t \in Tasks |-> IF t = t1 THEN a1 ELSE a2]
MCRoleOf  == [a \in Agents |-> IF a = a1 THEN "analyze" ELSE "coder"]
MCTypeOf  == [t \in Tasks |-> IF t = t1 THEN "analyze_issue" ELSE "solve_issue"]
MCIssueOf == [t \in Tasks |-> i1]
MCEditKind  == [e \in Edits |-> IF e = closing THEN "close" ELSE "reset"]
MCEditIssue == [e \in Edits |-> i1]

\* t2 and t3 are alike.
CoderSymmetry == Permutations({t2, t3})
=============================================================================
