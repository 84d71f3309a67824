---------------------------- MODULE MCTaskEngine ----------------------------
(***************************************************************************)
(* Small instances of TaskEngine.  t1 and t2 belong to one agent and one   *)
(* issue, t3 to another agent and another issue; t1 is a hub task.         *)
(***************************************************************************)
EXTENDS TaskEngine, TLC

CONSTANTS t1, t2, t3, a1, a2, i1, i2

MCAgentOf == [t \in Tasks |-> IF t = t3 THEN a2 ELSE a1]
MCIssueOf == [t \in Tasks |-> IF t = t3 THEN i2 ELSE i1]

\* Workers are interchangeable.
WorkerSymmetry == Permutations(Workers)
=============================================================================
