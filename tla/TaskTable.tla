----------------------------- MODULE TaskTable -----------------------------
(***************************************************************************)
(* What the queue and the executor promise of the tasks table in           *)
(* serial_queue, with no channel, scanner, worker, slot or registry.  A    *)
(* task is taken when it is pending or running and its agent does nothing  *)
(* else; it is started once, and ends once.  Nothing else ends it but a    *)
(* reset, which does not touch a success and does not stop what was taken, *)
(* or a restart, which makes a running task of a hub pending again and     *)
(* fails the others.                                                       *)
(*                                                                         *)
(* TaskEngine implements it: what its copies of a task in the channel, its *)
(* dropped pushes and its retries do is not visible here.                  *)
(***************************************************************************)
CONSTANTS Tasks, AgentOf, Remote

VARIABLES
  row,    \* the status column
  phase   \* what an executor does with the task: "none", "taken" or "started"

vars == <<row, phase>>

Init == /\ row = [t \in Tasks |-> "absent"]
        /\ phase = [t \in Tasks |-> "none"]

Submit(t) == /\ row[t] = "absent"
             /\ row' = [row EXCEPT ![t] = "pending"]
             /\ UNCHANGED phase

\* Its agent neither works for another task nor has another one running.
AgentFree(t) ==
  \A u \in Tasks \ {t} : AgentOf[u] = AgentOf[t] => phase[u] = "none" /\ row[u] # "running"

Take(t) == /\ phase[t] = "none"
           /\ row[t] \in {"pending", "running"}
           /\ AgentFree(t)
           /\ phase' = [phase EXCEPT ![t] = "taken"]
           /\ UNCHANGED row

\* Also when a reset has failed it since it was taken.
Start(t) == /\ phase[t] = "taken"
            /\ phase' = [phase EXCEPT ![t] = "started"]
            /\ row' = [row EXCEPT ![t] = "running"]

Finish(t) == /\ phase[t] = "started"
             /\ phase' = [phase EXCEPT ![t] = "none"]
             /\ \E s \in {"success", "failed", "partial"} : row' = [row EXCEPT ![t] = s]

\* A cancelled execution leaves the row to the reset that cancelled it.
GiveUp(t) == /\ phase[t] = "started"
             /\ phase' = [phase EXCEPT ![t] = "none"]
             /\ UNCHANGED row

Reset == /\ \E S \in SUBSET {t \in Tasks : row[t] \in {"pending", "running", "partial"}} :
              row' = [t \in Tasks |-> IF t \in S THEN "failed" ELSE row[t]]
         /\ UNCHANGED phase

AfterRestart(t) ==
  IF row[t] # "running" THEN {row[t]}
  ELSE IF t \in Remote THEN {"pending", "failed"} ELSE {"failed"}

Restart == /\ row' = [t \in Tasks |-> row'[t]]
           /\ \A t \in Tasks : row'[t] \in AfterRestart(t)
           /\ phase' = [t \in Tasks |-> "none"]

Next == \/ \E t \in Tasks : Submit(t) \/ Take(t) \/ Start(t) \/ Finish(t) \/ GiveUp(t)
        \/ Reset
        \/ Restart

Spec == Init /\ [][Next]_vars
=============================================================================
