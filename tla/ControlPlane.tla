---------------------------- MODULE ControlPlane ----------------------------
(***************************************************************************)
(* The management side of the process: the configuration and the agents.   *)
(* The agent manager takes gitea.auto_provision from the configuration it  *)
(* was last given, and both restart together.                              *)
(***************************************************************************)
EXTENDS ConfigStore, AgentAccounts

vars == <<configVars, accountVars>>

ControlInit == ConfigInit /\ AccountsInit

\* A bound, for the two parts meet in one key only: of the configuration, a
\* behaviour with requests about agents has at most a switch of
\* auto_provision, between two of those requests, and restarts.
AtMostSwitched ==
  /\ faults = 0 /\ doc = NoDoc /\ asked <= 1 /\ (asked = 0 => fileMap = File[Backends])
  /\ \A k \in Keys \ {AutoProvision} : row[k] = NoRow /\ active[k] \in {File[k], Shared}
  /\ \A r \in Busy : DOMAIN req[r].batch \subseteq {AutoProvision} /\ req[r].op \in {"put", "none"}

Restart == ConfigRestart /\ AccountsRestart

ControlNext ==
  \/ /\ started = 0 \/ BusyJobs = {}
     /\ ConfigStep /\ UNCHANGED accountVars
     /\ started = 0 \/ AtMostSwitched'
  \/ /\ Busy = {} /\ AtMostSwitched
     /\ AccountsStep(live[AutoProvision] = "true") /\ UNCHANGED configVars
  \/ Restart

ControlSpec == ControlInit /\ [][ControlNext]_vars
=============================================================================
