----------------------------- MODULE MCAgentRun -----------------------------
(* Values for AgentRun: every backend, a small budget that the tools and a  *)
(* long result exceed, one verify command, a limit of two rounds without    *)
(* progress, an MCP tool, and three skill files: one of the gateway, one of *)
(* the repository that it hides, and one without a name of its own whose    *)
(* script takes the name of a builtin tool.                                 *)
EXTENDS AgentRun
MCBackends ==
  {[type |-> "builtin", sync |-> FALSE], [type |-> "unknown", sync |-> FALSE]}
  \cup [type : {"hermes", "opencode"}, sync : BOOLEAN]
MCAgentLoop == [maxIterations |-> 3, noProgressLimit |-> 2, verify |-> <<"go test">>, checker |-> TRUE]
MCDefaultLoop == [maxIterations |-> 20, noProgressLimit |-> 0, verify |-> << >>, checker |-> FALSE]
MCCalls == {"ls", "cat", "run_command", "apply_diff", "list_skills", "load_skill", "deploy"}
File(place, entry, nested, format, scripts) ==
  [dir |-> place, entry |-> entry, nested |-> nested, format |-> format, name |-> "",
   scripts |-> scripts, notes |-> {}]
MCGatewaySkills == << File("skills", "release", TRUE, "yaml", {"deploy"}) >>
MCWorkspaceSkills == << File(".agents/skills", "notes", FALSE, "plain", {"read_file"}),
                        File("skills", "release", FALSE, "yaml", {"publish"}) >>
(* No action and no property reads what earlier executions logged. *)
MCView == <<taskVars, repoVars, toolVars, msgs, start, next, iter, calls, tries, last, stall, snaps,
            Mine, slips, gateVars, outcome>>
=============================================================================
