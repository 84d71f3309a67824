CHECK_DEADLOCK FALSE
CONSTANTS
  Kinds = {"write", "analyze", "review", "reply"}
  Backends <- MCBackends
  Models = {"tools", "denied", "sparse", "plain"}
  Calls <- MCCalls
  AgentLoop <- MCAgentLoop
  DefaultLoop <- MCDefaultLoop
  AgentMaxInput = 0
  ContextWindow = 19
  DefaultMaxInput = 9
  ToolTokens = 1
  McpTools = {"query"}
  GatewaySkills <- MCGatewaySkills
  WorkspaceSkills <- MCWorkspaceSkills
  LLMRetries = 1
  EmitRetries = 1
  Texts = {"text"}
  MaxCalls = 1
  MaxAttempts = 2
  MaxFaults = 1
  None = None
SPECIFICATION Spec
VIEW MCView
INVARIANTS
  AgentTypeOK
  AnalyzeAddsNothing
  PushedIsVerified
  NoLeftover
  StallIsReal
  LogComplete
