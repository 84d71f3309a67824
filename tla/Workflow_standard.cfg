SPECIFICATION Spec
CONSTANTS
  AgentIds <- MCAgentIds
  RoleOf <- MCRoleOf
  Policy = "standard"
  TriggerIntents = {"assign", "review_requested", "mention", "slash_dev", "slash_reply"}
  PrId = 7
  MayFail = TRUE
  MayClose = TRUE
INVARIANT TypeOK
PROPERTIES ReplyIsNeutral RetryAfterFailure PrLinkKept
