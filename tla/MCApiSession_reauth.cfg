SPECIFICATION FairSpec
CONSTANTS
  f1 = f1
  f2 = f2
  Flows = {f1}
  Cancels = {f1}
  Kinds = {"legacy", "oidc", "parked"}
  Logins = {"cert", "updb"}
  MaxTokens = 2
  MaxSessions = 3
  MaxErrors = 1
  Events = {"expire", "delete", "timer", "removed"}
INVARIANT TypeOK
PROPERTIES TokenNeverBack FlowEnds
CHECK_DEADLOCK FALSE
