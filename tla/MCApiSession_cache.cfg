SPECIFICATION Spec
CONSTANTS
  f1 = f1
  f2 = f2
  Flows = {f1, f2}
  Cancels = {}
  Kinds = {"legacy"}
  Logins = {"cert"}
  MaxTokens = 2
  MaxSessions = 5
  MaxErrors = 1
  Events = {"expire", "tick", "refresh"}
INVARIANTS NoResurrection OneReauthPerToken ExpiryRecovered
PROPERTY PurgeOnlyDead
CHECK_DEADLOCK FALSE
