SPECIFICATION FairSpec
CONSTANTS
  f1 = f1
  f2 = f2
  a1 = a1
  a2 = a2
  NoChannel = NoChannel
  Timer = Timer
  Flows = {f1, f2}
  Addrs = {a1, a2}
  Expired = {f1}
  Routers <- TwoFlows
INVARIANTS NoOrphans FailsOnlyIfAllFail
PROPERTIES TokenArrives OpenersEnd
