SPECIFICATION FairSpec
CONSTANTS
  d1 = d1
  d2 = d2
  Dials = {d1, d2}
  QueueCap = 1
  MaxData = 1
  Forms <- InstanceForms
  Events = {"down", "stall", "close", "unbind", "inspect"}
INVARIANT NoChildLeak
INVARIANT RouterTold
INVARIANT FirstDataKept
PROPERTY HandlerEnds
CHECK_DEADLOCK FALSE
