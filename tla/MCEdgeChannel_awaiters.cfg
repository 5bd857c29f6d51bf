SPECIFICATION Spec
CONSTANTS
  d1 = d1
  b1 = b1
  p1 = p1
  Dials = {}
  Encrypted = {}
  Binds = {b1}
  Pushes = {}
  Cancels = {b1}
  QueueCap = 1
  MaxFrames = 1
  MaxInbox = 1
  Events = {"eof"}
INVARIANT EveryAwaiterWoken
CHECK_DEADLOCK FALSE
