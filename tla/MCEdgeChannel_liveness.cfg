SPECIFICATION FairSpec
CONSTANTS
  d1 = d1
  b1 = b1
  p1 = p1
  Dials = {d1}
  Encrypted = {}
  Binds = {}
  Pushes = {}
  Cancels = {}
  QueueCap = 1
  MaxFrames = 2
  MaxInbox = 1
  Events = {"probe", "stall", "close"}
PROPERTIES SendersReleased StallReleased
CHECK_DEADLOCK FALSE
