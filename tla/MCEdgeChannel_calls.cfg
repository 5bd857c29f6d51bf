SPECIFICATION Spec
CONSTANTS
  d1 = d1
  b1 = b1
  p1 = p1
  Dials = {d1}
  Encrypted = {d1}
  Binds = {b1}
  Pushes = {p1}
  Cancels = {d1}
  QueueCap = 1
  MaxFrames = 2
  MaxInbox = 1
  Events = {"eof", "down", "drop", "conndrop", "stray"}
INVARIANTS NothingLost NoFalseEof NoZombies RepliesDelivered NoLeaks
CONSTRAINT TwoCalls
CHECK_DEADLOCK FALSE
