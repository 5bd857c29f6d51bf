SPECIFICATION FairSpec
CONSTANTS
  Encrypted = TRUE
  Headerless = {"host"}
  Killable = {"dialer"}
  SocketErrs = {"host"}
  Stuck = {"dialer"}
  Stalls = {"dialer"}
  MayLose = TRUE
  MaxChunks = 2
INVARIANT BothWaysComplete
PROPERTIES ImplementsPipe SpliceEnds KillEnds
