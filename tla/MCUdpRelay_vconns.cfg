SPECIFICATION FairSpec
CONSTANTS
  Sources = {"s"}
  Depth = 2
  MaxVconns = 2
  MaxDatagrams = 4
  Killable = TRUE
INVARIANTS Relayed NoBlackHole
PROPERTY VconnEnds
