SPECIFICATION FairSpec
CONSTANTS
  Menu <- MCMenu
  Servers = {"u1", "u2"}
  Domains = {"x"}
  Services = {"s", "t"}
  FirstHost <- MCFirstHost
  NoService = "none"
  MaxQueries = 3
  MaxTasks = 2
  MaxMoves = 1
INVARIANTS NoLostQuery AnswersOwn
PROPERTY TaskEnds
