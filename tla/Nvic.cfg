CONSTANTS
  Ext = {16, 17, 18}
  DisabledByConfig = {18}
  Prios = {0, 64}
  PrioExc = {16}
  Basepris = {64}
  Prigroups = {0}
  InterruptLimit = 2
  LatePend = FALSE
SPECIFICATION FairSpec
INVARIANTS TypeOK HandlerModeConsistent ReturnIsConsistent FuzzListExact CacheExact
PROPERTIES TakesTheRightOne NoLostActivation PendingIsTaken
CHECK_DEADLOCK FALSE
