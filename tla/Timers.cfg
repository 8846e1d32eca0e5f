SPECIFICATION Spec
CONSTANTS
    MAX_TIMERS = 3
    MAX_RELOAD_VAL = 4
    Reloads = {0, 1, 3}
    FuzzTimeout = 3
    W = 16
    FuzzedTriggers = FALSE
    Removable = {2}
INVARIANTS TypeOK ActiveSorted NothingPassedOver
PROPERTIES RefinesAbstract WatchdogBites
