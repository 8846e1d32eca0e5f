CONSTANTS
    Setups <- MCSetups
    Inputs <- MCInputs
    BlockLimit = 9
    FuzzConsumptionTimeout = 6
    ExitAtHitLimit = 2
    MaxReloadVal = 20
    LinearVals = 4
SPECIFICATION Spec
CHECK_DEADLOCK FALSE
INVARIANTS TypeOK ReadsOwnInput SnapshotBeforeInput
PROPERTIES RunsAlike EveryRunReported
