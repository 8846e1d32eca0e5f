SPECIFICATION Spec
CONSTANTS
    Ext = {16, 17, 18}
    IndexW = 4
    IrqBytes = {0, 1, 3}
    ReloadChoices = {1, 3}
    Timer = {"t1", "systick"}
    NoTimer = "none"
    MaxReload = 4
    timer_ind = "systick"
    TICKS_10_MS = 1
    UserReload = 0
    ReloadMask = 4
    RvrValues = {0, 9}
    SYSTICK = 15
    Trigger = {"t1"}
    Configs <- MCConfigs
INVARIANTS TypeOK
PROPERTIES ProgressPastTrigger RoundRobinFair SysTickTicks
