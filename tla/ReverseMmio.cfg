SPECIFICATION Spec
CONSTANTS
    Reg = {"r0", "r1"}
    MaxVal = 2
    Setups <- MCLogged
    Code <- MCCode
    Cores <- MCCores
    MaxInst = 4
INVARIANTS BadAddressOnlyAtCrashSite
\* The analysis of a trace ends.
CHECK_DEADLOCK FALSE
