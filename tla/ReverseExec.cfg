SPECIFICATION Spec
CONSTANTS
    Reg = {"r0", "r1"}
    MaxVal = 2
    Setups <- MCSetups
    Code <- MCCode
    Cores <- MCCores
    MaxInst = 4
INVARIANTS TypeOK ValuesSound NothingLeftToInfer WorklistsExact
PROPERTIES KnowledgeKept WorkDecreases
\* The analysis of a trace ends.
CHECK_DEADLOCK FALSE
