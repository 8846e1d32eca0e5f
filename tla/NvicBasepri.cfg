CONSTANTS
  Ext = {16}
  DisabledByConfig = {}
  Prios = {0}
  PrioExc = {16}
  Basepris = {64, 128}
  Prigroups = {0}
  InterruptLimit = 3
  LatePend = FALSE
SPECIFICATION Spec
PROPERTY NoLostActivationAnyBasepri
CHECK_DEADLOCK FALSE
