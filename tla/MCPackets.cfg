SPECIFICATION WholeSpec
CONSTANTS
  c1 = c1
  c2 = c2
  d1 = d1
  d2 = d2
  d3 = d3
  w1 = w1
  w2 = w2
  Messages <- AllMessages
  Control <- ControlMessages
  Group <- OneGrouped
  NoGroup = 99
  Parts <- MostlyTwo
  MAX_IN_FLIGHT = 1
  MAX_DATA_IN_FLIGHT = 2
  MaxLosses = 1
  Workers <- TwoWorkers
  Block = 2
  MaxKey = 2
  MaxCounter = 6
  MaxWindow = 2
INVARIANTS ControlSurvives ReassemblySound FecFaithful NoncesUnique
PROPERTIES KernelSound
SYMMETRY Alike
CHECK_DEADLOCK FALSE
