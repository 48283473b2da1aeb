SPECIFICATION CallSpec
CONSTANTS
  r1 = r1
  r2 = r2
  r3 = r3
  p1 = p1
  p2 = p2
  Runs = {r1, r2}
  Processes = {p1, p2}
  Home <- TwoHomes
  Mixes <- TwoMixes
  Amount = 2
  SpentBefore = 0
  MaxCalls = 2
  MaxTrouble = 1
INVARIANTS WithinLimit ChargedOnce
PROPERTY ImageRunsEnd
CHECK_DEADLOCK FALSE
