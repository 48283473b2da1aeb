SPECIFICATION CallSpec
CONSTANTS
  r1 = r1
  r2 = r2
  r3 = r3
  p1 = p1
  p2 = p2
  Runs = {r1, r2, r3}
  Processes = {p1, p2}
  Home <- ThreeHomes
  Mixes <- ThreeChats
  Amount = 2
  SpentBefore = 1
  MaxCalls = 1
  MaxTrouble = 0
INVARIANTS OvershootByOne
CHECK_DEADLOCK FALSE
