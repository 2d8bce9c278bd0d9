SPECIFICATION ProcessFairSpec
CONSTANTS
  Conns = {c1, c2}
  Limits = {0, 1}
INVARIANT ExitTruthful
 
CHECK_DEADLOCK FALSE
