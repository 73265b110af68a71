CONSTANTS
  nsets = 2
  assoc = 2
  hsize = 2
  Block = {1, 3, 5}
  ReadLat = {2}
  WriteLat = {1}
  MAX_WAIT = 4
  Predictors <- MCPredictors
  bimod_size = 1
  l1size = 1
  l2size = 2
  meta_size = 1
  shift_width = 1
  btb_sets = 2
  btb_assoc = 2
  retstack_size = 2
SPECIFICATION TablesSpec
INVARIANTS LookupExact WritesKept
  BtbHoldsLastTaken BtbTargetLast StackHoldsCalls CountersLearn
PROPERTIES ImplementsPolicy RecoveryRestoresStack
