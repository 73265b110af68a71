CONSTANTS
  nsets = 1
  assoc = 2
  hsize = 0
  Block = {0, 1, 2}
  ReadLat = {1}
  WriteLat = {0}
  MAX_WAIT = 2
  Predictors <- MCPredictors
  bimod_size = 1
  l1size = 1
  l2size = 2
  meta_size = 1
  shift_width = 1
  btb_sets = 2
  btb_assoc = 2
  retstack_size = 2
SPECIFICATION TablesSpec
INVARIANT FastHitSound
