CONSTANTS
  RUU_size = 4
  LSQ_size = 2
  ruu_commit_width = 1
  ruu_issue_width = 1
  ruu_decode_width = 2
  ruu_inorder_issue = FALSE
  ruu_include_spec = TRUE
  bugcompat_mode = FALSE
  TAG_MOD = 1000
  SEQ_MOD = 1000
  NumRegs = 1
  Addr = {0, 4}
  Insts <- MCIncrement
  Unit <- MCUnit
  fu_table <- MCTable
  CacheLat = {1, 3}
  TlbLat = {1}
  MaxInsts = 4
  Endless = FALSE
SPECIFICATION Spec
INVARIANTS StoreHasNoResult
