CONSTANTS
  RUU_size = 4
  LSQ_size = 2
  ruu_commit_width = 2
  ruu_issue_width = 2
  ruu_decode_width = 2
  ruu_inorder_issue = TRUE
  ruu_include_spec = FALSE
  bugcompat_mode = TRUE
  TAG_MOD = 1000
  SEQ_MOD = 1000
  NumRegs = 2
  Addr = {0, 4}
  Insts <- MCLong
  Unit <- MCUnit
  fu_table <- MCTable
  CacheLat = {2}
  TlbLat = {1}
  MaxInsts = 5
  Endless = FALSE
SPECIFICATION Spec
INVARIANTS CreateVectorPrecise QueuesExact NoPanic
