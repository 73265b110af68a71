CONSTANTS
  RUU_size = 2
  LSQ_size = 2
  ruu_commit_width = 1
  ruu_issue_width = 1
  ruu_decode_width = 1
  ruu_inorder_issue = FALSE
  ruu_include_spec = TRUE
  bugcompat_mode = FALSE
  TAG_MOD = 2
  SEQ_MOD = 2
  NumRegs = 1
  Addr = {0, 4}
  Insts <- MCLoop
  Unit <- MCUnit
  fu_table <- MCTable
  CacheLat = {2}
  TlbLat = {1}
  MaxInsts = 4
  Endless = TRUE
SPECIFICATION EndlessSpec
PROPERTIES SpeculationEnds WindowDrains
