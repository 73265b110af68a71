CONSTANTS
  ruu_ifq_size = 2
  ruu_branch_penalty = 1
  fetch_speed = 1
  ruu_decode_width = 2
  ruu_include_spec = TRUE
  own_il1 = TRUE
  INST_SIZE = 2
  PC_MOD = 16
  Text = {2, 4, 6, 8, 10, 12}
  Prog <- MCProg
  MissLat = {3}
SPECIFICATION FairSpec
INVARIANTS OnePath RightPath OnlyBranchesMispredict
PROPERTY Advances
