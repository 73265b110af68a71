CONSTANTS
  ruu_ifq_size = 2
  ruu_branch_penalty = 2
  fetch_speed = 2
  ruu_decode_width = 1
  ruu_include_spec = TRUE
  own_il1 = TRUE
  INST_SIZE = 2
  PC_MOD = 10
  Text = {2, 4, 6}
  Prog <- MCLoop
  MissLat = {2}
SPECIFICATION Spec
INVARIANT StaticTaken
