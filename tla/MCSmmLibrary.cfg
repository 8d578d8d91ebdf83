SPECIFICATION MCSpec
CONSTANTS
  Base = 4
  MSG_SIZE = 20
  KEYBYTES = 9
  Modulus = 32
  Half = 16
  SMRAM_START = 10
  SMRAM_SIZE = 6
  BLOCK_LEN = 64
  LENGTH_SIZE = 3
  Weight <- MCWeight
INVARIANTS
  TypeOK
  FillsExactly
  NoByteReused
  NoModuloBias
  AcceptsExactlySmram
  CompressesPadding
CHECK_DEADLOCK FALSE
