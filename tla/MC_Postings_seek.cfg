CONSTANTS
  t0 = t0
  t2 = t2
  t3 = t3
  t4 = t4
  t5 = t5
  Terms <- MC_Terms
  TermLen <- MC_TermLen
  BLOCK_SIZE = 4
  MaxBlocks = 4
  Free = Free
  NoRef = NoRef
SPECIFICATION Spec
PROPERTY
  NoWriteNoSeek
