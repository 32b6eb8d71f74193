CONSTANTS
  a = a
  b = b
  c = c
  InitSegs <- MC_InitSegs
  InitSize <- MC_InitSize
  NewSegs = {n1, n2}
  FlushSizes = {1}
  MinSegments = 1
  MaxSegments = 2
  MaxSegmentsBytes = 3
  MaxAborts = 1

SPECIFICATION Spec

INVARIANTS
  TypeOK
  MergesDisjoint

PROPERTIES
  PassTerminates
