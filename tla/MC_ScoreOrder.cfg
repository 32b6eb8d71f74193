CONSTANTS
  tA = tA
  tB = tB
  Types <- MC_Types
  ScoreSize <- MC_ScoreSize
  Values = {0, 1}
  MaxSorts = 3
SPECIFICATION Spec
INVARIANTS
  ScoresReadBack
