CONSTANTS
  NumSegments = 2
  NumDocs = 2
  Scores = {1, 2}
  Limits = {1, 2, 3, 5}
  FieldMetas <- MC_FieldMetas
  NeedIndexFeatures = {"freq"}
  NeedFeatures = {"norm"}
  NumScorers = 1
SPECIFICATION Spec
INVARIANTS
  TypeOK
  WandEquivalent
  ExhaustiveIsTopK
  ThresholdSound
CHECK_DEADLOCK FALSE
