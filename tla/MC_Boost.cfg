CONSTANTS
  Values = {0, 1, 2, 3}
  MaxApplies = 4

SPECIFICATION Spec

CONSTRAINT BoundedApplies

INVARIANTS
  ExtractIsProduct
