CONSTANTS
  StrValues <- MC_StrValues
SPECIFICATION Spec
INVARIANTS
  OneTokenPerReset
