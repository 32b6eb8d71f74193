CONSTANTS
  Chars = {1, 2}
  NAME_SIZE = 3
  HostNames <- MC_HostNames
  Args <- MC_Args
SPECIFICATION Spec
INVARIANTS
  SameHostnameCorrect
