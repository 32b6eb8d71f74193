CONSTANTS
  Fields = {f1, f2}
  Contexts = {c1}
  EOF = 3
  MaxFlushes = 1
SPECIFICATION Spec
INVARIANTS
  TypeOK
  FailedDocsMasked
  LiveDocsCommitted
PROPERTY
  ImplementsDocTransaction
  CommitIsFinal
