CONSTANTS
  Node = {1, 2}
  e1 = e1
  e2 = e2
  Element = {e1, e2}
  Writer <- MixedWriters
  Key = "set"
  MaxOps = 3
  MaxMsgs = 2
SPECIFICATION Spec
INVARIANTS TypeOK TimestampsIssued CausallyClosed KnowledgeComplete OwnedConvergence LastWriterWins
PROPERTY OwnOperationsVisible
