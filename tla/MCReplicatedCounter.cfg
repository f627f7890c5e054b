CONSTANTS
  Node = {1, 2, 3}
  Delta = {1, 2}
  Key = "counter"
  MaxOps = 2
  MaxMsgs = 2
SPECIFICATION Spec
INVARIANTS TypeOK CountsExact CounterConverges
PROPERTY ImplementsGCounter
