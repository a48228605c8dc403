SPECIFICATION Spec
CONSTANTS
  w1 = w1
  w2 = w2
  Worker <- MCWorker
  MaxStarts = 3
SYMMETRY Symmetry
CHECK_DEADLOCK FALSE
INVARIANT BehindTheGate
INVARIANT ServesTheCurrent
PROPERTY LoadsBehindTheGate
