CONSTANTS
  c1 = c1
  c2 = c2
  w1 = w1
  w2 = w2
  k1 = k1
  Clients = {c1, c2}
  Workers = {w1, w2}
  Keys = {k1}
  NoKey = NoKey
  MaxRequests = 2
  MaxGeneration = 2
  MaxQueuedWork = 1
  MaxCompletions = 2
  MaxStarts = 2
  MaxHeld = 0
  WithShutdown = FALSE
SPECIFICATION Spec
SYMMETRY Symmetry
INVARIANT
  OneLoadPerKey
