CONSTANTS
  c1 = c1
  c2 = c2
  w1 = w1
  w2 = w2
  k1 = k1
  Clients = {c1, c2}
  Workers = {w1}
  Keys = {k1}
  NoKey = NoKey
  MaxRequests = 1
  MaxGeneration = 3
  MaxQueuedWork = 1
  MaxCompletions = 1
  MaxStarts = 3
  MaxHeld = 1
  WithShutdown = TRUE
SPECIFICATION Spec
SYMMETRY Symmetry
INVARIANTS
  ReservationsAreExact
  CompletionsNeverRefused
