CONSTANTS
  w1 = w1
  w2 = w2
  w3 = w3
  mesh = mesh
  texture = texture
  Loaders <- MCLoaders
  Keys <- MCKeys
  Soft = {texture}
  Closure <- MCClosure
  Entries = {e1, e2, e3}
  NoKey = NoKey
  NoEntry = NoEntry
  MaxOperations = 1
SPECIFICATION Spec
INVARIANT
  CancelledOnlyIfStopped
