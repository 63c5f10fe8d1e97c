\* One container name, a persistent operator, one interrupted launch.
SPECIFICATION PersistentSpec
CONSTANTS
  Names = {na}
  Warmup = warmup
  Adders = {a1}
  Removers = {r1}
  Max = 1
  MaxRestarts = 0
  MaxKilled = 0
PROPERTY Removable
\* A pool full of half-launched containers accepts no request: a real dead end.
CHECK_DEADLOCK FALSE
