\* Two overlapping requests to add, one to remove, a cap of two, one
\* restart, one creation that outlives its client.
SPECIFICATION FairSpec
CONSTANTS
  Names = {na, nb, nc, nd}
  Warmup = warmup
  Adders = {a1, a2}
  Removers = {r1}
  Max = 2
  MaxRestarts = 1
  MaxKilled = 1
INVARIANTS TypeOK PlacesTaken CapBound
PROPERTY WarmSettles
\* A pool full of half-launched containers accepts no request: a real dead end.
CHECK_DEADLOCK FALSE
