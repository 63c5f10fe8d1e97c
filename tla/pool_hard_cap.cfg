\* Two overlapping requests to add against the documented hard cap.
SPECIFICATION Spec
CONSTANTS
  Names = {na, nb, nc}
  Warmup = warmup
  Adders = {a1, a2}
  Removers = {r1}
  Max = 2
  MaxRestarts = 0
  MaxKilled = 0
INVARIANT HardCap
