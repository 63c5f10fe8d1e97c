\* One launch, one restart of the app.
SPECIFICATION Spec
CONSTANTS
  Attempts = 2
  MaxGen = 1
  MaxRestarts = 1
INVARIANT WorkaroundGuaranteed
