\* A name launched twice, two attempts at the fix, one restart of the app.
SPECIFICATION FairSpec
CONSTANTS
  Attempts = 2
  MaxGen = 2
  MaxRestarts = 1
INVARIANTS TypeOK LoopNeedsOverlap KmsgFollowsUnit OkMeansK9s
PROPERTY GoroutinesEnd
