\* Setup requests in turn, two handlers that change metadata, a login, two
\* restarts, and sessions that last one tick of two.
SPECIFICATION SSpec
CONSTANTS
  Setups = {s1, s2}
  Savers = {w1, w2}
  None = none
  SetupInTurn = TRUE
  MaxRev = 2
  MaxRestarts = 2
  Logins = {l1}
  Ttl = 1
  MaxClock = 2
INVARIANTS TypeOK Reloads
PROPERTIES StaysLoadable SessionLasts ImplementsDurable
\* The bounded requests, changes and restarts run out.
CHECK_DEADLOCK FALSE
